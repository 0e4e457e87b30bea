------------------------------ MODULE Workers ------------------------------
(***************************************************************************)
(* The life of a processor process, the same program for the three         *)
(* workers: main starts the worker and waits for its Ready channel; a      *)
(* goroutine calls Consume again and again, each call being one session of *)
(* the consumer group with a ConsumeClaim per partition; SIGTERM ends it.  *)
(* What the claims do with a message is in Registro, Consulta, Archiver.   *)
(*                                                                         *)
(* registro's Setup closes Ready, those of consulta and archiver send on   *)
(* it.  Each call of make gives a new channel, here the next number.       *)
(***************************************************************************)
EXTENDS Integers, FiniteSets

CONSTANTS Claims,       \* partitions assigned to the process
          MaxFalhas,    \* bound: calls of Consume that end before Setup
          MaxSessoes    \* bound: sessions ended by a rebalance

ASSUME WorkersAssumption == MaxFalhas \in Nat /\ MaxSessoes \in Nat

VARIABLES worker,     \* flag -proc, fixed for the life of the process
          principal,  \* main: "inicia", "espera", "roda", "fecha"
          espera,     \* the channel main receives from (0: none yet)
          laco,       \* goroutine of Consume: "chama", "setup", "sessao",
                      \* "retorna", "fim"
          ready,      \* the channel in the field consumer.Ready
          fechados,   \* channels closed
          claims,     \* ConsumeClaim of each partition: "livre" in its select,
                      \* "ocupado" with a message, "fim"
          sessaoViva, \* the context of the session is not cancelled
          ctxVivo,    \* nor that of main
          processo,   \* "vivo", or how it ended: "retorno", "sinal", "panico"
          gastoWorkers

vars == <<worker, principal, espera, laco, ready, fechados, claims, sessaoViva,
          ctxVivo, processo, gastoWorkers>>
mainVars == <<principal, espera>>
loopVars == <<laco, ready>>

Gasta(tipo, max) ==
  gastoWorkers[tipo] < max /\ gastoWorkers' = [gastoWorkers EXCEPT ![tipo] = @ + 1]

Vivo == processo = "vivo" /\ UNCHANGED worker

-----------------------------------------------------------------------------
(* main evaluates consumer.Ready and then waits on the channel it found    *)
(* there, whatever the other goroutine puts in the field afterwards.       *)
EsperaReady ==
  /\ Vivo /\ principal = "inicia"
  /\ principal' = "espera" /\ espera' = ready
  /\ UNCHANGED <<loopVars, fechados, claims, sessaoViva, ctxVivo, processo, gastoWorkers>>

ReadyFechado ==
  /\ Vivo /\ principal = "espera" /\ espera \in fechados
  /\ principal' = "roda"
  /\ UNCHANGED <<espera, loopVars, fechados, claims, sessaoViva, ctxVivo, processo, gastoWorkers>>

(* Slip: client.Close is deferred last, and so runs before cancel.         *)
SigtermSemCancelar ==
  /\ Vivo /\ Gasta("sinais", 1)
  /\ IF principal \in {"inicia", "espera"}
     THEN processo' = "sinal" /\ UNCHANGED principal
     ELSE principal' = "fecha" /\ UNCHANGED processo
  /\ UNCHANGED <<espera, loopVars, fechados, claims, sessaoViva, ctxVivo>>

(* SIGTERM before signal.Notify kills.  After it main's deferred calls     *)
(* cancel the context, hence the session, and get to client.Close.         *)
Sigterm ==
  /\ Vivo /\ Gasta("sinais", 1)
  /\ IF principal \in {"inicia", "espera"}
     THEN processo' = "sinal" /\ UNCHANGED <<principal, sessaoViva, ctxVivo>>
     ELSE /\ principal' = "fecha" /\ sessaoViva' = FALSE /\ ctxVivo' = FALSE
          /\ UNCHANGED processo
  /\ UNCHANGED <<espera, loopVars, fechados, claims>>

(* client.Close needs the lock that Consume holds until it returns; then   *)
(* main returns and the process with it.                                   *)
Fecha ==
  /\ Vivo /\ principal = "fecha"
  /\ laco \notin {"setup", "sessao"}
  /\ processo' = "retorno"
  /\ UNCHANGED <<mainVars, loopVars, fechados, claims, sessaoViva, ctxVivo, gastoWorkers>>

-----------------------------------------------------------------------------
(* Consume joins the group and calls Setup, even if main's context was     *)
(* cancelled just before; or it returns an error.                          *)
Consume ==
  /\ Vivo /\ laco = "chama"
  /\ laco' = "setup"
  /\ sessaoViva' = ctxVivo
  /\ UNCHANGED <<mainVars, ready, fechados, claims, ctxVivo, processo, gastoWorkers>>

ConsumeFalha ==
  /\ Vivo /\ laco = "chama"
  /\ IF ctxVivo THEN Gasta("falhas", MaxFalhas) ELSE UNCHANGED gastoWorkers
  /\ laco' = "retorna"
  /\ UNCHANGED <<mainVars, ready, fechados, claims, sessaoViva, ctxVivo, processo>>

AbreClaims == laco' = "sessao" /\ claims' = [c \in Claims |-> "livre"]

(* RegistroConsumer.Setup: closing a closed channel panics.                *)
SetupFecha ==
  /\ Vivo /\ worker = "registro" /\ laco = "setup"
  /\ IF ready \in fechados
     THEN processo' = "panico" /\ UNCHANGED <<laco, fechados, claims>>
     ELSE fechados' = fechados \cup {ready} /\ AbreClaims /\ UNCHANGED processo
  /\ UNCHANGED <<mainVars, ready, sessaoViva, ctxVivo, gastoWorkers>>

(* Setup of the two others: the channel has no buffer, so the send and     *)
(* main's receive are one step, and only on the same channel.              *)
SetupEnvia ==
  /\ Vivo /\ worker # "registro" /\ laco = "setup"
  /\ principal = "espera" /\ espera = ready
  /\ principal' = "roda" /\ AbreClaims
  /\ UNCHANGED <<espera, ready, fechados, sessaoViva, ctxVivo, processo, gastoWorkers>>

(* A claim takes a message.  The few it may still take from its buffer     *)
(* after the session is cancelled are as one longer message.               *)
Recebe(c) ==
  /\ Vivo /\ laco = "sessao" /\ sessaoViva
  /\ claims[c] = "livre"
  /\ claims' = [claims EXCEPT ![c] = "ocupado"]
  /\ UNCHANGED <<mainVars, loopVars, fechados, sessaoViva, ctxVivo, processo, gastoWorkers>>

Conclui(c) ==
  /\ Vivo /\ claims[c] = "ocupado" /\ sessaoViva
  /\ claims' = [claims EXCEPT ![c] = "livre"]
  /\ UNCHANGED <<mainVars, loopVars, fechados, sessaoViva, ctxVivo, processo, gastoWorkers>>

(* The session is cancelled: the select of a claim in it sees Done first.  *)
(* A claim that comes back from a message finds Done and the closed        *)
(* channel of messages alike; taking the second, consulta goes on with a   *)
(* nil message and panics, the others return.                              *)
TerminaClaim(c) ==
  /\ Vivo /\ laco = "sessao" /\ ~sessaoViva /\ claims[c] # "fim"
  /\ \/ claims' = [claims EXCEPT ![c] = "fim"] /\ UNCHANGED processo
     \/ /\ worker = "consulta" /\ claims[c] = "ocupado"
        /\ processo' = "panico" /\ UNCHANGED claims
  /\ UNCHANGED <<mainVars, loopVars, fechados, sessaoViva, ctxVivo, gastoWorkers>>

(* Members come and go.  The heartbeat runs during Setup, too.             *)
Rebalanceia ==
  /\ Vivo /\ laco \in {"setup", "sessao"} /\ sessaoViva
  /\ Gasta("sessoes", MaxSessoes)
  /\ sessaoViva' = FALSE
  /\ UNCHANGED <<mainVars, loopVars, fechados, claims, ctxVivo, processo>>

(* release: Consume returns once every ConsumeClaim has.                   *)
SoltaSessao ==
  /\ Vivo /\ laco = "sessao" /\ \A c \in Claims : claims[c] = "fim"
  /\ laco' = "retorna"
  /\ UNCHANGED <<mainVars, ready, fechados, claims, sessaoViva, ctxVivo, processo, gastoWorkers>>

(* Slip: Ready is kept from one session to the next.                       *)
ContinuaComOMesmo ==
  /\ Vivo /\ laco = "retorna"
  /\ laco' = IF ctxVivo THEN "chama" ELSE "fim"
  /\ UNCHANGED <<mainVars, ready, fechados, claims, sessaoViva, ctxVivo, processo, gastoWorkers>>

(* Slip: Ready is set to nil.                                              *)
ContinuaSemReady ==
  /\ Vivo /\ laco = "retorna"
  /\ IF ctxVivo THEN laco' = "chama" /\ ready' = 0
                ELSE laco' = "fim" /\ UNCHANGED ready
  /\ UNCHANGED <<mainVars, fechados, claims, sessaoViva, ctxVivo, processo, gastoWorkers>>

(* Slip: an error of Consume ends the goroutine.                           *)
DesisteComErro ==
  /\ Vivo /\ laco = "retorna"
  /\ IF sessaoViva THEN laco' = "fim" /\ UNCHANGED ready
                   ELSE laco' = "chama" /\ ready' = ready + 1
  /\ UNCHANGED <<mainVars, fechados, claims, sessaoViva, ctxVivo, processo, gastoWorkers>>

(* Consume returned: the end if main's context is over, else a new Ready.  *)
Continua ==
  /\ Vivo /\ laco = "retorna"
  /\ IF ctxVivo THEN laco' = "chama" /\ ready' = ready + 1
                ELSE laco' = "fim" /\ UNCHANGED ready
  /\ UNCHANGED <<mainVars, fechados, claims, sessaoViva, ctxVivo, processo, gastoWorkers>>

-----------------------------------------------------------------------------
Init ==
  /\ worker \in {"registro", "consulta", "archiver"}
  /\ principal = "inicia" /\ espera = 0
  /\ laco = "chama" /\ ready = 1 /\ fechados = {}
  /\ claims = [c \in Claims |-> "fim"]
  /\ sessaoViva = TRUE /\ ctxVivo = TRUE
  /\ processo = "vivo"
  /\ gastoWorkers = [t \in {"falhas", "sessoes", "sinais"} |-> 0]

Principal == EsperaReady \/ ReadyFechado \/ Fecha
Laco == Consume \/ ConsumeFalha \/ SetupFecha \/ SetupEnvia \/ SoltaSessao \/ Continua

Next ==
  \/ Principal \/ Laco
  \/ \E c \in Claims : Recebe(c) \/ Conclui(c) \/ TerminaClaim(c)
  \/ Sigterm \/ Rebalanceia

Spec == Init /\ [][Next]_vars

(* Goroutines that can go on do, and a message is handled in the end (the  *)
(* 30 s, three attempts); messages, rebalances and SIGTERM owe nothing.    *)
FairSpec ==
  /\ Spec /\ WF_vars(Principal) /\ WF_vars(Laco)
  /\ \A c \in Claims : WF_vars(Conclui(c) \/ TerminaClaim(c))

-----------------------------------------------------------------------------
TypeOK ==
  /\ worker \in {"registro", "consulta", "archiver"}
  /\ principal \in {"inicia", "espera", "roda", "fecha"}
  /\ espera \in Nat /\ ready \in Nat \ {0} /\ fechados \subseteq 1..ready
  /\ laco \in {"chama", "setup", "sessao", "retorna", "fim"}
  /\ claims \in [Claims -> {"livre", "ocupado", "fim"}]
  /\ sessaoViva \in BOOLEAN /\ ctxVivo \in BOOLEAN
  /\ processo \in {"vivo", "retorno", "sinal", "panico"}
  /\ gastoWorkers \in [{"falhas", "sessoes", "sinais"} -> Nat]

(* registro's Setup closes Ready in every session, and the goroutine puts  *)
(* a new one in its place between two sessions without a lock: however     *)
(* many sessions there are and however Consume fails, no channel is closed *)
(* twice (only consulta, on a nil message, ever panics).                   *)
ReadyFechaUmaVez == processo = "panico" => worker = "consulta"

SemFaltas == gastoWorkers["falhas"] = 0 /\ gastoWorkers["sessoes"] = 0

(* registro comes back to a session after every rebalance and every failed *)
(* Consume; the two others at least get their first one.                   *)
SempreEmSessao == []<>(
  \/ laco = "sessao" \/ processo # "vivo" \/ ~ctxVivo
  \/ worker # "registro" /\ ~SemFaltas)

(* main.go:91: after SIGTERM the process ends, by itself: registro always, *)
(* the two others if they are still in their first session.                *)
EncerraComSessao ==
  (gastoWorkers["sinais"] = 1 /\ (worker = "registro" \/ SemFaltas)) ~> processo # "vivo"

(* main.go:91 says so of every processor, whatever the group did before.   *)
SempreEncerra == gastoWorkers["sinais"] = 1 ~> processo # "vivo"

=============================================================================
