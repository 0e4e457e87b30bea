------------------------------ MODULE Archiver ------------------------------
(***************************************************************************)
(* The archiver processor: one goroutine per partition of registro.media   *)
(* inserts each event into archiver.event_store, tries three times, and    *)
(* goes on with the next message whatever became of this one.  A message   *)
(* that failed is not marked, but marking a later one passes over it.  All *)
(* the goroutines use one pgx.Conn, which is never opened again.           *)
(*                                                                         *)
(* The processed map is left out: a restart empties it, and no second      *)
(* session of the same process ever reads (see Rebalanceia).               *)
(***************************************************************************)
EXTENDS Integers, Sequences, Functions

CONSTANTS Particoes, EventIds, ParticaoDo, MaxCopias,
          MaxFalhas,    \* bound: INSERTs refused, the connection staying open
          MaxCortes,    \* bound: INSERTs cut off, the connection being closed
          MaxSessoes,   \* bound: consumer-group rebalances
          MaxReinicios  \* bound: ends of the process

ASSUME ParticaoDoAssumption == ParticaoDo \in [EventIds -> Particoes]
ASSUME ArchiverBoundsAssumption ==
  /\ MaxCopias \in [EventIds -> Nat] /\ MaxFalhas \in Nat /\ MaxCortes \in Nat
  /\ MaxSessoes \in Nat /\ MaxReinicios \in Nat

VARIABLES topico, arquivo,
          desistidos,  \* history: the offsets refused a third time (EventStore)
          conexao,     \* "aberta", or "fechada" for good
          sessao,      \* the group session is "ativa", or "presa" in Setup
          proximo,     \* messages of the claim already taken, per partition
          marcado,     \* highest offset marked in the session
          confirmado,  \* offset committed to the group
          tentativa,   \* attempts already failed on the message at hand
          gastoArquivo

locais == <<proximo, marcado, tentativa>>
vars == <<topico, arquivo, desistidos, conexao, sessao, proximo, marcado, confirmado,
          tentativa, gastoArquivo>>

ES == INSTANCE EventStore

PagaArquivo(tipo, max) ==
  /\ gastoArquivo[tipo] < max
  /\ gastoArquivo' = [gastoArquivo EXCEPT ![tipo] = @ + 1]

maxRetriesDois == 2   \* slip: the loop stops one attempt short
maxRetries == 3
Recusas == 3          \* refusals of one event in a row that the archive may be missing it for

Offset(p) == proximo[p] + 1
EventId(p) == topico[p][Offset(p)]
Tenta(p) == sessao = "ativa" /\ proximo[p] < Len(topico[p])

(* The next message is taken up; session.MarkMessage if this one was done. *)
Avanca(p, marca) ==
  /\ proximo' = [proximo EXCEPT ![p] = @ + 1]
  /\ marcado' = IF marca THEN [marcado EXCEPT ![p] = Offset(p)] ELSE marcado
  /\ tentativa' = [tentativa EXCEPT ![p] = 0]

(* Slip: the column event_id is not UNIQUE.                                *)
SaveEventSemUnique(p) ==
  /\ Tenta(p) /\ conexao = "aberta"
  /\ arquivo' = Append(arquivo, EventId(p))
  /\ Avanca(p, TRUE)
  /\ UNCHANGED <<topico, desistidos, conexao, sessao, confirmado, gastoArquivo>>

(* The INSERT succeeds: the event is new to the table.                     *)
SaveEvent(p) ==
  /\ Tenta(p) /\ conexao = "aberta"
  /\ EventId(p) \notin Range(arquivo)
  /\ arquivo' = Append(arquivo, EventId(p))
  /\ Avanca(p, TRUE)
  /\ UNCHANGED <<topico, desistidos, conexao, sessao, confirmado, gastoArquivo>>

(* Slip: a message given up is marked like any other.                      *)
TentativaFalhaMarca(p) ==
  /\ IF tentativa[p] + 1 < maxRetries
     THEN /\ tentativa' = [tentativa EXCEPT ![p] = @ + 1]
          /\ UNCHANGED <<proximo, marcado>>
     ELSE Avanca(p, TRUE)
  /\ UNCHANGED <<topico, sessao, confirmado>>

(* Slip: the count of attempts outlives the message.                       *)
TentativaFalhaSemZerar(p) ==
  /\ tentativa' = [tentativa EXCEPT ![p] = @ + 1]
  /\ IF tentativa[p] + 1 < maxRetries
     THEN UNCHANGED <<proximo, marcado>>
     ELSE /\ proximo' = [proximo EXCEPT ![p] = @ + 1]
          /\ UNCHANGED marcado
  /\ UNCHANGED <<topico, sessao, confirmado>>

(* The attempt fails: the next one, or after the last the next message,    *)
(* this one not being marked.                                              *)
TentativaFalha(p) ==
  /\ IF tentativa[p] + 1 < maxRetries
     THEN /\ tentativa' = [tentativa EXCEPT ![p] = @ + 1]
          /\ UNCHANGED <<proximo, marcado>>
     ELSE Avanca(p, FALSE)
  /\ UNCHANGED <<topico, sessao, confirmado>>

(* event_id is UNIQUE: an event already there cannot be inserted again.    *)
EventoRepetido(p) ==
  /\ Tenta(p) /\ conexao = "aberta"
  /\ EventId(p) \in Range(arquivo)
  /\ TentativaFalha(p)
  /\ UNCHANGED <<arquivo, desistidos, conexao, gastoArquivo>>

ConexaoFechada(p) ==
  /\ Tenta(p) /\ conexao = "fechada"
  /\ TentativaFalha(p)
  /\ UNCHANGED <<arquivo, desistidos, conexao, gastoArquivo>>

(* Postgres, or pgx because another goroutine's statement is under way,    *)
(* refuses the INSERT.  An event new to the table that is refused a third  *)
(* time is given up, and marking a later one will pass over it.            *)
InsertRecusado(p) ==
  /\ Tenta(p) /\ conexao = "aberta"
  /\ PagaArquivo("falhas", MaxFalhas)
  /\ TentativaFalha(p)
  /\ desistidos' = IF tentativa[p] + 1 < Recusas \/ EventId(p) \in Range(arquivo)
                   THEN desistidos ELSE desistidos \cup {<<p, Offset(p)>>}
  /\ UNCHANGED <<arquivo, conexao>>

(* The 30 s run out, or the network fails, with the INSERT under way: pgx  *)
(* closes the connection, and the INSERT may have been done.               *)
InsertCortado(p) ==
  /\ Tenta(p) /\ conexao = "aberta"
  /\ PagaArquivo("cortes", MaxCortes)
  /\ conexao' = "fechada"
  /\ \/ UNCHANGED arquivo
     \/ EventId(p) \notin Range(arquivo) /\ arquivo' = Append(arquivo, EventId(p))
  /\ TentativaFalha(p)
  /\ UNCHANGED desistidos

ConfirmaOffset(p) ==
  /\ confirmado[p] # marcado[p]
  /\ confirmado' = [confirmado EXCEPT ![p] = marcado[p]]
  /\ UNCHANGED <<topico, arquivo, desistidos, conexao, sessao, locais, gastoArquivo>>

(* A rebalance: every ConsumeClaim ends between messages, Consume returns  *)
(* and is called again.  Setup of the second session sends on a Ready      *)
(* channel nobody receives from any more, and stays there (see Workers).   *)
Rebalanceia ==
  /\ sessao = "ativa"
  /\ \A p \in Particoes : tentativa[p] = 0
  /\ PagaArquivo("sessoes", MaxSessoes)
  /\ sessao' = "presa"
  /\ proximo' = confirmado /\ marcado' = confirmado
  /\ UNCHANGED <<topico, arquivo, desistidos, conexao, confirmado, tentativa>>

(* The process ends and is started again.  A SIGTERM is no more than that: *)
(* the connection is closed under the claims (as in InsertCortado), which  *)
(* finish their message, and the offsets marked are committed.             *)
Reinicia ==
  /\ PagaArquivo("reinicios", MaxReinicios)
  /\ proximo' = confirmado /\ marcado' = confirmado
  /\ tentativa' = [p \in Particoes |-> 0]
  /\ conexao' = "aberta" /\ sessao' = "ativa"
  /\ UNCHANGED <<topico, arquivo, desistidos, confirmado>>

Init ==
  /\ ES!Init
  /\ conexao = "aberta" /\ sessao = "ativa"
  /\ proximo = [p \in Particoes |-> 0]
  /\ marcado = [p \in Particoes |-> 0]
  /\ confirmado = [p \in Particoes |-> 0]
  /\ tentativa = [p \in Particoes |-> 0]
  /\ gastoArquivo = [t \in {"falhas", "cortes", "sessoes", "reinicios"} |-> 0]

(* ConsumeClaim on partition p, with nothing but the table against it.     *)
Handler(p) == SaveEvent(p) \/ EventoRepetido(p) \/ ConexaoFechada(p)

Next ==
  \/ \E e \in EventIds : ES!Chega(e) /\ UNCHANGED <<conexao, sessao, locais, confirmado, gastoArquivo>>
  \/ \E p \in Particoes : Handler(p) \/ InsertRecusado(p) \/ InsertCortado(p)
                          \/ ConfirmaOffset(p)
  \/ Rebalanceia \/ Reinicia

Spec == Init /\ [][Next]_vars

(* The goroutines keep reading; failures, commits and restarts owe nothing.*)
FairSpec == Spec /\ \A p \in Particoes : WF_vars(Handler(p))

-----------------------------------------------------------------------------
TypeOK ==
  /\ topico \in [Particoes -> Seq(EventIds)]
  /\ arquivo \in Seq(EventIds)
  /\ desistidos \subseteq Particoes \X (Nat \ {0})
  /\ conexao \in {"aberta", "fechada"} /\ sessao \in {"ativa", "presa"}
  /\ proximo \in [Particoes -> Nat]
  /\ marcado \in [Particoes -> Nat]
  /\ confirmado \in [Particoes -> Nat]
  /\ tentativa \in [Particoes -> 0..(maxRetries - 1)]
  /\ gastoArquivo \in [{"falhas", "cortes", "sessoes", "reinicios"} -> Nat]

(* The archive implements the event store: every event once, no gap and no *)
(* inversion within a partition, through refusals, closed connections,     *)
(* replays by a rebalance or a restart, and events the broker holds twice. *)
(* The one gap there is: an event refused three times in a row by an open  *)
(* connection, which the loop gives up (consumer.go:263-269) while it goes *)
(* on with the next.  README:14, "interceptar todos os eventos do sistema",*)
(* is not kept for such an event.                                          *)
FielAoTopico == ES!Spec

(* The connection has not been closed nor the session lost.                *)
Trabalha == conexao = "aberta" /\ sessao = "ativa"

(* And while the connection and the session last, every event is archived  *)
(* or given up in the end, whatever was given up, repeated or replayed     *)
(* before it.                                                              *)
ArquivaTudo == []Trabalha => \A p \in Particoes : WF_<<topico, arquivo, desistidos>>(ES!Resolve(p))

(* A connection closed for good makes every later event fail three times,  *)
(* but none of them is ever committed: the offsets of the group pass an    *)
(* event that is not in the table only if it was refused a third time on an*)
(* open connection; a restart recovers all the others.                     *)
GravadoOuDesistido == \A p \in Particoes : \A i \in 1..confirmado[p] :
  topico[p][i] \in Range(arquivo) \/ <<p, i>> \in desistidos

=============================================================================
