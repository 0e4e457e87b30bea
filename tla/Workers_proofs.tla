--------------------------- MODULE Workers_proofs ---------------------------
(***************************************************************************)
(* The life of a processor, for any number of claims, failures of Consume  *)
(* and rebalances: no channel is closed twice.                             *)
(***************************************************************************)
EXTENDS Workers, TLAPS

(* Between two sessions, and until Setup has run, registro's Ready is a    *)
(* channel nobody has closed: each turn of the loop makes a new one.       *)
ReadyAberto == worker = "registro" /\ laco \in {"chama", "setup"} => ready \notin fechados

(* Claims exist in a session only.                                         *)
ClaimsNaSessao == laco # "sessao" => \A c \in Claims : claims[c] = "fim"

IInv == TypeOK /\ ReadyAberto /\ ClaimsNaSessao /\ ReadyFechaUmaVez

LEMMA InitIInv == Init => IInv
  BY WorkersAssumption, SMT
  DEF Init, IInv, TypeOK, ReadyAberto, ClaimsNaSessao, ReadyFechaUmaVez

(* The counters of the bounds stay natural numbers.                        *)
LEMMA GastaTipo ==
  ASSUME TypeOK, NEW t \in {"falhas", "sessoes", "sinais"}, NEW m \in Nat, Gasta(t, m)
  PROVE  gastoWorkers' \in [{"falhas", "sessoes", "sinais"} -> Nat]
  BY SMT DEF TypeOK, Gasta

LEMMA PassoPrincipal == IInv /\ Principal => IInv'
<1> SUFFICES ASSUME IInv, Principal PROVE IInv'
  OBVIOUS
<1> USE DEF IInv, TypeOK, ReadyAberto, ClaimsNaSessao, ReadyFechaUmaVez,
            Vivo, mainVars, loopVars
<1>1. CASE EsperaReady
  BY <1>1, SMT DEF EsperaReady
<1>2. CASE ReadyFechado
  BY <1>2, SMT DEF ReadyFechado
<1>3. CASE Fecha
  BY <1>3, SMT DEF Fecha
<1> QED
  BY <1>1, <1>2, <1>3 DEF Principal

LEMMA PassoLaco == IInv /\ Laco => IInv'
<1> SUFFICES ASSUME IInv, Laco PROVE IInv'
  OBVIOUS
<1> USE DEF IInv, TypeOK, ReadyAberto, ClaimsNaSessao, ReadyFechaUmaVez,
            Vivo, mainVars, loopVars
<1>1. CASE Consume
  BY <1>1, SMT DEF Consume
<1>2. CASE ConsumeFalha
  <2>1. gastoWorkers' \in [{"falhas", "sessoes", "sinais"} -> Nat]
    BY <1>2, WorkersAssumption, GastaTipo DEF ConsumeFalha
  <2> QED
    BY <1>2, <2>1, SMT DEF ConsumeFalha
<1>3. CASE SetupFecha
  <2>1. ready \notin fechados
    BY <1>3, SMT DEF SetupFecha
  <2>2. /\ laco' = "sessao" /\ claims' = [c \in Claims |-> "livre"]
        /\ fechados' = fechados \cup {ready} /\ processo = "vivo"
        /\ UNCHANGED <<worker, principal, espera, ready, sessaoViva, ctxVivo, processo,
                        gastoWorkers>>
    BY <1>3, <2>1 DEF SetupFecha, AbreClaims
  <2>3. ready \in 1..ready /\ fechados' \subseteq 1..ready'
    BY <2>2, SMT
  <2> QED
    BY <2>2, <2>3, SMT
<1>4. CASE SetupEnvia
  BY <1>4, SMT DEF SetupEnvia, AbreClaims
<1>5. CASE SoltaSessao
  BY <1>5, SMT DEF SoltaSessao
<1>6. CASE Continua
  BY <1>6, SMT DEF Continua
<1> QED
  BY <1>1, <1>2, <1>3, <1>4, <1>5, <1>6 DEF Laco

LEMMA PassoClaim ==
  ASSUME IInv, NEW c \in Claims, Recebe(c) \/ Conclui(c) \/ TerminaClaim(c)
  PROVE  IInv'
<1> USE DEF IInv, TypeOK, ReadyAberto, ClaimsNaSessao, ReadyFechaUmaVez,
            Vivo, mainVars, loopVars
<1>1. CASE Recebe(c)
  BY <1>1, SMT DEF Recebe
<1>2. CASE Conclui(c)
  BY <1>2, SMT DEF Conclui
<1>3. CASE TerminaClaim(c)
  BY <1>3, SMT DEF TerminaClaim
<1> QED
  BY <1>1, <1>2, <1>3

LEMMA PassoDeFora == IInv /\ (Sigterm \/ Rebalanceia) => IInv'
<1> SUFFICES ASSUME IInv, Sigterm \/ Rebalanceia PROVE IInv'
  OBVIOUS
<1> USE DEF IInv, TypeOK, ReadyAberto, ClaimsNaSessao, ReadyFechaUmaVez,
            Vivo, mainVars, loopVars
<1>1. CASE Sigterm
  <2>1. gastoWorkers' \in [{"falhas", "sessoes", "sinais"} -> Nat]
    BY <1>1, GastaTipo DEF Sigterm
  <2>2. processo = "vivo" /\ UNCHANGED <<worker, espera, laco, ready, fechados, claims>>
    BY <1>1 DEF Sigterm
  <2>3. \/ processo' = "sinal" /\ UNCHANGED <<principal, sessaoViva, ctxVivo>>
        \/ /\ principal' = "fecha" /\ sessaoViva' = FALSE /\ ctxVivo' = FALSE
           /\ UNCHANGED processo
    BY <1>1 DEF Sigterm
  <2>4. sessaoViva' \in BOOLEAN /\ ctxVivo' \in BOOLEAN
    BY <2>3
  <2> QED
    BY <2>1, <2>2, <2>3, <2>4, SMT
<1>2. CASE Rebalanceia
  <2>1. gastoWorkers' \in [{"falhas", "sessoes", "sinais"} -> Nat]
    BY <1>2, WorkersAssumption, GastaTipo DEF Rebalanceia
  <2>2. processo = "vivo" /\ UNCHANGED <<worker, principal, espera, laco, ready, fechados,
                                         claims, ctxVivo, processo>>
    BY <1>2 DEF Rebalanceia
  <2>3. sessaoViva' \in BOOLEAN
    BY <1>2 DEF Rebalanceia
  <2> QED
    BY <2>1, <2>2, <2>3, SMT
<1> QED
  BY <1>1, <1>2

LEMMA IInvPasso == IInv /\ [Next]_vars => IInv'
<1> SUFFICES ASSUME IInv, [Next]_vars PROVE IInv'
  OBVIOUS
<1>1. CASE Next
  BY <1>1, PassoPrincipal, PassoLaco, PassoClaim, PassoDeFora DEF Next
<1>2. CASE UNCHANGED vars
  BY <1>2, SMT DEF vars, mainVars, loopVars, IInv, TypeOK, ReadyAberto, ClaimsNaSessao,
                   ReadyFechaUmaVez
<1> QED
  BY <1>1, <1>2

LEMMA IInvSempre == Spec => []IInv
  BY InitIInv, IInvPasso, PTL DEF Spec

(* The states of a worker's life are those its type invariant lists.       *)
THEOREM TypeCorrect == Spec => []TypeOK
<1>1. IInv => TypeOK
  BY DEF IInv
<1> QED
  BY IInvSempre, <1>1, PTL

(* registro's Setup never closes a closed Ready (workers/registro:183),    *)
(* however sessions and failures of Consume follow one another.            *)
THEOREM ReadyUmaVez == Spec => []ReadyFechaUmaVez
<1>1. IInv => ReadyFechaUmaVez
  BY DEF IInv
<1> QED
  BY IInvSempre, <1>1, PTL

=============================================================================
