----------------------------- MODULE EventStore -----------------------------
(***************************************************************************)
(* What the event store is for (README, "interceptar todos os eventos do   *)
(* sistema"): every event of registro.media is archived once, and those of *)
(* a partition in the order of the topic, without a gap; save that an event*)
(* may be given up, and those after it are then archived without it.       *)
(***************************************************************************)
EXTENDS Integers, Sequences, Functions

CONSTANTS Particoes, EventIds,
          ParticaoDo,   \* partition of an event: that of its aggregate, the file
          MaxCopias     \* bound: times the broker may hold each event

VARIABLES topico,     \* topic registro.media: per partition, the ids of its events
          arquivo,    \* table archiver.event_store, in the order of its BIGSERIAL
          desistidos  \* the offsets <<partition, position>> given up

vars == <<topico, arquivo, desistidos>>

Init == topico = [p \in Particoes |-> <<>>] /\ arquivo = <<>> /\ desistidos = {}

Copias(e) == Len(SelectSeq(topico[ParticaoDo[e]], LAMBDA x : x = e))

(* registro's producer appends an event; a delivery retried by librdkafka  *)
(* may append it again.                                                    *)
Chega(e) ==
  /\ Copias(e) < MaxCopias[e]
  /\ topico' = [topico EXCEPT ![ParticaoDo[e]] = Append(@, e)]
  /\ UNCHANGED <<arquivo, desistidos>>

Pendentes(p) == {i \in DOMAIN topico[p] : topico[p][i] \notin Range(arquivo)}
Devidos(p) == {i \in Pendentes(p) : <<p, i>> \notin desistidos}

(* The first event due is archived, or one given up before it is after all.*)
Arquiva(p) == \E i \in Pendentes(p) :
  /\ \A j \in Devidos(p) : i <= j
  /\ arquivo' = Append(arquivo, topico[p][i])
  /\ UNCHANGED <<topico, desistidos>>

Desiste(p) == \E i \in Devidos(p) :
  /\ \A j \in Devidos(p) : i <= j
  /\ desistidos' = desistidos \cup {<<p, i>>}
  /\ UNCHANGED <<topico, arquivo>>

Resolve(p) == Devidos(p) # {} /\ (Arquiva(p) \/ Desiste(p))

Next == \/ \E e \in EventIds : Chega(e)
        \/ \E p \in Particoes : Arquiva(p) \/ Desiste(p)

Spec == Init /\ [][Next]_vars

FairSpec == Spec /\ \A p \in Particoes : WF_vars(Resolve(p))

=============================================================================
