----------------------------- MODULE MCArchiver -----------------------------
(* Small instances of Archiver: two events of one partition, which the     *)
(* broker may hold twice, and one of another.                              *)
EXTENDS Archiver, TLC

CONSTANTS e3, p1, p2

DuasParticoes == [e \in EventIds |-> IF e = e3 THEN p2 ELSE p1]
UmaOuDuas == [e \in EventIds |-> IF e = e3 THEN 1 ELSE 2]

=============================================================================
