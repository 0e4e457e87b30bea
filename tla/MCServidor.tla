----------------------------- MODULE MCServidor -----------------------------
(* Servidor for TLC: two uploads and two readings at once, one partition.  *)
EXTENDS Servidor

CONSTANT p1

UmaParticao == [f \in Arquivos |-> p1]

=============================================================================
