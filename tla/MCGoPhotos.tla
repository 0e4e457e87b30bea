----------------------------- MODULE MCGoPhotos -----------------------------
(* Small instances of GoPhotos.                                            *)
EXTENDS GoPhotos, TLC

CONSTANTS f1, p1, p2

UmaParticao == [f \in Arquivos |-> p1]
DuasParticoes == [f \in Arquivos |-> IF f = f1 THEN p1 ELSE p2]

=============================================================================
