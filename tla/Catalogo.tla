------------------------------ MODULE Catalogo ------------------------------
(***************************************************************************)
(* What registro promises the readers of registro.media: each file is      *)
(* announced once, when its content is stored, and after that deleted at   *)
(* most once, by the same user and for the same content.  Registro         *)
(* implements it; ConsultaIsolada runs consulta against it.                *)
(***************************************************************************)
EXTENDS Midia

(* Where the events of a file are in its partition.                        *)
EventosDe(f) == {i \in DOMAIN media[ParticaoDe[f]] : media[ParticaoDe[f]][i].arquivo = f}

Armazena(h) == photos' = photos \cup {h} /\ UNCHANGED media

AnunciaUpload(f, u, h) ==
  /\ EventosDe(f) = {}
  /\ photos' = photos \cup {h}
  /\ media' = Publica(media, NewEvent("upload", f, u, h))

AnunciaDelete(f) == \E i \in EventosDe(f) :
  /\ EventosDe(f) = {i}
  /\ media' = Publica(media, [media[ParticaoDe[f]][i] EXCEPT !.tipo = "delete"])
  /\ UNCHANGED photos

Init == photos = {} /\ media = [p \in Particoes |-> <<>>]

Next == \/ \E h \in Hashes : Armazena(h)
        \/ \E f \in Arquivos, u \in Usuarios, h \in Hashes : AnunciaUpload(f, u, h)
        \/ \E f \in Arquivos : AnunciaDelete(f)

Spec == Init /\ [][Next]_<<media, photos>>

=============================================================================
