--------------------------- MODULE ConsultaIsolada ---------------------------
(***************************************************************************)
(* The consulta processor by itself.  The rest of the system is reduced to *)
(* the catalogue that Registro implements (Registro!ImplementaCatalogo).   *)
(* GoPhotos puts the real processor in this place.                         *)
(***************************************************************************)
EXTENDS Consulta

CONSTANT Envios   \* the uploads a behaviour may contain
ASSUME EnviosAssumption == Envios \subseteq Arquivos \X Usuarios \X Hashes

Cat == INSTANCE Catalogo WITH media <- media, photos <- photos

(* registro stores the thumbnail, too, before it announces an upload.      *)
AnunciaUpload(f, u, h) ==
  /\ Cat!AnunciaUpload(f, u, h)
  /\ thumbnails' = thumbnails \cup {h}
  /\ UNCHANGED <<temp, comando, consultaVars>>

AnunciaDelete(f) ==
  /\ Cat!AnunciaDelete(f)
  /\ UNCHANGED <<temp, comando, thumbnails, consultaVars>>

vars == <<midiaVars, consultaVars>>

Init == MidiaInit /\ ConsultaInit

Next == \/ \E e \in Envios : AnunciaUpload(e[1], e[2], e[3])
        \/ \E f \in Arquivos : AnunciaDelete(f)
        \/ ConsultaNext

Spec == Init /\ [][Next]_vars

(* The goroutines keep running; nobody has to upload, delete or crash.     *)
FairSpec == Spec /\ \A p \in Particoes : WF_vars(HandlerConsulta(p))

TypeOK == MidiaTypeOK /\ ConsultaTypeOK

=============================================================================
