-------------------------------- MODULE Api --------------------------------
(***************************************************************************)
(* The gRPC API as the processors see it: an upload leaves the bytes in    *)
(* temp-media under a fresh file-id and then a pending command; a delete   *)
(* request becomes a pending command at once, whoever asks for it.  The    *)
(* API holds no table: everything it decides is in these two writes.       *)
(***************************************************************************)
EXTENDS Midia

(* StorageHandler.Upload, taken as one step: between the PUT and the       *)
(* command no other program can know the uuid just drawn.                  *)
Upload(f, u, h) ==
  /\ temp[f] = Nenhum
  /\ temp' = [temp EXCEPT ![f] = h]
  /\ comando' = Publica(comando, NewComando("upload", f, u))
  /\ UNCHANGED <<photos, thumbnails, media>>

(* StorageHandler.DeleteMedia: nothing is looked up, not even the owner;   *)
(* the id is one an earlier upload drew.                                   *)
DeleteMedia(f, u) ==
  /\ temp[f] # Nenhum
  /\ comando' = Publica(comando, NewComando("delete", f, u))
  /\ UNCHANGED <<temp, photos, thumbnails, media>>

ApiNext == \E f \in Arquivos, u \in Usuarios :
             \/ \E h \in Hashes : Upload(f, u, h)
             \/ DeleteMedia(f, u)

(* The API alone; Servidor implements it.                                  *)
ApiSpec == MidiaInit /\ [][ApiNext]_midiaVars

=============================================================================
