---------------------------- MODULE MCMigradores ----------------------------
(* Migradores with the lines of the files in the repository.               *)
EXTENDS Migradores

OsArquivos == <<
  CreateBucket("photos"), CreateKey("photos-key"), AllowBucket("photos", "photos-key"),
  CreateBucket("temp-media"), CreateKey("temp-key"), AllowBucket("temp-media", "temp-key"),
  CreateBucket("thumbnails"), CreateKey("thumbnails-key"),
  AllowBucket("thumbnails", "thumbnails-key"),
  CreateKey("consulta-key"), AllowBucket("thumbnails", "consulta-key"),
  AllowBucket("photos", "consulta-key"), AllowBucket("temp-media", "consulta-key")>>

OsTopicos == <<"registro.media", "operacao.media", "registro.comando">>

=============================================================================
