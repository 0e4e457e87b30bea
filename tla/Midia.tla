------------------------------- MODULE Midia -------------------------------
(***************************************************************************)
(* What the programs of go-photos share: the objects of the Garage S3      *)
(* buckets, the two Kafka topics and the records that travel on them.      *)
(*                                                                         *)
(* A file is known by its file-id (a uuid drawn by the API), its content   *)
(* only by its SHA-256 hash; names, sizes, metadata and instants never     *)
(* decide anything downstream and are left out.  A topic is one log per    *)
(* partition that only grows; every reader keeps its own offset.           *)
(***************************************************************************)
EXTENDS Integers, Sequences, Functions

CONSTANTS Arquivos,       \* file-ids the API may draw
          Usuarios,       \* user-ids
          Hashes,         \* contents a user may send, named by their SHA-256
          Decodificaveis, \* contents whose metadata and thumbnail can be made
          Particoes,      \* partitions of each topic
          ParticaoDe,     \* the producer's partitioner: message key -> partition
          Nenhum          \* absence: no object, no row, a field left empty

ASSUME ArquivosAssumption == Nenhum \notin Hashes /\ Decodificaveis \subseteq Hashes
ASSUME ParticaoAssumption == ParticaoDe \in [Arquivos -> Particoes]

VARIABLES temp,       \* bucket temp-media: file-id -> content
          photos,     \* bucket photos: the hashes it holds
          thumbnails, \* bucket thumbnails: the hashes it holds
          comando,    \* topic registro.comando
          media       \* topic registro.media

midiaVars == <<temp, photos, thumbnails, comando, media>>

Tipos == {"upload", "delete"}   \* registro-upload, registro-delete
Status == {"pendente", "executado", "rejeitado"}

(* A command: the fields of Comando and of its Cadastro that decide.  The  *)
(* hash is filled in when an upload is executed.                           *)
Comandos ==
  {c \in [tipo : Tipos, status : Status, arquivo : Arquivos,
          usuario : Usuarios, hash : Hashes \cup {Nenhum}] :
     /\ c.status = "pendente" => c.hash = Nenhum
     /\ c.status = "executado" /\ c.tipo = "upload" => c.hash \in Hashes}

(* An event: RegistroMedia on upload, RegistroUser on delete.              *)
Eventos == [tipo : Tipos, arquivo : Arquivos, usuario : Usuarios, hash : Hashes]

(* A row of registro.registro_media and of consulta.registro_media, both   *)
(* keyed by file_id.                                                       *)
Linhas == [usuario : Usuarios, hash : Hashes]
ASSUME LinhaAssumption == Nenhum \notin Linhas

NewComando(t, f, u) ==
  [tipo |-> t, status |-> "pendente", arquivo |-> f, usuario |-> u, hash |-> Nenhum]

NewEvent(t, f, u, h) == [tipo |-> t, arquivo |-> f, usuario |-> u, hash |-> h]

(* A message goes to the partition of its key, which is always the file-id.*)
Publica(log, m) == [log EXCEPT ![ParticaoDe[m.arquivo]] = Append(@, m)]

(* All the messages of a topic or of a producer's queues.                  *)
Todas(logs) == UNION {Range(logs[p]) : p \in Particoes}

MidiaTypeOK ==
  /\ temp \in [Arquivos -> Hashes \cup {Nenhum}]
  /\ photos \subseteq Hashes
  /\ thumbnails \subseteq Hashes
  /\ comando \in [Particoes -> Seq(Comandos)]
  /\ media \in [Particoes -> Seq(Eventos)]

MidiaInit ==
  /\ temp = [f \in Arquivos |-> Nenhum]
  /\ photos = {}
  /\ thumbnails = {}
  /\ comando = [p \in Particoes |-> <<>>]
  /\ media = [p \in Particoes |-> <<>>]

=============================================================================
