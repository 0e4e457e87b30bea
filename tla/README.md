# A TLA+ model of go-photos

go-photos stores photos for users. A gRPC API takes the bytes and turns every
request into a command on a Kafka topic; three processors (the same binary,
started with `-proc registro`, `-proc consulta` or `-proc archiver`) do the rest.
This directory holds a specification of the four programs and of what lies
between them, the TLC configurations that check it on small instances, and the
TLAPS proofs of what holds for every size. Names follow the Go code.

## 1. Inventory

```
client --gRPC--> API --registro.comando--> registro --registro.media--> consulta
                  |            ^______________|  |              |          |
                  v             (its own answers) v              v          v
              temp-media                    photos, thumbnails   archiver   photos, thumbnails
                                            registro.registro_media  event_store  consulta.registro_media
```

| Component | State | Operations | Hard behaviour | What makes it correct |
|---|---|---|---|---|
| API (`api/cmd/server`, `api/internal`) | the streams in progress, the producer's queue, one pgx connection; writes `temp-media` and `registro.comando` | `Upload`, `DeleteMedia`, `GetMedia` | two goroutines, a pipe and a channel in each Upload; clients that go away; Produce errors ignored; panics and `log.Fatalf` that end every stream | no part of a photo is stored as one; a command only for bytes that are there; no goroutine waits for ever |
| Messages (`api/domain/registro`) | topics | `NewComando`, `NewEvent` | two topics with no order between them | - |
| Dispatcher (`processador/dispatcher`) | handlers by command name | `Executa`, `EnviarMensagens` | one Produce of two failing | an answer to each command |
| registro (`workers/registro`) | table `registro.registro_media`, processed map, offsets, producer queue | upload, executed upload, delete; rejection | one goroutine per partition, dedup check acted upon later, failing PUTs, crash between DELETE and event, replays | events name the owner and a stored photo; a file's story is an upload then at most one deletion; each command answered, and once |
| consulta (`workers/consulta`) | table `consulta.registro_media`, the one pgx session, offsets | upsert; delete + count + collect | partitions sharing a transaction, count then remove, remove before commit, dropped errors, refused statements, closed connection | the table follows the events; a row leaves it only for a deletion of its file; a photo is destroyed only without references |
| archiver (`workers/archiver`) | table `archiver.event_store`, offsets, attempts | insert with three attempts | marks that pass over a failure, closed connection, blocked second session | every event once, in order, without a gap but for one refused three times |
| Start and shutdown (`processador/cmd/main.go`, `Init*Worker`, `Setup`) | `Ready`, the group session, contexts | start, rebalance, SIGTERM | Ready replaced without a lock, Setup that blocks, deferred calls in an order nobody chose | every session is entered, no channel is closed twice, the process ends when told to |
| S3 client (`processador/s3`) | buckets | put, stat, remove | errors with the effect done; error texts | - |
| Media helpers (`helper/midia`) | none | EXIF, hash, thumbnail, format | - | which files are accepted; a thumbnail fits 300 pixels |
| Migrators (`infra/garage-s3`, `infra/kafka`) | buckets, keys, permissions, `.env`, topics | one-shot scripts, run again by hand | failures half way, secrets shown once, what exists already recognised by words of Garage's output | a run that ends well is complete; a run fails by its own faults, or by a creation it does not recognise |

`PROJECT.json` lists every component with its sources and its status, the
hazards of the code at their lines with the properties that watch them, and for
every definition the lines it stands for.

## 2. Modules

| Module | Models |
|---|---|
| `Midia` | what the programs share: the buckets `temp`, `photos`, `thumbnails`; the topics `comando`, `media`, one growing log per partition; commands, events, rows. A content is its SHA-256; names, sizes, metadata and dates decide nothing downstream and are left out. `Decodificaveis` are the contents for which the media helpers succeed. |
| `Api` | the API as the processors see it: `Upload` and `DeleteMedia`, one step each. |
| `Servidor`, `Servidor_proofs` | the API process goroutine by goroutine, shown to implement `Api`; theorems about it. |
| `Catalogo` | abstract: each file announced once when its content is stored, then deleted at most once, by the same user and for the same content. |
| `Registro` | the registro processor with the API in front of it, shown to implement `Catalogo`. |
| `Registro_proofs`, `RegistroCatalogo_proofs` | theorems about `Registro` (and `Formato`): where events come from, thumbnails, answers; the lives of files and the refinement of `Catalogo`. |
| `Consulta` | the consulta processor over its single Postgres session. |
| `ConsultaIsolada`, `Consulta_proofs` | `Consulta` with `Catalogo` as its environment; theorems about them. |
| `GoPhotos`, `GoPhotos_proofs` | API, registro and consulta together: `Registro` extended by `C == INSTANCE Consulta` over the same buckets and topics, a step of the system being a step of one of them; theorems about the whole. |
| `EventStore` | abstract: each event archived once, in order within its partition, or given up. |
| `Archiver`, `Archiver_proofs` | the archiver processor, shown to implement `EventStore`; theorems about it. |
| `Workers`, `Workers_proofs` | the life of a processor process: the Ready handshake, sessions, SIGTERM, for the three workers; theorems about it. |
| `Migradores`, `Migradores_proofs` | the Garage and Kafka scripts. |
| `Formato` | pure: which files the media helpers accept, and the size of a thumbnail. |
| `MC*` | instances for TLC. |

How they fit: `Servidor` implements `Api`, which stands in front of `Registro`;
`Registro` implements `Catalogo`, against which `ConsultaIsolada` runs
`Consulta`; `GoPhotos` puts the real three together, `Archiver` implements
`EventStore`, and `Workers` is the shell in which the three processors run.

### How state and actions correspond to the code

**Servidor.** `stream[f]` is one call of Upload: the client's end of the stream,
where the handler stands (`etapa`: in `Recv`, in `pipeWriter.Write`, at
`<-errChan`, over), the pipe's write end (`cano`), the goroutine of
`WriteObjectOnS3` (`put`) and the buffer of `errChan`. A write to an `io.Pipe`
returns when it is read, or when the reader is closed, so `Escreve` is both ends
at once; after a failed PUT the handler goes on receiving chunks and throwing
them away. `FechaCano` is the difference between `Close` and `CloseWithError`.
`Produce` may refuse a command, which nobody notices. `Morre` is any end of the
process: a stream without a message (`PanicoSemComando`), a URL that cannot be
presigned (`PanicoSemURL`), a delivery given up (`FalhaEntrega`, `log.Fatalf`);
the queue and all streams go with it. The processors see an object of
`temp-media` only through its command, so the refinement (`TempAnunciado`) hides
it until the command is on the topic.

**Registro.** `etapa[p]` is where the handler of partition p stands; a handler
is cut where something else can come in: `VerificaPhoto` (GetTempMedia, decode,
hash, PhotoExiste) - `AddPhoto` - `AddThumbnail` - `ProduzExecutado` -
`ProduzEvento`, and for a deletion `DeleteRegistro` (Find and Delete, which no
other goroutine can separate because both are keyed by a file of this
partition) - `ProduzExecutado` - `ProduzEvento`. Each error return is a
`Falha...` or `Rejeita...` action that queues the command itself, rejected.
`Conclui` is what `ProcessMessage` and `ConsumeClaim` do afterwards: remember the
offset in the processed map, mark it. The retry loop of `ProcessMessage` never
turns: `handleRegistroComando` only errs on payloads nobody sends, and `Executa`
returns nil whatever the handler answered. `filaComando`, `filaMedia` are the
queues of librdkafka's producer, delivered by `EntregaComando` and
`EntregaMedia`. `NovaSessao` is a rebalance in the same process (Setup closes a
fresh `Ready`, so it goes on; this worker's handlers do not use the session's
context, so they finish). A crash (`Reinicia`) cuts handlers anywhere and forgets
marks. SIGTERM is milder: `Sigterm` closes the connection under the handlers,
because `postgresConn.Close` is the last `defer` and runs first; each claim then
finishes its message, the marked offsets are committed (`Termina`), and the
producer's queue is lost. `processo = "semBanco"` is a connection pgx closed on
an error: `sync.Once` never opens another, and every later statement is answered
with a rejection (`SemConexao`). A failing call may have had its effect (a PUT or
DELETE whose answer was lost).

**Consulta.** All partitions share the `pgx.Conn` of `database.GetInstace`.
`consulta` is the committed table, `visao` what the session sees, `transacao`
whether it is in a transaction: an upsert of one partition between the BEGIN and
the COMMIT of another is part of that transaction, a second BEGIN only warns,
and whoever commits or rolls back ends it for all. A statement fails in three
ways. It is not sent (`StatementFalha`: the session is cancelled, the connection
closed or busy). Postgres refuses it (`StatementRecusado`), of itself or because
the transaction was aborted before: `transacao = "abortada"`, nothing of the
transaction survives, and every statement but its end is refused. The network
fails under it (`StatementCortado`): the connection is closed and the statement may
have been done. A BEGIN, a ROLLBACK or, in a transaction, a COMMIT that is not sent,
and a BEGIN that is refused, make pgx close the connection, which is never opened
again. The handler's error is dropped by
`processMessageWithRetry`, so `Marca` follows whatever happened. The processed
map is left out: this worker never writes to it. The handlers work under the
context of the session: `Cancela` (a rebalance) makes every later call of theirs
fail, `FimDaSessao` leaves the process in the Setup of the next session
(`sessao = "presa"`, see `Workers`), `SigtermConsulta` closes the connection and
then cancels, so that S3 calls may still succeed in between. `ReiniciaConsulta`
starts the process again after any of these, or after a crash.

**Archiver.** `tentativa[p]` counts the failed attempts on the message at hand;
`TentativaFalha` is the retry loop, after whose last turn the message is passed
over without a mark. `desistidos`, the abstract variable of `EventStore`, is a
history: the messages whose event an open connection refused for the third time in
a row. `conexao` becomes "fechada" for good when the 30 s run out under an INSERT.
`sessao` becomes "presa" when Setup of a second session sends
on a `Ready` nobody receives from. SIGTERM adds nothing here: the INSERT under
way may be cut, claims finish, marks are committed.

**Workers.** `principal` is main, `laco` the goroutine that calls `Consume`,
`claims` the `ConsumeClaim` goroutines. Channels are numbered: `ready` is the one
in the field `consumer.Ready`, `espera` the one main found there when it
evaluated `<-consumer.Ready` (`EsperaReady` and the loop's reassignment race).
registro's Setup closes the channel (`SetupFecha`, a second close panics), the
other two send on it (`SetupEnvia`, enabled only while main receives from that
very channel). sarama's `Consume` holds the group's lock until the session is
released, and `client.Close` takes it: that is the guard of `Fecha`. A claim that
returns from a message in a cancelled session finds both `Done` and the closed
channel ready; Go picks either, and consulta's branch for the closed channel has
no `return` (`TerminaClaim`).

**Migradores.** `linha` and `linhaKafka` are the next line of each script,
`garage` and `topicos` what the cluster holds, `coletadas` the keys whose secrets
the script has in memory until `WriteEnvFile`. A command may fail with its effect
done (`ExecFalha`), the operator may interrupt (`Interrompe`), and each script may
be started again at any later time. What Garage prints when it refuses to create
what exists is in no file of the repository: `diz` is, of each of the two commands,
any subset of the words the script looks for, fixed for a behaviour. `Reconhece` is
the test of the code: of a bucket "already exists" in the output
(`migrator.go:162`), of a key "Exists" in it (`migrator.go:124`; the other half of
that condition looks in `err.Error()`, which `execGarage` leaves at "exit status
1"). What is not recognised stops the run. `MCMigradores` takes the lines from the
files in `infra/`.

**Formato.** A file is a record of what decides: the container its first bytes
tell, whether header and pixels decode, how many bytes were read, its size.
`MCRegistro` takes `Decodificaveis` from it, so that the contents `Registro`
accepts are those `ExtrairMetadados`, `DetectImageFormat` and the decoders accept.

**External behaviour** is modelled from how the code uses it and marked external
in the map: Kafka keeps the order of a partition and routes a key always to the
same one; librdkafka delivers in order per partition (for the archiver an event
may reach the broker twice); sarama commits marked offsets from time to time;
pgx and Postgres behave as described above.

**Simplifications.** In `Api` (and so in front of `Registro`) `Upload` is one
step, which `Servidor` justifies. A delete request is for a file-id that was
announced, by any user. One process per consumer group. Malformed payloads are not
modelled: no program of the repository produces one. A command is on the topic once: retransmissions of
librdkafka by the API's and registro's producers (neither is idempotent) are left
out, except in front of the archiver. `Shutdown()` of the consumers is never
called.

## 3. Runs

All runs are finite because uploads (the file-ids) and deletions
(`MaxExclusoes`) are, and every fault is counted against a bound. Deadlock
checking is off: when everything asked has been done and every fault used up, the
system rests.

| Run | Checks | Bounds, and why they suffice |
|---|---|---|
| `registro_donos` | `TypeOK`, `EventoVemDoDono`, `LinhaTemEvento`, `TabelaConcordaComTopico`, `UmaResposta`, `ImplementaCatalogo` (refinement), `PedidoRespondido` (liveness) | two users, two files, an image and a content that is none, one partition, one deletion, one rebalance: the smallest instance with a foreign deletion, a duplicate, a rejected content, both orders of a deletion and the returning answer of its upload, and a replay after any commit |
| `registro_quedas` | `EventoTemFoto`, `ThumbnailACaminho`, `MarcadoTemResposta`, `ExecutadoTemLinha` | two files of one content side by side in two partitions, one S3 or Postgres failure (with or without the connection), one lost Produce, one crash or SIGTERM, in any order |
| `consulta_zero` | violates `FotoSoComZero` | two partitions, two files of one content, no failure |
| `consulta_sessao_partilhada` | `TypeOK`, `TabelaSegueEventos`, `LinhaSoSaiPorEvento`, `ConvergeConsulta` (liveness) | two partitions, two files, one or two contents, one S3 call or statement that fails, a busy connection, a session cancelled by a rebalance or SIGTERM and the restart after it |
| `consulta_sessao_unica` | violates `UploadGravadoTemLinha` | three partitions, two files of one content and one of its own, no failure |
| `gophotos` | `FotoAteExclusao`, `ExclusaoPassaPeloRegistro`, `TabelasConvergem` (liveness) | both processors, two partitions, two files, one or two contents, one deletion, no failure |
| `gophotos_duplicata` | violates `LinhaTemFoto` | two files of one content, one deletion |
| `archiver_fiel` | `TypeOK`, `GravadoOuDesistido`, `FielAoTopico` (refinement), `ArquivaTudo` (liveness) | three events in two partitions, each up to twice on the broker, three refusals, a cut connection, a rebalance, a restart |
| `workers` | `TypeOK`, `ReadyFechaUmaVez`, `SempreEmSessao` (liveness), `EncerraComSessao` (liveness) | each worker, two claims, two failed joins and three rebalances: a rebalance before, during and after the second Setup, each next to a SIGTERM |
| `workers_encerra` | violates `SempreEncerra` | one rebalance and the SIGTERM |
| `servidor` | `TypeOK`, `ObjetoInteiro`, `ImplementaApi` (refinement), `NuncaTrava` (liveness), `AceitoEAnunciado` (liveness) | two streams of up to two chunks (none, the first, another), two reads, one deletion, one failed PUT, one refused Produce, one death of the process |
| `migradores` | `TypeOK`, `OkCompleto`, `Retomavel`, `EnvCompleto`, `KafkaCompleto` | the files of the repository, two failures or interruptions at any line, three runs of each script: a run can meet what two broken ones left; every wording of Garage's refusals |

Two files are enough for dedup, sharing and collection to meet, two partitions for
the goroutines to interleave (three, as the repository creates, for a third to lose
a row between two collectors), and one fault of each kind for it to fall between
any two steps. Three refusals are those that make the archiver give an event up, or
that fall on two events and make it give up none.

The bounds and the conditions in the properties also say where something stops
holding:

- `registro_donos` has no failing call (`MaxFalhas = 0`): `PedidoRespondido`, every
  request answered in the end, is checked while nothing fails. What a failure of S3
  or Postgres does to an answer is in `MarcadoTemResposta` and `ExecutadoTemLinha`,
  which `registro_quedas` checks with one failure, and the theorems prove with any
  number of them: no command is left behind without an answer on its way, and an
  upload that was announced and whose row could not be written is taken back by a
  rejection. That its event is not taken back (consulta keeps the row) is what the
  code does. No run has a deletion together with a failure (`FalhaDelete`) or a
  rebalance together with one; there the theorems are all there is.
- An answer of a command whose offset is committed may be lost when the process
  ends, since main does not flush the producer. Hence `ImplementaCatalogo`,
  `PedidoRespondido`, `MarcadoTemResposta` and `ExecutadoTemLinha` are about
  behaviours in which no Produce is refused and no process ends; `EventoTemFoto`
  holds through all of it.
- `FotoSoComZero` (README.md:29) is violated as soon as there are two partitions,
  and `registro.media` has three. What the COUNT does guarantee, that no other file
  of the collector's own partition refers to the content, is `ColetaPoupaParticao`,
  proved for every number of partitions and failures.
- `UploadGravadoTemLinha` (README.md:15) is violated by three partitions without a
  failure, and by one partition with a single refused statement: the error is
  dropped and the message marked. `TabelaSegueEventos` and `ConvergeConsulta` say
  how far the table does follow the events.
- `GravadoOuDesistido` and `FielAoTopico` allow one loss: an event refused three
  times in a row by an open connection, which the mark of a later one passes
  over (`consumer.go:263-269`). README.md:14, "interceptar todos os eventos do
  sistema", is not met for such an event.
- `Retomavel` allows a run to fail over a bucket or key that exists when Garage's
  words for it are not those the command looks for. Whether they are, only Garage
  can tell; the two commands look for different ones (`ToleraIgual`, the mutant,
  is a script that looks for the same).
- `EncerraComSessao` covers consulta and archiver in their first session only,
  `workers_encerra` says why.
- `EnvCompleto` needs that no run failed: secrets are printed once.
- `AceitoEAnunciado` excepts a refused Produce, whose error the handler does not
  read, and the end of the process.

`MiniaturaDeReferencia` in `MCRegistro`, an assumption TLC evaluates, compares
`Miniatura` with its definition by proportion (the nearest number of pixels,
`MaisProximo`) on sizes around the limits; `MiniaturaProporcional` proves the same
of every size.

### Fairness

Weak fairness of each partition's handler: a goroutine that has a message and is
not blocked keeps running. Weak fairness of each delivery: librdkafka retries in
the background while the process lives. In `Workers`, of main, of the loop around
`Consume` and of each claim that has a message or a cancelled session: nothing
but the scheduler is asked, and a message ends in bounded time (30 s, three
attempts). In `Servidor`, of each handler, of each goroutine that has a result to
send, and of a PUT whose pipe is closed. Nothing is assumed of users, clients in
mid-stream, failures, offset commits, rebalances, signals or restarts.
`ArquivaTudo` derives the fairness of the abstract `Resolve` from that of the
handler, for behaviours in which the connection is never closed and the session
never blocked: each event is archived or given up.

`ConvergeConsulta` and `TabelasConvergem` are limited to behaviours without faults
of consulta in which no content is sent twice: with a shared content the
collection itself leaves the deleted row behind (two collectors meet, and the
text `consumer.go:234` looks for is not the one the client returns) or a row
without a photo (`gophotos_duplicata`).

### What the violations show

| Run | The repository says | The code does |
|---|---|---|
| `consulta_zero` | README.md:29, the photo is destroyed only when the count is exactly zero | COUNT and removal are two calls; another partition's upsert comes in between, and the photo of a row is destroyed |
| `consulta_sessao_unica` | README.md:15, keeps the table in step | another partition's rollback takes the upsert with it, and the event is marked |
| `gophotos_duplicata` | README.md:23, a duplicate only needs a logical pointer | the photo may be collected between the check and the row |
| `workers_encerra` | main.go:91, a gracious shutdown | after a rebalance the second session of consulta and archiver blocks in Setup, no event is read, and SIGTERM does not end the process |

## 4. Proofs

`Registro_proofs` proves, for every number of files, users, contents and
partitions and every bound, from the assumptions `ArquivosAssumption`
(`Nenhum` is no content, the decodable contents are contents),
`ParticaoAssumption` (the partitioner is a function into the partitions) and the
bounds' being naturals:

- `TypeCorrect`: `Spec => []TypeOK`;
- `ProvenienciaInvariante`: the inductive invariant
  `TypeOK /\ Proveniencia /\ NasPhotos`;
- `EventosDoDono`: `Spec => []EventoVemDoDono`;
- `EventosTemFoto`: `Spec => []EventoTemFoto`;
- `EventosTemThumbnail`: `Spec => []ThumbnailACaminho`;
- `UmaRespostaPorPedido`: `Spec => []UmaResposta`.

Why the strengthening: `EventoVemDoDono` speaks of events, but the data of an
event come from the handler's own record (`etapa`) for an upload, and from a row
for a deletion; the row comes from an executed upload that travelled through the
topic; that one again from a handler. `Proveniencia` states the same of all four
- rows, executed uploads, handlers under way, events - in terms of what only
grows: the pending commands of the topic and `temp-media`. What is stored in
`photos` is said apart (`NasPhotos`), because it only grows while nothing collects:
`Proveniencia` is used again in the whole system, `NasPhotos` is not. Each has a
lemma that says a step only adds what is vouched for (`LinhasStep`, `RespostasStep`, `EtapasStep`, `EventosStep`);
`Cresce` says that what vouches stays; `ComandoFixo` that the command a handler
is at does not move under it. The lemmas on `Publica` and on deliveries say that
a message is added to, or moved between, logs and nothing is lost.

`ThumbnailACaminho` is about announced contents; the invariant
`ThumbnailsACaminho` is about every stored photo, because a handler of another
partition may skip both PUTs on account of it and announce it: while nothing fails,
the one that stored the photo stands before its `AddThumbnail` until the thumbnail
is there.

`UmaResposta` compares two numbers, and a rebalance reads requests again. The
invariant (`Contas`) puts a third between them: answers of a file, user and kind,
in the topic and in the queue, are at most the requests that the `processed` map
holds or the handler has just answered (`Feitos`), which are distinct positions of
the topic and so at most the requests. `Lugar` says that a handler is at a position
the map does not hold, so that answering adds a position with each answer. A
refused Produce only removes answers, and is allowed.

`RegistroCatalogo_proofs` proves, from the same assumptions:

- `ImplementaOCatalogo` (`ImplementaCatalogo`): each step is a step of `Catalogo`
  or announces nothing;
- `LinhasTemEvento` (`LinhaTemEvento`);
- `TabelaConcorda` (`TabelaConcordaComTopico`);
- `MarcadosTemResposta` (`MarcadoTemResposta`) and `ExecutadosTemLinha`
  (`ExecutadoTemLinha`), for any number of failing calls, deletions and rebalances.

`handleRegistroComando` does not look at what was announced; it looks a file up in
the table, and the row is only there after the executed command has been through
the topic. What forbids a second upload event or a second deletion is that a file
has one life, held by one of four holders at a time and handed on: the upload in
the topic, the executed command on its way back, the row, the deletion under way
(between the DELETE and its event). `UmaVida` says of each holder that the others
are empty and what the readers have been told meanwhile (`Ditos`); `Vida` adds that
there is one upload and one answer of a file; `NoLugar` that a file keeps to its
partition and that the handler is at something it has not handled before, which is
what makes the `processed` map and the replays after a rebalance agree. The steps of
a handler are grouped by what they do to a life (`Parada`, `Passa`, `Responde`,
`Anuncia`); a file that a step does not concern is `Igual` and keeps its life.

The invariant (`CInv`) holds while the process does not end (`Ileso`): one that ends
between the executed command and the event leaves a deletion without its upload.
A refused Produce breaks the handing on but starts no second life: `Conhecido`
therefore asks that the readers know of the upload or, once something was lost, of
nothing (`Calado`). `ImplementaOCatalogo` and `LinhasTemEvento` add that nothing was
lost, as the properties do; the whole system uses the lives without that.
For `TabelaConcorda` the lives must also not be lost: `TInv` adds, as long as
there is no fault but rebalances, that a file only uploaded so far has a holder
(`Guardada`) and that everything behind an offset was handled by this process
(`Vistos`). At rest the row is the only holder left.

For `MarcadosTemResposta` the invariant (`RInv`) speaks of the commands behind the
mark or in the `processed` map: a pending one has its answer after it, in the topic
or in the producer, and an executed upload has its row, its retraction or a deletion
asked for. A rebalance takes the mark back and the map does not follow, hence both.
A handler that is at its event has handed the answer over before (`NoEvento`). Each
step appends a command to a partition, queues one, delivers one or does neither
(`ComandoAnda`), and what comes after an offset stays after it (`DepoisFica`); a row only goes where a deletion was asked for (`LinhaSai`).

`Workers_proofs`, for any number of partitions, rebalances and failed joins:
`TypeCorrect` and `ReadyUmaVez` (`ReadyFechaUmaVez`). Inductive invariant: a session
exists only in Setup or in a session, all claims are over outside of one, and the
channel of the field is not closed whenever the loop is on its way to a Setup.

`Servidor_proofs`, for any number of streams, chunks, readers and failures:
`TypeCorrect` and `ObjetosInteiros` (`ObjetoInteiro`). `ObjetoInteiro` relates
the object to what the client sent, but the object is written by one goroutine
and the chunks are counted by the other. `Certo` says of each stream what the one
has done when the other is at a given point: while the PUT reads, the chunks
received are those written plus the one in the handler's hands; the pipe is at
EOF only if the client closed its stream; the result is in `errChan` only once
the PUT is over. `UmStream` reduces a step to the one stream it changes.
`ImplementaAApi` (`ImplementaApi`) is the refinement of `Api`, with
`TempAnunciado` for its `temp`: an upload becomes visible when its command leaves
the queue, not when it is written. It needs `Anuncios`: the queue holds at most
one upload of a file, not yet in the topic, whose stream is over and whose object
is there; and deletions only of files whose upload is in the topic.

About `Formato`, in `Registro_proofs`: `MiniaturaCabe`, the thumbnail of an image of
any size has sides between 1 and 300, and `MiniaturaProporcional`, of an image larger
than 300 it keeps the proportion to the nearest pixel.

`Migradores_proofs`, for files of any length and any number of runs, failures
and interruptions: `TypeCorrect`, `ExecucaoCompleta` (`OkCompleto`),
`ExecucaoRetomavel` (`Retomavel`), `TopicosOuErros` (`KafkaCompleto`) and
`EnvTemAsChaves` (`EnvCompleto`), from
`RoteiroAssumption`: a permission comes after the lines that create what it
names, as in every file of the repository (the script does not check it, and
without it a run fails on its own lines). Inductive invariant: every line before
`linha` is in effect in Garage (`Feitas`), every topic before `linhaKafka` exists
or was reported (`FeitasKafka`); `linha = Len + 1` then gives `OkCompleto`, and
`LinhaAtual` that the line at hand can only be refused because it is done already,
and then fails the run only if its words are not recognised, whatever they are. For
`EnvCompleto`, `Cobertas`: while no run failed, every key Garage holds is in `.env`
or among the secrets the script has in memory.

`Archiver_proofs`, for any number of partitions, events, copies, refusals, closed
connections and restarts: `TypeCorrect`, `NadaSePerde` (`GravadoOuDesistido`) and
`ImplementaEventStore` (`FielAoTopico`: every step of the archiver is a step of
`EventStore` or leaves its variables alone). Inductive invariant: `Offsets`, what is
marked or committed is in the table or given up; `EmDia`, behind an open connection
so is everything taken up. That a closed connection marks nothing is what keeps
`Offsets` when everything after it fails.

`Consulta_proofs`, for any number of files, users, contents and partitions, and
whatever transactions are joined, committed and lost: `TypeCorrect` and
`LinhaSaiPorEvento` (`LinhaSoSaiPorEvento`), from `EnviosAssumption`,
`LinhaAssumption` (a row is not the absence of one) and the assumptions on files
and partitions. A DELETE is run by one
handler and committed by another, or by nobody, so the invariant speaks of the
table as the session sees it (`visao`) as well as of the committed one:
`Tabelas` says that the rows of both come from events and that a row committed
but no longer seen has its deletion event. `Coerente` (the events of one file
agree on its user and content, which `Catalogo` gives) makes that event the one
the row names.

`ColetaPoupaVizinhos` (`ColetaPoupaParticao`), for any number of partitions and any
failures: from the COUNT that says zero until photo and thumbnail are gone, no other
file of the collector's own partition refers to the content. The invariant is
`Pendente`: outside a transaction the session sees what is committed, and a row it no
longer sees though it is committed is the one the handler of its partition is
deleting, so that whoever rolls back can only bring back that one. Every step is of
one of three kinds to the others (`Efeito`): it touches a file of its own partition,
ends the transaction, or leaves the tables alone.

`TabelaSegue` (`TabelaSegueEventos`): while nothing fails and no content is shared,
the table is what the events handled so far call for whenever all handlers are
between two messages. `Bem` states it at every step, file by file: a row is seen
exactly while its upload was handled and its deletion not begun (`TabelaCerta`), and
the objects of a content are there until its own deletion removes them (`Guardado`),
so that no handler meets an error and every one goes on to its COMMIT (`SemErro`).
COMMITs may come from any handler: with no ROLLBACK anywhere it does not matter whose.

`GoPhotos_proofs` is about the whole system, for any number of files, users, contents
and partitions, any failure, lost Produce, rebalance, cancelled session and restart of
either program:

- `FotoFicaAteExclusao` (`FotoAteExclusao`), from `SistemaInv`: a handler of registro
  past its PUT names a content that is stored or was announced as deleted (`NaEtapa`),
  and a handler of consulta under way is that of a deletion event (`ColetaPedida`).
  Once a deletion was announced it stays announced, so that a collector can only ever
  take away what the statement no longer asks for;
- `ExclusaoPeloRegistro` (`ExclusaoPassaPeloRegistro`), from `ExclusaoInv`, while
  registro does not end: consulta deletes for an event only, in whichever transaction
  (`Tabelas`); an event of deletion ends the one life of its file (`Vidas`, from
  `RegistroCatalogo_proofs`); a life that has ended has no row (`FimDaVida`);
- `EventosELinhas`: `EventoVemDoDono` and `LinhaTemEvento` hold of registro in front of
  consulta as they do of registro alone.

The steps of registro in the system are those of `Registro`, so its lemmas about
single steps are used as they are; the steps of consulta write nothing of registro's
(`SoOsBuckets`) but the buckets, and no invariant used here speaks of those except
through `Disponivel`.

Model-checked only: liveness (`PedidoRespondido`, `ConvergeConsulta`,
`TabelasConvergem`, `ArquivaTudo`, `SempreEmSessao`, `EncerraComSessao`,
`NuncaTrava`, `AceitoEAnunciado`; fairness and ENABLED are beyond the prover). Every
other property of a passing run has a theorem. `EventosTemFoto` and
`EventosTemThumbnail` are about registro alone, where nothing removes a photo; with the
collector the statement that holds is `FotoAteExclusao`.

## 5. Not modelled, and what could follow

- Pages of `GetMedia`: `page_num` is handed to the query as OFFSET, a number of
  rows (`media_repository.go:37`), so that pages overlap. Only what a read does to
  the process is in `Servidor`.
- The values of the metadata, SHA-256 and the codecs: nothing decides on them.
- The limit of registro's undrained Events channel; a Produce that fails, which
  is what it leads to, is modelled (`MaxPerdas`).
- Retransmissions by librdkafka in front of registro and consulta.
- The generated gRPC code, the demo client, the formatting of log lines, and the
  repository queries and S3 helpers that no program calls.
- Column types, indexes and defaults of the schemas.

Worth proving next: that `GoPhotos`, seen through the topics, implements `Catalogo`.
