------------------------------ MODULE Servidor ------------------------------
(***************************************************************************)
(* The API process.  An upload is two goroutines: the handler receives     *)
(* chunks from the client and writes each one to an io.Pipe, and           *)
(* WriteObjectOnS3 reads the pipe into a PUT to temp-media and answers on  *)
(* errChan.  A write to the pipe and the read of it are one step, for the  *)
(* pipe holds nothing.  Commands leave through the queue of librdkafka.    *)
(* GetMedia reads consulta's table over the process's one connection.      *)
(*                                                                         *)
(* Names, sizes and mimetypes are copied and left out; a chunk is counted, *)
(* not looked into; a page is whatever rows the query returns.             *)
(***************************************************************************)
EXTENDS Midia

CONSTANTS Leitores,      \* calls of GetMedia that may be under way at once
          MaxChunks,     \* bound: messages of a stream
          MaxExclusoes,  \* bound: delete requests
          MaxFalhasPut,  \* bound: PUTs that fail with the stream in order
          MaxPerdas,     \* bound: calls of Produce that return an error
          MaxMortes      \* bound: ends of the process for an outside reason

ASSUME ServidorBoundsAssumption ==
  /\ MaxChunks \in Nat /\ MaxExclusoes \in Nat /\ MaxFalhasPut \in Nat
  /\ MaxPerdas \in Nat /\ MaxMortes \in Nat

VARIABLES
  stream,    \* uploads, one per uuid: see Streams
  fila,      \* commands in the queue of the producer
  leitura,   \* GetMedia: "livre", "linhas" (rows open), "assina" (URLs)
  conexao,   \* pgx.Conn: "aberta" or "fechada"
  processo,  \* "vivo" or "morto"
  gastoApi

vars == <<midiaVars, stream, fila, leitura, conexao, processo, gastoApi>>

Streams == [
  cliente : {"livre", "envia", "fechou", "abortou"},  \* CloseSend, or gone
  dono : Usuarios \cup {Nenhum},       \* user-id in the messages
  foto : Hashes \cup {Nenhum},         \* content being sent
  etapa : {"livre", "recebe", "escreve", "espera", "fim"},  \* of the handler
  recebidos : 0..MaxChunks,            \* messages received
  size : 0..MaxChunks,                 \* chunks written, as the handler counts
  cano : {"aberto", "eof", "erro"},    \* write end of the pipe
  put : {"livre", "le", "ok", "erro", "fim"},  \* WriteObjectOnS3, its result
  errChan : {"vazio", "ok", "erro"},   \* buffer of the channel
  partes : 0..MaxChunks,               \* chunks in the object of temp-media
  resposta : {"nenhuma", "ok", "erro"}]

SemStream == [cliente |-> "livre", dono |-> Nenhum, foto |-> Nenhum, etapa |-> "livre",
  recebidos |-> 0, size |-> 0, cano |-> "aberto", put |-> "livre",
  errChan |-> "vazio", partes |-> 0, resposta |-> "nenhuma"]

Vivo == processo = "vivo"
Gasta(tipo, max) ==
  gastoApi[tipo] < max /\ gastoApi' = [gastoApi EXCEPT ![tipo] = @ + 1]

(* What an upload does until its command is queued touches only the stream *)
(* and temp-media.                                                         *)
SoUpload == UNCHANGED <<photos, thumbnails, comando, media, leitura, conexao, processo>>
SoStream == SoUpload /\ UNCHANGED <<temp, fila, gastoApi>>

Muda(f, s) == stream' = [stream EXCEPT ![f] = s]

EhDelete(c) == c.tipo = "delete"
Exclusoes == FoldFunction(LAMBDA log, n : n + Len(SelectSeq(log, EhDelete)), 0, comando)
Anunciado(f) == \E c \in Todas(comando) : c.tipo = "upload" /\ c.arquivo = f

-----------------------------------------------------------------------------
(* Upload: the handler starts and with it the goroutine of the PUT.        *)
Upload(f, u, h) ==
  /\ Vivo /\ stream[f] = SemStream
  /\ Muda(f, [stream[f] EXCEPT !.cliente = "envia", !.dono = u, !.foto = h,
                               !.etapa = "recebe", !.put = "le"])
  /\ SoStream

ClienteTermina(f) ==
  /\ stream[f].cliente = "envia" /\ stream[f].etapa # "fim"
  /\ \E fim \in {"fechou", "abortou"} : Muda(f, [stream[f] EXCEPT !.cliente = fim])
  /\ SoStream

RecvChunk(f) ==
  /\ Vivo /\ stream[f].etapa = "recebe" /\ stream[f].cliente = "envia"
  /\ stream[f].recebidos < MaxChunks
  /\ Muda(f, [stream[f] EXCEPT !.recebidos = @ + 1, !.etapa = "escreve"])
  /\ SoStream

(* Slip: Close on an error of Recv, as at the end of the stream.           *)
FechaSempreComEOF(s) == "eof"
(* pipeWriter.Close at EOF, CloseWithError on any other error.             *)
FechaCano(s) == IF s.cliente = "fechou" THEN "eof" ELSE "erro"

RecvFim(f) ==
  /\ Vivo /\ stream[f].etapa = "recebe" /\ stream[f].cliente # "envia"
  /\ Muda(f, [stream[f] EXCEPT !.cano = FechaCano(stream[f]), !.etapa = "espera"])
  /\ SoStream

(* pipeWriter.Write returns: the chunk was read, or the reader is closed;  *)
(* then the error is logged and the handler goes on receiving.             *)
Escreve(f) ==
  /\ Vivo /\ stream[f].etapa = "escreve" /\ stream[f].put \in {"le", "fim"}
  /\ Muda(f, [stream[f] EXCEPT !.etapa = "recebe",
                               !.size = IF stream[f].put = "le" THEN @ + 1 ELSE @])
  /\ SoStream

(* The reader is at EOF: the object is stored, whether or not S3's answer  *)
(* arrives.                                                                *)
PutObject(f) ==
  /\ Vivo /\ stream[f].put = "le" /\ stream[f].cano = "eof"
  /\ temp' = [temp EXCEPT ![f] = stream[f].foto]
  /\ \E r \in {"ok", "erro"} :
       /\ IF r = "erro" THEN Gasta("falhasPut", MaxFalhasPut) ELSE UNCHANGED gastoApi
       /\ Muda(f, [stream[f] EXCEPT !.put = r, !.partes = stream[f].size])
  /\ SoUpload /\ UNCHANGED fila

(* PutObject returns the pipe's error, or that of the context of a client  *)
(* that went away; or S3 refuses.                                          *)
PutFalha(f) ==
  /\ Vivo /\ stream[f].put = "le"
  /\ IF stream[f].cliente = "abortou"
     THEN UNCHANGED gastoApi
     ELSE Gasta("falhasPut", MaxFalhasPut)
  /\ Muda(f, [stream[f] EXCEPT !.put = "erro"])
  /\ SoUpload /\ UNCHANGED <<temp, fila>>

(* Slip: errChan has no buffer.                                            *)
SemBuffer(s) == s.etapa = "espera"
(* errChan has room for the only result ever sent on it.                   *)
CabeNoErrChan(s) == s.errChan = "vazio"

(* The result is sent, and then the reader closed (deferred).              *)
EnviaResultado(f) ==
  /\ Vivo /\ stream[f].put \in {"ok", "erro"} /\ CabeNoErrChan(stream[f])
  /\ Muda(f, [stream[f] EXCEPT !.errChan = stream[f].put, !.put = "fim"])
  /\ SoStream

-----------------------------------------------------------------------------
(* Slip: the command leaves as if it had been executed.                    *)
ProduceExecutado(c) ==
  fila' = Append(fila, [c EXCEPT !.status = "executado"]) /\ UNCHANGED gastoApi
(* Slip: the response goes out and the command does not.                   *)
ProduceEsquecido(c) == UNCHANGED <<fila, gastoApi>>
(* Produce queues the command; an error of its own is ignored.             *)
Produce(c) ==
  \/ fila' = Append(fila, c) /\ UNCHANGED gastoApi
  \/ Gasta("perdas", MaxPerdas) /\ UNCHANGED fila

Termina(f, r) ==
  /\ Vivo /\ stream[f].etapa = "espera" /\ stream[f].errChan = r
  /\ Muda(f, [stream[f] EXCEPT !.etapa = "fim", !.resposta = r])
  /\ SoUpload /\ UNCHANGED temp

(* Slip: a failed PUT is logged, and the command sent.                     *)
RecusadoAnuncia(f) ==
  Termina(f, "erro") /\ Produce(NewComando("upload", f, stream[f].dono))
(* The PUT failed: its error is the answer, and there is no command.       *)
UploadRecusado(f) == Termina(f, "erro") /\ UNCHANGED <<fila, gastoApi>>

UploadAceito(f) ==
  /\ stream[f].recebidos > 0
  /\ Termina(f, "ok")
  /\ Produce(NewComando("upload", f, stream[f].dono))

DeleteMedia(f, u) ==
  /\ Vivo /\ Anunciado(f)
  /\ Exclusoes + Len(SelectSeq(fila, EhDelete)) < MaxExclusoes
  /\ Produce(NewComando("delete", f, u))
  /\ SoUpload /\ UNCHANGED <<temp, stream>>

(* The broker acknowledges the oldest command of the queue.                *)
EntregaComando ==
  /\ Vivo /\ fila # <<>>
  /\ comando' = Publica(comando, Head(fila)) /\ fila' = Tail(fila)
  /\ UNCHANGED <<temp, photos, thumbnails, media, stream, leitura, conexao,
                 processo, gastoApi>>

-----------------------------------------------------------------------------
(* GetMediaPaged: one query at a time fits the connection (another one is  *)
(* answered with an error at once, and changes nothing).                   *)
GetMediaPaged(l) ==
  /\ Vivo /\ leitura[l] = "livre" /\ conexao = "aberta"
  /\ \A l2 \in Leitores : leitura[l2] # "linhas"
  /\ leitura' = [leitura EXCEPT ![l] = "linhas"]
  /\ UNCHANGED <<midiaVars, stream, fila, conexao, processo, gastoApi>>

(* CollectRows closes the rows; if the network fails, pgx closes the       *)
(* connection, and GetMedia fails until the process is started again.      *)
CollectRows(l) ==
  /\ Vivo /\ leitura[l] = "linhas"
  /\ \/ leitura' = [leitura EXCEPT ![l] = "assina"] /\ UNCHANGED <<conexao, gastoApi>>
     \/ /\ Gasta("mortes", MaxMortes) /\ conexao' = "fechada"
        /\ leitura' = [leitura EXCEPT ![l] = "livre"]
  /\ UNCHANGED <<midiaVars, stream, fila, processo>>

(* Every URL is presigned and the page answered.                           *)
RespondeMedia(l) ==
  /\ Vivo /\ leitura[l] = "assina"
  /\ leitura' = [leitura EXCEPT ![l] = "livre"]
  /\ UNCHANGED <<midiaVars, stream, fila, conexao, processo, gastoApi>>

(* The process ends: the handlers and goroutines, the queue and the        *)
(* connections go with it, and the clients get an error.                   *)
Morre ==
  /\ processo' = "morto" /\ fila' = <<>>
  /\ stream' = [f \in Arquivos |->
       CASE stream[f].etapa = "livre" -> SemStream
         [] stream[f].etapa = "fim" -> [stream[f] EXCEPT !.put = "fim"]
         [] OTHER -> [stream[f] EXCEPT !.etapa = "fim", !.put = "fim", !.resposta = "erro"]]
  /\ leitura' = [l \in Leitores |-> "livre"] /\ conexao' = "fechada"
  /\ UNCHANGED midiaVars

(* A stream closed before its first message: its empty object is stored    *)
(* and the nil novoCmd dereferenced; nothing recovers the panic.           *)
PanicoSemComando(f) ==
  /\ Vivo /\ stream[f].etapa = "espera"
  /\ stream[f].errChan = "ok" /\ stream[f].recebidos = 0
  /\ Morre /\ UNCHANGED gastoApi

(* A URL could not be presigned: the FilePath or the ThumbnailPath of the  *)
(* row, both NULL in the table, is dereferenced.                           *)
PanicoSemURL(l) == Vivo /\ leitura[l] = "assina" /\ Morre /\ Gasta("mortes", MaxMortes)

(* A command is given up by librdkafka: log.Fatalf; or the machine fails.  *)
FalhaEntrega == Vivo /\ Morre /\ Gasta("mortes", MaxMortes)

(* main: the process is started again.                                     *)
Inicia ==
  /\ ~Vivo
  /\ processo' = "vivo" /\ conexao' = "aberta"
  /\ UNCHANGED <<midiaVars, stream, fila, leitura, gastoApi>>

-----------------------------------------------------------------------------
Init ==
  /\ MidiaInit
  /\ stream = [f \in Arquivos |-> SemStream]
  /\ fila = <<>>
  /\ leitura = [l \in Leitores |-> "livre"] /\ conexao = "aberta"
  /\ processo = "vivo"
  /\ gastoApi = [t \in {"falhasPut", "perdas", "mortes"} |-> 0]

Handler(f) ==
  RecvFim(f) \/ Escreve(f) \/ UploadAceito(f) \/ UploadRecusado(f) \/ PanicoSemComando(f)
Put(f) == PutObject(f) \/ PutFalha(f)

Next ==
  \/ \E f \in Arquivos :
       \/ \E u \in Usuarios : DeleteMedia(f, u) \/ \E h \in Hashes : Upload(f, u, h)
       \/ ClienteTermina(f) \/ RecvChunk(f) \/ Handler(f) \/ Put(f) \/ EnviaResultado(f)
  \/ \E l \in Leitores : GetMediaPaged(l) \/ CollectRows(l) \/ RespondeMedia(l)
                         \/ PanicoSemURL(l)
  \/ EntregaComando \/ FalhaEntrega \/ Inicia

Spec == Init /\ [][Next]_vars

(* Goroutines run, a PUT whose pipe is closed ends, the broker accepts     *)
(* commands.  Clients may pause for ever; nobody must start the process.   *)
FairSpec ==
  /\ Spec /\ WF_vars(EntregaComando)
  /\ \A f \in Arquivos :
       /\ WF_vars(Handler(f)) /\ WF_vars(EnviaResultado(f))
       /\ WF_vars(stream[f].cano # "aberto" /\ Put(f))

-----------------------------------------------------------------------------
TypeOK ==
  /\ MidiaTypeOK
  /\ stream \in [Arquivos -> Streams]
  /\ fila \in Seq(Comandos)
  /\ leitura \in [Leitores -> {"livre", "linhas", "assina"}]
  /\ conexao \in {"aberta", "fechada"} /\ processo \in {"vivo", "morto"}
  /\ gastoApi \in [{"falhasPut", "perdas", "mortes"} -> Nat]

(* An object of temp-media is never part of a photo: it holds every chunk  *)
(* the client sent before it closed the stream, however the stream, the    *)
(* PUT and the process failed; and the size answered is that of the object *)
(* (storage_handler_test.go:83).                                           *)
ObjetoInteiro == \A f \in Arquivos : LET s == stream[f] IN
  /\ temp[f] # Nenhum => s.cliente = "fechou" /\ s.partes = s.recebidos
  /\ s.resposta = "ok" => temp[f] = s.foto /\ s.size = s.partes

(* To the processors the API is the one of module Api: bytes and command   *)
(* appear together and once, no command is of a photo that is not whole in *)
(* temp-media, and an upload that failed leaves nothing they can see.      *)
TempAnunciado == [f \in Arquivos |-> IF Anunciado(f) THEN temp[f] ELSE Nenhum]
PelosProcessadores == INSTANCE Api WITH temp <- TempAnunciado
ImplementaApi == PelosProcessadores!ApiSpec

(* Handler and goroutine never wait for one another for ever: as long as   *)
(* the process lives, a stream is always either between two messages of    *)
(* its client or over on both sides.                                       *)
NuncaTrava == \A f \in Arquivos : []<>(LET s == stream[f] IN
  \/ ~Vivo
  \/ s.cliente \in {"livre", "envia"} /\ s.etapa \in {"livre", "recebe"}
  \/ s.etapa = "fim" /\ s.put = "fim")

(* In a process that never ends a client told "ok" sees its command        *)
(* delivered, unless Produce refused it without a word.                    *)
AceitoEAnunciado == []Vivo => \A f \in Arquivos :
  stream[f].resposta = "ok" ~> (Anunciado(f) \/ gastoApi["perdas"] > 0)

=============================================================================
