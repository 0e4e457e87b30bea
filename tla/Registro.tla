------------------------------ MODULE Registro ------------------------------
(***************************************************************************)
(* The registro processor (command side).  One goroutine per partition of  *)
(* registro.comando takes the next command, runs its handler and hands the *)
(* answers to an asynchronous producer; the goroutines share the table     *)
(* registro.registro_media and the buckets photos and thumbnails.          *)
(*                                                                         *)
(* A handler is cut where another goroutine, a failure or a crash can come *)
(* in: after the dedup check, after each PUT, after each Produce.          *)
(***************************************************************************)
EXTENDS Api, FiniteSets

CONSTANTS MaxExclusoes,  \* bound: delete requests in a behaviour
          MaxFalhas,   \* bound: S3 and Postgres calls that return an error
          MaxPerdas,   \* bound: Produce calls that return an error
          MaxQuedas,   \* bound: ends of the process, crash or SIGTERM
          MaxSessoes   \* bound: consumer-group rebalances

ASSUME RegistroBoundsAssumption ==
  /\ MaxExclusoes \in Nat /\ MaxFalhas \in Nat /\ MaxPerdas \in Nat
  /\ MaxQuedas \in Nat /\ MaxSessoes \in Nat

VARIABLES exclusoes,    \* delete requests so far, for the bound only
          registro,     \* table registro.registro_media: file-id -> row
          posicao,      \* last offset handled and marked, per partition
          confirmado,   \* last offset committed to the group
          processado,   \* offsets in the processed map (memory)
          etapa,        \* where the handler of each partition stands
          filaComando,  \* answers in the producer, not yet on the broker
          filaMedia,    \* events in the producer, not yet on the broker
          processo,     \* "roda"; "semBanco" once pgx gave its connection up;
                        \* "encerra" from SIGTERM until main has returned
          gasto         \* faults so far, for the bounds only

registroVars == <<registro, posicao, confirmado, processado, etapa,
                  filaComando, filaMedia, processo, gasto>>

Passos == {"photo", "thumbnail", "executado", "evento"}
Livre == [passo |-> "livre", usuario |-> Nenhum, hash |-> Nenhum]
Etapas == {Livre} \cup [passo : Passos, usuario : Usuarios, hash : Hashes]
Gastos == [{"falhas", "perdas", "quedas", "sessoes"} -> Nat]

Gasta(tipo, max) == gasto[tipo] < max /\ gasto' = [gasto EXCEPT ![tipo] = @ + 1]

(* The command partition p is at: the one after the last it marked.        *)
Comando(p) == comando[p][posicao[p] + 1]
TemComando(p) == posicao[p] < Len(comando[p])

(* handleRegistroComando starts on a command of this status and type; the  *)
(* processed map has not seen its offset.                                  *)
Trata(p, status, tipo) ==
  /\ etapa[p].passo = "livre" /\ TemComando(p)
  /\ posicao[p] + 1 \notin processado[p]
  /\ Comando(p).status = status /\ Comando(p).tipo = tipo

(* The handler is under way on partition p, about to do this step.         *)
Em(p, passo) == etapa[p].passo = passo /\ TemComando(p)

Vai(p, passo, u, h) ==
  etapa' = [etapa EXCEPT ![p] = [passo |-> passo, usuario |-> u, hash |-> h]]

(* Slip: the offset is marked but not put in the processed map.            *)
ConcluiSemMapa(p) ==
  /\ posicao' = [posicao EXCEPT ![p] = @ + 1]
  /\ etapa' = [etapa EXCEPT ![p] = Livre]
  /\ UNCHANGED processado

(* ProcessMessage returns nil: remembered in the map, then marked.         *)
Conclui(p) ==
  /\ posicao' = [posicao EXCEPT ![p] = @ + 1]
  /\ processado' = [processado EXCEPT ![p] = @ \cup {posicao[p] + 1}]
  /\ etapa' = [etapa EXCEPT ![p] = Livre]

(* NewMensagemKafkaRejeitada: the command itself with another status, back *)
(* to its own topic.  The handler ends there and its message is marked.    *)
Rejeita(p) ==
  /\ filaComando' = Publica(filaComando, [Comando(p) EXCEPT !.status = "rejeitado"])
  /\ Conclui(p)

-----------------------------------------------------------------------------
(* registroUpload.  What the bytes are, temp-media says: an object is      *)
(* never rewritten or removed there.                                       *)
RejeitaInvalido(p) ==
  /\ Trata(p, "pendente", "upload")
  /\ temp[Comando(p).arquivo] \notin Decodificaveis
  /\ Rejeita(p)
  /\ UNCHANGED <<midiaVars, registro, confirmado, filaMedia, gasto, processo>>

(* Slip: the sense of the dedup check is inverted.                         *)
VerificaPhotoInvertida(p) ==
  LET h == temp[Comando(p).arquivo] IN
  /\ Trata(p, "pendente", "upload")
  /\ h \in Decodificaveis
  /\ Vai(p, IF h \notin photos THEN "executado" ELSE "photo", Comando(p).usuario, h)
  /\ UNCHANGED <<midiaVars, registro, posicao, confirmado, processado,
                 filaComando, filaMedia, gasto, processo>>

(* Slip: a duplicate gets its row at the check, before any message.        *)
VerificaPhotoComLinha(p) ==
  LET f == Comando(p).arquivo
      h == temp[f] IN
  /\ Trata(p, "pendente", "upload")
  /\ h \in Decodificaveis
  /\ Vai(p, IF h \in photos THEN "executado" ELSE "photo", Comando(p).usuario, h)
  /\ IF h \in photos
     THEN registro' = [registro EXCEPT ![f] = [usuario |-> Comando(p).usuario, hash |-> h]]
     ELSE UNCHANGED registro
  /\ UNCHANGED <<midiaVars, posicao, confirmado, processado,
                 filaComando, filaMedia, gasto, processo>>

(* PhotoExiste: the answer is acted upon later, whatever happens between.  *)
VerificaPhoto(p) ==
  LET h == temp[Comando(p).arquivo] IN
  /\ Trata(p, "pendente", "upload")
  /\ h \in Decodificaveis
  /\ Vai(p, IF h \in photos THEN "executado" ELSE "photo", Comando(p).usuario, h)
  /\ UNCHANGED <<midiaVars, registro, posicao, confirmado, processado,
                 filaComando, filaMedia, gasto, processo>>

(* Slip: the thumbnail of a new photo is forgotten.                        *)
AddPhotoSemThumbnail(p) ==
  /\ Em(p, "photo")
  /\ photos' = photos \cup {etapa[p].hash}
  /\ Vai(p, "executado", etapa[p].usuario, etapa[p].hash)
  /\ UNCHANGED <<temp, thumbnails, comando, media, registro, posicao, confirmado,
                 processado, filaComando, filaMedia, gasto, processo>>

AddPhoto(p) ==
  /\ Em(p, "photo")
  /\ photos' = photos \cup {etapa[p].hash}
  /\ Vai(p, "thumbnail", etapa[p].usuario, etapa[p].hash)
  /\ UNCHANGED <<temp, thumbnails, comando, media, registro, posicao, confirmado,
                 processado, filaComando, filaMedia, gasto, processo>>

AddThumbnail(p) ==
  /\ Em(p, "thumbnail")
  /\ thumbnails' = thumbnails \cup {etapa[p].hash}
  /\ Vai(p, "executado", etapa[p].usuario, etapa[p].hash)
  /\ UNCHANGED <<temp, photos, comando, media, registro, posicao, confirmado,
                 processado, filaComando, filaMedia, gasto, processo>>

(* Slip: the branch of a failed call returns no message at all.            *)
FalhaUploadCalada(p) ==
  /\ Trata(p, "pendente", "upload") \/ Em(p, "photo") \/ Em(p, "thumbnail")
  /\ Gasta("falhas", MaxFalhas)
  /\ Conclui(p)
  /\ UNCHANGED <<midiaVars, registro, confirmado, filaComando, filaMedia, processo>>

(* An S3 call of registroUpload fails: the command is rejected.  A PUT     *)
(* whose answer was lost may have been stored all the same.                *)
FalhaUpload(p) ==
  /\ \/ Trata(p, "pendente", "upload") /\ UNCHANGED <<photos, thumbnails>>
     \/ /\ Em(p, "photo")
        /\ photos' \in {photos, photos \cup {etapa[p].hash}}
        /\ UNCHANGED thumbnails
     \/ /\ Em(p, "thumbnail")
        /\ thumbnails' \in {thumbnails, thumbnails \cup {etapa[p].hash}}
        /\ UNCHANGED photos
  /\ Gasta("falhas", MaxFalhas)
  /\ Rejeita(p)
  /\ UNCHANGED <<temp, comando, media, registro, confirmado, filaMedia, processo>>

-----------------------------------------------------------------------------
(* Slip: the lookup forgets the user.                                      *)
DeQualquerUm(f, u) == registro[f] # Nenhum

DoUsuario(f, u) == registro[f] # Nenhum /\ registro[f].usuario = u

(* Slip: the row is found and announced but not deleted.                   *)
DeleteRegistroSoAnuncia(p) ==
  LET c == Comando(p) IN
  /\ Trata(p, "pendente", "delete") /\ processo = "roda"
  /\ DoUsuario(c.arquivo, c.usuario)
  /\ Vai(p, "executado", c.usuario, registro[c.arquivo].hash)
  /\ UNCHANGED <<midiaVars, registro, posicao, confirmado, processado,
                 filaComando, filaMedia, gasto, processo>>

(* deleteRegistro.  Find and Delete are one step: only this partition ever *)
(* touches the row, both queries being keyed by the file-id.               *)
DeleteRegistro(p) ==
  LET c == Comando(p) IN
  /\ Trata(p, "pendente", "delete") /\ processo = "roda"
  /\ DoUsuario(c.arquivo, c.usuario)
  /\ registro' = [registro EXCEPT ![c.arquivo] = Nenhum]
  /\ Vai(p, "executado", c.usuario, registro[c.arquivo].hash)
  /\ UNCHANGED <<midiaVars, posicao, confirmado, processado,
                 filaComando, filaMedia, gasto, processo>>

(* Slip: a row that is not there ends the handler without an answer.       *)
RejeitaDeleteCalada(p) ==
  /\ Trata(p, "pendente", "delete") /\ processo = "roda"
  /\ ~DoUsuario(Comando(p).arquivo, Comando(p).usuario)
  /\ Conclui(p)
  /\ UNCHANGED <<midiaVars, registro, confirmado, filaComando, filaMedia, gasto, processo>>

RejeitaDelete(p) ==
  /\ Trata(p, "pendente", "delete") /\ processo = "roda"
  /\ ~DoUsuario(Comando(p).arquivo, Comando(p).usuario)
  /\ Rejeita(p)
  /\ UNCHANGED <<midiaVars, registro, confirmado, filaMedia, gasto, processo>>

(* A statement fails, and may have been applied all the same.  Some errors *)
(* (the 30 s of ConsumeClaim, a broken network) make pgx close the one     *)
(* connection of the process, which nobody opens again.                    *)
FalhaSQL(feito) ==
  /\ processo = "roda" /\ Gasta("falhas", MaxFalhas)
  /\ registro' \in {registro, feito}
  /\ processo' \in {"roda", "semBanco"}

FalhaDelete(p) ==
  LET c == Comando(p) IN
  /\ Trata(p, "pendente", "delete")
  /\ FalhaSQL(IF DoUsuario(c.arquivo, c.usuario)
              THEN [registro EXCEPT ![c.arquivo] = Nenhum] ELSE registro)
  /\ Rejeita(p)
  /\ UNCHANGED <<midiaVars, confirmado, filaMedia>>

-----------------------------------------------------------------------------
(* Slip: an UPDATE in place of the upsert.                                 *)
SalvaSeExiste(c) ==
  IF registro[c.arquivo] = Nenhum THEN registro
  ELSE [registro EXCEPT ![c.arquivo].hash = c.hash]

(* updateRegistro, on the processor's own answer to an upload.  The upsert *)
(* leaves the user of an existing row alone.                               *)
Salva(c) ==
  [registro EXCEPT ![c.arquivo] =
     [usuario |-> IF @ = Nenhum THEN c.usuario ELSE @.usuario, hash |-> c.hash]]

UpdateRegistro(p) ==
  /\ Trata(p, "executado", "upload") /\ processo = "roda"
  /\ registro' = Salva(Comando(p))
  /\ Conclui(p)
  /\ UNCHANGED <<midiaVars, confirmado, filaComando, filaMedia, gasto, processo>>

(* Slip: the error of the upsert is ignored.                               *)
FalhaUpdateCalada(p) ==
  /\ Trata(p, "executado", "upload")
  /\ FalhaSQL(Salva(Comando(p)))
  /\ Conclui(p)
  /\ UNCHANGED <<midiaVars, confirmado, filaComando, filaMedia>>

FalhaUpdate(p) ==
  /\ Trata(p, "executado", "upload")
  /\ FalhaSQL(Salva(Comando(p)))
  /\ Rejeita(p)
  /\ UNCHANGED <<midiaVars, confirmado, filaMedia>>

(* Without a connection every statement fails at once, without an effect.  *)
SemConexao(p) ==
  /\ processo # "roda"
  /\ Trata(p, "pendente", "delete") \/ Trata(p, "executado", "upload")
  /\ Rejeita(p)
  /\ UNCHANGED <<midiaVars, registro, confirmado, filaMedia, gasto, processo>>

(* Nothing to do: a rejection, an executed delete, or an offset the        *)
(* processed map already holds.                                            *)
IgnoraComando(p) ==
  /\ etapa[p].passo = "livre" /\ TemComando(p)
  /\ \/ posicao[p] + 1 \in processado[p]
     \/ Comando(p).status = "rejeitado"
     \/ Comando(p).status = "executado" /\ Comando(p).tipo = "delete"
  /\ Conclui(p)
  /\ UNCHANGED <<midiaVars, registro, confirmado, filaComando, filaMedia, gasto, processo>>

-----------------------------------------------------------------------------
(* EnviarMensagens: the executed command, then the event.  A Produce that  *)
(* fails is logged and the loop goes on.                                   *)
Executado(p) ==
  [Comando(p) EXCEPT !.status = "executado",
                     !.hash = IF Comando(p).tipo = "upload" THEN etapa[p].hash ELSE @]

(* Slip: the event is built from the command as it came, before its hash.  *)
EventoSemHash(p) ==
  NewEvent(Comando(p).tipo, Comando(p).arquivo, etapa[p].usuario, Comando(p).hash)

EventoDe(p) ==
  NewEvent(Comando(p).tipo, Comando(p).arquivo, etapa[p].usuario, etapa[p].hash)

ProduzExecutado(p) ==
  /\ Em(p, "executado")
  /\ \/ filaComando' = Publica(filaComando, Executado(p)) /\ UNCHANGED gasto
     \/ Gasta("perdas", MaxPerdas) /\ UNCHANGED filaComando
  /\ Vai(p, "evento", etapa[p].usuario, etapa[p].hash)
  /\ UNCHANGED <<midiaVars, registro, posicao, confirmado, processado, filaMedia, processo>>

ProduzEvento(p) ==
  /\ Em(p, "evento")
  /\ \/ filaMedia' = Publica(filaMedia, EventoDe(p)) /\ UNCHANGED gasto
     \/ Gasta("perdas", MaxPerdas) /\ UNCHANGED filaMedia
  /\ Conclui(p)
  /\ UNCHANGED <<midiaVars, registro, confirmado, filaComando, processo>>

(* librdkafka delivers in the background, in order per partition; nothing  *)
(* orders the two topics between themselves.                               *)
EntregaComando(p) ==
  /\ filaComando[p] # <<>>
  /\ comando' = [comando EXCEPT ![p] = Append(@, Head(filaComando[p]))]
  /\ filaComando' = [filaComando EXCEPT ![p] = Tail(@)]
  /\ UNCHANGED <<temp, photos, thumbnails, media, registro, posicao, confirmado,
                 processado, etapa, filaMedia, gasto, processo>>

EntregaMedia(p) ==
  /\ filaMedia[p] # <<>>
  /\ media' = [media EXCEPT ![p] = Append(@, Head(filaMedia[p]))]
  /\ filaMedia' = [filaMedia EXCEPT ![p] = Tail(@)]
  /\ UNCHANGED <<temp, photos, thumbnails, comando, registro, posicao, confirmado,
                 processado, etapa, filaComando, gasto, processo>>

-----------------------------------------------------------------------------
(* sarama commits the marked offset from time to time.                     *)
ConfirmaOffset(p) ==
  /\ confirmado[p] # posicao[p]
  /\ confirmado' = [confirmado EXCEPT ![p] = posicao[p]]
  /\ UNCHANGED <<midiaVars, registro, posicao, processado, etapa,
                 filaComando, filaMedia, gasto, processo>>

(* A new session: every ConsumeClaim ends between messages and reading     *)
(* resumes at the committed offsets (the flush at the end of a session may *)
(* fail); the processed map is that of the same process.                   *)
NovaSessao ==
  /\ processo # "encerra"
  /\ \A p \in Particoes : etapa[p].passo = "livre"
  /\ Gasta("sessoes", MaxSessoes)
  /\ posicao' = confirmado
  /\ UNCHANGED <<midiaVars, registro, confirmado, processado, etapa,
                 filaComando, filaMedia, processo>>

(* The next start of the process: an empty map and empty queues.           *)
MemoriaNova ==
  /\ processado' = [p \in Particoes |-> {}]
  /\ etapa' = [p \in Particoes |-> Livre]
  /\ filaComando' = [p \in Particoes |-> <<>>]
  /\ filaMedia' = [p \in Particoes |-> <<>>]
  /\ processo' = "roda"

(* A crash, at any point.                                                  *)
Reinicia ==
  /\ Gasta("quedas", MaxQuedas)
  /\ posicao' = confirmado
  /\ MemoriaNova
  /\ UNCHANGED <<midiaVars, registro, confirmado>>

(* SIGTERM: main's deferred calls run, last first.  postgresConn.Close is  *)
(* the first of them, with the handlers still at work; cancel ends the     *)
(* session.                                                                *)
Sigterm ==
  /\ processo # "encerra"
  /\ Gasta("quedas", MaxQuedas)
  /\ processo' = "encerra"
  /\ UNCHANGED <<midiaVars, registro, posicao, confirmado, processado, etapa,
                 filaComando, filaMedia>>

(* client.Close waits for the session: each ConsumeClaim ends between two  *)
(* messages, the marked offsets are committed.  Nobody flushes the         *)
(* producer: what is in its queues goes with the process.                  *)
Termina ==
  /\ processo = "encerra"
  /\ \A p \in Particoes : etapa[p].passo = "livre"
  /\ confirmado' = posicao
  /\ MemoriaNova
  /\ UNCHANGED <<midiaVars, registro, posicao, gasto>>

-----------------------------------------------------------------------------
RegistroInit ==
  /\ registro = [f \in Arquivos |-> Nenhum]
  /\ posicao = [p \in Particoes |-> 0]
  /\ confirmado = [p \in Particoes |-> 0]
  /\ processado = [p \in Particoes |-> {}]
  /\ etapa = [p \in Particoes |-> Livre]
  /\ filaComando = [p \in Particoes |-> <<>>]
  /\ filaMedia = [p \in Particoes |-> <<>>]
  /\ processo = "roda"
  /\ gasto = [t \in {"falhas", "perdas", "quedas", "sessoes"} |-> 0]

(* What the goroutine of partition p does when nothing fails.              *)
Handler(p) ==
  \/ RejeitaInvalido(p) \/ VerificaPhoto(p) \/ AddPhoto(p) \/ AddThumbnail(p)
  \/ DeleteRegistro(p) \/ RejeitaDelete(p)
  \/ UpdateRegistro(p) \/ SemConexao(p) \/ IgnoraComando(p)
  \/ ProduzExecutado(p) \/ ProduzEvento(p)

Producer(p) == EntregaComando(p) \/ EntregaMedia(p)

Ambiente(p) == FalhaUpload(p) \/ FalhaDelete(p) \/ FalhaUpdate(p) \/ ConfirmaOffset(p)

RegistroNext ==
  \/ \E p \in Particoes : Handler(p) \/ Producer(p) \/ Ambiente(p)
  \/ NovaSessao \/ Reinicia \/ Sigterm \/ Termina

vars == <<midiaVars, exclusoes, registroVars>>

(* The requests of the users, through the API.                             *)
Pedidos == \E f \in Arquivos, u \in Usuarios :
  \/ (\E h \in Hashes : Upload(f, u, h)) /\ UNCHANGED exclusoes
  \/ /\ exclusoes < MaxExclusoes /\ exclusoes' = exclusoes + 1
     /\ DeleteMedia(f, u)

Init == MidiaInit /\ exclusoes = 0 /\ RegistroInit

Next == \/ Pedidos /\ UNCHANGED registroVars
        \/ RegistroNext /\ UNCHANGED exclusoes

Spec == Init /\ [][Next]_vars

(* Scheduling: goroutines run and librdkafka keeps retrying deliveries;    *)
(* users, failures, commits and crashes owe nothing.                       *)
Fairness == \A p \in Particoes :
  WF_vars(Handler(p) /\ UNCHANGED exclusoes) /\ WF_vars(EntregaComando(p) /\ UNCHANGED exclusoes)
  /\ WF_vars(EntregaMedia(p) /\ UNCHANGED exclusoes)

FairSpec == Spec /\ Fairness

-----------------------------------------------------------------------------
TypeOK ==
  /\ MidiaTypeOK
  /\ exclusoes \in Nat
  /\ registro \in [Arquivos -> Linhas \cup {Nenhum}]
  /\ posicao \in [Particoes -> Nat]
  /\ confirmado \in [Particoes -> Nat]
  /\ processado \in [Particoes -> SUBSET Nat]
  /\ etapa \in [Particoes -> Etapas]
  /\ filaComando \in [Particoes -> Seq(Comandos)]
  /\ filaMedia \in [Particoes -> Seq(Eventos)]
  /\ processo \in {"roda", "semBanco", "encerra"}
  /\ gasto \in Gastos

(* Who sent the file, and who asked for its deletion.                      *)
Dono(f, u) == NewComando("upload", f, u) \in Todas(comando)
Pediu(f, u) == NewComando("delete", f, u) \in Todas(comando)

Emitidos == Todas(media) \cup Todas(filaMedia)

(* An event names the user who sent the file and the content that user     *)
(* sent, and a deletion is emitted only if that same user asked for it:    *)
(* what deleteRegistro's lookup by file and user is for (README, "valida a *)
(* propriedade"), over the row, the answers and every replay of them.      *)
EventoVemDoDono == \A e \in Emitidos :
  /\ Dono(e.arquivo, e.usuario)
  /\ e.hash = temp[e.arquivo]
  /\ e.tipo = "delete" => Pediu(e.arquivo, e.usuario)

(* Whatever failed, was replayed or was deduplicated before, the content   *)
(* an event or an executed upload names is in the bucket photos (nothing   *)
(* is removed from it here): the PUT comes before both messages, and the   *)
(* dedup check only skips it for a content that is there.                  *)
EventoTemFoto ==
  /\ \A e \in Emitidos : e.hash \in photos
  /\ \A c \in Todas(comando) \cup Todas(filaComando) :
       c.tipo = "upload" /\ c.status = "executado" => c.hash \in photos

(* With no failure and no crash, an upload event without its thumbnail     *)
(* means that the goroutine which stored the photo is still about to store *)
(* the thumbnail: the dedup check looks at the photo only.                 *)
ThumbnailACaminho == gasto["falhas"] = 0 /\ gasto["quedas"] = 0 =>
  \A e \in Emitidos : e.hash \in thumbnails \/
    \E p \in Particoes : etapa[p].passo = "thumbnail" /\ etapa[p].hash = e.hash

(* How many times a message is in a log and in the queue before it.        *)
Vezes(log, fila, Cond(_)) ==
  Cardinality({i \in DOMAIN log : Cond(log[i])}) + Cardinality({i \in DOMAIN fila : Cond(fila[i])})

(* Rebalances replay committed-behind commands, but the processed map of   *)
(* the process answers each of them once: never more answers than requests *)
(* for a file, a user and a type, while nothing fails or crashes.          *)
UmaResposta == gasto["falhas"] = 0 /\ gasto["quedas"] = 0 =>
  \A p \in Particoes, f \in Arquivos, u \in Usuarios, t \in Tipos :
    LET Desse(c) == c.arquivo = f /\ c.usuario = u /\ c.tipo = t
        Resposta(c) == Desse(c) /\ c.status # "pendente"
        Pedido(c) == Desse(c) /\ c.status = "pendente"
    IN Vezes(comando[p], filaComando[p], Resposta) <= Vezes(comando[p], <<>>, Pedido)

(* A row of the command table is one the readers have been or will be told *)
(* of: its upload event was handed to the producer before the executed     *)
(* command that makes the row came back, while no message is lost.         *)
LinhaTemEvento == gasto["perdas"] = 0 /\ gasto["quedas"] = 0 =>
  \A f \in Arquivos : registro[f] # Nenhum =>
    NewEvent("upload", f, registro[f].usuario, registro[f].hash) \in Emitidos

(* What the readers see of registro.media, now or once it is delivered.    *)
Anunciados == [p \in Particoes |-> media[p] \o filaMedia[p]]

Cat == INSTANCE Catalogo WITH media <- Anunciados

(* The processor implements the catalogue, whatever S3 or Postgres refuse  *)
(* and however often the group rebalances: no second upload event for a    *)
(* file, no event before the content is stored, no deletion event before   *)
(* the upload, twice, by another user or for another content.  A lost      *)
(* Produce or an ended process may leave a deletion without its upload.    *)
ImplementaCatalogo ==
  /\ Cat!Init
  /\ [][gasto'["perdas"] = 0 /\ gasto'["quedas"] = 0 => Cat!Next]_<<media, filaMedia, photos>>

(* Everything read and delivered: no goroutine and no queue holds anything.*)
Quieto == \A p \in Particoes :
  etapa[p] = Livre /\ ~TemComando(p) /\ filaComando[p] = <<>> /\ filaMedia[p] = <<>>

(* At rest, with no fault behind it, the command table and registro.media  *)
(* tell the same story: a row exactly for the files uploaded and not       *)
(* deleted since.                                                          *)
TabelaConcordaComTopico ==
  Quieto /\ (\A t \in DOMAIN gasto : t # "sessoes" => gasto[t] = 0) =>
    \A f \in Arquivos : registro[f] # Nenhum <=> Cardinality(Cat!EventosDe(f)) = 1

(* Command c answers request d.                                            *)
Atende(c, d) ==
  /\ c.status # "pendente"
  /\ c.arquivo = d.arquivo /\ c.usuario = d.usuario /\ c.tipo = d.tipo

(* The command at offset i has an answer after it in its partition.        *)
Respondido(p, i) == \E j \in (i + 1)..Len(comando[p]) : Atende(comando[p][j], comando[p][i])

(* Or in the producer, which delivers it after everything there is.        *)
ACaminho(p, i) == \E j \in DOMAIN filaComando[p] : Atende(filaComando[p][j], comando[p][i])

(* The offsets the process will not handle again: behind the one it is at, *)
(* or in the processed map.                                                *)
Marcados(p) == 1..posicao[p] \cup processado[p]

(* A request is not left behind unanswered: the mark passes it, and the    *)
(* map remembers it, only when its answer was handed to the producer,      *)
(* whichever S3 call or statement of its handler failed, with the          *)
(* connection closed for good, and over rebalances.  Nobody would ever     *)
(* look at it again.  A Produce that fails and an ended process are        *)
(* excepted: those answers are lost.                                       *)
MarcadoTemResposta == gasto["perdas"] = 0 /\ gasto["quedas"] = 0 =>
  \A p \in Particoes : \A i \in Marcados(p) :
    comando[p][i].status = "pendente" => Respondido(p, i) \/ ACaminho(p, i)

(* A rejected upload of the file of c.                                     *)
Desdiz(c, d) == c.arquivo = d.arquivo /\ c.tipo = "upload" /\ c.status = "rejeitado"

(* The upload was announced as executed, to the user and to the readers,   *)
(* before its row is written: when the upsert fails, the announcement is   *)
(* taken back by a rejection after it.  An executed upload handled without *)
(* a row and without a rejection is one whose deletion was asked for.      *)
ExecutadoTemLinha == gasto["perdas"] = 0 /\ gasto["quedas"] = 0 =>
  \A p \in Particoes : \A i \in Marcados(p) :
    LET c == comando[p][i] IN
    c.tipo = "upload" /\ c.status = "executado" =>
      \/ registro[c.arquivo] # Nenhum
      \/ \E j \in (i + 1)..Len(comando[p]) : Desdiz(comando[p][j], c)
      \/ \E j \in DOMAIN filaComando[p] : Desdiz(filaComando[p][j], c)
      \/ \E u \in Usuarios : Pediu(c.arquivo, u)

(* While nothing fails, every command a user sends is answered in the end, *)
(* executed or rejected, after it in its partition, rebalances included.   *)
(* What a failure does to an answer, MarcadoTemResposta says.              *)
PedidoRespondido == <>[](gasto["perdas"] = 0 /\ gasto["quedas"] = 0 =>
  \A p \in Particoes : \A i \in DOMAIN comando[p] :
    comando[p][i].status = "pendente" => Respondido(p, i))

=============================================================================
