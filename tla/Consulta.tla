------------------------------ MODULE Consulta ------------------------------
(***************************************************************************)
(* The consulta processor (query side).  One goroutine per partition of    *)
(* registro.media keeps consulta.registro_media in step with the events,   *)
(* and removes the photo and the thumbnail of a hash no row refers to any  *)
(* more.  All the goroutines use ONE pgx.Conn: there is one session, hence *)
(* at most one transaction, whoever began it.                              *)
(***************************************************************************)
EXTENDS Midia, FiniteSets

CONSTANTS MaxErros,      \* bound: S3 calls and statements that fail
          MaxOcupadas,   \* bound: statements that find the connection busy
          MaxSessoesConsulta, \* bound: sessions cancelled, by a rebalance or SIGTERM
          MaxReinicios   \* bound: crashes of the process

ASSUME ConsultaBoundsAssumption ==
  /\ MaxErros \in Nat /\ MaxOcupadas \in Nat
  /\ MaxSessoesConsulta \in Nat /\ MaxReinicios \in Nat

VARIABLES consulta,    \* table consulta.registro_media, as committed
          visao,       \* the table as the shared session sees it
          transacao,   \* the session is "fora" of a transaction, in one that
                       \* is "aberta", or in one Postgres has "abortada"
          conexao,     \* pgx gives a connection up for good on some errors
          lido,        \* last offset handled and marked, per partition
          gravado,     \* last offset committed to the group
          passo,       \* where the handler of each partition stands
          erros,       \* kinds of S3 errors the handler has collected
          sessao,      \* group session: "ativa"; "cancelada" by a rebalance or
                       \* "encerra" by SIGTERM, its handlers still at work;
                       \* "presa" in the Setup of the next one
          gastoConsulta

consultaVars == <<consulta, visao, transacao, conexao, lido, gravado, passo,
                  erros, sessao, gastoConsulta>>
bancoVars == <<consulta, visao, transacao, conexao>>

PassosConsulta == {"livre", "delete", "count", "photo", "rmphoto",
                   "thumbnail", "rmthumbnail", "commit", "rollback"}
PassosSQL == {"livre", "delete", "count", "commit", "rollback"}

Evento(p) == media[p][lido[p] + 1]
TemEvento(p) == lido[p] < Len(media[p])
No(p, ps) == sessao # "presa" /\ TemEvento(p) /\ passo[p] = ps
Recebe(p, tipo) == No(p, "livre") /\ Evento(p).tipo = tipo

Segue(p, ps) == passo' = [passo EXCEPT ![p] = ps] /\ UNCHANGED <<lido, erros>>

(* The error a handler returns is dropped by processMessageWithRetry, so   *)
(* however it ended the message is marked, once and for all.               *)
Marca(p) ==
  /\ lido' = [lido EXCEPT ![p] = @ + 1]
  /\ passo' = [passo EXCEPT ![p] = "livre"]
  /\ erros' = [erros EXCEPT ![p] = {}]

PagaConsulta(tipo, max) ==
  /\ gastoConsulta[tipo] < max
  /\ gastoConsulta' = [gastoConsulta EXCEPT ![tipo] = @ + 1]

-----------------------------------------------------------------------------
(* Slip: a statement outside a transaction is left uncommitted.            *)
EscreveSemCommit(tabela) == visao' = tabela /\ UNCHANGED <<consulta, transacao, conexao>>

(* The session.  Outside a transaction a statement commits by itself.      *)
Escreve(tabela) ==
  /\ visao' = tabela
  /\ consulta' = IF transacao = "fora" THEN tabela ELSE consulta
  /\ UNCHANGED <<transacao, conexao>>

(* COMMIT and ROLLBACK end the transaction of the session, even one        *)
(* another goroutine began; without a transaction they only warn.          *)
Encerra(tabela) == /\ consulta' = tabela /\ visao' = tabela /\ transacao' = "fora"

(* pgx gives the connection up; Postgres rolls the transaction back.       *)
Fecha == conexao' = "fechada" /\ Encerra(consulta)

(* A statement Postgres refuses aborts the transaction it is in: nothing of*)
(* it survives, and until it is ended every other statement is refused.    *)
Aborta ==
  IF transacao = "fora" THEN UNCHANGED bancoVars
  ELSE transacao' = "abortada" /\ visao' = consulta /\ UNCHANGED <<consulta, conexao>>

(* A statement can be done.  The handlers pass session.Context() to pgx    *)
(* and to minio: once the session is cancelled every call fails.  On       *)
(* SIGTERM postgresConn.Close comes first and cancel after it, so that S3  *)
(* calls may still succeed in between.                                     *)
Aberta == conexao = "aberta" /\ sessao = "ativa"
Aceita == Aberta /\ transacao # "abortada"
Alcanca == sessao \in {"ativa", "encerra"}

(* The upsert, which leaves the user of an existing row alone, and the     *)
(* DELETE by file and user.                                                *)
ComLinha(e) ==
  [visao EXCEPT ![e.arquivo] =
     [usuario |-> IF @ = Nenhum THEN e.usuario ELSE @.usuario, hash |-> e.hash]]
SemLinha(e) ==
  IF visao[e.arquivo] # Nenhum /\ visao[e.arquivo].usuario = e.usuario
  THEN [visao EXCEPT ![e.arquivo] = Nenhum] ELSE visao

(* handleRegistroUpload.                                                   *)
SaveRegistroMedia(p) ==
  /\ Recebe(p, "upload") /\ Aceita
  /\ Escreve(ComLinha(Evento(p)))
  /\ Marca(p)
  /\ UNCHANGED <<midiaVars, gravado, sessao, gastoConsulta>>

(* handleDeleteRegistro, statement by statement.  A second BEGIN only      *)
(* warns: the two handlers then share the transaction.                     *)
BeginTx(p) ==
  /\ Recebe(p, "delete") /\ Aceita
  /\ transacao' = "aberta"
  /\ Segue(p, "delete")
  /\ UNCHANGED <<midiaVars, consulta, visao, conexao, gravado, sessao, gastoConsulta>>

(* Slip: the row is blanked instead of deleted.                            *)
DeleteSoOUsuario(p) ==
  LET e == Evento(p) IN
  /\ No(p, "delete") /\ Aceita
  /\ Escreve(IF visao[e.arquivo] # Nenhum
             THEN [visao EXCEPT ![e.arquivo].usuario = Nenhum] ELSE visao)
  /\ Segue(p, "count")
  /\ UNCHANGED <<midiaVars, gravado, sessao, gastoConsulta>>

(* Slip: the DELETE forgets the file_id.                                   *)
DeleteDoUsuario(p) ==
  LET u == Evento(p).usuario IN
  /\ No(p, "delete") /\ Aceita
  /\ Escreve([f \in Arquivos |-> IF visao[f] # Nenhum /\ visao[f].usuario = u
                                 THEN Nenhum ELSE visao[f]])
  /\ Segue(p, "count")
  /\ UNCHANGED <<midiaVars, gravado, sessao, gastoConsulta>>

DeleteRegistroMedia(p) ==
  /\ No(p, "delete") /\ Aceita
  /\ Escreve(SemLinha(Evento(p)))
  /\ Segue(p, "count")
  /\ UNCHANGED <<midiaVars, gravado, sessao, gastoConsulta>>

Referencias(h) == {f \in Arquivos : visao[f] # Nenhum /\ visao[f].hash = h}

CountRegistroByHash(p) ==
  /\ No(p, "count") /\ Aceita
  /\ Segue(p, IF Referencias(Evento(p).hash) = {} THEN "photo" ELSE "commit")
  /\ UNCHANGED <<midiaVars, bancoVars, gravado, sessao, gastoConsulta>>

-----------------------------------------------------------------------------
(* DeletePhotoAndThumbnailByID: look, then remove, first one bucket and    *)
(* then the other whatever became of the first.  The errors are collected. *)
Anota(p, tipo, ps) ==
  /\ erros' = [erros EXCEPT ![p] = @ \cup {tipo}]
  /\ passo' = [passo EXCEPT ![p] = ps]
  /\ UNCHANGED lido

(* The handler lets an error pass if its text contains "não encontrado".   *)
(* These are the texts: photo and thumbnail are feminine.                  *)
Texto(tipo) == IF tipo = "ausente" THEN "não encontrada" ELSE "Falha"
Aceitavel(es) == \E tipo \in es : Texto(tipo) = "não encontrado"

Depois(es) == IF es = {} \/ Aceitavel(es) THEN "commit" ELSE "rollback"

PhotoExiste(p) ==
  /\ No(p, "photo") /\ Alcanca
  /\ IF Evento(p).hash \in photos THEN Segue(p, "rmphoto")
                                  ELSE Anota(p, "ausente", "thumbnail")
  /\ UNCHANGED <<midiaVars, bancoVars, gravado, sessao, gastoConsulta>>

RemovePhoto(p) ==
  /\ No(p, "rmphoto") /\ Alcanca
  /\ photos' = photos \ {Evento(p).hash}
  /\ Segue(p, "thumbnail")
  /\ UNCHANGED <<temp, thumbnails, comando, media, bancoVars, gravado, sessao, gastoConsulta>>

ThumbnailExiste(p) ==
  /\ No(p, "thumbnail") /\ Alcanca
  /\ IF Evento(p).hash \in thumbnails
     THEN Segue(p, "rmthumbnail")
     ELSE Anota(p, "ausente", Depois(erros[p] \cup {"ausente"}))
  /\ UNCHANGED <<midiaVars, bancoVars, gravado, sessao, gastoConsulta>>

RemoveThumbnail(p) ==
  /\ No(p, "rmthumbnail") /\ Alcanca
  /\ thumbnails' = thumbnails \ {Evento(p).hash}
  /\ Segue(p, Depois(erros[p]))
  /\ UNCHANGED <<temp, photos, comando, media, bancoVars, gravado, sessao, gastoConsulta>>

(* An S3 call fails; a removal may have been done all the same.            *)
FalhaS3(p) ==
  /\ \/ /\ No(p, "photo") \/ No(p, "rmphoto")
        /\ photos' \in IF passo[p] = "photo" THEN {photos}
                       ELSE {photos, photos \ {Evento(p).hash}}
        /\ UNCHANGED thumbnails
        /\ Anota(p, "falha", "thumbnail")
     \/ /\ No(p, "thumbnail") \/ No(p, "rmthumbnail")
        /\ thumbnails' \in IF passo[p] = "thumbnail" THEN {thumbnails}
                           ELSE {thumbnails, thumbnails \ {Evento(p).hash}}
        /\ UNCHANGED photos
        /\ Anota(p, "falha", Depois(erros[p] \cup {"falha"}))
  /\ \/ sessao # "ativa" /\ UNCHANGED gastoConsulta
     \/ sessao = "ativa" /\ PagaConsulta("erros", MaxErros)
  /\ UNCHANGED <<temp, comando, media, bancoVars, gravado, sessao>>

-----------------------------------------------------------------------------
(* Slip: the handler returns without committing, the deferred ROLLBACK runs.*)
CommitEsquecido(p) ==
  /\ No(p, "commit") /\ Aberta
  /\ Encerra(consulta)
  /\ Marca(p)
  /\ UNCHANGED <<midiaVars, conexao, gravado, sessao, gastoConsulta>>

Commit(p) ==
  /\ No(p, "commit") /\ Aberta
  /\ Encerra(visao)
  /\ Marca(p)
  /\ UNCHANGED <<midiaVars, conexao, gravado, sessao, gastoConsulta>>

Rollback(p) ==
  /\ No(p, "rollback") /\ Aberta
  /\ Encerra(consulta)
  /\ Marca(p)
  /\ UNCHANGED <<midiaVars, conexao, gravado, sessao, gastoConsulta>>

(* The handler after a statement that failed: the error is returned, hence *)
(* dropped; between BEGIN and COMMIT the deferred ROLLBACK comes first.    *)
Desiste(p) == IF passo[p] \in {"delete", "count"} THEN Segue(p, "rollback") ELSE Marca(p)

(* pgx refuses a statement while another goroutine's is under way.         *)
Disputada(p) == \E q \in Particoes \ {p} : TemEvento(q) /\ passo[q] \in PassosSQL

(* On a BEGIN, a ROLLBACK or, in a transaction, a COMMIT that fails pgx    *)
(* closes the connection, and nobody opens another.                        *)
FechaSe(p) ==
  \/ passo[p] = "livre" /\ Evento(p).tipo = "delete"
  \/ passo[p] = "rollback"
  \/ passo[p] = "commit" /\ transacao # "fora"

(* A statement that is not sent: the session is cancelled, the connection  *)
(* closed or busy.                                                         *)
StatementFalha(p) ==
  /\ \E ps \in PassosSQL : No(p, ps)
  /\ \/ ~Aberta /\ UNCHANGED gastoConsulta
     \/ Aberta /\ Disputada(p) /\ PagaConsulta("ocupadas", MaxOcupadas)
  /\ IF FechaSe(p) THEN Fecha ELSE UNCHANGED bancoVars
  /\ Desiste(p)
  /\ UNCHANGED <<midiaVars, gravado, sessao>>

(* Postgres refuses a statement of a live session: of itself, or because   *)
(* the transaction was aborted before.  A COMMIT refused ends in a rollback*)
(* there; a ROLLBACK is not refused.                                       *)
StatementRecusado(p) ==
  /\ Aberta /\ \E ps \in PassosSQL \ {"rollback"} : No(p, ps)
  /\ \/ transacao = "abortada" /\ passo[p] # "commit" /\ UNCHANGED gastoConsulta
     \/ PagaConsulta("erros", MaxErros)
  /\ CASE passo[p] = "commit" -> Encerra(consulta) /\ UNCHANGED conexao
       [] Recebe(p, "delete") -> Fecha
       [] OTHER -> Aborta
  /\ Desiste(p)
  /\ UNCHANGED <<midiaVars, gravado, sessao>>

(* The network fails under a statement of a live session.  Outside a       *)
(* transaction it may have been done, and so may a COMMIT.                 *)
Feito(p) ==
  CASE passo[p] = "commit" -> visao
    [] transacao = "fora" /\ passo[p] = "delete" -> SemLinha(Evento(p))
    [] transacao = "fora" /\ Recebe(p, "upload") -> ComLinha(Evento(p))
    [] OTHER -> consulta

StatementCortado(p) ==
  /\ Aberta /\ \E ps \in PassosSQL : No(p, ps)
  /\ PagaConsulta("erros", MaxErros)
  /\ conexao' = "fechada" /\ \E tabela \in {consulta, Feito(p)} : Encerra(tabela)
  /\ Desiste(p)
  /\ UNCHANGED <<midiaVars, gravado, sessao>>

-----------------------------------------------------------------------------
(* sarama commits the marked offset, from time to time and when a session  *)
(* ends.                                                                   *)
GravaOffset(p) ==
  /\ gravado[p] # lido[p]
  /\ gravado' = [gravado EXCEPT ![p] = lido[p]]
  /\ UNCHANGED <<midiaVars, bancoVars, lido, passo, erros, sessao, gastoConsulta>>

(* A rebalance cancels the session's context under the handlers.           *)
Cancela ==
  /\ sessao = "ativa"
  /\ PagaConsulta("sessoes", MaxSessoesConsulta)
  /\ sessao' = "cancelada"
  /\ UNCHANGED <<midiaVars, bancoVars, lido, gravado, passo, erros>>

(* Every ConsumeClaim has returned, between two messages.  Setup of the    *)
(* next session sends on a Ready channel nobody receives from (Workers).   *)
FimDaSessao ==
  /\ sessao = "cancelada"
  /\ \A p \in Particoes : passo[p] = "livre"
  /\ sessao' = "presa"
  /\ UNCHANGED <<midiaVars, bancoVars, lido, gravado, passo, erros, gastoConsulta>>

(* SIGTERM: main's deferred calls close the connection, under the handlers,*)
(* cancel the session and wait for its end.                                *)
SigtermConsulta ==
  /\ sessao = "ativa"
  /\ PagaConsulta("sessoes", MaxSessoesConsulta)
  /\ sessao' = "encerra"
  /\ Fecha
  /\ UNCHANGED <<midiaVars, lido, gravado, passo, erros>>

(* The process ends and starts again: Postgres rolls the transaction back, *)
(* reading resumes after the last committed offset.  It ends by a crash,   *)
(* or once its session was cancelled: by main's return, by the nil message *)
(* of a closed claim, or by whoever restarts a stuck process.              *)
ReiniciaConsulta ==
  /\ \/ sessao = "ativa" /\ PagaConsulta("reinicios", MaxReinicios)
     \/ sessao # "ativa" /\ UNCHANGED gastoConsulta
  /\ Encerra(consulta)
  /\ conexao' = "aberta" /\ sessao' = "ativa"
  /\ lido' = gravado
  /\ passo' = [p \in Particoes |-> "livre"]
  /\ erros' = [p \in Particoes |-> {}]
  /\ UNCHANGED <<midiaVars, gravado>>

ConsultaInit ==
  /\ consulta = [f \in Arquivos |-> Nenhum]
  /\ visao = [f \in Arquivos |-> Nenhum]
  /\ transacao = "fora"
  /\ conexao = "aberta"
  /\ lido = [p \in Particoes |-> 0]
  /\ gravado = [p \in Particoes |-> 0]
  /\ passo = [p \in Particoes |-> "livre"]
  /\ erros = [p \in Particoes |-> {}]
  /\ sessao = "ativa"
  /\ gastoConsulta = [t \in {"erros", "ocupadas", "sessoes", "reinicios"} |-> 0]

HandlerConsulta(p) ==
  \/ SaveRegistroMedia(p) \/ BeginTx(p) \/ DeleteRegistroMedia(p) \/ CountRegistroByHash(p)
  \/ PhotoExiste(p) \/ RemovePhoto(p) \/ ThumbnailExiste(p) \/ RemoveThumbnail(p)
  \/ Commit(p) \/ Rollback(p)

FalhaConsulta(p) ==
  FalhaS3(p) \/ StatementFalha(p) \/ StatementRecusado(p) \/ StatementCortado(p)

ConsultaNext ==
  \/ \E p \in Particoes : HandlerConsulta(p) \/ FalhaConsulta(p) \/ GravaOffset(p)
  \/ Cancela \/ FimDaSessao \/ SigtermConsulta \/ ReiniciaConsulta

-----------------------------------------------------------------------------
ConsultaTypeOK ==
  /\ consulta \in [Arquivos -> Linhas \cup {Nenhum}]
  /\ visao \in [Arquivos -> Linhas \cup {Nenhum}]
  /\ transacao \in {"fora", "aberta", "abortada"}
  /\ conexao \in {"aberta", "fechada"}
  /\ lido \in [Particoes -> Nat]
  /\ gravado \in [Particoes -> Nat]
  /\ passo \in [Particoes -> PassosConsulta]
  /\ erros \in [Particoes -> SUBSET {"ausente", "falha"}]
  /\ sessao \in {"ativa", "cancelada", "encerra", "presa"}
  /\ gastoConsulta \in [{"erros", "ocupadas", "sessoes", "reinicios"} -> Nat]

(* README, "Deleção Lógica e Garbage Collector": a photo is destroyed only *)
(* when the count of references is exactly zero.  Of the rows that refer to*)
(* it at the removal, not of those the COUNT saw: false as soon as another *)
(* partition's upsert comes in between.                                    *)
FotoSoComZero == [][\A h \in photos \ photos' : Referencias(h) = {}]_midiaVars

(* What the COUNT does guarantee until the photo and the thumbnail are     *)
(* gone: no other file of its own partition refers to the content, whatever*)
(* the other partitions write, commit, roll back or break meanwhile.  (The *)
(* deleted file itself may refer to it again: somebody's ROLLBACK.)        *)
ColetaPoupaParticao == \A p \in Particoes :
  passo[p] \in {"photo", "rmphoto", "thumbnail", "rmthumbnail"} =>
    \A f \in Referencias(Evento(p).hash) : ParticaoDe[f] = p => f = Evento(p).arquivo

(* A committed row only ever leaves the table for a deletion event of that *)
(* file, by its user and for its content, whichever transaction carried    *)
(* the DELETE and whatever was rolled back, replayed or refused.           *)
LinhaSoSaiPorEvento ==
  [][\A f \in Arquivos : consulta[f] # Nenhum /\ consulta'[f] = Nenhum =>
       NewEvent("delete", f, consulta[f].usuario, consulta[f].hash)
         \in Range(media[ParticaoDe[f]])]_bancoVars

(* README, "sincronizar a tabela": once the group has committed the offset *)
(* of an upload, and as long as nobody deletes the file, the row is in the *)
(* table whenever no transaction is open.                                  *)
UploadGravadoTemLinha == transacao = "fora" =>
  \A p \in Particoes : \A i \in 1..gravado[p] : LET f == media[p][i].arquivo IN
    (\A e \in Range(media[p]) : e.arquivo = f => e.tipo = "upload") => consulta[f] # Nenhum

(* The row the events of a file call for, up to that offset of its         *)
(* partition, or in the end.                                               *)
ProjecaoAte(f, n) ==
  LET p == ParticaoDe[f]
      is == {i \in 1..n : media[p][i].arquivo = f}
      ultimo == media[p][CHOOSE i \in is : \A j \in is : j <= i]
  IN IF is = {} \/ ultimo.tipo = "delete" THEN Nenhum
     ELSE [usuario |-> ultimo.usuario, hash |-> ultimo.hash]
Projecao(f) == ProjecaoAte(f, Len(media[ParticaoDe[f]]))

SemFalhas == \A t \in DOMAIN gastoConsulta : gastoConsulta[t] = 0
ConteudosDistintos == \A p, q \in Particoes : \A e \in Range(media[p]), d \in Range(media[q]) :
  e.hash = d.hash => e.arquivo = d.arquivo

(* The handlers of several partitions join, commit and end each other's    *)
(* transactions; still, whenever all of them are between two messages, the *)
(* table is what the events handled so far call for: as long as nothing    *)
(* fails, and no content is shared (two collectors of one photo can meet:  *)
(* the second finds it absent, counts that as an error and rolls its DELETE*)
(* back, against the comment at consumer.go:233).                          *)
TabelaSegueEventos ==
  SemFalhas /\ ConteudosDistintos /\ (\A p \in Particoes : passo[p] = "livre") =>
    consulta = [f \in Arquivos |-> ProjecaoAte(f, lido[ParticaoDe[f]])]

(* And in the end, under the same conditions, what all of them call for.   *)
ConvergeConsulta ==
  <>[](SemFalhas /\ ConteudosDistintos => consulta = [f \in Arquivos |-> Projecao(f)])

=============================================================================
