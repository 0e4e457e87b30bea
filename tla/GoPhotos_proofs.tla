-------------------------- MODULE GoPhotos_proofs --------------------------
(***************************************************************************)
(* The two programs together, for any number of files, users, contents and *)
(* partitions.  A step of the system is a step of one side: what Registro  *)
(* proves of its own steps is used here, and of consulta it matters only   *)
(* that it writes nothing of the other side but the buckets.               *)
(***************************************************************************)
EXTENDS GoPhotos, RegistroCatalogo_proofs

(* Where the handlers of consulta stand.                                   *)
ConsultaTipos == /\ lido \in [Particoes -> Nat] /\ gravado \in [Particoes -> Nat]
                 /\ passo \in [Particoes -> C!PassosConsulta]

(* The content is stored, or a file with it was announced as deleted: the  *)
(* first half ends with a removal, the second never does.                  *)
Disponivel(h) == h \in photos \/ \E d \in Todas(media) : d.tipo = "delete" /\ d.hash = h

(* A handler of registro past the PUT names such a content.                *)
NaEtapa == \A p \in Particoes : etapa[p].passo # "livre" =>
  /\ TemComando(p)
  /\ etapa[p].passo # "photo" /\ Comando(p).tipo = "upload" => Disponivel(etapa[p].hash)

(* A handler of consulta under way is that of a deletion event.            *)
ColetaPedida == \A p \in Particoes : passo[p] # "livre" =>
  C!TemEvento(p) /\ C!Evento(p).tipo = "delete"

SistemaInv == TypeOK /\ ConsultaTipos /\ NaEtapa /\ ColetaPedida /\ FotoAteExclusao

-----------------------------------------------------------------------------
(* A step of registro only ever adds to the end of registro.media.         *)
LEMMA MediaCresce ==
  ASSUME TypeOK, [Next]_vars
  PROVE  /\ Todas(media) \subseteq Todas(media')
         /\ \A p \in Particoes : \A i \in 1..Len(media[p]) :
              i \in 1..Len(media'[p]) /\ media'[p][i] = media[p][i]
<1>1. ASSUME NEW p \in Particoes, EntregaMedia(p)
      PROVE  \A q \in Particoes :
               /\ Range(media[q]) \subseteq Range(media'[q])
               /\ \A i \in 1..Len(media[q]) : i \in 1..Len(media'[q]) /\ media'[q][i] = media[q][i]
  <2> TAKE q \in Particoes
  <2> DEFINE m == Head(filaMedia[p])
  <2>1. media[q] \in Seq(Eventos) /\ m \in Eventos
    BY <1>1, HeadTailProperties DEF EntregaMedia, TypeOK, MidiaTypeOK
  <2>2. media'[q] = IF q = p THEN Append(media[q], m) ELSE media[q]
    BY <1>1 DEF EntregaMedia, TypeOK, MidiaTypeOK
  <2> HIDE DEF m
  <2>3. CASE q = p
    <3>1. Len(media'[q]) = Len(media[q]) + 1 /\ Len(media[q]) \in Nat
          /\ \A i \in 1..Len(media[q]) : media'[q][i] = media[q][i]
      BY <2>1, <2>2, <2>3, AppendProperties
    <3>2. Range(media[q]) \subseteq Range(media'[q])
      BY <2>1, <2>2, <2>3, AppendRange
    <3> QED
      BY <3>1, <3>2
  <2>4. CASE q # p
    BY <2>2, <2>4
  <2> QED
    BY <2>3, <2>4
<1>2. ASSUME NEW p \in Particoes, Handler(p) \/ EntregaComando(p) \/ Ambiente(p)
      PROVE  media' = media
  BY <1>2 DEF Handler, Ambiente, EntregaComando, RejeitaInvalido, VerificaPhoto, AddPhoto,
     AddThumbnail, DeleteRegistro, RejeitaDelete, UpdateRegistro, IgnoraComando, ProduzExecutado,
     ProduzEvento, FalhaUpload, FalhaDelete, FalhaUpdate, SemConexao, ConfirmaOffset, midiaVars
<1>3. Pedidos \/ NovaSessao \/ Reinicia \/ Sigterm \/ Termina \/ UNCHANGED vars => media' = media
  BY DEF Pedidos, Upload, DeleteMedia, NovaSessao, Reinicia, Sigterm, Termina, vars, midiaVars
<1>4. media' = media \/ \E p \in Particoes : EntregaMedia(p)
  BY <1>2, <1>3 DEF Next, RegistroNext, Producer
<1> QED
  BY <1>1, <1>4 DEF Todas

-----------------------------------------------------------------------------
(* A step of registro, which removes no object and unsays no event.        *)
LEMMA RegistroPasso ==
  ASSUME SistemaInv, [Next]_vars, UNCHANGED consultaVars
  PROVE  SistemaInv'
<1> USE DEF SistemaInv
<1>1. TypeOK'
  BY TypeStep
<1>2. ConsultaTipos'
  BY DEF ConsultaTipos, consultaVars
<1>3. \A h : Disponivel(h) => Disponivel(h)'
  BY Cresce, MediaCresce DEF Disponivel, Todas
<1>4. NaEtapa'
  <2> SUFFICES ASSUME NEW p \in Particoes, etapa'[p].passo # "livre"
               PROVE  /\ TemComando(p)'
                      /\ etapa'[p].passo # "photo" /\ Comando(p)'.tipo = "upload"
                           => Disponivel(etapa[p].hash)'
    BY DEF NaEtapa
  <2> DEFINE h == etapa'[p].hash
  <2>1. TemComando(p) /\ posicao'[p] = posicao[p]
    BY EtapaAnda DEF Comeca, Continua, VerificaPhoto, DeleteRegistro, Trata, AddPhoto, AddThumbnail,
       ProduzExecutado, Em, NaEtapa
  <2>2. TemComando(p)' /\ Comando(p)' = Comando(p)
    BY <2>1, ComandoFixo
  <2>3. ASSUME etapa'[p].passo # "photo", Comando(p).tipo = "upload"
        PROVE  Disponivel(h) \/ h \in photos'
    <3>1. CASE etapa'[p] = etapa[p]
      BY <2>3, <3>1 DEF NaEtapa
    <3>2. CASE VerificaPhoto(p)
      BY <2>3, <3>2 DEF VerificaPhoto, Vai, TypeOK, Disponivel
    <3>3. CASE AddPhoto(p)
      BY <3>3 DEF AddPhoto, Vai, TypeOK
    <3>4. CASE AddThumbnail(p) \/ ProduzExecutado(p)
      <4>1. etapa[p].passo \notin {"livre", "photo"} /\ h = etapa[p].hash
        BY <3>4 DEF AddThumbnail, ProduzExecutado, Em, Vai, TypeOK
      <4> QED
        BY <2>3, <4>1 DEF NaEtapa
    <3>5. ~DeleteRegistro(p)
      BY <2>3 DEF DeleteRegistro, Trata
    <3> QED
      BY <3>1, <3>2, <3>3, <3>4, <3>5, EtapaAnda DEF Comeca, Continua
  <2>4. Disponivel(h) =>
          h \in photos' \/ \E d \in Todas(media') : d.tipo = "delete" /\ d.hash = h
    BY Cresce, MediaCresce DEF Disponivel, Todas
  <2> QED
    BY <2>2, <2>3, <2>4 DEF Disponivel, Todas, h
<1>5. ColetaPedida'
  <2> SUFFICES ASSUME NEW p \in Particoes, passo'[p] # "livre"
               PROVE  C!TemEvento(p)' /\ C!Evento(p)'.tipo = "delete"
    BY DEF ColetaPedida
  <2>1. C!TemEvento(p) /\ C!Evento(p).tipo = "delete" /\ lido' = lido /\ lido[p] \in Nat
    BY DEF ColetaPedida, consultaVars, ConsultaTipos
  <2>2. Len(media[p]) \in Nat /\ Len(media'[p]) \in Nat
    BY <1>1 DEF TypeOK, MidiaTypeOK
  <2>3. lido[p] + 1 \in 1..Len(media[p])
    BY <2>1, <2>2 DEF C!TemEvento
  <2>4. lido[p] + 1 \in 1..Len(media'[p]) /\ media'[p][lido[p] + 1] = media[p][lido[p] + 1]
    BY <2>3, MediaCresce
  <2> QED
    BY <2>1, <2>2, <2>4 DEF C!TemEvento, C!Evento
<1>6. FotoAteExclusao'
  <2> SUFFICES ASSUME NEW e \in Emitidos', e.tipo = "upload" PROVE Disponivel(e.hash)'
    BY DEF FotoAteExclusao, Disponivel, Todas
  <2>1. CASE e \in Emitidos
    BY <1>3, <2>1 DEF FotoAteExclusao, Disponivel
  <2>2. ASSUME NEW p \in Particoes, ProduzEvento(p), e = EventoDe(p)
        PROVE  Disponivel(e.hash)
    BY <2>2 DEF ProduzEvento, Em, EventoDe, NewEvent, NaEtapa
  <2> QED
    BY <1>3, <2>1, <2>2, EmitidosNovos
<1> QED
  BY <1>1, <1>2, <1>4, <1>5, <1>6

-----------------------------------------------------------------------------
(* What a step of consulta may do to a photo: remove the one named by the  *)
(* event of a handler under way.                                           *)
LEMMA SoRemovePeloEvento ==
  ASSUME C!ConsultaNext, NEW h \in photos, h \notin photos'
  PROVE  \E p \in Particoes : passo[p] # "livre" /\ C!Evento(p).hash = h
<1>1. ASSUME NEW p \in Particoes, C!RemovePhoto(p) \/ C!FalhaS3(p)
      PROVE  passo[p] # "livre" /\ photos \ {C!Evento(p).hash} \subseteq photos'
  <2>1. CASE C!RemovePhoto(p)
    BY <2>1 DEF C!RemovePhoto, C!No
  <2>2. CASE C!FalhaS3(p)
    BY <2>2 DEF C!FalhaS3, C!No
  <2> QED
    BY <1>1, <2>1, <2>2
<1>2. ASSUME NEW p \in Particoes,
             \/ C!SaveRegistroMedia(p) \/ C!BeginTx(p) \/ C!DeleteRegistroMedia(p)
             \/ C!CountRegistroByHash(p) \/ C!PhotoExiste(p) \/ C!ThumbnailExiste(p)
             \/ C!RemoveThumbnail(p) \/ C!Commit(p) \/ C!Rollback(p)
             \/ C!StatementFalha(p) \/ C!StatementRecusado(p) \/ C!StatementCortado(p)
             \/ C!GravaOffset(p)
      PROVE  photos' = photos
  BY <1>2 DEF C!SaveRegistroMedia, C!BeginTx, C!DeleteRegistroMedia, C!CountRegistroByHash,
     C!PhotoExiste, C!ThumbnailExiste, C!RemoveThumbnail, C!Commit, C!Rollback, C!StatementFalha,
     C!StatementRecusado, C!StatementCortado, C!GravaOffset, C!midiaVars
<1>3. C!Cancela \/ C!FimDaSessao \/ C!SigtermConsulta \/ C!ReiniciaConsulta => photos' = photos
  BY DEF C!Cancela, C!FimDaSessao, C!SigtermConsulta, C!ReiniciaConsulta, C!midiaVars
<1> QED
  BY <1>1, <1>2, <1>3 DEF C!ConsultaNext, C!HandlerConsulta, C!FalhaConsulta

(* Nothing else of what the other side reads is written by consulta.       *)
LEMMA SoOsBuckets ==
  ASSUME C!ConsultaNext
  PROVE  /\ UNCHANGED <<temp, comando, media>>
         /\ photos' \subseteq photos /\ thumbnails' \subseteq thumbnails
<1>1. ASSUME NEW p \in Particoes, C!HandlerConsulta(p)
      PROVE  /\ UNCHANGED <<temp, comando, media>>
             /\ photos' \subseteq photos /\ thumbnails' \subseteq thumbnails
  BY <1>1 DEF C!HandlerConsulta, C!SaveRegistroMedia, C!BeginTx, C!DeleteRegistroMedia,
     C!CountRegistroByHash, C!PhotoExiste, C!RemovePhoto, C!ThumbnailExiste, C!RemoveThumbnail,
     C!Commit, C!Rollback, C!midiaVars
<1>2. ASSUME NEW p \in Particoes, C!FalhaConsulta(p) \/ C!GravaOffset(p)
      PROVE  /\ UNCHANGED <<temp, comando, media>>
             /\ photos' \subseteq photos /\ thumbnails' \subseteq thumbnails
  BY <1>2 DEF C!FalhaConsulta, C!FalhaS3, C!StatementFalha, C!StatementRecusado, C!StatementCortado,
     C!GravaOffset, C!midiaVars
<1>3. C!Cancela \/ C!FimDaSessao \/ C!SigtermConsulta \/ C!ReiniciaConsulta
        => UNCHANGED <<temp, comando, media, photos, thumbnails>>
  BY DEF C!Cancela, C!FimDaSessao, C!SigtermConsulta, C!ReiniciaConsulta, C!midiaVars
<1> QED
  BY <1>1, <1>2, <1>3 DEF C!ConsultaNext

(* Handlers of consulta: a step starts one, which takes a deletion event,  *)
(* moves one on at its event, or ends it.                                  *)
LEMMA PassoAnda ==
  ASSUME ConsultaTipos, C!ConsultaNext
  PROVE  /\ ConsultaTipos'
         /\ \A p \in Particoes : passo'[p] # "livre" =>
              /\ lido'[p] = lido[p]
              /\ passo[p] # "livre" \/ (C!TemEvento(p) /\ C!Evento(p).tipo = "delete")
<1> DEFINE Bem == /\ ConsultaTipos'
                  /\ \A p \in Particoes : passo'[p] # "livre" =>
                       /\ lido'[p] = lido[p]
                       /\ passo[p] # "livre" \/ (C!TemEvento(p) /\ C!Evento(p).tipo = "delete")
<1> USE DEF C!PassosConsulta
<1>1. ASSUME NEW p \in Particoes, C!Marca(p), gravado' = gravado PROVE Bem
  BY <1>1 DEF C!Marca, ConsultaTipos
<1>2. ASSUME NEW p \in Particoes, NEW ps \in C!PassosConsulta, gravado' = gravado, lido' = lido,
             passo' = [passo EXCEPT ![p] = ps],
             passo[p] # "livre" \/ (C!TemEvento(p) /\ C!Evento(p).tipo = "delete")
      PROVE  Bem
  BY <1>2 DEF ConsultaTipos
<1>3. \A es : C!Depois(es) \in C!PassosConsulta
  BY DEF C!Depois
<1> HIDE DEF Bem
<1>4. ASSUME NEW p \in Particoes, C!HandlerConsulta(p) PROVE Bem
  <2>1. CASE C!SaveRegistroMedia(p) \/ C!Commit(p) \/ C!Rollback(p)
    BY <1>1, <2>1 DEF C!SaveRegistroMedia, C!Commit, C!Rollback
  <2>2. CASE C!BeginTx(p)
    BY <1>2, <2>2 DEF C!BeginTx, C!Segue, C!Recebe, C!No
  <2>3. CASE C!DeleteRegistroMedia(p) \/ C!CountRegistroByHash(p)
    BY <1>2, <2>3 DEF C!DeleteRegistroMedia, C!CountRegistroByHash, C!Segue, C!No
  <2>4. CASE C!PhotoExiste(p) \/ C!RemovePhoto(p)
    BY <1>2, <2>4 DEF C!PhotoExiste, C!RemovePhoto, C!Segue, C!Anota, C!No
  <2>5. CASE C!ThumbnailExiste(p)
    BY <1>2, <1>3, <2>5 DEF C!ThumbnailExiste, C!Segue, C!Anota, C!No
  <2>6. CASE C!RemoveThumbnail(p)
    BY <1>2, <1>3, <2>6 DEF C!RemoveThumbnail, C!Segue, C!No
  <2> QED
    BY <1>4, <2>1, <2>2, <2>3, <2>4, <2>5, <2>6 DEF C!HandlerConsulta
<1>5. ASSUME NEW p \in Particoes, C!FalhaS3(p) PROVE Bem
  <2>1. gravado' = gravado /\ passo[p] # "livre"
    BY <1>5 DEF C!FalhaS3, C!No
  <2>2. \E ps \in C!PassosConsulta : lido' = lido /\ passo' = [passo EXCEPT ![p] = ps]
    BY <1>3, <1>5 DEF C!FalhaS3, C!Anota
  <2> QED
    BY <1>2, <2>1, <2>2
<1>6. ASSUME NEW p \in Particoes,
             C!StatementFalha(p) \/ C!StatementRecusado(p) \/ C!StatementCortado(p)
      PROVE  Bem
  <2>1. gravado' = gravado /\ C!Desiste(p)
    BY <1>6 DEF C!StatementFalha, C!StatementRecusado, C!StatementCortado
  <2>2. CASE passo[p] \in {"delete", "count"}
    <3>1. C!Segue(p, "rollback")
      BY <2>1, <2>2 DEF C!Desiste
    <3> QED
      BY <1>2, <2>1, <2>2, <3>1 DEF C!Segue
  <2>3. CASE passo[p] \notin {"delete", "count"}
    <3>1. C!Marca(p)
      BY <2>1, <2>3 DEF C!Desiste
    <3> QED
      BY <1>1, <2>1, <3>1
  <2> QED
    BY <2>2, <2>3
<1>7. ASSUME NEW p \in Particoes, C!GravaOffset(p) PROVE Bem
  BY <1>7 DEF C!GravaOffset, ConsultaTipos, Bem
<1>8. C!Cancela \/ C!FimDaSessao \/ C!SigtermConsulta => Bem
  BY DEF C!Cancela, C!FimDaSessao, C!SigtermConsulta, ConsultaTipos, Bem
<1>9. C!ReiniciaConsulta => Bem
  BY DEF C!ReiniciaConsulta, ConsultaTipos, Bem
<1>10. Bem
  BY <1>4, <1>5, <1>6, <1>7, <1>8, <1>9 DEF C!ConsultaNext, C!FalhaConsulta
<1> QED
  BY <1>10 DEF Bem

(* A step of consulta: what it takes from photos, its event accounts for.  *)
LEMMA ConsultaPasso ==
  ASSUME SistemaInv, C!ConsultaNext, UNCHANGED <<exclusoes, registroVars>>
  PROVE  SistemaInv'
<1> USE DEF SistemaInv
<1>1. TypeOK'
  BY SoOsBuckets DEF TypeOK, MidiaTypeOK, registroVars
<1>2. ConsultaTipos'
  BY PassoAnda
<1>3. ASSUME NEW h, Disponivel(h) PROVE Disponivel(h)'
  <2>1. media' = media
    BY SoOsBuckets
  <2>2. ASSUME NEW p \in Particoes, passo[p] # "livre", C!Evento(p).hash = h
        PROVE  \E d \in Todas(media) : d.tipo = "delete" /\ d.hash = h
    <3>1. C!TemEvento(p) /\ C!Evento(p).tipo = "delete"
      BY <2>2 DEF ColetaPedida
    <3>2. media[p] \in Seq(Eventos) /\ lido[p] \in Nat
      BY DEF TypeOK, MidiaTypeOK, ConsultaTipos
    <3>3. lido[p] + 1 \in DOMAIN media[p]
      BY <3>1, <3>2 DEF C!TemEvento
    <3>4. C!Evento(p) \in Todas(media)
      BY <3>3 DEF C!Evento, Todas, Range
    <3> QED
      BY <2>2, <3>1, <3>4
  <2>3. h \in photos' \/ \E d \in Todas(media) : d.tipo = "delete" /\ d.hash = h
    BY <1>3, <2>2, SoRemovePeloEvento DEF Disponivel
  <2> QED
    BY <2>1, <2>3 DEF Disponivel, Todas
<1>4. NaEtapa'
  BY <1>3, SoOsBuckets DEF NaEtapa, TemComando, Comando, registroVars, Disponivel
<1>5. ColetaPedida'
  BY PassoAnda, SoOsBuckets DEF ColetaPedida, C!TemEvento, C!Evento
<1>6. FotoAteExclusao'
  <2>1. Emitidos' = Emitidos
    BY SoOsBuckets DEF Emitidos, Todas, registroVars
  <2>2. \A e \in Emitidos : e.tipo = "upload" => Disponivel(e.hash)
    BY DEF FotoAteExclusao, Disponivel
  <2> QED
    BY <1>3, <2>1, <2>2 DEF FotoAteExclusao, Disponivel, Todas
<1> QED
  BY <1>1, <1>2, <1>4, <1>5, <1>6

(* The inductive invariant of the composition.                             *)
THEOREM SistemaInvariante == Sistema => []SistemaInv
<1>1. SistemaInit => SistemaInv
  <2> SUFFICES ASSUME SistemaInit PROVE SistemaInv
    OBVIOUS
  <2>1. TypeOK
    <3>1. Livre \in Etapas
      BY DEF Etapas
    <3> QED
      BY <3>1 DEF SistemaInit, Init, MidiaInit, MidiaTypeOK, RegistroInit, TypeOK, Gastos
  <2>2. ConsultaTipos /\ ColetaPedida
    BY DEF SistemaInit, C!ConsultaInit, ConsultaTipos, ColetaPedida, C!PassosConsulta
  <2>3. NaEtapa
    BY DEF SistemaInit, Init, RegistroInit, NaEtapa, Livre
  <2>4. \A p \in Particoes : media[p] = <<>> /\ filaMedia[p] = <<>>
    BY DEF SistemaInit, Init, MidiaInit, RegistroInit
  <2>5. Emitidos = {}
    BY <2>4 DEF Emitidos, Todas, Range
  <2> QED
    BY <2>1, <2>2, <2>3, <2>5 DEF SistemaInv, FotoAteExclusao
<1>2. SistemaInv /\ [SistemaNext]_sistemaVars => SistemaInv'
  <2> SUFFICES ASSUME SistemaInv, [SistemaNext]_sistemaVars PROVE SistemaInv'
    OBVIOUS
  <2>1. CASE UNCHANGED sistemaVars
    BY <2>1, RegistroPasso DEF sistemaVars
  <2>2. CASE Next /\ UNCHANGED consultaVars
    BY <2>2, RegistroPasso
  <2>3. CASE C!ConsultaNext /\ UNCHANGED <<exclusoes, registroVars>>
    BY <2>3, ConsultaPasso
  <2> QED
    BY <2>1, <2>2, <2>3 DEF SistemaNext
<1> QED
  BY <1>1, <1>2, PTL DEF Sistema

(* A content announced by an upload stays in the bucket photos until some  *)
(* deletion of a file with that content has been announced, whatever       *)
(* fails, is replayed, cancelled or restarted on either side: registro     *)
(* stores before it announces, consulta removes on a deletion event only.  *)
THEOREM FotoFicaAteExclusao == Sistema => []FotoAteExclusao
<1>1. SistemaInv => FotoAteExclusao
  BY DEF SistemaInv
<1> QED
  BY <1>1, SistemaInvariante, PTL

-----------------------------------------------------------------------------
(* A file whose deletion the readers were told of.                         *)
Excluido(f) == \E e \in Todas(media) : e.tipo = "delete" /\ e.arquivo = f

(* Events are in the partition of their file.                              *)
EventosNoLugar == \A p \in Particoes : \A i \in DOMAIN Anunciados[p] :
  ParticaoDe[Anunciados[p][i].arquivo] = p

(* The tables of consulta, committed and as the shared session sees them:  *)
(* what the session has deleted and not committed was to be deleted.       *)
Tabela == [Arquivos -> Linhas \cup {Nenhum}]
Tabelas == /\ consulta \in Tabela /\ visao \in Tabela
           /\ \A f \in Arquivos : consulta[f] # Nenhum /\ visao[f] = Nenhum => Excluido(f)

ExclusaoInv == /\ SistemaInv /\ Proveniencia /\ Tabelas
               /\ Ileso => Vidas /\ EventosNoLugar

(* To the readers a step of registro is an event more, or nothing.         *)
LEMMA AnunciosPasso ==
  ASSUME TypeOK, Vidas, [Next]_vars, Ileso'
  PROVE  Anunciados' = Anunciados \/ \E e \in Eventos : Anunciados' = Publica(Anunciados, e)
<1>1. ASSUME NEW p \in Particoes, ProduzEvento(p)
      PROVE  \/ Anunciados' = Anunciados
             \/ \E e \in Eventos : Anunciados' = Publica(Anunciados, e)
  <2>1. TemComando(p) /\ etapa[p].usuario \in Usuarios /\ etapa[p].hash \in Hashes /\ media' = media
    BY <1>1, EtapaTipo DEF ProduzEvento, Passos, Em, midiaVars
  <2>2. EventoDe(p) \in Eventos
    BY <2>1, ComandoTipo DEF EventoDe, NewEvent, Eventos
  <2>3. filaMedia' = filaMedia \/ filaMedia' = Publica(filaMedia, EventoDe(p))
    BY <1>1 DEF ProduzEvento
  <2>4. CASE filaMedia' = filaMedia
    BY <2>1, <2>4 DEF Anunciados
  <2>5. CASE filaMedia' = Publica(filaMedia, EventoDe(p))
    BY <2>1, <2>2, <2>5, AnunciadosMais
  <2> QED
    BY <2>3, <2>4, <2>5
<1>2. ASSUME NEW p \in Particoes,
             RejeitaInvalido(p) \/ VerificaPhoto(p) \/ AddPhoto(p) \/ AddThumbnail(p)
             \/ DeleteRegistro(p) \/ RejeitaDelete(p) \/ UpdateRegistro(p) \/ IgnoraComando(p)
             \/ SemConexao(p) \/ ProduzExecutado(p) \/ EntregaComando(p) \/ Ambiente(p)
      PROVE  Anunciados' = Anunciados
  BY <1>2 DEF RejeitaInvalido, VerificaPhoto, AddPhoto, AddThumbnail, DeleteRegistro, RejeitaDelete,
     UpdateRegistro, IgnoraComando, SemConexao, ProduzExecutado, EntregaComando, Ambiente, FalhaUpload,
     FalhaDelete, FalhaUpdate, ConfirmaOffset, midiaVars, Anunciados
<1>3. ASSUME Pedidos, UNCHANGED registroVars PROVE Anunciados' = Anunciados
  BY <1>3 DEF Pedidos, DeleteMedia, Upload, registroVars, Anunciados
<1>4. NovaSessao \/ UNCHANGED vars => Anunciados' = Anunciados
  BY DEF NovaSessao, vars, midiaVars, registroVars, Anunciados
<1>5. ~Reinicia /\ ~Sigterm /\ ~Termina
  BY IlesoAntes DEF Vidas, Termina
<1> QED
  BY <1>1, <1>2, <1>3, <1>4, <1>5, EntregaMediaIgual DEF Next, RegistroNext, Handler, Producer

(* An event more is in its place.                                          *)
LEMMA EventosLugarPasso ==
  ASSUME TypeOK, Vidas, EventosNoLugar, [Next]_vars, Ileso'
  PROVE  EventosNoLugar'
<1>1. CASE Anunciados' = Anunciados
  BY <1>1 DEF EventosNoLugar
<1>2. ASSUME NEW e \in Eventos, Anunciados' = Publica(Anunciados, e),
             NEW p \in Particoes, NEW i \in DOMAIN Anunciados'[p]
      PROVE  ParticaoDe[Anunciados'[p][i].arquivo] = p
  <2> DEFINE log == Anunciados[p]
  <2>1. log \in Seq(Eventos)
    BY TiposEm
  <2>2. Anunciados'[p] = IF ParticaoDe[e.arquivo] = p THEN Append(log, e) ELSE log
    BY <1>2 DEF Publica, Anunciados
  <2>3. /\ DOMAIN Append(log, e) = DOMAIN log \cup {Len(log) + 1}
        /\ Append(log, e)[Len(log) + 1] = e
        /\ \A j \in DOMAIN log : Append(log, e)[j] = log[j]
    BY <2>1, Anexa
  <2>4. \A j \in DOMAIN log : ParticaoDe[log[j].arquivo] = p
    BY DEF EventosNoLugar
  <2> HIDE DEF log
  <2> QED
    BY <1>2, <2>2, <2>3, <2>4
<1> QED
  BY <1>1, <1>2, AnunciosPasso DEF EventosNoLugar

(* After its deletion event a file has no row of registro: its one life is *)
(* over.                                                                   *)
LEMMA FimDaVida ==
  ASSUME TypeOK, Vidas, EventosNoLugar, NEW f \in Arquivos, Excluido(f)
  PROVE  registro[f] = Nenhum
<1>1. PICK p \in Particoes : \E i \in DOMAIN media[p] :
        media[p][i].tipo = "delete" /\ media[p][i].arquivo = f
  BY DEF Excluido, Todas, Range
<1>2. PICK i \in DOMAIN media[p] : media[p][i].tipo = "delete" /\ media[p][i].arquivo = f
  BY <1>1
<1>3. i \in DOMAIN Anunciados[p] /\ Anunciados[p][i] = media[p][i]
  <2> DEFINE m == media[p]
             q == filaMedia[p]
  <2>1. m \in Seq(Eventos) /\ q \in Seq(Eventos) /\ Anunciados[p] = m \o q
    BY TiposEm
  <2>2. i \in 1..Len(m)
    BY <1>2, <2>1, LenProperties
  <2> HIDE DEF m, q
  <2>3. DOMAIN (m \o q) = 1..Len(m \o q) /\ Len(m \o q) = Len(m) + Len(q) /\ (m \o q)[i] = m[i]
    BY <2>1, <2>2, ConcatProperties
  <2>4. Len(m) \in Nat /\ Len(q) \in Nat
    BY <2>1
  <2> QED
    BY <2>1, <2>2, <2>3, <2>4 DEF m
<1>4. ParticaoDe[f] = p
  BY <1>2, <1>3 DEF EventosNoLugar
<1>5. i \in Ditos(f) /\ Historia(f)[i].tipo = "delete"
  BY <1>2, <1>3, <1>4 DEF Ditos, DitosEm, Historia
<1>6. ~SoUpload(f) /\ ~Calado(f)
  BY <1>5 DEF SoUpload, SoUploadEm, Ditos, Calado
<1> QED
  BY <1>6 DEF Vidas, Vida, UmaVida, Conhecido

-----------------------------------------------------------------------------
(* The tables of consulta after a step: as they were, one taken for the    *)
(* other, or without the row of a deletion event at hand.                  *)
LEMMA LinhaDeConsulta ==
  ASSUME TypeOK, ConsultaTipos, ColetaPedida, Tabelas, C!ConsultaNext
  PROVE  /\ Tabelas'
         /\ \A f \in Arquivos : consulta[f] # Nenhum /\ consulta'[f] = Nenhum => Excluido(f)
<1> DEFINE Bem == /\ consulta' \in Tabela /\ visao' \in Tabela
                  /\ \A f \in Arquivos :
                       /\ consulta'[f] # Nenhum /\ visao'[f] = Nenhum => Excluido(f)
                       /\ consulta[f] # Nenhum /\ consulta'[f] = Nenhum => Excluido(f)
<1>1. ASSUME NEW t \in Tabela, visao' = t, consulta' \in {consulta, t},
             \A f \in Arquivos : t[f] = Nenhum => visao[f] = Nenhum \/ Excluido(f)
      PROVE  Bem
  BY <1>1 DEF Tabelas
<1>2. ASSUME visao' = consulta, consulta' = consulta PROVE Bem
  BY <1>2 DEF Tabelas
<1>3. consulta' = consulta /\ visao' = visao => Bem
  BY DEF Tabelas
<1> HIDE DEF Bem
<1>4. ASSUME NEW p \in Particoes, C!TemEvento(p)
      PROVE  C!Evento(p) \in Eventos /\ C!Evento(p) \in Todas(media)
  <2>1. media[p] \in Seq(Eventos) /\ lido[p] \in Nat
    BY DEF TypeOK, MidiaTypeOK, ConsultaTipos
  <2>2. lido[p] + 1 \in DOMAIN media[p] /\ media[p][lido[p] + 1] \in Eventos
    BY <1>4, <2>1 DEF C!TemEvento
  <2> QED
    BY <2>2 DEF C!Evento, Todas, Range
(* The upsert and the DELETE, done by a handler or cut off.                *)
<1>5. ASSUME NEW p \in Particoes, C!TemEvento(p), visao' = C!ComLinha(C!Evento(p)),
             consulta' \in {consulta, visao'}
      PROVE  Bem
  <2> DEFINE e == C!Evento(p)
             linha == [usuario |-> IF visao[e.arquivo] = Nenhum THEN e.usuario
                                   ELSE visao[e.arquivo].usuario, hash |-> e.hash]
             t == [visao EXCEPT ![e.arquivo] = linha]
  <2>1. e \in Eventos /\ visao' = t /\ consulta' \in {consulta, t}
    BY <1>4, <1>5 DEF C!ComLinha
  <2>2. linha \in Linhas
    BY <2>1 DEF Tabelas, Tabela, Linhas, Eventos
  <2> HIDE DEF linha, e
  <2>3. t \in Tabela /\ \A f \in Arquivos : t[f] = Nenhum => visao[f] = Nenhum
    BY <2>2, LinhaAssumption DEF Tabelas, Tabela
  <2> HIDE DEF t
  <2> QED
    BY <1>1, <2>1, <2>3
<1>6. ASSUME NEW p \in Particoes, passo[p] = "delete", visao' = C!SemLinha(C!Evento(p)),
             consulta' \in {consulta, visao'}
      PROVE  Bem
  <2> DEFINE e == C!Evento(p)
             t == IF visao[e.arquivo] # Nenhum /\ visao[e.arquivo].usuario = e.usuario
                  THEN [visao EXCEPT ![e.arquivo] = Nenhum] ELSE visao
  <2>1. visao' = t /\ consulta' \in {consulta, t} /\ C!TemEvento(p)
    BY <1>6 DEF C!SemLinha, ColetaPedida
  <2>2. Excluido(e.arquivo)
    BY <1>4, <1>6, <2>1 DEF ColetaPedida, Excluido
  <2> HIDE DEF e
  <2>3. t \in Tabela /\ \A f \in Arquivos : t[f] = Nenhum => visao[f] = Nenhum \/ f = e.arquivo
    BY DEF Tabelas, Tabela
  <2> HIDE DEF t
  <2> QED
    BY <1>1, <2>1, <2>2, <2>3
<1>7. ASSUME visao' \in {visao, consulta}, consulta' = visao' PROVE Bem
  BY <1>1, <1>2, <1>7 DEF Tabelas
<1>8. ASSUME NEW p \in Particoes,
             \/ C!BeginTx(p) \/ C!CountRegistroByHash(p) \/ C!PhotoExiste(p) \/ C!RemovePhoto(p)
             \/ C!ThumbnailExiste(p) \/ C!RemoveThumbnail(p) \/ C!FalhaS3(p) \/ C!GravaOffset(p)
      PROVE  Bem
  BY <1>3, <1>8 DEF C!BeginTx, C!CountRegistroByHash, C!PhotoExiste, C!RemovePhoto,
     C!ThumbnailExiste, C!RemoveThumbnail, C!FalhaS3, C!GravaOffset, C!bancoVars
<1>9. ASSUME NEW p \in Particoes, C!Commit(p) \/ C!Rollback(p) PROVE Bem
  BY <1>7, <1>9 DEF C!Commit, C!Rollback, C!Encerra
<1>10. ASSUME NEW p \in Particoes, C!SaveRegistroMedia(p) \/ C!DeleteRegistroMedia(p) PROVE Bem
  <2>1. CASE C!SaveRegistroMedia(p)
    BY <1>5, <2>1 DEF C!SaveRegistroMedia, C!Recebe, C!No, C!Escreve
  <2>2. CASE C!DeleteRegistroMedia(p)
    BY <1>6, <2>2 DEF C!DeleteRegistroMedia, C!No, C!Escreve
  <2> QED
    BY <1>10, <2>1, <2>2
<1>12. ASSUME NEW p \in Particoes, C!StatementFalha(p) \/ C!StatementRecusado(p) PROVE Bem
  <2>1. UNCHANGED C!bancoVars \/ C!Encerra(consulta) \/ C!Aborta
    BY <1>12 DEF C!StatementFalha, C!StatementRecusado, C!Fecha
  <2> QED
    BY <1>2, <1>3, <1>7, <2>1 DEF C!Aborta, C!Encerra, C!bancoVars
<1>13. ASSUME NEW p \in Particoes, C!StatementCortado(p) PROVE Bem
  <2>1. PICK t \in {consulta, C!Feito(p)} : visao' = t /\ consulta' = t
    BY <1>13 DEF C!StatementCortado, C!Encerra
  <2>2. C!TemEvento(p)
    BY <1>13 DEF C!StatementCortado, C!No
  <2> DEFINE Serve(u) == visao' = u /\ consulta' = u => Bem
  <2>3. Serve(consulta) /\ Serve(visao)
    BY <1>2, <1>7
  <2>4. Serve(C!ComLinha(C!Evento(p)))
    BY <1>5, <2>2
  <2>5. passo[p] = "delete" => Serve(C!SemLinha(C!Evento(p)))
    BY <1>6
  <2> HIDE DEF Serve
  <2>6. Serve(C!Feito(p))
    BY <2>3, <2>4, <2>5 DEF C!Feito
  <2>7. Serve(t)
    BY <2>1, <2>3, <2>6
  <2> QED
    BY <2>1, <2>7 DEF Serve
<1>11. C!Cancela \/ C!FimDaSessao \/ C!SigtermConsulta \/ C!ReiniciaConsulta => Bem
  BY <1>3, <1>7 DEF C!Cancela, C!FimDaSessao, C!SigtermConsulta, C!ReiniciaConsulta, C!Fecha,
     C!Encerra, C!bancoVars
<1>14. Bem
  BY <1>8, <1>9, <1>10, <1>11, <1>12, <1>13 DEF C!ConsultaNext, C!HandlerConsulta, C!FalhaConsulta
<1> QED
  BY <1>14, SoOsBuckets DEF Bem, Tabelas, Excluido, Todas

-----------------------------------------------------------------------------
(* A step of registro.                                                     *)
LEMMA RegistroExclusao ==
  ASSUME ExclusaoInv, [Next]_vars, UNCHANGED consultaVars
  PROVE  ExclusaoInv'
<1> USE DEF ExclusaoInv
<1>1. SistemaInv' /\ TypeOK
  BY RegistroPasso DEF SistemaInv
<1>2. Proveniencia'
  BY <1>1, LinhasStep, RespostasStep, EtapasStep, EventosStep DEF Proveniencia
<1>3. Tabelas'
  BY <1>1, MediaCresce DEF Tabelas, Tabela, Excluido, consultaVars
<1>4. ASSUME Ileso' PROVE Vidas' /\ EventosNoLugar'
  <2>1. Vidas /\ EventosNoLugar
    BY <1>1, <1>4, IlesoAntes
  <2> QED
    BY <1>1, <1>4, <2>1, VidasStep, EventosLugarPasso
<1> QED
  BY <1>1, <1>2, <1>3, <1>4

(* A step of consulta.                                                     *)
LEMMA ConsultaExclusao ==
  ASSUME ExclusaoInv, C!ConsultaNext, UNCHANGED <<exclusoes, registroVars>>
  PROVE  ExclusaoInv'
<1> USE DEF ExclusaoInv
<1>1. SistemaInv' /\ TypeOK /\ ConsultaTipos /\ ColetaPedida
  BY ConsultaPasso DEF SistemaInv
<1>2. UNCHANGED <<temp, comando, media, registro, posicao, processado, etapa, filaComando, filaMedia,
                  processo, gasto>>
  BY SoOsBuckets DEF registroVars
<1>3. Proveniencia'
  BY <1>2 DEF Proveniencia, LinhasProvadas, RespostasProvadas, EtapasProvadas, EventosProvados,
     EtapaProvada, Respostas, Emitidos, Todas, Provado, Dono, Pediu, TemComando, Comando
<1>4. Tabelas'
  BY <1>1, LinhaDeConsulta
<1>5. ASSUME Ileso' PROVE Vidas' /\ EventosNoLugar'
  <2>1. Ileso /\ Vidas /\ EventosNoLugar /\ PerdasFicam
    BY <1>2, <1>5 DEF Ileso, PerdasFicam
  <2>2. \A p \in Particoes : Parada(p)
    BY <1>2 DEF Parada
  <2>3. ASSUME NEW p \in Particoes PROVE NoLugar(p)'
    BY <2>1, <2>2, ParadaLugar DEF Vidas
  <2>4. ASSUME NEW f \in Arquivos PROVE Vida(f)'
    <3>1. Vida(f) /\ ParticaoDe[f] \in Particoes
      BY <2>1, ParticaoAssumption DEF Vidas
    <3>2. Igual(f)
      BY <1>2, <2>2, <3>1, ParadaIgual
    <3> QED
      BY <2>1, <3>1, <3>2, IgualVida
  <2>5. EventosNoLugar'
    BY <1>2, <2>1 DEF EventosNoLugar, Anunciados
  <2> QED
    BY <1>2, <2>1, <2>3, <2>4, <2>5 DEF Vidas
<1> QED
  BY <1>1, <1>3, <1>4, <1>5

(* The inductive invariant of the deletions.                               *)
THEOREM ExclusaoInvariante == Sistema => []ExclusaoInv
<1>1. SistemaInit /\ SistemaInv => ExclusaoInv
  <2> SUFFICES ASSUME SistemaInit, SistemaInv PROVE ExclusaoInv
    OBVIOUS
  <2>1. Proveniencia /\ Vidas
    BY InitProveniencia, InitVidas DEF SistemaInit
  <2>2. Tabelas
    BY DEF SistemaInit, C!ConsultaInit, Tabelas, Tabela
  <2>3. EventosNoLugar
    <3>1. \A p \in Particoes : Anunciados[p] = <<>> \o <<>>
      BY DEF SistemaInit, Init, MidiaInit, RegistroInit, Anunciados
    <3>2. <<>> \o <<>> = <<>> /\ DOMAIN <<>> = {}
      OBVIOUS
    <3> QED
      BY <3>1, <3>2 DEF EventosNoLugar
  <2> QED
    BY <2>1, <2>2, <2>3 DEF ExclusaoInv
<1>2. ExclusaoInv /\ [SistemaNext]_sistemaVars => ExclusaoInv'
  <2> SUFFICES ASSUME ExclusaoInv, [SistemaNext]_sistemaVars PROVE ExclusaoInv'
    OBVIOUS
  <2>1. CASE UNCHANGED sistemaVars
    BY <2>1, RegistroExclusao DEF sistemaVars
  <2>2. CASE Next /\ UNCHANGED consultaVars
    BY <2>2, RegistroExclusao
  <2>3. CASE C!ConsultaNext /\ UNCHANGED <<exclusoes, registroVars>>
    BY <2>3, ConsultaExclusao
  <2> QED
    BY <2>1, <2>2, <2>3 DEF SistemaNext
<1> QED
  BY <1>1, <1>2, SistemaInvariante, PTL DEF Sistema

(* The topics of the system, with consulta reading them and both programs  *)
(* over the same buckets: an event names the sender of its file and a      *)
(* content that was sent, and a row of registro has had its event.         *)
THEOREM EventosELinhas == Sistema => [](EventoVemDoDono /\ LinhaTemEvento)
<1>1. ExclusaoInv => EventoVemDoDono
  BY DEF ExclusaoInv, SistemaInv, Proveniencia, EventosProvados, Provado, EventoVemDoDono
<1>2. ExclusaoInv => LinhaTemEvento
  BY LinhaDita DEF ExclusaoInv, SistemaInv
<1> QED
  BY <1>1, <1>2, ExclusaoInvariante, PTL

(* The read side never drops a file the command side still has, whatever   *)
(* is refused, lost, replayed, cancelled or shared between transactions,   *)
(* as long as the registro process does not end: consulta deletes on the   *)
(* event only, the event is of the row's deletion, and no second executed  *)
(* upload can bring the row back.                                          *)
THEOREM ExclusaoPeloRegistro == Sistema => ExclusaoPassaPeloRegistro
<1>1. ExclusaoInv /\ [SistemaNext]_sistemaVars =>
        [\A f \in Arquivos : gasto["quedas"] = 0 /\ consulta[f] # Nenhum /\ consulta'[f] = Nenhum
                              => registro[f] = Nenhum]_<<consulta, registro>>
  <2> SUFFICES ASSUME ExclusaoInv, [SistemaNext]_sistemaVars, NEW f \in Arquivos,
                      gasto["quedas"] = 0, consulta[f] # Nenhum, consulta'[f] = Nenhum
               PROVE  registro[f] = Nenhum
    OBVIOUS
  <2>1. C!ConsultaNext
    BY DEF SistemaNext, sistemaVars, consultaVars
  <2>2. Excluido(f)
    BY <2>1, LinhaDeConsulta DEF ExclusaoInv, SistemaInv
  <2> QED
    BY <2>2, FimDaVida DEF ExclusaoInv, SistemaInv, Ileso
<1> QED
  BY <1>1, ExclusaoInvariante, PTL DEF Sistema, ExclusaoPassaPeloRegistro

=============================================================================
