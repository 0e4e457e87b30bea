-------------------------- MODULE Registro_proofs --------------------------
(***************************************************************************)
(* Registro for any number of files, users, contents and partitions.       *)
(***************************************************************************)
EXTENDS Registro, Formato, SequenceTheorems, FiniteSetTheorems, TLAPS

(* The messages of a log after one more was produced to it.                *)
LEMMA AppendRange ==
  ASSUME NEW S, NEW s \in Seq(S), NEW m \in S
  PROVE  Range(Append(s, m)) = Range(s) \cup {m}
BY AppendProperties DEF Range

(* Appending to one log adds one message to the topic and nothing else.    *)
LEMMA PublicaLemma ==
  ASSUME NEW S, NEW log \in [Particoes -> Seq(S)], NEW m \in S, m.arquivo \in Arquivos
  PROVE  /\ Publica(log, m) \in [Particoes -> Seq(S)]
         /\ Todas(Publica(log, m)) = Todas(log) \cup {m}
<1> DEFINE p == ParticaoDe[m.arquivo]
           novo == [log EXCEPT ![p] = Append(@, m)]
<1>1. p \in Particoes
  BY ParticaoAssumption
<1>2. novo \in [Particoes -> Seq(S)]
  BY <1>1
<1>3. Range(novo[p]) = Range(log[p]) \cup {m}
  <2>1. novo[p] = Append(log[p], m) /\ log[p] \in Seq(S)
    BY <1>1
  <2> QED
    BY <2>1, AppendRange
<1>4. \A q \in Particoes \ {p} : novo[q] = log[q]
  OBVIOUS
<1>5. Todas(novo) = Todas(log) \cup {m}
  BY <1>1, <1>3, <1>4 DEF Todas
<1> QED
  BY <1>2, <1>5 DEF Publica

(* Delivery moves the oldest message of a queue to the end of its log.     *)
Entrega(S, log, fila, log2, fila2, p) ==
  /\ log \in [Particoes -> Seq(S)] /\ fila \in [Particoes -> Seq(S)] /\ p \in Particoes
  /\ fila[p] # <<>>
  /\ log2 = [log EXCEPT ![p] = Append(@, Head(fila[p]))]
  /\ fila2 = [fila EXCEPT ![p] = Tail(@)]

(* Such a delivery keeps the types, and topic and queue together hold what *)
(* they held.                                                              *)
LEMMA EntregaLemma ==
  ASSUME NEW S, NEW log, NEW fila, NEW log2, NEW fila2, NEW p,
         Entrega(S, log, fila, log2, fila2, p)
  PROVE  /\ log2 \in [Particoes -> Seq(S)]
         /\ fila2 \in [Particoes -> Seq(S)]
         /\ Todas(log2) \cup Todas(fila2) = Todas(log) \cup Todas(fila)
<1> USE DEF Entrega
<1>1. Head(fila[p]) \in S /\ Tail(fila[p]) \in Seq(S)
  BY HeadTailProperties
<1>2. log2 \in [Particoes -> Seq(S)] /\ fila2 \in [Particoes -> Seq(S)]
  BY <1>1
<1>3. Range(log2[p]) = Range(log[p]) \cup {Head(fila[p])}
  <2>1. log[p] \in Seq(S) /\ log2[p] = Append(log[p], Head(fila[p]))
    OBVIOUS
  <2> QED
    BY <1>1, <2>1, AppendRange
<1>4. Range(fila[p]) = Range(fila2[p]) \cup {Head(fila[p])}
  <2>1. fila[p] \in Seq(S) /\ fila2[p] = Tail(fila[p])
    OBVIOUS
  <2>2. Len(fila[p]) >= 1 /\ Len(fila[p]) \in Nat
    BY <2>1
  <2>3. DOMAIN fila[p] = 1..Len(fila[p]) /\ DOMAIN fila2[p] = 1..(Len(fila[p]) - 1)
    BY <2>1, HeadTailProperties, LenProperties
  <2>4. \A i \in 1..(Len(fila[p]) - 1) : fila2[p][i] = fila[p][i + 1]
    BY <2>1, HeadTailProperties
  <2>5. Head(fila[p]) = fila[p][1]
    BY <2>1
  <2>6. Range(fila[p]) \subseteq Range(fila2[p]) \cup {Head(fila[p])}
    <3> SUFFICES ASSUME NEW i \in 1..Len(fila[p])
                 PROVE  fila[p][i] \in Range(fila2[p]) \cup {Head(fila[p])}
      BY <2>3 DEF Range
    <3>1. CASE i = 1
      BY <3>1, <2>5
    <3>2. CASE i # 1
      <4>1. i - 1 \in 1..(Len(fila[p]) - 1) /\ fila2[p][i - 1] = fila[p][i]
        BY <3>2, <2>2, <2>4
      <4> QED
        BY <4>1, <2>3 DEF Range
    <3> QED
      BY <3>1, <3>2
  <2>7. Range(fila2[p]) \cup {Head(fila[p])} \subseteq Range(fila[p])
    <3>1. Head(fila[p]) \in Range(fila[p])
      BY <2>2, <2>3, <2>5 DEF Range
    <3>2. \A i \in 1..(Len(fila[p]) - 1) : fila2[p][i] \in Range(fila[p])
      <4> TAKE i \in 1..(Len(fila[p]) - 1)
      <4>1. i + 1 \in 1..Len(fila[p])
        BY <2>2
      <4> QED
        BY <4>1, <2>3, <2>4 DEF Range
    <3> QED
      BY <3>1, <3>2, <2>3 DEF Range
  <2> QED
    BY <2>6, <2>7
<1>5. \A q \in Particoes \ {p} : log2[q] = log[q] /\ fila2[q] = fila[q]
  OBVIOUS
<1>6. \A q \in Particoes : Range(log2[q]) \cup Range(fila2[q]) = Range(log[q]) \cup Range(fila[q])
  <2> TAKE q \in Particoes
  <2>1. CASE q = p
    BY <2>1, <1>3, <1>4
  <2>2. CASE q # p
    BY <2>2, <1>5
  <2> QED
    BY <2>1, <2>2
<1>7. Todas(log2) \cup Todas(fila2) = Todas(log) \cup Todas(fila)
  <2>1. ASSUME NEW x  PROVE x \in Todas(log2) \cup Todas(fila2) <=> x \in Todas(log) \cup Todas(fila)
    BY <1>6 DEF Todas
  <2> QED
    BY <2>1
<1> QED
  BY <1>2, <1>7

(* A delivery to registro.comando moves a command and loses none.          *)
LEMMA EntregaComandoMove ==
  ASSUME NEW p \in Particoes, EntregaComando(p),
         comando \in [Particoes -> Seq(Comandos)], filaComando \in [Particoes -> Seq(Comandos)]
  PROVE  /\ comando' \in [Particoes -> Seq(Comandos)] /\ filaComando' \in [Particoes -> Seq(Comandos)]
         /\ Todas(comando') \cup Todas(filaComando') = Todas(comando) \cup Todas(filaComando)
<1>1. Entrega(Comandos, comando, filaComando, comando', filaComando', p)
  BY DEF EntregaComando, Entrega
<1> QED
  BY <1>1, EntregaLemma

(* A delivery to registro.media moves an event and loses none.             *)
LEMMA EntregaMediaMove ==
  ASSUME NEW p \in Particoes, EntregaMedia(p),
         media \in [Particoes -> Seq(Eventos)], filaMedia \in [Particoes -> Seq(Eventos)]
  PROVE  /\ media' \in [Particoes -> Seq(Eventos)] /\ filaMedia' \in [Particoes -> Seq(Eventos)]
         /\ Todas(media') \cup Todas(filaMedia') = Todas(media) \cup Todas(filaMedia)
<1>1. Entrega(Eventos, media, filaMedia, media', filaMedia', p)
  BY DEF EntregaMedia, Entrega
<1> QED
  BY <1>1, EntregaLemma

-----------------------------------------------------------------------------
(* The command at hand is a command of the topic, within its log.          *)
LEMMA ComandoTipo ==
  ASSUME TypeOK, NEW p \in Particoes, TemComando(p)
  PROVE  /\ Comando(p) \in Comandos
         /\ Comando(p).arquivo \in Arquivos /\ Comando(p).usuario \in Usuarios
         /\ Comando(p).tipo \in Tipos
         /\ posicao[p] + 1 \in 1..Len(comando[p])
<1>1. posicao[p] \in Nat /\ comando[p] \in Seq(Comandos)
  BY DEF TypeOK, MidiaTypeOK
<1>2. posicao[p] + 1 \in 1..Len(comando[p])
  BY <1>1 DEF TemComando
<1>3. Comando(p) \in Comandos
  BY <1>1, <1>2, ElementOfSeq DEF Comando
<1> QED
  BY <1>2, <1>3 DEF Comandos

(* Marking a message keeps offsets, map and handlers well-typed.           *)
LEMMA ConcluiTipo ==
  ASSUME TypeOK, NEW p \in Particoes, Conclui(p)
  PROVE  /\ posicao' \in [Particoes -> Nat]
         /\ processado' \in [Particoes -> SUBSET Nat]
         /\ etapa' \in [Particoes -> Etapas]
<1>1. Livre \in Etapas
  BY DEF Etapas
<1> QED
  BY <1>1 DEF Conclui, TypeOK

(* Rejecting a command queues a well-typed command: the one received.      *)
LEMMA RejeitaTipo ==
  ASSUME TypeOK, NEW p \in Particoes, TemComando(p), Rejeita(p)
  PROVE  /\ filaComando' \in [Particoes -> Seq(Comandos)]
         /\ Todas(filaComando') = Todas(filaComando) \cup {[Comando(p) EXCEPT !.status = "rejeitado"]}
<1> DEFINE r == [Comando(p) EXCEPT !.status = "rejeitado"]
<1>1. r \in Comandos /\ r.arquivo \in Arquivos
  BY ComandoTipo DEF Comandos, Status
<1>2. filaComando \in [Particoes -> Seq(Comandos)] /\ filaComando' = Publica(filaComando, r)
  BY DEF TypeOK, Rejeita
<1> HIDE DEF r
<1>3. /\ Publica(filaComando, r) \in [Particoes -> Seq(Comandos)]
      /\ Todas(Publica(filaComando, r)) = Todas(filaComando) \cup {r}
  BY <1>1, <1>2, PublicaLemma
<1> QED
  BY <1>2, <1>3 DEF r

(* A handler that moves on with a user and a content is well-typed.        *)
LEMMA VaiTipo ==
  ASSUME TypeOK, NEW p \in Particoes, NEW s \in Passos, NEW u \in Usuarios, NEW h \in Hashes,
         Vai(p, s, u, h)
  PROVE  etapa' \in [Particoes -> Etapas]
<1>1. [passo |-> s, usuario |-> u, hash |-> h] \in Etapas
  BY DEF Etapas
<1> QED
  BY <1>1 DEF Vai, TypeOK

(* Counting a fault keeps the counts of the bounds well-typed.             *)
LEMMA GastaTipo ==
  ASSUME TypeOK, NEW t \in {"falhas", "perdas", "quedas", "sessoes"}, NEW max, Gasta(t, max)
  PROVE  gasto' \in Gastos
BY DEF Gasta, TypeOK, Gastos

(* A handler that is under way carries a user and a content.               *)
LEMMA EtapaTipo ==
  ASSUME TypeOK, NEW p \in Particoes, NEW s \in Passos, Em(p, s)
  PROVE  /\ etapa[p].usuario \in Usuarios /\ etapa[p].hash \in Hashes
         /\ TemComando(p)
BY DEF Em, TypeOK, Etapas, Livre, Passos

(* Every step of the API and of the registro processor keeps the types.    *)
LEMMA TypeStep == TypeOK /\ [Next]_vars => TypeOK'
<1> SUFFICES ASSUME TypeOK, [Next]_vars PROVE TypeOK'
  OBVIOUS
<1> USE DEF TypeOK, MidiaTypeOK
<1>1. ASSUME NEW f \in Arquivos, NEW u \in Usuarios, NEW h \in Hashes, Upload(f, u, h),
             UNCHANGED <<registroVars, exclusoes>>
      PROVE  TypeOK'
  <2>1. NewComando("upload", f, u) \in Comandos /\ NewComando("upload", f, u).arquivo = f
    BY DEF NewComando, Comandos, Tipos, Status
  <2>2. comando' \in [Particoes -> Seq(Comandos)]
    BY <1>1, <2>1, PublicaLemma DEF Upload
  <2> QED
    BY <1>1, <2>2 DEF Upload, registroVars
<1>2. ASSUME NEW f \in Arquivos, NEW u \in Usuarios, DeleteMedia(f, u), UNCHANGED registroVars,
             exclusoes' = exclusoes + 1
      PROVE  TypeOK'
  <2>1. NewComando("delete", f, u) \in Comandos /\ NewComando("delete", f, u).arquivo = f
    BY DEF NewComando, Comandos, Tipos, Status
  <2>2. comando' \in [Particoes -> Seq(Comandos)]
    BY <1>2, <2>1, PublicaLemma DEF DeleteMedia
  <2> QED
    BY <1>2, <2>2 DEF DeleteMedia, registroVars
<1>3. ASSUME Reinicia \/ Termina, UNCHANGED exclusoes PROVE TypeOK'
  <2>1. Livre \in Etapas
    BY DEF Etapas
  <2>2. gasto' \in Gastos
    BY <1>3, GastaTipo DEF Reinicia, Termina
  <2>3. MemoriaNova /\ UNCHANGED <<midiaVars, registro>>
    BY <1>3 DEF Reinicia, Termina
  <2>4. posicao' \in [Particoes -> Nat] /\ confirmado' \in [Particoes -> Nat]
    BY <1>3 DEF Reinicia, Termina
  <2>5. /\ processado' \in [Particoes -> SUBSET Nat] /\ etapa' \in [Particoes -> Etapas]
        /\ filaComando' \in [Particoes -> Seq(Comandos)] /\ filaMedia' \in [Particoes -> Seq(Eventos)]
        /\ processo' = "roda"
    BY <2>1, <2>3 DEF MemoriaNova
  <2> QED
    BY <1>3, <2>2, <2>3, <2>4, <2>5 DEF midiaVars
<1>4. ASSUME NEW p \in Particoes, UNCHANGED exclusoes, Handler(p) \/ Producer(p) \/ Ambiente(p)
      PROVE  TypeOK'
  <2>1. CASE RejeitaInvalido(p)
    <3>1. TemComando(p) /\ Rejeita(p) /\ Conclui(p)
      BY <2>1 DEF RejeitaInvalido, Trata, Rejeita
    <3> QED
      BY <2>1, <3>1, <1>4, RejeitaTipo, ConcluiTipo DEF RejeitaInvalido, midiaVars
  <2>2. CASE VerificaPhoto(p)
    <3> DEFINE h == temp[Comando(p).arquivo]
               s == IF h \in photos THEN "executado" ELSE "photo"
    <3>1. TemComando(p) /\ h \in Hashes /\ Vai(p, s, Comando(p).usuario, h)
      BY <2>2, ArquivosAssumption DEF VerificaPhoto, Trata
    <3>2. s \in Passos
      BY DEF Passos
    <3>3. etapa' \in [Particoes -> Etapas]
      BY <3>1, <3>2, ComandoTipo, VaiTipo
    <3> QED
      BY <2>2, <3>3, <1>4 DEF VerificaPhoto, midiaVars
  <2>3. ASSUME NEW s \in Passos, NEW t \in Passos, Em(p, s),
               Vai(p, t, etapa[p].usuario, etapa[p].hash)
        PROVE  etapa' \in [Particoes -> Etapas]
    BY <2>3, EtapaTipo, VaiTipo
  <2>4. CASE AddPhoto(p)
    <3>1. etapa' \in [Particoes -> Etapas]
      BY <2>3, <2>4 DEF AddPhoto, Passos
    <3>2. photos' \subseteq Hashes
      BY <2>4, EtapaTipo DEF AddPhoto, Passos
    <3> QED
      BY <2>4, <3>1, <3>2, <1>4 DEF AddPhoto
  <2>5. CASE AddThumbnail(p)
    <3>1. etapa' \in [Particoes -> Etapas]
      BY <2>3, <2>5 DEF AddThumbnail, Passos
    <3>2. thumbnails' \subseteq Hashes
      BY <2>5, EtapaTipo DEF AddThumbnail, Passos
    <3> QED
      BY <2>5, <3>1, <3>2, <1>4 DEF AddThumbnail
  <2>6. CASE FalhaUpload(p)
    <3>1. TemComando(p) /\ Rejeita(p) /\ Conclui(p)
      BY <2>6 DEF FalhaUpload, Trata, Em, Rejeita
    <3>2. photos' \subseteq Hashes /\ thumbnails' \subseteq Hashes
      BY <2>6, EtapaTipo DEF FalhaUpload, Passos
    <3>3. gasto' \in Gastos
      BY <2>6, GastaTipo DEF FalhaUpload
    <3> QED
      BY <2>6, <3>1, <3>2, <3>3, <1>4, RejeitaTipo, ConcluiTipo DEF FalhaUpload
  <2>7. ASSUME NEW c \in Comandos, c.hash \in Hashes
        PROVE  Salva(c) \in [Arquivos -> Linhas \cup {Nenhum}]
    <3> DEFINE l == [usuario |-> IF registro[c.arquivo] = Nenhum THEN c.usuario
                                 ELSE registro[c.arquivo].usuario, hash |-> c.hash]
    <3>1. l \in Linhas
      BY <2>7 DEF Comandos, Linhas
    <3> QED
      BY <2>7, <3>1 DEF Salva
  <2>8. CASE DeleteRegistro(p)
    <3> DEFINE c == Comando(p)
    <3>1. TemComando(p) /\ c.arquivo \in Arquivos /\ c.usuario \in Usuarios
      BY <2>8, ComandoTipo DEF DeleteRegistro, Trata
    <3>2. registro[c.arquivo].hash \in Hashes
      BY <2>8, <3>1 DEF DeleteRegistro, DoUsuario, Linhas
    <3>3. etapa' \in [Particoes -> Etapas]
      BY <2>8, <3>1, <3>2, VaiTipo DEF DeleteRegistro, Passos
    <3>4. registro' \in [Arquivos -> Linhas \cup {Nenhum}]
      BY <2>8 DEF DeleteRegistro
    <3> QED
      BY <2>8, <3>3, <3>4, <1>4 DEF DeleteRegistro, midiaVars
  <2>9. CASE RejeitaDelete(p)
    <3>1. TemComando(p) /\ Rejeita(p) /\ Conclui(p)
      BY <2>9 DEF RejeitaDelete, Trata, Rejeita
    <3> QED
      BY <2>9, <3>1, <1>4, RejeitaTipo, ConcluiTipo DEF RejeitaDelete, midiaVars
  <2>10. CASE FalhaDelete(p)
    <3>1. TemComando(p) /\ Rejeita(p) /\ Conclui(p)
      BY <2>10 DEF FalhaDelete, Trata, Rejeita
    <3>2. registro' \in [Arquivos -> Linhas \cup {Nenhum}]
      BY <2>10 DEF FalhaDelete, FalhaSQL
    <3>3. gasto' \in Gastos /\ processo' \in {"roda", "semBanco"}
      BY <2>10, GastaTipo DEF FalhaDelete, FalhaSQL
    <3> QED
      BY <2>10, <3>1, <3>2, <3>3, <1>4, RejeitaTipo, ConcluiTipo DEF FalhaDelete, midiaVars
  <2>11. CASE UpdateRegistro(p)
    <3>1. TemComando(p) /\ Comando(p) \in Comandos /\ Comando(p).hash \in Hashes
      BY <2>11, ComandoTipo DEF UpdateRegistro, Trata, Comandos
    <3>2. registro' \in [Arquivos -> Linhas \cup {Nenhum}]
      BY <2>11, <3>1, <2>7 DEF UpdateRegistro
    <3> QED
      BY <2>11, <3>2, <1>4, ConcluiTipo DEF UpdateRegistro, midiaVars
  <2>12. CASE FalhaUpdate(p)
    <3>1. TemComando(p) /\ Comando(p) \in Comandos /\ Comando(p).hash \in Hashes
          /\ Rejeita(p) /\ Conclui(p)
      BY <2>12, ComandoTipo DEF FalhaUpdate, Trata, Comandos, Rejeita
    <3>2. registro' \in [Arquivos -> Linhas \cup {Nenhum}]
      BY <2>12, <3>1, <2>7 DEF FalhaUpdate, FalhaSQL
    <3>3. gasto' \in Gastos /\ processo' \in {"roda", "semBanco"}
      BY <2>12, GastaTipo DEF FalhaUpdate, FalhaSQL
    <3> QED
      BY <2>12, <3>1, <3>2, <3>3, <1>4, RejeitaTipo, ConcluiTipo DEF FalhaUpdate, midiaVars
  <2>13. CASE IgnoraComando(p)
    BY <2>13, <1>4, ConcluiTipo DEF IgnoraComando, midiaVars
  <2>14. CASE ProduzExecutado(p)
    <3>1. TemComando(p) /\ etapa[p].hash \in Hashes /\ Comando(p) \in Comandos
      BY <2>14, EtapaTipo, ComandoTipo DEF ProduzExecutado, Passos
    <3>2. Executado(p) \in Comandos /\ Executado(p).arquivo \in Arquivos
      BY <3>1 DEF Executado, Comandos, Status
    <3>3. filaComando' \in [Particoes -> Seq(Comandos)]
      <4>1. Publica(filaComando, Executado(p)) \in [Particoes -> Seq(Comandos)]
        BY <3>2, PublicaLemma
      <4> QED
        BY <2>14, <4>1 DEF ProduzExecutado
    <3>4. etapa' \in [Particoes -> Etapas]
      BY <2>3, <2>14 DEF ProduzExecutado, Passos
    <3>5. gasto' \in Gastos
      BY <2>14, GastaTipo DEF ProduzExecutado
    <3> QED
      BY <2>14, <3>3, <3>4, <3>5, <1>4 DEF ProduzExecutado, midiaVars
  <2>15. CASE ProduzEvento(p)
    <3>1. TemComando(p) /\ etapa[p].hash \in Hashes /\ etapa[p].usuario \in Usuarios
      BY <2>15, EtapaTipo DEF ProduzEvento, Passos
    <3>2. EventoDe(p) \in Eventos /\ EventoDe(p).arquivo \in Arquivos
      BY <3>1, ComandoTipo DEF EventoDe, NewEvent, Eventos
    <3>3. filaMedia' \in [Particoes -> Seq(Eventos)]
      <4>1. Publica(filaMedia, EventoDe(p)) \in [Particoes -> Seq(Eventos)]
        BY <3>2, PublicaLemma
      <4> QED
        BY <2>15, <4>1 DEF ProduzEvento
    <3>4. gasto' \in Gastos
      BY <2>15, GastaTipo DEF ProduzEvento
    <3> QED
      BY <2>15, <3>3, <3>4, <1>4, ConcluiTipo DEF ProduzEvento, midiaVars
  <2>16. CASE EntregaComando(p)
    BY <2>16, <1>4, EntregaComandoMove DEF EntregaComando
  <2>17. CASE EntregaMedia(p)
    BY <2>17, <1>4, EntregaMediaMove DEF EntregaMedia
  <2>18. CASE ConfirmaOffset(p)
    BY <2>18, <1>4 DEF ConfirmaOffset, midiaVars
  <2>19. CASE SemConexao(p)
    <3>1. TemComando(p) /\ Rejeita(p) /\ Conclui(p)
      BY <2>19 DEF SemConexao, Trata, Rejeita
    <3> QED
      BY <2>19, <3>1, <1>4, RejeitaTipo, ConcluiTipo DEF SemConexao, midiaVars
  <2> QED
    BY <1>4, <2>1, <2>2, <2>4, <2>5, <2>6, <2>8, <2>9, <2>10, <2>11, <2>12, <2>13,
       <2>14, <2>15, <2>16, <2>17, <2>18, <2>19 DEF Handler, Producer, Ambiente
<1>5. CASE UNCHANGED vars
  BY <1>5 DEF vars, midiaVars, registroVars
<1>6. ASSUME NovaSessao \/ Sigterm, UNCHANGED exclusoes PROVE TypeOK'
  <2>1. gasto' \in Gastos
    BY <1>6, GastaTipo DEF NovaSessao, Sigterm
  <2> QED
    BY <1>6, <2>1 DEF NovaSessao, Sigterm, midiaVars
<1> QED
  BY <1>1, <1>2, <1>3, <1>4, <1>5, <1>6 DEF Next, Pedidos, RegistroNext

(* The tables, topics, queues and handlers of the registro processor hold  *)
(* only what the program puts there: the pending, executed and rejected    *)
(* commands, the events with a user and a content, the rows with both.     *)
THEOREM TypeCorrect == Spec => []TypeOK
<1>1. Init => TypeOK
  <2> SUFFICES ASSUME Init PROVE TypeOK
    OBVIOUS
  <2>1. MidiaTypeOK
    BY DEF Init, MidiaInit, MidiaTypeOK
  <2>2. Livre \in Etapas
    BY DEF Etapas
  <2> QED
    BY <2>1, <2>2 DEF Init, RegistroInit, TypeOK, Gastos
<1> QED
  BY <1>1, TypeStep, PTL DEF Spec

-----------------------------------------------------------------------------
(* Provenance.  Every record that names a user and a content - rows, the   *)
(* handlers' own data, executed uploads, events - is vouched for by the    *)
(* pending upload of that user and by the object in temp-media.  Topic and *)
(* bucket only grow: it is enough to look at what each step adds.          *)
Provado(f, u, h) == Dono(f, u) /\ h = temp[f] /\ h \in Hashes

LinhasProvadas == \A f \in Arquivos : registro[f] # Nenhum =>
  Provado(f, registro[f].usuario, registro[f].hash)

Respostas == Todas(comando) \cup Todas(filaComando)

RespostasProvadas == \A c \in Respostas : c.tipo = "upload" /\ c.status = "executado" =>
  Provado(c.arquivo, c.usuario, c.hash)

EtapaProvada(p) ==
  /\ TemComando(p) /\ Comando(p).status = "pendente"
  /\ etapa[p].usuario = Comando(p).usuario
  /\ Provado(Comando(p).arquivo, etapa[p].usuario, etapa[p].hash)

EtapasProvadas == \A p \in Particoes : etapa[p] # Livre => EtapaProvada(p)

EventosProvados == \A e \in Emitidos :
  /\ Provado(e.arquivo, e.usuario, e.hash)
  /\ e.tipo = "delete" => Pediu(e.arquivo, e.usuario)

Proveniencia == LinhasProvadas /\ RespostasProvadas /\ EtapasProvadas /\ EventosProvados

(* From the PUT on, what a record names is in photos, as long as nobody    *)
(* takes it away from there.                                               *)
EtapaGuardada(p) == etapa[p].passo \in {"thumbnail", "executado", "evento"} => etapa[p].hash \in photos

NasPhotos ==
  /\ \A f \in Arquivos : registro[f] # Nenhum => registro[f].hash \in photos
  /\ \A c \in Respostas : c.tipo = "upload" /\ c.status = "executado" => c.hash \in photos
  /\ \A p \in Particoes : EtapaGuardada(p)
  /\ \A e \in Emitidos : e.hash \in photos

(* The topic registro.comando changes by one message at the end of one     *)
(* partition, or not at all.                                               *)
LEMMA ComandoCresce ==
  ASSUME TypeOK, [Next]_vars
  PROVE  \/ comando' = comando
         \/ \E p \in Particoes, m \in Comandos : comando' = [comando EXCEPT ![p] = Append(@, m)]
<1> USE DEF TypeOK, MidiaTypeOK
<1>1. ASSUME NEW f \in Arquivos, NEW u \in Usuarios, NEW t \in Tipos,
             comando' = Publica(comando, NewComando(t, f, u))
      PROVE  \E p \in Particoes, m \in Comandos : comando' = [comando EXCEPT ![p] = Append(@, m)]
  <2>1. NewComando(t, f, u) \in Comandos /\ NewComando(t, f, u).arquivo = f
    BY DEF NewComando, Comandos, Status
  <2>2. ParticaoDe[f] \in Particoes
    BY ParticaoAssumption
  <2> QED
    BY <1>1, <2>1, <2>2 DEF Publica
<1>2. ASSUME NEW f \in Arquivos, NEW u \in Usuarios, NEW h \in Hashes, Upload(f, u, h)
      PROVE  \E p \in Particoes, m \in Comandos : comando' = [comando EXCEPT ![p] = Append(@, m)]
  BY <1>1, <1>2 DEF Upload, Tipos
<1>3. ASSUME NEW f \in Arquivos, NEW u \in Usuarios, DeleteMedia(f, u)
      PROVE  \E p \in Particoes, m \in Comandos : comando' = [comando EXCEPT ![p] = Append(@, m)]
  BY <1>1, <1>3 DEF DeleteMedia, Tipos
<1>4. ASSUME NEW p \in Particoes, EntregaComando(p)
      PROVE  \E q \in Particoes, m \in Comandos : comando' = [comando EXCEPT ![q] = Append(@, m)]
  <2>1. Head(filaComando[p]) \in Comandos
    BY <1>4, HeadTailProperties DEF EntregaComando
  <2> QED
    BY <1>4, <2>1 DEF EntregaComando
<1>5. ASSUME NEW p \in Particoes, Handler(p) \/ EntregaMedia(p) \/ Ambiente(p)
      PROVE  comando' = comando
  BY <1>5 DEF Handler, Ambiente, EntregaMedia, RejeitaInvalido, VerificaPhoto, AddPhoto,
     AddThumbnail, DeleteRegistro, RejeitaDelete, UpdateRegistro, IgnoraComando,
     ProduzExecutado, ProduzEvento, FalhaUpload, FalhaDelete, FalhaUpdate, SemConexao,
     ConfirmaOffset, midiaVars
<1>6. NovaSessao \/ Reinicia \/ Sigterm \/ Termina \/ UNCHANGED vars => comando' = comando
  BY DEF NovaSessao, Reinicia, Sigterm, Termina, vars, midiaVars
<1> QED
  BY <1>2, <1>3, <1>4, <1>5, <1>6 DEF Next, Pedidos, RegistroNext, Producer

(* What vouches for a record stays.                                        *)
LEMMA Cresce ==
  ASSUME TypeOK, [Next]_vars
  PROVE  /\ photos \subseteq photos'
         /\ \A f \in Arquivos : temp[f] \in Hashes => temp'[f] = temp[f]
         /\ Todas(comando) \subseteq Todas(comando')
         /\ \A p \in Particoes : \A i \in 1..Len(comando[p]) :
              i \in 1..Len(comando'[p]) /\ comando'[p][i] = comando[p][i]
<1>1. photos \subseteq photos' /\ \A f \in Arquivos : temp[f] \in Hashes => temp'[f] = temp[f]
  <2>1. ASSUME NEW f \in Arquivos, NEW u \in Usuarios, NEW h \in Hashes, Upload(f, u, h)
        PROVE  photos' = photos /\ \A g \in Arquivos : temp[g] \in Hashes => temp'[g] = temp[g]
    BY <2>1, ArquivosAssumption DEF Upload, TypeOK, MidiaTypeOK
  <2>2. ASSUME NEW f \in Arquivos, NEW u \in Usuarios, DeleteMedia(f, u)
        PROVE  photos' = photos /\ temp' = temp
    BY <2>2 DEF DeleteMedia
  <2>3. ASSUME NEW p \in Particoes, Handler(p) \/ Producer(p) \/ Ambiente(p)
        PROVE  photos \subseteq photos' /\ temp' = temp
    BY <2>3 DEF Handler, Producer, Ambiente, EntregaMedia, EntregaComando, RejeitaInvalido,
       VerificaPhoto, AddPhoto, AddThumbnail, DeleteRegistro, RejeitaDelete, UpdateRegistro,
       IgnoraComando, ProduzExecutado, ProduzEvento, FalhaUpload, FalhaDelete, FalhaUpdate, SemConexao,
       ConfirmaOffset, midiaVars
  <2>4. NovaSessao \/ Reinicia \/ Sigterm \/ Termina \/ UNCHANGED vars
          => photos' = photos /\ temp' = temp
    BY DEF NovaSessao, Reinicia, Sigterm, Termina, vars, midiaVars
  <2> QED
    BY <2>1, <2>2, <2>3, <2>4 DEF Next, Pedidos, RegistroNext
<1>2. ASSUME NEW p \in Particoes, NEW m \in Comandos, comando' = [comando EXCEPT ![p] = Append(@, m)]
      PROVE  \A q \in Particoes :
               /\ Range(comando[q]) \subseteq Range(comando'[q])
               /\ \A i \in 1..Len(comando[q]) : i \in 1..Len(comando'[q]) /\ comando'[q][i] = comando[q][i]
  <2> TAKE q \in Particoes
  <2>1. comando[q] \in Seq(Comandos) /\ comando'[q] = IF q = p THEN Append(comando[q], m) ELSE comando[q]
    BY <1>2 DEF TypeOK, MidiaTypeOK
  <2>2. CASE q = p
    <3>1. Len(comando'[q]) = Len(comando[q]) + 1 /\ Len(comando[q]) \in Nat
          /\ \A i \in 1..Len(comando[q]) : comando'[q][i] = comando[q][i]
      BY <2>1, <2>2, AppendProperties
    <3>2. Range(comando[q]) \subseteq Range(comando'[q])
      BY <2>1, <2>2, AppendRange
    <3> QED
      BY <3>1, <3>2
  <2>3. CASE q # p
    BY <2>1, <2>3
  <2> QED
    BY <2>2, <2>3
<1>3. \A q \in Particoes :
        /\ Range(comando[q]) \subseteq Range(comando'[q])
        /\ \A i \in 1..Len(comando[q]) : i \in 1..Len(comando'[q]) /\ comando'[q][i] = comando[q][i]
  BY <1>2, ComandoCresce
<1>4. Todas(comando) \subseteq Todas(comando')
  BY <1>3 DEF Todas
<1> QED
  BY <1>1, <1>3, <1>4

(* What the topic and temp-media prove once, they prove for good.          *)
LEMMA ProvadoFica ==
  ASSUME TypeOK, [Next]_vars
  PROVE  /\ \A f \in Arquivos, u \in Usuarios, h \in Hashes : Provado(f, u, h) => Provado(f, u, h)'
         /\ \A f \in Arquivos, u \in Usuarios : Pediu(f, u) => Pediu(f, u)'
BY Cresce DEF Provado, Dono, Pediu

(* The command a handler is at is in the topic, and stays put.             *)
LEMMA ComandoNoTopico ==
  ASSUME TypeOK, NEW p \in Particoes, TemComando(p)
  PROVE  /\ Comando(p) \in Todas(comando)
         /\ Comando(p).status = "pendente" /\ Comando(p).tipo = "upload"
              => Dono(Comando(p).arquivo, Comando(p).usuario)
         /\ Comando(p).status = "pendente" /\ Comando(p).tipo = "delete"
              => Pediu(Comando(p).arquivo, Comando(p).usuario)
<1>1. comando[p] \in Seq(Comandos)
  BY DEF TypeOK, MidiaTypeOK
<1>2. Comando(p) \in Range(comando[p])
  BY <1>1, ComandoTipo DEF Comando, Range
<1>3. Comando(p) \in Todas(comando)
  BY <1>2 DEF Todas
<1>4. Comando(p).status = "pendente"
        => Comando(p) = NewComando(Comando(p).tipo, Comando(p).arquivo, Comando(p).usuario)
  BY ComandoTipo DEF NewComando, Comandos
<1> QED
  BY <1>3, <1>4 DEF Dono, Pediu

(* The command a handler is at is not changed by what is appended.         *)
LEMMA ComandoFixo ==
  ASSUME TypeOK, [Next]_vars, NEW p \in Particoes, TemComando(p), posicao'[p] = posicao[p]
  PROVE  TemComando(p)' /\ Comando(p)' = Comando(p)
<1>1. posicao[p] + 1 \in 1..Len(comando'[p]) /\ comando'[p][posicao[p] + 1] = comando[p][posicao[p] + 1]
  BY ComandoTipo, Cresce
<1>2. comando'[p] \in Seq(Comandos) /\ posicao[p] \in Nat
  BY TypeStep DEF TypeOK, MidiaTypeOK
<1>3. posicao[p] < Len(comando'[p])
  BY <1>1, <1>2
<1> QED
  BY <1>1, <1>3 DEF TemComando, Comando

(* Rows: a step deletes them, or writes one from an executed upload.       *)
EscreveLinha(f, c) ==
  /\ c.tipo = "upload" /\ c.status = "executado" /\ c.arquivo = f
  /\ registro'[f] = [usuario |-> IF registro[f] = Nenhum THEN c.usuario ELSE registro[f].usuario,
                     hash |-> c.hash]

(* Of an executed upload that is in the topic.                             *)
LEMMA LinhasNovas ==
  ASSUME TypeOK, [Next]_vars, NEW f \in Arquivos, registro'[f] # registro[f], registro'[f] # Nenhum
  PROVE  \E c \in Todas(comando) : EscreveLinha(f, c)
<1>1. ASSUME NEW p \in Particoes, UpdateRegistro(p) \/ FalhaUpdate(p)
      PROVE  registro'[f] = registro[f] \/ \E c \in Todas(comando) : EscreveLinha(f, c)
  <2>1. TemComando(p) /\ Comando(p) \in Todas(comando) /\ Comando(p) \in Comandos
        /\ Comando(p).arquivo \in Arquivos
        /\ Comando(p).tipo = "upload" /\ Comando(p).status = "executado"
    BY <1>1, ComandoNoTopico, ComandoTipo DEF UpdateRegistro, FalhaUpdate, Trata
  <2>2. UNCHANGED registro \/ registro' = Salva(Comando(p))
    BY <1>1 DEF UpdateRegistro, FalhaUpdate, FalhaSQL
  <2>3. CASE registro' = Salva(Comando(p)) /\ Comando(p).arquivo = f
    BY <2>1, <2>3 DEF Salva, TypeOK, EscreveLinha
  <2>4. CASE registro' = Salva(Comando(p)) /\ Comando(p).arquivo # f
    BY <2>1, <2>4 DEF Salva, TypeOK, EscreveLinha
  <2> QED
    BY <2>2, <2>3, <2>4
<1>2. ASSUME NEW p \in Particoes, DeleteRegistro(p) \/ FalhaDelete(p)
      PROVE  registro'[f] = registro[f] \/ registro'[f] = Nenhum
  BY <1>2 DEF DeleteRegistro, FalhaDelete, FalhaSQL, TypeOK
<1>3. ASSUME NEW p \in Particoes,
             RejeitaInvalido(p) \/ VerificaPhoto(p) \/ AddPhoto(p) \/ AddThumbnail(p)
             \/ RejeitaDelete(p) \/ IgnoraComando(p) \/ ProduzExecutado(p) \/ ProduzEvento(p)
             \/ Producer(p) \/ FalhaUpload(p) \/ SemConexao(p) \/ ConfirmaOffset(p)
      PROVE  registro' = registro
  BY <1>3 DEF RejeitaInvalido, VerificaPhoto, AddPhoto, AddThumbnail, RejeitaDelete, IgnoraComando,
     ProduzExecutado, ProduzEvento, Producer, EntregaComando, EntregaMedia, FalhaUpload,
     SemConexao, ConfirmaOffset
<1>4. NovaSessao \/ Reinicia \/ Sigterm \/ Termina \/ UNCHANGED vars \/ UNCHANGED registroVars
        => registro' = registro
  BY DEF NovaSessao, Reinicia, Sigterm, Termina, vars, registroVars
<1> QED
  BY <1>1, <1>2, <1>3, <1>4 DEF Next, RegistroNext, Handler, Ambiente

(* The row keeps the user it had, who sent the same file.                  *)
LEMMA LinhasStep ==
  ASSUME TypeOK, Proveniencia, [Next]_vars
  PROVE  LinhasProvadas'
<1> SUFFICES ASSUME NEW f \in Arquivos, registro'[f] # Nenhum
             PROVE  Provado(f, registro[f].usuario, registro[f].hash)'
  BY DEF LinhasProvadas
<1>1. \E u \in Usuarios, h \in Hashes :
        registro'[f].usuario = u /\ registro'[f].hash = h /\ Provado(f, u, h)
  <2>1. CASE registro'[f] = registro[f]
    <3>1. registro[f].usuario \in Usuarios /\ registro[f].hash \in Hashes
      BY <2>1 DEF TypeOK, Linhas
    <3> QED
      BY <2>1, <3>1 DEF Proveniencia, LinhasProvadas
  <2>2. ASSUME NEW c \in Todas(comando), EscreveLinha(f, c)
        PROVE  \E u \in Usuarios, h \in Hashes :
                 registro'[f].usuario = u /\ registro'[f].hash = h /\ Provado(f, u, h)
    <3>1. Provado(f, c.usuario, c.hash)
      BY <2>2 DEF Proveniencia, RespostasProvadas, Respostas, EscreveLinha
    <3>2. c \in Comandos
      BY RangeOfSeq DEF Todas, TypeOK, MidiaTypeOK
    <3>3. c.usuario \in Usuarios /\ c.hash \in Hashes
      BY <3>1, <3>2 DEF Comandos, Provado
    <3>4. CASE registro[f] = Nenhum
      BY <2>2, <3>1, <3>3, <3>4 DEF EscreveLinha
    <3>5. CASE registro[f] # Nenhum
      <4>1. registro[f].usuario \in Usuarios /\ Provado(f, registro[f].usuario, registro[f].hash)
        BY <3>5 DEF Proveniencia, LinhasProvadas, TypeOK, Linhas
      <4>2. Provado(f, registro[f].usuario, c.hash)
        BY <4>1, <3>1 DEF Provado
      <4> QED
        BY <2>2, <3>1, <3>3, <3>5, <4>1, <4>2 DEF EscreveLinha
    <3> QED
      BY <3>4, <3>5
  <2> QED
    BY <2>1, <2>2, LinhasNovas
<1> QED
  BY <1>1, ProvadoFica

(* Answers: only ProduzExecutado adds an executed one.                     *)
LEMMA RespostasNovas ==
  ASSUME TypeOK, [Next]_vars, NEW c \in Respostas', c \notin Respostas, c.status = "executado"
  PROVE  \E p \in Particoes : ProduzExecutado(p) /\ c = Executado(p)
<1>1. ASSUME NEW f \in Arquivos, NEW u \in Usuarios, NEW t \in Tipos,
             comando' = Publica(comando, NewComando(t, f, u)), filaComando' = filaComando
      PROVE  \A d \in Respostas' : d \in Respostas \/ d.status # "executado"
  <2> DEFINE m == NewComando(t, f, u)
  <2>1. m \in Comandos /\ m.arquivo = f /\ m.status = "pendente"
    BY DEF NewComando, Comandos, Status
  <2>2. comando \in [Particoes -> Seq(Comandos)] /\ comando' = Publica(comando, m)
    BY <1>1 DEF TypeOK, MidiaTypeOK
  <2> HIDE DEF m
  <2>3. Todas(Publica(comando, m)) = Todas(comando) \cup {m}
    BY <2>1, <2>2, PublicaLemma
  <2> QED
    BY <1>1, <2>1, <2>2, <2>3 DEF Respostas
<1>2. ASSUME NEW f \in Arquivos, NEW u \in Usuarios, UNCHANGED registroVars,
             DeleteMedia(f, u) \/ \E h \in Hashes : Upload(f, u, h)
      PROVE  \A d \in Respostas' : d \in Respostas \/ d.status # "executado"
  <2>1. filaComando' = filaComando
    BY <1>2 DEF registroVars
  <2> QED
    BY <1>1, <1>2, <2>1 DEF DeleteMedia, Upload, Tipos
<1>3. ASSUME NEW p \in Particoes,
             RejeitaInvalido(p) \/ RejeitaDelete(p) \/ SemConexao(p)
             \/ FalhaUpload(p) \/ FalhaDelete(p) \/ FalhaUpdate(p)
      PROVE  \A d \in Respostas' : d \in Respostas \/ d.status # "executado"
  <2>1. TemComando(p) /\ Rejeita(p) /\ comando' = comando
    BY <1>3 DEF RejeitaInvalido, RejeitaDelete, SemConexao, FalhaUpload, FalhaDelete, FalhaUpdate,
       Trata, Em, midiaVars
  <2> DEFINE r == [Comando(p) EXCEPT !.status = "rejeitado"]
  <2>2. r.status = "rejeitado"
    BY <2>1, ComandoTipo DEF Comandos
  <2>3. Todas(filaComando') = Todas(filaComando) \cup {r}
    BY <2>1, RejeitaTipo
  <2> QED
    BY <2>1, <2>2, <2>3 DEF Respostas
<1>4. ASSUME NEW p \in Particoes, ProduzExecutado(p)
      PROVE  \A d \in Respostas' : d \in Respostas \/ d = Executado(p)
  <2>1. TemComando(p) /\ Comando(p) \in Comandos /\ etapa[p].hash \in Hashes /\ comando' = comando
    BY <1>4, EtapaTipo, ComandoTipo DEF ProduzExecutado, Passos, midiaVars
  <2>2. Executado(p) \in Comandos /\ Executado(p).arquivo \in Arquivos
    BY <2>1 DEF Executado, Comandos, Status
  <2>3. Todas(Publica(filaComando, Executado(p))) = Todas(filaComando) \cup {Executado(p)}
    <3>1. filaComando \in [Particoes -> Seq(Comandos)]
      BY DEF TypeOK
    <3> QED
      BY <2>2, <3>1, PublicaLemma
  <2>4. Todas(filaComando') \subseteq Todas(filaComando) \cup {Executado(p)}
    BY <1>4, <2>3 DEF ProduzExecutado
  <2> QED
    BY <2>1, <2>4 DEF Respostas
<1>5. ASSUME NEW p \in Particoes, EntregaComando(p)
      PROVE  \A d \in Respostas' : d \in Respostas
  <2>1. comando \in [Particoes -> Seq(Comandos)] /\ filaComando \in [Particoes -> Seq(Comandos)]
    BY DEF TypeOK, MidiaTypeOK
  <2>2. Todas(comando') \cup Todas(filaComando') = Todas(comando) \cup Todas(filaComando)
    BY <1>5, <2>1, EntregaComandoMove
  <2>3. Respostas' = Todas(comando') \cup Todas(filaComando')
    BY DEF Respostas, Todas
  <2> QED
    BY <2>2, <2>3 DEF Respostas
<1>6. ASSUME Reinicia \/ Termina
      PROVE  \A d \in Respostas' : d \in Respostas
  <2>1. Todas(filaComando') = {} /\ comando' = comando
    BY <1>6 DEF Reinicia, Termina, MemoriaNova, Todas, Range, midiaVars
  <2> QED
    BY <2>1 DEF Respostas
<1>7. ASSUME NEW p \in Particoes,
             VerificaPhoto(p) \/ AddPhoto(p) \/ AddThumbnail(p) \/ DeleteRegistro(p)
             \/ UpdateRegistro(p) \/ IgnoraComando(p) \/ ProduzEvento(p) \/ EntregaMedia(p)
             \/ ConfirmaOffset(p)
      PROVE  Respostas' = Respostas
  BY <1>7 DEF VerificaPhoto, AddPhoto, AddThumbnail, DeleteRegistro, UpdateRegistro, IgnoraComando,
     ProduzEvento, EntregaMedia, ConfirmaOffset, midiaVars, Respostas
<1>8. NovaSessao \/ Sigterm \/ UNCHANGED vars => Respostas' = Respostas
  BY DEF NovaSessao, Sigterm, vars, midiaVars, registroVars, Respostas
<1> QED
  BY <1>2, <1>3, <1>4, <1>5, <1>6, <1>7, <1>8
     DEF Next, Pedidos, RegistroNext, Handler, Producer, Ambiente

(* It answers from its own data.                                           *)
LEMMA RespostasStep ==
  ASSUME TypeOK, Proveniencia, [Next]_vars
  PROVE  RespostasProvadas'
<1> SUFFICES ASSUME NEW c \in Respostas', c.tipo = "upload", c.status = "executado"
             PROVE  Provado(c.arquivo, c.usuario, c.hash)'
  BY DEF RespostasProvadas
<1>1. ASSUME NEW p \in Particoes, ProduzExecutado(p), c = Executado(p)
      PROVE  Provado(c.arquivo, c.usuario, c.hash)
  <2>1. TemComando(p) /\ Comando(p) \in Comandos /\ EtapaProvada(p)
    BY <1>1, ComandoTipo DEF ProduzExecutado, Em, Proveniencia, EtapasProvadas, Livre
  <2>2. /\ c.arquivo = Comando(p).arquivo /\ c.usuario = Comando(p).usuario
        /\ c.tipo = Comando(p).tipo /\ c.hash = etapa[p].hash
    BY <1>1, <2>1 DEF Executado, Comandos
  <2> QED
    BY <2>1, <2>2 DEF EtapaProvada
<1>2. Provado(c.arquivo, c.usuario, c.hash)
  BY <1>1, RespostasNovas DEF Proveniencia, RespostasProvadas
<1>3. c \in Comandos
  <2>1. comando' \in [Particoes -> Seq(Comandos)] /\ filaComando' \in [Particoes -> Seq(Comandos)]
    BY TypeStep DEF TypeOK, MidiaTypeOK
  <2>2. \A q \in Particoes : Range(comando'[q]) \subseteq Comandos /\ Range(filaComando'[q]) \subseteq Comandos
    BY <2>1, RangeOfSeq
  <2> QED
    BY <2>2 DEF Respostas, Todas
<1>4. c.arquivo \in Arquivos /\ c.usuario \in Usuarios /\ c.hash \in Hashes
  BY <1>2, <1>3 DEF Comandos, Provado
<1> QED
  BY <1>2, <1>4, ProvadoFica

(* The steps with which a handler starts, and those of one under way.      *)
Comeca(p) == VerificaPhoto(p) \/ DeleteRegistro(p)
Continua(p) == AddPhoto(p) \/ AddThumbnail(p) \/ ProduzExecutado(p)

(* The steps that leave a handler under way at its command.                *)
LEMMA EtapaAnda ==
  ASSUME TypeOK, [Next]_vars, NEW p \in Particoes, etapa'[p].passo # "livre"
  PROVE  /\ posicao'[p] = posicao[p]
         /\ etapa'[p] = etapa[p] \/ Comeca(p) \/ Continua(p)
<1> DEFINE Igual(q) == etapa'[q] = etapa[q] /\ posicao'[q] = posicao[q]
<1>1. ASSUME NEW q \in Particoes,
             RejeitaInvalido(q) \/ RejeitaDelete(q) \/ UpdateRegistro(q) \/ IgnoraComando(q)
             \/ SemConexao(q) \/ ProduzEvento(q) \/ FalhaUpload(q) \/ FalhaDelete(q) \/ FalhaUpdate(q)
      PROVE  Igual(p)
  <2>1. Conclui(q)
    BY <1>1 DEF RejeitaInvalido, RejeitaDelete, UpdateRegistro, IgnoraComando, SemConexao,
       ProduzEvento, FalhaUpload, FalhaDelete, FalhaUpdate, Rejeita
  <2>2. etapa'[q].passo = "livre" /\ \A r \in Particoes \ {q} : Igual(r)
    BY <2>1 DEF Conclui, TypeOK, Livre
  <2> QED
    BY <2>2
<1>2. ASSUME NEW q \in Particoes, EntregaComando(q) \/ EntregaMedia(q) \/ ConfirmaOffset(q)
      PROVE  Igual(p)
  BY <1>2 DEF EntregaComando, EntregaMedia, ConfirmaOffset
<1>3. Sigterm \/ UNCHANGED vars \/ UNCHANGED registroVars => Igual(p)
  BY DEF Sigterm, vars, registroVars
<1>4. ~NovaSessao /\ ~Reinicia /\ ~Termina
  BY DEF NovaSessao, Reinicia, Termina, MemoriaNova, Livre
<1>5. ASSUME NEW q \in Particoes, Comeca(q) \/ Continua(q)
      PROVE  posicao' = posicao /\ (q # p => Igual(p))
  BY <1>5 DEF Comeca, Continua, VerificaPhoto, AddPhoto, AddThumbnail, DeleteRegistro,
     ProduzExecutado, Vai, TypeOK
<1> HIDE DEF Igual
<1>6. ASSUME NEW q \in Particoes, Handler(q) \/ Producer(q) \/ Ambiente(q)
      PROVE  Igual(p) \/ (posicao' = posicao /\ (Comeca(p) \/ Continua(p)))
  BY <1>6, <1>1, <1>2, <1>5 DEF Handler, Producer, Ambiente, Comeca, Continua
<1> QED
  BY <1>3, <1>4, <1>6 DEF Next, RegistroNext, Igual

(* What such a step leaves is vouched for, still at the same command.      *)
LEMMA EtapasStep ==
  ASSUME TypeOK, Proveniencia, [Next]_vars
  PROVE  EtapasProvadas'
<1> SUFFICES ASSUME NEW q \in Particoes, etapa'[q] # Livre PROVE EtapaProvada(q)'
  BY DEF EtapasProvadas
<1> DEFINE Boa == /\ TemComando(q) /\ Comando(q).status = "pendente"
                  /\ etapa'[q].usuario = Comando(q).usuario
                  /\ Provado(Comando(q).arquivo, Comando(q).usuario, etapa'[q].hash)
<1>1. etapa'[q].passo # "livre"
  <2>1. etapa'[q] \in Etapas
    BY TypeStep DEF TypeOK
  <2> QED
    BY <2>1 DEF Etapas, Passos
<1>2. ASSUME etapa'[q] = etapa[q] PROVE Boa
  BY <1>2 DEF Proveniencia, EtapasProvadas, EtapaProvada
<1>3. ASSUME VerificaPhoto(q) PROVE Boa
  <2> DEFINE h == temp[Comando(q).arquivo]
  <2>1. /\ TemComando(q) /\ Comando(q).status = "pendente" /\ Comando(q).tipo = "upload"
        /\ h \in Hashes /\ etapa'[q].usuario = Comando(q).usuario /\ etapa'[q].hash = h
    BY <1>3, ArquivosAssumption DEF VerificaPhoto, Trata, Vai, TypeOK
  <2> QED
    BY <2>1, ComandoNoTopico DEF Provado
<1>4. ASSUME DeleteRegistro(q) PROVE Boa
  <2> DEFINE c == Comando(q)
             h == registro[c.arquivo].hash
  <2>1. /\ TemComando(q) /\ c.status = "pendente" /\ DoUsuario(c.arquivo, c.usuario)
        /\ etapa'[q].usuario = c.usuario /\ etapa'[q].hash = h
    BY <1>4 DEF DeleteRegistro, Trata, Vai, TypeOK
  <2>2. c.arquivo \in Arquivos
    BY <2>1, ComandoTipo
  <2>3. Provado(c.arquivo, c.usuario, h)
    BY <2>1, <2>2 DEF DoUsuario, Proveniencia, LinhasProvadas
  <2> QED
    BY <2>1, <2>3
<1>5. ASSUME Continua(q) PROVE Boa
  <2>1. etapa[q] # Livre /\ etapa'[q].usuario = etapa[q].usuario /\ etapa'[q].hash = etapa[q].hash
    BY <1>5 DEF Continua, AddPhoto, AddThumbnail, ProduzExecutado, Em, Livre, Vai, TypeOK
  <2>2. EtapaProvada(q)
    BY <2>1 DEF Proveniencia, EtapasProvadas
  <2> QED
    BY <2>1, <2>2 DEF EtapaProvada
<1>6. Boa
  BY <1>1, <1>2, <1>3, <1>4, <1>5, EtapaAnda DEF Comeca
<1>7. TemComando(q)' /\ Comando(q)' = Comando(q)
  BY <1>1, <1>6, EtapaAnda, ComandoFixo
<1>8. etapa'[q].hash \in Hashes /\ Comando(q).arquivo \in Arquivos /\ Comando(q).usuario \in Usuarios
  BY <1>6, ComandoTipo DEF Provado
<1>9. Provado(Comando(q).arquivo, Comando(q).usuario, etapa[q].hash)'
  <2> DEFINE a == Comando(q).arquivo
             u == Comando(q).usuario
             k == etapa'[q].hash
  <2>1. NewComando("upload", a, u) \in Todas(comando') /\ k = temp'[a] /\ k \in Hashes
    BY <1>6, <1>8, Cresce DEF Provado, Dono
  <2> QED
    BY <2>1, <1>7 DEF Provado, Dono
<1> QED
  BY <1>6, <1>7, <1>9 DEF EtapaProvada

(* Events: only ProduzEvento adds one; a delivery moves it to the topic.   *)
LEMMA EmitidosNovos ==
  ASSUME TypeOK, [Next]_vars, NEW e \in Emitidos', e \notin Emitidos
  PROVE  \E p \in Particoes : ProduzEvento(p) /\ e = EventoDe(p)
<1>1. ASSUME NEW p \in Particoes, ProduzEvento(p)
      PROVE  Emitidos' \subseteq Emitidos \cup {EventoDe(p)}
  <2>1. TemComando(p) /\ etapa[p].usuario \in Usuarios /\ etapa[p].hash \in Hashes /\ media' = media
    BY <1>1, EtapaTipo DEF ProduzEvento, Passos, Em, midiaVars
  <2>2. EventoDe(p) \in Eventos /\ EventoDe(p).arquivo \in Arquivos
    BY <2>1, ComandoTipo DEF EventoDe, NewEvent, Eventos
  <2>3. Todas(Publica(filaMedia, EventoDe(p))) = Todas(filaMedia) \cup {EventoDe(p)}
    <3>1. filaMedia \in [Particoes -> Seq(Eventos)]
      BY DEF TypeOK
    <3> QED
      BY <2>2, <3>1, PublicaLemma
  <2>4. Todas(filaMedia') \subseteq Todas(filaMedia) \cup {EventoDe(p)}
    BY <1>1, <2>3 DEF ProduzEvento
  <2> QED
    BY <2>1, <2>4 DEF Emitidos
<1>2. ASSUME NEW p \in Particoes, EntregaMedia(p)
      PROVE  Emitidos' = Emitidos
  <2>1. media \in [Particoes -> Seq(Eventos)] /\ filaMedia \in [Particoes -> Seq(Eventos)]
    BY DEF TypeOK, MidiaTypeOK
  <2>2. Todas(media') \cup Todas(filaMedia') = Todas(media) \cup Todas(filaMedia)
    BY <1>2, <2>1, EntregaMediaMove
  <2>3. Emitidos' = Todas(media') \cup Todas(filaMedia')
    BY DEF Emitidos, Todas
  <2> QED
    BY <2>2, <2>3 DEF Emitidos
<1>3. ASSUME Reinicia \/ Termina
      PROVE  Emitidos' \subseteq Emitidos
  <2>1. Todas(filaMedia') = {} /\ media' = media
    BY <1>3 DEF Reinicia, Termina, MemoriaNova, Todas, Range, midiaVars
  <2> QED
    BY <2>1 DEF Emitidos
<1>4. ASSUME NEW p \in Particoes,
             RejeitaInvalido(p) \/ VerificaPhoto(p) \/ AddPhoto(p) \/ AddThumbnail(p)
             \/ DeleteRegistro(p) \/ RejeitaDelete(p) \/ UpdateRegistro(p) \/ IgnoraComando(p)
             \/ SemConexao(p) \/ ProduzExecutado(p) \/ EntregaComando(p) \/ Ambiente(p)
      PROVE  Emitidos' = Emitidos
  BY <1>4 DEF RejeitaInvalido, VerificaPhoto, AddPhoto, AddThumbnail, DeleteRegistro, RejeitaDelete,
     UpdateRegistro, IgnoraComando, SemConexao, ProduzExecutado, EntregaComando, Ambiente, FalhaUpload,
     FalhaDelete, FalhaUpdate, ConfirmaOffset, midiaVars, Emitidos
<1>5. ASSUME NEW f \in Arquivos, NEW u \in Usuarios, UNCHANGED registroVars,
             DeleteMedia(f, u) \/ \E h \in Hashes : Upload(f, u, h)
      PROVE  Emitidos' = Emitidos
  BY <1>5 DEF DeleteMedia, Upload, registroVars, Emitidos
<1>6. NovaSessao \/ Sigterm \/ UNCHANGED vars => Emitidos' = Emitidos
  BY DEF NovaSessao, Sigterm, vars, midiaVars, registroVars, Emitidos
<1> QED
  BY <1>1, <1>2, <1>3, <1>4, <1>5, <1>6
     DEF Next, Pedidos, RegistroNext, Handler, Producer

(* An event carries the data of the handler that emits it.                 *)
LEMMA EventosStep ==
  ASSUME TypeOK, Proveniencia, [Next]_vars
  PROVE  EventosProvados'
<1> DEFINE Nova(e) == /\ Provado(e.arquivo, e.usuario, e.hash)
                      /\ e.tipo = "delete" => Pediu(e.arquivo, e.usuario)
<1>1. ASSUME NEW p \in Particoes, ProduzEvento(p)
      PROVE  Nova(EventoDe(p))
  <2>1. TemComando(p) /\ etapa[p] # Livre
    BY <1>1 DEF ProduzEvento, Em, Livre
  <2>2. /\ EventoDe(p).arquivo = Comando(p).arquivo /\ EventoDe(p).tipo = Comando(p).tipo
        /\ EventoDe(p).usuario = etapa[p].usuario /\ EventoDe(p).hash = etapa[p].hash
    BY DEF EventoDe, NewEvent
  <2>3. EtapaProvada(p)
    BY <2>1 DEF Proveniencia, EtapasProvadas
  <2>4. EventoDe(p).tipo = "delete" => Pediu(EventoDe(p).arquivo, EventoDe(p).usuario)
    BY <2>1, <2>2, <2>3, ComandoNoTopico DEF EtapaProvada
  <2> QED
    BY <2>1, <2>2, <2>3, <2>4 DEF EtapaProvada
<1> SUFFICES ASSUME NEW e \in Emitidos'
             PROVE  /\ Provado(e.arquivo, e.usuario, e.hash)'
                    /\ e.tipo = "delete" => Pediu(e.arquivo, e.usuario)'
  BY DEF EventosProvados
<1>2. Nova(e)
  BY <1>1, EmitidosNovos DEF Proveniencia, EventosProvados
<1>3. e \in Eventos
  <2>1. media' \in [Particoes -> Seq(Eventos)] /\ filaMedia' \in [Particoes -> Seq(Eventos)]
    BY TypeStep DEF TypeOK, MidiaTypeOK
  <2>2. \A q \in Particoes : Range(media'[q]) \subseteq Eventos /\ Range(filaMedia'[q]) \subseteq Eventos
    BY <2>1, RangeOfSeq
  <2> QED
    BY <2>2 DEF Emitidos, Todas
<1>4. e.arquivo \in Arquivos /\ e.usuario \in Usuarios /\ e.hash \in Hashes
  BY <1>3 DEF Eventos
<1> QED
  BY <1>2, <1>4, ProvadoFica

(* The PUT comes before the handler's messages, and the dedup check skips  *)
(* it for a content that is there.                                         *)
LEMMA NasPhotosStep ==
  ASSUME TypeOK, NasPhotos, [Next]_vars
  PROVE  NasPhotos'
<1>1. photos \subseteq photos'
  BY Cresce
<1>2. ASSUME NEW f \in Arquivos, registro'[f] # Nenhum PROVE registro'[f].hash \in photos'
  <2>1. ASSUME NEW c \in Todas(comando), EscreveLinha(f, c) PROVE registro'[f].hash \in photos
    BY <2>1 DEF EscreveLinha, NasPhotos, Respostas
  <2> QED
    BY <1>1, <1>2, <2>1, LinhasNovas DEF NasPhotos
<1>3. ASSUME NEW c \in Respostas', c.tipo = "upload", c.status = "executado" PROVE c.hash \in photos'
  <2>1. ASSUME NEW p \in Particoes, ProduzExecutado(p), c = Executado(p) PROVE c.hash \in photos
    <3>1. Comando(p) \in Comandos /\ etapa[p].hash \in photos
      BY <2>1, ComandoTipo DEF ProduzExecutado, Em, NasPhotos, EtapaGuardada
    <3>2. c.tipo = Comando(p).tipo
      BY <2>1, <3>1 DEF Executado, Comandos
    <3>3. c.hash = etapa[p].hash
      BY <1>3, <2>1, <3>1, <3>2 DEF Executado, Comandos
    <3> QED
      BY <3>1, <3>3
  <2> QED
    BY <1>1, <1>3, <2>1, RespostasNovas DEF NasPhotos
<1>4. ASSUME NEW p \in Particoes PROVE EtapaGuardada(p)'
  <2> SUFFICES ASSUME etapa'[p].passo \in {"thumbnail", "executado", "evento"}
               PROVE  etapa'[p].hash \in photos'
    BY DEF EtapaGuardada
  <2>1. CASE etapa'[p] = etapa[p]
    BY <1>1, <2>1 DEF NasPhotos, EtapaGuardada
  <2>2. CASE VerificaPhoto(p)
    BY <1>1, <2>2 DEF VerificaPhoto, Vai, TypeOK
  <2>3. CASE DeleteRegistro(p)
    <3>1. TemComando(p) /\ registro[Comando(p).arquivo] # Nenhum
          /\ etapa'[p].hash = registro[Comando(p).arquivo].hash
      BY <2>3 DEF DeleteRegistro, Trata, DoUsuario, Vai, TypeOK
    <3> QED
      BY <1>1, <3>1, ComandoTipo DEF NasPhotos
  <2>4. CASE AddPhoto(p)
    BY <2>4 DEF AddPhoto, Vai, TypeOK
  <2>5. CASE AddThumbnail(p) \/ ProduzExecutado(p)
    BY <1>1, <2>5 DEF AddThumbnail, ProduzExecutado, Em, Vai, TypeOK, NasPhotos, EtapaGuardada
  <2> QED
    BY <2>1, <2>2, <2>3, <2>4, <2>5, EtapaAnda DEF Comeca, Continua
<1>5. ASSUME NEW e \in Emitidos' PROVE e.hash \in photos'
  <2>1. ASSUME NEW p \in Particoes, ProduzEvento(p), e = EventoDe(p) PROVE e.hash \in photos
    BY <2>1 DEF ProduzEvento, Em, EventoDe, NewEvent, NasPhotos, EtapaGuardada
  <2> QED
    BY <1>1, <2>1, EmitidosNovos DEF NasPhotos
<1> QED
  BY <1>2, <1>3, <1>4, <1>5 DEF NasPhotos

(* At first there is nothing to vouch for.                                 *)
LEMMA InitProveniencia == Init => Proveniencia /\ NasPhotos
<1> SUFFICES ASSUME Init PROVE Proveniencia /\ NasPhotos
  OBVIOUS
<1>1. \A p \in Particoes : /\ comando[p] = <<>> /\ media[p] = <<>> /\ filaComando[p] = <<>>
                           /\ filaMedia[p] = <<>> /\ etapa[p] = Livre
  BY DEF Init, MidiaInit, RegistroInit
<1>2. Range(<<>>) = {}
  BY DEF Range
<1>3. Respostas = {} /\ Emitidos = {}
  BY <1>1, <1>2 DEF Respostas, Emitidos, Todas
<1>4. \A f \in Arquivos : registro[f] = Nenhum
  BY DEF Init, RegistroInit
<1> QED
  BY <1>1, <1>3, <1>4 DEF Proveniencia, LinhasProvadas, RespostasProvadas, EtapasProvadas,
     EventosProvados, NasPhotos, EtapaGuardada, Livre

(* The inductive invariant: types and provenance.                          *)
THEOREM ProvenienciaInvariante == Spec => [](TypeOK /\ Proveniencia /\ NasPhotos)
<1>1. Init => Proveniencia /\ NasPhotos
  BY InitProveniencia
<1>2. TypeOK /\ Proveniencia /\ NasPhotos /\ [Next]_vars => Proveniencia' /\ NasPhotos'
  BY LinhasStep, RespostasStep, EtapasStep, EventosStep, NasPhotosStep DEF Proveniencia
<1> QED
  BY <1>1, <1>2, TypeCorrect, TypeStep, PTL DEF Spec

(* No event names a user who did not send the file, a content that was not *)
(* sent, or a deletion its owner did not ask for: handleRegistroComando    *)
(* with deleteRegistro's lookup, for every number of files, users and      *)
(* partitions and any failures, losses, rebalances and crashes.            *)
THEOREM EventosDoDono == Spec => []EventoVemDoDono
<1>1. TypeOK /\ Proveniencia => EventoVemDoDono
  BY DEF Proveniencia, EventosProvados, Provado, EventoVemDoDono
<1> QED
  BY <1>1, ProvenienciaInvariante, PTL

(* The content of an event or of an executed upload is in photos.          *)
THEOREM EventosTemFoto == Spec => []EventoTemFoto
<1>1. NasPhotos => EventoTemFoto
  BY DEF NasPhotos, Respostas, EventoTemFoto
<1> QED
  BY <1>1, ProvenienciaInvariante, PTL

(* Faults are counted, one at a time, and never forgotten.                 *)
LEMMA GastoCresce ==
  ASSUME TypeOK, [Next]_vars
  PROVE  \/ gasto' = gasto
         \/ \E t \in {"falhas", "perdas", "quedas", "sessoes"} :
              gasto' = [gasto EXCEPT ![t] = @ + 1]
<1>1. ASSUME NEW p \in Particoes, Handler(p) \/ Producer(p) \/ Ambiente(p)
      PROVE  \/ gasto' = gasto
             \/ \E t \in {"falhas", "perdas"} : gasto' = [gasto EXCEPT ![t] = @ + 1]
  BY <1>1 DEF Handler, Producer, Ambiente, EntregaMedia, EntregaComando, RejeitaInvalido,
     VerificaPhoto, AddPhoto, AddThumbnail, DeleteRegistro, RejeitaDelete, UpdateRegistro,
     IgnoraComando, ProduzExecutado, ProduzEvento, FalhaUpload, FalhaDelete, FalhaUpdate, FalhaSQL,
     SemConexao, ConfirmaOffset, Gasta
<1>2. NovaSessao \/ Reinicia \/ Sigterm \/ Termina =>
        \/ gasto' = gasto
        \/ \E t \in {"quedas", "sessoes"} : gasto' = [gasto EXCEPT ![t] = @ + 1]
  BY DEF NovaSessao, Reinicia, Sigterm, Termina, Gasta
<1>3. UNCHANGED vars \/ UNCHANGED registroVars => gasto' = gasto
  BY DEF vars, registroVars
<1> QED
  BY <1>1, <1>2, <1>3 DEF Next, RegistroNext

-----------------------------------------------------------------------------
(* The thumbnail of a stored photo is there, or the goroutine that stored  *)
(* the photo is about to store it too.                                     *)
TemThumbnail(h) == h \in thumbnails \/
  \E p \in Particoes : etapa[p].passo = "thumbnail" /\ etapa[p].hash = h

SemQueda == gasto["falhas"] = 0 /\ gasto["quedas"] = 0

ThumbnailsACaminho == SemQueda => \A h \in photos : TemThumbnail(h)

(* With no failure and no crash after a step there was none before it.     *)
LEMMA SemQuedaAntes ==
  ASSUME TypeOK, [Next]_vars, SemQueda'
  PROVE  /\ SemQueda /\ ~Reinicia /\ ~Sigterm
         /\ \A p \in Particoes : ~FalhaUpload(p) /\ ~FalhaDelete(p) /\ ~FalhaUpdate(p)
<1>1. gasto["falhas"] \in Nat /\ gasto["quedas"] \in Nat
  BY DEF TypeOK, Gastos
<1>2. SemQueda
  BY GastoCresce, <1>1 DEF SemQueda, TypeOK, Gastos
<1>3. ~Reinicia /\ ~Sigterm
  BY <1>1 DEF SemQueda, Reinicia, Sigterm, Gasta, TypeOK, Gastos
<1>4. ASSUME NEW p \in Particoes PROVE ~FalhaUpload(p) /\ ~FalhaDelete(p) /\ ~FalhaUpdate(p)
  BY <1>1 DEF SemQueda, FalhaUpload, FalhaDelete, FalhaUpdate, FalhaSQL, Gasta, TypeOK, Gastos
<1> QED
  BY <1>2, <1>3, <1>4

(* A handler stores a photo only on its way to the thumbnail, and leaves   *)
(* that place only by storing it.                                          *)
LEMMA ThumbnailsStep ==
  ASSUME TypeOK, ThumbnailsACaminho, [Next]_vars
  PROVE  ThumbnailsACaminho'
<1> SUFFICES ASSUME SemQueda', NEW h \in photos' PROVE TemThumbnail(h)'
  BY DEF ThumbnailsACaminho
<1>1. SemQueda /\ \A g \in photos : TemThumbnail(g)
  BY SemQuedaAntes DEF ThumbnailsACaminho
<1>2. etapa \in [Particoes -> Etapas]
  BY DEF TypeOK
<1>3. CASE UNCHANGED <<photos, thumbnails, etapa>>
  BY <1>1, <1>3 DEF TemThumbnail
<1>4. ASSUME NEW p \in Particoes, etapa[p].passo # "thumbnail", UNCHANGED <<photos, thumbnails>>,
             \A q \in Particoes \ {p} : etapa'[q] = etapa[q]
      PROVE  TemThumbnail(h)'
  BY <1>1, <1>4 DEF TemThumbnail
<1>5. ASSUME NEW p \in Particoes, AddPhoto(p) PROVE TemThumbnail(h)'
  <2>1. etapa' = [etapa EXCEPT ![p] = [passo |-> "thumbnail", usuario |-> etapa[p].usuario,
                                       hash |-> etapa[p].hash]]
        /\ photos' = photos \cup {etapa[p].hash} /\ thumbnails' = thumbnails
        /\ etapa[p].passo = "photo"
    BY <1>5 DEF AddPhoto, Vai, Em
  <2>2. CASE h = etapa[p].hash
    BY <1>2, <2>1, <2>2 DEF TemThumbnail
  <2>3. CASE h \in photos
    BY <1>1, <1>2, <2>1, <2>3 DEF TemThumbnail
  <2> QED
    BY <2>1, <2>2, <2>3
<1>6. ASSUME NEW p \in Particoes, AddThumbnail(p) PROVE TemThumbnail(h)'
  <2>1. (\A q \in Particoes \ {p} : etapa'[q] = etapa[q]) /\ photos' = photos
        /\ thumbnails' = thumbnails \cup {etapa[p].hash}
    BY <1>2, <1>6 DEF AddThumbnail, Vai, Em
  <2> QED
    BY <1>1, <2>1 DEF TemThumbnail
<1>7. ASSUME NEW p \in Particoes, Handler(p) PROVE TemThumbnail(h)'
  <2>1. CASE RejeitaInvalido(p) \/ RejeitaDelete(p) \/ SemConexao(p) \/ UpdateRegistro(p) \/ IgnoraComando(p)
    BY <1>2, <1>4, <2>1 DEF RejeitaInvalido, RejeitaDelete, SemConexao, UpdateRegistro, IgnoraComando,
       Trata, Rejeita, Conclui, midiaVars
  <2>2. CASE VerificaPhoto(p) \/ DeleteRegistro(p)
    BY <1>2, <1>4, <2>2 DEF VerificaPhoto, DeleteRegistro, Trata, Vai, midiaVars
  <2>3. CASE ProduzExecutado(p) \/ ProduzEvento(p)
    BY <1>2, <1>4, <2>3 DEF ProduzExecutado, ProduzEvento, Em, Vai, Conclui, midiaVars
  <2> QED
    BY <1>5, <1>6, <1>7, <2>1, <2>2, <2>3 DEF Handler
<1>8. ASSUME NEW p \in Particoes, Producer(p) \/ ConfirmaOffset(p) PROVE TemThumbnail(h)'
  BY <1>3, <1>8 DEF Producer, EntregaComando, EntregaMedia, ConfirmaOffset, midiaVars
<1>9. CASE NovaSessao
  BY <1>3, <1>9 DEF NovaSessao, midiaVars
<1>10. CASE Termina
  <2>1. UNCHANGED <<photos, thumbnails>> /\ \A q \in Particoes : etapa[q].passo # "thumbnail"
    BY <1>10 DEF Termina, midiaVars
  <2> QED
    BY <1>1, <2>1 DEF TemThumbnail
<1>11. CASE Pedidos /\ UNCHANGED registroVars
  BY <1>3, <1>11 DEF Pedidos, Upload, DeleteMedia, registroVars
<1>12. CASE UNCHANGED vars
  BY <1>3, <1>12 DEF vars, midiaVars, registroVars
<1> QED
  BY <1>7, <1>8, <1>9, <1>10, <1>11, <1>12, SemQuedaAntes DEF Next, RegistroNext, Ambiente

(* While no call fails and the process lives, no event is out whose        *)
(* content has no thumbnail, but for one a goroutine is about to store:    *)
(* registroUpload asks PhotoExiste about the photo alone, and a duplicate  *)
(* overtakes the thumbnail of the first by that step at most.              *)
THEOREM EventosTemThumbnail == Spec => []ThumbnailACaminho
<1>1. Init => ThumbnailsACaminho
  BY DEF Init, MidiaInit, ThumbnailsACaminho
<1>2. TypeOK /\ ThumbnailsACaminho /\ [Next]_vars => ThumbnailsACaminho'
  BY ThumbnailsStep
<1>3. EventoTemFoto /\ ThumbnailsACaminho => ThumbnailACaminho
  BY DEF EventoTemFoto, ThumbnailsACaminho, SemQueda, TemThumbnail, ThumbnailACaminho
<1> QED
  BY <1>1, <1>2, <1>3, TypeCorrect, EventosTemFoto, PTL DEF Spec

-----------------------------------------------------------------------------
(* How many messages of a log are of a kind.                               *)
Quantas(log, S) == Cardinality({i \in DOMAIN log : log[i] \in S})

De(f, u, t) == {c \in Comandos : c.arquivo = f /\ c.usuario = u /\ c.tipo = t}
RespostasDe(f, u, t) == {c \in De(f, u, t) : c.status # "pendente"}
PedidosDe(f, u, t) == {c \in De(f, u, t) : c.status = "pendente"}

(* Offsets whose command has been answered, if it ever is: those of the    *)
(* processed map, and that of a handler between its two Produces.          *)
Feitos(p) == processado[p] \cup (IF etapa[p].passo = "evento" THEN {posicao[p] + 1} ELSE {})

(* Commands are in the partition of their file, and a handler is under way *)
(* on a request of the log that the processed map does not hold.           *)
Lugar(p) ==
  /\ processado[p] \subseteq DOMAIN comando[p]
  /\ \A i \in DOMAIN comando[p] : ParticaoDe[comando[p][i].arquivo] = p
  /\ \A i \in DOMAIN filaComando[p] : ParticaoDe[filaComando[p][i].arquivo] = p
  /\ etapa[p].passo # "livre" =>
       TemComando(p) /\ posicao[p] + 1 \notin processado[p] /\ Comando(p).status = "pendente"

(* Never more answers than requests answered.                              *)
Atendidos(p, S) == {i \in Feitos(p) : comando[p][i] \in S}
ContaDe(p, f, u, t) ==
  Quantas(comando[p], RespostasDe(f, u, t)) + Quantas(filaComando[p], RespostasDe(f, u, t))
    <= Cardinality(Atendidos(p, PedidosDe(f, u, t)))
Conta(p) == \A f \in Arquivos, u \in Usuarios, t \in Tipos : ContaDe(p, f, u, t)

Contas == SemQueda => processo = "roda" /\ \A p \in Particoes : Lugar(p) /\ Conta(p)

(* One message more at the end of a log.                                   *)
LEMMA Anexa ==
  ASSUME NEW S, NEW s \in Seq(S), NEW x \in S
  PROVE  /\ Append(s, x) \in Seq(S)
         /\ Len(s) + 1 \in Nat /\ Len(s) + 1 \notin DOMAIN s
         /\ DOMAIN Append(s, x) = DOMAIN s \cup {Len(s) + 1}
         /\ Append(s, x)[Len(s) + 1] = x
         /\ \A i \in DOMAIN s : Append(s, x)[i] = s[i]
<1>1. Len(s) \in Nat /\ DOMAIN s = 1..Len(s)
  BY LenProperties
<1>2. Append(s, x) \in Seq(S) /\ Len(Append(s, x)) = Len(s) + 1
  BY AppendProperties
<1>3. DOMAIN Append(s, x) = 1..(Len(s) + 1)
  BY <1>2, LenProperties
<1> QED
  BY <1>1, <1>2, <1>3, AppendProperties

(* A count is a natural number.                                            *)
LEMMA QuantasTipo ==
  ASSUME NEW M, NEW s \in Seq(M), NEW S
  PROVE  IsFiniteSet({i \in DOMAIN s : s[i] \in S}) /\ Quantas(s, S) \in Nat
<1> DEFINE A == {i \in DOMAIN s : s[i] \in S}
<1>1. Len(s) \in Nat /\ DOMAIN s = 1..Len(s)
  BY LenProperties
<1>2. IsFiniteSet(DOMAIN s)
  BY <1>1, FS_Interval
<1>3. A \in SUBSET (DOMAIN s)
  OBVIOUS
<1> QED
  BY <1>2, <1>3, FS_Subset, FS_CardinalityType DEF Quantas

(* Counting in a log that grows at its end.                                *)
LEMMA QuantasAnexa ==
  ASSUME NEW M, NEW s \in Seq(M), NEW x \in M, NEW S
  PROVE  Quantas(Append(s, x), S) = Quantas(s, S) + (IF x \in S THEN 1 ELSE 0)
<1> DEFINE A == {i \in DOMAIN s : s[i] \in S}
           B == {i \in DOMAIN Append(s, x) : Append(s, x)[i] \in S}
<1>1. IsFiniteSet(A) /\ Cardinality(A) \in Nat
  BY QuantasTipo DEF Quantas
<1>2. /\ Len(s) + 1 \notin DOMAIN s /\ DOMAIN Append(s, x) = DOMAIN s \cup {Len(s) + 1}
      /\ Append(s, x)[Len(s) + 1] = x /\ \A i \in DOMAIN s : Append(s, x)[i] = s[i]
  BY Anexa
<1>3. CASE x \in S
  <2>1. B = A \cup {Len(s) + 1} /\ Len(s) + 1 \notin A
    BY <1>2, <1>3
  <2> HIDE DEF A, B
  <2>2. Cardinality(B) = Cardinality(A) + 1
    BY <1>1, <2>1, FS_AddElement
  <2> QED
    BY <1>3, <2>2 DEF Quantas, A, B
<1>4. CASE x \notin S
  <2>1. B = A
    BY <1>2, <1>4
  <2> HIDE DEF A, B
  <2>2. Cardinality(B) = Cardinality(A) + 0
    BY <1>1, <2>1
  <2> QED
    BY <1>4, <2>2 DEF Quantas, A, B
<1> QED
  BY <1>3, <1>4

(* Counting in a queue whose oldest message is taken.                      *)
LEMMA QuantasTail ==
  ASSUME NEW M, NEW s \in Seq(M), s # <<>>, NEW S
  PROVE  Quantas(s, S) = Quantas(Tail(s), S) + (IF Head(s) \in S THEN 1 ELSE 0)
<1> DEFINE A == {i \in DOMAIN Tail(s) : Tail(s)[i] \in S}
           B == {i \in DOMAIN s : s[i] \in S}
           f == [i \in A |-> i + 1]
<1>1. /\ Len(s) \in Nat /\ DOMAIN s = 1..Len(s) /\ Len(s) > 0
      /\ DOMAIN Tail(s) = 1..(Len(s) - 1) /\ Head(s) = s[1]
      /\ \A i \in DOMAIN Tail(s) : Tail(s)[i] = s[i + 1]
  <2>1. Len(s) \in Nat /\ DOMAIN s = 1..Len(s) /\ Len(s) > 0
    BY LenProperties, EmptySeq
  <2>2. /\ Tail(s) \in Seq(M) /\ Len(Tail(s)) = Len(s) - 1
        /\ \A i \in 1..Len(Tail(s)) : Tail(s)[i] = s[i + 1]
    BY HeadTailProperties
  <2>3. DOMAIN Tail(s) = 1..(Len(s) - 1)
    BY <2>2, LenProperties
  <2> QED
    BY <2>1, <2>2, <2>3
<1>2. IsFiniteSet(A)
  <2>1. IsFiniteSet(DOMAIN Tail(s))
    BY <1>1, FS_Interval
  <2>2. A \in SUBSET (DOMAIN Tail(s))
    OBVIOUS
  <2> QED
    BY <2>1, <2>2, FS_Subset
<1>3. f \in Bijection(A, B \ {1})
  <2>1. ASSUME NEW i \in A PROVE f[i] = i + 1 /\ i \in 1..(Len(s) - 1) /\ f[i] \in B \ {1}
    BY <1>1
  <2>2. f \in [A -> B \ {1}]
    BY <2>1
  <2>3. ASSUME NEW i \in A, NEW j \in A, f[i] = f[j] PROVE i = j
    BY <2>1, <2>3
  <2>4. ASSUME NEW k \in B \ {1} PROVE \E i \in A : f[i] = k
    <3>1. k \in 1..Len(s) /\ k # 1 /\ s[k] \in S
      BY <1>1
    <3>2. k - 1 \in DOMAIN Tail(s) /\ (k - 1) + 1 = k
      BY <1>1, <3>1
    <3>3. k - 1 \in A
      BY <1>1, <3>1, <3>2
    <3> QED
      BY <3>2, <3>3
  <2> HIDE DEF A, B, f
  <2> QED
    BY <2>2, <2>3, <2>4 DEF Bijection, Injection, IsInjective, Surjection
<1>4. IsFiniteSet(B \ {1}) /\ Cardinality(B \ {1}) = Cardinality(A) /\ Cardinality(A) \in Nat
  <2> HIDE DEF A, B, f
  <2> QED
    BY <1>2, <1>3, FS_Bijection, FS_CardinalityType DEF ExistsBijection
<1>5. CASE Head(s) \in S
  <2>1. B = (B \ {1}) \cup {1}
    BY <1>1, <1>5
  <2>2. Cardinality(B) = Cardinality(A) + 1
    <3> HIDE DEF A, B
    <3> QED
      BY <1>4, <2>1, FS_AddElement
  <2> QED
    BY <1>4, <1>5, <2>2 DEF Quantas
<1>6. CASE Head(s) \notin S
  <2>1. B = B \ {1}
    BY <1>1, <1>6
  <2> HIDE DEF A, B
  <2>2. Cardinality(B) = Cardinality(B \ {1})
    BY <2>1, Zenon
  <2>3. Cardinality(B) = Cardinality(A) + 0
    BY <1>4, <2>2
  <2> QED
    BY <1>6, <2>3 DEF Quantas, A, B
<1> QED
  BY <1>5, <1>6

(* The requests answered are finitely many, and only more as more offsets  *)
(* are in Feitos.                                                          *)
LEMMA AtendidosCresce ==
  ASSUME TypeOK, NEW p \in Particoes, NEW S, NEW F, Feitos(p) \subseteq F,
         F \subseteq DOMAIN comando[p]
  PROVE  LET A == {i \in F : comando[p][i] \in S}
         IN  /\ IsFiniteSet(A) /\ Cardinality(A) \in Nat
             /\ Cardinality(Atendidos(p, S)) \in Nat
             /\ Cardinality(Atendidos(p, S)) <= Cardinality(A)
<1> DEFINE A == {i \in F : comando[p][i] \in S}
<1>1. comando[p] \in Seq(Comandos)
  BY DEF TypeOK, MidiaTypeOK
<1>2. IsFiniteSet(DOMAIN comando[p])
  <2>1. Len(comando[p]) \in Nat /\ DOMAIN comando[p] = 1..Len(comando[p])
    BY <1>1, LenProperties
  <2> QED
    BY <2>1, FS_Interval
<1>3. A \in SUBSET (DOMAIN comando[p]) /\ Atendidos(p, S) \in SUBSET A
  BY DEF Atendidos
<1> HIDE DEF A
<1>4. IsFiniteSet(A) /\ Cardinality(A) \in Nat
  BY <1>2, <1>3, FS_Subset, FS_CardinalityType
<1>5. Cardinality(Atendidos(p, S)) <= Cardinality(A) /\ Cardinality(Atendidos(p, S)) \in Nat
  BY <1>3, <1>4, FS_Subset, FS_CardinalityType
<1> QED
  BY <1>4, <1>5 DEF A

(* No new answer: the count stands.                                        *)
LEMMA ContaSemResposta ==
  ASSUME TypeOK, NEW p \in Particoes, Conta(p), comando'[p] = comando[p],
         filaComando'[p] = filaComando[p],
         Feitos(p) \subseteq Feitos(p)', Feitos(p)' \subseteq DOMAIN comando[p]
  PROVE  Conta(p)'
<1> SUFFICES ASSUME NEW f \in Arquivos, NEW u \in Usuarios, NEW t \in Tipos
             PROVE  ContaDe(p, f, u, t)'
  BY DEF Conta
<1> DEFINE S == PedidosDe(f, u, t)
           R == RespostasDe(f, u, t)
           A == {i \in Feitos(p)' : comando[p][i] \in S}
<1>1. Cardinality(A) \in Nat /\ Cardinality(Atendidos(p, S)) \in Nat
      /\ Cardinality(Atendidos(p, S)) <= Cardinality(A)
  <2> HIDE DEF S
  <2> QED
    BY AtendidosCresce
<1>2. Quantas(comando[p], R) \in Nat /\ Quantas(filaComando[p], R) \in Nat
  BY QuantasTipo DEF TypeOK, MidiaTypeOK
<1>3. Quantas(comando[p], R) + Quantas(filaComando[p], R) <= Cardinality(Atendidos(p, S))
  BY DEF Conta, ContaDe
<1>4. Atendidos(p, S)' = A /\ S' = S /\ R' = R
  BY DEF Atendidos, PedidosDe, RespostasDe, De
<1>5. Quantas(comando[p], R)' = Quantas(comando[p], R)
      /\ Quantas(filaComando[p], R)' = Quantas(filaComando[p], R)
  BY DEF Quantas, RespostasDe, De
<1> HIDE DEF S, R, A
<1>6. Quantas(comando[p], R) + Quantas(filaComando[p], R) <= Cardinality(A)
  BY <1>1, <1>2, <1>3
<1> QED
  BY <1>4, <1>5, <1>6 DEF ContaDe, S, R

(* The handler answers the request at hand: one answer, one request more.  *)
LEMMA ContaComResposta ==
  ASSUME TypeOK, NEW p \in Particoes, Conta(p), comando'[p] = comando[p],
         NEW m \in Comandos, filaComando'[p] = Append(filaComando[p], m),
         NEW i \in DOMAIN comando[p], i \notin Feitos(p), Feitos(p)' = Feitos(p) \cup {i},
         Feitos(p) \subseteq DOMAIN comando[p],
         comando[p][i] \in Comandos, comando[p][i].status = "pendente", m.status # "pendente",
         m.arquivo = comando[p][i].arquivo, m.usuario = comando[p][i].usuario,
         m.tipo = comando[p][i].tipo
  PROVE  Conta(p)'
<1> SUFFICES ASSUME NEW f \in Arquivos, NEW u \in Usuarios, NEW t \in Tipos
             PROVE  ContaDe(p, f, u, t)'
  BY DEF Conta
<1> DEFINE S == PedidosDe(f, u, t)
           R == RespostasDe(f, u, t)
           A == {j \in Feitos(p) \cup {i} : comando[p][j] \in S}
           um == IF m \in R THEN 1 ELSE 0
<1>1. comando[p] \in Seq(Comandos) /\ filaComando[p] \in Seq(Comandos)
  BY DEF TypeOK, MidiaTypeOK
<1>2. Quantas(comando[p], R) \in Nat /\ Quantas(filaComando[p], R) \in Nat
  BY <1>1, QuantasTipo
<1>3. Quantas(comando[p], R) + Quantas(filaComando[p], R) <= Cardinality(Atendidos(p, S))
  BY DEF Conta, ContaDe
<1>4. IsFiniteSet(Atendidos(p, S)) /\ Cardinality(Atendidos(p, S)) \in Nat
  <2> HIDE DEF S
  <2>1. LET B == {j \in Feitos(p) : comando[p][j] \in S} IN IsFiniteSet(B) /\ Cardinality(B) \in Nat
    BY AtendidosCresce
  <2> QED
    BY <2>1 DEF Atendidos
<1>5. m \in R <=> comando[p][i] \in S
  BY DEF RespostasDe, PedidosDe, De
<1>6. A = Atendidos(p, S) \cup (IF m \in R THEN {i} ELSE {}) /\ i \notin Atendidos(p, S)
  <2> HIDE DEF S, R
  <2> QED
    BY <1>5 DEF Atendidos
<1>7. Cardinality(A) = Cardinality(Atendidos(p, S)) + um
  <2> HIDE DEF S, R, A
  <2>1. CASE m \in R
    BY <1>4, <1>6, <2>1, FS_AddElement
  <2>2. CASE m \notin R
    BY <1>4, <1>6, <2>2
  <2> QED
    BY <2>1, <2>2
<1>8. Quantas(Append(filaComando[p], m), R) = Quantas(filaComando[p], R) + um
  BY <1>1, QuantasAnexa
<1>9. /\ Cardinality(Atendidos(p, S))' = Cardinality(A)
      /\ Quantas(comando[p], R)' = Quantas(comando[p], R)
      /\ Quantas(filaComando[p], R)' = Quantas(Append(filaComando[p], m), R)
  BY DEF Atendidos, PedidosDe, RespostasDe, De, Quantas
<1>10. Quantas(comando[p], R) + Quantas(Append(filaComando[p], m), R) <= Cardinality(A)
  <2> HIDE DEF S, R, A
  <2> QED
    BY <1>2, <1>3, <1>4, <1>7, <1>8
<1> HIDE DEF S, R, A
<1> QED
  BY <1>9, <1>10 DEF ContaDe, S, R

(* A new request answers nothing.                                          *)
LEMMA ContaPedido ==
  ASSUME TypeOK, NEW p \in Particoes, Conta(p), NEW m \in Comandos, m.status = "pendente",
         comando'[p] = Append(comando[p], m), filaComando'[p] = filaComando[p],
         Feitos(p)' = Feitos(p), Feitos(p) \subseteq DOMAIN comando[p]
  PROVE  Conta(p)'
<1> SUFFICES ASSUME NEW f \in Arquivos, NEW u \in Usuarios, NEW t \in Tipos
             PROVE  ContaDe(p, f, u, t)'
  BY DEF Conta
<1> DEFINE S == PedidosDe(f, u, t)
           R == RespostasDe(f, u, t)
<1>1. comando[p] \in Seq(Comandos) /\ filaComando[p] \in Seq(Comandos)
  BY DEF TypeOK, MidiaTypeOK
<1>2. Quantas(comando[p], R) \in Nat /\ Quantas(filaComando[p], R) \in Nat
  BY <1>1, QuantasTipo
<1>3. Quantas(comando[p], R) + Quantas(filaComando[p], R) <= Cardinality(Atendidos(p, S))
  BY DEF Conta, ContaDe
<1>4. Quantas(Append(comando[p], m), R) = Quantas(comando[p], R)
  <2>1. m \notin R
    BY DEF RespostasDe, De
  <2> HIDE DEF R
  <2> QED
    BY <1>1, <1>2, <2>1, QuantasAnexa
<1>5. \A i \in Feitos(p) : comando'[p][i] = comando[p][i]
  BY <1>1, Anexa
<1>6. /\ Atendidos(p, S)' = Atendidos(p, S)
      /\ Quantas(comando[p], R)' = Quantas(Append(comando[p], m), R)
      /\ Quantas(filaComando[p], R)' = Quantas(filaComando[p], R)
  BY <1>5 DEF Atendidos, PedidosDe, RespostasDe, De, Quantas
<1> HIDE DEF S, R
<1> QED
  BY <1>3, <1>4, <1>6 DEF ContaDe, S, R

(* A delivery moves an answer and makes none.                              *)
LEMMA ContaEntrega ==
  ASSUME TypeOK, NEW p \in Particoes, Conta(p), filaComando[p] # <<>>,
         comando'[p] = Append(comando[p], Head(filaComando[p])),
         filaComando'[p] = Tail(filaComando[p]),
         Feitos(p)' = Feitos(p), Feitos(p) \subseteq DOMAIN comando[p]
  PROVE  Conta(p)'
<1> SUFFICES ASSUME NEW f \in Arquivos, NEW u \in Usuarios, NEW t \in Tipos
             PROVE  ContaDe(p, f, u, t)'
  BY DEF Conta
<1> DEFINE S == PedidosDe(f, u, t)
           R == RespostasDe(f, u, t)
           m == Head(filaComando[p])
           um == IF m \in R THEN 1 ELSE 0
<1>1. comando[p] \in Seq(Comandos) /\ filaComando[p] \in Seq(Comandos)
  BY DEF TypeOK, MidiaTypeOK
<1>2. Quantas(comando[p], R) \in Nat /\ Quantas(filaComando[p], R) \in Nat
  BY <1>1, QuantasTipo
<1>3. Quantas(comando[p], R) + Quantas(filaComando[p], R) <= Cardinality(Atendidos(p, S))
  BY DEF Conta, ContaDe
<1>4. m \in Comandos /\ Tail(filaComando[p]) \in Seq(Comandos)
  BY <1>1, HeadTailProperties
<1>5. Quantas(Append(comando[p], m), R) = Quantas(comando[p], R) + um
  BY <1>1, <1>4, QuantasAnexa
<1>6. Quantas(filaComando[p], R) = Quantas(Tail(filaComando[p]), R) + um
      /\ Quantas(Tail(filaComando[p]), R) \in Nat
  BY <1>1, <1>4, QuantasTail, QuantasTipo
<1>7. \A i \in Feitos(p) : comando'[p][i] = comando[p][i]
  BY <1>1, <1>4, Anexa
<1>8. /\ Atendidos(p, S)' = Atendidos(p, S)
      /\ Quantas(comando[p], R)' = Quantas(Append(comando[p], m), R)
      /\ Quantas(filaComando[p], R)' = Quantas(Tail(filaComando[p]), R)
  BY <1>7 DEF Atendidos, PedidosDe, RespostasDe, De, Quantas
<1> HIDE DEF S, R, m
<1>9. Quantas(Append(comando[p], m), R) + Quantas(Tail(filaComando[p]), R)
        = Quantas(comando[p], R) + Quantas(filaComando[p], R)
  BY <1>2, <1>5, <1>6
<1> QED
  BY <1>3, <1>8, <1>9 DEF ContaDe, S, R

(* What a step leaves of a partition that it does not work on.             *)
Intocada(p) ==
  /\ processado'[p] = processado[p] /\ etapa'[p] = etapa[p] /\ posicao'[p] = posicao[p]
  /\ filaComando'[p] = filaComando[p]

(* What counts as answered is within the log.                              *)
LEMMA FeitosNoTopico ==
  ASSUME TypeOK, NEW p \in Particoes, Lugar(p)
  PROVE  /\ Feitos(p) \subseteq DOMAIN comando[p]
         /\ TemComando(p) => /\ posicao[p] + 1 \in DOMAIN comando[p] /\ Comando(p) \in Comandos
                             /\ Comando(p).arquivo \in Arquivos
                             /\ ParticaoDe[Comando(p).arquivo] = p
<1>1. comando[p] \in Seq(Comandos) /\ DOMAIN comando[p] = 1..Len(comando[p])
  BY LenProperties DEF TypeOK, MidiaTypeOK
<1>2. TemComando(p) => posicao[p] + 1 \in DOMAIN comando[p] /\ Comando(p) \in Comandos
                       /\ Comando(p).arquivo \in Arquivos
  BY <1>1, ComandoTipo
<1>3. TemComando(p) => ParticaoDe[Comando(p).arquivo] = p
  BY <1>2 DEF Lugar, Comando
<1>4. etapa[p].passo = "evento" => TemComando(p)
  BY DEF Lugar
<1> QED
  BY <1>2, <1>3, <1>4 DEF Lugar, Feitos

(* A message of the partition's file goes to its queue, and to no other.   *)
LEMMA PublicaAqui ==
  ASSUME TypeOK, NEW q \in Particoes, NEW m \in Comandos, ParticaoDe[m.arquivo] = q,
         filaComando' = Publica(filaComando, m)
  PROVE  /\ filaComando'[q] = Append(filaComando[q], m)
         /\ \A p \in Particoes \ {q} : filaComando'[p] = filaComando[p]
         /\ Lugar(q) => \A i \in DOMAIN filaComando'[q] : ParticaoDe[filaComando'[q][i].arquivo] = q
<1>1. filaComando \in [Particoes -> Seq(Comandos)]
  BY DEF TypeOK
<1>2. filaComando' = [filaComando EXCEPT ![q] = Append(@, m)]
  BY DEF Publica
<1>3. filaComando'[q] = Append(filaComando[q], m)
  BY <1>1, <1>2
<1>4. \A p \in Particoes \ {q} : filaComando'[p] = filaComando[p]
  BY <1>1, <1>2
<1>5. filaComando[q] \in Seq(Comandos)
  BY <1>1
<1>6. /\ DOMAIN filaComando'[q] = DOMAIN filaComando[q] \cup {Len(filaComando[q]) + 1}
      /\ filaComando'[q][Len(filaComando[q]) + 1] = m
      /\ \A i \in DOMAIN filaComando[q] : filaComando'[q][i] = filaComando[q][i]
  BY <1>3, <1>5, Anexa
<1>7. Lugar(q) => \A i \in DOMAIN filaComando'[q] : ParticaoDe[filaComando'[q][i].arquivo] = q
  BY <1>6 DEF Lugar
<1> QED
  BY <1>3, <1>4, <1>7

(* The handler moves on, before its answer.                                *)
LEMMA VaiConta ==
  ASSUME TypeOK, NEW q \in Particoes, Lugar(q), Conta(q), TemComando(q),
         posicao[q] + 1 \notin processado[q], Comando(q).status = "pendente",
         etapa[q].passo # "evento", NEW s, s # "evento", NEW u, NEW h, Vai(q, s, u, h),
         UNCHANGED <<comando, posicao, processado, filaComando>>
  PROVE  Lugar(q)' /\ Conta(q)' /\ \A p \in Particoes \ {q} : Intocada(p)
<1>1. etapa'[q].passo = s /\ \A p \in Particoes \ {q} : etapa'[p] = etapa[p]
  BY DEF Vai, TypeOK
<1>2. Feitos(q)' = Feitos(q)
  BY <1>1 DEF Feitos
<1>3. Lugar(q)'
  BY DEF Lugar, TemComando, Comando
<1>4. Conta(q)'
  BY <1>2, FeitosNoTopico, ContaSemResposta
<1> QED
  BY <1>1, <1>3, <1>4 DEF Intocada

(* The message is marked and remembered.                                   *)
LEMMA ConcluiConta ==
  ASSUME TypeOK, NEW q \in Particoes, Lugar(q), TemComando(q), Conclui(q), comando' = comando
  PROVE  /\ Feitos(q)' = processado[q] \cup {posicao[q] + 1}
         /\ Feitos(q) \subseteq Feitos(q)' /\ Feitos(q)' \subseteq DOMAIN comando[q]
         /\ (\A i \in DOMAIN filaComando'[q] : ParticaoDe[filaComando'[q][i].arquivo] = q) => Lugar(q)'
         /\ \A p \in Particoes \ {q} : processado'[p] = processado[p] /\ etapa'[p] = etapa[p]
                                       /\ posicao'[p] = posicao[p]
<1>1. /\ processado'[q] = processado[q] \cup {posicao[q] + 1} /\ etapa'[q] = Livre
      /\ \A p \in Particoes \ {q} : processado'[p] = processado[p] /\ etapa'[p] = etapa[p]
                                    /\ posicao'[p] = posicao[p]
  BY DEF Conclui, TypeOK
<1>2. posicao[q] + 1 \in DOMAIN comando[q] /\ processado[q] \subseteq DOMAIN comando[q]
  BY FeitosNoTopico DEF Lugar
<1>3. etapa'[q].passo = "livre"
  BY <1>1 DEF Livre
<1>4. Feitos(q)' = processado[q] \cup {posicao[q] + 1}
  BY <1>1, <1>3 DEF Feitos
<1>5. Feitos(q) \subseteq Feitos(q)'
  BY <1>4 DEF Feitos
<1>6. (\A i \in DOMAIN filaComando'[q] : ParticaoDe[filaComando'[q][i].arquivo] = q) => Lugar(q)'
  BY <1>1, <1>2, <1>3 DEF Lugar
<1> QED
  BY <1>1, <1>2, <1>4, <1>5, <1>6

(* The handler ends with nothing to answer.                                *)
LEMMA ConcluiCalado ==
  ASSUME TypeOK, NEW q \in Particoes, Lugar(q), Conta(q), TemComando(q), Conclui(q),
         UNCHANGED <<comando, filaComando>>
  PROVE  Lugar(q)' /\ Conta(q)' /\ \A p \in Particoes \ {q} : Intocada(p)
<1>1. Lugar(q)'
  BY ConcluiConta DEF Lugar
<1>2. Conta(q)'
  BY ConcluiConta, ContaSemResposta
<1> QED
  BY <1>1, <1>2, ConcluiConta DEF Intocada

(* The handler rejects the request at hand.                                *)
LEMMA RejeitaConta ==
  ASSUME TypeOK, NEW q \in Particoes, Lugar(q), Conta(q), TemComando(q), Rejeita(q),
         posicao[q] + 1 \notin processado[q], Comando(q).status = "pendente",
         etapa[q].passo # "evento", comando' = comando
  PROVE  Lugar(q)' /\ Conta(q)' /\ \A p \in Particoes \ {q} : Intocada(p)
<1> DEFINE m == [Comando(q) EXCEPT !.status = "rejeitado"]
<1>1. /\ m \in Comandos /\ ParticaoDe[m.arquivo] = q /\ m.status = "rejeitado"
      /\ m.arquivo = Comando(q).arquivo /\ m.usuario = Comando(q).usuario /\ m.tipo = Comando(q).tipo
  BY FeitosNoTopico DEF Comandos, Status
<1>2. filaComando' = Publica(filaComando, m) /\ Conclui(q)
  BY DEF Rejeita
<1> HIDE DEF m
<1>3. /\ filaComando'[q] = Append(filaComando[q], m)
      /\ \A p \in Particoes \ {q} : filaComando'[p] = filaComando[p]
      /\ \A i \in DOMAIN filaComando'[q] : ParticaoDe[filaComando'[q][i].arquivo] = q
  BY <1>1, <1>2, PublicaAqui
<1>4. Feitos(q)' = Feitos(q) \cup {posicao[q] + 1} /\ posicao[q] + 1 \notin Feitos(q)
  <2>1. Feitos(q) = processado[q]
    BY DEF Feitos
  <2> QED
    BY <1>2, <2>1, ConcluiConta
<1>5. Conta(q)'
  BY <1>1, <1>3, <1>4, FeitosNoTopico, ContaComResposta DEF Comando
<1> QED
  BY <1>2, <1>3, <1>5, ConcluiConta DEF Intocada

(* A step of a handler, with no failure: at most one answer, to a request  *)
(* that had none.                                                          *)
LEMMA HandlerConta ==
  ASSUME TypeOK, NEW q \in Particoes, Lugar(q), Conta(q), processo = "roda", Handler(q)
  PROVE  /\ Lugar(q)' /\ Conta(q)' /\ comando' = comando /\ processo' = processo
         /\ \A p \in Particoes \ {q} : Intocada(p)
<1>1. CASE RejeitaInvalido(q) \/ RejeitaDelete(q)
  BY <1>1, RejeitaConta DEF RejeitaInvalido, RejeitaDelete, Trata, midiaVars
<1>2. CASE VerificaPhoto(q)
  <2> DEFINE s == IF temp[Comando(q).arquivo] \in photos THEN "executado" ELSE "photo"
  <2>1. s # "evento"
    OBVIOUS
  <2>2. Vai(q, s, Comando(q).usuario, temp[Comando(q).arquivo])
    BY <1>2 DEF VerificaPhoto
  <2> HIDE DEF s
  <2> QED
    BY <1>2, <2>1, <2>2, VaiConta DEF VerificaPhoto, Trata, midiaVars
<1>3. CASE AddPhoto(q)
  <2>1. Vai(q, "thumbnail", etapa[q].usuario, etapa[q].hash) /\ Em(q, "photo")
        /\ UNCHANGED <<comando, posicao, processado, filaComando, processo>>
    BY <1>3 DEF AddPhoto
  <2>2. /\ TemComando(q) /\ posicao[q] + 1 \notin processado[q] /\ Comando(q).status = "pendente"
        /\ etapa[q].passo # "evento"
    BY <2>1 DEF Em, Lugar
  <2> QED
    BY <2>1, <2>2, VaiConta
<1>4. CASE AddThumbnail(q)
  <2>1. Vai(q, "executado", etapa[q].usuario, etapa[q].hash) /\ Em(q, "thumbnail")
        /\ UNCHANGED <<comando, posicao, processado, filaComando, processo>>
    BY <1>4 DEF AddThumbnail
  <2>2. /\ TemComando(q) /\ posicao[q] + 1 \notin processado[q] /\ Comando(q).status = "pendente"
        /\ etapa[q].passo # "evento"
    BY <2>1 DEF Em, Lugar
  <2> QED
    BY <2>1, <2>2, VaiConta
<1>5. CASE DeleteRegistro(q)
  <2>1. Vai(q, "executado", Comando(q).usuario, registro[Comando(q).arquivo].hash)
        /\ Trata(q, "pendente", "delete")
        /\ UNCHANGED <<comando, posicao, processado, filaComando, processo>>
    BY <1>5 DEF DeleteRegistro, midiaVars
  <2> QED
    BY <2>1, VaiConta DEF Trata
<1>6. CASE UpdateRegistro(q) \/ IgnoraComando(q)
  BY <1>6, ConcluiCalado DEF UpdateRegistro, IgnoraComando, Trata, midiaVars
<1>7. CASE SemConexao(q)
  BY <1>7 DEF SemConexao
<1>8. CASE ProduzExecutado(q)
  <2>1. /\ Em(q, "executado") /\ Vai(q, "evento", etapa[q].usuario, etapa[q].hash)
        /\ filaComando' = Publica(filaComando, Executado(q)) \/ filaComando' = filaComando
        /\ UNCHANGED <<comando, posicao, processado, processo>>
    BY <1>8 DEF ProduzExecutado, midiaVars
  <2>2. /\ TemComando(q) /\ posicao[q] + 1 \notin processado[q] /\ Comando(q).status = "pendente"
        /\ etapa[q].passo = "executado"
    BY <2>1 DEF Em, Lugar
  <2>3. /\ Executado(q) \in Comandos /\ ParticaoDe[Executado(q).arquivo] = q
        /\ Executado(q).status = "executado" /\ Executado(q).arquivo = Comando(q).arquivo
        /\ Executado(q).usuario = Comando(q).usuario /\ Executado(q).tipo = Comando(q).tipo
    <3>1. etapa[q].hash \in Hashes
      BY <2>1, EtapaTipo DEF Passos
    <3>2. Comando(q) \in Comandos /\ ParticaoDe[Comando(q).arquivo] = q
      BY <2>2, FeitosNoTopico
    <3> QED
      BY <3>1, <3>2 DEF Executado, Comandos, Status
  <2>4. etapa'[q].passo = "evento" /\ \A p \in Particoes \ {q} : etapa'[p] = etapa[p]
    BY <2>1 DEF Vai, TypeOK
  <2>5. Feitos(q) = processado[q] /\ Feitos(q)' = processado[q] \cup {posicao[q] + 1}
    BY <2>1, <2>2, <2>4 DEF Feitos
  <2>6. Feitos(q)' \subseteq DOMAIN comando[q] /\ posicao[q] + 1 \notin Feitos(q)
    BY <2>2, <2>5, FeitosNoTopico
  <2>7. CASE filaComando' = filaComando
    <3>1. Lugar(q)'
      BY <2>1, <2>2, <2>7 DEF Lugar, TemComando, Comando
    <3>2. Conta(q)'
      BY <2>1, <2>5, <2>6, <2>7, ContaSemResposta
    <3> QED
      BY <2>1, <2>4, <2>7, <3>1, <3>2 DEF Intocada
  <2>8. CASE filaComando' = Publica(filaComando, Executado(q))
    <3>1. /\ filaComando'[q] = Append(filaComando[q], Executado(q))
          /\ \A p \in Particoes \ {q} : filaComando'[p] = filaComando[p]
          /\ \A i \in DOMAIN filaComando'[q] : ParticaoDe[filaComando'[q][i].arquivo] = q
      BY <2>3, <2>8, PublicaAqui
    <3>2. Lugar(q)'
      BY <2>1, <2>2, <3>1 DEF Lugar, TemComando, Comando
    <3>3. /\ posicao[q] + 1 \in DOMAIN comando[q] /\ Comando(q) = comando[q][posicao[q] + 1]
          /\ Comando(q) \in Comandos /\ Feitos(q)' = Feitos(q) \cup {posicao[q] + 1}
          /\ Feitos(q) \subseteq DOMAIN comando[q]
      BY <2>2, <2>5, FeitosNoTopico DEF Comando
    <3>4. Conta(q)'
      BY <2>1, <2>2, <2>3, <2>6, <3>1, <3>3, ContaComResposta
    <3> QED
      BY <2>1, <2>4, <3>1, <3>2, <3>4 DEF Intocada
  <2> QED
    BY <2>1, <2>7, <2>8
<1>9. CASE ProduzEvento(q)
  BY <1>9, ConcluiCalado DEF ProduzEvento, Em, midiaVars
<1> QED
  BY <1>1, <1>2, <1>3, <1>4, <1>5, <1>6, <1>7, <1>8, <1>9 DEF Handler

(* A partition whose log and map a step leaves alone keeps its count.      *)
LEMMA ParadaConta ==
  ASSUME TypeOK, NEW p \in Particoes, Lugar(p), Conta(p), comando'[p] = comando[p],
         filaComando'[p] = filaComando[p], processado'[p] = processado[p], etapa'[p] = etapa[p],
         posicao'[p] = posicao[p] \/ etapa[p].passo = "livre"
  PROVE  Lugar(p)' /\ Conta(p)'
<1>1. Lugar(p)'
  BY DEF Lugar, TemComando, Comando
<1>2. Feitos(p)' = Feitos(p)
  BY DEF Feitos
<1>3. Conta(p)'
  BY <1>2, FeitosNoTopico, ContaSemResposta
<1> QED
  BY <1>1, <1>3

(* The log of a partition grows, by a command of one of its files.         *)
LEMMA AnexaLugar ==
  ASSUME TypeOK, [Next]_vars, NEW p \in Particoes, Lugar(p), NEW m \in Comandos,
         ParticaoDe[m.arquivo] = p, comando'[p] = Append(comando[p], m),
         UNCHANGED <<posicao, processado, etapa>>,
         \A i \in DOMAIN filaComando'[p] : ParticaoDe[filaComando'[p][i].arquivo] = p
  PROVE  Lugar(p)' /\ Feitos(p)' = Feitos(p)
<1>1. comando[p] \in Seq(Comandos)
  BY DEF TypeOK, MidiaTypeOK
<1>2. /\ DOMAIN comando'[p] = DOMAIN comando[p] \cup {Len(comando[p]) + 1}
      /\ comando'[p][Len(comando[p]) + 1] = m
      /\ \A i \in DOMAIN comando[p] : comando'[p][i] = comando[p][i]
  BY <1>1, Anexa
<1>3. TemComando(p) => TemComando(p)' /\ Comando(p)' = Comando(p)
  BY ComandoFixo
<1>4. \A i \in DOMAIN comando'[p] : ParticaoDe[comando'[p][i].arquivo] = p
  BY <1>2 DEF Lugar
<1>5. processado'[p] \subseteq DOMAIN comando'[p]
  BY <1>2 DEF Lugar
<1>6. etapa'[p].passo # "livre" => /\ TemComando(p)' /\ posicao'[p] + 1 \notin processado'[p]
                                 /\ Comando(p)'.status = "pendente"
  BY <1>3 DEF Lugar
<1> QED
  BY <1>4, <1>5, <1>6 DEF Lugar, Feitos

(* A request of the API, in the partition of its file.                     *)
LEMMA PedidoConta ==
  ASSUME TypeOK, Pedidos, UNCHANGED registroVars, NEW p \in Particoes, Lugar(p), Conta(p)
  PROVE  Lugar(p)' /\ Conta(p)'
<1>1. PICK f \in Arquivos, u \in Usuarios, t \in Tipos : comando' = Publica(comando, NewComando(t, f, u))
  BY DEF Pedidos, Upload, DeleteMedia, Tipos
<1> DEFINE m == NewComando(t, f, u)
<1>2. m \in Comandos /\ m.arquivo = f /\ m.status = "pendente"
  BY DEF NewComando, Comandos, Status
<1> HIDE DEF m
<1>3. comando \in [Particoes -> Seq(Comandos)] /\ comando' = [comando EXCEPT ![ParticaoDe[f]] = Append(@, m)]
  BY <1>1, <1>2 DEF TypeOK, MidiaTypeOK, Publica, m
<1>4. UNCHANGED <<posicao, processado, etapa, filaComando>>
  BY DEF registroVars
<1>5. CASE ParticaoDe[f] = p
  <2>1. comando'[p] = Append(comando[p], m) /\ ParticaoDe[m.arquivo] = p
    BY <1>2, <1>3, <1>5
  <2>2. [Next]_vars
    BY DEF Next
  <2>3. Lugar(p)' /\ Feitos(p)' = Feitos(p)
    BY <1>2, <1>4, <2>1, <2>2, AnexaLugar DEF Lugar
  <2>4. Conta(p)'
    BY <1>2, <1>4, <2>1, <2>3, FeitosNoTopico, ContaPedido
  <2> QED
    BY <2>3, <2>4
<1>6. CASE ParticaoDe[f] # p
  BY <1>3, <1>4, <1>6, ParadaConta
<1> QED
  BY <1>5, <1>6

(* A delivery to registro.comando.                                         *)
LEMMA EntregaConta ==
  ASSUME TypeOK, [Next]_vars, NEW q \in Particoes, EntregaComando(q),
         NEW p \in Particoes, Lugar(p), Conta(p)
  PROVE  Lugar(p)' /\ Conta(p)'
<1>1. comando \in [Particoes -> Seq(Comandos)] /\ filaComando \in [Particoes -> Seq(Comandos)]
  BY DEF TypeOK, MidiaTypeOK
<1>2. /\ filaComando[q] # <<>> /\ UNCHANGED <<posicao, processado, etapa>>
      /\ comando' = [comando EXCEPT ![q] = Append(@, Head(filaComando[q]))]
      /\ filaComando' = [filaComando EXCEPT ![q] = Tail(@)]
  BY DEF EntregaComando
<1>3. CASE p = q
  <2>1. comando'[p] = Append(comando[p], Head(filaComando[p])) /\ filaComando'[p] = Tail(filaComando[p])
        /\ filaComando[p] # <<>> /\ filaComando[p] \in Seq(Comandos)
    BY <1>1, <1>2, <1>3
  <2>2. Head(filaComando[p]) \in Comandos /\ ParticaoDe[Head(filaComando[p]).arquivo] = p
        /\ \A i \in DOMAIN Tail(filaComando[p]) : ParticaoDe[Tail(filaComando[p])[i].arquivo] = p
    <3>1. /\ Len(filaComando[p]) \in Nat /\ DOMAIN filaComando[p] = 1..Len(filaComando[p])
          /\ Len(filaComando[p]) > 0
      BY <2>1, LenProperties, EmptySeq
    <3>2. /\ Head(filaComando[p]) \in Comandos /\ Tail(filaComando[p]) \in Seq(Comandos)
          /\ Len(Tail(filaComando[p])) = Len(filaComando[p]) - 1
          /\ \A i \in 1..Len(Tail(filaComando[p])) : Tail(filaComando[p])[i] = filaComando[p][i + 1]
      BY <2>1, HeadTailProperties
    <3>3. Head(filaComando[p]) = filaComando[p][1] /\ 1 \in DOMAIN filaComando[p]
      BY <2>1, <3>1
    <3>4. DOMAIN Tail(filaComando[p]) = 1..(Len(filaComando[p]) - 1)
      BY <3>2, LenProperties
    <3>5. \A i \in DOMAIN Tail(filaComando[p]) : i + 1 \in DOMAIN filaComando[p]
      BY <3>1, <3>4
    <3>6. \A i \in DOMAIN Tail(filaComando[p]) : Tail(filaComando[p])[i] = filaComando[p][i + 1]
      BY <3>1, <3>2, <3>4
    <3> QED
      BY <3>2, <3>3, <3>5, <3>6 DEF Lugar
  <2>3. Lugar(p)' /\ Feitos(p)' = Feitos(p)
    BY <1>2, <2>1, <2>2, AnexaLugar
  <2>4. Conta(p)'
    BY <2>1, <2>3, FeitosNoTopico, ContaEntrega
  <2> QED
    BY <2>3, <2>4
<1>4. CASE p # q
  BY <1>1, <1>2, <1>4, ParadaConta
<1> QED
  BY <1>3, <1>4

(* Every step without a failure keeps the counts.                          *)
LEMMA ContasStep ==
  ASSUME TypeOK, Contas, [Next]_vars
  PROVE  Contas'
<1> SUFFICES ASSUME SemQueda' PROVE (processo = "roda" /\ \A p \in Particoes : Lugar(p) /\ Conta(p))'
  BY DEF Contas
<1>1. /\ processo = "roda" /\ (\A p \in Particoes : Lugar(p) /\ Conta(p)) /\ ~Reinicia /\ ~Sigterm
      /\ \A p \in Particoes : ~FalhaUpload(p) /\ ~FalhaDelete(p) /\ ~FalhaUpdate(p)
  BY SemQuedaAntes DEF Contas
<1> DEFINE Bem == processo' = "roda" /\ \A p \in Particoes : Lugar(p)' /\ Conta(p)'
<1>2. ASSUME Pedidos, UNCHANGED registroVars PROVE Bem
  BY <1>1, <1>2, PedidoConta DEF registroVars
<1>3. ASSUME NEW q \in Particoes, Handler(q) PROVE Bem
  <2>1. /\ Lugar(q)' /\ Conta(q)' /\ comando' = comando /\ processo' = processo
        /\ \A p \in Particoes \ {q} : Intocada(p)
    BY <1>1, <1>3, HandlerConta
  <2>2. \A p \in Particoes \ {q} : Lugar(p)' /\ Conta(p)'
    BY <1>1, <2>1, ParadaConta DEF Intocada
  <2> QED
    BY <1>1, <2>1, <2>2
<1>4. ASSUME NEW q \in Particoes, EntregaComando(q) PROVE Bem
  BY <1>1, <1>4, EntregaConta DEF EntregaComando
<1>5. CASE UNCHANGED vars \/ \E q \in Particoes : EntregaMedia(q) \/ ConfirmaOffset(q)
  <2>1. UNCHANGED <<comando, filaComando, processado, etapa, posicao, processo>>
    BY <1>5 DEF vars, midiaVars, registroVars, EntregaMedia, ConfirmaOffset
  <2> QED
    BY <1>1, <2>1, ParadaConta
<1>6. CASE NovaSessao
  <2>1. UNCHANGED <<comando, filaComando, processado, etapa, processo>>
        /\ \A p \in Particoes : etapa[p].passo = "livre"
    BY <1>6 DEF NovaSessao, midiaVars
  <2> QED
    BY <1>1, <2>1, ParadaConta
<1>7. ~Termina
  BY <1>1 DEF Termina
<1> QED
  BY <1>1, <1>2, <1>3, <1>4, <1>5, <1>6, <1>7 DEF Next, RegistroNext, Producer, Ambiente

(* However often the group rebalances, and whatever answers the producer   *)
(* refuses, no request is answered twice while nothing fails and the       *)
(* process lives: the processed map, not the committed offset, is what     *)
(* keeps the replayed commands from a second answer.                       *)
THEOREM UmaRespostaPorPedido == Spec => []UmaResposta
<1>1. Init => Contas
  <2> SUFFICES ASSUME Init PROVE processo = "roda" /\ \A p \in Particoes : Lugar(p) /\ Conta(p)
    BY DEF Contas
  <2> SUFFICES ASSUME NEW p \in Particoes PROVE Lugar(p) /\ Conta(p)
    BY DEF Init, RegistroInit
  <2>1. /\ comando[p] = <<>> /\ filaComando[p] = <<>> /\ processado[p] = {} /\ etapa[p] = Livre
    BY DEF Init, MidiaInit, RegistroInit
  <2>2. Lugar(p)
    BY <2>1 DEF Lugar, Livre
  <2>3. Feitos(p) = {}
    BY <2>1 DEF Feitos, Livre
  <2>4. \A S : Quantas(<<>>, S) = 0 /\ Cardinality(Atendidos(p, S)) = 0
    BY <2>3, FS_EmptySet DEF Quantas, Atendidos
  <2>5. Conta(p)
    BY <2>1, <2>4 DEF Conta, ContaDe
  <2> QED
    BY <2>2, <2>5
<1>2. TypeOK /\ Contas /\ [Next]_vars => Contas'
  BY ContasStep
<1>3. TypeOK /\ Contas => UmaResposta
  <2> SUFFICES ASSUME TypeOK, Contas, SemQueda, NEW p \in Particoes, NEW f \in Arquivos,
                      NEW u \in Usuarios, NEW t \in Tipos
               PROVE  LET Desse(c) == c.arquivo = f /\ c.usuario = u /\ c.tipo = t
                          Resposta(c) == Desse(c) /\ c.status # "pendente"
                          Pedido(c) == Desse(c) /\ c.status = "pendente"
                      IN Vezes(comando[p], filaComando[p], Resposta) <= Vezes(comando[p], <<>>, Pedido)
    BY DEF UmaResposta, SemQueda
  <2> DEFINE Desse(c) == c.arquivo = f /\ c.usuario = u /\ c.tipo = t
             Resposta(c) == Desse(c) /\ c.status # "pendente"
             Pedido(c) == Desse(c) /\ c.status = "pendente"
             S == PedidosDe(f, u, t)
             P == {i \in DOMAIN comando[p] : comando[p][i] \in S}
  <2>1. comando[p] \in Seq(Comandos) /\ filaComando[p] \in Seq(Comandos)
    BY DEF TypeOK, MidiaTypeOK
  <2>2. /\ \A i \in DOMAIN comando[p] : comando[p][i] \in Comandos
        /\ \A i \in DOMAIN filaComando[p] : filaComando[p][i] \in Comandos
    BY <2>1, ElementOfSeq, LenProperties
  <2>3. /\ {i \in DOMAIN comando[p] : Resposta(comando[p][i])}
             = {i \in DOMAIN comando[p] : comando[p][i] \in RespostasDe(f, u, t)}
        /\ {i \in DOMAIN filaComando[p] : Resposta(filaComando[p][i])}
             = {i \in DOMAIN filaComando[p] : filaComando[p][i] \in RespostasDe(f, u, t)}
        /\ {i \in DOMAIN comando[p] : Pedido(comando[p][i])} = P
    BY <2>2 DEF RespostasDe, PedidosDe, De
  <2>4. Vezes(comando[p], filaComando[p], Resposta)
          = Quantas(comando[p], RespostasDe(f, u, t)) + Quantas(filaComando[p], RespostasDe(f, u, t))
    BY <2>3 DEF Vezes, Quantas
  <2>5. Quantas(comando[p], S) \in Nat /\ Quantas(comando[p], S) = Cardinality(P)
    BY <2>1, QuantasTipo DEF Quantas
  <2>6. Vezes(comando[p], <<>>, Pedido) = Quantas(comando[p], S)
    <3>1. {i \in DOMAIN <<>> : Pedido(<<>>[i])} = {}
      OBVIOUS
    <3>2. Cardinality({i \in DOMAIN <<>> : Pedido(<<>>[i])}) = 0
      BY <3>1, FS_EmptySet
    <3>3. Cardinality({i \in DOMAIN comando[p] : Pedido(comando[p][i])}) = Cardinality(P)
      BY <2>3
    <3> QED
      BY <2>5, <3>2, <3>3 DEF Vezes
  <2>7. Lugar(p) /\ ContaDe(p, f, u, t)
    BY DEF Contas, Conta
  <2>8. Cardinality(Atendidos(p, S)) \in Nat /\ Cardinality(Atendidos(p, S)) <= Cardinality(P)
    <3> HIDE DEF S
    <3> QED
      BY <2>7, FeitosNoTopico, AtendidosCresce
  <2>9. /\ Quantas(comando[p], RespostasDe(f, u, t)) \in Nat
        /\ Quantas(filaComando[p], RespostasDe(f, u, t)) \in Nat
    BY <2>1, QuantasTipo
  <2>10. Quantas(comando[p], RespostasDe(f, u, t)) + Quantas(filaComando[p], RespostasDe(f, u, t))
           <= Cardinality(Atendidos(p, S))
    BY <2>7 DEF ContaDe
  <2>11. Quantas(comando[p], RespostasDe(f, u, t)) + Quantas(filaComando[p], RespostasDe(f, u, t))
           <= Quantas(comando[p], S)
    <3> HIDE DEF S, P
    <3> QED
      BY <2>5, <2>8, <2>9, <2>10
  <2> HIDE DEF S, P, Resposta, Pedido
  <2>12. Vezes(comando[p], filaComando[p], Resposta) <= Vezes(comando[p], <<>>, Pedido)
    BY <2>4, <2>6, <2>11
  <2> QED
    BY <2>12 DEF Resposta, Pedido
<1> QED
  BY <1>1, <1>2, <1>3, TypeCorrect, PTL DEF Spec

-----------------------------------------------------------------------------
(* The shorter side, scaled, is at least one pixel and at most 300: the    *)
(* rounding of imaging.Resize never carries it past the longer side.       *)
LEMMA ProporcionalCabe ==
  ASSUME NEW menor \in Nat \ {0}, NEW maior \in Nat \ {0}, menor <= maior
  PROVE  Proporcional(menor, maior) \in 1..Lado
<1> DEFINE n == (2 * Lado * menor + maior) \div (2 * maior)
<1>1. 2 * Lado * menor + maior < (Lado + 1) * (2 * maior)
  BY SMT DEF Lado
<1>2. n \in Int /\ n < Lado + 1
  BY <1>1, SMT DEF Lado
<1> QED
  BY <1>2, SMT DEF Proporcional, Lado

(* encodeToWebPThumbnail: whatever the image, the thumbnail is not empty   *)
(* and no side of it is longer than 300 pixels.                            *)
THEOREM MiniaturaCabe ==
  ASSUME NEW w \in Nat \ {0}, NEW h \in Nat \ {0}
  PROVE  Miniatura(w, h) \in [largura : 1..Lado, altura : 1..Lado]
<1>1. CASE w <= Lado /\ h <= Lado
  BY <1>1, SMT DEF Miniatura, Lado
<1>2. CASE ~(w <= Lado /\ h <= Lado) /\ w > h
  <2>1. Proporcional(h, w) \in 1..Lado
    BY <1>2, ProporcionalCabe
  <2> QED
    BY <1>2, <2>1 DEF Miniatura, Lado
<1>3. CASE ~(w <= Lado /\ h <= Lado) /\ ~(w > h)
  <2>1. Proporcional(w, h) \in 1..Lado
    BY <1>3, ProporcionalCabe
  <2> QED
    BY <1>3, <2>1 DEF Miniatura, Lado
<1> QED
  BY <1>1, <1>2, <1>3

(* imaging.Resize: of all the lengths the shorter side could have, the one *)
(* computed is nearest to the proportion of the image.                     *)
LEMMA ProporcionalExata ==
  ASSUME NEW menor \in Nat \ {0}, NEW maior \in Nat \ {0}, menor <= maior
  PROVE  MaisProximo(Proporcional(menor, maior), menor, maior)
<1> DEFINE n == (2 * Lado * menor + maior) \div (2 * maior)
           r == Proporcional(menor, maior)
<1>1. n \in Nat /\ n * (2 * maior) <= 2 * Lado * menor + maior
  BY SMT DEF Lado
<1>2. 2 * Lado * menor + maior < (n + 1) * (2 * maior)
  BY SMT DEF Lado
<1>3. r = IF n < 1 THEN 1 ELSE n
  BY DEF Proporcional
<1> HIDE DEF n, r
<1>4. n * (2 * maior) = 2 * (n * maior) /\ (n + 1) * (2 * maior) = 2 * (n * maior) + 2 * maior
  BY <1>1, SMT
<1>5. n * maior \in Nat /\ 2 * (n * maior) <= 600 * menor + maior
      /\ 600 * menor < 2 * (n * maior) + maior
  BY <1>1, <1>2, <1>4, SMT DEF Lado
<1>6. SUFFICES ASSUME NEW m \in 1..Lado
               PROVE  Desvio(r, menor, maior) <= Desvio(m, menor, maior)
  BY DEF MaisProximo, r
<1>7. m \in Nat /\ m * maior \in Nat /\ m * maior >= maior
  BY SMT DEF Lado
<1>8. CASE n < 1
  <2>1. r * maior = maior /\ n * maior = 0
    BY <1>1, <1>3, <1>8, SMT
  <2> QED
    BY <2>1, <1>5, <1>7, SMT DEF Desvio, Lado
<1>9. CASE n >= 1 /\ m > n
  <2>1. m * maior >= n * maior + maior
    BY <1>1, <1>7, <1>9, SMT
  <2> QED
    BY <2>1, <1>1, <1>3, <1>5, <1>7, <1>9, SMT DEF Desvio, Lado
<1>10. CASE n >= 1 /\ m < n
  <2>1. m * maior + maior <= n * maior
    BY <1>1, <1>7, <1>10, SMT
  <2> QED
    BY <2>1, <1>1, <1>3, <1>5, <1>7, <1>10, SMT DEF Desvio, Lado
<1>11. CASE n >= 1 /\ m = n
  BY <1>3, <1>7, <1>11, SMT DEF Desvio, Lado
<1> QED
  BY <1>1, <1>7, <1>8, <1>9, <1>10, <1>11

(* The thumbnail of an image larger than 300 pixels keeps its proportion   *)
(* to the nearest pixel, whatever its size.                                *)
THEOREM MiniaturaProporcional ==
  ASSUME NEW menor \in Nat \ {0}, NEW maior \in Nat \ {0}, menor <= maior, maior > Lado
  PROVE  /\ MaisProximo(Miniatura(maior, menor).altura, menor, maior)
         /\ MaisProximo(Miniatura(menor, maior).largura, menor, maior)
<1>1. Miniatura(menor, maior).largura = Proporcional(menor, maior)
  BY DEF Miniatura, Lado
<1>2. CASE menor < maior
  <2>1. Miniatura(maior, menor).altura = Proporcional(menor, maior)
    BY <1>2 DEF Miniatura, Lado
  <2> QED
    BY <1>1, <2>1, ProporcionalExata
<1>3. CASE menor = maior
  <2>1. Miniatura(maior, menor).altura = Lado
    BY <1>3 DEF Miniatura, Lado
  <2>2. Desvio(Lado, menor, maior) = 0
    BY <1>3, SMT DEF Desvio, Lado
  <2>3. ASSUME NEW m \in 1..Lado PROVE Desvio(m, menor, maior) >= 0
    <3>1. m * maior \in Int
      BY DEF Lado
    <3> QED
      BY <3>1, SMT DEF Desvio, Lado
  <2> QED
    BY <1>1, <2>1, <2>2, <2>3, ProporcionalExata DEF MaisProximo
<1> QED
  BY <1>2, <1>3

=============================================================================
