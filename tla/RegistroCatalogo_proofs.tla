---------------------- MODULE RegistroCatalogo_proofs ----------------------
(***************************************************************************)
(* Registro implements the catalogue, for any number of files, users,      *)
(* contents and partitions, whatever S3 and Postgres refuse and however    *)
(* often the group rebalances, as long as no Produce is lost and the       *)
(* process does not end.                                                   *)
(*                                                                         *)
(* The reason is a life that only one holder has at a time: the upload in  *)
(* the topic, the executed command on its way back, the row, the deletion  *)
(* under way.  Each of them exists once, and hands the life on.            *)
(* That holds even when Produces are lost, until the process ends.         *)
(*                                                                         *)
(* Under the same conditions no command is left behind: one the mark has   *)
(* passed, or the processed map remembers, has its answer (RInv).          *)
(***************************************************************************)
EXTENDS Registro_proofs

DoArquivo(c, f, s) == c.arquivo = f /\ c.tipo = "upload" /\ c.status = s
Onde(log, f, s) == {i \in DOMAIN log : DoArquivo(log[i], f, s)}

(* The upload in the topic, until its event is out.                        *)
Envios(f) == Onde(comando[ParticaoDe[f]], f, "pendente")
Espera(f) == Envios(f) \ processado[ParticaoDe[f]]
(* The executed upload, in the producer and then in the topic.             *)
Volta(f) == Onde(filaComando[ParticaoDe[f]], f, "executado")
Voltou(f) == Onde(comando[ParticaoDe[f]], f, "executado") \ processado[ParticaoDe[f]]
Retorno(f) == Volta(f) \cup Voltou(f)

(* The handler is at this command of the file, between these steps.        *)
Entre(f, tipo, passos) == LET p == ParticaoDe[f] IN
  etapa[p].passo \in passos /\ Comando(p).arquivo = f /\ Comando(p).tipo = tipo
(* The row is gone, the deletion event not out.                            *)
Excluindo(f) == Entre(f, "delete", {"executado", "evento"})
(* The executed upload is out, the upload event not.                       *)
NoMeio(f) == Entre(f, "upload", {"evento"})

(* What the readers are told of the file: nothing but its upload?          *)
Historia(f) == Anunciados[ParticaoDe[f]]
DitosEm(log, f) == {i \in DOMAIN log : log[i].arquivo = f}
SoUploadEm(log, f) == \E i \in DitosEm(log, f) : DitosEm(log, f) = {i} /\ log[i].tipo = "upload"
Ditos(f) == DitosEm(Historia(f), f)
SoUpload(f) == SoUploadEm(Historia(f), f)
(* Or nothing at all, once a Produce has failed.                           *)
Calado(f) == gasto["perdas"] # 0 /\ Ditos(f) = {}
Conhecido(f) == SoUpload(f) \/ Calado(f)

Unico(s) == \A i, j \in s : i = j

UmEnvio(f) == Unico(Envios(f)) /\ (Envios(f) # {} => temp[f] # Nenhum)
UmaVolta(f) == Unico(Voltou(f)) /\ Unico(Volta(f)) /\ (Voltou(f) = {} \/ Volta(f) = {})

UmaVida(f) ==
  /\ Espera(f) # {} =>
       /\ Ditos(f) = {} /\ registro[f] = Nenhum /\ ~Excluindo(f)
       /\ Retorno(f) # {} => NoMeio(f)
  /\ Retorno(f) # {} =>
       /\ registro[f] = Nenhum /\ ~Excluindo(f)
       /\ NoMeio(f) \/ Conhecido(f)
  /\ registro[f] # Nenhum => Conhecido(f) /\ ~Excluindo(f)
  /\ Excluindo(f) => Conhecido(f)

Vida(f) == UmEnvio(f) /\ UmaVolta(f) /\ UmaVida(f)

(* Commands and events are in the partition of their file; what a handler  *)
(* is at was not handled before.                                           *)
NoLugar(p) ==
  /\ \A i \in DOMAIN comando[p] : ParticaoDe[comando[p][i].arquivo] = p
  /\ \A i \in DOMAIN filaComando[p] :
       ParticaoDe[filaComando[p][i].arquivo] = p /\ filaComando[p][i].status # "pendente"
  /\ etapa[p] # Livre => posicao[p] + 1 \notin processado[p]
  /\ etapa[p].passo \in {"photo", "thumbnail"} => Comando(p).tipo = "upload"

Ileso == gasto["quedas"] = 0
SemPerdas == gasto["perdas"] = 0 /\ Ileso
(* A lost Produce stays counted.                                           *)
PerdasFicam == gasto["perdas"] # 0 => gasto'["perdas"] # 0

Vidas ==
  /\ processo # "encerra"
  /\ \A p \in Particoes : NoLugar(p)
  /\ \A f \in Arquivos : Vida(f)

CInv == TypeOK /\ Proveniencia /\ NasPhotos /\ (Ileso => Vidas)

-----------------------------------------------------------------------------
(* One message more at the end of a log: the uploads of a file in it.      *)
LEMMA OndeAnexa ==
  ASSUME NEW S, NEW s \in Seq(S), NEW x \in S, NEW f, NEW st
  PROVE  Onde(Append(s, x), f, st) =
           Onde(s, f, st) \cup (IF DoArquivo(x, f, st) THEN {Len(s) + 1} ELSE {})
<1>1. /\ DOMAIN Append(s, x) = DOMAIN s \cup {Len(s) + 1}
      /\ Append(s, x)[Len(s) + 1] = x
      /\ \A i \in DOMAIN s : Append(s, x)[i] = s[i]
      /\ Len(s) + 1 \notin DOMAIN s
  BY Anexa
<1> HIDE DEF DoArquivo
<1>2. ASSUME NEW i
      PROVE  i \in Onde(Append(s, x), f, st) <=>
               i \in Onde(s, f, st) \cup (IF DoArquivo(x, f, st) THEN {Len(s) + 1} ELSE {})
  BY <1>1 DEF Onde
<1> QED
  BY <1>2

(* The oldest message of a queue leaves it: what is in the rest of it.     *)
LEMMA OndeTail ==
  ASSUME NEW S, NEW s \in Seq(S), s # <<>>, NEW f, NEW st, Unico(Onde(s, f, st))
  PROVE  /\ Unico(Onde(Tail(s), f, st))
         /\ DoArquivo(Head(s), f, st) => Onde(s, f, st) # {} /\ Onde(Tail(s), f, st) = {}
         /\ Onde(Tail(s), f, st) # {} => Onde(s, f, st) # {}
         /\ ~DoArquivo(Head(s), f, st) /\ Onde(s, f, st) # {} => Onde(Tail(s), f, st) # {}
         /\ \A i \in DOMAIN Tail(s) : i + 1 \in DOMAIN s /\ Tail(s)[i] = s[i + 1]
<1>1. /\ Len(s) \in Nat /\ DOMAIN s = 1..Len(s) /\ Head(s) = s[1] /\ 1 \in DOMAIN s
      /\ DOMAIN Tail(s) = 1..(Len(s) - 1)
      /\ \A i \in DOMAIN Tail(s) : Tail(s)[i] = s[i + 1]
  <2>1. Len(s) \in Nat /\ DOMAIN s = 1..Len(s) /\ Len(s) > 0
    BY LenProperties, EmptySeq
  <2>2. Tail(s) \in Seq(S) /\ Len(Tail(s)) = Len(s) - 1
        /\ \A i \in 1..Len(Tail(s)) : Tail(s)[i] = s[i + 1]
    BY HeadTailProperties
  <2>3. DOMAIN Tail(s) = 1..(Len(s) - 1)
    BY <2>2, LenProperties
  <2> QED
    BY <2>1, <2>2, <2>3
<1> HIDE DEF DoArquivo
<1>2. ASSUME NEW i \in Onde(Tail(s), f, st)
      PROVE  i \in Int /\ i + 1 # 1 /\ i + 1 \in Onde(s, f, st)
  <2>1. i \in DOMAIN Tail(s) /\ i \in 1..(Len(s) - 1)
    BY <1>1 DEF Onde
  <2>2. i + 1 \in DOMAIN s /\ s[i + 1] = Tail(s)[i] /\ i \in Int /\ i + 1 # 1
    BY <1>1, <2>1
  <2> QED
    BY <2>2 DEF Onde
<1>3. DoArquivo(Head(s), f, st) <=> 1 \in Onde(s, f, st)
  BY <1>1 DEF Onde
<1>4. Unico(Onde(Tail(s), f, st))
  <2> SUFFICES ASSUME NEW i \in Onde(Tail(s), f, st), NEW j \in Onde(Tail(s), f, st)
               PROVE  i = j
    BY DEF Unico
  <2>1. i \in Int /\ j \in Int /\ i + 1 = j + 1
    BY <1>2 DEF Unico
  <2> QED
    BY <2>1
<1>5. DoArquivo(Head(s), f, st) => Onde(s, f, st) # {} /\ Onde(Tail(s), f, st) = {}
  BY <1>2, <1>3 DEF Unico
<1>6. ASSUME ~DoArquivo(Head(s), f, st), NEW i \in Onde(s, f, st)
      PROVE  Onde(Tail(s), f, st) # {}
  <2>1. i \in DOMAIN s /\ i # 1
    BY <1>3, <1>6 DEF Onde
  <2>2. i - 1 \in DOMAIN Tail(s) /\ (i - 1) + 1 = i
    BY <1>1, <2>1
  <2>3. Tail(s)[i - 1] = s[i]
    BY <1>1, <2>2
  <2> QED
    BY <1>6, <2>2, <2>3 DEF Onde
<1>7. \A i \in DOMAIN Tail(s) : i + 1 \in DOMAIN s
  BY <1>1
<1> QED
  BY <1>1, <1>2, <1>4, <1>5, <1>6, <1>7

(* Delivery: topic and queue, one after the other, stay the same.          *)
LEMMA Desloca ==
  ASSUME NEW S, NEW s \in Seq(S), NEW t \in Seq(S), t # <<>>
  PROVE  Append(s, Head(t)) \o Tail(t) = s \o t
<1>1. Head(t) \in S /\ Tail(t) \in Seq(S) /\ Head(t) = t[1]
      /\ Len(Tail(t)) = Len(t) - 1 /\ \A i \in 1..Len(Tail(t)) : Tail(t)[i] = t[i + 1]
  BY HeadTailProperties
<1>2. Len(s) \in Nat /\ Len(t) \in Nat /\ Len(t) > 0
  BY LenProperties, EmptySeq
<1> DEFINE a == Append(s, Head(t))
           v == a \o Tail(t)
           w == s \o t
<1>3. a \in Seq(S) /\ Len(a) = Len(s) + 1 /\ a[Len(s) + 1] = t[1]
      /\ \A i \in 1..Len(s) : a[i] = s[i]
  BY <1>1, AppendProperties
<1>4. v \in Seq(S) /\ Len(v) = Len(s) + Len(t)
      /\ \A i \in 1..(Len(s) + Len(t)) : v[i] = IF i <= Len(s) + 1 THEN a[i] ELSE Tail(t)[i - (Len(s) + 1)]
  <2> HIDE DEF a
  <2>1. v \in Seq(S) /\ Len(v) = Len(a) + Len(Tail(t))
        /\ \A i \in 1..(Len(a) + Len(Tail(t))) : v[i] = IF i <= Len(a) THEN a[i] ELSE Tail(t)[i - Len(a)]
    BY <1>1, <1>3, ConcatProperties
  <2> HIDE DEF v
  <2> QED
    BY <1>1, <1>2, <1>3, <2>1
<1>5. w \in Seq(S) /\ Len(w) = Len(s) + Len(t)
      /\ \A i \in 1..(Len(s) + Len(t)) : w[i] = IF i <= Len(s) THEN s[i] ELSE t[i - Len(s)]
  BY ConcatProperties
<1>6. ASSUME NEW i \in 1..(Len(s) + Len(t)) PROVE v[i] = w[i]
  <2> HIDE DEF v, w, a
  <2>1. CASE i <= Len(s)
    BY <1>2, <1>3, <1>4, <1>5, <2>1
  <2>2. CASE i = Len(s) + 1
    <3>1. i - Len(s) = 1 /\ ~(i <= Len(s))
      BY <1>2, <2>2
    <3> QED
      BY <1>2, <1>3, <1>4, <1>5, <2>2, <3>1
  <2>3. CASE i > Len(s) + 1
    <3>1. i - (Len(s) + 1) \in 1..Len(Tail(t)) /\ (i - (Len(s) + 1)) + 1 = i - Len(s)
      BY <1>1, <1>2, <2>3
    <3>2. Tail(t)[i - (Len(s) + 1)] = t[i - Len(s)]
      BY <1>1, <3>1
    <3> QED
      BY <1>2, <1>4, <1>5, <2>3, <3>2
  <2> QED
    BY <1>2, <2>1, <2>2, <2>3
<1>7. \A i \in DOMAIN v : v[i] = w[i]
  BY <1>4, <1>6, LenProperties
<1>8. DOMAIN v = DOMAIN w
  BY <1>4, <1>5, LenProperties
<1> HIDE DEF v, w
<1>9. v = [i \in DOMAIN v |-> v[i]] /\ w = [i \in DOMAIN w |-> w[i]]
  BY <1>4, <1>5, LenProperties
<1> QED
  BY <1>7, <1>8, <1>9 DEF v, w

(* An event more in the queue is one more at the end of what is told.      *)
LEMMA AnexaDepois ==
  ASSUME NEW S, NEW s \in Seq(S), NEW t \in Seq(S), NEW x \in S
  PROVE  s \o Append(t, x) = Append(s \o t, x)
<1>1. Append(t, x) = t \o <<x>> /\ <<x>> \in Seq(S)
  BY AppendIsConcat
<1>2. s \o t \in Seq(S)
  BY ConcatProperties
<1>3. Append(s \o t, x) = (s \o t) \o <<x>>
  BY <1>2, AppendIsConcat
<1> QED
  BY <1>1, <1>3, ConcatAssociative

-----------------------------------------------------------------------------
(* What is known of the logs, by type.                                     *)
LEMMA TiposEm ==
  ASSUME TypeOK, NEW p \in Particoes
  PROVE  /\ comando[p] \in Seq(Comandos) /\ filaComando[p] \in Seq(Comandos)
         /\ media[p] \in Seq(Eventos) /\ filaMedia[p] \in Seq(Eventos)
         /\ etapa[p] \in Etapas /\ posicao[p] \in Nat
         /\ etapa[p].passo = "livre" <=> etapa[p] = Livre
         /\ Anunciados[p] = media[p] \o filaMedia[p] /\ Anunciados[p] \in Seq(Eventos)
<1>1. /\ comando[p] \in Seq(Comandos) /\ filaComando[p] \in Seq(Comandos)
      /\ media[p] \in Seq(Eventos) /\ filaMedia[p] \in Seq(Eventos)
      /\ etapa[p] \in Etapas /\ posicao[p] \in Nat
  BY DEF TypeOK, MidiaTypeOK
<1>2. etapa[p].passo = "livre" <=> etapa[p] = Livre
  BY <1>1 DEF Etapas, Livre, Passos
<1> QED
  BY <1>1, <1>2, ConcatProperties DEF Anunciados

(* A step that takes from a file and gives it nothing.                     *)
LEMMA Encolhe ==
  ASSUME NEW f \in Arquivos, Vida(f),
         Envios(f)' = Envios(f), temp[f] # Nenhum => temp'[f] # Nenhum,
         Espera(f)' \subseteq Espera(f), Voltou(f)' \subseteq Voltou(f),
         Volta(f)' = Volta(f), registro'[f] = registro[f] \/ registro'[f] = Nenhum,
         Excluindo(f)' => Excluindo(f), NoMeio(f)' <=> NoMeio(f),
         Ditos(f)' = Ditos(f), SoUpload(f)' <=> SoUpload(f), PerdasFicam
  PROVE  Vida(f)'
<1>1. Retorno(f)' \subseteq Retorno(f)
  BY DEF Retorno
<1>2. UmEnvio(f)' /\ UmaVolta(f)'
  BY DEF Vida, UmEnvio, UmaVolta, Unico
<1>3. Conhecido(f) => Conhecido(f)'
  BY DEF Conhecido, Calado, PerdasFicam
<1>4. UmaVida(f)'
  BY <1>1, <1>3 DEF Vida, UmaVida
<1> QED
  BY <1>2, <1>4 DEF Vida

(* Nothing happens in a partition.                                         *)
Parada(p) ==
  /\ comando'[p] = comando[p] /\ filaComando'[p] = filaComando[p]
  /\ media'[p] = media[p] /\ filaMedia'[p] = filaMedia[p]
  /\ processado'[p] = processado[p] /\ etapa'[p] = etapa[p]
  /\ posicao'[p] = posicao[p] \/ etapa[p] = Livre

(* There its commands stay in their places.                                *)
LEMMA ParadaLugar ==
  ASSUME NEW p \in Particoes, Parada(p), NoLugar(p) PROVE NoLugar(p)'
<1>1. CASE posicao'[p] = posicao[p]
  BY <1>1 DEF Parada, NoLugar, Comando
<1>2. CASE etapa[p] = Livre
  BY <1>2 DEF Parada, NoLugar, Livre
<1> QED
  BY <1>1, <1>2 DEF Parada

(* What is told of a file is all in its history.                           *)
LEMMA MesmaHistoria ==
  ASSUME NEW f \in Arquivos, Historia(f)' = Historia(f)
  PROVE  Ditos(f)' = Ditos(f) /\ (SoUpload(f)' <=> SoUpload(f))
BY DEF Ditos, SoUpload

(* The history of a file is that of its partition.                         *)
LEMMA HistoriaParada ==
  ASSUME NEW f \in Arquivos, media'[ParticaoDe[f]] = media[ParticaoDe[f]],
         filaMedia'[ParticaoDe[f]] = filaMedia[ParticaoDe[f]]
  PROVE  Historia(f)' = Historia(f)
BY ParticaoAssumption DEF Historia, Anunciados

(* A file nothing happens to.                                              *)
Igual(f) ==
  /\ temp[f] # Nenhum => temp'[f] # Nenhum
  /\ Envios(f)' = Envios(f) /\ Espera(f)' = Espera(f)
  /\ Voltou(f)' = Voltou(f) /\ Volta(f)' = Volta(f)
  /\ registro'[f] = registro[f]
  /\ (Excluindo(f)' <=> Excluindo(f)) /\ (NoMeio(f)' <=> NoMeio(f))
  /\ Ditos(f)' = Ditos(f) /\ (SoUpload(f)' <=> SoUpload(f))

(* It keeps its life.                                                      *)
LEMMA IgualVida ==
  ASSUME NEW f \in Arquivos, Igual(f), Vida(f), PerdasFicam PROVE Vida(f)'
BY Encolhe DEF Igual

(* So it is with the files of a partition at rest.                         *)
LEMMA ParadaIgual ==
  ASSUME NEW f \in Arquivos, Parada(ParticaoDe[f]), registro'[f] = registro[f],
         temp[f] # Nenhum => temp'[f] # Nenhum
  PROVE  Igual(f)
<1>1. Historia(f)' = Historia(f)
  BY HistoriaParada DEF Parada
<1>2. Ditos(f)' = Ditos(f) /\ (SoUpload(f)' <=> SoUpload(f))
  BY <1>1, MesmaHistoria
<1>3. Envios(f)' = Envios(f) /\ Espera(f)' = Espera(f) /\ Voltou(f)' = Voltou(f)
      /\ Volta(f)' = Volta(f)
  BY DEF Parada, Envios, Espera, Voltou, Volta
<1>4. (Excluindo(f)' <=> Excluindo(f)) /\ (NoMeio(f)' <=> NoMeio(f))
  BY DEF Parada, Excluindo, NoMeio, Entre, Comando, Livre
<1> QED
  BY <1>2, <1>3, <1>4 DEF Igual

-----------------------------------------------------------------------------
(* A step of the handler of partition q on the command c at hand: all it   *)
(* can change is of that partition and of the file of c.                   *)
Passa(q, s) ==
  /\ \E u, h : Vai(q, s, u, h)
  /\ UNCHANGED <<posicao, processado>>
  /\ posicao[q] + 1 \notin processado[q]
  /\ s \in {"photo", "thumbnail"} => Comando(q).tipo = "upload"

Responde(q) == \E m \in Comandos :
  /\ m.arquivo = Comando(q).arquivo /\ m.status # "pendente"
  /\ filaComando' = Publica(filaComando, m)
Anuncia(q) == \E e \in Eventos :
  e.arquivo = Comando(q).arquivo /\ filaMedia' = Publica(filaMedia, e)

PassoEm(q) ==
  /\ TemComando(q)
  /\ comando' = comando /\ media' = media /\ temp' = temp /\ processo' # "encerra"
  /\ \A g \in Arquivos : g # Comando(q).arquivo => registro'[g] = registro[g]
  /\ filaComando' = filaComando \/ Responde(q)
  /\ filaMedia' = filaMedia \/ Anuncia(q)
  /\ Conclui(q) \/ \E s \in Passos : Passa(q, s)

(* The command at hand is of a file of the partition.                      *)
LEMMA ArquivoDaqui ==
  ASSUME TypeOK, NEW q \in Particoes, NoLugar(q), TemComando(q)
  PROVE  /\ Comando(q).arquivo \in Arquivos /\ ParticaoDe[Comando(q).arquivo] = q
         /\ posicao[q] + 1 \in DOMAIN comando[q]
<1>1. posicao[q] + 1 \in DOMAIN comando[q]
  BY ComandoTipo, TiposEm, LenProperties
<1> QED
  BY <1>1, ComandoTipo DEF NoLugar, Comando

(* Where the handler of q works, the other partitions are at rest.         *)
LEMMA OutraParticao ==
  ASSUME TypeOK, NEW q \in Particoes, NoLugar(q), PassoEm(q), NEW p \in Particoes, p # q
  PROVE  Parada(p)
<1>1. ParticaoDe[Comando(q).arquivo] = q
  BY ArquivoDaqui DEF PassoEm
<1>2. filaComando'[p] = filaComando[p]
  <2>1. CASE filaComando' = filaComando
    BY <2>1
  <2>2. CASE Responde(q)
    <3>1. PICK m \in Comandos : m.arquivo = Comando(q).arquivo /\ filaComando' = Publica(filaComando, m)
      BY <2>2 DEF Responde
    <3>2. ParticaoDe[m.arquivo] = q
      BY <1>1, <3>1
    <3> QED
      BY <3>1, <3>2 DEF Publica, TypeOK
  <2> QED
    BY <2>1, <2>2 DEF PassoEm
<1>4. filaMedia'[p] = filaMedia[p]
  <2>1. CASE filaMedia' = filaMedia
    BY <2>1
  <2>2. CASE Anuncia(q)
    <3>1. PICK e \in Eventos : e.arquivo = Comando(q).arquivo /\ filaMedia' = Publica(filaMedia, e)
      BY <2>2 DEF Anuncia
    <3>2. ParticaoDe[e.arquivo] = q
      BY <1>1, <3>1
    <3> QED
      BY <3>1, <3>2 DEF Publica, TypeOK
  <2> QED
    BY <2>1, <2>2 DEF PassoEm
<1>3. etapa'[p] = etapa[p] /\ posicao'[p] = posicao[p] /\ processado'[p] = processado[p]
  BY DEF PassoEm, Conclui, Passa, Vai, TypeOK
<1> QED
  BY <1>2, <1>3, <1>4 DEF PassoEm, Parada

(* What the step does to the commands and to the place of a file of the    *)
(* partition.                                                              *)
LEMMA Concluido ==
  ASSUME TypeOK, NEW q \in Particoes, Conclui(q), comando' = comando,
         NEW g \in Arquivos, ParticaoDe[g] = q
  PROVE  /\ Envios(g)' = Envios(g)
         /\ Espera(g)' = Espera(g) \ {posicao[q] + 1}
         /\ Voltou(g)' = Voltou(g) \ {posicao[q] + 1}
         /\ ~Excluindo(g)' /\ ~NoMeio(g)'
<1>1. processado'[q] = processado[q] \cup {posicao[q] + 1} /\ etapa'[q] = Livre
  BY DEF Conclui, TypeOK
<1>2. ~Excluindo(g)' /\ ~NoMeio(g)'
  BY <1>1 DEF Excluindo, NoMeio, Entre, Livre
<1> QED
  BY <1>1, <1>2 DEF Envios, Espera, Voltou

(* A step that stays at its command takes nothing.                         *)
LEMMA Passado ==
  ASSUME TypeOK, NEW q \in Particoes, NEW s \in Passos, Passa(q, s), comando' = comando,
         NEW g \in Arquivos, ParticaoDe[g] = q
  PROVE  /\ Envios(g)' = Envios(g) /\ Espera(g)' = Espera(g) /\ Voltou(g)' = Voltou(g)
         /\ Comando(q)' = Comando(q)
         /\ Excluindo(g)' <=> /\ s \in {"executado", "evento"}
                              /\ Comando(q).arquivo = g /\ Comando(q).tipo = "delete"
         /\ NoMeio(g)' <=> /\ s = "evento"
                           /\ Comando(q).arquivo = g /\ Comando(q).tipo = "upload"
<1>1. etapa'[q].passo = s /\ Comando(q)' = Comando(q)
  BY DEF Passa, Vai, TypeOK, Comando
<1> QED
  BY <1>1 DEF Envios, Espera, Voltou, Excluindo, NoMeio, Entre, Passa

(* One answer more: an executed upload of this file, or none of its.       *)
LEMMA OutraResposta ==
  ASSUME TypeOK, NEW m \in Comandos, filaComando' = Publica(filaComando, m),
         NEW g \in Arquivos
  PROVE  \/ ~DoArquivo(m, g, "executado") /\ Volta(g)' = Volta(g)
         \/ /\ DoArquivo(m, g, "executado")
            /\ \E n : Volta(g)' = Volta(g) \cup {n} /\ n \notin Volta(g)
<1> DEFINE q == ParticaoDe[m.arquivo]
           r == ParticaoDe[g]
<1>1. q \in Particoes /\ r \in Particoes
  BY ParticaoAssumption DEF Comandos
<1>2. filaComando'[r] = IF q = r THEN Append(filaComando[r], m) ELSE filaComando[r]
  BY <1>1 DEF Publica, TypeOK
<1>3. DoArquivo(m, g, "executado") => q = r
  BY DEF DoArquivo
<1>4. filaComando[r] \in Seq(Comandos)
  BY <1>1, TiposEm
<1>5. q = r => Volta(g)' = Volta(g) \cup
        (IF DoArquivo(m, g, "executado") THEN {Len(filaComando[r]) + 1} ELSE {})
  BY <1>2, <1>4, OndeAnexa DEF Volta
<1>6. Len(filaComando[r]) + 1 \notin Volta(g)
  BY <1>4, Anexa DEF Volta, Onde
<1>7. q # r => Volta(g)' = Volta(g)
  BY <1>2 DEF Volta
<1> HIDE DEF DoArquivo
<1> QED
  BY <1>3, <1>5, <1>6, <1>7

(* One event more, of this file or of another.                             *)
LEMMA DitosAnexa ==
  ASSUME NEW log \in Seq(Eventos), NEW e \in Eventos, NEW f
  PROVE  /\ e.arquivo # f => DitosEm(Append(log, e), f) = DitosEm(log, f)
                              /\ (SoUploadEm(Append(log, e), f) <=> SoUploadEm(log, f))
         /\ e.arquivo = f /\ DitosEm(log, f) = {} /\ e.tipo = "upload"
              => SoUploadEm(Append(log, e), f)
<1> DEFINE n == Len(log) + 1
           novo == Append(log, e)
<1>1. /\ n \notin DOMAIN log /\ DOMAIN novo = DOMAIN log \cup {n} /\ novo[n] = e
      /\ \A i \in DOMAIN log : novo[i] = log[i]
  BY Anexa
<1> HIDE DEF n, novo
<1>2. DitosEm(novo, f) = DitosEm(log, f) \cup (IF e.arquivo = f THEN {n} ELSE {})
  BY <1>1 DEF DitosEm
<1>3. \A i \in DitosEm(log, f) : novo[i] = log[i]
  BY <1>1 DEF DitosEm
<1>4. e.arquivo # f => SoUploadEm(novo, f) <=> SoUploadEm(log, f)
  BY <1>2, <1>3 DEF SoUploadEm
<1>5. e.arquivo = f /\ DitosEm(log, f) = {} /\ e.tipo = "upload" => SoUploadEm(novo, f)
  BY <1>1, <1>2 DEF SoUploadEm
<1> QED
  BY <1>2, <1>4, <1>5 DEF novo

(* The history with an event more in the producer.                         *)
LEMMA UmEventoMais ==
  ASSUME TypeOK, NEW e \in Eventos, filaMedia' = Publica(filaMedia, e), media' = media,
         NEW g \in Arquivos
  PROVE  /\ Historia(g)' = IF ParticaoDe[e.arquivo] = ParticaoDe[g]
                           THEN Append(Historia(g), e) ELSE Historia(g)
         /\ e.arquivo # g => Ditos(g)' = Ditos(g) /\ (SoUpload(g)' <=> SoUpload(g))
         /\ e.arquivo = g /\ Ditos(g) = {} /\ e.tipo = "upload" => SoUpload(g)'
<1> DEFINE q == ParticaoDe[e.arquivo]
           r == ParticaoDe[g]
<1>1. q \in Particoes /\ r \in Particoes
  BY ParticaoAssumption DEF Eventos
<1>2. filaMedia'[r] = IF q = r THEN Append(filaMedia[r], e) ELSE filaMedia[r]
  BY <1>1 DEF Publica, TypeOK
<1>3. media[r] \in Seq(Eventos) /\ filaMedia[r] \in Seq(Eventos) /\ Historia(g) \in Seq(Eventos)
      /\ Historia(g) = media[r] \o filaMedia[r]
  BY <1>1, TiposEm DEF Historia
<1>4. Historia(g)' = media[r] \o filaMedia'[r]
  BY <1>1 DEF Historia, Anunciados
<1>5. Historia(g)' = IF q = r THEN Append(Historia(g), e) ELSE Historia(g)
  <2>1. CASE q = r
    <3>1. Historia(g)' = media[r] \o Append(filaMedia[r], e)
      BY <1>2, <1>4, <2>1
    <3>2. media[r] \o Append(filaMedia[r], e) = Append(media[r] \o filaMedia[r], e)
      <4>1. \A s, t \in Seq(Eventos) : s \o Append(t, e) = Append(s \o t, e)
        BY AnexaDepois
      <4> QED
        BY <1>3, <4>1
    <3> QED
      BY <1>3, <2>1, <3>1, <3>2
  <2>2. CASE q # r
    BY <1>2, <1>3, <1>4, <2>2
  <2> QED
    BY <2>1, <2>2
<1>6. CASE q = r
  <2>1. /\ e.arquivo # g => DitosEm(Append(Historia(g), e), g) = DitosEm(Historia(g), g)
              /\ (SoUploadEm(Append(Historia(g), e), g) <=> SoUploadEm(Historia(g), g))
        /\ e.arquivo = g /\ DitosEm(Historia(g), g) = {} /\ e.tipo = "upload"
              => SoUploadEm(Append(Historia(g), e), g)
    BY <1>3, DitosAnexa
  <2>2. Ditos(g)' = DitosEm(Append(Historia(g), e), g)
        /\ (SoUpload(g)' <=> SoUploadEm(Append(Historia(g), e), g))
    BY <1>5, <1>6 DEF Ditos, SoUpload
  <2> QED
    BY <1>5, <2>1, <2>2 DEF Ditos, SoUpload
<1>7. CASE q # r
  BY <1>5, <1>7 DEF Ditos, SoUpload
<1> QED
  BY <1>5, <1>6, <1>7

(* The files the step is not about.                                        *)
LEMMA OutroArquivo ==
  ASSUME TypeOK, NEW q \in Particoes, NoLugar(q), PassoEm(q),
         NEW g \in Arquivos, g # Comando(q).arquivo
  PROVE  Igual(g)
<1>1. CASE ParticaoDe[g] # q
  <2>1. Parada(ParticaoDe[g])
    BY <1>1, OutraParticao, ParticaoAssumption
  <2> QED
    BY <2>1, ParadaIgual DEF PassoEm
<1>2. CASE ParticaoDe[g] = q
  <2>1. Ditos(g)' = Ditos(g) /\ (SoUpload(g)' <=> SoUpload(g))
    <3>1. CASE filaMedia' = filaMedia
      BY <3>1, HistoriaParada, MesmaHistoria DEF PassoEm
    <3>2. CASE Anuncia(q)
      BY <3>2, UmEventoMais DEF Anuncia, PassoEm
    <3> QED
      BY <3>1, <3>2 DEF PassoEm
  <2>2. Volta(g)' = Volta(g)
    <3>1. CASE filaComando' = filaComando
      BY <3>1 DEF Volta
    <3>2. CASE Responde(q)
      <4>1. PICK m \in Comandos : m.arquivo = Comando(q).arquivo
                                  /\ filaComando' = Publica(filaComando, m)
        BY <3>2 DEF Responde
      <4>2. ~DoArquivo(m, g, "executado")
        BY <4>1 DEF DoArquivo
      <4> QED
        BY <4>1, <4>2, OutraResposta
    <3> QED
      BY <3>1, <3>2 DEF PassoEm
  <2>3. ~Excluindo(g) /\ ~NoMeio(g)
    BY <1>2 DEF Excluindo, NoMeio, Entre
  <2>4. /\ posicao[q] + 1 \notin Espera(g) /\ posicao[q] + 1 \notin Voltou(g)
    BY <1>2 DEF Espera, Envios, Voltou, Onde, DoArquivo, Comando
  <2>5. /\ Envios(g)' = Envios(g) /\ Espera(g)' = Espera(g) /\ Voltou(g)' = Voltou(g)
        /\ ~Excluindo(g)' /\ ~NoMeio(g)'
    <3>1. CASE Conclui(q)
      BY <1>2, <2>4, <3>1, Concluido DEF PassoEm
    <3>2. ASSUME NEW s \in Passos, Passa(q, s)
          PROVE  /\ Envios(g)' = Envios(g) /\ Espera(g)' = Espera(g) /\ Voltou(g)' = Voltou(g)
                 /\ ~Excluindo(g)' /\ ~NoMeio(g)'
      BY <1>2, <3>2, Passado DEF PassoEm
    <3> QED
      BY <3>1, <3>2 DEF PassoEm
  <2> QED
    BY <2>1, <2>2, <2>3, <2>5 DEF PassoEm, Igual
<1> QED
  BY <1>1, <1>2

-----------------------------------------------------------------------------
(* Every step of a handler is such a step.                                 *)
LEMMA RejeitaPasso ==
  ASSUME TypeOK, NEW q \in Particoes, TemComando(q), Rejeita(q)
  PROVE  /\ Responde(q) /\ Conclui(q)
         /\ \A g \in Arquivos : Volta(g)' = Volta(g)
<1> DEFINE m == [Comando(q) EXCEPT !.status = "rejeitado"]
<1>1. m \in Comandos /\ m.arquivo = Comando(q).arquivo /\ m.status = "rejeitado"
  BY ComandoTipo DEF Comandos, Status
<1>2. filaComando' = Publica(filaComando, m) /\ Conclui(q)
  BY DEF Rejeita
<1> HIDE DEF m
<1>3. \A g : ~DoArquivo(m, g, "executado")
  BY <1>1 DEF DoArquivo
<1> QED
  BY <1>1, <1>2, <1>3, OutraResposta DEF Responde

Recusa(q) == RejeitaInvalido(q) \/ RejeitaDelete(q) \/ SemConexao(q)
             \/ FalhaUpload(q) \/ FalhaDelete(q) \/ FalhaUpdate(q)

(* The upsert writes one row.                                              *)
LEMMA SalvaSoUm ==
  ASSUME TypeOK, NEW c \in Comandos
  PROVE  /\ \A g \in Arquivos : g # c.arquivo => Salva(c)[g] = registro[g]
         /\ Salva(c)[c.arquivo].hash = c.hash
BY DEF Salva, TypeOK, Comandos

(* A rejection: what it changes and what it leaves alone.                  *)
LEMMA RecusaPasso ==
  ASSUME TypeOK, NEW q \in Particoes, processo # "encerra", Recusa(q)
  PROVE  /\ TemComando(q) /\ Rejeita(q) /\ comando' = comando /\ media' = media /\ temp' = temp
         /\ processo' # "encerra" /\ filaMedia' = filaMedia
         /\ \A g \in Arquivos : g # Comando(q).arquivo => registro'[g] = registro[g]
         /\ etapa[q].passo \notin {"executado", "evento"}
         /\ \/ \A g \in Arquivos : registro'[g] = registro[g] \/ registro'[g] = Nenhum
            \/ Trata(q, "executado", "upload") /\ registro' = Salva(Comando(q))
<1>1. CASE RejeitaInvalido(q) \/ RejeitaDelete(q) \/ SemConexao(q) \/ FalhaUpload(q)
  BY <1>1 DEF RejeitaInvalido, RejeitaDelete, SemConexao, FalhaUpload, Trata, Em, midiaVars
<1>2. CASE FalhaDelete(q)
  <2>1. /\ TemComando(q) /\ Rejeita(q) /\ comando' = comando /\ media' = media /\ temp' = temp
        /\ processo' # "encerra" /\ filaMedia' = filaMedia /\ etapa[q].passo = "livre"
        /\ registro' \in {registro, [registro EXCEPT ![Comando(q).arquivo] = Nenhum]}
    BY <1>2 DEF FalhaDelete, FalhaSQL, Trata, midiaVars
  <2> QED
    BY <2>1 DEF TypeOK
<1>3. CASE FalhaUpdate(q)
  <2>1. /\ TemComando(q) /\ Rejeita(q) /\ comando' = comando /\ media' = media /\ temp' = temp
        /\ processo' # "encerra" /\ filaMedia' = filaMedia /\ etapa[q].passo = "livre"
        /\ registro' \in {registro, Salva(Comando(q))} /\ Trata(q, "executado", "upload")
    BY <1>3 DEF FalhaUpdate, FalhaSQL, Trata, midiaVars
  <2>2. \A g \in Arquivos : g # Comando(q).arquivo => Salva(Comando(q))[g] = registro[g]
    BY <2>1, ComandoTipo, SalvaSoUm
  <2> QED
    BY <2>1, <2>2
<1> QED
  BY <1>1, <1>2, <1>3 DEF Recusa

(* A handler that moves on, at a command not handled before.               *)
LEMMA VaiPasso ==
  ASSUME NEW q \in Particoes, NoLugar(q), NEW s \in Passos, NEW u, NEW h, Vai(q, s, u, h),
         UNCHANGED <<posicao, processado>>,
         \/ posicao[q] + 1 \notin processado[q]
         \/ etapa[q] # Livre,
         s \in {"photo", "thumbnail"} => Comando(q).tipo = "upload"
  PROVE  Passa(q, s)
BY DEF Passa, NoLugar

(* Every step of a handler, refused or not, is a step as described.        *)
LEMMA HandlerPasso ==
  ASSUME TypeOK, NEW q \in Particoes, processo # "encerra", NoLugar(q), Handler(q) \/ Recusa(q)
  PROVE  PassoEm(q)
<1>1. CASE Recusa(q)
  BY <1>1, RecusaPasso, RejeitaPasso DEF PassoEm
<1>2. CASE VerificaPhoto(q)
  <2> DEFINE s == IF temp[Comando(q).arquivo] \in photos THEN "executado" ELSE "photo"
  <2>1. s \in Passos
    BY DEF Passos
  <2>2. /\ Vai(q, s, Comando(q).usuario, temp[Comando(q).arquivo])
        /\ UNCHANGED <<posicao, processado>> /\ posicao[q] + 1 \notin processado[q]
        /\ Comando(q).tipo = "upload"
    BY <1>2 DEF VerificaPhoto, Trata
  <2> HIDE DEF s
  <2>3. Passa(q, s)
    BY <2>1, <2>2, VaiPasso
  <2> QED
    BY <1>2, <2>1, <2>3 DEF VerificaPhoto, Trata, midiaVars, PassoEm
<1>3. CASE AddPhoto(q) \/ AddThumbnail(q)
  <2>1. /\ etapa[q] # Livre /\ etapa[q].passo \in {"photo", "thumbnail"}
        /\ UNCHANGED <<posicao, processado>>
        /\ \E s \in {"thumbnail", "executado"} : Vai(q, s, etapa[q].usuario, etapa[q].hash)
    BY <1>3 DEF AddPhoto, AddThumbnail, Em, Livre
  <2>2. PICK s \in {"thumbnail", "executado"} : Vai(q, s, etapa[q].usuario, etapa[q].hash)
    BY <2>1
  <2>3. s \in Passos /\ Comando(q).tipo = "upload"
    BY <2>1 DEF Passos, NoLugar
  <2>4. Passa(q, s)
    BY <2>1, <2>2, <2>3, VaiPasso
  <2> QED
    BY <1>3, <2>3, <2>4 DEF AddPhoto, AddThumbnail, Em, PassoEm
<1>4. CASE DeleteRegistro(q)
  <2>1. /\ Vai(q, "executado", Comando(q).usuario, registro[Comando(q).arquivo].hash)
        /\ UNCHANGED <<posicao, processado>> /\ posicao[q] + 1 \notin processado[q]
        /\ "executado" \in Passos
    BY <1>4 DEF DeleteRegistro, Trata, Passos
  <2>2. Passa(q, "executado")
    BY <2>1, VaiPasso
  <2>3. \A g \in Arquivos : g # Comando(q).arquivo => registro'[g] = registro[g]
    BY <1>4 DEF DeleteRegistro, TypeOK
  <2> QED
    BY <1>4, <2>1, <2>2, <2>3 DEF DeleteRegistro, Trata, midiaVars, PassoEm
<1>5. CASE UpdateRegistro(q)
  <2>1. TemComando(q) /\ registro' = Salva(Comando(q)) /\ Conclui(q)
    BY <1>5 DEF UpdateRegistro, Trata
  <2>2. \A g \in Arquivos : g # Comando(q).arquivo => registro'[g] = registro[g]
    BY <2>1, ComandoTipo, SalvaSoUm
  <2> QED
    BY <1>5, <2>1, <2>2 DEF UpdateRegistro, midiaVars, PassoEm
<1>6. CASE IgnoraComando(q)
  BY <1>6 DEF IgnoraComando, midiaVars, PassoEm
<1>7. CASE ProduzExecutado(q)
  <2>1. TemComando(q) /\ etapa[q].hash \in Hashes /\ Comando(q) \in Comandos /\ etapa[q] # Livre
    BY <1>7, EtapaTipo, ComandoTipo DEF ProduzExecutado, Passos, Em, Livre
  <2>2. Executado(q) \in Comandos /\ Executado(q).arquivo = Comando(q).arquivo
        /\ Executado(q).status # "pendente"
    BY <2>1 DEF Executado, Comandos, Status
  <2>3. filaComando' = filaComando \/ Responde(q)
    BY <1>7, <2>2 DEF ProduzExecutado, Responde
  <2>4. Vai(q, "evento", etapa[q].usuario, etapa[q].hash) /\ UNCHANGED <<posicao, processado>>
        /\ "evento" \in Passos
    BY <1>7 DEF ProduzExecutado, Passos
  <2>5. Passa(q, "evento")
    BY <2>1, <2>4, VaiPasso
  <2> QED
    BY <1>7, <2>1, <2>3, <2>4, <2>5 DEF ProduzExecutado, midiaVars, PassoEm
<1>8. CASE ProduzEvento(q)
  <2>1. TemComando(q) /\ etapa[q].hash \in Hashes /\ etapa[q].usuario \in Usuarios
    BY <1>8, EtapaTipo DEF ProduzEvento, Passos
  <2>2. EventoDe(q) \in Eventos /\ EventoDe(q).arquivo = Comando(q).arquivo
    BY <2>1, ComandoTipo DEF EventoDe, NewEvent, Eventos
  <2>3. filaMedia' = filaMedia \/ Anuncia(q)
    BY <1>8, <2>2 DEF ProduzEvento, Anuncia
  <2> QED
    BY <1>8, <2>1, <2>3 DEF ProduzEvento, midiaVars, PassoEm
<1> QED
  BY <1>1, <1>2, <1>3, <1>4, <1>5, <1>6, <1>7, <1>8 DEF Handler, Recusa

(* Its partition stays in order.                                           *)
LEMMA PassoLugar ==
  ASSUME TypeOK, NEW q \in Particoes, NoLugar(q), PassoEm(q)
  PROVE  NoLugar(q)'
<1>1. \A i \in DOMAIN comando'[q] : ParticaoDe[comando'[q][i].arquivo] = q
  BY DEF PassoEm, NoLugar
<1>2. \A i \in DOMAIN filaComando'[q] :
        ParticaoDe[filaComando'[q][i].arquivo] = q /\ filaComando'[q][i].status # "pendente"
  <2>1. CASE filaComando' = filaComando
    BY <2>1 DEF NoLugar
  <2>2. CASE Responde(q)
    <3>1. PICK m \in Comandos : /\ m.arquivo = Comando(q).arquivo /\ m.status # "pendente"
                                /\ filaComando' = Publica(filaComando, m)
      BY <2>2 DEF Responde
    <3>2. ParticaoDe[m.arquivo] = q
      BY <3>1, ArquivoDaqui DEF PassoEm
    <3>3. filaComando'[q] = Append(filaComando[q], m) /\ filaComando[q] \in Seq(Comandos)
      BY <3>1, <3>2 DEF Publica, TypeOK
    <3>4. /\ DOMAIN Append(filaComando[q], m) = DOMAIN filaComando[q] \cup {Len(filaComando[q]) + 1}
          /\ Append(filaComando[q], m)[Len(filaComando[q]) + 1] = m
          /\ \A i \in DOMAIN filaComando[q] : Append(filaComando[q], m)[i] = filaComando[q][i]
      BY <3>3, Anexa
    <3> QED
      BY <3>1, <3>2, <3>3, <3>4 DEF NoLugar
  <2> QED
    BY <2>1, <2>2 DEF PassoEm
<1>3. CASE Conclui(q)
  BY <1>1, <1>2, <1>3 DEF Conclui, NoLugar, Livre, TypeOK
<1>4. ASSUME NEW s \in Passos, Passa(q, s)
      PROVE  NoLugar(q)'
  <2>1. etapa'[q].passo = s /\ Comando(q)' = Comando(q)
        /\ posicao'[q] = posicao[q] /\ processado'[q] = processado[q]
    BY <1>4 DEF Passa, Vai, TypeOK, Comando, PassoEm
  <2> QED
    BY <1>1, <1>2, <1>4, <2>1 DEF NoLugar, Passa
<1> QED
  BY <1>3, <1>4 DEF PassoEm

-----------------------------------------------------------------------------
(* The file the step is about, one lemma per kind of step.  In all of them *)
(* only the handler's own command leaves what waits.                       *)
LEMMA VidaFim ==
  ASSUME TypeOK, NEW q \in Particoes, NEW f \in Arquivos, ParticaoDe[f] = q, Vida(f), Conclui(q),
         UNCHANGED <<comando, temp, media, filaMedia>>, Volta(f)' = Volta(f), PerdasFicam,
         etapa[q].passo \notin {"executado", "evento"},
         registro'[f] = registro[f] \/ registro'[f] = Nenhum
  PROVE  Vida(f)'
<1>1. /\ Envios(f)' = Envios(f) /\ Espera(f)' \subseteq Espera(f) /\ Voltou(f)' \subseteq Voltou(f)
      /\ ~Excluindo(f)' /\ ~NoMeio(f)'
  BY Concluido
<1>2. ~NoMeio(f)
  BY DEF NoMeio, Entre
<1>3. Ditos(f)' = Ditos(f) /\ (SoUpload(f)' <=> SoUpload(f))
  BY HistoriaParada, MesmaHistoria
<1> QED
  BY <1>1, <1>2, <1>3, Encolhe

(* The row is written when the executed upload is back, and it was the     *)
(* only one.                                                               *)
LEMMA VidaLinha ==
  ASSUME TypeOK, NEW q \in Particoes, NEW f \in Arquivos, NoLugar(q), Vida(f),
         f = Comando(q).arquivo, Trata(q, "executado", "upload"), Conclui(q),
         UNCHANGED <<comando, temp, media, filaMedia>>, Volta(f)' = Volta(f), PerdasFicam
  PROVE  Vida(f)'
<1> DEFINE k == posicao[q] + 1
<1>1. TemComando(q) /\ ParticaoDe[f] = q /\ k \in DOMAIN comando[q]
  BY ArquivoDaqui DEF Trata
<1>2. k \in Voltou(f)
  BY <1>1 DEF Voltou, Onde, DoArquivo, Trata, Comando
<1>3. /\ Envios(f)' = Envios(f) /\ Espera(f)' = Espera(f) \ {k} /\ Voltou(f)' = Voltou(f) \ {k}
      /\ ~Excluindo(f)' /\ ~NoMeio(f)'
  BY <1>1, Concluido
<1>4. ~NoMeio(f)
  BY <1>1 DEF NoMeio, Entre, Trata
<1>5. Ditos(f)' = Ditos(f) /\ (SoUpload(f)' <=> SoUpload(f))
  BY <1>1, HistoriaParada, MesmaHistoria
<1> HIDE DEF k
<1>6. Retorno(f) # {}
  BY <1>2 DEF Retorno
<1>7. Conhecido(f) /\ Espera(f) = {}
  BY <1>4, <1>6 DEF Vida, UmaVida
<1>8. Voltou(f) = {k} /\ Volta(f) = {}
  BY <1>2 DEF Vida, UmaVolta, Unico
<1>9. Espera(f)' = {} /\ Voltou(f)' = {} /\ Volta(f)' = {}
  BY <1>3, <1>7, <1>8
<1>10. Retorno(f)' = {}
  BY <1>9 DEF Retorno
<1>11. UmEnvio(f)' /\ UmaVolta(f)'
  BY <1>3, <1>9 DEF Vida, UmEnvio, UmaVolta, Unico
<1>12. Conhecido(f)'
  BY <1>5, <1>7 DEF Conhecido, Calado, PerdasFicam
<1>13. UmaVida(f)'
  BY <1>3, <1>9, <1>10, <1>12 DEF UmaVida
<1> QED
  BY <1>11, <1>13 DEF Vida

(* On the way to the two messages of an upload.                            *)
LEMMA VidaAvanca ==
  ASSUME TypeOK, NEW q \in Particoes, NEW f \in Arquivos, ParticaoDe[f] = q, Vida(f),
         NEW s \in Passos, Passa(q, s), s # "evento", Comando(q).tipo = "upload",
         etapa[q].passo \notin {"executado", "evento"},
         UNCHANGED <<comando, temp, media, filaMedia, filaComando, registro>>, PerdasFicam
  PROVE  Vida(f)'
<1>1. /\ Envios(f)' = Envios(f) /\ Espera(f)' = Espera(f) /\ Voltou(f)' = Voltou(f)
      /\ ~Excluindo(f)' /\ ~NoMeio(f)'
  BY Passado
<1>2. ~NoMeio(f)
  BY DEF NoMeio, Entre
<1>3. Ditos(f)' = Ditos(f) /\ (SoUpload(f)' <=> SoUpload(f))
  BY HistoriaParada, MesmaHistoria
<1>4. Volta(f)' = Volta(f)
  BY DEF Volta
<1> QED
  BY <1>1, <1>2, <1>3, <1>4, Encolhe

(* The row is found and deleted.                                           *)
LEMMA VidaDeleta ==
  ASSUME TypeOK, NEW q \in Particoes, NEW f \in Arquivos, ParticaoDe[f] = q, Vida(f),
         f = Comando(q).arquivo, Comando(q).tipo = "delete", Passa(q, "executado"),
         registro[f] # Nenhum, registro'[f] = Nenhum,
         UNCHANGED <<comando, temp, media, filaMedia, filaComando>>, PerdasFicam
  PROVE  Vida(f)'
<1>1. /\ Envios(f)' = Envios(f) /\ Espera(f)' = Espera(f) /\ Voltou(f)' = Voltou(f)
      /\ Excluindo(f)' /\ ~NoMeio(f)'
  BY Passado DEF Passos
<1>2. Volta(f)' = Volta(f)
  BY DEF Volta
<1>3. Ditos(f)' = Ditos(f) /\ (SoUpload(f)' <=> SoUpload(f))
  BY HistoriaParada, MesmaHistoria
<1>4. Conhecido(f) /\ Espera(f) = {} /\ Retorno(f) = {}
  BY DEF Vida, UmaVida
<1>5. Retorno(f)' = {}
  BY <1>1, <1>2, <1>4 DEF Retorno
<1>6. UmEnvio(f)' /\ UmaVolta(f)'
  BY <1>1, <1>2 DEF Vida, UmEnvio, UmaVolta, Unico
<1>7. UmaVida(f)'
  BY <1>1, <1>3, <1>4, <1>5 DEF UmaVida, Conhecido, Calado, PerdasFicam
<1> QED
  BY <1>6, <1>7 DEF Vida

(* The executed command is produced: of the upload, which is the first     *)
(* one, or of the deletion under way.                                      *)
LEMMA VidaExecutado ==
  ASSUME TypeOK, Proveniencia, NEW q \in Particoes, NEW f \in Arquivos, NoLugar(q), Vida(f),
         f = Comando(q).arquivo, ProduzExecutado(q), PerdasFicam
  PROVE  Vida(f)'
<1>1. /\ TemComando(q) /\ etapa[q] # Livre /\ etapa[q].passo = "executado"
      /\ etapa[q].hash \in Hashes /\ Comando(q) \in Comandos
      /\ UNCHANGED <<comando, temp, media, filaMedia, registro>>
      /\ filaComando' = filaComando \/ filaComando' = Publica(filaComando, Executado(q))
  BY EtapaTipo, ComandoTipo DEF ProduzExecutado, Em, Livre, Passos, midiaVars
<1>2. ParticaoDe[f] = q /\ posicao[q] + 1 \in DOMAIN comando[q]
  BY <1>1, ArquivoDaqui
<1>3. Passa(q, "evento") /\ "evento" \in Passos
  <2>1. Vai(q, "evento", etapa[q].usuario, etapa[q].hash) /\ UNCHANGED <<posicao, processado>>
        /\ "evento" \in Passos
    BY DEF ProduzExecutado, Passos
  <2> QED
    BY <1>1, <2>1, VaiPasso
<1>4. /\ Envios(f)' = Envios(f) /\ Espera(f)' = Espera(f) /\ Voltou(f)' = Voltou(f)
      /\ Excluindo(f)' <=> Comando(q).tipo = "delete"
      /\ NoMeio(f)' <=> Comando(q).tipo = "upload"
  BY <1>1, <1>2, <1>3, Passado
<1>5. ~NoMeio(f) /\ (Excluindo(f) <=> Comando(q).tipo = "delete")
  BY <1>1, <1>2 DEF NoMeio, Excluindo, Entre
<1>6. Ditos(f)' = Ditos(f) /\ (SoUpload(f)' <=> SoUpload(f))
  BY <1>1, HistoriaParada, MesmaHistoria
<1>7. \/ Volta(f)' = Volta(f)
      \/ Comando(q).tipo = "upload" /\ \E n : Volta(f)' = Volta(f) \cup {n}
  <2>1. CASE filaComando' = filaComando
    BY <2>1 DEF Volta
  <2>2. CASE filaComando' = Publica(filaComando, Executado(q))
    <3>1. Executado(q) \in Comandos /\ Executado(q).tipo = Comando(q).tipo
      BY <1>1 DEF Executado, Comandos, Status
    <3>2. DoArquivo(Executado(q), f, "executado") => Comando(q).tipo = "upload"
      BY <3>1 DEF DoArquivo
    <3> HIDE DEF DoArquivo
    <3> QED
      BY <2>2, <3>1, <3>2, OutraResposta
  <2> QED
    BY <1>1, <2>1, <2>2
<1>8. UmEnvio(f)'
  BY <1>1, <1>4 DEF Vida, UmEnvio, Unico
<1>9. CASE Comando(q).tipo = "upload"
  <2>1. Comando(q).status = "pendente"
    BY <1>1 DEF Proveniencia, EtapasProvadas, EtapaProvada
  <2>2. posicao[q] + 1 \in Espera(f)
    BY <1>1, <1>2, <1>9, <2>1 DEF Espera, Envios, Onde, DoArquivo, Comando, NoLugar
  <2>3. Ditos(f) = {} /\ registro[f] = Nenhum /\ Retorno(f) = {}
    BY <1>5, <2>2 DEF Vida, UmaVida
  <2>4. Volta(f) = {} /\ Voltou(f) = {}
    BY <2>3 DEF Retorno
  <2>5. UmaVolta(f)'
    BY <1>4, <1>7, <2>4 DEF UmaVolta, Unico
  <2>6. Comando(q).tipo # "delete"
    BY <1>9
  <2>7. UmaVida(f)'
    BY <1>1, <1>4, <1>6, <1>9, <2>3, <2>6 DEF UmaVida
  <2> QED
    BY <1>8, <2>5, <2>7 DEF Vida
<1>10. CASE Comando(q).tipo = "delete"
  <2>1. Volta(f)' = Volta(f) /\ ~NoMeio(f)'
    BY <1>4, <1>7, <1>10
  <2> QED
    BY <1>1, <1>4, <1>5, <1>6, <1>10, <2>1, Encolhe
<1> QED
  BY <1>1, <1>9, <1>10 DEF Comandos, Tipos

(* The event is produced: the first of the file, or that of its deletion.  *)
LEMMA VidaEvento ==
  ASSUME TypeOK, Proveniencia, NEW q \in Particoes, NEW f \in Arquivos, NoLugar(q), Vida(f),
         f = Comando(q).arquivo, ProduzEvento(q),
         \/ filaMedia' = Publica(filaMedia, EventoDe(q))
         \/ filaMedia' = filaMedia /\ gasto'["perdas"] # 0
  PROVE  Vida(f)'
<1> DEFINE k == posicao[q] + 1
<1>1. /\ TemComando(q) /\ etapa[q] # Livre /\ etapa[q].passo = "evento"
      /\ etapa[q].hash \in Hashes /\ etapa[q].usuario \in Usuarios /\ Comando(q) \in Comandos
      /\ UNCHANGED <<comando, temp, media, filaComando, registro>> /\ Conclui(q)
  BY EtapaTipo, ComandoTipo DEF ProduzEvento, Em, Livre, Passos, midiaVars
<1>2. ParticaoDe[f] = q /\ k \in DOMAIN comando[q]
  BY <1>1, ArquivoDaqui
<1>3. /\ Envios(f)' = Envios(f) /\ Espera(f)' = Espera(f) \ {k} /\ Voltou(f)' = Voltou(f) \ {k}
      /\ ~Excluindo(f)' /\ ~NoMeio(f)'
  BY <1>1, <1>2, Concluido
<1>4. Volta(f)' = Volta(f)
  BY <1>1 DEF Volta
<1>5. /\ EventoDe(q) \in Eventos /\ EventoDe(q).arquivo = f
      /\ EventoDe(q).tipo = Comando(q).tipo
  BY <1>1, ComandoTipo DEF EventoDe, NewEvent, Eventos
<1>6. UmEnvio(f)'
  BY <1>1, <1>3 DEF Vida, UmEnvio, Unico
<1>7. UmaVolta(f)'
  BY <1>3, <1>4 DEF Vida, UmaVolta, Unico
<1>8. CASE Comando(q).tipo = "upload"
  <2>1. Comando(q).status = "pendente"
    BY <1>1 DEF Proveniencia, EtapasProvadas, EtapaProvada
  <2>2. k \in Espera(f)
    BY <1>1, <1>2, <1>8, <2>1 DEF Espera, Envios, Onde, DoArquivo, Comando, NoLugar
  <2> HIDE DEF k
  <2>3. Ditos(f) = {} /\ registro[f] = Nenhum
    BY <2>2 DEF Vida, UmaVida
  <2>4. Conhecido(f)'
    <3>1. CASE filaMedia' = Publica(filaMedia, EventoDe(q))
      BY <1>1, <1>5, <1>8, <2>3, <3>1, UmEventoMais DEF Conhecido
    <3>2. CASE filaMedia' = filaMedia /\ gasto'["perdas"] # 0
      <4>1. Ditos(f)' = Ditos(f)
        BY <1>1, <3>2, HistoriaParada, MesmaHistoria
      <4> QED
        BY <2>3, <3>2, <4>1 DEF Conhecido, Calado
    <3> QED
      BY <3>1, <3>2
  <2>5. Espera(f)' = {}
    BY <1>3, <2>2 DEF Espera, Vida, UmEnvio, Unico
  <2>6. UmaVida(f)'
    BY <1>1, <1>3, <2>3, <2>4, <2>5 DEF UmaVida
  <2> QED
    BY <1>6, <1>7, <2>6 DEF Vida
<1>9. CASE Comando(q).tipo = "delete"
  <2>1. Excluindo(f)
    BY <1>1, <1>2, <1>9 DEF Excluindo, Entre
  <2> HIDE DEF k
  <2>2. Espera(f) = {} /\ Retorno(f) = {} /\ registro[f] = Nenhum
    BY <2>1 DEF Vida, UmaVida
  <2>3. Espera(f)' = {} /\ Retorno(f)' = {} /\ registro'[f] = Nenhum
    BY <1>1, <1>3, <1>4, <2>2 DEF Retorno
  <2>4. UmaVida(f)'
    BY <1>3, <2>3 DEF UmaVida
  <2> QED
    BY <1>6, <1>7, <2>4 DEF Vida
<1> QED
  BY <1>1, <1>8, <1>9 DEF Comandos, Tipos

(* Together: a step of a handler keeps every life.                         *)
LEMMA HandlerVida ==
  ASSUME TypeOK, Proveniencia, NEW q \in Particoes, processo # "encerra", NoLugar(q),
         Handler(q) \/ Recusa(q), PerdasFicam, NEW g \in Arquivos, Vida(g)
  PROVE  Vida(g)'
<1>1. PassoEm(q)
  BY HandlerPasso
<1>2. CASE g # Comando(q).arquivo
  BY <1>1, <1>2, OutroArquivo, IgualVida
<1> SUFFICES ASSUME g = Comando(q).arquivo PROVE Vida(g)'
  BY <1>2
<1>3. ParticaoDe[g] = q /\ TemComando(q)
  BY <1>1, ArquivoDaqui DEF PassoEm
<1>4. CASE Recusa(q)
  <2>1. /\ Conclui(q) /\ UNCHANGED <<comando, temp, media, filaMedia>> /\ Volta(g)' = Volta(g)
        /\ etapa[q].passo \notin {"executado", "evento"}
        /\ \/ registro'[g] = registro[g] \/ registro'[g] = Nenhum
           \/ Trata(q, "executado", "upload")
    BY <1>4, RecusaPasso, RejeitaPasso
  <2> QED
    BY <1>3, <2>1, VidaFim, VidaLinha
<1>5. CASE IgnoraComando(q)
  <2>1. /\ Conclui(q) /\ UNCHANGED <<comando, temp, media, filaMedia>> /\ Volta(g)' = Volta(g)
        /\ etapa[q].passo \notin {"executado", "evento"} /\ registro'[g] = registro[g]
    BY <1>5 DEF IgnoraComando, midiaVars, Volta
  <2> QED
    BY <1>3, <2>1, VidaFim
<1>6. CASE UpdateRegistro(q)
  <2>1. /\ Conclui(q) /\ UNCHANGED <<comando, temp, media, filaMedia>> /\ Volta(g)' = Volta(g)
        /\ Trata(q, "executado", "upload")
    BY <1>6 DEF UpdateRegistro, midiaVars, Volta
  <2> QED
    BY <2>1, VidaLinha
<1>7. CASE VerificaPhoto(q) \/ AddPhoto(q) \/ AddThumbnail(q)
  <2>1. /\ UNCHANGED <<comando, temp, media, filaMedia, filaComando, registro>>
        /\ etapa[q].passo \notin {"executado", "evento"}
        /\ Comando(q).tipo = "upload"
    BY <1>7 DEF VerificaPhoto, AddPhoto, AddThumbnail, Em, Trata, midiaVars, NoLugar
  <2>2. \E s \in Passos : s # "evento" /\ Passa(q, s)
    <3>1. ~Conclui(q)
      <4>1. posicao' = posicao /\ posicao[q] \in Nat
        BY <1>7 DEF VerificaPhoto, AddPhoto, AddThumbnail, TypeOK
      <4> QED
        BY <4>1 DEF Conclui, TypeOK
    <3>2. PICK s \in Passos : Passa(q, s)
      BY <1>1, <3>1 DEF PassoEm
    <3>3. etapa'[q].passo # "evento"
      BY <1>7 DEF VerificaPhoto, AddPhoto, AddThumbnail, Vai, TypeOK
    <3>4. etapa'[q].passo = s
      BY <3>2 DEF Passa, Vai, TypeOK
    <3> QED
      BY <3>2, <3>3, <3>4
  <2> QED
    BY <1>3, <2>1, <2>2, VidaAvanca
<1>8. CASE DeleteRegistro(q)
  <2>1. /\ UNCHANGED <<comando, temp, media, filaMedia, filaComando, posicao, processado>>
        /\ Comando(q).tipo = "delete" /\ registro[g] # Nenhum /\ registro'[g] = Nenhum
        /\ Vai(q, "executado", Comando(q).usuario, registro[g].hash)
        /\ posicao[q] + 1 \notin processado[q] /\ "executado" \in Passos
    BY <1>8 DEF DeleteRegistro, DoUsuario, Trata, midiaVars, TypeOK, Passos
  <2>2. Passa(q, "executado")
    BY <2>1, VaiPasso
  <2> QED
    BY <1>3, <2>1, <2>2, VidaDeleta
<1>9. CASE ProduzExecutado(q)
  BY <1>9, VidaExecutado
<1>10. CASE ProduzEvento(q)
  <2>1. \/ filaMedia' = Publica(filaMedia, EventoDe(q))
        \/ filaMedia' = filaMedia /\ gasto'["perdas"] # 0
    <3>1. Gasta("perdas", MaxPerdas) => gasto'["perdas"] # 0
      BY DEF Gasta, TypeOK, Gastos
    <3> QED
      BY <1>10, <3>1 DEF ProduzEvento
  <2> QED
    BY <1>10, <2>1, VidaEvento
<1> QED
  BY <1>4, <1>5, <1>6, <1>7, <1>8, <1>9, <1>10 DEF Handler, Recusa

-----------------------------------------------------------------------------
(* A command more in the topic: from a user, or an answer delivered.       *)
NoFim(c) ==
  /\ c.arquivo \in Arquivos /\ comando' = Publica(comando, c)
  /\ UNCHANGED <<media, registro, posicao, processado, etapa, filaMedia>>

(* What it adds to a file: its upload, its executed upload, or nothing.    *)
LEMMA ComandoAoFim ==
  ASSUME TypeOK, Proveniencia, [Next]_vars, NEW c \in Comandos, NoFim(c), NEW f \in Arquivos
  PROVE  /\ DoArquivo(c, f, "pendente") \/ Envios(f)' = Envios(f)
         /\ Envios(f)' \subseteq Envios(f) \cup {Len(comando[ParticaoDe[f]]) + 1}
         /\ Espera(f)' \subseteq Espera(f) \cup (Envios(f)' \ Envios(f))
         /\ DoArquivo(c, f, "executado") \/ Voltou(f)' = Voltou(f)
         /\ Voltou(f)' \subseteq Voltou(f) \cup {Len(comando[ParticaoDe[f]]) + 1}
         /\ Excluindo(f)' <=> Excluindo(f)
         /\ NoMeio(f)' <=> NoMeio(f)
         /\ Ditos(f)' = Ditos(f) /\ (SoUpload(f)' <=> SoUpload(f))
<1> DEFINE p == ParticaoDe[f]
           n == Len(comando[p]) + 1
<1>1. p \in Particoes /\ comando[p] \in Seq(Comandos)
  BY TiposEm, ParticaoAssumption
<1>2. comando'[p] = IF p = ParticaoDe[c.arquivo] THEN Append(comando[p], c) ELSE comando[p]
  BY <1>1 DEF NoFim, Publica, TypeOK, MidiaTypeOK
<1>3. \A st : DoArquivo(c, f, st) => p = ParticaoDe[c.arquivo]
  BY DEF DoArquivo
<1>4. \A st : Onde(Append(comando[p], c), f, st) =
                Onde(comando[p], f, st) \cup (IF DoArquivo(c, f, st) THEN {n} ELSE {})
  BY <1>1, OndeAnexa
<1> HIDE DEF DoArquivo
<1>5. \A st : Onde(comando'[p], f, st) =
                Onde(comando[p], f, st) \cup (IF DoArquivo(c, f, st) THEN {n} ELSE {})
  BY <1>2, <1>3, <1>4
<1>6. Envios(f)' = Onde(comando'[p], f, "pendente")
      /\ Espera(f)' = Onde(comando'[p], f, "pendente") \ processado[p]
      /\ Voltou(f)' = Onde(comando'[p], f, "executado") \ processado[p]
  BY DEF Envios, Espera, Voltou, NoFim
<1> HIDE DEF n
<1>7. /\ DoArquivo(c, f, "pendente") \/ Envios(f)' = Envios(f)
      /\ Envios(f)' \subseteq Envios(f) \cup {n}
      /\ Espera(f)' \subseteq Espera(f) \cup (Envios(f)' \ Envios(f))
  BY <1>5, <1>6 DEF Envios, Espera
<1>8. /\ DoArquivo(c, f, "executado") \/ Voltou(f)' = Voltou(f)
      /\ Voltou(f)' \subseteq Voltou(f) \cup {n}
  BY <1>5, <1>6 DEF Voltou
<1>9. etapa'[p] = etapa[p] /\ (etapa[p] # Livre => Comando(p)' = Comando(p))
  <2>1. ASSUME etapa[p] # Livre PROVE Comando(p)' = Comando(p)
    BY <1>1, <2>1, ComandoFixo DEF Proveniencia, EtapasProvadas, EtapaProvada, NoFim
  <2> QED
    BY <2>1 DEF NoFim
<1>10. (Excluindo(f)' <=> Excluindo(f)) /\ (NoMeio(f)' <=> NoMeio(f))
  BY <1>9 DEF Excluindo, NoMeio, Entre, Livre
<1>11. Ditos(f)' = Ditos(f) /\ (SoUpload(f)' <=> SoUpload(f))
  BY HistoriaParada, MesmaHistoria DEF NoFim
<1> QED
  BY <1>7, <1>8, <1>10, <1>11 DEF n

(* It goes to the partition of its file.                                   *)
LEMMA LugarAoFim ==
  ASSUME TypeOK, Proveniencia, [Next]_vars, NEW c \in Comandos, NoFim(c),
         NEW p \in Particoes, NoLugar(p),
         \A i \in DOMAIN filaComando'[p] :
           ParticaoDe[filaComando'[p][i].arquivo] = p /\ filaComando'[p][i].status # "pendente"
  PROVE  NoLugar(p)'
<1>1. comando[p] \in Seq(Comandos)
  BY TiposEm
<1>2. comando'[p] = IF p = ParticaoDe[c.arquivo] THEN Append(comando[p], c) ELSE comando[p]
  BY <1>1 DEF NoFim, Publica, TypeOK, MidiaTypeOK
<1>3. \A i \in DOMAIN comando'[p] : ParticaoDe[comando'[p][i].arquivo] = p
  <2>1. CASE p = ParticaoDe[c.arquivo]
    <3>1. /\ DOMAIN Append(comando[p], c) = DOMAIN comando[p] \cup {Len(comando[p]) + 1}
          /\ Append(comando[p], c)[Len(comando[p]) + 1] = c
          /\ \A i \in DOMAIN comando[p] : Append(comando[p], c)[i] = comando[p][i]
      BY <1>1, Anexa
    <3> QED
      BY <1>2, <2>1, <3>1 DEF NoLugar
  <2>2. CASE p # ParticaoDe[c.arquivo]
    BY <1>2, <2>2 DEF NoLugar
  <2> QED
    BY <2>1, <2>2
<1>4. etapa'[p] = etapa[p] /\ (etapa[p] # Livre => Comando(p)' = Comando(p))
  <2>1. ASSUME etapa[p] # Livre PROVE Comando(p)' = Comando(p)
    BY <2>1, ComandoFixo DEF Proveniencia, EtapasProvadas, EtapaProvada, NoFim
  <2> QED
    BY <2>1 DEF NoFim
<1>5. posicao' = posicao /\ processado' = processado
  BY DEF NoFim
<1> QED
  BY <1>3, <1>4, <1>5 DEF NoLugar, Livre

(* An answer reaches the topic: it leaves the queue as it enters the log.  *)
LEMMA EntregaComandoVida ==
  ASSUME TypeOK, Proveniencia, [Next]_vars, NEW p \in Particoes, EntregaComando(p),
         \A q \in Particoes : NoLugar(q), \A f \in Arquivos : Vida(f), PerdasFicam
  PROVE  (\A q \in Particoes : NoLugar(q)') /\ (\A f \in Arquivos : Vida(f)')
<1> DEFINE s == filaComando[p]
           c == Head(s)
<1>1. s \in Seq(Comandos) /\ s # <<>> /\ c \in Comandos /\ Tail(s) \in Seq(Comandos)
      /\ 1 \in DOMAIN s /\ c = s[1]
  <2>1. s \in Seq(Comandos) /\ s # <<>>
    BY TiposEm DEF EntregaComando
  <2>2. c \in Comandos /\ Tail(s) \in Seq(Comandos)
    BY <2>1, HeadTailProperties
  <2>3. 1 \in DOMAIN s /\ c = s[1]
    BY <2>1, EmptySeq, LenProperties
  <2> QED
    BY <2>1, <2>2, <2>3
<1>2. c.arquivo \in Arquivos /\ ParticaoDe[c.arquivo] = p /\ c.status # "pendente"
  BY <1>1 DEF NoLugar, Comandos
<1>3. NoFim(c)
  BY <1>2 DEF EntregaComando, NoFim, Publica
<1>4. filaComando'[p] = Tail(s) /\ \A q \in Particoes : q # p => filaComando'[q] = filaComando[q]
  BY DEF EntregaComando, TypeOK
<1>5. \A i \in DOMAIN Tail(s) : i + 1 \in DOMAIN s /\ Tail(s)[i] = s[i + 1]
  <2>1. Len(s) \in Nat /\ DOMAIN s = 1..Len(s) /\ Len(s) > 0
    BY <1>1, LenProperties, EmptySeq
  <2>2. Len(Tail(s)) = Len(s) - 1 /\ \A i \in 1..Len(Tail(s)) : Tail(s)[i] = s[i + 1]
    BY <1>1, HeadTailProperties
  <2>3. DOMAIN Tail(s) = 1..Len(Tail(s))
    BY <1>1, LenProperties
  <2> QED
    BY <2>1, <2>2, <2>3
<1>6. temp' = temp
  BY DEF EntregaComando
<1>7. registro' = registro
  BY DEF EntregaComando
<1> HIDE DEF c, s
<1>8. ASSUME NEW q \in Particoes PROVE NoLugar(q)'
  <2>1. \A i \in DOMAIN filaComando'[q] :
          ParticaoDe[filaComando'[q][i].arquivo] = q /\ filaComando'[q][i].status # "pendente"
    <3>1. CASE q = p
      <4>1. \A i \in DOMAIN s : ParticaoDe[s[i].arquivo] = p /\ s[i].status # "pendente"
        BY DEF NoLugar, s
      <4>2. \A i \in DOMAIN Tail(s) :
              ParticaoDe[Tail(s)[i].arquivo] = p /\ Tail(s)[i].status # "pendente"
        BY <1>5, <4>1
      <4> QED
        BY <1>4, <3>1, <4>2
    <3>2. CASE q # p
      BY <1>4, <3>2 DEF NoLugar
    <3> QED
      BY <3>1, <3>2
  <2> QED
    BY <1>1, <1>3, <2>1, LugarAoFim
<1>9. ASSUME NEW f \in Arquivos PROVE Vida(f)'
  <2>1. ~DoArquivo(c, f, "pendente")
    BY <1>2 DEF DoArquivo
  <2>2. /\ Envios(f)' = Envios(f) /\ Espera(f)' \subseteq Espera(f)
        /\ DoArquivo(c, f, "executado") \/ Voltou(f)' = Voltou(f)
        /\ Voltou(f)' \subseteq Voltou(f) \cup {Len(comando[ParticaoDe[f]]) + 1}
        /\ Excluindo(f)' <=> Excluindo(f)
        /\ NoMeio(f)' <=> NoMeio(f)
        /\ Ditos(f)' = Ditos(f) /\ (SoUpload(f)' <=> SoUpload(f))
    <3> HIDE DEF DoArquivo
    <3> QED
      BY <1>1, <1>3, <2>1, ComandoAoFim
  <2>3. CASE ParticaoDe[f] # p
    <3>1. ~DoArquivo(c, f, "executado")
      BY <1>2, <2>3 DEF DoArquivo
    <3>2. Volta(f)' = Volta(f)
      BY <1>4, <2>3, ParticaoAssumption DEF Volta
    <3> QED
      BY <1>6, <1>7, <2>2, <3>1, <3>2, Encolhe
  <2>4. CASE ParticaoDe[f] = p
    <3>1. Volta(f) = Onde(s, f, "executado") /\ Volta(f)' = Onde(Tail(s), f, "executado")
      BY <1>4, <2>4 DEF Volta, s
    <3>2. Unico(Volta(f))
      BY DEF Vida, UmaVolta
    <3> HIDE DEF DoArquivo
    <3>3. /\ Unico(Volta(f)')
          /\ DoArquivo(c, f, "executado") => Volta(f) # {} /\ Volta(f)' = {}
          /\ Volta(f)' # {} => Volta(f) # {}
      BY <1>1, <3>1, <3>2, OndeTail DEF c
    <3>4. CASE DoArquivo(c, f, "executado")
      <4>1. Volta(f) # {} /\ Volta(f)' = {} /\ Voltou(f) = {}
        BY <3>3, <3>4 DEF Vida, UmaVolta
      <4>2. Unico(Voltou(f)')
        BY <2>2, <4>1 DEF Unico
      <4>3. UmaVolta(f)'
        BY <4>1, <4>2 DEF UmaVolta, Unico
      <4>4. Retorno(f) # {}
        BY <4>1 DEF Retorno
      <4>5. UmaVida(f)'
        BY <1>7, <2>2, <4>4 DEF Vida, UmaVida, Conhecido, Calado, PerdasFicam
      <4>6. UmEnvio(f)'
        BY <1>6, <2>2 DEF Vida, UmEnvio
      <4> QED
        BY <4>3, <4>5, <4>6 DEF Vida
    <3>5. CASE ~DoArquivo(c, f, "executado")
      <4>1. Voltou(f)' = Voltou(f)
        BY <2>2, <3>5
      <4>2. UmaVolta(f)'
        BY <3>3, <4>1 DEF Vida, UmaVolta, Unico
      <4>3. Retorno(f)' # {} => Retorno(f) # {}
        BY <3>3, <4>1 DEF Retorno
      <4>4. UmaVida(f)'
        BY <1>7, <2>2, <4>3 DEF Vida, UmaVida, Conhecido, Calado, PerdasFicam
      <4>5. UmEnvio(f)'
        BY <1>6, <2>2 DEF Vida, UmEnvio
      <4> QED
        BY <4>2, <4>4, <4>5 DEF Vida
    <3> QED
      BY <3>4, <3>5
  <2> QED
    BY <2>3, <2>4
<1> QED
  BY <1>8, <1>9

(* A user's command: an upload is of a file nobody knows yet.              *)
LEMMA PedidoVida ==
  ASSUME TypeOK, Proveniencia, [Next]_vars, Pedidos, UNCHANGED registroVars,
         \A q \in Particoes : NoLugar(q), \A f \in Arquivos : Vida(f), PerdasFicam
  PROVE  (\A q \in Particoes : NoLugar(q)') /\ (\A f \in Arquivos : Vida(f)')
<1>1. PICK g \in Arquivos, u \in Usuarios, t \in Tipos :
        /\ comando' = Publica(comando, NewComando(t, g, u)) /\ media' = media
        /\ t = "upload" => temp[g] = Nenhum /\ \E h \in Hashes : temp' = [temp EXCEPT ![g] = h]
        /\ t = "delete" => temp' = temp
  BY DEF Pedidos, Upload, DeleteMedia, Tipos
<1> DEFINE c == NewComando(t, g, u)
<1>2. c \in Comandos /\ c.arquivo = g /\ c.status = "pendente" /\ c.tipo = t
  BY DEF NewComando, Comandos, Status
<1>3. NoFim(c) /\ filaComando' = filaComando /\ registro' = registro
  BY <1>1, <1>2 DEF NoFim, registroVars
<1> HIDE DEF c
<1>4. ASSUME NEW q \in Particoes PROVE NoLugar(q)'
  <2>1. \A i \in DOMAIN filaComando'[q] :
          ParticaoDe[filaComando'[q][i].arquivo] = q /\ filaComando'[q][i].status # "pendente"
    BY <1>3 DEF NoLugar
  <2> QED
    BY <1>2, <1>3, <2>1, LugarAoFim
<1>5. ASSUME NEW f \in Arquivos PROVE Vida(f)'
  <2>1. /\ DoArquivo(c, f, "pendente") \/ Envios(f)' = Envios(f)
        /\ Envios(f)' \subseteq Envios(f) \cup {Len(comando[ParticaoDe[f]]) + 1}
        /\ Espera(f)' \subseteq Espera(f) \cup (Envios(f)' \ Envios(f))
        /\ DoArquivo(c, f, "executado") \/ Voltou(f)' = Voltou(f)
        /\ Excluindo(f)' <=> Excluindo(f)
        /\ NoMeio(f)' <=> NoMeio(f)
        /\ Ditos(f)' = Ditos(f) /\ (SoUpload(f)' <=> SoUpload(f))
    <3> HIDE DEF DoArquivo
    <3> QED
      BY <1>2, <1>3, ComandoAoFim
  <2>2. ~DoArquivo(c, f, "executado") /\ (DoArquivo(c, f, "pendente") <=> f = g /\ t = "upload")
    BY <1>2 DEF DoArquivo
  <2>3. Voltou(f)' = Voltou(f) /\ Volta(f)' = Volta(f)
    BY <1>3, <2>1, <2>2 DEF Volta
  <2>4. temp[f] # Nenhum => temp'[f] # Nenhum
    BY <1>1, ArquivosAssumption DEF TypeOK, MidiaTypeOK, Tipos
  <2>5. CASE ~(f = g /\ t = "upload")
    <3>1. Envios(f)' = Envios(f) /\ Espera(f)' \subseteq Espera(f)
      BY <2>1, <2>2, <2>5
    <3> QED
      BY <1>3, <2>1, <2>3, <2>4, <3>1, Encolhe
  <2>6. CASE f = g /\ t = "upload"
    <3>1. temp[f] = Nenhum /\ temp'[f] # Nenhum
      BY <1>1, <2>6, ArquivosAssumption DEF TypeOK, MidiaTypeOK
    <3>2. \A v, h : ~Provado(f, v, h)
      BY <3>1, ArquivosAssumption DEF Provado
    <3>3. registro[f] = Nenhum
      BY <3>2 DEF Proveniencia, LinhasProvadas
    <3>4. ParticaoDe[f] \in Particoes
      BY ParticaoAssumption
    <3>5. \A x \in Todas(comando) \cup Todas(filaComando) : ~DoArquivo(x, f, "executado")
      BY <3>2 DEF Proveniencia, RespostasProvadas, Respostas, DoArquivo
    <3>6. Voltou(f) = {} /\ Volta(f) = {}
      BY <3>4, <3>5 DEF Voltou, Volta, Onde, Todas, Range
    <3>7. Ditos(f) = {}
      <4>1. \A e \in Emitidos : e.arquivo # f
        BY <3>2 DEF Proveniencia, EventosProvados
      <4>2. Range(media[ParticaoDe[f]]) \cup Range(filaMedia[ParticaoDe[f]]) \subseteq Emitidos
        BY <3>4 DEF Emitidos, Todas
      <4>3. Historia(f) = media[ParticaoDe[f]] \o filaMedia[ParticaoDe[f]]
            /\ media[ParticaoDe[f]] \in Seq(Eventos) /\ filaMedia[ParticaoDe[f]] \in Seq(Eventos)
        BY <3>4, TiposEm DEF Historia
      <4>4. Range(Historia(f)) = Range(media[ParticaoDe[f]]) \cup Range(filaMedia[ParticaoDe[f]])
        BY <4>3, RangeConcatenation
      <4>5. \A i \in DOMAIN Historia(f) : Historia(f)[i] \in Range(Historia(f))
        BY DEF Range
      <4> QED
        BY <4>1, <4>2, <4>4, <4>5 DEF Ditos, DitosEm
    <3>8. ~Excluindo(f) /\ ~NoMeio(f)
      <4>1. ASSUME etapa[ParticaoDe[f]] # Livre PROVE Comando(ParticaoDe[f]).arquivo # f
        BY <3>2, <3>4, <4>1 DEF Proveniencia, EtapasProvadas, EtapaProvada
      <4> QED
        BY <4>1 DEF Excluindo, NoMeio, Entre, Livre
    <3>9. Envios(f) = {}
      BY <3>1 DEF Vida, UmEnvio
    <3>10. UmEnvio(f)'
      BY <2>1, <3>1, <3>9 DEF UmEnvio, Unico
    <3>11. UmaVolta(f)'
      BY <2>3, <3>6 DEF UmaVolta, Unico
    <3>12. Retorno(f)' = {}
      BY <2>3, <3>6 DEF Retorno
    <3>13. UmaVida(f)'
      BY <1>3, <2>1, <3>3, <3>7, <3>8, <3>12 DEF UmaVida
    <3> QED
      BY <3>10, <3>11, <3>13 DEF Vida
  <2> QED
    BY <2>5, <2>6
<1> QED
  BY <1>4, <1>5

-----------------------------------------------------------------------------
(* A delivery to registro.media changes nothing for the readers.           *)
LEMMA EntregaMediaIgual ==
  ASSUME TypeOK, NEW p \in Particoes, EntregaMedia(p)
  PROVE  Anunciados' = Anunciados
<1>1. ASSUME NEW q \in Particoes PROVE media'[q] \o filaMedia'[q] = media[q] \o filaMedia[q]
  <2>1. CASE q = p
    <3>1. /\ media'[p] = Append(media[p], Head(filaMedia[p])) /\ filaMedia'[p] = Tail(filaMedia[p])
          /\ media[p] \in Seq(Eventos) /\ filaMedia[p] \in Seq(Eventos) /\ filaMedia[p] # <<>>
      BY DEF EntregaMedia, TypeOK, MidiaTypeOK
    <3>2. Append(media[p], Head(filaMedia[p])) \o Tail(filaMedia[p]) = media[p] \o filaMedia[p]
      BY <3>1, Desloca
    <3> QED
      BY <2>1, <3>1, <3>2
  <2>2. CASE q # p
    BY <2>2 DEF EntregaMedia, TypeOK, MidiaTypeOK
  <2> QED
    BY <2>1, <2>2
<1> QED
  BY <1>1 DEF Anunciados

(* Nor does it change anything of a file.                                  *)
LEMMA EntregaMediaArquivo ==
  ASSUME TypeOK, NEW p \in Particoes, EntregaMedia(p)
  PROVE  \A f \in Arquivos : Igual(f)
<1> SUFFICES ASSUME NEW f \in Arquivos PROVE Igual(f)
  OBVIOUS
<1>1. UNCHANGED <<comando, filaComando, processado, etapa, posicao, registro, temp>>
  BY DEF EntregaMedia
<1>2. Historia(f)' = Historia(f)
  BY EntregaMediaIgual DEF Historia
<1>3. Ditos(f)' = Ditos(f) /\ (SoUpload(f)' <=> SoUpload(f))
  BY <1>2, MesmaHistoria
<1>4. Envios(f)' = Envios(f) /\ Espera(f)' = Espera(f) /\ Voltou(f)' = Voltou(f)
      /\ Volta(f)' = Volta(f)
  BY <1>1 DEF Envios, Espera, Voltou, Volta
<1>5. (Excluindo(f)' <=> Excluindo(f)) /\ (NoMeio(f)' <=> NoMeio(f))
  BY <1>1 DEF Excluindo, NoMeio, Entre, Comando
<1> QED
  BY <1>1, <1>3, <1>4, <1>5 DEF Igual

(* Offsets: a commit, or a session that reads again from the committed     *)
(* ones with every handler at rest.                                        *)
Parado == NovaSessao \/ UNCHANGED vars \/ \E p \in Particoes : ConfirmaOffset(p)

(* Nothing happens to any partition or file.                               *)
LEMMA ParadoIgual ==
  ASSUME TypeOK, Parado
  PROVE  (\A q \in Particoes : Parada(q)) /\ (\A f \in Arquivos : Igual(f))
<1>1. UNCHANGED <<comando, filaComando, media, filaMedia, processado, etapa, registro, temp>>
  BY DEF Parado, NovaSessao, ConfirmaOffset, vars, midiaVars, registroVars
<1>2. posicao' = posicao \/ \A q \in Particoes : etapa[q] = Livre
  <2>1. CASE NovaSessao
    BY <2>1, TiposEm DEF NovaSessao
  <2>2. CASE UNCHANGED vars \/ \E p \in Particoes : ConfirmaOffset(p)
    BY <2>2 DEF ConfirmaOffset, vars, registroVars
  <2> QED
    BY <2>1, <2>2 DEF Parado
<1>3. \A q \in Particoes : Parada(q)
  BY <1>1, <1>2 DEF Parada
<1>4. ASSUME NEW f \in Arquivos PROVE Igual(f)
  <2>1. ParticaoDe[f] \in Particoes
    BY ParticaoAssumption
  <2> QED
    BY <1>1, <1>3, <2>1, ParadaIgual
<1> QED
  BY <1>3, <1>4

(* What is spent was not there before: no loss after a step, none before.  *)
LEMMA IlesoAntes ==
  ASSUME TypeOK, [Next]_vars, Ileso'
  PROVE  Ileso /\ ~Reinicia /\ ~Sigterm /\ PerdasFicam
<1>1. gasto["perdas"] \in Nat /\ gasto["quedas"] \in Nat
  BY DEF TypeOK, Gastos
<1>2. Ileso /\ PerdasFicam
  <2>1. ASSUME NEW t \in {"falhas", "perdas", "quedas", "sessoes"}, gasto' = [gasto EXCEPT ![t] = @ + 1]
        PROVE  Ileso /\ PerdasFicam
    BY <1>1, <2>1 DEF Ileso, PerdasFicam, TypeOK, Gastos
  <2>2. CASE gasto' = gasto
    BY <2>2 DEF Ileso, PerdasFicam
  <2> QED
    BY <2>1, <2>2, GastoCresce
<1>3. ~Reinicia /\ ~Sigterm
  BY <1>1 DEF Ileso, Reinicia, Sigterm, Gasta, TypeOK, Gastos
<1> QED
  BY <1>2, <1>3

(* So it is with losses too.                                               *)
LEMMA SemPerdasAntes ==
  ASSUME TypeOK, [Next]_vars, SemPerdas'
  PROVE  SemPerdas /\ gasto'["perdas"] = 0 /\ ~Reinicia /\ ~Sigterm
<1>1. Ileso /\ ~Reinicia /\ ~Sigterm /\ PerdasFicam
  BY IlesoAntes DEF SemPerdas
<1> QED
  BY <1>1 DEF SemPerdas, PerdasFicam

(* Every step of a process that does not end keeps all lives.              *)
LEMMA VidasStep ==
  ASSUME TypeOK, Proveniencia, Vidas, [Next]_vars, Ileso'
  PROVE  Vidas'
<1>1. /\ PerdasFicam /\ ~Reinicia /\ ~Sigterm /\ ~Termina
      /\ processo # "encerra" /\ (\A q \in Particoes : NoLugar(q)) /\ (\A f \in Arquivos : Vida(f))
  BY IlesoAntes DEF Vidas, Termina
<1> DEFINE Bem == (\A q \in Particoes : NoLugar(q)') /\ (\A f \in Arquivos : Vida(f)')
<1>2. ASSUME Pedidos, UNCHANGED registroVars PROVE Vidas'
  <2>1. Bem
    BY <1>1, <1>2, PedidoVida
  <2>2. processo' = processo
    BY <1>2 DEF registroVars
  <2> QED
    BY <1>1, <2>1, <2>2 DEF Vidas
<1>3. ASSUME NEW q \in Particoes, Handler(q) \/ Recusa(q) PROVE Vidas'
  <2>1. NoLugar(q) /\ PassoEm(q)
    BY <1>1, <1>3, HandlerPasso
  <2>2. ASSUME NEW p \in Particoes PROVE NoLugar(p)'
    <3>1. CASE p = q
      BY <2>1, <3>1, PassoLugar
    <3>2. CASE p # q
      <4>1. Parada(p) /\ NoLugar(p)
        BY <1>1, <2>1, <3>2, OutraParticao
      <4> QED
        BY <4>1, ParadaLugar
    <3> QED
      BY <3>1, <3>2
  <2>3. ASSUME NEW f \in Arquivos PROVE Vida(f)'
    <3>1. Vida(f)
      BY <1>1
    <3> QED
      BY <1>1, <1>3, <2>1, <3>1, HandlerVida
  <2>4. processo' # "encerra"
    BY <2>1 DEF PassoEm
  <2> QED
    BY <2>2, <2>3, <2>4 DEF Vidas
<1>4. ASSUME NEW q \in Particoes, EntregaComando(q) PROVE Vidas'
  <2>1. Bem
    BY <1>1, <1>4, EntregaComandoVida
  <2>2. processo' = processo
    BY <1>4 DEF EntregaComando
  <2> QED
    BY <1>1, <2>1, <2>2 DEF Vidas
<1>5. ASSUME NEW q \in Particoes, EntregaMedia(q) PROVE Vidas'
  <2>1. UNCHANGED <<comando, filaComando, processado, etapa, posicao, processo>>
    BY <1>5 DEF EntregaMedia
  <2>2. ASSUME NEW p \in Particoes PROVE NoLugar(p)'
    <3>1. NoLugar(p)
      BY <1>1
    <3> QED
      BY <2>1, <3>1 DEF NoLugar, Comando
  <2>3. ASSUME NEW f \in Arquivos PROVE Vida(f)'
    <3>1. Igual(f) /\ Vida(f)
      BY <1>1, <1>5, EntregaMediaArquivo
    <3> QED
      BY <1>1, <3>1, IgualVida
  <2> QED
    BY <1>1, <2>1, <2>2, <2>3 DEF Vidas
<1>6. ASSUME Parado PROVE Vidas'
  <2>1. ASSUME NEW p \in Particoes PROVE NoLugar(p)'
    <3>1. Parada(p) /\ NoLugar(p)
      BY <1>1, <1>6, ParadoIgual
    <3> QED
      BY <3>1, ParadaLugar
  <2>2. ASSUME NEW f \in Arquivos PROVE Vida(f)'
    <3>1. Igual(f) /\ Vida(f)
      BY <1>1, <1>6, ParadoIgual
    <3> QED
      BY <1>1, <3>1, IgualVida
  <2>3. processo' = processo
    BY <1>6 DEF Parado, NovaSessao, ConfirmaOffset, vars, registroVars
  <2> QED
    BY <1>1, <2>1, <2>2, <2>3 DEF Vidas
<1> QED
  BY <1>1, <1>2, <1>3, <1>4, <1>5, <1>6 DEF Next, RegistroNext, Producer, Ambiente, Recusa, Parado

(* No file has begun its life.                                             *)
LEMMA InitVidas == Init => Vidas
<1> SUFFICES ASSUME Init PROVE Vidas
  OBVIOUS
<1>1. /\ processo # "encerra" /\ \A f \in Arquivos : registro[f] = Nenhum /\ temp[f] = Nenhum
      /\ \A p \in Particoes : /\ comando[p] = <<>> /\ filaComando[p] = <<>> /\ etapa[p] = Livre
                              /\ media[p] = <<>> /\ filaMedia[p] = <<>> /\ processado[p] = {}
  BY DEF Init, MidiaInit, RegistroInit
<1>2. \A f, st : Onde(<<>>, f, st) = {}
  BY DEF Onde
<1>3. \A p \in Particoes : NoLugar(p)
  BY <1>1 DEF NoLugar, Livre
<1>4. ASSUME NEW f \in Arquivos PROVE Vida(f)
  <2>1. ParticaoDe[f] \in Particoes
    BY ParticaoAssumption
  <2>2. Envios(f) = {} /\ Espera(f) = {} /\ Volta(f) = {} /\ Voltou(f) = {}
    BY <1>1, <1>2, <2>1 DEF Envios, Espera, Volta, Voltou
  <2>3. ~Excluindo(f) /\ ~NoMeio(f)
    BY <1>1, <2>1 DEF Excluindo, NoMeio, Entre, Livre
  <2> QED
    BY <1>1, <2>2, <2>3 DEF Vida, UmEnvio, UmaVolta, UmaVida, Unico, Retorno
<1> QED
  BY <1>1, <1>3, <1>4 DEF Vidas

(* The inductive invariant: types, provenance, and one life per file.      *)
THEOREM VidasInvariante == Spec => []CInv
<1>1. Init => (Ileso => Vidas)
  BY InitVidas
<1>2. TypeOK /\ Proveniencia /\ (Ileso => Vidas) /\ [Next]_vars => (Ileso => Vidas)'
  BY IlesoAntes, VidasStep
<1> QED
  BY <1>1, <1>2, ProvenienciaInvariante, PTL DEF Spec, CInv

-----------------------------------------------------------------------------
(* Who sent a file is one user.                                            *)
LEMMA UmDono ==
  ASSUME TypeOK, Vidas, NEW f \in Arquivos, NEW u, NEW v, Dono(f, u), Dono(f, v)
  PROVE  u = v
<1>1. ASSUME NEW w, Dono(f, w)
      PROVE  \E i \in Envios(f) : comando[ParticaoDe[f]][i] = NewComando("upload", f, w)
  <2>1. PICK p \in Particoes : \E i \in DOMAIN comando[p] : comando[p][i] = NewComando("upload", f, w)
    BY <1>1 DEF Dono, Todas, Range
  <2>2. PICK i \in DOMAIN comando[p] : comando[p][i] = NewComando("upload", f, w)
    BY <2>1
  <2>3. comando[p][i].arquivo = f /\ DoArquivo(comando[p][i], f, "pendente")
    BY <2>2 DEF NewComando, DoArquivo
  <2>4. p = ParticaoDe[f]
    BY <2>3 DEF Vidas, NoLugar
  <2> QED
    BY <2>2, <2>3, <2>4 DEF Envios, Onde
<1>2. PICK i \in Envios(f) : comando[ParticaoDe[f]][i] = NewComando("upload", f, u)
  BY <1>1
<1>3. PICK j \in Envios(f) : comando[ParticaoDe[f]][j] = NewComando("upload", f, v)
  BY <1>1
<1>4. i = j
  BY DEF Vidas, Vida, UmEnvio, Unico
<1> QED
  BY <1>2, <1>3, <1>4 DEF NewComando

(* What is told of a file is emitted, hence vouched for.                   *)
LEMMA DitoEmitido ==
  ASSUME TypeOK, NEW f \in Arquivos, NEW i \in Ditos(f)
  PROVE  Historia(f)[i] \in Emitidos /\ Historia(f)[i] \in Eventos /\ Historia(f)[i].arquivo = f
<1> DEFINE p == ParticaoDe[f]
<1>1. p \in Particoes
  BY ParticaoAssumption
<1>2. Historia(f) = media[p] \o filaMedia[p] /\ Historia(f) \in Seq(Eventos)
      /\ media[p] \in Seq(Eventos) /\ filaMedia[p] \in Seq(Eventos)
  BY <1>1, TiposEm DEF Historia
<1>3. Range(Historia(f)) = Range(media[p]) \cup Range(filaMedia[p])
  BY <1>2, RangeConcatenation
<1>4. Range(media[p]) \cup Range(filaMedia[p]) \subseteq Emitidos
  BY <1>1 DEF Emitidos, Todas
<1>5. i \in DOMAIN Historia(f) /\ Historia(f)[i].arquivo = f
  BY DEF Ditos, DitosEm
<1>6. Historia(f)[i] \in Range(Historia(f))
  BY <1>5 DEF Range
<1>7. Historia(f)[i] \in Eventos
  BY <1>2, <1>5, LenProperties, ElementOfSeq
<1> QED
  BY <1>3, <1>4, <1>5, <1>6, <1>7

(* An event in the queue is an event of the catalogue.                     *)
LEMMA AnunciadosMais ==
  ASSUME TypeOK, NEW e \in Eventos, filaMedia' = Publica(filaMedia, e), media' = media
  PROVE  Anunciados' = Publica(Anunciados, e)
<1> DEFINE q == ParticaoDe[e.arquivo]
<1>1. q \in Particoes
  BY ParticaoAssumption DEF Eventos
<1>2. ASSUME NEW r \in Particoes
      PROVE  media'[r] \o filaMedia'[r] = IF r = q THEN Append(Anunciados[r], e) ELSE Anunciados[r]
  <2>1. media[r] \in Seq(Eventos) /\ filaMedia[r] \in Seq(Eventos)
        /\ Anunciados[r] = media[r] \o filaMedia[r]
    BY TiposEm
  <2>2. filaMedia'[r] = IF r = q THEN Append(filaMedia[r], e) ELSE filaMedia[r]
    BY <1>1 DEF Publica, TypeOK
  <2>3. \A s, t \in Seq(Eventos) : s \o Append(t, e) = Append(s \o t, e)
    BY AnexaDepois
  <2>4. media[r] \o Append(filaMedia[r], e) = Append(Anunciados[r], e)
    BY <2>1, <2>3
  <2> QED
    BY <2>1, <2>2, <2>4
<1>3. Anunciados' = [r \in Particoes |-> media'[r] \o filaMedia'[r]]
  BY DEF Anunciados
<1>4. Anunciados = [r \in Particoes |-> Anunciados[r]]
  BY DEF Anunciados
<1> HIDE DEF q
<1>5. Anunciados' = [r \in Particoes |-> IF r = q THEN Append(Anunciados[r], e) ELSE Anunciados[r]]
  BY <1>2, <1>3
<1>6. [Anunciados EXCEPT ![q] = Append(@, e)]
        = [r \in Particoes |-> IF r = q THEN Append(Anunciados[r], e) ELSE Anunciados[r]]
  BY <1>1, <1>4
<1> QED
  BY <1>5, <1>6 DEF Publica, q

(* Every step is a step of the catalogue, or none of its business.         *)
LEMMA CatalogoStep ==
  ASSUME CInv, [Next]_vars, SemPerdas'
  PROVE  Cat!Next \/ UNCHANGED <<media, filaMedia, photos>>
<1>1. /\ TypeOK /\ Proveniencia /\ NasPhotos /\ Vidas /\ gasto'["perdas"] = 0
      /\ ~Reinicia /\ ~Sigterm /\ ~Termina
  BY SemPerdasAntes DEF CInv, Vidas, Termina, SemPerdas
<1>2. ASSUME NEW h \in Hashes, photos' = photos \cup {h}, Anunciados' = Anunciados PROVE Cat!Next
  BY <1>2 DEF Cat!Next, Cat!Armazena
<1>3. ASSUME NEW p \in Particoes, EntregaMedia(p) PROVE Cat!Next
  <2>1. filaMedia[p] \in Seq(Eventos) /\ filaMedia[p] # <<>> /\ photos' = photos
    BY <1>1, <1>3, TiposEm DEF EntregaMedia
  <2>2. 1 \in DOMAIN filaMedia[p] /\ filaMedia[p][1] \in Eventos
    BY <2>1, EmptySeq, LenProperties, ElementOfSeq
  <2>3. filaMedia[p][1] \in Emitidos
    BY <2>2 DEF Emitidos, Todas, Range
  <2>4. filaMedia[p][1].hash \in Hashes /\ filaMedia[p][1].hash \in photos
    BY <1>1, <2>3 DEF Proveniencia, EventosProvados, Provado, NasPhotos
  <2> QED
    BY <1>1, <1>2, <1>3, <2>1, <2>4, EntregaMediaIgual
<1>4. ASSUME NEW p \in Particoes, AddPhoto(p) \/ FalhaUpload(p)
      PROVE  Cat!Next \/ UNCHANGED <<media, filaMedia, photos>>
  <2>1. media' = media /\ filaMedia' = filaMedia
    BY <1>4 DEF AddPhoto, FalhaUpload
  <2>2. Anunciados' = Anunciados
    BY <2>1 DEF Anunciados
  <2>3. photos' = photos \/ (etapa[p].hash \in Hashes /\ photos' = photos \cup {etapa[p].hash})
    BY <1>1, <1>4, EtapaTipo DEF AddPhoto, FalhaUpload, Passos
  <2> QED
    BY <1>2, <2>1, <2>2, <2>3
<1>5. ASSUME NEW p \in Particoes, ProduzEvento(p) PROVE Cat!Next
  <2> DEFINE f == Comando(p).arquivo
             u == etapa[p].usuario
             h == etapa[p].hash
  <2>1. /\ TemComando(p) /\ etapa[p] # Livre /\ etapa[p].passo = "evento"
        /\ h \in Hashes /\ u \in Usuarios /\ Comando(p) \in Comandos /\ f \in Arquivos
        /\ media' = media /\ photos' = photos
    BY <1>1, <1>5, EtapaTipo, ComandoTipo DEF ProduzEvento, Em, Livre, Passos, midiaVars
  <2>2. filaMedia' = Publica(filaMedia, EventoDe(p))
    <3>1. ~Gasta("perdas", MaxPerdas)
      BY <1>1 DEF Gasta, TypeOK, Gastos
    <3> QED
      BY <1>5, <3>1 DEF ProduzEvento
  <2>3. NoLugar(p) /\ Vida(f)
    BY <1>1, <2>1 DEF Vidas
  <2>4. ParticaoDe[f] = p /\ posicao[p] + 1 \in DOMAIN comando[p]
    BY <1>1, <2>1, <2>3, ArquivoDaqui
  <2>5. EventoDe(p) \in Eventos /\ EventoDe(p) = NewEvent(Comando(p).tipo, f, u, h)
    BY <2>1, ComandoTipo, <1>1 DEF EventoDe, NewEvent, Eventos
  <2>6. Anunciados' = Publica(Anunciados, EventoDe(p))
    BY <1>1, <2>1, <2>2, <2>5, AnunciadosMais
  <2>7. /\ Provado(f, u, h) /\ h \in photos /\ Comando(p).status = "pendente"
    BY <1>1, <2>1 DEF Proveniencia, EtapasProvadas, EtapaProvada, NasPhotos, EtapaGuardada
  <2>8. Cat!EventosDe(f) = Ditos(f)
    BY DEF Cat!EventosDe, Ditos, DitosEm, Historia
  <2>9. CASE Comando(p).tipo = "upload"
    <3>1. posicao[p] + 1 \in Espera(f)
      BY <2>1, <2>3, <2>4, <2>7, <2>9 DEF Espera, Envios, Onde, DoArquivo, Comando, NoLugar
    <3>2. Ditos(f) = {}
      BY <2>3, <3>1 DEF Vida, UmaVida
    <3> HIDE DEF f, u, h
    <3>3. Cat!AnunciaUpload(f, u, h)
      BY <2>1, <2>5, <2>6, <2>7, <2>8, <2>9, <3>2 DEF Cat!AnunciaUpload, Cat!Publica, Publica,
         Cat!NewEvent, NewEvent
    <3> QED
      BY <2>1, <3>3 DEF Cat!Next
  <2>10. CASE Comando(p).tipo = "delete"
    <3>1. Excluindo(f)
      BY <2>1, <2>4, <2>10 DEF Excluindo, Entre
    <3> HIDE DEF f, u, h
    <3>2. PICK i \in Ditos(f) : Ditos(f) = {i} /\ Historia(f)[i].tipo = "upload"
      BY <2>3, <3>1, SemPerdasAntes DEF CInv, Vida, UmaVida, SoUpload, SoUploadEm, Ditos, SemPerdas,
         Conhecido, Calado
    <3> DEFINE d == Historia(f)[i]
    <3>3. d \in Emitidos /\ d \in Eventos /\ d.arquivo = f
      BY <1>1, <2>1, DitoEmitido
    <3>4. Provado(f, d.usuario, d.hash)
      BY <1>1, <3>3 DEF Proveniencia, EventosProvados
    <3>5. d.usuario = u /\ d.hash = h
      BY <1>1, <2>1, <2>7, <3>4, UmDono DEF Provado
    <3>6. [d EXCEPT !.tipo = "delete"] = EventoDe(p)
      BY <2>5, <2>10, <3>3, <3>5 DEF Eventos, NewEvent
    <3>7. Cat!AnunciaDelete(f)
      BY <2>1, <2>6, <2>8, <3>2, <3>6 DEF Cat!AnunciaDelete, Cat!Publica, Publica, Historia
    <3> QED
      BY <2>1, <3>7 DEF Cat!Next
  <2> QED
    BY <2>1, <2>9, <2>10 DEF Comandos, Tipos
<1>6. ASSUME NEW p \in Particoes,
             RejeitaInvalido(p) \/ VerificaPhoto(p) \/ AddThumbnail(p) \/ DeleteRegistro(p)
             \/ RejeitaDelete(p) \/ UpdateRegistro(p) \/ SemConexao(p) \/ IgnoraComando(p)
             \/ ProduzExecutado(p) \/ EntregaComando(p) \/ FalhaDelete(p) \/ FalhaUpdate(p)
             \/ ConfirmaOffset(p)
      PROVE  UNCHANGED <<media, filaMedia, photos>>
  BY <1>6 DEF RejeitaInvalido, VerificaPhoto, AddThumbnail, DeleteRegistro, RejeitaDelete,
     UpdateRegistro, SemConexao, IgnoraComando, ProduzExecutado, EntregaComando, FalhaDelete,
     FalhaUpdate, ConfirmaOffset, midiaVars
<1>7. Pedidos /\ UNCHANGED registroVars => UNCHANGED <<media, filaMedia, photos>>
  BY DEF Pedidos, Upload, DeleteMedia, registroVars
<1>8. NovaSessao \/ UNCHANGED vars => UNCHANGED <<media, filaMedia, photos>>
  BY DEF NovaSessao, vars, midiaVars, registroVars
<1> QED
  BY <1>1, <1>3, <1>4, <1>5, <1>6, <1>7, <1>8
     DEF Next, RegistroNext, Handler, Producer, Ambiente

(* Registro implements the catalogue: handleRegistroComando and the lookup *)
(* by file and user never announce a file twice, before its content is     *)
(* stored, or its deletion before the upload, a second time, by another    *)
(* user or for another content, as long as no Produce is lost and the      *)
(* process does not end.                                                   *)
THEOREM ImplementaOCatalogo == Spec => ImplementaCatalogo
<1>1. Init => Cat!Init
  <2> SUFFICES ASSUME Init PROVE Cat!Init
    OBVIOUS
  <2>1. photos = {} /\ media = [p \in Particoes |-> <<>>] /\ filaMedia = [p \in Particoes |-> <<>>]
    BY DEF Init, MidiaInit, RegistroInit
  <2>2. <<>> \o <<>> = <<>>
    OBVIOUS
  <2>3. Anunciados = [p \in Particoes |-> <<>>]
    BY <2>1, <2>2 DEF Anunciados
  <2> QED
    BY <2>1, <2>3 DEF Cat!Init
<1>2. CInv /\ [Next]_vars =>
        [gasto'["perdas"] = 0 /\ gasto'["quedas"] = 0 => Cat!Next]_<<media, filaMedia, photos>>
  BY CatalogoStep DEF SemPerdas, Ileso
<1> QED
  BY <1>1, <1>2, VidasInvariante, PTL DEF Spec, ImplementaCatalogo

(* The row of a file that lives once was told of: its event names the same *)
(* content, since both are of the one upload command of the file.          *)
LEMMA LinhaDita ==
  ASSUME TypeOK, Proveniencia, Ileso => Vidas
  PROVE  LinhaTemEvento
<1> SUFFICES ASSUME gasto["perdas"] = 0, gasto["quedas"] = 0,
                    NEW f \in Arquivos, registro[f] # Nenhum
             PROVE  NewEvent("upload", f, registro[f].usuario, registro[f].hash) \in Emitidos
  BY DEF LinhaTemEvento
<1>1. Vidas
  BY DEF Ileso
<1>2. SoUpload(f)
  BY <1>1 DEF Vidas, Vida, UmaVida, Conhecido, Calado
<1>3. PICK i \in Ditos(f) : Historia(f)[i].tipo = "upload"
  BY <1>2 DEF SoUpload, SoUploadEm, Ditos
<1> DEFINE d == Historia(f)[i]
<1>4. d \in Emitidos /\ d \in Eventos /\ d.arquivo = f /\ d.tipo = "upload"
  BY <1>3, DitoEmitido
<1> HIDE DEF d
<1>5. Provado(f, d.usuario, d.hash)
  BY <1>4 DEF Proveniencia, EventosProvados
<1>6. Provado(f, registro[f].usuario, registro[f].hash)
  BY DEF Proveniencia, LinhasProvadas
<1>7. d.usuario = registro[f].usuario /\ d.hash = registro[f].hash
  BY <1>1, <1>5, <1>6, UmDono DEF Provado
<1>8. d = NewEvent("upload", f, registro[f].usuario, registro[f].hash)
  BY <1>4, <1>7 DEF Eventos, NewEvent
<1> QED
  BY <1>4, <1>8

(* While no message is lost, every row of the command table has had its    *)
(* upload event: updateRegistro never runs ahead of what the readers are   *)
(* told.                                                                   *)
THEOREM LinhasTemEvento == Spec => []LinhaTemEvento
<1>1. CInv => LinhaTemEvento
  BY LinhaDita DEF CInv
<1> QED
  BY <1>1, VidasInvariante, PTL

-----------------------------------------------------------------------------
(* Without faults nothing is forgotten either: a file the readers have     *)
(* only seen uploaded has its executed command on the way, its row, or its *)
(* deletion under way.                                                     *)
SemFaltas == \A t \in DOMAIN gasto : t # "sessoes" => gasto[t] = 0

UmDito(f) == \E i : Ditos(f) = {i}

Guardada(f) ==
  /\ SoUpload(f) => Retorno(f) # {} \/ registro[f] # Nenhum \/ Excluindo(f)
  /\ NoMeio(f) => Retorno(f) # {}
  /\ UmDito(f) => SoUpload(f)

(* Whatever lies behind an offset was handled by this process, and nothing *)
(* that is not there yet.                                                  *)
Vistos(p) ==
  /\ \A i \in Nat \ {0} : i <= posicao[p] \/ i <= confirmado[p] => i \in processado[p]
  /\ processado[p] \subseteq DOMAIN comando[p]

Guardas == /\ processo = "roda"
           /\ \A p \in Particoes : Vistos(p)
           /\ \A f \in Arquivos : Guardada(f)

TInv == CInv /\ (SemFaltas => Guardas)

(* A file whose part of this does not change is kept.                      *)
LEMMA FicaGuardada ==
  ASSUME NEW f \in Arquivos, Guardada(f), Voltou(f)' = Voltou(f), Volta(f)' = Volta(f),
         registro'[f] = registro[f], Excluindo(f)' <=> Excluindo(f), NoMeio(f)' <=> NoMeio(f),
         Ditos(f)' = Ditos(f), SoUpload(f)' <=> SoUpload(f)
  PROVE  Guardada(f)'
<1>1. Retorno(f)' = Retorno(f)
  BY DEF Retorno
<1>2. UmDito(f)' <=> UmDito(f)
  BY DEF UmDito
<1> QED
  BY <1>1, <1>2 DEF Guardada

(* A handler that ends or goes on keeps what lies behind its offset.       *)
LEMMA PassoVistos ==
  ASSUME TypeOK, NEW q \in Particoes, NoLugar(q), PassoEm(q), confirmado' = confirmado, Vistos(q)
  PROVE  Vistos(q)'
<1>1. comando' = comando /\ posicao[q] + 1 \in DOMAIN comando[q]
  BY ArquivoDaqui DEF PassoEm
<1>2. posicao[q] \in Nat /\ confirmado[q] \in Nat
  BY DEF TypeOK
<1>3. CASE Conclui(q)
  <2>1. posicao'[q] = posicao[q] + 1 /\ processado'[q] = processado[q] \cup {posicao[q] + 1}
    BY <1>3 DEF Conclui, TypeOK
  <2>2. ASSUME NEW i \in Nat \ {0}, i <= posicao[q] + 1 \/ i <= confirmado[q]
        PROVE  i \in processado[q] \cup {posicao[q] + 1}
    <3>1. i <= posicao[q] \/ i <= confirmado[q] \/ i = posicao[q] + 1
      BY <1>2, <2>2
    <3> QED
      BY <3>1 DEF Vistos
  <2> QED
    BY <1>1, <2>1, <2>2 DEF Vistos
<1>4. ASSUME NEW s \in Passos, Passa(q, s) PROVE Vistos(q)'
  BY <1>1, <1>4 DEF Passa, Vistos
<1> QED
  BY <1>3, <1>4 DEF PassoEm

(* One event more for a file that had one.                                 *)
LEMMA DoisDitos ==
  ASSUME TypeOK, NEW e \in Eventos, filaMedia' = Publica(filaMedia, e), media' = media,
         NEW f \in Arquivos, e.arquivo = f, NEW i \in Ditos(f)
  PROVE  ~SoUpload(f)' /\ ~UmDito(f)'
<1> DEFINE log == Historia(f)
           n == Len(log) + 1
<1>1. Historia(f)' = Append(log, e)
  BY UmEventoMais
<1>2. log \in Seq(Eventos)
  BY TiposEm, ParticaoAssumption DEF Historia
<1>3. /\ n \notin DOMAIN log /\ DOMAIN Append(log, e) = DOMAIN log \cup {n} /\ Append(log, e)[n] = e
      /\ \A j \in DOMAIN log : Append(log, e)[j] = log[j]
  BY <1>2, Anexa
<1>4. Ditos(f)' = DitosEm(Append(log, e), f)
  BY <1>1 DEF Ditos
<1>5. i \in DOMAIN log /\ log[i].arquivo = f
  BY DEF Ditos, DitosEm
<1> HIDE DEF n, log
<1>6. i \in Ditos(f)' /\ n \in Ditos(f)' /\ i # n
  BY <1>3, <1>4, <1>5 DEF DitosEm
<1>7. SoUpload(f)' => UmDito(f)'
  BY DEF SoUpload, SoUploadEm, UmDito, Ditos
<1> QED
  BY <1>6, <1>7 DEF UmDito

(* The handler's own file, one lemma per kind of step: a step that ends    *)
(* without touching row or answers,                                        *)
LEMMA GuardadaFim ==
  ASSUME TypeOK, NEW q \in Particoes, NEW f \in Arquivos, ParticaoDe[f] = q, Guardada(f), Conclui(q),
         UNCHANGED <<comando, media, filaMedia, registro>>, Volta(f)' = Volta(f),
         etapa[q].passo \notin {"executado", "evento"}, posicao[q] + 1 \notin Voltou(f)
  PROVE  Guardada(f)'
<1>1. Voltou(f)' = Voltou(f) /\ ~Excluindo(f)' /\ ~NoMeio(f)'
  BY Concluido
<1>2. ~Excluindo(f) /\ ~NoMeio(f)
  BY DEF NoMeio, Excluindo, Entre
<1>3. Ditos(f)' = Ditos(f) /\ (SoUpload(f)' <=> SoUpload(f))
  BY HistoriaParada, MesmaHistoria
<1> QED
  BY <1>1, <1>2, <1>3, FicaGuardada

(* one that leaves the answers as they are and the file with a row or its  *)
(* deletion under way, if it had any,                                      *)
LEMMA GuardadaPassa ==
  ASSUME NEW f \in Arquivos, Guardada(f), Historia(f)' = Historia(f), ~NoMeio(f)',
         \/ registro'[f] # Nenhum \/ Excluindo(f)'
         \/ /\ Retorno(f)' = Retorno(f) /\ registro'[f] = registro[f]
            /\ Excluindo(f)' <=> Excluindo(f)
  PROVE  Guardada(f)'
<1>1. Ditos(f)' = Ditos(f) /\ (SoUpload(f)' <=> SoUpload(f))
  BY MesmaHistoria
<1>2. UmDito(f)' <=> UmDito(f)
  BY <1>1 DEF UmDito
<1> QED
  BY <1>1, <1>2 DEF Guardada

(* the executed command,                                                   *)
LEMMA GuardadaExecutado ==
  ASSUME TypeOK, NEW q \in Particoes, NEW f \in Arquivos, NoLugar(q), Guardada(f),
         f = Comando(q).arquivo, ProduzExecutado(q),
         filaComando' = Publica(filaComando, Executado(q))
  PROVE  Guardada(f)'
<1>1. /\ TemComando(q) /\ etapa[q] # Livre /\ etapa[q].passo = "executado"
      /\ etapa[q].hash \in Hashes /\ Comando(q) \in Comandos
      /\ UNCHANGED <<comando, temp, media, filaMedia, registro>>
  BY EtapaTipo, ComandoTipo DEF ProduzExecutado, Em, Livre, Passos, midiaVars
<1>2. ParticaoDe[f] = q
  BY <1>1, ArquivoDaqui
<1>3. Passa(q, "evento") /\ "evento" \in Passos
  <2>1. Vai(q, "evento", etapa[q].usuario, etapa[q].hash) /\ UNCHANGED <<posicao, processado>>
        /\ "evento" \in Passos
    BY DEF ProduzExecutado, Passos
  <2> QED
    BY <1>1, <2>1, VaiPasso
<1>4. /\ Voltou(f)' = Voltou(f)
      /\ Excluindo(f)' <=> Comando(q).tipo = "delete"
      /\ NoMeio(f)' <=> Comando(q).tipo = "upload"
  BY <1>1, <1>2, <1>3, Passado
<1>5. Ditos(f)' = Ditos(f) /\ (SoUpload(f)' <=> SoUpload(f)) /\ Historia(f)' = Historia(f)
  BY <1>1, HistoriaParada, MesmaHistoria
<1>6. Executado(q) \in Comandos /\ Executado(q).tipo = Comando(q).tipo
      /\ Executado(q).arquivo = f /\ Executado(q).status = "executado"
  BY <1>1 DEF Executado, Comandos, Status
<1>7. CASE Comando(q).tipo = "upload"
  <2>1. DoArquivo(Executado(q), f, "executado")
    BY <1>6, <1>7 DEF DoArquivo
  <2>2. Volta(f)' # {}
    <3> HIDE DEF DoArquivo
    <3> QED
      BY <1>6, <2>1, OutraResposta
  <2>3. Retorno(f)' # {}
    BY <2>2 DEF Retorno
  <2>4. UmDito(f)' <=> UmDito(f)
    BY <1>5 DEF UmDito
  <2> QED
    BY <1>5, <2>3, <2>4 DEF Guardada
<1>8. CASE Comando(q).tipo = "delete"
  BY <1>4, <1>5, <1>8, GuardadaPassa
<1> QED
  BY <1>1, <1>7, <1>8 DEF Comandos, Tipos

(* and the event.                                                          *)
LEMMA GuardadaEvento ==
  ASSUME TypeOK, Proveniencia, NEW q \in Particoes, NEW f \in Arquivos, NoLugar(q), Vida(f),
         Guardada(f), f = Comando(q).arquivo, ProduzEvento(q),
         filaMedia' = Publica(filaMedia, EventoDe(q)), gasto["perdas"] = 0
  PROVE  Guardada(f)'
<1> DEFINE k == posicao[q] + 1
<1>1. /\ TemComando(q) /\ etapa[q] # Livre /\ etapa[q].passo = "evento"
      /\ etapa[q].hash \in Hashes /\ etapa[q].usuario \in Usuarios /\ Comando(q) \in Comandos
      /\ UNCHANGED <<comando, temp, media, filaComando, registro>> /\ Conclui(q)
  BY EtapaTipo, ComandoTipo DEF ProduzEvento, Em, Livre, Passos, midiaVars
<1>2. ParticaoDe[f] = q /\ k \in DOMAIN comando[q] /\ Comando(q).status = "pendente"
  BY <1>1, ArquivoDaqui DEF Proveniencia, EtapasProvadas, EtapaProvada
<1>3. k \notin Voltou(f)
  BY <1>2 DEF Voltou, Onde, DoArquivo, Comando
<1>4. Voltou(f)' = Voltou(f) /\ Volta(f)' = Volta(f) /\ ~NoMeio(f)'
  <2>1. Voltou(f)' = Voltou(f) \ {k} /\ ~NoMeio(f)'
    BY <1>1, <1>2, Concluido
  <2>2. Volta(f)' = Volta(f)
    BY <1>1 DEF Volta
  <2> QED
    BY <1>3, <2>1, <2>2
<1>5. Retorno(f)' = Retorno(f)
  BY <1>4 DEF Retorno
<1>6. /\ EventoDe(q) \in Eventos /\ EventoDe(q).arquivo = f
      /\ EventoDe(q).tipo = Comando(q).tipo
  BY <1>1, ComandoTipo DEF EventoDe, NewEvent, Eventos
<1>7. CASE Comando(q).tipo = "upload"
  <2>1. k \in Espera(f)
    BY <1>1, <1>2, <1>7 DEF Espera, Envios, Onde, DoArquivo, Comando, NoLugar
  <2> HIDE DEF k
  <2>2. Ditos(f) = {}
    BY <2>1 DEF Vida, UmaVida
  <2>3. SoUpload(f)'
    BY <1>1, <1>6, <1>7, <2>2, UmEventoMais
  <2>4. NoMeio(f)
    BY <1>1, <1>2, <1>7 DEF NoMeio, Entre
  <2> QED
    BY <1>4, <1>5, <2>3, <2>4 DEF Guardada
<1>8. CASE Comando(q).tipo = "delete"
  <2>1. Excluindo(f)
    BY <1>1, <1>2, <1>8 DEF Excluindo, Entre
  <2>2. PICK i : i \in Ditos(f)
    BY <2>1 DEF Vida, UmaVida, Conhecido, Calado, SoUpload, SoUploadEm, Ditos
  <2>3. ~SoUpload(f)' /\ ~UmDito(f)'
    BY <1>1, <1>6, <2>2, DoisDitos
  <2> QED
    BY <1>4, <2>3 DEF Guardada
<1> QED
  BY <1>1, <1>7, <1>8 DEF Comandos, Tipos

(* Together: without a fault a step of a handler keeps every file.         *)
LEMMA HandlerGuardada ==
  ASSUME TypeOK, Proveniencia, NEW q \in Particoes, processo = "roda", NoLugar(q), Handler(q),
         gasto'["perdas"] = 0, NEW g \in Arquivos, Vida(g), Guardada(g)
  PROVE  Guardada(g)'
<1>1. PassoEm(q)
  BY HandlerPasso
<1>2. CASE g # Comando(q).arquivo
  BY <1>1, <1>2, OutroArquivo, FicaGuardada DEF Igual
<1> SUFFICES ASSUME g = Comando(q).arquivo PROVE Guardada(g)'
  BY <1>2
<1>3. ParticaoDe[g] = q /\ TemComando(q) /\ comando' = comando
  BY <1>1, ArquivoDaqui DEF PassoEm
<1>4. CASE RejeitaInvalido(q) \/ RejeitaDelete(q)
  <2>1. /\ Conclui(q) /\ UNCHANGED <<comando, media, filaMedia, registro>> /\ Volta(g)' = Volta(g)
        /\ etapa[q].passo \notin {"executado", "evento"} /\ Comando(q).status = "pendente"
    <3>1. Rejeita(q)
      BY <1>4 DEF RejeitaInvalido, RejeitaDelete
    <3>2. Conclui(q) /\ Volta(g)' = Volta(g)
      BY <1>3, <3>1, RejeitaPasso
    <3> QED
      BY <1>4, <3>2 DEF RejeitaInvalido, RejeitaDelete, Trata, midiaVars
  <2>2. posicao[q] + 1 \notin Voltou(g)
    BY <1>3, <2>1 DEF Voltou, Onde, DoArquivo, Comando
  <2> QED
    BY <1>3, <2>1, <2>2, GuardadaFim
<1>5. CASE IgnoraComando(q)
  <2>1. /\ Conclui(q) /\ UNCHANGED <<comando, media, filaMedia, registro>> /\ Volta(g)' = Volta(g)
        /\ etapa[q].passo \notin {"executado", "evento"}
        /\ \/ posicao[q] + 1 \in processado[q] \/ Comando(q).status = "rejeitado"
           \/ Comando(q).tipo = "delete"
    BY <1>5 DEF IgnoraComando, midiaVars, Volta
  <2>2. posicao[q] + 1 \notin Voltou(g)
    BY <1>3, <2>1 DEF Voltou, Onde, DoArquivo, Comando
  <2> QED
    BY <1>3, <2>1, <2>2, GuardadaFim
<1>6. CASE UpdateRegistro(q)
  <2>1. /\ Conclui(q) /\ UNCHANGED <<comando, media, filaMedia>> /\ registro' = Salva(Comando(q))
    BY <1>6 DEF UpdateRegistro, midiaVars
  <2>2. ~NoMeio(g)' /\ Historia(g)' = Historia(g)
    BY <1>3, <2>1, Concluido, HistoriaParada
  <2>3. registro'[g] # Nenhum
    <3>1. Comando(q) \in Comandos /\ Comando(q).hash \in Hashes
      BY <1>3, <1>6, ComandoTipo DEF UpdateRegistro, Trata, Comandos
    <3>2. registro'[g] \in Linhas
      BY <2>1, <3>1 DEF Salva, TypeOK, Comandos, Linhas
    <3> QED
      BY <3>2, LinhaAssumption
  <2> QED
    BY <2>2, <2>3, GuardadaPassa
<1>7. CASE VerificaPhoto(q) \/ AddPhoto(q) \/ AddThumbnail(q)
  <2>1. /\ UNCHANGED <<comando, media, filaMedia, filaComando, registro, posicao, processado>>
        /\ etapa[q].passo \notin {"executado", "evento"} /\ etapa'[q].passo # "evento"
        /\ Comando(q).tipo = "upload"
    BY <1>7 DEF VerificaPhoto, AddPhoto, AddThumbnail, Em, Trata, midiaVars, NoLugar, Vai, TypeOK
  <2>2. Historia(g)' = Historia(g) /\ Retorno(g)' = Retorno(g)
    BY <2>1, HistoriaParada DEF Retorno, Volta, Voltou
  <2>3. ~Excluindo(g)' /\ ~NoMeio(g)' /\ ~Excluindo(g)
    BY <1>3, <2>1 DEF Excluindo, NoMeio, Entre, Comando
  <2> QED
    BY <2>1, <2>2, <2>3, GuardadaPassa
<1>8. CASE DeleteRegistro(q)
  <2>1. /\ UNCHANGED <<comando, media, filaMedia, posicao>>
        /\ etapa'[q].passo = "executado" /\ Comando(q).tipo = "delete"
    BY <1>8 DEF DeleteRegistro, Trata, midiaVars, Vai, TypeOK
  <2>2. Historia(g)' = Historia(g) /\ Excluindo(g)' /\ ~NoMeio(g)'
    BY <1>3, <2>1, HistoriaParada DEF Excluindo, NoMeio, Entre, Comando
  <2> QED
    BY <2>2, GuardadaPassa
<1>9. ~SemConexao(q) /\ ~Gasta("perdas", MaxPerdas)
  BY DEF SemConexao, Gasta, TypeOK, Gastos
<1>10. CASE ProduzExecutado(q)
  <2>1. filaComando' = Publica(filaComando, Executado(q))
    BY <1>9, <1>10 DEF ProduzExecutado
  <2> QED
    BY <1>10, <2>1, GuardadaExecutado
<1>11. CASE ProduzEvento(q)
  <2>1. filaMedia' = Publica(filaMedia, EventoDe(q))
    BY <1>9, <1>11 DEF ProduzEvento
  <2>2. gasto["perdas"] = 0
    BY <1>9, <1>11 DEF ProduzEvento
  <2> QED
    BY <1>11, <2>1, <2>2, GuardadaEvento
<1> QED
  BY <1>4, <1>5, <1>6, <1>7, <1>8, <1>9, <1>10, <1>11 DEF Handler

(* An answer on its way from the queue to the topic is still on its way.   *)
LEMMA EntregaComandoGuardada ==
  ASSUME TypeOK, Proveniencia, [Next]_vars, NEW p \in Particoes, EntregaComando(p),
         NoLugar(p), Vistos(p), NEW f \in Arquivos, Vida(f), Guardada(f)
  PROVE  Guardada(f)'
<1> DEFINE s == filaComando[p]
           c == Head(s)
           n == Len(comando[p]) + 1
<1>1. s \in Seq(Comandos) /\ s # <<>> /\ c \in Comandos /\ c = s[1] /\ 1 \in DOMAIN s
  <2>1. s \in Seq(Comandos) /\ s # <<>>
    BY TiposEm DEF EntregaComando
  <2>2. c \in Comandos /\ c = s[1] /\ 1 \in DOMAIN s
    BY <2>1, EmptySeq, LenProperties, HeadTailProperties
  <2> QED
    BY <2>1, <2>2
<1>2. c.arquivo \in Arquivos /\ ParticaoDe[c.arquivo] = p
  BY <1>1 DEF NoLugar, Comandos
<1>3. NoFim(c) /\ registro' = registro
  BY <1>2 DEF EntregaComando, NoFim, Publica
<1>4. /\ filaComando'[p] = Tail(s) /\ \A q \in Particoes : q # p => filaComando'[q] = filaComando[q]
      /\ comando'[p] = Append(comando[p], c) /\ processado' = processado
  BY DEF EntregaComando, TypeOK, MidiaTypeOK
<1> HIDE DEF c, s
<1>5. /\ DoArquivo(c, f, "executado") \/ Voltou(f)' = Voltou(f)
      /\ Excluindo(f)' <=> Excluindo(f)
      /\ NoMeio(f)' <=> NoMeio(f)
      /\ Ditos(f)' = Ditos(f) /\ (SoUpload(f)' <=> SoUpload(f))
  <2> HIDE DEF DoArquivo
  <2> QED
    BY <1>1, <1>3, ComandoAoFim
<1>6. Retorno(f) # {} => Retorno(f)' # {}
  <2>1. CASE ParticaoDe[f] # p
    <3>1. ~DoArquivo(c, f, "executado")
      BY <1>2, <2>1 DEF DoArquivo
    <3>2. Volta(f)' = Volta(f)
      BY <1>4, <2>1, ParticaoAssumption DEF Volta
    <3> QED
      BY <1>5, <3>1, <3>2 DEF Retorno
  <2>2. CASE ParticaoDe[f] = p
    <3>1. Volta(f) = Onde(s, f, "executado") /\ Volta(f)' = Onde(Tail(s), f, "executado")
      BY <1>4, <2>2 DEF Volta, s
    <3>2. Unico(Volta(f))
      BY DEF Vida, UmaVolta
    <3>3. CASE DoArquivo(c, f, "executado")
      <4>1. comando[p] \in Seq(Comandos)
        BY TiposEm
      <4> HIDE DEF DoArquivo
      <4>2. n \in Onde(Append(comando[p], c), f, "executado") /\ n \notin DOMAIN comando[p]
        BY <1>1, <3>3, <4>1, OndeAnexa, Anexa
      <4>3. n \in Onde(Append(comando[p], c), f, "executado") \ processado[p]
        BY <4>2 DEF Vistos
      <4> HIDE DEF n
      <4>4. Voltou(f)' = Onde(Append(comando[p], c), f, "executado") \ processado[p]
        BY <1>4, <2>2 DEF Voltou
      <4> QED
        BY <4>3, <4>4 DEF Retorno
    <3>4. CASE ~DoArquivo(c, f, "executado")
      <4> HIDE DEF DoArquivo
      <4>1. Volta(f) # {} => Volta(f)' # {}
        BY <1>1, <3>1, <3>2, <3>4, OndeTail DEF c
      <4> QED
        BY <1>5, <3>4, <4>1 DEF Retorno
    <3> QED
      BY <3>3, <3>4
  <2> QED
    BY <2>1, <2>2
<1>7. UmDito(f)' <=> UmDito(f)
  BY <1>5 DEF UmDito
<1> QED
  BY <1>3, <1>5, <1>6, <1>7 DEF Guardada

(* A request does not touch what is kept of any file.                      *)
LEMMA PedidoGuardada ==
  ASSUME TypeOK, Proveniencia, [Next]_vars, Pedidos, UNCHANGED registroVars,
         NEW f \in Arquivos, Guardada(f)
  PROVE  Guardada(f)'
<1>1. PICK g \in Arquivos, u \in Usuarios, t \in Tipos :
        comando' = Publica(comando, NewComando(t, g, u)) /\ media' = media
  BY DEF Pedidos, Upload, DeleteMedia, Tipos
<1> DEFINE c == NewComando(t, g, u)
<1>2. c \in Comandos /\ c.arquivo = g /\ c.status = "pendente"
  BY DEF NewComando, Comandos, Status
<1>3. NoFim(c) /\ filaComando' = filaComando /\ registro' = registro
  BY <1>1, <1>2 DEF NoFim, registroVars
<1> HIDE DEF c
<1>4. ~DoArquivo(c, f, "executado")
  BY <1>2 DEF DoArquivo
<1>5. /\ Voltou(f)' = Voltou(f) /\ (Excluindo(f)' <=> Excluindo(f)) /\ (NoMeio(f)' <=> NoMeio(f))
      /\ Ditos(f)' = Ditos(f) /\ (SoUpload(f)' <=> SoUpload(f))
  <2> HIDE DEF DoArquivo
  <2> QED
    BY <1>2, <1>3, <1>4, ComandoAoFim
<1>6. Volta(f)' = Volta(f)
  BY <1>3 DEF Volta
<1> QED
  BY <1>3, <1>5, <1>6, FicaGuardada

(* Offsets move only to where everything before was handled.               *)
LEMMA VistosFica ==
  ASSUME TypeOK, [Next]_vars, NEW p \in Particoes, Vistos(p), processado'[p] = processado[p],
         posicao'[p] \in {posicao[p], confirmado[p]}, confirmado'[p] \in {posicao[p], confirmado[p]}
  PROVE  Vistos(p)'
<1>1. DOMAIN comando[p] \subseteq DOMAIN comando'[p]
  <2>1. comando[p] \in Seq(Comandos) /\ comando'[p] \in Seq(Comandos)
    BY TypeStep DEF TypeOK, MidiaTypeOK
  <2>2. DOMAIN comando[p] = 1..Len(comando[p]) /\ DOMAIN comando'[p] = 1..Len(comando'[p])
    BY <2>1, LenProperties
  <2> QED
    BY <2>2, Cresce
<1> QED
  BY <1>1 DEF Vistos

(* Without faults after a step there were none before it.                  *)
LEMMA SemFaltasAntes ==
  ASSUME TypeOK, [Next]_vars, SemFaltas'
  PROVE  /\ SemFaltas /\ SemPerdas' /\ ~Reinicia /\ ~Sigterm
         /\ \A p \in Particoes : ~FalhaUpload(p) /\ ~FalhaDelete(p) /\ ~FalhaUpdate(p)
<1>1. gasto \in Gastos /\ gasto' \in Gastos
  BY TypeStep DEF TypeOK
<1>2. gasto'["falhas"] = 0 /\ gasto'["perdas"] = 0 /\ gasto'["quedas"] = 0
  BY <1>1 DEF SemFaltas, Gastos
<1>3. gasto["falhas"] = 0 /\ gasto["perdas"] = 0 /\ gasto["quedas"] = 0
  BY <1>1, <1>2, GastoCresce DEF Gastos
<1>4. SemFaltas
  BY <1>1, <1>3 DEF SemFaltas, Gastos
<1>5. SemPerdas'
  BY <1>2 DEF SemPerdas, Ileso
<1>6. ~Gasta("falhas", MaxFalhas) /\ ~Gasta("quedas", MaxQuedas)
  BY <1>1, <1>2, <1>3 DEF Gasta, Gastos
<1> QED
  BY <1>4, <1>5, <1>6 DEF Reinicia, Sigterm, FalhaUpload, FalhaDelete, FalhaUpdate, FalhaSQL

(* Every step without a fault keeps every file.                            *)
LEMMA GuardasStep ==
  ASSUME TypeOK, Proveniencia, Vidas, Guardas, [Next]_vars, SemFaltas'
  PROVE  Guardas'
<1>1. /\ gasto'["perdas"] = 0 /\ ~Reinicia /\ ~Sigterm /\ ~Termina /\ processo = "roda"
      /\ \A p \in Particoes : NoLugar(p) /\ Vistos(p)
      /\ \A f \in Arquivos : Vida(f) /\ Guardada(f)
      /\ \A p \in Particoes : ~FalhaUpload(p) /\ ~FalhaDelete(p) /\ ~FalhaUpdate(p)
  BY SemFaltasAntes DEF Guardas, Vidas, Termina, SemPerdas
<1>2. ASSUME Pedidos, UNCHANGED registroVars PROVE Guardas'
  <2>1. UNCHANGED <<processado, posicao, confirmado, processo>>
    BY <1>2 DEF registroVars
  <2>2. ASSUME NEW p \in Particoes PROVE Vistos(p)'
    BY <1>1, <2>1, VistosFica
  <2>3. ASSUME NEW f \in Arquivos PROVE Guardada(f)'
    BY <1>1, <1>2, PedidoGuardada
  <2> QED
    BY <1>1, <2>1, <2>2, <2>3 DEF Guardas
<1>3. ASSUME NEW q \in Particoes, Handler(q) PROVE Guardas'
  <2>1. NoLugar(q) /\ PassoEm(q)
    BY <1>1, <1>3, HandlerPasso
  <2>2. UNCHANGED <<confirmado, processo>>
    BY <1>3 DEF Handler, RejeitaInvalido, VerificaPhoto, AddPhoto, AddThumbnail, DeleteRegistro,
       RejeitaDelete, UpdateRegistro, SemConexao, IgnoraComando, ProduzExecutado, ProduzEvento
  <2>3. ASSUME NEW p \in Particoes PROVE Vistos(p)'
    <3>1. CASE p = q
      BY <1>1, <2>1, <2>2, <3>1, PassoVistos
    <3>2. CASE p # q
      <4>1. processado'[p] = processado[p] /\ posicao'[p] = posicao[p]
        BY <2>1, <3>2 DEF PassoEm, Conclui, Passa, TypeOK
      <4> QED
        BY <1>1, <2>2, <4>1, VistosFica
    <3> QED
      BY <3>1, <3>2
  <2>4. ASSUME NEW f \in Arquivos PROVE Guardada(f)'
    BY <1>1, <1>3, HandlerGuardada
  <2> QED
    BY <1>1, <2>2, <2>3, <2>4 DEF Guardas
<1>4. ASSUME NEW q \in Particoes, EntregaComando(q) PROVE Guardas'
  <2>1. UNCHANGED <<processado, posicao, confirmado, processo>>
    BY <1>4 DEF EntregaComando
  <2>2. ASSUME NEW p \in Particoes PROVE Vistos(p)'
    BY <1>1, <2>1, VistosFica
  <2>3. ASSUME NEW f \in Arquivos PROVE Guardada(f)'
    BY <1>1, <1>4, EntregaComandoGuardada
  <2> QED
    BY <1>1, <2>1, <2>2, <2>3 DEF Guardas
<1>5. ASSUME NEW q \in Particoes, EntregaMedia(q) PROVE Guardas'
  <2>1. UNCHANGED <<processado, posicao, confirmado, processo>>
    BY <1>5 DEF EntregaMedia
  <2>2. ASSUME NEW p \in Particoes PROVE Vistos(p)'
    BY <1>1, <2>1, VistosFica
  <2>3. ASSUME NEW f \in Arquivos PROVE Guardada(f)'
    BY <1>1, <1>5, EntregaMediaArquivo, FicaGuardada DEF Igual
  <2> QED
    BY <1>1, <2>1, <2>2, <2>3 DEF Guardas
<1>6. ASSUME Parado PROVE Guardas'
  <2>1. UNCHANGED <<processado, processo>>
    BY <1>6 DEF Parado, NovaSessao, ConfirmaOffset, vars, registroVars
  <2>2. ASSUME NEW p \in Particoes PROVE Vistos(p)'
    <3>1. posicao'[p] \in {posicao[p], confirmado[p]} /\ confirmado'[p] \in {posicao[p], confirmado[p]}
      BY <1>6 DEF Parado, NovaSessao, ConfirmaOffset, vars, registroVars, TypeOK
    <3> QED
      BY <1>1, <2>1, <3>1, VistosFica
  <2>3. ASSUME NEW f \in Arquivos PROVE Guardada(f)'
    BY <1>1, <1>6, ParadoIgual, FicaGuardada DEF Igual
  <2> QED
    BY <1>1, <2>1, <2>2, <2>3 DEF Guardas
<1> QED
  BY <1>1, <1>2, <1>3, <1>4, <1>5, <1>6 DEF Next, RegistroNext, Producer, Ambiente, Parado

(* The inductive invariant: lives, and without faults nothing forgotten.   *)
THEOREM GuardasInvariante == Spec => []TInv
<1>1. Init => (SemFaltas => Guardas)
  <2> SUFFICES ASSUME Init PROVE Guardas
    OBVIOUS
  <2>1. /\ processo = "roda"
        /\ \A p \in Particoes : /\ media[p] = <<>> /\ filaMedia[p] = <<>> /\ processado[p] = {}
                                /\ posicao[p] = 0 /\ confirmado[p] = 0 /\ etapa[p] = Livre
    BY DEF Init, MidiaInit, RegistroInit
  <2>2. ASSUME NEW p \in Particoes PROVE Vistos(p)
    BY <2>1 DEF Vistos
  <2>3. ASSUME NEW f \in Arquivos PROVE Guardada(f)
    <3>1. ParticaoDe[f] \in Particoes
      BY ParticaoAssumption
    <3>2. Historia(f) = <<>> \o <<>> /\ <<>> \o <<>> = <<>>
      BY <2>1, <3>1 DEF Historia, Anunciados
    <3>3. Ditos(f) = {}
      BY <3>2 DEF Ditos, DitosEm
    <3>4. ~SoUpload(f) /\ ~UmDito(f)
      BY <3>3 DEF SoUpload, SoUploadEm, Ditos, UmDito
    <3>5. ~NoMeio(f)
      BY <2>1, <3>1 DEF NoMeio, Entre, Livre
    <3> QED
      BY <3>4, <3>5 DEF Guardada
  <2> QED
    BY <2>1, <2>2, <2>3 DEF Guardas
<1>2. CInv /\ (SemFaltas => Guardas) /\ [Next]_vars => (SemFaltas => Guardas)'
  <2> SUFFICES ASSUME CInv, SemFaltas => Guardas, [Next]_vars, SemFaltas' PROVE Guardas'
    OBVIOUS
  <2>1. SemFaltas /\ Ileso
    BY SemFaltasAntes, SemPerdasAntes DEF CInv, SemPerdas
  <2> QED
    BY <2>1, GuardasStep DEF CInv
<1> QED
  BY <1>1, <1>2, VidasInvariante, PTL DEF Spec, TInv

(* At rest, and with no fault behind it, registro has a row exactly for    *)
(* the files whose one event is the upload: the table the processor writes *)
(* from its own answers and the topic the readers follow never part,       *)
(* whatever was replayed.                                                  *)
THEOREM TabelaConcorda == Spec => []TabelaConcordaComTopico
<1>1. TInv => TabelaConcordaComTopico
  <2> SUFFICES ASSUME TInv, Quieto, SemFaltas, NEW f \in Arquivos
               PROVE  registro[f] # Nenhum <=> Cardinality(Cat!EventosDe(f)) = 1
    BY DEF TabelaConcordaComTopico, SemFaltas
  <2> DEFINE p == ParticaoDe[f]
  <2>1. TypeOK /\ Vidas /\ Guardas
    BY DEF TInv, CInv, SemFaltas, Ileso, TypeOK, Gastos
  <2>2. /\ p \in Particoes /\ etapa[p] = Livre /\ ~TemComando(p) /\ filaComando[p] = <<>>
        /\ Vistos(p) /\ Vida(f) /\ Guardada(f)
    BY <2>1, ParticaoAssumption DEF Quieto, Guardas, Vidas
  <2>3. Retorno(f) = {} /\ ~Excluindo(f)
    <3>1. Volta(f) = {}
      BY <2>2 DEF Volta, Onde
    <3>2. DOMAIN comando[p] \subseteq processado[p]
      <4>1. comando[p] \in Seq(Comandos) /\ posicao[p] \in Nat
        BY <2>1, <2>2, TiposEm
      <4>2. DOMAIN comando[p] = 1..Len(comando[p]) /\ Len(comando[p]) \in Nat
        BY <4>1, LenProperties
      <4>3. \A i \in DOMAIN comando[p] : i \in Nat \ {0} /\ i <= posicao[p]
        BY <2>2, <4>1, <4>2 DEF TemComando
      <4> QED
        BY <2>2, <4>3 DEF Vistos
    <3>3. Voltou(f) = {}
      BY <3>2 DEF Voltou, Onde
    <3> QED
      BY <2>2, <3>1, <3>3 DEF Retorno, Excluindo, Entre, Livre
  <2>4. registro[f] # Nenhum <=> UmDito(f)
    <3>1. gasto["perdas"] = 0
      BY <2>1 DEF SemFaltas, TypeOK, Gastos
    <3> QED
      BY <2>2, <2>3, <3>1
         DEF Guardada, Vida, UmaVida, Conhecido, Calado, SoUpload, SoUploadEm, UmDito, Ditos
  <2>5. Cat!EventosDe(f) = Ditos(f)
    BY DEF Cat!EventosDe, Ditos, DitosEm, Historia
  <2>6. IsFiniteSet(Ditos(f))
    <3>1. Historia(f) \in Seq(Eventos)
      BY <2>1, <2>2, TiposEm DEF Historia
    <3>2. Ditos(f) \subseteq 1..Len(Historia(f)) /\ Len(Historia(f)) \in Nat
      BY <3>1, LenProperties DEF Ditos, DitosEm
    <3>3. IsFiniteSet(1..Len(Historia(f)))
      BY <3>2, FS_Interval
    <3> QED
      BY <3>2, <3>3, FS_Subset
  <2>7. Cardinality(Ditos(f)) = 1 <=> UmDito(f)
    BY <2>6, FS_Singleton DEF UmDito
  <2> QED
    BY <2>4, <2>5, <2>7
<1> QED
  BY <1>1, GuardasInvariante, PTL

-----------------------------------------------------------------------------
(* No command is left behind: what answers it, or takes it back, is a      *)
(* message after it.  Message m comes after offset i.                      *)
Depois(p, i, m) ==
  \/ \E j \in (i + 1)..Len(comando[p]) : comando[p][j] = m
  \/ \E j \in DOMAIN filaComando[p] : filaComando[p][j] = m

Atendido(p, i) == comando[p][i].status = "pendente" =>
  \E m \in Comandos : Atende(m, comando[p][i]) /\ Depois(p, i, m)

ComLinha(p, i) == comando[p][i].tipo = "upload" /\ comando[p][i].status = "executado" =>
  \/ registro[comando[p][i].arquivo] # Nenhum
  \/ \E m \in Comandos : Desdiz(m, comando[p][i]) /\ Depois(p, i, m)
  \/ \E u \in Usuarios : Pediu(comando[p][i].arquivo, u)

Tratado(p, i) == Atendido(p, i) /\ ComLinha(p, i)

(* The answer is handed to the producer before the event.                  *)
NoEvento(p) == etapa[p].passo = "evento" => Atendido(p, posicao[p] + 1)

Tratadas == \A p \in Particoes :
  Vistos(p) /\ NoEvento(p) /\ \A i \in processado[p] : Tratado(p, i)

RInv == CInv /\ (SemPerdas => Tratadas)

(* The four things a step can do to the commands of a partition.           *)
Anexou(p) == \E m \in Comandos : comando'[p] = Append(comando[p], m) /\ filaComando'[p] = filaComando[p]
Enfileirou(p) == \E m \in Comandos : comando'[p] = comando[p] /\ filaComando'[p] = Append(filaComando[p], m)
Entregou(p) == /\ filaComando[p] # <<>>
               /\ comando'[p] = Append(comando[p], Head(filaComando[p]))
               /\ filaComando'[p] = Tail(filaComando[p])
Ficou(p) == comando'[p] = comando[p] /\ filaComando'[p] = filaComando[p]

(* It does one of them, while the process does not end.                    *)
LEMMA ComandoAnda ==
  ASSUME TypeOK, Vidas, [Next]_vars, Ileso', NEW p \in Particoes
  PROVE  Anexou(p) \/ Enfileirou(p) \/ Entregou(p) \/ Ficou(p)
<1>1. ~Reinicia /\ ~Sigterm /\ ~Termina /\ processo # "encerra"
  BY IlesoAntes DEF Vidas, Termina
<1>2. ASSUME Pedidos, UNCHANGED registroVars PROVE Anexou(p) \/ Ficou(p)
  <2>1. PICK g \in Arquivos, u \in Usuarios, t \in Tipos : comando' = Publica(comando, NewComando(t, g, u))
    BY <1>2 DEF Pedidos, Upload, DeleteMedia, Tipos
  <2>2. NewComando(t, g, u) \in Comandos /\ NewComando(t, g, u).arquivo = g
    BY DEF NewComando, Comandos, Status
  <2>3. filaComando' = filaComando
    BY <1>2 DEF registroVars
  <2>4. comando \in [Particoes -> Seq(Comandos)] /\ ParticaoDe[g] \in Particoes
    BY ParticaoAssumption DEF TypeOK, MidiaTypeOK
  <2>5. comando'[p] = IF p = ParticaoDe[g] THEN Append(comando[p], NewComando(t, g, u)) ELSE comando[p]
    BY <2>1, <2>2, <2>4 DEF Publica
  <2> QED
    BY <2>2, <2>3, <2>5 DEF Anexou, Ficou
<1>3. ASSUME NEW q \in Particoes, Handler(q) \/ Recusa(q) PROVE Enfileirou(p) \/ Ficou(p)
  <2>1. NoLugar(q)
    BY DEF Vidas
  <2>2. PassoEm(q)
    BY <1>1, <1>3, <2>1, HandlerPasso
  <2>3. CASE filaComando' = filaComando
    BY <2>2, <2>3 DEF PassoEm, Ficou
  <2>4. CASE Responde(q)
    <3>1. PICK m \in Comandos : m.arquivo = Comando(q).arquivo /\ filaComando' = Publica(filaComando, m)
      BY <2>4 DEF Responde
    <3>2. ParticaoDe[m.arquivo] = q
      BY <2>1, <2>2, <3>1, ArquivoDaqui DEF PassoEm
    <3>3. filaComando'[q] = Append(filaComando[q], m)
          /\ \A r \in Particoes \ {q} : filaComando'[r] = filaComando[r]
      BY <3>1, <3>2, PublicaAqui
    <3> QED
      BY <2>2, <3>3 DEF PassoEm, Enfileirou, Ficou
  <2> QED
    BY <2>2, <2>3, <2>4 DEF PassoEm
<1>4. ASSUME NEW q \in Particoes, EntregaComando(q) PROVE Entregou(p) \/ Ficou(p)
  BY <1>4 DEF EntregaComando, Entregou, Ficou, TypeOK, MidiaTypeOK
<1>5. ASSUME NEW q \in Particoes, EntregaMedia(q) PROVE Ficou(p)
  BY <1>5 DEF EntregaMedia, Ficou
<1>6. Parado => Ficou(p)
  BY DEF Parado, NovaSessao, ConfirmaOffset, vars, midiaVars, registroVars, Ficou
<1> QED
  BY <1>1, <1>2, <1>3, <1>4, <1>5, <1>6 DEF Next, RegistroNext, Producer, Ambiente, Recusa, Parado

(* What comes after an offset stays after it.                              *)
LEMMA DepoisFica ==
  ASSUME TypeOK, NEW p \in Particoes, NEW i \in DOMAIN comando[p], NEW m, Depois(p, i, m),
         Anexou(p) \/ Enfileirou(p) \/ Entregou(p) \/ Ficou(p)
  PROVE  Depois(p, i, m)'
<1> DEFINE s == comando[p]
           t == filaComando[p]
<1>1. s \in Seq(Comandos) /\ t \in Seq(Comandos)
  BY TiposEm
<1>2. Len(s) \in Nat /\ DOMAIN s = 1..Len(s) /\ i \in 1..Len(s)
  BY <1>1, LenProperties
<1> HIDE DEF s, t
<1>3. ASSUME NEW x \in Comandos, comando'[p] = Append(s, x)
      PROVE  /\ Len(comando'[p]) = Len(s) + 1 /\ comando'[p][Len(s) + 1] = x
             /\ \A j \in (i + 1)..Len(s) : j \in (i + 1)..Len(comando'[p]) /\ comando'[p][j] = s[j]
  <2>1. Len(Append(s, x)) = Len(s) + 1 /\ Append(s, x)[Len(s) + 1] = x
        /\ \A j \in 1..Len(s) : Append(s, x)[j] = s[j]
    BY <1>1, AppendProperties
  <2>2. \A j \in (i + 1)..Len(s) : j \in 1..Len(s) /\ j \in (i + 1)..(Len(s) + 1)
    BY <1>2
  <2> QED
    BY <1>3, <2>1, <2>2
<1>4. CASE Ficou(p)
  BY <1>4 DEF Ficou, Depois
<1>5. CASE Anexou(p)
  <2>1. PICK x \in Comandos : comando'[p] = Append(s, x) /\ filaComando'[p] = filaComando[p]
    BY <1>5 DEF Anexou, s
  <2>2. \A j \in (i + 1)..Len(s) : j \in (i + 1)..Len(comando'[p]) /\ comando'[p][j] = s[j]
    BY <1>3, <2>1
  <2> QED
    BY <2>1, <2>2 DEF Depois, s
<1>6. CASE Enfileirou(p)
  <2>1. PICK x \in Comandos : comando'[p] = comando[p] /\ filaComando'[p] = Append(t, x)
    BY <1>6 DEF Enfileirou, t
  <2>2. \A j \in DOMAIN t : j \in DOMAIN filaComando'[p] /\ filaComando'[p][j] = t[j]
    BY <1>1, <2>1, Anexa
  <2> QED
    BY <2>1, <2>2 DEF Depois, t
<1>7. CASE Entregou(p)
  <2>1. t # <<>> /\ comando'[p] = Append(s, Head(t)) /\ filaComando'[p] = Tail(t)
    BY <1>7 DEF Entregou, s, t
  <2>2. /\ Len(t) \in Nat /\ Len(t) > 0 /\ DOMAIN t = 1..Len(t) /\ Head(t) = t[1]
        /\ Head(t) \in Comandos /\ DOMAIN Tail(t) = 1..(Len(t) - 1)
        /\ \A j \in 1..(Len(t) - 1) : Tail(t)[j] = t[j + 1]
    <3>1. Len(t) \in Nat /\ DOMAIN t = 1..Len(t) /\ Len(t) > 0
      BY <1>1, <2>1, LenProperties, EmptySeq
    <3>2. /\ Head(t) \in Comandos /\ Tail(t) \in Seq(Comandos) /\ Len(Tail(t)) = Len(t) - 1
          /\ \A j \in 1..Len(Tail(t)) : Tail(t)[j] = t[j + 1]
      BY <1>1, <2>1, HeadTailProperties
    <3>3. Head(t) = t[1]
      BY <1>1, <2>1
    <3> QED
      BY <3>1, <3>2, <3>3, LenProperties
  <2>3. /\ Len(comando'[p]) = Len(s) + 1 /\ comando'[p][Len(s) + 1] = Head(t)
        /\ \A j \in (i + 1)..Len(s) : j \in (i + 1)..Len(comando'[p]) /\ comando'[p][j] = s[j]
    BY <1>3, <2>1, <2>2
  <2>4. CASE \E j \in (i + 1)..Len(s) : s[j] = m
    BY <2>3, <2>4 DEF Depois
  <2>5. ASSUME NEW j \in DOMAIN t, t[j] = m PROVE Depois(p, i, m)'
    <3>1. CASE j = 1
      <4>1. Len(s) + 1 \in (i + 1)..Len(comando'[p])
        BY <1>2, <2>3
      <4>2. comando'[p][Len(s) + 1] = m
        BY <2>2, <2>3, <2>5, <3>1
      <4> QED
        BY <4>1, <4>2 DEF Depois
    <3>2. CASE j # 1
      <4>1. j - 1 \in 1..(Len(t) - 1) /\ (j - 1) + 1 = j
        BY <2>2, <3>2
      <4>2. j - 1 \in DOMAIN filaComando'[p] /\ filaComando'[p][j - 1] = m
        BY <2>1, <2>2, <2>5, <4>1
      <4> QED
        BY <4>2 DEF Depois
    <3> QED
      BY <3>1, <3>2
  <2> QED
    BY <2>4, <2>5 DEF Depois, s, t
<1> QED
  BY <1>4, <1>5, <1>6, <1>7

(* A row goes only where a deletion was asked for.                         *)
LEMMA LinhaSai ==
  ASSUME TypeOK, [Next]_vars, NEW f \in Arquivos, registro[f] # Nenhum, registro'[f] = Nenhum
  PROVE  \E u \in Usuarios : Pediu(f, u)
<1> USE DEF TypeOK
<1>1. ASSUME NEW p \in Particoes, DeleteRegistro(p) \/ FalhaDelete(p)
      PROVE  \E u \in Usuarios : Pediu(f, u)
  <2>1. TemComando(p) /\ Comando(p).status = "pendente" /\ Comando(p).tipo = "delete"
        /\ registro' \in {registro, [registro EXCEPT ![Comando(p).arquivo] = Nenhum]}
    BY <1>1 DEF DeleteRegistro, FalhaDelete, FalhaSQL, Trata
  <2>2. Comando(p).arquivo = f
    BY <2>1
  <2> QED
    BY <2>1, <2>2, ComandoTipo, ComandoNoTopico
<1>2. ASSUME NEW p \in Particoes, UpdateRegistro(p) \/ FalhaUpdate(p)
      PROVE  FALSE
  <2>1. /\ TemComando(p) /\ registro' \in {registro, Salva(Comando(p))}
        /\ Comando(p).tipo = "upload" /\ Comando(p).status = "executado"
    BY <1>2 DEF UpdateRegistro, FalhaUpdate, FalhaSQL, Trata
  <2>2. registro' = Salva(Comando(p)) /\ Comando(p) \in Comandos
    BY <2>1, ComandoTipo
  <2>3. CASE Comando(p).arquivo = f
    <3>1. Salva(Comando(p))[f] = [usuario |-> registro[f].usuario, hash |-> Comando(p).hash]
      BY <2>2, <2>3 DEF Salva
    <3>2. registro[f] \in Linhas /\ Comando(p).hash \in Hashes
      BY <2>1, <2>2 DEF Comandos
    <3>3. Salva(Comando(p))[f] \in Linhas
      BY <3>1, <3>2 DEF Linhas
    <3> QED
      BY <2>2, <3>3, LinhaAssumption
  <2>4. CASE Comando(p).arquivo # f
    BY <2>2, <2>4, SalvaSoUm
  <2> QED
    BY <2>3, <2>4
<1>3. registro' = registro => FALSE
  OBVIOUS
<1>4. ASSUME NEW p \in Particoes, Handler(p) \/ Producer(p) \/ Ambiente(p)
      PROVE  \/ registro' = registro
             \/ DeleteRegistro(p) \/ FalhaDelete(p) \/ UpdateRegistro(p) \/ FalhaUpdate(p)
  BY <1>4 DEF Handler, Producer, Ambiente, EntregaMedia, EntregaComando, RejeitaInvalido,
     VerificaPhoto, AddPhoto, AddThumbnail, RejeitaDelete, IgnoraComando, ProduzExecutado,
     ProduzEvento, FalhaUpload, SemConexao, ConfirmaOffset
<1>5. NovaSessao \/ Reinicia \/ Sigterm \/ Termina \/ UNCHANGED vars \/ UNCHANGED registroVars
        => registro' = registro
  BY DEF NovaSessao, Reinicia, Sigterm, Termina, vars, registroVars
<1> QED
  BY <1>1, <1>2, <1>3, <1>4, <1>5 DEF Next, RegistroNext

(* A command dealt with stays so.                                          *)
LEMMA TratadoFica ==
  ASSUME TypeOK, Vidas, [Next]_vars, Ileso', NEW p \in Particoes, NEW i \in DOMAIN comando[p]
  PROVE  /\ comando'[p][i] = comando[p][i]
         /\ Atendido(p, i) => Atendido(p, i)'
         /\ Tratado(p, i) => Tratado(p, i)'
<1>0. PICK c : c = comando[p][i]
  OBVIOUS
<1>1. c \in Comandos /\ c.arquivo \in Arquivos /\ comando'[p][i] = c
  <2>1. comando[p] \in Seq(Comandos) /\ i \in 1..Len(comando[p])
    BY TiposEm, LenProperties
  <2>2. c \in Comandos
    BY <1>0, <2>1
  <2> QED
    BY <1>0, <2>1, <2>2, Cresce DEF Comandos
<1>2. \A m \in Comandos : Depois(p, i, m) => Depois(p, i, m)'
  BY ComandoAnda, DepoisFica
<1>3. Atendido(p, i) => Atendido(p, i)'
  BY <1>0, <1>1, <1>2 DEF Atendido
<1>4. registro[c.arquivo] # Nenhum =>
        registro'[c.arquivo] # Nenhum \/ \E u \in Usuarios : Pediu(c.arquivo, u)
  BY <1>1, LinhaSai
<1>5. \A u \in Usuarios : Pediu(c.arquivo, u) => Pediu(c.arquivo, u)'
  BY <1>1, ProvadoFica
<1>6. ComLinha(p, i) => ComLinha(p, i)'
  <2> SUFFICES ASSUME ComLinha(p, i), c.tipo = "upload", c.status = "executado"
               PROVE  \/ registro'[c.arquivo] # Nenhum
                      \/ \E m \in Comandos : Desdiz(m, c) /\ Depois(p, i, m)'
                      \/ \E u \in Usuarios : Pediu(c.arquivo, u)'
    BY <1>0, <1>1 DEF ComLinha
  <2>1. \/ registro[c.arquivo] # Nenhum
        \/ \E m \in Comandos : Desdiz(m, c) /\ Depois(p, i, m)
        \/ \E u \in Usuarios : Pediu(c.arquivo, u)
    BY <1>0 DEF ComLinha
  <2> QED
    BY <1>2, <1>4, <1>5, <2>1
<1> QED
  BY <1>0, <1>1, <1>3, <1>6 DEF Tratado

(* The message the handler at offset n gives to the producer comes after n.*)
LEMMA PublicaDepois ==
  ASSUME TypeOK, NEW q \in Particoes, NEW m \in Comandos, ParticaoDe[m.arquivo] = q,
         filaComando' = Publica(filaComando, m), NEW n
  PROVE  Depois(q, n, m)'
<1>1. filaComando'[q] = Append(filaComando[q], m) /\ filaComando[q] \in Seq(Comandos)
  BY PublicaAqui, TiposEm
<1>2. DOMAIN filaComando'[q] = DOMAIN filaComando[q] \cup {Len(filaComando[q]) + 1}
      /\ filaComando'[q][Len(filaComando[q]) + 1] = m
  BY <1>1, Anexa
<1> QED
  BY <1>2 DEF Depois

(* A rejection deals with its command, be it the request or the executed   *)
(* upload whose row could not be written.                                  *)
LEMMA RejeitaTrata ==
  ASSUME TypeOK, NEW q \in Particoes, NoLugar(q), TemComando(q), Rejeita(q), comando' = comando,
         NEW n, n = posicao[q] + 1
  PROVE  Tratado(q, n)'
<1>0. PICK c, m : c = Comando(q) /\ m = [c EXCEPT !.status = "rejeitado"]
  OBVIOUS
<1>1. c \in Comandos /\ c.arquivo \in Arquivos /\ ParticaoDe[c.arquivo] = q /\ comando'[q][n] = c
  BY <1>0, ComandoTipo, ArquivoDaqui DEF Comando
<1>2. /\ m \in Comandos /\ m.status = "rejeitado" /\ m.arquivo = c.arquivo
      /\ m.usuario = c.usuario /\ m.tipo = c.tipo
  BY <1>0, <1>1 DEF Comandos, Status
<1>3. filaComando' = Publica(filaComando, m)
  BY <1>0 DEF Rejeita
<1>4. Depois(q, n, m)'
  BY <1>1, <1>2, <1>3, PublicaDepois
<1>5. Atende(m, c)
  BY <1>2 DEF Atende
<1>6. c.tipo = "upload" => Desdiz(m, c)
  BY <1>2 DEF Desdiz
<1>7. Atendido(q, n)'
  BY <1>1, <1>2, <1>4, <1>5 DEF Atendido
<1>8. ComLinha(q, n)'
  BY <1>1, <1>2, <1>4, <1>6 DEF ComLinha
<1> QED
  BY <1>7, <1>8 DEF Tratado

(* The handler that ends has dealt with its command, the one about to send *)
(* the event has answered it.                                              *)
LEMMA HandlerTrata ==
  ASSUME TypeOK, Proveniencia, Vidas, [Next]_vars, SemPerdas', NEW q \in Particoes,
         Handler(q) \/ Recusa(q), NoEvento(q), \A i \in processado[q] : Tratado(q, i),
         NEW n, n = posicao[q] + 1
  PROVE  /\ Conclui(q) => Tratado(q, n)'
         /\ ~Conclui(q) /\ etapa'[q].passo = "evento" => Atendido(q, n)'
<1> DEFINE c == Comando(q)
<1>1. NoLugar(q) /\ processo # "encerra" /\ Ileso'
  BY DEF Vidas, SemPerdas
<1>2. PassoEm(q)
  BY <1>1, HandlerPasso
<1>3. /\ TemComando(q) /\ comando' = comando /\ c \in Comandos /\ n \in DOMAIN comando[q]
      /\ ParticaoDe[c.arquivo] = q /\ c.arquivo \in Arquivos /\ c = comando[q][n] /\ comando'[q][n] = c
  BY <1>1, <1>2, ComandoTipo, ArquivoDaqui DEF PassoEm, Comando
<1>4. /\ Atendido(q, n) => Atendido(q, n)'
      /\ Tratado(q, n) => Tratado(q, n)'
  BY <1>1, <1>3, TratadoFica
<1>5. CASE Rejeita(q)
  BY <1>1, <1>3, <1>5, RejeitaTrata DEF Rejeita
<1>6. Recusa(q) => Rejeita(q)
  BY <1>1, RecusaPasso
<1>7. CASE UpdateRegistro(q)
  <2>1. c.status = "executado" /\ registro' = Salva(c) /\ Conclui(q)
        /\ c.tipo = "upload"
    BY <1>7 DEF UpdateRegistro, Trata
  <2>2. registro'[c.arquivo] # Nenhum
    <3>1. /\ c.hash \in Hashes /\ c.usuario \in Usuarios
          /\ registro[c.arquivo] # Nenhum => registro[c.arquivo] \in Linhas
      BY <1>3, <2>1 DEF Comandos, TypeOK
    <3>2. Salva(c)[c.arquivo] = [usuario |-> IF registro[c.arquivo] = Nenhum THEN c.usuario
                                             ELSE registro[c.arquivo].usuario, hash |-> c.hash]
      BY <1>3 DEF Salva, TypeOK
    <3>3. Salva(c)[c.arquivo] \in Linhas
      BY <3>1, <3>2 DEF Linhas
    <3> QED
      BY <2>1, <3>3, LinhaAssumption
  <2>3. Atendido(q, n)'
    BY <1>3, <2>1 DEF Atendido
  <2>4. ComLinha(q, n)'
    BY <1>3, <2>2 DEF ComLinha
  <2> QED
    BY <2>1, <2>3, <2>4 DEF Tratado
<1>8. CASE IgnoraComando(q)
  <2>1. Conclui(q)
    BY <1>8 DEF IgnoraComando
  <2>2. CASE n \in processado[q]
    BY <1>4, <2>1, <2>2
  <2>3. CASE c.status # "pendente" /\ ~(c.status = "executado" /\ c.tipo = "upload")
    <3>1. Atendido(q, n)'
      BY <1>3, <2>3 DEF Atendido
    <3>2. ComLinha(q, n)'
      BY <1>3, <2>3 DEF ComLinha
    <3> QED
      BY <2>1, <3>1, <3>2 DEF Tratado
  <2> QED
    BY <1>8, <2>2, <2>3 DEF IgnoraComando, Tipos
<1>9. CASE ProduzExecutado(q)
  <2>1. etapa[q].hash \in Hashes /\ etapa[q] # Livre
    BY <1>9, EtapaTipo DEF ProduzExecutado, Passos, Em, Livre
  <2> PICK m : m = Executado(q)
    OBVIOUS
  <2>2. /\ m \in Comandos /\ m.arquivo = c.arquivo
        /\ m.usuario = c.usuario /\ m.tipo = c.tipo /\ m.status # "pendente"
    BY <1>3, <2>1 DEF Executado, Comandos, Status
  <2>3. filaComando' = Publica(filaComando, m)
    <3>1. ~Gasta("perdas", MaxPerdas)
      BY SemPerdasAntes DEF Gasta, SemPerdas, TypeOK, Gastos
    <3> QED
      BY <1>9, <3>1 DEF ProduzExecutado
  <2>4. Depois(q, n, m)'
    BY <1>3, <2>2, <2>3, PublicaDepois
  <2>5. Atendido(q, n)'
    BY <1>3, <2>2, <2>4 DEF Atendido, Atende
  <2>6. ~Conclui(q)
    BY <1>9, TiposEm DEF ProduzExecutado, Vai, Conclui, TypeOK, Livre
  <2> QED
    BY <2>5, <2>6
<1>10. CASE ProduzEvento(q)
  <2>1. Conclui(q) /\ etapa[q].passo = "evento"
    BY <1>10 DEF ProduzEvento, Em
  <2>2. c.status = "pendente"
    BY <2>1 DEF Proveniencia, EtapasProvadas, EtapaProvada, Livre
  <2>3. Atendido(q, n)'
    BY <1>4, <2>1 DEF NoEvento
  <2>4. ComLinha(q, n)'
    BY <1>3, <2>2 DEF ComLinha
  <2> QED
    BY <2>1, <2>3, <2>4 DEF Tratado
<1>11. CASE VerificaPhoto(q) \/ AddPhoto(q) \/ AddThumbnail(q) \/ DeleteRegistro(q)
  <2>1. \E s \in {"photo", "thumbnail", "executado"} : \E u, h : Vai(q, s, u, h)
    BY <1>11 DEF VerificaPhoto, AddPhoto, AddThumbnail, DeleteRegistro
  <2>2. etapa'[q].passo \in {"photo", "thumbnail", "executado"}
    BY <2>1 DEF Vai, TypeOK
  <2>3. ~Conclui(q)
    BY <2>2 DEF Conclui, TypeOK, Livre
  <2> QED
    BY <2>2, <2>3
<1>12. RejeitaInvalido(q) \/ RejeitaDelete(q) \/ SemConexao(q) => Recusa(q)
  BY DEF Recusa
<1> QED
  BY <1>5, <1>6, <1>7, <1>8, <1>9, <1>10, <1>11, <1>12 DEF Handler, Rejeita

(* Where no handler takes a step, nothing is forgotten.                    *)
LEMMA TratadasFicam ==
  ASSUME TypeOK, Proveniencia, Vidas, Tratadas, [Next]_vars, Ileso', NEW p \in Particoes,
         processado'[p] = processado[p], etapa'[p] = etapa[p],
         posicao'[p] = posicao[p] \/ etapa[p] = Livre,
         posicao'[p] \in {posicao[p], confirmado[p]}, confirmado'[p] \in {posicao[p], confirmado[p]}
  PROVE  Vistos(p)' /\ NoEvento(p)' /\ \A i \in processado'[p] : Tratado(p, i)'
<1>1. Vistos(p) /\ NoEvento(p) /\ \A i \in processado[p] : Tratado(p, i)
  BY DEF Tratadas
<1>2. Vistos(p)'
  BY <1>1, VistosFica
<1>3. NoEvento(p)'
  <2> SUFFICES ASSUME etapa[p].passo = "evento" PROVE NoEvento(p)'
    BY DEF NoEvento
  <2>1. etapa[p] # Livre /\ posicao'[p] = posicao[p]
    BY DEF Livre
  <2>2. PICK n : n = posicao[p] + 1
    OBVIOUS
  <2>3. n \in DOMAIN comando[p]
    BY <2>1, <2>2, ComandoTipo, TiposEm, LenProperties DEF Proveniencia, EtapasProvadas, EtapaProvada
  <2>4. Atendido(p, n)
    BY <1>1, <2>2 DEF NoEvento
  <2>5. Atendido(p, n)'
    BY <2>3, <2>4, TratadoFica
  <2> QED
    BY <2>1, <2>2, <2>5 DEF NoEvento, Atendido
<1>4. ASSUME NEW i \in processado'[p] PROVE Tratado(p, i)'
  <2>1. i \in DOMAIN comando[p] /\ Tratado(p, i)
    BY <1>1 DEF Vistos
  <2> QED
    BY <2>1, TratadoFica
<1> QED
  BY <1>2, <1>3, <1>4

(* A handler adds one command to those dealt with, or answers it.          *)
LEMMA TratadasPasso ==
  ASSUME TypeOK, Proveniencia, Vidas, Tratadas, [Next]_vars, SemPerdas', NEW q \in Particoes,
         Handler(q) \/ Recusa(q)
  PROVE  Vistos(q)' /\ NoEvento(q)' /\ \A i \in processado'[q] : Tratado(q, i)'
<1>1. /\ NoLugar(q) /\ processo # "encerra" /\ Ileso'
      /\ Vistos(q) /\ NoEvento(q) /\ \A i \in processado[q] : Tratado(q, i)
  BY DEF Vidas, Tratadas, SemPerdas
<1>2. PassoEm(q)
  BY <1>1, HandlerPasso
<1>3. confirmado' = confirmado
  BY DEF Handler, Recusa, RejeitaInvalido, VerificaPhoto, AddPhoto, AddThumbnail, DeleteRegistro,
     RejeitaDelete, UpdateRegistro, SemConexao, IgnoraComando, ProduzExecutado, ProduzEvento,
     FalhaUpload, FalhaDelete, FalhaUpdate
<1>4. Vistos(q)'
  BY <1>1, <1>2, <1>3, PassoVistos
<1>5. PICK n : n = posicao[q] + 1
  OBVIOUS
<1>6. /\ Conclui(q) => Tratado(q, n)'
      /\ ~Conclui(q) /\ etapa'[q].passo = "evento" => Atendido(q, n)'
  BY <1>1, <1>5, HandlerTrata
<1>7. ASSUME NEW i \in processado[q] PROVE Tratado(q, i)'
  <2>1. i \in DOMAIN comando[q] /\ Tratado(q, i)
    BY <1>1 DEF Vistos
  <2> QED
    BY <1>1, <2>1, TratadoFica
<1>8. CASE Conclui(q)
  <2>1. processado'[q] = processado[q] \cup {n} /\ etapa'[q] = Livre
    BY <1>5, <1>8 DEF Conclui, TypeOK
  <2>2. NoEvento(q)'
    BY <2>1 DEF NoEvento, Livre
  <2> QED
    BY <1>4, <1>6, <1>7, <1>8, <2>1, <2>2
<1>9. CASE ~Conclui(q)
  <2>1. processado'[q] = processado[q] /\ posicao'[q] = posicao[q]
    BY <1>2, <1>9 DEF PassoEm, Passa
  <2>2. NoEvento(q)'
    BY <1>5, <1>6, <1>9, <2>1 DEF NoEvento, Atendido
  <2> QED
    BY <1>4, <1>7, <2>1, <2>2
<1> QED
  BY <1>8, <1>9

(* Every step without a lost message keeps every partition.                *)
LEMMA TratadasStep ==
  ASSUME TypeOK, Proveniencia, Vidas, Tratadas, [Next]_vars, SemPerdas'
  PROVE  Tratadas'
<1>1. ~Reinicia /\ ~Sigterm /\ ~Termina /\ processo # "encerra" /\ Ileso'
      /\ \A p \in Particoes : NoLugar(p)
  BY SemPerdasAntes DEF Vidas, Termina, SemPerdas
<1> SUFFICES ASSUME NEW p \in Particoes
             PROVE  Vistos(p)' /\ NoEvento(p)' /\ \A i \in processado'[p] : Tratado(p, i)'
  BY DEF Tratadas
<1>2. ASSUME processado'[p] = processado[p], etapa'[p] = etapa[p], posicao'[p] = posicao[p],
             confirmado'[p] = confirmado[p]
      PROVE  Vistos(p)' /\ NoEvento(p)' /\ \A i \in processado'[p] : Tratado(p, i)'
  BY <1>1, <1>2, TratadasFicam
<1>3. CASE Pedidos /\ UNCHANGED registroVars
  BY <1>2, <1>3 DEF registroVars
<1>4. ASSUME NEW q \in Particoes, Handler(q) \/ Recusa(q)
      PROVE  Vistos(p)' /\ NoEvento(p)' /\ \A i \in processado'[p] : Tratado(p, i)'
  <2>1. CASE p = q
    BY <1>4, <2>1, TratadasPasso
  <2>2. CASE p # q
    <3>1. PassoEm(q)
      BY <1>1, <1>4, HandlerPasso
    <3>2. processado'[p] = processado[p] /\ posicao'[p] = posicao[p] /\ etapa'[p] = etapa[p]
      BY <2>2, <3>1 DEF PassoEm, Conclui, Passa, Vai, TypeOK
    <3>3. confirmado' = confirmado
      BY <1>4 DEF Handler, Recusa, RejeitaInvalido, VerificaPhoto, AddPhoto, AddThumbnail,
         DeleteRegistro, RejeitaDelete, UpdateRegistro, SemConexao, IgnoraComando, ProduzExecutado,
         ProduzEvento, FalhaUpload, FalhaDelete, FalhaUpdate
    <3> QED
      BY <1>2, <3>2, <3>3
  <2> QED
    BY <2>1, <2>2
<1>5. CASE \E q \in Particoes : Producer(q)
  BY <1>2, <1>5 DEF Producer, EntregaComando, EntregaMedia
<1>6. CASE Parado
  <2>1. /\ processado'[p] = processado[p] /\ etapa'[p] = etapa[p]
        /\ posicao'[p] = posicao[p] \/ etapa[p] = Livre
        /\ posicao'[p] \in {posicao[p], confirmado[p]} /\ confirmado'[p] \in {posicao[p], confirmado[p]}
    BY <1>6, TiposEm DEF Parado, NovaSessao, ConfirmaOffset, vars, registroVars, TypeOK
  <2> QED
    BY <1>1, <2>1, TratadasFicam
<1> QED
  BY <1>1, <1>3, <1>4, <1>5, <1>6 DEF Next, RegistroNext, Ambiente, Recusa, Parado

(* The inductive invariant: lives, and every command left behind was dealt *)
(* with, as long as no message is lost and the process goes on.            *)
THEOREM TratadasInvariante == Spec => []RInv
<1>1. Init => (SemPerdas => Tratadas)
  BY DEF Init, RegistroInit, Tratadas, Vistos, NoEvento, Livre
<1>2. CInv /\ (SemPerdas => Tratadas) /\ [Next]_vars => (SemPerdas => Tratadas)'
  <2> SUFFICES ASSUME CInv, SemPerdas => Tratadas, [Next]_vars, SemPerdas' PROVE Tratadas'
    OBVIOUS
  <2>1. SemPerdas
    BY SemPerdasAntes DEF CInv
  <2> QED
    BY <2>1, TratadasStep DEF CInv, SemPerdas
<1> QED
  BY <1>1, <1>2, VidasInvariante, PTL DEF Spec, RInv

(* The offsets that the properties speak of are all in the map.            *)
LEMMA MarcadoTratado ==
  ASSUME RInv, SemPerdas, NEW p \in Particoes, NEW i \in Marcados(p)
  PROVE  Tratado(p, i)
<1>1. TypeOK /\ Vistos(p) /\ \A j \in processado[p] : Tratado(p, j)
  BY DEF RInv, CInv, Tratadas
<1>2. i \in processado[p]
  BY <1>1 DEF Marcados, Vistos, TypeOK
<1> QED
  BY <1>1, <1>2

(* What comes after an offset is in the log behind it or in the queue.     *)
LEMMA DepoisOnde ==
  ASSUME NEW p, NEW i, NEW m
  PROVE  Depois(p, i, m) => \/ \E j \in (i + 1)..Len(comando[p]) : comando[p][j] = m
                            \/ \E j \in DOMAIN filaComando[p] : filaComando[p][j] = m
BY DEF Depois

(* No failure of a handler leaves a request behind without an answer: for  *)
(* any number of failed calls and rebalances, a request registro will not  *)
(* read again is answered, on the topic or in the producer.                *)
THEOREM MarcadosTemResposta == Spec => []MarcadoTemResposta
<1>1. RInv => MarcadoTemResposta
  <2> SUFFICES ASSUME RInv, SemPerdas, NEW p \in Particoes, NEW i \in Marcados(p),
                      comando[p][i].status = "pendente"
               PROVE  Respondido(p, i) \/ ACaminho(p, i)
    BY DEF MarcadoTemResposta, SemPerdas, Ileso
  <2>1. PICK m \in Comandos : Atende(m, comando[p][i]) /\ Depois(p, i, m)
    BY MarcadoTratado DEF Tratado, Atendido
  <2> QED
    BY <2>1, DepoisOnde DEF Respondido, ACaminho
<1> QED
  BY <1>1, TratadasInvariante, PTL

(* An upload announced as executed has its row, or a rejection after it    *)
(* that takes the announcement back, or somebody asked for its deletion:   *)
(* whatever statement failed and whatever the connection's state.          *)
THEOREM ExecutadosTemLinha == Spec => []ExecutadoTemLinha
<1>1. RInv => ExecutadoTemLinha
  <2> SUFFICES ASSUME RInv, SemPerdas, NEW p \in Particoes, NEW i \in Marcados(p), NEW c,
                      c = comando[p][i], c.tipo = "upload", c.status = "executado"
               PROVE  \/ registro[c.arquivo] # Nenhum
                      \/ \E j \in (i + 1)..Len(comando[p]) : Desdiz(comando[p][j], c)
                      \/ \E j \in DOMAIN filaComando[p] : Desdiz(filaComando[p][j], c)
                      \/ \E u \in Usuarios : Pediu(c.arquivo, u)
    BY DEF ExecutadoTemLinha, SemPerdas, Ileso
  <2>1. \/ registro[c.arquivo] # Nenhum
        \/ \E m \in Comandos : Desdiz(m, c) /\ Depois(p, i, m)
        \/ \E u \in Usuarios : Pediu(c.arquivo, u)
    BY MarcadoTratado DEF Tratado, ComLinha
  <2> QED
    BY <2>1, DepoisOnde
<1> QED
  BY <1>1, TratadasInvariante, PTL

=============================================================================
