--------------------------- MODULE Consulta_proofs ---------------------------
(***************************************************************************)
(* The consulta processor against the catalogue, for any number of files,  *)
(* users, contents and partitions.  Three results: no transaction, whoever *)
(* of the handlers began, joined, committed or lost it, takes a row out of *)
(* the table that no deletion event asks for (IInv); a collection finds no *)
(* row of its own partition, whatever fails (CInv); and while nothing fails*)
(* the table follows the events, one partition apart from the other (SInv).*)
(***************************************************************************)
EXTENDS ConsultaIsolada, SequenceTheorems, TLAPS

(* All the events of a file are in its partition and tell of the same user *)
(* and content.                                                            *)
Coerente == \A p \in Particoes : \A e \in Range(media[p]) :
  /\ ParticaoDe[e.arquivo] = p
  /\ \A d \in Range(media[p]) :
       e.arquivo = d.arquivo => e.usuario = d.usuario /\ e.hash = d.hash

(* A handler past its first step is at a deletion.                         *)
EmExclusao == \A p \in Particoes :
  passo[p] # "livre" => TemEvento(p) /\ Evento(p).tipo = "delete"

(* The rows of a table are those of events.                                *)
DeEventos(t) == \A f \in Arquivos : t[f] # Nenhum =>
  \E e \in Range(media[ParticaoDe[f]]) :
    e.arquivo = f /\ e.usuario = t[f].usuario /\ e.hash = t[f].hash

Excluida(f) ==
  NewEvent("delete", f, consulta[f].usuario, consulta[f].hash) \in Range(media[ParticaoDe[f]])

(* A row the session no longer sees is one somebody deleted.               *)
Tabelas ==
  /\ DeEventos(consulta) /\ DeEventos(visao)
  /\ \A f \in Arquivos : consulta[f] # Nenhum /\ visao[f] = Nenhum => Excluida(f)

IInv == TypeOK /\ Coerente /\ EmExclusao /\ Tabelas

(* What LinhaSoSaiPorEvento asks of a step.                                *)
SaiPorEvento == \A f \in Arquivos : consulta[f] # Nenhum /\ consulta'[f] = Nenhum => Excluida(f)

-----------------------------------------------------------------------------
LEMMA Anexa ==
  ASSUME NEW S, NEW s \in Seq(S), NEW x \in S
  PROVE  /\ Append(s, x) \in Seq(S)
         /\ Len(s) \in Nat /\ Len(Append(s, x)) = Len(s) + 1
         /\ \A i \in 1..Len(s) : Append(s, x)[i] = s[i]
         /\ Range(Append(s, x)) = Range(s) \cup {x}
<1>1. Range(Append(s, x)) = Range(s) \cup {x}
  BY AppendProperties DEF Range
<1> QED
  BY <1>1, AppendProperties, LenProperties

(* The event at hand is one of the partition.                              *)
LEMMA NaMao ==
  ASSUME TypeOK, NEW p \in Particoes, TemEvento(p)
  PROVE  Evento(p) \in Eventos /\ Evento(p) \in Range(media[p])
<1>1. media[p] \in Seq(Eventos) /\ lido[p] \in Nat
  BY DEF TypeOK, MidiaTypeOK, ConsultaTypeOK
<1>2. lido[p] + 1 \in 1..Len(media[p]) /\ DOMAIN media[p] = 1..Len(media[p])
  BY <1>1, LenProperties DEF TemEvento
<1> QED
  BY <1>1, <1>2, ElementOfSeq DEF Evento, Range

LEMMA InitIInv == Init => IInv
<1> SUFFICES ASSUME Init PROVE IInv
  OBVIOUS
<1> USE DEF Init, MidiaInit, ConsultaInit
<1>1. TypeOK
  <2>1. MidiaTypeOK
    BY DEF MidiaTypeOK
  <2>2. ConsultaTypeOK
    BY DEF ConsultaTypeOK, PassosConsulta
  <2> QED
    BY <2>1, <2>2 DEF TypeOK
<1>2. Coerente
  BY DEF Coerente, Range
<1>3. EmExclusao /\ Tabelas
  BY DEF EmExclusao, Tabelas, DeEventos
<1> QED
  BY <1>1, <1>2, <1>3 DEF IInv

-----------------------------------------------------------------------------
(* The tables, statement by statement.                                     *)
LEMMA EscreveTabela ==
  ASSUME Tabelas, NEW t, DeEventos(t), media' = media, Escreve(t),
         \A f \in Arquivos : consulta[f] # Nenhum /\ t[f] = Nenhum => Excluida(f)
  PROVE  Tabelas' /\ SaiPorEvento
<1>1. visao' = t /\ (consulta' = consulta \/ consulta' = t)
  BY DEF Escreve
<1> QED
  BY <1>1 DEF Tabelas, DeEventos, Excluida, SaiPorEvento

LEMMA EncerraTabela ==
  ASSUME Tabelas, NEW t, t = consulta \/ t = visao, media' = media, Encerra(t)
  PROVE  Tabelas' /\ SaiPorEvento
BY DEF Encerra, Tabelas, DeEventos, Excluida, SaiPorEvento

LEMMA MesmaTabela ==
  ASSUME Tabelas, media' = media, consulta' = consulta, visao' = visao
  PROVE  Tabelas' /\ SaiPorEvento
BY DEF Tabelas, DeEventos, Excluida, SaiPorEvento

(* What the upsert would write: the row of an event of that file, whatever *)
(* was there.                                                              *)
Serve(t) ==
  /\ t \in [Arquivos -> Linhas \cup {Nenhum}] /\ DeEventos(t)
  /\ \A f \in Arquivos : consulta[f] # Nenhum /\ t[f] = Nenhum => Excluida(f)

LEMMA ComLinhaServe ==
  ASSUME IInv, NEW p \in Particoes, TemEvento(p)
  PROVE  /\ Serve(ComLinha(Evento(p)))
         /\ ComLinha(Evento(p))[Evento(p).arquivo]
              = [usuario |-> Evento(p).usuario, hash |-> Evento(p).hash]
         /\ \A g \in Arquivos : g # Evento(p).arquivo => ComLinha(Evento(p))[g] = visao[g]
<1> DEFINE e == Evento(p)
           f == e.arquivo
           linha == [usuario |-> IF visao[f] = Nenhum THEN e.usuario ELSE visao[f].usuario,
                     hash |-> e.hash]
           t == [visao EXCEPT ![f] = linha]
<1>0. ComLinha(e) = t
  BY DEF ComLinha
<1>1. /\ e \in Range(media[p]) /\ e \in Eventos
      /\ visao \in [Arquivos -> Linhas \cup {Nenhum}]
  BY NaMao DEF IInv, TypeOK, ConsultaTypeOK
<1>2. f \in Arquivos /\ e.usuario \in Usuarios /\ e.hash \in Hashes /\ ParticaoDe[f] = p
  BY <1>1 DEF Eventos, IInv, Coerente
<1>3. linha.usuario = e.usuario
  <2>1. visao[f] # Nenhum => visao[f].usuario = e.usuario
    BY <1>1, <1>2 DEF IInv, Tabelas, DeEventos, Coerente
  <2> QED
    BY <2>1
<1>4. linha \in Linhas /\ linha # Nenhum /\ linha = [usuario |-> e.usuario, hash |-> e.hash]
  BY <1>2, <1>3, LinhaAssumption DEF Linhas
<1>5. t \in [Arquivos -> Linhas \cup {Nenhum}] /\ t[f] = linha
      /\ \A g \in Arquivos \ {f} : t[g] = visao[g]
  BY <1>1, <1>2, <1>4
<1>6. DeEventos(t)
  <2> SUFFICES ASSUME NEW g \in Arquivos, t[g] # Nenhum
               PROVE  \E d \in Range(media[ParticaoDe[g]]) :
                        d.arquivo = g /\ d.usuario = t[g].usuario /\ d.hash = t[g].hash
    BY DEF DeEventos
  <2>1. CASE g = f
    BY <1>1, <1>2, <1>4, <1>5, <2>1
  <2>2. CASE g # f
    BY <1>5, <2>2 DEF IInv, Tabelas, DeEventos
  <2> QED
    BY <2>1, <2>2
<1>7. \A g \in Arquivos : consulta[g] # Nenhum /\ t[g] = Nenhum => Excluida(g)
  BY <1>4, <1>5 DEF IInv, Tabelas
<1> QED
  BY <1>0, <1>4, <1>5, <1>6, <1>7 DEF Serve

(* And what the DELETE would: the event at hand asks for it.               *)
LEMMA SemLinhaServe ==
  ASSUME IInv, NEW p \in Particoes, TemEvento(p), Evento(p).tipo = "delete"
  PROVE  /\ Serve(SemLinha(Evento(p)))
         /\ SemLinha(Evento(p))[Evento(p).arquivo] = Nenhum
         /\ \A g \in Arquivos : g # Evento(p).arquivo => SemLinha(Evento(p))[g] = visao[g]
<1> DEFINE e == Evento(p)
           f == e.arquivo
           t == IF visao[f] # Nenhum /\ visao[f].usuario = e.usuario
                THEN [visao EXCEPT ![f] = Nenhum] ELSE visao
<1>0. SemLinha(e) = t
  BY DEF SemLinha
<1>1. /\ e \in Range(media[p]) /\ e \in Eventos
      /\ visao \in [Arquivos -> Linhas \cup {Nenhum}]
      /\ consulta \in [Arquivos -> Linhas \cup {Nenhum}]
  BY NaMao DEF IInv, TypeOK, ConsultaTypeOK
<1>2. f \in Arquivos /\ ParticaoDe[f] = p /\ e = NewEvent("delete", f, e.usuario, e.hash)
  BY <1>1 DEF Eventos, IInv, Coerente, NewEvent
<1>3. t \in [Arquivos -> Linhas \cup {Nenhum}]
      /\ \A g \in Arquivos : t[g] = visao[g] \/ (g = f /\ t[g] = Nenhum)
  BY <1>1, <1>2
<1>4. DeEventos(t)
  BY <1>3 DEF IInv, Tabelas, DeEventos
<1>5. t[f] = Nenhum
  <2>1. visao[f] # Nenhum => visao[f].usuario = e.usuario
    BY <1>1, <1>2 DEF IInv, Tabelas, DeEventos, Coerente
  <2> QED
    BY <1>1, <1>2, <2>1
<1>6. consulta[f] # Nenhum => Excluida(f)
  <2> SUFFICES ASSUME consulta[f] # Nenhum PROVE Excluida(f)
    OBVIOUS
  <2>1. consulta[f].usuario = e.usuario /\ consulta[f].hash = e.hash
    BY <1>1, <1>2 DEF IInv, Tabelas, DeEventos, Coerente
  <2> QED
    BY <1>1, <1>2, <2>1 DEF Excluida
<1>7. \A g \in Arquivos : consulta[g] # Nenhum /\ t[g] = Nenhum => Excluida(g)
  BY <1>3, <1>6 DEF IInv, Tabelas
<1> QED
  BY <1>0, <1>3, <1>4, <1>5, <1>7 DEF Serve

(* A statement writes such a table, by itself or in a transaction.         *)
LEMMA ServeTabela ==
  ASSUME IInv, NEW t, Serve(t), media' = media, Escreve(t)
  PROVE  Tabelas' /\ SaiPorEvento /\ consulta' \in [Arquivos -> Linhas \cup {Nenhum}]
         /\ visao' \in [Arquivos -> Linhas \cup {Nenhum}]
<1>1. visao' = t /\ (consulta' = consulta \/ consulta' = t)
  BY DEF Escreve
<1>2. t \in [Arquivos -> Linhas \cup {Nenhum}]
      /\ consulta \in [Arquivos -> Linhas \cup {Nenhum}]
  BY DEF IInv, TypeOK, ConsultaTypeOK, Serve
<1> QED
  BY <1>1, <1>2, EscreveTabela DEF IInv, Serve

-----------------------------------------------------------------------------
(* A handler goes on at the same message, or is done with it.              *)
Anda(p) ==
  /\ TemEvento(p) /\ Evento(p).tipo = "delete" /\ lido' = lido
  /\ \E ps \in PassosConsulta : passo' = [passo EXCEPT ![p] = ps]
  /\ \E es \in SUBSET {"ausente", "falha"} : erros' = [erros EXCEPT ![p] = es]

HandlerTipos ==
  /\ lido' \in [Particoes -> Nat] /\ passo' \in [Particoes -> PassosConsulta]
  /\ erros' \in [Particoes -> SUBSET {"ausente", "falha"}]

LEMMA AndaPreserva ==
  ASSUME IInv, NEW p \in Particoes, Anda(p), media' = media
  PROVE  HandlerTipos /\ EmExclusao'
<1>1. /\ lido \in [Particoes -> Nat] /\ passo \in [Particoes -> PassosConsulta]
      /\ erros \in [Particoes -> SUBSET {"ausente", "falha"}]
  BY DEF IInv, TypeOK, ConsultaTypeOK
<1>2. HandlerTipos
  BY <1>1 DEF Anda, HandlerTipos
<1>3. ASSUME NEW q \in Particoes, passo'[q] # "livre"
      PROVE  TemEvento(q)' /\ (Evento(q).tipo = "delete")'
  <2>1. TemEvento(q) /\ Evento(q).tipo = "delete"
    <3>1. CASE q = p
      BY <3>1 DEF Anda
    <3>2. CASE q # p
      BY <1>1, <1>3, <3>2 DEF Anda, IInv, EmExclusao
    <3> QED
      BY <3>1, <3>2
  <2> QED
    BY <2>1 DEF Anda, TemEvento, Evento
<1> QED
  BY <1>2, <1>3 DEF EmExclusao

LEMMA MarcaPreserva ==
  ASSUME IInv, NEW p \in Particoes, Marca(p), media' = media
  PROVE  HandlerTipos /\ EmExclusao'
<1>1. /\ lido \in [Particoes -> Nat] /\ passo \in [Particoes -> PassosConsulta]
      /\ erros \in [Particoes -> SUBSET {"ausente", "falha"}]
  BY DEF IInv, TypeOK, ConsultaTypeOK
<1>2. HandlerTipos
  <2>1. lido[p] + 1 \in Nat /\ "livre" \in PassosConsulta
    BY <1>1 DEF PassosConsulta
  <2> QED
    BY <1>1, <2>1 DEF Marca, HandlerTipos
<1>3. ASSUME NEW q \in Particoes, passo'[q] # "livre"
      PROVE  TemEvento(q)' /\ (Evento(q).tipo = "delete")'
  <2>1. q # p /\ lido'[q] = lido[q] /\ passo'[q] = passo[q]
    BY <1>1, <1>3 DEF Marca
  <2>2. TemEvento(q) /\ Evento(q).tipo = "delete"
    BY <1>3, <2>1 DEF IInv, EmExclusao
  <2> QED
    BY <2>1, <2>2 DEF TemEvento, Evento
<1> QED
  BY <1>2, <1>3 DEF EmExclusao

LEMMA ParadoPreserva ==
  ASSUME IInv, UNCHANGED <<lido, passo, erros>>, media' = media
  PROVE  HandlerTipos /\ EmExclusao'
<1>1. HandlerTipos
  BY DEF IInv, TypeOK, ConsultaTypeOK, HandlerTipos
<1> QED
  BY <1>1 DEF IInv, EmExclusao, TemEvento, Evento

(* The steps of handleDeleteRegistro.                                      *)
LEMMA SegueAnda ==
  ASSUME IInv, NEW p \in Particoes, TemEvento(p), Evento(p).tipo = "delete",
         NEW ps \in PassosConsulta, Segue(p, ps)
  PROVE  Anda(p)
<1>1. erros \in [Particoes -> SUBSET {"ausente", "falha"}]
  BY DEF IInv, TypeOK, ConsultaTypeOK
<1>2. erros' = [erros EXCEPT ![p] = erros[p]] /\ erros[p] \in SUBSET {"ausente", "falha"}
  BY <1>1 DEF Segue
<1> QED
  BY <1>2 DEF Segue, Anda

LEMMA AnotaAnda ==
  ASSUME IInv, NEW p \in Particoes, TemEvento(p), Evento(p).tipo = "delete",
         NEW ps \in PassosConsulta, NEW k \in {"ausente", "falha"}, Anota(p, k, ps)
  PROVE  Anda(p)
<1>1. erros \in [Particoes -> SUBSET {"ausente", "falha"}]
  BY DEF IInv, TypeOK, ConsultaTypeOK
<1>2. erros' = [erros EXCEPT ![p] = erros[p] \cup {k}]
      /\ erros[p] \cup {k} \in SUBSET {"ausente", "falha"}
  BY <1>1 DEF Anota
<1> QED
  BY <1>2 DEF Anota, Anda

LEMMA DepoisTipo == ASSUME NEW es PROVE Depois(es) \in PassosConsulta
BY DEF Depois, PassosConsulta

LEMMA EmPasso ==
  ASSUME IInv, NEW p \in Particoes, NEW ps \in PassosConsulta \ {"livre"}, No(p, ps)
  PROVE  TemEvento(p) /\ Evento(p).tipo = "delete"
BY DEF No, IInv, EmExclusao

-----------------------------------------------------------------------------
TiposDeGasto == {"erros", "ocupadas", "sessoes", "reinicios"}

(* What every step of consulta leaves true, part by part.                  *)
MidiaFica == /\ temp' = temp /\ comando' = comando /\ media' = media
             /\ photos' \subseteq photos /\ thumbnails' \subseteq thumbnails
BancoTipos == /\ consulta' \in [Arquivos -> Linhas \cup {Nenhum}]
              /\ visao' \in [Arquivos -> Linhas \cup {Nenhum}]
              /\ transacao' \in {"fora", "aberta", "abortada"} /\ conexao' \in {"aberta", "fechada"}
RestoTipos == /\ gravado' \in [Particoes -> Nat]
              /\ sessao' \in {"ativa", "cancelada", "encerra", "presa"}
              /\ gastoConsulta' \in [TiposDeGasto -> Nat]

LEMMA Junta ==
  ASSUME IInv, MidiaFica, HandlerTipos /\ EmExclusao', Tabelas' /\ SaiPorEvento,
         BancoTipos, RestoTipos
  PROVE  IInv' /\ SaiPorEvento
<1>1. MidiaTypeOK'
  BY DEF IInv, TypeOK, MidiaTypeOK, MidiaFica
<1>2. ConsultaTypeOK'
  BY DEF ConsultaTypeOK, HandlerTipos, BancoTipos, RestoTipos, TiposDeGasto
<1>3. Coerente'
  BY DEF IInv, Coerente, MidiaFica
<1> QED
  BY <1>1, <1>2, <1>3 DEF IInv, TypeOK

LEMMA RestoFica ==
  ASSUME IInv, UNCHANGED <<gravado, sessao, gastoConsulta>>
  PROVE  RestoTipos
BY DEF IInv, TypeOK, ConsultaTypeOK, RestoTipos, TiposDeGasto

LEMMA BancoFica ==
  ASSUME IInv, media' = media, UNCHANGED <<consulta, visao>>,
         transacao' \in {"fora", "aberta", "abortada"}, conexao' = conexao
  PROVE  BancoTipos /\ Tabelas' /\ SaiPorEvento
<1>1. BancoTipos
  BY DEF IInv, TypeOK, ConsultaTypeOK, BancoTipos
<1> QED
  BY <1>1, MesmaTabela DEF IInv

LEMMA BancoIgual ==
  ASSUME IInv, media' = media, UNCHANGED bancoVars
  PROVE  BancoTipos /\ Tabelas' /\ SaiPorEvento
<1>1. transacao \in {"fora", "aberta", "abortada"}
  BY DEF IInv, TypeOK, ConsultaTypeOK
<1> QED
  BY <1>1, BancoFica DEF bancoVars

LEMMA BancoEncerra ==
  ASSUME IInv, media' = media, NEW t, t = consulta \/ t = visao, Encerra(t),
         conexao' \in {"aberta", "fechada"}
  PROVE  BancoTipos /\ Tabelas' /\ SaiPorEvento
<1>1. BancoTipos
  BY DEF IInv, TypeOK, ConsultaTypeOK, BancoTipos, Encerra
<1> QED
  BY <1>1, EncerraTabela DEF IInv

LEMMA Paga ==
  ASSUME IInv, NEW k \in TiposDeGasto, NEW m \in Nat, PagaConsulta(k, m)
  PROVE  gastoConsulta' \in [TiposDeGasto -> Nat]
<1>1. gastoConsulta \in [TiposDeGasto -> Nat]
  BY DEF IInv, TypeOK, ConsultaTypeOK, TiposDeGasto
<1>2. gastoConsulta' = [gastoConsulta EXCEPT ![k] = gastoConsulta[k] + 1]
      /\ gastoConsulta[k] + 1 \in Nat
  BY <1>1 DEF PagaConsulta
<1> QED
  BY <1>1, <1>2

-----------------------------------------------------------------------------
LEMMA SavePasso ==
  ASSUME IInv, NEW p \in Particoes, SaveRegistroMedia(p)
  PROVE  IInv' /\ SaiPorEvento
<1>1. /\ MidiaFica /\ Marca(p) /\ UNCHANGED <<gravado, sessao, gastoConsulta>>
      /\ TemEvento(p) /\ Escreve(ComLinha(Evento(p)))
      /\ transacao' = transacao /\ conexao' = conexao /\ media' = media
  BY DEF SaveRegistroMedia, Recebe, No, midiaVars, MidiaFica, Escreve
<1>2. Serve(ComLinha(Evento(p)))
  BY <1>1, ComLinhaServe
<1>3. Tabelas' /\ SaiPorEvento /\ consulta' \in [Arquivos -> Linhas \cup {Nenhum}]
      /\ visao' \in [Arquivos -> Linhas \cup {Nenhum}]
  BY <1>1, <1>2, ServeTabela
<1>4. BancoTipos
  BY <1>1, <1>3 DEF BancoTipos, IInv, TypeOK, ConsultaTypeOK
<1>5. HandlerTipos /\ EmExclusao'
  BY <1>1, MarcaPreserva DEF MidiaFica
<1> QED
  BY <1>1, <1>3, <1>4, <1>5, RestoFica, Junta

LEMMA BeginPasso ==
  ASSUME IInv, NEW p \in Particoes, BeginTx(p)
  PROVE  IInv' /\ SaiPorEvento
<1>1. /\ MidiaFica /\ TemEvento(p) /\ Evento(p).tipo = "delete" /\ Segue(p, "delete")
      /\ UNCHANGED <<gravado, sessao, gastoConsulta>> /\ UNCHANGED <<consulta, visao>>
      /\ transacao' = "aberta" /\ conexao' = conexao /\ media' = media
  BY DEF BeginTx, midiaVars, MidiaFica, Recebe, No
<1>2. "delete" \in PassosConsulta
  BY DEF PassosConsulta
<1>3. HandlerTipos /\ EmExclusao'
  BY <1>1, <1>2, SegueAnda, AndaPreserva
<1> QED
  BY <1>1, <1>3, BancoFica, RestoFica, Junta

LEMMA DeletePasso ==
  ASSUME IInv, NEW p \in Particoes, DeleteRegistroMedia(p)
  PROVE  IInv' /\ SaiPorEvento
<1>1. /\ MidiaFica /\ No(p, "delete") /\ Segue(p, "count") /\ media' = media
      /\ UNCHANGED <<gravado, sessao, gastoConsulta>> /\ Escreve(SemLinha(Evento(p)))
      /\ transacao' = transacao /\ conexao' = conexao
  BY DEF DeleteRegistroMedia, midiaVars, MidiaFica, Escreve
<1>2. "count" \in PassosConsulta /\ "delete" \in PassosConsulta \ {"livre"}
  BY DEF PassosConsulta
<1>3. TemEvento(p) /\ Evento(p).tipo = "delete"
  BY <1>1, <1>2, EmPasso
<1>4. Tabelas' /\ SaiPorEvento /\ consulta' \in [Arquivos -> Linhas \cup {Nenhum}]
      /\ visao' \in [Arquivos -> Linhas \cup {Nenhum}]
  BY <1>1, <1>3, SemLinhaServe, ServeTabela
<1>5. BancoTipos
  BY <1>1, <1>4 DEF BancoTipos, IInv, TypeOK, ConsultaTypeOK
<1>6. HandlerTipos /\ EmExclusao'
  BY <1>1, <1>2, <1>3, SegueAnda, AndaPreserva
<1> QED
  BY <1>1, <1>4, <1>5, <1>6, RestoFica, Junta

(* The steps that leave the session alone.                                 *)
LEMMA PassoSemBanco ==
  ASSUME IInv, NEW p \in Particoes, Anda(p), MidiaFica, RestoTipos, UNCHANGED bancoVars
  PROVE  IInv' /\ SaiPorEvento
<1>1. HandlerTipos /\ EmExclusao'
  BY AndaPreserva DEF MidiaFica
<1> QED
  BY <1>1, BancoIgual, Junta DEF MidiaFica

LEMMA CountPasso ==
  ASSUME IInv, NEW p \in Particoes, CountRegistroByHash(p)
  PROVE  IInv' /\ SaiPorEvento
<1>1. /\ MidiaFica /\ No(p, "count") /\ UNCHANGED bancoVars
      /\ UNCHANGED <<gravado, sessao, gastoConsulta>>
      /\ \E ps \in PassosConsulta : Segue(p, ps)
  BY DEF CountRegistroByHash, midiaVars, MidiaFica, PassosConsulta
<1>2. Anda(p)
  BY <1>1, EmPasso, SegueAnda DEF PassosConsulta
<1> QED
  BY <1>1, <1>2, RestoFica, PassoSemBanco

LEMMA PhotoExistePasso ==
  ASSUME IInv, NEW p \in Particoes, PhotoExiste(p)
  PROVE  IInv' /\ SaiPorEvento
<1>1. /\ MidiaFica /\ No(p, "photo") /\ UNCHANGED bancoVars
      /\ UNCHANGED <<gravado, sessao, gastoConsulta>>
      /\ Segue(p, "rmphoto") \/ Anota(p, "ausente", "thumbnail")
  BY DEF PhotoExiste, midiaVars, MidiaFica
<1>2. {"photo", "rmphoto", "thumbnail"} \subseteq PassosConsulta \ {"livre"}
  BY DEF PassosConsulta
<1>3. TemEvento(p) /\ Evento(p).tipo = "delete"
  BY <1>1, <1>2, EmPasso
<1>4. Anda(p)
  BY <1>1, <1>2, <1>3, SegueAnda, AnotaAnda
<1> QED
  BY <1>1, <1>4, RestoFica, PassoSemBanco

LEMMA RemovePhotoPasso ==
  ASSUME IInv, NEW p \in Particoes, RemovePhoto(p)
  PROVE  IInv' /\ SaiPorEvento
<1>1. /\ MidiaFica /\ No(p, "rmphoto") /\ UNCHANGED bancoVars
      /\ UNCHANGED <<gravado, sessao, gastoConsulta>> /\ Segue(p, "thumbnail")
  BY DEF RemovePhoto, MidiaFica
<1>2. {"rmphoto", "thumbnail"} \subseteq PassosConsulta \ {"livre"}
  BY DEF PassosConsulta
<1>3. TemEvento(p) /\ Evento(p).tipo = "delete"
  BY <1>1, <1>2, EmPasso
<1>4. Anda(p)
  BY <1>1, <1>2, <1>3, SegueAnda
<1> QED
  BY <1>1, <1>4, RestoFica, PassoSemBanco

LEMMA ThumbnailExistePasso ==
  ASSUME IInv, NEW p \in Particoes, ThumbnailExiste(p)
  PROVE  IInv' /\ SaiPorEvento
<1>1. /\ MidiaFica /\ No(p, "thumbnail") /\ UNCHANGED bancoVars
      /\ UNCHANGED <<gravado, sessao, gastoConsulta>>
      /\ Segue(p, "rmthumbnail") \/ Anota(p, "ausente", Depois(erros[p] \cup {"ausente"}))
  BY DEF ThumbnailExiste, midiaVars, MidiaFica
<1>2. {"thumbnail", "rmthumbnail"} \subseteq PassosConsulta \ {"livre"}
  BY DEF PassosConsulta
<1>3. TemEvento(p) /\ Evento(p).tipo = "delete"
  BY <1>1, <1>2, EmPasso
<1>4. Anda(p)
  BY <1>1, <1>2, <1>3, SegueAnda, AnotaAnda, DepoisTipo
<1> QED
  BY <1>1, <1>4, RestoFica, PassoSemBanco

LEMMA RemoveThumbnailPasso ==
  ASSUME IInv, NEW p \in Particoes, RemoveThumbnail(p)
  PROVE  IInv' /\ SaiPorEvento
<1>1. /\ MidiaFica /\ No(p, "rmthumbnail") /\ UNCHANGED bancoVars
      /\ UNCHANGED <<gravado, sessao, gastoConsulta>> /\ Segue(p, Depois(erros[p]))
  BY DEF RemoveThumbnail, MidiaFica
<1>2. "rmthumbnail" \in PassosConsulta \ {"livre"}
  BY DEF PassosConsulta
<1>3. TemEvento(p) /\ Evento(p).tipo = "delete"
  BY <1>1, <1>2, EmPasso
<1>4. Anda(p)
  BY <1>1, <1>3, SegueAnda, DepoisTipo
<1> QED
  BY <1>1, <1>4, RestoFica, PassoSemBanco

LEMMA FalhaS3Passo ==
  ASSUME IInv, NEW p \in Particoes, FalhaS3(p)
  PROVE  IInv' /\ SaiPorEvento
<1>1. /\ MidiaFica /\ \E ps \in {"photo", "rmphoto", "thumbnail", "rmthumbnail"} : No(p, ps)
      /\ UNCHANGED bancoVars /\ UNCHANGED <<gravado, sessao>>
      /\ \/ Anota(p, "falha", "thumbnail")
         \/ Anota(p, "falha", Depois(erros[p] \cup {"falha"}))
  BY DEF FalhaS3, MidiaFica
<1>2. {"photo", "rmphoto", "thumbnail", "rmthumbnail"} \subseteq PassosConsulta \ {"livre"}
  BY DEF PassosConsulta
<1>3. TemEvento(p) /\ Evento(p).tipo = "delete"
  BY <1>1, <1>2, EmPasso
<1>4. Anda(p)
  BY <1>1, <1>2, <1>3, AnotaAnda, DepoisTipo
<1>5. gastoConsulta' \in [TiposDeGasto -> Nat]
  <2>1. CASE UNCHANGED gastoConsulta
    BY <2>1 DEF IInv, TypeOK, ConsultaTypeOK, TiposDeGasto
  <2>2. CASE PagaConsulta("erros", MaxErros)
    BY <2>2, Paga, ConsultaBoundsAssumption DEF TiposDeGasto
  <2> QED
    BY <2>1, <2>2 DEF FalhaS3
<1>6. RestoTipos
  BY <1>1, <1>5 DEF RestoTipos, IInv, TypeOK, ConsultaTypeOK
<1> QED
  BY <1>1, <1>4, <1>6, PassoSemBanco

-----------------------------------------------------------------------------
(* COMMIT and ROLLBACK of a transaction, whoever began it.                 *)
LEMMA EncerraPasso ==
  ASSUME IInv, NEW p \in Particoes, Commit(p) \/ Rollback(p)
  PROVE  IInv' /\ SaiPorEvento
<1>1. /\ MidiaFica /\ media' = media /\ Marca(p) /\ UNCHANGED <<gravado, sessao, gastoConsulta>>
      /\ Encerra(visao) \/ Encerra(consulta)
      /\ conexao' = conexao
  BY DEF Commit, Rollback, midiaVars, MidiaFica
<1>2. conexao' \in {"aberta", "fechada"}
  BY <1>1 DEF IInv, TypeOK, ConsultaTypeOK
<1>3. BancoTipos /\ Tabelas' /\ SaiPorEvento
  BY <1>1, <1>2, BancoEncerra
<1> QED
  BY <1>1, <1>3, MarcaPreserva, RestoFica, Junta

LEMMA FechaTabela ==
  ASSUME IInv, media' = media, Fecha
  PROVE  BancoTipos /\ Tabelas' /\ SaiPorEvento
BY BancoEncerra DEF Fecha

(* However a statement failed, the handler gives the message up.           *)
LEMMA DesistePreserva ==
  ASSUME IInv, NEW p \in Particoes, TemEvento(p), Desiste(p), media' = media
  PROVE  HandlerTipos /\ EmExclusao'
<1>1. CASE passo[p] \in {"delete", "count"}
  <2>1. Segue(p, "rollback")
    BY <1>1 DEF Desiste
  <2>2. Anda(p)
    BY <1>1, <2>1, SegueAnda DEF IInv, EmExclusao, PassosConsulta
  <2> QED
    BY <2>2, AndaPreserva
<1>2. CASE passo[p] \notin {"delete", "count"}
  BY <1>2, MarcaPreserva DEF Desiste
<1> QED
  BY <1>1, <1>2

LEMMA PagaOuFica ==
  ASSUME IInv, UNCHANGED <<gravado, sessao>>,
         UNCHANGED gastoConsulta \/ PagaConsulta("erros", MaxErros)
           \/ PagaConsulta("ocupadas", MaxOcupadas)
  PROVE  RestoTipos
<1>1. gastoConsulta' \in [TiposDeGasto -> Nat]
  <2>1. CASE UNCHANGED gastoConsulta
    BY <2>1 DEF IInv, TypeOK, ConsultaTypeOK, TiposDeGasto
  <2>2. CASE PagaConsulta("erros", MaxErros)
    BY <2>2, Paga, ConsultaBoundsAssumption DEF TiposDeGasto
  <2>3. CASE PagaConsulta("ocupadas", MaxOcupadas)
    BY <2>3, Paga, ConsultaBoundsAssumption DEF TiposDeGasto
  <2> QED
    BY <2>1, <2>2, <2>3
<1> QED
  BY <1>1 DEF RestoTipos, IInv, TypeOK, ConsultaTypeOK

(* What Aborta does: at most the transaction is lost.                      *)
LEMMA AbortaTabela ==
  ASSUME IInv, media' = media, Aborta
  PROVE  BancoTipos /\ Tabelas' /\ SaiPorEvento
<1>1. CASE transacao = "fora"
  BY <1>1, BancoIgual DEF Aborta
<1>2. CASE transacao # "fora"
  <2>1. /\ transacao' = "abortada" /\ visao' = consulta /\ consulta' = consulta
        /\ conexao' = conexao
    BY <1>2 DEF Aborta
  <2>2. BancoTipos
    BY <2>1 DEF IInv, TypeOK, ConsultaTypeOK, BancoTipos
  <2> QED
    BY <2>1, <2>2 DEF IInv, Tabelas, DeEventos, Excluida, SaiPorEvento
<1> QED
  BY <1>1, <1>2

LEMMA NaoEnviadoPasso ==
  ASSUME IInv, NEW p \in Particoes, StatementFalha(p)
  PROVE  IInv' /\ SaiPorEvento
<1>1. /\ MidiaFica /\ media' = media /\ UNCHANGED <<gravado, sessao>> /\ Desiste(p)
      /\ Fecha \/ UNCHANGED bancoVars
      /\ UNCHANGED gastoConsulta \/ PagaConsulta("ocupadas", MaxOcupadas)
      /\ TemEvento(p)
  BY DEF StatementFalha, No, midiaVars, MidiaFica
<1>2. BancoTipos /\ Tabelas' /\ SaiPorEvento
  BY <1>1, FechaTabela, BancoIgual
<1> QED
  BY <1>1, <1>2, DesistePreserva, PagaOuFica, Junta

LEMMA RecusadoPasso ==
  ASSUME IInv, NEW p \in Particoes, StatementRecusado(p)
  PROVE  IInv' /\ SaiPorEvento
<1>1. /\ MidiaFica /\ media' = media /\ UNCHANGED <<gravado, sessao>> /\ Desiste(p)
      /\ UNCHANGED gastoConsulta \/ PagaConsulta("erros", MaxErros)
      /\ TemEvento(p)
      /\ (Encerra(consulta) /\ UNCHANGED conexao) \/ Fecha \/ Aborta
  BY DEF StatementRecusado, No, midiaVars, MidiaFica
<1>2. BancoTipos /\ Tabelas' /\ SaiPorEvento
  <2>1. CASE Encerra(consulta) /\ UNCHANGED conexao
    BY <1>1, <2>1, BancoEncerra DEF IInv, TypeOK, ConsultaTypeOK
  <2> QED
    BY <1>1, <2>1, FechaTabela, AbortaTabela
<1> QED
  BY <1>1, <1>2, DesistePreserva, PagaOuFica, Junta

(* A statement cut off by the network was done as a whole or not at all.   *)
LEMMA CortadoPasso ==
  ASSUME IInv, NEW p \in Particoes, StatementCortado(p)
  PROVE  IInv' /\ SaiPorEvento
<1>1. /\ MidiaFica /\ media' = media /\ UNCHANGED <<gravado, sessao>> /\ Desiste(p)
      /\ UNCHANGED gastoConsulta \/ PagaConsulta("erros", MaxErros)
      /\ TemEvento(p) /\ conexao' = "fechada"
      /\ Encerra(consulta) \/ Encerra(Feito(p))
  BY DEF StatementCortado, No, midiaVars, MidiaFica
<1>2. CASE Encerra(consulta) \/ Encerra(visao)
  <2>1. BancoTipos /\ Tabelas' /\ SaiPorEvento
    BY <1>1, <1>2, BancoEncerra
  <2> QED
    BY <1>1, <2>1, DesistePreserva, PagaOuFica, Junta
<1>3. ASSUME NEW t, Serve(t), Encerra(t) PROVE IInv' /\ SaiPorEvento
  <2>1. consulta' = t /\ visao' = t /\ transacao' = "fora"
    BY <1>3 DEF Encerra
  <2>2. BancoTipos
    BY <1>1, <1>3, <2>1 DEF BancoTipos, Serve
  <2>3. Tabelas' /\ SaiPorEvento
    BY <1>1, <1>3, <2>1 DEF Serve, Tabelas, DeEventos, Excluida, SaiPorEvento
  <2> QED
    BY <1>1, <2>2, <2>3, DesistePreserva, PagaOuFica, Junta
<1>4. Feito(p) \in {consulta, visao} \/ Serve(Feito(p))
  <2>1. passo[p] = "delete" => Serve(SemLinha(Evento(p)))
    BY <1>1, SemLinhaServe DEF IInv, EmExclusao
  <2>2. Serve(ComLinha(Evento(p)))
    BY <1>1, ComLinhaServe
  <2> QED
    BY <2>1, <2>2 DEF Feito
<1> QED
  BY <1>1, <1>2, <1>3, <1>4

-----------------------------------------------------------------------------
(* Offsets, sessions, and the end of the process.                          *)
LEMMA SessaoPasso ==
  ASSUME IInv, (\E p \in Particoes : GravaOffset(p)) \/ Cancela \/ FimDaSessao
  PROVE  IInv' /\ SaiPorEvento
<1>1. /\ MidiaFica /\ media' = media /\ UNCHANGED bancoVars /\ UNCHANGED <<lido, passo, erros>>
  BY DEF GravaOffset, Cancela, FimDaSessao, midiaVars, MidiaFica
<1>2. RestoTipos
  <2>1. /\ gravado \in [Particoes -> Nat] /\ lido \in [Particoes -> Nat]
        /\ sessao \in {"ativa", "cancelada", "encerra", "presa"}
        /\ gastoConsulta \in [TiposDeGasto -> Nat]
    BY DEF IInv, TypeOK, ConsultaTypeOK, TiposDeGasto
  <2>2. ASSUME NEW p \in Particoes, GravaOffset(p) PROVE RestoTipos
    BY <2>1, <2>2 DEF GravaOffset, RestoTipos
  <2>3. CASE Cancela
    <3>1. gastoConsulta' \in [TiposDeGasto -> Nat]
      BY <2>3, Paga, ConsultaBoundsAssumption DEF Cancela, TiposDeGasto
    <3> QED
      BY <2>1, <2>3, <3>1 DEF Cancela, RestoTipos
  <2>4. CASE FimDaSessao
    BY <2>1, <2>4 DEF FimDaSessao, RestoTipos
  <2> QED
    BY <2>2, <2>3, <2>4
<1> QED
  BY <1>1, <1>2, ParadoPreserva, BancoIgual, Junta

LEMMA SigtermPasso ==
  ASSUME IInv, SigtermConsulta
  PROVE  IInv' /\ SaiPorEvento
<1>1. /\ MidiaFica /\ media' = media /\ Fecha /\ UNCHANGED <<lido, passo, erros>>
      /\ gravado' = gravado /\ sessao' = "encerra"
  BY DEF SigtermConsulta, midiaVars, MidiaFica
<1>2. gastoConsulta' \in [TiposDeGasto -> Nat]
  BY Paga, ConsultaBoundsAssumption DEF SigtermConsulta, TiposDeGasto
<1>3. RestoTipos
  BY <1>1, <1>2 DEF RestoTipos, IInv, TypeOK, ConsultaTypeOK
<1> QED
  BY <1>1, <1>3, ParadoPreserva, FechaTabela, Junta

LEMMA ReiniciaPasso ==
  ASSUME IInv, ReiniciaConsulta
  PROVE  IInv' /\ SaiPorEvento
<1>1. /\ MidiaFica /\ media' = media /\ Encerra(consulta) /\ conexao' = "aberta"
      /\ sessao' = "ativa" /\ gravado' = gravado /\ lido' = gravado
      /\ passo' = [p \in Particoes |-> "livre"] /\ erros' = [p \in Particoes |-> {}]
  BY DEF ReiniciaConsulta, midiaVars, MidiaFica
<1>2. gravado \in [Particoes -> Nat] /\ gastoConsulta \in [TiposDeGasto -> Nat]
  BY DEF IInv, TypeOK, ConsultaTypeOK, TiposDeGasto
<1>3. gastoConsulta' \in [TiposDeGasto -> Nat]
  <2>1. CASE PagaConsulta("reinicios", MaxReinicios)
    BY <2>1, Paga, ConsultaBoundsAssumption DEF TiposDeGasto
  <2>2. CASE UNCHANGED gastoConsulta
    BY <1>2, <2>2
  <2> QED
    BY <2>1, <2>2 DEF ReiniciaConsulta
<1>4. RestoTipos
  BY <1>1, <1>2, <1>3 DEF RestoTipos
<1>5. HandlerTipos /\ EmExclusao'
  BY <1>1, <1>2 DEF HandlerTipos, EmExclusao, PassosConsulta
<1>6. BancoTipos /\ Tabelas' /\ SaiPorEvento
  BY <1>1, BancoEncerra
<1> QED
  BY <1>1, <1>4, <1>5, <1>6, Junta

-----------------------------------------------------------------------------
(* The catalogue tells of one more event, the first of its file or one like*)
(* the first.                                                              *)
LEMMA EventoNovo ==
  ASSUME IInv, NEW m \in Eventos, media' = Publica(media, m),
         \A e \in Range(media[ParticaoDe[m.arquivo]]) :
           e.arquivo = m.arquivo => e.usuario = m.usuario /\ e.hash = m.hash,
         UNCHANGED <<temp, comando, consultaVars>>,
         photos' \subseteq Hashes, thumbnails' \subseteq Hashes
  PROVE  IInv' /\ SaiPorEvento
<1> DEFINE q == ParticaoDe[m.arquivo]
<1>1. /\ m.arquivo \in Arquivos /\ q \in Particoes /\ media \in [Particoes -> Seq(Eventos)]
      /\ media' = [media EXCEPT ![q] = Append(@, m)]
  BY ParticaoAssumption DEF Eventos, Publica, IInv, TypeOK, MidiaTypeOK
<1>2. /\ media[q] \in Seq(Eventos) /\ media'[q] = Append(media[q], m)
      /\ \A p \in Particoes \ {q} : media'[p] = media[p]
  BY <1>1
<1>3. /\ media'[q] \in Seq(Eventos) /\ Range(media'[q]) = Range(media[q]) \cup {m}
      /\ Len(media[q]) \in Nat /\ Len(media'[q]) = Len(media[q]) + 1
      /\ \A i \in 1..Len(media[q]) : media'[q][i] = media[q][i]
  BY <1>2, Anexa
<1>4. TypeOK'
  <2>1. MidiaTypeOK'
    BY <1>1, <1>3 DEF IInv, TypeOK, MidiaTypeOK
  <2>2. ConsultaTypeOK'
    BY DEF IInv, TypeOK, ConsultaTypeOK, consultaVars
  <2> QED
    BY <2>1, <2>2 DEF TypeOK
<1>5. Coerente'
  <2> SUFFICES ASSUME NEW p \in Particoes, NEW e \in Range(media'[p])
               PROVE  /\ ParticaoDe[e.arquivo] = p
                      /\ \A d \in Range(media'[p]) : e.arquivo = d.arquivo =>
                           e.usuario = d.usuario /\ e.hash = d.hash
    BY DEF Coerente, Range
  <2>1. CASE p # q
    BY <1>2, <2>1 DEF IInv, Coerente
  <2>2. CASE p = q
    BY <1>3, <2>2 DEF IInv, Coerente
  <2> QED
    BY <2>1, <2>2
<1>6. EmExclusao'
  <2> SUFFICES ASSUME NEW p \in Particoes, passo[p] # "livre"
               PROVE  lido[p] < Len(media'[p]) /\ media'[p][lido[p] + 1].tipo = "delete"
    BY DEF EmExclusao, TemEvento, Evento, consultaVars
  <2>1. /\ lido[p] < Len(media[p]) /\ media[p][lido[p] + 1].tipo = "delete"
        /\ lido[p] \in Nat
    BY DEF IInv, EmExclusao, TemEvento, Evento, TypeOK, ConsultaTypeOK
  <2>2. CASE p # q
    BY <1>2, <2>1, <2>2
  <2>3. CASE p = q
    <3>1. lido[q] + 1 \in 1..Len(media[q]) /\ lido[q] < Len(media'[q])
      BY <1>3, <2>1, <2>3
    <3>2. media'[q][lido[q] + 1] = media[q][lido[q] + 1]
      BY <1>3, <3>1
    <3> QED
      BY <2>1, <2>3, <3>1, <3>2
  <2> QED
    BY <2>2, <2>3
<1>7. Tabelas' /\ SaiPorEvento
  <2>1. \A p \in Particoes : Range(media[p]) \subseteq Range(media'[p])
    BY <1>2, <1>3
  <2>2. \A f \in Arquivos : ParticaoDe[f] \in Particoes
    BY ParticaoAssumption
  <2>3. consulta' = consulta /\ visao' = visao
    BY DEF consultaVars
  <2>4. DeEventos(consulta)' /\ DeEventos(visao)'
    <3>1. \A f \in Arquivos : Range(media[ParticaoDe[f]]) \subseteq Range(media'[ParticaoDe[f]])
      BY <2>1, <2>2
    <3>2. DeEventos(consulta) /\ DeEventos(visao)
      BY DEF IInv, Tabelas
    <3> HIDE DEF DeEventos
    <3> QED
      BY <2>3, <3>1, <3>2 DEF DeEventos
  <2>5. \A f \in Arquivos : Excluida(f) => Excluida(f)'
    BY <2>1, <2>2, <2>3 DEF Excluida, Range
  <2> QED
    BY <2>3, <2>4, <2>5 DEF IInv, Tabelas, SaiPorEvento
<1> QED
  BY <1>4, <1>5, <1>6, <1>7 DEF IInv

LEMMA UploadPasso ==
  ASSUME IInv, NEW f \in Arquivos, NEW u \in Usuarios, NEW h \in Hashes, AnunciaUpload(f, u, h)
  PROVE  IInv' /\ SaiPorEvento
<1> DEFINE m == NewEvent("upload", f, u, h)
<1>1. /\ m \in Eventos /\ m.arquivo = f
  BY DEF NewEvent, Eventos, Tipos
<1>2. /\ media' = Publica(media, m) /\ Cat!EventosDe(f) = {}
      /\ photos' = photos \cup {h} /\ thumbnails' = thumbnails \cup {h}
      /\ UNCHANGED <<temp, comando, consultaVars>>
  BY DEF AnunciaUpload, Cat!AnunciaUpload, Cat!Publica, Publica, Cat!NewEvent, NewEvent
<1>3. \A e \in Range(media[ParticaoDe[f]]) : e.arquivo # f
  BY <1>2 DEF Cat!EventosDe, Range
<1>4. photos' \subseteq Hashes /\ thumbnails' \subseteq Hashes
  BY <1>2 DEF IInv, TypeOK, MidiaTypeOK
<1> QED
  BY <1>1, <1>2, <1>3, <1>4, EventoNovo

LEMMA ExclusaoPasso ==
  ASSUME IInv, NEW f \in Arquivos, AnunciaDelete(f)
  PROVE  IInv' /\ SaiPorEvento
<1>1. PICK i \in Cat!EventosDe(f) :
        /\ media' = Publica(media, [media[ParticaoDe[f]][i] EXCEPT !.tipo = "delete"])
        /\ photos' = photos /\ thumbnails' = thumbnails
        /\ UNCHANGED <<temp, comando, consultaVars>>
  BY DEF AnunciaDelete, Cat!AnunciaDelete, Cat!Publica, Publica
<1> DEFINE e == media[ParticaoDe[f]][i]
           m == [e EXCEPT !.tipo = "delete"]
<1>2. media[ParticaoDe[f]] \in Seq(Eventos) /\ ParticaoDe[f] \in Particoes
  BY ParticaoAssumption DEF IInv, TypeOK, MidiaTypeOK
<1>3. i \in DOMAIN media[ParticaoDe[f]] /\ e.arquivo = f
  BY DEF Cat!EventosDe
<1>4. e \in Eventos /\ e \in Range(media[ParticaoDe[f]])
  BY <1>2, <1>3, ElementOfSeq, LenProperties DEF Range
<1>5. m \in Eventos /\ m.arquivo = f /\ m.usuario = e.usuario /\ m.hash = e.hash
  BY <1>3, <1>4 DEF Eventos, Tipos
<1>6. \A d \in Range(media[ParticaoDe[f]]) :
        d.arquivo = f => d.usuario = e.usuario /\ d.hash = e.hash
  BY <1>2, <1>3, <1>4 DEF IInv, Coerente
<1>7. photos' \subseteq Hashes /\ thumbnails' \subseteq Hashes
  BY <1>1 DEF IInv, TypeOK, MidiaTypeOK
<1> QED
  BY <1>1, <1>5, <1>6, <1>7, EventoNovo

LEMMA ParadaPasso ==
  ASSUME IInv, UNCHANGED vars
  PROVE  IInv' /\ SaiPorEvento
<1>1. MidiaFica /\ media' = media /\ UNCHANGED bancoVars /\ UNCHANGED <<lido, passo, erros>>
      /\ UNCHANGED <<gravado, sessao, gastoConsulta>>
  BY DEF vars, midiaVars, consultaVars, bancoVars, MidiaFica
<1> QED
  BY <1>1, ParadoPreserva, BancoIgual, RestoFica, Junta

LEMMA IInvPasso ==
  ASSUME IInv, [Next]_vars
  PROVE  IInv' /\ SaiPorEvento
<1>1. ASSUME NEW e \in Envios, AnunciaUpload(e[1], e[2], e[3]) PROVE IInv' /\ SaiPorEvento
  <2>1. e[1] \in Arquivos /\ e[2] \in Usuarios /\ e[3] \in Hashes
    BY EnviosAssumption
  <2> QED
    BY <1>1, <2>1, UploadPasso
<1>2. ASSUME NEW p \in Particoes, HandlerConsulta(p) PROVE IInv' /\ SaiPorEvento
  BY <1>2, SavePasso, BeginPasso, DeletePasso, CountPasso, PhotoExistePasso, RemovePhotoPasso,
     ThumbnailExistePasso, RemoveThumbnailPasso, EncerraPasso DEF HandlerConsulta
<1>3. CASE ConsultaNext
  BY <1>2, <1>3, FalhaS3Passo, NaoEnviadoPasso, RecusadoPasso, CortadoPasso, SessaoPasso,
     SigtermPasso, ReiniciaPasso DEF ConsultaNext, FalhaConsulta
<1> QED
  BY <1>1, <1>3, ExclusaoPasso, ParadaPasso DEF Next

LEMMA IInvSempre == Spec => []IInv
BY InitIInv, IInvPasso, PTL DEF Spec

-----------------------------------------------------------------------------
(* The state of the consulta processor is what the type invariant says.    *)
THEOREM TypeCorrect == Spec => []TypeOK
<1>1. IInv => TypeOK
  BY DEF IInv
<1> QED
  BY <1>1, IInvSempre, PTL

(* consumer.go, handleDeleteRegistro: a committed row only leaves the table*)
(* for a deletion event of its file, user and content, although handlers of*)
(* any number of partitions share one session, join and end each other's   *)
(* transactions, are refused statements, cancelled, and replayed.          *)
THEOREM LinhaSaiPorEvento == Spec => LinhaSoSaiPorEvento
<1>1. IInv /\ [Next]_vars =>
        [\A f \in Arquivos : consulta[f] # Nenhum /\ consulta'[f] = Nenhum =>
           NewEvent("delete", f, consulta[f].usuario, consulta[f].hash)
             \in Range(media[ParticaoDe[f]])]_bancoVars
  BY IInvPasso DEF SaiPorEvento, Excluida
<1> QED
  BY <1>1, IInvSempre, PTL DEF Spec, LinhaSoSaiPorEvento

-----------------------------------------------------------------------------
(* The event at hand is not changed by what is appended.                   *)
LEMMA AnexaNaoMexe ==
  ASSUME IInv, NEW p \in Particoes, NEW i \in 1..Len(media[p]),
         NEW m \in Eventos, media' = Publica(media, m)
  PROVE  media'[p][i] = media[p][i]
<1>1. media[p] \in Seq(Eventos) /\ media \in [Particoes -> Seq(Eventos)]
  BY DEF IInv, TypeOK, MidiaTypeOK
<1>2. media' = [media EXCEPT ![ParticaoDe[m.arquivo]] = Append(@, m)]
  BY DEF Publica
<1>3. media'[p] = media[p] \/ media'[p] = Append(media[p], m)
  BY <1>1, <1>2
<1> QED
  BY <1>1, <1>3, Anexa

(* What the catalogue may do in a step.                                    *)
LEMMA Anuncio ==
  ASSUME IInv, [Next]_vars, ~ConsultaNext, ~UNCHANGED vars
  PROVE  /\ UNCHANGED consultaVars
         /\ \E m \in Eventos :
              /\ media' = Publica(media, m)
              /\ \/ /\ m.tipo = "upload" /\ Cat!EventosDe(m.arquivo) = {}
                    /\ photos' = photos \cup {m.hash} /\ thumbnails' = thumbnails \cup {m.hash}
                 \/ \E i \in DOMAIN media[ParticaoDe[m.arquivo]] :
                      /\ Cat!EventosDe(m.arquivo) = {i}
                      /\ m = [media[ParticaoDe[m.arquivo]][i] EXCEPT !.tipo = "delete"]
                      /\ photos' = photos /\ thumbnails' = thumbnails
<1>1. ASSUME NEW e \in Envios, AnunciaUpload(e[1], e[2], e[3])
      PROVE  /\ UNCHANGED consultaVars
             /\ \E m \in Eventos :
                  /\ media' = Publica(media, m)
                  /\ m.tipo = "upload" /\ Cat!EventosDe(m.arquivo) = {}
                  /\ photos' = photos \cup {m.hash} /\ thumbnails' = thumbnails \cup {m.hash}
  <2> DEFINE m == NewEvent("upload", e[1], e[2], e[3])
  <2>1. e[1] \in Arquivos /\ e[2] \in Usuarios /\ e[3] \in Hashes
    BY EnviosAssumption
  <2>2. m \in Eventos /\ m.tipo = "upload" /\ m.arquivo = e[1] /\ m.hash = e[3]
    BY <2>1 DEF NewEvent, Eventos, Tipos
  <2>3. /\ media' = Publica(media, m) /\ Cat!EventosDe(e[1]) = {} /\ UNCHANGED consultaVars
        /\ photos' = photos \cup {e[3]} /\ thumbnails' = thumbnails \cup {e[3]}
    BY <1>1 DEF AnunciaUpload, Cat!AnunciaUpload, Cat!Publica, Publica, Cat!NewEvent, NewEvent
  <2> HIDE DEF m
  <2> QED
    BY <2>2, <2>3
<1>2. ASSUME NEW f \in Arquivos, AnunciaDelete(f)
      PROVE  /\ UNCHANGED consultaVars
             /\ \E m \in Eventos :
                  /\ media' = Publica(media, m)
                  /\ \E i \in DOMAIN media[ParticaoDe[m.arquivo]] :
                      /\ Cat!EventosDe(m.arquivo) = {i}
                      /\ m = [media[ParticaoDe[m.arquivo]][i] EXCEPT !.tipo = "delete"]
                      /\ photos' = photos /\ thumbnails' = thumbnails
  <2>1. PICK i \in Cat!EventosDe(f) :
          /\ Cat!EventosDe(f) = {i}
          /\ media' = Publica(media, [media[ParticaoDe[f]][i] EXCEPT !.tipo = "delete"])
          /\ photos' = photos /\ thumbnails' = thumbnails /\ UNCHANGED consultaVars
    BY <1>2 DEF AnunciaDelete, Cat!AnunciaDelete, Cat!Publica, Publica
  <2> DEFINE m == [media[ParticaoDe[f]][i] EXCEPT !.tipo = "delete"]
  <2>2. i \in DOMAIN media[ParticaoDe[f]] /\ media[ParticaoDe[f]] \in Seq(Eventos)
        /\ media[ParticaoDe[f]][i].arquivo = f
    BY ParticaoAssumption DEF Cat!EventosDe, IInv, TypeOK, MidiaTypeOK
  <2>3. media[ParticaoDe[f]][i] \in Eventos
    BY <2>2, ElementOfSeq, LenProperties
  <2>4. m \in Eventos /\ m.arquivo = f
    BY <2>2, <2>3 DEF Eventos, Tipos
  <2>5. media' = Publica(media, m) /\ m = [media[ParticaoDe[m.arquivo]][i] EXCEPT !.tipo = "delete"]
    BY <2>1, <2>4
  <2> HIDE DEF m
  <2> QED
    BY <2>1, <2>2, <2>4, <2>5
<1> QED
  BY <1>1, <1>2 DEF Next

LEMMA MediaFica ==
  ASSUME ConsultaNext \/ UNCHANGED vars
  PROVE  media' = media
BY DEF ConsultaNext, HandlerConsulta, FalhaConsulta, SaveRegistroMedia, BeginTx, DeleteRegistroMedia,
   CountRegistroByHash, PhotoExiste, RemovePhoto, ThumbnailExiste, RemoveThumbnail, Commit, Rollback,
   FalhaS3, StatementFalha, StatementRecusado, StatementCortado, GravaOffset, Cancela, FimDaSessao,
   SigtermConsulta, ReiniciaConsulta, vars, midiaVars

LEMMA EventoFica ==
  ASSUME IInv, [Next]_vars, NEW p \in Particoes, passo[p] # "livre", lido'[p] = lido[p]
  PROVE  Evento(p)' = Evento(p)
<1>1. lido[p] + 1 \in 1..Len(media[p])
  <2>1. TemEvento(p) /\ media[p] \in Seq(Eventos) /\ lido[p] \in Nat
    BY DEF IInv, EmExclusao, TypeOK, MidiaTypeOK, ConsultaTypeOK
  <2>2. Len(media[p]) \in Nat
    BY <2>1, LenProperties
  <2> QED
    BY <2>1, <2>2 DEF TemEvento
<1>2. media'[p][lido[p] + 1] = media[p][lido[p] + 1]
  <2>1. CASE ConsultaNext \/ UNCHANGED vars
    BY <2>1, MediaFica
  <2>2. CASE ~ConsultaNext /\ ~UNCHANGED vars
    <3>1. PICK m \in Eventos : media' = Publica(media, m)
      BY <2>2, Anuncio
    <3> QED
      BY <1>1, <3>1, AnexaNaoMexe
  <2> QED
    BY <2>1, <2>2
<1> QED
  BY <1>2 DEF Evento

-----------------------------------------------------------------------------
(* Outside a transaction the session sees what is committed, and a row it  *)
(* no longer sees, though it is committed, is the one the handler of its   *)
(* partition is deleting.                                                  *)
Pendente ==
  /\ transacao = "fora" => visao = consulta
  /\ \A g \in Arquivos : consulta[g] # Nenhum /\ visao[g] = Nenhum =>
       passo[ParticaoDe[g]] # "livre" /\ Evento(ParticaoDe[g]).arquivo = g

CInv == Pendente /\ ColetaPoupaParticao

(* What a step that is no statement of its partition does to a file: the   *)
(* committed row and the row seen stay, or become the same.                *)
Alheio(g) ==
  \/ consulta'[g] = consulta[g] /\ visao'[g] = visao[g]
  \/ consulta'[g] = consulta[g] /\ visao'[g] = consulta[g]
  \/ consulta'[g] = visao[g] /\ visao'[g] = visao[g]

(* The handler of the partition is still at its message.                   *)
Continua(p) == passo[p] # "livre" /\ passo'[p] # "livre" /\ lido'[p] = lido[p]

(* A step that ends the transaction or leaves the tables alone.            *)
Fim == \/ UNCHANGED bancoVars
       \/ UNCHANGED <<consulta, visao>> /\ transacao' # "fora"
       \/ Encerra(consulta) \/ Encerra(visao) \/ Fecha \/ Aborta

LEMMA Iguala ==
  ASSUME Pendente, Fim
  PROVE  /\ \A g \in Arquivos : Alheio(g)
         /\ transacao' = "fora" => visao' = consulta'
BY DEF Fim, Alheio, Encerra, Fecha, Aborta, bancoVars, Pendente

(* A statement outside the partitions of the others.                       *)
LEMMA SoDaParticao ==
  ASSUME IInv, Pendente, NEW p \in Particoes, TemEvento(p), NEW t,
         \A g \in Arquivos : g # Evento(p).arquivo => t[g] = visao[g],
         Escreve(t) \/ (transacao = "fora" /\ Encerra(t))
  PROVE  /\ \A g \in Arquivos : ParticaoDe[g] # p => Alheio(g)
         /\ transacao' = "fora" => visao' = consulta'
<1>1. ParticaoDe[Evento(p).arquivo] = p
  BY NaMao DEF IInv, Coerente
<1>2. \A g \in Arquivos : ParticaoDe[g] # p => t[g] = visao[g]
  BY <1>1
<1>3. visao' = t /\ (consulta' = t \/ consulta' = consulta)
      /\ (transacao = "fora" => consulta' = t) /\ (transacao' = transacao \/ transacao = "fora")
      /\ (transacao = "fora" => transacao' = "fora")
  BY DEF Escreve, Encerra
<1> QED
  BY <1>2, <1>3 DEF Alheio, Pendente

(* Every step, by what it may do to the tables and to the handlers.        *)
Efeito(p) ==
  /\ \A g \in Arquivos : ParticaoDe[g] # p => Alheio(g)
  /\ \A q \in Particoes : q # p /\ passo[q] # "livre" => Continua(q) /\ passo'[q] = passo[q]
  /\ \A q \in Particoes : q # p /\ passo[q] = "livre" => passo'[q] = "livre"
  /\ transacao' = "fora" => visao' = consulta'

LEMMA DesisteDosOutros ==
  ASSUME IInv, NEW p \in Particoes,
         Marca(p) \/ (\E ps : Segue(p, ps)) \/ (\E k, ps : Anota(p, k, ps)) \/ Desiste(p)
  PROVE  \A q \in Particoes : q # p => passo'[q] = passo[q] /\ lido'[q] = lido[q]
BY DEF IInv, TypeOK, ConsultaTypeOK, Marca, Segue, Anota, Desiste

LEMMA EfeitoDoHandler ==
  ASSUME IInv, Pendente, NEW p \in Particoes, HandlerConsulta(p) \/ FalhaConsulta(p)
  PROVE  Efeito(p)
<1>1. \A q \in Particoes : q # p => passo'[q] = passo[q] /\ lido'[q] = lido[q]
  <2>1. Marca(p) \/ (\E ps : Segue(p, ps)) \/ (\E k, ps : Anota(p, k, ps)) \/ Desiste(p)
    BY DEF HandlerConsulta, FalhaConsulta, SaveRegistroMedia, BeginTx, DeleteRegistroMedia,
       CountRegistroByHash, PhotoExiste, RemovePhoto, ThumbnailExiste, RemoveThumbnail, Commit, Rollback,
       FalhaS3, StatementFalha, StatementRecusado, StatementCortado
  <2> QED
    BY <2>1, DesisteDosOutros
<1>2. /\ \A g \in Arquivos : ParticaoDe[g] # p => Alheio(g)
      /\ transacao' = "fora" => visao' = consulta'
  <2>1. CASE SaveRegistroMedia(p)
    <3>1. TemEvento(p) /\ Escreve(ComLinha(Evento(p)))
      BY <2>1 DEF SaveRegistroMedia, Recebe, No
    <3> QED
      BY <3>1, ComLinhaServe, SoDaParticao
  <2>2. CASE DeleteRegistroMedia(p)
    <3>1. TemEvento(p) /\ Evento(p).tipo = "delete" /\ Escreve(SemLinha(Evento(p)))
      BY <2>2 DEF DeleteRegistroMedia, No, IInv, EmExclusao
    <3> QED
      BY <3>1, SemLinhaServe, SoDaParticao
  <2>3. CASE StatementCortado(p)
    <3>1. TemEvento(p) /\ (Encerra(consulta) \/ Encerra(Feito(p)))
      BY <2>3 DEF StatementCortado, No
    <3>2. CASE Encerra(consulta) \/ Encerra(visao)
      BY <3>2, Iguala DEF Fim
    <3>3. CASE transacao = "fora" /\ passo[p] = "delete" /\ Encerra(SemLinha(Evento(p)))
      BY <3>1, <3>3, SemLinhaServe, SoDaParticao DEF IInv, EmExclusao
    <3>4. CASE transacao = "fora" /\ Encerra(ComLinha(Evento(p)))
      BY <3>1, <3>4, ComLinhaServe, SoDaParticao
    <3> QED
      BY <3>1, <3>2, <3>3, <3>4 DEF Feito
  <2>4. CASE BeginTx(p) \/ CountRegistroByHash(p) \/ PhotoExiste(p) \/ RemovePhoto(p)
             \/ ThumbnailExiste(p) \/ RemoveThumbnail(p) \/ FalhaS3(p)
    <3>1. Fim
      <4>1. BeginTx(p) => UNCHANGED <<consulta, visao>> /\ transacao' # "fora"
        BY DEF BeginTx
      <4>2. ~BeginTx(p) => UNCHANGED bancoVars
        BY <2>4 DEF CountRegistroByHash, PhotoExiste, RemovePhoto, ThumbnailExiste, RemoveThumbnail,
           FalhaS3
      <4> QED
        BY <4>1, <4>2 DEF Fim
    <3> QED
      BY <3>1, Iguala
  <2>5. CASE Commit(p) \/ Rollback(p) \/ StatementFalha(p) \/ StatementRecusado(p)
    <3>1. Fim
      <4>1. Commit(p) \/ Rollback(p) => Encerra(visao) \/ Encerra(consulta)
        BY DEF Commit, Rollback
      <4>2. StatementFalha(p) => UNCHANGED bancoVars \/ Fecha
        BY DEF StatementFalha
      <4>3. StatementRecusado(p) => Encerra(consulta) \/ Fecha \/ Aborta
        BY DEF StatementRecusado
      <4> QED
        BY <2>5, <4>1, <4>2, <4>3 DEF Fim
    <3> QED
      BY <3>1, Iguala
  <2> QED
    BY <2>1, <2>2, <2>3, <2>4, <2>5 DEF HandlerConsulta, FalhaConsulta
<1> QED
  BY <1>1, <1>2 DEF Efeito, Continua

-----------------------------------------------------------------------------
(* The same invariant, partition by partition.                             *)
Coletando == {"photo", "rmphoto", "thumbnail", "rmthumbnail"}

PendenteDe(q) == \A g \in Arquivos :
  ParticaoDe[g] = q /\ consulta[g] # Nenhum /\ visao[g] = Nenhum =>
    passo[q] # "livre" /\ Evento(q).arquivo = g

PoupaDe(q) == passo[q] \in Coletando =>
  \A f \in Arquivos : visao[f] # Nenhum /\ visao[f].hash = Evento(q).hash /\ ParticaoDe[f] = q
    => f = Evento(q).arquivo

LEMMA CInvPartes ==
  CInv <=> /\ transacao = "fora" => visao = consulta
           /\ \A q \in Particoes : PendenteDe(q) /\ PoupaDe(q)
BY ParticaoAssumption
   DEF CInv, Pendente, PendenteDe, ColetaPoupaParticao, PoupaDe, Coletando, Referencias

LEMMA CInvDepois ==
  ASSUME (transacao = "fora" => visao = consulta)',
         \A q \in Particoes : PendenteDe(q)' /\ PoupaDe(q)'
  PROVE  CInv'
BY ParticaoAssumption
   DEF CInv, Pendente, PendenteDe, ColetaPoupaParticao, PoupaDe, Coletando, Referencias

(* Rows of one file are alike.                                             *)
LEMMA MesmaLinha ==
  ASSUME IInv, NEW g \in Arquivos, consulta[g] # Nenhum, visao[g] # Nenhum
  PROVE  visao[g].hash = consulta[g].hash
<1>1. ParticaoDe[g] \in Particoes
  BY ParticaoAssumption
<1> QED
  BY <1>1 DEF IInv, Tabelas, DeEventos, Coerente

(* A partition whose handler stays where it is.                            *)
LEMMA ParteFica ==
  ASSUME IInv, CInv, NEW q \in Particoes, passo'[q] = passo[q],
         passo[q] # "livre" => Evento(q)' = Evento(q),
         \A g \in Arquivos : ParticaoDe[g] = q => Alheio(g)
  PROVE  PendenteDe(q)' /\ PoupaDe(q)'
<1>1. PendenteDe(q) /\ PoupaDe(q)
  BY CInvPartes
<1>2. PendenteDe(q)'
  <2> SUFFICES ASSUME NEW g \in Arquivos, ParticaoDe[g] = q, consulta'[g] # Nenhum, visao'[g] = Nenhum
               PROVE  passo'[q] # "livre" /\ Evento(q)'.arquivo = g
    BY DEF PendenteDe
  <2>1. consulta'[g] = consulta[g] /\ visao'[g] = visao[g]
    BY DEF Alheio
  <2> QED
    BY <1>1, <2>1 DEF PendenteDe
<1>3. PoupaDe(q)'
  <2> SUFFICES ASSUME passo'[q] \in Coletando, NEW f \in Arquivos, visao'[f] # Nenhum,
                      visao'[f].hash = Evento(q)'.hash, ParticaoDe[f] = q
               PROVE  f = Evento(q)'.arquivo
    BY DEF PoupaDe
  <2>1. passo[q] \in Coletando /\ passo[q] # "livre" /\ Evento(q)' = Evento(q)
    BY DEF Coletando
  <2>2. visao'[f] = visao[f] \/ visao'[f] = consulta[f]
    BY DEF Alheio
  <2>3. CASE visao'[f] = visao[f]
    BY <1>1, <2>1, <2>3 DEF PoupaDe
  <2>4. CASE visao'[f] = consulta[f] /\ visao[f] = Nenhum
    BY <1>1, <2>1, <2>4 DEF PendenteDe
  <2>5. CASE visao'[f] = consulta[f] /\ visao[f] # Nenhum
    BY <1>1, <2>1, <2>5, MesmaLinha DEF PoupaDe
  <2> QED
    BY <2>2, <2>3, <2>4, <2>5
<1> QED
  BY <1>2, <1>3

(* The partition whose handler moves.                                      *)
LEMMA ParteIguala ==
  ASSUME NEW p \in Particoes, passo'[p] \notin Coletando, visao' = consulta'
  PROVE  PendenteDe(p)' /\ PoupaDe(p)'
BY DEF PendenteDe, PoupaDe

LEMMA ParteSave ==
  ASSUME IInv, CInv, NEW p \in Particoes, SaveRegistroMedia(p)
  PROVE  PendenteDe(p)' /\ PoupaDe(p)'
<1> DEFINE f == Evento(p).arquivo
           t == ComLinha(Evento(p))
<1>1. /\ TemEvento(p) /\ passo[p] = "livre" /\ Marca(p) /\ Escreve(t)
  BY DEF SaveRegistroMedia, Recebe, No
<1>2. passo'[p] = "livre"
  BY <1>1 DEF Marca, IInv, TypeOK, ConsultaTypeOK
<1>3. t[f] # Nenhum /\ \A g \in Arquivos : g # f => t[g] = visao[g]
  <2>1. Evento(p).usuario \in Usuarios /\ Evento(p).hash \in Hashes
    BY <1>1, NaMao DEF IInv, Eventos
  <2>2. [usuario |-> Evento(p).usuario, hash |-> Evento(p).hash] \in Linhas
    BY <2>1 DEF Linhas
  <2> QED
    BY <1>1, <2>2, ComLinhaServe, LinhaAssumption
<1>4. visao' = t /\ (consulta' = consulta \/ consulta' = t)
  BY <1>1 DEF Escreve
<1>5. PendenteDe(p)
  BY CInvPartes
<1> HIDE DEF t
<1>6. PendenteDe(p)'
  BY <1>1, <1>3, <1>4, <1>5 DEF PendenteDe
<1> QED
  BY <1>2, <1>6 DEF PoupaDe, Coletando

LEMMA ParteDelete ==
  ASSUME IInv, CInv, NEW p \in Particoes, DeleteRegistroMedia(p)
  PROVE  PendenteDe(p)' /\ PoupaDe(p)'
<1> DEFINE f == Evento(p).arquivo
           t == SemLinha(Evento(p))
<1>1. /\ TemEvento(p) /\ passo[p] = "delete" /\ Segue(p, "count") /\ Escreve(t)
      /\ Evento(p).tipo = "delete" /\ media' = media
  BY DEF DeleteRegistroMedia, No, IInv, EmExclusao, midiaVars
<1>2. passo'[p] = "count" /\ Evento(p)' = Evento(p)
  BY <1>1 DEF Segue, IInv, TypeOK, ConsultaTypeOK, Evento
<1>3. \A g \in Arquivos : g # f => t[g] = visao[g]
  BY <1>1, SemLinhaServe
<1>4. visao' = t /\ (consulta' = consulta \/ consulta' = t)
  BY <1>1 DEF Escreve
<1>5. PendenteDe(p)
  BY CInvPartes
<1> HIDE DEF t
<1>6. PendenteDe(p)'
  BY <1>2, <1>3, <1>4, <1>5 DEF PendenteDe
<1> QED
  BY <1>2, <1>6 DEF PoupaDe, Coletando

(* The steps that leave the tables alone.                                  *)
LEMMA ParteSemBanco ==
  ASSUME IInv, CInv, NEW p \in Particoes, UNCHANGED <<consulta, visao>>, media' = media,
         \/ BeginTx(p) \/ CountRegistroByHash(p) \/ PhotoExiste(p) \/ RemovePhoto(p)
         \/ ThumbnailExiste(p) \/ RemoveThumbnail(p) \/ FalhaS3(p)
  PROVE  PendenteDe(p)' /\ PoupaDe(p)'
<1>1. passo \in [Particoes -> PassosConsulta]
  BY DEF IInv, TypeOK, ConsultaTypeOK
<1>2. PendenteDe(p) /\ PoupaDe(p)
  BY CInvPartes
<1>3. \E ps : passo' = [passo EXCEPT ![p] = ps] /\ ps # "livre"
  BY DEF BeginTx, CountRegistroByHash, PhotoExiste, RemovePhoto, ThumbnailExiste, RemoveThumbnail,
     FalhaS3, Segue, Anota, Depois
<1>4. lido' = lido
  BY DEF BeginTx, CountRegistroByHash, PhotoExiste, RemovePhoto, ThumbnailExiste, RemoveThumbnail,
     FalhaS3, Segue, Anota
<1>5. Evento(p)' = Evento(p) /\ passo'[p] # "livre"
  BY <1>1, <1>3, <1>4 DEF Evento
<1>6. PendenteDe(p)'
  BY <1>2, <1>5 DEF PendenteDe
<1>7. CASE BeginTx(p)
  BY <1>1, <1>6, <1>7 DEF BeginTx, Segue, PoupaDe, Coletando
<1>8. CASE CountRegistroByHash(p)
  <2>1. passo'[p] \in Coletando => Referencias(Evento(p).hash) = {}
    BY <1>1, <1>8 DEF CountRegistroByHash, Segue, Coletando
  <2>2. PoupaDe(p)'
    BY <1>5, <2>1 DEF PoupaDe, Referencias
  <2> QED
    BY <1>6, <2>2
<1>9. CASE ~BeginTx(p) /\ ~CountRegistroByHash(p)
  <2>1. passo[p] \in Coletando
    BY <1>9 DEF PhotoExiste, RemovePhoto, ThumbnailExiste, RemoveThumbnail, FalhaS3, No, Coletando
  <2>2. PoupaDe(p)'
    BY <1>2, <1>5, <2>1 DEF PoupaDe
  <2> QED
    BY <1>6, <2>2
<1> QED
  BY <1>7, <1>8, <1>9

(* A statement that was not done as asked.                                 *)
LEMMA ParteDesiste ==
  ASSUME IInv, CInv, NEW p \in Particoes, media' = media, Desiste(p),
         visao' = consulta' \/ (UNCHANGED <<consulta, visao>> /\ passo[p] # "commit"),
         \E ps \in PassosSQL : No(p, ps), passo[p] # "rollback" \/ visao' = consulta'
  PROVE  PendenteDe(p)' /\ PoupaDe(p)'
<1>1. passo \in [Particoes -> PassosConsulta]
  BY DEF IInv, TypeOK, ConsultaTypeOK
<1>2. passo'[p] \in {"livre", "rollback"}
  BY <1>1 DEF Desiste, Segue, Marca
<1>3. CASE visao' = consulta'
  BY <1>2, <1>3, ParteIguala DEF Coletando
<1>4. CASE UNCHANGED <<consulta, visao>> /\ passo[p] \notin {"commit", "rollback"}
  <2>1. PendenteDe(p)
    BY CInvPartes
  <2>2. CASE passo[p] = "livre"
    <3>1. PendenteDe(p)'
      BY <1>4, <2>1, <2>2 DEF PendenteDe
    <3> QED
      BY <1>2, <3>1 DEF PoupaDe, Coletando
  <2>3. CASE passo[p] \in {"delete", "count"}
    <3>1. Evento(p)' = Evento(p) /\ passo'[p] = "rollback"
      BY <1>1, <2>3 DEF Desiste, Segue, Evento
    <3>2. PendenteDe(p)'
      BY <1>4, <2>1, <3>1 DEF PendenteDe
    <3> QED
      BY <1>2, <3>2 DEF PoupaDe, Coletando
  <2>4. passo[p] \in PassosSQL
    BY DEF No
  <2> QED
    BY <1>4, <2>2, <2>3, <2>4 DEF PassosSQL
<1> QED
  BY <1>3, <1>4

LEMMA ParteStatement ==
  ASSUME IInv, CInv, NEW p \in Particoes,
         StatementFalha(p) \/ StatementRecusado(p) \/ StatementCortado(p)
  PROVE  PendenteDe(p)' /\ PoupaDe(p)'
<1>1. media' = media /\ Desiste(p)
  BY DEF StatementFalha, StatementRecusado, StatementCortado, midiaVars
<1>2. \E ps \in PassosSQL : No(p, ps)
  BY DEF StatementFalha, StatementRecusado, StatementCortado
<1>3. transacao = "fora" => visao = consulta
  BY CInvPartes
<1>4. /\ visao' = consulta' \/ (UNCHANGED <<consulta, visao>> /\ passo[p] # "commit")
      /\ passo[p] # "rollback" \/ visao' = consulta'
  <2>1. CASE StatementFalha(p)
    <3>1. CASE FechaSe(p)
      BY <2>1, <3>1 DEF StatementFalha, Fecha, Encerra
    <3>2. CASE ~FechaSe(p)
      BY <1>3, <2>1, <3>2 DEF StatementFalha, FechaSe, bancoVars
    <3> QED
      BY <3>1, <3>2
  <2>2. CASE StatementRecusado(p)
    <3>1. passo[p] # "rollback"
      BY <2>2 DEF StatementRecusado, No
    <3>2. Encerra(consulta) \/ Fecha \/ (passo[p] # "commit" /\ Aborta)
      BY <2>2 DEF StatementRecusado
    <3> QED
      BY <3>1, <3>2 DEF Encerra, Fecha, Aborta, bancoVars
  <2>3. CASE StatementCortado(p)
    <3>1. \E t : Encerra(t)
      BY <2>3 DEF StatementCortado
    <3> QED
      BY <3>1 DEF Encerra
  <2> QED
    BY <2>1, <2>2, <2>3
<1> QED
  BY <1>1, <1>2, <1>4, ParteDesiste

LEMMA ParteDoHandler ==
  ASSUME IInv, CInv, NEW p \in Particoes, HandlerConsulta(p) \/ FalhaConsulta(p)
  PROVE  PendenteDe(p)' /\ PoupaDe(p)'
<1>1. CASE Commit(p) \/ Rollback(p)
  <2>1. visao' = consulta' /\ passo'[p] = "livre"
    BY <1>1 DEF Commit, Rollback, Encerra, Marca, IInv, TypeOK, ConsultaTypeOK
  <2> QED
    BY <2>1, ParteIguala DEF Coletando
<1>2. CASE BeginTx(p) \/ CountRegistroByHash(p) \/ PhotoExiste(p) \/ RemovePhoto(p)
           \/ ThumbnailExiste(p) \/ RemoveThumbnail(p) \/ FalhaS3(p)
  <2>1. UNCHANGED <<consulta, visao>> /\ media' = media
    BY <1>2 DEF BeginTx, CountRegistroByHash, PhotoExiste, RemovePhoto, ThumbnailExiste,
       RemoveThumbnail, FalhaS3, bancoVars, midiaVars
  <2> QED
    BY <1>2, <2>1, ParteSemBanco
<1> QED
  BY <1>1, <1>2, ParteSave, ParteDelete, ParteStatement DEF HandlerConsulta, FalhaConsulta

LEMMA CInvPasso ==
  ASSUME IInv, CInv, [Next]_vars
  PROVE  CInv'
<1>1. Pendente
  BY DEF CInv
<1>2. ASSUME NEW p \in Particoes, HandlerConsulta(p) \/ FalhaConsulta(p) PROVE CInv'
  <2>1. Efeito(p)
    BY <1>1, <1>2, EfeitoDoHandler
  <2>2. ASSUME NEW q \in Particoes, q # p PROVE PendenteDe(q)' /\ PoupaDe(q)'
    <3>1. passo'[q] = passo[q] /\ (\A g \in Arquivos : ParticaoDe[g] = q => Alheio(g))
      BY <2>1, <2>2 DEF Efeito
    <3>2. passo[q] # "livre" => Evento(q)' = Evento(q)
      BY <2>1, <2>2, EventoFica DEF Efeito, Continua
    <3> QED
      BY <3>1, <3>2, ParteFica
  <2>3. PendenteDe(p)' /\ PoupaDe(p)'
    BY <1>2, ParteDoHandler
  <2>4. \A q \in Particoes : PendenteDe(q)' /\ PoupaDe(q)'
    BY <2>2, <2>3
  <2>5. (transacao = "fora" => visao = consulta)'
    BY <2>1 DEF Efeito
  <2> QED
    BY <2>4, <2>5, CInvDepois
<1>3. ASSUME Fim, UNCHANGED <<passo, lido>> PROVE CInv'
  <2>1. (\A g \in Arquivos : Alheio(g)) /\ (transacao = "fora" => visao = consulta)'
    BY <1>1, <1>3, Iguala
  <2>2. ASSUME NEW q \in Particoes PROVE PendenteDe(q)' /\ PoupaDe(q)'
    BY <1>3, <2>1, EventoFica, ParteFica
  <2> QED
    BY <2>1, <2>2, CInvDepois
<1>4. CASE ReiniciaConsulta
  <2>1. visao' = consulta' /\ \A q \in Particoes : passo'[q] = "livre"
    BY <1>4 DEF ReiniciaConsulta, Encerra
  <2>2. \A q \in Particoes : PendenteDe(q)' /\ PoupaDe(q)'
    BY <2>1, ParteIguala DEF Coletando
  <2> QED
    BY <2>1, <2>2, CInvDepois
<1>5. (\E p \in Particoes : GravaOffset(p)) \/ Cancela \/ FimDaSessao \/ SigtermConsulta
        => Fim /\ UNCHANGED <<passo, lido>>
  BY DEF GravaOffset, Cancela, FimDaSessao, SigtermConsulta, Fim
<1>6. ~ConsultaNext => Fim /\ UNCHANGED <<passo, lido>>
  <2>1. UNCHANGED consultaVars => Fim /\ UNCHANGED <<passo, lido>>
    BY DEF consultaVars, Fim, bancoVars
  <2>2. UNCHANGED vars => UNCHANGED consultaVars
    BY DEF vars
  <2> QED
    BY <2>1, <2>2, Anuncio
<1> QED
  BY <1>2, <1>3, <1>4, <1>5, <1>6 DEF ConsultaNext

(* README, "Deleção Lógica e Garbage Collector", as far as the count goes: *)
(* from handleDeleteRegistro's COUNT until photo and thumbnail are gone no *)
(* other file of its own partition refers to the content, whatever the     *)
(* handlers of any number of partitions write, commit, roll back, fail at  *)
(* or replay on the session they share.  (A file of ANOTHER partition may: *)
(* FotoSoComZero.)                                                         *)
THEOREM ColetaPoupaVizinhos == Spec => []ColetaPoupaParticao
<1>1. Init => CInv
  <2>1. Init => Pendente
    BY DEF Init, ConsultaInit, Pendente
  <2>2. Init => ColetaPoupaParticao
    BY DEF Init, ConsultaInit, ColetaPoupaParticao
  <2> QED
    BY <2>1, <2>2 DEF CInv
<1>2. IInv /\ CInv /\ [Next]_vars => CInv'
  BY CInvPasso
<1>3. CInv => ColetaPoupaParticao
  BY DEF CInv
<1> QED
  BY <1>1, <1>2, <1>3, IInvSempre, PTL DEF Spec

-----------------------------------------------------------------------------
(* A file has at most two events, its upload and then its deletion.        *)
Ordem == \A p \in Particoes : \A j \in DOMAIN media[p] :
  /\ media[p][j].tipo = "delete" =>
       \E i \in DOMAIN media[p] : i < j /\ media[p][i].arquivo = media[p][j].arquivo
  /\ \A i \in DOMAIN media[p] : i < j /\ media[p][i].arquivo = media[p][j].arquivo =>
       media[p][i].tipo = "upload" /\ media[p][j].tipo = "delete"

(* Of which files the handlers have seen an event, and the deletion.       *)
Aplicado(g) == LET p == ParticaoDe[g] IN \E i \in 1..lido[p] : media[p][i].arquivo = g
Excluindo(g) == LET p == ParticaoDe[g] IN
  passo[p] \notin {"livre", "delete"} /\ Evento(p).arquivo = g
Retirado(g) == LET p == ParticaoDe[g] IN
  \E i \in 1..lido[p] : media[p][i].arquivo = g /\ media[p][i].tipo = "delete"
TabelaCerta == \A g \in Arquivos :
  visao[g] # Nenhum <=> Aplicado(g) /\ ~Retirado(g) /\ ~Excluindo(g)

(* A content is in the buckets until its deletion has collected it.        *)
ColhidoAte(p, j, passos) == j <= lido[p] \/ (j = lido[p] + 1 /\ passo[p] \in passos)
AposFoto == {"thumbnail", "rmthumbnail", "commit"}
AposTudo == {"commit"}
Guardado(objetos, passos) == \A p \in Particoes : \A i \in DOMAIN media[p] :
  media[p][i].hash \in objetos \/
  \E j \in DOMAIN media[p] : /\ media[p][j].tipo = "delete" /\ ColhidoAte(p, j, passos)
                             /\ media[p][j].arquivo = media[p][i].arquivo

Viva == sessao = "ativa" /\ conexao = "aberta" /\ transacao # "abortada"
Bem == /\ Viva
       /\ transacao = "aberta" => \E p \in Particoes : passo[p] # "livre"
       /\ \A p \in Particoes : lido[p] <= Len(media[p]) /\ passo[p] # "rollback" /\ erros[p] = {}
       /\ Guardado(photos, AposFoto) /\ Guardado(thumbnails, AposTudo)
       /\ TabelaCerta

SInv == Ordem /\ (SemFalhas /\ ConteudosDistintos => Bem)

LEMMA DominioDe ==
  ASSUME IInv, NEW p \in Particoes
  PROVE  DOMAIN media[p] = 1..Len(media[p]) /\ Len(media[p]) \in Nat /\ lido[p] \in Nat
BY LenProperties DEF IInv, TypeOK, MidiaTypeOK, ConsultaTypeOK

(* One more event.                                                         *)
LEMMA AnexaDominio ==
  ASSUME IInv, NEW m \in Eventos, media' = Publica(media, m)
  PROVE  LET q == ParticaoDe[m.arquivo] IN
         /\ q \in Particoes /\ \A p \in Particoes : p # q => media'[p] = media[p]
         /\ DOMAIN media'[q] = DOMAIN media[q] \cup {Len(media[q]) + 1}
         /\ Len(media'[q]) = Len(media[q]) + 1 /\ media'[q][Len(media[q]) + 1] = m
         /\ \A i \in DOMAIN media[q] : media'[q][i] = media[q][i] /\ i <= Len(media[q]) /\ i \in Int
<1> DEFINE q == ParticaoDe[m.arquivo]
<1>1. /\ q \in Particoes /\ media \in [Particoes -> Seq(Eventos)]
      /\ media' = [media EXCEPT ![q] = Append(@, m)]
  BY ParticaoAssumption DEF Eventos, Publica, IInv, TypeOK, MidiaTypeOK
<1>2. media[q] \in Seq(Eventos) /\ media'[q] = Append(media[q], m)
      /\ \A p \in Particoes \ {q} : media'[p] = media[p]
  BY <1>1
<1>3. /\ Len(media'[q]) = Len(media[q]) + 1 /\ Len(media[q]) \in Nat
      /\ \A i \in 1..Len(media[q]) : media'[q][i] = media[q][i]
      /\ media'[q] \in Seq(Eventos)
  BY <1>2, Anexa
<1>4. DOMAIN media'[q] = 1..(Len(media[q]) + 1) /\ DOMAIN media[q] = 1..Len(media[q])
  BY <1>2, <1>3, LenProperties
<1>5. media'[q][Len(media[q]) + 1] = m
  BY <1>2, AppendProperties
<1>6. \A i \in DOMAIN media[q] : media'[q][i] = media[q][i] /\ i <= Len(media[q]) /\ i \in Int
  BY <1>3, <1>4
<1>7. DOMAIN media'[q] = DOMAIN media[q] \cup {Len(media[q]) + 1}
  <2>1. \A k \in Nat : 1..(k + 1) = 1..k \cup {k + 1}
    OBVIOUS
  <2> QED
    BY <1>3, <1>4, <2>1
<1>8. \A p \in Particoes : p # q => media'[p] = media[p]
  BY <1>2
<1> HIDE DEF q
<1> QED
  BY <1>1, <1>3, <1>5, <1>6, <1>7, <1>8, Zenon DEF q

LEMMA OrdemPasso ==
  ASSUME IInv, Ordem, [Next]_vars
  PROVE  Ordem'
<1>1. CASE ConsultaNext \/ UNCHANGED vars
  BY <1>1, MediaFica DEF Ordem
<1>2. CASE ~ConsultaNext /\ ~UNCHANGED vars
  <2>1. PICK m \in Eventos :
          /\ media' = Publica(media, m)
          /\ \/ m.tipo = "upload" /\ Cat!EventosDe(m.arquivo) = {}
             \/ \E i \in DOMAIN media[ParticaoDe[m.arquivo]] :
                  /\ Cat!EventosDe(m.arquivo) = {i}
                  /\ m = [media[ParticaoDe[m.arquivo]][i] EXCEPT !.tipo = "delete"]
    BY <1>2, Anuncio
  <2>q. PICK q : q = ParticaoDe[m.arquivo]
    OBVIOUS
  <2> DEFINE n == Len(media[q]) + 1
  <2>2. /\ q \in Particoes /\ \A p \in Particoes : p # q => media'[p] = media[p]
        /\ DOMAIN media'[q] = DOMAIN media[q] \cup {n} /\ media'[q][n] = m
        /\ \A i \in DOMAIN media[q] : media'[q][i] = media[q][i] /\ i < n /\ i \in Int
    <3>1. /\ q \in Particoes /\ \A p \in Particoes : p # q => media'[p] = media[p]
          /\ DOMAIN media'[q] = DOMAIN media[q] \cup {Len(media[q]) + 1}
          /\ media'[q][Len(media[q]) + 1] = m
          /\ \A i \in DOMAIN media[q] : media'[q][i] = media[q][i] /\ i <= Len(media[q]) /\ i \in Int
      <4>1. m \in Eventos /\ media' = Publica(media, m)
        BY <2>1
      <4> QED
        BY <2>q, <4>1, AnexaDominio
    <3>2. Len(media[q]) \in Nat
      BY <3>1, DominioDe
    <3> QED
      BY <3>1, <3>2
  <2>3. \/ m.tipo = "upload" /\ \A i \in DOMAIN media[q] : media[q][i].arquivo # m.arquivo
        \/ \E i \in DOMAIN media[q] :
             /\ \A k \in DOMAIN media[q] : media[q][k].arquivo = m.arquivo <=> k = i
             /\ m.tipo = "delete"
    <3>1. \A i \in DOMAIN media[q] : media[q][i] \in Eventos
      BY <2>2, ElementOfSeq, DominioDe DEF IInv, TypeOK, MidiaTypeOK
    <3>2. CASE Cat!EventosDe(m.arquivo) = {}
      BY <2>1, <2>q, <3>2 DEF Cat!EventosDe
    <3>3. ASSUME NEW i \in DOMAIN media[q], Cat!EventosDe(m.arquivo) = {i},
                 m = [media[q][i] EXCEPT !.tipo = "delete"]
          PROVE  /\ \A k \in DOMAIN media[q] : media[q][k].arquivo = m.arquivo <=> k = i
                 /\ m.tipo = "delete"
      BY <2>q, <3>1, <3>3 DEF Cat!EventosDe, Eventos
    <3> QED
      BY <2>1, <2>q, <3>2, <3>3
  <2>4. \A i \in DOMAIN media[q] : media[q][i].arquivo = m.arquivo /\ m.tipo = "delete"
          => media[q][i].tipo = "upload"
    <3>1. \A i \in DOMAIN media[q] : media[q][i].tipo \in {"upload", "delete"}
      <4>1. \A i \in DOMAIN media[q] : media[q][i] \in Eventos
        BY <2>2, ElementOfSeq, DominioDe DEF IInv, TypeOK, MidiaTypeOK
      <4> QED
        BY <4>1 DEF Eventos, Tipos
    <3>2. \A i \in DOMAIN media[q] : media[q][i].tipo = "delete" =>
            \E k \in DOMAIN media[q] : k < i /\ media[q][k].arquivo = media[q][i].arquivo
      BY <2>2 DEF Ordem
    <3>3. \A i \in DOMAIN media[q] : i \in Int
      BY <2>2
    <3> QED
      BY <2>3, <3>1, <3>2, <3>3
  <2>5. ASSUME NEW p \in Particoes, NEW j \in DOMAIN media'[p]
        PROVE  /\ media'[p][j].tipo = "delete" =>
                    \E i \in DOMAIN media'[p] : i < j /\ media'[p][i].arquivo = media'[p][j].arquivo
               /\ \A i \in DOMAIN media'[p] : i < j /\ media'[p][i].arquivo = media'[p][j].arquivo =>
                    media'[p][i].tipo = "upload" /\ media'[p][j].tipo = "delete"
    <3> DEFINE s == media[q]
               t == media'[q]
    <3>1. CASE p # q
      BY <2>2, <2>5, <3>1 DEF Ordem
    <3>2. \A k \in DOMAIN s :
            /\ s[k].tipo = "delete" => \E i \in DOMAIN s : i < k /\ s[i].arquivo = s[k].arquivo
            /\ \A i \in DOMAIN s : i < k /\ s[i].arquivo = s[k].arquivo =>
                 s[i].tipo = "upload" /\ s[k].tipo = "delete"
      BY <2>2 DEF Ordem
    <3>3. /\ DOMAIN t = DOMAIN s \cup {n} /\ t[n] = m
          /\ \A i \in DOMAIN s : t[i] = s[i] /\ i < n /\ i \in Int
      BY <2>2
    <3>4. /\ \A i \in DOMAIN s : s[i].arquivo = m.arquivo => s[i].tipo = "upload" /\ m.tipo = "delete"
          /\ m.tipo = "delete" => \E i \in DOMAIN s : s[i].arquivo = m.arquivo
      BY <2>3, <2>4
    <3>5. CASE p = q
      <4>0. n \in Int
        BY <2>2, DominioDe
      <4>1. j \in DOMAIN t
        BY <3>5
      <4> HIDE DEF s, t, n
      <4>2. CASE j = n
        <5>1. t[j] = m /\ \A i \in DOMAIN t : i < j => i \in DOMAIN s /\ t[i] = s[i]
          BY <3>3, <4>0, <4>2
        <5>2. \A i \in DOMAIN s : i \in DOMAIN t /\ i < j /\ t[i] = s[i]
          BY <3>3, <4>2
        <5>3. /\ t[j].tipo = "delete" => \E i \in DOMAIN t : i < j /\ t[i].arquivo = t[j].arquivo
              /\ \A i \in DOMAIN t : i < j /\ t[i].arquivo = t[j].arquivo =>
                    t[i].tipo = "upload" /\ t[j].tipo = "delete"
          BY <3>4, <5>1, <5>2
        <5> QED
          BY <3>5, <5>3 DEF t
      <4>3. CASE j # n
        <5>1. j \in DOMAIN s /\ t[j] = s[j] /\ \A i \in DOMAIN t : i < j => i \in DOMAIN s /\ t[i] = s[i]
          BY <3>3, <4>0, <4>1, <4>3
        <5>2. \A i \in DOMAIN s : i \in DOMAIN t /\ t[i] = s[i]
          BY <3>3
        <5>3. /\ t[j].tipo = "delete" => \E i \in DOMAIN t : i < j /\ t[i].arquivo = t[j].arquivo
              /\ \A i \in DOMAIN t : i < j /\ t[i].arquivo = t[j].arquivo =>
                    t[i].tipo = "upload" /\ t[j].tipo = "delete"
          BY <3>2, <5>1, <5>2
        <5> QED
          BY <3>5, <5>3 DEF t
      <4> QED
        BY <4>2, <4>3
    <3> QED
      BY <3>1, <3>5
  <2> QED
    BY <2>5 DEF Ordem
<1> QED
  BY <1>1, <1>2

-----------------------------------------------------------------------------
(* What was spent stays spent.                                             *)
LEMMA GastoPasso ==
  ASSUME IInv, [Next]_vars
  PROVE  \/ gastoConsulta' = gastoConsulta
         \/ \E t \in TiposDeGasto : \E n : PagaConsulta(t, n)
<1>1. ASSUME NEW p \in Particoes, HandlerConsulta(p) \/ GravaOffset(p)
      PROVE  gastoConsulta' = gastoConsulta
  BY <1>1 DEF HandlerConsulta, SaveRegistroMedia, BeginTx, DeleteRegistroMedia, CountRegistroByHash,
     PhotoExiste, RemovePhoto, ThumbnailExiste, RemoveThumbnail, Commit, Rollback, GravaOffset
<1>2. ASSUME NEW p \in Particoes, FalhaConsulta(p)
      PROVE  gastoConsulta' = gastoConsulta \/ \E t \in TiposDeGasto : \E n : PagaConsulta(t, n)
  BY <1>2 DEF FalhaConsulta, FalhaS3, StatementFalha, StatementRecusado, StatementCortado, TiposDeGasto
<1>3. Cancela \/ FimDaSessao \/ SigtermConsulta \/ ReiniciaConsulta =>
        gastoConsulta' = gastoConsulta \/ \E t \in TiposDeGasto : \E n : PagaConsulta(t, n)
  BY DEF Cancela, FimDaSessao, SigtermConsulta, ReiniciaConsulta, TiposDeGasto
<1>4. ~ConsultaNext => gastoConsulta' = gastoConsulta
  BY Anuncio DEF vars, consultaVars
<1> QED
  BY <1>1, <1>2, <1>3, <1>4 DEF ConsultaNext

(* As long as nothing has failed, no failure, cancellation or crash is a   *)
(* step, and the contents were distinct before.                            *)
LEMMA Quieto ==
  ASSUME IInv, Viva, [Next]_vars, SemFalhas', NEW k \in TiposDeGasto, NEW m
  PROVE  SemFalhas /\ ~PagaConsulta(k, m)
<1>1. gastoConsulta \in [TiposDeGasto -> Nat]
  BY DEF IInv, TypeOK, ConsultaTypeOK, TiposDeGasto
<1>2. \A t \in TiposDeGasto : \A n : ~PagaConsulta(t, n)
  <2> SUFFICES ASSUME NEW t \in TiposDeGasto, NEW n, PagaConsulta(t, n) PROVE FALSE
    OBVIOUS
  <2>1. gastoConsulta' = [gastoConsulta EXCEPT ![t] = gastoConsulta[t] + 1]
    BY DEF PagaConsulta
  <2>2. gastoConsulta'[t] = gastoConsulta[t] + 1 /\ t \in DOMAIN gastoConsulta' /\ gastoConsulta[t] \in Nat
    BY <1>1, <2>1
  <2>3. gastoConsulta'[t] = 0
    BY <2>2 DEF SemFalhas
  <2> QED
    BY <2>2, <2>3
<1>3. gastoConsulta' = gastoConsulta
  BY <1>2, GastoPasso DEF PagaConsulta
<1> QED
  BY <1>2, <1>3 DEF SemFalhas

LEMMA SoHandlers ==
  ASSUME IInv, Viva, [Next]_vars, SemFalhas', ConsultaNext
  PROVE  \E p \in Particoes : HandlerConsulta(p) \/ GravaOffset(p)
<1>1. \A k \in TiposDeGasto : \A m : ~PagaConsulta(k, m)
  BY Quieto
<1>2. ASSUME NEW p \in Particoes PROVE ~FalhaConsulta(p)
  BY <1>1 DEF FalhaConsulta, FalhaS3, StatementFalha, StatementRecusado, StatementCortado, Viva,
     Aberta, TiposDeGasto
<1>3. ~Cancela /\ ~FimDaSessao /\ ~SigtermConsulta /\ ~ReiniciaConsulta
  BY <1>1 DEF Cancela, FimDaSessao, SigtermConsulta, ReiniciaConsulta, Viva, TiposDeGasto
<1> QED
  BY <1>2, <1>3 DEF ConsultaNext

LEMMA DistintosAntes ==
  ASSUME IInv, [Next]_vars, ConteudosDistintos'
  PROVE  ConteudosDistintos
<1>1. \A p \in Particoes : Range(media[p]) \subseteq Range(media'[p])
  <2>1. CASE ConsultaNext \/ UNCHANGED vars
    BY <2>1, MediaFica
  <2>2. CASE ~ConsultaNext /\ ~UNCHANGED vars
    <3>1. PICK m \in Eventos : media' = Publica(media, m)
      BY <2>2, Anuncio
    <3>2. /\ media \in [Particoes -> Seq(Eventos)]
          /\ media' = [media EXCEPT ![ParticaoDe[m.arquivo]] = Append(@, m)]
      BY <3>1 DEF Publica, IInv, TypeOK, MidiaTypeOK
    <3>3. ASSUME NEW p \in Particoes PROVE Range(media[p]) \subseteq Range(media'[p])
      <4>1. media[p] \in Seq(Eventos) /\ (media'[p] = media[p] \/ media'[p] = Append(media[p], m))
        BY <3>2
      <4>2. Range(Append(media[p], m)) = Range(media[p]) \cup {m}
        BY <3>1, <4>1, Anexa
      <4> QED
        BY <4>1, <4>2
    <3> QED
      BY <3>3
  <2> QED
    BY <2>1, <2>2
<1>2. \A p, q \in Particoes : \A e \in Range(media'[p]), d \in Range(media'[q]) :
        e.hash = d.hash => e.arquivo = d.arquivo
  BY DEF ConteudosDistintos, Range
<1> QED
  BY <1>1, <1>2 DEF ConteudosDistintos

-----------------------------------------------------------------------------
(* The objects.                                                            *)
LEMMA NoBalde ==
  ASSUME IInv, Ordem, NEW p \in Particoes, TemEvento(p), Evento(p).tipo = "delete",
         NEW objetos, NEW passos, Guardado(objetos, passos), passo[p] \notin passos
  PROVE  Evento(p).hash \in objetos
<1> DEFINE n == lido[p] + 1
<1>1. n \in DOMAIN media[p] /\ \A j \in DOMAIN media[p] : j \in Nat
  BY DominioDe DEF TemEvento
<1>2. ASSUME NEW j \in DOMAIN media[p], media[p][j].tipo = "delete", ColhidoAte(p, j, passos),
             media[p][j].arquivo = media[p][n].arquivo
      PROVE  FALSE
  <2>1. j <= lido[p]
    BY <1>2 DEF ColhidoAte
  <2>2. j < n
    BY <1>1, <2>1, DominioDe
  <2>3. media[p][j].tipo = "upload"
    BY <1>1, <1>2, <2>2 DEF Ordem
  <2> QED
    BY <1>2, <2>3
<1> QED
  BY <1>1, <1>2 DEF Guardado, Evento

(* The object of the deletion at hand is removed, as nobody else's.        *)
LEMMA GuardadoRemove ==
  ASSUME IInv, ConteudosDistintos, NEW p \in Particoes, TemEvento(p), Evento(p).tipo = "delete",
         NEW objetos, NEW passos, Guardado(objetos, passos)
  PROVE  \A q \in Particoes : \A i \in DOMAIN media[q] :
           media[q][i].hash \in objetos \ {Evento(p).hash} \/
           \E j \in DOMAIN media[q] :
             /\ media[q][j].tipo = "delete"
             /\ ColhidoAte(q, j, passos) \/ (q = p /\ j = lido[p] + 1)
             /\ media[q][j].arquivo = media[q][i].arquivo
<1> DEFINE Coberto(q, i) ==
             \E j \in DOMAIN media[q] :
               /\ media[q][j].tipo = "delete"
               /\ ColhidoAte(q, j, passos) \/ (q = p /\ j = lido[p] + 1)
               /\ media[q][j].arquivo = media[q][i].arquivo
<1>1. ASSUME NEW q \in Particoes, NEW i \in DOMAIN media[q], media[q][i].hash = Evento(p).hash
      PROVE  Coberto(q, i)
  <2>1. media[q][i] \in Range(media[q]) /\ Evento(p) \in Range(media[p])
    BY NaMao DEF Range, IInv
  <2>2. media[q][i].arquivo = Evento(p).arquivo
    BY <1>1, <2>1 DEF ConteudosDistintos
  <2>3. p = q
    BY <2>1, <2>2 DEF IInv, Coerente
  <2>4. lido[p] + 1 \in DOMAIN media[p]
    BY DominioDe DEF TemEvento
  <2> QED
    BY <2>2, <2>3, <2>4 DEF Evento
<1>2. ASSUME NEW q \in Particoes, NEW i \in DOMAIN media[q], media[q][i].hash # Evento(p).hash
      PROVE  media[q][i].hash \in objetos \ {Evento(p).hash} \/ Coberto(q, i)
  <2>1. \/ media[q][i].hash \in objetos
        \/ \E j \in DOMAIN media[q] : /\ media[q][j].tipo = "delete" /\ ColhidoAte(q, j, passos)
                                     /\ media[q][j].arquivo = media[q][i].arquivo
    BY DEF Guardado
  <2> QED
    BY <1>2, <2>1
<1> QED
  BY <1>1, <1>2

-----------------------------------------------------------------------------
(* The rows.  The handler of the file's partition is done with an event.   *)
LEMMA Avanca ==
  ASSUME IInv, Ordem, NEW p \in Particoes, TemEvento(p), media' = media, Marca(p),
         NEW g \in Arquivos, ParticaoDe[g] = p
  PROVE  /\ ~Excluindo(g)'
         /\ g = Evento(p).arquivo => Aplicado(g)' /\ (Retirado(g)' <=> Evento(p).tipo = "delete")
         /\ g # Evento(p).arquivo => (Aplicado(g)' <=> Aplicado(g)) /\ (Retirado(g)' <=> Retirado(g))
<1> DEFINE n == lido[p] + 1
<1>1. lido'[p] = n /\ passo'[p] = "livre" /\ lido[p] \in Nat
  BY DominioDe DEF Marca, IInv, TypeOK, ConsultaTypeOK
<1>2. /\ Aplicado(g)' <=> \E i \in 1..n : media[p][i].arquivo = g
      /\ Retirado(g)' <=> \E i \in 1..n : media[p][i].arquivo = g /\ media[p][i].tipo = "delete"
      /\ Aplicado(g) <=> \E i \in 1..lido[p] : media[p][i].arquivo = g
      /\ Retirado(g) <=> \E i \in 1..lido[p] : media[p][i].arquivo = g /\ media[p][i].tipo = "delete"
  BY <1>1 DEF Aplicado, Retirado
<1>3. \A i : i \in 1..n <=> i \in 1..lido[p] \/ i = n
  BY <1>1
<1>4. ~Excluindo(g)'
  BY <1>1 DEF Excluindo
<1>5. n \in DOMAIN media[p] /\ \A i \in 1..lido[p] : i \in DOMAIN media[p] /\ i < n
  BY DominioDe DEF TemEvento
<1>6. \A i \in 1..lido[p] : media[p][i].arquivo = media[p][n].arquivo => media[p][i].tipo = "upload"
  BY <1>5 DEF Ordem
<1> HIDE DEF n
<1>7. g = media[p][n].arquivo => Aplicado(g)' /\ (Retirado(g)' <=> media[p][n].tipo = "delete")
  BY <1>2, <1>3, <1>6
<1>8. g # media[p][n].arquivo => (Aplicado(g)' <=> Aplicado(g)) /\ (Retirado(g)' <=> Retirado(g))
  BY <1>2, <1>3
<1> QED
  BY <1>4, <1>7, <1>8 DEF Evento, n

LEMMA Permanece ==
  ASSUME IInv, media' = media, NEW p \in Particoes, lido'[p] = lido[p],
         NEW g \in Arquivos, ParticaoDe[g] = p
  PROVE  /\ (Aplicado(g)' <=> Aplicado(g)) /\ (Retirado(g)' <=> Retirado(g))
         /\ Excluindo(g)' <=> passo'[p] \notin {"livre", "delete"} /\ Evento(p).arquivo = g
BY DEF Aplicado, Retirado, Excluindo, Evento

LEMMA TabelaDoHandler ==
  ASSUME IInv, Ordem, Bem, media' = media, NEW p \in Particoes, HandlerConsulta(p)
  PROVE  TabelaCerta'
<1> DEFINE f == Evento(p).arquivo
           Certo(g) == visao'[g] # Nenhum <=> Aplicado(g)' /\ ~Retirado(g)' /\ ~Excluindo(g)'
           Certa(g) == visao[g] # Nenhum <=> Aplicado(g) /\ ~Retirado(g) /\ ~Excluindo(g)
<1>1. TemEvento(p) /\ f \in Arquivos /\ ParticaoDe[f] = p /\ ~Rollback(p)
  <2>1. TemEvento(p)
    BY DEF HandlerConsulta, SaveRegistroMedia, BeginTx, DeleteRegistroMedia, CountRegistroByHash,
       PhotoExiste, RemovePhoto, ThumbnailExiste, RemoveThumbnail, Commit, Rollback, Recebe, No
  <2>2. Evento(p) \in Eventos /\ Evento(p) \in Range(media[p])
    BY <2>1, NaMao DEF IInv
  <2>3. ~Rollback(p)
    BY DEF Bem, Rollback, No
  <2> QED
    BY <2>1, <2>2, <2>3 DEF IInv, Coerente, Eventos
<1>2. \A g \in Arquivos : Certa(g)
  BY DEF Bem, TabelaCerta
<1>3. passo \in [Particoes -> PassosConsulta] /\ lido \in [Particoes -> Nat]
  BY DEF IInv, TypeOK, ConsultaTypeOK
<1>4. \A g \in Arquivos : g # f => visao'[g] = visao[g]
  <2>1. CASE SaveRegistroMedia(p)
    BY <1>1, <2>1, ComLinhaServe DEF SaveRegistroMedia, Escreve
  <2>2. CASE DeleteRegistroMedia(p)
    <3>1. Evento(p).tipo = "delete" /\ visao' = SemLinha(Evento(p))
      BY <1>1, <2>2 DEF DeleteRegistroMedia, Escreve, No, IInv, EmExclusao
    <3> QED
      BY <1>1, <3>1, SemLinhaServe
  <2>3. CASE ~SaveRegistroMedia(p) /\ ~DeleteRegistroMedia(p)
    BY <1>1, <2>3 DEF HandlerConsulta, BeginTx, CountRegistroByHash, PhotoExiste, RemovePhoto,
       ThumbnailExiste, RemoveThumbnail, Commit, Encerra, bancoVars
  <2> QED
    BY <2>1, <2>2, <2>3
<1>5. \A q \in Particoes : q # p => passo'[q] = passo[q] /\ lido'[q] = lido[q]
  <2>1. Marca(p) \/ (\E ps : Segue(p, ps)) \/ (\E k, ps : Anota(p, k, ps))
    BY DEF HandlerConsulta, SaveRegistroMedia, BeginTx, DeleteRegistroMedia,
       CountRegistroByHash, PhotoExiste, RemovePhoto, ThumbnailExiste, RemoveThumbnail, Commit, Rollback
  <2> QED
    BY <2>1, DesisteDosOutros
<1>6. ASSUME NEW g \in Arquivos, ParticaoDe[g] # p PROVE Certo(g)
  <2>1. ParticaoDe[g] \in Particoes /\ visao'[g] = visao[g]
    BY <1>1, <1>4, <1>6, ParticaoAssumption
  <2>2. passo'[ParticaoDe[g]] = passo[ParticaoDe[g]] /\ lido'[ParticaoDe[g]] = lido[ParticaoDe[g]]
    BY <1>5, <1>6, <2>1
  <2>3. /\ (Aplicado(g)' <=> Aplicado(g)) /\ (Retirado(g)' <=> Retirado(g))
        /\ Excluindo(g)' <=> Excluindo(g)
    BY <2>1, <2>2, Permanece DEF Excluindo
  <2> QED
    BY <1>2, <2>1, <2>3
<1>7. ASSUME NEW g \in Arquivos, ParticaoDe[g] = p, SaveRegistroMedia(p) PROVE Certo(g)
  <2>1. Marca(p) /\ Evento(p).tipo = "upload" /\ passo[p] = "livre" /\ visao' = ComLinha(Evento(p))
    BY <1>7 DEF SaveRegistroMedia, Recebe, No, Escreve
  <2>2. visao'[f] # Nenhum
    <3>1. [usuario |-> Evento(p).usuario, hash |-> Evento(p).hash] \in Linhas
      BY <1>1, NaMao DEF IInv, Eventos, Linhas
    <3> QED
      BY <1>1, <2>1, <3>1, ComLinhaServe, LinhaAssumption
  <2>3. CASE g = f
    BY <1>1, <1>7, <2>1, <2>2, <2>3, Avanca
  <2>4. CASE g # f
    <3>1. ~Excluindo(g)
      BY <1>7, <2>1 DEF Excluindo
    <3> QED
      BY <1>1, <1>2, <1>4, <1>7, <2>1, <2>4, <3>1, Avanca
  <2> QED
    BY <2>3, <2>4
<1>8. ASSUME NEW g \in Arquivos, ParticaoDe[g] = p, Commit(p) PROVE Certo(g)
  <2>1. Marca(p) /\ Evento(p).tipo = "delete" /\ passo[p] = "commit" /\ visao' = visao
    BY <1>1, <1>8 DEF Commit, No, Encerra, IInv, EmExclusao
  <2>2. CASE g = f
    <3>1. visao[g] = Nenhum
      BY <1>1, <1>2, <2>1, <2>2 DEF Excluindo
    <3> QED
      BY <1>1, <1>8, <2>1, <2>2, <3>1, Avanca
  <2>3. CASE g # f
    <3>1. ~Excluindo(g)
      BY <1>8, <2>3 DEF Excluindo
    <3> QED
      BY <1>1, <1>2, <1>4, <1>8, <2>1, <2>3, <3>1, Avanca
  <2> QED
    BY <2>2, <2>3
<1>9. ASSUME NEW g \in Arquivos, ParticaoDe[g] = p, DeleteRegistroMedia(p) PROVE Certo(g)
  <2>1. Evento(p).tipo = "delete" /\ passo[p] = "delete" /\ visao' = SemLinha(Evento(p))
        /\ lido' = lido /\ passo'[p] = "count"
    BY <1>1, <1>3, <1>9 DEF DeleteRegistroMedia, No, Segue, Escreve, IInv, EmExclusao
  <2>2. visao'[f] = Nenhum
    BY <1>1, <2>1, SemLinhaServe
  <2>3. Excluindo(g)' <=> f = g
    BY <1>9, <2>1, Permanece
  <2>4. CASE g = f
    BY <2>2, <2>3, <2>4
  <2>5. CASE g # f
    <3>1. ~Excluindo(g)
      BY <1>9, <2>1 DEF Excluindo
    <3> QED
      BY <1>2, <1>4, <1>9, <2>1, <2>3, <2>5, <3>1, Permanece
  <2> QED
    BY <2>4, <2>5
<1>10. ASSUME NEW g \in Arquivos, ParticaoDe[g] = p, ~SaveRegistroMedia(p), ~Commit(p),
              ~DeleteRegistroMedia(p)
       PROVE  Certo(g)
  <2>1. visao' = visao /\ lido' = lido
    BY <1>1, <1>10 DEF HandlerConsulta, BeginTx, CountRegistroByHash, PhotoExiste, RemovePhoto,
       ThumbnailExiste, RemoveThumbnail, Segue, Anota, bancoVars
  <2>2. passo'[p] \notin {"livre", "delete"} <=> passo[p] \notin {"livre", "delete"}
    BY <1>1, <1>3, <1>10 DEF HandlerConsulta, BeginTx, CountRegistroByHash, PhotoExiste, RemovePhoto,
       ThumbnailExiste, RemoveThumbnail, Segue, Anota, Depois, Recebe, No
  <2>3. Excluindo(g)' <=> Excluindo(g)
    BY <1>10, <2>1, <2>2, Permanece DEF Excluindo
  <2> QED
    BY <1>2, <1>10, <2>1, <2>3, Permanece
<1>11. \A g \in Arquivos : Certo(g)
  BY <1>6, <1>7, <1>8, <1>9, <1>10
<1> QED
  BY <1>11 DEF TabelaCerta

-----------------------------------------------------------------------------
(* Nothing fails and every object is where the handler looks for it: it    *)
(* goes on towards its COMMIT.                                             *)
LEMMA SemErro ==
  ASSUME IInv, Ordem, Bem, NEW p \in Particoes, HandlerConsulta(p)
  PROVE  /\ TemEvento(p) /\ media' = media
         /\ Marca(p) \/ \E ps \in PassosConsulta \ {"rollback", "livre"} : Segue(p, ps)
         /\ PhotoExiste(p) => Segue(p, "rmphoto")
         /\ ThumbnailExiste(p) => Segue(p, "rmthumbnail")
         /\ RemoveThumbnail(p) => Segue(p, "commit")
<1>1. TemEvento(p) /\ media' = media
  BY DEF HandlerConsulta, SaveRegistroMedia, BeginTx, DeleteRegistroMedia, CountRegistroByHash,
     PhotoExiste, RemovePhoto, ThumbnailExiste, RemoveThumbnail, Commit, Rollback, Recebe, No, midiaVars
<1>2. erros[p] = {} /\ ~Rollback(p) /\ Depois(erros[p]) = "commit"
  BY DEF Bem, Rollback, No, Depois
<1>3. PhotoExiste(p) => Segue(p, "rmphoto")
  <2> SUFFICES ASSUME PhotoExiste(p) PROVE Evento(p).hash \in photos
    BY DEF PhotoExiste
  <2>1. passo[p] = "photo" /\ Evento(p).tipo = "delete"
    BY <1>1 DEF PhotoExiste, No, IInv, EmExclusao
  <2> QED
    BY <1>1, <2>1, NoBalde DEF Bem, AposFoto
<1>4. ThumbnailExiste(p) => Segue(p, "rmthumbnail")
  <2> SUFFICES ASSUME ThumbnailExiste(p) PROVE Evento(p).hash \in thumbnails
    BY DEF ThumbnailExiste
  <2>1. passo[p] = "thumbnail" /\ Evento(p).tipo = "delete"
    BY <1>1 DEF ThumbnailExiste, No, IInv, EmExclusao
  <2> QED
    BY <1>1, <2>1, NoBalde DEF Bem, AposTudo
<1>5. RemoveThumbnail(p) => Segue(p, "commit")
  BY <1>2 DEF RemoveThumbnail
<1>6. Marca(p) \/ \E ps \in PassosConsulta \ {"rollback", "livre"} : Segue(p, ps)
  <2>1. SaveRegistroMedia(p) \/ Commit(p) => Marca(p)
    BY DEF SaveRegistroMedia, Commit
  <2>2. BeginTx(p) => Segue(p, "delete")
    BY DEF BeginTx
  <2>3. DeleteRegistroMedia(p) => Segue(p, "count")
    BY DEF DeleteRegistroMedia
  <2>4. CountRegistroByHash(p) => Segue(p, "photo") \/ Segue(p, "commit")
    BY DEF CountRegistroByHash
  <2>5. RemovePhoto(p) => Segue(p, "thumbnail")
    BY DEF RemovePhoto
  <2> QED
    BY <1>2, <1>3, <1>4, <1>5, <2>1, <2>2, <2>3, <2>4, <2>5 DEF HandlerConsulta, PassosConsulta
<1> QED
  BY <1>1, <1>3, <1>4, <1>5, <1>6

(* The buckets.                                                            *)
LEMMA BaldesDoHandler ==
  ASSUME IInv, Ordem, Bem, ConteudosDistintos, NEW p \in Particoes, HandlerConsulta(p)
  PROVE  Guardado(photos, AposFoto)' /\ Guardado(thumbnails, AposTudo)'
<1>1. /\ TemEvento(p) /\ media' = media
      /\ Marca(p) \/ \E ps \in PassosConsulta \ {"rollback", "livre"} : Segue(p, ps)
  BY SemErro
<1>2. passo \in [Particoes -> PassosConsulta] /\ lido \in [Particoes -> Nat]
  BY DEF IInv, TypeOK, ConsultaTypeOK
<1>3. \A q \in Particoes : q # p => passo'[q] = passo[q] /\ lido'[q] = lido[q]
  BY <1>1, DesisteDosOutros
<1>4. \/ lido'[p] = lido[p] + 1
      \/ lido'[p] = lido[p] /\ Segue(p, passo'[p])
  BY <1>1, <1>2 DEF Marca, Segue
<1>5. /\ lido'[p] = lido[p] /\ passo[p] \in AposFoto => passo'[p] \in AposFoto
      /\ lido'[p] = lido[p] /\ passo[p] \in AposTudo => passo'[p] \in AposTudo
  <2> SUFFICES ASSUME lido'[p] = lido[p], passo[p] \in AposFoto
               PROVE  passo'[p] \in AposFoto /\ passo[p] # "commit"
    BY DEF AposTudo, AposFoto
  <2>1. ~Marca(p)
    BY <1>2 DEF Marca
  <2>2. passo[p] # "commit" /\ (ThumbnailExiste(p) \/ RemoveThumbnail(p))
    BY <2>1 DEF HandlerConsulta, SaveRegistroMedia, BeginTx, DeleteRegistroMedia, CountRegistroByHash,
       PhotoExiste, RemovePhoto, Commit, Rollback, ThumbnailExiste, RemoveThumbnail, Recebe, No, AposFoto
  <2>3. Segue(p, "rmthumbnail") \/ Segue(p, "commit")
    BY <2>2, SemErro
  <2> QED
    BY <1>2, <2>2, <2>3 DEF Segue, AposFoto
<1>6. ASSUME NEW q \in Particoes, NEW j \in Int
      PROVE  /\ ColhidoAte(q, j, AposFoto) => ColhidoAte(q, j, AposFoto)'
             /\ ColhidoAte(q, j, AposTudo) => ColhidoAte(q, j, AposTudo)'
  <2>1. CASE q # p
    BY <1>3, <2>1 DEF ColhidoAte
  <2>2. CASE q = p
    <3>1. lido[p] \in Int
      BY <1>2
    <3>2. CASE lido'[p] = lido[p] + 1
      BY <2>2, <3>1, <3>2 DEF ColhidoAte
    <3>3. CASE lido'[p] = lido[p]
      BY <1>5, <2>2, <3>3 DEF ColhidoAte
    <3> QED
      BY <1>4, <3>2, <3>3
  <2> QED
    BY <2>1, <2>2
<1>7. \A q \in Particoes : \A j \in DOMAIN media[q] : j \in Int
  BY DominioDe
<1> DEFINE Colhido(q, i, ps) ==
             \E j \in DOMAIN media[q] :
               /\ media[q][j].tipo = "delete" /\ ColhidoAte(q, j, ps)
               /\ media[q][j].arquivo = media[q][i].arquivo
           Removido(q, i, ps) ==
             \E j \in DOMAIN media[q] :
               /\ media[q][j].tipo = "delete"
               /\ ColhidoAte(q, j, ps) \/ (q = p /\ j = lido[p] + 1)
               /\ media[q][j].arquivo = media[q][i].arquivo
           ColhidoDepois(q, i, ps) ==
             \E j \in DOMAIN media'[q] :
               /\ media'[q][j].tipo = "delete"
               /\ j <= lido'[q] \/ (j = lido'[q] + 1 /\ passo'[q] \in ps)
               /\ media'[q][j].arquivo = media'[q][i].arquivo
<1>8. ASSUME NEW q \in Particoes, NEW i
      PROVE  /\ Colhido(q, i, AposFoto) => ColhidoDepois(q, i, AposFoto)
             /\ Colhido(q, i, AposTudo) => ColhidoDepois(q, i, AposTudo)
  <2>1. \A j \in DOMAIN media[q] :
          /\ ColhidoAte(q, j, AposFoto) =>
               j <= lido'[q] \/ (j = lido'[q] + 1 /\ passo'[q] \in AposFoto)
          /\ ColhidoAte(q, j, AposTudo) =>
               j <= lido'[q] \/ (j = lido'[q] + 1 /\ passo'[q] \in AposTudo)
    BY <1>6, <1>7 DEF ColhidoAte
  <2> QED
    BY <1>1, <2>1
<1>9. /\ \A q \in Particoes : \A i \in DOMAIN media[q] :
           media[q][i].hash \in photos \/ Colhido(q, i, AposFoto)
      /\ \A q \in Particoes : \A i \in DOMAIN media[q] :
           media[q][i].hash \in thumbnails \/ Colhido(q, i, AposTudo)
  BY DEF Bem, Guardado
<1>10. /\ \A q \in Particoes : \A i \in DOMAIN media[q] :
            media[q][i].hash \in photos' \/ ColhidoDepois(q, i, AposFoto)
       /\ \A q \in Particoes : \A i \in DOMAIN media[q] :
            media[q][i].hash \in thumbnails' \/ ColhidoDepois(q, i, AposTudo)
  <2>1. CASE photos' = photos /\ thumbnails' = thumbnails
    BY <1>8, <1>9, <2>1
  <2>2. CASE RemovePhoto(p)
    <3>1. /\ photos' = photos \ {Evento(p).hash} /\ thumbnails' = thumbnails
          /\ Evento(p).tipo = "delete" /\ lido'[p] = lido[p] /\ passo'[p] = "thumbnail"
      BY <1>1, <1>2, <2>2 DEF RemovePhoto, No, Segue, IInv, EmExclusao
    <3>2. ASSUME NEW q \in Particoes, NEW i \in DOMAIN media[q]
          PROVE  media[q][i].hash \in photos' \/ ColhidoDepois(q, i, AposFoto)
      <4>1. Guardado(photos, AposFoto)
        BY DEF Bem
      <4>2. media[q][i].hash \in photos' \/ Removido(q, i, AposFoto)
        BY <1>1, <3>1, <4>1, GuardadoRemove
      <4>3. q = p => lido[p] + 1 <= lido'[q] \/ (lido[p] + 1 = lido'[q] + 1 /\ passo'[q] \in AposFoto)
        BY <3>1 DEF AposFoto
      <4>4. Removido(q, i, AposFoto) => ColhidoDepois(q, i, AposFoto)
        BY <1>1, <1>6, <1>7, <4>3 DEF ColhidoAte
      <4> QED
        BY <4>2, <4>4
    <3> QED
      BY <1>8, <1>9, <3>1, <3>2
  <2>3. CASE RemoveThumbnail(p)
    <3>1. /\ thumbnails' = thumbnails \ {Evento(p).hash} /\ photos' = photos
          /\ Evento(p).tipo = "delete" /\ lido'[p] = lido[p] /\ passo'[p] = "commit"
      <4>1. /\ thumbnails' = thumbnails \ {Evento(p).hash} /\ photos' = photos /\ lido' = lido
            /\ passo[p] = "rmthumbnail" /\ passo' = [passo EXCEPT ![p] = Depois(erros[p])]
        BY <2>3 DEF RemoveThumbnail, No, Segue
      <4>2. erros[p] = {} /\ passo \in [Particoes -> PassosConsulta]
        BY DEF Bem, IInv, TypeOK, ConsultaTypeOK
      <4>3. passo'[p] = "commit"
        BY <4>1, <4>2 DEF Depois
      <4>4. Evento(p).tipo = "delete"
        BY <4>1 DEF IInv, EmExclusao
      <4> QED
        BY <4>1, <4>3, <4>4
    <3>2. ASSUME NEW q \in Particoes, NEW i \in DOMAIN media[q]
          PROVE  media[q][i].hash \in thumbnails' \/ ColhidoDepois(q, i, AposTudo)
      <4>1. Guardado(thumbnails, AposTudo)
        BY DEF Bem
      <4>2. media[q][i].hash \in thumbnails' \/ Removido(q, i, AposTudo)
        BY <1>1, <3>1, <4>1, GuardadoRemove
      <4>3. q = p => lido[p] + 1 <= lido'[q] \/ (lido[p] + 1 = lido'[q] + 1 /\ passo'[q] \in AposTudo)
        BY <3>1 DEF AposTudo
      <4>4. Removido(q, i, AposTudo) => ColhidoDepois(q, i, AposTudo)
        BY <1>1, <1>6, <1>7, <4>3 DEF ColhidoAte
      <4> QED
        BY <4>2, <4>4
    <3> QED
      BY <1>8, <1>9, <3>1, <3>2
  <2>4. ~RemovePhoto(p) /\ ~RemoveThumbnail(p) => photos' = photos /\ thumbnails' = thumbnails
    BY DEF HandlerConsulta, SaveRegistroMedia, BeginTx, DeleteRegistroMedia, CountRegistroByHash,
       PhotoExiste, ThumbnailExiste, Commit, Rollback, midiaVars
  <2> QED
    BY <2>1, <2>2, <2>3, <2>4
<1> HIDE DEF Colhido, Removido
<1>11. /\ \A q \in Particoes : \A i \in DOMAIN media'[q] :
            media'[q][i].hash \in photos' \/ ColhidoDepois(q, i, AposFoto)
       /\ \A q \in Particoes : \A i \in DOMAIN media'[q] :
            media'[q][i].hash \in thumbnails' \/ ColhidoDepois(q, i, AposTudo)
  BY <1>1, <1>10
<1> QED
  BY <1>11 DEF Guardado, ColhidoAte, AposFoto, AposTudo

LEMMA BemDoHandler ==
  ASSUME IInv, Ordem, Bem, ConteudosDistintos, NEW p \in Particoes, HandlerConsulta(p)
  PROVE  Bem'
<1>1. /\ TemEvento(p) /\ media' = media
      /\ Marca(p) \/ \E ps \in PassosConsulta \ {"rollback", "livre"} : Segue(p, ps)
  BY SemErro
<1>2. /\ passo \in [Particoes -> PassosConsulta] /\ lido \in [Particoes -> Nat]
      /\ erros \in [Particoes -> SUBSET {"ausente", "falha"}]
  BY DEF IInv, TypeOK, ConsultaTypeOK
<1>3. \A q \in Particoes : q # p => passo'[q] = passo[q] /\ lido'[q] = lido[q]
  BY <1>1, DesisteDosOutros
<1>4. Viva'
  BY DEF Bem, Viva, HandlerConsulta, SaveRegistroMedia, BeginTx, DeleteRegistroMedia, CountRegistroByHash,
     PhotoExiste, RemovePhoto, ThumbnailExiste, RemoveThumbnail, Commit, Rollback, Escreve, Encerra,
     bancoVars
<1>5. transacao' = "aberta" => \E q \in Particoes : passo'[q] # "livre"
  <2>1. CASE Marca(p)
    <3>1. SaveRegistroMedia(p) \/ Commit(p) \/ Rollback(p)
      <4>1. lido'[p] # lido[p]
        BY <1>2, <2>1 DEF Marca
      <4> QED
        BY <4>1 DEF HandlerConsulta, BeginTx, DeleteRegistroMedia, CountRegistroByHash, PhotoExiste,
           RemovePhoto, ThumbnailExiste, RemoveThumbnail, Segue, Anota
    <3>2. CASE SaveRegistroMedia(p)
      <4>1. transacao' = transacao /\ passo[p] = "livre"
        BY <3>2 DEF SaveRegistroMedia, Escreve, Recebe, No
      <4> QED
        BY <1>3, <4>1 DEF Bem
    <3>3. CASE Commit(p) \/ Rollback(p)
      BY <3>3 DEF Commit, Rollback, Encerra
    <3> QED
      BY <3>1, <3>2, <3>3
  <2>2. CASE \E ps \in PassosConsulta \ {"rollback", "livre"} : Segue(p, ps)
    BY <1>2, <2>2 DEF Segue
  <2> QED
    BY <1>1, <2>1, <2>2
<1>6. ASSUME NEW q \in Particoes
      PROVE  lido'[q] <= Len(media'[q]) /\ passo'[q] # "rollback" /\ erros'[q] = {}
  <2>1. lido[q] <= Len(media[q]) /\ passo[q] # "rollback" /\ erros[q] = {} /\ Len(media[q]) \in Nat
        /\ lido[q] \in Nat
    BY DominioDe DEF Bem
  <2>2. CASE Marca(p)
    <3>1. /\ lido' = [lido EXCEPT ![p] = lido[p] + 1] /\ passo' = [passo EXCEPT ![p] = "livre"]
          /\ erros' = [erros EXCEPT ![p] = {}] /\ lido[p] < Len(media[p])
      BY <1>1, <2>2 DEF Marca, TemEvento
    <3>2. lido'[q] = (IF q = p THEN lido[q] + 1 ELSE lido[q]) /\ passo'[q] \in {passo[q], "livre"}
          /\ erros'[q] \in {erros[q], {}}
      BY <1>2, <3>1
    <3>3. lido'[q] <= Len(media[q])
      BY <2>1, <3>1, <3>2
    <3> QED
      BY <1>1, <2>1, <3>2, <3>3
  <2>3. ASSUME NEW ps \in PassosConsulta \ {"rollback", "livre"}, Segue(p, ps)
        PROVE  lido'[q] <= Len(media'[q]) /\ passo'[q] # "rollback" /\ erros'[q] = {}
    <3>1. lido' = lido /\ erros' = erros /\ passo' = [passo EXCEPT ![p] = ps]
      BY <2>3 DEF Segue
    <3>2. passo'[q] \in {passo[q], ps}
      BY <1>2, <3>1
    <3> QED
      BY <1>1, <2>1, <3>1, <3>2
  <2> QED
    BY <1>1, <2>2, <2>3
<1>7. Guardado(photos, AposFoto)' /\ Guardado(thumbnails, AposTudo)' /\ TabelaCerta'
  BY <1>1, BaldesDoHandler, TabelaDoHandler
<1> QED
  BY <1>4, <1>5, <1>6, <1>7 DEF Bem

-----------------------------------------------------------------------------
(* The catalogue tells of one more event, not read yet.                    *)
LEMMA BemComAnuncio ==
  ASSUME IInv, Ordem, Bem, UNCHANGED consultaVars, NEW m \in Eventos, media' = Publica(media, m),
         \/ /\ m.tipo = "upload" /\ Cat!EventosDe(m.arquivo) = {}
            /\ photos' = photos \cup {m.hash} /\ thumbnails' = thumbnails \cup {m.hash}
         \/ \E i \in DOMAIN media[ParticaoDe[m.arquivo]] :
              /\ Cat!EventosDe(m.arquivo) = {i}
              /\ m = [media[ParticaoDe[m.arquivo]][i] EXCEPT !.tipo = "delete"]
              /\ photos' = photos /\ thumbnails' = thumbnails
  PROVE  Bem'
<1>q. PICK q : q = ParticaoDe[m.arquivo]
  OBVIOUS
<1>n. PICK n : n = Len(media[q]) + 1
  OBVIOUS
<1>1. /\ q \in Particoes /\ \A p \in Particoes : p # q => media'[p] = media[p]
      /\ DOMAIN media'[q] = DOMAIN media[q] \cup {n}
      /\ Len(media'[q]) = Len(media[q]) + 1 /\ media'[q][n] = m
      /\ \A i \in DOMAIN media[q] : media'[q][i] = media[q][i]
  <2> DEFINE r == ParticaoDe[m.arquivo]
  <2>1. /\ r \in Particoes /\ \A p \in Particoes : p # r => media'[p] = media[p]
        /\ DOMAIN media'[r] = DOMAIN media[r] \cup {Len(media[r]) + 1}
        /\ Len(media'[r]) = Len(media[r]) + 1 /\ media'[r][Len(media[r]) + 1] = m
        /\ \A i \in DOMAIN media[r] : media'[r][i] = media[r][i]
    BY AnexaDominio, Zenon
  <2>2. q = r
    BY <1>q
  <2> HIDE DEF r
  <2> QED
    BY <1>n, <2>1, <2>2, Zenon
<1>2. \A p \in Particoes : DOMAIN media[p] = 1..Len(media[p]) /\ Len(media[p]) \in Nat /\ lido[p] \in Nat
  BY DominioDe
<1>3. ASSUME NEW p \in Particoes
      PROVE  /\ DOMAIN media[p] \subseteq DOMAIN media'[p] /\ lido[p] <= Len(media'[p])
             /\ \A i \in DOMAIN media[p] : media'[p][i] = media[p][i]
             /\ \A i \in 1..lido[p] : media'[p][i] = media[p][i]
  <2>1. /\ DOMAIN media[p] \subseteq DOMAIN media'[p]
        /\ \A i \in DOMAIN media[p] : media'[p][i] = media[p][i]
    BY <1>1
  <2>2. lido[p] <= Len(media[p]) /\ Len(media[p]) <= Len(media'[p])
    <3>1. Len(media[p]) \in Nat /\ Len(media'[p]) \in {Len(media[p]), Len(media[p]) + 1}
      BY <1>1, <1>2
    <3> QED
      BY <3>1 DEF Bem
  <2>3. \A i \in 1..lido[p] : i \in DOMAIN media[p]
    BY <1>2, <2>2
  <2>4. lido[p] <= Len(media'[p])
    <3>1. lido[p] \in Nat /\ Len(media[p]) \in Nat /\ Len(media'[p]) \in {Len(media[p]), Len(media[p]) + 1}
      BY <1>1, <1>2
    <3> QED
      BY <2>2, <3>1
  <2> QED
    BY <2>1, <2>3, <2>4
<1>4. TabelaCerta'
  <2> SUFFICES ASSUME NEW g \in Arquivos
               PROVE  visao[g] # Nenhum <=> Aplicado(g)' /\ ~Retirado(g)' /\ ~Excluindo(g)'
    BY DEF TabelaCerta, consultaVars
  <2>1. ParticaoDe[g] \in Particoes
    BY ParticaoAssumption
  <2>2. (Aplicado(g)' <=> Aplicado(g)) /\ (Retirado(g)' <=> Retirado(g))
    BY <1>3, <2>1 DEF Aplicado, Retirado, consultaVars
  <2>3. Excluindo(g)' <=> Excluindo(g)
    <3>1. CASE passo[ParticaoDe[g]] = "livre"
      BY <3>1 DEF Excluindo, consultaVars
    <3>2. CASE passo[ParticaoDe[g]] # "livre"
      <4>1. lido[ParticaoDe[g]] + 1 \in DOMAIN media[ParticaoDe[g]]
        BY <1>2, <2>1, <3>2 DEF IInv, EmExclusao, TemEvento
      <4>2. media'[ParticaoDe[g]][lido[ParticaoDe[g]] + 1] = media[ParticaoDe[g]][lido[ParticaoDe[g]] + 1]
        BY <1>3, <2>1, <4>1
      <4> QED
        BY <4>2 DEF Excluindo, Evento, consultaVars
    <3> QED
      BY <3>1, <3>2
  <2> QED
    BY <2>2, <2>3 DEF Bem, TabelaCerta
(* A deletion is announced of a content that is still there.               *)
<1>5. ASSUME NEW objetos, NEW passos, Guardado(objetos, passos),
             NEW i \in DOMAIN media[q], Cat!EventosDe(m.arquivo) = {i},
             m = [media[q][i] EXCEPT !.tipo = "delete"]
      PROVE  m.hash \in objetos
  <2>1. Cat!EventosDe(m.arquivo) = {i} /\ m = [media[q][i] EXCEPT !.tipo = "delete"]
    BY <1>5
  <2>2. media[q][i] \in Eventos
    <3>1. media[q] \in Seq(Eventos)
      BY <1>1 DEF IInv, TypeOK, MidiaTypeOK
    <3> QED
      BY <3>1, ElementOfSeq, LenProperties
  <2>3. m.hash = media[q][i].hash /\ m.arquivo = media[q][i].arquivo
    BY <2>1, <2>2 DEF Eventos
  <2>4. \A j \in DOMAIN media[q] : media[q][j].arquivo = m.arquivo => j = i
    BY <1>q, <2>1 DEF Cat!EventosDe
  <2>5. media[q][i].tipo # "delete"
    <3>1. media[q][i].tipo = "delete" =>
            \E k \in DOMAIN media[q] : k < i /\ media[q][k].arquivo = media[q][i].arquivo
      BY <1>1 DEF Ordem
    <3>2. i \in Nat
      BY <1>1, <1>2
    <3> QED
      <4>1. \A k : k < i => k # i
        BY <3>2
      <4> QED
        BY <2>3, <2>4, <3>1, <4>1
  <2>6. media[q][i].hash \in objetos \/
        \E j \in DOMAIN media[q] : media[q][j].tipo = "delete" /\ media[q][j].arquivo = media[q][i].arquivo
    <3>1. q \in Particoes /\ i \in DOMAIN media[q]
      BY <1>1, <1>5
    <3>2. \A p \in Particoes : \A k \in DOMAIN media[p] : media[p][k].hash \in objetos \/
            \E j \in DOMAIN media[p] : /\ media[p][j].tipo = "delete" /\ ColhidoAte(p, j, passos)
                                       /\ media[p][j].arquivo = media[p][k].arquivo
      BY <1>5 DEF Guardado
    <3> QED
      BY <3>1, <3>2, Zenon
  <2> QED
    BY <2>3, <2>4, <2>5, <2>6
<1> DEFINE NosBaldes(depois, passos) ==
             \A p \in Particoes : \A i \in DOMAIN media'[p] :
               media'[p][i].hash \in depois \/
               \E j \in DOMAIN media'[p] :
                 /\ media'[p][j].tipo = "delete" /\ ColhidoAte(p, j, passos)
                 /\ media'[p][j].arquivo = media'[p][i].arquivo
<1>6. ASSUME NEW objetos, NEW depois, NEW passos, Guardado(objetos, passos),
             objetos \subseteq depois, m.hash \in depois
      PROVE  NosBaldes(depois, passos)
  <2> SUFFICES ASSUME NEW p \in Particoes, NEW i \in DOMAIN media'[p], media'[p][i].hash \notin depois
               PROVE  \E j \in DOMAIN media'[p] :
                        /\ media'[p][j].tipo = "delete" /\ ColhidoAte(p, j, passos)
                        /\ media'[p][j].arquivo = media'[p][i].arquivo
    OBVIOUS
  <2>1. i \in DOMAIN media[p]
    BY <1>1, <1>6
  <2>2. media[p][i].hash \notin objetos
    BY <1>3, <1>6, <2>1
  <2>3. PICK j \in DOMAIN media[p] : /\ media[p][j].tipo = "delete" /\ ColhidoAte(p, j, passos)
                                     /\ media[p][j].arquivo = media[p][i].arquivo
    BY <1>6, <2>1, <2>2 DEF Guardado
  <2>4. j \in DOMAIN media'[p] /\ media'[p][j] = media[p][j] /\ media'[p][i] = media[p][i]
    BY <1>3, <2>1
  <2> QED
    BY <2>3, <2>4
<1>7. /\ photos \subseteq photos' /\ m.hash \in photos'
      /\ thumbnails \subseteq thumbnails' /\ m.hash \in thumbnails'
  <2>1. CASE photos' = photos \cup {m.hash} /\ thumbnails' = thumbnails \cup {m.hash}
    BY <2>1
  <2>2. ASSUME NEW i \in DOMAIN media[q], Cat!EventosDe(m.arquivo) = {i},
               m = [media[q][i] EXCEPT !.tipo = "delete"],
               photos' = photos, thumbnails' = thumbnails
        PROVE  /\ photos \subseteq photos' /\ m.hash \in photos'
               /\ thumbnails \subseteq thumbnails' /\ m.hash \in thumbnails'
    <3>1. Guardado(photos, AposFoto) /\ Guardado(thumbnails, AposTudo)
      BY DEF Bem
    <3>2. m.hash \in photos
      BY <1>5, <2>2, <3>1
    <3>3. m.hash \in thumbnails
      BY <1>5, <2>2, <3>1
    <3> QED
      BY <2>2, <3>2, <3>3
  <2> QED
    BY <1>q, <2>1, <2>2
<1>8. Guardado(photos, AposFoto)' /\ Guardado(thumbnails, AposTudo)'
  <2>1. NosBaldes(photos', AposFoto) /\ NosBaldes(thumbnails', AposTudo)
    <3>1. Guardado(photos, AposFoto) /\ Guardado(thumbnails, AposTudo)
      BY DEF Bem
    <3> HIDE DEF NosBaldes
    <3>2. NosBaldes(photos', AposFoto)
      BY <1>6, <1>7, <3>1
    <3>3. NosBaldes(thumbnails', AposTudo)
      BY <1>6, <1>7, <3>1
    <3> QED
      BY <3>2, <3>3
  <2> QED
    BY <2>1 DEF Guardado, ColhidoAte, AposFoto, AposTudo, consultaVars
<1>9. \A p \in Particoes : (lido[p] <= Len(media[p]))'
  BY <1>3 DEF consultaVars
<1> QED
  BY <1>4, <1>8, <1>9 DEF Bem, Viva, consultaVars

(* What Bem speaks of does not change.                                     *)
LEMMA BemFica ==
  ASSUME Bem,
         UNCHANGED <<media, photos, thumbnails, visao, transacao, conexao, lido, passo, erros, sessao>>
  PROVE  Bem'
<1>1. Viva' /\ (transacao = "aberta" => \E p \in Particoes : passo[p] # "livre")'
  BY DEF Bem, Viva
<1>2. \A p \in Particoes : (lido[p] <= Len(media[p]) /\ passo[p] # "rollback" /\ erros[p] = {})'
  BY DEF Bem
<1>3. Guardado(photos, AposFoto)' /\ Guardado(thumbnails, AposTudo)'
  BY DEF Bem, Guardado, ColhidoAte, AposFoto, AposTudo
<1>4. TabelaCerta'
  BY DEF Bem, TabelaCerta, Aplicado, Retirado, Excluindo, Evento
<1> QED
  BY <1>1, <1>2, <1>3, <1>4 DEF Bem

LEMMA SInvPasso ==
  ASSUME IInv, SInv, [Next]_vars
  PROVE  SInv'
<1>1. Ordem'
  BY OrdemPasso DEF SInv
<1>2. ASSUME SemFalhas', ConteudosDistintos' PROVE Bem'
  <2>1. Ordem /\ ConteudosDistintos
    BY <1>2, DistintosAntes DEF SInv
  <2>2. CASE ~Bem
    <3>1. ~SemFalhas
      BY <2>1, <2>2 DEF SInv
    <3>2. \A k \in TiposDeGasto : gastoConsulta[k] # 0 => gastoConsulta'[k] # 0
      <4>1. gastoConsulta \in [TiposDeGasto -> Nat]
        BY DEF IInv, TypeOK, ConsultaTypeOK, TiposDeGasto
      <4>2. gastoConsulta' = gastoConsulta
            \/ \E t \in TiposDeGasto : gastoConsulta' = [gastoConsulta EXCEPT ![t] = @ + 1]
        BY GastoPasso DEF PagaConsulta
      <4> QED
        BY <4>1, <4>2
    <3>3. DOMAIN gastoConsulta = TiposDeGasto /\ DOMAIN gastoConsulta' = TiposDeGasto
      <4>1. IInv'
        BY IInvPasso
      <4> QED
        BY <4>1 DEF IInv, TypeOK, ConsultaTypeOK, TiposDeGasto
    <3> QED
      BY <1>2, <3>1, <3>2, <3>3 DEF SemFalhas
  <2>3. CASE Bem /\ ConsultaNext
    <3>1. PICK p \in Particoes : HandlerConsulta(p) \/ GravaOffset(p)
      BY <1>2, <2>3, SoHandlers DEF Bem
    <3>2. CASE HandlerConsulta(p)
      BY <2>1, <2>3, <3>2, BemDoHandler
    <3>3. CASE GravaOffset(p)
      <4>1. UNCHANGED <<media, photos, thumbnails, visao, transacao, conexao, lido, passo, erros, sessao>>
        BY <3>3 DEF GravaOffset, midiaVars, bancoVars
      <4> QED
        BY <2>3, <4>1, BemFica
    <3> QED
      BY <3>1, <3>2, <3>3
  <2>4. CASE Bem /\ ~ConsultaNext /\ UNCHANGED vars
    <3>1. UNCHANGED <<media, photos, thumbnails, visao, transacao, conexao, lido, passo, erros, sessao>>
      BY <2>4 DEF vars, midiaVars, consultaVars
    <3> QED
      BY <2>4, <3>1, BemFica
  <2>5. CASE Bem /\ ~ConsultaNext /\ ~UNCHANGED vars
    <3>1. UNCHANGED consultaVars
      BY <2>5, Anuncio
    <3>2. PICK m \in Eventos :
              /\ media' = Publica(media, m)
              /\ \/ /\ m.tipo = "upload" /\ Cat!EventosDe(m.arquivo) = {}
                    /\ photos' = photos \cup {m.hash} /\ thumbnails' = thumbnails \cup {m.hash}
                 \/ \E i \in DOMAIN media[ParticaoDe[m.arquivo]] :
                      /\ Cat!EventosDe(m.arquivo) = {i}
                      /\ m = [media[ParticaoDe[m.arquivo]][i] EXCEPT !.tipo = "delete"]
                      /\ photos' = photos /\ thumbnails' = thumbnails
      BY <2>5, Anuncio
    <3> QED
      BY <2>1, <2>5, <3>1, <3>2, BemComAnuncio
  <2> QED
    BY <2>2, <2>3, <2>4, <2>5
<1> QED
  BY <1>1, <1>2 DEF SInv

-----------------------------------------------------------------------------
(* The row the events before n call for, without CHOOSE.                   *)
LEMMA QualLinha ==
  ASSUME IInv, Ordem, NEW f \in Arquivos, NEW p \in Particoes, p = ParticaoDe[f],
         lido[p] <= Len(media[p])
  PROVE  /\ ~Aplicado(f) \/ Retirado(f) => ProjecaoAte(f, lido[p]) = Nenhum
         /\ Aplicado(f) /\ ~Retirado(f) =>
              \E i \in DOMAIN media[p] :
                /\ media[p][i].arquivo = f
                /\ ProjecaoAte(f, lido[p]) = [usuario |-> media[p][i].usuario, hash |-> media[p][i].hash]
<1> DEFINE is == {i \in 1..lido[p] : media[p][i].arquivo = f}
           c == CHOOSE i \in is : \A j \in is : j <= i
<1>d. \A i \in is : i \in DOMAIN media[p] /\ i \in Nat /\ media[p][i].arquivo = f
  <2>1. DOMAIN media[p] = 1..Len(media[p]) /\ Len(media[p]) \in Nat /\ lido[p] \in Nat
    BY DominioDe
  <2> QED
    BY <2>1
<1>a. Aplicado(f) <=> is # {}
  BY DEF Aplicado
<1>r. Retirado(f) <=> \E i \in is : media[p][i].tipo = "delete"
  BY DEF Retirado
<1>p. ProjecaoAte(f, lido[p]) =
        IF is = {} \/ media[p][c].tipo = "delete" THEN Nenhum
        ELSE [usuario |-> media[p][c].usuario, hash |-> media[p][c].hash]
  BY DEF ProjecaoAte
<1>2. \A i, j \in is : i < j => media[p][i].tipo = "upload" /\ media[p][j].tipo = "delete"
  BY <1>d DEF Ordem
<1>3. ASSUME NEW i \in is, \A j \in is : j <= i PROVE c \in is /\ c = i
  <2>1. c \in is /\ \A j \in is : j <= c
    BY <1>3
  <2> HIDE DEF c
  <2> QED
    BY <1>d, <1>3, <2>1
<1> HIDE DEF is, c
<1>4. CASE is = {}
  BY <1>d, <1>a, <1>r, <1>p, <1>4
<1>5. ASSUME NEW i \in is, media[p][i].tipo = "delete" PROVE c = i
  <2>1. \A j \in is : j <= i
    BY <1>d, <1>2, <1>5
  <2> QED
    BY <1>3, <2>1
<1>6. CASE is # {} /\ \A i \in is : media[p][i].tipo # "delete"
  <2>1. PICK i \in is : TRUE
    BY <1>6
  <2>2. \A j \in is : j <= i
    BY <1>d, <1>2, <1>6
  <2>3. c = i
    BY <1>3, <2>2
  <2> QED
    BY <1>d, <1>a, <1>r, <1>p, <1>6, <2>3
<1> QED
  BY <1>d, <1>a, <1>r, <1>p, <1>4, <1>5, <1>6

(* README, "sincronizar a tabela": whenever every handler is between two   *)
(* messages the table is what the events they handled call for, although   *)
(* the handlers of any number of partitions joined, committed and ended    *)
(* each other's transactions meanwhile; as long as nothing fails and no    *)
(* content is shared.                                                      *)
THEOREM TabelaSegue == Spec => []TabelaSegueEventos
<1>1. Init => SInv /\ CInv
  <2> SUFFICES ASSUME Init PROVE SInv /\ CInv
    OBVIOUS
  <2>1. Ordem
    BY DEF Init, MidiaInit, Ordem
  <2>2. Bem
    <3>1. \A p \in Particoes : lido[p] = 0 /\ media[p] = <<>> /\ passo[p] = "livre" /\ erros[p] = {}
      BY DEF Init, MidiaInit, ConsultaInit
    <3>2. Viva /\ transacao = "fora" /\ \A f \in Arquivos : visao[f] = Nenhum
      BY DEF Init, ConsultaInit, Viva
    <3>3. Guardado(photos, AposFoto) /\ Guardado(thumbnails, AposTudo)
      BY <3>1 DEF Guardado
    <3>4. TabelaCerta
      BY <3>1, <3>2, ParticaoAssumption DEF TabelaCerta, Aplicado
    <3> QED
      BY <3>1, <3>2, <3>3, <3>4 DEF Bem
  <2>3. CInv
    BY DEF Init, ConsultaInit, CInv, Pendente, ColetaPoupaParticao
  <2> QED
    BY <2>1, <2>2, <2>3 DEF SInv
<1>2. IInv /\ SInv /\ CInv /\ [Next]_vars => SInv' /\ CInv'
  BY SInvPasso, CInvPasso
<1>3. IInv /\ SInv /\ CInv => TabelaSegueEventos
  <2> SUFFICES ASSUME IInv, SInv, CInv, SemFalhas, ConteudosDistintos,
                      \A p \in Particoes : passo[p] = "livre"
               PROVE  consulta = [f \in Arquivos |-> ProjecaoAte(f, lido[ParticaoDe[f]])]
    BY DEF TabelaSegueEventos
  <2>1. Ordem /\ Bem /\ consulta = visao
    BY DEF SInv, CInv, Pendente, Bem, Viva, IInv, TypeOK, ConsultaTypeOK
  <2>2. visao \in [Arquivos -> Linhas \cup {Nenhum}]
    BY DEF IInv, TypeOK, ConsultaTypeOK
  <2>3. ASSUME NEW f \in Arquivos PROVE visao[f] = ProjecaoAte(f, lido[ParticaoDe[f]])
    <3>1. PICK p \in Particoes : p = ParticaoDe[f]
      BY ParticaoAssumption
    <3>2. lido[p] <= Len(media[p]) /\ ~Excluindo(f)
      BY <2>1, <3>1 DEF Bem, Excluindo
    <3>3. visao[f] # Nenhum <=> Aplicado(f) /\ ~Retirado(f)
      BY <2>1, <3>2 DEF Bem, TabelaCerta
    <3>4. CASE visao[f] = Nenhum
      BY <2>1, <3>1, <3>2, <3>3, <3>4, QualLinha
    <3>5. CASE visao[f] # Nenhum
      <4>1. PICK i \in DOMAIN media[p] :
              /\ media[p][i].arquivo = f
              /\ ProjecaoAte(f, lido[p]) = [usuario |-> media[p][i].usuario, hash |-> media[p][i].hash]
        BY <2>1, <3>1, <3>2, <3>3, <3>5, QualLinha
      <4>2. media[p][i] \in Range(media[p])
        BY DEF Range
      <4>3. visao[f].usuario = media[p][i].usuario /\ visao[f].hash = media[p][i].hash
        BY <3>1, <3>5, <4>1, <4>2 DEF IInv, Tabelas, DeEventos, Coerente
      <4>4. visao[f] = [usuario |-> visao[f].usuario, hash |-> visao[f].hash]
        BY <2>2, <3>5 DEF Linhas
      <4> QED
        BY <3>1, <4>1, <4>3, <4>4
    <3> QED
      BY <3>4, <3>5
  <2> QED
    BY <2>1, <2>2, <2>3
<1> QED
  BY <1>1, <1>2, <1>3, IInvSempre, PTL DEF Spec

=============================================================================
