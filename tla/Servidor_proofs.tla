-------------------------- MODULE Servidor_proofs --------------------------
(***************************************************************************)
(* The API's uploads, for any number of streams, chunks, failed PUTs and   *)
(* deaths of the process: an object of temp-media is a whole photo.        *)
(*                                                                         *)
(* The handler and the goroutine of the PUT share the pipe and errChan.    *)
(* Certo says, of one stream and its object, what each of them has done    *)
(* when the other is at a given point; ObjetoInteiro follows from it.      *)
(***************************************************************************)
EXTENDS Servidor, SequenceTheorems, TLAPS

(* The chunk the handler holds while it is blocked in pipeWriter.Write.    *)
NaMao(s) == IF s.etapa = "escreve" THEN 1 ELSE 0

Certo(s, t) ==
  (* Nothing exists before the stream; then it has a user and a content.   *)
  /\ s.etapa = "livre" => s = SemStream /\ t = Nenhum
  /\ s.etapa # "livre" => s.dono \in Usuarios /\ s.foto \in Hashes
  (* The pipe is open while chunks come, at EOF only for a client that     *)
  (* closed its stream.                                                    *)
  /\ s.etapa \in {"livre", "recebe", "escreve"} => s.cano = "aberto"
  /\ s.cano = "eof" => s.cliente = "fechou"
  (* While the PUT reads, no chunk is lost between receiving and reading.  *)
  /\ s.put = "le" => s.recebidos = s.size + NaMao(s)
  (* The result is on errChan only once the goroutine is over, and the     *)
  (* handler is over only after it has the result (or the process died).   *)
  /\ s.put \in {"le", "ok", "erro"} => s.errChan = "vazio" /\ s.etapa \notin {"livre", "fim"}
  (* An object is there only if the PUT read to EOF.                       *)
  /\ t # Nenhum => /\ s.cano = "eof" /\ t = s.foto
                   /\ s.partes = s.size /\ s.size = s.recebidos
  /\ s.put = "ok" \/ s.errChan = "ok" => t # Nenhum
  /\ s.resposta = "ok" => s.errChan = "ok"

StreamsCertos == \A f \in Arquivos : Certo(stream[f], temp[f])
IInv == TypeOK /\ StreamsCertos

(* What the steps of an upload leave alone keeps its type.                 *)
RestoOK ==
  /\ photos \subseteq Hashes /\ thumbnails \subseteq Hashes
  /\ comando \in [Particoes -> Seq(Comandos)] /\ media \in [Particoes -> Seq(Eventos)]
  /\ fila \in Seq(Comandos)
  /\ leitura \in [Leitores -> {"livre", "linhas", "assina"}]
  /\ conexao \in {"aberta", "fechada"} /\ processo \in {"vivo", "morto"}
  /\ gastoApi \in [{"falhasPut", "perdas", "mortes"} -> Nat]

StreamsOK == /\ stream \in [Arquivos -> Streams]
             /\ temp \in [Arquivos -> Hashes \cup {Nenhum}]

LEMMA Partes == IInv <=> StreamsOK /\ StreamsCertos /\ RestoOK
  BY DEF IInv, TypeOK, MidiaTypeOK, StreamsOK, RestoOK

LEMMA PartesLinha == StreamsOK' /\ StreamsCertos' /\ RestoOK' => IInv'
  BY DEF IInv, TypeOK, MidiaTypeOK, StreamsOK, RestoOK

(* A step that changes one stream, and its object, need only be right about*)
(* that one.                                                               *)
LEMMA UmStream ==
  ASSUME StreamsOK, StreamsCertos, NEW f \in Arquivos,
         NEW s \in Streams, NEW t \in Hashes \cup {Nenhum}, Certo(s, t),
         stream' = [stream EXCEPT ![f] = s], temp' = [temp EXCEPT ![f] = t]
  PROVE  StreamsOK' /\ StreamsCertos'
<1>1. StreamsOK'
  BY DEF StreamsOK
<1>2. ASSUME NEW g \in Arquivos PROVE Certo(stream'[g], temp'[g])
  <2>1. CASE g = f
    <3>1. stream'[g] = s /\ temp'[g] = t
      BY <2>1 DEF StreamsOK
    <3> QED
      BY <3>1
  <2>2. CASE g # f
    <3>1. stream'[g] = stream[g] /\ temp'[g] = temp[g]
      BY <2>2 DEF StreamsOK
    <3> QED
      BY <3>1 DEF StreamsCertos
  <2> QED
    BY <2>1, <2>2
<1> QED
  BY <1>1, <1>2 DEF StreamsCertos

LEMMA TempIgual ==
  ASSUME StreamsOK, NEW f \in Arquivos
  PROVE  temp = [temp EXCEPT ![f] = temp[f]] /\ temp[f] \in Hashes \cup {Nenhum}
         /\ stream[f] \in Streams
  BY DEF StreamsOK

LEMMA SemStreamTipo == SemStream \in Streams
  BY ServidorBoundsAssumption DEF SemStream, Streams

(* The counters of the bounds stay natural numbers.                        *)
LEMMA GastaTipo ==
  ASSUME RestoOK, NEW t \in {"falhasPut", "perdas", "mortes"}, NEW m \in Nat, Gasta(t, m)
  PROVE  gastoApi' \in [{"falhasPut", "perdas", "mortes"} -> Nat]
  BY SMT DEF RestoOK, Gasta

LEMMA ProduceTipo ==
  ASSUME RestoOK, NEW c \in Comandos, Produce(c)
  PROVE  /\ fila' \in Seq(Comandos)
         /\ gastoApi' \in [{"falhasPut", "perdas", "mortes"} -> Nat]
<1>1. fila \in Seq(Comandos)
  BY DEF RestoOK
<1>2. CASE fila' = Append(fila, c) /\ UNCHANGED gastoApi
  BY <1>1, <1>2, AppendProperties DEF RestoOK
<1>3. CASE Gasta("perdas", MaxPerdas) /\ UNCHANGED fila
  BY <1>1, <1>3, GastaTipo, ServidorBoundsAssumption
<1> QED
  BY <1>2, <1>3 DEF Produce

LEMMA NewComandoTipo ==
  ASSUME NEW t \in Tipos, NEW f \in Arquivos, NEW u \in Usuarios
  PROVE  NewComando(t, f, u) \in Comandos
  BY DEF NewComando, Comandos, Tipos, Status

-----------------------------------------------------------------------------
(* A new upload.                                                           *)
LEMMA PassoUpload ==
  ASSUME StreamsOK, StreamsCertos, NEW f \in Arquivos, NEW u \in Usuarios, NEW h \in Hashes,
         Upload(f, u, h)
  PROVE  StreamsOK' /\ StreamsCertos'
<1> DEFINE s == [stream[f] EXCEPT !.cliente = "envia", !.dono = u, !.foto = h,
                                !.etapa = "recebe", !.put = "le"]
<1>1. stream[f] \in Streams /\ Certo(stream[f], temp[f]) /\ MaxChunks \in Nat
  BY TempIgual, ServidorBoundsAssumption DEF StreamsCertos
<1>2. stream' = [stream EXCEPT ![f] = s] /\ temp' = temp
  BY DEF Upload, SoStream, Muda
<1>3. s \in Streams
  BY <1>1 DEF Streams
<1>4. Certo(s, temp[f])
  BY <1>1, SMT DEF Upload, Streams, Certo, NaMao, SemStream
<1> QED
  BY <1>2, <1>3, <1>4, TempIgual, UmStream

(* The client closes its stream or goes away.                              *)
LEMMA PassoClienteTermina ==
  ASSUME StreamsOK, StreamsCertos, NEW f \in Arquivos, NEW fim \in {"fechou", "abortou"},
         SoStream, Muda(f, [stream[f] EXCEPT !.cliente = fim]),
         stream[f].cliente = "envia"
  PROVE  StreamsOK' /\ StreamsCertos'
<1> DEFINE s == [stream[f] EXCEPT !.cliente = fim]
<1>1. stream[f] \in Streams /\ Certo(stream[f], temp[f]) /\ MaxChunks \in Nat
  BY TempIgual, ServidorBoundsAssumption DEF StreamsCertos
<1>2. stream' = [stream EXCEPT ![f] = s] /\ temp' = temp
  BY DEF SoStream, Muda
<1>3. s \in Streams
  BY <1>1 DEF Streams
<1>4. Certo(s, temp[f])
  BY <1>1, SMT DEF Streams, Certo, NaMao, SemStream
<1> QED
  BY <1>2, <1>3, <1>4, TempIgual, UmStream

(* A chunk arrives: the pipe is open, so there is no object yet.           *)
LEMMA PassoRecvChunk ==
  ASSUME StreamsOK, StreamsCertos, NEW f \in Arquivos, RecvChunk(f)
  PROVE  StreamsOK' /\ StreamsCertos'
<1> DEFINE s == [stream[f] EXCEPT !.recebidos = @ + 1, !.etapa = "escreve"]
<1>1. stream[f] \in Streams /\ Certo(stream[f], temp[f]) /\ MaxChunks \in Nat
  BY TempIgual, ServidorBoundsAssumption DEF StreamsCertos
<1>2. stream' = [stream EXCEPT ![f] = s] /\ temp' = temp
  BY DEF RecvChunk, SoStream, Muda
<1>3. s \in Streams
  <2>1. s.recebidos \in 0..MaxChunks
    BY <1>1, SMT DEF RecvChunk, Streams
  <2> QED
    BY <1>1, <2>1 DEF Streams
<1>4. Certo(s, temp[f])
  BY <1>1, SMT DEF RecvChunk, Streams, Certo, NaMao, SemStream
<1> QED
  BY <1>2, <1>3, <1>4, TempIgual, UmStream

(* The end of the stream reaches the pipe as what it is.                   *)
LEMMA PassoRecvFim ==
  ASSUME StreamsOK, StreamsCertos, NEW f \in Arquivos, RecvFim(f)
  PROVE  StreamsOK' /\ StreamsCertos'
<1> DEFINE s == [stream[f] EXCEPT !.cano = FechaCano(stream[f]), !.etapa = "espera"]
<1>1. stream[f] \in Streams /\ Certo(stream[f], temp[f]) /\ MaxChunks \in Nat
  BY TempIgual, ServidorBoundsAssumption DEF StreamsCertos
<1>2. stream' = [stream EXCEPT ![f] = s] /\ temp' = temp
  BY DEF RecvFim, SoStream, Muda
<1>3. s \in Streams
  <2>1. FechaCano(stream[f]) \in {"eof", "erro"}
    BY DEF FechaCano
  <2> QED
    BY <1>1, <2>1 DEF Streams
<1>4. Certo(s, temp[f])
  BY <1>1, SMT DEF RecvFim, Streams, Certo, NaMao, SemStream, FechaCano
<1> QED
  BY <1>2, <1>3, <1>4, TempIgual, UmStream

(* A chunk goes through the pipe.                                          *)
LEMMA PassoEscreve ==
  ASSUME StreamsOK, StreamsCertos, NEW f \in Arquivos, Escreve(f)
  PROVE  StreamsOK' /\ StreamsCertos'
<1> DEFINE s == [stream[f] EXCEPT !.etapa = "recebe",
                                !.size = IF stream[f].put = "le" THEN @ + 1 ELSE @]
<1>1. stream[f] \in Streams /\ Certo(stream[f], temp[f]) /\ MaxChunks \in Nat
  BY TempIgual, ServidorBoundsAssumption DEF StreamsCertos
<1>2. stream' = [stream EXCEPT ![f] = s] /\ temp' = temp
  BY DEF Escreve, SoStream, Muda
<1>3. s \in Streams
  <2>1. s.size \in 0..MaxChunks
    BY <1>1, SMT DEF Escreve, Streams, Certo, NaMao
  <2> QED
    BY <1>1, <2>1 DEF Streams
<1>4. Certo(s, temp[f])
  BY <1>1, SMT DEF Escreve, Streams, Certo, NaMao, SemStream
<1> QED
  BY <1>2, <1>3, <1>4, TempIgual, UmStream

(* The result of the PUT is handed over.                                   *)
LEMMA PassoEnviaResultado ==
  ASSUME StreamsOK, StreamsCertos, NEW f \in Arquivos, EnviaResultado(f)
  PROVE  StreamsOK' /\ StreamsCertos'
<1> DEFINE s == [stream[f] EXCEPT !.errChan = stream[f].put, !.put = "fim"]
<1>1. stream[f] \in Streams /\ Certo(stream[f], temp[f]) /\ MaxChunks \in Nat
  BY TempIgual, ServidorBoundsAssumption DEF StreamsCertos
<1>2. stream' = [stream EXCEPT ![f] = s] /\ temp' = temp
  BY DEF EnviaResultado, SoStream, Muda
<1>3. s \in Streams
  <2>1. stream[f].put \in {"ok", "erro"}
    BY DEF EnviaResultado
  <2> QED
    BY <1>1, <2>1 DEF Streams
<1>4. Certo(s, temp[f])
  BY <1>1, SMT DEF EnviaResultado, Streams, Certo, NaMao, SemStream, CabeNoErrChan
<1> QED
  BY <1>2, <1>3, <1>4, TempIgual, UmStream

(* PutObject at EOF: every chunk received has been read, and is stored.    *)
LEMMA PassoPutObject ==
  ASSUME StreamsOK, StreamsCertos, NEW f \in Arquivos, PutObject(f)
  PROVE  StreamsOK' /\ StreamsCertos'
<1>1. stream[f] \in Streams /\ Certo(stream[f], temp[f]) /\ MaxChunks \in Nat
  BY TempIgual, ServidorBoundsAssumption DEF StreamsCertos
<1>2. PICK r \in {"ok", "erro"} :
        Muda(f, [stream[f] EXCEPT !.put = r, !.partes = stream[f].size])
  BY DEF PutObject
<1> DEFINE s == [stream[f] EXCEPT !.put = r, !.partes = stream[f].size]
           t == stream[f].foto
<1>3. stream' = [stream EXCEPT ![f] = s] /\ temp' = [temp EXCEPT ![f] = t]
  BY <1>2 DEF PutObject, Muda
<1>4. s \in Streams
  <2>1. stream[f].size \in 0..MaxChunks
    BY <1>1 DEF Streams
  <2> QED
    BY <1>1, <2>1 DEF Streams
<1>5. t \in Hashes /\ t # Nenhum
  BY <1>1, ArquivosAssumption DEF PutObject, Certo
<1>6. Certo(s, t)
  BY <1>1, <1>5, SMT DEF PutObject, Streams, Certo, NaMao, SemStream
<1> QED
  BY <1>3, <1>4, <1>5, <1>6, UmStream

(* A PUT that fails before EOF stores nothing.                             *)
LEMMA PassoPutFalha ==
  ASSUME StreamsOK, StreamsCertos, NEW f \in Arquivos, PutFalha(f)
  PROVE  StreamsOK' /\ StreamsCertos'
<1> DEFINE s == [stream[f] EXCEPT !.put = "erro"]
<1>1. stream[f] \in Streams /\ Certo(stream[f], temp[f]) /\ MaxChunks \in Nat
  BY TempIgual, ServidorBoundsAssumption DEF StreamsCertos
<1>2. stream' = [stream EXCEPT ![f] = s] /\ temp' = temp
  BY DEF PutFalha, Muda
<1>3. s \in Streams
  BY <1>1 DEF Streams
<1>4. Certo(s, temp[f])
  BY <1>1, SMT DEF PutFalha, Streams, Certo, NaMao, SemStream
<1> QED
  BY <1>2, <1>3, <1>4, TempIgual, UmStream

(* The handler answers with the result it took from errChan.               *)
LEMMA PassoTermina ==
  ASSUME StreamsOK, StreamsCertos, NEW f \in Arquivos, NEW r \in {"ok", "erro"}, Termina(f, r)
  PROVE  StreamsOK' /\ StreamsCertos'
<1> DEFINE s == [stream[f] EXCEPT !.etapa = "fim", !.resposta = r]
<1>1. stream[f] \in Streams /\ Certo(stream[f], temp[f]) /\ MaxChunks \in Nat
  BY TempIgual, ServidorBoundsAssumption DEF StreamsCertos
<1>2. stream' = [stream EXCEPT ![f] = s] /\ temp' = temp
  BY DEF Termina, Muda
<1>3. s \in Streams
  BY <1>1 DEF Streams
<1>4. Certo(s, temp[f])
  BY <1>1, SMT DEF Termina, Streams, Certo, NaMao, SemStream
<1> QED
  BY <1>2, <1>3, <1>4, TempIgual, UmStream

(* The process dies: every stream is cut where it stands, no object with it*)
LEMMA PassoMorre ==
  ASSUME StreamsOK, StreamsCertos, Morre
  PROVE  StreamsOK' /\ StreamsCertos'
<1>1. ASSUME NEW f \in Arquivos
      PROVE  stream'[f] \in Streams /\ temp' = temp /\ Certo(stream'[f], temp[f])
  <2>1. stream[f] \in Streams /\ Certo(stream[f], temp[f]) /\ temp' = temp
    BY TempIgual DEF StreamsCertos, Morre, midiaVars
  <2>2. CASE stream[f].etapa = "livre"
    <3>1. stream'[f] = SemStream
      BY <2>2 DEF Morre
    <3>2. stream[f] = SemStream
      BY <2>1, <2>2 DEF Certo
    <3> QED
      BY <2>1, <3>1, <3>2
  <2>3. CASE stream[f].etapa = "fim"
    <3> DEFINE s == [stream[f] EXCEPT !.put = "fim"]
    <3>1. stream'[f] = s
      BY <2>3 DEF Morre
    <3>2. s \in Streams
      BY <2>1 DEF Streams
    <3>3. Certo(s, temp[f])
      BY <2>1, <2>3, SMT DEF Streams, Certo, NaMao, SemStream
    <3> QED
      BY <2>1, <3>1, <3>2, <3>3
  <2>4. CASE stream[f].etapa \notin {"livre", "fim"}
    <3> DEFINE s == [stream[f] EXCEPT !.etapa = "fim", !.put = "fim", !.resposta = "erro"]
    <3>1. stream'[f] = s
      BY <2>4 DEF Morre
    <3>2. s \in Streams
      BY <2>1 DEF Streams
    <3>3. Certo(s, temp[f])
      BY <2>1, <2>4, SMT DEF Streams, Certo, NaMao, SemStream
    <3> QED
      BY <2>1, <3>1, <3>2, <3>3
  <2> QED
    BY <2>2, <2>3, <2>4
<1>2. stream' = [f \in Arquivos |-> stream'[f]]
  BY DEF Morre
<1>3. stream' \in [Arquivos -> Streams]
  BY <1>1, <1>2
<1>4. temp' = temp
  BY DEF Morre, midiaVars
<1> QED
  BY <1>1, <1>3, <1>4 DEF StreamsOK, StreamsCertos

(* Nothing happens to any stream.                                          *)
LEMMA SemMudanca ==
  ASSUME StreamsOK, StreamsCertos, stream' = stream, temp' = temp
  PROVE  StreamsOK' /\ StreamsCertos'
  BY DEF StreamsOK, StreamsCertos

-----------------------------------------------------------------------------
LEMMA InitIInv == Init => IInv
<1> SUFFICES ASSUME Init PROVE IInv
  OBVIOUS
<1>1. StreamsOK
  BY SemStreamTipo DEF Init, MidiaInit, StreamsOK
<1>2. StreamsCertos
  <2>1. ASSUME NEW f \in Arquivos PROVE Certo(stream[f], temp[f])
    <3>1. stream[f] = SemStream /\ temp[f] = Nenhum
      BY DEF Init, MidiaInit
    <3> QED
      BY <3>1 DEF Certo, SemStream
  <2> QED
    BY <2>1 DEF StreamsCertos
<1>3. RestoOK
  BY EmptySeq DEF Init, MidiaInit, RestoOK
<1> QED
  BY <1>1, <1>2, <1>3, Partes

(* The steps of one upload.                                                *)
LEMMA PassoStream ==
  ASSUME IInv, NEW f \in Arquivos,
         \/ \E u \in Usuarios : DeleteMedia(f, u) \/ \E h \in Hashes : Upload(f, u, h)
         \/ ClienteTermina(f) \/ RecvChunk(f) \/ Handler(f) \/ Put(f) \/ EnviaResultado(f)
  PROVE  IInv'
<1>0. StreamsOK /\ StreamsCertos /\ RestoOK
  BY Partes
<1> USE DEF SoUpload, SoStream
<1>1. ASSUME NEW u \in Usuarios, NEW h \in Hashes, Upload(f, u, h) PROVE IInv'
  <2>1. RestoOK'
    BY <1>0, <1>1 DEF Upload, RestoOK
  <2> QED
    BY <1>0, <1>1, <2>1, PassoUpload, PartesLinha
<1>2. ASSUME NEW u \in Usuarios, DeleteMedia(f, u) PROVE IInv'
  <2>1. NewComando("delete", f, u) \in Comandos
    BY NewComandoTipo DEF Tipos
  <2>2. RestoOK'
    BY <1>0, <1>2, <2>1, ProduceTipo DEF DeleteMedia, RestoOK
  <2> QED
    BY <1>0, <1>2, <2>2, SemMudanca, PartesLinha DEF DeleteMedia
<1>3. CASE ClienteTermina(f)
  <2>1. RestoOK'
    BY <1>0, <1>3 DEF ClienteTermina, RestoOK
  <2>2. StreamsOK' /\ StreamsCertos'
    BY <1>0, <1>3, PassoClienteTermina DEF ClienteTermina
  <2> QED
    BY <2>1, <2>2, PartesLinha
<1>4. CASE RecvChunk(f)
  <2>1. RestoOK'
    BY <1>0, <1>4 DEF RecvChunk, RestoOK
  <2> QED
    BY <1>0, <1>4, <2>1, PassoRecvChunk, PartesLinha
<1>5. CASE RecvFim(f)
  <2>1. RestoOK'
    BY <1>0, <1>5 DEF RecvFim, RestoOK
  <2> QED
    BY <1>0, <1>5, <2>1, PassoRecvFim, PartesLinha
<1>6. CASE Escreve(f)
  <2>1. RestoOK'
    BY <1>0, <1>6 DEF Escreve, RestoOK
  <2> QED
    BY <1>0, <1>6, <2>1, PassoEscreve, PartesLinha
<1>7. CASE EnviaResultado(f)
  <2>1. RestoOK'
    BY <1>0, <1>7 DEF EnviaResultado, RestoOK
  <2> QED
    BY <1>0, <1>7, <2>1, PassoEnviaResultado, PartesLinha
<1>8. CASE PutObject(f)
  <2>1. gastoApi' \in [{"falhasPut", "perdas", "mortes"} -> Nat]
    BY <1>0, <1>8, GastaTipo, ServidorBoundsAssumption DEF PutObject, RestoOK
  <2>2. RestoOK'
    BY <1>0, <1>8, <2>1 DEF PutObject, RestoOK
  <2> QED
    BY <1>0, <1>8, <2>2, PassoPutObject, PartesLinha
<1>9. CASE PutFalha(f)
  <2>1. gastoApi' \in [{"falhasPut", "perdas", "mortes"} -> Nat]
    BY <1>0, <1>9, GastaTipo, ServidorBoundsAssumption DEF PutFalha, RestoOK
  <2>2. RestoOK'
    BY <1>0, <1>9, <2>1 DEF PutFalha, RestoOK
  <2> QED
    BY <1>0, <1>9, <2>2, PassoPutFalha, PartesLinha
<1>10. CASE UploadRecusado(f)
  <2>1. RestoOK'
    BY <1>0, <1>10 DEF UploadRecusado, Termina, RestoOK
  <2>2. StreamsOK' /\ StreamsCertos'
    BY <1>0, <1>10, PassoTermina DEF UploadRecusado
  <2> QED
    BY <2>1, <2>2, PartesLinha
<1>11. CASE UploadAceito(f)
  <2>1. stream[f].dono \in Usuarios
    BY <1>0, <1>11 DEF UploadAceito, Termina, StreamsCertos, Certo
  <2>2. NewComando("upload", f, stream[f].dono) \in Comandos
    BY <2>1, NewComandoTipo DEF Tipos
  <2>3. fila' \in Seq(Comandos) /\ gastoApi' \in [{"falhasPut", "perdas", "mortes"} -> Nat]
    BY <1>0, <1>11, <2>2, ProduceTipo DEF UploadAceito
  <2>4. RestoOK'
    BY <1>0, <1>11, <2>3 DEF UploadAceito, Termina, RestoOK
  <2>5. StreamsOK' /\ StreamsCertos'
    BY <1>0, <1>11, PassoTermina DEF UploadAceito
  <2> QED
    BY <2>4, <2>5, PartesLinha
<1>12. CASE PanicoSemComando(f)
  <2>1. RestoOK'
    BY <1>0, <1>12, EmptySeq DEF PanicoSemComando, Morre, RestoOK, midiaVars
  <2>2. StreamsOK' /\ StreamsCertos'
    BY <1>0, <1>12, PassoMorre DEF PanicoSemComando
  <2> QED
    BY <2>1, <2>2, PartesLinha
<1> QED
  BY <1>1, <1>2, <1>3, <1>4, <1>5, <1>6, <1>7, <1>8, <1>9, <1>10, <1>11, <1>12
  DEF Handler, Put

(* The steps that are of no stream: delivery, reading, death, restart.     *)
LEMMA PassoProcesso ==
  ASSUME IInv,
         \/ \E l \in Leitores : GetMediaPaged(l) \/ CollectRows(l) \/ RespondeMedia(l)
                                \/ PanicoSemURL(l)
         \/ EntregaComando \/ FalhaEntrega \/ Inicia
  PROVE  IInv'
<1>0. StreamsOK /\ StreamsCertos /\ RestoOK
  BY Partes
<1> USE DEF midiaVars
<1>1. ASSUME NEW l \in Leitores, GetMediaPaged(l) \/ RespondeMedia(l) PROVE IInv'
  <2>1. RestoOK'
    BY <1>0, <1>1 DEF GetMediaPaged, RespondeMedia, RestoOK
  <2> QED
    BY <1>0, <1>1, <2>1, SemMudanca, PartesLinha DEF GetMediaPaged, RespondeMedia
<1>2. ASSUME NEW l \in Leitores, CollectRows(l) PROVE IInv'
  <2>1. gastoApi' \in [{"falhasPut", "perdas", "mortes"} -> Nat]
    BY <1>0, <1>2, GastaTipo, ServidorBoundsAssumption DEF CollectRows, RestoOK
  <2>2. RestoOK'
    BY <1>0, <1>2, <2>1 DEF CollectRows, RestoOK
  <2> QED
    BY <1>0, <1>2, <2>2, SemMudanca, PartesLinha DEF CollectRows
<1>3. ASSUME Morre, Gasta("mortes", MaxMortes) PROVE IInv'
  <2>1. gastoApi' \in [{"falhasPut", "perdas", "mortes"} -> Nat]
    BY <1>0, <1>3, GastaTipo, ServidorBoundsAssumption
  <2>2. RestoOK'
    BY <1>0, <1>3, <2>1, EmptySeq DEF Morre, RestoOK
  <2> QED
    BY <1>0, <1>3, <2>2, PassoMorre, PartesLinha
<1>4. CASE EntregaComando
  <2> DEFINE c == Head(fila)
  <2>1. fila \in Seq(Comandos) /\ fila # <<>> /\ fila' = Tail(fila)
    BY <1>0, <1>4 DEF EntregaComando, RestoOK
  <2>2. c \in Comandos /\ fila' \in Seq(Comandos)
    BY <2>1, HeadTailProperties
  <2>3. ParticaoDe[c.arquivo] \in Particoes
    BY <2>2, ParticaoAssumption DEF Comandos
  <2>4. comando' \in [Particoes -> Seq(Comandos)]
    BY <1>0, <1>4, <2>2, <2>3, AppendProperties DEF EntregaComando, Publica, RestoOK
  <2>5. RestoOK'
    BY <1>0, <1>4, <2>2, <2>4 DEF EntregaComando, RestoOK
  <2> QED
    BY <1>0, <1>4, <2>5, SemMudanca, PartesLinha DEF EntregaComando
<1>5. CASE Inicia
  <2>1. RestoOK'
    BY <1>0, <1>5 DEF Inicia, RestoOK
  <2> QED
    BY <1>0, <1>5, <2>1, SemMudanca, PartesLinha DEF Inicia
<1> QED
  BY <1>1, <1>2, <1>3, <1>4, <1>5 DEF PanicoSemURL, FalhaEntrega

LEMMA IInvPasso == IInv /\ [Next]_vars => IInv'
<1> SUFFICES ASSUME IInv, [Next]_vars PROVE IInv'
  OBVIOUS
<1>1. CASE Next
  BY <1>1, PassoStream, PassoProcesso DEF Next
<1>2. CASE UNCHANGED vars
  <2>1. RestoOK'
    BY <1>2, Partes DEF vars, midiaVars, RestoOK
  <2> QED
    BY <1>2, <2>1, SemMudanca, Partes, PartesLinha DEF vars, midiaVars
<1> QED
  BY <1>1, <1>2

LEMMA IInvSempre == Spec => []IInv
  BY InitIInv, IInvPasso, PTL DEF Spec

(* The states of the API are those its type invariant lists.               *)
THEOREM TypeCorrect == Spec => []TypeOK
<1>1. IInv => TypeOK
  BY DEF IInv
<1> QED
  BY IInvSempre, <1>1, PTL

(* storage_handler.go:91,96: closing the pipe with EOF or with the error   *)
(* of Recv keeps every part of a photo out of temp-media, and a client is  *)
(* told "ok", with the right size, only of an object that is there.        *)
THEOREM ObjetosInteiros == Spec => []ObjetoInteiro
<1>1. IInv => ObjetoInteiro
  BY DEF IInv, StreamsCertos, Certo, ObjetoInteiro
<1> QED
  BY IInvSempre, <1>1, PTL

-----------------------------------------------------------------------------
(* The queue holds commands as NewComando makes them: of each upload at    *)
(* most one, not delivered yet, and deletions of files already announced.  *)
(* The upload of either is over and its object there.                      *)
Pronto(f) == stream[f].etapa = "fim" /\ temp[f] # Nenhum

NaFila(i) == LET c == fila[i] IN
  /\ c = NewComando(c.tipo, c.arquivo, c.usuario)
  /\ c.tipo = "delete" => Anunciado(c.arquivo)
  /\ c.tipo = "upload" => Pronto(c.arquivo) /\ ~Anunciado(c.arquivo)

Distintos(i, j) ==
  fila[i].tipo = "upload" /\ fila[j].tipo = "upload" /\ fila[i].arquivo = fila[j].arquivo => i = j

Anuncios ==
  /\ \A f \in Arquivos : Anunciado(f) => Pronto(f)
  /\ \A i \in DOMAIN fila : NaFila(i) /\ \A j \in DOMAIN fila : Distintos(i, j)

AInv == IInv /\ Anuncios

(* One command more in the topic.                                          *)
LEMMA MaisUm ==
  ASSUME NEW log \in [Particoes -> Seq(Comandos)], NEW c \in Comandos
  PROVE  Todas(Publica(log, c)) = Todas(log) \cup {c}
<1> DEFINE p == ParticaoDe[c.arquivo]
           novo == [log EXCEPT ![p] = Append(@, c)]
<1>1. p \in Particoes
  BY ParticaoAssumption DEF Comandos
<1>2. novo[p] = Append(log[p], c) /\ log[p] \in Seq(Comandos)
  BY <1>1
<1>3. Range(novo[p]) = Range(log[p]) \cup {c}
  <2>1. \A s \in Seq(Comandos) : Range(Append(s, c)) = Range(s) \cup {c}
    BY AppendProperties DEF Range
  <2> QED
    BY <1>2, <2>1
<1>4. \A q \in Particoes \ {p} : novo[q] = log[q]
  OBVIOUS
<1>5. Todas(novo) = Todas(log) \cup {c}
  BY <1>1, <1>3, <1>4 DEF Todas
<1> QED
  BY <1>5 DEF Publica

LEMMA Entregue ==
  ASSUME comando \in [Particoes -> Seq(Comandos)], NEW c \in Comandos,
         comando' = Publica(comando, c)
  PROVE  \A f \in Arquivos : Anunciado(f)' <=>
           Anunciado(f) \/ (c.tipo = "upload" /\ c.arquivo = f)
<1>1. Todas(comando') = Todas(comando) \cup {c}
  BY MaisUm
<1> QED
  BY <1>1 DEF Anunciado

(* An upload that is over stays over, and nothing writes to its object.    *)
LEMMA ProntoFica ==
  ASSUME IInv, [Next]_vars, NEW f \in Arquivos, Pronto(f)
  PROVE  Pronto(f)' /\ temp'[f] = temp[f]
<1>0. stream[f].etapa = "fim" /\ temp[f] # Nenhum /\ StreamsOK /\ Certo(stream[f], temp[f])
  BY Partes DEF Pronto, StreamsCertos
<1>1. stream[f] \in Streams /\ stream[f] # SemStream /\ stream[f].put \notin {"le", "ok", "erro"}
  BY <1>0, SMT DEF StreamsOK, SemStream, Certo
<1> USE DEF SoUpload, SoStream, midiaVars, Muda, StreamsOK
<1>2. ASSUME NEW g \in Arquivos, NEW s, stream' = [stream EXCEPT ![g] = s],
             g = f => s.etapa = "fim", temp' = temp
      PROVE  Pronto(f)' /\ temp'[f] = temp[f]
  BY <1>0, <1>2 DEF Pronto
<1>3. ASSUME stream' = stream, temp' = temp PROVE Pronto(f)' /\ temp'[f] = temp[f]
  BY <1>0, <1>3 DEF Pronto
<1>4. ASSUME NEW g \in Arquivos, NEW u \in Usuarios, NEW h \in Hashes, Upload(g, u, h)
      PROVE  Pronto(f)' /\ temp'[f] = temp[f]
  BY <1>1, <1>2, <1>4 DEF Upload
<1>5. ASSUME NEW g \in Arquivos, ClienteTermina(g) PROVE Pronto(f)' /\ temp'[f] = temp[f]
  <2>1. PICK fim : stream' = [stream EXCEPT ![g] = [stream[g] EXCEPT !.cliente = fim]]
    BY <1>5 DEF ClienteTermina
  <2> QED
    BY <1>0, <1>2, <1>5, <2>1 DEF ClienteTermina
<1>6. ASSUME NEW g \in Arquivos, RecvChunk(g) \/ RecvFim(g) \/ Escreve(g)
      PROVE  Pronto(f)' /\ temp'[f] = temp[f]
  BY <1>0, <1>2, <1>6 DEF RecvChunk, RecvFim, Escreve
<1>7. ASSUME NEW g \in Arquivos, EnviaResultado(g) \/ PutFalha(g)
      PROVE  Pronto(f)' /\ temp'[f] = temp[f]
  BY <1>1, <1>2, <1>7 DEF EnviaResultado, PutFalha
<1>8. ASSUME NEW g \in Arquivos, PutObject(g) PROVE Pronto(f)' /\ temp'[f] = temp[f]
  <2>1. g # f
    BY <1>1, <1>8 DEF PutObject
  <2> QED
    BY <1>0, <1>8, <2>1 DEF PutObject, Pronto
<1>9. ASSUME NEW g \in Arquivos, NEW r \in {"ok", "erro"}, Termina(g, r)
      PROVE  Pronto(f)' /\ temp'[f] = temp[f]
  BY <1>0, <1>2, <1>9 DEF Termina
<1>10. ASSUME Morre PROVE Pronto(f)' /\ temp'[f] = temp[f]
  <2>1. stream'[f] = [stream[f] EXCEPT !.put = "fim"] /\ temp' = temp
    BY <1>0, <1>10 DEF Morre
  <2> QED
    BY <1>0, <1>1, <2>1 DEF Pronto, Streams
<1> QED
  BY <1>3, <1>4, <1>5, <1>6, <1>7, <1>8, <1>9, <1>10
     DEF Next, Handler, Put, UploadAceito, UploadRecusado, PanicoSemComando, DeleteMedia,
         GetMediaPaged, CollectRows, RespondeMedia, PanicoSemURL, FalhaEntrega,
         EntregaComando, Inicia, vars

(* What a step other than a delivery does to the queue.                    *)
NovoNaFila(c) ==
  /\ fila' = Append(fila, c)
  /\ \/ \E f \in Arquivos, u \in Usuarios : c = NewComando("delete", f, u) /\ Anunciado(f)
     \/ \E f \in Arquivos, u \in Usuarios :
          /\ c = NewComando("upload", f, u) /\ Pronto(f)'
          /\ stream[f].etapa = "espera"

LEMMA PassoDaFila ==
  ASSUME IInv, [Next]_vars
  PROVE  \/ EntregaComando
         \/ /\ UNCHANGED <<photos, thumbnails, comando, media>>
            /\ fila' = fila \/ fila' = <<>> \/ \E c \in Comandos : NovoNaFila(c)
<1> USE DEF SoUpload, SoStream, midiaVars
<1>1. ASSUME NEW f \in Arquivos,
             \/ \E u \in Usuarios, h \in Hashes : Upload(f, u, h)
             \/ ClienteTermina(f) \/ RecvChunk(f) \/ RecvFim(f) \/ Escreve(f) \/ Put(f)
             \/ EnviaResultado(f) \/ UploadRecusado(f)
      PROVE  UNCHANGED <<photos, thumbnails, comando, media, fila>>
  BY <1>1 DEF Upload, ClienteTermina, RecvChunk, RecvFim, Escreve, Put, PutObject, PutFalha,
              EnviaResultado, UploadRecusado, Termina
<1>2. ASSUME NEW l \in Leitores, GetMediaPaged(l) \/ CollectRows(l) \/ RespondeMedia(l)
      PROVE  UNCHANGED <<photos, thumbnails, comando, media, fila>>
  BY <1>2 DEF GetMediaPaged, CollectRows, RespondeMedia
<1>3. Morre => UNCHANGED <<photos, thumbnails, comando, media>> /\ fila' = <<>>
  BY DEF Morre
<1>4. ASSUME NEW f \in Arquivos, NEW u \in Usuarios, DeleteMedia(f, u)
      PROVE  /\ UNCHANGED <<photos, thumbnails, comando, media>>
             /\ fila' = fila \/ NovoNaFila(NewComando("delete", f, u))
  BY <1>4 DEF DeleteMedia, Produce, NovoNaFila
<1>5. ASSUME NEW f \in Arquivos, UploadAceito(f)
      PROVE  /\ UNCHANGED <<photos, thumbnails, comando, media>>
             /\ stream[f].dono \in Usuarios
             /\ fila' = fila \/ NovoNaFila(NewComando("upload", f, stream[f].dono))
  <2>1. Certo(stream[f], temp[f]) /\ stream[f].etapa = "espera" /\ stream[f].errChan = "ok"
    BY <1>5 DEF UploadAceito, Termina, IInv, StreamsCertos
  <2>2. stream[f].dono \in Usuarios /\ temp[f] # Nenhum
    BY <2>1 DEF Certo
  <2>3. temp' = temp /\ stream'[f].etapa = "fim"
    BY <1>5, Partes DEF UploadAceito, Termina, Muda, StreamsOK, Streams
  <2> QED
    BY <1>5, <2>1, <2>2, <2>3 DEF UploadAceito, Termina, Produce, NovoNaFila, Pronto
<1>6. Inicia \/ UNCHANGED vars => UNCHANGED <<photos, thumbnails, comando, media, fila>>
  BY DEF Inicia, vars
<1>7. ASSUME NEW f \in Arquivos, NEW u \in Usuarios, NEW t \in Tipos
      PROVE  NewComando(t, f, u) \in Comandos
  BY NewComandoTipo
<1> QED
  BY <1>1, <1>2, <1>3, <1>4, <1>5, <1>6, <1>7
     DEF Next, Handler, PanicoSemComando, PanicoSemURL, FalhaEntrega, Tipos

-----------------------------------------------------------------------------
LEMMA AnunciosPasso ==
  ASSUME AInv, [Next]_vars
  PROVE  Anuncios'
<1> USE DEF AInv
<1>0. /\ fila \in Seq(Comandos) /\ comando \in [Particoes -> Seq(Comandos)]
      /\ DOMAIN fila = 1..Len(fila) /\ Len(fila) \in Nat
  BY LenProperties, Partes DEF RestoOK
<1>1. \A f \in Arquivos : Pronto(f) => Pronto(f)'
  BY ProntoFica
<1>2. \A i \in DOMAIN fila : fila[i].arquivo \in Arquivos
  BY <1>0 DEF Comandos
<1>3. CASE comando' = comando /\ (fila' = fila \/ fila' = <<>>)
  <2>1. \A f \in Arquivos : Anunciado(f)' <=> Anunciado(f)
    BY <1>3 DEF Anunciado
  <2>2. CASE fila' = <<>>
    BY <1>1, <2>1, <2>2 DEF Anuncios
  <2>3. CASE fila' = fila
    BY <1>1, <1>2, <2>1, <2>3 DEF Anuncios, NaFila, Distintos
  <2> QED
    BY <1>3, <2>2, <2>3
<1>4. ASSUME NEW c \in Comandos, NovoNaFila(c), comando' = comando
      PROVE  Anuncios'
  <2>1. \A f \in Arquivos : Anunciado(f)' <=> Anunciado(f)
    BY <1>4 DEF Anunciado
  <2>0. PICK n \in Nat : n = Len(fila) + 1
    BY <1>0
  <2>2. /\ fila' = Append(fila, c) /\ DOMAIN fila' = 1..n
        /\ fila'[n] = c
        /\ \A i \in DOMAIN fila : fila'[i] = fila[i]
    BY <1>0, <1>4, <2>0, AppendProperties DEF NovoNaFila
  <2>3. \A i \in DOMAIN fila : NaFila(i)'
    BY <1>1, <1>2, <2>1, <2>2 DEF Anuncios, NaFila
  <2>4. NaFila(n)' /\ \A i \in DOMAIN fila :
          fila[i].tipo = "upload" /\ c.tipo = "upload" => fila[i].arquivo # c.arquivo
    <3>1. CASE \E f \in Arquivos, u \in Usuarios : c = NewComando("delete", f, u) /\ Anunciado(f)
      BY <2>1, <2>2, <3>1 DEF NaFila, NewComando
    <3>2. ASSUME NEW f \in Arquivos, NEW u \in Usuarios, c = NewComando("upload", f, u),
                 Pronto(f)', stream[f].etapa = "espera"
          PROVE  /\ NaFila(n)'
                 /\ \A i \in DOMAIN fila : fila[i].tipo = "upload" => fila[i].arquivo # c.arquivo
      <4>1. ~Pronto(f)
        BY <3>2 DEF Pronto
      <4>2. ~Anunciado(f)'
        BY <2>1, <4>1 DEF Anuncios
      <4>3. c.arquivo = f /\ c.tipo = "upload" /\ c.usuario = u
        BY <3>2 DEF NewComando
      <4>4. NaFila(n)'
        BY <2>2, <3>2, <4>2, <4>3 DEF NaFila
      <4> QED
        BY <4>1, <4>3, <4>4 DEF Anuncios, NaFila
    <3> QED
      BY <1>4, <3>1, <3>2 DEF NovoNaFila
  <2>5. \A i, j \in DOMAIN fila' : Distintos(i, j)'
    <3> SUFFICES ASSUME NEW i \in DOMAIN fila', NEW j \in DOMAIN fila',
                        fila'[i].tipo = "upload", fila'[j].tipo = "upload",
                        fila'[i].arquivo = fila'[j].arquivo
                 PROVE  i = j
      BY DEF Distintos
    <3>1. (i \in DOMAIN fila \/ i = n) /\ (j \in DOMAIN fila \/ j = n)
      BY <1>0, <2>0, <2>2
    <3> QED
      BY <2>2, <2>4, <3>1 DEF Anuncios, Distintos
  <2>6. \A i \in DOMAIN fila' : NaFila(i)'
    <3> SUFFICES ASSUME NEW i \in DOMAIN fila' PROVE NaFila(i)'
      OBVIOUS
    <3>1. i \in DOMAIN fila \/ i = n
      BY <1>0, <2>0, <2>2
    <3> QED
      BY <2>3, <2>4, <3>1
  <2> QED
    BY <1>1, <2>1, <2>5, <2>6 DEF Anuncios
<1>5. CASE EntregaComando
  <2> DEFINE c == Head(fila)
  <2>1. fila # <<>> /\ fila' = Tail(fila) /\ comando' = Publica(comando, c)
    BY <1>5 DEF EntregaComando
  <2>2. /\ c = fila[1] /\ c \in Comandos /\ 1 \in DOMAIN fila
        /\ DOMAIN fila' = 1..(Len(fila) - 1)
        /\ \A i \in DOMAIN fila' : fila'[i] = fila[i + 1] /\ i + 1 \in DOMAIN fila /\ i + 1 # 1
    BY <1>0, <2>1, HeadTailProperties
  <2>3. \A f \in Arquivos : Anunciado(f)' <=>
          Anunciado(f) \/ (c.tipo = "upload" /\ c.arquivo = f)
    BY <1>0, <2>1, <2>2, Entregue
  <2>4. \A f \in Arquivos : Anunciado(f)' => Pronto(f)'
    BY <1>1, <2>2, <2>3 DEF Anuncios, NaFila
  <2>5. ASSUME NEW i \in DOMAIN fila' PROVE NaFila(i)'
    <3>1. NaFila(i + 1) /\ Distintos(1, i + 1) /\ i + 1 # 1 /\ fila'[i] = fila[i + 1]
          /\ fila[i + 1].arquivo \in Arquivos
      BY <1>2, <2>2 DEF Anuncios
    <3> QED
      BY <1>1, <2>2, <2>3, <3>1 DEF NaFila, Distintos
  <2>6. ASSUME NEW i \in DOMAIN fila', NEW j \in DOMAIN fila' PROVE Distintos(i, j)'
    <3>1. Distintos(i + 1, j + 1) /\ fila'[i] = fila[i + 1] /\ fila'[j] = fila[j + 1]
          /\ i \in Int /\ j \in Int
      BY <1>0, <2>2 DEF Anuncios
    <3> QED
      BY <3>1 DEF Distintos
  <2> QED
    BY <2>4, <2>5, <2>6 DEF Anuncios
<1> QED
  BY <1>3, <1>4, <1>5, PassoDaFila

(* The delivery of a command is a whole Upload or DeleteMedia of Api;      *)
(* every other step leaves what Api shows as it was.                       *)
LEMMA PassoDaApi ==
  ASSUME AInv, [Next]_vars
  PROVE  [PelosProcessadores!ApiNext]_PelosProcessadores!midiaVars
<1> USE DEF AInv
<1>0. /\ fila \in Seq(Comandos) /\ comando \in [Particoes -> Seq(Comandos)]
      /\ temp \in [Arquivos -> Hashes \cup {Nenhum}]
  BY Partes DEF RestoOK, StreamsOK
<1>1. CASE UNCHANGED <<photos, thumbnails, comando, media>>
  <2>1. ASSUME NEW f \in Arquivos
        PROVE  (IF Anunciado(f) THEN temp[f] ELSE Nenhum)' = IF Anunciado(f) THEN temp[f] ELSE Nenhum
    <3>1. Anunciado(f)' <=> Anunciado(f)
      BY <1>1 DEF Anunciado
    <3>2. Anunciado(f) => temp'[f] = temp[f]
      BY ProntoFica DEF Anuncios
    <3> QED
      BY <3>1, <3>2
  <2>2. TempAnunciado' = TempAnunciado
    BY <2>1 DEF TempAnunciado
  <2> QED
    BY <1>1, <2>2 DEF PelosProcessadores!midiaVars
<1>2. CASE EntregaComando
  <2> DEFINE c == Head(fila)
             f == c.arquivo
             u == c.usuario
  <2>1. fila # <<>> /\ comando' = Publica(comando, c)
        /\ UNCHANGED <<temp, photos, thumbnails, media>>
    BY <1>2 DEF EntregaComando
  <2>2. c = fila[1] /\ c \in Comandos /\ 1 \in DOMAIN fila
    BY <1>0, <2>1, HeadTailProperties, LenProperties
  <2>3. f \in Arquivos /\ u \in Usuarios /\ c.tipo \in {"upload", "delete"}
    BY <2>2 DEF Comandos, Tipos
  <2>4. c = NewComando(c.tipo, f, u) /\ NaFila(1)
    BY <2>2 DEF Anuncios, NaFila
  <2>5. \A g \in Arquivos : Anunciado(g)' <=> Anunciado(g) \/ (c.tipo = "upload" /\ f = g)
    BY <1>0, <2>1, <2>2, Entregue
  <2>6. CASE c.tipo = "upload"
    <3>1. ~Anunciado(f) /\ temp[f] \in Hashes
      BY <1>0, <2>2, <2>3, <2>4, <2>6 DEF NaFila, Pronto
    <3>2. TempAnunciado[f] = Nenhum
      BY <2>3, <3>1 DEF TempAnunciado
    <3>3. TempAnunciado' = [TempAnunciado EXCEPT ![f] = temp[f]]
      <4>1. ASSUME NEW g \in Arquivos
            PROVE  (IF Anunciado(g) THEN temp[g] ELSE Nenhum)' =
                     IF g = f THEN temp[f] ELSE IF Anunciado(g) THEN temp[g] ELSE Nenhum
        BY <2>1, <2>5, <2>6
      <4> QED
        BY <2>3, <4>1 DEF TempAnunciado
    <3>4. comando' = PelosProcessadores!Publica(comando, PelosProcessadores!NewComando("upload", f, u))
      BY <2>1, <2>4, <2>6 DEF Publica, NewComando, PelosProcessadores!Publica,
                             PelosProcessadores!NewComando
    <3>5. PelosProcessadores!Upload(f, u, temp[f])
      BY <2>1, <3>2, <3>3, <3>4 DEF PelosProcessadores!Upload
    <3> QED
      BY <2>3, <3>1, <3>5 DEF PelosProcessadores!ApiNext
  <2>7. CASE c.tipo = "delete"
    <3>1. TempAnunciado[f] # Nenhum
      BY <2>2, <2>3, <2>4, <2>7 DEF NaFila, Anuncios, Pronto, TempAnunciado
    <3>2. TempAnunciado' = TempAnunciado
      <4>1. ASSUME NEW g \in Arquivos
            PROVE  (IF Anunciado(g) THEN temp[g] ELSE Nenhum)' = IF Anunciado(g) THEN temp[g] ELSE Nenhum
        BY <2>1, <2>5, <2>7
      <4> QED
        BY <4>1 DEF TempAnunciado
    <3>3. comando' = PelosProcessadores!Publica(comando, PelosProcessadores!NewComando("delete", f, u))
      BY <2>1, <2>4, <2>7 DEF Publica, NewComando, PelosProcessadores!Publica,
                             PelosProcessadores!NewComando
    <3>4. PelosProcessadores!DeleteMedia(f, u)
      BY <2>1, <3>1, <3>2, <3>3 DEF PelosProcessadores!DeleteMedia
    <3> QED
      BY <2>3, <3>4 DEF PelosProcessadores!ApiNext
  <2> QED
    BY <2>3, <2>6, <2>7
<1> QED
  BY <1>1, <1>2, PassoDaFila

LEMMA InitAInv == Init => AInv /\ PelosProcessadores!MidiaInit
<1> SUFFICES ASSUME Init PROVE AInv /\ PelosProcessadores!MidiaInit
  OBVIOUS
<1>1. \A f \in Arquivos : ~Anunciado(f)
  BY DEF Init, MidiaInit, Anunciado, Todas, Range
<1>2. Anuncios
  BY <1>1 DEF Init, Anuncios
<1>3. TempAnunciado = [f \in Arquivos |-> Nenhum]
  BY <1>1 DEF TempAnunciado
<1> QED
  BY <1>2, <1>3, InitIInv DEF AInv, Init, MidiaInit, PelosProcessadores!MidiaInit

(* storage_handler.go:132: whatever streams, PUTs, Produces and processes  *)
(* fail, the processors see an API in which the photo and its command      *)
(* appear together and once, and no deletion before them.                  *)
THEOREM ImplementaAApi == Spec => ImplementaApi
<1>1. Init => AInv /\ PelosProcessadores!MidiaInit
  BY InitAInv
<1>2. AInv /\ [Next]_vars => AInv'
  BY IInvPasso, AnunciosPasso DEF AInv
<1>3. AInv /\ [Next]_vars => [PelosProcessadores!ApiNext]_PelosProcessadores!midiaVars
  BY PassoDaApi
<1> QED
  BY <1>1, <1>2, <1>3, PTL DEF Spec, ImplementaApi, PelosProcessadores!ApiSpec

=============================================================================
