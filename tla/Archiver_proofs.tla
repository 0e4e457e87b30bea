-------------------------- MODULE Archiver_proofs --------------------------
(***************************************************************************)
(* The archiver implements the event store, for any number of partitions,  *)
(* events, copies, refusals, closed connections, rebalances and restarts:  *)
(* behind an open connection the handler passes over an event only once it *)
(* is in the table or was refused a third time, and nothing at all is      *)
(* marked behind a closed one.                                             *)
(***************************************************************************)
EXTENDS Archiver, SequenceTheorems, TLAPS

(* The message is dealt with: its event is in the table, or given up.      *)
Resolvido(p, i) == topico[p][i] \in Range(arquivo) \/ <<p, i>> \in desistidos
Ate(n, p) == \A i \in 1..n : Resolvido(p, i)

(* Offsets are those of messages, and what is marked or committed is dealt *)
(* with.                                                                   *)
Offsets(p) ==
  /\ proximo[p] <= Len(topico[p])
  /\ marcado[p] <= Len(topico[p]) /\ Ate(marcado[p], p)
  /\ confirmado[p] <= Len(topico[p]) /\ Ate(confirmado[p], p)

(* Behind an open connection so is everything taken up.                    *)
EmDia(p) == conexao = "aberta" => Ate(proximo[p], p)

IInv == TypeOK /\ \A p \in Particoes : Offsets(p) /\ EmDia(p)

-----------------------------------------------------------------------------
LEMMA Anexa ==
  ASSUME NEW S, NEW s \in Seq(S), NEW x \in S
  PROVE  /\ Append(s, x) \in Seq(S)
         /\ Len(s) \in Nat /\ Len(Append(s, x)) = Len(s) + 1
         /\ \A i \in 1..Len(s) : Append(s, x)[i] = s[i]
         /\ Range(Append(s, x)) = Range(s) \cup {x}
<1>1. Range(Append(s, x)) = Range(s) \cup {x}
  BY AppendProperties DEF Range
<1> QED
  BY <1>1, AppendProperties, LenProperties

(* The message at hand.                                                    *)
LEMMA NaMao ==
  ASSUME TypeOK, NEW p \in Particoes, Tenta(p)
  PROVE  /\ proximo[p] \in Nat /\ Len(topico[p]) \in Nat
         /\ Offset(p) \in 1..Len(topico[p])
         /\ EventId(p) = topico[p][Offset(p)] /\ EventId(p) \in EventIds
<1>1. topico[p] \in Seq(EventIds) /\ proximo[p] \in Nat
  BY DEF TypeOK
<1>2. Len(topico[p]) \in Nat /\ Offset(p) \in 1..Len(topico[p])
  BY <1>1, LenProperties DEF Tenta, Offset
<1> QED
  BY <1>1, <1>2, ElementOfSeq DEF EventId

LEMMA Paga ==
  ASSUME TypeOK, NEW t \in {"falhas", "cortes", "sessoes", "reinicios"}, NEW m \in Nat,
         PagaArquivo(t, m)
  PROVE  gastoArquivo' \in [{"falhas", "cortes", "sessoes", "reinicios"} -> Nat]
BY DEF TypeOK, PagaArquivo

(* The types hold however many INSERTs are refused.                        *)
LEMMA TypePasso ==
  ASSUME TypeOK, [Next]_vars
  PROVE  TypeOK'
<1> DEFINE Tipos == {"falhas", "cortes", "sessoes", "reinicios"}
<1>a. /\ topico \in [Particoes -> Seq(EventIds)] /\ arquivo \in Seq(EventIds)
      /\ proximo \in [Particoes -> Nat] /\ marcado \in [Particoes -> Nat]
      /\ confirmado \in [Particoes -> Nat] /\ tentativa \in [Particoes -> 0..2]
      /\ gastoArquivo \in [Tipos -> Nat]
  BY DEF TypeOK, maxRetries
<1>b. 0..(maxRetries - 1) = 0..2
  BY DEF maxRetries
<1>c. ASSUME NEW p \in Particoes, TentativaFalha(p)
      PROVE  /\ proximo' \in [Particoes -> Nat] /\ marcado' \in [Particoes -> Nat]
             /\ tentativa' \in [Particoes -> 0..2]
             /\ topico' = topico /\ sessao' = sessao /\ confirmado' = confirmado
  <2>1. tentativa[p] \in 0..2 /\ proximo[p] + 1 \in Nat
    BY <1>a
  <2>2. CASE tentativa[p] + 1 < maxRetries
    <3>1. tentativa[p] + 1 \in 0..2
      BY <2>1, <2>2 DEF maxRetries
    <3>2. tentativa' = [tentativa EXCEPT ![p] = tentativa[p] + 1]
          /\ UNCHANGED <<proximo, marcado, topico, sessao, confirmado>>
      BY <1>c, <2>2 DEF TentativaFalha
    <3> QED
      BY <1>a, <3>1, <3>2
  <2>3. CASE ~(tentativa[p] + 1 < maxRetries)
    <3>1. /\ proximo' = [proximo EXCEPT ![p] = proximo[p] + 1]
          /\ tentativa' = [tentativa EXCEPT ![p] = 0]
          /\ UNCHANGED <<marcado, topico, sessao, confirmado>>
      BY <1>c, <2>3 DEF TentativaFalha, Avanca
    <3> QED
      BY <1>a, <2>1, <3>1
  <2> QED
    BY <2>2, <2>3
<1>d. ASSUME NEW t \in Tipos, NEW m \in Nat, PagaArquivo(t, m)
      PROVE  gastoArquivo' \in [Tipos -> Nat]
  BY <1>d, Paga
<1>1. CASE UNCHANGED vars
  BY <1>1 DEF vars, TypeOK
<1>2. ASSUME NEW e \in EventIds, ES!Chega(e),
             UNCHANGED <<conexao, sessao, locais, confirmado, gastoArquivo>>
      PROVE  TypeOK'
  <2>1. ParticaoDo[e] \in Particoes
    BY ParticaoDoAssumption
  <2>2. Append(topico[ParticaoDo[e]], e) \in Seq(EventIds)
    BY <1>a, <2>1, Anexa
  <2>3. topico' \in [Particoes -> Seq(EventIds)] /\ UNCHANGED <<arquivo, desistidos>>
    BY <1>a, <1>2, <2>2 DEF ES!Chega
  <2> QED
    BY <1>2, <2>3 DEF TypeOK, locais
<1>3. ASSUME NEW p \in Particoes, SaveEvent(p) PROVE TypeOK'
  <2>1. EventId(p) \in EventIds /\ Offset(p) \in Nat /\ proximo[p] + 1 \in Nat
    BY <1>a, <1>3, NaMao DEF SaveEvent, Offset
  <2>2. arquivo' \in Seq(EventIds)
    BY <1>a, <1>3, <2>1, Anexa DEF SaveEvent
  <2>3. /\ proximo' \in [Particoes -> Nat] /\ marcado' \in [Particoes -> Nat]
        /\ tentativa' \in [Particoes -> 0..2]
    BY <1>a, <1>3, <2>1 DEF SaveEvent, Avanca
  <2> QED
    BY <1>b, <1>3, <2>2, <2>3 DEF SaveEvent, TypeOK
<1>4. ASSUME NEW p \in Particoes, EventoRepetido(p) \/ ConexaoFechada(p) PROVE TypeOK'
  BY <1>b, <1>c, <1>4 DEF EventoRepetido, ConexaoFechada, TypeOK
<1>5. ASSUME NEW p \in Particoes, InsertRecusado(p) PROVE TypeOK'
  <2>2. <<p, Offset(p)>> \in Particoes \X (Nat \ {0})
    <3>1. Offset(p) \in Nat \ {0}
      BY <1>a, <1>5, NaMao DEF InsertRecusado, Offset
    <3> QED
      BY <3>1
  <2>3. desistidos' \subseteq Particoes \X (Nat \ {0})
    BY <1>5, <2>2 DEF InsertRecusado, TypeOK
  <2>1. gastoArquivo' \in [Tipos -> Nat]
    BY <1>d, <1>5, ArchiverBoundsAssumption DEF InsertRecusado
  <2> QED
    BY <1>b, <1>c, <1>5, <2>1, <2>3 DEF InsertRecusado, TypeOK
<1>6. ASSUME NEW p \in Particoes, InsertCortado(p) PROVE TypeOK'
  <2>1. gastoArquivo' \in [Tipos -> Nat]
    BY <1>d, <1>6, ArchiverBoundsAssumption DEF InsertCortado
  <2>2. Append(arquivo, EventId(p)) \in Seq(EventIds)
    BY <1>a, <1>6, NaMao, Anexa DEF InsertCortado
  <2>3. arquivo' \in Seq(EventIds)
    BY <1>a, <1>6, <2>2 DEF InsertCortado
  <2> QED
    BY <1>b, <1>c, <1>6, <2>1, <2>3 DEF InsertCortado, TypeOK
<1>7. ASSUME NEW p \in Particoes, ConfirmaOffset(p) PROVE TypeOK'
  BY <1>a, <1>7 DEF ConfirmaOffset, locais, TypeOK
<1>8. CASE Rebalanceia
  <2>1. gastoArquivo' \in [Tipos -> Nat]
    BY <1>d, <1>8, ArchiverBoundsAssumption DEF Rebalanceia
  <2> QED
    BY <1>a, <1>8, <2>1 DEF Rebalanceia, TypeOK
<1>9. CASE Reinicia
  <2>1. gastoArquivo' \in [Tipos -> Nat]
    BY <1>d, <1>9, ArchiverBoundsAssumption DEF Reinicia
  <2> QED
    BY <1>a, <1>b, <1>9, <2>1 DEF Reinicia, TypeOK
<1> QED
  BY <1>1, <1>2, <1>3, <1>4, <1>5, <1>6, <1>7, <1>8, <1>9 DEF Next, Handler

(* The state of the archiver is what the type invariant says.              *)
THEOREM TypeCorrect == Spec => []TypeOK
<1>1. Init => TypeOK
  BY DEF Init, ES!Init, TypeOK, maxRetries
<1> QED
  BY <1>1, TypePasso, PTL DEF Spec

-----------------------------------------------------------------------------
LEMMA InitIInv == Init => IInv
<1> SUFFICES ASSUME Init PROVE IInv
  OBVIOUS
<1> USE DEF Init, ES!Init
<1>1. TypeOK
  BY DEF TypeOK, maxRetries
<1>2. ASSUME NEW p \in Particoes PROVE Offsets(p) /\ EmDia(p)
  BY DEF Offsets, EmDia, Ate
<1> QED
  BY <1>1, <1>2 DEF IInv

(* What is dealt with stays so.                                            *)
LEMMA OffsetsFicam ==
  ASSUME NEW p \in Particoes, Offsets(p), topico' = topico,
         Range(arquivo) \subseteq Range(arquivo)', desistidos \subseteq desistidos',
         proximo'[p] <= Len(topico[p]), confirmado' = confirmado, marcado' = marcado
  PROVE  Offsets(p)'
BY DEF Offsets, Ate, Resolvido

(* An attempt fails: with the connection open, the message is passed over  *)
(* only if its event is in the table or given up.                          *)
LEMMA FalhaPreserva ==
  ASSUME IInv, NEW p \in Particoes, Tenta(p), TentativaFalha(p),
         Range(arquivo) \subseteq Range(arquivo)', desistidos \subseteq desistidos',
         conexao' = "aberta" =>
           /\ conexao = "aberta"
           /\ \/ tentativa[p] + 1 < maxRetries
              \/ EventId(p) \in Range(arquivo)' \/ <<p, Offset(p)>> \in desistidos'
  PROVE  \A q \in Particoes : Offsets(q)' /\ EmDia(q)'
<1>1. /\ \A q \in Particoes : Offsets(q) /\ EmDia(q)
      /\ proximo \in [Particoes -> Nat] /\ proximo[p] \in Nat
      /\ topico' = topico /\ confirmado' = confirmado
  BY DEF IInv, TypeOK, TentativaFalha
<1>2. /\ marcado' = marcado
      /\ tentativa[p] + 1 < maxRetries => proximo' = proximo
      /\ ~(tentativa[p] + 1 < maxRetries) => proximo' = [proximo EXCEPT ![p] = @ + 1]
  BY DEF TentativaFalha, Avanca
<1>3. Offset(p) \in 1..Len(topico[p]) /\ EventId(p) = topico[p][Offset(p)]
      /\ Offset(p) = proximo[p] + 1 /\ Len(topico[p]) \in Nat
  BY NaMao DEF IInv, Offset
<1>4. ASSUME NEW q \in Particoes PROVE Offsets(q)'
  <2>1. proximo'[q] \in {proximo[q], IF q = p THEN proximo[p] + 1 ELSE proximo[q]}
    BY <1>1, <1>2
  <2>2. proximo'[q] <= Len(topico[q])
    BY <1>1, <1>3, <2>1 DEF Offsets
  <2> QED
    BY <1>1, <1>2, <2>2, OffsetsFicam
<1>5. ASSUME NEW q \in Particoes, conexao' = "aberta" PROVE Ate(proximo[q], q)'
  <2>1. \A i \in 1..proximo[q] : Resolvido(q, i)'
    BY <1>1, <1>5 DEF EmDia, Ate, Resolvido
  <2>2. CASE proximo'[q] = proximo[q]
    BY <2>1, <2>2 DEF Ate
  <2>3. CASE q = p /\ ~(tentativa[p] + 1 < maxRetries)
    <3>n. PICK n : n = Offset(p)
      OBVIOUS
    <3>1. Resolvido(p, n)'
      BY <1>1, <1>3, <1>5, <2>3, <3>n DEF Resolvido
    <3>2. proximo'[p] = proximo[p] + 1
      BY <1>1, <1>2, <2>3
    <3>3. \A i \in 1..(proximo[p] + 1) : i \in 1..proximo[p] \/ i = n
      BY <1>1, <1>3, <3>n
    <3>4. \A i \in 1..proximo'[p] : Resolvido(p, i)'
      BY <2>1, <2>3, <3>1, <3>2, <3>3
    <3> QED
      BY <2>3, <3>4 DEF Ate
  <2> QED
    BY <1>1, <1>2, <2>2, <2>3
<1> QED
  BY <1>4, <1>5 DEF EmDia

(* A successful INSERT: the event is there before it is marked.            *)
LEMMA SaveEventPreserva ==
  ASSUME IInv, NEW p \in Particoes, SaveEvent(p)
  PROVE  \A q \in Particoes : Offsets(q)' /\ EmDia(q)'
<1>1. /\ \A q \in Particoes : Offsets(q) /\ EmDia(q)
      /\ proximo \in [Particoes -> Nat] /\ marcado \in [Particoes -> Nat] /\ arquivo \in Seq(EventIds)
  BY DEF IInv, TypeOK
<1>2. /\ topico' = topico /\ confirmado' = confirmado /\ desistidos' = desistidos
      /\ conexao' = conexao /\ conexao = "aberta"
      /\ Tenta(p) /\ arquivo' = Append(arquivo, EventId(p))
      /\ proximo' = [proximo EXCEPT ![p] = @ + 1]
      /\ marcado' = [marcado EXCEPT ![p] = Offset(p)]
  BY DEF SaveEvent, Avanca
<1>3. /\ Offset(p) \in 1..Len(topico[p]) /\ Len(topico[p]) \in Nat
      /\ Offset(p) = proximo[p] + 1 /\ proximo[p] \in Nat
      /\ EventId(p) = topico[p][Offset(p)] /\ EventId(p) \in EventIds
  BY <1>2, NaMao DEF IInv, Offset
<1>4. Range(arquivo)' = Range(arquivo) \cup {EventId(p)}
  BY <1>1, <1>2, <1>3, Anexa
<1>5. \A q \in Particoes, i \in Nat : Resolvido(q, i) => Resolvido(q, i)'
  BY <1>2, <1>4 DEF Resolvido
<1>6. \A i \in 1..Offset(p) : Resolvido(p, i)'
  <2>n. PICK n : n = Offset(p)
    OBVIOUS
  <2>1. \A i \in 1..Offset(p) : i \in Nat /\ (i \in 1..proximo[p] \/ i = n)
    BY <1>3, <2>n
  <2>2. Resolvido(p, n)'
    BY <1>2, <1>3, <1>4, <2>n DEF Resolvido
  <2>3. \A i \in 1..proximo[p] : Resolvido(p, i)
    BY <1>1, <1>2 DEF EmDia, Ate
  <2> QED
    BY <1>5, <2>1, <2>2, <2>3
<1>7. ASSUME NEW q \in Particoes PROVE Offsets(q)' /\ EmDia(q)'
  <2>1. CASE q # p
    <3>1. proximo'[q] = proximo[q] /\ marcado'[q] = marcado[q] /\ confirmado'[q] = confirmado[q]
      BY <1>1, <1>2, <2>1
    <3> QED
      BY <1>1, <1>2, <1>4, <3>1 DEF Offsets, EmDia, Ate, Resolvido
  <2>2. CASE q = p
    <3>1. proximo'[p] = Offset(p) /\ marcado'[p] = Offset(p)
      BY <1>1, <1>2, <1>3
    <3>2. Ate(proximo[p], p)' /\ Ate(marcado[p], p)'
      BY <1>6, <3>1 DEF Ate
    <3>3. Ate(confirmado[p], p)'
      BY <1>1, <1>2, <1>4 DEF Offsets, Ate, Resolvido
    <3> QED
      BY <1>1, <1>2, <1>3, <2>2, <3>1, <3>2, <3>3 DEF Offsets, EmDia
  <2> QED
    BY <2>1, <2>2
<1> QED
  BY <1>7

(* A new message is behind all that was taken up.                          *)
LEMMA ChegaPreserva ==
  ASSUME IInv, NEW e \in EventIds, ES!Chega(e),
         UNCHANGED <<conexao, sessao, locais, confirmado, gastoArquivo>>
  PROVE  \A q \in Particoes : Offsets(q)' /\ EmDia(q)'
<1>1. /\ \A q \in Particoes : Offsets(q) /\ EmDia(q)
      /\ topico \in [Particoes -> Seq(EventIds)]
      /\ proximo \in [Particoes -> Nat] /\ marcado \in [Particoes -> Nat]
      /\ confirmado \in [Particoes -> Nat]
  BY DEF IInv, TypeOK
<1>2. /\ topico' = [topico EXCEPT ![ParticaoDo[e]] = Append(@, e)]
      /\ UNCHANGED <<arquivo, desistidos, conexao, confirmado, proximo, marcado>>
  BY DEF ES!Chega, locais
<1>3. ASSUME NEW q \in Particoes
      PROVE  /\ Len(topico[q]) \in Nat /\ Len(topico'[q]) \in Nat
             /\ Len(topico[q]) <= Len(topico'[q])
             /\ \A i \in 1..Len(topico[q]) : topico'[q][i] = topico[q][i]
  <2>1. topico[q] \in Seq(EventIds) /\ topico'[q] \in {topico[q], Append(topico[q], e)}
    BY <1>1, <1>2
  <2>2. /\ Len(topico[q]) \in Nat /\ Len(Append(topico[q], e)) = Len(topico[q]) + 1
        /\ \A i \in 1..Len(topico[q]) : Append(topico[q], e)[i] = topico[q][i]
    BY <2>1, Anexa
  <2>3. CASE topico'[q] = topico[q]
    BY <2>2, <2>3
  <2>4. CASE topico'[q] = Append(topico[q], e)
    BY <2>2, <2>4
  <2> QED
    BY <2>1, <2>3, <2>4
<1>4. ASSUME NEW q \in Particoes, NEW n \in Nat, n <= Len(topico[q])
      PROVE  /\ n <= Len(topico'[q])
             /\ (\A i \in 1..n : Resolvido(q, i)) => \A i \in 1..n : Resolvido(q, i)'
  <2>1. \A i \in 1..n : topico'[q][i] = topico[q][i]
    BY <1>3, <1>4
  <2>2. n <= Len(topico'[q])
    BY <1>3, <1>4
  <2> QED
    BY <1>2, <2>1, <2>2 DEF Resolvido
<1>5. ASSUME NEW q \in Particoes PROVE Offsets(q)' /\ EmDia(q)'
  <2>1. /\ Offsets(q) /\ EmDia(q)
        /\ proximo[q] \in Nat /\ marcado[q] \in Nat /\ confirmado[q] \in Nat
    BY <1>1
  <2> QED
    BY <1>2, <1>4, <2>1 DEF Offsets, EmDia, Ate
<1> QED
  BY <1>5

LEMMA IInvPasso ==
  ASSUME IInv, [Next]_vars
  PROVE  IInv'
<1>t. TypeOK'
  BY TypePasso DEF IInv
<1>a. TypeOK /\ \A p \in Particoes : Offsets(p) /\ EmDia(p)
  BY DEF IInv
<1> DEFINE Bem == \A q \in Particoes : Offsets(q)' /\ EmDia(q)'
<1>1. ASSUME UNCHANGED vars PROVE Bem
  BY <1>a, <1>1 DEF vars, Offsets, EmDia, Ate, Resolvido
<1>2. ASSUME NEW e \in EventIds, ES!Chega(e),
             UNCHANGED <<conexao, sessao, locais, confirmado, gastoArquivo>>
      PROVE  Bem
  BY <1>2, ChegaPreserva
<1>3. ASSUME NEW p \in Particoes, SaveEvent(p) PROVE Bem
  BY <1>3, SaveEventPreserva
<1>4. ASSUME NEW p \in Particoes, EventoRepetido(p) PROVE Bem
  BY <1>4, FalhaPreserva DEF EventoRepetido
<1>5. ASSUME NEW p \in Particoes, ConexaoFechada(p) PROVE Bem
  BY <1>5, FalhaPreserva DEF ConexaoFechada
<1>6. ASSUME NEW p \in Particoes, InsertRecusado(p) PROVE Bem
  <2>1. /\ Tenta(p) /\ TentativaFalha(p) /\ conexao = "aberta"
        /\ arquivo' = arquivo /\ desistidos \subseteq desistidos'
        /\ \/ tentativa[p] + 1 < maxRetries
           \/ EventId(p) \in Range(arquivo) \/ <<p, Offset(p)>> \in desistidos'
    BY <1>6 DEF InsertRecusado, Recusas, maxRetries
  <2> QED
    BY <2>1, FalhaPreserva
<1>7. ASSUME NEW p \in Particoes, InsertCortado(p) PROVE Bem
  <2>1. /\ Tenta(p) /\ TentativaFalha(p) /\ conexao' = "fechada" /\ desistidos' = desistidos
        /\ arquivo' = arquivo \/ arquivo' = Append(arquivo, EventId(p))
    BY <1>7 DEF InsertCortado
  <2>2. Range(arquivo) \subseteq Range(arquivo)'
    <3>1. EventId(p) \in EventIds /\ arquivo \in Seq(EventIds)
      BY <1>a, <2>1, NaMao DEF TypeOK
    <3>2. Range(Append(arquivo, EventId(p))) = Range(arquivo) \cup {EventId(p)}
      BY <3>1, Anexa
    <3> QED
      BY <2>1, <3>2
  <2> QED
    BY <2>1, <2>2, FalhaPreserva
<1>8. ASSUME NEW p \in Particoes, ConfirmaOffset(p) PROVE Bem
  <2>1. /\ confirmado' = [confirmado EXCEPT ![p] = marcado[p]]
        /\ UNCHANGED <<topico, arquivo, desistidos, conexao, proximo, marcado>>
    BY <1>8 DEF ConfirmaOffset, locais
  <2>2. ASSUME NEW q \in Particoes PROVE Offsets(q)' /\ EmDia(q)'
    <3>1. Offsets(q) /\ EmDia(q) /\ confirmado'[q] \in {confirmado[q], marcado[q]}
      BY <1>a, <2>1 DEF TypeOK
    <3> QED
      BY <2>1, <3>1 DEF Offsets, EmDia, Ate, Resolvido
  <2> QED
    BY <2>2
(* Reading resumes at what was committed.                                  *)
<1>9. ASSUME Rebalanceia \/ Reinicia PROVE Bem
  <2>1. UNCHANGED <<topico, arquivo, desistidos, confirmado>>
        /\ proximo' = confirmado /\ marcado' = confirmado
    BY <1>9 DEF Rebalanceia, Reinicia
  <2> QED
    BY <1>a, <2>1 DEF Offsets, EmDia, Ate, Resolvido
<1> HIDE DEF Bem
<1>10. Bem
  BY <1>1, <1>2, <1>3, <1>4, <1>5, <1>6, <1>7, <1>8, <1>9 DEF Next, Handler
<1> QED
  BY <1>t, <1>10 DEF IInv, Bem

LEMMA IInvSempre == Spec => []IInv
<1>1. IInv /\ [Next]_vars => IInv'
  BY IInvPasso
<1> QED
  BY <1>1, InitIInv, PTL DEF Spec

-----------------------------------------------------------------------------
(* What a step does to the table is what the event store allows: an event  *)
(* is inserted only if it is new, and then it is the first of its partition*)
(* still due; and so is the one given up.                                  *)
LEMMA OPrimeiro ==
  ASSUME IInv, NEW p \in Particoes, Tenta(p), conexao = "aberta", EventId(p) \notin Range(arquivo)
  PROVE  /\ Offset(p) \in ES!Pendentes(p) /\ EventId(p) = topico[p][Offset(p)]
         /\ \A j \in ES!Devidos(p) : Offset(p) <= j
<1>1. /\ proximo[p] \in Nat /\ Len(topico[p]) \in Nat /\ Offset(p) = proximo[p] + 1
      /\ Offset(p) \in 1..Len(topico[p]) /\ EventId(p) = topico[p][Offset(p)]
  BY NaMao DEF IInv, Offset
<1>2. DOMAIN topico[p] = 1..Len(topico[p])
  BY LenProperties DEF IInv, TypeOK
<1>3. Offset(p) \in ES!Pendentes(p)
  <2>1. Offset(p) \in DOMAIN topico[p] /\ topico[p][Offset(p)] \notin Range(arquivo)
    BY <1>1, <1>2
  <2> QED
    BY <2>1 DEF ES!Pendentes, ES!Range, Range
<1>4. ASSUME NEW j \in ES!Devidos(p) PROVE Offset(p) <= j
  <2>1. j \in 1..Len(topico[p]) /\ ~Resolvido(p, j)
    BY <1>2 DEF ES!Devidos, ES!Pendentes, ES!Range, Range, Resolvido
  <2>2. ~(j <= proximo[p])
    BY <1>1, <2>1 DEF IInv, EmDia, Ate
  <2> QED
    BY <1>1, <2>1, <2>2
<1> QED
  BY <1>1, <1>3, <1>4

LEMMA InsereOPrimeiro ==
  ASSUME IInv, NEW p \in Particoes, Tenta(p), conexao = "aberta",
         EventId(p) \notin Range(arquivo), arquivo' = Append(arquivo, EventId(p)),
         UNCHANGED <<topico, desistidos>>
  PROVE  ES!Arquiva(p)
BY OPrimeiro DEF ES!Arquiva

LEMMA DesisteDoPrimeiro ==
  ASSUME IInv, NEW p \in Particoes, InsertRecusado(p)
  PROVE  ES!Desiste(p) \/ UNCHANGED <<topico, arquivo, desistidos>>
<1>1. /\ Tenta(p) /\ conexao = "aberta" /\ UNCHANGED <<topico, arquivo>>
      /\ \/ desistidos' = desistidos
         \/ EventId(p) \notin Range(arquivo) /\ desistidos' = desistidos \cup {<<p, Offset(p)>>}
  BY DEF InsertRecusado, TentativaFalha
<1>2. CASE <<p, Offset(p)>> \notin desistidos /\ EventId(p) \notin Range(arquivo)
           /\ desistidos' = desistidos \cup {<<p, Offset(p)>>}
  <2>1. Offset(p) \in ES!Devidos(p) /\ \A j \in ES!Devidos(p) : Offset(p) <= j
    BY <1>1, <1>2, OPrimeiro DEF ES!Devidos
  <2> QED
    BY <1>1, <1>2, <2>1 DEF ES!Desiste
<1>3. CASE <<p, Offset(p)>> \in desistidos
  BY <1>1, <1>3
<1> QED
  BY <1>1, <1>2, <1>3

LEMMA PassoDoArquivo ==
  ASSUME IInv, [Next]_vars
  PROVE  [ES!Next]_<<topico, arquivo, desistidos>>
<1>1. CASE UNCHANGED vars
  BY <1>1 DEF vars
<1>2. ASSUME NEW e \in EventIds, ES!Chega(e) PROVE ES!Next
  BY <1>2 DEF ES!Next
<1>3. ASSUME NEW p \in Particoes, SaveEvent(p) PROVE ES!Next
  BY <1>3, InsereOPrimeiro DEF SaveEvent, ES!Next
<1>4. ASSUME NEW p \in Particoes, EventoRepetido(p) \/ ConexaoFechada(p)
      PROVE  UNCHANGED <<topico, arquivo, desistidos>>
  BY <1>4 DEF EventoRepetido, ConexaoFechada, TentativaFalha
<1>5. ASSUME NEW p \in Particoes, InsertRecusado(p)
      PROVE  ES!Next \/ UNCHANGED <<topico, arquivo, desistidos>>
  BY <1>5, DesisteDoPrimeiro DEF ES!Next
<1>6. ASSUME NEW p \in Particoes, InsertCortado(p)
      PROVE  ES!Next \/ UNCHANGED <<topico, arquivo, desistidos>>
  BY <1>6, InsereOPrimeiro DEF InsertCortado, TentativaFalha, ES!Next
<1>7. ASSUME NEW p \in Particoes, ConfirmaOffset(p) PROVE UNCHANGED <<topico, arquivo, desistidos>>
  BY <1>7 DEF ConfirmaOffset
<1>8. CASE Rebalanceia \/ Reinicia
  BY <1>8 DEF Rebalanceia, Reinicia
<1> QED
  BY <1>1, <1>2, <1>3, <1>4, <1>5, <1>6, <1>7, <1>8 DEF Next, Handler

(* consumer.go, ConsumeClaim: the group's committed offset passes an event *)
(* that is not in the table only if an open connection refused it three    *)
(* times in a row; whatever is refused, cut off, replayed by a rebalance or*)
(* a restart, or held twice by the broker.                                 *)
THEOREM NadaSePerde == Spec => []GravadoOuDesistido
<1>1. IInv => GravadoOuDesistido
  BY DEF IInv, Offsets, Ate, Resolvido, GravadoOuDesistido
<1> QED
  BY <1>1, IInvSempre, PTL

(* The archiver implements the event store: each event once and in the     *)
(* order of its partition, and no gap but the events so refused.           *)
THEOREM ImplementaEventStore == Spec => FielAoTopico
<1>1. Init => ES!Init
  BY DEF Init
<1>2. IInv /\ [Next]_vars => [ES!Next]_ES!vars
  BY PassoDoArquivo DEF ES!vars
<1> QED
  BY <1>1, <1>2, IInvSempre, PTL DEF Spec, FielAoTopico, ES!Spec

=============================================================================
