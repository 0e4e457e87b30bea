------------------------- MODULE Migradores_proofs -------------------------
(***************************************************************************)
(* The migration scripts, for files of any length and any number of runs,  *)
(* failures and interruptions.  A line is behind the script only once its  *)
(* effect is in the cluster (Garage) or reported as missing (Kafka).       *)
(***************************************************************************)
EXTENDS Migradores, TLAPS

Feitas == \A i \in 1..(linha - 1) : Roteiro[i] \in garage
FeitasKafka == \A i \in 1..(linhaKafka - 1) : RoteiroKafka[i] \in topicos \cup errosKafka

IGarage ==
  /\ diz \in [Criacoes -> SUBSET Palavras]
  /\ garage \subseteq Range(Roteiro)
  /\ env \subseteq Chaves /\ coletadas \subseteq Chaves
  /\ linha \in 0..(Len(Roteiro) + 1)
  /\ saida \in {"nunca", "roda", "ok", "falha"} /\ falhou \in BOOLEAN
  /\ Feitas /\ OkCompleto /\ Retomavel
IKafka ==
  /\ topicos \subseteq Range(RoteiroKafka) /\ errosKafka \subseteq Range(RoteiroKafka)
  /\ linhaKafka \in 0..(Len(RoteiroKafka) + 1)
  /\ saidaKafka \in {"nunca", "roda", "fim"}
  /\ FeitasKafka /\ KafkaCompleto
IGasto == gastoMigra \in [{"falhas", "garage", "kafka"} -> Nat]
IInv == IGarage /\ IKafka /\ IGasto

-----------------------------------------------------------------------------
LEMMA Linhas ==
  /\ Len(Roteiro) \in Nat /\ DOMAIN Roteiro = 1..Len(Roteiro)
  /\ Len(RoteiroKafka) \in Nat /\ DOMAIN RoteiroKafka = 1..Len(RoteiroKafka)
  /\ Range(Roteiro) = {Roteiro[i] : i \in 1..Len(Roteiro)}
  /\ Range(RoteiroKafka) = {RoteiroKafka[i] : i \in 1..Len(RoteiroKafka)}
<1>1. Len(Roteiro) \in Nat /\ DOMAIN Roteiro = 1..Len(Roteiro)
  BY RoteiroAssumption
<1>2. Len(RoteiroKafka) \in Nat /\ DOMAIN RoteiroKafka = 1..Len(RoteiroKafka)
  BY RoteiroAssumption
<1> QED
  BY <1>1, <1>2 DEF Range

LEMMA GastaTipo ==
  ASSUME IGasto, NEW t \in {"falhas", "garage", "kafka"}, NEW m \in Nat, Gasta(t, m)
  PROVE  IGasto'
  BY SMT DEF IGasto, Gasta

(* The line at hand; a permission comes after what it names.               *)
LEMMA LinhaAtual ==
  ASSUME IGarage, Executa
  PROVE  /\ linha \in 1..Len(Roteiro) /\ Atual \in Range(Roteiro)
         /\ Atual.cmd \in {"create-bucket", "create-key", "allow-bucket"}
         /\ Atual.cmd = "create-key" => Atual.chave \in Chaves
         /\ Possivel
<1>1. linha \in 1..Len(Roteiro) /\ Atual = Roteiro[linha]
  BY Linhas DEF Executa, Atual
<1>2. Atual \in Range(Roteiro)
  BY <1>1, Linhas
<1>3. Atual.cmd \in {"create-bucket", "create-key", "allow-bucket"}
  BY <1>1, Linhas, RoteiroAssumption
<1>4. Atual.cmd = "create-key" => Atual.chave \in Chaves
  BY <1>2 DEF Chaves
<1>5. ASSUME Atual.cmd = "allow-bucket"
      PROVE  {CreateBucket(Atual.bucket), CreateKey(Atual.chave)} \subseteq garage
  <2>1. {CreateBucket(Atual.bucket), CreateKey(Atual.chave)}
          \subseteq {Roteiro[j] : j \in 1..(linha - 1)}
    BY <1>1, <1>5, Linhas, RoteiroAssumption
  <2>2. {Roteiro[j] : j \in 1..(linha - 1)} \subseteq garage
    BY DEF IGarage, Feitas
  <2> QED
    BY <2>1, <2>2
<1>6. Possivel
  BY <1>5 DEF Possivel
<1> QED
  BY <1>1, <1>2, <1>3, <1>4, <1>6

(* The script goes on to the next line once this one is in effect.         *)
LEMMA AvancaGarage ==
  ASSUME IGarage, Executa, NEW novas \in SUBSET Chaves, Passa(novas),
         garage \subseteq garage', garage' \subseteq Range(Roteiro), Atual \in garage',
         env' = env, diz' = diz
  PROVE  IGarage'
<1>1. linha \in 1..Len(Roteiro) /\ linha' = linha + 1
  BY LinhaAtual DEF Passa
<1>2. linha' \in 0..(Len(Roteiro) + 1)
  BY <1>1, Linhas
<1>3. Feitas'
  <2>1. ASSUME NEW i \in 1..(linha' - 1) PROVE Roteiro[i] \in garage'
    <3>1. CASE i = linha
      BY <3>1 DEF Atual
    <3>2. CASE i # linha
      <4>1. i \in 1..(linha - 1)
        BY <1>1, <3>2, Linhas
      <4> QED
        BY <4>1 DEF IGarage, Feitas
    <3> QED
      BY <3>1, <3>2
  <2> QED
    BY <2>1 DEF Feitas
<1>4. coletadas' \subseteq Chaves
  BY DEF Passa, Coleta, IGarage
<1>5. saida' = saida /\ falhou' = falhou
  BY DEF Passa
<1>6. OkCompleto' /\ Retomavel'
  BY <1>5 DEF IGarage, OkCompleto, Retomavel, Reconhece
<1> QED
  BY <1>2, <1>3, <1>4, <1>5, <1>6 DEF IGarage

(* The script ends: on a fault, or with every line behind it.              *)
LEMMA ParaGarage ==
  ASSUME IGarage, linha' = 0, coletadas' = {},
         garage \subseteq garage', garage' \subseteq Range(Roteiro), env' \subseteq Chaves,
         diz' = diz,
         \/ saida' = "falha" /\ falhou' = TRUE
         \/ saida' = "falha" /\ \E l \in garage : l.cmd \in Criacoes /\ ~Reconhece(l.cmd) /\ falhou' = falhou
         \/ saida' = "ok" /\ falhou' = falhou /\ garage' = Range(Roteiro)
  PROVE  IGarage'
<1>1. Feitas'
  BY DEF Feitas
<1>2. OkCompleto' /\ Retomavel'
  BY DEF OkCompleto, Retomavel, Reconhece
<1>3. linha' \in 0..(Len(Roteiro) + 1)
  BY Linhas
<1> QED
  BY <1>1, <1>2, <1>3 DEF IGarage

LEMMA GarageIgual ==
  ASSUME IGarage, UNCHANGED garageVars
  PROVE  IGarage'
  BY DEF IGarage, garageVars, Feitas, OkCompleto, Retomavel, Reconhece

LEMMA KafkaIgual ==
  ASSUME IKafka, UNCHANGED kafkaVars
  PROVE  IKafka'
  BY DEF IKafka, kafkaVars, FeitasKafka, KafkaCompleto

(* The Kafka script reads on: the topic exists, or its error was told.     *)
LEMMA AvancaTopico ==
  ASSUME IKafka, ExecutaKafka, AvancaKafka,
         topicos \subseteq topicos', topicos' \subseteq topicos \cup {Topico},
         errosKafka \subseteq errosKafka', errosKafka' \subseteq errosKafka \cup {Topico},
         Topico \in topicos' \cup errosKafka'
  PROVE  IKafka'
<1>1. linhaKafka \in 1..Len(RoteiroKafka) /\ Topico = RoteiroKafka[linhaKafka]
  BY Linhas DEF ExecutaKafka, Topico
<1>2. linhaKafka' = linhaKafka + 1 /\ saidaKafka' = saidaKafka
  BY DEF AvancaKafka
<1>3. linhaKafka' \in 0..(Len(RoteiroKafka) + 1)
  BY <1>1, <1>2, Linhas
<1>4. Topico \in Range(RoteiroKafka)
  BY <1>1, Linhas
<1>5. topicos' \subseteq Range(RoteiroKafka) /\ errosKafka' \subseteq Range(RoteiroKafka)
  BY <1>4 DEF IKafka
<1>6. FeitasKafka'
  <2>1. ASSUME NEW i \in 1..(linhaKafka' - 1)
        PROVE  RoteiroKafka[i] \in topicos' \cup errosKafka'
    <3>1. CASE i = linhaKafka
      BY <1>1, <3>1
    <3>2. CASE i # linhaKafka
      <4>1. i \in 1..(linhaKafka - 1)
        BY <1>1, <1>2, <3>2, Linhas
      <4> QED
        BY <4>1 DEF IKafka, FeitasKafka
    <3> QED
      BY <3>1, <3>2
  <2> QED
    BY <2>1 DEF FeitasKafka
<1>7. KafkaCompleto'
  BY <1>2 DEF IKafka, KafkaCompleto
<1> QED
  BY <1>2, <1>3, <1>5, <1>6, <1>7 DEF IKafka

-----------------------------------------------------------------------------
LEMMA InitIInv == Init => IInv
<1> SUFFICES ASSUME Init PROVE IInv
  OBVIOUS
<1>1. IGarage
  <2>1. linha \in 0..(Len(Roteiro) + 1) /\ Feitas
    BY Linhas DEF Init, Feitas
  <2>2. falhou \in BOOLEAN
    BY Zenon DEF Init
  <2>3. OkCompleto /\ Retomavel
    BY DEF Init, OkCompleto, Retomavel
  <2>4. garage = {} /\ env = {} /\ coletadas = {} /\ saida = "nunca"
        /\ diz \in [Criacoes -> SUBSET Palavras]
    BY DEF Init
  <2> QED
    BY <2>1, <2>2, <2>3, <2>4 DEF IGarage
<1>2. IKafka
  BY Linhas DEF Init, IKafka, FeitasKafka, KafkaCompleto
<1>3. IGasto
  BY DEF Init, IGasto
<1> QED
  BY <1>1, <1>2, <1>3 DEF IInv

(* The steps of the Garage script.                                         *)
LEMMA PassoGarage ==
  ASSUME IInv, Comeca \/ Sucesso \/ GarageRecusa \/ ExecFalha \/ WriteEnvFile \/ Interrompe
  PROVE  IInv'
<1>0. IGarage /\ IKafka /\ IGasto
  BY DEF IInv
<1>1. IKafka'
  BY <1>0, KafkaIgual
  DEF Comeca, Sucesso, GarageRecusa, ExecFalha, WriteEnvFile, Interrompe
<1>2. IGasto'
  <2>1. CASE Comeca
    BY <1>0, <2>1, GastaTipo, MigradoresAssumption DEF Comeca
  <2>2. CASE ExecFalha \/ Interrompe
    BY <1>0, <2>2, GastaTipo, MigradoresAssumption DEF ExecFalha, Interrompe
  <2>3. CASE Sucesso \/ GarageRecusa \/ WriteEnvFile
    BY <1>0, <2>3 DEF IGasto, Sucesso, GarageRecusa, WriteEnvFile
  <2> QED
    BY <2>1, <2>2, <2>3
<1>3. IGarage'
  <2>1. CASE Comeca
    <3>1. linha' \in 0..(Len(Roteiro) + 1) /\ Feitas'
      BY <2>1, Linhas DEF Comeca, Feitas
    <3> QED
      BY <1>0, <2>1, <3>1 DEF Comeca, IGarage, OkCompleto, Retomavel
  <2>2. CASE Sucesso
    <3> DEFINE novas == IF Atual.cmd = "create-key" THEN {Atual.chave} ELSE {}
    <3>1. Executa /\ Passa(novas) /\ garage' = garage \cup {Atual} /\ env' = env /\ diz' = diz
      BY <2>2 DEF Sucesso
    <3>2. Atual \in Range(Roteiro) /\ novas \in SUBSET Chaves
      BY <1>0, <3>1, LinhaAtual
    <3>3. garage \subseteq garage' /\ garage' \subseteq Range(Roteiro) /\ Atual \in garage'
      BY <1>0, <3>1, <3>2 DEF IGarage
    <3> QED
      BY <1>0, <3>1, <3>2, <3>3, AvancaGarage
  <2>3. CASE GarageRecusa
    <3>1. Executa /\ garage' = garage /\ env' = env /\ diz' = diz
      BY <2>3 DEF GarageRecusa
    <3>2. Possivel /\ Atual.cmd \in {"create-bucket", "create-key", "allow-bucket"}
      BY <1>0, <3>1, LinhaAtual
    <3>3. Atual \in garage /\ Atual.cmd \in Criacoes
      BY <2>3, <3>2 DEF GarageRecusa, Criacoes
    <3>4. garage \subseteq Range(Roteiro) /\ env \subseteq Chaves
      BY <1>0 DEF IGarage
    <3>5. CASE Tolera
      <4>1. Passa({})
        BY <2>3, <3>5 DEF GarageRecusa
      <4> QED
        BY <1>0, <3>1, <3>3, <3>4, <4>1, AvancaGarage
    <3>6. CASE ~Tolera
      <4>1. Falha(falhou) /\ ~Reconhece(Atual.cmd)
        BY <2>3, <3>3, <3>6 DEF GarageRecusa, Tolera
      <4> QED
        BY <1>0, <3>1, <3>3, <3>4, <4>1, ParaGarage DEF Falha
    <3> QED
      BY <3>5, <3>6
  <2>4. CASE ExecFalha
    <3>1. Executa /\ garage' \in {garage, garage \cup {Atual}} /\ Falha(TRUE) /\ env' = env
          /\ diz' = diz
      BY <2>4 DEF ExecFalha
    <3>2. Atual \in Range(Roteiro)
      BY <1>0, <3>1, LinhaAtual
    <3>3. garage \subseteq garage' /\ garage' \subseteq Range(Roteiro) /\ env' \subseteq Chaves
      BY <1>0, <3>1, <3>2 DEF IGarage
    <3> QED
      BY <1>0, <3>1, <3>3, ParaGarage DEF Falha
  <2>5. CASE WriteEnvFile
    <3>1. garage' = garage /\ garage = Range(Roteiro)
      <4>1. linha - 1 = Len(Roteiro)
        BY <2>5, Linhas DEF WriteEnvFile
      <4>2. Range(Roteiro) \subseteq garage
        BY <1>0, <4>1, Linhas DEF IGarage, Feitas
      <4> QED
        BY <1>0, <2>5, <4>2 DEF WriteEnvFile, IGarage
    <3>2. env' \subseteq Chaves
      BY <1>0, <2>5 DEF WriteEnvFile, IGarage
    <3> QED
      BY <1>0, <2>5, <3>1, <3>2, ParaGarage DEF WriteEnvFile
  <2>6. CASE Interrompe
    <3>1. env' \subseteq Chaves /\ garage' = garage /\ garage \subseteq Range(Roteiro) /\ diz' = diz
      BY <1>0, <2>6 DEF Interrompe, IGarage
    <3> QED
      BY <1>0, <2>6, <3>1, ParaGarage DEF Interrompe
  <2> QED
    BY <2>1, <2>2, <2>3, <2>4, <2>5, <2>6
<1> QED
  BY <1>1, <1>2, <1>3 DEF IInv

(* The steps of the Kafka script.                                          *)
LEMMA PassoKafka ==
  ASSUME IInv, ComecaKafka \/ HandleCreateTopic \/ CreateTopicFalha \/ TerminaKafka
  PROVE  IInv'
<1>0. IGarage /\ IKafka /\ IGasto
  BY DEF IInv
<1>1. IGarage'
  BY <1>0, GarageIgual DEF ComecaKafka, HandleCreateTopic, CreateTopicFalha, TerminaKafka
<1>2. IGasto'
  <2>1. CASE ComecaKafka \/ CreateTopicFalha
    BY <1>0, <2>1, GastaTipo, MigradoresAssumption DEF ComecaKafka, CreateTopicFalha
  <2>2. CASE HandleCreateTopic \/ TerminaKafka
    BY <1>0, <2>2 DEF IGasto, HandleCreateTopic, TerminaKafka
  <2> QED
    BY <2>1, <2>2
<1>3. IKafka'
  <2>1. CASE ComecaKafka
    <3>1. linhaKafka' \in 0..(Len(RoteiroKafka) + 1) /\ FeitasKafka'
      BY <2>1, Linhas DEF ComecaKafka, FeitasKafka
    <3> QED
      BY <1>0, <2>1, <3>1 DEF ComecaKafka, IKafka, KafkaCompleto
  <2>2. CASE HandleCreateTopic
    BY <1>0, <2>2, AvancaTopico DEF HandleCreateTopic
  <2>3. CASE CreateTopicFalha
    <3>1. /\ ExecutaKafka /\ AvancaKafka /\ errosKafka' = errosKafka \cup {Topico}
          /\ topicos' \in {topicos, topicos \cup {Topico}}
      BY <2>3 DEF CreateTopicFalha, SegueNoErro
    <3> QED
      BY <1>0, <3>1, AvancaTopico
  <2>4. CASE TerminaKafka
    <3>1. Range(RoteiroKafka) \subseteq topicos \cup errosKafka
      <4>1. linhaKafka - 1 = Len(RoteiroKafka)
        BY <2>4, Linhas DEF TerminaKafka
      <4> QED
        BY <1>0, <4>1, Linhas DEF IKafka, FeitasKafka
    <3>2. linhaKafka' \in 0..(Len(RoteiroKafka) + 1) /\ FeitasKafka'
      BY <2>4, Linhas DEF TerminaKafka, FeitasKafka
    <3> QED
      BY <1>0, <2>4, <3>1, <3>2 DEF TerminaKafka, IKafka, KafkaCompleto
  <2> QED
    BY <2>1, <2>2, <2>3, <2>4
<1> QED
  BY <1>1, <1>2, <1>3 DEF IInv

LEMMA IInvPasso == IInv /\ [Next]_vars => IInv'
<1> SUFFICES ASSUME IInv, [Next]_vars PROVE IInv'
  OBVIOUS
<1>1. CASE Next
  BY <1>1, PassoGarage, PassoKafka DEF Next
<1>2. CASE UNCHANGED vars
  <2>1. IGarage' /\ IKafka'
    BY <1>2, GarageIgual, KafkaIgual DEF IInv, vars
  <2>2. IGasto'
    BY <1>2 DEF IInv, IGasto, vars
  <2> QED
    BY <2>1, <2>2 DEF IInv
<1> QED
  BY <1>1, <1>2

LEMMA IInvSempre == Spec => []IInv
  BY InitIInv, IInvPasso, PTL DEF Spec

-----------------------------------------------------------------------------
(* The credentials: as long as no command failed and no run was cut short, *)
(* those of every key that exists are in .env or in the hands of the run.  *)
Cobertas == \A l \in garage : l.cmd = "create-key" => l.chave \in env \cup coletadas
(* Unless no run ever gets to the end any more: what a line ahead creates  *)
(* exists already, in words its command does not look for.                 *)
Travada == \E i \in 1..Len(Roteiro) :
  linha <= i /\ Roteiro[i] \in garage /\ Roteiro[i].cmd \in Criacoes /\ ~Reconhece(Roteiro[i].cmd)
IEnv ==
  /\ linha = 0 => coletadas = {}
  /\ saida = "ok" => linha = 0
  /\ gastoMigra["falhas"] = 0 => Cobertas \/ (saida # "ok" /\ Travada)

(* What a fault costs is not given back.                                   *)
LEMMA SemFalhasAntes ==
  ASSUME IGasto, NEW t \in {"falhas", "garage", "kafka"}, NEW m \in Nat, Gasta(t, m)
  PROVE  gastoMigra'["falhas"] = 0 => gastoMigra["falhas"] = 0 /\ t # "falhas"
BY SMT DEF IGasto, Gasta

(* A line passed over or done: its key, if it is new, was shown.           *)
LEMMA PassaEnv ==
  ASSUME IInv, IEnv, Sucesso \/ GarageRecusa
  PROVE  IEnv'
<1>0. IGarage /\ Executa /\ linha # 0 /\ saida # "ok" /\ diz' = diz
  BY LinhaAtual, Linhas DEF IInv, IEnv, Sucesso, GarageRecusa
<1>1. /\ linha \in 1..Len(Roteiro) /\ Len(Roteiro) \in Nat /\ Possivel
      /\ Atual.cmd \in {"create-bucket", "create-key", "allow-bucket"} /\ Atual = Roteiro[linha]
  BY <1>0, LinhaAtual, Linhas DEF Atual
<1>2. ASSUME NEW novas, Passa(novas), UNCHANGED <<env, gastoMigra>>,
             garage' = garage \/ (garage' = garage \cup {Atual} /\
                                 (Atual.cmd = "create-key" => Atual.chave \in novas)),
             Atual \in garage /\ Atual.cmd \in Criacoes => Reconhece(Atual.cmd)
      PROVE  IEnv'
  <2>1. linha' = linha + 1 /\ saida' = saida /\ coletadas' = coletadas \cup novas
    BY <1>2 DEF Passa, Coleta
  <2>2. linha' # 0
    BY <1>1, <2>1
  <2>3. Cobertas => Cobertas'
    BY <1>2, <2>1 DEF Cobertas
  <2>4. Travada => Travada'
    <3> SUFFICES ASSUME NEW i \in 1..Len(Roteiro), linha <= i, Roteiro[i] \in garage,
                        Roteiro[i].cmd \in Criacoes, ~Reconhece(Roteiro[i].cmd)
                 PROVE  Travada'
      BY DEF Travada
    <3>1. i # linha
      BY <1>1, <1>2
    <3>2. linha + 1 <= i
      BY <1>1, <3>1
    <3> QED
      BY <1>0, <1>2, <2>1, <3>2 DEF Travada, Reconhece
  <2> QED
    BY <1>0, <1>2, <2>1, <2>2, <2>3, <2>4 DEF IEnv
<1>3. CASE Sucesso
  BY <1>2, <1>3 DEF Sucesso, Criacoes
<1>4. CASE GarageRecusa /\ Tolera
  BY <1>1, <1>2, <1>4 DEF GarageRecusa, Tolera
<1>5. CASE GarageRecusa /\ ~Tolera
  <2>1. Roteiro[linha] \in garage /\ Roteiro[linha].cmd \in Criacoes /\ ~Reconhece(Roteiro[linha].cmd)
    BY <1>1, <1>5 DEF GarageRecusa, Tolera, Criacoes
  <2>2. linha' = 0 /\ coletadas' = {} /\ saida' = "falha" /\ garage' = garage
    BY <1>5 DEF GarageRecusa, Falha
  <2>3. PICK i \in 1..Len(Roteiro) : i = linha
    BY <1>1
  <2>4. linha' <= i
    BY <1>1, <2>2
  <2>5. Travada'
    BY <1>0, <2>1, <2>2, <2>3, <2>4 DEF Travada, Reconhece
  <2> QED
    BY <2>2, <2>5 DEF IEnv
<1> QED
  BY <1>3, <1>4, <1>5

LEMMA IEnvPasso == IInv /\ IEnv /\ [Next]_vars => IEnv'
<1> SUFFICES ASSUME IInv, IEnv, [Next]_vars PROVE IEnv'
  OBVIOUS
<1>0. IGasto /\ MaxFalhas \in Nat /\ MaxExecucoes \in Nat /\ Len(Roteiro) \in Nat
  BY MigradoresAssumption, Linhas DEF IInv
<1>1. CASE Comeca
  <2>1. gastoMigra'["falhas"] = 0 => gastoMigra["falhas"] = 0
    BY <1>0, <1>1, SemFalhasAntes DEF Comeca
  <2>2. Travada => Travada'
    <3>1. linha' = 1 /\ UNCHANGED <<garage, diz>>
      BY <1>1 DEF Comeca
    <3>2. \A i \in 1..Len(Roteiro) : linha' <= i
      BY <1>0, <3>1
    <3> QED
      BY <3>1, <3>2 DEF Travada, Reconhece
  <2> QED
    BY <1>1, <2>1, <2>2 DEF Comeca, IEnv, Cobertas
<1>2. CASE ExecFalha \/ Interrompe
  <2>1. gastoMigra'["falhas"] # 0
    BY <1>0, <1>2, SemFalhasAntes DEF ExecFalha, Interrompe
  <2> QED
    BY <1>2, <2>1 DEF ExecFalha, Interrompe, Falha, IEnv
<1>3. CASE WriteEnvFile
  <2>1. ~Travada
    BY <1>0, <1>3 DEF WriteEnvFile, Travada
  <2> QED
    BY <1>3, <2>1 DEF WriteEnvFile, IEnv, Cobertas
<1>4. CASE ComecaKafka \/ HandleCreateTopic \/ CreateTopicFalha \/ TerminaKafka \/ UNCHANGED vars
  <2>1. gastoMigra'["falhas"] = 0 => gastoMigra["falhas"] = 0
    <3>1. CASE ComecaKafka \/ CreateTopicFalha
      BY <1>0, <3>1, SemFalhasAntes DEF ComecaKafka, CreateTopicFalha
    <3>2. CASE HandleCreateTopic \/ TerminaKafka \/ UNCHANGED vars
      BY <3>2 DEF HandleCreateTopic, TerminaKafka, vars
    <3> QED
      BY <1>4, <3>1, <3>2
  <2>2. UNCHANGED garageVars
    BY <1>4 DEF ComecaKafka, HandleCreateTopic, CreateTopicFalha, TerminaKafka, vars
  <2> QED
    BY <2>1, <2>2 DEF garageVars, IEnv, Cobertas, Travada, Reconhece
<1> QED
  BY <1>1, <1>2, <1>3, <1>4, PassaEnv DEF Next

-----------------------------------------------------------------------------
(* The states of the two scripts are those the type invariant lists.       *)
THEOREM TypeCorrect == Spec => []TypeOK
<1>1. IInv => TypeOK
  BY DEF IInv, IGarage, IKafka, IGasto, TypeOK
<1> QED
  BY IInvSempre, <1>1, PTL

(* migrator.go:44-55: a run that ends well has every line in effect,       *)
(* whatever the runs before it left behind.                                *)
THEOREM ExecucaoCompleta == Spec => []OkCompleto
<1>1. IInv => OkCompleto
  BY DEF IInv, IGarage
<1> QED
  BY IInvSempre, <1>1, PTL

(* migrator.go:124,162, for every wording of Garage and every file: without*)
(* a fault from outside a run fails only of a bucket or key that exists and*)
(* is reported in words its command does not look for; a permission never  *)
(* stops a run, for it comes after what it names.                          *)
THEOREM ExecucaoRetomavel == Spec => []Retomavel
<1>1. IInv => Retomavel
  BY DEF IInv, IGarage
<1> QED
  BY IInvSempre, <1>1, PTL

(* kafka_migration.go:104-112: a topic that is missing after a run was     *)
(* reported by it.                                                         *)
THEOREM TopicosOuErros == Spec => []KafkaCompleto
<1>1. IInv => KafkaCompleto
  BY DEF IInv, IKafka
<1> QED
  BY IInvSempre, <1>1, PTL

(* writeEnvFile, configurando_garage.md:36: when no command has failed and *)
(* no run was interrupted, a run that ends well leaves the credentials of  *)
(* every key of the files in .env, although they are shown only once and   *)
(* the keys that exist already are passed over without them.  (A run that  *)
(* does not recognise them fails, and so does every later one.)            *)
THEOREM EnvTemAsChaves == Spec => []EnvCompleto
<1>1. Init => IEnv
  BY DEF Init, IEnv, Cobertas
<1>2. IInv /\ IEnv => EnvCompleto
  <2> SUFFICES ASSUME IInv, IEnv, saida = "ok", gastoMigra["falhas"] = 0 PROVE env = Chaves
    BY DEF EnvCompleto
  <2>1. garage = Range(Roteiro) /\ coletadas = {} /\ Cobertas /\ env \subseteq Chaves
    BY DEF IInv, IGarage, OkCompleto, IEnv
  <2>2. Chaves \subseteq env
    BY <2>1 DEF Chaves, Cobertas
  <2> QED
    BY <2>1, <2>2
<1> QED
  BY <1>1, <1>2, IEnvPasso, IInvSempre, PTL DEF Spec

=============================================================================
