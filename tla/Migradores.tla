----------------------------- MODULE Migradores -----------------------------
(***************************************************************************)
(* The two scripts an operator runs, and runs again, to prepare the        *)
(* infrastructure.  garage-s3/migrator.go executes the lines of its files  *)
(* in order, stops at the first that fails, and writes the access keys it  *)
(* collected to .env once all is done.  kafka/kafka_migration.go goes on   *)
(* after a failure and keeps no record of it.  No run knows of the earlier *)
(* ones but by what Garage and Kafka answer.                               *)
(*                                                                         *)
(* The files are one sequence of lines, Roteiro, without the blank ones.   *)
(* What Garage prints when it refuses to create what exists already is no  *)
(* part of the repository: diz is any wording, as far as the script tells  *)
(* one from another.                                                       *)
(***************************************************************************)
EXTENDS Integers, Sequences, FiniteSets, Functions

CONSTANTS Roteiro,       \* garage-s3/migrate/*.txt
          RoteiroKafka,  \* kafka/migrations/*.txt: the topics, in order
          MaxFalhas,     \* bound: commands that fail, and scripts interrupted
          MaxExecucoes   \* bound: times each script is started

CreateBucket(b) == [cmd |-> "create-bucket", bucket |-> b]
CreateKey(k) == [cmd |-> "create-key", chave |-> k]
AllowBucket(b, k) == [cmd |-> "allow-bucket", bucket |-> b, chave |-> k]

ASSUME MigradoresAssumption == MaxFalhas \in Nat /\ MaxExecucoes \in Nat

(* The lines are commands, and a permission comes after the lines that     *)
(* create what it names, as in every file of the repository.               *)
ASSUME RoteiroAssumption ==
  /\ Roteiro \in Seq(Range(Roteiro)) /\ RoteiroKafka \in Seq(Range(RoteiroKafka))
  /\ \A i \in DOMAIN Roteiro :
       /\ Roteiro[i].cmd \in {"create-bucket", "create-key", "allow-bucket"}
       /\ Roteiro[i].cmd = "allow-bucket" =>
            {CreateBucket(Roteiro[i].bucket), CreateKey(Roteiro[i].chave)}
              \subseteq {Roteiro[j] : j \in 1..(i - 1)}

VARIABLES
  diz,        \* per creation Garage refuses, which of the words are in its output
  garage,     \* the lines in effect: buckets, keys and permissions
  env,        \* keys whose credentials are in .env
  linha,      \* next line, 0 when the script is not running
  coletadas,  \* keys whose credentials the script holds in memory
  saida,      \* of the last run: "nunca", "roda", "ok" or "falha"
  falhou,     \* a command failed by no fault of its line in that run
  topicos,    \* topics of Kafka
  linhaKafka, saidaKafka,
  errosKafka, \* topics the run reported as failed
  gastoMigra

garageVars == <<diz, garage, env, linha, coletadas, saida, falhou>>
kafkaVars == <<topicos, linhaKafka, saidaKafka, errosKafka>>
vars == <<garageVars, kafkaVars, gastoMigra>>

Gasta(tipo, max) ==
  gastoMigra[tipo] < max /\ gastoMigra' = [gastoMigra EXCEPT ![tipo] = @ + 1]

Atual == Roteiro[linha]
Executa == linha \in DOMAIN Roteiro
Criacoes == {"create-bucket", "create-key"}
Palavras == {"already exists", "Exists"}
Chaves == {l.chave : l \in {x \in Range(Roteiro) : x.cmd = "create-key"}}

-----------------------------------------------------------------------------
Comeca ==
  /\ linha = 0 /\ Gasta("garage", MaxExecucoes)
  /\ linha' = 1 /\ coletadas' = {} /\ saida' = "roda" /\ falhou' = FALSE
  /\ UNCHANGED <<diz, garage, env, kafkaVars>>

(* Slip: log.Printf in the place of log.Fatalf.                            *)
FalhaESegue(porFora) ==
  linha' = linha + 1 /\ falhou' = porFora /\ UNCHANGED <<coletadas, saida>>
(* log.Fatalf: what was collected is lost with the process.                *)
Falha(porFora) ==
  linha' = 0 /\ coletadas' = {} /\ saida' = "falha" /\ falhou' = porFora

(* Slip: the keys of a line replace those of the lines before.             *)
ColetaSo(novas) == coletadas' = IF novas = {} THEN coletadas ELSE novas
(* Slip: credentials are taken from every line.                            *)
ColetaDaLinha(novas) == coletadas' = coletadas \cup {Atual.bucket}
(* append(collectedEnvVars, vars...)                                       *)
Coleta(novas) == coletadas' = coletadas \cup novas

Passa(novas) ==
  linha' = linha + 1 /\ Coleta(novas) /\ UNCHANGED <<saida, falhou>>

(* What allow-bucket names must exist.                                     *)
Possivel == Atual.cmd = "allow-bucket" =>
  {CreateBucket(Atual.bucket), CreateKey(Atual.chave)} \subseteq garage

(* execGarage succeeds.  A permission may be given again; a new key shows  *)
(* its credentials, and only then.                                         *)
Sucesso ==
  /\ Executa /\ Possivel
  /\ Atual.cmd = "allow-bucket" \/ Atual \notin garage
  /\ garage' = garage \cup {Atual}
  /\ Passa(IF Atual.cmd = "create-key" THEN {Atual.chave} ELSE {})
  /\ UNCHANGED <<diz, env, kafkaVars, gastoMigra>>

(* Of a bucket the output must say "already exists"; of a key it must say  *)
(* "Exists": there "already exists" is looked for in err.Error() only,     *)
(* which execGarage leaves at "exit status 1".                             *)
Reconhece(cmd) == (IF cmd = "create-key" THEN "Exists" ELSE "already exists") \in diz[cmd]
(* Slip: the same words are looked for after both commands.                *)
ToleraIgual == Atual.cmd \in Criacoes /\ "already exists" \in diz[Atual.cmd]
(* "Recurso já existente, pulando...", "A chave já existe no cluster".  An *)
(* allow-bucket is refused for what is missing, with none of these words.  *)
Tolera == Atual.cmd \in Criacoes /\ Reconhece(Atual.cmd)

(* Garage refuses what exists already, which if recognised is passed over  *)
(* without its credentials, and a permission that names what does not exist.*)
GarageRecusa ==
  /\ Executa
  /\ ~Possivel \/ (Atual.cmd # "allow-bucket" /\ Atual \in garage)
  /\ IF Tolera THEN Passa({}) ELSE Falha(falhou)
  /\ UNCHANGED <<diz, garage, env, kafkaVars, gastoMigra>>

(* docker exec fails, before or after the command took effect.             *)
ExecFalha ==
  /\ Executa /\ Possivel /\ Gasta("falhas", MaxFalhas)
  /\ garage' \in {garage, garage \cup {Atual}}
  /\ Falha(TRUE)
  /\ UNCHANGED <<diz, env, kafkaVars>>

(* writeEnvFile appends the keys collected, if any; the script ends.       *)
WriteEnvFile ==
  /\ linha = Len(Roteiro) + 1
  /\ env' = env \cup coletadas
  /\ linha' = 0 /\ coletadas' = {} /\ saida' = "ok"
  /\ UNCHANGED <<diz, garage, falhou, kafkaVars, gastoMigra>>

(* The write fails half way, or the operator interrupts the script.        *)
Interrompe ==
  /\ linha # 0 /\ Gasta("falhas", MaxFalhas)
  /\ \E parte \in SUBSET coletadas :
       /\ linha = Len(Roteiro) + 1 \/ parte = {}
       /\ env' = env \cup parte
  /\ linha' = 0 /\ coletadas' = {} /\ saida' = "falha" /\ falhou' = TRUE
  /\ UNCHANGED <<diz, garage, kafkaVars>>

-----------------------------------------------------------------------------
ComecaKafka ==
  /\ linhaKafka = 0 /\ Gasta("kafka", MaxExecucoes)
  /\ linhaKafka' = 1 /\ saidaKafka' = "roda" /\ errosKafka' = {}
  /\ UNCHANGED <<topicos, garageVars>>

Topico == RoteiroKafka[linhaKafka]
ExecutaKafka == linhaKafka \in DOMAIN RoteiroKafka
AvancaKafka == linhaKafka' = linhaKafka + 1 /\ UNCHANGED saidaKafka

(* Created, or ErrTopicAlreadyExists, told and passed over.                *)
HandleCreateTopic ==
  /\ ExecutaKafka
  /\ topicos' = topicos \cup {Topico} /\ AvancaKafka
  /\ UNCHANGED <<errosKafka, garageVars, gastoMigra>>

(* Slip: the first error ends the file.                                    *)
ParaNoErro == linhaKafka' = 0 /\ saidaKafka' = "fim"
(* The error is logged and the next line read.                             *)
SegueNoErro == AvancaKafka

(* An error, or the 10 s run out, with the topic created or not.           *)
CreateTopicFalha ==
  /\ ExecutaKafka /\ Gasta("falhas", MaxFalhas)
  /\ topicos' \in {topicos, topicos \cup {Topico}}
  /\ errosKafka' = errosKafka \cup {Topico}
  /\ SegueNoErro
  /\ UNCHANGED garageVars

TerminaKafka ==
  /\ linhaKafka = Len(RoteiroKafka) + 1
  /\ linhaKafka' = 0 /\ saidaKafka' = "fim"
  /\ UNCHANGED <<topicos, errosKafka, garageVars, gastoMigra>>

-----------------------------------------------------------------------------
Init ==
  /\ diz \in [Criacoes -> SUBSET Palavras]
  /\ garage = {} /\ env = {} /\ linha = 0 /\ coletadas = {}
  /\ saida = "nunca" /\ falhou = FALSE
  /\ topicos = {} /\ linhaKafka = 0 /\ saidaKafka = "nunca" /\ errosKafka = {}
  /\ gastoMigra = [t \in {"falhas", "garage", "kafka"} |-> 0]

Next ==
  \/ Comeca \/ Sucesso \/ GarageRecusa \/ ExecFalha \/ WriteEnvFile \/ Interrompe
  \/ ComecaKafka \/ HandleCreateTopic \/ CreateTopicFalha \/ TerminaKafka

Spec == Init /\ [][Next]_vars

-----------------------------------------------------------------------------
TypeOK ==
  /\ diz \in [Criacoes -> SUBSET Palavras]
  /\ garage \subseteq Range(Roteiro)
  /\ env \subseteq Chaves /\ coletadas \subseteq Chaves
  /\ linha \in 0..(Len(Roteiro) + 1) /\ linhaKafka \in 0..(Len(RoteiroKafka) + 1)
  /\ saida \in {"nunca", "roda", "ok", "falha"} /\ falhou \in BOOLEAN
  /\ saidaKafka \in {"nunca", "roda", "fim"}
  /\ topicos \subseteq Range(RoteiroKafka) /\ errosKafka \subseteq Range(RoteiroKafka)
  /\ gastoMigra \in [{"falhas", "garage", "kafka"} -> Nat]

(* A run that ends well leaves every bucket, key and permission of the     *)
(* files in place, whatever earlier runs did half way.                     *)
OkCompleto == saida = "ok" => garage = Range(Roteiro)

(* migrator.go:124,162, what exists already does not stop a run: without a *)
(* fault from outside a run fails only if Garage, of a bucket or a key that*)
(* an earlier run left behind, says so in words that command does not look *)
(* for; and never because of the order of its lines.                       *)
Retomavel == saida = "falha" =>
  falhou \/ \E l \in garage : l.cmd \in Criacoes /\ ~Reconhece(l.cmd)

(* configurando_garage.md:36: after the script .env has every key.  True   *)
(* if no command failed and no run was cut short: the credentials of the   *)
(* keys such a run created are shown once and lost with it.                *)
EnvCompleto == saida = "ok" /\ gastoMigra["falhas"] = 0 => env = Chaves

(* A topic is missing after a run only if that run reported it.            *)
KafkaCompleto == saidaKafka = "fim" => Range(RoteiroKafka) \subseteq topicos \cup errosKafka

=============================================================================
