------------------------------ MODULE GoPhotos ------------------------------
(***************************************************************************)
(* The whole path of a photo: API, registro processor and consulta         *)
(* processor over the same topics and the same buckets.  The two sides     *)
(* share no memory and no table: a step of the system is a step of one.    *)
(***************************************************************************)
EXTENDS Registro

CONSTANTS MaxErros, MaxOcupadas, MaxSessoesConsulta, MaxReinicios

VARIABLES consulta, visao, transacao, conexao, lido, gravado, passo, erros,
          sessao, gastoConsulta

C == INSTANCE Consulta

consultaVars == <<consulta, visao, transacao, conexao, lido, gravado, passo,
                  erros, sessao, gastoConsulta>>

sistemaVars == <<vars, consultaVars>>

SistemaInit == Init /\ C!ConsultaInit

SistemaNext == \/ Next /\ UNCHANGED consultaVars
               \/ C!ConsultaNext /\ UNCHANGED <<exclusoes, registroVars>>

Sistema == SistemaInit /\ [][SistemaNext]_sistemaVars

(* Each processor keeps running, and the producer keeps delivering.        *)
SistemaJusto == Sistema /\ \A p \in Particoes :
  /\ WF_sistemaVars(Handler(p) /\ UNCHANGED <<exclusoes, consultaVars>>)
  /\ WF_sistemaVars(EntregaComando(p) /\ UNCHANGED <<exclusoes, consultaVars>>)
  /\ WF_sistemaVars(EntregaMedia(p) /\ UNCHANGED <<exclusoes, consultaVars>>)
  /\ WF_sistemaVars(C!HandlerConsulta(p) /\ UNCHANGED <<exclusoes, registroVars>>)

-----------------------------------------------------------------------------
(* A content announced by an upload stays in the bucket photos until some  *)
(* deletion of a file with that content has been announced: the collector  *)
(* runs on nothing else, and the upload path stores before it announces,   *)
(* whichever step of the other program or restart of it comes in between.  *)
FotoAteExclusao == \A e \in Emitidos : e.tipo = "upload" =>
  e.hash \in photos \/ \E d \in Todas(media) : d.tipo = "delete" /\ d.hash = e.hash

(* The read side never drops a file the command side still has: the row of *)
(* registro is deleted before the event that makes consulta delete its own *)
(* (unless registro crashed: a replayed answer brings its row back).       *)
ExclusaoPassaPeloRegistro ==
  [][\A f \in Arquivos : gasto["quedas"] = 0 /\ consulta[f] # Nenhum /\ consulta'[f] = Nenhum
                         => registro[f] = Nenhum]_<<consulta, registro>>

ConteudosDistintos ==
  \A f, g \in Arquivos : f # g /\ temp[f] # Nenhum => temp[f] # temp[g]

(* README, "sincronizar a tabela": when nothing fails, both tables settle  *)
(* on the same rows however the two topics are delivered and read, at      *)
(* least while no content is sent twice (the collection of a shared photo  *)
(* is what LinhaTemFoto is about).                                         *)
TabelasConvergem == <>[](C!SemFalhas /\ ConteudosDistintos => consulta = registro)

(* Nothing is left to read, to do or to deliver on either side.            *)
TudoQuieto == Quieto /\ \A p \in Particoes : passo[p] = "livre" /\ ~C!TemEvento(p)

(* README, "Ingestão e Deduplicação Física": a duplicate spares storage    *)
(* because the file already exists there and only a logical pointer is     *)
(* made; a row at rest would then point to a stored photo.                 *)
LinhaTemFoto == TudoQuieto =>
  \A f \in Arquivos : consulta[f] # Nenhum => consulta[f].hash \in photos

=============================================================================
