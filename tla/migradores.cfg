SPECIFICATION Spec
CONSTANTS
  Roteiro <- OsArquivos
  RoteiroKafka <- OsTopicos
  MaxFalhas = 2
  MaxExecucoes = 3
CHECK_DEADLOCK FALSE
INVARIANTS TypeOK OkCompleto Retomavel EnvCompleto KafkaCompleto
