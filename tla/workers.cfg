SPECIFICATION FairSpec
CONSTANTS
  Claims = {c1, c2}
  MaxFalhas = 2
  MaxSessoes = 3
CHECK_DEADLOCK FALSE
INVARIANTS TypeOK ReadyFechaUmaVez
PROPERTIES SempreEmSessao EncerraComSessao
