SPECIFICATION FairSpec
CONSTANTS
  Claims = {c1}
  MaxFalhas = 0
  MaxSessoes = 1
CHECK_DEADLOCK FALSE
PROPERTIES SempreEncerra
