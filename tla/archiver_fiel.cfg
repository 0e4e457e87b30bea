SPECIFICATION FairSpec
CONSTANTS
  e3 = e3  p1 = p1  p2 = p2
  EventIds = {e1, e2, e3}
  Particoes = {p1, p2}
  ParticaoDo <- DuasParticoes
  MaxCopias <- UmaOuDuas
  MaxFalhas = 3
  MaxCortes = 1
  MaxSessoes = 1
  MaxReinicios = 1
CHECK_DEADLOCK FALSE
INVARIANTS TypeOK GravadoOuDesistido
PROPERTIES FielAoTopico ArquivaTudo
