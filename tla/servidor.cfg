SPECIFICATION FairSpec
CONSTANTS
  p1 = p1
  Arquivos = {f1, f2}
  Usuarios = {u1}
  Hashes = {h1}
  Decodificaveis = {h1}
  Particoes = {p1}
  ParticaoDe <- UmaParticao
  Nenhum = Nenhum
  Leitores = {l1, l2}
  MaxChunks = 2
  MaxExclusoes = 1
  MaxFalhasPut = 1
  MaxPerdas = 1
  MaxMortes = 1
CHECK_DEADLOCK FALSE
INVARIANTS TypeOK ObjetoInteiro
PROPERTIES ImplementaApi NuncaTrava AceitoEAnunciado
