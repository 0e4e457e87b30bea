SPECIFICATION Spec
CONSTANTS
  f1 = f1  p1 = p1  p2 = p2  h1 = h1
  Arquivos = {f1, f2}
  Usuarios = {u1}
  Hashes = {h1}
  Decodificaveis <- Imagens
  Particoes = {p1, p2}
  ParticaoDe <- OutraParticao
  Nenhum = Nenhum
  MaxExclusoes = 0
  MaxFalhas = 1
  MaxPerdas = 1
  MaxQuedas = 1
  MaxSessoes = 0
CHECK_DEADLOCK FALSE
INVARIANTS EventoTemFoto ThumbnailACaminho MarcadoTemResposta ExecutadoTemLinha
