SPECIFICATION FairSpec
CONSTANTS
  f1 = f1  f2 = f2  f3 = f3  p1 = p1  p2 = p2  p3 = p3  u1 = u1  h1 = h1  h2 = h2
  Arquivos = {f1, f2}
  Usuarios = {u1}
  Hashes = {h1, h2}
  Decodificaveis = {h1, h2}
  Particoes = {p1, p2}
  ParticaoDe <- DuasParticoes
  Nenhum = Nenhum
  Envios <- MesmoConteudo
  MaxErros = 0
  MaxOcupadas = 0
  MaxSessoesConsulta = 0
  MaxReinicios = 0
CHECK_DEADLOCK FALSE
PROPERTIES FotoSoComZero
