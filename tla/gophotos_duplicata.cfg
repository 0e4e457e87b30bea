SPECIFICATION Sistema
CONSTANTS
  f1 = f1  p1 = p1  p2 = p2
  Arquivos = {f1, f2}
  Usuarios = {u1}
  Hashes = {h1}
  Decodificaveis = {h1}
  Particoes = {p1}
  ParticaoDe <- UmaParticao
  Nenhum = Nenhum
  MaxExclusoes = 1
  MaxFalhas = 0
  MaxPerdas = 0
  MaxQuedas = 0
  MaxSessoes = 0
  MaxErros = 0
  MaxOcupadas = 0
  MaxSessoesConsulta = 0
  MaxReinicios = 0
CHECK_DEADLOCK FALSE
INVARIANTS LinhaTemFoto
