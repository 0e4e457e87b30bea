SPECIFICATION FairSpec
CONSTANTS
  f1 = f1  p1 = p1  p2 = p2  h1 = h1
  Arquivos = {f1, f2}
  Usuarios = {u1, u2}
  Hashes = {h1, h2}
  Decodificaveis <- Imagens
  Particoes = {p1}
  ParticaoDe <- MesmaParticao
  Nenhum = Nenhum
  MaxExclusoes = 1
  MaxFalhas = 0
  MaxPerdas = 0
  MaxQuedas = 0
  MaxSessoes = 1
CHECK_DEADLOCK FALSE
INVARIANTS TypeOK EventoVemDoDono LinhaTemEvento TabelaConcordaComTopico UmaResposta
PROPERTIES ImplementaCatalogo PedidoRespondido
