SPECIFICATION Spec
CONSTANTS
  s1 = s1
  o1 = o1
  o2 = o2
  Servidores <- UmServidor
  Operadores <- DoisOperadores
  Posto <- NoMesmo
  Pontos <- TresPontos
  Endereco <- Enderecamento
  UTR <- UTRs3
  SBO <- MenosP2
  Linha <- Linhas
  Escravo = 1
  UmaThread = TRUE
  MaxPedidos = 2
  MaxFalhas = 1
INVARIANTS
  RespostaNova
  ExecucaoCerta
  RespostaUnica
PROPERTIES
  UltimoRespondido
  CumpreCiclo
