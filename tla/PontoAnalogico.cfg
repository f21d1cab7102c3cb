SPECIFICATION LiveSpec
CONSTANTS
  p1 = p1
  Vazio = Vazio
  Pontos <- UmPonto
  Cadastros <- Variados
  Valores <- Valores2
  Faixas <- Faixas2
  Limites <- Limites2
  Histereses = {1}
  LIMINFMIN <- LimInfMin
  LIMSUPMAX = 7
INVARIANTS
  AlarmeViolando
  EventoDaRegiao
PROPERTIES
  CumpreAnunciador
  RegiaoAposEscrita
  SemOscilacao
  AtrasadoBipa
  AtrasadoResolve
