SPECIFICATION Spec
CONSTANTS
  p1 = p1
  Pontos <- UmPonto
  Cadastros <- Variados
  Informacoes <- DoCampo
  ALARMA_DUPLA_TRANSICAO = FALSE
INVARIANTS
  EstadoCoerente
  AlarmeEEvento
PROPERTIES
  CumpreAnunciador
  TransicaoAlarma
  VoltaNormaliza
  PulsoAlarma
