SPECIFICATION Spec
CONSTANTS
  Tentativas = 1
  MaxPedidos = 1
  MaxOrfaos = 2
INVARIANTS
  NuncaCongelada
PROPERTIES
  FalhaDeclarada
  VoltaAoPresente
  MaquinaAquieta
