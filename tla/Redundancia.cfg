SPECIFICATION Spec
CONSTANTS
  a = a
  b = b
  Nos <- Dois
  ForcePrimary = {}
  CntToBePrimary = 3
  MaxFalhas = 6
INVARIANTS
  UmPrimario
PROPERTIES
  OutroAssume
  CumpreTurno
  SecundarioDesconecta
  Estabiliza
