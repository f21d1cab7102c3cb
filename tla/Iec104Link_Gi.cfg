SPECIFICATION Spec
CONSTANTS
  T1 = 1
  T2 = 3
  T3 = 1
  TGI = 1
  TRepete = 2
  TPeriodo = 2
  ModSeq = 3
  K = 2
  MaxVolta = 2
  MaxFalhas = 1
PROPERTIES
  DadosIniciais
