SPECIFICATION Spec
CONSTANTS
  T1 = 1
  T2 = 3
  T3 = 1
  TGI = 1
  TRepete = 1
  TPeriodo = 2
  ModSeq = 4
  K = 3
  MaxVolta = 2
  MaxFalhas = 2
INVARIANTS
  SeqCerta
  ConfirmacaoEmDia
PROPERTIES
  QuedaSoComQuebra
  SemLacuna
