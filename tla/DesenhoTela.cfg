SPECIFICATION Spec
CONSTANTS
  Digitais <- MCDigitais
  Analogicos <- MCAnalogicos
  Opacos <- MCOpacos
  Versoes <- MCVersoes
  Datas <- MCDatas
  Alarma <- MCAlarma
  Liga <- MCLiga
  Historico <- MCHistorico
INVARIANTS
  FalhaVisivel
  HistoricoSai
  EscondidoNaoPisca
  MeiaLembrada
  AlarmesPiscam
