SPECIFICATION Spec
CONSTANTS
  Pontos = {"p1"}
  Comandaveis = {"p1"}
  Intertravados = {}
  Manuais = {"p1"}
  Esperas = 1
  Tentativas = 2
  MaxFechamentos = 1
PROPERTIES
  RepeticaoAcaba
  PontoLiberado
