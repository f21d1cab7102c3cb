SPECIFICATION Spec
CONSTANTS
  Pontos = {"p1", "p2"}
  Comandaveis = {"p1", "p2"}
  Intertravados = {}
  Manuais = {}
  Esperas = 1
  Tentativas = 2
  MaxFechamentos = 1
PROPERTIES
  ComandoMostrado
