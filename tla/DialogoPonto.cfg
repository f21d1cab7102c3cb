SPECIFICATION Spec
CONSTANTS
  Pontos = {"p1", "p2"}
  Comandaveis = {"p1", "p2"}
  Intertravados = {"p2"}
  Manuais = {"p1"}
  Esperas = 0
  Tentativas = 2
  MaxFechamentos = 1
INVARIANTS
  JanelaDona
