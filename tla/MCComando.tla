------------------------------ MODULE MCComando ------------------------------
(* One server, two operators and three points for TLC.                       *)
EXTENDS Comando

CONSTANTS s1, o1, o2

UmServidor == {s1}
UmOperador == {o1}
DoisOperadores == {o1, o2}
NoMesmo == [o \in Operadores |-> s1]

(* p1 and p2 have the same address in two RTUs; p1 and p3 are selected      *)
(* before they are executed.                                                *)
TresPontos == {"p1", "p2", "p3"}
Enderecamento == [p \in Pontos |-> IF p = "p3" THEN "f" ELSE "e"]
UTRs3 == [p \in Pontos |-> CASE p = "p1" -> 1 [] p = "p2" -> 2 [] OTHER -> 0]
Linhas == [p \in Pontos |-> CASE p = "p1" -> 1 [] p = "p2" -> 2 [] OTHER -> 3]
MenosP2 == [p \in Pontos |-> p # "p2"]
TodosSBO == [p \in Pontos |-> TRUE]
=============================================================================
