--------------------------- MODULE MCPontoAnalogico ---------------------------
(* Configurations, values and limits for TLC.                               *)
EXTENDS PontoAnalogico

CONSTANT p1

UmPonto == {p1}
Medida(atraso) == [temporizacao |-> atraso, evento |-> FALSE, bipa |-> TRUE]

(* A measurement, one that alarms after a delay, and an analog event.       *)
Variados == {Medida(0), Medida(1), [Medida(0) EXCEPT !.evento = TRUE]}

(* Both limits in the middle of the values, with and without hysteresis,    *)
(* and open ones.                                                           *)
Faixas2 == {<<2, 4, 1>>, <<-1, 7, 0>>}
LimInfMin == -1
Valores2 == {0, 2, 3, 4, 6}
(* -2 and 8 are beyond the extremes -1 and 7.                               *)
Limites2 == {-2, 0, 3, 8}
=============================================================================
