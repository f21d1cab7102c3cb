---------------------------- MODULE MCPontoDigital ----------------------------
(* The configurations of the point list that TLC gives to the points.       *)
EXTENDS PontoDigital

CONSTANT p1

Supervisionado(estado) ==
  [estadoAlarme |-> estado, codOrigem |-> NORMAL, inverte |-> FALSE,
   gera |-> FALSE, temporizacao |-> 0, bipa |-> TRUE, disjuntor |-> FALSE]

UmPonto == {p1}

(* What the field sends: every state with and without timetag, two of them *)
(* also failed, for the pure event and the breaker, and two with a timetag *)
(* that is not a date.                                                     *)
DoCampo ==
  {i \in Informacao :
     /\ ~i.subst
     /\ i.falha => i.tag = "boa" /\ i.duplo \in {ESTDUP_INDETERMINADO, ESTDUP_OFF}
     /\ i.tag = "ruim" => i.duplo \in {ESTDUP_OFF, ESTDUP_ON}}

(* One point of each kind: the breaker (alarm state OFF), a point that      *)
(* alarms ON with a delay, a status that generates events, an inverted      *)
(* status, a pure event, a manual point and a command.                      *)
Variados ==
  {[Supervisionado(ESTALM_OFF) EXCEPT !.disjuntor = TRUE],
   [Supervisionado(ESTALM_ON) EXCEPT !.temporizacao = 1],
   [Supervisionado(ESTALM_ALL) EXCEPT !.gera = TRUE],
   [Supervisionado(ESTALM_ALL) EXCEPT !.inverte = TRUE],
   Supervisionado(ESTALM_EVT),
   [Supervisionado(ESTALM_ALL) EXCEPT !.codOrigem = MANUAL, !.bipa = FALSE],
   [Supervisionado(ESTALM_ALL) EXCEPT !.codOrigem = COMANDO]}
=============================================================================
