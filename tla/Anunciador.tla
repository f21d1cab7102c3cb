----------------------------- MODULE Anunciador -----------------------------
(***************************************************************************)
(* What the web server promises the operator about alarms, whatever the    *)
(* kind of the points: only a point that is not inhibited alarms or makes  *)
(* the siren sound, inhibiting ends its alarm, an acknowledge reaches the  *)
(* points asked for and does not touch the inhibition, and the siren,      *)
(* which never gets weaker by itself, stops only when it is silenced.      *)
(***************************************************************************)
EXTENDS Integers

CONSTANT Pontos

VARIABLES
  alarmados,   \* the points with an alarm not acknowledged
  inibidos,    \* those whose alarm is inhibited
  sirene       \* 0 silent, 1 normal, 2 critical

vars == <<alarmados, inibidos, sirene>>

Init == alarmados = {} /\ inibidos \subseteq Pontos /\ sirene = 0

(* What happens in the field raises or ends the alarm of a point, and may   *)
(* sound even when the same change brings the point back to normal.         *)
Ocorre(p) ==
  /\ p \notin inibidos
  /\ alarmados' \in {alarmados \cup {p}, alarmados \ {p}}
  /\ sirene' \in sirene..2
  /\ UNCHANGED inibidos

Reconhece(alvo) ==
  /\ alarmados' = alarmados \ alvo
  /\ UNCHANGED <<inibidos, sirene>>

Silencia == sirene' = 0 /\ UNCHANGED <<alarmados, inibidos>>

Inibe(p) ==
  /\ inibidos' = inibidos \cup {p}
  /\ alarmados' = alarmados \ {p}
  /\ UNCHANGED sirene

Libera(p) == inibidos' = inibidos \ {p} /\ UNCHANGED <<alarmados, sirene>>

Next ==
  \/ \E p \in Pontos : Ocorre(p) \/ Reconhece({p}) \/ Inibe(p) \/ Libera(p)
  \/ Reconhece(Pontos) \/ Silencia

Spec == Init /\ [][Next]_vars
=============================================================================
