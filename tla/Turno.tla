------------------------------- MODULE Turno --------------------------------
(***************************************************************************)
(* What the keep-alives of two redundant drivers promise, without timers,  *)
(* counts or sockets: the turn to talk to the RTU.  Who takes the turn     *)
(* tells all the others to leave it in the same step; nobody takes or      *)
(* keeps it while such a notice travels; an arrived notice is obeyed,      *)
(* except by those forced to stay; and who gives the turn up to somebody   *)
(* who can take it does not take it back before that one had it or a crash *)
(* intervened.                                                             *)
(***************************************************************************)
CONSTANTS
  Nos,
  Forcados,   \* those that obey no notice
  Ninguem

VARIABLES
  donos,      \* who has the turn
  avisos,     \* those a notice to leave the turn is travelling to
  perdida,    \* the last notice did not arrive
  cedeu       \* who gave the turn up and waits for another to take it

vars == <<donos, avisos, perdida, cedeu>>

Init == donos = {} /\ avisos = {} /\ perdida = FALSE /\ cedeu = Ninguem

Assume(n) ==
  /\ n \notin donos /\ avisos = {} /\ cedeu # n
  /\ donos' = donos \cup {n}
  /\ avisos' = Nos \ {n}
  /\ cedeu' = Ninguem
  /\ UNCHANGED perdida

Renova(n) ==
  /\ n \in donos /\ avisos = {}
  /\ avisos' = Nos \ {n}
  /\ UNCHANGED <<donos, perdida, cedeu>>

Obedece(n) ==
  /\ n \in avisos
  /\ avisos' = avisos \ {n}
  /\ perdida' = FALSE
  /\ IF n \in Forcados
     THEN UNCHANGED <<donos, cedeu>>
     ELSE /\ donos' = donos \ {n}
          /\ cedeu' = IF cedeu = n THEN Ninguem ELSE cedeu

Extravia(n) ==
  /\ n \in avisos
  /\ avisos' = avisos \ {n}
  /\ perdida' = TRUE
  /\ UNCHANGED <<donos, cedeu>>

(* Only the last to have the turn waits for another one.                    *)
Cede(n) ==
  /\ n \in donos
  /\ donos' = donos \ {n}
  /\ cedeu' \in IF donos = {n} THEN {Ninguem, n} ELSE {Ninguem}
  /\ UNCHANGED <<avisos, perdida>>

Morre(n) ==
  /\ donos' = donos \ {n}
  /\ cedeu' = Ninguem
  /\ UNCHANGED <<avisos, perdida>>

Next == \E n \in Nos : \/ Assume(n) \/ Renova(n) \/ Obedece(n)
                       \/ Extravia(n) \/ Cede(n) \/ Morre(n)

Spec == Init /\ [][Next]_vars
=============================================================================
