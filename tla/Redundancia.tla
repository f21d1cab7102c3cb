----------------------------- MODULE Redundancia -----------------------------
(***************************************************************************)
(* Two computers run the OSHMI HMI and the same IEC 60870-5-104 driver     *)
(* (qtester104/mainwindow.cpp, qiec104.cpp).  Only the primary driver may  *)
(* connect to the RTU; it tells the other one so with a keep-alive message *)
(* over UDP at each tick of a timer, and a secondary that misses them      *)
(* becomes primary.  A primary that loses the connection to the RTU steps  *)
(* down to let the other one try.                                          *)
(*                                                                         *)
(* The driver allows connections (mAllowConnect) exactly while it is       *)
(* primary: the two are always assigned together.  The operator's Connect  *)
(* button is left out.                                                     *)
(***************************************************************************)
EXTENDS Integers

CONSTANTS
  Nos,             \* the two computers
  ForcePrimary,    \* those configured to ignore keep-alives
  CntToBePrimary,  \* I104M_CntToBePrimary, in ticks
  MaxFalhas        \* bound: lost messages, disconnections and crashes

Ninguem == "ninguem"

ASSUME NosAssumption == Ninguem \notin Nos /\ \E a, b \in Nos : a # b /\ Nos = {a, b}
ASSUME ForceAssumption == ForcePrimary \subseteq Nos
ASSUME LimitesAssumption == CntToBePrimary \in Nat /\ MaxFalhas \in Nat

Outro(n) == CHOOSE m \in Nos : m # n

VARIABLES
  vivo,       \* the drivers that are running
  primario,   \* isPrimary
  cnt,        \* I104M_CntDnToBePrimary
  tcp,        \* the state of the socket to the RTU
  ka,         \* the computers a keep-alive is travelling to
  vez,        \* whose timer ticks next: the periods are equal
  perdida,    \* history: the last keep-alive did not arrive
  cedeu,      \* history: who stepped down and is not replaced yet
  falhas

vars == <<vivo, primario, cnt, tcp, ka, vez, perdida, cedeu, falhas>>
driver == <<vivo, primario, cnt, tcp>>
historia == <<perdida, cedeu>>

Init ==
  /\ vivo = Nos
  /\ primario = [n \in Nos |-> FALSE]
  /\ cnt = [n \in Nos |-> CntToBePrimary]
  /\ tcp = [n \in Nos |-> "fechado"]
  /\ ka = {}
  /\ vez \in Nos
  /\ perdida = FALSE
  /\ cedeu = Ninguem
  /\ falhas = 0

Falha == falhas < MaxFalhas /\ falhas' = falhas + 1

(***************************************************************************)
(* The timer of the keep-alives: a secondary counts down and becomes       *)
(* primary at zero; a primary, this one included, sends a keep-alive.      *)
(***************************************************************************)
Assume(n) == ~primario[n] /\ cnt[n] <= 0

slot_timer_I104M_kamsg(n) ==
  LET eh == primario[n] \/ Assume(n)
  IN /\ n \in vivo /\ vez = n
     /\ primario' = [primario EXCEPT ![n] = eh]
     /\ cnt' = [cnt EXCEPT ![n] = IF Assume(n) THEN CntToBePrimary
                                  ELSE IF eh THEN @ ELSE @ - 1]
     /\ ka' = IF eh THEN ka \cup {Outro(n)} ELSE ka
     /\ cedeu' = IF Assume(n) THEN Ninguem ELSE cedeu
     /\ vez' = Outro(n)
     /\ UNCHANGED <<vivo, tcp, perdida, falhas>>

(* The network is faster than the phase between the two timers: nobody      *)
(* ticks while a keep-alive travels.                                        *)
Tick(n) == ka = {} /\ slot_timer_I104M_kamsg(n)

(* The tick of a driver that is not running.                                *)
PassaVez ==
  /\ vez \notin vivo /\ ka = {}
  /\ vez' = Outro(vez)
  /\ UNCHANGED <<driver, ka, historia, falhas>>

(***************************************************************************)
(* A keep-alive makes the receiver secondary and closes its connection,    *)
(* if it is established; a connection in progress goes on.                 *)
(***************************************************************************)
MutanteFechaTcp(n) ==
  IF primario[n] /\ tcp[n] = "conectado" THEN "fechado" ELSE tcp[n]

FechaTcp(n) == IF tcp[n] = "conectado" THEN "fechado" ELSE tcp[n]

MutanteObedece(n) == n \in vivo \ ForcePrimary /\ ~primario[n]
Obedece(n) == n \in vivo \ ForcePrimary

RecebeKA(n) ==
  /\ n \in ka
  /\ ka' = ka \ {n}
  /\ perdida' = FALSE
  /\ IF Obedece(n)
     THEN /\ primario' = [primario EXCEPT ![n] = FALSE]
          /\ cnt' = [cnt EXCEPT ![n] = CntToBePrimary]
          /\ tcp' = [tcp EXCEPT ![n] = FechaTcp(n)]
          /\ cedeu' = IF cedeu = n THEN Ninguem ELSE cedeu
     ELSE UNCHANGED <<primario, cnt, tcp, cedeu>>
  /\ UNCHANGED <<vivo, vez, falhas>>

PerdeKA(n) ==
  /\ Falha
  /\ n \in ka
  /\ ka' = ka \ {n}
  /\ perdida' = TRUE
  /\ UNCHANGED <<driver, vez, cedeu>>

(***************************************************************************)
(* The connection to the RTU.                                              *)
(***************************************************************************)

(* slot_keep_alive, every five seconds.                                     *)
connectTCP(n) ==
  /\ n \in vivo /\ primario[n]
  /\ tcp[n] = "fechado"
  /\ tcp' = [tcp EXCEPT ![n] = "conectando"]
  /\ UNCHANGED <<vivo, primario, cnt, ka, vez, historia, falhas>>

(* The RTU accepts or refuses.                                              *)
ResolveConexao(n) ==
  /\ n \in vivo /\ tcp[n] = "conectando"
  /\ \E s \in {"conectado", "fechado"} : tcp' = [tcp EXCEPT ![n] = s]
  /\ UNCHANGED <<vivo, primario, cnt, ka, vez, historia, falhas>>

(* A primary steps down and waits a little more than the other one.         *)
MutanteEspera(n) == CntToBePrimary
Espera(n) == CntToBePrimary + 1

(* Running, secondary, and not waiting after stepping down itself.          *)
PodeAssumir(n) == n \in vivo /\ ~primario[n] /\ cnt[n] <= CntToBePrimary

slot_tcpdisconnect(n) ==
  /\ Falha
  /\ n \in vivo /\ tcp[n] = "conectado"
  /\ tcp' = [tcp EXCEPT ![n] = "fechado"]
  /\ primario' = [primario EXCEPT ![n] = FALSE]
  /\ cnt' = [cnt EXCEPT ![n] = IF primario[n] THEN Espera(n) ELSE @]
  /\ cedeu' = IF primario[n] /\ PodeAssumir(Outro(n)) THEN n ELSE cedeu
  /\ UNCHANGED <<vivo, ka, vez, perdida>>

(***************************************************************************)
(* Crashes, and the start of the program.                                  *)
(***************************************************************************)
Morre(n) ==
  /\ Falha
  /\ n \in vivo
  /\ vivo' = vivo \ {n}
  /\ primario' = [primario EXCEPT ![n] = FALSE]
  /\ tcp' = [tcp EXCEPT ![n] = "fechado"]
  /\ cedeu' = Ninguem
  /\ UNCHANGED <<cnt, ka, vez, perdida>>

(* A whole period goes by before its first tick.                            *)
Inicia(n) ==
  /\ n \notin vivo
  /\ vivo' = vivo \cup {n}
  /\ cnt' = [cnt EXCEPT ![n] = CntToBePrimary]
  /\ vez' = Outro(n)
  /\ UNCHANGED <<primario, tcp, ka, historia, falhas>>

Next ==
  \/ \E n \in Nos : \/ Tick(n) \/ RecebeKA(n) \/ PerdeKA(n)
                    \/ connectTCP(n) \/ ResolveConexao(n) \/ slot_tcpdisconnect(n)
                    \/ Morre(n) \/ Inicia(n)
  \/ PassaVez

(* Timers tick, datagrams not lost arrive, pending connections end, and     *)
(* the process monitor restarts a driver that is not running.               *)
Fairness ==
  /\ WF_vars(PassaVez)
  /\ \A n \in Nos : /\ WF_vars(Tick(n))
                    /\ WF_vars(RecebeKA(n))
                    /\ WF_vars(ResolveConexao(n))
                    /\ WF_vars(Inicia(n))

Spec == Init /\ [][Next]_vars /\ Fairness

(***************************************************************************)
(* Properties.                                                             *)
(***************************************************************************)
T == INSTANCE Turno WITH donos <- {n \in Nos : primario[n]},
                         avisos <- ka, Forcados <- ForcePrimary

(* The two drivers, with their timers, counts, crashes and lost messages,   *)
(* take turns as Turno says: a keep-alive goes out in the step that makes a *)
(* driver primary, leaves its receiver secondary whatever it was doing, and *)
(* the one that stepped down lets the other one try.                        *)
CumpreTurno == T!Spec

TypeOK ==
  /\ vivo \subseteq Nos
  /\ primario \in [Nos -> BOOLEAN]
  /\ cnt \in [Nos -> 0..CntToBePrimary + 1]
  /\ tcp \in [Nos -> {"fechado", "conectando", "conectado"}]
  /\ ka \subseteq Nos
  /\ vez \in Nos
  /\ perdida \in BOOLEAN
  /\ cedeu \in Nos \cup {Ninguem}
  /\ falhas \in 0..MaxFalhas

(* Two primaries at once last no longer than a keep-alive travels, however  *)
(* crashes, restarts and disconnections come, unless one was just lost.     *)
UmPrimario ==
  (\A n \in Nos : primario[n]) => ka # {} \/ perdida \/ ForcePrimary # {}

(* A driver that stepped down because it lost the RTU, with the other one   *)
(* running and not waiting for the same reason, does not become primary     *)
(* again before the other one had its turn (the extra tick of               *)
(* slot_tcpdisconnect, mainwindow.cpp:684), even if the other one had just  *)
(* started.                                                                 *)
OutroAssume ==
  [][\A n \in Nos : ~primario[n] /\ primario'[n] => cedeu # n]_vars

(* A secondary left connected by a connection that was in progress when it  *)
(* stopped being primary does not stay so: the next keep-alive closes it,   *)
(* or it becomes primary.                                                   *)
SecundarioDesconecta ==
  \A n \in Nos :
    tcp[n] = "conectado" /\ ~primario[n]
    ~> ~(tcp[n] = "conectado" /\ ~primario[n])

(* When failures stop, the two end up with one and the same primary for     *)
(* good, however they were left.                                            *)
Estabiliza ==
  \E n \in Nos : <>[](primario[n] /\ ~primario[Outro(n)])
=============================================================================
