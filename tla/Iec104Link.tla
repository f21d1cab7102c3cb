------------------------------ MODULE Iec104Link ------------------------------
(***************************************************************************)
(* The link layer of the IEC 60870-5-104 driver (iec104_class.cpp), the    *)
(* controlling station, against an RTU: activation of the transfer,        *)
(* numbering of the frames, the window of frames to acknowledge, general   *)
(* interrogations, and the timers, which all advance once a second.        *)
(*                                                                         *)
(* What the driver sends reaches the RTU at once; what the RTU owes (deve) *)
(* and what it has sent and was not read yet (volta) take any time.  The   *)
(* stream loses nothing while the connection lasts, but a frame the driver *)
(* could not read whole leaves it reading where no frame begins, and the   *)
(* flag it notes that with (broken_msg) outlives the connection: what it   *)
(* reads then may be any frame.                                            *)
(***************************************************************************)
EXTENDS Integers, Sequences

CONSTANTS
  T1, T2, T3,     \* t1_startdtact, t2_supervisory, t3_testfr
  TGI,            \* seconds from the activation to the first interrogation
  TRepete,        \* gi_retry_time
  TPeriodo,       \* gi_period
  ModSeq,         \* frame numbers wrap here: 2^15 in the code
  K,              \* the RTU's window
  MaxVolta,       \* bound: frames in transit
  MaxFalhas       \* bound: broken reads, reads out of place that end inside
                  \* a frame, disconnections, requests ignored

Positivos == Nat \ {0}

ASSUME TemposAssumption ==
  /\ T1 \in Positivos /\ T3 \in Positivos
  /\ T2 \in Nat /\ T2 > 1
  /\ TGI \in Positivos /\ TRepete \in Positivos /\ TPeriodo \in Positivos
ASSUME JanelaAssumption ==
  /\ K \in Positivos /\ ModSeq \in Nat /\ K < ModSeq /\ T2 <= ModSeq
  /\ MaxVolta \in Nat /\ MaxFalhas \in Nat

VARIABLES
  con,       \* connectedTCP
  txOk,      \* TxOk
  vs, vr,    \* VS, VR: the code steps by two, the low bit is the format
  tStartdt, tSuperv, tTestfr, tGi,   \* tout_...: -1 is off
  ativa,     \* the RTU confirmed the activation
  ns, nr,    \* the RTU's own numbers: next to send, next expected
  conf,      \* the last number the driver acknowledged
  deve,      \* what the RTU has still to answer
  volta,     \* frames from the RTU, not read yet; the first may be a Resto
  broken_msg, \* the last read ended before the end of its frame
  lacuna,    \* history: bytes of a data frame were spent otherwise in this
             \* connection
  quebrou,   \* history: a read broke in this connection, or before it
  engano,    \* history: bytes out of place were taken for a frame in it
  giOk,      \* history: an interrogation was answered in this connection
  idade,     \* history: seconds since a received frame waits for its ack
  falhas

link == <<txOk, vs, vr, tStartdt, tSuperv, tTestfr, tGi>>
rtu == <<ativa, ns, nr, conf, deve>>
leitura == <<broken_msg, lacuna, quebrou, engano>>
vars == <<con, link, rtu, volta, leitura, giOk, idade, falhas>>

Numeros == 0..ModSeq - 1

I(a) == [tipo |-> "I", n |-> ns, asdu |-> a]
U(t) == [tipo |-> t, n |-> 0, asdu |-> "nada"]
Asdus == {"dado", "gi", "teste"}
Quadros == [tipo : {"I"}, n : Numeros, asdu : Asdus]
           \cup {U(t) : t \in {"STARTDTCON", "TESTFRCON", "TESTFRACT"}}
(* What is left of a frame whose first bytes were read.                     *)
Resto == U("resto")
Lidos == Quadros \cup {Resto}
Pedidos == {"STARTDTCON", "TESTFRCON", "gi"}

Prox(n) == IF n + 1 < ModSeq THEN n + 1 ELSE 0
(* The frames from number a to number b.                                    *)
Desde(a, b) == IF a <= b THEN b - a ELSE b - a + ModSeq
SemConfirmar == Desde(conf, vr)        \* received and not acknowledged

Init ==
  /\ con = FALSE /\ txOk = FALSE /\ vs = 0 /\ vr = 0
  /\ tStartdt = -1 /\ tSuperv = -1 /\ tTestfr = -1 /\ tGi = -1
  /\ ativa = FALSE /\ ns = 0 /\ nr = 0 /\ conf = 0 /\ deve = {} /\ volta = <<>>
  /\ broken_msg = FALSE /\ lacuna = FALSE /\ quebrou = FALSE /\ engano = FALSE
  /\ giOk = FALSE /\ idade = 0 /\ falhas = 0

Falha == falhas < MaxFalhas /\ falhas' = falhas + 1

(***************************************************************************)
(* Sending.  A data frame takes a number even when there is no connection  *)
(* to send it on, and acknowledges what was received.                      *)
(***************************************************************************)
EnviaI(v) ==
  /\ vs' = Prox(vs)
  /\ nr' = IF con THEN Prox(nr) ELSE nr
  /\ conf' = IF con THEN v ELSE conf

(* An acknowledgement, by an S frame, of the frames up to v.                *)
Confirma(v) == conf' = v /\ UNCHANGED <<vs, nr>>
NadaEnviado == UNCHANGED <<vs, nr, conf>>

(***************************************************************************)
(* The connection.                                                         *)
(***************************************************************************)
MutanteZera(n) == n
Zera(n) == 0

(* broken_msg is left as the last connection left it.                       *)
onConnectTCP ==
  /\ ~con
  /\ con' = TRUE
  /\ txOk' = FALSE
  /\ vs' = Zera(vs) /\ vr' = Zera(vr)
  /\ tStartdt' = T1                                  \* sendStartDTACT
  /\ ativa' = FALSE /\ ns' = 0 /\ nr' = 0 /\ conf' = 0
  /\ deve' = {"STARTDTCON"} /\ volta' = <<>>
  /\ lacuna' = FALSE /\ quebrou' = broken_msg /\ engano' = FALSE
  /\ giOk' = FALSE /\ idade' = 0
  /\ UNCHANGED <<tSuperv, tTestfr, tGi, broken_msg, falhas>>

(* tTestfr survives the disconnection.                                      *)
onDisconnectTCP ==
  /\ con' = FALSE
  /\ txOk' = FALSE
  /\ tStartdt' = -1 /\ tSuperv' = -1 /\ tGi' = -1
  /\ deve' = {} /\ volta' = <<>>
  /\ ativa' = FALSE /\ idade' = 0
  /\ UNCHANGED <<vs, vr, tTestfr, ns, nr, conf, giOk>>

Cai == con /\ Falha /\ onDisconnectTCP /\ UNCHANGED leitura

(***************************************************************************)
(* The timers.                                                             *)
(***************************************************************************)
Decrementa(t) == IF t > 0 THEN t - 1 ELSE t
Expira(t) == t = 1           \* reaches zero in this second

MutanteRearma == -1
Rearma == T1

(* The window's countdown loses two a second.                               *)
DoisPorSegundo(t) == Decrementa(Decrementa(t))

onTimerSecond ==
  IF ~con
  THEN UNCHANGED vars
  ELSE LET gi == Expira(tGi)
           janela == DoisPorSegundo(tSuperv) = 0
           testa == txOk /\ Expira(tTestfr)
       IN /\ tStartdt' = IF Expira(tStartdt) THEN Rearma ELSE Decrementa(tStartdt)
          /\ tGi' = IF gi THEN TRepete ELSE Decrementa(tGi)
          /\ tSuperv' = IF janela THEN -1 ELSE DoisPorSegundo(tSuperv)
          /\ tTestfr' = IF txOk THEN Decrementa(tTestfr) ELSE tTestfr
          /\ IF gi THEN EnviaI(vr)
             ELSE IF janela THEN Confirma(vr) ELSE NadaEnviado
          /\ deve' = deve \cup (IF Expira(tStartdt) THEN {"STARTDTCON"} ELSE {})
                          \cup (IF gi THEN {"gi"} ELSE {})
                          \cup (IF testa THEN {"TESTFRCON"} ELSE {})
          /\ idade' = IF Desde(conf', vr) = 0 THEN 0 ELSE idade + 1
          /\ UNCHANGED <<con, txOk, vr, ativa, ns, volta, leitura, giOk, falhas>>

(***************************************************************************)
(* Requests of the HMI: a general interrogation, a command.                *)
(***************************************************************************)
solicitGI ==
  /\ EnviaI(vr)
  /\ tGi' = TRepete
  /\ deve' = IF con THEN deve \cup {"gi"} ELSE deve
  /\ idade' = IF con THEN 0 ELSE idade
  /\ UNCHANGED <<con, txOk, vr, tStartdt, tSuperv, tTestfr, ativa, ns, volta,
                 leitura, giOk, falhas>>

sendCommand ==
  /\ EnviaI(vr)
  /\ idade' = IF con THEN 0 ELSE idade
  /\ UNCHANGED <<con, txOk, vr, tStartdt, tSuperv, tTestfr, tGi, ativa, ns, deve,
                 volta, leitura, giOk, falhas>>

(***************************************************************************)
(* Receiving.                                                              *)
(***************************************************************************)
RecebeU(m) ==
  /\ IF m.tipo = "STARTDTCON"
     THEN tStartdt' = -1 /\ txOk' = TRUE /\ tGi' = TGI
     ELSE UNCHANGED <<tStartdt, txOk, tGi>>
  /\ UNCHANGED <<con, vs, vr, tSuperv, tTestfr, rtu, giOk, idade>>

MutanteForaDeOrdem(n) == FALSE
ForaDeOrdem(n) == n # vr

MutanteAbreJanela(t) == IF t < 0 THEN T2 ELSE t
AbreJanela(t) == (IF t < 0 THEN T2 ELSE t) - 1

RecebeI(m) ==
  LET janela == AbreJanela(tSuperv)
  IN /\ vr' = Prox(m.n)
     /\ tGi' = IF m.asdu = "gi" THEN TPeriodo ELSE tGi
     /\ tTestfr' = T3
     /\ tSuperv' = IF janela = 0 THEN -1 ELSE janela
     /\ IF m.asdu = "teste" THEN EnviaI(vr')          \* confTestCommand
        ELSE IF janela = 0 THEN Confirma(vr') ELSE NadaEnviado
     /\ giOk' = (giOk \/ m.asdu = "gi")
     /\ idade' = IF Desde(conf', vr') = 0 THEN 0 ELSE idade
     /\ UNCHANGED <<con, txOk, tStartdt, ativa, ns, deve>>

(* A frame m was read, and q is what there is still to read.                *)
parseAPDU(m, q) ==
  IF m.tipo = "I" /\ ForaDeOrdem(m.n)
  THEN onDisconnectTCP
  ELSE /\ volta' = q
       /\ IF m.tipo = "I" THEN RecebeI(m) ELSE RecebeU(m)

(* packetReadyTCP reads the next frame from its first byte.  After a broken *)
(* read it does so if what it takes for the length, which is whatever the   *)
(* buffer has there now, is the right one, or is too short for a frame.     *)
NoLugar == volta # <<>> /\ Head(volta) # Resto

LeQuadro ==
  /\ NoLugar
  /\ broken_msg' = FALSE
  /\ parseAPDU(Head(volta), Tail(volta))
  /\ UNCHANGED <<lacuna, quebrou, engano, falhas>>

(* What is left in volta after k frames, when the last was spent whole or   *)
(* not.                                                                     *)
Sobra(k, inteiro) ==
  (IF inteiro THEN <<>> ELSE <<Resto>>) \o SubSeq(volta, k + 1, Len(volta))

(* It could not read the whole frame: only the start and the length were    *)
(* there; or the start alone, which it does not note; or a part of the rest.*)
QuadroQuebrado ==
  /\ NoLugar
  /\ Falha
  /\ quebrou' = TRUE
  /\ \/ broken_msg' = TRUE /\ UNCHANGED <<volta, lacuna>>
     \/ /\ broken_msg' \in BOOLEAN
        /\ volta' = Sobra(1, FALSE)
        /\ lacuna' = (lacuna \/ Head(volta).tipo = "I")
  /\ UNCHANGED <<con, link, rtu, engano, giOk, idade>>

(* It reads where no frame begins, or by a length that is not the frame's:  *)
(* this spends k frames, the last one whole or not, and finds nothing (m is *)
(* a Resto), with or without another break, or what looks like a frame.     *)
LeForaDeLugar ==
  /\ volta # <<>>
  /\ broken_msg \/ Head(volta) = Resto
  /\ \E k \in 1..Len(volta), m \in Lidos, inteiro \in BOOLEAN :
       /\ parseAPDU(m, Sobra(k, inteiro))
       /\ broken_msg' \in (IF m = Resto THEN BOOLEAN ELSE {FALSE})
       /\ IF ~inteiro \/ broken_msg' THEN Falha ELSE UNCHANGED falhas
       /\ engano' = (engano \/ m # Resto)
       /\ lacuna' = (lacuna \/ \E i \in 1..k : volta[i].tipo = "I")
  /\ UNCHANGED quebrou

(***************************************************************************)
(* The RTU.                                                                *)
(***************************************************************************)
Cabe == con /\ Len(volta) < MaxVolta
Janela == ativa /\ Desde(conf, ns) < K

Responde(q) ==
  /\ Cabe
  /\ q \in deve
  /\ deve' = deve \ {q}
  /\ IF q = "gi"
     THEN /\ Janela
          /\ volta' = Append(volta, I("gi"))
          /\ ns' = Prox(ns)
          /\ UNCHANGED ativa
     ELSE /\ volta' = Append(volta, U(q))
          /\ ativa' = (ativa \/ q = "STARTDTCON")
          /\ UNCHANGED ns
  /\ UNCHANGED <<con, link, nr, conf, leitura, giOk, idade, falhas>>

EnviaDado(a) ==
  /\ Cabe /\ Janela
  /\ volta' = Append(volta, I(a))
  /\ ns' = Prox(ns)
  /\ UNCHANGED <<con, link, ativa, nr, conf, deve, leitura, giOk, idade, falhas>>

TestaLinha ==
  /\ Cabe
  /\ volta' = Append(volta, U("TESTFRACT"))
  /\ UNCHANGED <<con, link, rtu, leitura, giOk, idade, falhas>>

IgnoraPedido ==
  /\ Falha
  /\ \E q \in deve : deve' = deve \ {q}
  /\ UNCHANGED <<con, link, ativa, ns, nr, conf, volta, leitura, giOk, idade>>

(* The RTU gives up a connection whose frames get no acknowledgement.  Its  *)
(* time for that is longer than the driver takes, so these were not read.   *)
DesisteRTU ==
  /\ con /\ vr # ns
  /\ \A i \in 1..Len(volta) : volta[i].tipo # "I"
  /\ onDisconnectTCP
  /\ UNCHANGED <<leitura, falhas>>

Next ==
  \/ onConnectTCP \/ Cai \/ onTimerSecond
  \/ solicitGI \/ sendCommand
  \/ LeQuadro \/ QuadroQuebrado \/ LeForaDeLugar
  \/ TestaLinha \/ IgnoraPedido \/ DesisteRTU
  \/ \E q \in Pedidos : Responde(q)
  \/ \E a \in {"dado", "teste"} : EnviaDado(a)

(* The seconds go by, the socket is read, and the RTU answers, whatever     *)
(* else it has to send, and does not wait for ever to be acknowledged.      *)
Fairness ==
  /\ WF_vars(onTimerSecond)
  /\ WF_vars(LeQuadro \/ LeForaDeLugar)
  /\ WF_vars(DesisteRTU)
  /\ \A q \in Pedidos : SF_vars(Responde(q))

Spec == Init /\ [][Next]_vars /\ Fairness

(***************************************************************************)
(* Properties.                                                             *)
(***************************************************************************)
TypeOK ==
  /\ con \in BOOLEAN /\ txOk \in BOOLEAN /\ ativa \in BOOLEAN
  /\ vs \in Numeros /\ vr \in Numeros
  /\ ns \in Numeros /\ nr \in Numeros /\ conf \in Numeros
  /\ tStartdt \in {-1} \cup 1..T1
  /\ tSuperv \in {-1} \cup 1..T2
  /\ tTestfr \in -1..T3
  /\ tGi \in {-1} \cup Positivos
  /\ deve \subseteq Pedidos
  /\ volta \in Seq(Lidos)
  /\ broken_msg \in BOOLEAN /\ lacuna \in BOOLEAN
  /\ quebrou \in BOOLEAN /\ engano \in BOOLEAN
  /\ giOk \in BOOLEAN /\ idade \in Nat
  /\ falhas \in 0..MaxFalhas

(* The RTU never sees a gap in the numbers of the driver's frames, though   *)
(* the driver spends numbers on what it asks while disconnected.            *)
SeqCerta == con => vs = nr

(* No received frame waits long for its acknowledgement: fewer than T2 wait *)
(* at once, and none for more than half of T2 seconds, however messages,    *)
(* seconds and the driver's own frames alternate.                           *)
ConfirmacaoEmDia == con => SemConfirmar < T2 /\ 2 * idade < T2

(* After bytes of a data frame were spent without being read as one, the    *)
(* driver takes no other data from the same connection: it notices at the   *)
(* next frame and reconnects, although the numbers wrap.  Unless bytes out  *)
(* of place were taken for a frame: then the numbers may agree by chance.   *)
SemLacuna == [][lacuna /\ lacuna' /\ ~engano' => vr' = vr]_vars

(* The driver drops by itself only a connection in which a read broke, or   *)
(* which began with the mark of a broken read of an earlier one: with none  *)
(* the next number is the expected one, however the window fills and the    *)
(* numbers wrap and start again in each connection.                         *)
QuedaSoComQuebra == [][con /\ ~con' => quebrou \/ falhas' > falhas]_vars

(* A connection that lasts gets a general interrogation answered, although  *)
(* activations and requests may be lost and reads may break, unless bytes   *)
(* out of place were taken for a frame.                                     *)
DadosIniciais == con ~> giOk \/ ~con \/ engano
=============================================================================
