------------------------------ MODULE VisorTelas ------------------------------
(***************************************************************************)
(* The screen viewer (websage.js) keeps a drawing up to date: a chain of   *)
(* timers asks the web server for the points of the screen, a timer marks  *)
(* them all as failed if the server does not answer, and the time machine  *)
(* stops the chain to show values of the historian.  What the answers do   *)
(* to the drawing is in DesenhoTela.                                       *)
(*                                                                         *)
(* Everything runs in the one thread of the page: an action is one         *)
(* callback.  Timers, answers and clicks come in any order: the delays of  *)
(* the timers are left out.  A variable of the page holds the last timer   *)
(* set with it; setting it again without clearing it leaves the previous   *)
(* timer running with nobody to clear it (an orphan).                      *)
(***************************************************************************)
EXTENDS Integers

CONSTANTS
  Tentativas,   \* getScript repeats a request that failed this many times
  MaxPedidos,   \* bound: requests of a kind waiting for an answer
  MaxOrfaos     \* bound: orphans of a kind

ASSUME LimitesAssumption == Tentativas \in Nat /\ MaxPedidos \in Nat /\ MaxOrfaos \in Nat

VARIABLES
  fmTELA,            \* the bar of real time is displayed
  timemachinecontrols, \* the bar of the time machine is displayed
  g_toutID,          \* a call to callServer is due, in the variable,
  orfaosCall,        \* and orphans
  g_toutStatusID, orfaosStatus,     \* the same for getServerStatus
  g_timeoutFalhaID, orfaosFalha,    \* and for falhaTudo
  tmoutchangeDate,   \* a call to changeDate is due
  vivos,             \* requests of values, by the retries they have left
  situacao,          \* requests of the status
  historicos,        \* requests to the historian
  noAr               \* the servers answer

barras == <<fmTELA, timemachinecontrols>>
relogios == <<g_toutID, orfaosCall, g_toutStatusID, orfaosStatus,
              g_timeoutFalhaID, orfaosFalha, tmoutchangeDate>>
pedidos == <<vivos, situacao, historicos>>

VARIABLE ultimo  \* history: what last wrote the values

vars == <<barras, relogios, pedidos, noAr, ultimo>>

Restam == 0..Tentativas

Init ==
  /\ fmTELA = TRUE /\ timemachinecontrols = FALSE
  /\ g_toutID = TRUE /\ g_toutStatusID = FALSE /\ g_timeoutFalhaID = FALSE
  /\ tmoutchangeDate = FALSE
  /\ orfaosCall = 0 /\ orfaosStatus = 0 /\ orfaosFalha = 0
  /\ vivos = [k \in Restam |-> 0]
  /\ situacao = [k \in Restam |-> 0]
  /\ historicos = [k \in Restam |-> 0]
  /\ noAr \in BOOLEAN
  /\ ultimo = "nada"

Um(b) == IF b THEN 1 ELSE 0

(* getScript: a request, its answer, and its repetition when it fails.      *)
Cabe(f) == \A k \in Restam : f[k] < MaxPedidos
Pede(f) == [f EXCEPT ![Tentativas] = @ + 1]
Atende(f, k) == [f EXCEPT ![k] = @ - 1]
Repete(f, k) == [j \in Restam |-> f[j] - Um(j = k) + Um(j = k - 1)]

(***************************************************************************)
(* The chain of requests of real time.  An orphan is the older timer.      *)
(***************************************************************************)
MutanteTempoReal == TRUE
TempoReal == ~timemachinecontrols

Vence(orfao, variavel, orfaos) == IF orfao THEN orfaos > 0 ELSE variavel

MutanteAbandona == 0
Abandona == Um(g_timeoutFalhaID)

callServer(orfao) ==
  /\ TempoReal
  /\ Vence(orfao, g_toutID, orfaosCall)
  /\ Cabe(vivos) /\ orfaosStatus < MaxOrfaos /\ orfaosFalha < MaxOrfaos
  /\ g_timeoutFalhaID' = TRUE
  /\ orfaosFalha' = orfaosFalha + Abandona
  /\ vivos' = Pede(vivos)
  /\ g_toutStatusID' = TRUE
  /\ orfaosStatus' = orfaosStatus + Um(g_toutStatusID)
  /\ g_toutID' = TRUE
  /\ orfaosCall' = orfaosCall - Um(orfao) + Um(orfao /\ g_toutID)
  /\ UNCHANGED <<barras, tmoutchangeDate, situacao, historicos, noAr, ultimo>>

callServerParado(orfao) ==
  /\ ~TempoReal
  /\ Vence(orfao, g_toutID, orfaosCall)
  /\ g_toutID' = (orfao /\ g_toutID)
  /\ orfaosCall' = orfaosCall - Um(orfao)
  /\ UNCHANGED <<barras, g_toutStatusID, orfaosStatus, g_timeoutFalhaID, orfaosFalha,
                 tmoutchangeDate, pedidos, noAr, ultimo>>

getServerStatus(orfao) ==
  /\ Vence(orfao, g_toutStatusID, orfaosStatus)
  /\ Cabe(situacao)
  /\ g_toutStatusID' = (orfao /\ g_toutStatusID)
  /\ orfaosStatus' = orfaosStatus - Um(orfao)
  /\ situacao' = Pede(situacao)
  /\ UNCHANGED <<barras, g_toutID, orfaosCall, g_timeoutFalhaID, orfaosFalha, tmoutchangeDate,
                 vivos, historicos, noAr, ultimo>>

(* falhaTudo draws by showValsSVG, which clears the variable.               *)
falhaTudo(orfao) ==
  /\ Vence(orfao, g_timeoutFalhaID, orfaosFalha)
  /\ g_timeoutFalhaID' = FALSE
  /\ orfaosFalha' = orfaosFalha - Um(orfao)
  /\ ultimo' = "falhaTudo"
  /\ UNCHANGED <<barras, g_toutID, orfaosCall, g_toutStatusID, orfaosStatus, tmoutchangeDate,
                 pedidos, noAr>>

(***************************************************************************)
(* Answers.  The callback of the values is showValsSVG.                    *)
(***************************************************************************)
showValsSVG(de) ==
  /\ g_timeoutFalhaID' = FALSE
  /\ ultimo' = de
  /\ UNCHANGED <<barras, g_toutID, orfaosCall, g_toutStatusID, orfaosStatus, orfaosFalha,
                 tmoutchangeDate, noAr>>

RespondeVivos(k) ==
  /\ noAr /\ vivos[k] > 0
  /\ vivos' = Atende(vivos, k)
  /\ showValsSVG("vivos")
  /\ UNCHANGED <<situacao, historicos>>

RespondeHistorico(k) ==
  /\ noAr /\ historicos[k] > 0
  /\ historicos' = Atende(historicos, k)
  /\ showValsSVG("historico")
  /\ UNCHANGED <<vivos, situacao>>

(* cbf_Status: a change in the digital points brings the next call forward. *)
MutanteAntecipa(mudou) == mudou
Antecipa(mudou) == g_toutID \/ mudou

cbf_Status(k, mudou) ==
  /\ noAr /\ situacao[k] > 0
  /\ situacao' = Atende(situacao, k)
  /\ g_timeoutFalhaID' = (g_timeoutFalhaID /\ ~mudou)
  /\ g_toutID' = Antecipa(mudou)
  /\ UNCHANGED <<barras, orfaosCall, g_toutStatusID, orfaosStatus, orfaosFalha, tmoutchangeDate,
                 vivos, historicos, noAr, ultimo>>

(* A request fails: getScript repeats it.                                   *)
ErroVivos(k) ==
  /\ ~noAr /\ vivos[k] > 0
  /\ vivos' = Repete(vivos, k)
  /\ UNCHANGED <<barras, relogios, situacao, historicos, noAr, ultimo>>

ErroHistorico(k) ==
  /\ ~noAr /\ historicos[k] > 0
  /\ historicos' = Repete(historicos, k)
  /\ UNCHANGED <<barras, relogios, vivos, situacao, noAr, ultimo>>

ErroStatus(k) ==
  /\ ~noAr /\ situacao[k] > 0
  /\ situacao' = Repete(situacao, k)
  /\ UNCHANGED <<barras, relogios, vivos, historicos, noAr, ultimo>>

(***************************************************************************)
(* The time machine.  Its bar is not displayed from the choice of a day    *)
(* until changeDate runs.                                                  *)
(***************************************************************************)
TIMEMACHINE ==
  /\ fmTELA
  /\ fmTELA' = FALSE /\ timemachinecontrols' = TRUE
  /\ g_toutID' = FALSE /\ g_toutStatusID' = FALSE
  /\ UNCHANGED <<orfaosCall, orfaosStatus, g_timeoutFalhaID, orfaosFalha, tmoutchangeDate,
                 pedidos, noAr, ultimo>>

escolheHora ==
  /\ timemachinecontrols
  /\ tmoutchangeDate' = TRUE
  /\ UNCHANGED <<barras, g_toutID, orfaosCall, g_toutStatusID, orfaosStatus, g_timeoutFalhaID,
                 orfaosFalha, pedidos, noAr, ultimo>>

escolheDia ==
  /\ timemachinecontrols
  /\ timemachinecontrols' = FALSE
  /\ tmoutchangeDate' = TRUE
  /\ UNCHANGED <<fmTELA, g_toutID, orfaosCall, g_toutStatusID, orfaosStatus, g_timeoutFalhaID,
                 orfaosFalha, pedidos, noAr, ultimo>>

changeDate ==
  /\ tmoutchangeDate /\ Cabe(historicos)
  /\ tmoutchangeDate' = FALSE
  /\ g_toutID' = FALSE /\ g_timeoutFalhaID' = FALSE
  /\ historicos' = Pede(historicos)
  /\ timemachinecontrols' = TRUE
  /\ UNCHANGED <<fmTELA, orfaosCall, g_toutStatusID, orfaosStatus, orfaosFalha, vivos, situacao,
                 noAr, ultimo>>

(* The button sets the timer without clearing it, the key clears it first.  *)
MutanteSai(limpa) ==
  /\ fmTELA' = TRUE /\ timemachinecontrols' = FALSE
  /\ g_toutID' = (g_toutID /\ ~limpa)
  /\ UNCHANGED orfaosCall
Sai(limpa) ==
  /\ fmTELA' = TRUE /\ timemachinecontrols' = FALSE
  /\ g_toutID' = TRUE
  /\ orfaosCall' = IF limpa THEN orfaosCall ELSE orfaosCall + Um(g_toutID)

TIMEMACHINECLOSE ==
  /\ timemachinecontrols /\ orfaosCall < MaxOrfaos
  /\ Sai(FALSE)
  /\ UNCHANGED <<g_toutStatusID, orfaosStatus, g_timeoutFalhaID, orfaosFalha, tmoutchangeDate,
                 pedidos, noAr, ultimo>>

esc ==
  /\ Sai(TRUE)
  /\ UNCHANGED <<g_toutStatusID, orfaosStatus, g_timeoutFalhaID, orfaosFalha, tmoutchangeDate,
                 pedidos, noAr, ultimo>>

(* The servers stop or come back.                                           *)
ServidorMuda ==
  /\ noAr' = ~noAr
  /\ UNCHANGED <<barras, relogios, pedidos, ultimo>>

-----------------------------------------------------------------------------
Chama == \E o \in BOOLEAN : callServer(o) \/ callServerParado(o)
Consulta == \E o \in BOOLEAN : getServerStatus(o)
TerminaVivos(k) == RespondeVivos(k) \/ ErroVivos(k)
TerminaHistorico(k) == RespondeHistorico(k) \/ ErroHistorico(k)
TerminaStatus(k) == (\E mudou \in BOOLEAN : cbf_Status(k, mudou)) \/ ErroStatus(k)

Next ==
  \/ Chama \/ Consulta \/ \E o \in BOOLEAN : falhaTudo(o)
  \/ \E k \in Restam : TerminaVivos(k) \/ TerminaHistorico(k) \/ TerminaStatus(k)
  \/ TIMEMACHINE \/ escolheHora \/ escolheDia \/ changeDate \/ TIMEMACHINECLOSE \/ esc
  \/ ServidorMuda

(* Timers that nobody clears expire (the one of falhaTudo is longer than    *)
(* the refresh: while the chain runs, only its orphans are sure to), and    *)
(* requests end.                                                            *)
Fairness ==
  /\ WF_vars(Chama) /\ WF_vars(Consulta) /\ WF_vars(changeDate)
  /\ WF_vars(falhaTudo(TRUE))
  /\ \A k \in Restam :
       WF_vars(TerminaVivos(k)) /\ WF_vars(TerminaHistorico(k)) /\ WF_vars(TerminaStatus(k))

Spec == Init /\ [][Next]_vars /\ Fairness
-----------------------------------------------------------------------------
TypeOK ==
  /\ fmTELA \in BOOLEAN /\ timemachinecontrols \in BOOLEAN
  /\ g_toutID \in BOOLEAN /\ g_toutStatusID \in BOOLEAN /\ g_timeoutFalhaID \in BOOLEAN
  /\ tmoutchangeDate \in BOOLEAN
  /\ orfaosCall \in 0..MaxOrfaos /\ orfaosStatus \in 0..MaxOrfaos /\ orfaosFalha \in 0..MaxOrfaos
  /\ vivos \in [Restam -> Nat] /\ situacao \in [Restam -> Nat] /\ historicos \in [Restam -> Nat]
  /\ noAr \in BOOLEAN
  /\ ultimo \in {"nada", "falhaTudo", "vivos", "historico"}

(* Out of the time machine the screen never freezes: whatever the order of  *)
(* answers, clicks and timers that clear and set the variable of the next   *)
(* call, some call is due, or the choice of a day that leads to the time    *)
(* machine.                                                                 *)
NuncaCongelada ==
  timemachinecontrols \/ tmoutchangeDate \/ g_toutID \/ orfaosCall > 0

(* If the servers stop and the operator stays in real time, in the end all  *)
(* the points are marked as failed, though each call sets anew the timer    *)
(* that would mark them.                                                    *)
NoPresente == TempoReal /\ ~tmoutchangeDate
FalhaDeclarada == <>[](~noAr /\ NoPresente) => <>[](ultimo = "falhaTudo")

(* If the servers answer and the operator stays in real time, whatever is   *)
(* in memory, a failure from before or a late answer of the historian,      *)
(* gives way to values of real time.                                        *)
VoltaAoPresente == <>[](noAr /\ NoPresente) => []<>(ultimo = "vivos")

(* If the operator stays in the time machine the polling of real time ends  *)
(* and nothing of it comes to overwrite the values of the past, though a    *)
(* chain that is orphan cannot be cleared.                                  *)
MaquinaAquieta ==
  <>[]timemachinecontrols =>
    <>[](~g_toutID /\ orfaosCall = 0 /\ \A k \in Restam : vivos[k] = 0)
=============================================================================
