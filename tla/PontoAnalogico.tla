--------------------------- MODULE PontoAnalogico ---------------------------
(***************************************************************************)
(* The analog points of the real-time database of the OSHMI web server     *)
(* (webserver/bcolocal.cpp): the alarm regions of a measurement with their *)
(* hysteresis, the analog events, the alarms that wait for a delay before  *)
(* they enter the events list (ProcessaTimeout), and the HTTP handlers     *)
(* that acknowledge, silence, inhibit and change limits.                   *)
(*                                                                         *)
(* Values are integers: a write is only compared with limits.  They are    *)
(* those after KConv1 and KConv2.  Of the events list only the last limit  *)
(* event of each point is kept.  Timestamps are ages in ticks.             *)
(***************************************************************************)
EXTENDS Integers

CONSTANTS
  Pontos,       \* the analog points of the point list
  Cadastros,    \* the configurations a point can be given
  Valores,      \* the values the field and the operator write
  Faixas,       \* <<limInf, limSup, hister>> stored by the previous run
  Limites,      \* what the operator types as a limit
  Histereses,   \* what the operator types as a hysteresis
  Vazio,        \* a field of the request left empty
  LIMINFMIN, LIMSUPMAX

RGLIM_NORMAL == 0
RGLIM_ALMINF == 1
RGLIM_ALMSUP == 2
Regioes == 0..2
Nenhum  == 3         \* ~TemEventoAtrasado

Zerado == -1         \* a timestamp equal to zero
TODOS  == "todos"    \* nponto = 0 in a request: every point

CadastroValido(c) ==
  /\ c.temporizacao \in Nat       \* AlarmeTemporizado, in ticks
  /\ c.evento \in BOOLEAN         \* EventoAnalogico
  /\ c.bipa \in BOOLEAN           \* has a tag, a priority that beeps, not manual

ASSUME CadastrosAssumption == \A c \in Cadastros : CadastroValido(c)
ASSUME ValoresAssumption == Valores \subseteq Int
ASSUME FaixasAssumption == Faixas \subseteq Int \X Int \X Nat
ASSUME PedidosAssumption == Limites \subseteq Int /\ Histereses \subseteq Nat
ASSUME VazioAssumption == Vazio \notin Int
ASSUME ExtremosAssumption == LIMINFMIN \in Int /\ LIMSUPMAX \in Int
ASSUME TodosAssumption == TODOS \notin Pontos

VARIABLES
  cad,       \* [Pontos -> Cadastros], fixed when the point list is loaded
  pt,        \* [Pontos -> TPonto]
  bipando    \* TemBeep

vars == <<cad, pt, bipando>>

(***************************************************************************)
(* The state of a point, with three history fields: ultimo, the region in  *)
(* the last limit event of the list; troca, the value of the last change   *)
(* of region, meaningful (houveTroca) until the limits change.             *)
(***************************************************************************)
TPonto ==
  [valor      : Int,
   limInf     : Int,
   limSup     : Int,
   hister     : Nat,
   regiao     : Regioes,             \* RegiaoAlmLimite
   naoRec     : BOOLEAN,             \* AlarmeNaoRec
   tag        : Nat \cup {Zerado},   \* age of TagTempoAlarme
   alrIn      : BOOLEAN,             \* AlrIn
   atrasado   : Regioes \cup {Nenhum},   \* EventoAtrasado
   ultimo     : Regioes,
   houveTroca : BOOLEAN,
   troca      : Int]

Alcance(alvo) == IF alvo = TODOS THEN Pontos ELSE {alvo}

(***************************************************************************)
(* Limits.                                                                 *)
(***************************************************************************)

(* Limits open, or both zero: the region is always the normal one.          *)
SemLimites(t) ==
  \/ t.limInf <= LIMINFMIN /\ t.limSup >= LIMSUPMAX
  \/ t.limInf = 0 /\ t.limSup = 0

(* ana_normalizando: the value came back, past the hysteresis.              *)
MutanteNormalizando(t, v) ==
  \/ t.regiao = RGLIM_ALMINF /\ v <= t.limSup /\ v >= t.limInf
  \/ t.regiao = RGLIM_ALMSUP /\ v >= t.limInf /\ v <= t.limSup

Normalizando(t, v) ==
  \/ t.regiao = RGLIM_ALMINF /\ v <= t.limSup /\ v >= t.limInf + t.hister
  \/ t.regiao = RGLIM_ALMSUP /\ v >= t.limInf /\ v <= t.limSup - t.hister

(* Out of the normal region by more than the hysteresis, or straight from   *)
(* one alarm region to the other.                                           *)
Subviola(t, v) ==
  \/ t.regiao = RGLIM_ALMSUP /\ v < t.limInf
  \/ t.regiao = RGLIM_NORMAL /\ v < t.limInf - t.hister

Sobreviola(t, v) ==
  \/ t.regiao = RGLIM_ALMINF /\ v > t.limSup
  \/ t.regiao = RGLIM_NORMAL /\ v > t.limSup + t.hister

MutanteNovaRegiao(t, v) ==
  IF SemLimites(t) \/ Normalizando(t, v) THEN RGLIM_NORMAL
  ELSE IF t.regiao = RGLIM_NORMAL /\ Subviola(t, v) THEN RGLIM_ALMINF
  ELSE IF t.regiao = RGLIM_NORMAL /\ Sobreviola(t, v) THEN RGLIM_ALMSUP
  ELSE t.regiao

NovaRegiao(t, v) ==
  IF SemLimites(t) \/ Normalizando(t, v) THEN RGLIM_NORMAL
  ELSE IF Subviola(t, v) THEN RGLIM_ALMINF
  ELSE IF Sobreviola(t, v) THEN RGLIM_ALMSUP
  ELSE t.regiao

(***************************************************************************)
(* EscrevePonto for an analog point already updated once.                  *)
(***************************************************************************)

(* An analog event: a valid value that changed, or that is spontaneous.     *)
MutanteAlarmaEvento(c, t, v, falha, espontaneo) ==
  c.evento /\ ~falha /\ (v # t.valor \/ espontaneo)

AlarmaEvento(c, t, v, falha, espontaneo) ==
  c.evento /\ ~falha /\ ~t.alrIn /\ (v # t.valor \/ espontaneo)

(* The limits are tested only when the value changes.                       *)
TestaLimites(t, v) == v # t.valor /\ ~t.alrIn

MudaRegiao(t, v) == TestaLimites(t, v) /\ NovaRegiao(t, v) # t.regiao
Normaliza(t, v) == TestaLimites(t, v) /\ NovaRegiao(t, v) = RGLIM_NORMAL

Alarma(c, t, v, falha, espontaneo) ==
  \/ AlarmaEvento(c, t, v, falha, espontaneo)
  \/ MudaRegiao(t, v) /\ NovaRegiao(t, v) # RGLIM_NORMAL

(* What a change of region leaves for ProcessaTimeout: a delayed event; a   *)
(* point back to normal before its delay has none.                          *)
MutantePostergado(c, t, v) ==
  IF c.temporizacao = 0 THEN Nenhum
  ELSE IF NovaRegiao(t, v) # RGLIM_NORMAL \/ Normalizando(t, v)
       THEN IF t.atrasado = Nenhum THEN NovaRegiao(t, v) ELSE t.atrasado
       ELSE Nenhum

Postergado(c, t, v) ==
  IF /\ c.temporizacao > 0
     /\ \/ NovaRegiao(t, v) # RGLIM_NORMAL
        \/ t.atrasado = Nenhum /\ Normalizando(t, v)
  THEN NovaRegiao(t, v)
  ELSE Nenhum

EscrevePonto(c, t, v, falha, espontaneo) ==
  LET muda == MudaRegiao(t, v)
      alarma == Alarma(c, t, v, falha, espontaneo)
      normal == Normaliza(t, v)
  IN [valor      |-> v,
      limInf     |-> t.limInf,
      limSup     |-> t.limSup,
      hister     |-> t.hister,
      regiao     |-> IF muda THEN NovaRegiao(t, v) ELSE t.regiao,
      naoRec     |-> (t.naoRec \/ alarma) /\ ~normal,
      tag        |-> IF normal THEN Zerado ELSE IF alarma THEN 0 ELSE t.tag,
      alrIn      |-> t.alrIn,
      atrasado   |-> IF muda THEN Postergado(c, t, v) ELSE t.atrasado,
      ultimo     |-> IF muda /\ c.temporizacao = 0 THEN NovaRegiao(t, v)
                     ELSE t.ultimo,
      houveTroca |-> t.houveTroca \/ muda,
      troca      |-> IF muda THEN v ELSE t.troca]

(* ComoDeveBipar, now.                                                      *)
DeveBipar(c, t) ==
  /\ t.naoRec
  /\ c.bipa
  /\ t.tag # Zerado
  /\ c.temporizacao = 0 \/ t.tag > c.temporizacao

(* It is asked for right after each alarm is raised, when its age is 0.     *)
BipaEscrita(c, t, v, falha, espontaneo) ==
  Alarma(c, t, v, falha, espontaneo) /\ c.bipa /\ c.temporizacao = 0

(***************************************************************************)
(* After the point list and the dump of the previous run are loaded: the   *)
(* region is not stored, so every point starts in the normal one.          *)
(***************************************************************************)
Carregado(v, faixa, tag, inibe) ==
  [valor |-> v, limInf |-> faixa[1], limSup |-> faixa[2], hister |-> faixa[3],
   regiao |-> RGLIM_NORMAL, naoRec |-> FALSE, tag |-> tag, alrIn |-> inibe,
   atrasado |-> Nenhum, ultimo |-> RGLIM_NORMAL, houveTroca |-> FALSE,
   troca |-> 0]

Carregados(c) ==
  {Carregado(v, faixa, tag, inibe) :
     v \in Valores, faixa \in Faixas, tag \in {Zerado, c.temporizacao + 1},
     inibe \in BOOLEAN}

Init ==
  /\ cad \in [Pontos -> Cadastros]
  /\ pt \in [Pontos -> UNION {Carregados(c) : c \in Cadastros}]
  /\ \A p \in Pontos : pt[p] \in Carregados(cad[p])
  /\ bipando = FALSE

(***************************************************************************)
(* The main thread.                                                        *)
(***************************************************************************)
Escreve(p, v, falha, espontaneo) ==
  /\ pt' = [pt EXCEPT ![p] = EscrevePonto(cad[p], pt[p], v, falha, espontaneo)]
  /\ bipando' = (bipando \/ BipaEscrita(cad[p], pt[p], v, falha, espontaneo))
  /\ UNCHANGED cad

EscreveIEC(p, v, falha, espontaneo) == Escreve(p, v, falha, espontaneo)

(* The pending event enters the list when the alarm is older than the       *)
(* delay, or has no time any more.                                          *)
MutanteVenceuNaHora(c, t) ==
  t.atrasado # Nenhum /\ (t.tag = Zerado \/ t.tag >= c.temporizacao)
MutanteVenceuSemZerado(c, t) == t.atrasado # Nenhum /\ t.tag > c.temporizacao

Venceu(c, t) ==
  /\ t.atrasado # Nenhum
  /\ t.tag = Zerado \/ t.tag > c.temporizacao

EmiteAtrasado(c, t) ==
  IF Venceu(c, t) THEN [t EXCEPT !.ultimo = t.atrasado, !.atrasado = Nenhum]
  ELSE t

ProcessaTimeout ==
  /\ \E p \in Pontos : Venceu(cad[p], pt[p])
  /\ pt' = [p \in Pontos |-> EmiteAtrasado(cad[p], pt[p])]
  /\ bipando' = (bipando \/ \E p \in Pontos : Venceu(cad[p], pt[p])
                                              /\ DeveBipar(cad[p], pt[p]))
  /\ UNCHANGED cad

(***************************************************************************)
(* The HTTP thread.                                                        *)
(***************************************************************************)
ImposePoint(p, v, falha) == Escreve(p, v, falha, FALSE)

(* A timed alarm persists only after its time; then its region decides.     *)
TemAlarmePersistente(c, t) ==
  /\ ~(c.temporizacao > 0 /\ t.tag # Zerado /\ t.tag <= c.temporizacao)
  /\ t.regiao # RGLIM_NORMAL

AckDoPonto(c, t) ==
  [t EXCEPT !.naoRec = FALSE,
            !.tag = IF TemAlarmePersistente(c, t) THEN @ ELSE Zerado]

ReconheceAlarmePonto(alvo) ==
  /\ pt' = [p \in Pontos |-> IF p \in Alcance(alvo)
                             THEN AckDoPonto(cad[p], pt[p]) ELSE pt[p]]
  /\ UNCHANGED <<cad, bipando>>

(* Alone, or at the end of an acknowledge.                                  *)
SilenciaBeep ==
  /\ bipando
  /\ bipando' = FALSE
  /\ UNCHANGED <<cad, pt>>

(* The lower limit: one below the minimum changes the upper limit instead.  *)
AposLimInf(t, li) ==
  IF li = Vazio THEN t
  ELSE IF li < LIMINFMIN THEN [t EXCEPT !.limSup = LIMINFMIN]
  ELSE IF li <= t.limSup /\ li <= LIMSUPMAX THEN [t EXCEPT !.limInf = li]
  ELSE t

AposLimSup(t, ls) ==
  IF ls = Vazio THEN t
  ELSE IF ls > LIMSUPMAX THEN [t EXCEPT !.limSup = LIMSUPMAX]
  ELSE IF ls >= t.limInf /\ ls >= LIMINFMIN THEN [t EXCEPT !.limSup = ls]
  ELSE t

AposHister(t, h) == IF h = Vazio THEN t ELSE [t EXCEPT !.hister = h]

MutanteSetAlrIn(t, inibe) == [t EXCEPT !.alrIn = inibe]
SetAlrIn(t, inibe) == [t EXCEPT !.alrIn = inibe, !.naoRec = @ /\ ~inibe]

EsqueceTroca(t) == [t EXCEPT !.houveTroca = FALSE, !.troca = 0]

(* The region is not evaluated again.                                       *)
HandleWritePoint(p, li, ls, h, inibe) ==
  LET t == AposHister(AposLimSup(AposLimInf(pt[p], li), ls), h)
      mexeu == {li, ls, h} # {Vazio}
  IN /\ pt' = [pt EXCEPT ![p] =
                 SetAlrIn(IF mexeu THEN EsqueceTroca(t) ELSE t, inibe)]
     /\ UNCHANGED <<cad, bipando>>

(***************************************************************************)
(* Time.  Ages are not told apart once past the delay of the alarm.        *)
(***************************************************************************)
Envelhece(c, t) ==
  IF t.tag = Zerado \/ t.tag > c.temporizacao THEN t
  ELSE [t EXCEPT !.tag = @ + 1]

PassaTempo ==
  /\ pt' = [p \in Pontos |-> Envelhece(cad[p], pt[p])]
  /\ pt' # pt
  /\ UNCHANGED <<cad, bipando>>

Next ==
  \/ \E p \in Pontos, v \in Valores, falha, espontaneo \in BOOLEAN :
       EscreveIEC(p, v, falha, espontaneo)
  \/ \E p \in Pontos, v \in Valores, falha \in BOOLEAN : ImposePoint(p, v, falha)
  \/ ProcessaTimeout
  \/ \E alvo \in Pontos \cup {TODOS} : ReconheceAlarmePonto(alvo)
  \/ SilenciaBeep
  \/ \E p \in Pontos, li, ls \in Limites \cup {Vazio},
        h \in Histereses \cup {Vazio}, inibe \in BOOLEAN :
       HandleWritePoint(p, li, ls, h, inibe)
  \/ PassaTempo

Spec == Init /\ [][Next]_vars

(* The clock runs, and the one second timer of the form calls               *)
(* ProcessaTimeout every 13 ticks, whatever the operators and the field do. *)
LiveSpec == Spec /\ WF_vars(PassaTempo) /\ WF_vars(ProcessaTimeout)

(***************************************************************************)
(* Properties.                                                             *)
(***************************************************************************)
A == INSTANCE Anunciador WITH alarmados <- {p \in Pontos : pt[p].naoRec},
                              inibidos <- {p \in Pontos : pt[p].alrIn},
                              sirene <- IF bipando THEN 1 ELSE 0

(* The analog points alarm, sound, are acknowledged and inhibited as        *)
(* Anunciador says: a write of limits, or a delayed event that comes due,   *)
(* neither alarms nor makes an inhibited point sound.                       *)
CumpreAnunciador == A!Spec

TypeOK ==
  /\ cad \in [Pontos -> Cadastros]
  /\ pt \in [Pontos -> TPonto]
  /\ bipando \in BOOLEAN

(* An alarm that is on has a time, is not inhibited and, when the point is  *)
(* not an analog event, its value is still in an alarm region: what         *)
(* normalisation, acknowledge, inhibition and change of limits end, no      *)
(* later call leaves on.                                                    *)
AlarmeViolando ==
  \A p \in Pontos :
    pt[p].naoRec =>
      /\ pt[p].tag # Zerado
      /\ ~pt[p].alrIn
      /\ ~cad[p].evento => pt[p].regiao # RGLIM_NORMAL

(* The events list follows the region: the last limit event of a point      *)
(* without delay is of its region, and the event a point with delay is      *)
(* waiting to enter is of its region, never that of an earlier violation.   *)
EventoDaRegiao ==
  \A p \in Pontos :
    /\ cad[p].temporizacao = 0 =>
         pt[p].ultimo = pt[p].regiao /\ pt[p].atrasado = Nenhum
    /\ pt[p].atrasado # Nenhum => pt[p].atrasado = pt[p].regiao

(* A write that changes the value of a point that is not inhibited leaves   *)
(* it in a region the value and the limits allow, with the hysteresis on    *)
(* the side of the previous region, whatever limits the operator typed and  *)
(* however stale the region was.                                            *)
RegiaoPermitida(t) ==
  IF SemLimites(t) THEN t.regiao = RGLIM_NORMAL
  ELSE /\ t.regiao = RGLIM_ALMINF => t.valor < t.limInf + t.hister
       /\ t.regiao = RGLIM_ALMSUP => t.valor > t.limSup - t.hister
       /\ t.regiao = RGLIM_NORMAL => /\ t.valor >= t.limInf - t.hister
                                     /\ t.valor <= t.limSup + t.hister

RegiaoAposEscrita ==
  [][\A p \in Pontos :
       pt'[p].valor # pt[p].valor /\ ~pt[p].alrIn
       => RegiaoPermitida(pt'[p])]_vars

(* No chatter: with the same limits, an alarm that begins or ends less than *)
(* the hysteresis away from the value of the previous change of region      *)
(* never happens, so a value oscillating around a limit makes one event.    *)
Distancia(a, b) == IF a > b THEN a - b ELSE b - a

SemOscilacao ==
  [][\A p \in Pontos :
       /\ pt[p].houveTroca /\ ~SemLimites(pt[p])
       /\ pt'[p].regiao # pt[p].regiao
       /\ RGLIM_NORMAL \in {pt[p].regiao, pt'[p].regiao}
       => Distancia(pt'[p].valor, pt[p].troca) > pt[p].hister]_vars

(* A timed alarm nobody acknowledged sounds when its delayed event enters,  *)
(* though it was silent when it was raised.                                 *)
AtrasadoBipa ==
  [][\A p \in Pontos :
       /\ Venceu(cad[p], pt[p]) /\ ProcessaTimeout
       /\ pt[p].naoRec /\ cad[p].bipa
       => bipando']_vars

(* A delayed event does not wait for ever: it enters or is discarded,       *)
(* unless new alarms of the point date it again and again.                  *)
AtrasadoResolve ==
  \A p \in Pontos :
    []<>(pt[p].atrasado = Nenhum) \/ []<><<pt[p].tag # 0 /\ pt'[p].tag = 0>>_vars
=============================================================================
