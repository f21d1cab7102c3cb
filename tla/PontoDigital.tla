---------------------------- MODULE PontoDigital ----------------------------
(***************************************************************************)
(* The digital points of the real-time database of the OSHMI web server    *)
(* (webserver/bcolocal.cpp): how a write from the field or from the        *)
(* operator changes the state of a point, when it raises an alarm, a beep  *)
(* and an entry in the events list (webserver/eventos_u.cpp), and how the  *)
(* HTTP handlers acknowledge, silence, inhibit and impose                  *)
(* (webserver/httpd_u.cpp).                                                *)
(*                                                                         *)
(* The points are those of the point list outside the range reserved to    *)
(* the system, and without formula.  Timestamps are kept as ages counted   *)
(* in ticks: only differences to Now() are ever tested.  The validity bits *)
(* of a point, which nothing here reads, belong to another module.         *)
(***************************************************************************)
EXTENDS Integers

CONSTANTS
  Pontos,                  \* the digital points of the point list
  Cadastros,               \* the configurations a point can be given
  Informacoes,             \* the information objects the field sends
  ALARMA_DUPLA_TRANSICAO   \* webserver option: alarm when a state is repeated

ESTDUP_INDETERMINADO == 0
ESTDUP_OFF           == 1
ESTDUP_ON            == 2
ESTDUP_INVALIDO      == 3
ESTDUP == 0..3             \* the two low bits of a qualifier, high bit first

FA_ESTFASIM_ON  == 0       \* in this format ON is stored as 0
FA_ESTFASIM_OFF == 1

ESTALM_OFF == 0            \* OFF is the alarm state, ON the normal one
ESTALM_ON  == 1            \* ON is the alarm state, OFF the normal one
ESTALM_ALL == 2            \* status: both transitions alarm
ESTALM_EVT == 3            \* pure event: only the pulse to ON matters

NORMAL  == 0               \* CodOrigem
MANUAL  == 6
COMANDO == 7

BEEP_NENHUM  == 0
BEEP_NORMAL  == 1
BEEP_CRITICO == 2

Zerado == -1               \* a timestamp equal to zero
TODOS  == "todos"          \* nponto = 0 in a request: every point

CadastroValido(c) ==
  /\ c.estadoAlarme \in ESTALM_OFF..ESTALM_EVT
  /\ c.codOrigem \in {NORMAL, MANUAL, COMANDO}
  /\ c.inverte \in BOOLEAN        \* KConv1 = -1
  /\ c.gera \in BOOLEAN           \* KConv2 = -1
  /\ c.temporizacao \in Nat       \* AlarmeTemporizado, in ticks
  /\ c.bipa \in BOOLEAN           \* has a tag, a priority that beeps, not manual
  /\ c.disjuntor \in BOOLEAN      \* supervised circuit breaker state

ASSUME CadastrosAssumption == \A c \in Cadastros : CadastroValido(c)
ASSUME OpcaoAssumption == ALARMA_DUPLA_TRANSICAO \in BOOLEAN
ASSUME TodosAssumption == TODOS \notin Pontos

(* An information object: duplo the state received, tag "sem" (no timetag), *)
(* "boa", or "ruim" (a timetag that is not a date).                         *)
Tags == {"sem", "boa", "ruim"}
Informacao == [duplo : ESTDUP, falha : BOOLEAN, subst : BOOLEAN, tag : Tags]
ASSUME InformacoesAssumption == Informacoes \subseteq Informacao

VARIABLES
  cad,       \* [Pontos -> Cadastros], fixed when the point list is loaded
  pt,        \* [Pontos -> TPonto]
  temBeep,   \* TemBeep, the beep being played
  pendente,  \* the points with an event not yet acknowledged (recon = 0)
  http,      \* the acknowledge request the HTTP thread is working on
  escrita,   \* [Threads -> SUBSET Escrita], the write each one is half way through
  cruzados,  \* history: points alarmed while an acknowledge had its events to do
  comEvento, \* history: points alarmed by a write that had its event, below
  juntos     \* history: points alarmed with their event waiting, below

historia == <<cruzados, comEvento, juntos>>
vars == <<cad, pt, temBeep, pendente, http, escrita, historia>>

(***************************************************************************)
(* The histories record what was done; no guard reads them.  A point is in *)
(* comEvento when the write that raised its alarm registers an event, both *)
(* decisions saw the same state of the point, and no acknowledge that the  *)
(* write crossed took the event.  It is in juntos when its last write left *)
(* it alarmed and with an event waiting, until an acknowledge takes the    *)
(* event, or one of a single event or an inhibition resets its alarm.      *)
(***************************************************************************)
TPonto ==
  [duplo    : ESTDUP,            \* Qual.Duplo
   duploEvt : ESTDUP,            \* QualEvt.Duplo, the last timetagged state
   valor    : {0, 1},            \* Valor
   cntAtu   : {0, 1},            \* CntAtu, saturated at its first update
   naoRec   : BOOLEAN,           \* AlarmeNaoRec
   tag      : Nat \cup {Zerado}, \* age of TagTempoAlarme
   alrIn    : BOOLEAN]           \* AlrIn

(* A write between its two calls: visto is what IncluiEvento decided from.  *)
Visto == [duplo : ESTDUP, duploEvt : ESTDUP, alrIn : BOOLEAN]
Escrita == [ponto : Pontos, info : Informacao, visto : Visto]

CAMPO == "campo"           \* the main thread, in EscreveIEC
IMPOE == "impoe"           \* the HTTP thread, in ImposePoint
Threads == {CAMPO, IMPOE}

Pedido == [passo : 0..2, alvo : Pontos \cup {TODOS}, agrega : BOOLEAN]
Alcance(alvo) == IF alvo = TODOS THEN Pontos ELSE {alvo}

DESCARTADO == 3
Recon == 0..3

(***************************************************************************)
(* Definitions on the configuration.                                       *)
(***************************************************************************)
EhEvento(c) == c.estadoAlarme = ESTALM_EVT

(* The state d is the alarm state, or the normal one, that was configured.  *)
EstadoDeAlarme(c, d) ==
  \/ c.estadoAlarme = ESTALM_OFF /\ d = ESTDUP_OFF
  \/ c.estadoAlarme = ESTALM_ON /\ d = ESTDUP_ON

EstadoNormal(c, d) ==
  \/ c.estadoAlarme = ESTALM_OFF /\ d = ESTDUP_ON
  \/ c.estadoAlarme = ESTALM_ON /\ d = ESTDUP_OFF

(* The state and the value that are stored: KConv1 = -1 inverts both bits.  *)
Gravado(c, d, usakconv) == IF usakconv /\ c.inverte THEN 3 - d ELSE d
ValorDe(d) == d % 2

(***************************************************************************)
(* The events list: what recon an event enters with, in the state t of the *)
(* point when it is included.                                              *)
(***************************************************************************)
EstadoRepetido(t, d) == t.duplo = d /\ t.duploEvt = d

MutanteReconDoEvento(c, t, d, falha) ==
  IF EhEvento(c) /\ d = ESTDUP_OFF THEN DESCARTADO
  ELSE IF EstadoNormal(c, d) \/ c.codOrigem = COMANDO THEN 1
  ELSE IF t.duplo = d THEN 2
  ELSE 0

ReconDoEvento(c, t, d, falha) ==
  IF EhEvento(c) /\ d = ESTDUP_OFF THEN DESCARTADO
  ELSE IF EstadoNormal(c, d) \/ c.codOrigem = COMANDO THEN 1
  ELSE IF ~ALARMA_DUPLA_TRANSICAO /\ EstadoRepetido(t, d) THEN 2
  ELSE IF EhEvento(c) /\ falha /\ d # ESTDUP_ON THEN 2
  ELSE 0

(* The event of an information object: only with a timetag, only if not     *)
(* inhibited; a timetag that does not convert to a date loses the event.    *)
ReconRecebido(c, t, i) ==
  IF i.tag = "boa" /\ ~t.alrIn
  THEN ReconDoEvento(c, t, i.duplo, i.falha)
  ELSE DESCARTADO

(***************************************************************************)
(* EscrevePonto, in the order of the code.                                 *)
(***************************************************************************)

(* A change without timetag is taken as timetagged so that it alarms.       *)
MutanteMudancaSemTag(c, t, i, g) ==
  i.tag = "sem" /\ t.duploEvt # i.duplo /\ ~t.alrIn /\ t.cntAtu > 0

MudancaSemTag(c, t, i, g) ==
  /\ i.tag = "sem"
  /\ ~(EhEvento(c) /\ g # ESTDUP_ON)
  /\ t.duplo # i.duplo
  /\ ~t.alrIn
  /\ t.cntAtu > 0

(* IncluiEvento is called when Qual already holds the new state.            *)
ReconGerado(c, t, i, g) ==
  IF c.gera /\ MudancaSemTag(c, t, i, g)
  THEN ReconDoEvento(c, [t EXCEPT !.duplo = g], i.duplo, i.falha)
  ELSE DESCARTADO

DisparaAlarme(c, t, i, g) ==
  /\ i.tag # "sem" \/ MudancaSemTag(c, t, i, g)
  /\ ~t.alrIn
  /\ \/ c.codOrigem = COMANDO
     \/ ~EstadoRepetido(t, i.duplo)
     \/ ALARMA_DUPLA_TRANSICAO
  /\ \/ ~EhEvento(c)
     \/ ValorDe(g) = FA_ESTFASIM_ON
     \/ c.codOrigem = COMANDO

(* The alarm is on after the block that raises it.                          *)
Alarmado(c, t, i, g) == t.naoRec \/ DisparaAlarme(c, t, i, g)

(* The change of value, or the first one, that dates or ends the alarm.     *)
MutanteDataAlarme(t, g) == t.cntAtu = 0
DataAlarme(t, g) == t.valor # ValorDe(g) \/ t.cntAtu = 0

(* Back to the normal state: acknowledges the alarm and zeroes its time.    *)
Normaliza(c, t, i, g) == DataAlarme(t, g) /\ EstadoNormal(c, i.duplo)

TagDoAlarme(c, t, i, g) ==
  LET t1 == IF DisparaAlarme(c, t, i, g) THEN 0 ELSE t.tag
      entra == EstadoDeAlarme(c, i.duplo) \/ c.estadoAlarme >= ESTALM_ALL
      zera == \/ c.estadoAlarme >= ESTALM_ALL /\ ~Alarmado(c, t, i, g)
              \/ Normaliza(c, t, i, g)
      data == DataAlarme(t, g) /\ entra /\ (t.cntAtu = 0 => t1 = Zerado)
  IN IF zera THEN Zerado ELSE IF data THEN 0 ELSE t1

(* A pure event goes back to OFF as soon as its value changes.              *)
MutantePulso(c, t, g) == FALSE
Pulso(c, t, g) == EhEvento(c) /\ t.valor # ValorDe(g)

EscrevePonto(c, t, i, usakconv) ==
  LET g == Gravado(c, i.duplo, usakconv)
  IN [duplo    |-> IF Pulso(c, t, g) THEN ESTDUP_OFF ELSE g,
      duploEvt |-> IF i.tag = "sem" THEN t.duploEvt ELSE i.duplo,
      valor    |-> IF Pulso(c, t, g) THEN FA_ESTFASIM_OFF ELSE ValorDe(g),
      cntAtu   |-> 1,
      naoRec   |-> Alarmado(c, t, i, g) /\ ~Normaliza(c, t, i, g),
      tag      |-> TagDoAlarme(c, t, i, g),
      alrIn    |-> t.alrIn]

(***************************************************************************)
(* Beeps.  ComoDeveBipar is asked for right after the alarm is raised, when *)
(* its age is 0.                                                            *)
(***************************************************************************)
ComoDeveBipar(c, i, g) ==
  IF ~c.bipa \/ c.temporizacao > 0 THEN BEEP_NENHUM
  ELSE IF /\ c.disjuntor /\ c.codOrigem = NORMAL
          /\ g = ESTDUP_OFF /\ ~i.subst /\ ~i.falha
  THEN BEEP_CRITICO ELSE BEEP_NORMAL

MutanteAtivaBeep(atual, tipo) == IF tipo = BEEP_NENHUM THEN atual ELSE tipo

AtivaBeep(atual, tipo) ==
  IF atual = BEEP_CRITICO \/ tipo = BEEP_NENHUM THEN atual ELSE tipo

BeepDaEscrita(c, t, i, usakconv) ==
  LET g == Gravado(c, i.duplo, usakconv)
  IN IF DisparaAlarme(c, t, i, g)
     THEN AtivaBeep(temBeep, ComoDeveBipar(c, i, g))
     ELSE temBeep

(***************************************************************************)
(* The state after the point list and the dump of the previous run have    *)
(* been loaded: nothing is alarmed.                                        *)
(***************************************************************************)
DuplosIniciais(c) ==
  IF EhEvento(c) THEN {ESTDUP_OFF}
  ELSE IF c.codOrigem = MANUAL THEN {ESTDUP_ON, ESTDUP_OFF}
  ELSE ESTDUP

PontoCarregado(d, tag, inibe) ==
  [duplo |-> d, duploEvt |-> ESTDUP_INDETERMINADO, valor |-> ValorDe(d),
   cntAtu |-> 0, naoRec |-> FALSE, tag |-> tag, alrIn |-> inibe]

Carregados(c) ==
  {PontoCarregado(d, tag, inibe) :
     d \in DuplosIniciais(c), tag \in {Zerado, c.temporizacao + 1},
     inibe \in BOOLEAN}

SemPedido == [passo |-> 0, alvo |-> TODOS, agrega |-> FALSE]

Init ==
  /\ cad \in [Pontos -> Cadastros]
  /\ pt \in [Pontos -> UNION {Carregados(c) : c \in Cadastros}]
  /\ \A p \in Pontos : pt[p] \in Carregados(cad[p])
  /\ temBeep = BEEP_NENHUM
  /\ pendente = {}
  /\ http = SemPedido
  /\ escrita = [th \in Threads |-> {}]
  /\ cruzados = {}
  /\ comEvento = {}
  /\ juntos = {}

(***************************************************************************)
(* Writes.  The main thread, for an information object that arrives in a   *)
(* UDP message, and the HTTP thread, for an imposition, make the same two  *)
(* calls, IncluiEvento and then EscrevePonto, and the other thread may run *)
(* between them.                                                           *)
(***************************************************************************)
Ve(t) == [duplo |-> t.duplo, duploEvt |-> t.duploEvt, alrIn |-> t.alrIn]

(* The first call: the event, possibly discarded, enters the list.          *)
Anuncia(th, p, i, recon) ==
  /\ escrita[th] = {}
  /\ pendente' = IF recon = 0 THEN pendente \cup {p} ELSE pendente
  /\ escrita' = [escrita EXCEPT ![th] = {[ponto |-> p, info |-> i, visto |-> Ve(pt[p])]}]
  /\ UNCHANGED <<cad, pt, temBeep, http, historia>>

(* The write registers an event, which was decided in the state the point   *)
(* is written in, and did not have it acknowledged meanwhile.               *)
ReconAnunciado(th, c, e) ==
  IF th = CAMPO THEN ReconRecebido(c, e.visto, e.info)
  ELSE ReconDoEvento(c, e.visto, e.info.duplo, e.info.falha)

ComSeuEvento(th, e) ==
  /\ th = IMPOE \/ e.info.tag = "boa"
  /\ e.visto = Ve(pt[e.ponto])
  /\ ReconAnunciado(th, cad[e.ponto], e) = 0 => e.ponto \in pendente

Marca(S, p, sim) == IF sim THEN S \cup {p} ELSE S \ {p}

(* The second call: EscrevePonto, with the event it may generate.           *)
Grava(th, e) ==
  LET p == e.ponto
      i == e.info
      c == cad[p]
      t == pt[p]
      g == Gravado(c, i.duplo, th = CAMPO)
      n == EscrevePonto(c, t, i, th = CAMPO)
  IN /\ pendente' = IF ReconGerado(c, t, i, g) = 0 THEN pendente \cup {p} ELSE pendente
     /\ pt' = [pt EXCEPT ![p] = n]
     /\ temBeep' = BeepDaEscrita(c, t, i, th = CAMPO)
     /\ escrita' = [escrita EXCEPT ![th] = {}]
     /\ IF DisparaAlarme(c, t, i, g)
        THEN /\ cruzados' = IF http.passo = 1 THEN cruzados \cup {p} ELSE cruzados
             /\ comEvento' = Marca(comEvento, p, ComSeuEvento(th, e))
        ELSE UNCHANGED <<cruzados, comEvento>>
     /\ juntos' = Marca(juntos, p, n.naoRec /\ p \in pendente')
     /\ UNCHANGED <<cad, http>>

(* EscreveIEC for the digital types, from the RTU of the point, until       *)
(* IncluiEvento, which is called only for a timetag and without inhibition. *)
EscreveIEC(p, i) == Anuncia(CAMPO, p, i, ReconRecebido(cad[p], pt[p], i))

GravaIEC == \E e \in escrita[CAMPO] : Grava(CAMPO, e)

(***************************************************************************)
(* The HTTP thread.  An acknowledge is three calls, and the main thread may *)
(* run between them.                                                        *)
(***************************************************************************)

(* A timed alarm persists only after its time; then its state decides.      *)
TemAlarmePersistente(c, t) ==
  /\ ~(c.temporizacao > 0 /\ t.tag # Zerado /\ t.tag <= c.temporizacao)
  /\ EstadoDeAlarme(c, t.duplo)

AckDoPonto(c, t) ==
  [t EXCEPT !.naoRec = FALSE,
            !.tag = IF TemAlarmePersistente(c, t) THEN @ ELSE Zerado]

(* The daemon is one thread: a request waits for the one in course.         *)
Livre == http.passo = 0 /\ escrita[IMPOE] = {}

ReconheceAlarmePonto(alvo, agrega) ==
  /\ Livre
  /\ pt' = [p \in Pontos |-> IF p \in Alcance(alvo)
                             THEN AckDoPonto(cad[p], pt[p]) ELSE pt[p]]
  /\ http' = [passo |-> 1, alvo |-> alvo, agrega |-> agrega]
  /\ juntos' = IF agrega THEN juntos ELSE juntos \ Alcance(alvo)
  /\ UNCHANGED <<cad, temBeep, pendente, escrita, cruzados, comEvento>>

(* All the events of the point, or the one of the request, which may be the *)
(* only one that was pending.                                               *)
ReconheceEvento ==
  /\ http.passo = 1
  /\ IF http.agrega
     THEN pendente' = pendente \ Alcance(http.alvo)
     ELSE pendente' \in {pendente, pendente \ {http.alvo}}
  /\ http' = [http EXCEPT !.passo = 2]
  /\ comEvento' = comEvento \ ((pendente \ pendente') \cap cruzados)
  /\ juntos' = juntos \ (pendente \ pendente')
  /\ cruzados' = {}
  /\ UNCHANGED <<cad, pt, temBeep, escrita>>

(* The alarm is reset after the events.                                     *)
MutanteTerminaReconhecimento ==
  /\ http.passo = 2
  /\ temBeep' = BEEP_NENHUM
  /\ http' = SemPedido
  /\ pt' = [p \in Pontos |-> IF p \in Alcance(http.alvo)
                             THEN AckDoPonto(cad[p], pt[p]) ELSE pt[p]]
  /\ UNCHANGED <<cad, pendente, escrita, historia>>

TerminaReconhecimento ==
  /\ http.passo = 2
  /\ temBeep' = BEEP_NENHUM
  /\ http' = SemPedido
  /\ UNCHANGED <<cad, pt, pendente, escrita, historia>>

SilenciaBeep ==
  /\ Livre
  /\ temBeep' = BEEP_NENHUM
  /\ UNCHANGED <<cad, pt, pendente, http, escrita, historia>>

(* WritePoint: the alarm inhibition of the point; inhibiting acknowledges.  *)
SetAlrIn(p, inibe) ==
  /\ Livre
  /\ pt' = [pt EXCEPT ![p].alrIn = inibe,
                      ![p].naoRec = pt[p].naoRec /\ ~inibe]
  /\ juntos' = IF inibe THEN juntos \ {p} ELSE juntos
  /\ UNCHANGED <<cad, temBeep, pendente, http, escrita, cruzados, comEvento>>

(* ImposePoint until IncluiEvento, which is always called; then the state   *)
(* is written without conversion nor timetag.  The pages send only the      *)
(* value (V), from which the handler makes the qualifier.                   *)
Imposicao(i) ==
  i.tag = "sem" /\ ~i.falha /\ ~i.subst /\ i.duplo \in {ESTDUP_ON, ESTDUP_OFF}

ImposePoint(p, i) ==
  /\ Livre
  /\ Imposicao(i)
  /\ Anuncia(IMPOE, p, i, ReconDoEvento(cad[p], pt[p], i.duplo, i.falha))

GravaImposto == \E e \in escrita[IMPOE] : Grava(IMPOE, e)

(***************************************************************************)
(* Time.                                                                   *)
(***************************************************************************)

(* Ages are not told apart once past the delay of the alarm.                *)
Envelhece(c, t) ==
  IF t.tag = Zerado \/ t.tag > c.temporizacao THEN t.tag ELSE t.tag + 1

PassaTempo ==
  /\ pt' = [p \in Pontos |-> [pt[p] EXCEPT !.tag = Envelhece(cad[p], pt[p])]]
  /\ pt' # pt
  /\ UNCHANGED <<cad, temBeep, pendente, http, escrita, historia>>

Next ==
  \/ \E p \in Pontos, i \in Informacoes : EscreveIEC(p, i)
  \/ GravaIEC
  \/ \E p \in Pontos, i \in Informacoes : ImposePoint(p, i)
  \/ GravaImposto
  \/ \E alvo \in Pontos \cup {TODOS}, agrega \in BOOLEAN :
       ReconheceAlarmePonto(alvo, agrega)
  \/ ReconheceEvento
  \/ TerminaReconhecimento
  \/ SilenciaBeep
  \/ \E p \in Pontos, inibe \in BOOLEAN : SetAlrIn(p, inibe)
  \/ PassaTempo

Spec == Init /\ [][Next]_vars

(***************************************************************************)
(* Properties.                                                             *)
(***************************************************************************)
A == INSTANCE Anunciador WITH alarmados <- {p \in Pontos : pt[p].naoRec},
                              inibidos <- {p \in Pontos : pt[p].alrIn},
                              sirene <- temBeep

(* The digital points alarm, sound, are acknowledged and inhibited as       *)
(* Anunciador says, though the handlers of the two threads interleave: no   *)
(* write alarms or sounds for an inhibited point, and a normal beep never   *)
(* takes the place of a critical one that nobody silenced.                  *)
CumpreAnunciador == A!Spec

TypeOK ==
  /\ cad \in [Pontos -> Cadastros]
  /\ pt \in [Pontos -> TPonto]
  /\ temBeep \in {BEEP_NENHUM, BEEP_NORMAL, BEEP_CRITICO}
  /\ pendente \subseteq Pontos
  /\ http \in Pedido
  /\ escrita \in [Threads -> SUBSET Escrita]
  /\ cruzados \subseteq Pontos
  /\ comEvento \subseteq Pontos
  /\ juntos \subseteq Pontos

(* A point whose alarm is inhibited is never left alarmed, whatever order   *)
(* field writes, inhibitions and acknowledges of the two threads come in    *)
(* (SetAlrIn, and the AlrIn guards of EscrevePonto).                        *)
InibidoSemAlarme == \A p \in Pontos : pt[p].alrIn => ~pt[p].naoRec

(* The stored value and the stored state always tell the same, and a pure   *)
(* event never stays ON: the pulse falls back by itself in the write that   *)
(* receives it, so that the next pulse is a change again.                   *)
EstadoCoerente ==
  \A p \in Pontos :
    /\ pt[p].valor = ValorDe(pt[p].duplo)
    /\ EhEvento(cad[p]) => pt[p].valor = FA_ESTFASIM_OFF

(* The states for which an alarm asks for an event to acknowledge.          *)
PedeEvento(c, d) ==
  /\ ~EhEvento(c) /\ c.codOrigem # COMANDO
  /\ c.estadoAlarme = ESTALM_ALL \/ ~c.inverte
  /\ ~EstadoNormal(c, d)

(* An alarm and its event are never parted but as the crossing of the two   *)
(* threads allows.  First, IncluiEvento and EscrevePonto agree: a point     *)
(* that a timetagged change or an imposition left alarmed, out of its       *)
(* normal state, has an event waiting.  The code lets that fail in two      *)
(* crossings, which comEvento leaves out: the other thread changes the      *)
(* point between the two calls of the write; or an acknowledge takes the    *)
(* event (httpd_u.cpp:916, 929) of an alarm that the write raised after the *)
(* acknowledge had reset the alarm of the point (848).  Second, and in      *)
(* every crossing: an alarm with its event waiting does not go away before  *)
(* the event, so that nothing is left to acknowledge with the alarm         *)
(* already off.                                                             *)
AlarmeComEvento ==
  \A p \in comEvento :
    pt[p].naoRec /\ PedeEvento(cad[p], pt[p].duplo) => p \in pendente

EmReconhecimento(p) == http.passo = 1 /\ http.agrega /\ p \in Alcance(http.alvo)

EventoComAlarme ==
  \A p \in juntos : p \in pendente /\ (pt[p].naoRec \/ EmReconhecimento(p))

AlarmeEEvento == AlarmeComEvento /\ EventoComAlarme

(* A transition of a supervised point into its configured alarm state,      *)
(* timetagged or not, leaves it alarmed and dated, unless it is inhibited   *)
(* or it is the first update.                                               *)
EntraEmAlarme(p) ==
  /\ ~EstadoDeAlarme(cad[p], pt[p].duplo)
  /\ EstadoDeAlarme(cad[p], pt'[p].duplo)
  /\ ~pt[p].alrIn /\ pt[p].cntAtu = 1
  /\ ~cad[p].inverte

TransicaoAlarma ==
  [][\A p \in Pontos :
       EntraEmAlarme(p) => pt'[p].naoRec /\ pt'[p].tag # Zerado]_vars

(* A transition of a supervised point straight from its alarm state to its  *)
(* normal one ends its alarm and zeroes its time, even when the transition  *)
(* is timetagged and raises the alarm in the same write.                    *)
VoltaDoAlarme(p) ==
  /\ EstadoDeAlarme(cad[p], pt[p].duplo)
  /\ EstadoNormal(cad[p], pt'[p].duplo)
  /\ ~cad[p].inverte

VoltaNormaliza ==
  [][\A p \in Pontos :
       VoltaDoAlarme(p) => ~pt'[p].naoRec /\ pt'[p].tag = Zerado]_vars

(* Every timetagged pulse of a pure event that is not inhibited enters the  *)
(* list to be acknowledged and alarms, however many came before it and      *)
(* whatever the HTTP thread does between its event and its write.           *)
Pulsos == {i \in Informacoes : i.duplo = ESTDUP_ON /\ i.tag = "boa"}

Pulsavel(p) ==
  /\ EhEvento(cad[p]) /\ ~cad[p].inverte /\ cad[p].codOrigem # COMANDO
  /\ ~pt[p].alrIn

PulsoAlarma ==
  [][/\ \A p \in Pontos, i \in Pulsos :
          Pulsavel(p) /\ EscreveIEC(p, i) => p \in pendente'
     /\ \A e \in escrita[CAMPO] :
          e.info \in Pulsos /\ Pulsavel(e.ponto) /\ Grava(CAMPO, e)
          => pt'[e.ponto].naoRec]_vars
=============================================================================
