# OSHMI in TLA+

OSHMI (Open Substation HMI) supervises an electrical substation. This directory holds
TLA+ models of the parts of it whose behaviour over time matters: alarms and events of
the real-time database, the redundancy of the protocol driver, the IEC 60870-5-104 link,
the way of a command from the operator to the RTU and back, and the screen viewer of the
browser. Definitions keep the names of the code (mostly Portuguese); `PROJECT.json`
maps each of them to the lines it models. Line numbers below are those of the source.

## 1. The system

    RTU --IEC 104/TCP--> driver (qtester104) --I104M/UDP--> web server (webserver) <--HTTP-- browsers
                            |  keep-alive/UDP                 |  BDTR/UDP, HTTP
                         driver of the other computer      web server of the other computer
    mon_proc restarts processes that end or hang; batch files feed SQL files to the databases

| Component | State | Operations | Correct when |
|---|---|---|---|
| Digital points, `bcolocal.cpp` | `Qual`, `QualEvt`, `Valor`, `AlarmeNaoRec`, `TagTempoAlarme`, `AlrIn`, `TemBeep` | `EscrevePonto`, `EscreveIEC`, `ReconheceAlarmePonto`, `SetAlrIn`, `SilenciaBeep` | an inhibited point is not alarmed; no alarm is missed, left without its event, or left by a pure event that does not fall back |
| Analog points, `bcolocal.cpp` | value, limits, `RegiaoAlmLimite`, `EventoAtrasado` | the same, `ProcessaTimeout`, limit changes | the region fits value, limits and hysteresis; no chatter; delayed events are of the current region, sound and resolve |
| HTTP handlers, `httpd_u.cpp` | the request in course | ack/remove (R, Q), silence (Z), write (W), impose (X), command (K) | a request half done leaves alarm and event consistent |
| Events, `eventos_u.cpp` | `ListaInsSQL`, `ListaRecSQL`, `Entra` | `IncluiEvento`, `ReconheceEvento`, `ProcessaFila` | an event enters with the right `recon`; an ack is applied after the insertion |
| Start, dump, `dumpdb_u.cpp` | the table DUMPDB | `LePontos`, `RecuperaInfoDumpDB`, dump | a restart starts from a consistent point |
| Driver redundancy, `mainwindow.cpp`, `qiec104.cpp` | `isPrimary`, `I104M_CntDnToBePrimary`, the socket | keep-alive timer and datagrams, TCP slots | one primary; it gives its turn when it loses the RTU; a secondary does not stay connected |
| Link layer, `iec104_class.cpp` | `VS`, `VR`, `TxOk`, `tout_*` | `onTimerSecond`, `parseAPDU`, `solicitGI`, `sendCommand`, TCP slots | numbers without gaps, acknowledgements in time, losses noticed, data requested until it comes |
| I104M, `i104m_u.cpp` | counters, point COMUNIC_I104 | one UDP handler | a recovered link is interrogated again |
| Commands, `httpd_u.cpp`, `i104m_u.cpp`, `mainwindow.cpp` | `cmdNPonto`, `cmdCntAck`, `CmdAck*` of a point, `LastCommandAddress` | request, poll, select, execute, answer | each command is executed once, where it was selected, and answered to who asked |
| HMI synchronisation, `webserver_u.cpp`, `bdtr_*` | forwarding list | forwarded acks, state copies | both HMIs agree |
| Monitor, `mon_proc/proc.cpp` | `WDCnt` | timer, keep-alives | a hung process is restarted, a live one is not |
| Historian, `historico_u.cpp` | `ListaValHist` | flush | each value in one well-formed statement |
| Screen viewer, polling, `websage.js`, `util.js` | `g_toutID`, `g_toutStatusID`, `g_timeoutFalhaID`, the two bars, requests in transit | `callServer`, `getServerStatus`, `falhaTudo`, answers and repetitions, time machine | the screen never freezes; a dead server is declared; real time and past do not overwrite one another |
| Screen viewer, drawing, `websage.js` | `V`, `F`, `Sha1*`, `g_sha1ant_*`, `g_blinkList*`, opacity | `showValsSVG`, `drawSVG`, `timerBlinkDraw`, `changeDate` | what is drawn is what was answered; alarms, and only they, blink |
| Dialogs of a point, `websage.js`, `dlginfo.html`, `dlgcomando.html` | `NPTO`, `CNPTO`, `g_win_cmd`, counters of tries | `janelaInfo`, `showValsInfo*`, `janelaComando`, `showValsCmd*`, `executaComando`, `writeValor` | a window writes and commands the point it shows; retries end; the point is released |
| Calculations, `bcolocal.cpp` | calculated points | two periodic passes | results of valid operands are valid |

The web server has two threads: the main (VCL) one, with the UDP handlers and the timers,
and the HTTP daemon's (`HTTPD_MODE` 1). They share the points; the flag `Acessando` makes
a writer sleep once, and excludes nobody. What is hard: calls of the two threads between
one another; the long history of a point (states of two bits, a value of one, timetagged
or not); alarms that wait; messages lost or crossing between the two computers; timers that
other messages restart; restarts. The browser page has one thread, but timers, answers, animation
frames and the scripts of its popup windows come in any order and share global variables, and answers
are scripts that assign them. `PROJECT.json` "hazards" lists each one at its line.

Simulation, Lua, JSON, the other protocol drivers, the shell, the other browser pages and the
database scripts are adapters or presentation and are not modelled.

## 2. Modules

Each component has `X.tla` (state, actions, properties), where it needs configuration data
`MCX.tla` (instances for TLC), `X*.cfg`, and `X_proofs.tla`. The operators whose name
begins with `Mutante` are variants, each with a plausible bug, used in place of the operator that
follows to make sure that the properties notice; nothing else refers to them.

### PontoDigital

`pt[p]` is the part of `TPonto` that decides alarms. `EscrevePonto` is the function of
`bcolocal.cpp:1101-1371` for a digital point, as the next record in terms of the named
decisions of the code: `Gravado` (the inversion KConv1=-1), `MudancaSemTag` (a change without
timetag taken as timetagged), `DisparaAlarme`, `Normaliza`, `TagDoAlarme`, `Pulso`. The event
that `IncluiEvento` registers is reduced to the `recon` it enters with (`ReconDoEvento`), and
the list to the set `pendente` of points with an event not acknowledged.

A write is two steps of the thread that makes it, because it is two calls and the other thread may
run between them: the event (`Anuncia`, from `IncluiEvento`) and the point (`Grava`, from `EscrevePonto`). Those of
the main thread are `EscreveIEC` and `GravaIEC` (`bcolocal.cpp:2828`, `2848`, `3062`), those of the HTTP one `ImposePoint` and
`GravaImposto` (`httpd_u.cpp:587`, `599`); `escrita` is the write each thread is half way through. The acknowledge handler is three
steps: `ReconheceAlarmePonto`, `ReconheceEvento`, `TerminaReconhecimento` (`http.passo` is the call that comes next). Other HTTP
requests wait for the one in course (`Livre`): the daemon is one thread. One `EscrevePonto` is one step: its inner races on single fields
are not modelled. Times are ages in ticks, and stop growing past the delay of the point. An imposition is a value,
from which the handler makes the qualifier (`Imposicao`): the handler would take any qualifier (`FL`), but the pages send only the value, and
the request that one HMI forwards to the other carries the pair the first one made.

`AlarmeEEvento` says when an alarm and its event may part. It uses three histories, which no guard reads: `cruzados`, the
points alarmed while an acknowledge is between its first two calls; `comEvento`, those alarmed by a write whose two calls saw the same
state of the point and whose event no crossing acknowledge took; `juntos`, those left alarmed with their event waiting. A point of `comEvento` that is alarmed out
of its normal state (`PedeEvento`; events of the return to normal enter acknowledged by design) has its event waiting, and a point of
`juntos` keeps its alarm while the event waits, in every crossing. What `comEvento` leaves out the code does let happen, and TLC reaches each case:

- an alarm raised between `httpd_u.cpp:848` and `916` (or `929`) loses its event to the acknowledge, which had already reset the alarm: it stays on
  without an event, until the point is acknowledged for another one or goes back to normal;
- an acknowledge between the two calls of a write takes the event before the write raises the alarm: the same end;
- the inhibition lifted, or the point imposed, between the two calls of `EscreveIEC`: the event was not registered, or entered removed as
  of a repeated state, and the write alarms.

### PontoAnalogico

The same function for an analog point (`bcolocal.cpp:1315-1486`), `ProcessaTimeout` for the
delayed events, and the limit fields of `WritePoint` with their range tests. Values are integers after
KConv. `ultimo` (the region in the last limit event of the list), `houveTroca` and `troca`
are history. The region is not in the dump, so Init puts every point in the normal one.
Here the acknowledge is one step: its event part does not touch what the module keeps.

### Anunciador

What both kinds of point promise the operator, in three variables: the points alarmed, those inhibited, and the siren.
Only a point that is not inhibited alarms or sounds, inhibiting ends the alarm, an acknowledge reaches what it was asked
for, and the siren never gets weaker but by silencing. `PontoDigital` and `PontoAnalogico` implement it (`CumpreAnunciador`), each by
reading the two sets off `pt` and the siren off its beep. Values, states, limits, times and events disappear.

### Redundancia

Two drivers, the tick of the keep-alive timer (`slot_timer_I104M_kamsg`), the datagram in
transit (`ka`), the socket in three states, crashes (`Morre`) and restarts (`Inicia`). `perdida` and `cedeu` are
history. Assumptions: the timers have the same period, so their ticks alternate (`vez`), and a
datagram takes less than the phase between them (`Tick` is guarded by `ka = {}`); with
crossing keep-alives both computers can demote each other. `mAllowConnect` equals `isPrimary`, for
they are always assigned together. The Connect button is left out. `ForcePrimary` is empty in the
run; `UmPrimario` excepts it.

### Turno

The turn to talk to the RTU, as the keep-alives keep it: who takes or holds the turn tells the others in the same step, and
takes it while no notice travels; an arrived notice is obeyed; who gave the turn up waits for the other one, or for a
crash. `Redundancia` implements it (`CumpreTurno`): the holders are the primaries and the notices the keep-alives in transit.
Timers, counts and sockets disappear.

### Iec104Link

The driver's variables, and an RTU that is external: what it owes (`deve`), what it sent and was
not read (`volta`), its numbers and its window. Numbers step by one, as the low bit of VS and VR
is the frame format. Messages to the RTU arrive at once and messages from it take any
time; the order is TCP's. S frames from the RTU are ignored by the code and are not modelled.
The sequence check is on, as it is by default (`iec104_class.cpp:47`). `idade` is a history clock.

`packetReadyTCP` is `LeQuadro`, `QuadroQuebrado` and `LeForaDeLugar`. A read that ends inside a frame (`QuadroQuebrado`) leaves at the head of
`volta` what is left of it (`Resto`), or the frame itself less its start and length, and notes only that it broke (`broken_msg`), not how much was missing:
the frame is a local of the function. The next read (`iec104_class.cpp:264`) does not look for a start, takes for the length what it finds in
a new local, and reads that many bytes. `LeForaDeLugar` is that read, and the one that looks for a start inside a `Resto`: it spends any number of frames, the last one
whole or not, and finds nothing or what looks like any frame, of any number. If what it takes for the length is the right one, or too short for a frame, the read is
that of `LeQuadro`. `broken_msg` is not reset by `onConnectTCP`, so the first frame of a new connection may be misread too. The histories are
of a connection: `quebrou`, a read broke in it, or it began with the mark; `lacuna`, bytes of a data frame were spent otherwise; `engano`, bytes out of place
were taken for a frame. After an `engano` a number may agree by chance, in the code too, and `SemLacuna` and `DadosIniciais` say nothing more of that
connection; `QuedaSoComQuebra` and the other invariants still hold. `DesisteRTU` is external: an RTU whose frames get no acknowledgement, because the driver did not
read them, ends the connection by its own t1.

### Comando

A command from the dialog to the RTU and back: the handlers of the request (`Anota`, `Marca`, `Envia`,
or `luaIntercepta`) and of the poll (`LeFalha`, `LeContagem`) are split where the other thread may
write the answer (`SetAckCmd`); the two variables `cmdNPonto` and `cmdCntAck` are shared by all the dialogs of a
server. The driver is `slot_I104M_ready_to_read` and `slot_commandActRespIndication`, each one
step, with `sendCommand` inside. A message carries a number (`id`) that the code does not have; no
guard of the code's actions tests it except through the point, and it lets the properties say
which command an answer belongs to. Frames on the connection are a set, so they may also overtake one another, which
TCP does not allow: the safety results hold a fortiori. `RespostaNova` says that an answer shown is later than
the request. It does not say that it is of that request: a late answer to an earlier
command of the same point is taken for it, as the point has one slot (`bcolocal.cpp:2674`). The
driver is one, the primary; its queue of datagrams and the two servers' are sets.

### CicloComando

What `Comando` promises of each command, whatever the network does and whoever else commands: new, asked for,
selected, executed, answered, in that order and each at most once; a success is answered only of what was
executed, and answers may be lost. `Comando` implements it (`CumpreCiclo`): `Andamento` reads
how far a command went off the history of the detailed specification, and the answers are those on their
way to the servers. Datagrams, frames, addresses, polls and the variables shared by the dialogs disappear.

### VisorTelas

The chain of timers of the screen viewer. Each variable of the page holds the last timer set with it; a
timer set again without clearing the one there leaves that one running with nobody to clear it, and
`orfaosCall`, `orfaosStatus`, `orfaosFalha` count such timers. An action is a callback: `callServer`, `getServerStatus`,
`falhaTudo`, the answers (`showValsSVG`, `cbf_Status`), the errors with the repetition of `getScript` (`Repete`),
and the clicks of the time machine. Requests are counted by the retries they have left. Delays are left out, so timers fire
in any order, also before a shorter one: the safety results hold a fortiori, and the fairness does
not rely on an order.

### DesenhoTela

What answers, failures and the choice of a date do to memory and drawing. A value is the hash of the answer
it came with; `drawSVG` is the function with its parameters (memory, alarms, hashes), since a hidden page draws inside the answer and
a visible one in the next animation frame. The objects are one per point; those in
`Opacos` take their opacity from the value (`allowblink`). `VisorTelas` says when answers and failures may come; here they
come in any order, which includes those orders.

### DialogoPonto

The information window, its button COMANDAR and the command window. The globals the windows read are
variables; `janela` and `mostra` are the windows of the browser and what they show; `consultas` are the requests for the
data of a point with the callback they carry, and their answers assign the globals (`Informa`), as do those of a
written value (`RespondeEscrita`). `fonte` is history: which kind of answer wrote the globals last. The one order of delays kept is that the lock of
1500 ms outlives the 200 ms to the request. Two callbacks of the same kind due at once are taken for one.

## 3. Runs

| Run | Checks | Shows |
|---|---|---|
| `PontoDigital` | `EstadoCoerente`, `AlarmeEEvento`, `CumpreAnunciador`, `TransicaoAlarma`, `VoltaNormaliza`, `PulsoAlarma` | every order of writes, impositions and acks, each interrupted between its calls, inhibitions and silences, on one point of each of seven kinds; it implements `Anunciador` |
| `PontoAnalogico` | `AlarmeViolando`, `EventoDaRegiao`, `CumpreAnunciador`, `RegiaoAposEscrita`, `SemOscilacao`, `AtrasadoBipa`, `AtrasadoResolve` | a measurement, a timed one and an analog event, with limits moving while it violates; delayed events resolve; it implements `Anunciador` |
| `Redundancia` | `UmPrimario`, `OutroAssume`, `CumpreTurno`, `SecundarioDesconecta`, `Estabiliza` | up to six failures in any order, and what holds once they end; it implements `Turno` |
| `Iec104Link` | `SeqCerta`, `ConfirmacaoEmDia`, `QuedaSoComQuebra`, `SemLacuna` | full window, wrapping numbers, reads that break and lose the place: no data after data that was not read, and no connection dropped for nothing |
| `Iec104Link_Gi` | `DadosIniciais` | the retries of activation and interrogation, with one request ignored, read broken or disconnection |
| `Comando` | `RespostaNova`, `ExecucaoCerta`, `RespostaUnica`, `UltimoRespondido`, `CumpreCiclo` | two operators at one server, commands of the same address in two RTUs, with and without select, one failure; it implements `CicloComando` |
| `VisorTelas` | `NuncaCongelada`, `FalhaDeclarada`, `VoltaAoPresente`, `MaquinaAquieta` | every order of timers, answers, errors, retries and clicks, with up to two timers of a kind nobody can clear |
| `DesenhoTela` | `FalhaVisivel`, `HistoricoSai`, `EscondidoNaoPisca`, `MeiaLembrada`, `AlarmesPiscam` | two digital points and an analog one, answers of real time and of the past, failures, hidden pages, blinking |
| `DialogoPonto` | `JanelaDona` | two points with a command, one interlocked: clicks, answers, timers and loads in every order |
| `DialogoPonto_Fim` | `RepeticaoAcaba`, `PontoLiberado` | the waiting for a window and its reopening end; the point is released |
| `Comando_ComandoNaUTR`, `DialogoPonto_ComandoMostrado` | `ComandoNaUTR`, `ComandoMostrado` | see below: they expect a violation |

Bounds. One point is enough for the digital and analog runs, since points share only the beep and the
acknowledge of all; the proofs are for any set of points. Digital inputs are every two-bit
state, without timetag and with one; the failed ones, which matter to the pure event and to the breaker, are timetagged and not ON, and the timetags that are no
dates come with OFF and ON; the substituted quality, which only chooses between two beeps, is left to the proofs. Analog values
are below, at and between the limits, and the hysteresis of 1 puts values at its edges; `LIMINFMIN`
and `LIMSUPMAX` are near enough for the operator to exceed them. `CntToBePrimary` = 3 tells apart the waits of 3 and 4
ticks, and `MaxFalhas` = 6 allows a crash, a restart and losses on both sides. In `Iec104Link`, `ModSeq` = 4
with the largest window, 3, makes the numbers wrap while frames are outstanding;
`MaxVolta` = 2 lets a frame be read before, after and in place of another, and `MaxFalhas` = 2 a read break before a disconnection, or a break and a
read out of place that ends inside a frame (those that do not are not counted). Timers have few
seconds, but two per tick of the window's count (`DoisPorSegundo`), as in the code. In `Comando`, two commands
(`MaxPedidos`) are the least that can take each other's answer, two of the three points share an address, and
one failure (`MaxFalhas`) loses any message or all of a connection; `UmaThread` is TRUE, as
`HTTPD_MODE` is by default (`config.cpp:71`). In `VisorTelas` one request of each kind in transit and one retry
(the default of `getScript`) let an answer come before, after and instead of the next; two orphans (`MaxOrfaos`) are one more than a cycle of
clicks leaves. `DesenhoTela` needs two answers of real time that differ in what is ON and in alarm, and a date for which the historian
has only part of the points; it has no counter to bound. In `DialogoPonto`, two points are the least that can be taken for one
another; `Tentativas` = 2 is a try and a retry (3 in the code), `Esperas` is 0 or 1 (4 in the code), and `MaxFechamentos` bounds the closings due that
nobody can clear. The liveness run has one point, since waits and retries do not depend on which.
No run turns off the deadlock check.

The type invariant `TypeOK` of each module is proved for all values of the constants, and no run checks it. The same of `InibidoSemAlarme`,
which follows from `CumpreAnunciador`.

Fairness. `LiveSpec` of PontoAnalogico: the clock and the one-second timer that calls
`ProcessaTimeout` every 13 ticks (`bcolocal.cpp:85`). Redundancia: timers tick, datagrams not
lost arrive, pending connections end, and the monitor restarts a driver (`proc.cpp:277`); nothing is
assumed of failures. Iec104Link: the seconds, the reading of the socket, of frames or out of place, and the RTU that gives up a connection without acknowledgements are weakly
fair; the answer to each request is strongly fair, because it is not always enabled: the RTU
waits for room and for its window. Comando: messages that are not lost arrive, the RTU answers, handlers
that began end; operators need not ask nor poll. VisorTelas: timers of a kind expire if they are not cleared, requests end in an answer
or an error; of the timers of `falhaTudo` only the orphans are sure to expire, since the one in the variable is set anew by each call.
The three liveness properties assume in their left side that the operator stays in real time, or in the time machine, and that the servers stay up, or down.
DialogoPonto: timers, loads, answers, the test each window makes of its opener every second, the countdown of 35 s that closes the command
window (`dlgcomando.html:113`), and the redraw, because the values of a screen keep changing; not the operator.

### What the comments say and the code does not do

Two runs expect a violation; both are described in `PROJECT.json` "findings".

| Run | The text | What happens |
|---|---|---|
| `Comando_ComandoNaUTR` | `bcolocal.h:369` | the select goes to the RTU of the point, the execute to that of the link |
| `DialogoPonto_ComandoMostrado` | `websage.js:1084` | a late answer for another point changes `CNPTO` under the command window, which shows one point and commands another |

Others were met on the way, checked once as invariants or action properties of these models, and are recorded here:

| Where | The text | What happens |
|---|---|---|
| `bcolocal.cpp:1280` | `bcolocal.cpp:1301`, `eventos_u.cpp:163` | OFF, INDETERMINADO, ON: the last change keeps the one-bit value, so the point stays alarmed in its normal state |
| `bcolocal.cpp:1200` | `eventos_u.cpp:55`, `:137` | the generated event is compared with the state it announces, and may enter removed |
| `bcolocal.cpp:2075` | `bcolocal.cpp:1450` | an early acknowledge of a timed alarm zeroes its time, and the event enters at once |
| `bcolocal.cpp:1448` | `bcolocal.cpp:1449` | a short second violation loses the event of the return to normal |
| `iec104_class.cpp:264` | `iec104_class.cpp:285`, `:295` | "read the remaining of the apdu": after a broken read the next call reads by whatever length its own frame holds, and what it reads is taken for a frame; the mark outlives the connection, so that the next one may be dropped with no break of its own |
| `iec104_class.cpp:181` | `iec104_class.h:224` | requests go out before STARTDTCON |
| `websage.js:2765` | `websage.js:266` | each call overwrites the timer of failure without clearing it; that of a request not answered in time cannot be cleared any more and marks all the values as failed after the server is answering again |
| `websage.js:4297` | `websage.js:53` | the zeros of a chosen date are drawn under the hash of an answer that waits for its frame; back in real time an equal answer has the same hash and is not drawn |

## 4. Proofs

All eight `_proofs` modules are checked by TLAPS to the last leaf, for every value of the constants
that satisfies the assumptions declared in the modules. Each has an inductive
invariant `IInv`, proved from `Init` and preserved step by step, one case per action.

- PontoDigital: `IInv` adds `AlarmadosCruzaram` to the invariants: while the acknowledge is between its first two
  calls, a point it reaches is alarmed only if it is in `cruzados`. Without it `AlarmeEEvento` is not inductive, since the events about to be taken could be
  those of older alarms; and `AlarmeAtualizado`: a point that is alarmed was updated before,
  so that a new state is never taken for the first one. Proved: the types and all the properties of the run, the three action properties each
  from a lemma about `EscrevePonto` (`PulsoDispara`, `EntradaAlarma`, `SemNovoAlarme`) and one that says
  that no other action changes the state of a point (`EstadoSoPorEscrita`).
- Both kinds of point implement Anunciador (`DigitalCumpreAnunciador`, `AnalogicoCumpreAnunciador`): each action maps to one of
  its actions or to a stutter. What it promises is by itself enough for `InibidoSemAlarme` (`AnunciadorBasta`).
- PontoAnalogico: `IInv` is about each point (`PontoOK`): alarm, event, and `TrocaNaFaixa`, the place of
  the value of the last change of region relative to the limits, from which the
  distance of `SemOscilacao` follows. All the safety properties of the run are proved.
- Redundancia: `UmPrimario` needs that who does not run is not primary (`MortoNaoEh`). `OutroAssume`
  needs `VezDoOutro`: while a driver that stepped down is not replaced, the counter of the other is
  behind its own, strictly when it ticks next. Proved for any count and any number of failures.
- Redundancia implements Turno (`SempreCumpreTurno`): the guard that a driver does not take the turn back is `OutroAssume`, so the
  refinement rests on `VezDoOutro`. And taking turns is enough: `UmPrimario` follows from Turno alone
  (`TurnoBasta`), with no timer or count.
- Iec104Link: `Contagem` relates the count of the window to frames and seconds waiting
  (`SemConfirmar + tSuperv <= T2`, `2 * idade + tSuperv < T2`), from which `ConfirmacaoEmDia` follows.
  `SeqCerta` is inductive with `TypeOK`. A second invariant, `NInv`, is about the numbers in transit (`Transito`): they are distinct and in the order of
  their distance from the one the driver expects (`EmOrdem`); with no data spent they are all those the RTU sent
  (`Completa`), and after that the expected one is not among them (`SemEsperado`), nor can it come again, because what the RTU has outstanding
  fits a window shorter than the numbers (`JanelaDaRTU`). All this until bytes out of place are taken for a frame (`engano`); and that takes a break, or the mark of one
  (`EmEsquadro`): a connection without it reads every frame from its first byte. `QuedaSoComQuebra` and `SemLacuna` follow, for any length of the numbers.
- Comando: a command is in one place at a time, as a request, a frame or an answer of the RTU
  (`EmUmLugar`), and the place says how many executions and answers it had (`Contas`); `ExecucaoCerta`
  and `RespostaUnica` follow. `RespostaNova` needs that one handler runs at a time in each server
  (`UmDeCadaVez`) and that, for the dialog whose command the server keeps, a count that differs from the one kept
  means a newer answer (`DiferenteENova`). Proved for any servers, operators, points and bounds.
- Comando implements CicloComando (`ImplementaCiclo`): the initial states map to its initial state, and each action maps
  to one of its actions or to a stutter. The steps need `IInv` and `Selecao`: a frame of select, or an answer to one, is of a
  command that selects, not confirmed yet if it is a frame or a refusal, and a frame of execute is of a command counted as executed. Frames and datagrams that are lost, polls and requests being written are stutters.
  The cycle alone is enough for the answers on their way to agree (`CicloBasta`).
- VisorTelas: `TypeOK` and `NuncaCongelada`, which is inductive with the types: every action that takes away the next call
  leaves another, the time machine, or the timer that leads to it. For any retries and bounds.
- DesenhoTela: `IInv` says of the memory that the hashes of the two types are of the same kind of answer, and what values and alarms
  that kind allows (`DadosBem`); the same of the drawing, for the hashes it was drawn with (`Listas`), and that no object that may not blink is in a list
  (`Apagados`); and of both, that without a frame to come the hashes drawn are those in memory (`Juntos`). All the safety
  properties of the run are proved, for any points, answers and dates.
- DialogoPonto: `JanelaDona` is inductive with `GlobaisJuntas`: the globals are always of one point, `CDESC` that of its command. For
  any points, waits and tries.
- DialogoPonto, repetition: `Resta` weighs what is due, so that a try left weighs more than the request, the waits, the window and the
  retry it may lead to. It is a natural number, the viewer never raises it, and every repeated step lowers it
  (`RepeticaoSempreLimitada`): between two clicks a dialog reopens by itself a bounded number of times. This is the safety half of
  `RepeticaoAcaba`, for any waits, tries and points; that the steps due are taken is the fairness, which is only model-checked.

Assumptions: those declared, by name, in each module, on the constants only; each is evaluated by a run.

Only model-checked: the liveness properties (`AtrasadoResolve`, `SecundarioDesconecta`, `Estabiliza`, `DadosIniciais`,
`UltimoRespondido`, `FalhaDeclarada`, `VoltaAoPresente`, `MaquinaAquieta`, `RepeticaoAcaba`, `PontoLiberado`), which the prover does not
handle. Every safety property and every refinement of a passing run is proved.

## 5. Not modelled, and the plan

By size most of the repository is not OSHMI's own code: `htdocs/lib` alone (jQuery, Vega, D3, X3DOM and
others, in several builds) has some 363 thousand of its 378 thousand lines of JavaScript, is used through its public
functions, and is not modelled. Of the program's own script, `websage.js`, the models cover polling,
drawing, blinking and the dialogs; the rest of it sets up the tags of the SVG (colours, texts, bars, trends, zoom, animations), which is a
function of one value at a time, and the toolbar. Most of the core logic is in C++.

The validity of points, freezing, calculated and system points, the value part of `WritePoint`, ASDU decoding and
STOPDT are left out of the modules above. To come, in this order:

1. `I104MLink` with `Validade`: the UDP handler, the point COMUNIC_I104, `ProcessaTimeout`, and the
   interrogation of the recovered link; composed with `Iec104Link` seen as an abstract source of data.
2. `FilaEventos`: the two SQL queues, their flush in parts, the guard `Entra`; an abstract list of events
   that it implements, of which `pendente` is the projection.
3. `SincIHM`: forwarding of acknowledges between two servers.
4. `MonProc`, then the historian and dump writers, then the calculations as operators against a
   reference definition.

Theorems planned: that the chains of calls of VisorTelas do not multiply but by clicks and answers that bring a call forward, and the safety of each
new module.

## 6. Running

    tlc -config PontoDigital.cfg MCPontoDigital.tla
    tlc -config Iec104Link.cfg Iec104Link.tla
    tlc -config Comando.cfg MCComando.tla
    tlc -config VisorTelas.cfg VisorTelas.tla
    tlc -config DesenhoTela.cfg MCDesenhoTela.tla
    tlc -config DialogoPonto.cfg DialogoPonto.tla
    tlapm PontoDigital_proofs.tla
