------------------------------- MODULE Comando -------------------------------
(***************************************************************************)
(* A command, from the operator to the RTU and back.  The browser asks the *)
(* web server for the command and then polls for its answer                *)
(* (httpd_u.cpp); the server sends it to the IEC 60870-5-104 driver        *)
(* (i104m_u.cpp), which selects, executes and answers both servers of the  *)
(* redundant pair (mainwindow.cpp, iec104_class.cpp); the answer is kept   *)
(* in the point (bcolocal.cpp).                                            *)
(*                                                                         *)
(* No message carries the number of the request: the server recognises an  *)
(* answer by the count of answers of the point having changed, the driver  *)
(* by the address of the last command.  The model carries it (id) only to  *)
(* state the properties.  The value of the command is left out, for it is  *)
(* only copied; a request that the interlock refuses changes nothing.      *)
(* Simulation, BDTR and JSON are off.  There is one driver, the primary:   *)
(* the copy of the command sent to the other one finds no connection.      *)
(***************************************************************************)
EXTENDS Integers

CONSTANTS
  Servidores,    \* the web servers of the redundant pair
  Operadores,    \* the command dialogs open
  Posto,         \* the server of each operator
  Pontos,        \* command points
  Endereco,      \* address of each point
  UTR,           \* RTU of each point, 0: any
  SBO,           \* select before operate
  Linha,         \* line of each point in the point list
  Escravo,       \* slaveAddress of the driver
  UmaThread,     \* HTTPD_MODE=1: one thread runs the handlers of a server
  MaxPedidos,    \* bound: commands sent
  MaxFalhas      \* bound: messages lost and disconnections

Nenhum == "nenhum"
Ids == 1..MaxPedidos
Enderecos == {Endereco[p] : p \in Pontos}
UTRs == {UTR[p] : p \in Pontos} \cup {Escravo}

ASSUME PostoAssumption == Posto \in [Operadores -> Servidores]
ASSUME PontosAssumption ==
  /\ Nenhum \notin Pontos
  /\ UTR \in [Pontos -> Nat]
  /\ SBO \in [Pontos -> BOOLEAN]
(* Some points of any set come first in the list.                           *)
ASSUME ListaAssumption ==
  \A S \in SUBSET Pontos : S # {} => \E p \in S : \A q \in S : Linha[p] <= Linha[q]
ASSUME LimitesAssumption ==
  MaxPedidos \in Nat /\ MaxFalhas \in Nat /\ Escravo \in Nat /\ UmaThread \in BOOLEAN

VARIABLES
  passo,       \* of each dialog and of the handler that serves it
  alvo,        \* the point each dialog commands
  cmdNPonto,   \* of each server: point of the last command
  cmdCntAck,   \* of each server: its count of answers when it was asked for
  cntAck,      \* CmdAckCnt of each point in each server
  falhaAck,    \* CmdAckFalha
  lida,        \* the failure a poll has read
  n,           \* commands sent so far
  ponto, dono, \* of each command: its point and operator
  LastCommandAddress, \* of the driver
  aoVarredor,  \* commands travelling to the driver
  aRtu, daRtu, \* frames on the connection
  aoServidor,  \* answers travelling to the servers
  falhas

servidor == <<cmdNPonto, cmdCntAck, cntAck, falhaAck>>
rede == <<LastCommandAddress, aoVarredor, aRtu, daRtu, aoServidor>>

(* History: the last command the driver received; those whose select the    *)
(* RTU confirmed; how many executions and answers the driver sent for each; *)
(* which answers were taken by which server; whether an answer came to the  *)
(* point of the dialog after its count was read.                            *)
VARIABLES ultimo, confirmados, execucoes, respostas, tomadas, nova

historia == <<ultimo, confirmados, execucoes, respostas, tomadas, nova>>
vars == <<passo, alvo, servidor, lida, n, ponto, dono, rede, falhas, historia>>

Init ==
  /\ passo = [o \in Operadores |-> "livre"]
  /\ alvo = [o \in Operadores |-> Nenhum]
  /\ cmdNPonto = [s \in Servidores |-> Nenhum]
  /\ cmdCntAck = [s \in Servidores |-> 0]
  /\ cntAck = [s \in Servidores |-> [p \in Pontos |-> 0]]
  /\ falhaAck = [s \in Servidores |-> [p \in Pontos |-> FALSE]]
  /\ lida = [o \in Operadores |-> FALSE]
  /\ n = 0
  /\ ponto = [i \in Ids |-> Nenhum]
  /\ dono = [i \in Ids |-> Nenhum]
  /\ LastCommandAddress = Nenhum
  /\ aoVarredor = {} /\ aRtu = {} /\ daRtu = {} /\ aoServidor = {}
  /\ falhas = 0
  /\ ultimo = 0 /\ confirmados = {} /\ tomadas = {}
  /\ execucoes = [i \in Ids |-> 0]
  /\ respostas = [i \in Ids |-> 0]
  /\ nova = [o \in Operadores |-> FALSE]

(***************************************************************************)
(* The handlers of the web server.  They run beside the thread that        *)
(* receives the answers; with one thread, one at a time.                   *)
(***************************************************************************)
Atendendo == {"anotado", "marcado", "lendo"}
Parado == {"livre", "esperando", "ok", "rejeitado"}

Atende(o) ==
  UmaThread => \A x \in Operadores : Posto[x] = Posto[o] => passo[x] \in Parado

(* ahc_HandleCommandRequest: the point of the command, *)
Anota(o, p) ==
  /\ passo[o] \in Parado /\ Atende(o)
  /\ n < MaxPedidos
  /\ passo' = [passo EXCEPT ![o] = "anotado"]
  /\ alvo' = [alvo EXCEPT ![o] = p]
  /\ cmdNPonto' = [cmdNPonto EXCEPT ![Posto[o]] = p]
  /\ UNCHANGED <<cmdCntAck, cntAck, falhaAck, lida, n, ponto, dono, rede, falhas, historia>>

MutanteContagem(o) == cmdCntAck[Posto[o]]
Contagem(o) == cntAck[Posto[o]][alvo[o]]

(* its count of answers, *)
Marca(o) ==
  /\ passo[o] = "anotado"
  /\ passo' = [passo EXCEPT ![o] = "marcado"]
  /\ cmdCntAck' = [cmdCntAck EXCEPT ![Posto[o]] = Contagem(o)]
  /\ nova' = [nova EXCEPT ![o] = FALSE]
  /\ UNCHANGED <<alvo, cmdNPonto, cntAck, falhaAck, lida, n, ponto, dono, rede, falhas,
                 ultimo, confirmados, execucoes, respostas, tomadas>>

(* and the datagram to the driver, unless a Lua script takes the command.   *)
Envia(o) ==
  /\ passo[o] = "marcado" /\ n < MaxPedidos
  /\ passo' = [passo EXCEPT ![o] = "esperando"]
  /\ n' = n + 1
  /\ ponto' = [ponto EXCEPT ![n + 1] = alvo[o]]
  /\ dono' = [dono EXCEPT ![n + 1] = o]
  /\ aoVarredor' = aoVarredor \cup {n + 1}
  /\ UNCHANGED <<alvo, servidor, lida, LastCommandAddress, aRtu, daRtu, aoServidor, falhas, historia>>

luaIntercepta(o) ==
  /\ passo[o] = "marcado"
  /\ passo' = [passo EXCEPT ![o] = "esperando"]
  /\ UNCHANGED <<alvo, servidor, lida, n, ponto, dono, rede, falhas, historia>>

(* ahc_HandleAckCommandRequest: GetAckCmd reads the failure first *)
LeFalha(o) ==
  /\ passo[o] \in Parado \ {"livre"} /\ Atende(o)
  /\ passo' = [passo EXCEPT ![o] = "lendo"]
  /\ lida' = [lida EXCEPT ![o] = falhaAck[Posto[o]][alvo[o]]]
  /\ UNCHANGED <<alvo, servidor, n, ponto, dono, rede, falhas, historia>>

(* and then the count, which decides what the dialog shows.                 *)
Resultado(o) ==
  LET s == Posto[o]
  IN IF cmdNPonto[s] # alvo[o] \/ cntAck[s][alvo[o]] = cmdCntAck[s] THEN "esperando"
     ELSE IF lida[o] THEN "rejeitado" ELSE "ok"

LeContagem(o) ==
  /\ passo[o] = "lendo"
  /\ passo' = [passo EXCEPT ![o] = Resultado(o)]
  /\ UNCHANGED <<alvo, servidor, lida, n, ponto, dono, rede, falhas, historia>>

(***************************************************************************)
(* The driver.                                                             *)
(***************************************************************************)
Quadros == [id : Ids, se : {"select", "execute"}, ca : UTRs]
Respostas == [id : Ids, se : {"select", "execute"}, ca : UTRs,
              causa : {"ACTCONFIRM", "ACTTERM"}, pn : {"positive", "negative"}]
Avisos == [para : Servidores, id : Ids, ca : UTRs, falha : BOOLEAN]

(* sendCommand: a common address of zero is that of the link.               *)
Destino(ca) == IF ca = 0 THEN Escravo ELSE ca

sendCommand(i, modo, ca) ==
  /\ aRtu' = aRtu \cup {[id |-> i, se |-> modo, ca |-> Destino(ca)]}
  /\ execucoes' = IF modo = "execute" THEN [execucoes EXCEPT ![i] = @ + 1] ELSE execucoes

Modo(i) == IF SBO[ponto[i]] THEN "select" ELSE "execute"

slot_I104M_ready_to_read(i) ==
  /\ i \in aoVarredor
  /\ aoVarredor' = aoVarredor \ {i}
  /\ sendCommand(i, Modo(i), UTR[ponto[i]])
  /\ LastCommandAddress' = Endereco[ponto[i]]
  /\ ultimo' = i
  /\ UNCHANGED <<passo, alvo, servidor, lida, n, ponto, dono, daRtu, aoServidor, falhas,
                 confirmados, respostas, tomadas, nova>>

(* The answers it looks at: about the address of the last command, and not  *)
(* the end of an activation.                                                *)
MutanteOlha(m) == LastCommandAddress = Endereco[ponto[m.id]]
Olha(m) == m.causa = "ACTCONFIRM" /\ LastCommandAddress = Endereco[ponto[m.id]]

(* A confirmed select is executed, at the address of the link (that of the  *)
(* ASDU on the screen is empty).                                            *)
MutanteExecuta(m) == m.pn = "positive"
Executa(m) == m.se = "select" /\ m.pn = "positive"

(* The rest is answered to both servers.                                    *)
MutanteResponde(m) == m.se = "execute"
Responde(m) == m.se = "execute" \/ m.pn = "negative"

MutanteAviso(m) == {[para |-> s, id |-> m.id, ca |-> m.ca, falha |-> FALSE] : s \in Servidores}
Aviso(m) == {[para |-> s, id |-> m.id, ca |-> m.ca, falha |-> m.pn = "negative"] : s \in Servidores}

slot_commandActRespIndication(m) ==
  /\ m \in daRtu
  /\ daRtu' = daRtu \ {m}
  /\ IF Olha(m) /\ Executa(m)
     THEN sendCommand(m.id, "execute", 0)
     ELSE UNCHANGED <<aRtu, execucoes>>
  /\ IF Olha(m) /\ Responde(m)
     THEN /\ aoServidor' = aoServidor \cup Aviso(m)
          /\ respostas' = [respostas EXCEPT ![m.id] = @ + 1]
     ELSE UNCHANGED <<aoServidor, respostas>>
  /\ UNCHANGED <<passo, alvo, servidor, lida, n, ponto, dono, LastCommandAddress, aoVarredor, falhas,
                 ultimo, confirmados, tomadas, nova>>

(***************************************************************************)
(* The RTU, as the driver expects it: it accepts or refuses each command,  *)
(* in any order, and ends the activation of those it executes.             *)
(***************************************************************************)
Resposta(q, causa, pn) == [id |-> q.id, se |-> q.se, ca |-> q.ca, causa |-> causa, pn |-> pn]

RtuAceita(q) ==
  /\ q \in aRtu
  /\ aRtu' = aRtu \ {q}
  /\ daRtu' = daRtu \cup {Resposta(q, "ACTCONFIRM", "positive")}
              \cup (IF q.se = "execute" THEN {Resposta(q, "ACTTERM", "positive")} ELSE {})
  /\ confirmados' = IF q.se = "select" THEN confirmados \cup {q.id} ELSE confirmados
  /\ UNCHANGED <<passo, alvo, servidor, lida, n, ponto, dono, LastCommandAddress, aoVarredor,
                 aoServidor, falhas, ultimo, execucoes, respostas, tomadas, nova>>

RtuRecusa(q) ==
  /\ q \in aRtu
  /\ aRtu' = aRtu \ {q}
  /\ daRtu' = daRtu \cup {Resposta(q, "ACTCONFIRM", "negative")}
  /\ UNCHANGED <<passo, alvo, servidor, lida, n, ponto, dono, LastCommandAddress, aoVarredor,
                 aoServidor, falhas, historia>>

(***************************************************************************)
(* EscreveIEC of an answer: the point of its address and RTU, if any.  Of  *)
(* the commands with the same address only the first one is mapped, and    *)
(* those of any RTU are looked up before.                                  *)
(***************************************************************************)
PrimeiroDe(S) == CHOOSE p \in S : \A q \in S : Linha[p] <= Linha[q]
Com(e, u) == {p \in Pontos : Endereco[p] = e /\ UTR[p] = u}

NPontoPorEndUTR(e, u) ==
  IF Com(e, 0) # {} THEN PrimeiroDe(Com(e, 0))
  ELSE IF Com(e, u) # {} THEN PrimeiroDe(Com(e, u)) ELSE Nenhum

NovoCnt(s, p) == cntAck[s][p] + 1

SetAckCmd(s, p, falha) ==
  /\ cntAck' = [cntAck EXCEPT ![s] = [@ EXCEPT ![p] = NovoCnt(s, p)]]
  /\ falhaAck' = [falhaAck EXCEPT ![s] = [@ EXCEPT ![p] = falha]]
  /\ nova' = [o \in Operadores |-> nova[o] \/ (Posto[o] = s /\ alvo[o] = p)]

EscreveIEC(a) ==
  LET p == NPontoPorEndUTR(Endereco[ponto[a.id]], a.ca)
  IN /\ a \in aoServidor
     /\ aoServidor' = aoServidor \ {a}
     /\ IF p # Nenhum
        THEN SetAckCmd(a.para, p, a.falha)
        ELSE UNCHANGED <<cntAck, falhaAck, nova>>
     /\ tomadas' = IF p = ponto[a.id] THEN tomadas \cup {<<a.para, a.id>>} ELSE tomadas
     /\ UNCHANGED <<passo, alvo, cmdNPonto, cmdCntAck, lida, n, ponto, dono, LastCommandAddress,
                    aoVarredor, aRtu, daRtu, falhas, ultimo, confirmados, execucoes, respostas>>

(***************************************************************************)
(* Failures: a datagram is lost, or the connection to the RTU with all     *)
(* that it carries.                                                        *)
(***************************************************************************)
Falha == falhas < MaxFalhas /\ falhas' = falhas + 1

PerdeDatagrama ==
  /\ Falha
  /\ \/ /\ \E i \in aoVarredor : aoVarredor' = aoVarredor \ {i}
        /\ UNCHANGED aoServidor
     \/ /\ \E a \in aoServidor : aoServidor' = aoServidor \ {a}
        /\ UNCHANGED aoVarredor
  /\ UNCHANGED <<passo, alvo, servidor, lida, n, ponto, dono, LastCommandAddress, aRtu, daRtu, historia>>

Desconecta ==
  /\ Falha
  /\ aRtu \cup daRtu # {}
  /\ aRtu' = {} /\ daRtu' = {}
  /\ UNCHANGED <<passo, alvo, servidor, lida, n, ponto, dono, LastCommandAddress, aoVarredor,
                 aoServidor, historia>>

Varredor ==
  \/ \E i \in aoVarredor : slot_I104M_ready_to_read(i)
  \/ \E m \in daRtu : slot_commandActRespIndication(m)

Rtu == \E q \in aRtu : RtuAceita(q) \/ RtuRecusa(q)

Chega == \E a \in aoServidor : EscreveIEC(a)

Next ==
  \/ \E o \in Operadores :
       \/ \E p \in Pontos : Anota(o, p)
       \/ Marca(o) \/ Envia(o) \/ luaIntercepta(o)
       \/ LeFalha(o) \/ LeContagem(o)
  \/ Varredor \/ Rtu \/ Chega
  \/ PerdeDatagrama \/ Desconecta

(* Messages that are not lost arrive, the RTU answers, handlers end.        *)
Fairness ==
  /\ WF_vars(Varredor) /\ WF_vars(Rtu) /\ WF_vars(Chega)
  /\ \A o \in Operadores : WF_vars(Marca(o)) /\ WF_vars(Envia(o)) /\ WF_vars(LeContagem(o))

Spec == Init /\ [][Next]_vars /\ Fairness
-----------------------------------------------------------------------------
TypeOK ==
  /\ passo \in [Operadores -> Atendendo \cup Parado]
  /\ alvo \in [Operadores -> Pontos \cup {Nenhum}]
  /\ cmdNPonto \in [Servidores -> Pontos \cup {Nenhum}]
  /\ cmdCntAck \in [Servidores -> Nat]
  /\ cntAck \in [Servidores -> [Pontos -> Nat]]
  /\ falhaAck \in [Servidores -> [Pontos -> BOOLEAN]]
  /\ lida \in [Operadores -> BOOLEAN]
  /\ n \in 0..MaxPedidos
  /\ ponto \in [Ids -> Pontos \cup {Nenhum}]
  /\ dono \in [Ids -> Operadores \cup {Nenhum}]
  /\ LastCommandAddress \in Enderecos \cup {Nenhum}
  /\ aoVarredor \subseteq Ids
  /\ aRtu \subseteq Quadros /\ daRtu \subseteq Respostas
  /\ aoServidor \subseteq Avisos
  /\ falhas \in 0..MaxFalhas
  /\ ultimo \in 0..MaxPedidos /\ confirmados \subseteq Ids /\ tomadas \subseteq Servidores \X Ids
  /\ execucoes \in [Ids -> Nat] /\ respostas \in [Ids -> Nat]
  /\ nova \in [Operadores -> BOOLEAN]

(* With one thread, what a dialog shows as the end of its command comes     *)
(* from an answer that arrived after the command was asked for, whatever    *)
(* other operators do to the two variables of the server that all the       *)
(* dialogs share (cmdNPonto, cmdCntAck), and however the answers interleave *)
(* with the handlers.                                                       *)
RespostaNova ==
  UmaThread => \A o \in Operadores : passo[o] \in {"ok", "rejeitado"} => nova[o]

(* The driver sends at most one execution for each command, and for those   *)
(* with select only after the RTU confirmed the select, though it knows     *)
(* commands by their address only and several may be in progress.           *)
ExecucaoCerta ==
  \A i \in Ids :
    /\ execucoes[i] <= 1
    /\ execucoes[i] = 1 /\ SBO[ponto[i]] => i \in confirmados

(* The driver answers a command at most once: a second answer would be      *)
(* counted for the next command of the point.                               *)
RespostaUnica == \A i \in Ids : respostas[i] <= 1

(* If nothing is lost, the last command the driver received is answered to  *)
(* the operator that asked for it; earlier ones may not be, for the driver  *)
(* forgets their address.                                                   *)
UltimoRespondido ==
  [](falhas = 0) => <>[](ultimo = 0 \/ <<Posto[dono[ultimo]], ultimo>> \in tomadas)

(* The protocol keeps what CicloComando promises of each command: it is     *)
(* requested, selected, executed and answered in that order, each at most   *)
(* once, and success is answered only of what was executed, though messages *)
(* are lost and the driver knows commands by their address only.            *)
Andamento(i) ==
  IF respostas[i] > 0 THEN "respondido"
  ELSE IF execucoes[i] > 0 THEN "executado"
  ELSE IF i \in confirmados THEN "selecionado"
  ELSE IF i <= n THEN "pedido" ELSE "novo"

Ciclo == INSTANCE CicloComando WITH
  Comandos <- Ids,
  estado <- [i \in Ids |-> Andamento(i)],
  comSelect <- {i \in Ids : i <= n /\ SBO[ponto[i]]},
  avisos <- {<<a.id, a.falha>> : a \in aoServidor}

CumpreCiclo == Ciclo!Spec

(* Frames of a command go to the RTU of its point ("UTR para envio de       *)
(* comando", bcolocal.h:369), or to that of the link if it has none.        *)
ComandoNaUTR == \A q \in aRtu : q.ca = Destino(UTR[ponto[q.id]])
=============================================================================
