------------------------------ MODULE DialogoPonto ------------------------------
(***************************************************************************)
(* The dialogs of a point, opened from the screen viewer (websage.js): the *)
(* information window (dlginfo.html), its button COMANDAR, and the command *)
(* window (dlgcomando.html).  The windows keep nothing: what they write    *)
(* and command is the point in the globals NPTO and CNPTO of the viewer at *)
(* that moment, and the viewer knows one window, g_win_cmd.                *)
(*                                                                         *)
(* Viewer and windows share one thread: an action is one callback.  Delays *)
(* are left out but for one order, named where it is used.  Two callbacks  *)
(* of the same kind due at once, or two requests of the same kind for the  *)
(* same point, are taken for one.  The refresh of the values shown is left *)
(* out.                                                                    *)
(***************************************************************************)
EXTENDS Integers, FiniteSets

CONSTANTS
  Pontos,
  Comandaveis,    \* points with a command
  Intertravados,  \* points whose command is interlocked
  Manuais,        \* points whose value the operator may write
  Esperas,        \* how often a window not loaded is waited for (4 in the code)
  Tentativas,     \* g_cntTentativaInfo after a click (3 in the code)
  MaxFechamentos  \* bound: closings due that nobody can clear

ASSUME PontosAssumption ==
  /\ Comandaveis \subseteq Pontos /\ Intertravados \subseteq Comandaveis /\ Manuais \subseteq Pontos
  /\ Pontos \intersect {"zero", "sem", "objeto", "info", "cmd"} = {}
ASSUME LimitesAssumption == Esperas \in Nat /\ Tentativas \in Nat \ {0} /\ MaxFechamentos \in Nat

(* A command is named by the point it belongs to.  "zero": the number 0;    *)
(* "sem": the string '0', which the server answers for a point without one. *)
Janelas == {"info", "cmd"}
Consultas == Janelas \X Pontos
Estados == {"fechada", "carregando", "aberta", "preenchida", "executada"}

VARIABLES
  NPTO, CNPTO,
  CDESC,       \* the description of a command, which is never cleared
  fonte,       \* history: the kind of answer that last wrote the globals
  g_nponto_sup, g_cntTentativaInfo, g_travaInfo, g_win_1stdraw, g_wait_win,
  g_win_cmd,   \* "objeto" ({}), a window, or a point: a window is to be opened for it
  g_tminfoID,  \* the closing of a window that does not load is due
  fechamentos, \* closings due in no variable
  devidas,     \* showValsInfo0, showValsInfo2(0), janelaInfo(0), window.open due
  consultas,   \* requests of a point and the callback they carry
  escritas,    \* values written whose answer has not come
  janela,      \* where each window stands, in Estados
  mostra       \* the point, or the command, that each window shows

globais == <<NPTO, CNPTO, CDESC, fonte>>
tentativa == <<g_nponto_sup, g_cntTentativaInfo, g_travaInfo, g_wait_win>>
alvo == <<g_win_cmd, g_win_1stdraw, g_tminfoID, fechamentos>>
pedidos == <<consultas, escritas>>
telas == <<janela, mostra>>
vars == <<globais, tentativa, alvo, devidas, pedidos, telas>>

Init ==
  /\ NPTO = "zero" /\ CNPTO = "zero" /\ CDESC = "zero" /\ fonte = "consulta"
  /\ g_nponto_sup = "zero" /\ g_cntTentativaInfo = 0 /\ g_travaInfo = FALSE
  /\ g_win_1stdraw = FALSE /\ g_wait_win = 0
  /\ g_win_cmd = "objeto" /\ g_tminfoID = FALSE /\ fechamentos = 0
  /\ devidas = {} /\ consultas = {} /\ escritas = {}
  /\ janela = [w \in Janelas |-> "fechada"] /\ mostra = [w \in Janelas |-> "zero"]

Comando(p) == IF p \in Comandaveis THEN p ELSE "sem"
SemComando == CNPTO \in {"zero", "sem"}
Aberta(w) == janela[w] # "fechada"
Carregada(w) == janela[w] \notin {"fechada", "carregando"}
(* What g_win_cmd.close() closes.                                           *)
FechaAlvo == [w \in Janelas |-> IF w = g_win_cmd THEN "fechada" ELSE janela[w]]

Zera == NPTO' = "zero" /\ CNPTO' = "zero" /\ UNCHANGED <<CDESC, fonte>>

(* The server does not answer for the point 0.                              *)
Pergunta(w, p) == {<<w, p>>} \intersect Consultas

(* The script of ConsultaInfoPonto, evaluated when the answer comes.        *)
Informa(p, de) ==
  /\ NPTO' = p /\ CNPTO' = Comando(p)
  /\ CDESC' = IF p \in Comandaveis THEN p ELSE CDESC
  /\ fonte' = de

(***************************************************************************)
(* The information window.                                                 *)
(***************************************************************************)
(* After the lock and the count of tries: the point is asked for in 200 ms. *)
Abre ==
  /\ g_travaInfo' = TRUE
  /\ Zera
  /\ janela' = FechaAlvo
  /\ UNCHANGED <<g_wait_win, alvo, pedidos, mostra>>

janelaInfo(nponto) ==
  /\ ~g_travaInfo
  /\ g_nponto_sup' = nponto /\ g_cntTentativaInfo' = Tentativas
  /\ devidas' = devidas \union {"showValsInfo0"}
  /\ Abre

(* A count below zero does what zero does.                                  *)
Tenta == IF g_cntTentativaInfo > 0 THEN g_cntTentativaInfo - 1 ELSE 0

(* janelaInfo(0): the viewer tries again by itself.                         *)
janelaInfo0 ==
  /\ "janelaInfo0" \in devidas
  /\ IF g_travaInfo
     THEN /\ devidas' = devidas \ {"janelaInfo0"}
          /\ UNCHANGED <<globais, tentativa, alvo, pedidos, telas>>
     ELSE /\ g_cntTentativaInfo' = Tenta /\ UNCHANGED g_nponto_sup
          /\ IF Tenta = 0
             THEN /\ g_travaInfo' = TRUE
                  /\ devidas' = devidas \ {"janelaInfo0"}
                  /\ UNCHANGED <<globais, g_wait_win, alvo, pedidos, telas>>
             ELSE /\ devidas' = (devidas \ {"janelaInfo0"}) \union {"showValsInfo0"}
                  /\ Abre

(* The lock lasts 1500 ms: it outlives the 200 ms to showValsInfo0.         *)
Destrava ==
  /\ g_travaInfo /\ "showValsInfo0" \notin devidas
  /\ g_travaInfo' = FALSE
  /\ UNCHANGED <<globais, g_nponto_sup, g_cntTentativaInfo, g_wait_win, alvo, devidas, pedidos, telas>>

showValsInfo0 ==
  /\ "showValsInfo0" \in devidas
  /\ devidas' = devidas \ {"showValsInfo0"}
  /\ consultas' = consultas \union Pergunta("info", g_nponto_sup)
  /\ UNCHANGED <<globais, tentativa, alvo, escritas, telas>>

(* The answer, whose callback opens the window of the name wsinfo anew.     *)
MutanteReabre == [janela EXCEPT !["info"] = IF @ = "fechada" THEN "carregando" ELSE @]
Reabre == [janela EXCEPT !["info"] = "carregando"]

showValsInfo1(p) ==
  /\ <<"info", p>> \in consultas
  /\ fechamentos + (IF g_tminfoID THEN 1 ELSE 0) <= MaxFechamentos
  /\ consultas' = consultas \ {<<"info", p>>}
  /\ Informa(p, "consulta")
  /\ g_win_1stdraw' = TRUE /\ g_win_cmd' = "info" /\ g_wait_win' = 0
  /\ janela' = Reabre
  /\ g_tminfoID' = TRUE
  /\ fechamentos' = fechamentos + (IF g_tminfoID THEN 1 ELSE 0)
  /\ UNCHANGED <<g_nponto_sup, g_cntTentativaInfo, g_travaInfo, devidas, escritas, mostra>>

(* showValsInfo2(0), with the windows as j: it fills the window of          *)
(* g_win_cmd, fails in the middle if that is the command window, or waits.  *)
Aguarda == g_wait_win < Esperas
MutanteConta == g_wait_win
Conta == g_wait_win + 1

showValsInfo2(j, outras) ==
  IF NPTO # "zero" /\ g_win_cmd \in Janelas /\ j[g_win_cmd] \notin {"fechada", "carregando"}
  THEN /\ g_win_1stdraw' = FALSE
       /\ g_tminfoID' = (g_tminfoID /\ ~g_win_1stdraw)
       /\ IF g_win_1stdraw /\ g_win_cmd = "info"
          THEN /\ janela' = [j EXCEPT !["info"] = "preenchida"]
               /\ mostra' = [mostra EXCEPT !["info"] = NPTO]
          ELSE janela' = j /\ UNCHANGED mostra
       /\ devidas' = outras
       /\ UNCHANGED <<g_wait_win, g_win_cmd, fechamentos>>
  ELSE /\ janela' = j
       /\ g_wait_win' = IF Aguarda THEN Conta ELSE g_wait_win
       /\ devidas' = outras \union
            {IF Aguarda THEN "showValsInfo2" ELSE "janelaInfo0"}
       /\ UNCHANGED <<alvo, mostra>>

CarregaInfo ==
  /\ janela["info"] = "carregando"
  /\ showValsInfo2([janela EXCEPT !["info"] = "aberta"], devidas)
  /\ UNCHANGED <<globais, g_nponto_sup, g_cntTentativaInfo, g_travaInfo, pedidos>>

Espera ==
  /\ "showValsInfo2" \in devidas
  /\ showValsInfo2(janela, devidas \ {"showValsInfo2"})
  /\ UNCHANGED <<globais, g_nponto_sup, g_cntTentativaInfo, g_travaInfo, pedidos>>

(* The closing due in g_tminfoID, and the others: of windows opened before, *)
(* and of the buttons that open another viewer.                             *)
FechaSeNaoAbre ==
  /\ g_tminfoID
  /\ g_tminfoID' = FALSE /\ janela' = FechaAlvo
  /\ UNCHANGED <<globais, tentativa, g_win_cmd, g_win_1stdraw, fechamentos, devidas, pedidos, mostra>>

FechaDepois ==
  /\ fechamentos > 0
  /\ fechamentos' = fechamentos - 1 /\ janela' = FechaAlvo
  /\ UNCHANGED <<globais, tentativa, g_win_cmd, g_win_1stdraw, g_tminfoID, devidas, pedidos, mostra>>

(* curvas, tendencias and tabular.                                          *)
AbreOutroVisor ==
  /\ janela["info"] = "preenchida" /\ fechamentos < MaxFechamentos
  /\ fechamentos' = fechamentos + 1
  /\ UNCHANGED <<globais, tentativa, g_win_cmd, g_win_1stdraw, g_tminfoID, devidas, pedidos, telas>>

(***************************************************************************)
(* The command window.                                                     *)
(***************************************************************************)
(* prejanelaComando and janelaComando.  The timer cleared is the last one   *)
(* set: the one of the refresh, or the one of another wait.                 *)
prejanelaComando(limpa) ==
  /\ janela["info"] = "preenchida" /\ mostra["info"] \in Comandaveis \ Intertravados
  /\ g_nponto_sup' = NPTO
  /\ Zera
  /\ consultas' = consultas \union Pergunta("cmd", NPTO)
  /\ devidas' = IF limpa THEN devidas \ {"showValsInfo2", "janelaInfo0"} ELSE devidas
  /\ UNCHANGED <<g_cntTentativaInfo, g_travaInfo, g_wait_win, alvo, escritas, telas>>

showValsCmd1(p) ==
  /\ <<"cmd", p>> \in consultas
  /\ consultas' = consultas \ {<<"cmd", p>>}
  /\ Informa(p, "consulta")
  /\ janela' = FechaAlvo
  /\ g_win_cmd' = IF p \in Comandaveis THEN p ELSE g_win_cmd
  /\ devidas' = IF p \in Comandaveis THEN devidas \union {"window.open"} ELSE devidas
  /\ UNCHANGED <<tentativa, g_win_1stdraw, g_tminfoID, fechamentos, escritas, mostra>>

AbreCmd ==
  /\ "window.open" \in devidas
  /\ devidas' = devidas \ {"window.open"}
  /\ g_win_cmd' = "cmd" /\ janela' = [janela EXCEPT !["cmd"] = "carregando"]
  /\ UNCHANGED <<globais, tentativa, g_win_1stdraw, g_tminfoID, fechamentos, pedidos, mostra>>

(* The window loads and calls showValsCmd2, which closes g_win_cmd if the   *)
(* point is interlocked and fills it, or fails if it is not this window.    *)
showValsCmd2 ==
  /\ janela["cmd"] = "carregando"
  /\ LET fecha == NPTO \in Intertravados
         enche == g_win_cmd = "cmd" /\ ~fecha
         j == IF fecha THEN FechaAlvo ELSE janela
     IN /\ janela' = [j EXCEPT !["cmd"] =
             IF fecha /\ g_win_cmd = "cmd" THEN "fechada"
             ELSE IF enche THEN "preenchida" ELSE "aberta"]
        /\ mostra' = IF enche THEN [mostra EXCEPT !["cmd"] = CDESC] ELSE mostra
  /\ UNCHANGED <<globais, tentativa, alvo, devidas, pedidos>>

(* The order goes out with the global CNPTO; the buttons are hidden.        *)
executaComando ==
  /\ janela["cmd"] = "preenchida"
  /\ janela' = [janela EXCEPT !["cmd"] = "executada"]
  /\ UNCHANGED <<globais, tentativa, alvo, devidas, pedidos, mostra>>

(***************************************************************************)
(* Common to both.                                                         *)
(***************************************************************************)
(* writeValor.  Its answer is again the script of ConsultaInfoPonto.        *)
writeValor ==
  /\ janela["info"] = "preenchida" /\ g_win_cmd = "info" /\ mostra["info"] \in Manuais
  /\ escritas' = escritas \union ({NPTO} \intersect Pontos)
  /\ UNCHANGED <<globais, tentativa, alvo, devidas, consultas, telas>>

RespondeEscrita(p) ==
  /\ p \in escritas
  /\ escritas' = escritas \ {p}
  /\ Informa(p, "escrita")
  /\ UNCHANGED <<tentativa, alvo, devidas, consultas, telas>>

(* A request is given up, with its repetition.                              *)
Perde ==
  /\ \/ \E c \in consultas : consultas' = consultas \ {c} /\ UNCHANGED escritas
     \/ \E p \in escritas : escritas' = escritas \ {p} /\ UNCHANGED consultas
  /\ UNCHANGED <<globais, tentativa, alvo, devidas, telas>>

(* testOpener of each window, each second: a window without contents, or    *)
(* whose global is the number 0, closes.                                    *)
Sobra(w) ==
  \/ janela[w] = "aberta"
  \/ w = "info" /\ NPTO = "zero"
  \/ w = "cmd" /\ CNPTO = "zero"

testOpener(w) ==
  /\ Carregada(w) /\ Sobra(w)
  /\ janela' = [janela EXCEPT ![w] = "fechada"]
  /\ UNCHANGED <<globais, tentativa, alvo, devidas, pedidos, mostra>>

(* The operator or, for the command window, the countdown of 35 s.          *)
Fecha(w) ==
  /\ Aberta(w)
  /\ janela' = [janela EXCEPT ![w] = "fechada"]
  /\ UNCHANGED <<globais, tentativa, alvo, devidas, pedidos, mostra>>

(* The end of drawSVG: nobody uses the point.                               *)
MutanteSolta == g_win_cmd \notin Janelas
Solta == g_win_cmd \notin {w \in Janelas : Aberta(w)}

drawSVG ==
  /\ NPTO # "zero" /\ g_win_cmd # NPTO /\ Solta
  /\ NPTO' = "zero"
  /\ UNCHANGED <<CNPTO, CDESC, fonte, tentativa, alvo, devidas, pedidos, telas>>

-----------------------------------------------------------------------------
Operador ==
  \/ \E p \in Pontos : janelaInfo(p)
  \/ AbreOutroVisor \/ executaComando \/ writeValor
  \/ \E limpa \in BOOLEAN : prejanelaComando(limpa)
  \/ \E w \in Janelas : Fecha(w)

Responde(p) == showValsInfo1(p) \/ showValsCmd1(p) \/ RespondeEscrita(p)

Temporiza ==
  \/ janelaInfo0 \/ Destrava \/ showValsInfo0 \/ Espera
  \/ FechaSeNaoAbre \/ FechaDepois \/ AbreCmd

Next ==
  \/ Operador \/ Temporiza
  \/ \E p \in Pontos : Responde(p)
  \/ Perde
  \/ CarregaInfo \/ showValsCmd2
  \/ \E w \in Janelas : testOpener(w)
  \/ drawSVG

(* Timers expire, windows load, requests end, and the values of the screen, *)
(* whose changes are drawn, keep changing.                                  *)
Fairness ==
  /\ WF_vars(janelaInfo0) /\ WF_vars(Destrava) /\ WF_vars(showValsInfo0) /\ WF_vars(Espera)
  /\ WF_vars(FechaSeNaoAbre) /\ WF_vars(FechaDepois) /\ WF_vars(AbreCmd)
  /\ WF_vars(CarregaInfo) /\ WF_vars(showValsCmd2)
  /\ \A p \in Pontos : WF_vars(Responde(p))
  /\ \A w \in Janelas : WF_vars(testOpener(w))
  /\ WF_vars(Fecha("cmd"))
  /\ WF_vars(drawSVG)

Spec == Init /\ [][Next]_vars /\ Fairness
-----------------------------------------------------------------------------
TypeOK ==
  /\ NPTO \in Pontos \union {"zero"}
  /\ CNPTO \in Comandaveis \union {"zero", "sem"} /\ CDESC \in Comandaveis \union {"zero"}
  /\ fonte \in {"consulta", "escrita"}
  /\ g_nponto_sup \in Pontos \union {"zero"} /\ g_cntTentativaInfo \in 0..Tentativas
  /\ g_travaInfo \in BOOLEAN /\ g_win_1stdraw \in BOOLEAN /\ g_tminfoID \in BOOLEAN
  /\ g_wait_win \in 0..Esperas /\ fechamentos \in 0..MaxFechamentos
  /\ g_win_cmd \in Janelas \union Comandaveis \union {"objeto"}
  /\ devidas \subseteq {"showValsInfo0", "showValsInfo2", "janelaInfo0", "window.open"}
  /\ consultas \subseteq Consultas /\ escritas \subseteq Pontos
  /\ janela \in [Janelas -> Estados]
  /\ mostra \in [Janelas -> Pontos \union {"zero"}]

(* The globals are of one point, and the description of its command.        *)
GlobaisJuntas ==
  /\ NPTO # "zero" => CNPTO = Comando(NPTO)
  /\ ~SemComando => CDESC = CNPTO

(* Whatever the order of clicks, answers, timers and loads, the window the  *)
(* viewer knows of writes and commands what it shows, or nothing.  It takes *)
(* that no late answer to a value written changed the globals since.        *)
JanelaDona ==
  fonte = "consulta" =>
    /\ g_win_cmd = "info" /\ janela["info"] = "preenchida" /\ NPTO # "zero" =>
         mostra["info"] = NPTO
    /\ g_win_cmd = "cmd" /\ janela["cmd"] = "preenchida" /\ ~SemComando =>
         /\ mostra["cmd"] = CNPTO
         /\ (NPTO = "zero" \/ CNPTO \notin Intertravados)

(* The viewer stops reopening a dialog by itself: if the operator clicks no *)
(* more, in the end no request, window or retry is due.                     *)
RepeticaoAcaba ==
  <>[][~Operador]_vars => <>[](devidas = {} /\ consultas = {})

(* With the windows closed for good the point is released: until then the   *)
(* keyboard selects no point and the daily reload is put off.               *)
PontoLiberado ==
  <>[](\A w \in Janelas : ~Aberta(w)) => []<>(NPTO = "zero")

(* The command window commands the point it was opened for ("mark window to *)
(* be opened for point NPTO", websage.js:1084).                             *)
ComandoMostrado ==
  [][executaComando => SemComando \/ CNPTO = mostra["cmd"]]_vars
=============================================================================
