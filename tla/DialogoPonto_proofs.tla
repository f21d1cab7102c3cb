--------------------------- MODULE DialogoPonto_proofs ---------------------------
(***************************************************************************)
(* Proofs about DialogoPonto, for any points, waits and tries: the types,  *)
(* that the window in use shows the point it acts on (IInv), and that what *)
(* is due runs out (Resta, the last part).                                 *)
(***************************************************************************)
EXTENDS DialogoPonto, FiniteSetTheorems, TLAPS

USE PontosAssumption, LimitesAssumption

LEMMA FechaAlvoTipo == TypeOK => FechaAlvo \in [Janelas -> Estados]
BY DEF TypeOK, FechaAlvo, Estados

LEMMA InformaTipo ==
  ASSUME TypeOK, NEW p \in Pontos, NEW de \in {"consulta", "escrita"}, Informa(p, de)
  PROVE  /\ NPTO' \in Pontos /\ CNPTO' \in Comandaveis \union {"sem"}
         /\ CDESC' \in Comandaveis \union {"zero"} /\ fonte' \in {"consulta", "escrita"}
BY DEF TypeOK, Informa, Comando

LEMMA PerguntaTipo ==
  ASSUME TypeOK, NEW w \in Janelas, NEW p
  PROVE  consultas \union Pergunta(w, p) \subseteq Consultas
BY DEF TypeOK, Pergunta

(***************************************************************************)
(* The types, by groups of actions.                                        *)
(***************************************************************************)
LEMMA TipoInfo ==
  ASSUME TypeOK,
         \/ \E p \in Pontos : janelaInfo(p)
         \/ janelaInfo0 \/ Destrava \/ showValsInfo0
  PROVE  TypeOK'
<1>1. ASSUME NEW p \in Pontos, janelaInfo(p) PROVE TypeOK'
  BY <1>1, FechaAlvoTipo DEF janelaInfo, Abre, Zera, TypeOK, alvo, pedidos
<1>2. CASE janelaInfo0
  <2>1. Tenta \in 0..Tentativas
    BY DEF Tenta, TypeOK
  <2>2. CASE g_travaInfo
    BY <1>2, <2>2 DEF janelaInfo0, TypeOK, globais, tentativa, alvo, pedidos, telas
  <2>3. CASE ~g_travaInfo /\ Tenta = 0
    BY <1>2, <2>1, <2>3 DEF janelaInfo0, TypeOK, globais, alvo, pedidos, telas
  <2>4. CASE ~g_travaInfo /\ Tenta # 0
    BY <1>2, <2>1, <2>4, FechaAlvoTipo DEF janelaInfo0, Abre, Zera, TypeOK, alvo, pedidos
  <2> QED
    BY <2>2, <2>3, <2>4
<1>3. CASE Destrava
  BY <1>3 DEF Destrava, TypeOK, globais, alvo, pedidos, telas
<1>4. CASE showValsInfo0
  BY <1>4, PerguntaTipo DEF showValsInfo0, TypeOK, globais, tentativa, alvo, telas, Janelas
<1> QED
  BY <1>1, <1>2, <1>3, <1>4

LEMMA TipoPreenche ==
  ASSUME TypeOK, NEW j \in [Janelas -> Estados], NEW outras \in SUBSET devidas,
         showValsInfo2(j, outras),
         UNCHANGED <<globais, g_nponto_sup, g_cntTentativaInfo, g_travaInfo, pedidos>>
  PROVE  TypeOK'
<1>1. UNCHANGED <<NPTO, CNPTO, CDESC, fonte, consultas, escritas>>
  BY DEF globais, pedidos
<1>2. CASE NPTO # "zero" /\ g_win_cmd \in Janelas /\ j[g_win_cmd] \notin {"fechada", "carregando"}
  <2>1. janela' \in [Janelas -> Estados] /\ mostra' \in [Janelas -> Pontos \union {"zero"}]
    BY <1>2 DEF showValsInfo2, TypeOK, Estados
  <2> QED
    BY <1>1, <1>2, <2>1 DEF showValsInfo2, TypeOK
<1>3. CASE ~(NPTO # "zero" /\ g_win_cmd \in Janelas /\ j[g_win_cmd] \notin {"fechada", "carregando"})
  <2>1. g_wait_win' \in 0..Esperas
    BY <1>3 DEF showValsInfo2, TypeOK, Aguarda, Conta
  <2>2. devidas' \subseteq {"showValsInfo0", "showValsInfo2", "janelaInfo0", "window.open"}
    BY <1>3 DEF showValsInfo2, TypeOK
  <2> QED
    BY <1>1, <1>3, <2>1, <2>2 DEF showValsInfo2, TypeOK, alvo
<1> QED
  BY <1>2, <1>3

LEMMA TipoJanelaInfo ==
  ASSUME TypeOK,
         \/ \E p \in Pontos : showValsInfo1(p)
         \/ CarregaInfo \/ Espera \/ FechaSeNaoAbre \/ FechaDepois \/ AbreOutroVisor
  PROVE  TypeOK'
<1>1. ASSUME NEW p \in Pontos, showValsInfo1(p) PROVE TypeOK'
  <2>1. janela' \in [Janelas -> Estados]
    BY <1>1 DEF showValsInfo1, Reabre, TypeOK, Estados
  <2>2. fechamentos' \in 0..MaxFechamentos
    BY <1>1 DEF showValsInfo1, TypeOK
  <2> QED
    BY <1>1, <2>1, <2>2, InformaTipo DEF showValsInfo1, TypeOK, Janelas
<1>2. CASE CarregaInfo
  <2>1. [janela EXCEPT !["info"] = "aberta"] \in [Janelas -> Estados]
    BY DEF TypeOK, Estados
  <2> QED
    BY <1>2, <2>1, TipoPreenche DEF CarregaInfo
<1>3. CASE Espera
  <2>1. janela \in [Janelas -> Estados]
    BY DEF TypeOK
  <2> QED
    BY <1>3, <2>1, TipoPreenche DEF Espera
<1>4. CASE FechaSeNaoAbre
  BY <1>4, FechaAlvoTipo DEF FechaSeNaoAbre, TypeOK, globais, tentativa, pedidos
<1>5. CASE FechaDepois
  BY <1>5, FechaAlvoTipo DEF FechaDepois, TypeOK, globais, tentativa, pedidos
<1>6. CASE AbreOutroVisor
  BY <1>6 DEF AbreOutroVisor, TypeOK, globais, tentativa, pedidos, telas
<1> QED
  BY <1>1, <1>2, <1>3, <1>4, <1>5, <1>6

LEMMA TipoCmd ==
  ASSUME TypeOK,
         \/ \E limpa \in BOOLEAN : prejanelaComando(limpa)
         \/ \E p \in Pontos : showValsCmd1(p)
         \/ AbreCmd \/ showValsCmd2 \/ executaComando
  PROVE  TypeOK'
<1>1. ASSUME NEW limpa \in BOOLEAN, prejanelaComando(limpa) PROVE TypeOK'
  <2>1. consultas' \subseteq Consultas
    BY <1>1, PerguntaTipo DEF prejanelaComando, Janelas
  <2>2. devidas' \subseteq {"showValsInfo0", "showValsInfo2", "janelaInfo0", "window.open"}
    BY <1>1 DEF prejanelaComando, TypeOK
  <2> QED
    BY <1>1, <2>1, <2>2 DEF prejanelaComando, Zera, TypeOK, alvo, telas
<1>2. ASSUME NEW p \in Pontos, showValsCmd1(p) PROVE TypeOK'
  <2>1. devidas' \subseteq {"showValsInfo0", "showValsInfo2", "janelaInfo0", "window.open"}
    BY <1>2 DEF showValsCmd1, TypeOK
  <2> QED
    BY <1>2, <2>1, InformaTipo, FechaAlvoTipo DEF showValsCmd1, TypeOK, tentativa
<1>3. CASE AbreCmd
  <2>1. janela' \in [Janelas -> Estados]
    BY <1>3 DEF AbreCmd, TypeOK, Estados
  <2> QED
    BY <1>3, <2>1 DEF AbreCmd, TypeOK, globais, tentativa, pedidos, Janelas
<1>4. CASE showValsCmd2
  <2>1. janela' \in [Janelas -> Estados]
    BY <1>4, FechaAlvoTipo DEF showValsCmd2, TypeOK, Estados
  <2>2. mostra' \in [Janelas -> Pontos \union {"zero"}]
    BY <1>4 DEF showValsCmd2, TypeOK
  <2> QED
    BY <1>4, <2>1, <2>2 DEF showValsCmd2, TypeOK, globais, tentativa, alvo, pedidos
<1>5. CASE executaComando
  <2>1. janela' \in [Janelas -> Estados]
    BY <1>5 DEF executaComando, TypeOK, Estados
  <2> QED
    BY <1>5, <2>1 DEF executaComando, TypeOK, globais, tentativa, alvo, pedidos
<1> QED
  BY <1>1, <1>2, <1>3, <1>4, <1>5

LEMMA TipoComum ==
  ASSUME TypeOK,
         \/ writeValor \/ Perde \/ drawSVG
         \/ \E p \in Pontos : RespondeEscrita(p)
         \/ \E w \in Janelas : testOpener(w) \/ Fecha(w)
  PROVE  TypeOK'
<1>1. CASE writeValor
  BY <1>1 DEF writeValor, TypeOK, globais, tentativa, alvo, telas
<1>2. CASE Perde
  BY <1>2 DEF Perde, TypeOK, globais, tentativa, alvo, telas
<1>3. CASE drawSVG
  BY <1>3 DEF drawSVG, TypeOK, tentativa, alvo, pedidos, telas
<1>4. ASSUME NEW p \in Pontos, RespondeEscrita(p) PROVE TypeOK'
  BY <1>4, InformaTipo DEF RespondeEscrita, TypeOK, tentativa, alvo, telas
<1>5. ASSUME NEW w \in Janelas, testOpener(w) \/ Fecha(w) PROVE TypeOK'
  <2>1. janela' \in [Janelas -> Estados]
    BY <1>5 DEF testOpener, Fecha, TypeOK, Estados
  <2> QED
    BY <1>5, <2>1 DEF testOpener, Fecha, TypeOK, globais, tentativa, alvo, pedidos
<1> QED
  BY <1>1, <1>2, <1>3, <1>4, <1>5

(***************************************************************************)
(* The windows.  Who writes the globals with a point either leads g_win_cmd *)
(* to a window that starts to load, or leaves none open behind it.         *)
(***************************************************************************)
IInv == TypeOK /\ GlobaisJuntas /\ JanelaDona

LEMMA InformaJunta ==
  ASSUME TypeOK, GlobaisJuntas, NEW p \in Pontos, NEW de, Informa(p, de)
  PROVE  GlobaisJuntas'
BY DEF GlobaisJuntas, Informa, Comando, SemComando

LEMMA ZeraDona ==
  ASSUME Zera PROVE GlobaisJuntas' /\ JanelaDona'
BY DEF Zera, GlobaisJuntas, JanelaDona, SemComando

(* Steps that write neither a global nor the name of the window, and fill   *)
(* no window.                                                               *)
LEMMA NadaMuda ==
  ASSUME IInv, UNCHANGED <<NPTO, CNPTO, CDESC, fonte, g_win_cmd>>,
         \A w \in Janelas :
           janela'[w] = "preenchida" => janela[w] = "preenchida" /\ mostra'[w] = mostra[w]
  PROVE  GlobaisJuntas' /\ JanelaDona'
BY DEF IInv, GlobaisJuntas, JanelaDona, SemComando, Comando, Janelas

LEMMA FechaNaoEnche ==
  ASSUME TypeOK, NEW w \in Janelas
  PROVE  FechaAlvo[w] = "preenchida" => janela[w] = "preenchida" /\ w # g_win_cmd
BY DEF FechaAlvo

LEMMA DonaInfo ==
  ASSUME IInv,
         \/ \E p \in Pontos : janelaInfo(p)
         \/ janelaInfo0 \/ Destrava \/ showValsInfo0
  PROVE  GlobaisJuntas' /\ JanelaDona'
<1>1. ASSUME NEW p \in Pontos, janelaInfo(p) PROVE GlobaisJuntas' /\ JanelaDona'
  BY <1>1, ZeraDona DEF janelaInfo, Abre
<1>2. CASE janelaInfo0
  <2>1. CASE ~g_travaInfo /\ Tenta # 0
    BY <1>2, <2>1, ZeraDona DEF janelaInfo0, Abre
  <2>2. CASE g_travaInfo \/ Tenta = 0
    BY <1>2, <2>2, NadaMuda DEF janelaInfo0, globais, alvo, telas
  <2> QED
    BY <2>1, <2>2
<1>3. CASE Destrava
  BY <1>3, NadaMuda DEF Destrava, globais, alvo, telas
<1>4. CASE showValsInfo0
  BY <1>4, NadaMuda DEF showValsInfo0, globais, alvo, telas
<1> QED
  BY <1>1, <1>2, <1>3, <1>4

(* The window is filled with the point that is in NPTO at that moment.      *)
LEMMA DonaPreenche ==
  ASSUME IInv, NEW j \in [Janelas -> Estados], NEW outras,
         showValsInfo2(j, outras), UNCHANGED globais,
         \A w \in Janelas : j[w] = "preenchida" => janela[w] = "preenchida"
  PROVE  GlobaisJuntas' /\ JanelaDona'
<1>1. UNCHANGED <<NPTO, CNPTO, CDESC, fonte, g_win_cmd>>
  BY DEF showValsInfo2, globais, alvo
<1>2. CASE /\ NPTO # "zero" /\ g_win_cmd \in Janelas /\ j[g_win_cmd] \notin {"fechada", "carregando"}
           /\ g_win_1stdraw /\ g_win_cmd = "info"
  <2>1. mostra'["info"] = NPTO
    BY <1>2 DEF showValsInfo2, IInv, TypeOK, Janelas
  <2> QED
    BY <1>1, <1>2, <2>1 DEF IInv, GlobaisJuntas, JanelaDona, SemComando, Comando
<1>3. CASE ~(/\ NPTO # "zero" /\ g_win_cmd \in Janelas /\ j[g_win_cmd] \notin {"fechada", "carregando"}
             /\ g_win_1stdraw /\ g_win_cmd = "info")
  <2>1. janela' = j /\ mostra' = mostra
    BY <1>3 DEF showValsInfo2
  <2> QED
    BY <1>1, <2>1, NadaMuda
<1> QED
  BY <1>2, <1>3

LEMMA DonaJanelaInfo ==
  ASSUME IInv,
         \/ \E p \in Pontos : showValsInfo1(p)
         \/ CarregaInfo \/ Espera \/ FechaSeNaoAbre \/ FechaDepois \/ AbreOutroVisor
  PROVE  GlobaisJuntas' /\ JanelaDona'
<1>1. ASSUME NEW p \in Pontos, showValsInfo1(p) PROVE GlobaisJuntas' /\ JanelaDona'
  <2>1. GlobaisJuntas'
    BY <1>1, InformaJunta DEF showValsInfo1, IInv
  <2>2. g_win_cmd' = "info" /\ janela'["info"] = "carregando"
    BY <1>1 DEF showValsInfo1, Reabre, IInv, TypeOK, Janelas
  <2> QED
    BY <2>1, <2>2 DEF JanelaDona
<1>2. CASE CarregaInfo
  <2> DEFINE j == [janela EXCEPT !["info"] = "aberta"]
  <2>1. j \in [Janelas -> Estados] /\ \A w \in Janelas : j[w] = "preenchida" => janela[w] = "preenchida"
    BY DEF IInv, TypeOK, Estados
  <2>2. showValsInfo2(j, devidas) /\ UNCHANGED globais
    BY <1>2 DEF CarregaInfo
  <2> HIDE DEF j
  <2> QED
    BY <2>1, <2>2, DonaPreenche
<1>3. CASE Espera
  <2>1. janela \in [Janelas -> Estados]
    BY DEF IInv, TypeOK
  <2> QED
    BY <1>3, <2>1, DonaPreenche DEF Espera
<1>4. CASE FechaSeNaoAbre \/ FechaDepois
  <2>1. janela' = FechaAlvo /\ UNCHANGED <<NPTO, CNPTO, CDESC, fonte, g_win_cmd, mostra>>
    BY <1>4 DEF FechaSeNaoAbre, FechaDepois, globais
  <2> QED
    BY <2>1, FechaNaoEnche, NadaMuda DEF IInv
<1>5. CASE AbreOutroVisor
  BY <1>5, NadaMuda DEF AbreOutroVisor, globais, telas
<1> QED
  BY <1>1, <1>2, <1>3, <1>4, <1>5

LEMMA DonaCmd ==
  ASSUME IInv,
         \/ \E limpa \in BOOLEAN : prejanelaComando(limpa)
         \/ \E p \in Pontos : showValsCmd1(p)
         \/ AbreCmd \/ showValsCmd2 \/ executaComando
  PROVE  GlobaisJuntas' /\ JanelaDona'
<1>1. ASSUME NEW limpa \in BOOLEAN, prejanelaComando(limpa) PROVE GlobaisJuntas' /\ JanelaDona'
  BY <1>1, ZeraDona DEF prejanelaComando
<1>2. ASSUME NEW p \in Pontos, showValsCmd1(p) PROVE GlobaisJuntas' /\ JanelaDona'
  <2>1. GlobaisJuntas'
    BY <1>2, InformaJunta DEF showValsCmd1, IInv
  <2>2. \A w \in Janelas : g_win_cmd' = w => janela'[w] = "fechada"
    BY <1>2 DEF showValsCmd1, FechaAlvo, Janelas
  <2> QED
    BY <2>1, <2>2 DEF JanelaDona, Janelas
<1>3. CASE AbreCmd
  <2>1. g_win_cmd' = "cmd" /\ janela'["cmd"] = "carregando" /\ UNCHANGED globais
    BY <1>3 DEF AbreCmd, IInv, TypeOK, Janelas
  <2> QED
    BY <2>1 DEF IInv, GlobaisJuntas, JanelaDona, SemComando, Comando, globais
<1>4. CASE showValsCmd2
  <2>1. UNCHANGED <<NPTO, CNPTO, CDESC, fonte, g_win_cmd>>
    BY <1>4 DEF showValsCmd2, globais, alvo
  <2>2. CASE g_win_cmd = "cmd" /\ NPTO \notin Intertravados
    <3>1. mostra'["cmd"] = CDESC
      BY <1>4, <2>2 DEF showValsCmd2, IInv, TypeOK, Janelas
    <3> QED
      BY <2>1, <2>2, <3>1 DEF IInv, GlobaisJuntas, JanelaDona, SemComando, Comando
  <2>3. CASE ~(g_win_cmd = "cmd" /\ NPTO \notin Intertravados)
    <3>1. mostra' = mostra /\ janela'["cmd"] # "preenchida"
      BY <1>4, <2>3, FechaAlvoTipo DEF showValsCmd2, IInv, TypeOK, Janelas
    <3>2. janela'["info"] = "preenchida" => janela["info"] = "preenchida"
      BY <1>4, <2>3, FechaAlvoTipo, FechaNaoEnche DEF showValsCmd2, IInv, TypeOK, Janelas
    <3> QED
      BY <2>1, <3>1, <3>2, NadaMuda DEF Janelas
  <2> QED
    BY <2>2, <2>3
<1>5. CASE executaComando
  <2>1. \A w \in Janelas : janela'[w] = "preenchida" => janela[w] = "preenchida"
    BY <1>5 DEF executaComando, IInv, TypeOK
  <2> QED
    BY <1>5, <2>1, NadaMuda DEF executaComando, globais, alvo
<1> QED
  BY <1>1, <1>2, <1>3, <1>4, <1>5

LEMMA DonaComum ==
  ASSUME IInv,
         \/ writeValor \/ Perde \/ drawSVG
         \/ \E p \in Pontos : RespondeEscrita(p)
         \/ \E w \in Janelas : testOpener(w) \/ Fecha(w)
  PROVE  GlobaisJuntas' /\ JanelaDona'
<1>1. CASE writeValor \/ Perde
  BY <1>1, NadaMuda DEF writeValor, Perde, globais, alvo, telas
<1>2. CASE drawSVG
  BY <1>2 DEF drawSVG, IInv, GlobaisJuntas, JanelaDona, SemComando, Comando, alvo, telas
<1>3. ASSUME NEW p \in Pontos, RespondeEscrita(p) PROVE GlobaisJuntas' /\ JanelaDona'
  <2>1. fonte' = "escrita"
    BY <1>3 DEF RespondeEscrita, Informa
  <2> QED
    BY <1>3, <2>1, InformaJunta DEF RespondeEscrita, JanelaDona, IInv
<1>4. ASSUME NEW w \in Janelas, testOpener(w) \/ Fecha(w) PROVE GlobaisJuntas' /\ JanelaDona'
  <2>1. \A v \in Janelas : janela'[v] = "preenchida" => janela[v] = "preenchida"
    BY <1>4 DEF testOpener, Fecha, IInv, TypeOK
  <2> QED
    BY <1>4, <2>1, NadaMuda DEF testOpener, Fecha, globais, alvo
<1> QED
  BY <1>1, <1>2, <1>3, <1>4

LEMMA InvInicio == Init => IInv
<1> SUFFICES ASSUME Init PROVE IInv
  OBVIOUS
<1>1. janela \in [Janelas -> Estados] /\ mostra \in [Janelas -> Pontos \union {"zero"}]
  BY DEF Init, Estados
<1>2. TypeOK
  <2>1. 0 \in 0..Tentativas /\ 0 \in 0..Esperas /\ 0 \in 0..MaxFechamentos
    OBVIOUS
  <2>2. /\ g_cntTentativaInfo \in 0..Tentativas /\ g_wait_win \in 0..Esperas
        /\ fechamentos \in 0..MaxFechamentos
    BY <2>1 DEF Init
  <2>3. /\ g_win_cmd \in Janelas \union Comandaveis \union {"objeto"}
        /\ fonte \in {"consulta", "escrita"}
    BY DEF Init
  <2>4. /\ devidas \subseteq {"showValsInfo0", "showValsInfo2", "janelaInfo0", "window.open"}
        /\ consultas \subseteq Consultas /\ escritas \subseteq Pontos
    BY DEF Init
  <2>5. /\ NPTO \in Pontos \union {"zero"} /\ CNPTO \in Comandaveis \union {"zero", "sem"}
        /\ CDESC \in Comandaveis \union {"zero"} /\ g_nponto_sup \in Pontos \union {"zero"}
        /\ g_travaInfo \in BOOLEAN /\ g_win_1stdraw \in BOOLEAN /\ g_tminfoID \in BOOLEAN
    BY DEF Init
  <2> QED
    BY <1>1, <2>2, <2>3, <2>4, <2>5 DEF TypeOK
<1>3. GlobaisJuntas /\ JanelaDona
  BY DEF Init, GlobaisJuntas, JanelaDona, SemComando, Janelas
<1> QED
  BY <1>2, <1>3 DEF IInv

LEMMA InvPasso == IInv /\ [Next]_vars => IInv'
<1> SUFFICES ASSUME IInv, [Next]_vars PROVE IInv'
  OBVIOUS
<1> USE DEF IInv
<1>1. CASE Operador
  BY <1>1, TipoInfo, TipoJanelaInfo, TipoCmd, TipoComum, DonaInfo, DonaJanelaInfo, DonaCmd, DonaComum
     DEF Operador
<1>2. CASE Temporiza
  BY <1>2, TipoInfo, TipoJanelaInfo, TipoCmd, DonaInfo, DonaJanelaInfo, DonaCmd DEF Temporiza
<1>3. CASE \E p \in Pontos : Responde(p)
  BY <1>3, TipoJanelaInfo, TipoCmd, TipoComum, DonaJanelaInfo, DonaCmd, DonaComum DEF Responde
<1>4. CASE Perde \/ drawSVG \/ \E w \in Janelas : testOpener(w)
  BY <1>4, TipoComum, DonaComum
<1>5. CASE CarregaInfo \/ showValsCmd2
  BY <1>5, TipoJanelaInfo, TipoCmd, DonaJanelaInfo, DonaCmd
<1>6. CASE UNCHANGED vars
  BY <1>6 DEF vars, globais, tentativa, alvo, pedidos, telas, TypeOK, GlobaisJuntas, JanelaDona,
     SemComando, Comando
<1> QED
  BY <1>1, <1>2, <1>3, <1>4, <1>5, <1>6 DEF Next

(* The globals, the timers and the windows keep their types.                *)
THEOREM TipoCorreto == Spec => []TypeOK
<1>1. IInv => TypeOK
  BY DEF IInv
<1> QED
  BY <1>1, InvInicio, InvPasso, PTL DEF Spec

(* The window of g_win_cmd writes and commands what it shows, for any set   *)
(* of points and any number of retries.                                     *)
THEOREM DonaSempre == Spec => []JanelaDona
<1>1. IInv => JanelaDona
  BY DEF IInv
<1> QED
  BY <1>1, InvInicio, InvPasso, PTL DEF Spec

(***************************************************************************)
(* The repetition is bounded.  Resta weighs what is due: a try left or a   *)
(* request to be made weighs more than the waits, the window and the       *)
(* retry it may lead to.                                                   *)
(***************************************************************************)
PorConsulta == 3 * Esperas + 4
PorTentativa == PorConsulta + 1

Peso(b, n) == IF b THEN n ELSE 0

DasTentativas == g_cntTentativaInfo * PorTentativa
DasConsultas == Cardinality(consultas) * PorConsulta
DaEspera == 3 * (Esperas - g_wait_win)
DasDevidas ==
  Peso("showValsInfo0" \in devidas, PorTentativa) + Peso("showValsInfo2" \in devidas, 2)
  + Peso("janelaInfo0" \in devidas, 1) + Peso("window.open" \in devidas, 2)
DasJanelas == Peso(janela["info"] = "carregando", 3) + Peso(janela["cmd"] = "carregando", 1)

Resta == DasTentativas + DasConsultas + DaEspera + DasDevidas + DasJanelas

(* The steps that the viewer repeats.                                       *)
Repete ==
  \/ janelaInfo0 \/ showValsInfo0 \/ Espera \/ CarregaInfo \/ AbreCmd \/ showValsCmd2
  \/ \E p \in Pontos : showValsInfo1(p) \/ showValsCmd1(p)

Finitas == IsFiniteSet(consultas)

LEMMA Pesos ==
  /\ PorConsulta \in Nat /\ PorTentativa \in Nat
  /\ PorConsulta = 3 * Esperas + 4 /\ PorTentativa = PorConsulta + 1
BY DEF PorConsulta, PorTentativa

LEMMA Vezes ==
  ASSUME NEW a \in Nat, NEW b \in Nat
  PROVE  /\ a * b \in Nat
         /\ (a + 1) * b = a * b + b
         /\ a > 0 => (a - 1) * b = a * b - b
         /\ 0 * b = 0
OBVIOUS

LEMMA PartesTipo ==
  ASSUME TypeOK, Finitas
  PROVE  /\ DasTentativas \in Nat /\ DasConsultas \in Nat /\ DaEspera \in Nat
         /\ DasDevidas \in Nat /\ DasJanelas \in Nat
<1>1. DasTentativas \in Nat
  BY Vezes, Pesos DEF TypeOK, DasTentativas
<1>2. DasConsultas \in Nat
  BY Vezes, Pesos, FS_CardinalityType DEF Finitas, DasConsultas
<1>3. DaEspera \in Nat
  BY DEF TypeOK, DaEspera
<1>4. DasDevidas \in Nat /\ DasJanelas \in Nat
  BY Pesos DEF DasDevidas, DasJanelas, Peso
<1> QED
  BY <1>1, <1>2, <1>3, <1>4

LEMMA PartesTipoDepois ==
  ASSUME TypeOK', Finitas'
  PROVE  /\ DasTentativas' \in Nat /\ DasConsultas' \in Nat /\ DaEspera' \in Nat
         /\ DasDevidas' \in Nat /\ DasJanelas' \in Nat
<1>0. /\ g_cntTentativaInfo' \in Nat /\ g_wait_win' \in Nat
      /\ g_wait_win' <= Esperas /\ Esperas \in Nat
  BY DEF TypeOK
<1>1. DasTentativas' \in Nat
  BY <1>0, Vezes, Pesos DEF DasTentativas
<1>2. DasConsultas' \in Nat
  BY Vezes, Pesos, FS_CardinalityType DEF Finitas, DasConsultas
<1>3. DaEspera' \in Nat
  <2>0. \A x, y \in Nat : x <= y => y - x \in Nat
    OBVIOUS
  <2>1. Esperas - g_wait_win' \in Nat
    BY <1>0, <2>0, Zenon
  <2> QED
    BY <2>1 DEF DaEspera
<1>4. DasDevidas' \in Nat /\ DasJanelas' \in Nat
  BY Pesos DEF DasDevidas, DasJanelas, Peso
<1> QED
  BY <1>1, <1>2, <1>3, <1>4

(* One request more, or less.                                               *)
LEMMA MaisUma ==
  ASSUME TypeOK, Finitas, NEW w \in Janelas, NEW p,
         consultas' = consultas \union Pergunta(w, p)
  PROVE  Finitas' /\ DasConsultas' <= DasConsultas + PorConsulta
<1>1. Pergunta(w, p) = {} \/ Pergunta(w, p) = {<<w, p>>}
  BY DEF Pergunta
<1>2. CASE Pergunta(w, p) = {}
  <2>1. Finitas' /\ DasConsultas' = DasConsultas
    BY <1>2 DEF Finitas, DasConsultas
  <2> QED
    BY <2>1, PartesTipo, Pesos
<1>3. CASE Pergunta(w, p) = {<<w, p>>}
  <2>1. /\ IsFiniteSet(consultas') /\ Cardinality(consultas) \in Nat
        /\ Cardinality(consultas') \in {Cardinality(consultas), Cardinality(consultas) + 1}
    BY <1>3, FS_AddElement, FS_CardinalityType DEF Finitas
  <2> QED
    BY <2>1, Vezes, Pesos DEF Finitas, DasConsultas
<1> QED
  BY <1>1, <1>2, <1>3

LEMMA MenosUma ==
  ASSUME Finitas, NEW c \in consultas, consultas' = consultas \ {c}
  PROVE  Finitas' /\ DasConsultas' = DasConsultas - PorConsulta
<1>1. /\ IsFiniteSet(consultas') /\ Cardinality(consultas) \in Nat
      /\ Cardinality(consultas') = Cardinality(consultas) - 1
      /\ Cardinality(consultas') \in Nat
  BY FS_RemoveElement, FS_CardinalityType DEF Finitas
<1>2. Cardinality(consultas) > 0
  BY <1>1
<1> QED
  BY <1>1, <1>2, Vezes, Pesos DEF Finitas, DasConsultas

LEMMA MesmasConsultas ==
  UNCHANGED consultas => (Finitas <=> Finitas') /\ DasConsultas' = DasConsultas
BY DEF Finitas, DasConsultas

(* Closing a window leaves no more to be loaded.                            *)
LEMMA Fechando ==
  ASSUME TypeOK, NEW j \in [Janelas -> Estados],
         \A w \in Janelas : j[w] = "carregando" => janela[w] = "carregando",
         janela' = j
  PROVE  DasJanelas' <= DasJanelas
BY DEF DasJanelas, Peso, Janelas

LEMMA FechandoAlvo == TypeOK /\ janela' = FechaAlvo => DasJanelas' <= DasJanelas
BY FechaAlvoTipo, Fechando DEF FechaAlvo

-----------------------------------------------------------------------------
LEMMA RestaInfo ==
  ASSUME TypeOK, TypeOK', Finitas, janelaInfo0 \/ showValsInfo0
  PROVE  Finitas' /\ Resta' < Resta
<1> USE PartesTipo, PartesTipoDepois, Pesos
<1>1. CASE janelaInfo0
  <2>1. /\ UNCHANGED <<consultas, g_wait_win>> /\ "janelaInfo0" \in devidas
        /\ "showValsInfo2" \in devidas' <=> "showValsInfo2" \in devidas
        /\ "window.open" \in devidas' <=> "window.open" \in devidas
        /\ "janelaInfo0" \notin devidas'
    BY <1>1 DEF janelaInfo0, Abre, pedidos, tentativa
  <2>2. Finitas' /\ DasConsultas' = DasConsultas /\ DaEspera' = DaEspera
    BY <2>1, MesmasConsultas DEF DaEspera
  <2>3. DasJanelas' <= DasJanelas
    BY <1>1, FechandoAlvo DEF janelaInfo0, Abre, telas, DasJanelas
  <2>4. CASE g_travaInfo \/ Tenta = 0
    <3>1. devidas' = devidas \ {"janelaInfo0"}
      BY <1>1, <2>4 DEF janelaInfo0
    <3>2. DasDevidas' = DasDevidas - 1
      BY <2>1, <3>1 DEF DasDevidas, Peso
    <3>3. g_cntTentativaInfo' = g_cntTentativaInfo \/ g_cntTentativaInfo' = 0
      BY <1>1, <2>4 DEF janelaInfo0, tentativa
    <3>4. DasTentativas' <= DasTentativas
      <4>1. CASE g_cntTentativaInfo' = g_cntTentativaInfo
        BY <4>1 DEF DasTentativas
      <4>2. CASE g_cntTentativaInfo' = 0
        <5>1. DasTentativas' = 0 * PorTentativa
          BY <4>2 DEF DasTentativas, PorTentativa, PorConsulta
        <5> QED
          BY <5>1, Vezes
      <4> QED
        BY <3>3, <4>1, <4>2
    <3> QED
      BY <2>2, <2>3, <3>2, <3>4 DEF Resta
  <2>5. CASE ~g_travaInfo /\ Tenta # 0
    <3>1. /\ g_cntTentativaInfo \in Nat /\ g_cntTentativaInfo > 0
          /\ g_cntTentativaInfo' = g_cntTentativaInfo - 1
          /\ devidas' = (devidas \ {"janelaInfo0"}) \union {"showValsInfo0"}
      BY <1>1, <2>5 DEF janelaInfo0, Tenta, TypeOK
    <3>2. DasDevidas' <= DasDevidas - 1 + PorTentativa
      BY <2>1, <3>1 DEF DasDevidas, Peso, PorTentativa, PorConsulta
    <3>3. DasTentativas' = DasTentativas - PorTentativa
      <4>1. DasTentativas' = (g_cntTentativaInfo - 1) * PorTentativa
        BY <3>1 DEF DasTentativas, PorTentativa, PorConsulta
      <4> QED
        BY <3>1, <4>1, Vezes DEF DasTentativas
    <3> QED
      BY <2>2, <2>3, <3>2, <3>3 DEF Resta
  <2> QED
    BY <2>4, <2>5
<1>2. CASE showValsInfo0
  <2>1. /\ UNCHANGED <<g_cntTentativaInfo, g_wait_win, janela>>
        /\ "showValsInfo0" \in devidas /\ devidas' = devidas \ {"showValsInfo0"}
        /\ consultas' = consultas \union Pergunta("info", g_nponto_sup)
    BY <1>2 DEF showValsInfo0, tentativa, telas
  <2>2. Finitas' /\ DasConsultas' <= DasConsultas + PorConsulta
    BY <2>1, MaisUma DEF Janelas
  <2>3. DasDevidas' = DasDevidas - PorTentativa
    BY <2>1 DEF DasDevidas, Peso, PorTentativa, PorConsulta
  <2>4. DasTentativas' = DasTentativas /\ DaEspera' = DaEspera /\ DasJanelas' = DasJanelas
    BY <2>1 DEF DasTentativas, DaEspera, DasJanelas, PorTentativa, PorConsulta
  <2> QED
    BY <2>2, <2>3, <2>4 DEF Resta
<1> QED
  BY <1>1, <1>2

(* A try to fill the window: one wait less, or a retry due.                 *)
LEMMA RestaPreenche ==
  ASSUME TypeOK, TypeOK', Finitas, Finitas', NEW j \in [Janelas -> Estados], NEW outras,
         outras = devidas \/ ("showValsInfo2" \in devidas /\ outras = devidas \ {"showValsInfo2"}),
         showValsInfo2(j, outras)
  PROVE  /\ DaEspera' + DasDevidas' <= DaEspera + DasDevidas + (IF outras = devidas THEN 1 ELSE -1)
         /\ \A w \in Janelas : janela'[w] = "carregando" => j[w] = "carregando"
<1> USE PartesTipo, PartesTipoDepois, Pesos
<1>0. /\ \A d \in {"showValsInfo0", "janelaInfo0", "window.open"} : d \in outras <=> d \in devidas
      /\ "showValsInfo2" \in outras <=> ("showValsInfo2" \in devidas /\ outras = devidas)
  OBVIOUS
<1>1. CASE NPTO # "zero" /\ g_win_cmd \in Janelas /\ j[g_win_cmd] \notin {"fechada", "carregando"}
  <2>1. devidas' = outras /\ g_wait_win' = g_wait_win
    BY <1>1 DEF showValsInfo2
  <2>2. DaEspera' = DaEspera
    BY <2>1 DEF DaEspera
  <2>3. DasDevidas' = DasDevidas + (IF outras = devidas THEN 0 ELSE -2)
    BY <1>0, <2>1 DEF DasDevidas, Peso
  <2>4. \A w \in Janelas : janela'[w] = "carregando" => j[w] = "carregando"
    BY <1>1 DEF showValsInfo2
  <2> QED
    BY <2>2, <2>3, <2>4
<1>2. CASE /\ ~(NPTO # "zero" /\ g_win_cmd \in Janelas /\ j[g_win_cmd] \notin {"fechada", "carregando"})
           /\ Aguarda
  <2>1. devidas' = outras \union {"showValsInfo2"} /\ g_wait_win' = g_wait_win + 1 /\ janela' = j
    BY <1>2 DEF showValsInfo2, Conta
  <2>2. DaEspera' = DaEspera - 3
    BY <2>1 DEF DaEspera, TypeOK
  <2>3. DasDevidas' <= DasDevidas + (IF outras = devidas THEN 2 ELSE 0)
    BY <1>0, <2>1 DEF DasDevidas, Peso
  <2> QED
    BY <2>1, <2>2, <2>3
<1>3. CASE /\ ~(NPTO # "zero" /\ g_win_cmd \in Janelas /\ j[g_win_cmd] \notin {"fechada", "carregando"})
           /\ ~Aguarda
  <2>1. devidas' = outras \union {"janelaInfo0"} /\ g_wait_win' = g_wait_win /\ janela' = j
    BY <1>3 DEF showValsInfo2
  <2>2. DaEspera' = DaEspera
    BY <2>1 DEF DaEspera
  <2>3. DasDevidas' <= DasDevidas + (IF outras = devidas THEN 1 ELSE -1)
    BY <1>0, <2>1 DEF DasDevidas, Peso
  <2> QED
    BY <2>1, <2>2, <2>3
<1> QED
  BY <1>1, <1>2, <1>3

LEMMA RestaJanelaInfo ==
  ASSUME TypeOK, TypeOK', Finitas,
         \/ \E p \in Pontos : showValsInfo1(p)
         \/ CarregaInfo \/ Espera
  PROVE  Finitas' /\ Resta' < Resta
<1> USE PartesTipo, PartesTipoDepois, Pesos
<1>1. ASSUME NEW p \in Pontos, showValsInfo1(p) PROVE Finitas' /\ Resta' < Resta
  <2>1. /\ UNCHANGED <<g_cntTentativaInfo, devidas>> /\ g_wait_win' = 0
        /\ <<"info", p>> \in consultas /\ consultas' = consultas \ {<<"info", p>>}
        /\ janela'["cmd"] = janela["cmd"]
    BY <1>1 DEF showValsInfo1, Reabre, TypeOK, Janelas
  <2>2. Finitas' /\ DasConsultas' = DasConsultas - PorConsulta
    BY <2>1, MenosUma
  <2>3. DasTentativas' = DasTentativas /\ DasDevidas' = DasDevidas
    BY <2>1 DEF DasTentativas, DasDevidas, PorTentativa, PorConsulta
  <2>4. DaEspera' = 3 * Esperas
    BY <2>1 DEF DaEspera
  <2>5. DasJanelas' <= DasJanelas + 3
    BY <2>1 DEF DasJanelas, Peso
  <2> QED
    BY <2>2, <2>3, <2>4, <2>5 DEF Resta
<1>2. CASE CarregaInfo
  <2> DEFINE j == [janela EXCEPT !["info"] = "aberta"]
  <2>1. /\ j \in [Janelas -> Estados] /\ j["cmd"] = janela["cmd"] /\ j["info"] = "aberta"
        /\ janela["info"] = "carregando"
    BY <1>2 DEF CarregaInfo, TypeOK, Estados, Janelas
  <2>2. showValsInfo2(j, devidas) /\ UNCHANGED <<g_cntTentativaInfo, consultas>>
    BY <1>2 DEF CarregaInfo, pedidos
  <2> HIDE DEF j
  <2>3. Finitas' /\ DasConsultas' = DasConsultas
    BY <2>2, MesmasConsultas
  <2>4. /\ DaEspera' + DasDevidas' <= DaEspera + DasDevidas + 1
        /\ \A w \in Janelas : janela'[w] = "carregando" => j[w] = "carregando"
    BY <2>1, <2>2, <2>3, RestaPreenche
  <2>5. DasJanelas' <= DasJanelas - 3
    BY <2>1, <2>4 DEF DasJanelas, Peso, Janelas
  <2>6. DasTentativas' = DasTentativas
    BY <2>2 DEF DasTentativas, PorTentativa, PorConsulta
  <2> QED
    BY <2>3, <2>4, <2>5, <2>6 DEF Resta
<1>3. CASE Espera
  <2> DEFINE outras == devidas \ {"showValsInfo2"}
  <2>1. /\ janela \in [Janelas -> Estados] /\ "showValsInfo2" \in devidas /\ outras # devidas
        /\ showValsInfo2(janela, outras) /\ UNCHANGED <<g_cntTentativaInfo, consultas>>
    BY <1>3 DEF Espera, TypeOK, pedidos
  <2>2. Finitas' /\ DasConsultas' = DasConsultas
    BY <2>1, MesmasConsultas
  <2>3. /\ DaEspera' + DasDevidas' <= DaEspera + DasDevidas + -1
        /\ \A w \in Janelas : janela'[w] = "carregando" => janela[w] = "carregando"
    BY <2>1, <2>2, RestaPreenche
  <2>4. DasJanelas' <= DasJanelas
    BY <2>3 DEF DasJanelas, Peso, Janelas
  <2>5. DasTentativas' = DasTentativas
    BY <2>1 DEF DasTentativas, PorTentativa, PorConsulta
  <2> QED
    BY <2>2, <2>3, <2>4, <2>5 DEF Resta
<1> QED
  BY <1>1, <1>2, <1>3

LEMMA RestaCmd ==
  ASSUME TypeOK, TypeOK', Finitas,
         \/ \E p \in Pontos : showValsCmd1(p)
         \/ AbreCmd \/ showValsCmd2
  PROVE  Finitas' /\ Resta' < Resta
<1> USE PartesTipo, PartesTipoDepois, Pesos
<1>1. ASSUME NEW p \in Pontos, showValsCmd1(p) PROVE Finitas' /\ Resta' < Resta
  <2>1. /\ UNCHANGED <<g_cntTentativaInfo, g_wait_win>> /\ janela' = FechaAlvo
        /\ <<"cmd", p>> \in consultas /\ consultas' = consultas \ {<<"cmd", p>>}
        /\ devidas' = devidas \/ devidas' = devidas \union {"window.open"}
    BY <1>1 DEF showValsCmd1, tentativa
  <2>2. Finitas' /\ DasConsultas' = DasConsultas - PorConsulta
    BY <2>1, MenosUma
  <2>3. DasTentativas' = DasTentativas /\ DaEspera' = DaEspera
    BY <2>1 DEF DasTentativas, DaEspera, PorTentativa, PorConsulta
  <2>4. DasDevidas' <= DasDevidas + 2
    BY <2>1 DEF DasDevidas, Peso, PorTentativa, PorConsulta
  <2> QED
    BY <2>1, <2>2, <2>3, <2>4, FechandoAlvo DEF Resta
<1>2. CASE AbreCmd
  <2>1. /\ UNCHANGED <<g_cntTentativaInfo, g_wait_win, consultas>>
        /\ "window.open" \in devidas /\ devidas' = devidas \ {"window.open"}
        /\ janela'["info"] = janela["info"]
    BY <1>2 DEF AbreCmd, tentativa, pedidos, TypeOK, Janelas
  <2>2. Finitas' /\ DasConsultas' = DasConsultas
    BY <2>1, MesmasConsultas
  <2>3. DasTentativas' = DasTentativas /\ DaEspera' = DaEspera
    BY <2>1 DEF DasTentativas, DaEspera, PorTentativa, PorConsulta
  <2>4. DasDevidas' = DasDevidas - 2
    BY <2>1 DEF DasDevidas, Peso, PorTentativa, PorConsulta
  <2>5. DasJanelas' <= DasJanelas + 1
    BY <2>1 DEF DasJanelas, Peso
  <2> QED
    BY <2>2, <2>3, <2>4, <2>5 DEF Resta
<1>3. CASE showValsCmd2
  <2>1. /\ UNCHANGED <<g_cntTentativaInfo, g_wait_win, consultas, devidas>>
        /\ janela["cmd"] = "carregando"
    BY <1>3 DEF showValsCmd2, tentativa, pedidos
  <2>2. /\ janela'["cmd"] # "carregando"
        /\ janela'["info"] = "carregando" => janela["info"] = "carregando"
    BY <1>3, FechaAlvoTipo DEF showValsCmd2, FechaAlvo, TypeOK, Janelas
  <2>3. Finitas' /\ DasConsultas' = DasConsultas
    BY <2>1, MesmasConsultas
  <2>4. DasTentativas' = DasTentativas /\ DaEspera' = DaEspera /\ DasDevidas' = DasDevidas
    BY <2>1 DEF DasTentativas, DaEspera, DasDevidas, PorTentativa, PorConsulta
  <2>5. DasJanelas' < DasJanelas
    BY <2>1, <2>2 DEF DasJanelas, Peso
  <2> QED
    BY <2>3, <2>4, <2>5 DEF Resta
<1> QED
  BY <1>1, <1>2, <1>3

(* The other steps of the viewer start nothing; only the operator does.     *)
LEMMA RestaQuieta ==
  ASSUME TypeOK, TypeOK', Finitas,
         \/ Destrava \/ FechaSeNaoAbre \/ FechaDepois \/ Perde \/ drawSVG
         \/ \E p \in Pontos : RespondeEscrita(p)
         \/ \E w \in Janelas : testOpener(w)
         \/ UNCHANGED vars
  PROVE  Finitas' /\ Resta' <= Resta
<1> USE PartesTipo, PartesTipoDepois, Pesos
<1>1. UNCHANGED <<g_cntTentativaInfo, g_wait_win, devidas>>
  BY DEF Destrava, FechaSeNaoAbre, FechaDepois, Perde, drawSVG, RespondeEscrita, testOpener,
     vars, tentativa
<1>2. DasTentativas' = DasTentativas /\ DaEspera' = DaEspera /\ DasDevidas' = DasDevidas
  BY <1>1 DEF DasTentativas, DaEspera, DasDevidas, PorTentativa, PorConsulta
<1>3. Finitas' /\ DasConsultas' <= DasConsultas
  <2>1. CASE UNCHANGED consultas
    <3>1. Finitas' /\ DasConsultas' = DasConsultas
      BY <2>1, MesmasConsultas
    <3> QED
      BY <3>1
  <2>2. CASE \E c \in consultas : consultas' = consultas \ {c}
    <3>1. PICK c \in consultas : consultas' = consultas \ {c}
      BY <2>2
    <3>2. Finitas' /\ DasConsultas' = DasConsultas - PorConsulta
      BY <3>1, MenosUma
    <3> QED
      BY <3>2
  <2>3. UNCHANGED consultas \/ \E c \in consultas : consultas' = consultas \ {c}
    BY DEF Destrava, FechaSeNaoAbre, FechaDepois, Perde, drawSVG, RespondeEscrita, testOpener,
       vars, pedidos
  <2> QED
    BY <2>1, <2>2, <2>3
<1>4. DasJanelas' <= DasJanelas
  <2>1. CASE UNCHANGED janela
    BY <2>1 DEF DasJanelas
  <2>2. CASE janela' = FechaAlvo
    BY <2>2, FechandoAlvo
  <2>3. ASSUME NEW w \in Janelas, testOpener(w) PROVE DasJanelas' <= DasJanelas
    BY <2>3 DEF testOpener, TypeOK, DasJanelas, Peso, Janelas
  <2>4. UNCHANGED janela \/ janela' = FechaAlvo \/ \E w \in Janelas : testOpener(w)
    BY DEF Destrava, FechaSeNaoAbre, FechaDepois, Perde, drawSVG, RespondeEscrita, vars, telas
  <2> QED
    BY <2>1, <2>2, <2>3, <2>4
<1> QED
  BY <1>2, <1>3, <1>4 DEF Resta

LEMMA OperadorFinito ==
  ASSUME TypeOK, Finitas, Operador
  PROVE  Finitas'
<1>1. CASE UNCHANGED consultas
  BY <1>1, MesmasConsultas
<1>2. ASSUME NEW limpa \in BOOLEAN, prejanelaComando(limpa) PROVE Finitas'
  <2>1. consultas' = consultas \union Pergunta("cmd", NPTO)
    BY <1>2 DEF prejanelaComando
  <2> QED
    BY <2>1, MaisUma DEF Janelas
<1>3. UNCHANGED consultas \/ \E limpa \in BOOLEAN : prejanelaComando(limpa)
  BY DEF Operador, janelaInfo, Abre, AbreOutroVisor, executaComando, writeValor, Fecha, pedidos
<1> QED
  BY <1>1, <1>2, <1>3

LEMMA RestaDoPasso ==
  ASSUME TypeOK, TypeOK', Finitas, [Next]_vars
  PROVE  Finitas' /\ (Operador \/ (Resta' <= Resta /\ (Repete => Resta' < Resta)))
<1> USE PartesTipo, PartesTipoDepois
<1>1. CASE Operador
  BY <1>1, OperadorFinito
<1>2. CASE Repete
  <2>1. Finitas' /\ Resta' < Resta
    BY <1>2, RestaInfo, RestaJanelaInfo, RestaCmd DEF Repete
  <2>2. Resta \in Nat /\ Resta' \in Nat
    BY <2>1 DEF Resta
  <2> QED
    BY <2>1, <2>2
<1>3. CASE ~Operador /\ ~Repete
  <2>1. Finitas' /\ Resta' <= Resta
    BY <1>3, RestaQuieta DEF Next, Temporiza, Responde, Repete
  <2> QED
    BY <1>3, <2>1
<1> QED
  BY <1>1, <1>2, <1>3

(* What is due is a finite measure that only the operator raises.           *)
SoOperadorAumenta ==
  /\ Resta \in Nat
  /\ Operador \/ (Resta' <= Resta /\ (Repete => Resta' < Resta))

RepeticaoLimitada == [][SoOperadorAumenta]_vars

(* The viewer reopens a dialog by itself a bounded number of times: between *)
(* two clicks, each request made or answered, window loaded, wait or retry  *)
(* takes from a natural number that no other step raises.                   *)
THEOREM RepeticaoSempreLimitada == Spec => RepeticaoLimitada
<1>1. Init => Finitas
  BY FS_EmptySet DEF Init, Finitas
<1>2. IInv /\ Finitas /\ [Next]_vars => Finitas'
  BY InvPasso, RestaDoPasso DEF IInv
<1>3. IInv /\ Finitas /\ [Next]_vars => SoOperadorAumenta
  <2> SUFFICES ASSUME IInv, Finitas, [Next]_vars
               PROVE  SoOperadorAumenta
    OBVIOUS
  <2>1. TypeOK /\ TypeOK'
    BY InvPasso DEF IInv
  <2>2. Resta \in Nat
    BY <2>1, PartesTipo DEF Resta
  <2> QED
    BY <2>1, <2>2, RestaDoPasso DEF SoOperadorAumenta
<1> QED
  BY <1>1, <1>2, <1>3, InvInicio, InvPasso, PTL DEF Spec, RepeticaoLimitada
=============================================================================
