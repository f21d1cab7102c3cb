------------------------------ MODULE DesenhoTela ------------------------------
(***************************************************************************)
(* What the answers of the servers do to the drawing (websage.js).  The    *)
(* values go to the memory of the page; the drawing is brought up to date  *)
(* in the next animation frame, and only if the hashes of the values say   *)
(* that something changed.  A timer makes the objects of alarmed points    *)
(* blink.                                                                  *)
(*                                                                         *)
(* VisorTelas says when answers, failures and clicks may happen; here they *)
(* happen in any order.  A page that is hidden gets no animation frames.   *)
(* A value is stood for by the hash it came with.                          *)
(***************************************************************************)
EXTENDS Integers, FiniteSets

CONSTANTS
  Digitais, Analogicos, \* points of the screen, each with one object
  Opacos,      \* points whose object takes its opacity from the value
  Versoes,     \* hashes of answers of real time
  Datas,       \* hashes of answers of the historian: the date asked for
  Alarma,      \* Alarma[v]: the points in alarm in the answer v
  Liga,        \* Liga[v]: the points that are ON (opacity 1) in the answer v
  Historico    \* Historico[d]: the points the historian has before d

Pontos == Digitais \union Analogicos

ASSUME PontosAssumption == Digitais \intersect Analogicos = {} /\ Opacos \subseteq Pontos
ASSUME HashAssumption ==
  /\ Versoes \intersect Datas = {}
  /\ (Versoes \union Datas) \intersect {"vazio", "nada", "zerado", "falho"} = {}
ASSUME RespostaAssumption ==
  /\ Alarma \in [Versoes \union Datas -> SUBSET Pontos]
  /\ Liga \in [Versoes \union Datas -> SUBSET Pontos]
  /\ Historico \in [Datas -> SUBSET Pontos]

Tipos == {"dig", "ana"}
Tipo(p) == IF p \in Digitais THEN "dig" ELSE "ana"
\* "vazio": no hash
Hashes == Versoes \union Datas \union {"vazio"}
Valores == Versoes \union Datas \union {"nada", "zerado", "falho"}

VARIABLES
  memoria,     \* V: the answer each value came with, or what was done to it
  alarmes,     \* F, bit 0x100
  ligados,     \* V # 0, for the objects in Opacos
  Sha1,        \* Sha1Dig, Sha1Ana
  g_sha1ant,   \* g_sha1ant_dig, g_sha1ant_ana
  quadro,      \* drawSVG was asked for in the next animation frame
  escondida,   \* document.hidden
  tela,        \* the values drawn
  g_blinkList, \* g_blinkList and g_blinkListAna
  g_blinkListOld, \* g_blinkListOld and g_blinkListAnaOld
  proibidos,   \* objects with allowblink = false
  par,         \* g_blinkcnt is even
  opacidade    \* style.opacity: "apagada" (0), "meia" (1/2), "cheia" (1)

VARIABLE falhou   \* history: falhaTudo was the last to write the values

dados == <<memoria, alarmes, ligados, Sha1, falhou>>
desenho == <<g_sha1ant, tela, g_blinkList, g_blinkListOld, proibidos, par, opacidade>>
vars == <<dados, quadro, escondida, desenho>>

Init ==
  /\ memoria = [p \in Pontos |-> "nada"]
  /\ alarmes = {} /\ ligados = {} /\ falhou = FALSE
  /\ Sha1 = [t \in Tipos |-> "vazio"] /\ g_sha1ant = [t \in Tipos |-> "vazio"]
  /\ quadro = FALSE /\ escondida \in BOOLEAN
  /\ tela = [p \in Pontos |-> "nada"]
  /\ g_blinkList = {} /\ g_blinkListOld = {} /\ proibidos = {}
  /\ par = TRUE
  /\ opacidade = [p \in Pontos |-> "cheia"]

(***************************************************************************)
(* drawSVG, with the values of the memory.  An object that takes its       *)
(* opacity from the value may blink only if it is of a digital point and   *)
(* the opacity is 1; if not, it leaves both lists (blinkSeAlarmado).       *)
(***************************************************************************)
MutanteMudou(s, t) == g_sha1ant[t] = "vazio"
Mudou(s, t) == g_sha1ant[t] = "vazio" \/ g_sha1ant[t] # s[t]

naoPisca(l) == Opacos \ (Digitais \intersect l)

blinkSeAlarmado(m, a, proibe, lista) ==
  (lista \ proibe) \union {p \in a \ proibe : m[p] # "nada"}

MutanteRetira(velha, proibe) == velha
Retira(velha, proibe) == velha \ proibe

MutanteEsvazia(s) == {}
Esvazia(s) == {p \in Pontos : Mudou(s, Tipo(p))}

drawSVG(m, a, l, s) ==
  LET definidos == {p \in Pontos : m[p] # "nada"}
      proibe == naoPisca(l) \intersect definidos
  IN
  /\ g_sha1ant' = s
  /\ par' = TRUE
  /\ IF \E t \in Tipos : Mudou(s, t)
     THEN /\ tela' = [p \in Pontos |-> IF p \in definidos THEN m[p] ELSE tela[p]]
          /\ proibidos' = (proibidos \ definidos) \union proibe
          /\ g_blinkList' = blinkSeAlarmado(m, a, proibe, g_blinkList \ Esvazia(s))
          /\ g_blinkListOld' = Retira(g_blinkListOld, proibe)
          /\ opacidade' = [p \in Pontos |->
               IF p \notin Opacos \intersect definidos THEN opacidade[p]
               ELSE IF p \in l THEN "cheia" ELSE "apagada"]
     ELSE UNCHANGED <<tela, proibidos, g_blinkList, g_blinkListOld, opacidade>>

(* showValsSVG, at the end of an answer or of falhaTudo: at once on a page   *)
(* that is hidden, in the next frame on one that is not.                    *)
showValsSVG(m, a, l, s) ==
  /\ memoria' = m /\ alarmes' = a /\ ligados' = l /\ Sha1' = s
  /\ IF escondida
     THEN drawSVG(m, a, l, s) /\ UNCHANGED quadro
     ELSE quadro' = TRUE /\ UNCHANGED desenho
  /\ UNCHANGED escondida

requestAnimationFrame ==
  /\ quadro /\ ~escondida
  /\ quadro' = FALSE
  /\ drawSVG(memoria, alarmes, ligados, Sha1)
  /\ UNCHANGED <<dados, escondida>>

(***************************************************************************)
(* Answers.  Real time gives all the points, each type with its hash; the  *)
(* historian gives the points it has, and its date as the hash of both.    *)
(***************************************************************************)
RespondeVivos(s) ==
  /\ falhou' = FALSE
  /\ showValsSVG([p \in Pontos |-> s[Tipo(p)]],
                 {p \in Pontos : p \in Alarma[s[Tipo(p)]]},
                 {p \in Pontos : p \in Liga[s[Tipo(p)]]}, s)

DoHistorico(d, velho, novo) == (velho \ Historico[d]) \union (novo \intersect Historico[d])

RespondeHistorico(d) ==
  /\ falhou' = FALSE
  /\ showValsSVG([p \in Pontos |-> IF p \in Historico[d] THEN d ELSE memoria[p]],
                 DoHistorico(d, alarmes, Alarma[d]),
                 DoHistorico(d, ligados, Liga[d]), [t \in Tipos |-> d])

(* falhaTudo marks the points that are known; values and alarms stay.       *)
MutanteSemHash(s) == s
SemHash(s) == [t \in Tipos |-> "vazio"]

falhaTudo ==
  /\ falhou' = TRUE
  /\ showValsSVG([p \in Pontos |-> IF memoria[p] \in {"nada", "zerado"} THEN memoria[p] ELSE "falho"],
                 alarmes, ligados, SemHash(Sha1))

(* The choice of a date puts zero in the values and marks them as failed,   *)
(* and draws nothing.                                                       *)
changeDate ==
  /\ memoria' = [p \in Pontos |-> IF memoria[p] = "nada" THEN "nada" ELSE "zerado"]
  /\ ligados' = {} /\ falhou' = FALSE
  /\ UNCHANGED <<alarmes, Sha1, quadro, escondida, desenho>>

visibilitychange ==
  /\ escondida' = ~escondida
  /\ UNCHANGED <<dados, quadro, desenho>>

(* The timer of the blinking, which also runs in an animation frame.        *)
MutanteApagam == {}
Apagam == {p \in g_blinkListOld : p \notin g_blinkList}

timerBlinkDraw ==
  /\ ~escondida
  /\ opacidade' = [p \in Pontos |->
       IF p \in g_blinkList \ proibidos THEN IF par THEN "cheia" ELSE "meia"
       ELSE IF par /\ p \in Apagam THEN "cheia"
       ELSE opacidade[p]]
  /\ g_blinkListOld' = g_blinkList
  /\ par' = ~par
  /\ UNCHANGED <<dados, quadro, escondida, g_sha1ant, tela, g_blinkList, proibidos>>

Next ==
  \/ \E s \in [Tipos -> Versoes] : RespondeVivos(s)
  \/ \E d \in Datas : RespondeHistorico(d)
  \/ falhaTudo \/ changeDate
  \/ requestAnimationFrame \/ visibilitychange \/ timerBlinkDraw

Spec == Init /\ [][Next]_vars
-----------------------------------------------------------------------------
TypeOK ==
  /\ memoria \in [Pontos -> Valores] /\ tela \in [Pontos -> Valores]
  /\ alarmes \in SUBSET Pontos /\ ligados \in SUBSET Pontos
  /\ Sha1 \in [Tipos -> Hashes] /\ g_sha1ant \in [Tipos -> Hashes]
  /\ quadro \in BOOLEAN /\ escondida \in BOOLEAN /\ par \in BOOLEAN /\ falhou \in BOOLEAN
  /\ g_blinkList \in SUBSET Pontos /\ g_blinkListOld \in SUBSET Pontos
  /\ proibidos \in SUBSET Opacos
  /\ opacidade \in [Pontos -> {"apagada", "meia", "cheia"}]

(* After a failure of the server is declared and the frame is drawn, no     *)
(* value on the screen looks good: the hash of the last answer, equal to    *)
(* the one drawn, must not make drawSVG skip the redraw.                    *)
FalhaVisivel ==
  falhou /\ ~quadro => \A p \in Pontos : tela[p] \in {"nada", "zerado", "falho"}

(* After an answer of real time, once drawn, no value of the historian is   *)
(* left on the screen, also if the historian had only some of the points    *)
(* and if frames waited while the page was hidden.                          *)
HistoricoSai ==
  (\A t \in Tipos : Sha1[t] \in Versoes) /\ ~quadro => \A p \in Pontos : tela[p] \notin Datas

(* The object of a point that is OFF, whose opacity is 0, is not made       *)
(* visible by the blinking, not even by the timer that gives full opacity   *)
(* back to the objects that left the list.                                  *)
EscondidoNaoPisca ==
  \A p \in proibidos \intersect Digitais : opacidade[p] = "apagada"

(* An object at half opacity is remembered in the old list and the next     *)
(* count is even, so the next turn of the timer gives it full opacity if it *)
(* left the list: a redraw that sets the count back, between two turns,     *)
(* must not lose it.                                                        *)
MeiaLembrada ==
  \A p \in Pontos : opacidade[p] = "meia" => p \in g_blinkListOld /\ par

(* Once values of real time are drawn, the objects that blink are those of  *)
(* the points in alarm, except those that may not blink: an alarm           *)
(* acknowledged while only the hash of the other type changed, or while the *)
(* screen showed the past, leaves the list.                                 *)
AlarmesPiscam ==
  (\A t \in Tipos : Sha1[t] \in Versoes) /\ ~quadro => g_blinkList = alarmes \ proibidos
=============================================================================
