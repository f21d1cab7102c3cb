-------------------------- MODULE DesenhoTela_proofs --------------------------
(* Proofs about DesenhoTela.                                                *)
EXTENDS DesenhoTela, TLAPS

(***************************************************************************)
(* The inductive invariant.  Of the memory: the hashes of the two types    *)
(* are of the same kind of answer; if they are of real time, every point   *)
(* has a value, none is of the historian and the alarms are those of the   *)
(* answer; after a failure there is no hash.                               *)
(***************************************************************************)
Ruins == {"nada", "zerado", "falho"}
Vivo(s) == \A t \in Tipos : s[t] \in Versoes

DadosBem(m, a, s, f) ==
  /\ (\E t \in Tipos : s[t] \in Versoes) => Vivo(s)
  /\ Vivo(s) => \A p \in Pontos : /\ m[p] \notin Datas /\ m[p] # "nada"
                                  /\ p \in a <=> p \in Alarma[s[Tipo(p)]]
  /\ f => (\A p \in Pontos : m[p] \in Ruins) /\ (\A t \in Tipos : s[t] = "vazio")

(* Of the drawing: the same, for the hashes it was drawn with; no object    *)
(* that may not blink is in a list.                                         *)
Listas ==
  /\ (\E t \in Tipos : g_sha1ant[t] \in Versoes) => Vivo(g_sha1ant)
  /\ Vivo(g_sha1ant) => \A p \in Pontos :
       /\ tela[p] \notin Datas
       /\ p \in g_blinkList <=> p \in Alarma[g_sha1ant[Tipo(p)]] /\ p \notin proibidos

Apagados ==
  /\ \A p \in proibidos : p \notin g_blinkList /\ p \notin g_blinkListOld
  /\ EscondidoNaoPisca

(* Of both.                                                                 *)
Juntos ==
  /\ ~quadro => g_sha1ant = Sha1
  /\ \A p \in Pontos : memoria[p] = "nada" => tela[p] = "nada"
  /\ FalhaVisivel

IInv ==
  /\ TypeOK /\ DadosBem(memoria, alarmes, Sha1, falhou)
  /\ Listas /\ Apagados /\ MeiaLembrada /\ Juntos

LEMMA TipoEm == \A p \in Pontos : Tipo(p) \in Tipos
BY DEF Tipo, Tipos

LEMMA SemNada ==
  /\ "vazio" \notin Versoes /\ "vazio" \notin Datas
  /\ "nada" \notin Datas /\ "zerado" \notin Datas /\ "falho" \notin Datas
  /\ "nada" \notin Versoes /\ "zerado" \notin Versoes /\ "falho" \notin Versoes
  /\ \A v \in Versoes : v \notin Datas
BY HashAssumption

LEMMA InitIInv == Init => IInv
<1> SUFFICES ASSUME Init PROVE IInv
  OBVIOUS
<1>1. TypeOK
  BY DEF Init, TypeOK, Valores, Hashes
<1>2. \A t \in Tipos : Sha1[t] = "vazio" /\ g_sha1ant[t] = "vazio"
  BY DEF Init
<1>3. DadosBem(memoria, alarmes, Sha1, falhou)
  BY <1>2, SemNada DEF Init, DadosBem, Vivo, Tipos
<1>4. Listas
  BY <1>2, SemNada DEF Listas, Vivo, Tipos
<1>5. Apagados /\ MeiaLembrada
  BY DEF Init, Apagados, EscondidoNaoPisca, MeiaLembrada
<1>6. Juntos
  BY DEF Init, Juntos, FalhaVisivel
<1> QED
  BY <1>1, <1>3, <1>4, <1>5, <1>6 DEF IInv

(***************************************************************************)
(* A drawing of values that are right leaves the drawing right.            *)
(***************************************************************************)
TiposDesenho ==
  /\ tela \in [Pontos -> Valores] /\ g_sha1ant \in [Tipos -> Hashes] /\ par \in BOOLEAN
  /\ g_blinkList \in SUBSET Pontos /\ g_blinkListOld \in SUBSET Pontos
  /\ proibidos \in SUBSET Opacos
  /\ opacidade \in [Pontos -> {"apagada", "meia", "cheia"}]

LEMMA Desenha ==
  ASSUME NEW m \in [Pontos -> Valores], NEW a \in SUBSET Pontos, NEW l, NEW s \in [Tipos -> Hashes],
         NEW f \in BOOLEAN, DadosBem(m, a, s, f), TiposDesenho, Listas, Apagados, MeiaLembrada,
         \A p \in Pontos : m[p] = "nada" => tela[p] = "nada",
         drawSVG(m, a, l, s)
  PROVE  /\ TiposDesenho' /\ Listas' /\ Apagados' /\ MeiaLembrada'
         /\ g_sha1ant' = s
         /\ \A p \in Pontos : m[p] = "nada" => tela'[p] = "nada"
         /\ f => \A p \in Pontos : tela'[p] \in Ruins
<1> DEFINE definidos == {p \in Pontos : m[p] # "nada"}
           proibe == naoPisca(l) \intersect definidos
           E == Esvazia(s)
<1>1. g_sha1ant' = s /\ par' = TRUE
  BY DEF drawSVG
<1>2. CASE \E t \in Tipos : Mudou(s, t)
  <2>1. /\ tela' = [p \in Pontos |-> IF p \in definidos THEN m[p] ELSE tela[p]]
        /\ proibidos' = (proibidos \ definidos) \union proibe
        /\ g_blinkList' = ((g_blinkList \ E) \ proibe) \union {p \in a \ proibe : m[p] # "nada"}
        /\ g_blinkListOld' = g_blinkListOld \ proibe
        /\ opacidade' = [p \in Pontos |->
             IF p \notin Opacos \intersect definidos THEN opacidade[p]
             ELSE IF p \in l THEN "cheia" ELSE "apagada"]
    BY <1>2 DEF drawSVG, blinkSeAlarmado, Retira
  <2>2. proibe \subseteq Opacos /\ proibe \subseteq definidos /\ definidos \subseteq Pontos
    BY DEF naoPisca
  <2>3. \A p \in proibe : p \in Digitais => p \notin l
    BY DEF naoPisca
  <2>4. E \subseteq Pontos
    BY DEF Esvazia
  <2>5. TiposDesenho'
    <3>1. tela' \in [Pontos -> Valores]
      BY <2>1 DEF TiposDesenho
    <3>2. opacidade' \in [Pontos -> {"apagada", "meia", "cheia"}]
      BY <2>1 DEF TiposDesenho
    <3>3. g_blinkList' \in SUBSET Pontos /\ g_blinkListOld' \in SUBSET Pontos
      BY <2>1 DEF TiposDesenho
    <3>4. proibidos' \in SUBSET Opacos
      BY <2>1, <2>2 DEF TiposDesenho
    <3> QED
      BY <1>1, <3>1, <3>2, <3>3, <3>4 DEF TiposDesenho
  <2>6. \A p \in Pontos : m[p] = "nada" => tela'[p] = "nada"
    BY <2>1
  <2>7. f => \A p \in Pontos : tela'[p] \in Ruins
    <3>1. \A p \in Pontos : tela'[p] = IF m[p] # "nada" THEN m[p] ELSE tela[p]
      BY <2>1
    <3> QED
      BY <3>1 DEF DadosBem, Ruins
  <2>8. Listas'
    <3>1. (\E t \in Tipos : g_sha1ant'[t] \in Versoes) => Vivo(g_sha1ant')
      BY <1>1 DEF DadosBem
    <3>2. ASSUME Vivo(s), NEW p \in Pontos
          PROVE  /\ tela'[p] \notin Datas
                 /\ p \in g_blinkList' <=> p \in Alarma[s[Tipo(p)]] /\ p \notin proibidos'
      <4>1. m[p] \notin Datas /\ m[p] # "nada" /\ (p \in a <=> p \in Alarma[s[Tipo(p)]])
        BY <3>2 DEF DadosBem
      <4>2. tela'[p] = m[p] /\ (p \in proibidos' <=> p \in proibe)
        BY <2>1, <4>1
      <4>3. p \notin E /\ p \in g_blinkList => p \in Alarma[s[Tipo(p)]]
        <5> SUFFICES ASSUME p \notin E, p \in g_blinkList PROVE p \in Alarma[s[Tipo(p)]]
          OBVIOUS
        <5>1. Tipo(p) \in Tipos /\ g_sha1ant[Tipo(p)] = s[Tipo(p)]
          BY TipoEm DEF Esvazia, Mudou
        <5>2. Vivo(g_sha1ant)
          BY <3>2, <5>1 DEF Listas, Vivo
        <5> QED
          BY <5>1, <5>2 DEF Listas
      <4> HIDE DEF E, proibe
      <4>4. p \in g_blinkList' <=> p \notin proibe /\ ((p \in g_blinkList /\ p \notin E) \/ p \in a)
        BY <2>1, <4>1
      <4> QED
        BY <4>1, <4>2, <4>3, <4>4
    <3>3. Vivo(g_sha1ant') => \A p \in Pontos :
             /\ tela'[p] \notin Datas
             /\ p \in g_blinkList' <=> p \in Alarma[g_sha1ant'[Tipo(p)]] /\ p \notin proibidos'
      BY <1>1, <3>2
    <3> QED
      BY <3>1, <3>3 DEF Listas, Vivo
  <2>9. Apagados'
    <3>1. \A p \in proibidos' : p \notin g_blinkList' /\ p \notin g_blinkListOld'
      <4> HIDE DEF E, proibe
      <4> QED
        BY <2>1, <2>2, <2>4 DEF Apagados, TiposDesenho
    <3>2. \A p \in proibidos' \intersect Digitais : opacidade'[p] = "apagada"
      <4> SUFFICES ASSUME NEW p \in proibidos', p \in Digitais PROVE opacidade'[p] = "apagada"
        OBVIOUS
      <4>1. p \in Pontos
        BY DEF Pontos
      <4>2. CASE p \in proibe
        <5>1. p \in Opacos /\ p \in definidos /\ p \notin l
          BY <2>2, <2>3, <4>2
        <5> QED
          BY <2>1, <4>1, <5>1
      <4>3. CASE p \notin proibe
        <5>1. p \in proibidos /\ p \notin definidos
          BY <2>1, <4>3
        <5>2. opacidade[p] = "apagada"
          BY <5>1 DEF Apagados, EscondidoNaoPisca
        <5> QED
          BY <2>1, <4>1, <5>1, <5>2
      <4> QED
        BY <4>2, <4>3
    <3> QED
      BY <3>1, <3>2 DEF Apagados, EscondidoNaoPisca
  <2>10. MeiaLembrada'
    <3> SUFFICES ASSUME NEW p \in Pontos, opacidade'[p] = "meia" PROVE p \in g_blinkListOld'
      BY <1>1 DEF MeiaLembrada
    <3>1. p \notin Opacos \intersect definidos /\ opacidade[p] = "meia"
      BY <2>1
    <3>2. p \notin proibe /\ p \in g_blinkListOld
      BY <2>2, <3>1 DEF MeiaLembrada
    <3> QED
      BY <2>1, <3>2
  <2> HIDE DEF definidos, proibe, E
  <2> QED
    BY <1>1, <2>5, <2>6, <2>7, <2>8, <2>9, <2>10
<1>3. CASE ~\E t \in Tipos : Mudou(s, t)
  <2>1. UNCHANGED <<tela, proibidos, g_blinkList, g_blinkListOld, opacidade>>
    BY <1>3 DEF drawSVG
  <2>2. \A t \in Tipos : g_sha1ant[t] = s[t] /\ s[t] # "vazio"
    BY <1>3 DEF Mudou
  <2>3. g_sha1ant' = g_sha1ant
    BY <1>1, <2>2 DEF TiposDesenho
  <2>4. TiposDesenho' /\ Listas' /\ Apagados' /\ MeiaLembrada'
    BY <1>1, <2>1, <2>3 DEF TiposDesenho, Listas, Apagados, EscondidoNaoPisca, MeiaLembrada
  <2>5. ~f
    BY <2>2 DEF DadosBem, Tipos
  <2> QED
    BY <1>1, <2>1, <2>4, <2>5
<1> QED
  BY <1>2, <1>3

(***************************************************************************)
(* The end of an answer or of falhaTudo.                                   *)
(***************************************************************************)
LEMMA Mostra ==
  ASSUME IInv, NEW m \in [Pontos -> Valores], NEW a \in SUBSET Pontos, NEW l \in SUBSET Pontos,
         NEW s \in [Tipos -> Hashes], falhou' \in BOOLEAN,
         DadosBem(m, a, s, falhou'),
         \A p \in Pontos : m[p] = "nada" => memoria[p] = "nada",
         showValsSVG(m, a, l, s)
  PROVE  IInv'
<1>1. memoria' = m /\ alarmes' = a /\ ligados' = l /\ Sha1' = s /\ escondida' = escondida
  BY DEF showValsSVG
<1>2. \A p \in Pontos : m[p] = "nada" => tela[p] = "nada"
  BY DEF IInv, Juntos
<1>3. TiposDesenho
  BY DEF IInv, TypeOK, TiposDesenho
<1>4. CASE escondida
  <2>1. drawSVG(m, a, l, s) /\ quadro' = quadro
    BY <1>4 DEF showValsSVG
  <2>2. /\ TiposDesenho' /\ Listas' /\ Apagados' /\ MeiaLembrada'
        /\ g_sha1ant' = s
        /\ \A p \in Pontos : m[p] = "nada" => tela'[p] = "nada"
        /\ falhou' => \A p \in Pontos : tela'[p] \in Ruins
    BY <1>2, <1>3, <2>1, Desenha DEF IInv
  <2>3. TypeOK'
    BY <1>1, <2>1, <2>2 DEF TypeOK, TiposDesenho, IInv
  <2>4. Juntos'
    BY <1>1, <2>2 DEF Juntos, FalhaVisivel, Ruins
  <2> QED
    BY <1>1, <2>2, <2>3, <2>4 DEF IInv
<1>5. CASE ~escondida
  <2>1. quadro' = TRUE
    BY <1>5 DEF showValsSVG
  <2>2. UNCHANGED desenho
    BY <1>5 DEF showValsSVG
  <2>3. TypeOK'
    BY <1>1, <2>1, <2>2 DEF TypeOK, desenho, IInv
  <2>4. Listas' /\ Apagados' /\ MeiaLembrada'
    BY <2>2 DEF IInv, Listas, Apagados, EscondidoNaoPisca, MeiaLembrada, desenho
  <2>5. Juntos'
    BY <1>1, <1>2, <2>1, <2>2 DEF Juntos, FalhaVisivel, desenho
  <2> QED
    BY <1>1, <2>3, <2>4, <2>5 DEF IInv
<1> QED
  BY <1>4, <1>5

LEMMA PassoVivos == ASSUME IInv, NEW s \in [Tipos -> Versoes], RespondeVivos(s) PROVE IInv'
<1> DEFINE m == [p \in Pontos |-> s[Tipo(p)]]
           a == {p \in Pontos : p \in Alarma[s[Tipo(p)]]}
           l == {p \in Pontos : p \in Liga[s[Tipo(p)]]}
<1>1. falhou' = FALSE /\ showValsSVG(m, a, l, s)
  BY DEF RespondeVivos
<1>2. \A p \in Pontos : m[p] \in Versoes
  BY TipoEm
<1>3. m \in [Pontos -> Valores]
  BY <1>2 DEF Valores
<1>4. s \in [Tipos -> Hashes]
  BY DEF Hashes
<1>5. DadosBem(m, a, s, falhou')
  <2>1. \A p \in Pontos : m[p] \notin Datas /\ m[p] # "nada"
    BY <1>2, SemNada
  <2>2. \A p \in Pontos : p \in a <=> p \in Alarma[s[Tipo(p)]]
    OBVIOUS
  <2> HIDE DEF m, a
  <2> QED
    BY <1>1, <2>1, <2>2 DEF DadosBem, Vivo
<1>6. \A p \in Pontos : m[p] # "nada"
  BY <1>2, SemNada
<1>7. a \in SUBSET Pontos /\ l \in SUBSET Pontos
  OBVIOUS
<1> HIDE DEF m, a, l
<1> QED
  BY <1>1, <1>3, <1>4, <1>5, <1>6, <1>7, Mostra

LEMMA PassoHistorico == ASSUME IInv, NEW d \in Datas, RespondeHistorico(d) PROVE IInv'
<1> DEFINE m == [p \in Pontos |-> IF p \in Historico[d] THEN d ELSE memoria[p]]
           a == DoHistorico(d, alarmes, Alarma[d])
           l == DoHistorico(d, ligados, Liga[d])
           s == [t \in Tipos |-> d]
<1>1. falhou' = FALSE /\ showValsSVG(m, a, l, s)
  BY DEF RespondeHistorico
<1>2. m \in [Pontos -> Valores] /\ s \in [Tipos -> Hashes]
  BY DEF IInv, TypeOK, Valores, Hashes
<1>3. d \notin Versoes /\ d # "nada"
  BY SemNada
<1>4. DadosBem(m, a, s, falhou')
  BY <1>1, <1>3 DEF DadosBem, Vivo, Tipos
<1>5. \A p \in Pontos : m[p] = "nada" => memoria[p] = "nada"
  BY <1>3
<1>6. a \in SUBSET Pontos /\ l \in SUBSET Pontos
  <2>1. Alarma[d] \subseteq Pontos /\ Liga[d] \subseteq Pontos
    BY RespostaAssumption
  <2> QED
    BY <2>1 DEF DoHistorico, IInv, TypeOK
<1> HIDE DEF m, a, l, s
<1> QED
  BY <1>1, <1>2, <1>4, <1>5, <1>6, Mostra

LEMMA PassoFalha == ASSUME IInv, falhaTudo PROVE IInv'
<1> DEFINE m == [p \in Pontos |-> IF memoria[p] \in {"nada", "zerado"} THEN memoria[p] ELSE "falho"]
           s == [t \in Tipos |-> "vazio"]
<1>1. falhou' = TRUE /\ showValsSVG(m, alarmes, ligados, s)
  BY DEF falhaTudo, SemHash
<1>2. m \in [Pontos -> Valores] /\ s \in [Tipos -> Hashes]
  BY DEF IInv, TypeOK, Valores, Hashes
<1>3. DadosBem(m, alarmes, s, falhou')
  <2>1. \A p \in Pontos : m[p] \in Ruins
    BY DEF Ruins
  <2>2. \A t \in Tipos : s[t] = "vazio" /\ s[t] \notin Versoes
    BY SemNada
  <2> HIDE DEF m, s
  <2> QED
    BY <2>1, <2>2 DEF DadosBem, Vivo, Tipos
<1>4. \A p \in Pontos : m[p] = "nada" => memoria[p] = "nada"
  OBVIOUS
<1>5. alarmes \in SUBSET Pontos /\ ligados \in SUBSET Pontos
  BY DEF IInv, TypeOK
<1> HIDE DEF m, s
<1> QED
  BY <1>1, <1>2, <1>3, <1>4, <1>5, Mostra

(* The zeros keep the hash: of the values of real time it is still said     *)
(* that none is of the historian.                                           *)
LEMMA PassoChangeDate == ASSUME IInv, changeDate PROVE IInv'
<1>1. /\ memoria' = [p \in Pontos |-> IF memoria[p] = "nada" THEN "nada" ELSE "zerado"]
      /\ ligados' = {} /\ falhou' = FALSE
      /\ UNCHANGED <<alarmes, Sha1, quadro, escondida, desenho>>
  BY DEF changeDate
<1>2. TypeOK'
  BY <1>1 DEF IInv, TypeOK, Valores, desenho
<1>3. DadosBem(memoria', alarmes', Sha1', falhou')
  <2>1. \A p \in Pontos : memoria'[p] \notin Datas /\ (memoria'[p] = "nada" <=> memoria[p] = "nada")
    BY <1>1, SemNada
  <2> QED
    BY <1>1, <2>1 DEF IInv, DadosBem
<1>4. Listas' /\ Apagados' /\ MeiaLembrada'
  BY <1>1 DEF IInv, Listas, Apagados, EscondidoNaoPisca, MeiaLembrada, desenho
<1>5. Juntos'
  BY <1>1 DEF IInv, Juntos, FalhaVisivel, desenho
<1> QED
  BY <1>2, <1>3, <1>4, <1>5 DEF IInv

LEMMA PassoQuadro == ASSUME IInv, requestAnimationFrame PROVE IInv'
<1>1. /\ drawSVG(memoria, alarmes, ligados, Sha1)
      /\ quadro' = FALSE /\ UNCHANGED <<dados, escondida>>
  BY DEF requestAnimationFrame
<1>2. TiposDesenho
  BY DEF IInv, TypeOK, TiposDesenho
<1>3. /\ memoria \in [Pontos -> Valores] /\ alarmes \in SUBSET Pontos
      /\ Sha1 \in [Tipos -> Hashes] /\ falhou \in BOOLEAN
  BY DEF IInv, TypeOK
<1>4. \A p \in Pontos : memoria[p] = "nada" => tela[p] = "nada"
  BY DEF IInv, Juntos
<1>5. /\ TiposDesenho' /\ Listas' /\ Apagados' /\ MeiaLembrada'
      /\ g_sha1ant' = Sha1
      /\ \A p \in Pontos : memoria[p] = "nada" => tela'[p] = "nada"
      /\ falhou => \A p \in Pontos : tela'[p] \in Ruins
  BY <1>1, <1>2, <1>3, <1>4, Desenha DEF IInv
<1>6. TypeOK'
  BY <1>1, <1>5 DEF IInv, TypeOK, TiposDesenho, dados
<1>7. Juntos'
  BY <1>1, <1>5 DEF Juntos, FalhaVisivel, Ruins, dados
<1>8. DadosBem(memoria', alarmes', Sha1', falhou')
  BY <1>1 DEF IInv, dados
<1> QED
  BY <1>5, <1>6, <1>7, <1>8 DEF IInv

LEMMA PassoPisca == ASSUME IInv, timerBlinkDraw PROVE IInv'
<1>1. /\ g_blinkListOld' = g_blinkList /\ par' = ~par
      /\ UNCHANGED <<dados, quadro, escondida, g_sha1ant, tela, g_blinkList, proibidos>>
  BY DEF timerBlinkDraw
<1>2. opacidade' = [p \in Pontos |->
        IF p \in g_blinkList \ proibidos THEN IF par THEN "cheia" ELSE "meia"
        ELSE IF par /\ p \in Apagam THEN "cheia" ELSE opacidade[p]]
  BY DEF timerBlinkDraw
<1>3. TypeOK'
  <2>1. opacidade' \in [Pontos -> {"apagada", "meia", "cheia"}]
    BY <1>2 DEF IInv, TypeOK
  <2>2. par' \in BOOLEAN
    BY <1>1
  <2> QED
    BY <1>1, <2>1, <2>2 DEF IInv, TypeOK, dados
<1>4. Listas'
  BY <1>1 DEF IInv, Listas
<1>5. Apagados'
  <2>1. \A p \in proibidos' : p \notin g_blinkList' /\ p \notin g_blinkListOld'
    BY <1>1 DEF IInv, Apagados
  <2>2. \A p \in proibidos \intersect Digitais : p \in Pontos /\ p \notin g_blinkList /\ p \notin Apagam
    BY DEF IInv, Apagados, Apagam, Pontos
  <2>3. \A p \in proibidos \intersect Digitais : opacidade'[p] = opacidade[p]
    BY <1>2, <2>2
  <2> QED
    BY <1>1, <2>1, <2>3 DEF IInv, Apagados, EscondidoNaoPisca
<1>6. MeiaLembrada'
  <2> SUFFICES ASSUME NEW p \in Pontos, opacidade'[p] = "meia"
               PROVE  p \in g_blinkList /\ ~par
    BY <1>1 DEF MeiaLembrada
  <2>1. CASE p \in g_blinkList \ proibidos
    BY <1>2, <2>1
  <2>2. CASE p \notin g_blinkList \ proibidos
    <3>1. opacidade[p] = "meia" /\ ~(par /\ p \in Apagam)
      BY <1>2, <2>2
    <3>2. p \in g_blinkListOld /\ par
      BY <3>1 DEF IInv, MeiaLembrada
    <3>3. p \in g_blinkList
      BY <3>1, <3>2 DEF Apagam
    <3>4. p \in proibidos
      BY <2>2, <3>3
    <3> QED
      BY <3>3, <3>4 DEF IInv, Apagados
  <2> QED
    BY <2>1, <2>2
<1>7. Juntos' /\ DadosBem(memoria', alarmes', Sha1', falhou')
  BY <1>1 DEF IInv, Juntos, FalhaVisivel, dados
<1> QED
  BY <1>3, <1>4, <1>5, <1>6, <1>7 DEF IInv

LEMMA PassoParado == ASSUME IInv, visibilitychange \/ UNCHANGED vars PROVE IInv'
<1>1. UNCHANGED <<dados, quadro, desenho>> /\ escondida' \in BOOLEAN
  BY DEF visibilitychange, vars, IInv, TypeOK
<1>2. TypeOK'
  BY <1>1 DEF IInv, TypeOK, dados, desenho
<1>3. Listas' /\ Apagados' /\ MeiaLembrada'
  BY <1>1 DEF IInv, Listas, Apagados, EscondidoNaoPisca, MeiaLembrada, desenho
<1>4. Juntos' /\ DadosBem(memoria', alarmes', Sha1', falhou')
  BY <1>1 DEF IInv, Juntos, FalhaVisivel, dados, desenho
<1> QED
  BY <1>2, <1>3, <1>4 DEF IInv
-----------------------------------------------------------------------------
(* The inductive invariant always holds.                                    *)
THEOREM Invariante == Spec => []IInv
<1>1. IInv /\ [Next]_vars => IInv'
  BY PassoVivos, PassoHistorico, PassoFalha, PassoChangeDate, PassoQuadro, PassoPisca, PassoParado
     DEF Next
<1> QED
  BY <1>1, InitIInv, PTL DEF Spec

(* Every variable keeps its type.                                           *)
THEOREM TipoCorreto == Spec => []TypeOK
BY Invariante, PTL DEF IInv

(* A declared failure shows on every point of any screen.                   *)
THEOREM FalhaAparece == Spec => []FalhaVisivel
<1>1. IInv => FalhaVisivel
  BY DEF IInv, Juntos
<1> QED
  BY <1>1, Invariante, PTL

(* No value of the past is left on a screen of real time, whatever points   *)
(* the historian has.                                                       *)
THEOREM PassadoSai == Spec => []HistoricoSai
<1>1. IInv => HistoricoSai
  BY DEF IInv, Listas, Juntos, HistoricoSai, Vivo
<1> QED
  BY <1>1, Invariante, PTL

(* Blinking shows no object hidden by its value.                            *)
THEOREM PiscaSemMostrar == Spec => []EscondidoNaoPisca
<1>1. IInv => EscondidoNaoPisca
  BY DEF IInv, Apagados
<1> QED
  BY <1>1, Invariante, PTL

(* No object is forgotten at half opacity.                                  *)
THEOREM MeiaNaoFica == Spec => []MeiaLembrada
BY Invariante, PTL DEF IInv

(* What blinks on a screen of real time is what is in alarm.                *)
THEOREM PiscaSoAlarme == Spec => []AlarmesPiscam
<1>1. IInv => AlarmesPiscam
  <2> SUFFICES ASSUME IInv, Vivo(Sha1), ~quadro PROVE g_blinkList = alarmes \ proibidos
    BY DEF AlarmesPiscam, Vivo
  <2>1. g_sha1ant = Sha1
    BY DEF IInv, Juntos
  <2>2. \A p \in Pontos : p \in g_blinkList <=> p \in Alarma[Sha1[Tipo(p)]] /\ p \notin proibidos
    BY <2>1 DEF IInv, Listas
  <2>3. \A p \in Pontos : p \in alarmes <=> p \in Alarma[Sha1[Tipo(p)]]
    BY DEF IInv, DadosBem
  <2>4. g_blinkList \subseteq Pontos /\ alarmes \subseteq Pontos
    BY DEF IInv, TypeOK
  <2>5. \A p : p \in g_blinkList <=> p \in alarmes \ proibidos
    BY <2>2, <2>3, <2>4
  <2> QED
    BY ONLY <2>5, Zenon
<1> QED
  BY <1>1, Invariante, PTL
=============================================================================
