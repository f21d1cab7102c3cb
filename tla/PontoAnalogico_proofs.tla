------------------------ MODULE PontoAnalogico_proofs ------------------------
(***************************************************************************)
(* Proofs about PontoAnalogico, for any points, values, limits and         *)
(* configurations.  Every action changes each point by one of five         *)
(* operators; what holds of one point (PontoOK) is kept by each of them.   *)
(* TrocaNaFaixa is what makes SemOscilacao follow from a single step: the  *)
(* value of the last change of region is still on its side of the limits.  *)
(***************************************************************************)
EXTENDS PontoAnalogico, TLAPS

USE DEF RGLIM_NORMAL, RGLIM_ALMINF, RGLIM_ALMSUP, Regioes, Nenhum, Zerado

AlarmeDoPonto(c, t) ==
  t.naoRec => /\ t.tag # Zerado
              /\ ~t.alrIn
              /\ ~c.evento => t.regiao # RGLIM_NORMAL

EventoDoPonto(c, t) ==
  /\ c.temporizacao = 0 => t.ultimo = t.regiao /\ t.atrasado = Nenhum
  /\ t.atrasado # Nenhum => t.atrasado = t.regiao

TrocaNaFaixa(t) ==
  t.houveTroca /\ ~SemLimites(t) =>
    /\ t.regiao = RGLIM_ALMINF => t.troca < t.limInf
    /\ t.regiao = RGLIM_ALMSUP => t.troca > t.limSup
    /\ t.regiao = RGLIM_NORMAL => t.troca >= t.limInf /\ t.troca <= t.limSup

PontoOK(c, t) ==
  t \in TPonto /\ AlarmeDoPonto(c, t) /\ EventoDoPonto(c, t) /\ TrocaNaFaixa(t)

IInv ==
  /\ cad \in [Pontos -> Cadastros]
  /\ pt \in [Pontos -> TPonto]
  /\ bipando \in BOOLEAN
  /\ \A p \in Pontos : PontoOK(cad[p], pt[p])

-----------------------------------------------------------------------------
(* What the limits decide, for any region, limits and value.                *)
LEMMA RegiaoNova ==
  ASSUME NEW t \in TPonto, NEW v \in Int
  PROVE  LET rg == NovaRegiao(t, v) IN
         /\ rg \in Regioes
         /\ SemLimites(t) => rg = RGLIM_NORMAL
         /\ ~SemLimites(t) =>
              /\ rg = RGLIM_ALMINF => v < t.limInf + t.hister
              /\ rg = RGLIM_ALMSUP => v > t.limSup - t.hister
              /\ rg = RGLIM_NORMAL => /\ v >= t.limInf - t.hister
                                      /\ v <= t.limSup + t.hister
         /\ ~SemLimites(t) /\ rg # t.regiao =>
              /\ rg = RGLIM_ALMINF => v < t.limInf
              /\ rg = RGLIM_ALMSUP => v > t.limSup
              /\ rg = RGLIM_NORMAL => v >= t.limInf /\ v <= t.limSup
<1>1. /\ t.limInf \in Int /\ t.limSup \in Int /\ t.hister \in Nat
      /\ t.regiao \in 0..2
  BY DEF TPonto
<1> QED
  BY <1>1 DEF NovaRegiao, Normalizando, Subviola, Sobreviola

(* A change of region to or from the normal one is farther than the         *)
(* hysteresis from the last change.                                         *)
LEMMA TrocaLonge ==
  ASSUME NEW t \in TPonto, NEW v \in Int, TrocaNaFaixa(t),
         t.houveTroca, ~SemLimites(t), NovaRegiao(t, v) # t.regiao,
         RGLIM_NORMAL \in {t.regiao, NovaRegiao(t, v)}
  PROVE  Distancia(v, t.troca) > t.hister
<1>1. /\ t.limInf \in Int /\ t.limSup \in Int /\ t.hister \in Nat
      /\ t.regiao \in 0..2 /\ t.troca \in Int
  BY DEF TPonto
<1> QED
  BY <1>1 DEF NovaRegiao, Normalizando, Subviola, Sobreviola, TrocaNaFaixa,
              Distancia

(* A write.                                                                 *)
LEMMA EscrevePontoOK ==
  ASSUME NEW c, CadastroValido(c), NEW t, PontoOK(c, t), NEW v \in Int,
         NEW falha \in BOOLEAN, NEW espontaneo \in BOOLEAN
  PROVE  PontoOK(c, EscrevePonto(c, t, v, falha, espontaneo))
<1> DEFINE n == EscrevePonto(c, t, v, falha, espontaneo)
           rg == NovaRegiao(t, v)
           muda == MudaRegiao(t, v)
           alarma == Alarma(c, t, v, falha, espontaneo)
           normal == Normaliza(t, v)
<1>1. t \in TPonto /\ c.temporizacao \in Nat
  BY DEF PontoOK, CadastroValido
<1>2. /\ rg \in Regioes
      /\ ~SemLimites(t) /\ rg # t.regiao =>
              /\ rg = RGLIM_ALMINF => v < t.limInf
              /\ rg = RGLIM_ALMSUP => v > t.limSup
              /\ rg = RGLIM_NORMAL => v >= t.limInf /\ v <= t.limSup
  BY <1>1, RegiaoNova
<1>3. /\ n.valor = v /\ n.limInf = t.limInf /\ n.limSup = t.limSup
      /\ n.hister = t.hister /\ n.alrIn = t.alrIn
      /\ n.regiao = IF muda THEN rg ELSE t.regiao
      /\ n.naoRec = ((t.naoRec \/ alarma) /\ ~normal)
      /\ n.tag = IF normal THEN Zerado ELSE IF alarma THEN 0 ELSE t.tag
      /\ n.atrasado = IF muda THEN Postergado(c, t, v) ELSE t.atrasado
      /\ n.ultimo = IF muda /\ c.temporizacao = 0 THEN rg ELSE t.ultimo
      /\ n.troca = IF muda THEN v ELSE t.troca
      /\ n.houveTroca = (t.houveTroca \/ muda)
  BY DEF EscrevePonto
<1>4. n \in TPonto
  <2>1. Postergado(c, t, v) \in Regioes \cup {Nenhum}
    BY <1>2 DEF Postergado
  <2>2. ((t.naoRec \/ alarma) /\ ~normal) \in BOOLEAN /\ (t.houveTroca \/ muda) \in BOOLEAN
    OBVIOUS
  <2> QED
    BY <1>1, <1>2, <2>1, <2>2 DEF EscrevePonto, TPonto
<1> HIDE DEF n
<1>5. AlarmeDoPonto(c, n)
  <2>1. SUFFICES ASSUME n.naoRec
                 PROVE  n.tag # Zerado /\ ~n.alrIn /\ (~c.evento => n.regiao # RGLIM_NORMAL)
    BY DEF AlarmeDoPonto
  <2>2. (t.naoRec \/ alarma) /\ ~normal
    BY <1>3, <2>1, Zenon
  <2>3. alarma => ~t.alrIn
    BY DEF Alarma, AlarmaEvento, MudaRegiao, TestaLimites
  <2>4. t.naoRec => /\ t.tag # Zerado /\ ~t.alrIn
                    /\ ~c.evento => t.regiao # RGLIM_NORMAL
    BY DEF PontoOK, AlarmeDoPonto
  <2>5. n.tag # Zerado /\ ~n.alrIn
    BY <1>3, <2>2, <2>3, <2>4
  <2>6. ASSUME ~c.evento PROVE n.regiao # RGLIM_NORMAL
    <3>1. CASE muda
      BY <3>1, <1>3, <2>2 DEF Normaliza, MudaRegiao
    <3>2. CASE ~muda
      <4>1. ~alarma
        BY <3>2, <2>6 DEF Alarma, AlarmaEvento
      <4> QED
        BY <3>2, <4>1, <2>2, <2>4, <2>6, <1>3
    <3> QED
      BY <3>1, <3>2
  <2> QED
    BY <2>5, <2>6
<1>6. EventoDoPonto(c, n)
  <2>1. EventoDoPonto(c, t)
    BY DEF PontoOK
  <2> QED
    BY <1>1, <1>3, <2>1 DEF EventoDoPonto, Postergado
<1>7. TrocaNaFaixa(n)
  <2>1. SUFFICES ASSUME n.houveTroca, ~SemLimites(n)
                 PROVE  /\ n.regiao = RGLIM_ALMINF => n.troca < n.limInf
                        /\ n.regiao = RGLIM_ALMSUP => n.troca > n.limSup
                        /\ n.regiao = RGLIM_NORMAL => n.troca >= n.limInf /\ n.troca <= n.limSup
    BY DEF TrocaNaFaixa
  <2>2. ~SemLimites(t)
    BY <1>3, <2>1 DEF SemLimites
  <2>3. CASE muda
    <3>1. rg # t.regiao
      BY <2>3 DEF MudaRegiao
    <3> QED
      BY <1>2, <1>3, <2>2, <2>3, <3>1
  <2>4. CASE ~muda
    <3>1. t.houveTroca
      BY <1>3, <2>1, <2>4, Zenon
    <3>2. TrocaNaFaixa(t)
      BY DEF PontoOK
    <3> QED
      BY <1>3, <2>2, <2>4, <3>1, <3>2 DEF TrocaNaFaixa
  <2> QED
    BY <2>3, <2>4
<1> QED
  BY <1>4, <1>5, <1>6, <1>7 DEF PontoOK, n

(* An acknowledge.                                                          *)
LEMMA AckDoPontoOK ==
  ASSUME NEW c, NEW t, PontoOK(c, t)
  PROVE  PontoOK(c, AckDoPonto(c, t))
<1> DEFINE n == AckDoPonto(c, t)
<1>1. t \in TPonto
  BY DEF PontoOK
<1>2. n = [t EXCEPT !.naoRec = FALSE,
                    !.tag = IF TemAlarmePersistente(c, t) THEN t.tag ELSE Zerado]
  BY DEF AckDoPonto
<1>3. n \in TPonto
  BY <1>1, <1>2 DEF TPonto
<1>4. /\ ~n.naoRec /\ n.regiao = t.regiao /\ n.ultimo = t.ultimo
      /\ n.atrasado = t.atrasado /\ n.limInf = t.limInf /\ n.limSup = t.limSup
      /\ n.houveTroca = t.houveTroca /\ n.troca = t.troca
  BY <1>1, <1>2 DEF TPonto
<1> HIDE DEF n
<1>5. AlarmeDoPonto(c, n)
  BY <1>4 DEF AlarmeDoPonto
<1>6. EventoDoPonto(c, n)
  BY <1>4 DEF PontoOK, EventoDoPonto
<1>7. TrocaNaFaixa(n)
  BY <1>4 DEF PontoOK, TrocaNaFaixa, SemLimites
<1> QED
  BY <1>3, <1>5, <1>6, <1>7 DEF PontoOK, n

(* A delayed event that enters, or not.                                     *)
LEMMA EmiteAtrasadoOK ==
  ASSUME NEW c, CadastroValido(c), NEW t, PontoOK(c, t)
  PROVE  PontoOK(c, EmiteAtrasado(c, t))
<1>1. CASE ~Venceu(c, t)
  BY <1>1 DEF EmiteAtrasado
<1>2. CASE Venceu(c, t)
  <2> DEFINE n == [t EXCEPT !.ultimo = t.atrasado, !.atrasado = Nenhum]
  <2>1. /\ t \in TPonto /\ t.atrasado \in Regioes /\ c.temporizacao # 0
        /\ EmiteAtrasado(c, t) = n
    BY <1>2 DEF PontoOK, TPonto, EventoDoPonto, Venceu, EmiteAtrasado
  <2>2. n \in TPonto
    BY <2>1 DEF TPonto
  <2>3. /\ n.naoRec = t.naoRec /\ n.tag = t.tag /\ n.alrIn = t.alrIn
        /\ n.regiao = t.regiao /\ n.atrasado = Nenhum
        /\ n.limInf = t.limInf /\ n.limSup = t.limSup
        /\ n.houveTroca = t.houveTroca /\ n.troca = t.troca
    BY <2>1 DEF TPonto
  <2> HIDE DEF n
  <2>4. AlarmeDoPonto(c, n) /\ EventoDoPonto(c, n)
    BY <2>1, <2>3 DEF PontoOK, AlarmeDoPonto, EventoDoPonto
  <2>5. TrocaNaFaixa(n)
    BY <2>3 DEF PontoOK, TrocaNaFaixa, SemLimites
  <2> QED
    BY <2>1, <2>2, <2>4, <2>5 DEF PontoOK
<1> QED
  BY <1>1, <1>2

(* A tick of the clock.                                                     *)
LEMMA EnvelheceOK ==
  ASSUME NEW c, NEW t, PontoOK(c, t)
  PROVE  PontoOK(c, Envelhece(c, t))
<1>1. CASE Envelhece(c, t) = t
  BY <1>1
<1>2. CASE Envelhece(c, t) # t
  <2> DEFINE n == [t EXCEPT !.tag = t.tag + 1]
  <2>1. t \in TPonto /\ t.tag \in Nat /\ Envelhece(c, t) = n
    BY <1>2 DEF PontoOK, TPonto, Envelhece
  <2>2. n \in TPonto
    BY <2>1 DEF TPonto
  <2>3. /\ n.naoRec = t.naoRec /\ n.tag \in Nat /\ n.alrIn = t.alrIn
        /\ n.regiao = t.regiao /\ n.atrasado = t.atrasado /\ n.ultimo = t.ultimo
        /\ n.limInf = t.limInf /\ n.limSup = t.limSup
        /\ n.houveTroca = t.houveTroca /\ n.troca = t.troca
    BY <2>1 DEF TPonto
  <2> HIDE DEF n
  <2>4. AlarmeDoPonto(c, n) /\ EventoDoPonto(c, n)
    BY <2>1, <2>3 DEF PontoOK, AlarmeDoPonto, EventoDoPonto
  <2>5. TrocaNaFaixa(n)
    BY <2>3 DEF PontoOK, TrocaNaFaixa, SemLimites
  <2> QED
    BY <2>1, <2>2, <2>4, <2>5 DEF PontoOK
<1> QED
  BY <1>1, <1>2

(* The limits the operator types keep a point a point and touch nothing     *)
(* else; with no field filled they stay as they were.                       *)
LimitesNovos(t, li, ls, h) == AposHister(AposLimSup(AposLimInf(t, li), ls), h)

LEMMA LimitesNovosTipo ==
  ASSUME NEW t \in TPonto, NEW li \in Int \cup {Vazio},
         NEW ls \in Int \cup {Vazio}, NEW h \in Nat \cup {Vazio}
  PROVE  LET n == LimitesNovos(t, li, ls, h) IN
         /\ n \in TPonto
         /\ n.naoRec = t.naoRec /\ n.tag = t.tag /\ n.alrIn = t.alrIn
         /\ n.regiao = t.regiao /\ n.atrasado = t.atrasado /\ n.ultimo = t.ultimo
<1> DEFINE a == AposLimInf(t, li)
           b == AposLimSup(a, ls)
           n == AposHister(b, h)
<1>1. /\ a \in TPonto
      /\ a.naoRec = t.naoRec /\ a.tag = t.tag /\ a.alrIn = t.alrIn
      /\ a.regiao = t.regiao /\ a.atrasado = t.atrasado /\ a.ultimo = t.ultimo
  BY ExtremosAssumption, VazioAssumption DEF AposLimInf, TPonto
<1> HIDE DEF a
<1>2. /\ b \in TPonto
      /\ b.naoRec = a.naoRec /\ b.tag = a.tag /\ b.alrIn = a.alrIn
      /\ b.regiao = a.regiao /\ b.atrasado = a.atrasado /\ b.ultimo = a.ultimo
  BY <1>1, ExtremosAssumption, VazioAssumption DEF AposLimSup, TPonto
<1> HIDE DEF b
<1>3. /\ n \in TPonto
      /\ n.naoRec = b.naoRec /\ n.tag = b.tag /\ n.alrIn = b.alrIn
      /\ n.regiao = b.regiao /\ n.atrasado = b.atrasado /\ n.ultimo = b.ultimo
  BY <1>2, VazioAssumption DEF AposHister, TPonto
<1>4. LimitesNovos(t, li, ls, h) = n
  BY DEF LimitesNovos, a, b
<1> HIDE DEF n
<1> QED
  BY <1>1, <1>2, <1>3, <1>4

(* Forgetting the last change of region touches nothing else.               *)
LEMMA EsqueceTrocaTipo ==
  ASSUME NEW t \in TPonto
  PROVE  LET n == EsqueceTroca(t) IN
         /\ n \in TPonto /\ n.houveTroca = FALSE
         /\ n.naoRec = t.naoRec /\ n.tag = t.tag /\ n.alrIn = t.alrIn
         /\ n.regiao = t.regiao /\ n.atrasado = t.atrasado /\ n.ultimo = t.ultimo
         /\ n.valor = t.valor
<1> DEFINE x == [t EXCEPT !.houveTroca = FALSE]
           n == [x EXCEPT !.troca = 0]
<1>1. /\ x \in TPonto /\ x.houveTroca = FALSE
      /\ x.naoRec = t.naoRec /\ x.tag = t.tag /\ x.alrIn = t.alrIn
      /\ x.regiao = t.regiao /\ x.atrasado = t.atrasado /\ x.ultimo = t.ultimo
      /\ x.valor = t.valor
  BY DEF TPonto
<1>2. EsqueceTroca(t) = n
  BY DEF EsqueceTroca
<1> HIDE DEF x
<1>3. /\ n \in TPonto /\ n.houveTroca = FALSE
      /\ n.naoRec = x.naoRec /\ n.tag = x.tag /\ n.alrIn = x.alrIn
      /\ n.regiao = x.regiao /\ n.atrasado = x.atrasado /\ n.ultimo = x.ultimo
      /\ n.valor = x.valor
  BY <1>1 DEF TPonto
<1> HIDE DEF n
<1> QED
  BY <1>1, <1>2, <1>3

(* A request that writes the limits and the inhibition.                     *)
LEMMA WritePointOK ==
  ASSUME NEW c, NEW t, PontoOK(c, t), NEW li \in Int \cup {Vazio},
         NEW ls \in Int \cup {Vazio}, NEW h \in Nat \cup {Vazio},
         NEW inibe \in BOOLEAN
  PROVE  LET l == LimitesNovos(t, li, ls, h)
             m == {li, ls, h} # {Vazio}
         IN PontoOK(c, SetAlrIn(IF m THEN EsqueceTroca(l) ELSE l, inibe))
<1> DEFINE l == LimitesNovos(t, li, ls, h)
           m == {li, ls, h} # {Vazio}
           e == IF m THEN EsqueceTroca(l) ELSE l
           n == SetAlrIn(e, inibe)
<1>1. /\ t \in TPonto /\ l \in TPonto
      /\ l.naoRec = t.naoRec /\ l.tag = t.tag /\ l.alrIn = t.alrIn
      /\ l.regiao = t.regiao /\ l.atrasado = t.atrasado /\ l.ultimo = t.ultimo
  BY LimitesNovosTipo DEF PontoOK
<1>2. ~m => l = t
  BY DEF LimitesNovos, AposHister, AposLimSup, AposLimInf
<1> HIDE DEF l
<1>3. /\ e \in TPonto
      /\ e.naoRec = t.naoRec /\ e.tag = t.tag /\ e.alrIn = t.alrIn
      /\ e.regiao = t.regiao /\ e.atrasado = t.atrasado /\ e.ultimo = t.ultimo
      /\ e.houveTroca => e = t
  <2>1. CASE ~m
    BY <2>1, <1>1, <1>2
  <2>2. CASE m
    <3>1. e = EsqueceTroca(l)
      BY <2>2
    <3> HIDE DEF e
    <3> QED
      BY <1>1, <3>1, EsqueceTrocaTipo
  <2> QED
    BY <2>1, <2>2
<1> HIDE DEF e
<1>4. n = [e EXCEPT !.alrIn = inibe, !.naoRec = (e.naoRec /\ ~inibe)]
  BY DEF SetAlrIn
<1>5. (e.naoRec /\ ~inibe) \in BOOLEAN
  OBVIOUS
<1>6. n \in TPonto
  BY <1>3, <1>4, <1>5 DEF TPonto
<1>7. /\ n.naoRec = (e.naoRec /\ ~inibe) /\ n.tag = t.tag /\ n.alrIn = inibe
      /\ n.regiao = t.regiao /\ n.atrasado = t.atrasado /\ n.ultimo = t.ultimo
      /\ n.houveTroca = e.houveTroca
      /\ n.limInf = e.limInf /\ n.limSup = e.limSup /\ n.troca = e.troca
  BY <1>3, <1>4 DEF TPonto
<1> HIDE DEF n
<1>8. AlarmeDoPonto(c, n)
  BY <1>3, <1>7 DEF PontoOK, AlarmeDoPonto
<1>9. EventoDoPonto(c, n)
  BY <1>7 DEF PontoOK, EventoDoPonto
<1>10. TrocaNaFaixa(n)
  BY <1>3, <1>7 DEF PontoOK, TrocaNaFaixa, SemLimites
<1> QED
  BY <1>6, <1>8, <1>9, <1>10 DEF PontoOK, n, e, l

-----------------------------------------------------------------------------
(* The invariant.                                                           *)
THEOREM InitIInv == Init => IInv
<1> SUFFICES ASSUME Init PROVE IInv
  OBVIOUS
<1>1. ASSUME NEW p \in Pontos PROVE PontoOK(cad[p], pt[p])
  <2>1. cad[p] \in Cadastros /\ pt[p] \in Carregados(cad[p])
    BY DEF Init
  <2>2. cad[p].temporizacao + 1 \in Nat
    BY <2>1, CadastrosAssumption DEF CadastroValido
  <2>3. PICK v \in Valores, faixa \in Faixas,
             tag \in {Zerado, cad[p].temporizacao + 1}, inibe \in BOOLEAN :
          pt[p] = Carregado(v, faixa, tag, inibe)
    BY <2>1 DEF Carregados
  <2>4. /\ v \in Int /\ tag \in Nat \cup {Zerado}
        /\ faixa[1] \in Int /\ faixa[2] \in Int /\ faixa[3] \in Nat
    BY <2>2, ValoresAssumption, FaixasAssumption
  <2>5. pt[p] \in TPonto
    BY <2>3, <2>4 DEF Carregado, TPonto
  <2>6. /\ ~pt[p].naoRec /\ pt[p].ultimo = pt[p].regiao
        /\ pt[p].atrasado = Nenhum /\ ~pt[p].houveTroca
    BY <2>3 DEF Carregado
  <2> QED
    BY <2>5, <2>6 DEF PontoOK, AlarmeDoPonto, EventoDoPonto, TrocaNaFaixa
<1>2. pt \in [Pontos -> TPonto]
  BY <1>1 DEF Init, PontoOK
<1> QED
  BY <1>1, <1>2 DEF Init, IInv

(* A write of one point, from the field or imposed.                         *)
LEMMA EscreveIInv ==
  ASSUME IInv, NEW p \in Pontos, NEW v \in Valores, NEW falha \in BOOLEAN,
         NEW espontaneo \in BOOLEAN, Escreve(p, v, falha, espontaneo)
  PROVE  IInv'
<1> DEFINE n == EscrevePonto(cad[p], pt[p], v, falha, espontaneo)
<1>1. /\ CadastroValido(cad[p]) /\ PontoOK(cad[p], pt[p]) /\ v \in Int
      /\ pt' = [pt EXCEPT ![p] = n] /\ cad' = cad
  BY CadastrosAssumption, ValoresAssumption DEF IInv, Escreve
<1>2. PontoOK(cad[p], n)
  BY <1>1, EscrevePontoOK
<1>3. bipando' \in BOOLEAN
  BY DEF Escreve
<1> HIDE DEF n
<1> QED
  BY <1>1, <1>2, <1>3 DEF IInv, PontoOK

(* Every action preserves the invariant.                                    *)
THEOREM NextIInv == IInv /\ [Next]_vars => IInv'
<1> SUFFICES ASSUME IInv, [Next]_vars PROVE IInv'
  OBVIOUS
<1>1. ASSUME NEW p \in Pontos, NEW v \in Valores, NEW falha \in BOOLEAN,
             NEW espontaneo \in BOOLEAN, EscreveIEC(p, v, falha, espontaneo)
      PROVE  IInv'
  BY <1>1, EscreveIInv DEF EscreveIEC
<1>2. ASSUME NEW p \in Pontos, NEW v \in Valores, NEW falha \in BOOLEAN,
             ImposePoint(p, v, falha)
      PROVE  IInv'
  BY <1>2, EscreveIInv DEF ImposePoint
<1>3. CASE ProcessaTimeout
  <2>1. \A p \in Pontos : PontoOK(cad[p], EmiteAtrasado(cad[p], pt[p]))
    BY EmiteAtrasadoOK, CadastrosAssumption DEF IInv
  <2>2. /\ pt' = [p \in Pontos |-> EmiteAtrasado(cad[p], pt[p])]
        /\ bipando' \in BOOLEAN /\ cad' = cad
    BY <1>3 DEF ProcessaTimeout
  <2> QED
    BY <2>1, <2>2 DEF IInv, PontoOK
<1>4. ASSUME NEW alvo \in Pontos \cup {TODOS}, ReconheceAlarmePonto(alvo)
      PROVE  IInv'
  <2>1. \A p \in Pontos : PontoOK(cad[p], AckDoPonto(cad[p], pt[p]))
    BY AckDoPontoOK DEF IInv
  <2>2. /\ pt' = [p \in Pontos |-> IF p \in Alcance(alvo)
                                   THEN AckDoPonto(cad[p], pt[p]) ELSE pt[p]]
        /\ bipando' = bipando /\ cad' = cad
    BY <1>4 DEF ReconheceAlarmePonto
  <2>3. \A p \in Pontos : PontoOK(cad[p], pt'[p])
    BY <2>1, <2>2 DEF IInv
  <2> QED
    BY <2>2, <2>3 DEF IInv, PontoOK
<1>5. CASE SilenciaBeep
  BY <1>5 DEF SilenciaBeep, IInv
<1>6. ASSUME NEW p \in Pontos, NEW li \in Limites \cup {Vazio},
             NEW ls \in Limites \cup {Vazio}, NEW h \in Histereses \cup {Vazio},
             NEW inibe \in BOOLEAN, HandleWritePoint(p, li, ls, h, inibe)
      PROVE  IInv'
  <2> DEFINE l == LimitesNovos(pt[p], li, ls, h)
             m == {li, ls, h} # {Vazio}
             n == SetAlrIn(IF m THEN EsqueceTroca(l) ELSE l, inibe)
  <2>1. /\ PontoOK(cad[p], pt[p]) /\ li \in Int \cup {Vazio}
        /\ ls \in Int \cup {Vazio} /\ h \in Nat \cup {Vazio}
    BY PedidosAssumption DEF IInv
  <2>2. PontoOK(cad[p], n)
    BY <2>1, WritePointOK
  <2>3. pt' = [pt EXCEPT ![p] = n] /\ cad' = cad /\ bipando' = bipando
    BY <1>6 DEF HandleWritePoint, LimitesNovos
  <2> HIDE DEF n
  <2> QED
    BY <2>2, <2>3 DEF IInv, PontoOK
<1>7. CASE PassaTempo
  <2>1. \A p \in Pontos : PontoOK(cad[p], Envelhece(cad[p], pt[p]))
    BY EnvelheceOK DEF IInv
  <2>2. /\ pt' = [p \in Pontos |-> Envelhece(cad[p], pt[p])]
        /\ bipando' = bipando /\ cad' = cad
    BY <1>7 DEF PassaTempo
  <2> QED
    BY <2>1, <2>2 DEF IInv, PontoOK
<1>8. CASE UNCHANGED vars
  BY <1>8 DEF IInv, vars
<1> QED
  BY <1>1, <1>2, <1>3, <1>4, <1>5, <1>6, <1>7, <1>8 DEF Next

(* The invariant holds in every reachable state.                            *)
THEOREM Invariante == Spec => []IInv
BY InitIInv, NextIInv, PTL DEF Spec

(* The variables keep their types.                                          *)
THEOREM TipoCorreto == Spec => []TypeOK
<1>1. IInv => TypeOK
  BY DEF IInv, TypeOK
<1> QED
  BY <1>1, Invariante, PTL

(* An alarm that is on has a time, is not inhibited and tells a violation.  *)
THEOREM AlarmeSempreViolando == Spec => []AlarmeViolando
<1>1. IInv => AlarmeViolando
  BY DEF IInv, PontoOK, AlarmeDoPonto, AlarmeViolando
<1> QED
  BY <1>1, Invariante, PTL

(* The events list, and the delayed event, follow the region.               *)
THEOREM EventoSempreDaRegiao == Spec => []EventoDaRegiao
<1>1. IInv => EventoDaRegiao
  BY DEF IInv, PontoOK, EventoDoPonto, EventoDaRegiao
<1> QED
  BY <1>1, Invariante, PTL

-----------------------------------------------------------------------------
(* A step that is not a write leaves the value and the region of a point.   *)
LEMMA PassoDoPonto ==
  ASSUME IInv, [Next]_vars, NEW p \in Pontos
  PROVE  \/ pt'[p].valor = pt[p].valor /\ pt'[p].regiao = pt[p].regiao
         \/ \E v \in Valores, falha, espontaneo \in BOOLEAN :
              pt'[p] = EscrevePonto(cad[p], pt[p], v, falha, espontaneo)
<1> DEFINE Quieto == pt'[p].valor = pt[p].valor /\ pt'[p].regiao = pt[p].regiao
           Escrito == \E v \in Valores, falha, espontaneo \in BOOLEAN :
                        pt'[p] = EscrevePonto(cad[p], pt[p], v, falha, espontaneo)
<1>0. pt \in [Pontos -> TPonto] /\ pt[p] \in TPonto
  BY DEF IInv
<1>1. ASSUME NEW q \in Pontos, NEW v \in Valores, NEW falha \in BOOLEAN,
             NEW espontaneo \in BOOLEAN, Escreve(q, v, falha, espontaneo)
      PROVE  Quieto \/ Escrito
  <2>1. pt' = [pt EXCEPT ![q] = EscrevePonto(cad[q], pt[q], v, falha, espontaneo)]
    BY <1>1 DEF Escreve
  <2>2. CASE q = p
    <3>1. pt'[p] = EscrevePonto(cad[p], pt[p], v, falha, espontaneo)
      BY <1>0, <2>1, <2>2
    <3> QED
      BY <3>1, <1>1
  <2>3. CASE q # p
    BY <1>0, <2>1, <2>3
  <2> QED
    BY <2>2, <2>3
<1>2. ASSUME NEW q \in Pontos, NEW v \in Valores, NEW falha \in BOOLEAN,
             NEW espontaneo \in BOOLEAN, EscreveIEC(q, v, falha, espontaneo)
      PROVE  Quieto \/ Escrito
  BY <1>1, <1>2 DEF EscreveIEC
<1>3. ASSUME NEW q \in Pontos, NEW v \in Valores, NEW falha \in BOOLEAN,
             ImposePoint(q, v, falha)
      PROVE  Quieto \/ Escrito
  BY <1>1, <1>3 DEF ImposePoint
<1>4. CASE ProcessaTimeout
  <2>1. pt'[p] = EmiteAtrasado(cad[p], pt[p])
    BY <1>4 DEF ProcessaTimeout
  <2>2. Quieto
    BY <1>0, <2>1 DEF EmiteAtrasado, TPonto
  <2> QED
    BY <2>2
<1>5. ASSUME NEW alvo \in Pontos \cup {TODOS}, ReconheceAlarmePonto(alvo)
      PROVE  Quieto \/ Escrito
  <2>1. pt'[p] = pt[p] \/ pt'[p] = AckDoPonto(cad[p], pt[p])
    BY <1>5 DEF ReconheceAlarmePonto
  <2>2. Quieto
    BY <1>0, <2>1 DEF AckDoPonto, TPonto
  <2> QED
    BY <2>2
<1>6. CASE SilenciaBeep
  BY <1>6 DEF SilenciaBeep
<1>7. ASSUME NEW q \in Pontos, NEW li \in Limites \cup {Vazio},
             NEW ls \in Limites \cup {Vazio}, NEW h \in Histereses \cup {Vazio},
             NEW inibe \in BOOLEAN, HandleWritePoint(q, li, ls, h, inibe)
      PROVE  Quieto \/ Escrito
  <2> DEFINE a == AposLimInf(pt[p], li)
             b == AposLimSup(a, ls)
             l == AposHister(b, h)
             m == {li, ls, h} # {Vazio}
             e == IF m THEN EsqueceTroca(l) ELSE l
  <2>1. li \in Int \cup {Vazio} /\ ls \in Int \cup {Vazio} /\ h \in Nat \cup {Vazio}
    BY PedidosAssumption
  <2>2. a \in TPonto /\ a.valor = pt[p].valor /\ a.regiao = pt[p].regiao
    BY <1>0, <2>1, ExtremosAssumption, VazioAssumption DEF AposLimInf, TPonto
  <2> HIDE DEF a
  <2>3. b \in TPonto /\ b.valor = pt[p].valor /\ b.regiao = pt[p].regiao
    BY <2>1, <2>2, ExtremosAssumption, VazioAssumption DEF AposLimSup, TPonto
  <2> HIDE DEF b
  <2>4. l \in TPonto /\ l.valor = pt[p].valor /\ l.regiao = pt[p].regiao
    BY <2>1, <2>3, VazioAssumption DEF AposHister, TPonto
  <2> HIDE DEF l
  <2>5. e.valor = pt[p].valor /\ e.regiao = pt[p].regiao
    BY <2>4, EsqueceTrocaTipo
  <2>6. e \in TPonto
    BY <2>4, EsqueceTrocaTipo
  <2>7. q = p => pt'[p] = SetAlrIn(e, inibe)
    BY <1>0, <1>7 DEF HandleWritePoint, a, b, l
  <2> HIDE DEF e
  <2>8. q = p => Quieto
    <3>1. /\ SetAlrIn(e, inibe).valor = e.valor
          /\ SetAlrIn(e, inibe).regiao = e.regiao
      BY <2>6, Zenon DEF SetAlrIn, TPonto
    <3> QED
      BY <2>5, <2>7, <3>1
  <2>9. q # p => pt'[p] = pt[p]
    BY <1>0, <1>7 DEF HandleWritePoint
  <2> QED
    BY <2>8, <2>9
<1>8. CASE PassaTempo
  <2>1. pt'[p] = Envelhece(cad[p], pt[p])
    BY <1>8 DEF PassaTempo
  <2>2. Quieto
    BY <1>0, <2>1 DEF Envelhece, TPonto
  <2> QED
    BY <2>2
<1>9. CASE UNCHANGED vars
  BY <1>9 DEF vars
<1> QED
  BY <1>2, <1>3, <1>4, <1>5, <1>6, <1>7, <1>8, <1>9 DEF Next

(* A write that changes the value leaves the point in a region the value    *)
(* and the limits allow, for every value, limits and hysteresis.            *)
THEOREM RegiaoSempreAposEscrita == Spec => RegiaoAposEscrita
<1>1. ASSUME IInv, [Next]_vars, NEW p \in Pontos,
             pt'[p].valor # pt[p].valor, ~pt[p].alrIn
      PROVE  RegiaoPermitida(pt'[p])
  <2>1. PICK v \in Valores, falha \in BOOLEAN, espontaneo \in BOOLEAN :
          pt'[p] = EscrevePonto(cad[p], pt[p], v, falha, espontaneo)
    BY <1>1, PassoDoPonto
  <2> DEFINE t == pt[p]
             n == pt'[p]
  <2>2. t \in TPonto /\ v \in Int /\ t.regiao \in Regioes
    BY <1>1, ValoresAssumption DEF IInv, TPonto
  <2>3. /\ n.valor = v /\ n.limInf = t.limInf /\ n.limSup = t.limSup
        /\ n.hister = t.hister
        /\ n.regiao = IF MudaRegiao(t, v) THEN NovaRegiao(t, v) ELSE t.regiao
    BY <2>1 DEF EscrevePonto
  <2>4. n.regiao = NovaRegiao(t, v)
    BY <1>1, <2>3 DEF MudaRegiao, TestaLimites
  <2>5. SemLimites(n) <=> SemLimites(t)
    BY <2>3 DEF SemLimites
  <2> HIDE DEF t, n
  <2>6. RegiaoPermitida(n)
    BY <2>2, <2>3, <2>4, <2>5, RegiaoNova DEF RegiaoPermitida
  <2> QED
    BY <2>6 DEF n
<1>2. IInv /\ [Next]_vars =>
        [\A p \in Pontos :
           pt'[p].valor # pt[p].valor /\ ~pt[p].alrIn
           => RegiaoPermitida(pt'[p])]_vars
  BY <1>1
<1> QED
  BY <1>2, Invariante, PTL DEF Spec, RegiaoAposEscrita

(* A value that moves by no more than the hysteresis never makes a point    *)
(* enter and leave the normal region.                                       *)
THEOREM NuncaOscila == Spec => SemOscilacao
<1>1. ASSUME IInv, [Next]_vars, NEW p \in Pontos,
             pt[p].houveTroca, ~SemLimites(pt[p]),
             pt'[p].regiao # pt[p].regiao,
             RGLIM_NORMAL \in {pt[p].regiao, pt'[p].regiao}
      PROVE  Distancia(pt'[p].valor, pt[p].troca) > pt[p].hister
  <2>1. PICK v \in Valores, falha \in BOOLEAN, espontaneo \in BOOLEAN :
          pt'[p] = EscrevePonto(cad[p], pt[p], v, falha, espontaneo)
    BY <1>1, PassoDoPonto
  <2> DEFINE t == pt[p]
             n == pt'[p]
  <2>2. t \in TPonto /\ v \in Int /\ TrocaNaFaixa(t)
    BY <1>1, ValoresAssumption DEF IInv, PontoOK
  <2>3. /\ n.valor = v
        /\ n.regiao = IF MudaRegiao(t, v) THEN NovaRegiao(t, v) ELSE t.regiao
    BY <2>1 DEF EscrevePonto
  <2>4. n.regiao = NovaRegiao(t, v)
    BY <1>1, <2>3
  <2>5. Distancia(v, t.troca) > t.hister
    BY <1>1, <2>2, <2>4, TrocaLonge
  <2> QED
    BY <2>3, <2>5
<1>2. IInv /\ [Next]_vars =>
        [\A p \in Pontos :
           /\ pt[p].houveTroca /\ ~SemLimites(pt[p])
           /\ pt'[p].regiao # pt[p].regiao
           /\ RGLIM_NORMAL \in {pt[p].regiao, pt'[p].regiao}
           => Distancia(pt'[p].valor, pt[p].troca) > pt[p].hister]_vars
  BY <1>1
<1> QED
  BY <1>2, Invariante, PTL DEF Spec, SemOscilacao

(* A timed alarm nobody acknowledged sounds when its event enters: it has a *)
(* time, since it is on, and the event enters when that time is over.       *)
THEOREM AtrasadoSempreBipa == Spec => AtrasadoBipa
<1>1. ASSUME IInv, NEW p \in Pontos, Venceu(cad[p], pt[p]), ProcessaTimeout,
             pt[p].naoRec, cad[p].bipa
      PROVE  bipando'
  <2>1. pt[p].tag # Zerado
    BY <1>1 DEF IInv, PontoOK, AlarmeDoPonto
  <2>2. DeveBipar(cad[p], pt[p])
    BY <1>1, <2>1 DEF Venceu, DeveBipar
  <2> QED
    BY <1>1, <2>2 DEF ProcessaTimeout
<1>2. IInv /\ [Next]_vars =>
        [\A p \in Pontos :
           /\ Venceu(cad[p], pt[p]) /\ ProcessaTimeout
           /\ pt[p].naoRec /\ cad[p].bipa
           => bipando']_vars
  BY <1>1
<1> QED
  BY <1>2, Invariante, PTL DEF Spec, AtrasadoBipa

-----------------------------------------------------------------------------
(* The annunciator.                                                         *)
Alarmados == {p \in Pontos : pt[p].naoRec}
Inibidos == {p \in Pontos : pt[p].alrIn}

LEMMA EscritaAnuncia ==
  ASSUME IInv, NEW p \in Pontos, NEW v \in Valores, NEW falha \in BOOLEAN,
         NEW espontaneo \in BOOLEAN, Escreve(p, v, falha, espontaneo)
  PROVE  A!Ocorre(p) \/ UNCHANGED A!vars
<1> DEFINE t == pt[p]
           n == EscrevePonto(cad[p], t, v, falha, espontaneo)
           toca == BipaEscrita(cad[p], t, v, falha, espontaneo)
<1>1. /\ t \in TPonto /\ pt \in [Pontos -> TPonto] /\ bipando \in BOOLEAN
      /\ t.alrIn => ~t.naoRec
      /\ t.alrIn \in BOOLEAN /\ t.naoRec \in BOOLEAN
  BY DEF IInv, PontoOK, AlarmeDoPonto, TPonto
<1>2. t.alrIn => ~Alarma(cad[p], t, v, falha, espontaneo)
  BY DEF Alarma, AlarmaEvento, MudaRegiao, TestaLimites
<1>3. n.alrIn = t.alrIn /\ (t.alrIn => ~n.naoRec) /\ (t.alrIn => ~toca)
  BY <1>1, <1>2 DEF EscrevePonto, BipaEscrita
<1>4. (bipando' <=> bipando \/ toca) /\ pt' = [pt EXCEPT ![p] = n]
  BY DEF Escreve
<1> HIDE DEF n, toca
<1>5. \A q \in Pontos : pt'[q] = IF q = p THEN n ELSE pt[q]
  BY <1>1, <1>4
<1>6. Inibidos' = Inibidos
  BY <1>3, <1>5 DEF Inibidos
<1>7. Alarmados' = IF n.naoRec THEN Alarmados \cup {p} ELSE Alarmados \ {p}
  BY <1>5 DEF Alarmados
<1>8. CASE t.alrIn
  <2>1. p \notin Alarmados
    BY <1>1, <1>8 DEF Alarmados
  <2>2. Alarmados' = Alarmados
    BY <1>3, <1>7, <1>8, <2>1
  <2>3. bipando' <=> bipando
    BY <1>3, <1>4, <1>8
  <2> QED
    BY <1>6, <2>2, <2>3 DEF A!vars, Alarmados, Inibidos
<1>9. CASE ~t.alrIn
  <2>1. p \notin Inibidos
    BY <1>9 DEF Inibidos
  <2>2. (IF bipando' THEN 1 ELSE 0) \in (IF bipando THEN 1 ELSE 0)..2
    BY <1>4
  <2> QED
    BY <1>6, <1>7, <2>1, <2>2 DEF A!Ocorre, Alarmados, Inibidos
<1> QED
  BY <1>8, <1>9

(* A delayed event that makes the beep sound is of a point that is alarmed, *)
(* so it is not inhibited.                                                  *)
LEMMA TimeoutAnuncia ==
  ASSUME IInv, ProcessaTimeout
  PROVE  A!Next \/ UNCHANGED A!vars
<1> DEFINE toca == \E p \in Pontos : Venceu(cad[p], pt[p]) /\ DeveBipar(cad[p], pt[p])
<1>1. \A p \in Pontos : pt'[p].naoRec = pt[p].naoRec /\ pt'[p].alrIn = pt[p].alrIn
  BY DEF IInv, ProcessaTimeout, EmiteAtrasado, TPonto
<1>2. Alarmados' = Alarmados /\ Inibidos' = Inibidos
  BY <1>1 DEF Alarmados, Inibidos
<1>3. bipando' <=> bipando \/ toca
  BY DEF ProcessaTimeout
<1>4. CASE toca
  <2>1. PICK p \in Pontos : DeveBipar(cad[p], pt[p])
    BY <1>4
  <2>2. pt[p].naoRec /\ ~pt[p].alrIn
    BY <2>1 DEF DeveBipar, IInv, PontoOK, AlarmeDoPonto
  <2>3. p \in Alarmados /\ p \notin Inibidos
    BY <2>2 DEF Alarmados, Inibidos
  <2>4. bipando'
    BY <1>3, <1>4
  <2>5. (IF bipando' THEN 1 ELSE 0) \in (IF bipando THEN 1 ELSE 0)..2
    BY <2>4
  <2>6. A!Ocorre(p)
    BY <1>2, <2>3, <2>5 DEF A!Ocorre, Alarmados, Inibidos
  <2> QED
    BY <2>6 DEF A!Next
<1>5. CASE ~toca
  BY <1>2, <1>3, <1>5 DEF A!vars, Alarmados, Inibidos
<1> QED
  BY <1>4, <1>5

(* A write of limits changes the alarm of the point only by inhibiting it.  *)
LEMMA LimitesAnunciam ==
  ASSUME IInv, NEW p \in Pontos, NEW li, NEW ls, NEW h, NEW inibe \in BOOLEAN,
         li \in Limites \cup {Vazio}, ls \in Limites \cup {Vazio},
         h \in Histereses \cup {Vazio}, HandleWritePoint(p, li, ls, h, inibe)
  PROVE  A!Next
<1> DEFINE l == LimitesNovos(pt[p], li, ls, h)
           e == IF {li, ls, h} # {Vazio} THEN EsqueceTroca(l) ELSE l
<1>1. li \in Int \cup {Vazio} /\ ls \in Int \cup {Vazio} /\ h \in Nat \cup {Vazio}
  BY PedidosAssumption
<1>2. pt \in [Pontos -> TPonto] /\ pt[p] \in TPonto
  BY DEF IInv
<1>3. l \in TPonto /\ l.naoRec = pt[p].naoRec
  BY <1>1, <1>2, LimitesNovosTipo
<1>4. /\ pt' = [pt EXCEPT ![p] = SetAlrIn(e, inibe)]
      /\ bipando' = bipando
  BY DEF HandleWritePoint, LimitesNovos
<1> HIDE DEF l
<1>5. EsqueceTroca(l) \in TPonto /\ EsqueceTroca(l).naoRec = l.naoRec
  BY <1>3, EsqueceTrocaTipo
<1>6. e \in TPonto /\ e.naoRec = pt[p].naoRec
  BY <1>3, <1>5
<1> HIDE DEF e
<1>7. SetAlrIn(e, inibe).alrIn = inibe
  BY <1>6 DEF SetAlrIn, TPonto
<1>8. SetAlrIn(e, inibe).naoRec = (pt[p].naoRec /\ ~inibe)
  BY <1>6 DEF SetAlrIn, TPonto
<1>9. \A q \in Pontos : pt'[q] = IF q = p THEN SetAlrIn(e, inibe) ELSE pt[q]
  BY <1>2, <1>4
<1>10. CASE inibe
  <2>1. Inibidos' = Inibidos \cup {p} /\ Alarmados' = Alarmados \ {p}
    BY <1>7, <1>8, <1>9, <1>10 DEF Inibidos, Alarmados
  <2> QED
    BY <1>4, <2>1 DEF A!Next, A!Inibe, Inibidos, Alarmados
<1>11. CASE ~inibe
  <2>1. Inibidos' = Inibidos \ {p} /\ Alarmados' = Alarmados
    BY <1>7, <1>8, <1>9, <1>11 DEF Inibidos, Alarmados
  <2> QED
    BY <1>4, <2>1 DEF A!Next, A!Libera, Inibidos, Alarmados
<1> QED
  BY <1>10, <1>11

LEMMA AnunciadorDoPasso == IInv /\ [Next]_vars => [A!Next]_(A!vars)
<1> SUFFICES ASSUME IInv, [Next]_vars PROVE A!Next \/ UNCHANGED A!vars
  OBVIOUS
<1>0. pt \in [Pontos -> TPonto]
  BY DEF IInv
<1>1. ASSUME NEW p \in Pontos, NEW v \in Valores, NEW falha \in BOOLEAN,
             NEW espontaneo \in BOOLEAN,
             EscreveIEC(p, v, falha, espontaneo) \/ ImposePoint(p, v, falha)
      PROVE  A!Next \/ UNCHANGED A!vars
  BY <1>1, EscritaAnuncia DEF EscreveIEC, ImposePoint, A!Next
<1>2. CASE ProcessaTimeout
  BY <1>2, TimeoutAnuncia
<1>3. ASSUME NEW alvo \in Pontos \cup {TODOS}, ReconheceAlarmePonto(alvo)
      PROVE  A!Next
  <2>1. \A p \in Pontos :
          /\ pt'[p].naoRec <=> pt[p].naoRec /\ p \notin Alcance(alvo)
          /\ pt'[p].alrIn = pt[p].alrIn
    <3> SUFFICES ASSUME NEW p \in Pontos
                 PROVE  /\ pt'[p].naoRec <=> pt[p].naoRec /\ p \notin Alcance(alvo)
                        /\ pt'[p].alrIn = pt[p].alrIn
      OBVIOUS
    <3>1. pt[p] \in TPonto
      BY <1>0
    <3>2. pt'[p] = IF p \in Alcance(alvo) THEN AckDoPonto(cad[p], pt[p]) ELSE pt[p]
      BY <1>3 DEF ReconheceAlarmePonto
    <3>3. CASE p \in Alcance(alvo)
      BY <3>1, <3>2, <3>3 DEF AckDoPonto, TPonto
    <3>4. CASE p \notin Alcance(alvo)
      BY <3>1, <3>2, <3>4
    <3> QED
      BY <3>3, <3>4
  <2>2. /\ Alarmados' = Alarmados \ Alcance(alvo)
        /\ Inibidos' = Inibidos /\ bipando' = bipando
    BY <1>3, <2>1 DEF Alarmados, Inibidos, ReconheceAlarmePonto
  <2>3. A!Reconhece(Alcance(alvo))
    BY <2>2 DEF A!Reconhece, Alarmados, Inibidos
  <2> QED
    BY <2>3 DEF A!Next, Alcance
<1>4. CASE SilenciaBeep
  BY <1>4 DEF SilenciaBeep, A!Next, A!Silencia
<1>5. ASSUME NEW p \in Pontos, NEW li \in Limites \cup {Vazio},
             NEW ls \in Limites \cup {Vazio}, NEW h \in Histereses \cup {Vazio},
             NEW inibe \in BOOLEAN, HandleWritePoint(p, li, ls, h, inibe)
      PROVE  A!Next
  BY <1>5, LimitesAnunciam
<1>6. CASE PassaTempo
  <2>1. \A p \in Pontos : pt'[p].naoRec = pt[p].naoRec /\ pt'[p].alrIn = pt[p].alrIn
    BY <1>0, <1>6 DEF PassaTempo, Envelhece, TPonto
  <2>2. Alarmados' = Alarmados /\ Inibidos' = Inibidos
    BY <2>1 DEF Alarmados, Inibidos
  <2> QED
    BY <1>6, <2>2 DEF PassaTempo, A!vars, Alarmados, Inibidos
<1>7. CASE UNCHANGED vars
  BY <1>7 DEF vars, A!vars
<1> QED
  BY <1>1, <1>2, <1>3, <1>4, <1>5, <1>6, <1>7 DEF Next

LEMMA AnunciadorInicial == Init => A!Init
<1> SUFFICES ASSUME Init PROVE A!Init
  OBVIOUS
<1>1. ASSUME NEW p \in Pontos PROVE ~pt[p].naoRec
  <2>1. pt[p] \in Carregados(cad[p])
    BY DEF Init
  <2> QED
    BY <2>1 DEF Carregados, Carregado
<1> QED
  BY <1>1 DEF Init, A!Init

(* The analog points implement the same annunciator, for any limits, delays *)
(* and configurations.                                                      *)
THEOREM AnalogicoCumpreAnunciador == Spec => CumpreAnunciador
BY AnunciadorInicial, AnunciadorDoPasso, Invariante, PTL
   DEF Spec, CumpreAnunciador, A!Spec
=============================================================================
