-------------------------- MODULE Iec104Link_proofs --------------------------
(***************************************************************************)
(* Proofs about Iec104Link, for any timers, window and length of the       *)
(* numbers.  Contagem is what ties the window's countdown to the frames    *)
(* that wait for an acknowledgement: every such frame took one from it,    *)
(* and every second they waited took two.  Transito is what ties the       *)
(* numbers of the frames in transit to the one the driver expects, and     *)
(* JanelaDaRTU bounds how many there are: it is what keeps a number from   *)
(* coming round again while the driver misses one.  Both end when bytes    *)
(* out of place are taken for a frame (engano).  EmEsquadro says that this *)
(* takes a broken read, of this connection or left by an earlier one.      *)
(***************************************************************************)
EXTENDS Iec104Link, TLAPS

USE DEF Positivos, Numeros

Contagem ==
  con => IF tSuperv = -1
         THEN SemConfirmar = 0 /\ idade = 0
         ELSE SemConfirmar + tSuperv <= T2 /\ 2 * idade + tSuperv < T2

SoConectado == ~con => tSuperv = -1 /\ volta = <<>>

IInv == TypeOK /\ SeqCerta /\ SoConectado /\ Contagem

(* The arithmetic of the numbers.                                           *)
LEMMA Contas ==
  ASSUME NEW a \in Numeros, NEW b \in Numeros
  PROVE  /\ Prox(a) \in Numeros
         /\ Desde(a, b) \in Numeros
         /\ Desde(a, a) = 0
         /\ Desde(a, Prox(b)) <= Desde(a, b) + 1
BY JanelaAssumption DEF Prox, Desde

(* The invariant holds before the first connection.                         *)
LEMMA InitIInv == Init => IInv
<1> SUFFICES ASSUME Init PROVE IInv
  OBVIOUS
<1>1. /\ deve \subseteq Pedidos /\ volta \in Seq(Lidos)
      /\ 0 \in Numeros /\ falhas \in 0..MaxFalhas
  BY JanelaAssumption DEF Init
<1>2. /\ tTestfr \in -1..T3
      /\ tStartdt \in {-1} \cup 1..T1 /\ tSuperv \in {-1} \cup 1..T2
      /\ tGi \in {-1} \cup Positivos
  BY TemposAssumption DEF Init
<1>3. TypeOK
  BY <1>1, <1>2 DEF Init, TypeOK
<1> QED
  BY <1>3 DEF Init, IInv, SeqCerta, SoConectado, Contagem

(* What the RTU sends is a frame the driver can read.                       *)
LEMMA QuadrosDaRTU ==
  ASSUME ns \in Numeros
  PROVE  /\ \A a \in Asdus : I(a) \in Lidos
         /\ \A t \in {"STARTDTCON", "TESTFRCON", "TESTFRACT"} : U(t) \in Lidos
BY DEF I, Quadros, Lidos

(* The types, one action at a time.                                         *)
Tempos ==
  /\ tStartdt \in {-1} \cup 1..T1 /\ tSuperv \in {-1} \cup 1..T2
  /\ tTestfr \in -1..T3 /\ tGi \in {-1} \cup Positivos
Ligacao ==
  /\ con \in BOOLEAN /\ txOk \in BOOLEAN /\ ativa \in BOOLEAN
  /\ vs \in Numeros /\ vr \in Numeros
  /\ ns \in Numeros /\ nr \in Numeros /\ conf \in Numeros
  /\ broken_msg \in BOOLEAN /\ lacuna \in BOOLEAN
  /\ quebrou \in BOOLEAN /\ engano \in BOOLEAN
  /\ giOk \in BOOLEAN /\ idade \in Nat
  /\ falhas \in 0..MaxFalhas
Canal == deve \subseteq Pedidos /\ volta \in Seq(Lidos)

(* The type is its three parts.                                             *)
LEMMA Partes == TypeOK <=> Tempos /\ Ligacao /\ Canal
BY DEF TypeOK, Tempos, Ligacao, Canal

TipoDaLeitura ==
  /\ broken_msg \in BOOLEAN /\ lacuna \in BOOLEAN
  /\ quebrou \in BOOLEAN /\ engano \in BOOLEAN

(* A disconnection keeps the types.                                         *)
LEMMA DesconectaTipo ==
  ASSUME TypeOK, onDisconnectTCP, TipoDaLeitura', falhas' \in 0..MaxFalhas
  PROVE  TypeOK'
<1>1. Tempos'
  BY DEF onDisconnectTCP, TypeOK, Tempos
<1>2. Ligacao'
  BY DEF onDisconnectTCP, TypeOK, Ligacao, TipoDaLeitura
<1>3. Canal'
  BY DEF onDisconnectTCP, TypeOK, Canal
<1> QED
  BY <1>1, <1>2, <1>3, Partes DEF TypeOK, Tempos, Ligacao, Canal

(* A second keeps the types.                                                *)
LEMMA SegundoTipo == ASSUME TypeOK, onTimerSecond PROVE TypeOK'
<1>1. CASE ~con
  BY <1>1 DEF onTimerSecond, vars, link, rtu, leitura, TypeOK
<1>2. CASE con
  <2>1. Tempos'
    <3>1. tStartdt' \in {-1} \cup 1..T1
      BY <1>2, TemposAssumption
         DEF onTimerSecond, TypeOK, Decrementa, Expira, Rearma
    <3>2. tSuperv' \in {-1} \cup 1..T2
      BY <1>2, TemposAssumption
         DEF onTimerSecond, TypeOK, Decrementa, DoisPorSegundo
    <3>3. tTestfr' \in -1..T3
      BY <1>2, TemposAssumption DEF onTimerSecond, TypeOK, Decrementa
    <3>4. tGi' \in {-1} \cup Positivos
      BY <1>2, TemposAssumption DEF onTimerSecond, TypeOK, Decrementa, Expira
    <3> QED
      BY <3>1, <3>2, <3>3, <3>4 DEF Tempos
  <2>2. vs' \in Numeros /\ nr' \in Numeros /\ conf' \in Numeros
    BY <1>2, Contas DEF onTimerSecond, TypeOK, EnviaI, Confirma, NadaEnviado
  <2>3. Ligacao'
    BY <1>2, <2>2 DEF onTimerSecond, leitura, TypeOK, Ligacao
  <2>4. Canal'
    BY <1>2 DEF onTimerSecond, TypeOK, Canal, Pedidos
  <2> QED
    BY <2>1, <2>3, <2>4 DEF TypeOK, Tempos, Ligacao, Canal
<1> QED
  BY <1>1, <1>2 DEF TypeOK

(* Parsing what was read keeps the types.                                   *)
LEMMA LeituraTipo ==
  ASSUME TypeOK, TipoDaLeitura', falhas' \in 0..MaxFalhas,
         NEW m \in Lidos, NEW q \in Seq(Lidos), parseAPDU(m, q)
  PROVE  TypeOK'
<1>1. CASE m.tipo # "I"
  <2>1. RecebeU(m) /\ volta' = q
    BY <1>1 DEF parseAPDU
  <2>2. Tempos'
    BY <2>1, TemposAssumption DEF RecebeU, TypeOK, Tempos
  <2>3. Ligacao'
    BY <2>1 DEF RecebeU, rtu, TypeOK, Ligacao, TipoDaLeitura
  <2>4. Canal'
    BY <2>1 DEF RecebeU, rtu, TypeOK, Canal
  <2> QED
    BY <2>2, <2>3, <2>4 DEF TypeOK, Tempos, Ligacao, Canal
<1>2. CASE m.tipo = "I" /\ ForaDeOrdem(m.n)
  BY <1>2, DesconectaTipo DEF parseAPDU, TypeOK
<1>3. CASE m.tipo = "I" /\ ~ForaDeOrdem(m.n)
  <2>1. RecebeI(m) /\ volta' = q
    BY <1>3 DEF parseAPDU
  <2>2. m.n \in Numeros
    BY <1>3 DEF ForaDeOrdem, TypeOK
  <2>3. Tempos'
    BY <2>1, TemposAssumption DEF RecebeI, TypeOK, Tempos, AbreJanela
  <2>4. vr' \in Numeros
    BY <2>1, <2>2, Contas DEF RecebeI
  <2>5. vs' \in Numeros /\ nr' \in Numeros /\ conf' \in Numeros
    BY <2>1, <2>4, Contas DEF RecebeI, TypeOK, EnviaI, Confirma, NadaEnviado
  <2>6. Ligacao'
    BY <2>1, <2>4, <2>5 DEF RecebeI, TypeOK, Ligacao, TipoDaLeitura
  <2>7. Canal'
    BY <2>1 DEF RecebeI, TypeOK, Canal
  <2> QED
    BY <2>3, <2>6, <2>7 DEF TypeOK, Tempos, Ligacao, Canal
<1> QED
  BY <1>1, <1>2, <1>3

(* What is left of the frames in transit is frames, or the rest of one.     *)
LEMMA SobraTipo ==
  ASSUME volta \in Seq(Lidos), NEW k \in 1..Len(volta), NEW inteiro \in BOOLEAN
  PROVE  Sobra(k, inteiro) \in Seq(Lidos)
<1>1. SubSeq(volta, k + 1, Len(volta)) \in Seq(Lidos)
  OBVIOUS
<1>2. Resto \in Lidos
  BY DEF Lidos
<1>3. <<Resto>> \in Seq(Lidos) /\ <<>> \in Seq(Lidos)
  BY <1>2
<1>4. \A p, q \in Seq(Lidos) : p \o q \in Seq(Lidos)
  OBVIOUS
<1> QED
  BY <1>1, <1>3, <1>4 DEF Sobra

(* A failure counts one, within the bound.                                  *)
LEMMA FalhaTipo ==
  ASSUME falhas \in 0..MaxFalhas, Falha \/ UNCHANGED falhas
  PROVE  falhas' \in 0..MaxFalhas
BY JanelaAssumption DEF Falha

(* Every step keeps the types.                                              *)
LEMMA TipoDoPasso == TypeOK /\ [Next]_vars => TypeOK'
<1> SUFFICES ASSUME TypeOK, [Next]_vars PROVE TypeOK'
  OBVIOUS
<1> USE JanelaAssumption, Contas DEF TypeOK
<1>1. CASE onConnectTCP
  <2>1. Tempos'
    BY <1>1, TemposAssumption DEF onConnectTCP, Tempos
  <2>2. Ligacao'
    <3>1. 0 \in Numeros /\ 0 \in Nat
      OBVIOUS
    <3> QED
      BY <1>1, <3>1, Zenon DEF onConnectTCP, Zera, Ligacao
  <2>3. Canal'
    BY <1>1 DEF onConnectTCP, Canal, Pedidos
  <2> QED
    BY <2>1, <2>2, <2>3 DEF Tempos, Ligacao, Canal
<1>2. CASE Cai
  BY <1>2, DesconectaTipo DEF Cai, Falha, leitura, TipoDaLeitura
<1>3. CASE onTimerSecond
  BY <1>3, SegundoTipo
<1>4. CASE solicitGI
  BY <1>4, TemposAssumption DEF solicitGI, EnviaI, Pedidos, leitura
<1>5. CASE sendCommand
  BY <1>5 DEF sendCommand, EnviaI, leitura
<1>6. CASE LeQuadro
  <2>1. Head(volta) \in Lidos /\ Tail(volta) \in Seq(Lidos)
    BY <1>6 DEF LeQuadro, NoLugar
  <2>2. TipoDaLeitura' /\ falhas' \in 0..MaxFalhas
    BY <1>6 DEF LeQuadro, TipoDaLeitura
  <2> QED
    BY <1>6, <2>1, <2>2, LeituraTipo DEF LeQuadro
<1>7. CASE QuadroQuebrado
  <2>1. volta' \in Seq(Lidos)
    <3>1. volta # <<>>
      BY <1>7 DEF QuadroQuebrado, NoLugar
    <3>2. 1 \in 1..Len(volta)
      BY <3>1
    <3> QED
      BY <1>7, <3>2, SobraTipo DEF QuadroQuebrado
  <2> QED
    <3>1. UNCHANGED <<con, link, rtu, engano, giOk, idade>> /\ quebrou' \in BOOLEAN
      BY <1>7 DEF QuadroQuebrado
    <3>2. broken_msg' \in BOOLEAN /\ lacuna' \in BOOLEAN
      BY <1>7 DEF QuadroQuebrado
    <3>3. falhas' \in 0..MaxFalhas
      BY <1>7 DEF QuadroQuebrado, Falha
    <3> HIDE <1>7
    <3> QED
      BY <2>1, <3>1, <3>2, <3>3 DEF link, rtu
<1>13. CASE LeForaDeLugar
  <2>1. PICK k \in 1..Len(volta), m \in Lidos, inteiro \in BOOLEAN :
          /\ parseAPDU(m, Sobra(k, inteiro))
          /\ broken_msg' \in (IF m = Resto THEN BOOLEAN ELSE {FALSE})
          /\ IF ~inteiro \/ broken_msg' THEN Falha ELSE UNCHANGED falhas
          /\ engano' = (engano \/ m # Resto)
          /\ lacuna' = (lacuna \/ \E i \in 1..k : volta[i].tipo = "I")
    BY <1>13 DEF LeForaDeLugar
  <2>2. TipoDaLeitura'
    BY <1>13, <2>1 DEF LeForaDeLugar, TipoDaLeitura
  <2>3. falhas' \in 0..MaxFalhas
    <3>1. IF ~inteiro \/ broken_msg' THEN Falha ELSE UNCHANGED falhas
      BY <2>1, Zenon
    <3>2. Falha \/ UNCHANGED falhas
      BY <3>1, Zenon
    <3> QED
      BY <3>2, FalhaTipo
  <2> QED
    BY <2>1, <2>2, <2>3, LeituraTipo, SobraTipo
<1>14. CASE DesisteRTU
  BY <1>14, DesconectaTipo DEF DesisteRTU, leitura, TipoDaLeitura
<1>8. CASE TestaLinha
  BY <1>8, QuadrosDaRTU DEF TestaLinha, link, rtu, leitura
<1>9. CASE IgnoraPedido
  BY <1>9 DEF IgnoraPedido, Falha, link, leitura
<1>10. ASSUME NEW q \in Pedidos, Responde(q) PROVE TypeOK'
  <2>1. /\ ns' \in Numeros /\ ativa' \in BOOLEAN
        /\ deve' \subseteq Pedidos
    BY <1>10 DEF Responde
  <2>2. I("gi") \in Lidos /\ (q # "gi" => U(q) \in Lidos)
    BY QuadrosDaRTU DEF Pedidos, Asdus
  <2>3. \A m \in Lidos : Append(volta, m) \in Seq(Lidos)
    OBVIOUS
  <2>4. volta' \in Seq(Lidos)
    BY <1>10, <2>2, <2>3 DEF Responde
  <2> QED
    BY <1>10, <2>1, <2>4 DEF Responde, link, leitura
<1>11. ASSUME NEW a \in {"dado", "teste"}, EnviaDado(a) PROVE TypeOK'
  <2>1. I(a) \in Lidos
    BY <1>11, QuadrosDaRTU DEF Asdus
  <2>2. \A m \in Lidos : Append(volta, m) \in Seq(Lidos)
    OBVIOUS
  <2>3. ns' \in Numeros /\ volta' \in Seq(Lidos)
    BY <1>11, <2>1, <2>2 DEF EnviaDado
  <2> QED
    BY <1>11, <2>3 DEF EnviaDado, link, leitura
<1>12. CASE UNCHANGED vars
  BY <1>12 DEF vars, link, rtu, leitura
<1> QED
  BY <1>1, <1>2, <1>3, <1>4, <1>5, <1>6, <1>7, <1>8, <1>9, <1>10, <1>11, <1>12,
     <1>13, <1>14 DEF Next

(* The driver and the RTU count the same frames.                            *)
LEMMA SeqDoPasso == TypeOK /\ SeqCerta /\ [Next]_vars => SeqCerta'
<1> SUFFICES ASSUME TypeOK, SeqCerta, [Next]_vars PROVE SeqCerta'
  OBVIOUS
<1> USE DEF SeqCerta
<1>1. CASE onConnectTCP
  BY <1>1 DEF onConnectTCP, Zera
<1>2. CASE onTimerSecond
  <2>1. CASE ~con
    BY <1>2, <2>1 DEF onTimerSecond, vars, link, rtu
  <2>2. CASE con
    <3>1. EnviaI(vr) \/ Confirma(vr) \/ NadaEnviado
      BY <1>2, <2>2 DEF onTimerSecond
    <3> QED
      BY <2>2, <3>1 DEF EnviaI, Confirma, NadaEnviado
  <2> QED
    BY <2>1, <2>2
<1>3. CASE solicitGI \/ sendCommand
  BY <1>3 DEF solicitGI, sendCommand, EnviaI
<1>4. ASSUME NEW m, NEW f, parseAPDU(m, f) PROVE SeqCerta'
  <2>1. CASE RecebeU(m)
    BY <2>1 DEF RecebeU, rtu
  <2>2. CASE onDisconnectTCP
    BY <2>2 DEF onDisconnectTCP
  <2>3. CASE RecebeI(m)
    <3>1. EnviaI(vr') \/ Confirma(vr') \/ NadaEnviado
      BY <2>3 DEF RecebeI
    <3> QED
      BY <2>3, <3>1 DEF RecebeI, EnviaI, Confirma, NadaEnviado
  <2> QED
    BY <1>4, <2>1, <2>2, <2>3 DEF parseAPDU
<1>9. CASE LeQuadro \/ LeForaDeLugar
  BY <1>4, <1>9 DEF LeQuadro, LeForaDeLugar
<1>5. CASE Cai \/ DesisteRTU \/ QuadroQuebrado \/ TestaLinha \/ IgnoraPedido
  BY <1>5 DEF Cai, DesisteRTU, onDisconnectTCP, QuadroQuebrado, TestaLinha,
              IgnoraPedido, link, rtu
<1>6. ASSUME NEW q \in Pedidos, Responde(q) PROVE SeqCerta'
  BY <1>6 DEF Responde, link
<1>7. ASSUME NEW a \in {"dado", "teste"}, EnviaDado(a) PROVE SeqCerta'
  BY <1>7 DEF EnviaDado, link
<1>8. CASE UNCHANGED vars
  BY <1>8 DEF vars, link, rtu
<1> QED
  BY <1>1, <1>2, <1>3, <1>5, <1>6, <1>7, <1>8, <1>9 DEF Next

(* Nothing is left to read, or to acknowledge, without a connection.        *)
LEMMA SoConectadoDoPasso == TypeOK /\ SoConectado /\ [Next]_vars => SoConectado'
<1> SUFFICES ASSUME TypeOK, SoConectado, [Next]_vars PROVE SoConectado'
  OBVIOUS
<1> USE DEF SoConectado
<1>1. CASE onConnectTCP
  BY <1>1 DEF onConnectTCP
<1>2. CASE onTimerSecond
  BY <1>2 DEF onTimerSecond, vars, link
<1>3. CASE solicitGI \/ sendCommand
  BY <1>3 DEF solicitGI, sendCommand
<1>4. CASE LeQuadro \/ LeForaDeLugar
  <2>1. con
    BY <1>4 DEF LeQuadro, LeForaDeLugar, NoLugar
  <2>2. ASSUME NEW m, NEW q, parseAPDU(m, q) PROVE SoConectado'
    BY <2>1, <2>2 DEF parseAPDU, RecebeU, RecebeI, onDisconnectTCP
  <2> QED
    BY <1>4, <2>2 DEF LeQuadro, LeForaDeLugar
<1>5. CASE Cai \/ DesisteRTU
  BY <1>5 DEF Cai, DesisteRTU, onDisconnectTCP
<1>6. CASE QuadroQuebrado \/ TestaLinha \/ IgnoraPedido
  <2>1. CASE QuadroQuebrado
    <3>1. volta # <<>> /\ con' = con
      BY <2>1 DEF QuadroQuebrado, NoLugar
    <3> QED
      BY <3>1
  <2> QED
    BY <1>6, <2>1 DEF TestaLinha, IgnoraPedido, Cabe, link
<1>7. ASSUME NEW q \in Pedidos, Responde(q) PROVE SoConectado'
  BY <1>7 DEF Responde, Cabe, link
<1>8. ASSUME NEW a \in {"dado", "teste"}, EnviaDado(a) PROVE SoConectado'
  BY <1>8 DEF EnviaDado, Cabe, link
<1>9. CASE UNCHANGED vars
  BY <1>9 DEF vars, link
<1> QED
  BY <1>1, <1>2, <1>3, <1>4, <1>5, <1>6, <1>7, <1>8, <1>9 DEF Next

(* A frame received: one less to go, one more to acknowledge.               *)
LEMMA ContagemDaLeitura ==
  ASSUME TypeOK, Contagem, con, NEW m, m.tipo = "I", ~ForaDeOrdem(m.n), RecebeI(m)
  PROVE  Contagem'
<1> DEFINE janela == AbreJanela(tSuperv)
<1>1. /\ vr' = Prox(vr) /\ con'
      /\ tSuperv' = IF janela = 0 THEN -1 ELSE janela
      /\ conf' \in {conf, vr'} /\ (janela = 0 => conf' = vr')
      /\ idade' = IF Desde(conf', vr') = 0 THEN 0 ELSE idade
  BY DEF RecebeI, ForaDeOrdem, EnviaI, Confirma, NadaEnviado
<1>2. /\ vr' \in Numeros /\ conf \in Numeros /\ vr \in Numeros /\ T2 \in Nat /\ T2 > 1
      /\ Desde(vr', vr') = 0
      /\ Desde(conf, vr') <= Desde(conf, vr) + 1
      /\ Desde(conf, vr) \in Nat /\ Desde(conf, vr') \in Nat
  <2>1. vr' \in Numeros /\ conf \in Numeros /\ vr \in Numeros
    BY <1>1, Contas DEF TypeOK
  <2> HIDE DEF Numeros
  <2>2. /\ Desde(vr', vr') = 0 /\ Desde(conf, vr') <= Desde(conf, vr) + 1
        /\ Desde(conf, vr) \in Numeros /\ Desde(conf, vr') \in Numeros
    BY <1>1, <2>1, Contas
  <2> QED
    BY <2>1, <2>2, TemposAssumption, JanelaAssumption DEF Numeros
<1>3. /\ tSuperv \in {-1} \cup 1..T2 /\ idade \in Nat
      /\ janela = IF tSuperv = -1 THEN T2 - 1 ELSE tSuperv - 1
  BY TemposAssumption DEF TypeOK, AbreJanela
<1>4. IF tSuperv = -1 THEN Desde(conf, vr) = 0 /\ idade = 0
      ELSE Desde(conf, vr) + tSuperv <= T2 /\ 2 * idade + tSuperv < T2
  BY DEF Contagem, SemConfirmar
<1>5. CASE conf' = vr'
  BY <1>1, <1>2, <1>3, <1>4, <1>5 DEF Contagem, SemConfirmar
<1>6. CASE conf' = conf /\ conf' # vr'
  <2>1. janela # 0 /\ tSuperv' = janela /\ idade' <= idade /\ idade' \in Nat
    BY <1>1, <1>3, <1>6
  <2>2. Desde(conf, vr') + janela <= T2 /\ 2 * idade + janela < T2
    <3>1. CASE tSuperv = -1
      BY <1>2, <1>3, <1>4, <3>1
    <3>2. CASE tSuperv # -1
      BY <1>2, <1>3, <1>4, <3>2
    <3> QED
      BY <3>1, <3>2
  <2>3. Desde(conf', vr') + tSuperv' <= T2
    BY <1>6, <2>1, <2>2
  <2>4. janela \in Nat
    <3>1. CASE tSuperv = -1
      BY <1>2, <1>3, <3>1
    <3>2. CASE tSuperv # -1
      BY <1>2, <1>3, <3>2
    <3> QED
      BY <3>1, <3>2
  <2> HIDE DEF janela
  <2>5. 2 * idade' + tSuperv' < T2 /\ tSuperv' # -1
    <3>1. tSuperv' \in Nat /\ idade \in Nat /\ idade' \in Nat /\ T2 \in Nat
      BY <1>2, <1>3, <2>1, <2>4
    <3>2. idade' <= idade /\ 2 * idade + tSuperv' < T2
      BY <2>1, <2>2
    <3>3. \A i, j, s, t \in Nat : i <= j /\ 2 * j + s < t => 2 * i + s < t
      OBVIOUS
    <3>4. 2 * idade' + tSuperv' < T2
      BY <3>1, <3>2, <3>3
    <3>5. \A s \in Nat : s # -1
      OBVIOUS
    <3> QED
      BY <3>1, <3>4, <3>5
  <2> QED
    BY <1>6, <2>3, <2>5 DEF Contagem, SemConfirmar
<1> QED
  BY <1>1, <1>5, <1>6

(* A second: two less to go, one more of age.                               *)
LEMMA ContagemDoSegundo ==
  ASSUME TypeOK, Contagem, con, onTimerSecond
  PROVE  Contagem'
<1> DEFINE resta == DoisPorSegundo(tSuperv)
<1>1. /\ vr' = vr /\ con'
      /\ tSuperv' = IF resta = 0 THEN -1 ELSE resta
      /\ conf' \in {conf, vr} /\ (resta = 0 => conf' = vr)
      /\ idade' = IF Desde(conf', vr) = 0 THEN 0 ELSE idade + 1
  BY DEF onTimerSecond, EnviaI, Confirma, NadaEnviado
<1>2. /\ T2 \in Nat /\ T2 > 1
      /\ Desde(vr, vr) = 0 /\ Desde(conf, vr) \in Nat
  BY Contas, TemposAssumption DEF TypeOK
<1>3. /\ tSuperv \in {-1} \cup 1..T2 /\ idade \in Nat
      /\ resta = IF tSuperv > 1 THEN tSuperv - 2 ELSE IF tSuperv = 1 THEN 0 ELSE -1
  BY DEF TypeOK, DoisPorSegundo, Decrementa
<1>4. IF tSuperv = -1 THEN Desde(conf, vr) = 0 /\ idade = 0
      ELSE Desde(conf, vr) + tSuperv <= T2 /\ 2 * idade + tSuperv < T2
  BY DEF Contagem, SemConfirmar
<1>5. IF tSuperv' = -1 THEN Desde(conf', vr') = 0 /\ idade' = 0
      ELSE Desde(conf', vr') + tSuperv' <= T2 /\ 2 * idade' + tSuperv' < T2
  BY <1>1, <1>2, <1>3, <1>4
<1> QED
  BY <1>1, <1>5 DEF Contagem, SemConfirmar

(* A frame of the driver's own acknowledges everything.                     *)
LEMMA ContagemDoEnvio ==
  ASSUME TypeOK, Contagem, EnviaI(vr), UNCHANGED <<con, vr, tSuperv>>,
         idade' = IF con THEN 0 ELSE idade
  PROVE  Contagem'
<1>1. /\ Desde(vr, vr) = 0 /\ Desde(conf, vr) \in Nat
      /\ tSuperv \in {-1} \cup 1..T2 /\ T2 \in Nat /\ idade \in Nat
  BY Contas, TemposAssumption DEF TypeOK
<1> QED
  BY <1>1 DEF Contagem, SemConfirmar, EnviaI

(* Every step keeps the count of the window.                                *)
LEMMA ContagemDoPasso == TypeOK /\ SoConectado /\ Contagem /\ [Next]_vars => Contagem'
<1> SUFFICES ASSUME TypeOK, SoConectado, Contagem, [Next]_vars PROVE Contagem'
  OBVIOUS
<1> DEFINE Alheio == UNCHANGED <<con, vr, conf, tSuperv, idade>>
<1>0. Alheio => Contagem'
  BY DEF Contagem, SemConfirmar
<1>1. CASE onConnectTCP
  <2>1. tSuperv' = -1 /\ vr' = 0 /\ conf' = 0 /\ idade' = 0
    BY <1>1 DEF onConnectTCP, Zera, SoConectado
  <2>2. Desde(0, 0) = 0
    BY DEF Desde
  <2> QED
    BY <2>1, <2>2 DEF Contagem, SemConfirmar
<1>2. CASE onTimerSecond
  <2>1. CASE ~con
    BY <1>0, <1>2, <2>1 DEF onTimerSecond, vars, link, rtu
  <2> QED
    BY <1>2, <2>1, ContagemDoSegundo
<1>3. CASE solicitGI \/ sendCommand
  BY <1>3, ContagemDoEnvio DEF solicitGI, sendCommand
<1>4. CASE LeQuadro \/ LeForaDeLugar
  <2>1. con
    BY <1>4 DEF LeQuadro, LeForaDeLugar, NoLugar, SoConectado
  <2>2. ASSUME NEW m, NEW q, parseAPDU(m, q) PROVE Contagem'
    <3>1. CASE m.tipo # "I"
      BY <1>0, <2>2, <3>1 DEF parseAPDU, RecebeU, rtu
    <3>2. CASE m.tipo = "I" /\ ForaDeOrdem(m.n)
      BY <2>2, <3>2 DEF parseAPDU, onDisconnectTCP, Contagem
    <3>3. CASE m.tipo = "I" /\ ~ForaDeOrdem(m.n)
      BY <2>1, <2>2, <3>3, ContagemDaLeitura DEF parseAPDU
    <3> QED
      BY <3>1, <3>2, <3>3
  <2> QED
    BY <1>4, <2>2 DEF LeQuadro, LeForaDeLugar
<1>5. CASE Cai \/ DesisteRTU
  BY <1>5 DEF Cai, DesisteRTU, onDisconnectTCP, Contagem
<1>6. CASE QuadroQuebrado \/ TestaLinha \/ IgnoraPedido
  BY <1>0, <1>6 DEF QuadroQuebrado, TestaLinha, IgnoraPedido, link, rtu
<1>7. ASSUME NEW q \in Pedidos, Responde(q) PROVE Contagem'
  BY <1>0, <1>7 DEF Responde, link, leitura
<1>8. ASSUME NEW a \in {"dado", "teste"}, EnviaDado(a) PROVE Contagem'
  BY <1>0, <1>8 DEF EnviaDado, link, leitura
<1>9. CASE UNCHANGED vars
  BY <1>0, <1>9 DEF vars, link, rtu, leitura
<1> QED
  BY <1>1, <1>2, <1>3, <1>4, <1>5, <1>6, <1>7, <1>8, <1>9 DEF Next

(* Every step keeps the invariant.                                          *)
LEMMA NextIInv == IInv /\ [Next]_vars => IInv'
BY TipoDoPasso, SeqDoPasso, SoConectadoDoPasso, ContagemDoPasso DEF IInv

(* The inductive invariant of the link always holds: types, numbers towards *)
(* the RTU, and the count of the window.                                    *)
THEOREM Invariante == Spec => []IInv
BY InitIInv, NextIInv, PTL DEF Spec

(* The types of the state of the link.                                      *)
THEOREM TipoCorreto == Spec => []TypeOK
BY Invariante, PTL DEF IInv

(* The driver's numbers never show the RTU a gap.                           *)
THEOREM SeqSempreCerta == Spec => []SeqCerta
BY Invariante, PTL DEF IInv

(* Acknowledgements are on time: with T2 = 8, fewer than eight frames and   *)
(* no more than three seconds.                                              *)
THEOREM ConfirmacaoSempreEmDia == Spec => []ConfirmacaoEmDia
<1>1. IInv => ConfirmacaoEmDia
  <2> SUFFICES ASSUME IInv, con PROVE SemConfirmar < T2 /\ 2 * idade < T2
    BY DEF ConfirmacaoEmDia
  <2>1. /\ tSuperv \in {-1} \cup 1..T2 /\ T2 \in Nat /\ T2 > 1
        /\ idade \in Nat /\ SemConfirmar \in Nat
    BY Contas, TemposAssumption DEF IInv, TypeOK, SemConfirmar
  <2> QED
    BY <2>1 DEF IInv, Contagem
<1> QED
  BY <1>1, Invariante, PTL

-----------------------------------------------------------------------------
(***************************************************************************)
(* The numbers in transit, seen from the one the driver expects (r): up to *)
(* the RTU's next one (s), the data frames to read (v) come in increasing  *)
(* order.  If the driver spent none, every number of the interval is on    *)
(* its way; if it spent one, the expected one is not, and will not come    *)
(* while the window holds, for it is shorter than the cycle of numbers.    *)
(***************************************************************************)
Dados(v) == {i \in 1..Len(v) : v[i].tipo = "I"}

EmOrdem(r, s, v) ==
  /\ \A i \in Dados(v) : Desde(r, v[i].n) < Desde(r, s)
  /\ \A i, j \in Dados(v) : i < j => Desde(r, v[i].n) < Desde(r, v[j].n)

Completa(r, s, v) ==
  \A d \in Numeros : Desde(r, d) < Desde(r, s) => \E i \in Dados(v) : v[i].n = d

SemEsperado(r, s, v) == r # s /\ \A i \in Dados(v) : v[i].n # r

JanelaDaRTU == con /\ ~engano => Desde(conf, vr) + Desde(vr, ns) <= K

Transito ==
  con /\ ~engano =>
    /\ EmOrdem(vr, ns, volta)
    /\ IF lacuna THEN SemEsperado(vr, ns, volta) ELSE Completa(vr, ns, volta)

(* No read broke: the next byte is the first one of a frame.                *)
EmEsquadro ==
  con /\ ~quebrou => /\ ~broken_msg /\ ~lacuna /\ ~engano
                     /\ \A i \in 1..Len(volta) : volta[i] # Resto

NInv == IInv /\ JanelaDaRTU /\ Transito /\ EmEsquadro

(* More arithmetic of the numbers.                                          *)
LEMMA Distancias ==
  ASSUME NEW a \in Numeros, NEW b \in Numeros
  PROVE  /\ Desde(a, b) \in Nat /\ Desde(a, b) < ModSeq
         /\ Desde(a, b) = 0 <=> a = b
         /\ Desde(a, b) < ModSeq - 1 => Desde(a, Prox(b)) = Desde(a, b) + 1
         /\ a # b => Desde(Prox(a), b) = Desde(a, b) - 1
         /\ Desde(Prox(a), a) = ModSeq - 1
BY JanelaAssumption DEF Prox, Desde

(* Distances add up while they do not wrap.                                 *)
LEMMA DistanciaSoma ==
  ASSUME NEW a \in Numeros, NEW b \in Numeros, NEW c \in Numeros,
         Desde(a, b) + Desde(b, c) < ModSeq
  PROVE  Desde(a, c) = Desde(a, b) + Desde(b, c)
BY JanelaAssumption DEF Desde

(* At one distance from a number there is one number.                       *)
LEMMA Trechos ==
  ASSUME NEW a \in Numeros, NEW b \in Numeros, NEW c \in Numeros
  PROVE  Desde(a, b) = Desde(a, c) => b = c
BY JanelaAssumption DEF Desde

HIDE DEF Numeros

(* What is left of the frames after the first one is read.                  *)
LEMMA RestoDaFila ==
  ASSUME NEW v \in Seq(Lidos), v # <<>>
  PROVE  /\ Tail(v) \in Seq(Lidos)
         /\ \A j \in Dados(Tail(v)) : /\ j + 1 \in Dados(v) /\ Tail(v)[j] = v[j + 1]
                                      /\ j \in Nat /\ j >= 1
         /\ \A i \in Dados(v) : i # 1 => i - 1 \in Dados(Tail(v)) /\ Tail(v)[i - 1] = v[i]
         /\ Dados(v) \subseteq Nat /\ \A i \in Dados(v) : i >= 1
         /\ Head(v) = v[1] /\ (Head(v).tipo = "I" <=> 1 \in Dados(v))
BY DEF Dados

(* One more frame leaves the others where they were.                        *)
LEMMA FilaMaior ==
  ASSUME NEW v \in Seq(Lidos), NEW m \in Lidos
  PROVE  /\ Append(v, m) \in Seq(Lidos)
         /\ \A i \in Dados(v) : i \in Dados(Append(v, m)) /\ Append(v, m)[i] = v[i]
         /\ \A i \in Dados(Append(v, m)) :
              \/ i \in Dados(v)
              \/ i = Len(v) + 1 /\ m.tipo = "I" /\ Append(v, m)[i] = m
         /\ m.tipo = "I" => Len(v) + 1 \in Dados(Append(v, m))
         /\ \A i \in Dados(v) : i \in Nat /\ i <= Len(v)
         /\ Append(v, m)[Len(v) + 1] = m
BY DEF Dados

(* The number of a data frame is a number.                                  *)
LEMMA NumeroDeQuadro ==
  ASSUME NEW v \in Seq(Lidos), NEW i \in Dados(v)
  PROVE  v[i].n \in Numeros /\ i \in Nat
<1>1. v[i] \in Lidos /\ i \in Nat
  BY DEF Dados
<1>2. 0 \in Numeros
  BY JanelaAssumption DEF Numeros
<1> QED
  BY <1>1, <1>2 DEF Lidos, Quadros, Resto, U

(* w is what is left of v after its first k frames, of which the last may   *)
(* leave a part that is no data frame.                                      *)
Corte(v, w, k) ==
  \E d \in Int :
    /\ \A j \in Dados(w) : j + d \in Dados(v) /\ j + d > k /\ w[j] = v[j + d]
    /\ \A i \in Dados(v) : i > k => i - d \in Dados(w) /\ w[i - d] = v[i]

(* Reading the first frame cuts one.                                        *)
LEMMA CorteDaCabeca ==
  ASSUME NEW v \in Seq(Lidos), v # <<>>
  PROVE  Corte(v, Tail(v), 1)
<1>0. \A i \in Nat : (i >= 1 => i + 1 > 1) /\ (i > 1 => i # 1)
  OBVIOUS
<1>1. \A j \in Dados(Tail(v)) :
        j + 1 \in Dados(v) /\ j + 1 > 1 /\ Tail(v)[j] = v[j + 1]
  <2>1. \A j \in Dados(Tail(v)) :
          j \in Nat /\ j >= 1 /\ j + 1 \in Dados(v) /\ Tail(v)[j] = v[j + 1]
    BY RestoDaFila
  <2> QED
    BY <1>0, <2>1
<1>2. \A i \in Dados(v) : i > 1 => i - 1 \in Dados(Tail(v)) /\ Tail(v)[i - 1] = v[i]
  <2>1. \A i \in Dados(v) : i \in Nat
    BY RestoDaFila
  <2>2. \A i \in Dados(v) : i # 1 => i - 1 \in Dados(Tail(v)) /\ Tail(v)[i - 1] = v[i]
    BY RestoDaFila
  <2> QED
    BY <1>0, <2>1, <2>2
<1>3. 1 \in Int
  OBVIOUS
<1> QED
  BY <1>1, <1>2, <1>3, Zenon DEF Corte

(* Spending k frames, the last whole or not, cuts k.                        *)
LEMMA CorteDaSobra ==
  ASSUME volta \in Seq(Lidos), NEW k \in 1..Len(volta), NEW inteiro \in BOOLEAN
  PROVE  Corte(volta, Sobra(k, inteiro), k)
<1> DEFINE v == volta
           w == Sobra(k, inteiro)
           r == SubSeq(v, k + 1, Len(v))
<1>1. /\ Len(v) \in Nat /\ Len(r) = Len(v) - k
      /\ \A j \in 1..Len(v) - k : r[j] = v[j + k]
  OBVIOUS
<1>2. CASE inteiro
  <2>1. w = r
    BY <1>2 DEF Sobra
  <2>2. \A j \in Dados(w) : j + k \in Dados(v) /\ j + k > k /\ w[j] = v[j + k]
    BY <1>1, <2>1 DEF Dados
  <2>3. \A i \in Dados(v) : i > k => i - k \in Dados(w) /\ w[i - k] = v[i]
    <3> HIDE DEF w, r
    <3> SUFFICES ASSUME NEW i \in Dados(v), i > k
                 PROVE  i - k \in Dados(w) /\ w[i - k] = v[i]
      OBVIOUS
    <3>1. i \in 1..Len(v) /\ v[i].tipo = "I"
      BY DEF Dados
    <3>2. i - k \in 1..Len(v) - k /\ i - k + k = i
      BY <1>1, <3>1
    <3>3. w[i - k] = v[i]
      BY <1>1, <2>1, <3>2
    <3> QED
      BY <1>1, <2>1, <3>1, <3>2, <3>3 DEF Dados
  <2> QED
    BY <2>2, <2>3 DEF Corte
<1>3. CASE ~inteiro
  <2>1. w = <<Resto>> \o r
    BY <1>3 DEF Sobra
  <2>2. Len(w) = Len(v) - k + 1 /\ w[1] = Resto /\ Resto.tipo # "I"
    BY <1>1, <2>1 DEF Resto, U
  <2>3. \A j \in 2..Len(w) : w[j] = v[j + (k - 1)]
    BY <1>1, <2>1, <2>2
  <2> HIDE DEF w, r
  <2>4. \A j \in Dados(w) :
          j + (k - 1) \in Dados(v) /\ j + (k - 1) > k /\ w[j] = v[j + (k - 1)]
    <3> SUFFICES ASSUME NEW j \in Dados(w)
                 PROVE  j + (k - 1) \in Dados(v) /\ j + (k - 1) > k /\ w[j] = v[j + (k - 1)]
      OBVIOUS
    <3>1. j \in 1..Len(w) /\ w[j].tipo = "I" /\ j # 1
      BY <2>2 DEF Dados
    <3>2. j \in 2..Len(w)
      BY <1>1, <2>2, <3>1
    <3>3. w[j] = v[j + (k - 1)]
      BY <2>3, <3>2
    <3>4. j + (k - 1) \in 1..Len(v) /\ j + (k - 1) > k
      BY <1>1, <2>2, <3>2
    <3> QED
      BY <3>1, <3>3, <3>4 DEF Dados
  <2>5. \A i \in Dados(v) :
          i > k => i - (k - 1) \in Dados(w) /\ w[i - (k - 1)] = v[i]
    <3> SUFFICES ASSUME NEW i \in Dados(v), i > k
                 PROVE  i - (k - 1) \in Dados(w) /\ w[i - (k - 1)] = v[i]
      OBVIOUS
    <3>1. i \in 1..Len(v) /\ v[i].tipo = "I"
      BY DEF Dados
    <3>2. i - (k - 1) \in 2..Len(w) /\ i - (k - 1) + (k - 1) = i
      BY <1>1, <2>2, <3>1
    <3>3. w[i - (k - 1)] = v[i]
      BY <2>3, <3>2
    <3>4. i - (k - 1) \in 1..Len(w)
      BY <3>2
    <3> QED
      BY <3>1, <3>3, <3>4 DEF Dados
  <2> QED
    <3>1. k - 1 \in Int
      OBVIOUS
    <3>2. Corte(v, w, k)
      BY <2>4, <2>5, <3>1 DEF Corte
    <3> QED
      BY <3>2 DEF w, v
<1> QED
  BY <1>2, <1>3

(* What is left is still in order.                                          *)
LEMMA OrdemDoCorte ==
  ASSUME NEW r \in Numeros, NEW s \in Numeros, NEW v \in Seq(Lidos), NEW w \in Seq(Lidos),
         NEW k \in Nat, Corte(v, w, k), EmOrdem(r, s, v)
  PROVE  EmOrdem(r, s, w)
<1>1. PICK d \in Int :
        \A j \in Dados(w) : j + d \in Dados(v) /\ w[j] = v[j + d]
  BY DEF Corte
<1>2. \A i, j \in Dados(w) : i < j => i + d < j + d
  <2>1. \A i, j \in Nat : i < j => i + d < j + d
    OBVIOUS
  <2> QED
    BY <2>1, NumeroDeQuadro
<1> QED
  BY <1>1, <1>2 DEF EmOrdem

(* The expected one is still missing.                                       *)
LEMMA FaltaDoCorte ==
  ASSUME NEW r \in Numeros, NEW s \in Numeros, NEW v \in Seq(Lidos), NEW w \in Seq(Lidos),
         NEW k \in Nat, Corte(v, w, k), SemEsperado(r, s, v)
  PROVE  SemEsperado(r, s, w)
BY DEF Corte, SemEsperado

(* Nothing is missing if no data frame was spent.                           *)
LEMMA CorteSemDado ==
  ASSUME NEW r \in Numeros, NEW s \in Numeros, NEW v \in Seq(Lidos), NEW w \in Seq(Lidos),
         NEW k \in Nat, Corte(v, w, k), Completa(r, s, v),
         \A i \in Dados(v) : i > k
  PROVE  Completa(r, s, w)
<1> SUFFICES ASSUME NEW x \in Numeros, Desde(r, x) < Desde(r, s)
             PROVE  \E i \in Dados(w) : w[i].n = x
  BY DEF Completa
<1>1. PICK i \in Dados(v) : v[i].n = x
  BY DEF Completa
<1>2. PICK d \in Int : i - d \in Dados(w) /\ w[i - d] = v[i]
  BY <1>1 DEF Corte
<1> QED
  BY <1>1, <1>2

(* The expected number is the first of those on their way.                  *)
LEMMA PrimeiroEsperado ==
  ASSUME NEW r \in Numeros, NEW s \in Numeros, NEW v \in Seq(Lidos), v # <<>>,
         EmOrdem(r, s, v), Completa(r, s, v), Head(v).tipo = "I"
  PROVE  Head(v).n = r /\ r # s
<1>1. 1 \in Dados(v) /\ Head(v) = v[1]
  BY RestoDaFila
<1>2. v[1].n \in Numeros /\ Desde(r, v[1].n) \in Nat /\ Desde(r, s) \in Nat
  BY <1>1, NumeroDeQuadro, Distancias, JanelaAssumption
<1>3. Desde(r, r) = 0 /\ Desde(r, v[1].n) < Desde(r, s)
  BY <1>1, Distancias DEF EmOrdem
<1>4. PICK i \in Dados(v) : v[i].n = r
  BY <1>2, <1>3 DEF Completa
<1>5. i = 1
  <2> SUFFICES ASSUME i # 1 PROVE FALSE
    OBVIOUS
  <2>1. 1 < i
    BY RestoDaFila, NumeroDeQuadro
  <2>2. Desde(r, v[1].n) < Desde(r, v[i].n)
    BY <1>1, <2>1 DEF EmOrdem
  <2> QED
    BY <1>2, <1>3, <1>4, <2>2
<1> QED
  BY <1>1, <1>2, <1>3, <1>4, <1>5

(* Spending a data frame leaves the expected one missing.                   *)
LEMMA CorteComDado ==
  ASSUME NEW r \in Numeros, NEW s \in Numeros, NEW v \in Seq(Lidos), NEW w \in Seq(Lidos),
         NEW k \in Nat, Corte(v, w, k), EmOrdem(r, s, v), Completa(r, s, v),
         NEW c \in Dados(v), c <= k
  PROVE  SemEsperado(r, s, w)
<1>1. /\ v[c].n \in Numeros /\ c \in Nat
      /\ Desde(r, v[c].n) \in Nat /\ Desde(r, s) \in Nat /\ Desde(r, r) = 0
  BY NumeroDeQuadro, Distancias, JanelaAssumption
<1>2. r # s
  <2>1. Desde(r, v[c].n) < Desde(r, s)
    BY DEF EmOrdem
  <2> QED
    BY <1>1, <2>1
<1>3. ASSUME NEW j \in Dados(w) PROVE w[j].n # r
  <2>1. PICK i \in Dados(v) : i > k /\ w[j] = v[i]
    BY <1>3 DEF Corte
  <2>2. c < i
    BY <1>1, <2>1, NumeroDeQuadro
  <2>3. Desde(r, v[c].n) < Desde(r, v[i].n)
    BY <2>2 DEF EmOrdem
  <2> QED
    BY <1>1, <2>1, <2>3
<1> QED
  BY <1>2, <1>3 DEF SemEsperado

(* The expected frame is read: the next number is expected.                 *)
LEMMA RestoDaLeitura ==
  ASSUME NEW r \in Numeros, NEW s \in Numeros, NEW v \in Seq(Lidos), v # <<>>,
         EmOrdem(r, s, v), Completa(r, s, v), Head(v).tipo = "I"
  PROVE  EmOrdem(Prox(r), s, Tail(v)) /\ Completa(Prox(r), s, Tail(v))
<1>0. /\ Tail(v) \in Seq(Lidos) /\ Corte(v, Tail(v), 1)
      /\ 1 \in Dados(v) /\ 1 <= 1 /\ 1 \in Nat
  BY RestoDaFila, CorteDaCabeca
<1>1. Head(v).n = r /\ r # s /\ SemEsperado(r, s, Tail(v))
  BY <1>0, PrimeiroEsperado, CorteComDado
<1>2. EmOrdem(r, s, Tail(v)) /\ Tail(v) \in Seq(Lidos)
  BY <1>0, OrdemDoCorte
<1>3. \A d \in Numeros : /\ Desde(r, d) \in Nat
                         /\ d # r => Desde(Prox(r), d) = Desde(r, d) - 1
  BY Distancias, JanelaAssumption
<1>4. \A i \in Dados(Tail(v)) : Tail(v)[i].n \in Numeros /\ Tail(v)[i].n # r
  BY <1>1, <1>2, NumeroDeQuadro DEF SemEsperado
<1>5. EmOrdem(Prox(r), s, Tail(v))
  <2>1. s \in Numeros /\ s # r
    BY <1>1
  <2>2. \A x, y \in Nat : x < y => x - 1 < y - 1
    OBVIOUS
  <2>3. \A x, y \in Numeros : x # r /\ y # r /\ Desde(r, x) < Desde(r, y)
                             => Desde(Prox(r), x) < Desde(Prox(r), y)
    BY <1>3, <2>2
  <2> QED
    BY <1>2, <1>4, <2>1, <2>3 DEF EmOrdem
<1>6. ASSUME NEW d \in Numeros, Desde(Prox(r), d) < Desde(Prox(r), s)
      PROVE  \E i \in Dados(Tail(v)) : Tail(v)[i].n = d
  <2>1. Desde(Prox(r), s) = Desde(r, s) - 1 /\ Desde(r, s) < ModSeq
    BY <1>1, <1>3, Distancias
  <2>2. d # r
    <3>1. Desde(Prox(r), r) = ModSeq - 1 /\ Desde(r, s) \in Nat /\ ModSeq \in Nat
      BY Distancias, JanelaAssumption
    <3> QED
      BY <1>6, <2>1, <3>1
  <2>3. Desde(r, d) < Desde(r, s)
    BY <1>3, <1>6, <2>1, <2>2
  <2>4. PICK i \in Dados(v) : v[i].n = d
    BY <2>3 DEF Completa
  <2>5. i # 1
    BY <1>1, <2>2, <2>4, RestoDaFila
  <2>6. i - 1 \in Dados(Tail(v)) /\ Tail(v)[i - 1] = v[i]
    BY <2>5, RestoDaFila
  <2> QED
    BY <2>4, <2>6
<1> QED
  BY <1>5, <1>6 DEF Completa

(* The RTU sends a frame without number.                                    *)
LEMMA MaisSemDado ==
  ASSUME NEW r \in Numeros, NEW s \in Numeros, NEW v \in Seq(Lidos),
         NEW m \in Lidos, m.tipo # "I"
  PROVE  /\ EmOrdem(r, s, v) => EmOrdem(r, s, Append(v, m))
         /\ Completa(r, s, v) => Completa(r, s, Append(v, m))
         /\ SemEsperado(r, s, v) => SemEsperado(r, s, Append(v, m))
<1>1. \A i \in Dados(Append(v, m)) : i \in Dados(v)
  BY FilaMaior
<1>2. \A i \in Dados(v) : i \in Dados(Append(v, m)) /\ Append(v, m)[i] = v[i]
  BY FilaMaior
<1> QED
  BY <1>1, <1>2 DEF EmOrdem, Completa, SemEsperado

(* The RTU sends its next data frame, with room in its window.              *)
LEMMA MaisDado ==
  ASSUME NEW r \in Numeros, NEW s \in Numeros, NEW v \in Seq(Lidos),
         NEW m \in Lidos, m.tipo = "I", m.n = s, Desde(r, s) < K, EmOrdem(r, s, v)
  PROVE  /\ EmOrdem(r, Prox(s), Append(v, m))
         /\ Completa(r, s, v) => Completa(r, Prox(s), Append(v, m))
         /\ SemEsperado(r, s, v) => SemEsperado(r, Prox(s), Append(v, m))
<1> DEFINE w == Append(v, m)
           f == Len(v) + 1
<1>1. /\ K < ModSeq /\ K \in Nat /\ ModSeq \in Nat
      /\ Desde(r, s) \in Nat /\ Prox(s) \in Numeros
      /\ Desde(r, Prox(s)) = Desde(r, s) + 1
  BY Distancias, Contas, JanelaAssumption
<1>2. /\ \A i \in Dados(v) : i \in Dados(w) /\ w[i] = v[i]
      /\ \A i \in Dados(w) : i \in Dados(v) \/ i = f
      /\ f \in Dados(w) /\ w[f] = m /\ f \in Nat
      /\ \A i, j \in Dados(w) : i < j => i # f
  <2>1. /\ \A i \in Dados(v) : i \in Dados(w) /\ w[i] = v[i] /\ i \in 1..Len(v)
        /\ \A i \in Dados(w) : i \in Dados(v) \/ i = f
        /\ f \in Dados(w) /\ w[f] = m
    BY FilaMaior DEF Dados
  <2>2. Len(v) \in Nat /\ f \in Nat
    OBVIOUS
  <2>3. \A i \in 1..Len(v) : ~(f < i)
    BY <2>2
  <2>4. ~(f < f)
    BY <2>2
  <2> HIDE DEF w, f
  <2> QED
    BY <2>1, <2>2, <2>3, <2>4
<1> HIDE DEF w, f
<1>3. \A i \in Dados(v) : Desde(r, v[i].n) \in Nat /\ v[i].n \in Numeros
  BY NumeroDeQuadro, Distancias, JanelaAssumption
<1>4. EmOrdem(r, Prox(s), w)
  <2>1. \A i \in Dados(w) : Desde(r, w[i].n) < Desde(r, Prox(s))
    BY <1>1, <1>2, <1>3 DEF EmOrdem
  <2>2. ASSUME NEW i \in Dados(w), NEW j \in Dados(w), i < j
        PROVE  Desde(r, w[i].n) < Desde(r, w[j].n)
    <3>1. i \in Dados(v)
      BY <1>2, <2>2
    <3> QED
      BY <1>2, <2>2, <3>1 DEF EmOrdem
  <2> QED
    BY <2>1, <2>2 DEF EmOrdem
<1>5. ASSUME Completa(r, s, v), NEW d \in Numeros, Desde(r, d) < Desde(r, Prox(s))
      PROVE  \E i \in Dados(w) : w[i].n = d
  <2>1. CASE Desde(r, d) < Desde(r, s)
    <3>1. PICK i \in Dados(v) : v[i].n = d
      BY <1>5, <2>1 DEF Completa
    <3> QED
      BY <1>2, <3>1
  <2>2. CASE ~(Desde(r, d) < Desde(r, s))
    <3>1. Desde(r, d) \in Nat
      BY Distancias, JanelaAssumption
    <3>2. Desde(r, d) = Desde(r, s)
      BY <1>1, <1>5, <2>2, <3>1
    <3>3. d = s
      BY <3>2, Trechos
    <3> QED
      BY <1>2, <3>3
  <2> QED
    BY <2>1, <2>2
<1>6. SemEsperado(r, s, v) => SemEsperado(r, Prox(s), w)
  <2>1. Prox(s) # r
    BY <1>1, Distancias
  <2> QED
    BY <1>2, <2>1 DEF SemEsperado
<1> QED
  BY <1>4, <1>5, <1>6 DEF Completa, w

-----------------------------------------------------------------------------
(* What the window and the frames in transit depend on.                     *)
LEMMA TransitoAlheio ==
  ASSUME Transito, UNCHANGED <<con, vr, ns, volta, lacuna, engano>>
  PROVE  Transito'
BY DEF Transito, EmOrdem, Completa, SemEsperado, Dados

(* An acknowledgement of all that was received gives the RTU more room.     *)
LEMMA JanelaMaior ==
  ASSUME TypeOK, JanelaDaRTU, UNCHANGED <<con, vr, ns, engano>>,
         conf' \in {conf, vr}
  PROVE  JanelaDaRTU'
<1>1. /\ Desde(conf, vr) \in Nat /\ Desde(vr, vr) = 0 /\ Desde(vr, ns) \in Nat
      /\ K \in Nat
  BY Distancias, JanelaAssumption DEF TypeOK
<1>2. con /\ ~engano => Desde(conf', vr) + Desde(vr, ns) <= K
  <2>1. CASE conf' = conf
    BY <2>1 DEF JanelaDaRTU
  <2>2. CASE conf' = vr
    BY <1>1, <2>2 DEF JanelaDaRTU
  <2> QED
    BY <2>1, <2>2
<1> QED
  BY <1>2 DEF JanelaDaRTU

(* The expected data frame is read.                                         *)
LEMMA TransitoDaLeitura ==
  ASSUME TypeOK, JanelaDaRTU, Transito, con, ~engano, volta # <<>>,
         Head(volta).tipo = "I", ~ForaDeOrdem(Head(volta).n), RecebeI(Head(volta)),
         volta' = Tail(volta), UNCHANGED <<lacuna, engano>>
  PROVE  JanelaDaRTU' /\ Transito' /\ ~lacuna
<1> DEFINE m == Head(volta)
<1>0. /\ m.n = vr /\ vr \in Numeros /\ ns \in Numeros /\ conf \in Numeros
      /\ volta \in Seq(Lidos)
  BY DEF ForaDeOrdem, TypeOK
<1>1. /\ vr' = Prox(vr) /\ volta' = Tail(volta) /\ ns' = ns /\ con' = con
      /\ lacuna' = lacuna /\ conf' \in {conf, vr'}
  BY <1>0 DEF RecebeI, EnviaI, Confirma, NadaEnviado
<1>2. ~lacuna
  <2>1. 1 \in Dados(volta) /\ Head(volta) = volta[1]
    BY <1>0, RestoDaFila
  <2> QED
    BY <1>0, <2>1 DEF Transito, SemEsperado
<1>3. EmOrdem(vr, ns, volta) /\ Completa(vr, ns, volta)
  BY <1>2 DEF Transito
<1>4. EmOrdem(Prox(vr), ns, Tail(volta)) /\ Completa(Prox(vr), ns, Tail(volta))
  BY <1>0, <1>3, RestoDaLeitura
<1>5. Transito'
  <2>1. EmOrdem(vr, ns, volta)' /\ Completa(vr, ns, volta)'
    BY <1>1, <1>4 DEF EmOrdem, Completa, Dados
  <2> QED
    BY <1>1, <1>2, <2>1 DEF Transito
<1>6. vr # ns
  BY <1>0, <1>3, PrimeiroEsperado
<1>7. Desde(conf, vr) + Desde(vr, ns) <= K
  BY DEF JanelaDaRTU
<1>8. /\ Desde(conf, vr) \in Nat /\ Desde(vr, ns) \in Nat /\ Desde(vr, ns) # 0
      /\ Desde(Prox(vr), ns) = Desde(vr, ns) - 1
      /\ Desde(conf, vr) < ModSeq - 1 => Desde(conf, Prox(vr)) = Desde(conf, vr) + 1
      /\ Desde(Prox(vr), Prox(vr)) = 0
      /\ K \in Nat /\ ModSeq \in Nat /\ K < ModSeq
  <2>1. Prox(vr) \in Numeros
    BY <1>0, Contas
  <2> QED
    BY <1>0, <1>6, <2>1, Distancias, JanelaAssumption
<1>9. Desde(conf', Prox(vr)) + Desde(Prox(vr), ns) <= K
  <2>1. CASE conf' = Prox(vr)
    BY <1>7, <1>8, <2>1
  <2>2. CASE conf' = conf
    BY <1>7, <1>8, <2>2
  <2> QED
    BY <1>1, <2>1, <2>2
<1> QED
  BY <1>1, <1>2, <1>5, <1>9 DEF JanelaDaRTU

(* The RTU sends a data frame.                                              *)
LEMMA TransitoDoDado ==
  ASSUME TypeOK, JanelaDaRTU, Transito, con, ~engano, Janela, NEW a \in Asdus,
         volta' = Append(volta, I(a)), ns' = Prox(ns),
         UNCHANGED <<con, vr, conf, lacuna, engano>>
  PROVE  JanelaDaRTU' /\ Transito'
<1>1. /\ vr \in Numeros /\ ns \in Numeros /\ conf \in Numeros
      /\ volta \in Seq(Lidos) /\ lacuna \in BOOLEAN
      /\ I(a) \in Lidos /\ I(a).tipo = "I" /\ I(a).n = ns
  BY QuadrosDaRTU DEF TypeOK, I
<1>2. /\ K \in Nat /\ ModSeq \in Nat /\ K < ModSeq
      /\ Desde(conf, vr) \in Nat /\ Desde(vr, ns) \in Nat
      /\ Desde(vr, ns) < ModSeq - 1 => Desde(vr, Prox(ns)) = Desde(vr, ns) + 1
  BY <1>1, Distancias, JanelaAssumption
<1>3. Desde(conf, vr) + Desde(vr, ns) < K
  <2>1. Desde(conf, vr) + Desde(vr, ns) <= K /\ Desde(conf, ns) < K
    BY DEF JanelaDaRTU, Janela
  <2>2. Desde(conf, ns) = Desde(conf, vr) + Desde(vr, ns)
    BY <1>1, <1>2, <2>1, DistanciaSoma
  <2> QED
    BY <2>1, <2>2
<1>4. Desde(vr, ns) < K /\ Desde(vr, Prox(ns)) = Desde(vr, ns) + 1
  BY <1>2, <1>3
<1>5. JanelaDaRTU'
  <2>1. Desde(conf, vr) + Desde(vr, Prox(ns)) <= K
    BY <1>2, <1>3, <1>4
  <2> QED
    BY <2>1 DEF JanelaDaRTU
<1>6. /\ EmOrdem(vr, Prox(ns), Append(volta, I(a)))
      /\ IF lacuna THEN SemEsperado(vr, Prox(ns), Append(volta, I(a)))
         ELSE Completa(vr, Prox(ns), Append(volta, I(a)))
  BY <1>1, <1>4, MaisDado DEF Transito
<1>7. Transito'
  BY <1>6 DEF Transito, EmOrdem, Completa, SemEsperado, Dados
<1> QED
  BY <1>5, <1>7

(* The RTU sends a frame without number.                                    *)
LEMMA TransitoDeU ==
  ASSUME TypeOK, Transito, NEW t \in {"STARTDTCON", "TESTFRCON", "TESTFRACT"},
         volta' = Append(volta, U(t)), UNCHANGED <<con, vr, ns, lacuna, engano>>
  PROVE  Transito'
<1>1. /\ vr \in Numeros /\ ns \in Numeros /\ volta \in Seq(Lidos)
      /\ U(t) \in Lidos /\ U(t).tipo # "I"
  BY QuadrosDaRTU DEF TypeOK, U
<1>2. con /\ ~engano =>
        /\ EmOrdem(vr, ns, Append(volta, U(t)))
        /\ IF lacuna THEN SemEsperado(vr, ns, Append(volta, U(t)))
           ELSE Completa(vr, ns, Append(volta, U(t)))
  BY <1>1, MaisSemDado DEF Transito
<1> QED
  BY <1>2 DEF Transito, EmOrdem, Completa, SemEsperado, Dados

(* The first frames are spent, and no data frame is read.                   *)
LEMMA TransitoDoCorte ==
  ASSUME TypeOK, JanelaDaRTU, Transito, NEW k \in Nat, NEW w \in Seq(Lidos),
         Corte(volta, w, k), volta' = w, UNCHANGED <<con, vr, ns, conf, engano>>,
         lacuna' = (lacuna \/ \E c \in Dados(volta) : c <= k)
  PROVE  JanelaDaRTU' /\ Transito'
<1>1. vr \in Numeros /\ ns \in Numeros /\ volta \in Seq(Lidos)
  BY DEF TypeOK
<1>2. ASSUME con, ~engano
      PROVE  /\ EmOrdem(vr, ns, w)
             /\ IF lacuna' THEN SemEsperado(vr, ns, w) ELSE Completa(vr, ns, w)
  <2>1. EmOrdem(vr, ns, volta)
    BY <1>2 DEF Transito
  <2>2. EmOrdem(vr, ns, w)
    BY <1>1, <2>1, OrdemDoCorte
  <2>3. CASE lacuna
    BY <1>1, <1>2, <2>2, <2>3, FaltaDoCorte DEF Transito
  <2>4. CASE ~lacuna /\ \E c \in Dados(volta) : c <= k
    BY <1>1, <1>2, <2>1, <2>2, <2>4, CorteComDado DEF Transito
  <2>5. CASE ~lacuna /\ ~(\E c \in Dados(volta) : c <= k)
    <3>1. \A i \in Dados(volta) : i > k
      BY <1>1, <2>5, NumeroDeQuadro
    <3> QED
      BY <1>1, <1>2, <2>2, <2>5, <3>1, CorteSemDado DEF Transito
  <2> QED
    BY <2>3, <2>4, <2>5
<1>3. JanelaDaRTU'
  BY DEF JanelaDaRTU
<1>4. Transito'
  BY <1>2 DEF Transito, EmOrdem, Completa, SemEsperado, Dados
<1> QED
  BY <1>3, <1>4

(* What LeForaDeLugar does.                                                 *)
LEMMA ForaDeLugar ==
  ASSUME LeForaDeLugar
  PROVE  \E k \in 1..Len(volta), m \in Lidos, inteiro \in BOOLEAN :
           /\ parseAPDU(m, Sobra(k, inteiro))
           /\ engano' = (engano \/ m # Resto)
           /\ lacuna' = (lacuna \/ \E c \in Dados(volta) : c <= k)
<1>1. PICK k \in 1..Len(volta), m \in Lidos, inteiro \in BOOLEAN :
        /\ parseAPDU(m, Sobra(k, inteiro))
        /\ engano' = (engano \/ m # Resto)
        /\ lacuna' = (lacuna \/ \E i \in 1..k : volta[i].tipo = "I")
  BY DEF LeForaDeLugar
<1>2. (\E i \in 1..k : volta[i].tipo = "I") <=> \E c \in Dados(volta) : c <= k
  BY DEF Dados
<1> QED
  BY <1>1, <1>2

(* Every step keeps what is known of the numbers in transit.                *)
LEMMA TransitoDoPasso ==
  TypeOK /\ SoConectado /\ JanelaDaRTU /\ Transito /\ [Next]_vars
    => JanelaDaRTU' /\ Transito'
<1> SUFFICES ASSUME TypeOK, SoConectado, JanelaDaRTU, Transito, [Next]_vars
             PROVE  JanelaDaRTU' /\ Transito'
  OBVIOUS
<1> DEFINE OK == JanelaDaRTU' /\ Transito'
<1>0. ~con' \/ engano' => OK
  BY DEF JanelaDaRTU, Transito
<1>a. ASSUME UNCHANGED <<con, vr, ns, volta, lacuna, engano>>, conf' \in {conf, vr}
      PROVE  OK
  BY <1>a, TransitoAlheio, JanelaMaior
<1>1. CASE onConnectTCP
  <2>1. /\ vr' = 0 /\ ns' = 0 /\ conf' = 0 /\ volta' = <<>> /\ lacuna' = FALSE
    BY <1>1 DEF onConnectTCP, Zera
  <2>2. 0 \in Numeros /\ K \in Nat
    BY JanelaAssumption DEF Numeros
  <2>3. Desde(0, 0) = 0 /\ Dados(<<>>) = {}
    BY DEF Desde, Dados
  <2>4. \A d \in Numeros : ~(Desde(0, d) < 0)
    BY <2>2, Distancias
  <2>5. JanelaDaRTU'
    BY <2>1, <2>2, <2>3 DEF JanelaDaRTU
  <2>6. Dados(volta)' = {}
    BY <2>1, <2>3 DEF Dados
  <2>7. EmOrdem(vr, ns, volta)' /\ Completa(vr, ns, volta)'
    BY <2>1, <2>3, <2>4, <2>6 DEF EmOrdem, Completa
  <2> QED
    BY <2>1, <2>5, <2>7 DEF Transito
<1>2. CASE Cai \/ DesisteRTU
  BY <1>0, <1>2 DEF Cai, DesisteRTU, onDisconnectTCP
<1>3. CASE onTimerSecond
  <2>1. CASE ~con
    BY <1>a, <1>3, <2>1 DEF onTimerSecond, vars, link, rtu, leitura
  <2>2. CASE con
    BY <1>a, <1>3, <2>2 DEF onTimerSecond, EnviaI, Confirma, NadaEnviado, leitura
  <2> QED
    BY <2>1, <2>2
<1>4. CASE solicitGI \/ sendCommand
  BY <1>a, <1>4 DEF solicitGI, sendCommand, EnviaI, leitura
<1>5. CASE LeQuadro
  <2> DEFINE m == Head(volta)
  <2>1. /\ con /\ volta # <<>> /\ volta \in Seq(Lidos)
        /\ UNCHANGED <<lacuna, engano>> /\ parseAPDU(m, Tail(volta))
    BY <1>5 DEF LeQuadro, NoLugar, SoConectado, TypeOK
  <2>2. CASE m.tipo # "I"
    <3>1. volta' = Tail(volta) /\ UNCHANGED <<con, vr, ns, conf>>
      BY <2>1, <2>2 DEF parseAPDU, RecebeU, rtu
    <3>2. /\ Tail(volta) \in Seq(Lidos) /\ Corte(volta, Tail(volta), 1) /\ 1 \in Nat
          /\ ~(\E c \in Dados(volta) : c <= 1)
      <4>1. 1 \notin Dados(volta) /\ \A c \in Dados(volta) : c \in Nat /\ c >= 1
        BY <2>1, <2>2, RestoDaFila
      <4>2. \A c \in Nat : c >= 1 /\ c <= 1 => c = 1
        OBVIOUS
      <4> QED
        BY <2>1, <4>1, <4>2, RestoDaFila, CorteDaCabeca
    <3> QED
      BY <2>1, <3>1, <3>2, TransitoDoCorte DEF TypeOK
  <2>3. CASE m.tipo = "I" /\ ForaDeOrdem(m.n)
    BY <1>0, <2>1, <2>3 DEF parseAPDU, onDisconnectTCP
  <2>4. CASE m.tipo = "I" /\ ~ForaDeOrdem(m.n)
    BY <1>0, <2>1, <2>4, TransitoDaLeitura DEF parseAPDU
  <2> QED
    BY <2>2, <2>3, <2>4
<1>6. CASE QuadroQuebrado
  <2>1. /\ volta # <<>> /\ volta \in Seq(Lidos) /\ 1 \in 1..Len(volta) /\ 1 \in Nat
        /\ UNCHANGED <<con, vr, ns, conf, engano>>
    <3>1. volta # <<>> /\ volta \in Seq(Lidos)
      BY <1>6 DEF QuadroQuebrado, NoLugar, TypeOK
    <3> QED
      BY <1>6, <3>1 DEF QuadroQuebrado, link, rtu
  <2>2. CASE UNCHANGED <<volta, lacuna>>
    BY <1>a, <2>1, <2>2
  <2>3. CASE volta' = Sobra(1, FALSE) /\ lacuna' = (lacuna \/ Head(volta).tipo = "I")
    <3>1. Head(volta).tipo = "I" <=> \E c \in Dados(volta) : c <= 1
      <4>1. /\ Head(volta).tipo = "I" <=> 1 \in Dados(volta)
            /\ \A c \in Dados(volta) : c \in Nat /\ c >= 1
        BY <2>1, RestoDaFila
      <4>2. 1 <= 1 /\ \A c \in Nat : c >= 1 /\ c <= 1 => c = 1
        OBVIOUS
      <4> QED
        BY <4>1, <4>2
    <3>2. Sobra(1, FALSE) \in Seq(Lidos) /\ Corte(volta, Sobra(1, FALSE), 1)
      BY <2>1, SobraTipo, CorteDaSobra
    <3> QED
      BY <2>1, <2>3, <3>1, <3>2, TransitoDoCorte
  <2> QED
    BY <1>6, <2>2, <2>3 DEF QuadroQuebrado
<1>12. CASE LeForaDeLugar
  <2>1. PICK k \in 1..Len(volta), m \in Lidos, inteiro \in BOOLEAN :
          /\ parseAPDU(m, Sobra(k, inteiro))
          /\ engano' = (engano \/ m # Resto)
          /\ lacuna' = (lacuna \/ \E c \in Dados(volta) : c <= k)
    BY <1>12, ForaDeLugar
  <2>2. CASE m # Resto
    BY <1>0, <2>1, <2>2
  <2>3. CASE m = Resto
    <3>1. /\ volta' = Sobra(k, inteiro) /\ UNCHANGED <<con, vr, ns, conf>>
          /\ engano \in BOOLEAN /\ engano' = engano
      BY <2>1, <2>3 DEF parseAPDU, RecebeU, rtu, Resto, U, TypeOK
    <3>2. /\ Sobra(k, inteiro) \in Seq(Lidos) /\ Corte(volta, Sobra(k, inteiro), k)
          /\ k \in Nat
      BY <2>1, SobraTipo, CorteDaSobra DEF TypeOK
    <3> QED
      BY <2>1, <3>1, <3>2, TransitoDoCorte
  <2> QED
    BY <2>2, <2>3
<1>7. CASE TestaLinha
  <2>1. Transito'
    BY <1>7, TransitoDeU DEF TestaLinha, link, rtu, leitura
  <2> QED
    BY <1>7, <2>1 DEF TestaLinha, link, rtu, leitura, JanelaDaRTU
<1>8. CASE IgnoraPedido
  BY <1>a, <1>8 DEF IgnoraPedido, link, leitura
<1>9. ASSUME NEW q \in Pedidos, Responde(q) PROVE OK
  <2>1. CASE q = "gi"
    BY <1>0, <1>9, <2>1, TransitoDoDado DEF Responde, Cabe, Asdus, link, leitura
  <2>2. CASE q # "gi"
    <3>1. /\ volta' = Append(volta, U(q)) /\ UNCHANGED <<con, vr, ns, conf, lacuna, engano>>
          /\ q \in {"STARTDTCON", "TESTFRCON", "TESTFRACT"}
      BY <1>9, <2>2 DEF Responde, Pedidos, link, leitura
    <3>2. Transito'
      BY <3>1, TransitoDeU
    <3> QED
      BY <3>1, <3>2 DEF JanelaDaRTU
  <2> QED
    BY <2>1, <2>2
<1>10. ASSUME NEW a \in {"dado", "teste"}, EnviaDado(a) PROVE OK
  BY <1>0, <1>10, TransitoDoDado DEF EnviaDado, Cabe, Asdus, link, leitura
<1>11. CASE UNCHANGED vars
  BY <1>a, <1>11 DEF vars, link, rtu, leitura
<1> QED
  BY <1>1, <1>2, <1>3, <1>4, <1>5, <1>6, <1>7, <1>8, <1>9, <1>10, <1>11, <1>12
     DEF Next

(* While no read broke, the frames come from the RTU and are read whole.    *)
LEMMA EsquadroDoEnvio ==
  ASSUME TypeOK, EmEsquadro, NEW m \in Lidos, m # Resto,
         volta' = Append(volta, m), UNCHANGED <<con, leitura>>
  PROVE  EmEsquadro'
<1>1. /\ Len(Append(volta, m)) = Len(volta) + 1 /\ Len(volta) \in Nat
      /\ Append(volta, m)[Len(volta) + 1] = m
      /\ \A i \in 1..Len(volta) : Append(volta, m)[i] = volta[i]
  BY DEF TypeOK
<1>2. \A i \in 1..Len(volta) + 1 : i \in 1..Len(volta) \/ i = Len(volta) + 1
  BY <1>1
<1>3. (\A i \in 1..Len(volta) : volta[i] # Resto)
        => \A i \in 1..Len(volta)' : volta'[i] # Resto
  BY <1>1, <1>2
<1> QED
  BY <1>3 DEF EmEsquadro, leitura

(* Only a break, or the mark of one, loses the place where frames begin.    *)
LEMMA EsquadroDoPasso ==
  TypeOK /\ EmEsquadro /\ [Next]_vars => EmEsquadro'
<1> SUFFICES ASSUME TypeOK, EmEsquadro, [Next]_vars PROVE EmEsquadro'
  OBVIOUS
<1>0. ~con' \/ quebrou' \/ UNCHANGED <<con, volta, leitura>> => EmEsquadro'
  <2>1. ~con' \/ quebrou' => EmEsquadro'
    BY DEF EmEsquadro
  <2>2. ASSUME UNCHANGED <<con, volta, leitura>> PROVE EmEsquadro'
    BY <2>2 DEF EmEsquadro, leitura
  <2> QED
    BY <2>1, <2>2
<1>1. CASE onConnectTCP
  <2>1. /\ volta' = <<>> /\ quebrou' = broken_msg /\ broken_msg' = broken_msg
        /\ ~lacuna' /\ ~engano'
    BY <1>1 DEF onConnectTCP
  <2> QED
    BY <2>1 DEF EmEsquadro
<1>2. CASE LeQuadro
  <2>1. /\ volta # <<>> /\ volta \in Seq(Lidos) /\ ~broken_msg'
        /\ UNCHANGED <<lacuna, quebrou, engano>> /\ parseAPDU(Head(volta), Tail(volta))
    BY <1>2 DEF LeQuadro, NoLugar, TypeOK
  <2>2. ~con' \/ (con' = con /\ volta' = Tail(volta))
    BY <2>1 DEF parseAPDU, onDisconnectTCP, RecebeI, RecebeU
  <2>3. (\A i \in 1..Len(volta) : volta[i] # Resto)
          => \A i \in 1..Len(Tail(volta)) : Tail(volta)[i] # Resto
    <3>1. /\ Len(Tail(volta)) = Len(volta) - 1 /\ Len(volta) \in Nat
          /\ \A i \in 1..Len(Tail(volta)) : Tail(volta)[i] = volta[i + 1]
      BY <2>1
    <3>2. \A i \in 1..Len(Tail(volta)) : i + 1 \in 1..Len(volta)
      BY <3>1
    <3> QED
      BY <3>1, <3>2
  <2> QED
    BY <1>0, <2>1, <2>2, <2>3 DEF EmEsquadro
<1>3. CASE QuadroQuebrado
  BY <1>0, <1>3 DEF QuadroQuebrado
<1>4. CASE LeForaDeLugar
  <2>1. /\ volta # <<>> /\ volta \in Seq(Lidos) /\ quebrou' = quebrou
        /\ broken_msg \/ Head(volta) = Resto
    BY <1>4 DEF LeForaDeLugar, TypeOK
  <2>2. 1 \in 1..Len(volta) /\ Head(volta) = volta[1]
    BY <2>1
  <2>3. con => quebrou
    BY <2>1, <2>2 DEF EmEsquadro
  <2>4. con' => con
    BY <1>4, ForaDeLugar DEF parseAPDU, onDisconnectTCP, RecebeI, RecebeU
  <2> QED
    BY <1>0, <2>1, <2>3, <2>4
<1>5. CASE Cai \/ DesisteRTU
  BY <1>0, <1>5 DEF Cai, DesisteRTU, onDisconnectTCP
<1>6. CASE onTimerSecond \/ solicitGI \/ sendCommand \/ IgnoraPedido
  BY <1>0, <1>6 DEF onTimerSecond, vars, solicitGI, sendCommand, IgnoraPedido
<1>7. CASE TestaLinha
  BY <1>7, QuadrosDaRTU, EsquadroDoEnvio DEF TestaLinha, TypeOK, U, Resto
<1>8. ASSUME NEW q \in Pedidos, Responde(q) PROVE EmEsquadro'
  <2>1. I("gi") \in Lidos /\ I("gi") # Resto
    BY QuadrosDaRTU DEF TypeOK, Asdus, I, U, Resto
  <2>2. q # "gi" => U(q) \in Lidos /\ U(q) # Resto
    BY QuadrosDaRTU DEF TypeOK, Pedidos, U, Resto
  <2> QED
    BY <1>8, <2>1, <2>2, EsquadroDoEnvio DEF Responde
<1>9. ASSUME NEW a \in {"dado", "teste"}, EnviaDado(a) PROVE EmEsquadro'
  <2>1. I(a) \in Lidos /\ I(a) # Resto
    BY QuadrosDaRTU DEF TypeOK, Asdus, I, U, Resto
  <2> QED
    BY <1>9, <2>1, EsquadroDoEnvio DEF EnviaDado
<1>10. CASE UNCHANGED vars
  BY <1>0, <1>10 DEF vars
<1> QED
  BY <1>1, <1>2, <1>3, <1>4, <1>5, <1>6, <1>7, <1>8, <1>9, <1>10 DEF Next

(* The same of the numbers in transit, with what the driver spent without   *)
(* reading it, the window of the RTU, and what tells the driver where the   *)
(* next frame begins.                                                       *)
THEOREM InvarianteDosNumeros == Spec => []NInv
<1>1. Init => NInv
  BY InitIInv DEF NInv, JanelaDaRTU, Transito, EmEsquadro, Init
<1>2. NInv /\ [Next]_vars => NInv'
  BY NextIInv, TransitoDoPasso, EsquadroDoPasso DEF NInv, IInv
<1> QED
  BY <1>1, <1>2, PTL DEF Spec

(* The driver drops by itself only a connection in which a read broke, or   *)
(* which began with the mark of a broken read: for any length of the        *)
(* numbers, window and timers (parseAPDU, packetReadyTCP, onConnectTCP).    *)
THEOREM QuedaSempreComQuebra == Spec => QuedaSoComQuebra
<1>1. ASSUME NInv, [Next]_vars, con, ~con', ~quebrou, falhas' = falhas PROVE FALSE
  <2> USE DEF NInv
  <2>1. /\ ~broken_msg /\ ~lacuna /\ ~engano
        /\ \A i \in 1..Len(volta) : volta[i] # Resto
    BY <1>1 DEF EmEsquadro
  <2>2. /\ vr \in Numeros /\ ns \in Numeros /\ volta \in Seq(Lidos)
        /\ EmOrdem(vr, ns, volta) /\ Completa(vr, ns, volta)
    BY <1>1, <2>1 DEF IInv, TypeOK, Transito
  <2>3. CASE LeQuadro
    <3>1. volta # <<>> /\ parseAPDU(Head(volta), Tail(volta))
      BY <2>3 DEF LeQuadro, NoLugar
    <3>2. Head(volta).tipo = "I" /\ ForaDeOrdem(Head(volta).n)
      BY <1>1, <3>1 DEF parseAPDU, RecebeI, RecebeU
    <3> QED
      BY <2>2, <3>1, <3>2, PrimeiroEsperado DEF ForaDeOrdem
  <2>4. CASE LeForaDeLugar
    <3>1. volta # <<>> /\ (broken_msg \/ Head(volta) = Resto)
      BY <2>4 DEF LeForaDeLugar
    <3>2. 1 \in 1..Len(volta) /\ Head(volta) = volta[1]
      BY <2>2, <3>1
    <3> QED
      BY <2>1, <3>1, <3>2
  <2>5. CASE DesisteRTU
    <3>1. vr # ns /\ Dados(volta) = {}
      BY <2>5 DEF DesisteRTU, Dados
    <3>2. /\ Desde(vr, vr) = 0 /\ Desde(vr, ns) \in Nat /\ Desde(vr, ns) # 0
      BY <2>2, <3>1, Distancias
    <3>3. Desde(vr, vr) < Desde(vr, ns)
      BY <3>2
    <3> QED
      BY <2>2, <3>1, <3>3 DEF Completa
  <2>6. CASE Cai
    <3>1. falhas \in Nat /\ falhas' = falhas + 1
      BY <1>1, <2>6, JanelaAssumption DEF Cai, Falha, IInv, TypeOK
    <3> QED
      BY <1>1, <3>1
  <2>7. CASE onConnectTCP \/ onTimerSecond \/ solicitGI \/ sendCommand
    BY <1>1, <2>7 DEF onConnectTCP, onTimerSecond, vars, solicitGI, sendCommand
  <2>8. CASE QuadroQuebrado \/ TestaLinha \/ IgnoraPedido
    BY <1>1, <2>8 DEF QuadroQuebrado, TestaLinha, IgnoraPedido
  <2>9. ASSUME NEW q \in Pedidos, Responde(q) PROVE FALSE
    BY <1>1, <2>9 DEF Responde
  <2>10. ASSUME NEW a \in {"dado", "teste"}, EnviaDado(a) PROVE FALSE
    BY <1>1, <2>10 DEF EnviaDado
  <2>11. CASE UNCHANGED vars
    BY <1>1, <2>11 DEF vars
  <2> QED
    BY <1>1, <2>3, <2>4, <2>5, <2>6, <2>7, <2>8, <2>9, <2>10, <2>11 DEF Next
<1>2. ASSUME NInv, [Next]_vars PROVE falhas' = falhas \/ falhas' > falhas \/ con' \/ ~con
  <2> USE DEF NInv, IInv, TypeOK
  <2>1. falhas \in Nat /\ falhas + 1 > falhas
    BY <1>2, JanelaAssumption
  <2>2. CASE LeForaDeLugar
    BY <2>1, <2>2 DEF LeForaDeLugar, Falha
  <2>3. CASE ~LeForaDeLugar
    BY <1>2, <2>1, <2>3
       DEF Next, vars, onConnectTCP, Cai, Falha, onTimerSecond, solicitGI, sendCommand,
           LeQuadro, QuadroQuebrado, TestaLinha, IgnoraPedido, DesisteRTU, Responde,
           EnviaDado
  <2> QED
    BY <2>2, <2>3
<1>3. NInv /\ [Next]_vars => [con /\ ~con' => quebrou \/ falhas' > falhas]_vars
  BY <1>1, <1>2
<1> QED
  BY <1>3, InvarianteDosNumeros, PTL DEF Spec, QuedaSoComQuebra

(* After bytes of a data frame were spent without being read, no other data *)
(* is taken from the same connection, for any length of the numbers and any *)
(* shorter window, unless bytes out of place were taken for a frame         *)
(* (parseAPDU, packetReadyTCP).                                             *)
THEOREM SempreSemLacuna == Spec => SemLacuna
<1>1. ASSUME NInv, [Next]_vars, lacuna, lacuna', ~engano' PROVE vr' = vr
  <2> USE DEF NInv, IInv
  <2>1. CASE LeQuadro
    <3> DEFINE m == Head(volta)
    <3>1. /\ volta # <<>> /\ con /\ ~engano /\ parseAPDU(m, Tail(volta))
          /\ UNCHANGED <<lacuna, engano>>
      BY <1>1, <2>1 DEF LeQuadro, NoLugar, SoConectado
    <3>2. CASE m.tipo # "I"
      BY <3>1, <3>2 DEF parseAPDU, RecebeU
    <3>3. CASE m.tipo = "I" /\ ForaDeOrdem(m.n)
      BY <3>1, <3>3 DEF parseAPDU, onDisconnectTCP
    <3>4. CASE m.tipo = "I" /\ ~ForaDeOrdem(m.n)
      <4>1. RecebeI(m) /\ volta' = Tail(volta)
        BY <3>1, <3>4 DEF parseAPDU
      <4> QED
        BY <1>1, <3>1, <3>4, <4>1, TransitoDaLeitura
    <3> QED
      BY <3>2, <3>3, <3>4
  <2>2. CASE onConnectTCP
    BY <1>1, <2>2 DEF onConnectTCP
  <2>3. CASE Cai \/ DesisteRTU \/ onTimerSecond \/ solicitGI \/ sendCommand
    BY <2>3 DEF Cai, DesisteRTU, onDisconnectTCP, onTimerSecond, vars, solicitGI,
                sendCommand, link
  <2>4. CASE QuadroQuebrado \/ TestaLinha \/ IgnoraPedido
    BY <2>4 DEF QuadroQuebrado, TestaLinha, IgnoraPedido, link
  <2>8. CASE LeForaDeLugar
    <3>1. PICK k \in 1..Len(volta), m \in Lidos, inteiro \in BOOLEAN :
            parseAPDU(m, Sobra(k, inteiro)) /\ engano' = (engano \/ m # Resto)
      BY <2>8, ForaDeLugar
    <3>2. m = Resto
      BY <1>1, <3>1, Zenon
    <3> QED
      BY <3>1, <3>2 DEF parseAPDU, RecebeU, Resto, U
  <2>5. ASSUME NEW q \in Pedidos, Responde(q) PROVE vr' = vr
    BY <2>5 DEF Responde, link
  <2>6. ASSUME NEW a \in {"dado", "teste"}, EnviaDado(a) PROVE vr' = vr
    BY <2>6 DEF EnviaDado, link
  <2>7. CASE UNCHANGED vars
    BY <2>7 DEF vars, link
  <2> QED
    BY <1>1, <2>1, <2>2, <2>3, <2>4, <2>5, <2>6, <2>7, <2>8 DEF Next
<1>2. NInv /\ [Next]_vars => [lacuna /\ lacuna' /\ ~engano' => vr' = vr]_vars
  BY <1>1
<1> QED
  BY <1>2, InvarianteDosNumeros, PTL DEF Spec, SemLacuna
=============================================================================
