------------------------- MODULE PontoDigital_proofs -------------------------
(***************************************************************************)
(* Proofs about PontoDigital, for any points, configurations and inputs.   *)
(*                                                                         *)
(* AlarmeEEvento is not inductive: between the first two calls of an       *)
(* acknowledge the events of the points it reaches are about to be taken,  *)
(* so that those alarmed must be known to have been alarmed since the      *)
(* first call (AlarmadosCruzaram); and that a new state always raises a    *)
(* new alarm relies on the point having been updated (AlarmeAtualizado).   *)
(***************************************************************************)
EXTENDS PontoDigital, TLAPS

USE DEF ESTDUP, ESTDUP_INDETERMINADO, ESTDUP_OFF, ESTDUP_ON, ESTDUP_INVALIDO,
        FA_ESTFASIM_ON, FA_ESTFASIM_OFF, ESTALM_OFF, ESTALM_ON, ESTALM_ALL,
        ESTALM_EVT, NORMAL, MANUAL, COMANDO, BEEP_NENHUM, BEEP_NORMAL,
        BEEP_CRITICO, Zerado, DESCARTADO, CAMPO, IMPOE

(* In the middle of an acknowledge, a point it reaches is alarmed only by a *)
(* write that crossed it.                                                   *)
AlarmadosCruzaram ==
  http.passo = 1 => \A p \in Alcance(http.alvo) : pt[p].naoRec => p \in cruzados

(* Only an update alarms, so a point that is alarmed had one.               *)
AlarmeAtualizado == \A p \in Pontos : pt[p].naoRec => pt[p].cntAtu = 1

IInv ==
  /\ TypeOK /\ InibidoSemAlarme /\ EstadoCoerente /\ AlarmeEEvento
  /\ AlarmadosCruzaram /\ AlarmeAtualizado

-----------------------------------------------------------------------------
(* A write keeps a point a point.                                           *)
LEMMA EscrevePontoTipo ==
  ASSUME NEW c \in Cadastros, NEW t \in TPonto, NEW i \in Informacao,
         NEW u \in BOOLEAN
  PROVE  EscrevePonto(c, t, i, u) \in TPonto
<1> DEFINE g == Gravado(c, i.duplo, u)
<1>1. CadastroValido(c)
  BY CadastrosAssumption
<1>2. g \in ESTDUP /\ ValorDe(g) \in {0, 1}
  <2>1. i.duplo \in 0..3
    BY DEF Informacao
  <2> QED
    BY <2>1, <1>1 DEF CadastroValido, Gravado, ValorDe
<1>3. TagDoAlarme(c, t, i, g) \in Nat \cup {Zerado}
  BY DEF TagDoAlarme, TPonto
<1>4. (Alarmado(c, t, i, g) /\ ~Normaliza(c, t, i, g)) \in BOOLEAN
  OBVIOUS
<1> QED
  BY <1>2, <1>3, <1>4 DEF EscrevePonto, TPonto, Informacao

(* The beep stays one of the three.                                         *)
LEMMA BeepDaEscritaTipo ==
  ASSUME NEW c, NEW t, NEW i, NEW u \in BOOLEAN,
         temBeep \in {BEEP_NENHUM, BEEP_NORMAL, BEEP_CRITICO}
  PROVE  BeepDaEscrita(c, t, i, u) \in {BEEP_NENHUM, BEEP_NORMAL, BEEP_CRITICO}
BY DEF BeepDaEscrita, AtivaBeep, ComoDeveBipar

(* A write raises no alarm on an inhibited point.                           *)
LEMMA EscrevePontoInibido ==
  ASSUME NEW c, NEW t \in TPonto, NEW i, NEW u, t.alrIn => ~t.naoRec
  PROVE  LET n == EscrevePonto(c, t, i, u)
         IN n.alrIn => ~n.naoRec
BY DEF EscrevePonto, Alarmado, DisparaAlarme, TPonto

(* A write turns the alarm on only by raising it.                           *)
LEMMA EscrevePontoAlarme ==
  ASSUME NEW c, NEW t \in TPonto, NEW i, NEW u, EscrevePonto(c, t, i, u).naoRec,
         ~DisparaAlarme(c, t, i, Gravado(c, i.duplo, u))
  PROVE  t.naoRec
<1> DEFINE g == Gravado(c, i.duplo, u)
<1>1. Alarmado(c, t, i, g)
  BY DEF EscrevePonto
<1> QED
  BY <1>1, Zenon DEF Alarmado

(* After a write the value and the state agree, and no pulse is left ON.    *)
LEMMA EscrevePontoCoerente ==
  ASSUME NEW c, NEW t \in TPonto, NEW i, NEW u,
         EhEvento(c) => t.valor = FA_ESTFASIM_OFF
  PROVE  LET n == EscrevePonto(c, t, i, u)
         IN /\ n.valor = ValorDe(n.duplo)
            /\ EhEvento(c) => n.valor = FA_ESTFASIM_OFF
BY DEF EscrevePonto, Pulso, ValorDe

(* The two decisions agree: when a write that registers an event, decided   *)
(* in the same state, raises the alarm and leaves the point out of its      *)
(* normal state, the event entered to be acknowledged.                      *)
LEMMA AlarmeImplicaEvento ==
  ASSUME NEW c \in Cadastros, NEW t \in TPonto, NEW e \in Escrita,
         NEW th \in Threads, e.visto = Ve(t), th = IMPOE \/ e.info.tag = "boa",
         PedeEvento(c, EscrevePonto(c, t, e.info, th = CAMPO).duplo),
         DisparaAlarme(c, t, e.info, Gravado(c, e.info.duplo, th = CAMPO))
  PROVE  ReconAnunciado(th, c, e) = 0
<1> DEFINE i == e.info
           v == e.visto
<1>1. ~EhEvento(c) /\ c.codOrigem # COMANDO /\ ~EstadoNormal(c, i.duplo)
  <2>1. CASE c.estadoAlarme = ESTALM_ALL
    BY <2>1 DEF PedeEvento, EstadoNormal, EhEvento
  <2>2. CASE ~c.inverte
    BY <2>2 DEF PedeEvento, EscrevePonto, Pulso, Gravado
  <2> QED
    BY <2>1, <2>2 DEF PedeEvento
<1>2. ~t.alrIn /\ (~EstadoRepetido(t, i.duplo) \/ ALARMA_DUPLA_TRANSICAO)
  BY <1>1 DEF DisparaAlarme
<1>3. ~v.alrIn /\ (~EstadoRepetido(v, i.duplo) \/ ALARMA_DUPLA_TRANSICAO)
  BY <1>2 DEF Ve, EstadoRepetido
<1>4. ReconDoEvento(c, v, i.duplo, i.falha) = 0
  BY <1>1, <1>3 DEF ReconDoEvento
<1> QED
  BY <1>3, <1>4 DEF ReconAnunciado, ReconRecebido

(* A write that leaves alarmed a point that was, and raises no new alarm,   *)
(* did not change the state, or has no event to count on.                   *)
LEMMA SemNovoAlarme ==
  ASSUME NEW c \in Cadastros, NEW t \in TPonto, NEW i \in Informacao,
         NEW u \in BOOLEAN,
         t.alrIn => ~t.naoRec, t.naoRec => t.cntAtu = 1, t.naoRec,
         ~DisparaAlarme(c, t, i, Gravado(c, i.duplo, u)),
         PedeEvento(c, EscrevePonto(c, t, i, u).duplo)
  PROVE  PedeEvento(c, t.duplo)
<1>1. CASE c.estadoAlarme = ESTALM_ALL
  BY <1>1 DEF PedeEvento, EstadoNormal
<1>2. CASE ~c.inverte /\ c.estadoAlarme # ESTALM_ALL
  <2>1. ~EhEvento(c) /\ Gravado(c, i.duplo, u) = i.duplo
    BY <1>2 DEF PedeEvento, Gravado
  <2>2. EscrevePonto(c, t, i, u).duplo = i.duplo
    BY <2>1 DEF EscrevePonto, Pulso
  <2>3. t.duplo = i.duplo
    BY <2>1 DEF DisparaAlarme, MudancaSemTag, EstadoRepetido
  <2> QED
    BY <2>2, <2>3
<1> QED
  BY <1>1, <1>2 DEF PedeEvento

(* What both second calls do, with their histories.                         *)
LEMMA PassoDeGravar ==
  ASSUME NEW th \in Threads, IInv, NEW e \in escrita[th], Grava(th, e)
  PROVE  LET p == e.ponto
             n == EscrevePonto(cad[p], pt[p], e.info, th = CAMPO)
             d == DisparaAlarme(cad[p], pt[p], e.info,
                                Gravado(cad[p], e.info.duplo, th = CAMPO))
         IN /\ e \in Escrita /\ p \in Pontos /\ e.info \in Informacao
            /\ cad[p] \in Cadastros /\ pt[p] \in TPonto /\ n \in TPonto
            /\ \A q \in Pontos : pt'[q] = IF q = p THEN n ELSE pt[q]
            /\ pt' \in [Pontos -> TPonto]
            /\ pendente \subseteq pendente' /\ pendente' \subseteq Pontos
            /\ cruzados' = IF d /\ http.passo = 1 THEN cruzados \cup {p} ELSE cruzados
            /\ comEvento' = IF d THEN Marca(comEvento, p, ComSeuEvento(th, e))
                            ELSE comEvento
            /\ juntos' = Marca(juntos, p, n.naoRec /\ p \in pendente')
            /\ temBeep' = BeepDaEscrita(cad[p], pt[p], e.info, th = CAMPO)
            /\ escrita' = [escrita EXCEPT ![th] = {}]
            /\ UNCHANGED <<cad, http>>
<1>1. e \in Escrita /\ e.ponto \in Pontos /\ e.info \in Informacao
  BY DEF IInv, TypeOK, Escrita
<1>2. /\ cad[e.ponto] \in Cadastros /\ pt[e.ponto] \in TPonto
      /\ pt \in [Pontos -> TPonto] /\ (th = CAMPO) \in BOOLEAN
  BY <1>1 DEF IInv, TypeOK
<1> DEFINE n == EscrevePonto(cad[e.ponto], pt[e.ponto], e.info, th = CAMPO)
<1>3. n \in TPonto
  BY <1>1, <1>2, EscrevePontoTipo
<1>4. pt' = [pt EXCEPT ![e.ponto] = n]
  BY DEF Grava
<1>5. pendente \subseteq pendente' /\ pendente' \subseteq Pontos
  BY <1>1 DEF Grava, IInv, TypeOK
<1>6. /\ \A q \in Pontos : pt'[q] = IF q = e.ponto THEN n ELSE pt[q]
      /\ pt' \in [Pontos -> TPonto]
  <2> HIDE DEF n
  <2> QED
    BY <1>1, <1>2, <1>3, <1>4
<1> QED
  BY <1>1, <1>2, <1>3, <1>5, <1>6 DEF Grava

(* The states that the load of the points and of the dump leaves satisfy    *)
(* it.                                                                      *)
THEOREM InitIInv == Init => IInv
<1> SUFFICES ASSUME Init PROVE IInv
  OBVIOUS
<1>1. ASSUME NEW p \in Pontos
      PROVE  /\ pt[p] \in TPonto
             /\ ~pt[p].naoRec
             /\ pt[p].valor = ValorDe(pt[p].duplo)
             /\ EhEvento(cad[p]) => pt[p].valor = FA_ESTFASIM_OFF
  <2>1. cad[p] \in Cadastros /\ pt[p] \in Carregados(cad[p])
    BY DEF Init
  <2>2. cad[p].temporizacao + 1 \in Nat
    BY <2>1, CadastrosAssumption DEF CadastroValido
  <2>3. PICK d \in DuplosIniciais(cad[p]), tag \in {Zerado, cad[p].temporizacao + 1},
             inibe \in BOOLEAN : pt[p] = PontoCarregado(d, tag, inibe)
    BY <2>1 DEF Carregados
  <2>4. d \in ESTDUP /\ (EhEvento(cad[p]) => d = ESTDUP_OFF)
    BY DEF DuplosIniciais
  <2>5. ValorDe(d) \in {0, 1} /\ (d = ESTDUP_OFF => ValorDe(d) = FA_ESTFASIM_OFF)
    BY <2>4 DEF ValorDe
  <2> QED
    BY <2>2, <2>3, <2>4, <2>5 DEF TPonto, PontoCarregado
<1>2. pt \in [Pontos -> TPonto]
  BY <1>1 DEF Init
<1>3. http \in Pedido /\ http.passo = 0
  BY DEF Init, SemPedido, Pedido
<1>4. TypeOK
  BY <1>2, <1>3 DEF Init, TypeOK
<1> QED
  BY <1>1, <1>3, <1>4
  DEF Init, IInv, InibidoSemAlarme, EstadoCoerente, AlarmeEEvento, AlarmeComEvento,
      EventoComAlarme, AlarmadosCruzaram, AlarmeAtualizado

(* The first call of a write only adds an event.                            *)
LEMMA AnunciaIInv ==
  ASSUME IInv, NEW th \in Threads, NEW p \in Pontos, NEW i \in Informacao,
         NEW recon, Anuncia(th, p, i, recon)
  PROVE  IInv'
<1>1. /\ pendente \subseteq pendente' /\ pendente' \subseteq Pontos
      /\ UNCHANGED <<cad, pt, temBeep, http, cruzados, comEvento, juntos>>
  BY DEF Anuncia, historia, IInv, TypeOK
<1>2. escrita' \in [Threads -> SUBSET Escrita]
  <2>1. Ve(pt[p]) \in Visto
    BY DEF Ve, Visto, IInv, TypeOK, TPonto
  <2>2. [ponto |-> p, info |-> i, visto |-> Ve(pt[p])] \in Escrita
    BY <2>1 DEF Escrita
  <2> QED
    BY <2>2 DEF Anuncia, IInv, TypeOK
<1>3. TypeOK'
  BY <1>1, <1>2 DEF IInv, TypeOK
<1>4. AlarmeEEvento'
  BY <1>1 DEF IInv, AlarmeEEvento, AlarmeComEvento, EventoComAlarme, EmReconhecimento
<1> QED
  BY <1>1, <1>3, <1>4
  DEF IInv, InibidoSemAlarme, EstadoCoerente, AlarmadosCruzaram, AlarmeAtualizado

(* The second call: the alarm it raises has its event, unless the other     *)
(* thread came between.                                                     *)
LEMMA GravaIInv ==
  ASSUME IInv, NEW th \in Threads, NEW e \in escrita[th], Grava(th, e)
  PROVE  IInv'
<1> DEFINE p == e.ponto
           c == cad[p]
           t == pt[p]
           u == th = CAMPO
           n == EscrevePonto(c, t, e.info, u)
           d == DisparaAlarme(c, t, e.info, Gravado(c, e.info.duplo, u))
<1>1. /\ e \in Escrita /\ p \in Pontos /\ e.info \in Informacao /\ u \in BOOLEAN
      /\ c \in Cadastros /\ t \in TPonto /\ n \in TPonto
      /\ \A q \in Pontos : pt'[q] = IF q = p THEN n ELSE pt[q]
      /\ pt' \in [Pontos -> TPonto]
      /\ pendente \subseteq pendente' /\ pendente' \subseteq Pontos
      /\ cruzados' = IF d /\ http.passo = 1 THEN cruzados \cup {p} ELSE cruzados
      /\ comEvento' = IF d THEN Marca(comEvento, p, ComSeuEvento(th, e))
                      ELSE comEvento
      /\ juntos' = Marca(juntos, p, n.naoRec /\ p \in pendente')
      /\ temBeep' = BeepDaEscrita(c, t, e.info, u)
      /\ escrita' = [escrita EXCEPT ![th] = {}]
      /\ UNCHANGED <<cad, http>>
  BY PassoDeGravar
<1>2. n.alrIn => ~n.naoRec
  BY <1>1, EscrevePontoInibido DEF IInv, InibidoSemAlarme
<1>3. n.valor = ValorDe(n.duplo) /\ (EhEvento(c) => n.valor = FA_ESTFASIM_OFF)
  BY <1>1, EscrevePontoCoerente DEF IInv, EstadoCoerente
<1>4. n.cntAtu = 1
  BY DEF EscrevePonto
<1>5. n.naoRec /\ ~d => t.naoRec
  BY <1>1, EscrevePontoAlarme
<1>6. t.naoRec /\ ~d /\ PedeEvento(c, n.duplo) => PedeEvento(c, t.duplo)
  BY <1>1, SemNovoAlarme DEF IInv, InibidoSemAlarme, AlarmeAtualizado
<1>7. ComSeuEvento(th, e) /\ d /\ PedeEvento(c, n.duplo) => p \in pendente
  BY <1>1, AlarmeImplicaEvento DEF ComSeuEvento
<1>8. temBeep' \in {BEEP_NENHUM, BEEP_NORMAL, BEEP_CRITICO}
  BY <1>1, BeepDaEscritaTipo DEF IInv, TypeOK
<1> HIDE DEF n, d, u, p, c, t
<1>a. p \in Pontos /\ c = cad[p] /\ t = pt[p] /\ cad' = cad /\ http' = http
  BY <1>1 DEF p, c, t
<1>9. TypeOK'
  <2>1. cruzados' \subseteq Pontos /\ comEvento' \subseteq Pontos /\ juntos' \subseteq Pontos
    BY <1>1 DEF IInv, TypeOK, Marca
  <2>2. escrita' \in [Threads -> SUBSET Escrita]
    BY <1>1 DEF IInv, TypeOK
  <2> QED
    BY <1>1, <1>8, <2>1, <2>2 DEF IInv, TypeOK
<1>10. AlarmeComEvento'
  <2> SUFFICES ASSUME NEW q \in comEvento', pt'[q].naoRec,
                      PedeEvento(cad[q], pt'[q].duplo)
               PROVE  q \in pendente'
    BY <1>a DEF AlarmeComEvento
  <2>1. q \in Pontos
    BY <1>9 DEF TypeOK
  <2>2. CASE q # p
    <3>1. q \in comEvento /\ pt'[q] = pt[q]
      BY <1>1, <2>1, <2>2 DEF Marca
    <3> QED
      BY <1>1, <3>1 DEF IInv, AlarmeEEvento, AlarmeComEvento
  <2>3. CASE q = p /\ d
    <3>1. ComSeuEvento(th, e)
      BY <1>1, <2>3 DEF Marca
    <3> QED
      BY <1>1, <1>7, <1>a, <2>3, <3>1
  <2>4. CASE q = p /\ ~d
    <3>1. p \in comEvento /\ t.naoRec /\ PedeEvento(c, t.duplo)
      BY <1>1, <1>5, <1>6, <1>a, <2>4
    <3> QED
      BY <1>1, <1>a, <2>4, <3>1 DEF IInv, AlarmeEEvento, AlarmeComEvento
  <2> QED
    BY <2>2, <2>3, <2>4
<1>11. EventoComAlarme'
  <2> SUFFICES ASSUME NEW q \in juntos'
               PROVE  q \in pendente' /\ (pt'[q].naoRec \/ EmReconhecimento(q)')
    BY DEF EventoComAlarme
  <2>1. q \in Pontos
    BY <1>9 DEF TypeOK
  <2>2. CASE q = p
    BY <1>1, <2>1, <2>2 DEF Marca
  <2>3. CASE q # p
    <3>1. q \in juntos /\ pt'[q] = pt[q] /\ EmReconhecimento(q)' = EmReconhecimento(q)
      BY <1>1, <1>a, <2>1, <2>3 DEF Marca, EmReconhecimento
    <3> QED
      BY <1>1, <3>1 DEF IInv, AlarmeEEvento, EventoComAlarme
  <2> QED
    BY <2>2, <2>3
<1>12. AlarmadosCruzaram'
  <2> SUFFICES ASSUME http.passo = 1, NEW q \in Alcance(http.alvo), pt'[q].naoRec
               PROVE  q \in cruzados'
    BY <1>a DEF AlarmadosCruzaram
  <2>1. q \in Pontos
    BY DEF IInv, TypeOK, Pedido, Alcance
  <2>2. CASE q = p /\ d
    BY <1>1, <2>2
  <2>3. CASE q = p /\ ~d
    BY <1>1, <1>5, <1>a, <2>1, <2>3 DEF IInv, AlarmadosCruzaram
  <2>4. CASE q # p
    BY <1>1, <2>1, <2>4 DEF IInv, AlarmadosCruzaram
  <2> QED
    BY <2>2, <2>3, <2>4
<1> QED
  BY <1>1, <1>2, <1>3, <1>4, <1>9, <1>10, <1>11, <1>12, <1>a
  DEF IInv, InibidoSemAlarme, EstadoCoerente, AlarmeEEvento, AlarmeAtualizado

(* Every action preserves the invariant.                                    *)
THEOREM NextIInv == IInv /\ [Next]_vars => IInv'
<1> SUFFICES ASSUME IInv, [Next]_vars PROVE IInv'
  OBVIOUS
<1>1. ASSUME NEW p \in Pontos, NEW i \in Informacoes,
             EscreveIEC(p, i) \/ ImposePoint(p, i)
      PROVE  IInv'
  BY <1>1, AnunciaIInv, InformacoesAssumption DEF EscreveIEC, ImposePoint, Threads
<1>2. CASE GravaIEC \/ GravaImposto
  BY <1>2, GravaIInv DEF GravaIEC, GravaImposto, Threads
<1> USE DEF IInv
<1>3. ASSUME NEW alvo \in Pontos \cup {TODOS}, NEW agrega \in BOOLEAN,
             ReconheceAlarmePonto(alvo, agrega)
      PROVE  IInv'
  <2> DEFINE ack(p) == AckDoPonto(cad[p], pt[p])
  <2>1. \A p \in Pontos :
          /\ ack(p) \in TPonto
          /\ ~ack(p).naoRec /\ ack(p).alrIn = pt[p].alrIn
          /\ ack(p).duplo = pt[p].duplo /\ ack(p).valor = pt[p].valor
    <3> SUFFICES ASSUME NEW p \in Pontos
                 PROVE  /\ ack(p) \in TPonto
                        /\ ~ack(p).naoRec /\ ack(p).alrIn = pt[p].alrIn
                        /\ ack(p).duplo = pt[p].duplo /\ ack(p).valor = pt[p].valor
      OBVIOUS
    <3> DEFINE tg == IF TemAlarmePersistente(cad[p], pt[p]) THEN pt[p].tag ELSE Zerado
    <3>1. ack(p) = [pt[p] EXCEPT !.naoRec = FALSE, !.tag = tg]
      BY DEF AckDoPonto
    <3>2. pt[p] \in TPonto
      BY DEF TypeOK
    <3>3. tg \in Nat \cup {Zerado}
      BY <3>2 DEF TPonto
    <3> HIDE DEF tg, ack
    <3> QED
      BY <3>1, <3>2, <3>3 DEF TPonto
  <2>2. /\ \A p \in Pontos : pt'[p] = IF p \in Alcance(alvo) THEN ack(p) ELSE pt[p]
        /\ pt' = [p \in Pontos |-> IF p \in Alcance(alvo) THEN ack(p) ELSE pt[p]]
        /\ http.passo = 0
        /\ http' = [passo |-> 1, alvo |-> alvo, agrega |-> agrega]
        /\ juntos' = IF agrega THEN juntos ELSE juntos \ Alcance(alvo)
        /\ UNCHANGED <<cad, temBeep, pendente, escrita, cruzados, comEvento>>
    BY <1>3 DEF ReconheceAlarmePonto, Livre
  <2> HIDE DEF ack
  <2>3. TypeOK'
    BY <2>1, <2>2 DEF TypeOK, Pedido
  <2>4. \A p \in Pontos : pt'[p].naoRec => pt'[p] = pt[p]
    BY <2>1, <2>2
  <2>5. InibidoSemAlarme' /\ AlarmeAtualizado'
    BY <2>4 DEF InibidoSemAlarme, AlarmeAtualizado
  <2>6. EstadoCoerente'
    BY <2>1, <2>2 DEF EstadoCoerente
  <2>7. AlarmeComEvento'
    BY <2>2, <2>4 DEF AlarmeEEvento, AlarmeComEvento, TypeOK
  <2>8. EventoComAlarme'
    <3> SUFFICES ASSUME NEW q \in juntos'
                 PROVE  q \in pendente /\ (pt'[q].naoRec \/ EmReconhecimento(q)')
      BY <2>2 DEF EventoComAlarme
    <3>1. q \in juntos /\ q \in Pontos /\ q \in pendente /\ pt[q].naoRec
      BY <2>2 DEF TypeOK, AlarmeEEvento, EventoComAlarme, EmReconhecimento
    <3>2. CASE q \in Alcance(alvo)
      BY <2>2, <3>1, <3>2 DEF EmReconhecimento
    <3>3. CASE q \notin Alcance(alvo)
      BY <2>2, <3>1, <3>3
    <3> QED
      BY <3>2, <3>3
  <2>9. AlarmadosCruzaram'
    <3>1. \A q \in Alcance(alvo) : q \in Pontos /\ ~pt'[q].naoRec
      BY <2>1, <2>2 DEF Alcance
    <3> QED
      BY <2>2, <3>1 DEF AlarmadosCruzaram
  <2> QED
    BY <2>3, <2>5, <2>6, <2>7, <2>8, <2>9 DEF AlarmeEEvento
<1>4. CASE ReconheceEvento
  <2>1. /\ http.passo = 1 /\ http' = [http EXCEPT !.passo = 2]
        /\ pendente' \subseteq pendente
        /\ pendente \ pendente' \subseteq Alcance(http.alvo)
        /\ http.agrega => pendente' = pendente \ Alcance(http.alvo)
        /\ comEvento' = comEvento \ ((pendente \ pendente') \cap cruzados)
        /\ juntos' = juntos \ (pendente \ pendente')
        /\ cruzados' = {}
        /\ UNCHANGED <<cad, pt, temBeep, escrita>>
    <3>1. CASE http.agrega
      BY <1>4, <3>1 DEF ReconheceEvento
    <3>2. CASE ~http.agrega
      <4>1. pendente' \in {pendente, pendente \ {http.alvo}}
        BY <1>4, <3>2 DEF ReconheceEvento
      <4>2. pendente \cap {http.alvo} \subseteq Alcance(http.alvo)
        BY TodosAssumption DEF Alcance, TypeOK
      <4> QED
        BY <1>4, <3>2, <4>1, <4>2 DEF ReconheceEvento
    <3> QED
      BY <3>1, <3>2
  <2>2. http' \in Pedido /\ http'.passo = 2
    BY <2>1 DEF TypeOK, Pedido
  <2>3. TypeOK'
    BY <2>1, <2>2 DEF TypeOK
  <2>4. AlarmeComEvento'
    <3> SUFFICES ASSUME NEW q \in comEvento', pt[q].naoRec, PedeEvento(cad[q], pt[q].duplo)
                 PROVE  q \in pendente'
      BY <2>1 DEF AlarmeComEvento
    <3>1. q \in pendente
      BY <2>1 DEF AlarmeEEvento, AlarmeComEvento
    <3>2. q \in Alcance(http.alvo) => q \in cruzados
      BY <2>1 DEF AlarmadosCruzaram
    <3> QED
      BY <2>1, <3>1, <3>2
  <2>5. EventoComAlarme'
    <3> SUFFICES ASSUME NEW q \in juntos' PROVE q \in pendente' /\ pt[q].naoRec
      BY <2>1 DEF EventoComAlarme
    <3>1. q \in juntos /\ q \in pendente /\ q \in pendente'
      BY <2>1 DEF AlarmeEEvento, EventoComAlarme
    <3>2. ~EmReconhecimento(q)
      BY <2>1, <3>1 DEF EmReconhecimento
    <3> QED
      BY <3>1, <3>2 DEF AlarmeEEvento, EventoComAlarme
  <2>6. AlarmadosCruzaram'
    BY <2>2 DEF AlarmadosCruzaram
  <2> QED
    BY <2>1, <2>3, <2>4, <2>5, <2>6
    DEF InibidoSemAlarme, EstadoCoerente, AlarmeAtualizado, AlarmeEEvento
<1>5. CASE TerminaReconhecimento \/ SilenciaBeep
  <2>1. /\ UNCHANGED <<cad, pt, pendente, escrita, cruzados, comEvento, juntos>>
        /\ temBeep' = BEEP_NENHUM
        /\ http' \in Pedido /\ http'.passo # 1 /\ http.passo # 1
    <3>1. SemPedido \in Pedido /\ SemPedido.passo # 1
      BY DEF SemPedido, Pedido
    <3>2. CASE TerminaReconhecimento
      BY <3>1, <3>2 DEF TerminaReconhecimento, historia
    <3>3. CASE SilenciaBeep
      BY <3>3 DEF SilenciaBeep, TypeOK, Livre, historia
    <3> QED
      BY <1>5, <3>2, <3>3
  <2> QED
    BY <2>1 DEF TypeOK, InibidoSemAlarme, EstadoCoerente, AlarmeEEvento, AlarmeComEvento,
                EventoComAlarme, EmReconhecimento, AlarmadosCruzaram, AlarmeAtualizado
<1>6. ASSUME NEW p \in Pontos, NEW inibe \in BOOLEAN, SetAlrIn(p, inibe)
      PROVE  IInv'
  <2>1. \A q \in Pontos :
          /\ pt'[q] \in TPonto
          /\ q # p \/ ~inibe => pt'[q].naoRec = pt[q].naoRec
          /\ q # p => pt'[q] = pt[q]
          /\ pt'[q].naoRec => pt[q].naoRec
          /\ pt'[q].duplo = pt[q].duplo /\ pt'[q].valor = pt[q].valor
          /\ pt'[q].cntAtu = pt[q].cntAtu
    <3> SUFFICES ASSUME NEW q \in Pontos
                 PROVE  /\ pt'[q] \in TPonto
                        /\ q # p \/ ~inibe => pt'[q].naoRec = pt[q].naoRec
                        /\ q # p => pt'[q] = pt[q]
                        /\ pt'[q].naoRec => pt[q].naoRec
                        /\ pt'[q].duplo = pt[q].duplo /\ pt'[q].valor = pt[q].valor
                        /\ pt'[q].cntAtu = pt[q].cntAtu
      OBVIOUS
    <3>1. pt[q] \in TPonto /\ pt \in [Pontos -> TPonto]
      BY DEF TypeOK
    <3>2. CASE q # p
      BY <1>6, <3>1, <3>2 DEF SetAlrIn
    <3>3. CASE q = p
      <4>1. pt'[q] = [pt[q] EXCEPT !.alrIn = inibe,
                                   !.naoRec = pt[q].naoRec /\ ~inibe]
        BY <1>6, <3>1, <3>3 DEF SetAlrIn, TPonto
      <4>2. CASE inibe
        BY <4>1, <4>2, <3>1, <3>3 DEF TPonto
      <4>3. CASE ~inibe
        BY <4>1, <4>3, <3>1, <3>3 DEF TPonto
      <4> QED
        BY <4>2, <4>3
    <3> QED
      BY <3>2, <3>3
  <2>2. pt'[p].alrIn => ~pt'[p].naoRec
    BY <1>6 DEF SetAlrIn, TypeOK, TPonto
  <2>3. /\ pt' \in [Pontos -> TPonto] /\ http.passo = 0
        /\ UNCHANGED <<cad, temBeep, pendente, http, escrita, cruzados, comEvento>>
        /\ juntos' = IF inibe THEN juntos \ {p} ELSE juntos
    BY <1>6, <2>1 DEF SetAlrIn, TypeOK, Livre
  <2>4. TypeOK'
    BY <2>3 DEF TypeOK
  <2>5. AlarmeComEvento'
    BY <2>1, <2>3 DEF AlarmeEEvento, AlarmeComEvento, TypeOK
  <2>6. EventoComAlarme'
    <3> SUFFICES ASSUME NEW q \in juntos'
                 PROVE  q \in pendente /\ pt'[q].naoRec
      BY <2>3 DEF EventoComAlarme
    <3>1. q \in juntos /\ q \in Pontos /\ (q # p \/ ~inibe)
      BY <2>3 DEF TypeOK
    <3>2. q \in pendente /\ pt[q].naoRec
      BY <2>3, <3>1 DEF AlarmeEEvento, EventoComAlarme, EmReconhecimento
    <3> QED
      BY <2>1, <3>1, <3>2
  <2> QED
    BY <2>1, <2>2, <2>3, <2>4, <2>5, <2>6 DEF InibidoSemAlarme, EstadoCoerente,
                            AlarmeEEvento, AlarmadosCruzaram, AlarmeAtualizado
<1>7. CASE PassaTempo
  <2>1. \A p \in Pontos :
          /\ pt'[p] \in TPonto
          /\ pt'[p].naoRec = pt[p].naoRec
          /\ pt'[p].alrIn = pt[p].alrIn
          /\ pt'[p].duplo = pt[p].duplo /\ pt'[p].valor = pt[p].valor
          /\ pt'[p].cntAtu = pt[p].cntAtu
    <3> SUFFICES ASSUME NEW p \in Pontos
                 PROVE  /\ pt'[p] \in TPonto
                        /\ pt'[p].naoRec = pt[p].naoRec
                        /\ pt'[p].alrIn = pt[p].alrIn
                        /\ pt'[p].duplo = pt[p].duplo /\ pt'[p].valor = pt[p].valor
                        /\ pt'[p].cntAtu = pt[p].cntAtu
      OBVIOUS
    <3>1. pt[p] \in TPonto
      BY DEF TypeOK
    <3>2. Envelhece(cad[p], pt[p]) \in Nat \cup {Zerado}
      BY <3>1 DEF Envelhece, TPonto
    <3>3. pt'[p] = [pt[p] EXCEPT !.tag = Envelhece(cad[p], pt[p])]
      BY <1>7 DEF PassaTempo
    <3> QED
      BY <3>1, <3>2, <3>3 DEF TPonto
  <2>2. /\ pt' \in [Pontos -> TPonto]
        /\ UNCHANGED <<cad, temBeep, pendente, http, escrita, cruzados, comEvento, juntos>>
    BY <1>7, <2>1 DEF PassaTempo, historia
  <2>3. \A p \in Alcance(http.alvo) : p \in Pontos
    BY DEF TypeOK, Pedido, Alcance
  <2>4. TypeOK'
    BY <2>2 DEF TypeOK
  <2>5. AlarmeEEvento'
    BY <2>1, <2>2 DEF AlarmeEEvento, AlarmeComEvento, EventoComAlarme, EmReconhecimento,
                      TypeOK
  <2> QED
    BY <2>1, <2>2, <2>3, <2>4, <2>5 DEF InibidoSemAlarme, EstadoCoerente,
                            AlarmadosCruzaram, AlarmeAtualizado
<1>8. CASE UNCHANGED vars
  BY <1>8 DEF vars, historia, TypeOK, InibidoSemAlarme, EstadoCoerente, AlarmeEEvento,
              AlarmeComEvento, EventoComAlarme, EmReconhecimento, AlarmadosCruzaram,
              AlarmeAtualizado
<1> QED
  BY <1>1, <1>2, <1>3, <1>4, <1>5, <1>6, <1>7, <1>8 DEF Next

(* The inductive invariant holds in every reachable state.                  *)
THEOREM Invariante == Spec => []IInv
BY InitIInv, NextIInv, PTL DEF Spec

(* The state variables keep their types, for any points and configurations. *)
THEOREM TipoCorreto == Spec => []TypeOK
BY Invariante, PTL DEF IInv

(* An inhibited point is never left alarmed (SetAlrIn, EscrevePonto).       *)
THEOREM InibidoNuncaAlarmado == Spec => []InibidoSemAlarme
BY Invariante, PTL DEF IInv

(* Value and state agree, and no pulse stays ON (EscrevePonto).             *)
THEOREM EstadoSempreCoerente == Spec => []EstadoCoerente
BY Invariante, PTL DEF IInv

(* An alarm and its event are parted only by the two crossings of the       *)
(* threads that comEvento leaves out, and an alarm never goes away before   *)
(* the event that waits with it, in any interleaving of writes, impositions *)
(* and acknowledges (EscreveIEC, EscrevePonto, IncluiEvento,                *)
(* ahc_HandleAckRequest).                                                   *)
THEOREM AlarmeSempreComEvento == Spec => []AlarmeEEvento
BY Invariante, PTL DEF IInv

-----------------------------------------------------------------------------
(* Only a write changes the state of a point, by either thread.             *)
LEMMA EstadoSoPorEscrita ==
  ASSUME IInv, [Next]_vars, NEW p \in Pontos, pt'[p].duplo # pt[p].duplo
  PROVE  /\ cad' = cad
         /\ \E i \in Informacao, u \in BOOLEAN :
              pt'[p] = EscrevePonto(cad[p], pt[p], i, u)
<1>0. pt \in [Pontos -> TPonto]
  BY DEF IInv, TypeOK
<1>1. ASSUME NEW q \in Pontos, NEW i \in Informacoes,
             EscreveIEC(q, i) \/ ImposePoint(q, i)
      PROVE  FALSE
  BY <1>1 DEF EscreveIEC, ImposePoint, Anuncia
<1>2. ASSUME NEW th \in Threads, NEW e \in escrita[th], Grava(th, e)
      PROVE  /\ cad' = cad /\ e.info \in Informacao /\ (th = CAMPO) \in BOOLEAN
             /\ pt'[p] = EscrevePonto(cad[p], pt[p], e.info, th = CAMPO)
  <2> DEFINE n == EscrevePonto(cad[e.ponto], pt[e.ponto], e.info, th = CAMPO)
  <2>1. /\ \A q \in Pontos : pt'[q] = IF q = e.ponto THEN n ELSE pt[q]
        /\ cad' = cad /\ e.info \in Informacao
    BY <1>2, PassoDeGravar
  <2> HIDE DEF n
  <2>2. p = e.ponto
    BY <2>1
  <2> QED
    BY <2>1, <2>2 DEF n
<1>3. ASSUME NEW alvo, NEW agrega, ReconheceAlarmePonto(alvo, agrega)
      PROVE  FALSE
  <2>1. pt'[p] = IF p \in Alcance(alvo) THEN AckDoPonto(cad[p], pt[p]) ELSE pt[p]
    BY <1>3 DEF ReconheceAlarmePonto
  <2> QED
    BY <1>0, <2>1 DEF AckDoPonto, TPonto
<1>4. ASSUME NEW q \in Pontos, NEW inibe, SetAlrIn(q, inibe)
      PROVE  FALSE
  BY <1>0, <1>4 DEF SetAlrIn, TPonto
<1>5. CASE PassaTempo
  BY <1>0, <1>5 DEF PassaTempo, TPonto
<1>6. CASE ReconheceEvento \/ TerminaReconhecimento \/ SilenciaBeep \/ UNCHANGED vars
  BY <1>6 DEF ReconheceEvento, TerminaReconhecimento, SilenciaBeep, vars
<1> QED
  BY <1>1, <1>2, <1>3, <1>4, <1>5, <1>6 DEF Next, GravaIEC, GravaImposto, Threads

(* A write that brings a point that is not inverted into its alarm state    *)
(* alarms, and dates the alarm: the state was not repeated, with timetag or *)
(* without.                                                                 *)
LEMMA EntradaAlarma ==
  ASSUME NEW c \in Cadastros, NEW t \in TPonto, NEW i \in Informacao,
         NEW u \in BOOLEAN,
         ~c.inverte, ~t.alrIn, t.cntAtu = 1, ~EstadoDeAlarme(c, t.duplo),
         EstadoDeAlarme(c, EscrevePonto(c, t, i, u).duplo)
  PROVE  LET n == EscrevePonto(c, t, i, u)
         IN n.naoRec /\ n.tag # Zerado
<1> DEFINE g == Gravado(c, i.duplo, u)
           n == EscrevePonto(c, t, i, u)
<1>1. g = i.duplo
  BY DEF Gravado
<1>2. ~EhEvento(c) /\ c.estadoAlarme \in {ESTALM_OFF, ESTALM_ON}
  BY DEF EstadoDeAlarme, EhEvento
<1>3. n.duplo = i.duplo
  BY <1>1, <1>2 DEF EscrevePonto, Pulso
<1>4. EstadoDeAlarme(c, i.duplo) /\ t.duplo # i.duplo
  BY <1>3
<1>5. ~EstadoNormal(c, i.duplo)
  BY <1>4 DEF EstadoDeAlarme, EstadoNormal
<1>6. DisparaAlarme(c, t, i, g)
  BY <1>1, <1>2, <1>4 DEF DisparaAlarme, MudancaSemTag, EstadoRepetido
<1>7. Alarmado(c, t, i, g) /\ ~Normaliza(c, t, i, g)
  BY <1>5, <1>6 DEF Alarmado, Normaliza
<1>8. TagDoAlarme(c, t, i, g) = 0
  BY <1>2, <1>6, <1>7 DEF TagDoAlarme
<1>9. /\ n.naoRec = (Alarmado(c, t, i, g) /\ ~Normaliza(c, t, i, g))
      /\ n.tag = TagDoAlarme(c, t, i, g)
  BY DEF EscrevePonto
<1> HIDE DEF n, g
<1>10. n.naoRec
  BY <1>7, <1>9, Zenon
<1>11. n.tag # Zerado
  BY <1>8, <1>9
<1> QED
  BY <1>10, <1>11 DEF n

(* Every transition of a supervised point into its alarm state alarms, in   *)
(* any interleaving of the field with the HTTP thread (EscrevePonto).       *)
THEOREM TransicaoSempreAlarma == Spec => TransicaoAlarma
<1>1. ASSUME IInv, [Next]_vars, NEW p \in Pontos, EntraEmAlarme(p)
      PROVE  pt'[p].naoRec /\ pt'[p].tag # Zerado
  <2>1. pt'[p].duplo # pt[p].duplo
    BY <1>1 DEF EntraEmAlarme
  <2>2. PICK i \in Informacao, u \in BOOLEAN :
               pt'[p] = EscrevePonto(cad[p], pt[p], i, u)
    BY <1>1, <2>1, EstadoSoPorEscrita
  <2>3. cad[p] \in Cadastros /\ pt[p] \in TPonto
    BY <1>1 DEF IInv, TypeOK
  <2> QED
    BY <1>1, <2>2, <2>3, EntradaAlarma DEF EntraEmAlarme
<1>2. IInv /\ [Next]_vars =>
        [\A p \in Pontos :
           EntraEmAlarme(p) => pt'[p].naoRec /\ pt'[p].tag # Zerado]_vars
  BY <1>1
<1> QED
  BY <1>2, Invariante, PTL DEF Spec, TransicaoAlarma

(* A timetagged pulse of a pure event finds the point OFF, so it is a new   *)
(* state: its event enters to be acknowledged, and its write alarms.        *)
LEMMA PulsoDispara ==
  ASSUME NEW c \in Cadastros, NEW t \in TPonto, NEW i \in Informacao,
         EhEvento(c), ~c.inverte, c.codOrigem # COMANDO, ~t.alrIn,
         t.valor = ValorDe(t.duplo), t.valor = FA_ESTFASIM_OFF,
         i.duplo = ESTDUP_ON, i.tag = "boa"
  PROVE  /\ EscrevePonto(c, t, i, TRUE).naoRec
         /\ ReconRecebido(c, t, i) = 0
<1> DEFINE g == Gravado(c, i.duplo, TRUE)
<1>1. g = ESTDUP_ON /\ ValorDe(g) = FA_ESTFASIM_ON
  BY DEF Gravado, ValorDe
<1>2. t.duplo # i.duplo
  BY <1>1 DEF ValorDe
<1>3. DisparaAlarme(c, t, i, g)
  BY <1>1, <1>2 DEF DisparaAlarme, EstadoRepetido
<1>4. ~EstadoNormal(c, i.duplo)
  BY DEF EhEvento, EstadoNormal
<1>5. EscrevePonto(c, t, i, TRUE).naoRec
  BY <1>3, <1>4 DEF EscrevePonto, Alarmado, Normaliza
<1>6. ReconRecebido(c, t, i) = 0
  BY <1>2, <1>4 DEF ReconRecebido, ReconDoEvento, EstadoRepetido
<1> QED
  BY <1>5, <1>6

(* Every timetagged pulse of a pure event enters the list to be             *)
(* acknowledged and alarms, however many came before it and whatever the    *)
(* HTTP thread does between (EscrevePonto, EscreveIEC, IncluiEvento).       *)
THEOREM PulsoSempreAlarma == Spec => PulsoAlarma
<1>0. ASSUME IInv, NEW p \in Pontos, NEW i \in Pulsos, Pulsavel(p)
      PROVE  /\ EscrevePonto(cad[p], pt[p], i, TRUE).naoRec
             /\ ReconRecebido(cad[p], pt[p], i) = 0
  <2>1. /\ i \in Informacao /\ cad[p] \in Cadastros /\ pt[p] \in TPonto
        /\ i.duplo = ESTDUP_ON /\ i.tag = "boa"
        /\ pt[p].valor = ValorDe(pt[p].duplo)
        /\ EhEvento(cad[p]) => pt[p].valor = FA_ESTFASIM_OFF
    BY <1>0, InformacoesAssumption DEF Pulsos, IInv, TypeOK, EstadoCoerente
  <2> QED
    BY <1>0, <2>1, PulsoDispara DEF Pulsavel
<1>1. ASSUME IInv, NEW p \in Pontos, NEW i \in Pulsos, Pulsavel(p), EscreveIEC(p, i)
      PROVE  p \in pendente'
  BY <1>0, <1>1 DEF EscreveIEC, Anuncia
<1>2. ASSUME IInv, NEW e \in escrita[CAMPO], e.info \in Pulsos, Pulsavel(e.ponto),
             Grava(CAMPO, e)
      PROVE  pt'[e.ponto].naoRec
  <2>1. /\ e.ponto \in Pontos
        /\ pt'[e.ponto] = EscrevePonto(cad[e.ponto], pt[e.ponto], e.info, TRUE)
    BY <1>2, PassoDeGravar DEF Threads
  <2> QED
    BY <1>0, <1>2, <2>1
<1>3. IInv /\ [Next]_vars =>
        [/\ \A p \in Pontos, i \in Pulsos :
              Pulsavel(p) /\ EscreveIEC(p, i) => p \in pendente'
         /\ \A e \in escrita[CAMPO] :
              e.info \in Pulsos /\ Pulsavel(e.ponto) /\ Grava(CAMPO, e)
              => pt'[e.ponto].naoRec]_vars
  BY <1>1, <1>2
<1> QED
  BY <1>3, Invariante, PTL DEF Spec, PulsoAlarma

(* A write brings a point that is not inverted from its alarm state to its  *)
(* normal one: the value changed, so the alarm ends.                        *)
LEMMA VoltaEncerra ==
  ASSUME NEW c \in Cadastros, NEW t \in TPonto, NEW i \in Informacao,
         NEW u \in BOOLEAN,
         ~c.inverte, t.valor = ValorDe(t.duplo), EstadoDeAlarme(c, t.duplo),
         EstadoNormal(c, EscrevePonto(c, t, i, u).duplo)
  PROVE  LET n == EscrevePonto(c, t, i, u)
         IN ~n.naoRec /\ n.tag = Zerado
<1> DEFINE g == Gravado(c, i.duplo, u)
           n == EscrevePonto(c, t, i, u)
<1>1. g = i.duplo /\ ~EhEvento(c)
  BY DEF Gravado, EstadoDeAlarme, EhEvento
<1>2. n.duplo = i.duplo
  BY <1>1 DEF EscrevePonto, Pulso
<1>3. EstadoNormal(c, i.duplo)
  BY <1>2
<1>4. t.valor # ValorDe(g)
  BY <1>1, <1>3 DEF EstadoDeAlarme, EstadoNormal, ValorDe
<1>5. Normaliza(c, t, i, g)
  BY <1>3, <1>4 DEF Normaliza, DataAlarme
<1> QED
  BY <1>5 DEF EscrevePonto, TagDoAlarme

(* A return straight from the alarm state to the normal one ends the alarm, *)
(* in any interleaving (EscrevePonto).                                      *)
THEOREM VoltaSempreNormaliza == Spec => VoltaNormaliza
<1>1. ASSUME IInv, [Next]_vars, NEW p \in Pontos, VoltaDoAlarme(p)
      PROVE  ~pt'[p].naoRec /\ pt'[p].tag = Zerado
  <2>1. EstadoDeAlarme(cad[p], pt[p].duplo) /\ EstadoNormal(cad[p], pt'[p].duplo)
    BY <1>1 DEF VoltaDoAlarme
  <2>2. pt'[p].duplo # pt[p].duplo
    BY <2>1 DEF EstadoDeAlarme, EstadoNormal
  <2>3. PICK i \in Informacao, u \in BOOLEAN :
               pt'[p] = EscrevePonto(cad[p], pt[p], i, u)
    BY <1>1, <2>2, EstadoSoPorEscrita
  <2>4. /\ cad[p] \in Cadastros /\ pt[p] \in TPonto
        /\ pt[p].valor = ValorDe(pt[p].duplo)
    BY <1>1 DEF IInv, TypeOK, EstadoCoerente
  <2> QED
    BY <1>1, <2>1, <2>3, <2>4, VoltaEncerra DEF VoltaDoAlarme
<1>2. IInv /\ [Next]_vars =>
        [\A p \in Pontos :
           VoltaDoAlarme(p) => ~pt'[p].naoRec /\ pt'[p].tag = Zerado]_vars
  BY <1>1
<1> QED
  BY <1>2, Invariante, PTL DEF Spec, VoltaNormaliza

-----------------------------------------------------------------------------
(* The annunciator.                                                         *)
Alarmados == {p \in Pontos : pt[p].naoRec}
Inibidos == {p \in Pontos : pt[p].alrIn}

(* A write never lowers the beep, and leaves it alone when it does not      *)
(* raise an alarm.                                                          *)
LEMMA BeepSobe ==
  ASSUME NEW c, NEW t, NEW i, NEW u \in BOOLEAN,
         temBeep \in {BEEP_NENHUM, BEEP_NORMAL, BEEP_CRITICO}
  PROVE  /\ BeepDaEscrita(c, t, i, u) \in temBeep..2
         /\ t.alrIn => BeepDaEscrita(c, t, i, u) = temBeep
<1>1. BeepDaEscrita(c, t, i, u) \in temBeep..2
  BY DEF BeepDaEscrita, AtivaBeep, ComoDeveBipar
<1>2. t.alrIn => BeepDaEscrita(c, t, i, u) = temBeep
  BY DEF BeepDaEscrita, DisparaAlarme
<1> QED
  BY <1>1, <1>2

(* The second call of a write is a step of the annunciator, or a stutter.   *)
LEMMA EscritaAnuncia ==
  ASSUME IInv, NEW th \in Threads, NEW e \in escrita[th], Grava(th, e)
  PROVE  A!Next \/ UNCHANGED A!vars
<1> DEFINE p == e.ponto
           i == e.info
           u == th = CAMPO
<1>0. /\ p \in Pontos /\ u \in BOOLEAN
      /\ \A q \in Pontos : pt'[q] = IF q = p THEN EscrevePonto(cad[p], pt[p], i, u) ELSE pt[q]
      /\ temBeep' = BeepDaEscrita(cad[p], pt[p], i, u)
  BY PassoDeGravar
<1> HIDE DEF p, i, u
<1> DEFINE t == pt[p]
           n == EscrevePonto(cad[p], t, i, u)
<1>1. /\ t \in TPonto
      /\ temBeep \in {BEEP_NENHUM, BEEP_NORMAL, BEEP_CRITICO}
      /\ t.alrIn => ~t.naoRec
  BY <1>0 DEF IInv, TypeOK, InibidoSemAlarme
<1>2. n.alrIn = t.alrIn /\ (t.alrIn => ~n.naoRec)
  BY <1>1 DEF EscrevePonto, Alarmado, DisparaAlarme
<1>3. temBeep' \in temBeep..2 /\ (t.alrIn => temBeep' = temBeep)
  BY <1>0, <1>1, BeepSobe
<1> HIDE DEF n
<1>4. \A q \in Pontos : pt'[q] = IF q = p THEN n ELSE pt[q]
  BY <1>0 DEF n
<1>5. Inibidos' = Inibidos
  BY <1>0, <1>2, <1>4 DEF Inibidos
<1>6. Alarmados' = IF n.naoRec THEN Alarmados \cup {p} ELSE Alarmados \ {p}
  BY <1>0, <1>4 DEF Alarmados
<1>7. CASE t.alrIn
  <2>1. p \notin Alarmados
    BY <1>1, <1>7 DEF Alarmados
  <2> QED
    BY <1>2, <1>3, <1>5, <1>6, <1>7, <2>1 DEF A!vars, Alarmados, Inibidos
<1>8. CASE ~t.alrIn
  <2>1. p \notin Inibidos
    BY <1>8 DEF Inibidos
  <2> QED
    BY <1>3, <1>5, <1>6, <1>0, <2>1 DEF A!Next, A!Ocorre, Alarmados, Inibidos
<1> QED
  BY <1>7, <1>8

(* So is every step.                                                        *)
LEMMA AnunciadorDoPasso == IInv /\ [Next]_vars => [A!Next]_(A!vars)
<1> SUFFICES ASSUME IInv, [Next]_vars PROVE A!Next \/ UNCHANGED A!vars
  OBVIOUS
<1>0. pt \in [Pontos -> TPonto]
  BY DEF IInv, TypeOK
<1>1. ASSUME NEW p \in Pontos, NEW i \in Informacoes,
             EscreveIEC(p, i) \/ ImposePoint(p, i)
      PROVE  UNCHANGED A!vars
  BY <1>1 DEF EscreveIEC, ImposePoint, Anuncia, A!vars
<1>2. CASE GravaIEC \/ GravaImposto
  BY <1>2, EscritaAnuncia DEF GravaIEC, GravaImposto, Threads
<1>3. ASSUME NEW alvo \in Pontos \cup {TODOS}, NEW agrega \in BOOLEAN,
             ReconheceAlarmePonto(alvo, agrega)
      PROVE  A!Next
  <2>1. \A p \in Pontos :
          /\ pt'[p].naoRec = (pt[p].naoRec /\ p \notin Alcance(alvo))
          /\ pt'[p].alrIn = pt[p].alrIn
    <3> SUFFICES ASSUME NEW p \in Pontos
                 PROVE  /\ pt'[p].naoRec = (pt[p].naoRec /\ p \notin Alcance(alvo))
                        /\ pt'[p].alrIn = pt[p].alrIn
      OBVIOUS
    <3>1. pt[p] \in TPonto /\ pt[p].naoRec \in BOOLEAN
      BY <1>0 DEF TPonto
    <3>2. pt'[p] = IF p \in Alcance(alvo) THEN AckDoPonto(cad[p], pt[p]) ELSE pt[p]
      BY <1>3 DEF ReconheceAlarmePonto
    <3>3. CASE p \in Alcance(alvo)
      BY <3>1, <3>2, <3>3 DEF AckDoPonto, TPonto
    <3>4. CASE p \notin Alcance(alvo)
      BY <3>1, <3>2, <3>4
    <3> QED
      BY <3>3, <3>4
  <2>2. /\ Alarmados' = Alarmados \ Alcance(alvo)
        /\ Inibidos' = Inibidos /\ temBeep' = temBeep
    BY <1>3, <2>1 DEF Alarmados, Inibidos, ReconheceAlarmePonto
  <2>3. A!Reconhece(Alcance(alvo))
    BY <2>2 DEF A!Reconhece, Alarmados, Inibidos
  <2> QED
    BY <2>3 DEF A!Next, Alcance
<1>4. CASE ReconheceEvento
  BY <1>4 DEF ReconheceEvento, A!vars
<1>5. CASE TerminaReconhecimento \/ SilenciaBeep
  BY <1>5 DEF TerminaReconhecimento, SilenciaBeep, A!Next, A!Silencia
<1>6. ASSUME NEW p \in Pontos, NEW inibe \in BOOLEAN, SetAlrIn(p, inibe)
      PROVE  A!Next
  <2>1. /\ \A q \in Pontos : /\ pt'[q].alrIn = IF q = p THEN inibe ELSE pt[q].alrIn
                             /\ pt'[q].naoRec = (pt[q].naoRec /\ ~(q = p /\ inibe))
        /\ temBeep' = temBeep
    BY <1>0, <1>6 DEF SetAlrIn, TPonto
  <2>2. CASE inibe
    <3>1. Inibidos' = Inibidos \cup {p} /\ Alarmados' = Alarmados \ {p}
      BY <2>1, <2>2 DEF Inibidos, Alarmados
    <3> QED
      BY <2>1, <3>1 DEF A!Next, A!Inibe, Inibidos, Alarmados
  <2>3. CASE ~inibe
    <3>1. Inibidos' = Inibidos \ {p} /\ Alarmados' = Alarmados
      BY <2>1, <2>3 DEF Inibidos, Alarmados
    <3> QED
      BY <2>1, <3>1 DEF A!Next, A!Libera, Inibidos, Alarmados
  <2> QED
    BY <2>2, <2>3
<1>7. CASE PassaTempo
  <2>1. \A p \in Pontos : pt'[p].naoRec = pt[p].naoRec /\ pt'[p].alrIn = pt[p].alrIn
    BY <1>0, <1>7 DEF PassaTempo, TPonto
  <2>2. Alarmados' = Alarmados /\ Inibidos' = Inibidos
    BY <2>1 DEF Alarmados, Inibidos
  <2> QED
    BY <1>7, <2>2 DEF PassaTempo, A!vars, Alarmados, Inibidos
<1>8. CASE UNCHANGED vars
  BY <1>8 DEF vars, A!vars
<1> QED
  BY <1>1, <1>2, <1>3, <1>4, <1>5, <1>6, <1>7, <1>8 DEF Next

(* The points as loaded are the annunciator before its first step.          *)
LEMMA AnunciadorInicial == Init /\ IInv => A!Init
<1> SUFFICES ASSUME Init, IInv PROVE A!Init
  OBVIOUS
<1>1. ASSUME NEW p \in Pontos PROVE ~pt[p].naoRec
  <2>1. pt[p] \in Carregados(cad[p])
    BY DEF Init
  <2> QED
    BY <2>1 DEF Carregados, PontoCarregado
<1> QED
  BY <1>1 DEF Init, A!Init

(* The digital points implement the annunciator, for any configurations and *)
(* any interleaving of the two threads.                                     *)
THEOREM DigitalCumpreAnunciador == Spec => CumpreAnunciador
BY InitIInv, AnunciadorInicial, AnunciadorDoPasso, Invariante, PTL
   DEF Spec, CumpreAnunciador, A!Spec

(* What the annunciator promises is enough for no inhibited point to be     *)
(* alarmed, whatever implements it.                                         *)
THEOREM AnunciadorBasta == CumpreAnunciador => []InibidoSemAlarme
<1>1. A!Init => InibidoSemAlarme
  BY DEF A!Init, InibidoSemAlarme
<1>2. InibidoSemAlarme /\ [A!Next]_(A!vars) => InibidoSemAlarme'
  <2> SUFFICES ASSUME InibidoSemAlarme, [A!Next]_(A!vars) PROVE InibidoSemAlarme'
    OBVIOUS
  <2>1. Alarmados \cap Inibidos = {}
    BY DEF Alarmados, Inibidos, InibidoSemAlarme
  <2>2. Alarmados' \cap Inibidos' = {}
    <3>1. ASSUME NEW p \in Pontos,
                 A!Ocorre(p) \/ A!Reconhece({p}) \/ A!Inibe(p) \/ A!Libera(p)
          PROVE  Alarmados' \cap Inibidos' = {}
      BY <2>1, <3>1 DEF A!Ocorre, A!Reconhece, A!Inibe, A!Libera, Alarmados, Inibidos
    <3>2. CASE A!Reconhece(Pontos) \/ A!Silencia \/ UNCHANGED A!vars
      BY <2>1, <3>2 DEF A!Reconhece, A!Silencia, A!vars, Alarmados, Inibidos
    <3> QED
      BY <3>1, <3>2 DEF A!Next
  <2> QED
    BY <2>2 DEF Alarmados, Inibidos, InibidoSemAlarme
<1> QED
  BY <1>1, <1>2, PTL DEF CumpreAnunciador, A!Spec
=============================================================================
