------------------------- MODULE Redundancia_proofs -------------------------
(***************************************************************************)
(* Proofs about Redundancia, for any two computers and any counts.  UmSo   *)
(* says what a second primary must have behind it, VezDoOutro that the     *)
(* driver that stepped down stays behind the other one in the countdown.   *)
(* The last part maps each step to one of Turno, or to a stutter.          *)
(***************************************************************************)
EXTENDS Redundancia, TLAPS

MortoNaoEh == \A n \in Nos : primario[n] => n \in vivo

(* While cedeu = n, n counts down at least one tick after the other one, or *)
(* ticks after it.  A keep-alive n sent before it stepped down may still be *)
(* travelling, and restarts the other's count when it arrives.              *)
Atras(n) ==
  /\ n \in vivo /\ Outro(n) \in vivo
  /\ ~primario[n] /\ ~primario[Outro(n)]
  /\ cnt[Outro(n)] <= CntToBePrimary
  /\ IF vez = n THEN cnt[Outro(n)] < cnt[n] ELSE cnt[Outro(n)] <= cnt[n]
  /\ ka # {} => cnt[n] = CntToBePrimary + 1

VezDoOutro == \A n \in Nos : cedeu = n => Atras(n)

IInv == TypeOK /\ MortoNaoEh /\ UmPrimario /\ VezDoOutro

LEMMA Pares ==
  ASSUME NEW n \in Nos
  PROVE  /\ Outro(n) \in Nos /\ Outro(n) # n
         /\ Outro(Outro(n)) = n
         /\ Nos = {n, Outro(n)}
<1>1. PICK x, y \in Nos : x # y /\ Nos = {x, y}
  BY NosAssumption
<1>2. \A m \in Nos : \E k \in Nos : k # m
  BY <1>1
<1>3. \A m \in Nos : Outro(m) \in Nos /\ Outro(m) # m
  BY <1>2 DEF Outro
<1> QED
  BY <1>1, <1>3

LEMMA InitIInv == Init => IInv
<1> SUFFICES ASSUME Init PROVE IInv
  OBVIOUS
<1>1. TypeOK
  <2>1. /\ primario \in [Nos -> BOOLEAN]
        /\ tcp \in [Nos -> {"fechado", "conectando", "conectado"}]
    BY DEF Init
  <2>2. cnt \in [Nos -> 0..CntToBePrimary + 1] /\ falhas \in 0..MaxFalhas
    BY LimitesAssumption DEF Init
  <2> QED
    BY <2>1, <2>2 DEF Init, TypeOK
<1>2. \E n \in Nos : ~primario[n]
  BY NosAssumption DEF Init
<1> QED
  BY <1>1, <1>2, NosAssumption DEF Init, IInv, MortoNaoEh, UmPrimario, VezDoOutro

LEMMA TipoDoPasso == TypeOK /\ MortoNaoEh /\ VezDoOutro /\ [Next]_vars => TypeOK' /\ MortoNaoEh'
<1> SUFFICES ASSUME TypeOK, MortoNaoEh, VezDoOutro, [Next]_vars
             PROVE  TypeOK' /\ MortoNaoEh'
  OBVIOUS
<1> USE LimitesAssumption, Pares DEF TypeOK, MortoNaoEh
<1>1. ASSUME NEW n \in Nos, Tick(n) PROVE TypeOK' /\ MortoNaoEh'
  BY <1>1 DEF Tick, slot_timer_I104M_kamsg, Assume
<1>2. ASSUME NEW n \in Nos, RecebeKA(n) PROVE TypeOK' /\ MortoNaoEh'
  <2>1. CASE Obedece(n)
    <3>1. /\ primario' = [primario EXCEPT ![n] = FALSE]
          /\ cnt' = [cnt EXCEPT ![n] = CntToBePrimary]
          /\ tcp' = [tcp EXCEPT ![n] = FechaTcp(n)]
          /\ cedeu' \in {cedeu, Ninguem}
      BY <1>2, <2>1 DEF RecebeKA
    <3>2. FechaTcp(n) \in {"fechado", "conectando", "conectado"}
      BY DEF FechaTcp
    <3>3. /\ primario' \in [Nos -> BOOLEAN]
          /\ cnt' \in [Nos -> 0..CntToBePrimary + 1]
          /\ tcp' \in [Nos -> {"fechado", "conectando", "conectado"}]
      BY <3>1, <3>2
    <3> QED
      BY <1>2, <3>1, <3>3 DEF RecebeKA
  <2>2. CASE ~Obedece(n)
    BY <1>2, <2>2 DEF RecebeKA
  <2> QED
    BY <2>1, <2>2
<1>3. ASSUME NEW n \in Nos, PerdeKA(n) PROVE TypeOK' /\ MortoNaoEh'
  BY <1>3 DEF PerdeKA, Falha, driver
<1>4. ASSUME NEW n \in Nos, connectTCP(n) PROVE TypeOK' /\ MortoNaoEh'
  BY <1>4 DEF connectTCP, historia
<1>5. ASSUME NEW n \in Nos, ResolveConexao(n) PROVE TypeOK' /\ MortoNaoEh'
  BY <1>5 DEF ResolveConexao, historia
<1>6. ASSUME NEW n \in Nos, slot_tcpdisconnect(n) PROVE TypeOK' /\ MortoNaoEh'
  BY <1>6 DEF slot_tcpdisconnect, Falha, Espera
<1>7. ASSUME NEW n \in Nos, Morre(n) PROVE TypeOK' /\ MortoNaoEh'
  BY <1>7 DEF Morre, Falha
<1>8. ASSUME NEW n \in Nos, Inicia(n) PROVE TypeOK' /\ MortoNaoEh'
  BY <1>8 DEF Inicia, historia
<1>9. CASE PassaVez
  BY <1>9 DEF PassaVez, driver, historia
<1>10. CASE UNCHANGED vars
  BY <1>10 DEF vars
<1> QED
  BY <1>1, <1>2, <1>3, <1>4, <1>5, <1>6, <1>7, <1>8, <1>9, <1>10 DEF Next

(* Two primaries at once: whoever became the second sent a keep-alive in    *)
(* the same step, and its arrival leaves one.                               *)
LEMMA UmPrimarioDoPasso ==
  TypeOK /\ MortoNaoEh /\ UmPrimario /\ [Next]_vars => UmPrimario'
<1> SUFFICES ASSUME TypeOK, MortoNaoEh, UmPrimario, [Next]_vars, ForcePrimary = {},
                    \A n \in Nos : primario'[n]
             PROVE  ka' # {} \/ perdida'
  BY DEF UmPrimario
<1> USE Pares DEF TypeOK, MortoNaoEh, UmPrimario
<1>1. ASSUME NEW n \in Nos, Tick(n) PROVE ka' # {}
  <2>1. primario[n] \/ Assume(n)
    BY <1>1 DEF Tick, slot_timer_I104M_kamsg
  <2> QED
    BY <1>1, <2>1 DEF Tick, slot_timer_I104M_kamsg
<1>2. ASSUME NEW n \in Nos, RecebeKA(n) PROVE FALSE
  <2>1. CASE Obedece(n)
    BY <1>2, <2>1 DEF RecebeKA
  <2>2. CASE ~Obedece(n)
    BY <1>2, <2>2 DEF RecebeKA, Obedece
  <2> QED
    BY <2>1, <2>2
<1>3. ASSUME NEW n \in Nos, PerdeKA(n) PROVE perdida'
  BY <1>3 DEF PerdeKA
<1>4. ASSUME NEW n \in Nos,
             connectTCP(n) \/ ResolveConexao(n) \/ Inicia(n) \/ PassaVez
      PROVE  ka' # {} \/ perdida'
  BY <1>4 DEF connectTCP, ResolveConexao, Inicia, PassaVez, driver, historia
<1>5. ASSUME NEW n \in Nos, slot_tcpdisconnect(n) \/ Morre(n) PROVE FALSE
  BY <1>5 DEF slot_tcpdisconnect, Morre
<1>6. CASE UNCHANGED vars
  BY <1>6 DEF vars
<1> QED
  BY <1>1, <1>2, <1>3, <1>4, <1>5, <1>6, NosAssumption DEF Next

(* The driver that stepped down stays behind.                               *)
LEMMA VezDoOutroDoPasso ==
  TypeOK /\ MortoNaoEh /\ VezDoOutro /\ [Next]_vars => VezDoOutro'
<1> SUFFICES ASSUME TypeOK, MortoNaoEh, VezDoOutro, [Next]_vars,
                    NEW m \in Nos, cedeu' = m
             PROVE  Atras(m)'
  BY DEF VezDoOutro
<1> DEFINE o == Outro(m)
<1>0. /\ o \in Nos /\ o # m /\ Outro(o) = m /\ Nos = {m, o} /\ m # Ninguem
      /\ cnt[m] \in Int /\ cnt[o] \in Int /\ CntToBePrimary \in Nat
      /\ cnt[o] <= CntToBePrimary + 1
  BY Pares, NosAssumption, LimitesAssumption DEF TypeOK
<1>1. ASSUME NEW n \in Nos, Tick(n) PROVE Atras(m)'
  <2>1. ~Assume(n) /\ cedeu = m
    BY <1>0, <1>1 DEF Tick, slot_timer_I104M_kamsg
  <2>2. Atras(m)
    BY <2>1 DEF VezDoOutro
  <2>3. ~primario[n]
    BY <1>0, <2>2 DEF Atras
  <2>4. /\ cnt' = [cnt EXCEPT ![n] = cnt[n] - 1]
        /\ primario' = [primario EXCEPT ![n] = FALSE]
        /\ vez = n /\ vez' = Outro(n) /\ ka' = {} /\ vivo' = vivo
    BY <1>1, <2>1, <2>3 DEF Tick, slot_timer_I104M_kamsg
  <2> QED
    BY <1>0, <2>2, <2>4 DEF Atras, TypeOK
<1>2. ASSUME NEW n \in Nos, RecebeKA(n) PROVE Atras(m)'
  <2>1. cedeu = m /\ ka # {} /\ vivo' = vivo /\ vez' = vez
    BY <1>0, <1>2 DEF RecebeKA
  <2>2. Atras(m) /\ cnt[m] = CntToBePrimary + 1
    BY <2>1 DEF VezDoOutro, Atras
  <2>3. CASE Obedece(n)
    <3>1. n = o
      BY <1>0, <1>2, <2>1, <2>3 DEF RecebeKA
    <3>2. /\ cnt' = [cnt EXCEPT ![o] = CntToBePrimary]
          /\ primario' = [primario EXCEPT ![o] = FALSE]
      BY <1>2, <2>3, <3>1 DEF RecebeKA
    <3> QED
      BY <1>0, <2>1, <2>2, <3>2 DEF Atras, TypeOK
  <2>4. CASE ~Obedece(n)
    BY <1>0, <1>2, <2>1, <2>2, <2>4 DEF RecebeKA, Atras
  <2> QED
    BY <2>3, <2>4
<1>3. ASSUME NEW n \in Nos, PerdeKA(n) PROVE Atras(m)'
  BY <1>3 DEF PerdeKA, driver, VezDoOutro, Atras
<1>4. ASSUME NEW n \in Nos, connectTCP(n) \/ ResolveConexao(n) PROVE Atras(m)'
  BY <1>4 DEF connectTCP, ResolveConexao, historia, VezDoOutro, Atras
<1>5. ASSUME NEW n \in Nos, slot_tcpdisconnect(n) PROVE Atras(m)'
  <2>1. CASE primario[n] /\ PodeAssumir(o) /\ n = m
    <3>1. /\ cnt' = [cnt EXCEPT ![m] = CntToBePrimary + 1]
          /\ primario' = [primario EXCEPT ![m] = FALSE]
          /\ vivo' = vivo /\ m \in vivo /\ ka' = ka
      BY <1>5, <2>1 DEF slot_tcpdisconnect, Espera
    <3> QED
      BY <1>0, <2>1, <3>1 DEF PodeAssumir, Atras, TypeOK
  <2>2. CASE ~(primario[n] /\ PodeAssumir(o) /\ n = m)
    <3>1. cedeu = m
      BY <1>5, <2>2 DEF slot_tcpdisconnect
    <3>2. Atras(m) /\ ~primario[n]
      BY <1>0, <3>1 DEF VezDoOutro, Atras
    <3>3. /\ cnt'[m] = cnt[m] /\ cnt'[o] = cnt[o]
          /\ ~primario'[m] /\ ~primario'[o]
      BY <1>0, <1>5, <3>2 DEF slot_tcpdisconnect, Atras, TypeOK
    <3> QED
      BY <1>5, <3>2, <3>3 DEF slot_tcpdisconnect, Atras
  <2> QED
    BY <2>1, <2>2
<1>6. ASSUME NEW n \in Nos, Morre(n) PROVE FALSE
  BY <1>0, <1>6 DEF Morre
<1>7. ASSUME NEW n \in Nos, Inicia(n) \/ PassaVez PROVE FALSE
  <2>1. cedeu = m
    BY <1>7 DEF Inicia, PassaVez, historia
  <2> QED
    BY <1>0, <1>7, <2>1 DEF Inicia, PassaVez, VezDoOutro, Atras, TypeOK
<1>8. CASE UNCHANGED vars
  BY <1>8 DEF vars, VezDoOutro, Atras
<1> QED
  BY <1>1, <1>2, <1>3, <1>4, <1>5, <1>6, <1>7, <1>8 DEF Next

LEMMA NextIInv == IInv /\ [Next]_vars => IInv'
BY TipoDoPasso, UmPrimarioDoPasso, VezDoOutroDoPasso DEF IInv

(* The inductive invariant always holds, whatever is lost or crashes.       *)
THEOREM Invariante == Spec => []IInv
BY InitIInv, NextIInv, PTL DEF Spec

(* The types of the two drivers' state.                                     *)
THEOREM TipoCorreto == Spec => []TypeOK
BY Invariante, PTL DEF IInv

(* Two primaries at once only while a keep-alive travels, or after one was  *)
(* lost.                                                                    *)
THEOREM SempreUmPrimario == Spec => []UmPrimario
BY Invariante, PTL DEF IInv

(* A driver that stepped down waits for the other one's turn: its count     *)
(* reaches zero after the other's, wherever the two timers were.            *)
THEOREM OutroSempreAssume == Spec => OutroAssume
<1>1. ASSUME IInv, [Next]_vars, NEW n \in Nos, ~primario[n], primario'[n],
             cedeu = n
      PROVE  FALSE
  <2>1. Atras(n) /\ Outro(n) \in Nos /\ Outro(n) # n
    BY <1>1, Pares DEF IInv, VezDoOutro
  <2>2. ASSUME NEW m \in Nos, Tick(m) PROVE FALSE
    <3>1. m = n /\ vez = n /\ cnt[n] = 0
      BY <1>1, <2>2 DEF Tick, slot_timer_I104M_kamsg, Assume, IInv, TypeOK
    <3> QED
      BY <1>1, <2>1, <3>1, LimitesAssumption DEF Atras, IInv, TypeOK
  <2>3. ASSUME NEW m \in Nos,
               \/ RecebeKA(m) \/ PerdeKA(m) \/ connectTCP(m) \/ ResolveConexao(m)
               \/ slot_tcpdisconnect(m) \/ Morre(m) \/ Inicia(m) \/ PassaVez
        PROVE  FALSE
    BY <1>1, <2>3 DEF RecebeKA, PerdeKA, connectTCP, ResolveConexao,
                      slot_tcpdisconnect, Morre, Inicia, PassaVez, driver, IInv,
                      TypeOK
  <2>4. CASE UNCHANGED vars
    BY <1>1, <2>4 DEF vars
  <2> QED
    BY <1>1, <2>2, <2>3, <2>4 DEF Next
<1>2. IInv /\ [Next]_vars =>
        [\A n \in Nos : ~primario[n] /\ primario'[n] => cedeu # n]_vars
  BY <1>1
<1> QED
  BY <1>2, Invariante, PTL DEF Spec, OutroAssume

(***************************************************************************)
(* The turn.                                                               *)
(***************************************************************************)
Donos == {n \in Nos : primario[n]}

LEMMA TurnoInicial == Init => T!Init
BY DEF Init, T!Init

(* Every step of the drivers is a step of the turn, or leaves it alone.     *)
LEMMA TurnoDoPasso == IInv /\ [Next]_vars => [T!Next]_(T!vars)
<1> SUFFICES ASSUME IInv, [Next]_vars PROVE [T!Next]_(T!vars)
  OBVIOUS
<1> USE Pares, NosAssumption DEF IInv, TypeOK, MortoNaoEh
<1>0. \A n \in Nos : /\ Outro(n) \in Nos /\ Outro(n) # n
                     /\ Nos \ {n} = {Outro(n)} /\ n # Ninguem
  BY Pares, NosAssumption
<1>1. ASSUME NEW n \in Nos, Tick(n) PROVE T!Next \/ UNCHANGED T!vars
  <2>1. /\ n \in vivo /\ vez = n /\ ka = {} /\ perdida' = perdida
        /\ primario' = [primario EXCEPT ![n] = primario[n] \/ Assume(n)]
    BY <1>1 DEF Tick, slot_timer_I104M_kamsg
  <2>2. CASE Assume(n)
    <3>1. /\ ka' = {Outro(n)} /\ cedeu' = Ninguem
          /\ Donos' = Donos \cup {n} /\ n \notin Donos
      BY <1>1, <2>1, <2>2 DEF Tick, slot_timer_I104M_kamsg, Assume, Donos
    <3>2. cedeu # n
      <4> SUFFICES ASSUME cedeu = n PROVE FALSE
        OBVIOUS
      <4>1. Atras(n)
        BY DEF VezDoOutro
      <4>2. cnt[Outro(n)] < cnt[n] /\ cnt[n] <= 0
        BY <2>1, <2>2, <4>1 DEF Atras, Assume
      <4> QED
        BY <1>0, <4>2, LimitesAssumption
    <3>3. T!Assume(n)
      BY <1>0, <2>1, <3>1, <3>2 DEF T!Assume, Donos
    <3> QED
      BY <3>3 DEF T!Next
  <2>3. CASE ~Assume(n) /\ primario[n]
    <3>1. ka' = {Outro(n)} /\ cedeu' = cedeu /\ Donos' = Donos /\ n \in Donos
      BY <1>1, <2>1, <2>3 DEF Tick, slot_timer_I104M_kamsg, Donos
    <3>2. T!Renova(n)
      BY <1>0, <2>1, <3>1 DEF T!Renova, Donos
    <3> QED
      BY <3>2 DEF T!Next
  <2>4. CASE ~Assume(n) /\ ~primario[n]
    <3>1. ka' = ka /\ cedeu' = cedeu /\ Donos' = Donos
      BY <1>1, <2>1, <2>4 DEF Tick, slot_timer_I104M_kamsg, Donos
    <3> QED
      BY <2>1, <3>1 DEF T!vars, Donos
  <2> QED
    BY <2>2, <2>3, <2>4
<1>2. ASSUME NEW n \in Nos, RecebeKA(n) PROVE T!Next
  <2>1. n \in ka /\ ka' = ka \ {n} /\ perdida' = FALSE
    BY <1>2 DEF RecebeKA
  <2>2. CASE Obedece(n)
    <3>1. /\ Donos' = Donos \ {n} /\ n \notin ForcePrimary
          /\ cedeu' = IF cedeu = n THEN Ninguem ELSE cedeu
      BY <1>2, <2>2 DEF RecebeKA, Obedece, Donos
    <3> QED
      BY <2>1, <3>1 DEF T!Next, T!Obedece, Donos
  <2>3. CASE ~Obedece(n)
    <3>1. Donos' = Donos /\ cedeu' = cedeu
      BY <1>2, <2>3 DEF RecebeKA, Donos
    <3>2. n \in ForcePrimary \/ (n \notin Donos /\ cedeu # n)
      <4>1. n \in ForcePrimary \/ n \notin vivo
        BY <2>3 DEF Obedece
      <4>2. n \notin vivo => ~primario[n] /\ cedeu # n
        BY DEF VezDoOutro, Atras
      <4> QED
        BY <4>1, <4>2 DEF Donos
    <3>3. n \notin ForcePrimary => Donos' = Donos \ {n} /\ cedeu # n
      BY <3>1, <3>2
    <3> QED
      BY <2>1, <3>1, <3>3 DEF T!Next, T!Obedece, Donos
  <2> QED
    BY <2>2, <2>3
<1>3. ASSUME NEW n \in Nos, PerdeKA(n) PROVE T!Next
  BY <1>3 DEF PerdeKA, driver, T!Next, T!Extravia
<1>4. ASSUME NEW n \in Nos, connectTCP(n) \/ ResolveConexao(n) \/ Inicia(n)
      PROVE  UNCHANGED T!vars
  BY <1>4 DEF connectTCP, ResolveConexao, Inicia, historia, T!vars
<1>5. ASSUME NEW n \in Nos, slot_tcpdisconnect(n)
      PROVE  T!Next \/ UNCHANGED T!vars
  <2>1. /\ primario' = [primario EXCEPT ![n] = FALSE]
        /\ ka' = ka /\ perdida' = perdida
    BY <1>5 DEF slot_tcpdisconnect
  <2>2. CASE primario[n]
    <3>1. n \in Donos /\ Donos' = Donos \ {n}
      BY <2>1, <2>2 DEF Donos
    <3>2. cedeu = Ninguem
      BY <1>0, <2>2 DEF VezDoOutro, Atras
    <3>3. cedeu' = IF PodeAssumir(Outro(n)) THEN n ELSE Ninguem
      BY <1>5, <2>2, <3>2 DEF slot_tcpdisconnect
    <3>4. PodeAssumir(Outro(n)) => Donos = {n}
      BY <1>0, <2>2 DEF PodeAssumir, Donos
    <3>5. T!Cede(n)
      BY <2>1, <3>1, <3>3, <3>4 DEF T!Cede, Donos
    <3> QED
      BY <3>5 DEF T!Next
  <2>3. CASE ~primario[n]
    <3>1. Donos' = Donos /\ cedeu' = cedeu
      BY <1>5, <2>1, <2>3 DEF slot_tcpdisconnect, Donos
    <3> QED
      BY <2>1, <3>1 DEF T!vars, Donos
  <2> QED
    BY <2>2, <2>3
<1>6. ASSUME NEW n \in Nos, Morre(n) PROVE T!Next
  <2>1. Donos' = Donos \ {n} /\ cedeu' = Ninguem /\ ka' = ka /\ perdida' = perdida
    BY <1>6 DEF Morre, Donos
  <2> QED
    BY <2>1 DEF T!Next, T!Morre, Donos
<1>7. CASE PassaVez
  BY <1>7 DEF PassaVez, driver, historia, T!vars
<1>8. CASE UNCHANGED vars
  BY <1>8 DEF vars, T!vars
<1> QED
  BY <1>1, <1>2, <1>3, <1>4, <1>5, <1>6, <1>7, <1>8 DEF Next

(* The two drivers implement the turn, whatever their counts and whoever is *)
(* forced to stay primary.                                                  *)
THEOREM SempreCumpreTurno == Spec => CumpreTurno
BY TurnoInicial, TurnoDoPasso, Invariante, PTL DEF Spec, CumpreTurno, T!Spec

(* Taking turns is enough: of two that do, both have the turn only while a  *)
(* notice travels or after one was lost, with no need of timers or counts.  *)
THEOREM TurnoBasta == CumpreTurno => []UmPrimario
<1>1. T!Init => UmPrimario
  BY NosAssumption DEF T!Init, UmPrimario
<1>2. UmPrimario /\ [T!Next]_(T!vars) => UmPrimario'
  <2> SUFFICES ASSUME UmPrimario, [T!Next]_(T!vars), ForcePrimary = {},
                      \A n \in Nos : primario'[n]
               PROVE  ka' # {} \/ perdida'
    BY DEF UmPrimario
  <2>1. Donos' = Nos
    BY DEF Donos
  <2>2. Donos = Nos => ka # {} \/ perdida
    BY DEF UmPrimario, Donos
  <2>3. ASSUME NEW n \in Nos, T!Assume(n) \/ T!Renova(n) PROVE ka' # {}
    <3>1. ka' = Nos \ {n}
      BY <2>3 DEF T!Assume, T!Renova
    <3> QED
      BY <3>1, NosAssumption
  <2>4. ASSUME NEW n \in Nos, T!Obedece(n) PROVE FALSE
    BY <2>1, <2>4 DEF T!Obedece, Donos
  <2>5. ASSUME NEW n \in Nos, T!Extravia(n) PROVE perdida'
    BY <2>5 DEF T!Extravia
  <2>6. ASSUME NEW n \in Nos, T!Cede(n) \/ T!Morre(n) PROVE FALSE
    BY <2>1, <2>6 DEF T!Cede, T!Morre, Donos
  <2>7. CASE UNCHANGED T!vars
    BY <2>1, <2>2, <2>7 DEF T!vars, Donos
  <2> QED
    BY <2>3, <2>4, <2>5, <2>6, <2>7 DEF T!Next
<1> QED
  BY <1>1, <1>2, PTL DEF CumpreTurno, T!Spec
=============================================================================
