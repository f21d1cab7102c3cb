--------------------------- MODULE VisorTelas_proofs ---------------------------
(* Proofs about VisorTelas.                                                 *)
EXTENDS VisorTelas, TLAPS

USE LimitesAssumption

(***************************************************************************)
(* Operators used by the actions.                                          *)
(***************************************************************************)
LEMMA UmTipo == ASSUME NEW b \in BOOLEAN PROVE Um(b) \in {0, 1}
BY DEF Um

LEMMA PedeTipo == ASSUME NEW f \in [Restam -> Nat] PROVE Pede(f) \in [Restam -> Nat]
<1>1. Tentativas \in Restam
  BY DEF Restam
<1> QED
  BY <1>1 DEF Pede

LEMMA AtendeTipo ==
  ASSUME NEW f \in [Restam -> Nat], NEW k \in Restam, f[k] > 0
  PROVE  Atende(f, k) \in [Restam -> Nat]
<1>1. f[k] - 1 \in Nat
  OBVIOUS
<1> QED
  BY <1>1 DEF Atende

(* A repetition takes one request from k, which has some, to k - 1.         *)
LEMMA RepeteTipo ==
  ASSUME NEW f \in [Restam -> Nat], NEW k \in Restam, f[k] > 0
  PROVE  Repete(f, k) \in [Restam -> Nat]
<1> SUFFICES ASSUME NEW j \in Restam
             PROVE  f[j] - Um(j = k) + Um(j = k - 1) \in Nat
  BY DEF Repete
<1>1. f[j] \in Nat /\ (j = k => f[j] > 0)
  OBVIOUS
<1>2. Um(j = k - 1) \in {0, 1}
  BY DEF Um
<1>3. Um(j = k) \in {0, 1} /\ (Um(j = k) = 1 => j = k)
  BY DEF Um
<1> QED
  BY <1>1, <1>2, <1>3

(***************************************************************************)
(* The types, by groups of actions.                                        *)
(***************************************************************************)
LEMMA TipoChama ==
  ASSUME TypeOK, NEW o \in BOOLEAN, callServer(o) \/ callServerParado(o) \/ getServerStatus(o)
  PROVE  TypeOK'
<1>1. CASE callServer(o)
  <2>1. vivos' \in [Restam -> Nat]
    BY <1>1, PedeTipo DEF callServer, TypeOK
  <2>2. orfaosStatus' \in 0..MaxOrfaos
    BY <1>1, UmTipo DEF callServer, TypeOK
  <2>3. orfaosFalha' \in 0..MaxOrfaos
    BY <1>1, UmTipo DEF callServer, Abandona, TypeOK
  <2>4. orfaosCall' \in 0..MaxOrfaos
    <3>1. CASE o
      BY <1>1, <3>1, UmTipo DEF callServer, Vence, Um, TypeOK
    <3>2. CASE ~o
      <4>1. orfaosCall' = orfaosCall
        BY <1>1, <3>2 DEF callServer, Um, TypeOK
      <4> QED
        BY <4>1 DEF TypeOK
    <3> QED
      BY <3>1, <3>2
  <2> QED
    BY <1>1, <2>1, <2>2, <2>3, <2>4 DEF callServer, TypeOK, barras
<1>2. CASE callServerParado(o)
  <2>1. orfaosCall' \in 0..MaxOrfaos
    BY <1>2 DEF callServerParado, Vence, Um, TypeOK
  <2>2. g_toutID' \in BOOLEAN
    BY <1>2 DEF callServerParado
  <2> QED
    BY <1>2, <2>1, <2>2 DEF callServerParado, TypeOK, barras, pedidos
<1>3. CASE getServerStatus(o)
  <2>1. situacao' \in [Restam -> Nat]
    BY <1>3, PedeTipo DEF getServerStatus, TypeOK
  <2>2. orfaosStatus' \in 0..MaxOrfaos
    BY <1>3 DEF getServerStatus, Vence, Um, TypeOK
  <2>3. g_toutStatusID' \in BOOLEAN
    BY <1>3 DEF getServerStatus
  <2> QED
    BY <1>3, <2>1, <2>2, <2>3 DEF getServerStatus, TypeOK, barras
<1> QED
  BY <1>1, <1>2, <1>3

LEMMA TipoFalha == ASSUME TypeOK, NEW o \in BOOLEAN, falhaTudo(o) PROVE TypeOK'
<1>1. orfaosFalha' \in 0..MaxOrfaos
  <2>1. CASE o
    BY <2>1 DEF falhaTudo, Vence, Um, TypeOK
  <2>2. CASE ~o
    BY <2>2 DEF falhaTudo, Um, TypeOK
  <2> QED
    BY <2>1, <2>2
<1> QED
  BY <1>1 DEF falhaTudo, TypeOK, barras, pedidos

LEMMA TipoTermina ==
  ASSUME TypeOK, NEW k \in Restam, TerminaVivos(k) \/ TerminaHistorico(k) \/ TerminaStatus(k)
  PROVE  TypeOK'
<1>1. CASE RespondeVivos(k)
  <2>1. vivos' \in [Restam -> Nat]
    BY <1>1, AtendeTipo DEF RespondeVivos, TypeOK
  <2>2. orfaosFalha' \in 0..MaxOrfaos
    BY <1>1 DEF RespondeVivos, showValsSVG, TypeOK
  <2>3. ultimo' \in {"nada", "falhaTudo", "vivos", "historico"} /\ g_timeoutFalhaID' \in BOOLEAN
    BY <1>1 DEF RespondeVivos, showValsSVG
  <2> QED
    BY <1>1, <2>1, <2>2, <2>3 DEF RespondeVivos, showValsSVG, TypeOK, barras
<1>2. CASE RespondeHistorico(k)
  <2>1. historicos' \in [Restam -> Nat]
    BY <1>2, AtendeTipo DEF RespondeHistorico, TypeOK
  <2>2. orfaosFalha' \in 0..MaxOrfaos
    BY <1>2 DEF RespondeHistorico, showValsSVG, TypeOK
  <2>3. ultimo' \in {"nada", "falhaTudo", "vivos", "historico"} /\ g_timeoutFalhaID' \in BOOLEAN
    BY <1>2 DEF RespondeHistorico, showValsSVG
  <2> QED
    BY <1>2, <2>1, <2>2, <2>3 DEF RespondeHistorico, showValsSVG, TypeOK, barras
<1>3. ASSUME NEW mudou \in BOOLEAN, cbf_Status(k, mudou) PROVE TypeOK'
  <2>1. situacao' \in [Restam -> Nat]
    BY <1>3, AtendeTipo DEF cbf_Status, TypeOK
  <2>2. g_timeoutFalhaID' \in BOOLEAN /\ g_toutID' \in BOOLEAN
    BY <1>3 DEF cbf_Status, Antecipa
  <2> QED
    BY <1>3, <2>1, <2>2 DEF cbf_Status, TypeOK, barras
<1>4. CASE ErroVivos(k)
  <2>1. vivos' \in [Restam -> Nat]
    BY <1>4, RepeteTipo DEF ErroVivos, TypeOK
  <2> QED
    BY <1>4, <2>1 DEF ErroVivos, TypeOK, barras, relogios
<1>5. CASE ErroHistorico(k)
  <2>1. historicos' \in [Restam -> Nat]
    BY <1>5, RepeteTipo DEF ErroHistorico, TypeOK
  <2> QED
    BY <1>5, <2>1 DEF ErroHistorico, TypeOK, barras, relogios
<1>6. CASE ErroStatus(k)
  <2>1. situacao' \in [Restam -> Nat]
    BY <1>6, RepeteTipo DEF ErroStatus, TypeOK
  <2> QED
    BY <1>6, <2>1 DEF ErroStatus, TypeOK, barras, relogios
<1> QED
  BY <1>1, <1>2, <1>3, <1>4, <1>5, <1>6 DEF TerminaVivos, TerminaHistorico, TerminaStatus

LEMMA TipoMaquina ==
  ASSUME TypeOK,
         TIMEMACHINE \/ escolheHora \/ escolheDia \/ changeDate \/ TIMEMACHINECLOSE \/ esc
  PROVE  TypeOK'
<1>1. CASE TIMEMACHINE
  BY <1>1 DEF TIMEMACHINE, TypeOK, pedidos
<1>2. CASE escolheHora \/ escolheDia
  BY <1>2 DEF escolheHora, escolheDia, TypeOK, barras, pedidos
<1>3. CASE changeDate
  <2>1. historicos' \in [Restam -> Nat]
    BY <1>3, PedeTipo DEF changeDate, TypeOK
  <2> QED
    BY <1>3, <2>1 DEF changeDate, TypeOK
<1>4. CASE TIMEMACHINECLOSE
  <2>1. orfaosCall' \in 0..MaxOrfaos
    BY <1>4, UmTipo DEF TIMEMACHINECLOSE, Sai, TypeOK
  <2> QED
    BY <1>4, <2>1 DEF TIMEMACHINECLOSE, Sai, TypeOK, pedidos
<1>5. CASE esc
  BY <1>5 DEF esc, Sai, TypeOK, pedidos
<1> QED
  BY <1>1, <1>2, <1>3, <1>4, <1>5

LEMMA TipoPasso == TypeOK /\ [Next]_vars => TypeOK'
<1>1. ASSUME TypeOK, ServidorMuda \/ UNCHANGED vars PROVE TypeOK'
  BY <1>1 DEF ServidorMuda, vars, barras, relogios, pedidos, TypeOK
<1> QED
  BY <1>1, TipoChama, TipoFalha, TipoTermina, TipoMaquina DEF Next, Chama, Consulta

LEMMA TipoInicio == Init => TypeOK
<1> SUFFICES ASSUME Init PROVE TypeOK
  OBVIOUS
<1>1. orfaosCall \in 0..MaxOrfaos /\ orfaosStatus \in 0..MaxOrfaos /\ orfaosFalha \in 0..MaxOrfaos
  BY DEF Init
<1>3. vivos \in [Restam -> Nat] /\ situacao \in [Restam -> Nat] /\ historicos \in [Restam -> Nat]
  BY DEF Init
<1>4. noAr \in BOOLEAN
  BY DEF Init
<1> QED
  BY <1>1, <1>3, <1>4 DEF Init, TypeOK

(* Every variable keeps its type; timers that nobody can clear are bounded  *)
(* only by the bound of the model.                                          *)
THEOREM TipoCorreto == Spec => []TypeOK
BY TipoInicio, TipoPasso, PTL DEF Spec

(***************************************************************************)
(* The screen never freezes: each action that takes away the next call     *)
(* leaves another one, the time machine, or the timer that leads to it.    *)
(***************************************************************************)
LEMMA SegueViva ==
  ASSUME TypeOK, NuncaCongelada, [Next]_vars
  PROVE  NuncaCongelada'
<1>1. ASSUME NEW o \in BOOLEAN, callServer(o) PROVE NuncaCongelada'
  BY <1>1 DEF callServer, NuncaCongelada
<1>2. ASSUME NEW o \in BOOLEAN, callServerParado(o) PROVE NuncaCongelada'
  BY <1>2 DEF callServerParado, TempoReal, NuncaCongelada, barras
<1>3. ASSUME NEW o \in BOOLEAN, getServerStatus(o) \/ falhaTudo(o) PROVE NuncaCongelada'
  BY <1>3 DEF getServerStatus, falhaTudo, NuncaCongelada, barras
<1>4. ASSUME NEW k \in Restam, RespondeVivos(k) \/ RespondeHistorico(k) PROVE NuncaCongelada'
  BY <1>4 DEF RespondeVivos, RespondeHistorico, showValsSVG, NuncaCongelada, barras
<1>5. ASSUME NEW k \in Restam, ErroVivos(k) \/ ErroHistorico(k) \/ ErroStatus(k)
      PROVE  NuncaCongelada'
  BY <1>5 DEF ErroVivos, ErroHistorico, ErroStatus, NuncaCongelada, barras, relogios
<1>6. ASSUME NEW k \in Restam, NEW mudou \in BOOLEAN, cbf_Status(k, mudou) PROVE NuncaCongelada'
  BY <1>6 DEF cbf_Status, Antecipa, NuncaCongelada, barras
<1>7. ASSUME TIMEMACHINE \/ escolheHora \/ escolheDia \/ changeDate PROVE NuncaCongelada'
  BY <1>7 DEF TIMEMACHINE, escolheHora, escolheDia, changeDate, NuncaCongelada, barras
<1>8. ASSUME TIMEMACHINECLOSE \/ esc PROVE NuncaCongelada'
  BY <1>8 DEF TIMEMACHINECLOSE, esc, Sai, NuncaCongelada
<1>9. ASSUME ServidorMuda \/ UNCHANGED vars PROVE NuncaCongelada'
  BY <1>9 DEF ServidorMuda, vars, NuncaCongelada, barras, relogios
<1> QED
  BY <1>1, <1>2, <1>3, <1>4, <1>5, <1>6, <1>7, <1>8, <1>9
     DEF Next, Chama, Consulta, TerminaVivos, TerminaHistorico, TerminaStatus

(* Out of the time machine some call to the server is always due, for any   *)
(* number of retries, requests and orphan timers.                           *)
THEOREM TelaNuncaCongela == Spec => []NuncaCongelada
<1>1. Init => NuncaCongelada
  BY DEF Init, NuncaCongelada
<1> QED
  BY <1>1, SegueViva, TipoCorreto, PTL DEF Spec
=============================================================================
