---------------------------- MODULE Comando_proofs ----------------------------
(* Proofs about Comando.                                                    *)
EXTENDS Comando, TLAPS

USE DEF Nenhum, Ids, Enderecos, UTRs, Atendendo, Parado, Quadros, Respostas, Avisos

(***************************************************************************)
(* The inductive invariant.  Commands sent have a point and an operator;   *)
(* a dialog at work has a point.                                           *)
(***************************************************************************)
Conhecidos ==
  /\ \A i \in Ids : i <= n => ponto[i] \in Pontos /\ dono[i] \in Operadores
  /\ \A o \in Operadores : passo[o] # "livre" => alvo[o] \in Pontos

(* Nothing is said yet of a command not sent.                               *)
Enviados ==
  /\ \A i \in aoVarredor : i <= n
  /\ \A q \in aRtu : q.id <= n
  /\ \A m \in daRtu : m.id <= n
  /\ \A a \in aoServidor : a.id <= n
  /\ \A i \in Ids : i > n => execucoes[i] = 0 /\ respostas[i] = 0

(* A command is in one place at a time: on its way to the driver, to the    *)
(* RTU, or in the confirmation of the RTU;                                  *)
EmUmLugar ==
  /\ \A i \in aoVarredor : \A q \in aRtu : q.id # i
  /\ \A i \in aoVarredor : \A m \in daRtu : m.id # i
  /\ \A q \in aRtu : \A r \in aRtu : q.id = r.id => q = r
  /\ \A q \in aRtu : \A m \in daRtu : q.id = m.id => m.causa # "ACTCONFIRM"
  /\ \A m \in daRtu : \A r \in daRtu :
       m.causa = "ACTCONFIRM" /\ r.causa = "ACTCONFIRM" /\ m.id = r.id => m = r

(* until then it has no answer, and one execution once it is executed.      *)
Contas ==
  /\ \A i \in aoVarredor : execucoes[i] = 0 /\ respostas[i] = 0
  /\ \A q \in aRtu : respostas[q.id] = 0
  /\ \A q \in aRtu : q.se = "select" => execucoes[q.id] = 0
  /\ \A m \in daRtu : m.causa = "ACTCONFIRM" => respostas[m.id] = 0
  /\ \A m \in daRtu : m.causa = "ACTCONFIRM" /\ m.se = "select" => execucoes[m.id] = 0
  /\ \A m \in daRtu : m.se = "select" /\ m.pn = "positive" => m.id \in confirmados

(* With one thread, at most one handler of a server is at work, and the     *)
(* point being asked for is its own;                                        *)
UmDeCadaVez ==
  UmaThread =>
    /\ \A o, x \in Operadores :
         Posto[o] = Posto[x] /\ passo[o] \in Atendendo /\ passo[x] \in Atendendo => o = x
    /\ \A o \in Operadores : passo[o] = "anotado" => cmdNPonto[Posto[o]] = alvo[o]

(* when none is between the point and the count, a count of answers         *)
(* different from the one kept means a new answer for every dialog of that  *)
(* point.                                                                   *)
Livre(s) == \A x \in Operadores : Posto[x] = s => passo[x] # "anotado"
Diferente(o) == cmdNPonto[Posto[o]] = alvo[o] /\ cntAck[Posto[o]][alvo[o]] # cmdCntAck[Posto[o]]

DiferenteENova ==
  UmaThread => \A o \in Operadores :
    passo[o] \notin {"livre", "anotado"} /\ Livre(Posto[o]) /\ Diferente(o) => nova[o]

IInv ==
  /\ TypeOK /\ Conhecidos /\ Enviados /\ EmUmLugar /\ Contas /\ ExecucaoCerta /\ RespostaUnica
  /\ UmDeCadaVez /\ DiferenteENova /\ RespostaNova

LEMMA InitIInv == Init => IInv
<1> SUFFICES ASSUME Init PROVE IInv
  OBVIOUS
<1> USE LimitesAssumption, PontosAssumption, PostoAssumption DEF Init
<1>1. TypeOK
  BY DEF TypeOK
<1>2. Conhecidos /\ Enviados /\ EmUmLugar /\ Contas
  BY DEF Conhecidos, Enviados, EmUmLugar, Contas
<1>3. ExecucaoCerta /\ RespostaUnica
  BY DEF ExecucaoCerta, RespostaUnica
<1>4. UmDeCadaVez /\ DiferenteENova /\ RespostaNova
  BY DEF UmDeCadaVez, DiferenteENova, RespostaNova
<1> QED
  BY <1>1, <1>2, <1>3, <1>4 DEF IInv

(***************************************************************************)
(* Operators used by the actions.                                          *)
(***************************************************************************)
LEMMA Mapeado ==
  ASSUME NEW e, NEW u
  PROVE  NPontoPorEndUTR(e, u) \in Pontos \cup {Nenhum}
<1>1. \A S \in SUBSET Pontos : S # {} => PrimeiroDe(S) \in Pontos
  BY ListaAssumption DEF PrimeiroDe
<1>2. Com(e, 0) \subseteq Pontos /\ Com(e, u) \subseteq Pontos
  BY DEF Com
<1> QED
  BY <1>1, <1>2 DEF NPontoPorEndUTR

LEMMA DestinoTipo == ASSUME NEW ca \in UTRs \cup {0} PROVE Destino(ca) \in UTRs
BY DEF Destino

LEMMA QuadroTipo ==
  ASSUME NEW i \in Ids, NEW modo \in {"select", "execute"}, NEW ca \in UTRs \cup {0},
         TypeOK, sendCommand(i, modo, ca)
  PROVE  aRtu' \subseteq Quadros /\ execucoes' \in [Ids -> Nat]
<1>1. [id |-> i, se |-> modo, ca |-> Destino(ca)] \in Quadros
  BY DestinoTipo
<1>2. aRtu' \subseteq Quadros
  <2> HIDE DEF Quadros
  <2> QED
    BY <1>1 DEF TypeOK, sendCommand
<1>3. execucoes' \in [Ids -> Nat]
  <2> HIDE DEF Ids
  <2>1. execucoes \in [Ids -> Nat] /\ execucoes[i] + 1 \in Nat
    BY DEF TypeOK
  <2> QED
    BY <2>1 DEF sendCommand
<1> QED
  BY <1>2, <1>3

LEMMA TipoDoPasso == TypeOK /\ Conhecidos /\ Enviados /\ [Next]_vars => TypeOK' /\ Conhecidos'
<1> SUFFICES ASSUME TypeOK, Conhecidos, Enviados, [Next]_vars PROVE TypeOK' /\ Conhecidos'
  OBVIOUS
<1> USE LimitesAssumption, PontosAssumption, PostoAssumption
    DEF TypeOK, Conhecidos, Enviados, servidor, rede, historia
<1>1. ASSUME NEW o \in Operadores, NEW p \in Pontos, Anota(o, p) PROVE TypeOK' /\ Conhecidos'
  BY <1>1 DEF Anota
<1>2. ASSUME NEW o \in Operadores, Marca(o) PROVE TypeOK' /\ Conhecidos'
  <2>1. Contagem(o) \in Nat
    BY <1>2 DEF Marca, Contagem
  <2> QED
    BY <1>2, <2>1 DEF Marca
<1>3. ASSUME NEW o \in Operadores, Envia(o) PROVE TypeOK' /\ Conhecidos'
  <2>1. n' \in 0..MaxPedidos /\ n' = n + 1 /\ n + 1 \in Ids
    BY <1>3 DEF Envia
  <2>2. /\ ponto' \in [Ids -> Pontos \cup {Nenhum}]
        /\ dono' \in [Ids -> Operadores \cup {Nenhum}]
        /\ aoVarredor' \subseteq Ids
    <3> HIDE DEF Ids
    <3> QED
      BY <1>3, <2>1 DEF Envia
  <2>3. passo' \in [Operadores -> Atendendo \cup Parado]
    BY <1>3 DEF Envia
  <2>4. TypeOK'
    BY <1>3, <2>1, <2>2, <2>3 DEF Envia
  <2>5. \A i \in Ids : i <= n' => ponto'[i] \in Pontos /\ dono'[i] \in Operadores
    BY <1>3, <2>1 DEF Envia
  <2>6. \A x \in Operadores : passo'[x] # "livre" => alvo'[x] \in Pontos
    BY <1>3 DEF Envia
  <2> QED
    BY <2>4, <2>5, <2>6
<1>4. ASSUME NEW o \in Operadores, luaIntercepta(o) PROVE TypeOK' /\ Conhecidos'
  BY <1>4 DEF luaIntercepta
<1>5. ASSUME NEW o \in Operadores, LeFalha(o) PROVE TypeOK' /\ Conhecidos'
  <2>1. falhaAck[Posto[o]][alvo[o]] \in BOOLEAN
    BY <1>5 DEF LeFalha
  <2> QED
    BY <1>5, <2>1 DEF LeFalha
<1>6. ASSUME NEW o \in Operadores, LeContagem(o) PROVE TypeOK' /\ Conhecidos'
  <2>1. Resultado(o) \in {"esperando", "rejeitado", "ok"}
    BY DEF Resultado
  <2> QED
    BY <1>6, <2>1 DEF LeContagem
<1>7. ASSUME NEW i \in aoVarredor, slot_I104M_ready_to_read(i) PROVE TypeOK' /\ Conhecidos'
  <2>1. i \in Ids /\ ponto[i] \in Pontos
    OBVIOUS
  <2>2. Modo(i) \in {"select", "execute"}
    BY DEF Modo
  <2>3. aRtu' \subseteq Quadros /\ execucoes' \in [Ids -> Nat]
    <3>1. sendCommand(i, Modo(i), UTR[ponto[i]])
      BY <1>7 DEF slot_I104M_ready_to_read
    <3>2. UTR[ponto[i]] \in UTRs
      BY <2>1
    <3> QED
      BY <2>1, <2>2, <3>1, <3>2, QuadroTipo
  <2>4. LastCommandAddress' \in Enderecos
    BY <1>7, <2>1 DEF slot_I104M_ready_to_read
  <2>5. aoVarredor' \subseteq Ids /\ ultimo' \in 0..MaxPedidos
    BY <1>7, <2>1 DEF slot_I104M_ready_to_read
  <2> HIDE DEF Ids, Quadros, Respostas, Avisos, Enderecos, UTRs
  <2> QED
    BY <1>7, <2>3, <2>4, <2>5 DEF slot_I104M_ready_to_read
<1>8. ASSUME NEW m \in daRtu, slot_commandActRespIndication(m) PROVE TypeOK' /\ Conhecidos'
  <2>1. m \in Respostas
    OBVIOUS
  <2>2. aRtu' \subseteq Quadros /\ execucoes' \in [Ids -> Nat]
    BY <1>8, <2>1, QuadroTipo DEF slot_commandActRespIndication
  <2>3. aoServidor' \subseteq Avisos
    <3>1. Aviso(m) \subseteq Avisos
      <4>1. \A b \in BOOLEAN : \A s \in Servidores :
              [para |-> s, id |-> m.id, ca |-> m.ca, falha |-> b] \in Avisos
        BY <2>1
      <4>2. (m.pn = "negative") \in BOOLEAN
        OBVIOUS
      <4> HIDE DEF Avisos, Respostas
      <4>3. \A s \in Servidores :
              [para |-> s, id |-> m.id, ca |-> m.ca, falha |-> m.pn = "negative"] \in Avisos
        BY ONLY <4>1, <4>2, Zenon
      <4> QED
        BY ONLY <4>3 DEF Aviso
    <3> HIDE DEF Avisos, Respostas
    <3> QED
      BY <1>8, <3>1 DEF slot_commandActRespIndication
  <2>4. respostas' \in [Ids -> Nat]
    <3>1. m.id \in Ids
      BY <2>1
    <3>2. \A i \in Ids : respostas[i] + 1 \in Nat
      OBVIOUS
    <3> HIDE DEF Ids, Respostas
    <3> QED
      BY <1>8, <3>1, <3>2 DEF slot_commandActRespIndication
  <2> HIDE DEF Ids, Quadros, Respostas, Avisos, Enderecos, UTRs
  <2> QED
    BY <1>8, <2>2, <2>3, <2>4 DEF slot_commandActRespIndication
<1>9. ASSUME NEW q \in aRtu, RtuAceita(q) PROVE TypeOK' /\ Conhecidos'
  <2>1. Resposta(q, "ACTCONFIRM", "positive") \in Respostas /\ Resposta(q, "ACTTERM", "positive") \in Respostas
    BY DEF Resposta
  <2> QED
    BY <1>9, <2>1 DEF RtuAceita
<1>10. ASSUME NEW q \in aRtu, RtuRecusa(q) PROVE TypeOK' /\ Conhecidos'
  <2>1. Resposta(q, "ACTCONFIRM", "negative") \in Respostas
    BY DEF Resposta
  <2> QED
    BY <1>10, <2>1 DEF RtuRecusa
<1>11. ASSUME NEW a \in aoServidor, EscreveIEC(a) PROVE TypeOK' /\ Conhecidos'
  <2> DEFINE p == NPontoPorEndUTR(Endereco[ponto[a.id]], a.ca)
  <2>1. a \in Avisos /\ p \in Pontos \cup {Nenhum}
    BY Mapeado
  <2>2. /\ cntAck' \in [Servidores -> [Pontos -> Nat]]
        /\ falhaAck' \in [Servidores -> [Pontos -> BOOLEAN]]
        /\ nova' \in [Operadores -> BOOLEAN]
    <3> HIDE DEF p
    <3>1. CASE p = Nenhum
      BY <1>11, <3>1 DEF EscreveIEC, p
    <3>2. CASE p # Nenhum
      <4>1. SetAckCmd(a.para, p, a.falha) /\ a.para \in Servidores /\ p \in Pontos
        BY <1>11, <2>1, <3>2 DEF EscreveIEC, p
      <4>2. NovoCnt(a.para, p) \in Nat
        <5>1. \A s \in Servidores, x \in Pontos : NovoCnt(s, x) \in Nat
          <6>1. cntAck \in [Servidores -> [Pontos -> Nat]]
            OBVIOUS
          <6>2. \A s \in Servidores : cntAck[s] \in [Pontos -> Nat]
            BY ONLY <6>1
          <6>3. \A s \in Servidores, x \in Pontos : cntAck[s][x] \in Nat
            BY ONLY <6>2
          <6> QED
            BY ONLY <6>3 DEF NovoCnt
        <5> QED
          BY <4>1, <5>1
      <4> QED
        BY <2>1, <4>1, <4>2 DEF SetAckCmd
    <3> QED
      BY <3>1, <3>2
  <2>3. tomadas' \subseteq Servidores \X Ids
    <3>1. <<a.para, a.id>> \in Servidores \X Ids
      BY <2>1
    <3> HIDE DEF Ids, Avisos
    <3> QED
      BY <1>11, <3>1 DEF EscreveIEC
  <2> HIDE DEF Ids, Quadros, Respostas, Avisos, Enderecos, UTRs
  <2> QED
    BY <1>11, <2>2, <2>3 DEF EscreveIEC
<1>12. ASSUME PerdeDatagrama PROVE TypeOK' /\ Conhecidos'
  <2>1. falhas' \in 0..MaxFalhas
    BY <1>12 DEF PerdeDatagrama, Falha
  <2> HIDE DEF Ids, Quadros, Respostas, Avisos, Enderecos, UTRs
  <2> QED
    BY <1>12, <2>1 DEF PerdeDatagrama
<1>13. ASSUME Desconecta PROVE TypeOK' /\ Conhecidos'
  <2>1. falhas' \in 0..MaxFalhas
    BY <1>13 DEF Desconecta, Falha
  <2> HIDE DEF Ids, Quadros, Respostas, Avisos, Enderecos, UTRs
  <2> QED
    BY <1>13, <2>1 DEF Desconecta
<1>14. ASSUME UNCHANGED vars PROVE TypeOK' /\ Conhecidos'
  BY <1>14 DEF vars
<1> QED
  BY <1>1, <1>2, <1>3, <1>4, <1>5, <1>6, <1>7, <1>8, <1>9, <1>10, <1>11, <1>12, <1>13, <1>14
     DEF Next, Varredor, Rtu, Chega

(***************************************************************************)
(* The commands on their way.  Redes groups what is said of them; the      *)
(* steps of the operators, but for Envia, leave it alone.                  *)
(***************************************************************************)
Redes == Enviados /\ EmUmLugar /\ Contas /\ ExecucaoCerta /\ RespostaUnica
Tipos == TypeOK /\ Conhecidos

LEMMA RedeParada ==
  Redes /\ UNCHANGED <<n, ponto, rede, historia>> => Redes'
BY DEF Redes, Enviados, EmUmLugar, Contas, ExecucaoCerta, RespostaUnica, rede, historia

LEMMA RedeMarca ==
  Redes /\ UNCHANGED <<n, ponto, rede, confirmados, execucoes, respostas>> => Redes'
BY DEF Redes, Enviados, EmUmLugar, Contas, ExecucaoCerta, RespostaUnica, rede

LEMMA RedeEnvia == ASSUME NEW o \in Operadores, Tipos, Redes, Envia(o) PROVE Redes'
<1> USE LimitesAssumption DEF Tipos, TypeOK, Conhecidos, Redes, historia
<1>1. /\ n + 1 \in Ids /\ n' = n + 1
      /\ aoVarredor' = aoVarredor \cup {n + 1}
      /\ ponto' = [ponto EXCEPT ![n + 1] = alvo[o]]
      /\ UNCHANGED <<aRtu, daRtu, aoServidor, confirmados, execucoes, respostas>>
  BY DEF Envia
<1>2. Enviados'
  BY <1>1 DEF Enviados
<1>3. \A q \in aRtu : q.id # n + 1
  BY <1>1 DEF Enviados
<1>4. \A m \in daRtu : m.id # n + 1
  BY <1>1 DEF Enviados
<1>5. EmUmLugar'
  BY <1>1, <1>3, <1>4 DEF EmUmLugar
<1>6. execucoes[n + 1] = 0 /\ respostas[n + 1] = 0
  BY <1>1 DEF Enviados
<1>7. Contas'
  BY <1>1, <1>6 DEF Contas
<1>8. ExecucaoCerta'
  BY <1>1, <1>6 DEF ExecucaoCerta
<1> QED
  BY <1>1, <1>2, <1>5, <1>7, <1>8 DEF RespostaUnica

(* The driver takes a command: its frame takes its place.                   *)
LEMMA RedeVarredor ==
  ASSUME NEW i \in aoVarredor, Tipos, Redes, slot_I104M_ready_to_read(i)
  PROVE  Redes'
<1> DEFINE q == [id |-> i, se |-> Modo(i), ca |-> Destino(UTR[ponto[i]])]
<1>1. i \in Ids /\ i <= n /\ execucoes[i] = 0 /\ respostas[i] = 0
  BY DEF Tipos, TypeOK, Redes, Enviados, Contas
<1>2. /\ aoVarredor' = aoVarredor \ {i}
      /\ aRtu' = aRtu \cup {q}
      /\ UNCHANGED <<n, ponto, daRtu, aoServidor, confirmados, respostas>>
  BY DEF slot_I104M_ready_to_read, sendCommand
<1>3. execucoes' = IF Modo(i) = "execute" THEN [execucoes EXCEPT ![i] = 1] ELSE execucoes
  BY <1>1 DEF slot_I104M_ready_to_read, sendCommand, Tipos, TypeOK
<1>4. Modo(i) = "execute" => ~SBO[ponto[i]]
  BY DEF Modo
<1>5. q.id = i /\ q.se = Modo(i)
  OBVIOUS
<1>6. \A r \in aRtu : r.id # i
  BY DEF Redes, EmUmLugar
<1>7. \A m \in daRtu : m.id # i
  BY DEF Redes, EmUmLugar
<1>8. execucoes \in [Ids -> Nat] /\ aRtu \subseteq Quadros /\ daRtu \subseteq Respostas /\ aoVarredor \subseteq Ids
  BY DEF Tipos, TypeOK
<1> HIDE DEF q
<1>9. Enviados'
  <2>1. \A r \in aRtu' : r.id <= n'
    BY <1>1, <1>2, <1>5 DEF Redes, Enviados
  <2>2. \A j \in Ids : j > n' => execucoes'[j] = 0 /\ respostas'[j] = 0
    BY <1>1, <1>2, <1>3, <1>8, LimitesAssumption DEF Redes, Enviados, Tipos, TypeOK
  <2> QED
    BY <1>2, <2>1, <2>2 DEF Redes, Enviados
<1>10. EmUmLugar'
  BY <1>2, <1>5, <1>6, <1>7 DEF Redes, EmUmLugar
<1>11. Contas'
  <2>1. \A j \in aoVarredor' : execucoes'[j] = 0 /\ respostas'[j] = 0
    BY <1>1, <1>2, <1>3, <1>8 DEF Redes, Contas
  <2>2. \A r \in aRtu' : respostas'[r.id] = 0
    BY <1>1, <1>2, <1>5 DEF Redes, Contas
  <2>3. \A r \in aRtu' : r.se = "select" => execucoes'[r.id] = 0
    BY <1>1, <1>2, <1>3, <1>5, <1>6, <1>8 DEF Redes, Contas
  <2>4. \A m \in daRtu' : m.causa = "ACTCONFIRM" => respostas'[m.id] = 0
    BY <1>2 DEF Redes, Contas
  <2>5. \A m \in daRtu' : m.causa = "ACTCONFIRM" /\ m.se = "select" => execucoes'[m.id] = 0
    BY <1>2, <1>3, <1>7, <1>8 DEF Redes, Contas
  <2>6. \A m \in daRtu' : m.se = "select" /\ m.pn = "positive" => m.id \in confirmados'
    BY <1>2 DEF Redes, Contas
  <2> QED
    BY <2>1, <2>2, <2>3, <2>4, <2>5, <2>6 DEF Contas
<1>12. ExecucaoCerta'
  BY <1>1, <1>2, <1>3, <1>4, <1>8 DEF Redes, ExecucaoCerta
<1> QED
  BY <1>2, <1>9, <1>10, <1>11, <1>12 DEF Redes, RespostaUnica

(* The driver takes a frame of the RTU.  A confirmed select becomes an      *)
(* execution, any other confirmation at most one answer.                    *)
LEMMA RedeResposta ==
  ASSUME NEW m \in daRtu, Tipos, Redes, slot_commandActRespIndication(m)
  PROVE  Redes'
<1>1. m \in Respostas /\ m.id \in Ids /\ m.id <= n
  BY DEF Tipos, TypeOK, Redes, Enviados
<1>2. /\ daRtu' = daRtu \ {m}
      /\ UNCHANGED <<n, ponto, aoVarredor, confirmados>>
  BY DEF slot_commandActRespIndication
<1>3. execucoes \in [Ids -> Nat] /\ respostas \in [Ids -> Nat] /\ daRtu \subseteq Respostas /\ aRtu \subseteq Quadros
  BY DEF Tipos, TypeOK
<1>4. CASE Olha(m) /\ Executa(m)
  <2> DEFINE q == [id |-> m.id, se |-> "execute", ca |-> Destino(0)]
  <2>1. m.causa = "ACTCONFIRM" /\ m.se = "select" /\ m.pn = "positive" /\ ~Responde(m)
    BY <1>4 DEF Olha, Executa, Responde
  <2>2. execucoes[m.id] = 0 /\ respostas[m.id] = 0 /\ m.id \in confirmados
    BY <2>1 DEF Redes, Contas
  <2>3. /\ aRtu' = aRtu \cup {q}
        /\ execucoes' = [execucoes EXCEPT ![m.id] = 1]
        /\ UNCHANGED <<aoServidor, respostas>>
    BY <1>1, <1>3, <1>4, <2>1, <2>2 DEF slot_commandActRespIndication, sendCommand
  <2>4. q.id = m.id /\ q.se = "execute"
    OBVIOUS
  <2>5. m.id \notin aoVarredor
    BY DEF Redes, EmUmLugar
  <2>6. \A r \in aRtu : r.id # m.id
    BY <2>1 DEF Redes, EmUmLugar
  <2>7. \A r \in daRtu' : r.causa = "ACTCONFIRM" => r.id # m.id
    BY <1>2, <2>1 DEF Redes, EmUmLugar
  <2> HIDE DEF q
  <2>8. Enviados'
    <3>1. \A r \in aRtu' : r.id <= n'
      BY <1>1, <1>2, <2>3, <2>4 DEF Redes, Enviados
    <3>2. \A j \in Ids : j > n' => execucoes'[j] = 0 /\ respostas'[j] = 0
      BY <1>1, <1>2, <1>3, <2>3, LimitesAssumption DEF Redes, Enviados, Tipos, TypeOK
    <3> QED
      BY <1>2, <2>3, <3>1, <3>2 DEF Redes, Enviados
  <2>9. EmUmLugar'
    <3>1. \A i \in aoVarredor' : \A r \in aRtu' : r.id # i
      BY <1>2, <2>3, <2>4, <2>5 DEF Redes, EmUmLugar
    <3>2. \A r \in aRtu' : \A t \in aRtu' : r.id = t.id => r = t
      BY <2>3, <2>4, <2>6 DEF Redes, EmUmLugar
    <3>3. \A r \in aRtu' : \A t \in daRtu' : r.id = t.id => t.causa # "ACTCONFIRM"
      BY <1>2, <2>3, <2>4, <2>7 DEF Redes, EmUmLugar
    <3> QED
      BY <1>2, <3>1, <3>2, <3>3 DEF Redes, EmUmLugar
  <2>10. Contas'
    <3>1. \A i \in aoVarredor' : execucoes'[i] = 0 /\ respostas'[i] = 0
      BY <1>2, <1>3, <2>3, <2>5 DEF Redes, Contas, Tipos, TypeOK
    <3>2. \A r \in aRtu' : respostas'[r.id] = 0
      BY <2>2, <2>3, <2>4 DEF Redes, Contas
    <3>3. \A r \in aRtu' : r.se = "select" => execucoes'[r.id] = 0
      BY <1>3, <2>3, <2>4, <2>6 DEF Redes, Contas
    <3>4. \A r \in daRtu' : r.causa = "ACTCONFIRM" /\ r.se = "select" => execucoes'[r.id] = 0
      BY <1>2, <1>3, <2>3, <2>7 DEF Redes, Contas
    <3>5. \A r \in daRtu' : r.causa = "ACTCONFIRM" => respostas'[r.id] = 0
      BY <1>2, <2>3 DEF Redes, Contas
    <3>6. \A r \in daRtu' : r.se = "select" /\ r.pn = "positive" => r.id \in confirmados'
      BY <1>2 DEF Redes, Contas
    <3> QED
      BY <3>1, <3>2, <3>3, <3>4, <3>5, <3>6 DEF Contas
  <2>11. ExecucaoCerta'
    BY <1>1, <1>2, <1>3, <2>2, <2>3 DEF Redes, ExecucaoCerta
  <2> QED
    BY <2>3, <2>8, <2>9, <2>10, <2>11 DEF Redes, RespostaUnica
<1>5. CASE Olha(m) /\ Responde(m)
  <2>1. m.causa = "ACTCONFIRM" /\ ~Executa(m)
    BY <1>5 DEF Olha, Executa, Responde
  <2>2. respostas[m.id] = 0
    BY <2>1 DEF Redes, Contas
  <2>3. /\ aoServidor' = aoServidor \cup Aviso(m)
        /\ respostas' = [respostas EXCEPT ![m.id] = 1]
        /\ UNCHANGED <<aRtu, execucoes>>
    BY <1>1, <1>3, <1>5, <2>1, <2>2 DEF slot_commandActRespIndication
  <2>4. \A a \in Aviso(m) : a.id = m.id
    BY DEF Aviso
  <2>5. m.id \notin aoVarredor
    BY DEF Redes, EmUmLugar
  <2>6. \A r \in aRtu : r.id # m.id
    BY <2>1 DEF Redes, EmUmLugar
  <2>7. \A r \in daRtu' : r.causa = "ACTCONFIRM" => r.id # m.id
    BY <1>2, <2>1 DEF Redes, EmUmLugar
  <2>8. Enviados'
    <3>1. \A a \in aoServidor' : a.id <= n'
      BY <1>1, <1>2, <2>3, <2>4 DEF Redes, Enviados
    <3>2. \A j \in Ids : j > n' => execucoes'[j] = 0 /\ respostas'[j] = 0
      BY <1>1, <1>2, <1>3, <2>3, LimitesAssumption DEF Redes, Enviados, Tipos, TypeOK
    <3> QED
      BY <1>2, <2>3, <3>1, <3>2 DEF Redes, Enviados
  <2>9. EmUmLugar'
    BY <1>2, <2>3 DEF Redes, EmUmLugar
  <2>10. Contas'
    <3>1. \A i \in aoVarredor' : execucoes'[i] = 0 /\ respostas'[i] = 0
      BY <1>2, <1>3, <2>3, <2>5 DEF Redes, Contas, Tipos, TypeOK
    <3>2. \A r \in aRtu' : respostas'[r.id] = 0
      BY <1>3, <2>3, <2>6 DEF Redes, Contas
    <3>3. \A r \in daRtu' : r.causa = "ACTCONFIRM" => respostas'[r.id] = 0
      BY <1>2, <1>3, <2>3, <2>7 DEF Redes, Contas
    <3> QED
      BY <1>2, <2>3, <3>1, <3>2, <3>3 DEF Redes, Contas
  <2>11. RespostaUnica'
    BY <1>3, <2>3 DEF Redes, RespostaUnica
  <2> QED
    BY <1>2, <2>3, <2>8, <2>9, <2>10, <2>11 DEF Redes, ExecucaoCerta
<1>6. CASE ~(Olha(m) /\ Executa(m)) /\ ~(Olha(m) /\ Responde(m))
  <2>1. UNCHANGED <<aRtu, execucoes, aoServidor, respostas>>
    BY <1>6 DEF slot_commandActRespIndication
  <2> QED
    BY <1>2, <2>1 DEF Redes, Enviados, EmUmLugar, Contas, ExecucaoCerta, RespostaUnica
<1> QED
  BY <1>4, <1>5, <1>6

(* The RTU puts one confirmation in the place of the frame, and perhaps an  *)
(* end of activation, of which nothing is said.                             *)
LEMMA RedeConfirma ==
  ASSUME NEW q \in aRtu, NEW c, NEW N, Tipos, Redes,
         c.id = q.id, c.se = q.se, c.causa = "ACTCONFIRM",
         c.se = "select" /\ c.pn = "positive" => q.id \in confirmados',
         \A t \in N : t.id = q.id /\ t.causa = "ACTTERM" /\ t.se = "execute",
         aRtu' = aRtu \ {q}, daRtu' = daRtu \cup {c} \cup N,
         confirmados \subseteq confirmados',
         UNCHANGED <<n, ponto, aoVarredor, aoServidor, execucoes, respostas>>
  PROVE  Redes'
<1>1. q.id \in Ids /\ q.id <= n /\ respostas[q.id] = 0 /\ (q.se = "select" => execucoes[q.id] = 0)
  BY DEF Redes, Enviados, Contas, Tipos, TypeOK
<1>2. \A r \in daRtu : r.id = q.id => r.causa # "ACTCONFIRM"
  BY DEF Redes, EmUmLugar
<1>3. \A r \in aRtu' : r \in aRtu /\ r.id # q.id
  BY DEF Redes, EmUmLugar
<1>4. q.id \notin aoVarredor
  BY DEF Redes, EmUmLugar
<1>5. Enviados'
  BY <1>1 DEF Redes, Enviados
<1>6. EmUmLugar'
  <2>1. \A i \in aoVarredor' : \A m \in daRtu' : m.id # i
    BY <1>4 DEF Redes, EmUmLugar
  <2>2. \A r \in aRtu' : \A m \in daRtu' : r.id = m.id => m.causa # "ACTCONFIRM"
    BY <1>3 DEF Redes, EmUmLugar
  <2>3. \A m \in daRtu' : \A r \in daRtu' :
          m.causa = "ACTCONFIRM" /\ r.causa = "ACTCONFIRM" /\ m.id = r.id => m = r
    BY <1>2 DEF Redes, EmUmLugar
  <2> QED
    BY <2>1, <2>2, <2>3 DEF Redes, EmUmLugar
<1>7. Contas'
  <2>1. \A m \in daRtu' : m.causa = "ACTCONFIRM" => respostas'[m.id] = 0
    BY <1>1 DEF Redes, Contas
  <2>2. \A m \in daRtu' : m.causa = "ACTCONFIRM" /\ m.se = "select" => execucoes'[m.id] = 0
    BY <1>1 DEF Redes, Contas
  <2>3. \A m \in daRtu' : m.se = "select" /\ m.pn = "positive" => m.id \in confirmados'
    BY DEF Redes, Contas
  <2> QED
    BY <2>1, <2>2, <2>3 DEF Redes, Contas
<1>8. ExecucaoCerta'
  BY DEF Redes, ExecucaoCerta
<1> QED
  BY <1>5, <1>6, <1>7, <1>8 DEF Redes, RespostaUnica

LEMMA RedeRtu ==
  ASSUME NEW q \in aRtu, Tipos, Redes, RtuAceita(q) \/ RtuRecusa(q)
  PROVE  Redes'
<1>1. CASE RtuAceita(q)
  <2> DEFINE c == Resposta(q, "ACTCONFIRM", "positive")
             N == IF q.se = "execute" THEN {Resposta(q, "ACTTERM", "positive")} ELSE {}
  <2>1. c.id = q.id /\ c.se = q.se /\ c.causa = "ACTCONFIRM"
    BY DEF Resposta
  <2>2. \A t \in N : t.id = q.id /\ t.causa = "ACTTERM" /\ t.se = "execute"
    BY DEF Resposta
  <2>3. /\ aRtu' = aRtu \ {q} /\ daRtu' = daRtu \cup {c} \cup N
        /\ confirmados \subseteq confirmados' /\ (q.se = "select" => q.id \in confirmados')
        /\ UNCHANGED <<n, ponto, aoVarredor, aoServidor, execucoes, respostas>>
    BY <1>1 DEF RtuAceita
  <2> HIDE DEF c, N
  <2> QED
    BY <2>1, <2>2, <2>3, RedeConfirma
<1>2. CASE RtuRecusa(q)
  <2> DEFINE c == Resposta(q, "ACTCONFIRM", "negative")
             N == {t \in {} : TRUE}
  <2>1. c.id = q.id /\ c.se = q.se /\ c.causa = "ACTCONFIRM" /\ c.pn # "positive"
    BY DEF Resposta
  <2>2. \A t \in N : t.id = q.id /\ t.causa = "ACTTERM" /\ t.se = "execute"
    OBVIOUS
  <2>3. /\ aRtu' = aRtu \ {q} /\ daRtu' = daRtu \cup {c} \cup N
        /\ confirmados \subseteq confirmados'
        /\ UNCHANGED <<n, ponto, aoVarredor, aoServidor, execucoes, respostas>>
    BY <1>2 DEF RtuRecusa, historia
  <2> HIDE DEF c, N
  <2> QED
    BY <2>1, <2>2, <2>3, RedeConfirma
<1> QED
  BY <1>1, <1>2

(* Messages that arrive at a server, or are lost, only leave their sets.    *)
LEMMA RedeSai ==
  ASSUME Redes, aoVarredor' \subseteq aoVarredor, aRtu' \subseteq aRtu, daRtu' \subseteq daRtu,
         aoServidor' \subseteq aoServidor,
         UNCHANGED <<n, ponto, confirmados, execucoes, respostas>>
  PROVE  Redes'
<1>1. Enviados' /\ EmUmLugar' /\ Contas'
  BY DEF Redes, Enviados, EmUmLugar, Contas
<1> QED
  BY <1>1 DEF Redes, ExecucaoCerta, RespostaUnica

LEMMA RedePasso == Tipos /\ Redes /\ [Next]_vars => Redes'
<1> SUFFICES ASSUME Tipos, Redes, [Next]_vars PROVE Redes'
  OBVIOUS
<1>1. ASSUME NEW o \in Operadores, NEW p \in Pontos, Anota(o, p) PROVE Redes'
  BY <1>1, RedeParada DEF Anota
<1>2. ASSUME NEW o \in Operadores, Marca(o) PROVE Redes'
  BY <1>2, RedeMarca DEF Marca
<1>3. ASSUME NEW o \in Operadores, luaIntercepta(o) \/ LeFalha(o) \/ LeContagem(o) PROVE Redes'
  BY <1>3, RedeParada DEF luaIntercepta, LeFalha, LeContagem
<1>4. ASSUME NEW a \in aoServidor, EscreveIEC(a) PROVE Redes'
  BY <1>4, RedeSai DEF EscreveIEC
<1>5. ASSUME PerdeDatagrama \/ Desconecta PROVE Redes'
  BY <1>5, RedeSai DEF PerdeDatagrama, Desconecta, historia
<1>6. ASSUME UNCHANGED vars PROVE Redes'
  BY <1>6, RedeParada DEF vars
<1> QED
  BY <1>1, <1>2, <1>3, <1>4, <1>5, <1>6, RedeEnvia, RedeVarredor, RedeResposta, RedeRtu
     DEF Next, Varredor, Rtu, Chega

(***************************************************************************)
(* The dialogs.                                                            *)
(***************************************************************************)
Mesas == UmDeCadaVez /\ DiferenteENova /\ RespostaNova

LEMMA MesaParada ==
  Mesas /\ UNCHANGED <<passo, alvo, servidor, nova>> => Mesas'
BY DEF Mesas, UmDeCadaVez, DiferenteENova, RespostaNova, Livre, Diferente, servidor

LEMMA MesaAnota ==
  ASSUME NEW o \in Operadores, NEW p \in Pontos, Tipos, Mesas, Anota(o, p)
  PROVE  Mesas'
<1> SUFFICES ASSUME UmaThread PROVE Mesas'
  BY DEF Mesas, UmDeCadaVez, DiferenteENova, RespostaNova
<1> USE PostoAssumption DEF Tipos, TypeOK
<1>1. /\ passo' = [passo EXCEPT ![o] = "anotado"]
      /\ alvo' = [alvo EXCEPT ![o] = p]
      /\ cmdNPonto' = [cmdNPonto EXCEPT ![Posto[o]] = p]
      /\ UNCHANGED <<cmdCntAck, cntAck, nova>>
  BY DEF Anota, historia
<1>2. \A x \in Operadores : Posto[x] = Posto[o] => passo[x] \in Parado
  BY DEF Anota, Atende
<1>3. UmDeCadaVez'
  <2>1. \A x, y \in Operadores :
          Posto[x] = Posto[y] /\ passo'[x] \in Atendendo /\ passo'[y] \in Atendendo => x = y
    BY <1>1, <1>2 DEF Mesas, UmDeCadaVez
  <2>2. \A x \in Operadores : passo'[x] = "anotado" => cmdNPonto'[Posto[x]] = alvo'[x]
    BY <1>1, <1>2 DEF Mesas, UmDeCadaVez
  <2> QED
    BY <2>1, <2>2 DEF UmDeCadaVez
<1>4. DiferenteENova'
  <2> SUFFICES ASSUME NEW x \in Operadores, passo'[x] \notin {"livre", "anotado"},
                      Livre(Posto[x])', Diferente(x)'
               PROVE  nova'[x]
    BY DEF DiferenteENova
  <2>1. Posto[x] # Posto[o]
    BY <1>1 DEF Livre
  <2>2. Livre(Posto[x]) /\ Diferente(x) /\ passo[x] = passo'[x]
    BY <1>1, <2>1 DEF Livre, Diferente
  <2> QED
    BY <1>1, <2>2 DEF Mesas, DiferenteENova
<1>5. RespostaNova'
  BY <1>1 DEF Mesas, RespostaNova
<1> QED
  BY <1>3, <1>4, <1>5 DEF Mesas

LEMMA MesaMarca == ASSUME NEW o \in Operadores, Tipos, Mesas, Marca(o) PROVE Mesas'
<1> SUFFICES ASSUME UmaThread PROVE Mesas'
  BY DEF Mesas, UmDeCadaVez, DiferenteENova, RespostaNova
<1> USE PostoAssumption DEF Tipos, TypeOK
<1>1. /\ passo[o] = "anotado" /\ passo' = [passo EXCEPT ![o] = "marcado"]
      /\ cmdCntAck' = [cmdCntAck EXCEPT ![Posto[o]] = cntAck[Posto[o]][alvo[o]]]
      /\ nova' = [nova EXCEPT ![o] = FALSE]
      /\ UNCHANGED <<alvo, cmdNPonto, cntAck>>
  BY DEF Marca, Contagem
<1>2. cmdNPonto[Posto[o]] = alvo[o]
  BY <1>1 DEF Mesas, UmDeCadaVez
<1>3. UmDeCadaVez'
  <2>1. \A x, y \in Operadores :
          Posto[x] = Posto[y] /\ passo'[x] \in Atendendo /\ passo'[y] \in Atendendo => x = y
    BY <1>1 DEF Mesas, UmDeCadaVez
  <2>2. \A x \in Operadores : passo'[x] = "anotado" => cmdNPonto'[Posto[x]] = alvo'[x]
    BY <1>1 DEF Mesas, UmDeCadaVez
  <2> QED
    BY <2>1, <2>2 DEF UmDeCadaVez
<1>4. DiferenteENova'
  <2> SUFFICES ASSUME NEW x \in Operadores, passo'[x] \notin {"livre", "anotado"},
                      Livre(Posto[x])', Diferente(x)'
               PROVE  nova'[x]
    BY DEF DiferenteENova
  <2>1. Posto[x] # Posto[o]
    BY <1>1, <1>2 DEF Diferente
  <2>2. Livre(Posto[x]) /\ Diferente(x) /\ passo[x] = passo'[x] /\ nova'[x] = nova[x]
    BY <1>1, <2>1 DEF Livre, Diferente
  <2> QED
    BY <1>1, <2>2 DEF Mesas, DiferenteENova
<1>5. RespostaNova'
  BY <1>1 DEF Mesas, RespostaNova
<1> QED
  BY <1>3, <1>4, <1>5 DEF Mesas

(* Handlers that end, and a poll that begins.                               *)
LEMMA MesaAnda ==
  ASSUME NEW o \in Operadores, Tipos, Mesas, UNCHANGED <<alvo, servidor, nova>>,
         \/ Envia(o) \/ luaIntercepta(o) \/ LeFalha(o)
  PROVE  Mesas'
<1> SUFFICES ASSUME UmaThread PROVE Mesas'
  BY DEF Mesas, UmDeCadaVez, DiferenteENova, RespostaNova
<1> USE PostoAssumption DEF Tipos, TypeOK, servidor
<1>1. PICK d \in {"esperando", "lendo"} : passo' = [passo EXCEPT ![o] = d]
  BY DEF Envia, luaIntercepta, LeFalha
<1>2. passo[o] \notin {"livre", "anotado"}
  BY DEF Envia, luaIntercepta, LeFalha
<1>3. passo[o] \in Atendendo \/ \A x \in Operadores : Posto[x] = Posto[o] => passo[x] \in Parado
  BY DEF Envia, luaIntercepta, LeFalha, Atende
<1>4. UmDeCadaVez'
  <2>1. \A x, y \in Operadores :
          Posto[x] = Posto[y] /\ passo'[x] \in Atendendo /\ passo'[y] \in Atendendo => x = y
    BY <1>1, <1>3 DEF Mesas, UmDeCadaVez
  <2>2. \A x \in Operadores : passo'[x] = "anotado" => cmdNPonto'[Posto[x]] = alvo'[x]
    BY <1>1 DEF Mesas, UmDeCadaVez
  <2> QED
    BY <2>1, <2>2 DEF UmDeCadaVez
<1>5. \A s \in Servidores : Livre(s)' => Livre(s)
  BY <1>1, <1>2 DEF Livre
<1>6. DiferenteENova'
  BY <1>1, <1>2, <1>5 DEF Mesas, DiferenteENova, Diferente
<1>7. RespostaNova'
  BY <1>1 DEF Mesas, RespostaNova
<1> QED
  BY <1>4, <1>6, <1>7 DEF Mesas

(* The poll: its result is the end of the command only if the count has     *)
(* changed, and no other handler of the server is at work.                  *)
LEMMA MesaLeContagem == ASSUME NEW o \in Operadores, Tipos, Mesas, LeContagem(o) PROVE Mesas'
<1> SUFFICES ASSUME UmaThread PROVE Mesas'
  BY DEF Mesas, UmDeCadaVez, DiferenteENova, RespostaNova
<1> USE PostoAssumption DEF Tipos, TypeOK
<1>1. /\ passo[o] = "lendo" /\ passo' = [passo EXCEPT ![o] = Resultado(o)]
      /\ UNCHANGED <<alvo, cmdNPonto, cmdCntAck, cntAck, nova>>
  BY DEF LeContagem, servidor, historia
<1>2. Resultado(o) \in {"esperando", "rejeitado", "ok"}
  BY DEF Resultado
<1>3. UmDeCadaVez'
  <2>1. \A x, y \in Operadores :
          Posto[x] = Posto[y] /\ passo'[x] \in Atendendo /\ passo'[y] \in Atendendo => x = y
    BY <1>1, <1>2 DEF Mesas, UmDeCadaVez
  <2>2. \A x \in Operadores : passo'[x] = "anotado" => cmdNPonto'[Posto[x]] = alvo'[x]
    BY <1>1, <1>2 DEF Mesas, UmDeCadaVez
  <2> QED
    BY <2>1, <2>2 DEF UmDeCadaVez
<1>4. \A s \in Servidores : Livre(s)' => Livre(s)
  BY <1>1 DEF Livre
<1>5. DiferenteENova'
  BY <1>1, <1>2, <1>4 DEF Mesas, DiferenteENova, Diferente
<1>6. Livre(Posto[o])
  BY <1>1 DEF Mesas, UmDeCadaVez, Livre
<1>7. Resultado(o) # "esperando" => Diferente(o)
  BY DEF Resultado, Diferente
<1>8. Resultado(o) # "esperando" => nova[o]
  BY <1>1, <1>6, <1>7 DEF Mesas, DiferenteENova
<1>9. RespostaNova'
  BY <1>1, <1>8 DEF Mesas, RespostaNova
<1> QED
  BY <1>3, <1>5, <1>9 DEF Mesas

(* An answer reaches a point: it is new for every dialog of the point.      *)
LEMMA MesaEscreve == ASSUME NEW a \in aoServidor, Tipos, Mesas, EscreveIEC(a) PROVE Mesas'
<1> DEFINE p == NPontoPorEndUTR(Endereco[ponto[a.id]], a.ca)
<1>1. UNCHANGED <<passo, alvo, cmdNPonto, cmdCntAck>>
  BY DEF EscreveIEC
<1>2. CASE p = Nenhum
  BY <1>1, <1>2, MesaParada DEF EscreveIEC, servidor
<1>3. CASE p # Nenhum
  <2>1. PICK s \in Servidores : s = a.para
    BY DEF Tipos, TypeOK
  <2>2. SetAckCmd(s, p, a.falha)
    BY <1>3, <2>1 DEF EscreveIEC
  <2> HIDE DEF p
  <2>3. \A x \in Operadores : nova'[x] = (nova[x] \/ (Posto[x] = s /\ alvo[x] = p))
    BY <2>2 DEF SetAckCmd
  <2>4. \A x \in Operadores : (Posto[x] # s \/ alvo[x] # p) =>
          cntAck'[Posto[x]][alvo[x]] = cntAck[Posto[x]][alvo[x]]
    BY <2>2, PostoAssumption DEF SetAckCmd, Tipos, TypeOK
  <2>5. UmDeCadaVez'
    BY <1>1 DEF Mesas, UmDeCadaVez
  <2>6. DiferenteENova'
    <3> SUFFICES ASSUME UmaThread, NEW x \in Operadores, passo'[x] \notin {"livre", "anotado"},
                        Livre(Posto[x])', Diferente(x)'
                 PROVE  nova'[x]
      BY DEF DiferenteENova
    <3>1. Livre(Posto[x])
      BY <1>1 DEF Livre
    <3>2. CASE Posto[x] = s /\ alvo[x] = p
      BY <2>3, <3>2, Zenon
    <3>3. CASE Posto[x] # s \/ alvo[x] # p
      <4>1. Diferente(x)
        BY <1>1, <2>4, <3>3 DEF Diferente
      <4>2. nova[x]
        BY <1>1, <3>1, <4>1 DEF Mesas, DiferenteENova
      <4> QED
        BY <2>3, <4>2, Zenon
    <3> QED
      BY <3>2, <3>3
  <2>7. RespostaNova'
    <3> SUFFICES ASSUME UmaThread, NEW x \in Operadores, passo[x] \in {"ok", "rejeitado"}
                 PROVE  nova'[x]
      BY <1>1 DEF RespostaNova
    <3>1. nova[x]
      BY DEF Mesas, RespostaNova
    <3> QED
      BY <2>3, <3>1, Zenon
  <2> QED
    BY <2>5, <2>6, <2>7 DEF Mesas
<1> QED
  BY <1>2, <1>3

LEMMA MesaPasso == Tipos /\ Mesas /\ [Next]_vars => Mesas'
<1> SUFFICES ASSUME Tipos, Mesas, [Next]_vars PROVE Mesas'
  OBVIOUS
<1>1. ASSUME NEW o \in Operadores, Envia(o) \/ luaIntercepta(o) \/ LeFalha(o) PROVE Mesas'
  BY <1>1, MesaAnda DEF Envia, luaIntercepta, LeFalha, historia
<1>2. ASSUME Varredor \/ Rtu PROVE Mesas'
  BY <1>2, MesaParada
     DEF Varredor, Rtu, slot_I104M_ready_to_read, slot_commandActRespIndication, RtuAceita, RtuRecusa, historia
<1>3. ASSUME PerdeDatagrama \/ Desconecta PROVE Mesas'
  BY <1>3, MesaParada DEF PerdeDatagrama, Desconecta, historia
<1>4. ASSUME UNCHANGED vars PROVE Mesas'
  BY <1>4, MesaParada DEF vars, historia
<1> QED
  BY <1>1, <1>2, <1>3, <1>4, MesaAnota, MesaMarca, MesaLeContagem, MesaEscreve DEF Next, Chega
-----------------------------------------------------------------------------
(* The inductive invariant always holds.                                    *)
THEOREM Invariante == Spec => []IInv
<1>1. IInv /\ [Next]_vars => IInv'
  <2>1. IInv => Tipos /\ Redes /\ Mesas
    BY DEF IInv, Tipos, Redes, Mesas
  <2>2. Tipos /\ Redes /\ [Next]_vars => Tipos'
    BY TipoDoPasso DEF Tipos, Redes
  <2>3. Tipos' /\ Redes' /\ Mesas' => IInv'
    BY DEF IInv, Tipos, Redes, Mesas
  <2> QED
    BY <2>1, <2>2, <2>3, RedePasso, MesaPasso
<1> QED
  BY <1>1, InitIInv, PTL DEF Spec

(* Every variable keeps its type.                                           *)
THEOREM TipoCorreto == Spec => []TypeOK
BY Invariante, PTL DEF IInv

(* With one thread, no dialog is told the end of its command on account of  *)
(* an answer that had arrived before, for any servers, operators, points.   *)
THEOREM SemRespostaVelha == Spec => []RespostaNova
BY Invariante, PTL DEF IInv

(* At most one execution of each command, and after a confirmed select if   *)
(* the point is selected before operated.                                   *)
THEOREM ExecutaUmaVez == Spec => []ExecucaoCerta
BY Invariante, PTL DEF IInv

(* At most one answer to each command.                                      *)
THEOREM RespondeUmaVez == Spec => []RespostaUnica
BY Invariante, PTL DEF IInv
-----------------------------------------------------------------------------
(***************************************************************************)
(* Comando implements CicloComando.  Besides IInv: a select is of a point  *)
(* that selects, and is not confirmed before the RTU confirms it; what was *)
(* sent as an execution was counted.                                       *)
(***************************************************************************)
Selecao ==
  /\ \A i \in Ids : i > n \/ i \in aoVarredor => i \notin confirmados
  /\ \A q \in aRtu : q.se = "select" => q.id \notin confirmados /\ SBO[ponto[q.id]]
  /\ \A q \in aRtu : q.se = "execute" => execucoes[q.id] = 1
  /\ \A m \in daRtu : m.causa = "ACTCONFIRM" /\ m.se = "select" => SBO[ponto[m.id]]
  /\ \A m \in daRtu : m.causa = "ACTCONFIRM" /\ m.se = "select" /\ m.pn = "negative" =>
       m.id \notin confirmados
  /\ \A m \in daRtu : m.causa = "ACTCONFIRM" /\ m.se = "execute" => execucoes[m.id] = 1

LEMMA SelecaoInicio == Init => Selecao
BY DEF Init, Selecao

LEMMA SelecaoSai ==
  ASSUME Selecao, aoVarredor' \subseteq aoVarredor, aRtu' \subseteq aRtu, daRtu' \subseteq daRtu,
         UNCHANGED <<n, ponto, confirmados, execucoes>>
  PROVE  Selecao'
BY DEF Selecao

LEMMA SelecaoEnvia == ASSUME NEW o \in Operadores, Tipos, Redes, Selecao, Envia(o) PROVE Selecao'
<1>1. /\ n + 1 \in Ids /\ n \in Nat /\ n' = n + 1
      /\ aoVarredor' = aoVarredor \cup {n + 1}
      /\ ponto' = [ponto EXCEPT ![n + 1] = alvo[o]]
      /\ UNCHANGED <<aRtu, daRtu, confirmados, execucoes>>
  BY LimitesAssumption DEF Envia, Tipos, TypeOK, historia
<1>2. \A i \in Ids : i # n + 1 => ponto'[i] = ponto[i]
  BY <1>1 DEF Tipos, TypeOK
<1>3. \A q \in aRtu : q.id \in Ids /\ q.id # n + 1
  BY <1>1 DEF Redes, Enviados, Tipos, TypeOK
<1>4. \A m \in daRtu : m.id \in Ids /\ m.id # n + 1
  BY <1>1 DEF Redes, Enviados, Tipos, TypeOK
<1>5. \A i \in Ids : i > n' \/ i \in aoVarredor' => i \notin confirmados'
  BY <1>1, LimitesAssumption DEF Selecao
<1> QED
  BY <1>1, <1>2, <1>3, <1>4, <1>5 DEF Selecao

LEMMA SelecaoVarredor ==
  ASSUME NEW i \in aoVarredor, Tipos, Redes, Selecao, slot_I104M_ready_to_read(i)
  PROVE  Selecao'
<1> DEFINE q == [id |-> i, se |-> Modo(i), ca |-> Destino(UTR[ponto[i]])]
<1>1. i \in Ids /\ i <= n /\ execucoes[i] = 0 /\ i \notin confirmados
  BY DEF Tipos, TypeOK, Redes, Enviados, Contas, Selecao
<1>2. /\ aoVarredor' = aoVarredor \ {i}
      /\ aRtu' = aRtu \cup {q}
      /\ UNCHANGED <<n, ponto, daRtu, confirmados>>
  BY DEF slot_I104M_ready_to_read, sendCommand
<1>3. execucoes' = IF Modo(i) = "execute" THEN [execucoes EXCEPT ![i] = 1] ELSE execucoes
  BY <1>1 DEF slot_I104M_ready_to_read, sendCommand, Tipos, TypeOK
<1>4. (Modo(i) = "execute" /\ ~SBO[ponto[i]]) \/ (Modo(i) = "select" /\ SBO[ponto[i]])
  BY DEF Modo
<1>5. q.id = i /\ q.se = Modo(i)
  OBVIOUS
<1>6. \A r \in aRtu : r.id # i
  BY DEF Redes, EmUmLugar
<1>7. \A m \in daRtu : m.id # i
  BY DEF Redes, EmUmLugar
<1>8. execucoes \in [Ids -> Nat] /\ aRtu \subseteq Quadros /\ daRtu \subseteq Respostas
  BY DEF Tipos, TypeOK
<1> HIDE DEF q
<1>9. \A j \in Ids : j # i => execucoes'[j] = execucoes[j]
  BY <1>3, <1>8
<1>10. \A r \in aRtu' : r.se = "select" => r.id \notin confirmados' /\ SBO[ponto'[r.id]]
  BY <1>1, <1>2, <1>4, <1>5 DEF Selecao
<1>11. \A r \in aRtu' : r.se = "execute" => execucoes'[r.id] = 1
  BY <1>1, <1>2, <1>3, <1>5, <1>6, <1>8, <1>9 DEF Selecao
<1>12. \A m \in daRtu' : m.causa = "ACTCONFIRM" /\ m.se = "execute" => execucoes'[m.id] = 1
  BY <1>2, <1>7, <1>8, <1>9 DEF Selecao
<1> QED
  BY <1>2, <1>10, <1>11, <1>12 DEF Selecao

LEMMA SelecaoResposta ==
  ASSUME NEW m \in daRtu, Tipos, Redes, Selecao, slot_commandActRespIndication(m)
  PROVE  Selecao'
<1>1. m.id \in Ids /\ daRtu' = daRtu \ {m} /\ UNCHANGED <<n, ponto, aoVarredor, confirmados>>
  BY DEF slot_commandActRespIndication, Tipos, TypeOK
<1>2. CASE Olha(m) /\ Executa(m)
  <2> DEFINE q == [id |-> m.id, se |-> "execute", ca |-> Destino(0)]
  <2>1. m.causa = "ACTCONFIRM" /\ m.se = "select" /\ execucoes[m.id] = 0
    BY <1>2 DEF Olha, Executa, Redes, Contas
  <2>2. aRtu' = aRtu \cup {q} /\ execucoes' = [execucoes EXCEPT ![m.id] = 1]
    BY <1>1, <1>2, <2>1 DEF slot_commandActRespIndication, sendCommand, Tipos, TypeOK
  <2>3. q.id = m.id /\ q.se = "execute"
    OBVIOUS
  <2>4. \A r \in daRtu' : r.causa = "ACTCONFIRM" => r.id # m.id
    BY <1>1, <2>1 DEF Redes, EmUmLugar
  <2> HIDE DEF q
  <2>5. \A j \in Ids : execucoes'[j] = IF j = m.id THEN 1 ELSE execucoes[j]
    BY <2>2 DEF Tipos, TypeOK
  <2>6. aRtu \subseteq Quadros /\ daRtu \subseteq Respostas
    BY DEF Tipos, TypeOK
  <2>7. \A r \in aRtu' : r.se = "execute" => execucoes'[r.id] = 1
    BY <1>1, <2>2, <2>3, <2>5, <2>6 DEF Selecao
  <2>8. \A r \in daRtu' : r.causa = "ACTCONFIRM" /\ r.se = "execute" => execucoes'[r.id] = 1
    BY <1>1, <2>4, <2>5, <2>6 DEF Selecao
  <2> QED
    BY <1>1, <2>2, <2>3, <2>7, <2>8 DEF Selecao
<1>3. CASE ~(Olha(m) /\ Executa(m))
  BY <1>1, <1>3, SelecaoSai DEF slot_commandActRespIndication
<1> QED
  BY <1>2, <1>3

LEMMA SelecaoRtu ==
  ASSUME NEW q \in aRtu, Tipos, Redes, Selecao, RtuAceita(q) \/ RtuRecusa(q)
  PROVE  Selecao'
<1>1. q.id \in Ids /\ q.id <= n /\ n \in Nat /\ q.id \notin aoVarredor /\ q.se \in {"select", "execute"}
  BY LimitesAssumption DEF Redes, Enviados, EmUmLugar, Tipos, TypeOK
<1>2. aRtu' = aRtu \ {q} /\ UNCHANGED <<n, ponto, aoVarredor, execucoes>>
  BY DEF RtuAceita, RtuRecusa, historia
<1>3. \A r \in aRtu' : r.id # q.id
  BY <1>2 DEF Redes, EmUmLugar
<1>4. confirmados' \subseteq confirmados \cup {q.id}
  BY DEF RtuAceita, RtuRecusa, historia
<1>5. \A m \in daRtu : m.causa = "ACTCONFIRM" => m.id # q.id
  BY DEF Redes, EmUmLugar
<1>6. \A m \in daRtu' : m.causa = "ACTCONFIRM" /\ m \notin daRtu => m.id = q.id /\ m.se = q.se
  BY DEF RtuAceita, RtuRecusa, Resposta
<1>7. \A m \in daRtu' : m \notin daRtu /\ m.pn = "negative" => confirmados' = confirmados
  BY DEF RtuAceita, RtuRecusa, Resposta, historia
<1>8. \A i \in Ids : i > n' \/ i \in aoVarredor' => i \notin confirmados'
  BY <1>1, <1>2, <1>4 DEF Selecao
<1>9. \A r \in aRtu' : r.se = "select" => r.id \notin confirmados' /\ SBO[ponto'[r.id]]
  BY <1>2, <1>3, <1>4 DEF Selecao
<1>10. \A m \in daRtu' : m.causa = "ACTCONFIRM" /\ m.se = "select" => SBO[ponto'[m.id]]
  BY <1>2, <1>6 DEF Selecao
<1>11. \A m \in daRtu' : m.causa = "ACTCONFIRM" /\ m.se = "select" /\ m.pn = "negative" =>
         m.id \notin confirmados'
  BY <1>4, <1>5, <1>6, <1>7 DEF Selecao
<1>12. \A m \in daRtu' : m.causa = "ACTCONFIRM" /\ m.se = "execute" => execucoes'[m.id] = 1
  BY <1>2, <1>6 DEF Selecao
<1> QED
  BY <1>2, <1>8, <1>9, <1>10, <1>11, <1>12 DEF Selecao

LEMMA SelecaoPasso == Tipos /\ Redes /\ Selecao /\ [Next]_vars => Selecao'
<1> SUFFICES ASSUME Tipos, Redes, Selecao, [Next]_vars PROVE Selecao'
  OBVIOUS
<1>1. ASSUME NEW o \in Operadores,
             \/ \E p \in Pontos : Anota(o, p)
             \/ Marca(o) \/ luaIntercepta(o) \/ LeFalha(o) \/ LeContagem(o)
      PROVE  Selecao'
  BY <1>1, SelecaoSai DEF Anota, Marca, luaIntercepta, LeFalha, LeContagem, rede, historia
<1>2. ASSUME NEW a \in aoServidor, EscreveIEC(a) PROVE Selecao'
  BY <1>2, SelecaoSai DEF EscreveIEC
<1>3. ASSUME PerdeDatagrama \/ Desconecta PROVE Selecao'
  BY <1>3, SelecaoSai DEF PerdeDatagrama, Desconecta, historia
<1>4. ASSUME UNCHANGED vars PROVE Selecao'
  BY <1>4, SelecaoSai DEF vars, rede, historia
<1> QED
  BY <1>1, <1>2, <1>3, <1>4, SelecaoEnvia, SelecaoVarredor, SelecaoResposta, SelecaoRtu
     DEF Next, Varredor, Rtu, Chega
(***************************************************************************)
(* The steps of CicloComando, through the mapping.                         *)
(***************************************************************************)
Estado == [i \in Ids |-> Andamento(i)]
ComSelect == {i \in Ids : i <= n /\ SBO[ponto[i]]}
Avisados == {<<a.id, a.falha>> : a \in aoServidor}

HIDE DEF Ids, Quadros, Respostas, Avisos, Enderecos, UTRs

(* Nothing that the mapping looks at.                                       *)
LEMMA Parada ==
  ASSUME UNCHANGED <<n, ponto, confirmados, execucoes, respostas, aoServidor>>
  PROVE  UNCHANGED <<Estado, ComSelect, Avisados>>
BY DEF Estado, Andamento, ComSelect, Avisados

(* One command changes state.                                               *)
LEMMA UmMuda ==
  ASSUME NEW i \in Ids, NEW x,
         \A j \in Ids : Andamento(j)' = IF j = i THEN x ELSE Andamento(j)
  PROVE  Estado' = [Estado EXCEPT ![i] = x]
<1>1. Estado' = [j \in Ids |-> Andamento(j)']
  BY DEF Estado
<1>2. [Estado EXCEPT ![i] = x] = [j \in Ids |-> IF j = i THEN x ELSE Andamento(j)]
  BY DEF Estado
<1> QED
  BY <1>1, <1>2

LEMMA CicloEnvia ==
  ASSUME NEW o \in Operadores, Tipos, Redes, Selecao, Envia(o)
  PROVE  Ciclo!Next
<1>0. /\ n + 1 \in Ids /\ n \in Nat /\ n' = n + 1
      /\ ponto' = [ponto EXCEPT ![n + 1] = alvo[o]]
      /\ UNCHANGED <<aoServidor, confirmados, execucoes, respostas>>
  BY LimitesAssumption DEF Envia, Tipos, TypeOK, historia, Ids
<1>1. PICK k \in Ids : k = n + 1
  BY <1>0
<1>2. execucoes[k] = 0 /\ respostas[k] = 0 /\ k \notin confirmados /\ ~(k <= n)
  BY <1>0, <1>1 DEF Redes, Enviados, Selecao
<1>3. \A j \in Ids : j # k => (j <= n' <=> j <= n)
  BY <1>0, <1>1 DEF Ids
<1>4. \A j \in Ids : Andamento(j)' = IF j = k THEN "pedido" ELSE Andamento(j)
  <2>1. k <= n'
    BY <1>0, <1>1
  <2> QED
    BY <1>0, <1>2, <1>3, <2>1 DEF Andamento
<1>5. Estado' = [Estado EXCEPT ![k] = "pedido"]
  BY <1>4, UmMuda
<1>6. Estado[k] = "novo"
  BY <1>2 DEF Estado, Andamento
<1>7. ComSelect' \in {ComSelect, ComSelect \cup {k}}
  <2>1. \A j \in Ids : j # k => ponto'[j] = ponto[j]
    BY <1>0, <1>1 DEF Tipos, TypeOK
  <2>2. \A j : j # k => (j \in ComSelect' <=> j \in ComSelect)
    BY <1>3, <2>1 DEF ComSelect
  <2>3. k \notin ComSelect
    BY <1>2 DEF ComSelect
  <2>4. CASE k \in ComSelect'
    <3>1. \A j : j \in ComSelect' <=> j \in ComSelect \cup {k}
      BY ONLY <2>2, <2>4, Zenon
    <3> QED
      BY ONLY <3>1, Zenon
  <2>5. CASE k \notin ComSelect'
    <3>1. \A j : j \in ComSelect' <=> j \in ComSelect
      BY ONLY <2>2, <2>3, <2>5, Zenon
    <3> QED
      BY ONLY <3>1, Zenon
  <2> QED
    BY <2>4, <2>5
<1>8. Avisados' = Avisados
  BY <1>0 DEF Avisados
<1>9. Ciclo!Pede(k)
  BY <1>5, <1>6, <1>7, <1>8 DEF Ciclo!Pede, Ciclo!Avanca, Estado, ComSelect, Avisados
<1> QED
  BY <1>9 DEF Ciclo!Next

LEMMA CicloVarredor ==
  ASSUME NEW i \in aoVarredor, Tipos, Redes, Selecao, slot_I104M_ready_to_read(i)
  PROVE  [Ciclo!Next]_<<Estado, ComSelect, Avisados>>
<1>1. i \in Ids /\ i <= n /\ execucoes[i] = 0 /\ respostas[i] = 0 /\ i \notin confirmados
  BY DEF Tipos, TypeOK, Redes, Enviados, Contas, Selecao
<1>2. UNCHANGED <<n, ponto, confirmados, respostas, aoServidor>>
  BY DEF slot_I104M_ready_to_read
<1>3. execucoes' = IF Modo(i) = "execute" THEN [execucoes EXCEPT ![i] = 1] ELSE execucoes
  BY <1>1 DEF slot_I104M_ready_to_read, sendCommand, Tipos, TypeOK
<1>4. CASE Modo(i) = "execute"
  <2>1. i \notin ComSelect
    BY <1>4 DEF Modo, ComSelect
  <2>2. \A j \in Ids : execucoes'[j] = IF j = i THEN 1 ELSE execucoes[j]
    BY <1>3, <1>4 DEF Tipos, TypeOK
  <2>3. \A j \in Ids : Andamento(j)' = IF j = i THEN "executado" ELSE Andamento(j)
    BY <1>1, <1>2, <2>2 DEF Andamento
  <2>4. Estado' = [Estado EXCEPT ![i] = "executado"] /\ Estado[i] = "pedido"
    BY <1>1, <2>3, UmMuda DEF Estado, Andamento
  <2>5. UNCHANGED <<ComSelect, Avisados>>
    BY <1>2 DEF ComSelect, Avisados
  <2>6. Ciclo!Executa(i)
    BY <2>1, <2>4, <2>5 DEF Ciclo!Executa, Ciclo!Avanca, Estado, ComSelect, Avisados
  <2> QED
    BY <1>1, <2>6 DEF Ciclo!Next
<1>5. CASE Modo(i) # "execute"
  BY <1>2, <1>3, <1>5, Parada
<1> QED
  BY <1>4, <1>5

LEMMA CicloResposta ==
  ASSUME NEW m \in daRtu, Tipos, Redes, Selecao, slot_commandActRespIndication(m)
  PROVE  [Ciclo!Next]_<<Estado, ComSelect, Avisados>>
<1> DEFINE i == m.id
<1>1. i \in Ids /\ i <= n /\ UNCHANGED <<n, ponto, confirmados>> /\ m \in Respostas
  BY DEF slot_commandActRespIndication, Respostas, Tipos, TypeOK, Redes, Enviados
<1>2. ComSelect' = ComSelect
  BY <1>1 DEF ComSelect
<1>3. CASE Olha(m) /\ Executa(m)
  <2>1. m.causa = "ACTCONFIRM" /\ m.se = "select" /\ m.pn = "positive" /\ ~Responde(m)
    BY <1>3 DEF Olha, Executa, Responde
  <2>2. execucoes[i] = 0 /\ respostas[i] = 0 /\ i \in confirmados /\ SBO[ponto[i]]
    BY <2>1 DEF Redes, Contas, Selecao
  <2>3. UNCHANGED <<aoServidor, respostas>>
    BY <2>1 DEF slot_commandActRespIndication
  <2>4. \A j \in Ids : execucoes'[j] = IF j = i THEN 1 ELSE execucoes[j]
    BY <1>3, <2>2 DEF slot_commandActRespIndication, sendCommand, Tipos, TypeOK
  <2>5. \A j \in Ids : Andamento(j)' = IF j = i THEN "executado" ELSE Andamento(j)
    BY <1>1, <2>2, <2>3, <2>4 DEF Andamento
  <2>6. Estado' = [Estado EXCEPT ![i] = "executado"] /\ Estado[i] = "selecionado"
    BY <1>1, <2>2, <2>5, UmMuda DEF Estado, Andamento
  <2>7. i \in ComSelect /\ Avisados' = Avisados
    BY <1>1, <2>2, <2>3 DEF ComSelect, Avisados
  <2>8. Ciclo!Executa(i)
    BY <1>2, <2>6, <2>7 DEF Ciclo!Executa, Ciclo!Avanca, Estado, ComSelect, Avisados
  <2> QED
    BY <1>1, <2>8 DEF Ciclo!Next
<1>4. CASE Olha(m) /\ Responde(m)
  <2>1. m.causa = "ACTCONFIRM" /\ ~Executa(m)
    BY <1>4 DEF Olha, Executa, Responde
  <2>2. respostas[i] = 0
    BY <2>1 DEF Redes, Contas
  <2>3. UNCHANGED execucoes /\ aoServidor' = aoServidor \cup Aviso(m)
    BY <1>4, <2>1 DEF slot_commandActRespIndication
  <2>4. \A j \in Ids : respostas'[j] = IF j = i THEN 1 ELSE respostas[j]
    BY <1>4, <2>2 DEF slot_commandActRespIndication, Tipos, TypeOK
  <2>5. \A j \in Ids : Andamento(j)' = IF j = i THEN "respondido" ELSE Andamento(j)
    BY <1>1, <2>3, <2>4 DEF Andamento, Tipos, TypeOK
  <2>6. Estado' = [Estado EXCEPT ![i] = "respondido"]
    BY <1>1, <2>5, UmMuda
  <2>7. Avisados' = Avisados \cup {<<i, m.pn = "negative">>}
    <3>1. \A a \in Aviso(m) : a.id = i /\ a.falha = (m.pn = "negative")
      BY DEF Aviso
    <3>2. PICK s \in Servidores : TRUE
      BY <1>1, PostoAssumption DEF Tipos, Conhecidos
    <3>3. [para |-> s, id |-> i, ca |-> m.ca, falha |-> m.pn = "negative"] \in Aviso(m)
      BY <3>2 DEF Aviso
    <3> DEFINE b == [para |-> s, id |-> i, ca |-> m.ca, falha |-> m.pn = "negative"]
    <3>4. b.id = i /\ b.falha = (m.pn = "negative") /\ b \in Aviso(m)
      BY <3>3
    <3> HIDE DEF i, b
    <3>5. \A v : v \in Avisados' <=> \E a \in aoServidor \cup Aviso(m) : v = <<a.id, a.falha>>
      BY <2>3 DEF Avisados
    <3>6. \A v : v \in Avisados <=> \E a \in aoServidor : v = <<a.id, a.falha>>
      BY DEF Avisados
    <3>7. \A v : (\E a \in Aviso(m) : v = <<a.id, a.falha>>) <=> v = <<i, m.pn = "negative">>
      BY <3>1, <3>4, Zenon
    <3>8. \A v : v \in Avisados' <=> v \in Avisados \/ v = <<i, m.pn = "negative">>
      BY <3>5, <3>6, <3>7, Zenon
    <3> QED
      BY ONLY <3>8, Zenon
  <2>8. CASE m.se = "execute"
    <3>1. Estado[i] = "executado"
      BY <1>1, <2>1, <2>2, <2>8 DEF Estado, Andamento, Selecao
    <3>2. CASE m.pn = "negative"
      <4>1. Avisados' = Avisados \cup {<<i, TRUE>>}
        <5>1. (m.pn = "negative") = TRUE
          BY <3>2
        <5> QED
          BY <2>7, <5>1
      <4>2. Estado[i] \in (IF i \in ComSelect THEN {"pedido", "executado"} ELSE {"executado"})
        <5>1. CASE i \in ComSelect
          BY <3>1, <5>1
        <5>2. CASE i \notin ComSelect
          BY <3>1, <5>2
        <5> QED
          BY <5>1, <5>2
      <4>3. Ciclo!Recusa(i)
        BY <1>2, <2>6, <4>1, <4>2 DEF Ciclo!Recusa, Ciclo!Avanca, Estado, ComSelect, Avisados
      <4> QED
        BY <1>1, <4>3 DEF Ciclo!Next
    <3>3. CASE m.pn # "negative"
      <4>1. Avisados' = Avisados \cup {<<i, FALSE>>}
        <5>1. (m.pn = "negative") = FALSE
          BY <3>3
        <5> QED
          BY <2>7, <5>1
      <4>2. Ciclo!Sucesso(i)
        BY <1>2, <2>6, <3>1, <4>1 DEF Ciclo!Sucesso, Ciclo!Avanca, Estado, ComSelect, Avisados
      <4> QED
        BY <1>1, <4>2 DEF Ciclo!Next
    <3> QED
      BY <3>2, <3>3
  <2>9. CASE m.se # "execute"
    <3>1. m.se = "select" /\ m.pn = "negative"
      BY <1>1, <1>4, <2>9 DEF Responde, Respostas
    <3>2. execucoes[i] = 0 /\ i \notin confirmados /\ SBO[ponto[i]]
      BY <2>1, <3>1 DEF Redes, Contas, Selecao
    <3>3. Estado[i] = "pedido" /\ i \in ComSelect
      BY <1>1, <2>2, <3>2 DEF Estado, Andamento, ComSelect
    <3>4. Avisados' = Avisados \cup {<<i, TRUE>>}
      <4>1. (m.pn = "negative") = TRUE
        BY <3>1
      <4> QED
        BY <2>7, <4>1
    <3>5. Ciclo!Recusa(i)
      BY <1>2, <2>6, <3>3, <3>4 DEF Ciclo!Recusa, Ciclo!Avanca, Estado, ComSelect, Avisados
    <3> QED
      BY <1>1, <3>5 DEF Ciclo!Next
  <2> QED
    BY <2>8, <2>9
<1>5. CASE ~(Olha(m) /\ Executa(m)) /\ ~(Olha(m) /\ Responde(m))
  BY <1>1, <1>5, Parada DEF slot_commandActRespIndication
<1> QED
  BY <1>3, <1>4, <1>5

LEMMA CicloRtu ==
  ASSUME NEW q \in aRtu, Tipos, Redes, Selecao, RtuAceita(q) \/ RtuRecusa(q)
  PROVE  [Ciclo!Next]_<<Estado, ComSelect, Avisados>>
<1>1. q.id \in Ids /\ q.id <= n /\ respostas[q.id] = 0
  BY DEF Quadros, Tipos, TypeOK, Redes, Enviados, Contas
<1>2. UNCHANGED <<n, ponto, execucoes, respostas, aoServidor>>
  BY DEF RtuAceita, RtuRecusa, historia
<1>3. CASE RtuAceita(q) /\ q.se = "select"
  <2>1. execucoes[q.id] = 0 /\ q.id \notin confirmados /\ SBO[ponto[q.id]]
    BY <1>3 DEF Redes, Contas, Selecao
  <2>2. confirmados' = confirmados \cup {q.id}
    BY <1>3 DEF RtuAceita
  <2>3. \A j \in Ids : Andamento(j)' = IF j = q.id THEN "selecionado" ELSE Andamento(j)
    BY <1>1, <1>2, <2>1, <2>2 DEF Andamento
  <2>4. Estado' = [Estado EXCEPT ![q.id] = "selecionado"] /\ Estado[q.id] = "pedido"
    BY <1>1, <2>1, <2>3, UmMuda DEF Estado, Andamento
  <2>5. q.id \in ComSelect /\ UNCHANGED <<ComSelect, Avisados>>
    BY <1>1, <1>2, <2>1 DEF ComSelect, Avisados
  <2>6. Ciclo!Confirma(q.id)
    BY <2>4, <2>5 DEF Ciclo!Confirma, Ciclo!Avanca, Estado, ComSelect, Avisados
  <2> QED
    BY <1>1, <2>6 DEF Ciclo!Next
<1>4. CASE ~(RtuAceita(q) /\ q.se = "select")
  <2>1. confirmados' = confirmados
    BY <1>4 DEF RtuAceita, RtuRecusa, historia
  <2> QED
    BY <1>2, <2>1, Parada
<1> QED
  BY <1>3, <1>4

(* An answer leaves the way to a server.                                    *)
LEMMA CicloSome ==
  ASSUME aoServidor' \subseteq aoServidor, UNCHANGED <<n, ponto, confirmados, execucoes, respostas>>
  PROVE  Ciclo!Next
<1>1. UNCHANGED <<Estado, ComSelect>>
  BY DEF Estado, Andamento, ComSelect
<1>2. Avisados' \in SUBSET Avisados
  BY DEF Avisados
<1>3. Ciclo!Some
  BY <1>1, <1>2 DEF Ciclo!Some, Estado, ComSelect, Avisados
<1> QED
  BY <1>3 DEF Ciclo!Next

LEMMA CicloPasso ==
  Tipos /\ Redes /\ Selecao /\ [Next]_vars => [Ciclo!Next]_<<Estado, ComSelect, Avisados>>
<1> SUFFICES ASSUME Tipos, Redes, Selecao, [Next]_vars
             PROVE  [Ciclo!Next]_<<Estado, ComSelect, Avisados>>
  OBVIOUS
<1>1. ASSUME NEW o \in Operadores,
             \/ \E p \in Pontos : Anota(o, p)
             \/ Marca(o) \/ luaIntercepta(o) \/ LeFalha(o) \/ LeContagem(o)
      PROVE  UNCHANGED <<Estado, ComSelect, Avisados>>
  BY <1>1, Parada DEF Anota, Marca, luaIntercepta, LeFalha, LeContagem, rede, historia
<1>2. ASSUME NEW a \in aoServidor, EscreveIEC(a) PROVE Ciclo!Next
  BY <1>2, CicloSome DEF EscreveIEC
<1>3. ASSUME PerdeDatagrama \/ Desconecta PROVE Ciclo!Next
  BY <1>3, CicloSome DEF PerdeDatagrama, Desconecta, historia
<1>4. ASSUME UNCHANGED vars PROVE UNCHANGED <<Estado, ComSelect, Avisados>>
  BY <1>4, Parada DEF vars, rede, historia
<1> QED
  BY <1>1, <1>2, <1>3, <1>4, CicloEnvia, CicloVarredor, CicloResposta, CicloRtu
     DEF Next, Varredor, Rtu, Chega

LEMMA CicloInicio == Init => Ciclo!Init
<1> SUFFICES ASSUME Init PROVE Ciclo!Init
  OBVIOUS
<1>1. n = 0 /\ confirmados = {} /\ aoServidor = {} /\ \A i \in Ids : execucoes[i] = 0 /\ respostas[i] = 0
  BY DEF Init
<1>2. \A i \in Ids : Andamento(i) = "novo"
  BY <1>1, LimitesAssumption DEF Andamento, Ids
<1>3. ComSelect = {} /\ Avisados = {}
  BY <1>1, LimitesAssumption DEF ComSelect, Avisados, Ids
<1> QED
  BY <1>2, <1>3 DEF Ciclo!Init, ComSelect, Avisados

(* Whatever is lost, every command goes through the life that CicloComando  *)
(* allows it: the protocol implements it.                                   *)
THEOREM ImplementaCiclo == Spec => CumpreCiclo
<1>1. IInv => Tipos /\ Redes
  BY DEF IInv, Tipos, Redes
<1>2. IInv /\ Selecao /\ [Next]_vars => Selecao'
  BY <1>1, SelecaoPasso
<1>3. IInv /\ Selecao /\ [Next]_vars => [Ciclo!Next]_(Ciclo!vars)
  BY <1>1, CicloPasso DEF Ciclo!vars, Estado, ComSelect, Avisados
<1>4. Spec => Ciclo!Init
  BY CicloInicio DEF Spec
<1>5. Spec => []Selecao
  BY <1>2, Invariante, SelecaoInicio, PTL DEF Spec
<1>6. Spec => [][Ciclo!Next]_(Ciclo!vars)
  BY <1>3, <1>5, Invariante, PTL DEF Spec
<1> QED
  BY <1>4, <1>6 DEF CumpreCiclo, Ciclo!Spec

(* No two answers on their way say different things of one command, and     *)
(* none is of a command that may still be executed.                         *)
RespostaCoerente ==
  \A a \in aoServidor :
    /\ a.id \in Ids => Andamento(a.id) = "respondido"
    /\ \A b \in aoServidor : a.id = b.id => a.falha = b.falha

Respondidos ==
  \A a \in Avisados :
    /\ a \in Ids \X BOOLEAN /\ Estado[a[1]] = "respondido"
    /\ \A b \in Avisados : a[1] = b[1] => a = b

(* The cycle is enough for the answers to agree: a command is answered      *)
(* once, and is over then, whoever answers and whatever was lost.           *)
THEOREM CicloBasta == CumpreCiclo => []RespostaCoerente
<1>1. Ciclo!Init => Respondidos
  BY DEF Ciclo!Init, Respondidos, Avisados
<1>2. Respondidos /\ [Ciclo!Next]_(Ciclo!vars) => Respondidos'
  <2> SUFFICES ASSUME Respondidos, [Ciclo!Next]_(Ciclo!vars) PROVE Respondidos'
    OBVIOUS
  <2> USE DEF Respondidos
  <2>0. Estado = [i \in Ids |-> Andamento(i)] /\ Estado' = [i \in Ids |-> Andamento(i)']
    BY DEF Estado
  <2>1. ASSUME NEW i \in Ids, NEW de, NEW para, "respondido" \notin de, Ciclo!Avanca(i, de, para),
               Avisados' = Avisados
        PROVE  Respondidos'
    <3>1. Estado[i] \in de /\ Estado' = [Estado EXCEPT ![i] = para]
      BY <2>1 DEF Ciclo!Avanca, Estado
    <3> QED
      BY <2>0, <2>1, <3>1
  <2>2. ASSUME NEW i \in Ids, NEW de, NEW f \in BOOLEAN, "respondido" \notin de,
               Ciclo!Avanca(i, de, "respondido"), Avisados' = Avisados \cup {<<i, f>>}
        PROVE  Respondidos'
    <3>1. Estado[i] \in de /\ Estado' = [Estado EXCEPT ![i] = "respondido"]
      BY <2>2 DEF Ciclo!Avanca, Estado
    <3>2. \A a \in Avisados : a[1] # i
      BY <2>2, <3>1
    <3> QED
      BY <2>0, <2>2, <3>1, <3>2
  <2>3. ASSUME NEW i \in Ids, Ciclo!Pede(i) \/ Ciclo!Confirma(i) \/ Ciclo!Executa(i)
        PROVE  Respondidos'
    BY <2>1, <2>3 DEF Ciclo!Pede, Ciclo!Confirma, Ciclo!Executa, Avisados
  <2>4. ASSUME NEW i \in Ids, Ciclo!Sucesso(i) \/ Ciclo!Recusa(i) PROVE Respondidos'
    BY <2>2, <2>4 DEF Ciclo!Sucesso, Ciclo!Recusa, Avisados
  <2>5. CASE Ciclo!Some
    <3>1. Estado' = Estado /\ Avisados' \subseteq Avisados
      BY <2>5 DEF Ciclo!Some, Estado, Avisados
    <3> QED
      BY <3>1
  <2>6. CASE UNCHANGED Ciclo!vars
    <3>1. Estado' = Estado /\ Avisados' = Avisados
      BY <2>6 DEF Ciclo!vars, Estado, Avisados
    <3> QED
      BY <3>1
  <2> QED
    BY <2>3, <2>4, <2>5, <2>6 DEF Ciclo!Next
<1>3. Respondidos => RespostaCoerente
  <2> SUFFICES ASSUME Respondidos, NEW a \in aoServidor
               PROVE  /\ a.id \in Ids => Andamento(a.id) = "respondido"
                      /\ \A b \in aoServidor : a.id = b.id => a.falha = b.falha
    BY DEF RespostaCoerente
  <2>1. \A b \in aoServidor : <<b.id, b.falha>> \in Avisados
    BY DEF Avisados
  <2>2. a.id \in Ids => Estado[a.id] = Andamento(a.id)
    BY DEF Estado
  <2> QED
    BY <2>1, <2>2 DEF Respondidos
<1> QED
  BY <1>1, <1>2, <1>3, PTL DEF CumpreCiclo, Ciclo!Spec
=============================================================================
