----------------------------- MODULE CicloComando -----------------------------
(***************************************************************************)
(* What a command promises, whatever the network, the RTU and the other    *)
(* operators do: it is executed at most once; if its point selects before  *)
(* it operates, only after the RTU confirmed the select; and it is         *)
(* answered at most once, with success only if it was executed.  Comando   *)
(* implements it.                                                          *)
(***************************************************************************)
CONSTANT Comandos

VARIABLES
  estado,     \* how far each command went
  comSelect,  \* the commands that select before they operate
  avisos      \* answers on their way: a command, and whether it failed

vars == <<estado, comSelect, avisos>>

Init ==
  /\ estado = [i \in Comandos |-> "novo"]
  /\ comSelect = {} /\ avisos = {}

Avanca(i, de, para) ==
  /\ estado[i] \in de
  /\ estado' = [estado EXCEPT ![i] = para]

Pede(i) ==
  /\ Avanca(i, {"novo"}, "pedido")
  /\ comSelect' \in {comSelect, comSelect \cup {i}}
  /\ UNCHANGED avisos

Confirma(i) ==
  /\ i \in comSelect
  /\ Avanca(i, {"pedido"}, "selecionado")
  /\ UNCHANGED <<comSelect, avisos>>

Executa(i) ==
  /\ Avanca(i, IF i \in comSelect THEN {"selecionado"} ELSE {"pedido"}, "executado")
  /\ UNCHANGED <<comSelect, avisos>>

(* Success is the end of an execution; a select may be refused too.         *)
Sucesso(i) ==
  /\ Avanca(i, {"executado"}, "respondido")
  /\ avisos' = avisos \cup {<<i, FALSE>>}
  /\ UNCHANGED comSelect

Recusa(i) ==
  /\ Avanca(i, IF i \in comSelect THEN {"pedido", "executado"} ELSE {"executado"}, "respondido")
  /\ avisos' = avisos \cup {<<i, TRUE>>}
  /\ UNCHANGED comSelect

(* An answer arrives or is lost.                                            *)
Some ==
  /\ avisos' \in SUBSET avisos
  /\ UNCHANGED <<estado, comSelect>>

Next ==
  \/ \E i \in Comandos : Pede(i) \/ Confirma(i) \/ Executa(i) \/ Sucesso(i) \/ Recusa(i)
  \/ Some

Spec == Init /\ [][Next]_vars
=============================================================================
