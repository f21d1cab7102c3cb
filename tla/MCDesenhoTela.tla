----------------------------- MODULE MCDesenhoTela -----------------------------
(* A screen with two digital points, one of them with an object that takes   *)
(* its opacity from the value, and an analog one.                            *)
EXTENDS DesenhoTela

MCDigitais == {"chave", "rele"}
MCAnalogicos == {"tensao"}
MCOpacos == {"chave"}
MCVersoes == {"v1", "v2"}
MCDatas == {"d1", "d2"}
MCAlarma == [h \in MCVersoes \union MCDatas |->
  CASE h = "v1" -> {"chave", "tensao"} [] h = "d2" -> {"tensao"} [] OTHER -> {"rele"}]
MCLiga == [h \in MCVersoes \union MCDatas |-> IF h \in {"v1", "d1"} THEN {"chave"} ELSE {}]
MCHistorico == [d \in MCDatas |-> IF d = "d1" THEN MCDigitais ELSE MCAnalogicos]
=============================================================================
