---------------------------- MODULE MCConnection ----------------------------
(* Connection for TLC: bounds per end.                                     *)
EXTENDS Connection

Client3Server2 == [e \in End |-> IF e = "client" THEN 3 ELSE 2]
Client1Server2 == [e \in End |-> IF e = "client" THEN 1 ELSE 2]
=============================================================================
