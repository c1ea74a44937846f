----------------------------- MODULE Datagrams -----------------------------
(***************************************************************************)
(* What the state synchronisation protocol (SSP) takes for granted of the  *)
(* layers below it: whole instructions go in, and each that comes out is   *)
(* one that went in, however many are lost, repeated or overtaken.         *)
(***************************************************************************)
CONSTANT Message
VARIABLES sent,   \* the messages that went in
          out     \* the messages that came out, the newest one only

Init == sent = {} /\ out = {}

Send == \E m \in Message : sent' = sent \cup {m} /\ out' = out

Deliver == \E m \in sent : out' = {m} /\ sent' = sent

Spec == Init /\ [][Send \/ Deliver]_<<sent, out>>
=============================================================================
