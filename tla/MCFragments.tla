---------------------------- MODULE MCFragments ----------------------------
(***************************************************************************)
(* Fragments for TLC: a short and a long instruction, and two MTUs, as     *)
(* when the client roams from an IPv4 to an IPv6 network.                  *)
(***************************************************************************)
EXTENDS Fragments

CONSTANTS short, long
MCInstruction == {short, long}
MCSize(inst)  == IF inst = short THEN 2 ELSE 3
=============================================================================
