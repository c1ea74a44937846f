----------------------------- MODULE StreamSync -----------------------------
(***************************************************************************)
(* What the state synchronisation protocol promises for one direction: the *)
(* events fed in at one end come out at the other, each once and in order, *)
(* in batches of any size; and an end that closes cleanly has delivered    *)
(* everything.  The promise lasts until a disturbance, if there is one.    *)
(***************************************************************************)
EXTENDS Naturals, Sequences

CONSTANT Entry

VARIABLES input,     \* events fed in so far
          output,    \* events that came out so far
          closed,    \* has the sending end closed cleanly?
          disturbed  \* has the promise come to an end?

syncVars == <<input, output, closed, disturbed>>

Init == input = <<>> /\ output = <<>> /\ closed = FALSE /\ disturbed = FALSE

Feed ==
  /\ ~closed
  /\ \E entry \in Entry : input' = Append(input, entry)
  /\ UNCHANGED <<output, closed>>

Deliver ==
  /\ \E n \in Len(output) + 1 .. Len(input) : output' = SubSeq(input, 1, n)
  /\ UNCHANGED <<input, closed>>

Close ==
  /\ ~closed /\ output = input
  /\ closed' = TRUE
  /\ UNCHANGED <<input, output>>

\* Nothing is promised of this step, nor of any after it.
Disturbance == disturbed' = TRUE

Next ==
  \/ (Feed \/ Deliver \/ Close) /\ UNCHANGED disturbed
  \/ Disturbance

Spec == Init /\ [][Next]_syncVars
=============================================================================
