------------------------------ MODULE Complete ------------------------------
(***************************************************************************)
(* statesync/complete.go: the state a server synchronises to its client, a *)
(* terminal emulator and the output it has consumed since the last tick,   *)
(* as the pure operators the transport calls on it.                        *)
(*                                                                         *)
(* The emulator is abstracted to the sequence of outputs that have changed *)
(* it (`screen'); two emulators are equal when they have consumed the same *)
(* outputs.  The echo ack and the window size, the other two parts of a    *)
(* HostMessage, are left out here.                                         *)
(***************************************************************************)
EXTENDS Sequences, Functions

CONSTANT Output          \* pieces of output of the shell

Terminal == [screen : Seq(Output), diffBuf : Seq(Output)]

NewComplete == [screen |-> <<>>, diffBuf |-> <<>>]

\* The emulator consumes output, and diffBuf records it.
ActLarge(c, out) ==
  [screen |-> Append(c.screen, out), diffBuf |-> Append(c.diffBuf, out)]

GetDiff(c) == c.diffBuf
Reset(c)   == [c EXCEPT !.diffBuf = <<>>]
Clone(c)   == Reset(c)

Equal(c, x) == c.screen = x.screen

Subtract(c, prefix) == c       \* "do nothing"

\* A host message: the output to write, the empty one when there is none.
HostMessage == Seq(Output)

\* The difference to ANY other state is the output since the last tick.
DiffFrom(c, existing) == IF Equal(c, existing) THEN <<>> ELSE c.diffBuf

ApplyString(c, diff) == [screen |-> c.screen \o diff, diffBuf |-> c.diffBuf \o diff]
=============================================================================
