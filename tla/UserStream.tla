----------------------------- MODULE UserStream -----------------------------
(***************************************************************************)
(* statesync/user.go: the state a client synchronises to its server, a     *)
(* sequence of user events (keystrokes and window resizes), as the pure    *)
(* operators the transport calls on it.                                    *)
(*                                                                         *)
(* A keystroke event holds a sequence of runes.  On the wire the runes of  *)
(* consecutive keystrokes are concatenated and the receiver cuts them into *)
(* grapheme clusters again; a rune of Combining attaches to the rune       *)
(* before it.  Byte-level encoding (protobuf, UTF-8) is left out: it is    *)
(* inverted exactly by the decoder.                                        *)
(***************************************************************************)
EXTENDS Integers, Sequences, FiniteSets, SequencesExt, FiniteSetsExt

CONSTANTS Rune,       \* runes a user can type
          Combining,  \* those that attach to the preceding rune
          Size        \* window sizes

UserByte(chs) == [type |-> "userByte", chs |-> chs]
Resize(size)  == [type |-> "resize", size |-> size]

IsUserByte(ue) == ue.type = "userByte"

UserEvent == [type: {"userByte"}, chs: Seq(Rune)] \cup [type: {"resize"}, size: Size]
Stream    == Seq(UserEvent)

\* PushBack and PushBackResize.
PushBack(u, ue) == Append(u, ue)

Equal(u, x) == u = x

\* The number of leading events u and x share.
SharedPrefix(u, x) ==
  Max({n \in 0..Min({Len(u), Len(x)}) : \A i \in 1..n : u[i] = x[i]})

Drop(u, n) == SubSeq(u, n + 1, Len(u))

\* Subtracting a stream from itself empties it; otherwise the shared
\* prefix goes, and the loop stops at the first event that differs.
Subtract(u, prefix) == Drop(u, SharedPrefix(u, prefix))

-----------------------------------------------------------------------------
(* The diff: a list of instructions, each a Keystroke or a ResizeMessage.  *)

Keystroke(keys)     == [type |-> "keystroke", keys |-> keys]
ResizeMessage(size) == [type |-> "resize", size |-> size]
UserMessage ==
  Seq([type : {"keystroke"}, keys : Seq(Rune)] \cup [type : {"resize"}, size : Size])

\* One iteration of the loop that builds the UserMessage.  A keystroke that
\* does not follow a keystroke starts a NEW instruction list:
\* "um.Instruction = make([]*pb.Instruction, 0)".
AddInstruction(um, ue) ==
  IF ~IsUserByte(ue) THEN Append(um, ResizeMessage(ue.size))
  ELSE IF um # <<>> /\ Last(um).type = "keystroke"
       THEN Front(um) \o <<Keystroke(Last(um).keys \o ue.chs)>>
       ELSE <<Keystroke(ue.chs)>>

DiffFrom(u, existing) ==
  FoldLeft(AddInstruction, <<>>, Drop(u, SharedPrefix(u, existing)))

\* uniseg.NewGraphemes: a combining rune joins the cluster before it.
Graphemes(keys) ==
  FoldLeft(LAMBDA cs, r : IF cs # <<>> /\ r \in Combining
                          THEN Front(cs) \o <<Append(Last(cs), r)>>
                          ELSE Append(cs, <<r>>),
           <<>>, keys)

\* The events one received instruction adds to the stream.
ReceivedEvents(inst) ==
  IF inst.type = "keystroke"
  THEN LET cs == Graphemes(inst.keys) IN [i \in DOMAIN cs |-> UserByte(cs[i])]
  ELSE <<Resize(inst.size)>>

ApplyString(u, diff) ==
  FoldLeft(LAMBDA s, inst : s \o ReceivedEvents(inst), u, diff)
=============================================================================
