------------------------- MODULE Prediction_proofs -------------------------
(***************************************************************************)
(* What the client's predictions keep true for every size of the window,   *)
(* whatever the user types and however frames, echo acks and screens cross.*)
(***************************************************************************)
EXTENDS Prediction, TLAPS, WellFoundedInduction

-----------------------------------------------------------------------------
(* The inductive invariant, in named parts.                                *)

Preferences == {"Always", "Adaptive", "Never", "Experimental"}
CellPrediction ==
  [active : BOOLEAN, epoch : Nat, frame : Nat, unknown : BOOLEAN, repl : Cell, orig : SUBSET Graphemes]
CursorPrediction == [row : 0..MaxHeight - 1, col : 0..MaxWidth - 1, epoch : Nat, frame : Nat]
Engine ==
  [preference : Preferences, overwrite : BOOLEAN,
   rows : Seq(0..MaxHeight - 1), cells : [Pos -> CellPrediction], cursors : Seq(CursorPrediction),
   predictionEpoch : Nat, confirmedEpoch : Nat, localFrameSent : Nat, localFrameLateAcked : Nat,
   height : Nat, width : Nat, sendInterval : {"high", "middle", "low"}, srttTrigger : BOOLEAN,
   glitchTrigger : 0..2 * RepairCount, applied : BOOLEAN]

\* The cursor is on the screen.
RealScreen == {s \in Screen : s.row < s.h /\ s.col < s.w}

\* Predictions are about the screen the engine knows, each in a row that was
\* made, so that cull finds it; there are none when they are never displayed.
InPlace(p) ==
  /\ \A pos \in Pos : p.cells[pos].active =>
       /\ p.preference # "Never" /\ pos[1] < p.height /\ pos[2] < p.width
       /\ \E i \in DOMAIN p.rows : p.rows[i] = pos[1]
  /\ \A i \in DOMAIN p.cursors :
       p.preference # "Never" /\ p.cursors[i].row < p.height /\ p.cursors[i].col < p.width

\* No prediction is of a later epoch than the present one.  An engine that
\* experiments has one epoch, which counts as confirmed.
InEpochs(p) ==
  /\ p.confirmedEpoch <= p.predictionEpoch
  /\ \A pos \in Pos : p.cells[pos].active => p.cells[pos].epoch <= p.predictionEpoch
  /\ p.preference = "Experimental" =>
       p.confirmedEpoch = 0 /\ \A pos \in Pos : p.cells[pos].active => p.cells[pos].epoch = 0
  /\ p.preference # "Experimental" =>
       /\ p.predictionEpoch > 0
       /\ \A pos \in Pos : p.cells[pos].active => p.cells[pos].epoch > 0
       /\ \A i \in DOMAIN p.cursors : p.cursors[i].epoch > 0

\* Only an active prediction remembers what was there before.
Forgetful(p) == \A pos \in Pos : ~p.cells[pos].active => p.cells[pos].orig = {}

Sound(p) == p \in Engine /\ InPlace(p) /\ InEpochs(p) /\ Forgetful(p)

FitsScreen(p, emu) == p.height = emu.h /\ p.width = emu.w

\* No prediction is confirmed by what the screen shows without an echo: a known
\* one remembers what is there, or nothing is there any more.
Narrow(c) == ~c.wide /\ ~c.cont
Guesses(p, emu) ==
  /\ p.preference # "Experimental" /\ p.confirmedEpoch = 0
  /\ \A pos \in Pos :
       /\ Narrow(emu.cells[pos]) /\ Narrow(p.cells[pos].repl)
       /\ p.cells[pos].active /\ ~p.cells[pos].unknown =>
            /\ p.cells[pos].orig # {}
            /\ emu.cells[pos].ch \in p.cells[pos].orig \/ emu.cells[pos].ch = ""

AllKeys == UNION {GlyphKey, ResizeKey, OtherKey}
Frame   == [num : Nat, keys : Seq(AllKeys)]

Types ==
  /\ {screen, localFramebuffer} \subseteq RealScreen
  /\ remote \in [screen : RealScreen, echoAck : Nat]
  /\ unsent \in Seq(AllKeys) /\ hostInput \in Seq(AllKeys) /\ inFlight \in Seq(Frame)
  /\ inputHistory \in Seq(Nat) /\ inputEcho \in {"Standby", "InputReady"}
  /\ lastSent \in Nat /\ lastRemoteNum \in Nat /\ echoAck \in Nat /\ typed \in 0..MaxKeys
  /\ printed \in BOOLEAN /\ unfounded \in BOOLEAN

\* A frame is sent with at least one key, received after it was sent, and
\* acknowledged after it was received.
Numbered ==
  /\ lastSent + Len(unsent) <= typed
  /\ \A i \in DOMAIN inFlight : inFlight[i].num \in lastRemoteNum + 1..lastSent
  /\ \A i, j \in DOMAIN inFlight : i < j => inFlight[i].num < inFlight[j].num
  /\ lastRemoteNum <= lastSent /\ echoAck <= lastRemoteNum /\ remote.echoAck <= echoAck
  /\ \A i \in DOMAIN inputHistory : inputHistory[i] \in echoAck..lastRemoteNum

Predicting ==
  /\ Sound(pe)
  /\ pe.preference # "Never" => FitsScreen(pe, remote.screen)
  /\ localFramebuffer.h = remote.screen.h /\ localFramebuffer.w = remote.screen.w
  /\ pe.localFrameLateAcked = remote.echoAck /\ pe.localFrameSent <= lastSent
  /\ \A pos \in Pos : pe.cells[pos].frame <= lastSent + 1
  /\ OnlyUnansweredRemain

\* What the host has not written is what was there, or erased.
Unwritten(s, t) ==
  \A pos \in Pos :
    /\ Narrow(s.cells[pos]) /\ Narrow(t.cells[pos])
    /\ s.cells[pos] = t.cells[pos] \/ s.cells[pos].ch = ""
Silent == ~printed => Unwritten(screen, remote.screen)

Blind ==
  ~printed /\ ~unfounded /\ pe.preference # "Experimental" =>
    localFramebuffer = remote.screen /\ Guesses(pe, remote.screen)

IInv == Types /\ Numbered /\ Predicting /\ Silent /\ Blind

-----------------------------------------------------------------------------
(* Induction, along sequences and along the engine's own recursion.        *)

\* A nonempty set of numbers has a least element.
LEMMA LeastNumber ==
  ASSUME NEW T, T \subseteq Nat, T # {}
  PROVE  \E x \in T : \A y \in T : x <= y
<1> DEFINE Below == {pair \in Nat \X Nat : pair[1] < pair[2]}
<1>1. IsWellFoundedOn(Below, Nat)
  BY NatLessThanWellFounded, Zenon DEF OpToRel
<1>2. \A x, y \in Nat : <<x, y>> \in Below <=> x < y
  OBVIOUS
<1> HIDE DEF Below
<1>3. PICK x \in T : \A y \in T : ~(<<y, x>> \in Below)
  BY <1>1, WFMin
<1>4. ASSUME NEW y \in T PROVE x <= y
  <2>1. x \in Nat /\ y \in Nat /\ ~(y < x)
    BY <1>2, <1>3
  <2> QED  BY <2>1
<1> QED  BY <1>4

\* Induction up to n, over the set of the numbers for which something holds.
LEMMA UpTo ==
  ASSUME NEW n \in Nat, NEW T, 0 \in T, \A i \in 1..n : i - 1 \in T => i \in T
  PROVE  \A i \in 0..n : i \in T
<1>1. SUFFICES ASSUME (0..n) \ T # {} PROVE FALSE
  OBVIOUS
<1>2. PICK i \in (0..n) \ T : \A j \in (0..n) \ T : i <= j
  <2>1. (0..n) \ T \subseteq Nat
    OBVIOUS
  <2> QED  BY <1>1, <2>1, LeastNumber
<1>3. i \in 1..n /\ i - 1 \in 0..n /\ ~(i <= i - 1)
  BY <1>2
<1>4. i - 1 \in T
  BY <1>2, <1>3
<1> QED  BY <1>2, <1>3, <1>4

-----------------------------------------------------------------------------
(* Sequences.                                                              *)

\* f is a solution of the recursion of Kept.
KeptBy(f, s, some, len) ==
  f = [i \in 0..len |-> IF i = 0 THEN <<>>
                        ELSE IF i \in some THEN Append(f[i - 1], s[i]) ELSE f[i - 1]]

\* There is one.
LEMMA KeptIsDefined ==
  ASSUME NEW s, NEW some, NEW len \in Nat
  PROVE  \E f : KeptBy(f, s, some, len)
<1> DEFINE Solves(f, n) == KeptBy(f, s, some, n)
           T == {n \in Nat : \E f : Solves(f, n)}
<1>1. 0 \in T
  <2> DEFINE g == [i \in 0..0 |-> <<>>]
  <2>1. Solves(g, 0)
    BY DEF KeptBy
  <2> HIDE DEF g, Solves
  <2> QED  BY <2>1
<1>2. ASSUME NEW n \in 1..len, n - 1 \in T PROVE n \in T
  <2>1. PICK f : Solves(f, n - 1)
    BY <1>2
  <2> DEFINE g == [i \in 0..n |-> IF i < n THEN f[i]
                                  ELSE IF n \in some THEN Append(f[n - 1], s[n]) ELSE f[n - 1]]
  <2>2. ASSUME NEW i \in 0..n
        PROVE  g[i] = IF i = 0 THEN <<>>
                      ELSE IF i \in some THEN Append(g[i - 1], s[i]) ELSE g[i - 1]
    <3>1. CASE i = n
      <4>1. n # 0 /\ n - 1 \in 0..n /\ n - 1 < n
        OBVIOUS
      <4>2. g[n - 1] = f[n - 1]
        BY <4>1
      <4>3. g[n] = IF n \in some THEN Append(f[n - 1], s[n]) ELSE f[n - 1]
        OBVIOUS
      <4> QED  BY <3>1, <4>1, <4>2, <4>3
    <3>2. CASE i # n /\ i # 0
      <4>1. i \in 0..n - 1 /\ i - 1 \in 0..n - 1 /\ i < n /\ i - 1 < n /\ i - 1 \in 0..n
        BY <3>2
      <4>2. g[i] = f[i] /\ g[i - 1] = f[i - 1]
        BY <4>1
      <4>3. f[i] = IF i \in some THEN Append(f[i - 1], s[i]) ELSE f[i - 1]
        BY <2>1, <3>2, <4>1 DEF KeptBy
      <4> QED  BY <3>2, <4>2, <4>3
    <3>3. CASE i # n /\ i = 0
      <4>1. f[0] = <<>> /\ 0 \in 0..n - 1
        BY <2>1, <3>3 DEF KeptBy
      <4> QED  BY <3>3, <4>1
    <3> QED  BY <3>1, <3>2, <3>3
  <2>3. DOMAIN g = 0..n /\ g = [i \in DOMAIN g |-> g[i]]
    OBVIOUS
  <2> HIDE DEF g
  <2>4. Solves(g, n)
    BY <2>2, <2>3 DEF KeptBy
  <2> HIDE DEF Solves
  <2> QED  BY <2>4
<1>3. len \in T
  <2> HIDE DEF T, Solves
  <2>1. \A i \in 1..len : i - 1 \in T => i \in T
    BY <1>2
  <2>2. \A i \in 0..len : i \in T
    BY <1>1, <2>1, UpTo
  <2> QED  BY <2>2
<1> QED  BY <1>3

\* What is kept of a sequence is in it, at a position that is to be kept.
LEMMA KeptHas ==
  ASSUME NEW S, NEW s \in Seq(S), NEW some
  PROVE  /\ Kept(s, some) \in Seq(S)
         /\ \A j \in DOMAIN Kept(s, some) : \E i \in DOMAIN s : i \in some /\ Kept(s, some)[j] = s[i]
<1> DEFINE rec(f) == [i \in 0..Len(s) |->
                        IF i = 0 THEN <<>>
                        ELSE IF i \in some THEN Append(f[i - 1], s[i]) ELSE f[i - 1]]
           f == CHOOSE f : f = rec(f)
<1>0. Len(s) \in Nat
  OBVIOUS
<1>1. Kept(s, some) = f[Len(s)]
  BY DEF Kept
<1>2. f = rec(f)
  <2>1. \E g : g = rec(g)
    <3>1. \E g : KeptBy(g, s, some, Len(s))
      BY <1>0, KeptIsDefined
    <3> QED  BY <3>1, Zenon DEF KeptBy
  <2> QED  BY <2>1, Zenon
<1> HIDE DEF f
<1>3. /\ f[0] = <<>>
      /\ \A i \in 1..Len(s) : f[i] = IF i \in some THEN Append(f[i - 1], s[i]) ELSE f[i - 1]
  <2>1. \A i \in 0..Len(s) : f[i] = IF i = 0 THEN <<>>
                                    ELSE IF i \in some THEN Append(f[i - 1], s[i]) ELSE f[i - 1]
    BY <1>2, Zenon
  <2> HIDE DEF rec
  <2>2. 0 \in 0..Len(s) /\ \A i \in 1..Len(s) : i \in 0..Len(s) /\ i # 0
    BY <1>0
  <2> QED  BY <2>1, <2>2, Zenon
<1> HIDE DEF rec
<1> DEFINE Taken(q) == /\ q \in Seq(S)
                       /\ \A j \in DOMAIN q : \E i \in DOMAIN s : i \in some /\ q[j] = s[i]
           T == {i \in 0..Len(s) : Taken(f[i])}
<1>4. 0 \in T
  <2>1. Taken(<<>>)
    OBVIOUS
  <2> HIDE DEF Taken
  <2> QED  BY <1>0, <1>3, <2>1
<1>5. ASSUME NEW i \in 1..Len(s), i - 1 \in T PROVE i \in T
  <2>1. Taken(f[i - 1])
    BY <1>5
  <2>2. i \in DOMAIN s /\ s[i] \in S
    OBVIOUS
  <2>3. CASE i \in some
    <3> DEFINE q == f[i - 1]
    <3>0. f[i] = Append(q, s[i]) /\ q \in Seq(S)
      BY <1>3, <2>1, <2>3
    <3>q. Taken(q)
      BY <2>1
    <3> HIDE DEF q
    <3>1. f[i] \in Seq(S) /\ DOMAIN f[i] = 1..Len(q) + 1 /\ DOMAIN q = 1..Len(q) /\ Len(q) \in Nat
      BY <2>2, <3>0
    <3>2. ASSUME NEW j \in DOMAIN f[i] PROVE \E k \in DOMAIN s : k \in some /\ f[i][j] = s[k]
      <4>1. CASE j \in DOMAIN q
        <5>1. f[i][j] = q[j]
          BY <3>0, <3>1, <4>1
        <5> QED  BY <3>q, <4>1, <5>1
      <4>2. CASE j = Len(q) + 1
        <5>1. f[i][j] = s[i]
          BY <3>0, <4>2
        <5> QED  BY <2>2, <2>3, <5>1
      <4> QED  BY <3>1, <4>1, <4>2
    <3>3. Taken(f[i])
      BY <3>1, <3>2
    <3> HIDE DEF Taken
    <3> QED  BY <3>3
  <2>4. CASE i \notin some
    <3>1. f[i] = f[i - 1]
      BY <1>3, <2>4
    <3> HIDE DEF Taken
    <3> QED  BY <2>1, <3>1
  <2> QED  BY <2>3, <2>4
<1>6. Taken(f[Len(s)])
  <2>1. Len(s) \in T
    <3> HIDE DEF T
    <3>1. \A i \in 1..Len(s) : i - 1 \in T => i \in T
      BY <1>5
    <3>2. \A i \in 0..Len(s) : i \in T
      BY <1>0, <1>4, <3>1, UpTo
    <3> QED  BY <1>0, <3>2
  <2> QED  BY <2>1
<1> QED  BY <1>1, <1>6

\* f is a solution of the recursion of FlattenSeq.
FlattenedBy(f, seqs, len) == f = [i \in 1..len |-> IF i = 1 THEN seqs[i] ELSE f[i - 1] \o seqs[i]]

\* There is one.
LEMMA FlattenIsDefined ==
  ASSUME NEW seqs, NEW len \in Nat \ {0}
  PROVE  \E f : FlattenedBy(f, seqs, len)
<1> DEFINE T == {n \in Nat : n = 0 \/ \E f : FlattenedBy(f, seqs, n)}
<1>1. 0 \in T
  OBVIOUS
<1>2. ASSUME NEW n \in 1..len, n - 1 \in T PROVE n \in T
  <2>1. CASE n = 1
    <3> DEFINE g == [i \in 1..1 |-> seqs[i]]
    <3>1. \A i \in 1..1 : g[i] = IF i = 1 THEN seqs[i] ELSE g[i - 1] \o seqs[i]
      OBVIOUS
    <3>2. g = [i \in 1..1 |-> g[i]]
      OBVIOUS
    <3> HIDE DEF g
    <3>3. FlattenedBy(g, seqs, 1)
      BY <3>1, <3>2 DEF FlattenedBy
    <3> QED  BY <2>1, <3>3
  <2>2. CASE n # 1
    <3>1. PICK f : FlattenedBy(f, seqs, n - 1)
      BY <1>2, <2>2
    <3> DEFINE g == [i \in 1..n |-> IF i < n THEN f[i] ELSE f[n - 1] \o seqs[n]]
    <3>2. ASSUME NEW i \in 1..n
          PROVE  g[i] = IF i = 1 THEN seqs[i] ELSE g[i - 1] \o seqs[i]
      <4>1. CASE i = n
        <5>1. n # 1 /\ n - 1 \in 1..n /\ n - 1 < n
          BY <2>2
        <5>2. g[n - 1] = f[n - 1]
          BY <5>1
        <5>3. ~(n < n) /\ n \in 1..n
          OBVIOUS
        <5>4. g[n] = f[n - 1] \o seqs[n]
          BY <5>3, Zenon
        <5> HIDE DEF g
        <5> QED  BY <4>1, <5>1, <5>2, <5>4, Zenon
      <4>2. CASE i # n /\ i # 1
        <5>1. i \in 1..n - 1 /\ i - 1 \in 1..n - 1 /\ i < n /\ i - 1 < n /\ i - 1 \in 1..n
          BY <4>2
        <5>2. g[i] = f[i] /\ g[i - 1] = f[i - 1]
          BY <5>1
        <5>3. f[i] = f[i - 1] \o seqs[i]
          BY <3>1, <4>2, <5>1 DEF FlattenedBy
        <5> QED  BY <4>2, <5>2, <5>3
      <4>3. CASE i # n /\ i = 1
        <5>1. f[1] = seqs[1] /\ 1 \in 1..n - 1 /\ 1 < n
          BY <3>1, <4>3 DEF FlattenedBy
        <5> QED  BY <4>3, <5>1
      <4> QED  BY <4>1, <4>2, <4>3
    <3>3. g = [i \in 1..n |-> g[i]]
      OBVIOUS
    <3> HIDE DEF g
    <3>4. FlattenedBy(g, seqs, n)
      BY <3>2, <3>3 DEF FlattenedBy
    <3> QED  BY <3>4
  <2> QED  BY <2>1, <2>2
<1>3. len \in T
  <2> HIDE DEF T
  <2>1. \A i \in 1..len : i - 1 \in T => i \in T
    BY <1>2
  <2>2. \A i \in 0..len : i \in T
    BY <1>1, <2>1, UpTo
  <2> QED  BY <2>2
<1> QED  BY <1>3

\* A sequence made of sequences has the members of those.
LEMMA FlattenHas ==
  ASSUME NEW S, NEW seqs \in Seq(Seq(S))
  PROVE  FlattenSeq(seqs) \in Seq(S)
<1> DEFINE rec(f) == [i \in 1..Len(seqs) |-> IF i = 1 THEN seqs[i] ELSE f[i - 1] \o seqs[i]]
           f == CHOOSE f : f = rec(f)
<1>0. Len(seqs) \in Nat
  OBVIOUS
<1>1. CASE Len(seqs) = 0
  <2>1. seqs = <<>>
    BY <1>1
  <2>2. FlattenSeq(seqs) = seqs
    BY <1>1 DEF FlattenSeq
  <2>3. <<>> \in Seq(S)
    OBVIOUS
  <2> QED  BY <2>1, <2>2, <2>3, Zenon
<1>2. CASE Len(seqs) # 0
  <2>1. FlattenSeq(seqs) = f[Len(seqs)]
    BY <1>2 DEF FlattenSeq
  <2>2. f = rec(f)
    <3>1. \E g : FlattenedBy(g, seqs, Len(seqs))
      BY <1>0, <1>2, FlattenIsDefined
    <3>2. \E g : g = rec(g)
      BY <3>1, Zenon DEF FlattenedBy
    <3> QED  BY <3>2, Zenon
  <2> HIDE DEF f
  <2>3. \A i \in 1..Len(seqs) : f[i] = IF i = 1 THEN seqs[i] ELSE f[i - 1] \o seqs[i]
    BY <2>2, Zenon
  <2> HIDE DEF rec
  <2> DEFINE T == {0} \cup {i \in 1..Len(seqs) : f[i] \in Seq(S)}
  <2>4. 0 \in T
    OBVIOUS
  <2>5. ASSUME NEW i \in 1..Len(seqs), i - 1 \in T PROVE i \in T
    <3>1. seqs[i] \in Seq(S)
      OBVIOUS
    <3>2. CASE i = 1
      BY <2>3, <3>1, <3>2
    <3>3. CASE i # 1
      <4>1. f[i - 1] \in Seq(S)
        BY <2>5, <3>3
      <4>2. f[i] = f[i - 1] \o seqs[i]
        BY <2>3, <3>3
      <4>3. f[i] \in Seq(S)
        BY <3>1, <4>1, <4>2
      <4> QED  BY <4>3, Zenon
    <3> QED  BY <3>2, <3>3
  <2>6. Len(seqs) \in T
    <3> HIDE DEF T
    <3>1. \A i \in 1..Len(seqs) : i - 1 \in T => i \in T
      BY <2>5
    <3>2. \A i \in 0..Len(seqs) : i \in T
      BY <1>0, <2>4, <3>1, UpTo
    <3> QED  BY <1>0, <3>2
  <2> QED  BY <1>2, <2>1, <2>6
<1> QED  BY <1>1, <1>2

-----------------------------------------------------------------------------
(* One prediction.                                                         *)

\* A prediction d that was dropped, where c was.
Gone(c, d) == ~d.active /\ d.orig = {} /\ d.frame = 0 /\ d.epoch = 0 /\ d.repl \in {c.repl, Blank}

\* A cell that holds nothing.
LEMMA BlankIsCell == Blank \in Cell /\ Narrow(Blank) /\ Blank.ch = ""
  BY PredictionAssumption DEF Blank, Cell, Narrow

\* reset drops a prediction and leaves its replacement.
LEMMA ResetCellHas ==
  ASSUME NEW c \in CellPrediction
  PROVE  ResetCell(c) \in CellPrediction /\ Gone(c, ResetCell(c))
  BY DEF ResetCell, Inactive, CellPrediction, Gone

\* So does a row that is made anew.
LEMMA NoCellsHas ==
  /\ NoCells \in [Pos -> CellPrediction]
  /\ \A pos \in Pos : \A c : Gone(c, NoCells[pos])
<1>1. Inactive(Blank) \in CellPrediction /\ \A c : Gone(c, Inactive(Blank))
  BY BlankIsCell DEF Inactive, CellPrediction, Gone
<1> QED  BY <1>1 DEF NoCells

-----------------------------------------------------------------------------
(* Steps of the engine.                                                    *)

\* What cull and the handlers leave alone.  An engine that experiments stays in
\* its epoch.
SameSettings(p, q) ==
  /\ q.preference = p.preference /\ q.overwrite = p.overwrite
  /\ q.localFrameSent = p.localFrameSent /\ q.localFrameLateAcked = p.localFrameLateAcked
  /\ q.height = p.height /\ q.width = p.width
  /\ p.preference = "Experimental" => q.predictionEpoch = p.predictionEpoch

\* Other cells, cursors, rows or epochs.
LEMMA OtherCells ==
  ASSUME NEW p \in Engine, NEW cells \in [Pos -> CellPrediction]
  PROVE  LET q == [p EXCEPT !.cells = cells]
         IN  /\ q \in Engine /\ SameSettings(p, q) /\ q.cells = cells
             /\ q.rows = p.rows /\ q.cursors = p.cursors
             /\ q.predictionEpoch = p.predictionEpoch /\ q.confirmedEpoch = p.confirmedEpoch
  BY DEF Engine, SameSettings

LEMMA OtherCursors ==
  ASSUME NEW p \in Engine, NEW cursors \in Seq(CursorPrediction)
  PROVE  LET q == [p EXCEPT !.cursors = cursors]
         IN  /\ q \in Engine /\ SameSettings(p, q) /\ q.cursors = cursors
             /\ q.rows = p.rows /\ q.cells = p.cells
             /\ q.predictionEpoch = p.predictionEpoch /\ q.confirmedEpoch = p.confirmedEpoch
  BY DEF Engine, SameSettings

LEMMA OneCellDropped ==
  ASSUME NEW c \in [pe : Engine, end : BOOLEAN, repaired : BOOLEAN], NEW pos \in Pos
  PROVE  [c EXCEPT !.pe.cells[pos] = ResetCell(@)] =
          [c EXCEPT !.pe = [c.pe EXCEPT !.cells = [c.pe.cells EXCEPT ![pos] = ResetCell(c.pe.cells[pos])]]]
  OBVIOUS

\* becomeTentative.
LEMMA BecomeTentativeHas ==
  ASSUME NEW p \in Engine
  PROVE  LET q == BecomeTentative(p)
         IN  /\ q \in Engine /\ SameSettings(p, q) /\ q.cells = p.cells
             /\ q.rows = p.rows /\ q.cursors = p.cursors
             /\ q.predictionEpoch >= p.predictionEpoch /\ q.confirmedEpoch = p.confirmedEpoch
             /\ p.preference = "Experimental" => q = p
             /\ q.applied = p.applied
  BY DEF BecomeTentative, Engine, SameSettings

\* Predictions were only dropped.
Fewer(p, q) ==
  \A pos \in Pos : q.cells[pos] = p.cells[pos] \/ Gone(p.cells[pos], q.cells[pos])

\* A cursor the engine predicts is on the screen the engine knows.
SoundCursor(p, c) ==
  /\ p.preference # "Never" /\ c.row < p.height /\ c.col < p.width
  /\ p.preference # "Experimental" => c.epoch > 0

\* What only drops predictions keeps the engine sound,
LEMMA FewerIsSound ==
  ASSUME NEW p, Sound(p), NEW q \in Engine, SameSettings(p, q), Fewer(p, q),
         q.predictionEpoch >= p.predictionEpoch, q.confirmedEpoch <= q.predictionEpoch,
         p.preference = "Experimental" => q.confirmedEpoch = 0,
         q.rows = p.rows \/ \A pos \in Pos : ~q.cells[pos].active,
         \A i \in DOMAIN q.cursors : SoundCursor(q, q.cursors[i])
  PROVE  Sound(q)
<1>1. \A pos \in Pos : q.cells[pos].active => q.cells[pos] = p.cells[pos]
  BY DEF Fewer, Gone
<1>2. InPlace(q)
  BY <1>1 DEF Sound, InPlace, SameSettings, SoundCursor
<1>3. InEpochs(q)
  <2>1. \A pos \in Pos : q.cells[pos].epoch \in Nat
    BY DEF Engine, CellPrediction
  <2>2. p.predictionEpoch \in Nat /\ q.predictionEpoch \in Nat
    BY DEF Sound, Engine
  <2>3. \A pos \in Pos : q.cells[pos].active => q.cells[pos].epoch <= q.predictionEpoch
    BY <1>1, <2>1, <2>2 DEF Sound, InEpochs
  <2> QED  BY <1>1, <2>2, <2>3 DEF Sound, InEpochs, SameSettings, SoundCursor
<1>4. Forgetful(q)
  BY DEF Sound, Forgetful, Fewer, Gone
<1> QED  BY <1>2, <1>3, <1>4 DEF Sound

\* and confirms nothing that was not.
LEMMA FewerGuesses ==
  ASSUME NEW p, NEW q, NEW emu, Guesses(p, emu), SameSettings(p, q), Fewer(p, q), q.confirmedEpoch = p.confirmedEpoch
  PROVE  Guesses(q, emu)
<1>1. Narrow(Blank)
  BY DEF Blank, Narrow
<1> QED  BY <1>1 DEF Guesses, SameSettings, Fewer, Gone

LEMMA SoundCursors ==
  ASSUME NEW p, Sound(p)
  PROVE  \A i \in DOMAIN p.cursors : SoundCursor(p, p.cursors[i])
  BY DEF Sound, InPlace, InEpochs, SoundCursor

\* Some of the cursors.
LEMMA KeptCursors ==
  ASSUME NEW p, Sound(p), NEW some
  PROVE  /\ Kept(p.cursors, some) \in Seq(CursorPrediction)
         /\ \A i \in DOMAIN Kept(p.cursors, some) : SoundCursor(p, Kept(p.cursors, some)[i])
<1>1. p.cursors \in Seq(CursorPrediction)
  BY DEF Sound, Engine
<1> QED  BY <1>1, KeptHas, SoundCursors

\* Reset drops all predictions.
LEMMA ResetHas ==
  ASSUME NEW p \in Engine, InEpochs(p)
  PROVE  LET q == Reset(p)
         IN  /\ Sound(q) /\ SameSettings(p, q) /\ Fewer(p, q)
             /\ \A pos \in Pos : ~q.cells[pos].active
             /\ q.cursors = <<>> /\ q.confirmedEpoch = p.confirmedEpoch /\ q.applied = p.applied
<1> DEFINE m == [p EXCEPT !.cursors = <<>>, !.rows = <<>>, !.cells = NoCells]
           q == BecomeTentative(m)
<1>1. /\ m \in Engine /\ SameSettings(p, m) /\ m.cells = NoCells /\ m.cursors = <<>>
      /\ m.predictionEpoch = p.predictionEpoch /\ m.confirmedEpoch = p.confirmedEpoch /\ m.applied = p.applied
  <2>1. <<>> \in Seq(CursorPrediction) /\ <<>> \in Seq(0..MaxHeight - 1)
    OBVIOUS
  <2>2. p \in Engine /\ NoCells \in [Pos -> CellPrediction]
    BY NoCellsHas
  <2>3. m \in Engine
    BY <2>1, <2>2 DEF Engine
  <2> QED  BY <2>2, <2>3 DEF Engine, SameSettings
<1> HIDE DEF m
<1>2. /\ q \in Engine /\ SameSettings(m, q) /\ q.cells = m.cells /\ q.cursors = m.cursors
      /\ q.predictionEpoch >= m.predictionEpoch /\ q.confirmedEpoch = m.confirmedEpoch /\ q.applied = m.applied
  BY <1>1, BecomeTentativeHas
<1>3. q = Reset(p)
  BY DEF Reset, m
<1> HIDE DEF q
<1>4. SameSettings(p, q) /\ Fewer(p, q) /\ \A pos \in Pos : ~q.cells[pos].active
  BY <1>1, <1>2, NoCellsHas DEF SameSettings, Fewer, Gone
<1>5. p.confirmedEpoch <= p.predictionEpoch /\ p.predictionEpoch \in Nat /\ p.confirmedEpoch \in Nat
  BY DEF InEpochs, Engine
<1>6. q.confirmedEpoch <= q.predictionEpoch /\ q.predictionEpoch >= p.predictionEpoch
  <2>1. q.predictionEpoch \in Nat
    BY <1>2 DEF Engine
  <2> QED  BY <1>1, <1>2, <1>5, <2>1
<1>7. p.preference = "Experimental" => q.confirmedEpoch = 0
  BY <1>1, <1>2 DEF InEpochs
<1>8. InPlace(q) /\ Forgetful(q)
  BY <1>1, <1>2, <1>4, NoCellsHas DEF InPlace, Forgetful, Gone
<1>9. Sound(q)
  <2>1. p.preference # "Experimental" => q.predictionEpoch > 0
    <3>1. p.preference # "Experimental" => p.predictionEpoch > 0
      BY DEF InEpochs
    <3>2. q.predictionEpoch \in Nat
      BY <1>2 DEF Engine
    <3> QED  BY <1>5, <1>6, <3>1, <3>2
  <2> QED  BY <1>1, <1>2, <1>4, <1>6, <1>7, <1>8, <2>1 DEF Sound, InEpochs, SameSettings
<1> QED  BY <1>1, <1>2, <1>3, <1>4, <1>9

-----------------------------------------------------------------------------
(* cull, cell by cell.                                                     *)

\* killEpoch drops a prediction that is of this epoch, and moves no row.
LEMMA KillEpochHas ==
  ASSUME NEW p, Sound(p), p.preference \notin {"Never", "Experimental"}, NEW epoch \in Nat,
         NEW emu \in RealScreen, FitsScreen(p, emu)
  PROVE  LET q == KillEpoch(p, epoch, emu)
         IN  /\ Sound(q) /\ SameSettings(p, q) /\ Fewer(p, q)
             /\ q.rows = p.rows /\ q.confirmedEpoch = p.confirmedEpoch
             /\ \A pos \in Pos : p.cells[pos].active /\ p.cells[pos].epoch >= epoch => ~q.cells[pos].active
<1> DEFINE older == {i \in DOMAIN p.cursors : p.cursors[i].epoch < epoch}
           here  == CursorAt(p, emu.row, emu.col)
           kept  == Kept(p.cursors, older)
           m == [p EXCEPT !.cursors = Append(kept, here), !.cells = Killed(p, epoch)]
           q == BecomeTentative(m)
<1>0. q = KillEpoch(p, epoch, emu)
  BY DEF KillEpoch
<1>1. Killed(p, epoch) \in [Pos -> CellPrediction] /\ p \in Engine
  BY ResetCellHas DEF Killed, Sound, Engine
<1>2. here \in CursorPrediction /\ SoundCursor(p, here)
  <2>1. /\ emu.row \in 0..MaxHeight - 1 /\ emu.col \in 0..MaxWidth - 1
        /\ emu.row < emu.h /\ emu.col < emu.w
    BY DEF RealScreen, Screen
  <2>2. /\ p.localFrameSent + 1 \in Nat /\ p.predictionEpoch \in Nat
        /\ p.predictionEpoch > 0
    BY DEF Sound, Engine, InEpochs
  <2> QED  BY <2>1, <2>2 DEF CursorAt, CursorPrediction, SoundCursor, FitsScreen
<1>3. /\ kept \in Seq(CursorPrediction)
      /\ \A i \in DOMAIN kept : SoundCursor(p, kept[i])
  BY KeptCursors
<1> HIDE DEF kept, here
<1>4. /\ Append(kept, here) \in Seq(CursorPrediction)
      /\ \A i \in DOMAIN Append(kept, here) : SoundCursor(p, Append(kept, here)[i])
  <2>1. ASSUME NEW i \in DOMAIN Append(kept, here) PROVE SoundCursor(p, Append(kept, here)[i])
    <3>1. (i \in DOMAIN kept /\ Append(kept, here)[i] = kept[i]) \/ Append(kept, here)[i] = here
      BY <1>2, <1>3
    <3> QED  BY <1>2, <1>3, <3>1
  <2> QED  BY <1>2, <1>3, <2>1
<1>5. /\ m \in Engine /\ SameSettings(p, m) /\ m.cells = Killed(p, epoch) /\ m.cursors = Append(kept, here)
      /\ m.predictionEpoch = p.predictionEpoch /\ m.confirmedEpoch = p.confirmedEpoch /\ m.rows = p.rows
  <2>1. m \in Engine
    BY <1>1, <1>4 DEF Engine
  <2> QED  BY <1>1, <2>1 DEF Engine, SameSettings
<1> HIDE DEF m
<1>6. /\ q \in Engine /\ SameSettings(m, q) /\ q.cells = m.cells /\ q.cursors = m.cursors /\ q.rows = m.rows
      /\ q.predictionEpoch >= m.predictionEpoch /\ q.confirmedEpoch = m.confirmedEpoch
  BY <1>5, BecomeTentativeHas
<1> HIDE DEF q
<1>7. SameSettings(p, q)
  BY <1>5, <1>6 DEF SameSettings
<1>8. \A pos \in Pos : /\ q.cells[pos] = p.cells[pos] \/ Gone(p.cells[pos], q.cells[pos])
                       /\ p.cells[pos].active /\ p.cells[pos].epoch >= epoch => ~q.cells[pos].active
  <2>1. \A pos \in Pos : p.cells[pos] \in CellPrediction
    BY <1>1 DEF Engine
  <2>2. \A pos \in Pos : Gone(p.cells[pos], ResetCell(p.cells[pos]))
    BY <2>1, ResetCellHas
  <2>3. \A pos \in Pos : q.cells[pos] = IF p.cells[pos].active /\ p.cells[pos].epoch >= epoch
                                        THEN ResetCell(p.cells[pos]) ELSE p.cells[pos]
    BY <1>5, <1>6 DEF Killed
  <2> QED  BY <2>2, <2>3 DEF Gone
<1>9. /\ q.confirmedEpoch <= q.predictionEpoch /\ q.predictionEpoch >= p.predictionEpoch
  <2>1. q.predictionEpoch \in Nat
    BY <1>6 DEF Engine
  <2>2. p.confirmedEpoch <= p.predictionEpoch /\ p.predictionEpoch \in Nat /\ p.confirmedEpoch \in Nat
    BY DEF Sound, InEpochs, Engine
  <2> QED  BY <1>5, <1>6, <2>1, <2>2
<1>10. \A i \in DOMAIN q.cursors : SoundCursor(q, q.cursors[i])
  BY <1>4, <1>5, <1>6, <1>7 DEF SoundCursor, SameSettings
<1>11. Fewer(p, q)
  BY <1>8 DEF Fewer
<1>12. Sound(q)
  BY <1>5, <1>6, <1>7, <1>9, <1>10, <1>11, FewerIsSound
<1> QED  BY <1>0, <1>5, <1>6, <1>7, <1>8, <1>11, <1>12

\* What the validity of a prediction says of it.
LEMMA CellValidityIs ==
  ASSUME NEW c \in CellPrediction, NEW pos, NEW emu, NEW ack \in Nat
  PROVE  LET v == CellValidity(c, pos, emu, ack)
         IN  /\ v \in {"Inactive", "IncorrectOrExpired", "Pending", "CorrectNoCredit", "Correct"}
             /\ v = "Inactive" => ~c.active
             /\ v # "Inactive" => c.active
             /\ v = "Pending" => c.frame > ack
             /\ v = "Correct" => /\ ~c.unknown /\ ~IsBlank(c.repl) /\ Credited(c)
                                 /\ ContentsMatch(emu.cells[pos], c.repl)
<1>1. c.frame \in Nat /\ c.active \in BOOLEAN /\ c.unknown \in BOOLEAN
  BY DEF CellPrediction
<1> QED  BY <1>1 DEF CellValidity

\* Nothing that was guessed is confirmed by a screen without an echo.
LEMMA GuessIsNotCorrect ==
  ASSUME NEW p, Sound(p), NEW emu, Guesses(p, emu), NEW pos \in Pos, NEW ack \in Nat
  PROVE  CellValidity(p.cells[pos], pos, emu, ack) # "Correct"
<1> DEFINE c == p.cells[pos]
<1>1. c \in CellPrediction
  BY DEF Sound, Engine
<1>2. SUFFICES ASSUME CellValidity(c, pos, emu, ack) = "Correct" PROVE FALSE
  OBVIOUS
<1>3. /\ c.active /\ ~c.unknown /\ ~IsBlank(c.repl) /\ Credited(c)
      /\ ContentsMatch(emu.cells[pos], c.repl)
  BY <1>1, <1>2, CellValidityIs
<1>4. emu.cells[pos].ch \in c.orig \/ emu.cells[pos].ch = ""
  BY <1>3 DEF Guesses
<1>5. Narrow(c.repl)
  BY DEF Guesses
<1>6. emu.cells[pos].ch = c.repl.ch
  BY <1>3 DEF ContentsMatch
<1>7. c.repl.ch # ""
  BY <1>3, <1>5 DEF IsBlank, Narrow
<1> QED  BY <1>3, <1>4, <1>6, <1>7 DEF Credited

\* Predictions are only dropped, one time after the other.
LEMMA FewerAgain ==
  ASSUME NEW p, NEW q, NEW r, Fewer(p, q), Fewer(q, r)
  PROVE  Fewer(p, r)
  BY DEF Fewer, Gone

LEMMA SameAgain ==
  ASSUME NEW p, NEW q, NEW r, SameSettings(p, q), SameSettings(q, r)
  PROVE  SameSettings(p, r)
  BY DEF SameSettings

\* One prediction is dropped, and what it confirms may be noted.
Drop(p, pos, glitch, confirmed) ==
  [p EXCEPT !.glitchTrigger = glitch, !.confirmedEpoch = confirmed,
            !.cells = [p.cells EXCEPT ![pos] = ResetCell(p.cells[pos])]]

LEMMA OneCellHas ==
  ASSUME NEW p, Sound(p), NEW pos \in Pos, NEW glitch \in 0..2 * RepairCount, NEW confirmed \in Nat,
         confirmed = p.confirmedEpoch \/ (p.cells[pos].active /\ confirmed = p.cells[pos].epoch)
  PROVE  LET q == Drop(p, pos, glitch, confirmed)
         IN  /\ Sound(q) /\ SameSettings(p, q) /\ Fewer(p, q)
             /\ q.rows = p.rows /\ q.cursors = p.cursors /\ ~q.cells[pos].active
             /\ q.confirmedEpoch = confirmed
<1> DEFINE cells == [p.cells EXCEPT ![pos] = ResetCell(p.cells[pos])]
           q == Drop(p, pos, glitch, confirmed)
<1>1. p \in Engine /\ p.cells \in [Pos -> CellPrediction] /\ p.cells[pos] \in CellPrediction
  BY DEF Sound, Engine
<1>2. Gone(p.cells[pos], ResetCell(p.cells[pos])) /\ ResetCell(p.cells[pos]) \in CellPrediction
  BY <1>1, ResetCellHas
<1>3. /\ cells \in [Pos -> CellPrediction] /\ cells[pos] = ResetCell(p.cells[pos])
      /\ \A x \in Pos : x # pos => cells[x] = p.cells[x]
  BY <1>1, <1>2
<1> HIDE DEF cells
<1>4. /\ q \in Engine /\ SameSettings(p, q) /\ q.cells = cells /\ q.rows = p.rows /\ q.cursors = p.cursors
      /\ q.confirmedEpoch = confirmed /\ q.predictionEpoch = p.predictionEpoch
  <2>1. q \in Engine
    BY <1>1, <1>3 DEF Engine, Drop, cells
  <2> QED  BY <1>1, <2>1 DEF Engine, SameSettings, Drop, cells
<1> HIDE DEF q
<1>5. Fewer(p, q) /\ ~q.cells[pos].active
  BY <1>2, <1>3, <1>4 DEF Fewer, Gone
<1>6. \A i \in DOMAIN q.cursors : SoundCursor(q, q.cursors[i])
  BY <1>4, SoundCursors DEF SoundCursor, SameSettings
<1>7. /\ confirmed <= p.predictionEpoch /\ p.predictionEpoch \in Nat
      /\ p.preference = "Experimental" => confirmed = 0
  BY DEF Sound, InEpochs, Engine
<1>8. Sound(q)
  BY <1>4, <1>5, <1>6, <1>7, FewerIsSound
<1> QED  BY <1>4, <1>5, <1>8 DEF q

\* Only time passes.
LEMMA AwaitHas ==
  ASSUME NEW p, Sound(p), NEW glitch \in 0..2 * RepairCount
  PROVE  LET q == [p EXCEPT !.glitchTrigger = glitch]
         IN  /\ Sound(q) /\ SameSettings(p, q) /\ Fewer(p, q)
             /\ q.rows = p.rows /\ q.cells = p.cells /\ q.confirmedEpoch = p.confirmedEpoch
<1> DEFINE q == [p EXCEPT !.glitchTrigger = glitch]
<1>1. p \in Engine
  BY DEF Sound
<1>2. /\ q \in Engine /\ SameSettings(p, q) /\ q.cells = p.cells /\ q.rows = p.rows /\ q.cursors = p.cursors
      /\ q.confirmedEpoch = p.confirmedEpoch /\ q.predictionEpoch = p.predictionEpoch
  BY <1>1 DEF Engine, SameSettings
<1> HIDE DEF q
<1>3. Fewer(p, q)
  BY <1>2 DEF Fewer
<1>4. Sound(q)
  BY <1>2 DEF Sound, InPlace, InEpochs, Forgetful, SameSettings
<1> QED  BY <1>2, <1>3, <1>4 DEF q

\* The frame of a prediction has not been answered.
Unanswered(p, pos) == p.cells[pos].active => p.cells[pos].frame > p.localFrameLateAcked

\* After k cells: those are judged, unless the cull has ended with a reset.
Culls == [pe : Engine, end : BOOLEAN, repaired : BOOLEAN]
CullState(p, emu, c, k) ==
  /\ c \in Culls /\ Sound(c.pe) /\ SameSettings(p, c.pe) /\ Fewer(p, c.pe)
  /\ ~c.end => c.pe.rows = p.rows /\ \A j \in 1..k : Unanswered(c.pe, CullOrder(p, emu, j))
  /\ c.end => c.pe.cursors = <<>> /\ \A pos \in Pos : ~c.pe.cells[pos].active
  /\ Guesses(p, emu) => Guesses(c.pe, emu)

\* The k-th cell is judged.
LEMMA CullStateOf ==
  ASSUME NEW p, NEW emu, NEW k \in Nat \ {0}, NEW c, CullState(p, emu, c, k - 1), ~c.end,
         \A j \in 1..k : CullOrder(p, emu, j) \in Pos,
         NEW d \in Culls, ~d.end, Sound(d.pe), SameSettings(c.pe, d.pe), Fewer(c.pe, d.pe),
         d.pe.rows = c.pe.rows, Unanswered(d.pe, CullOrder(p, emu, k)),
         Guesses(c.pe, emu) => Guesses(d.pe, emu)
  PROVE  CullState(p, emu, d, k)
<1>1. SameSettings(p, d.pe) /\ Fewer(p, d.pe) /\ d.pe.rows = p.rows
  BY FewerAgain, SameAgain DEF CullState
<1>2. ASSUME NEW j \in 1..k PROVE Unanswered(d.pe, CullOrder(p, emu, j))
  <2>1. CASE j = k
    BY <2>1
  <2>2. CASE j # k
    <3>1. j \in 1..k - 1
      BY <2>2
    <3>2. Unanswered(c.pe, CullOrder(p, emu, j)) /\ CullOrder(p, emu, j) \in Pos
      BY <3>1 DEF CullState
    <3> QED  BY <3>2 DEF Unanswered, Fewer, Gone, SameSettings
  <2> QED  BY <2>1, <2>2
<1> QED  BY <1>1, <1>2 DEF CullState

\* A prediction was wrong.
LEMMA RefuteHas ==
  ASSUME NEW p, NEW emu \in RealScreen, FitsScreen(p, emu), p.preference # "Never",
         NEW k \in Nat \ {0}, \A j \in 1..k : CullOrder(p, emu, j) \in Pos,
         NEW c, CullState(p, emu, c, k - 1), ~c.end, c.pe.cells[CullOrder(p, emu, k)].active
  PROVE  CullState(p, emu, Refute(c, CullOrder(p, emu, k), emu), k)
<1> DEFINE pos == CullOrder(p, emu, k)
           x == c.pe.cells[pos]
           d == Refute(c, pos, emu)
<1>1. /\ pos \in Pos /\ c \in Culls /\ Sound(c.pe) /\ SameSettings(p, c.pe) /\ FitsScreen(c.pe, emu)
      /\ c.pe.preference # "Never"
  BY DEF CullState, FitsScreen, SameSettings
<1> HIDE DEF pos
<1>2. x \in CellPrediction
  BY <1>1 DEF Sound, Engine
<1>3. CASE c.pe.preference = "Experimental"
  <2> DEFINE q == Drop(c.pe, pos, c.pe.glitchTrigger, c.pe.confirmedEpoch)
  <2>2. c.pe.glitchTrigger \in 0..2 * RepairCount /\ c.pe.confirmedEpoch \in Nat
    BY <1>1 DEF Sound, Engine
  <2>3. /\ Sound(q) /\ SameSettings(c.pe, q) /\ Fewer(c.pe, q) /\ q.rows = c.pe.rows
        /\ ~q.cells[pos].active /\ q.confirmedEpoch = c.pe.confirmedEpoch
    BY <1>1, <2>2, OneCellHas
  <2>4. d = [c EXCEPT !.pe = q]
    BY <1>1, <1>3 DEF Refute, Drop, Culls, Sound, Engine
  <2> HIDE DEF q
  <2>5. d \in Culls /\ d.pe = q /\ ~d.end
    BY <1>1, <2>3, <2>4 DEF Culls, Sound
  <2>6. Guesses(c.pe, emu) => Guesses(q, emu)
    BY <2>3, FewerGuesses
  <2>7. Unanswered(q, pos)
    BY <2>3 DEF Unanswered
  <2> HIDE DEF d
  <2>8. CullState(p, emu, d, k)
    BY <2>3, <2>5, <2>6, <2>7, CullStateOf DEF pos
  <2> QED  BY <2>8 DEF d, pos
<1>4. CASE c.pe.preference # "Experimental" /\ x.epoch > c.pe.confirmedEpoch
  <2> DEFINE q == KillEpoch(c.pe, x.epoch, emu)
  <2>1. /\ Sound(q) /\ SameSettings(c.pe, q) /\ Fewer(c.pe, q) /\ q.rows = c.pe.rows
        /\ q.confirmedEpoch = c.pe.confirmedEpoch /\ ~q.cells[pos].active
    <3>1. x.epoch \in Nat /\ x.epoch >= x.epoch /\ x.active /\ c.pe.preference \notin {"Never", "Experimental"}
      BY <1>1, <1>2, <1>4 DEF CellPrediction, pos
    <3> QED  BY <1>1, <3>1, KillEpochHas
  <2> HIDE DEF q
  <2>2. d = [c EXCEPT !.pe = q]
    BY <1>4 DEF Refute, q
  <2>3. d \in Culls /\ d.pe = q /\ ~d.end
    BY <1>1, <2>1, <2>2 DEF Culls, Sound
  <2>4. Guesses(c.pe, emu) => Guesses(q, emu)
    BY <2>1, FewerGuesses
  <2>5. Unanswered(q, pos)
    BY <2>1 DEF Unanswered
  <2> HIDE DEF d
  <2>6. CullState(p, emu, d, k)
    BY <2>1, <2>3, <2>4, <2>5, CullStateOf DEF pos
  <2> QED  BY <2>6 DEF d, pos
<1>5. CASE c.pe.preference # "Experimental" /\ ~(x.epoch > c.pe.confirmedEpoch)
  <2> DEFINE q == Reset(c.pe)
  <2>1. /\ Sound(q) /\ SameSettings(c.pe, q) /\ Fewer(c.pe, q)
        /\ \A y \in Pos : ~q.cells[y].active
        /\ q.cursors = <<>> /\ q.confirmedEpoch = c.pe.confirmedEpoch
    BY <1>1, ResetHas DEF Sound
  <2> HIDE DEF q
  <2>2. d = [c EXCEPT !.pe = q, !.end = TRUE]
    BY <1>5 DEF Refute, q
  <2>3. d \in Culls /\ d.pe = q /\ d.end
    BY <1>1, <2>1, <2>2 DEF Culls, Sound
  <2>4. Guesses(c.pe, emu) => Guesses(q, emu)
    BY <2>1, FewerGuesses
  <2>5. SameSettings(p, q) /\ Fewer(p, q)
    BY <1>1, <2>1, SameAgain, FewerAgain DEF CullState
  <2> HIDE DEF d
  <2>6. CullState(p, emu, d, k)
    BY <2>1, <2>3, <2>4, <2>5 DEF CullState
  <2> QED  BY <2>6 DEF d, pos
<1> QED  BY <1>3, <1>4, <1>5

\* A prediction has come true.
LEMMA ConfirmHas ==
  ASSUME NEW p, NEW emu, NEW pace,
         NEW k \in Nat \ {0}, \A j \in 1..k : CullOrder(p, emu, j) \in Pos,
         NEW c, CullState(p, emu, c, k - 1), ~c.end, c.pe.cells[CullOrder(p, emu, k)].active,
         ~Guesses(c.pe, emu)
  PROVE  CullState(p, emu, Confirm(c, CullOrder(p, emu, k), pace), k)
<1> DEFINE pos == CullOrder(p, emu, k)
           x == c.pe.cells[pos]
           d == Confirm(c, pos, pace)
           repair == pace = "quick" /\ ~c.repaired /\ c.pe.glitchTrigger > 0
           glitch == IF repair THEN c.pe.glitchTrigger - 1 ELSE c.pe.glitchTrigger
           confirmed == IF x.epoch > c.pe.confirmedEpoch THEN x.epoch ELSE c.pe.confirmedEpoch
           q == Drop(c.pe, pos, glitch, confirmed)
<1>1. pos \in Pos /\ c \in Culls /\ Sound(c.pe)
  BY DEF CullState
<1> HIDE DEF pos
<1>2. x \in CellPrediction /\ c.pe \in Engine /\ c.pe.glitchTrigger \in 0..2 * RepairCount /\ c.pe.confirmedEpoch \in Nat
  BY <1>1 DEF Sound, Engine
<1>3. glitch \in 0..2 * RepairCount /\ confirmed \in Nat
  <2>1. x.epoch \in Nat
    BY <1>2 DEF CellPrediction
  <2> QED  BY <1>2, <2>1, EngineAssumption
<1>4. confirmed = c.pe.confirmedEpoch \/ (c.pe.cells[pos].active /\ confirmed = c.pe.cells[pos].epoch)
  BY DEF pos
<1>d. d = [c EXCEPT !.repaired = c.repaired \/ repair, !.pe = q]
  BY <1>1, <1>2 DEF Confirm, Culls, Engine, Drop
<1> HIDE DEF glitch, confirmed
<1>5. /\ Sound(q) /\ SameSettings(c.pe, q) /\ Fewer(c.pe, q) /\ q.rows = c.pe.rows /\ ~q.cells[pos].active
  BY <1>1, <1>3, <1>4, OneCellHas
<1> HIDE DEF q, d
<1>6. d \in Culls /\ d.pe = q /\ ~d.end
  <2>1. c.repaired \/ repair \in BOOLEAN
    BY <1>1 DEF Culls
  <2> HIDE DEF repair
  <2> QED  BY <1>1, <1>5, <1>d, <2>1 DEF Culls, Sound
<1>7. Unanswered(q, pos)
  BY <1>5 DEF Unanswered
<1>8. CullState(p, emu, d, k)
  BY <1>5, <1>6, <1>7, CullStateOf DEF pos
<1> QED  BY <1>8 DEF d, pos

\* One step of cull.
LEMMA CullCellHas ==
  ASSUME NEW p, NEW emu \in RealScreen, FitsScreen(p, emu), p.preference # "Never", NEW pace,
         NEW k \in Nat \ {0}, \A j \in 1..k : CullOrder(p, emu, j) \in Pos,
         NEW c, CullState(p, emu, c, k - 1)
  PROVE  CullState(p, emu, CullCell(c, CullOrder(p, emu, k), emu, pace), k)
<1> DEFINE pos == CullOrder(p, emu, k)
           x == c.pe.cells[pos]
           v == CellValidity(x, pos, emu, c.pe.localFrameLateAcked)
           d == CullCell(c, pos, emu, pace)
<1>1. pos \in Pos /\ c \in Culls /\ Sound(c.pe)
  BY DEF CullState
<1>2. /\ x \in CellPrediction /\ c.pe \in Engine /\ c.pe.localFrameLateAcked \in Nat
      /\ c.pe.glitchTrigger \in 0..2 * RepairCount /\ c.pe.confirmedEpoch \in Nat
  BY <1>1 DEF Sound, Engine
<1>3. /\ v \in {"Inactive", "IncorrectOrExpired", "Pending", "CorrectNoCredit", "Correct"}
      /\ v = "Inactive" => ~x.active
      /\ v # "Inactive" => x.active
      /\ v = "Pending" => x.frame > c.pe.localFrameLateAcked
  BY <1>2, CellValidityIs
<1>4. CASE c.end
  <2>1. d = c
    BY <1>4 DEF CullCell
  <2> QED  BY <1>4, <2>1 DEF CullState
<1>5. CASE ~c.end /\ v = "IncorrectOrExpired"
  <2>1. d = Refute(c, pos, emu) /\ x.active
    BY <1>3, <1>5 DEF CullCell
  <2> QED  BY <1>5, <2>1, RefuteHas
<1>6. CASE ~c.end /\ v = "Correct"
  <2>1. d = Confirm(c, pos, pace) /\ x.active
    BY <1>3, <1>6 DEF CullCell
  <2>2. ~Guesses(c.pe, emu)
    BY <1>1, <1>2, <1>6, GuessIsNotCorrect
  <2> QED  BY <1>6, <2>1, <2>2, ConfirmHas
<1>7. CASE ~c.end /\ v = "CorrectNoCredit"
  <2> DEFINE q == Drop(c.pe, pos, c.pe.glitchTrigger, c.pe.confirmedEpoch)
  <2>1. d = [c EXCEPT !.pe.cells[pos] = ResetCell(@)]
    BY <1>7 DEF CullCell
  <2>2. /\ Sound(q) /\ SameSettings(c.pe, q) /\ Fewer(c.pe, q) /\ q.rows = c.pe.rows
        /\ ~q.cells[pos].active /\ q.confirmedEpoch = c.pe.confirmedEpoch
    BY <1>1, <1>2, OneCellHas
  <2>3. d = [c EXCEPT !.pe = q]
    <3>1. q = [c.pe EXCEPT !.cells = [c.pe.cells EXCEPT ![pos] = ResetCell(c.pe.cells[pos])]]
      BY <1>2 DEF Engine, Drop
    <3> QED  BY <1>1, <2>1, <3>1, OneCellDropped DEF Culls
  <2> HIDE DEF q
  <2>4. d \in Culls /\ d.pe = q /\ ~d.end
    BY <1>1, <1>7, <2>2, <2>3 DEF Culls, Sound
  <2>5. Guesses(c.pe, emu) => Guesses(q, emu)
    BY <2>2, FewerGuesses
  <2>6. Unanswered(q, pos)
    BY <2>2 DEF Unanswered
  <2> HIDE DEF d
  <2>7. CullState(p, emu, d, k)
    BY <1>7, <2>2, <2>4, <2>5, <2>6, CullStateOf
  <2> QED  BY <2>7 DEF d
<1>8. CASE ~c.end /\ v = "Pending"
  <2> DEFINE g == CASE pace = "stuck" -> RepairCount * 2
                    [] pace = "late" /\ c.pe.glitchTrigger < RepairCount -> RepairCount
                    [] OTHER -> c.pe.glitchTrigger
             q == [c.pe EXCEPT !.glitchTrigger = g]
  <2>1. d = [c EXCEPT !.pe = q]
    BY <1>8, <1>2 DEF CullCell, Await
  <2>2. g \in 0..2 * RepairCount
    BY <1>2, EngineAssumption
  <2> HIDE DEF g
  <2>3. /\ Sound(q) /\ SameSettings(c.pe, q) /\ Fewer(c.pe, q) /\ q.rows = c.pe.rows
        /\ q.cells = c.pe.cells /\ q.confirmedEpoch = c.pe.confirmedEpoch
    BY <1>1, <2>2, AwaitHas
  <2> HIDE DEF q
  <2>4. d \in Culls /\ d.pe = q /\ ~d.end
    BY <1>1, <1>8, <2>1, <2>3 DEF Culls, Sound
  <2>5. Guesses(c.pe, emu) => Guesses(q, emu)
    BY <2>3, FewerGuesses
  <2>6. Unanswered(q, pos)
    BY <1>3, <1>8, <2>3 DEF Unanswered, SameSettings
  <2> HIDE DEF d
  <2>7. CullState(p, emu, d, k)
    BY <1>8, <2>3, <2>4, <2>5, <2>6, CullStateOf
  <2> QED  BY <2>7 DEF d
<1>9. CASE ~c.end /\ v = "Inactive"
  <2>1. d = c
    BY <1>9 DEF CullCell
  <2>2. Unanswered(c.pe, pos)
    BY <1>3, <1>9 DEF Unanswered
  <2>3. SameSettings(c.pe, c.pe) /\ Fewer(c.pe, c.pe)
    BY DEF SameSettings, Fewer
  <2>4. CullState(p, emu, c, k)
    BY <1>1, <1>9, <2>2, <2>3, CullStateOf
  <2> QED  BY <2>1, <2>4
<1> QED  BY <1>3, <1>4, <1>5, <1>6, <1>7, <1>8, <1>9

\* f is a solution of the recursion of CullCells.
CulledBy(f, p, emu, pace, len) ==
  f = [k \in 0..len |-> IF k = 0 THEN [pe |-> p, end |-> FALSE, repaired |-> FALSE]
                        ELSE CullCell(f[k - 1], CullOrder(p, emu, k), emu, pace)]

\* There is one.
LEMMA CullIsDefined ==
  ASSUME NEW p, NEW emu, NEW pace, NEW len \in Nat
  PROVE  \E f : CulledBy(f, p, emu, pace, len)
<1> DEFINE start == [pe |-> p, end |-> FALSE, repaired |-> FALSE]
           step(c, k) == CullCell(c, CullOrder(p, emu, k), emu, pace)
           T == {n \in Nat : \E f : CulledBy(f, p, emu, pace, n)}
<1>1. 0 \in T
  <2> DEFINE g == [i \in 0..0 |-> start]
  <2>1. CulledBy(g, p, emu, pace, 0)
    BY DEF CulledBy
  <2> HIDE DEF g
  <2> QED  BY <2>1
<1>2. ASSUME NEW n \in 1..len, n - 1 \in T PROVE n \in T
  <2>1. PICK f : CulledBy(f, p, emu, pace, n - 1)
    BY <1>2
  <2>f. \A i \in 0..n - 1 : f[i] = IF i = 0 THEN start ELSE step(f[i - 1], i)
    BY <2>1, Zenon DEF CulledBy
  <2> HIDE DEF step, start
  <2> DEFINE g == [i \in 0..n |-> IF i < n THEN f[i] ELSE step(f[n - 1], n)]
  <2>2. ASSUME NEW i \in 0..n
        PROVE  g[i] = IF i = 0 THEN start ELSE step(g[i - 1], i)
    <3>1. CASE i = n
      <4>1. n # 0 /\ n - 1 \in 0..n /\ n - 1 < n
        OBVIOUS
      <4>2. g[n - 1] = f[n - 1]
        BY <4>1
      <4>3. g[n] = step(f[n - 1], n)
        OBVIOUS
      <4> QED  BY <3>1, <4>1, <4>2, <4>3
    <3>2. CASE i # n /\ i # 0
      <4>1. i \in 0..n - 1 /\ i - 1 \in 0..n - 1 /\ i < n /\ i - 1 < n /\ i - 1 \in 0..n
        BY <3>2
      <4>2. g[i] = f[i] /\ g[i - 1] = f[i - 1]
        BY <4>1
      <4>3. f[i] = step(f[i - 1], i)
        BY <2>f, <3>2, <4>1
      <4> QED  BY <3>2, <4>2, <4>3
    <3>3. CASE i # n /\ i = 0
      <4>1. f[0] = start /\ 0 \in 0..n - 1
        BY <2>f, <3>3
      <4> QED  BY <3>3, <4>1
    <3> QED  BY <3>1, <3>2, <3>3
  <2>3. g = [i \in 0..n |-> g[i]]
    OBVIOUS
  <2> HIDE DEF g
  <2>4. g = [i \in 0..n |-> IF i = 0 THEN start ELSE step(g[i - 1], i)]
    BY <2>2, <2>3
  <2>5. CulledBy(g, p, emu, pace, n)
    BY <2>4, Zenon DEF CulledBy, start, step
  <2> QED  BY <2>5
<1>3. len \in T
  <2> HIDE DEF T, step, start
  <2>1. \A i \in 1..len : i - 1 \in T => i \in T
    BY <1>2
  <2>2. \A i \in 0..len : i \in T
    BY <1>1, <2>1, UpTo
  <2> QED  BY <2>2
<1> QED  BY <1>3

\* Division by w.
LEMMA Quotient ==
  ASSUME NEW w \in Nat \ {0}, NEW k \in Nat
  PROVE  k \div w \in Int /\ k % w \in Nat /\ k % w < w /\ k = w * (k \div w) + (k % w)
  OBVIOUS

LEMMA Division ==
  ASSUME NEW w \in Nat \ {0}, NEW q \in Nat, NEW r \in Nat, r < w
  PROVE  (w * q + r) \div w = q /\ (w * q + r) % w = r
  OBVIOUS

\* Every column of every row that was made is looked at, and nothing else.
LEMMA CullOrderVisits ==
  ASSUME NEW p \in Engine, NEW emu \in RealScreen
  PROVE  /\ Len(p.rows) * emu.w \in Nat
         /\ \A k \in 1..Len(p.rows) * emu.w : CullOrder(p, emu, k) \in Pos
         /\ \A i \in DOMAIN p.rows : \A col \in 0..emu.w - 1 :
              \E k \in 1..Len(p.rows) * emu.w : CullOrder(p, emu, k) = <<p.rows[i], col>>
<1> DEFINE w == emu.w
           n == Len(p.rows)
<1>1. /\ w \in Nat \ {0} /\ w <= MaxWidth /\ n \in Nat /\ MaxWidth \in Nat /\ MaxHeight \in Nat
      /\ DOMAIN p.rows = 1..n /\ \A i \in 1..n : p.rows[i] \in 0..MaxHeight - 1
  <2>1. w \in 1..MaxWidth
    BY DEF RealScreen, Screen
  <2>2. p.rows \in Seq(0..MaxHeight - 1)
    BY DEF Engine
  <2> HIDE DEF w
  <2> QED  BY EngineAssumption, <2>1, <2>2
<1>2. n * w \in Nat
  BY <1>1
<1>3. ASSUME NEW k \in 1..n * w PROVE CullOrder(p, emu, k) \in Pos
  <2> DEFINE d == (k - 1) \div w
             r == (k - 1) % w
  <2>2. d \in Int /\ r \in Nat /\ r < w /\ k - 1 = w * d + r
    <3>1. k - 1 \in Nat
      BY <1>2
    <3> HIDE DEF w, n
    <3> QED  BY <1>1, <3>1, Quotient
  <2> HIDE DEF d, r
  <2>3. 0 <= d /\ d < n
    <3> HIDE DEF w, n
    <3>1. 0 <= w * d + r /\ w * d + r < n * w
      BY <1>1, <1>2, <2>2
    <3>2. d >= 0
      <4>1. SUFFICES ASSUME d <= -1 PROVE FALSE
        BY <2>2
      <4>2. w * d <= -w
        BY <1>1, <2>2, <4>1
      <4>3. w * d \in Int
        BY <1>1, <2>2
      <4> QED  BY <1>1, <2>2, <3>1, <4>2, <4>3
    <3>3. d < n
      <4>1. SUFFICES ASSUME d >= n PROVE FALSE
        BY <1>1, <2>2
      <4>2. w * d >= n * w
        BY <1>1, <2>2, <4>1
      <4>3. w * d \in Int /\ n * w \in Int
        BY <1>1, <2>2
      <4> QED  BY <1>1, <2>2, <3>1, <4>2, <4>3
    <3> QED  BY <3>2, <3>3
  <2>4. d + 1 \in 1..n /\ r \in 0..MaxWidth - 1
    BY <1>1, <2>2, <2>3
  <2>5. CullOrder(p, emu, k) = <<p.rows[d + 1], r>>
    BY DEF CullOrder, d, r
  <2> QED  BY <1>1, <2>4, <2>5 DEF Pos
<1>4. ASSUME NEW i \in 1..n, NEW col \in 0..w - 1
      PROVE  \E k \in 1..n * w : CullOrder(p, emu, k) = <<p.rows[i], col>>
  <2> DEFINE k == w * (i - 1) + col + 1
  <2>1. w * (i - 1) \in Nat /\ w * (i - 1) + w <= n * w /\ n * w \in Nat /\ col \in Nat /\ col < w
    <3>1. w \in Nat /\ n \in Nat /\ i \in Nat /\ 1 <= i /\ i <= n /\ col \in Nat /\ col < w
      BY <1>1
    <3> HIDE DEF w, n
    <3>2. w * (i - 1) \in Nat /\ n * w \in Nat
      BY <3>1
    <3>3. w * (i - 1) + w = w * i
      BY <3>1
    <3>4. w * i <= n * w
      BY <3>1
    <3> QED  BY <3>1, <3>2, <3>3, <3>4
  <2>2. k \in 1..n * w
    <3> HIDE DEF w, n
    <3> QED  BY <1>1, <2>1
  <2>3. (k - 1) \div w = i - 1 /\ (k - 1) % w = col
    <3>1. w \in Nat \ {0} /\ i - 1 \in Nat /\ col \in Nat /\ col < w /\ k - 1 = w * (i - 1) + col
      BY <1>1, <2>1
    <3> HIDE DEF w, n, k
    <3>2. (w * (i - 1) + col) \div w = i - 1 /\ (w * (i - 1) + col) % w = col
      BY <3>1, Division
    <3> QED  BY <3>1, <3>2
  <2>4. CullOrder(p, emu, k) = <<p.rows[i - 1 + 1], col>>
    BY <2>3 DEF CullOrder
  <2>5. i - 1 + 1 = i
    OBVIOUS
  <2> HIDE DEF k
  <2> QED  BY <2>2, <2>4, <2>5
<1> QED  BY <1>1, <1>2, <1>3, <1>4

\* The cells are culled.
LEMMA CullCellsHas ==
  ASSUME NEW p, Sound(p), NEW emu \in RealScreen, FitsScreen(p, emu), p.preference # "Never", NEW pace
  PROVE  CullState(p, emu, CullCells(p, emu, pace), Len(p.rows) * emu.w)
<1> DEFINE n == Len(p.rows) * emu.w
           rec(f) == [k \in 0..n |-> IF k = 0 THEN [pe |-> p, end |-> FALSE, repaired |-> FALSE]
                                     ELSE CullCell(f[k - 1], CullOrder(p, emu, k), emu, pace)]
           f == CHOOSE f : f = rec(f)
<1>1. p \in Engine /\ n \in Nat /\ \A k \in 1..n : CullOrder(p, emu, k) \in Pos
  BY CullOrderVisits DEF Sound
<1>2. CullCells(p, emu, pace) = f[n]
  BY DEF CullCells
<1>3. f = rec(f)
  <2>1. \E g : g = rec(g)
    <3>1. \E g : CulledBy(g, p, emu, pace, n)
      BY <1>1, CullIsDefined
    <3> QED  BY <3>1, Zenon DEF CulledBy
  <2> QED  BY <2>1, Zenon
<1> HIDE DEF f
<1>4. /\ f[0] = [pe |-> p, end |-> FALSE, repaired |-> FALSE]
      /\ \A k \in 1..n : f[k] = CullCell(f[k - 1], CullOrder(p, emu, k), emu, pace)
  <2>1. \A k \in 0..n : f[k] = IF k = 0 THEN [pe |-> p, end |-> FALSE, repaired |-> FALSE]
                               ELSE CullCell(f[k - 1], CullOrder(p, emu, k), emu, pace)
    BY <1>3, Zenon
  <2> HIDE DEF rec, n
  <2>2. 0 \in 0..n /\ \A k \in 1..n : k \in 0..n /\ k # 0
    BY <1>1
  <2> QED  BY <2>1, <2>2, Zenon
<1> HIDE DEF rec, n
<1> DEFINE T == {k \in 0..n : CullState(p, emu, f[k], k)}
<1>5. 0 \in T
  <2> DEFINE c == [pe |-> p, end |-> FALSE, repaired |-> FALSE]
  <2>1. c \in Culls /\ c.pe = p /\ ~c.end
    BY <1>1 DEF Culls
  <2> HIDE DEF c
  <2>2. CullState(p, emu, c, 0)
    BY <2>1 DEF CullState, SameSettings, Fewer
  <2> QED  BY <1>1, <1>4, <2>2 DEF c
<1>6. ASSUME NEW k \in 1..n, k - 1 \in T PROVE k \in T
  <2>1. k \in Nat \ {0} /\ k \in 0..n /\ \A j \in 1..k : CullOrder(p, emu, j) \in Pos
    BY <1>1
  <2>2. CullState(p, emu, f[k - 1], k - 1)
    BY <1>6
  <2>3. CullState(p, emu, CullCell(f[k - 1], CullOrder(p, emu, k), emu, pace), k)
    BY <2>1, <2>2, CullCellHas
  <2> QED  BY <1>4, <2>1, <2>3
<1>7. n \in T
  <2> HIDE DEF T
  <2>1. \A i \in 1..n : i - 1 \in T => i \in T
    BY <1>6
  <2>2. \A i \in 0..n : i \in T
    BY <1>1, <1>5, <2>1, UpTo
  <2> QED  BY <1>1, <2>2
<1> QED  BY <1>2, <1>7 DEF n

\* When the cells have been culled only unanswered ones are left.
LEMMA CulledCells ==
  ASSUME NEW p, Sound(p), NEW emu \in RealScreen, FitsScreen(p, emu), p.preference # "Never", NEW pace
  PROVE  \A pos \in Pos : Unanswered(CullCells(p, emu, pace).pe, pos)
<1> DEFINE c == CullCells(p, emu, pace)
<1>1. CullState(p, emu, c, Len(p.rows) * emu.w)
  BY CullCellsHas
<1> HIDE DEF c
<1>2. CASE c.end
  BY <1>1, <1>2 DEF CullState, Unanswered, c
<1>3. ASSUME ~c.end, NEW pos \in Pos, c.pe.cells[pos].active PROVE Unanswered(c.pe, pos)
  <2>1. p.cells[pos].active
    BY <1>1, <1>3 DEF CullState, Fewer, Gone
  <2>2. PICK i \in DOMAIN p.rows : p.rows[i] = pos[1]
    BY <2>1 DEF Sound, InPlace
  <2>3. pos[2] \in 0..emu.w - 1 /\ pos = <<pos[1], pos[2]>>
    <3>1. pos[2] < emu.w
      BY <2>1 DEF Sound, InPlace, FitsScreen
    <3> QED  BY <3>1 DEF Pos, RealScreen, Screen
  <2>4. PICK k \in 1..Len(p.rows) * emu.w : CullOrder(p, emu, k) = pos
    BY <2>2, <2>3, CullOrderVisits DEF Sound
  <2> QED  BY <1>1, <1>3, <2>4 DEF CullState
<1> QED  BY <1>2, <1>3 DEF Unanswered, c

-----------------------------------------------------------------------------
(* cull.                                                                   *)

\* What cull leaves alone: all settings but the size.
SameMode(p, q) ==
  /\ q.preference = p.preference /\ q.overwrite = p.overwrite
  /\ q.localFrameSent = p.localFrameSent /\ q.localFrameLateAcked = p.localFrameLateAcked
  /\ p.preference = "Experimental" => q.predictionEpoch = p.predictionEpoch

\* The engine knows the screen's size.
LEMMA ResizedHas ==
  ASSUME NEW p, Sound(p), NEW emu \in RealScreen
  PROVE  LET q == Resized(p, emu)
         IN  /\ Sound(q) /\ SameMode(p, q) /\ Fewer(p, q) /\ FitsScreen(q, emu)
             /\ q.confirmedEpoch = p.confirmedEpoch
<1> DEFINE q == Resized(p, emu)
<1>1. CASE p.height = emu.h /\ p.width = emu.w
  <2>1. q = p
    BY <1>1 DEF Resized
  <2> QED  BY <1>1, <2>1 DEF SameMode, Fewer, FitsScreen
<1>2. CASE ~(p.height = emu.h /\ p.width = emu.w)
  <2> DEFINE m == [p EXCEPT !.height = emu.h, !.width = emu.w]
  <2>1. q = Reset(m)
    BY <1>2 DEF Resized
  <2>2. emu.h \in Nat /\ emu.w \in Nat
    BY DEF RealScreen, Screen
  <2>3. p \in Engine
    BY DEF Sound
  <2>4. /\ m \in Engine /\ SameMode(p, m) /\ m.cells = p.cells /\ FitsScreen(m, emu)
        /\ m.confirmedEpoch = p.confirmedEpoch /\ m.predictionEpoch = p.predictionEpoch /\ m.cursors = p.cursors
    BY <2>2, <2>3 DEF Engine, SameMode, FitsScreen
  <2> HIDE DEF m
  <2>5. InEpochs(m)
    BY <2>4 DEF Sound, InEpochs, SameMode
  <2>6. /\ Sound(q) /\ SameSettings(m, q) /\ Fewer(m, q) /\ q.confirmedEpoch = m.confirmedEpoch
    BY <2>1, <2>4, <2>5, ResetHas
  <2> QED  BY <2>4, <2>6 DEF SameMode, SameSettings, Fewer, FitsScreen
<1> QED  BY <1>1, <1>2

\* A cursor whose frame has not been answered.
UnansweredCursors(p) == \A i \in DOMAIN p.cursors : p.cursors[i].frame > p.localFrameLateAcked

\* Other cursors that are on the screen.
LEMMA CursorsAreSound ==
  ASSUME NEW p, Sound(p), NEW cursors \in Seq(CursorPrediction),
         \A i \in DOMAIN cursors : SoundCursor(p, cursors[i])
  PROVE  LET q == [p EXCEPT !.cursors = cursors]
         IN  /\ Sound(q) /\ SameSettings(p, q) /\ q.cells = p.cells /\ q.cursors = cursors /\ q.rows = p.rows
             /\ q.predictionEpoch = p.predictionEpoch /\ q.confirmedEpoch = p.confirmedEpoch
<1> DEFINE q == [p EXCEPT !.cursors = cursors]
<1>1. /\ q \in Engine /\ SameSettings(p, q) /\ q.cursors = cursors /\ q.rows = p.rows /\ q.cells = p.cells
      /\ q.predictionEpoch = p.predictionEpoch /\ q.confirmedEpoch = p.confirmedEpoch
  BY OtherCursors DEF Sound
<1> HIDE DEF q
<1>2. Sound(q)
  BY <1>1 DEF Sound, InPlace, InEpochs, Forgetful, SameSettings, SoundCursor
<1> QED  BY <1>1, <1>2 DEF q

LEMMA CullCursorsHas ==
  ASSUME NEW p, Sound(p), NEW emu, \A pos \in Pos : Unanswered(p, pos)
  PROVE  LET q == CullCursors(p, emu)
         IN  /\ Sound(q) /\ SameSettings(p, q) /\ Fewer(p, q) /\ q.confirmedEpoch = p.confirmedEpoch
             /\ UnansweredCursors(q) /\ \A pos \in Pos : Unanswered(q, pos)
<1> DEFINE validity(i) == CursorValidity(p.cursors[i], emu, p.localFrameLateAcked)
           q == CullCursors(p, emu)
<1>1. CASE p.cursors = <<>> \/ validity(Len(p.cursors)) # "IncorrectOrExpired"
  <2> DEFINE pending == {i \in DOMAIN p.cursors : validity(i) = "Pending"}
             kept == Kept(p.cursors, pending)
  <2>1. q = [p EXCEPT !.cursors = kept]
    BY <1>1 DEF CullCursors
  <2>2. kept \in Seq(CursorPrediction) /\ \A i \in DOMAIN kept : SoundCursor(p, kept[i])
    BY KeptCursors
  <2>3. \A i \in DOMAIN kept : kept[i].frame > p.localFrameLateAcked
    <3>1. p.cursors \in Seq(CursorPrediction) /\ p.localFrameLateAcked \in Nat
      BY DEF Sound, Engine
    <3>2. ASSUME NEW j \in DOMAIN kept PROVE kept[j].frame > p.localFrameLateAcked
      <4>1. PICK i \in DOMAIN p.cursors : i \in pending /\ kept[j] = p.cursors[i]
        <5> HIDE DEF pending
        <5> QED  BY <3>1, KeptHas
      <4>2. validity(i) = "Pending" /\ p.cursors[i].frame \in Nat
        <5>1. p.cursors[i] \in CursorPrediction
          BY <3>1
        <5>2. p.cursors[i].frame \in Nat
          BY <5>1 DEF CursorPrediction
        <5> HIDE DEF validity
        <5> QED  BY <4>1, <5>2
      <4>3. p.localFrameLateAcked < p.cursors[i].frame
        BY <4>2 DEF CursorValidity
      <4> QED  BY <3>1, <4>1, <4>2, <4>3
    <3> QED  BY <3>2
  <2> HIDE DEF kept
  <2>4. /\ Sound(q) /\ SameSettings(p, q) /\ q.cells = p.cells /\ q.cursors = kept
        /\ q.confirmedEpoch = p.confirmedEpoch
    BY <2>1, <2>2, CursorsAreSound
  <2> QED  BY <2>3, <2>4 DEF Fewer, UnansweredCursors, Unanswered, SameSettings
<1>2. CASE ~(p.cursors = <<>> \/ validity(Len(p.cursors)) # "IncorrectOrExpired") /\ p.preference = "Experimental"
  <2> DEFINE none == <<>>
  <2>1. q = [p EXCEPT !.cursors = none]
    BY <1>2 DEF CullCursors
  <2>2. none \in Seq(CursorPrediction) /\ \A i \in DOMAIN none : SoundCursor(p, none[i])
    OBVIOUS
  <2> HIDE DEF none
  <2>3. /\ Sound(q) /\ SameSettings(p, q) /\ q.cells = p.cells /\ q.cursors = none
        /\ q.confirmedEpoch = p.confirmedEpoch
    BY <2>1, <2>2, CursorsAreSound
  <2> QED  BY <2>3 DEF none, Fewer, UnansweredCursors, Unanswered, SameSettings
<1>3. CASE ~(p.cursors = <<>> \/ validity(Len(p.cursors)) # "IncorrectOrExpired") /\ p.preference # "Experimental"
  <2>1. q = Reset(p)
    BY <1>3 DEF CullCursors
  <2>2. /\ Sound(q) /\ SameSettings(p, q) /\ Fewer(p, q) /\ q.cursors = <<>>
        /\ \A pos \in Pos : ~q.cells[pos].active
        /\ q.confirmedEpoch = p.confirmedEpoch
    BY <2>1, ResetHas DEF Sound
  <2> QED  BY <2>2 DEF UnansweredCursors, Unanswered
<1> QED  BY <1>1, <1>2, <1>3

\* cull: what is left is about the screen at hand and has not been answered.
LEMMA CullHas ==
  ASSUME NEW p, Sound(p), NEW emu \in RealScreen, NEW pace
  PROVE  LET q == Cull(p, emu, pace)
         IN  /\ Sound(q) /\ SameMode(p, q) /\ Fewer(p, q)
             /\ p.preference # "Never" => FitsScreen(q, emu)
             /\ UnansweredCursors(q) /\ \A pos \in Pos : Unanswered(q, pos)
             /\ Guesses(p, emu) => Guesses(q, emu)
<1> DEFINE q == Cull(p, emu, pace)
<1>1. CASE p.preference = "Never"
  <2>1. q = p
    BY <1>1 DEF Cull
  <2> QED  BY <1>1, <2>1 DEF Sound, InPlace, SameMode, Fewer, UnansweredCursors, Unanswered
<1>2. CASE p.preference # "Never"
  <2> DEFINE sized == Resized(p, emu)
             m     == [sized EXCEPT !.srttTrigger = SrttTrigger(sized)]
             after == CullCells(m, emu, pace)
  <2>1. q = IF after.end THEN after.pe ELSE CullCursors(after.pe, emu)
    BY <1>2 DEF Cull
  <2>2. /\ Sound(sized) /\ SameMode(p, sized) /\ Fewer(p, sized) /\ FitsScreen(sized, emu)
        /\ sized.confirmedEpoch = p.confirmedEpoch
    BY ResizedHas
  <2> HIDE DEF sized
  <2>3. SrttTrigger(sized) \in BOOLEAN
    BY DEF SrttTrigger
  <2>4. /\ m \in Engine /\ SameSettings(sized, m) /\ m.cells = sized.cells /\ m.cursors = sized.cursors
        /\ m.rows = sized.rows
        /\ m.confirmedEpoch = sized.confirmedEpoch /\ m.predictionEpoch = sized.predictionEpoch
    <3>1. sized \in Engine
      BY <2>2 DEF Sound
    <3> QED  BY <2>3, <3>1 DEF Engine, SameSettings
  <2> HIDE DEF m
  <2>5. /\ Sound(m) /\ SameMode(p, m) /\ Fewer(p, m) /\ FitsScreen(m, emu) /\ m.preference # "Never"
        /\ m.confirmedEpoch = p.confirmedEpoch
    BY <1>2, <2>2, <2>4
    DEF Sound, InPlace, InEpochs, Forgetful, SameSettings, SameMode, FitsScreen, Fewer
  <2>6. CullState(m, emu, after, Len(m.rows) * emu.w) /\ \A pos \in Pos : Unanswered(after.pe, pos)
    BY <2>5, CullCellsHas, CulledCells
  <2> HIDE DEF after
  <2>g. Guesses(p, emu) => Guesses(after.pe, emu)
    <3>1. ASSUME Guesses(p, emu) PROVE Guesses(m, emu)
      <4>1. Narrow(Blank)
        BY BlankIsCell
      <4> QED  BY <2>5, <3>1, <4>1 DEF Guesses, SameMode, Fewer, Gone
    <3> QED  BY <2>6, <3>1 DEF CullState
  <2>7. CASE after.end
    <3>1. q = after.pe
      BY <2>1, <2>7
    <3>2. Fewer(p, q) /\ SameMode(p, q) /\ FitsScreen(q, emu) /\ Sound(q)
      BY <2>5, <2>6, <3>1, FewerAgain DEF CullState, SameSettings, SameMode, FitsScreen
    <3>3. UnansweredCursors(q)
      BY <2>6, <2>7, <3>1 DEF CullState, UnansweredCursors
    <3> QED  BY <2>6, <2>g, <3>1, <3>2, <3>3
  <2>8. CASE ~after.end
    <3>1. q = CullCursors(after.pe, emu)
      BY <2>1, <2>8
    <3>2. /\ Sound(q) /\ SameSettings(after.pe, q) /\ Fewer(after.pe, q)
          /\ q.confirmedEpoch = after.pe.confirmedEpoch
          /\ UnansweredCursors(q) /\ \A pos \in Pos : Unanswered(q, pos)
      BY <2>6, <3>1, CullCursorsHas DEF CullState
    <3> HIDE DEF q
    <3>3. Fewer(p, q) /\ SameMode(p, q) /\ FitsScreen(q, emu)
      <4>1. Fewer(m, after.pe) /\ SameSettings(m, after.pe)
        BY <2>6 DEF CullState
      <4>2. Fewer(p, q)
        BY <2>5, <3>2, <4>1, FewerAgain
      <4> QED  BY <2>5, <3>2, <4>1, <4>2 DEF SameSettings, SameMode, FitsScreen
    <3>4. Guesses(p, emu) => Guesses(q, emu)
      BY <2>g, <3>2, FewerGuesses
    <3> QED  BY <3>2, <3>3, <3>4 DEF q
  <2> QED  BY <2>7, <2>8
<1> QED  BY <1>1, <1>2

-----------------------------------------------------------------------------
(* The handlers of what the user types.                                    *)

\* The engine when a key is handled.
Ready(p, emu) ==
  /\ Sound(p) /\ FitsScreen(p, emu) /\ p.preference # "Never"
  /\ p.preference = "Experimental" => p.predictionEpoch = 0

\* What a handler keeps: what it predicts is for the next frame.
Handled(p, q) ==
  /\ Sound(q) /\ SameSettings(p, q) /\ q.confirmedEpoch = p.confirmedEpoch
  /\ \A pos \in Pos : q.cells[pos].frame \in {p.cells[pos].frame, p.localFrameSent + 1}

LEMMA HandledAgain ==
  ASSUME NEW p, NEW q, NEW r, Handled(p, q), Handled(q, r)
  PROVE  Handled(p, r)
  BY DEF Handled, SameSettings

LEMMA ReadyAgain ==
  ASSUME NEW p, NEW emu, Ready(p, emu), NEW q, Handled(p, q)
  PROVE  Ready(q, emu)
  BY DEF Handled, Ready, SameSettings, FitsScreen

\* Guesses in two parts: what a prediction remembers is there, and it does.
Hunch(c, e)  == Narrow(c.repl) /\ (c.active /\ ~c.unknown /\ c.orig # {} => e.ch \in c.orig \/ e.ch = "")
Founded(c)   == c.active /\ ~c.unknown => c.orig # {}
Hunches(p, emu) ==
  /\ p.preference # "Experimental" /\ p.confirmedEpoch = 0
  /\ \A pos \in Pos : Narrow(emu.cells[pos]) /\ Hunch(p.cells[pos], emu.cells[pos])

LEMMA GuessesAreFounded ==
  ASSUME NEW p, NEW emu
  PROVE  Guesses(p, emu) <=> Hunches(p, emu) /\ \A pos \in Pos : Founded(p.cells[pos])
  BY DEF Guesses, Hunches, Hunch, Founded

\* A cursor of the present epoch.
LEMMA CursorAtHas ==
  ASSUME NEW p, NEW emu \in RealScreen, Ready(p, emu), NEW row \in 0..emu.h - 1, NEW col \in 0..emu.w - 1
  PROVE  CursorAt(p, row, col) \in CursorPrediction /\ SoundCursor(p, CursorAt(p, row, col))
<1>1. row \in 0..MaxHeight - 1 /\ col \in 0..MaxWidth - 1 /\ row < p.height /\ col < p.width
  BY EngineAssumption DEF RealScreen, Screen, Ready, FitsScreen
<1>2. p.predictionEpoch \in Nat /\ p.localFrameSent \in Nat
  BY DEF Ready, Sound, Engine
<1>3. p.preference # "Experimental" => p.predictionEpoch > 0
  BY DEF Ready, Sound, InEpochs
<1> QED  BY <1>1, <1>2, <1>3 DEF CursorAt, CursorPrediction, SoundCursor, Ready

\* The last cursor is on the screen.
LEMMA LastCursor ==
  ASSUME NEW p, NEW emu \in RealScreen, Ready(p, emu), p.cursors # <<>>
  PROVE  /\ Len(p.cursors) \in DOMAIN p.cursors /\ Cursor(p) = p.cursors[Len(p.cursors)]
         /\ Cursor(p) \in CursorPrediction
         /\ Cursor(p).row \in 0..emu.h - 1 /\ Cursor(p).col \in 0..emu.w - 1
<1>1. p.cursors \in Seq(CursorPrediction)
  BY DEF Ready, Sound, Engine
<1>2. Len(p.cursors) \in DOMAIN p.cursors /\ Cursor(p) = p.cursors[Len(p.cursors)]
  BY <1>1 DEF Cursor, Last
<1>3. Cursor(p) \in CursorPrediction
  BY <1>1, <1>2
<1>4. Cursor(p).row < emu.h /\ Cursor(p).col < emu.w
  BY <1>2 DEF Ready, Sound, InPlace, FitsScreen
<1>5. Cursor(p).row \in Nat /\ Cursor(p).col \in Nat
  BY <1>3, EngineAssumption DEF CursorPrediction
<1>6. emu.h \in Nat /\ emu.w \in Nat
  BY DEF RealScreen, Screen
<1> QED  BY <1>2, <1>3, <1>4, <1>5, <1>6

\* Other cursors.
LEMMA CursorsHandled ==
  ASSUME NEW p, NEW emu, Ready(p, emu), NEW cursors \in Seq(CursorPrediction),
         \A i \in DOMAIN cursors : SoundCursor(p, cursors[i])
  PROVE  LET q == [p EXCEPT !.cursors = cursors]
         IN  /\ Handled(p, q) /\ Ready(q, emu)
             /\ q.cells = p.cells /\ q.rows = p.rows /\ q.cursors = cursors
<1> DEFINE q == [p EXCEPT !.cursors = cursors]
<1>1. /\ Sound(q) /\ SameSettings(p, q) /\ q.cells = p.cells /\ q.cursors = cursors /\ q.rows = p.rows
      /\ q.predictionEpoch = p.predictionEpoch /\ q.confirmedEpoch = p.confirmedEpoch
  BY CursorsAreSound DEF Ready
<1> HIDE DEF q
<1>2. Handled(p, q)
  BY <1>1 DEF Handled
<1> QED  BY <1>1, <1>2, ReadyAgain DEF q

\* initCursor.
LEMMA InitCursorHas ==
  ASSUME NEW p, NEW emu \in RealScreen, Ready(p, emu)
  PROVE  LET q == InitCursor(p, emu)
         IN  Handled(p, q) /\ Ready(q, emu) /\ q.cells = p.cells /\ q.cursors # <<>>
<1> DEFINE q == InitCursor(p, emu)
<1>0. p.cursors \in Seq(CursorPrediction)
  BY DEF Ready, Sound, Engine
<1>1. CASE p.cursors = <<>>
  <2> DEFINE c == CursorAt(p, emu.row, emu.col)
             cursors == <<c>>
  <2>1. emu.row \in 0..emu.h - 1 /\ emu.col \in 0..emu.w - 1
    BY EngineAssumption DEF RealScreen, Screen
  <2>2. c \in CursorPrediction /\ SoundCursor(p, c)
    BY <2>1, CursorAtHas
  <2> HIDE DEF c
  <2>3. cursors \in Seq(CursorPrediction) /\ \A i \in DOMAIN cursors : SoundCursor(p, cursors[i])
    BY <2>2
  <2>4. cursors # <<>>
    OBVIOUS
  <2>5. q = [p EXCEPT !.cursors = cursors]
    BY <1>1 DEF InitCursor, c
  <2> HIDE DEF cursors
  <2> QED  BY <2>3, <2>4, <2>5, CursorsHandled
<1>2. CASE p.cursors # <<>> /\ Cursor(p).epoch # p.predictionEpoch
  <2> DEFINE c == CursorAt(p, Cursor(p).row, Cursor(p).col)
             cursors == Append(p.cursors, c)
  <2>1. Cursor(p).row \in 0..emu.h - 1 /\ Cursor(p).col \in 0..emu.w - 1
    BY <1>2, LastCursor
  <2>2. c \in CursorPrediction /\ SoundCursor(p, c)
    BY <2>1, CursorAtHas
  <2> HIDE DEF c
  <2>3. \A i \in DOMAIN p.cursors : SoundCursor(p, p.cursors[i])
    BY SoundCursors DEF Ready
  <2>4. \A i \in DOMAIN cursors : (i \in DOMAIN p.cursors /\ cursors[i] = p.cursors[i]) \/ cursors[i] = c
    BY <1>0, <2>2
  <2>5. cursors \in Seq(CursorPrediction) /\ \A i \in DOMAIN cursors : SoundCursor(p, cursors[i])
    BY <1>0, <2>2, <2>3, <2>4
  <2>6. cursors # <<>>
    BY <1>0, <2>2
  <2>7. q = [p EXCEPT !.cursors = cursors]
    BY <1>2 DEF InitCursor, c
  <2> HIDE DEF cursors
  <2> QED  BY <2>5, <2>6, <2>7, CursorsHandled
<1>3. CASE p.cursors # <<>> /\ Cursor(p).epoch = p.predictionEpoch
  <2>1. q = p
    BY <1>3 DEF InitCursor
  <2> QED  BY <1>3, <2>1 DEF Handled, SameSettings, Ready
<1> QED  BY <1>1, <1>2, <1>3

\* The last cursor is another.
LEMMA LastCursorHandled ==
  ASSUME NEW p, NEW emu \in RealScreen, Ready(p, emu), p.cursors # <<>>,
         NEW c \in CursorPrediction, SoundCursor(p, c)
  PROVE  LET q == [p EXCEPT !.cursors = [p.cursors EXCEPT ![Len(p.cursors)] = c]]
         IN  Handled(p, q) /\ Ready(q, emu) /\ q.cells = p.cells /\ q.rows = p.rows /\ q.cursors # <<>>
<1> DEFINE cursors == [p.cursors EXCEPT ![Len(p.cursors)] = c]
<1>1. p.cursors \in Seq(CursorPrediction) /\ \A i \in DOMAIN p.cursors : SoundCursor(p, p.cursors[i])
  BY SoundCursors DEF Ready, Sound, Engine
<1>2. cursors \in Seq(CursorPrediction) /\ Len(cursors) = Len(p.cursors)
  BY <1>1
<1>3. ASSUME NEW i \in DOMAIN cursors PROVE SoundCursor(p, cursors[i])
  <2>1. i \in DOMAIN p.cursors /\ (cursors[i] = c \/ cursors[i] = p.cursors[i])
    BY <1>1, <1>2
  <2> QED  BY <1>1, <2>1
<1>4. cursors # <<>>
  BY <1>1, <1>2
<1> HIDE DEF cursors
<1>5. LET q == [p EXCEPT !.cursors = cursors]
      IN  /\ Handled(p, q) /\ Ready(q, emu)
          /\ q.cells = p.cells /\ q.rows = p.rows /\ q.cursors = cursors
  BY <1>2, <1>3, CursorsHandled
<1> QED  BY <1>4, <1>5 DEF cursors

\* It moves,
LEMMA MoveCursorHas ==
  ASSUME NEW p, NEW emu \in RealScreen, Ready(p, emu), p.cursors # <<>>,
         NEW row \in 0..emu.h - 1, NEW col \in 0..emu.w - 1
  PROVE  LET q == MoveCursor(p, row, col)
         IN  Handled(p, q) /\ Ready(q, emu) /\ q.cells = p.cells /\ q.rows = p.rows /\ q.cursors # <<>>
<1> DEFINE n == Len(p.cursors)
           c == [p.cursors[n] EXCEPT !.row = row, !.col = col]
<1>1. n \in DOMAIN p.cursors /\ p.cursors[n] \in CursorPrediction
  BY LastCursor
<1>2. row \in 0..MaxHeight - 1 /\ col \in 0..MaxWidth - 1 /\ row < p.height /\ col < p.width
  BY EngineAssumption DEF RealScreen, Screen, Ready, FitsScreen
<1>3. c \in CursorPrediction
  BY <1>1, <1>2 DEF CursorPrediction
<1>4. SoundCursor(p, p.cursors[n])
  BY <1>1, SoundCursors DEF Ready
<1>5. SoundCursor(p, c)
  BY <1>1, <1>2, <1>4 DEF SoundCursor, CursorPrediction
<1>6. p \in Engine /\ p.cursors \in Seq(CursorPrediction)
  BY DEF Ready, Sound, Engine
<1>7. MoveCursor(p, row, col) = [p EXCEPT !.cursors = [p.cursors EXCEPT ![n] = c]]
  BY <1>1, <1>6 DEF MoveCursor, Engine, CursorPrediction
<1> HIDE DEF c
<1> QED  BY <1>3, <1>5, <1>7, LastCursorHandled

\* and it is for the next frame.
LEMMA ExpireCursorHas ==
  ASSUME NEW p, NEW emu \in RealScreen, Ready(p, emu), p.cursors # <<>>
  PROVE  LET q == ExpireCursor(p)
         IN  Handled(p, q) /\ Ready(q, emu) /\ q.cells = p.cells /\ q.rows = p.rows /\ q.cursors # <<>>
<1> DEFINE n == Len(p.cursors)
           c == [p.cursors[n] EXCEPT !.frame = p.localFrameSent + 1]
<1>1. n \in DOMAIN p.cursors /\ p.cursors[n] \in CursorPrediction
  BY LastCursor
<1>2. p \in Engine /\ p.cursors \in Seq(CursorPrediction) /\ p.localFrameSent + 1 \in Nat
  BY DEF Ready, Sound, Engine
<1>3. c \in CursorPrediction
  BY <1>1, <1>2 DEF CursorPrediction
<1>4. SoundCursor(p, p.cursors[n])
  BY <1>1, SoundCursors DEF Ready
<1>5. SoundCursor(p, c)
  BY <1>1, <1>4 DEF SoundCursor, CursorPrediction
<1>6. ExpireCursor(p) = [p EXCEPT !.cursors = [p.cursors EXCEPT ![n] = c]]
  BY <1>1, <1>2 DEF ExpireCursor, Engine, CursorPrediction
<1> HIDE DEF c
<1> QED  BY <1>3, <1>5, <1>6, LastCursorHandled

\* getOrMakeRow.
LEMMA GetOrMakeRowHas ==
  ASSUME NEW p, NEW emu, Ready(p, emu), NEW row \in 0..MaxHeight - 1
  PROVE  LET q == GetOrMakeRow(p, row)
         IN  /\ Handled(p, q) /\ Ready(q, emu) /\ q.cells = p.cells /\ q.cursors = p.cursors
             /\ q.predictionEpoch = p.predictionEpoch
             /\ \E i \in DOMAIN q.rows : q.rows[i] = row
<1> DEFINE q == GetOrMakeRow(p, row)
<1>1. p \in Engine /\ p.rows \in Seq(0..MaxHeight - 1)
  BY DEF Ready, Sound, Engine
<1>2. CASE \E i \in 1..Len(p.rows) : p.rows[i] = row
  <2>1. q = p
    BY <1>2 DEF GetOrMakeRow
  <2>2. \E i \in DOMAIN p.rows : p.rows[i] = row
    BY <1>1, <1>2
  <2> QED  BY <2>1, <2>2 DEF Handled, SameSettings, Ready
<1>3. CASE ~ \E i \in 1..Len(p.rows) : p.rows[i] = row
  <2> DEFINE rows == Append(p.rows, row)
  <2>1. /\ rows \in Seq(0..MaxHeight - 1) /\ Len(p.rows) + 1 \in DOMAIN rows /\ rows[Len(p.rows) + 1] = row
        /\ \A i \in DOMAIN p.rows : i \in DOMAIN rows /\ rows[i] = p.rows[i]
    BY <1>1
  <2> HIDE DEF rows
  <2>2. q = [p EXCEPT !.rows = rows]
    BY <1>3 DEF GetOrMakeRow, rows
  <2>3. /\ q \in Engine /\ SameSettings(p, q) /\ q.cells = p.cells /\ q.cursors = p.cursors /\ q.rows = rows
        /\ q.confirmedEpoch = p.confirmedEpoch /\ q.predictionEpoch = p.predictionEpoch
    BY <1>1, <2>1, <2>2 DEF Engine, SameSettings
  <2> HIDE DEF q
  <2>4. InPlace(q)
    <3>1. ASSUME NEW pos \in Pos, q.cells[pos].active
          PROVE  /\ q.preference # "Never" /\ pos[1] < q.height /\ pos[2] < q.width
                 /\ \E i \in DOMAIN q.rows : q.rows[i] = pos[1]
      BY <2>1, <2>3, <3>1 DEF Ready, Sound, InPlace, SameSettings
    <3>2. \A i \in DOMAIN q.cursors :
            q.preference # "Never" /\ q.cursors[i].row < q.height /\ q.cursors[i].col < q.width
      BY <2>3 DEF Ready, Sound, InPlace, SameSettings
    <3> QED  BY <3>1, <3>2 DEF InPlace
  <2>5. Sound(q)
    BY <2>3, <2>4 DEF Ready, Sound, InEpochs, Forgetful, SameSettings
  <2>6. Handled(p, q)
    BY <2>3, <2>5 DEF Handled
  <2> QED  BY <2>1, <2>3, <2>6, ReadyAgain DEF q
<1> QED  BY <1>2, <1>3

\* becomeTentative.
LEMMA TentativeHandled ==
  ASSUME NEW p, NEW emu, Ready(p, emu)
  PROVE  LET q == BecomeTentative(p)
         IN  Handled(p, q) /\ Ready(q, emu) /\ q.cells = p.cells /\ q.cursors = p.cursors
<1> DEFINE q == BecomeTentative(p)
<1>1. p \in Engine
  BY DEF Ready, Sound
<1>2. /\ q \in Engine /\ SameSettings(p, q) /\ q.cells = p.cells /\ q.cursors = p.cursors /\ q.rows = p.rows
      /\ q.predictionEpoch >= p.predictionEpoch /\ q.confirmedEpoch = p.confirmedEpoch
  BY <1>1, BecomeTentativeHas
<1> HIDE DEF q
<1>3. Fewer(p, q) /\ \A i \in DOMAIN q.cursors : SoundCursor(q, q.cursors[i])
  BY <1>2, SoundCursors DEF Fewer, Ready, SoundCursor, SameSettings
<1>4. /\ q.confirmedEpoch <= q.predictionEpoch
      /\ p.preference = "Experimental" => q.confirmedEpoch = 0
  <2>1. /\ p.confirmedEpoch <= p.predictionEpoch /\ p.confirmedEpoch \in Nat /\ p.predictionEpoch \in Nat
        /\ p.preference = "Experimental" => p.confirmedEpoch = 0
    BY DEF Ready, Sound, InEpochs, Engine
  <2>2. q.predictionEpoch \in Nat
    BY <1>2 DEF Engine
  <2> QED  BY <1>2, <2>1, <2>2
<1>5. Sound(q)
  BY <1>2, <1>3, <1>4, FewerIsSound DEF Ready
<1>6. Handled(p, q)
  BY <1>2, <1>5 DEF Handled
<1> QED  BY <1>2, <1>6, ReadyAgain DEF q

\* A prediction at pos that was there, or is of this epoch and for the next frame.
Touched(p, pos, c) ==
  /\ c \in CellPrediction /\ (~c.active => c.orig = {})
  /\ c.frame \in {p.cells[pos].frame, p.localFrameSent + 1}
  /\ c.active => \/ p.cells[pos].active /\ c.epoch = p.cells[pos].epoch
                 \/ /\ c.epoch = p.predictionEpoch /\ pos[1] < p.height /\ pos[2] < p.width
                    /\ \E i \in DOMAIN p.rows : p.rows[i] = pos[1]

\* Other predictions.
LEMMA CellsHandled ==
  ASSUME NEW p, NEW emu, Ready(p, emu), NEW cells, cells = [pos \in Pos |-> cells[pos]],
         \A pos \in Pos : Touched(p, pos, cells[pos])
  PROVE  LET q == [p EXCEPT !.cells = cells]
         IN  Handled(p, q) /\ Ready(q, emu) /\ q.cells = cells /\ q.cursors = p.cursors
<1> DEFINE q == [p EXCEPT !.cells = cells]
<1>0. p \in Engine /\ cells \in [Pos -> CellPrediction]
  <2>1. \A pos \in Pos : cells[pos] \in CellPrediction
    BY DEF Touched
  <2> QED  BY <2>1 DEF Ready, Sound
<1>1. /\ q \in Engine /\ SameSettings(p, q) /\ q.cells = cells /\ q.cursors = p.cursors /\ q.rows = p.rows
      /\ q.predictionEpoch = p.predictionEpoch /\ q.confirmedEpoch = p.confirmedEpoch
  BY <1>0, OtherCells
<1> HIDE DEF q
<1>2. InPlace(q)
  <2>1. \A pos \in Pos : q.cells[pos].active => pos[1] < q.height /\ pos[2] < q.width
    BY <1>1 DEF Touched, Ready, Sound, InPlace, SameSettings
  <2>2. \A pos \in Pos : q.cells[pos].active => \E i \in DOMAIN q.rows : q.rows[i] = pos[1]
    BY <1>1 DEF Touched, Ready, Sound, InPlace
  <2> QED  BY <1>1, <2>1, <2>2 DEF Ready, Sound, InPlace, SameSettings
<1>3. InEpochs(q)
  <2>1. /\ p.predictionEpoch \in Nat /\ p.confirmedEpoch <= p.predictionEpoch
        /\ p.preference = "Experimental" => p.confirmedEpoch = 0 /\ p.predictionEpoch = 0
        /\ p.preference # "Experimental" => p.predictionEpoch > 0
    BY DEF Ready, Sound, InEpochs, Engine
  <2>2. ASSUME NEW pos \in Pos, q.cells[pos].active
        PROVE  /\ q.cells[pos].epoch <= p.predictionEpoch
               /\ p.preference = "Experimental" => q.cells[pos].epoch = 0
               /\ p.preference # "Experimental" => q.cells[pos].epoch > 0
    <3>1. q.cells[pos].epoch = p.predictionEpoch \/ (p.cells[pos].active /\ q.cells[pos].epoch = p.cells[pos].epoch)
      BY <1>1, <2>2 DEF Touched
    <3> QED  BY <2>1, <3>1 DEF Ready, Sound, InEpochs
  <2> QED  BY <1>1, <2>1, <2>2 DEF Ready, Sound, InEpochs, SameSettings
<1>4. Forgetful(q)
  BY <1>1 DEF Forgetful, Touched
<1>5. Handled(p, q)
  BY <1>1, <1>2, <1>3, <1>4 DEF Handled, Sound, Touched
<1> QED  BY <1>1, <1>5, ReadyAgain DEF q

\* What is untouched.
LEMMA UntouchedIs ==
  ASSUME NEW p, Sound(p), NEW pos \in Pos
  PROVE  Touched(p, pos, p.cells[pos])
<1>1. p.cells[pos] \in CellPrediction
  BY DEF Sound, Engine
<1> QED  BY <1>1 DEF Touched, Sound, Forgetful

\* newlineCarriageReturn: rows that are predicted to be blank remember nothing.
LEMMA NewlineHas ==
  ASSUME NEW p, NEW emu \in RealScreen, Ready(p, emu)
  PROVE  LET q == NewlineCarriageReturn(p, emu)
         IN  /\ Handled(p, q) /\ Ready(q, emu) /\ q.cursors # <<>>
             /\ Hunches(p, emu) => Hunches(q, emu)
<1> DEFINE m   == InitCursor(p, emu)
           row == Cursor(m).row
           newRow(c) == [c EXCEPT !.active = TRUE, !.epoch = m.predictionEpoch,
                                  !.frame = m.localFrameSent + 1, !.repl.ch = ""]
           q == NewlineCarriageReturn(p, emu)
<1>1. Handled(p, m) /\ Ready(m, emu) /\ m.cells = p.cells /\ m.cursors # <<>>
  BY InitCursorHas
<1>q. q = IF row # emu.h - 1 THEN MoveCursor(m, row + 1, 0)
          ELSE [MoveCursor(GetOrMakeRow(m, row), row, 0) EXCEPT
                  !.cells = [pos \in Pos |-> IF pos[1] = row /\ pos[2] < emu.w THEN newRow(@[pos]) ELSE @[pos]]]
  BY DEF NewlineCarriageReturn
<1> HIDE DEF m, q
<1>2. row \in 0..emu.h - 1 /\ emu.h \in 1..MaxHeight /\ emu.w \in 1..MaxWidth
  BY <1>1, LastCursor DEF RealScreen, Screen
<1> HIDE DEF row
<1>3. 0 \in 0..emu.w - 1
  BY <1>2, EngineAssumption
<1>4. CASE row # emu.h - 1
  <2>1. q = MoveCursor(m, row + 1, 0)
    BY <1>4, <1>q
  <2>2. row + 1 \in 0..emu.h - 1
    BY <1>2, <1>4, EngineAssumption
  <2>3. Handled(m, q) /\ Ready(q, emu) /\ q.cells = m.cells /\ q.cursors # <<>>
    BY <1>1, <1>3, <2>1, <2>2, MoveCursorHas
  <2>4. Handled(p, q)
    BY <1>1, <2>3, HandledAgain
  <2>5. Hunches(p, emu) => Hunches(q, emu)
    BY <1>1, <2>3, <2>4 DEF Hunches, Handled, SameSettings
  <2> QED  BY <2>3, <2>4, <2>5 DEF q
<1>5. CASE row = emu.h - 1
  <2> DEFINE made  == GetOrMakeRow(m, row)
             moved == MoveCursor(made, row, 0)
             cells == [pos \in Pos |-> IF pos[1] = row /\ pos[2] < emu.w THEN newRow(moved.cells[pos])
                                       ELSE moved.cells[pos]]
  <2>1. q = [moved EXCEPT !.cells = cells]
    BY <1>5, <1>q
  <2>2. row \in 0..MaxHeight - 1
    BY <1>2, EngineAssumption
  <2>3. /\ Handled(m, made) /\ Ready(made, emu) /\ made.cells = m.cells /\ made.cursors # <<>>
        /\ \E i \in DOMAIN made.rows : made.rows[i] = row
        /\ made.predictionEpoch = m.predictionEpoch
    BY <1>1, <2>2, GetOrMakeRowHas
  <2> HIDE DEF made
  <2>4. /\ Handled(made, moved) /\ Ready(moved, emu) /\ moved.cells = made.cells /\ moved.rows = made.rows
        /\ moved.predictionEpoch = made.predictionEpoch /\ moved.cursors # <<>>
    <3>1. /\ Handled(made, moved) /\ Ready(moved, emu) /\ moved.cells = made.cells /\ moved.rows = made.rows
          /\ moved.cursors # <<>>
      BY <1>2, <1>3, <2>3, MoveCursorHas
    <3>2. moved.predictionEpoch = made.predictionEpoch
      BY <2>3 DEF MoveCursor, Ready, Sound, Engine
    <3> QED  BY <3>1, <3>2
  <2> HIDE DEF moved
  <2>5. Handled(p, moved) /\ moved.cells = p.cells /\ moved.localFrameSent = m.localFrameSent
    <3>1. Handled(p, made)
      BY <1>1, <2>3, HandledAgain
    <3>2. Handled(p, moved)
      BY <2>4, <3>1, HandledAgain
    <3> QED  BY <1>1, <2>3, <2>4, <3>2 DEF Handled, SameSettings
  <2>6. ASSUME NEW pos \in Pos PROVE Touched(moved, pos, cells[pos])
    <3>1. Sound(moved) /\ moved.cells[pos] \in CellPrediction
      BY <2>4 DEF Ready, Sound, Engine
    <3>2. CASE ~(pos[1] = row /\ pos[2] < emu.w)
      BY <3>1, <3>2, UntouchedIs
    <3>3. CASE pos[1] = row /\ pos[2] < emu.w
      <4> DEFINE c == newRow(moved.cells[pos])
      <4>1. cells[pos] = c
        BY <3>3
      <4>2. m.predictionEpoch \in Nat /\ m.localFrameSent + 1 \in Nat
        BY <1>1 DEF Ready, Sound, Engine
      <4>3. [moved.cells[pos].repl EXCEPT !.ch = ""] \in Cell
        BY <3>1, PredictionAssumption DEF CellPrediction, Cell
      <4>4. /\ c \in CellPrediction /\ c.active /\ c.frame = moved.localFrameSent + 1
            /\ c.epoch = moved.predictionEpoch
        BY <2>3, <2>4, <2>5, <3>1, <4>2, <4>3 DEF CellPrediction
      <4> HIDE DEF c, cells
      <4>5. pos[1] < moved.height /\ pos[2] < moved.width
        BY <1>2, <2>4, <3>3, EngineAssumption DEF Ready, FitsScreen
      <4>6. \E i \in DOMAIN moved.rows : moved.rows[i] = pos[1]
        BY <2>3, <2>4, <3>3
      <4> QED  BY <4>1, <4>4, <4>5, <4>6 DEF Touched
    <3> QED  BY <3>2, <3>3
  <2>7. ASSUME Hunches(p, emu), NEW pos \in Pos PROVE Hunch(cells[pos], emu.cells[pos])
    <3>1. Hunch(moved.cells[pos], emu.cells[pos])
      BY <2>5, <2>7 DEF Hunches
    <3>2. ~moved.cells[pos].active => moved.cells[pos].orig = {}
      BY <2>4 DEF Ready, Sound, Forgetful
    <3>3. moved.cells[pos] \in CellPrediction
      BY <2>4 DEF Ready, Sound, Engine
    <3>4. CASE ~(pos[1] = row /\ pos[2] < emu.w)
      BY <3>1, <3>4
    <3>5. CASE pos[1] = row /\ pos[2] < emu.w
      <4> DEFINE c == newRow(moved.cells[pos])
      <4>1. cells[pos] = c
        BY <3>5
      <4>2. /\ c.repl.wide = moved.cells[pos].repl.wide /\ c.repl.cont = moved.cells[pos].repl.cont
            /\ c.orig = moved.cells[pos].orig /\ c.unknown = moved.cells[pos].unknown
        BY <3>3 DEF CellPrediction, Cell
      <4> HIDE DEF c
      <4> QED  BY <3>1, <3>2, <4>1, <4>2 DEF Hunch, Narrow
    <3> QED  BY <3>4, <3>5
  <2>8. cells = [pos \in Pos |-> cells[pos]]
    OBVIOUS
  <2> HIDE DEF cells
  <2>9. Handled(moved, q) /\ Ready(q, emu) /\ q.cells = cells /\ q.cursors = moved.cursors
    BY <2>1, <2>4, <2>6, <2>8, CellsHandled
  <2>10. Handled(p, q)
    BY <2>5, <2>9, HandledAgain
  <2>11. Hunches(p, emu) => Hunches(q, emu)
    BY <2>7, <2>9, <2>10 DEF Hunches, Handled, SameSettings
  <2> QED  BY <2>4, <2>9, <2>10, <2>11 DEF q
<1> QED  BY <1>4, <1>5 DEF q

\* A prediction d that is made anew remembers what was there.
Anew(p, c, there, d) ==
  /\ d \in CellPrediction /\ d.active /\ ~d.unknown /\ d.repl = c.repl
  /\ d.epoch = p.predictionEpoch /\ d.frame = p.localFrameSent + 1
  /\ d.orig = IF ~c.active \/ c.unknown THEN {there} ELSE c.orig \cup {c.repl.ch}

LEMMA PredictHas ==
  ASSUME NEW p \in Engine, NEW c \in CellPrediction, NEW there \in Graphemes
  PROVE  Anew(p, c, there, Predict(p, c, there))
<1> DEFINE q == ResetWithOrig(c)
           orig == IF ~c.active \/ c.unknown THEN {} ELSE c.orig \cup {c.repl.ch}
           d == Predict(p, c, there)
<1>1. c.repl \in Cell /\ c.orig \in SUBSET Graphemes /\ c.repl.ch \in Graphemes
  BY DEF CellPrediction, Cell
<1>2. /\ q = [active |-> FALSE, epoch |-> 0, frame |-> 0, unknown |-> FALSE, repl |-> c.repl, orig |-> orig]
  BY DEF ResetWithOrig, ResetCell, Inactive
<1>3. p.predictionEpoch \in Nat /\ p.localFrameSent + 1 \in Nat
  BY DEF Engine
<1> HIDE DEF orig
<1>4. d = [active |-> TRUE, epoch |-> p.predictionEpoch, frame |-> p.localFrameSent + 1, unknown |-> FALSE,
           repl |-> c.repl, orig |-> IF orig = {} THEN {there} ELSE orig]
  <2>1. d = [q EXCEPT !.active = TRUE, !.epoch = p.predictionEpoch, !.frame = p.localFrameSent + 1,
                      !.orig = IF q.orig = {} THEN {there} ELSE q.orig]
    BY DEF Predict
  <2> HIDE DEF q, d
  <2> QED  BY <1>2, <2>1
<1>5. (IF orig = {} THEN {there} ELSE orig) = IF ~c.active \/ c.unknown THEN {there} ELSE c.orig \cup {c.repl.ch}
  BY DEF orig
<1>6. orig \in SUBSET Graphemes
  BY <1>1 DEF orig
<1> HIDE DEF d
<1>7. d \in CellPrediction
  BY <1>1, <1>3, <1>4, <1>6 DEF CellPrediction
<1> QED  BY <1>4, <1>5, <1>7 DEF Anew, d

\* It is not confirmed by what is there.
LEMMA PredictGuesses ==
  ASSUME NEW p \in Engine, NEW c \in CellPrediction, NEW e \in Cell, Hunch(c, e), Founded(c)
  PROVE  Hunch(Predict(p, c, e.ch), e) /\ Founded(Predict(p, c, e.ch))
<1> DEFINE d == Predict(p, c, e.ch)
<1>1. e.ch \in Graphemes
  BY DEF Cell
<1>2. /\ d.repl = c.repl
      /\ d.orig = IF ~c.active \/ c.unknown THEN {e.ch} ELSE c.orig \cup {c.repl.ch}
  <2>1. Anew(p, c, e.ch, d)
    BY <1>1, PredictHas
  <2> HIDE DEF d
  <2> QED  BY <2>1 DEF Anew
<1> HIDE DEF d
<1> QED  BY <1>2 DEF Hunch, Founded, d

\* Another replacement that is narrow as well.
LEMMA ReplacedGuesses ==
  ASSUME NEW c \in CellPrediction, NEW e, Hunch(c, e), Founded(c), NEW x, Narrow(x), NEW unknown \in BOOLEAN
  PROVE  LET d == [c EXCEPT !.repl = x, !.unknown = c.unknown \/ unknown] IN Hunch(d, e) /\ Founded(d)
  BY DEF Hunch, Founded, CellPrediction

\* Keys that are glyphs.
Glyphs == {key \in GlyphKey : key.kind = "glyph"}

\* The prediction in column i when the rest of the row moves.
LEMMA ShiftedHas ==
  ASSUME NEW p, NEW emu \in RealScreen, Ready(p, emu), NEW w \in {1, 2},
         NEW row \in 0..emu.h - 1, NEW col \in 0..emu.w - 1, NEW i \in col..emu.w - 1,
         \E j \in DOMAIN p.rows : p.rows[j] = row
  PROVE  LET d == Shifted(p, emu, row, col, w, i)
         IN  /\ Touched(p, <<row, i>>, d)
             /\ Guesses(p, emu) => Hunch(d, emu.cells[<<row, i>>]) /\ Founded(d)
<1> DEFINE pos  == <<row, i>>
           left == <<row, i - w>>
           c == p.cells[pos]
           e == emu.cells[pos]
           b == Predict(p, c, e.ch)
           d == Shifted(p, emu, row, col, w, i)
<1>0. emu.h \in 1..MaxHeight /\ emu.w \in 1..MaxWidth
  BY DEF RealScreen, Screen
<1>1. pos \in Pos /\ pos[1] = row /\ pos[2] = i /\ row < p.height /\ i < p.width
  BY <1>0, EngineAssumption DEF Pos, Ready, FitsScreen
<1>2. c \in CellPrediction /\ e \in Cell /\ e.ch \in Graphemes /\ p \in Engine
  <2>1. e \in Cell
    BY <1>1 DEF RealScreen, Screen
  <2> QED  BY <1>1, <2>1 DEF Ready, Sound, Engine, Cell
<1>3. /\ b \in CellPrediction /\ b.active /\ b.epoch = p.predictionEpoch /\ b.frame = p.localFrameSent + 1
      /\ ~b.unknown
  <2>1. Anew(p, c, e.ch, b)
    <3> HIDE DEF c, e
    <3> QED  BY <1>2, PredictHas
  <2> HIDE DEF b
  <2> QED  BY <2>1 DEF Anew
<1>4. Guesses(p, emu) => Hunch(b, e) /\ Founded(b)
  <2>1. Guesses(p, emu) => Hunch(c, e) /\ Founded(c)
    BY <1>1, GuessesAreFounded DEF Hunches
  <2> QED  BY <1>2, <2>1, PredictGuesses
<1>d. d = IF i - w < col THEN b
          ELSE IF i = emu.w - 1 \/ (p.cells[left].active /\ p.cells[left].unknown)
          THEN [b EXCEPT !.unknown = TRUE]
          ELSE [b EXCEPT !.repl = IF p.cells[left].active THEN p.cells[left].repl ELSE emu.cells[left]]
  BY DEF Shifted
<1> DEFINE New(x) == /\ x \in CellPrediction /\ x.active /\ x.epoch = p.predictionEpoch
                     /\ x.frame = p.localFrameSent + 1
                     /\ Guesses(p, emu) => Hunch(x, e) /\ Founded(x)
<1> HIDE DEF b, d, c, e, pos
<1>5. CASE i - w < col
  <2>1. d = b
    BY <1>5, <1>d
  <2> QED  BY <1>1, <1>3, <1>4, <2>1 DEF Touched, d, e, pos
<1>6. CASE ~(i - w < col) /\ (i = emu.w - 1 \/ (p.cells[left].active /\ p.cells[left].unknown))
  <2>1. d = [b EXCEPT !.unknown = TRUE]
    BY <1>6, <1>d
  <2>2. New(d)
    <3>1. /\ d \in CellPrediction /\ d.active /\ d.epoch = p.predictionEpoch
          /\ d.frame = p.localFrameSent + 1 /\ d.unknown /\ d.repl = b.repl
      BY <1>3, <2>1 DEF CellPrediction
    <3> QED  BY <1>4, <3>1 DEF Hunch, Founded
  <2> QED  BY <1>1, <2>2 DEF Touched, d, e, pos
<1>7. CASE ~(i - w < col) /\ ~(i = emu.w - 1 \/ (p.cells[left].active /\ p.cells[left].unknown))
  <2> DEFINE x == IF p.cells[left].active THEN p.cells[left].repl ELSE emu.cells[left]
  <2>1. d = [b EXCEPT !.repl = x]
    BY <1>7, <1>d
  <2>2. left \in Pos
    <3>1. i - w \in 0..MaxWidth - 1
      BY <1>0, <1>7, EngineAssumption
    <3> QED  BY <1>0, <3>1, EngineAssumption DEF Pos
  <2>3. x \in Cell
    <3>1. p.cells[left] \in CellPrediction /\ emu.cells[left] \in Cell
      BY <2>2 DEF Ready, Sound, Engine, RealScreen, Screen
    <3> QED  BY <3>1 DEF CellPrediction
  <2>4. Guesses(p, emu) => Narrow(x)
    BY <2>2 DEF Guesses
  <2> HIDE DEF x, left
  <2>5. New(d)
    <3>1. /\ d \in CellPrediction /\ d.active /\ d.epoch = p.predictionEpoch
          /\ d.frame = p.localFrameSent + 1 /\ d.repl = x /\ d.orig = b.orig /\ d.unknown = b.unknown
      BY <1>3, <2>1, <2>3 DEF CellPrediction
    <3> QED  BY <1>3, <1>4, <2>4, <3>1 DEF Hunch, Founded
  <2> QED  BY <1>1, <2>5 DEF Touched, d, e, pos
<1> QED  BY <1>5, <1>6, <1>7 DEF d, e, pos

\* The glyph itself.
LEMMA GlyphHas ==
  ASSUME NEW p, NEW emu \in RealScreen, Ready(p, emu), NEW key \in Glyphs,
         NEW row \in 0..emu.h - 1, NEW col \in 0..emu.w - 1,
         \E j \in DOMAIN p.rows : p.rows[j] = row
  PROVE  LET d == [Predict(p, p.cells[<<row, col>>], emu.cells[<<row, col>>].ch) EXCEPT
                     !.repl.ch = key.ch, !.repl.wide = @ \/ key.w = 2]
         IN  /\ Touched(p, <<row, col>>, d)
             /\ Guesses(p, emu) /\ key.w = 1 => Hunch(d, emu.cells[<<row, col>>]) /\ Founded(d)
<1> DEFINE pos == <<row, col>>
           c == p.cells[pos]
           e == emu.cells[pos]
           b == Predict(p, c, e.ch)
           x == [ch |-> key.ch, wide |-> b.repl.wide \/ key.w = 2, cont |-> b.repl.cont]
           d == [b EXCEPT !.repl.ch = key.ch, !.repl.wide = @ \/ key.w = 2]
<1>0. emu.h \in 1..MaxHeight /\ emu.w \in 1..MaxWidth
  BY DEF RealScreen, Screen
<1>1. pos \in Pos /\ pos[1] = row /\ pos[2] = col /\ row < p.height /\ col < p.width
  BY <1>0, EngineAssumption DEF Pos, Ready, FitsScreen
<1>2. c \in CellPrediction /\ e \in Cell /\ e.ch \in Graphemes /\ p \in Engine
  <2>1. e \in Cell
    BY <1>1 DEF RealScreen, Screen
  <2> QED  BY <1>1, <2>1 DEF Ready, Sound, Engine, Cell
<1>3. /\ b \in CellPrediction /\ b.active /\ b.epoch = p.predictionEpoch /\ b.frame = p.localFrameSent + 1
      /\ b.repl = c.repl
  <2>1. Anew(p, c, e.ch, b)
    <3> HIDE DEF c, e
    <3> QED  BY <1>2, PredictHas
  <2> HIDE DEF b
  <2> QED  BY <2>1 DEF Anew
<1>4. Guesses(p, emu) => Hunch(b, e) /\ Founded(b)
  <2>1. Guesses(p, emu) => Hunch(c, e) /\ Founded(c)
    BY <1>1, GuessesAreFounded DEF Hunches
  <2> QED  BY <1>2, <2>1, PredictGuesses
<1>k. key.ch \in Graphemes /\ key.w \in {1, 2}
  BY DEF Glyphs, GlyphKey
<1> HIDE DEF b, c, e, pos
<1>5. /\ d \in CellPrediction /\ d.active /\ d.epoch = p.predictionEpoch /\ d.frame = p.localFrameSent + 1
      /\ d.unknown = b.unknown /\ d.orig = b.orig /\ d.repl = x
  BY <1>3, <1>k DEF CellPrediction, Cell
<1>6. Guesses(p, emu) /\ key.w = 1 => Hunch(d, e) /\ Founded(d)
  <2>1. ASSUME Guesses(p, emu), key.w = 1 PROVE Narrow(x)
    <3>1. Narrow(b.repl)
      BY <1>4, <2>1 DEF Hunch
    <3>2. ~(key.w = 2)
      BY <2>1
    <3> QED  BY <3>1, <3>2 DEF Narrow
  <2> HIDE DEF x, d
  <2> QED  BY <1>3, <1>4, <1>5, <2>1 DEF Hunch, Founded
<1> QED  BY <1>1, <1>5, <1>6 DEF Touched, pos, e, b, c

\* The row into which the glyph is inserted.
LEMMA InsertGlyphHas ==
  ASSUME NEW p, NEW emu \in RealScreen, Ready(p, emu), NEW key \in Glyphs,
         NEW row \in 0..emu.h - 1, NEW col \in 0..emu.w - 1,
         \E j \in DOMAIN p.rows : p.rows[j] = row
  PROVE  LET q == [p EXCEPT !.cells = InsertGlyph(p, emu, key, row, col)]
         IN  /\ Handled(p, q) /\ Ready(q, emu) /\ q.cursors = p.cursors
             /\ Guesses(p, emu) /\ key.w = 1 => Guesses(q, emu)
<1> DEFINE here  == <<row, col>>
           glyph == [Predict(p, p.cells[here], emu.cells[here].ch) EXCEPT
                       !.repl.ch = key.ch, !.repl.wide = @ \/ key.w = 2]
           rest  == IF p.overwrite THEN {} ELSE {row} \X (col + 1..emu.w - 1)
           moved(pos) == IF pos = here THEN glyph
                         ELSE IF pos \in rest THEN Shifted(p, emu, row, col, key.w, pos[2])
                         ELSE p.cells[pos]
           cells == InsertGlyph(p, emu, key, row, col)
           q == [p EXCEPT !.cells = cells]
<1>0. emu.h \in 1..MaxHeight /\ emu.w \in 1..MaxWidth /\ key.w \in {1, 2}
  BY DEF RealScreen, Screen, Glyphs, GlyphKey
<1>1. cells = [pos \in Pos |-> IF key.w = 2 /\ pos = <<row, col + 1>>
                               THEN [moved(pos) EXCEPT !.repl.cont = TRUE] ELSE moved(pos)]
  BY DEF InsertGlyph
<1>2. ASSUME NEW pos \in Pos
      PROVE  /\ Touched(p, pos, moved(pos))
             /\ Guesses(p, emu) /\ key.w = 1 => Hunch(moved(pos), emu.cells[pos]) /\ Founded(moved(pos))
  <2>1. CASE pos = here
    <3>1. moved(pos) = glyph
      BY <2>1
    <3>2. /\ Touched(p, here, glyph)
          /\ Guesses(p, emu) /\ key.w = 1 => Hunch(glyph, emu.cells[here]) /\ Founded(glyph)
      BY GlyphHas
    <3> HIDE DEF glyph, moved, here
    <3> QED  BY <2>1, <3>1, <3>2
  <2>2. CASE pos # here /\ pos \in rest
    <3> DEFINE d == Shifted(p, emu, row, col, key.w, pos[2])
    <3>1. moved(pos) = d
      BY <2>2
    <3>2. pos[2] \in col..emu.w - 1 /\ pos = <<row, pos[2]>>
      BY <2>2
    <3>3. /\ Touched(p, <<row, pos[2]>>, d)
          /\ Guesses(p, emu) => Hunch(d, emu.cells[<<row, pos[2]>>]) /\ Founded(d)
      BY <1>0, <3>2, ShiftedHas
    <3> HIDE DEF d, moved
    <3> QED  BY <3>1, <3>2, <3>3
  <2>3. CASE pos # here /\ pos \notin rest
    <3>1. moved(pos) = p.cells[pos]
      BY <2>3
    <3>2. Touched(p, pos, p.cells[pos])
      BY UntouchedIs DEF Ready
    <3>3. Guesses(p, emu) => Hunch(p.cells[pos], emu.cells[pos]) /\ Founded(p.cells[pos])
      BY GuessesAreFounded DEF Hunches
    <3> HIDE DEF moved
    <3> QED  BY <3>1, <3>2, <3>3
  <2> QED  BY <2>1, <2>2, <2>3
<1> HIDE DEF moved, cells
<1>3. ASSUME NEW pos \in Pos PROVE Touched(p, pos, cells[pos])
  <2>1. CASE key.w = 2 /\ pos = <<row, col + 1>>
    <3> DEFINE c == moved(pos)
               d == [c EXCEPT !.repl.cont = TRUE]
    <3>1. cells[pos] = d
      BY <1>1, <2>1
    <3>2. Touched(p, pos, c)
      BY <1>2
    <3> HIDE DEF c
    <3>3. /\ d \in CellPrediction /\ d.active = c.active /\ d.epoch = c.epoch /\ d.frame = c.frame
          /\ d.orig = c.orig
      BY <3>2 DEF Touched, CellPrediction, Cell
    <3> HIDE DEF d
    <3> QED  BY <3>1, <3>2, <3>3 DEF Touched
  <2>2. CASE ~(key.w = 2 /\ pos = <<row, col + 1>>)
    <3>1. cells[pos] = moved(pos)
      BY <1>1, <2>2
    <3> QED  BY <1>2, <3>1
  <2> QED  BY <2>1, <2>2
<1>4. cells = [pos \in Pos |-> cells[pos]]
  BY <1>1
<1>5. Handled(p, q) /\ Ready(q, emu) /\ q.cells = cells /\ q.cursors = p.cursors
  BY <1>3, <1>4, CellsHandled
<1>6. ASSUME Guesses(p, emu), key.w = 1 PROVE Guesses(q, emu)
  <2>1. \A pos \in Pos : cells[pos] = moved(pos)
    BY <1>1, <1>6
  <2>2. \A pos \in Pos : Hunch(cells[pos], emu.cells[pos]) /\ Founded(cells[pos])
    BY <1>2, <1>6, <2>1
  <2>3. Hunches(p, emu)
    BY <1>6, GuessesAreFounded
  <2>4. Hunches(q, emu)
    BY <1>5, <2>2, <2>3 DEF Hunches, Handled, SameSettings
  <2>5. \A pos \in Pos : Founded(q.cells[pos])
    BY <1>5, <2>2
  <2> HIDE DEF q
  <2> QED  BY <2>4, <2>5, GuessesAreFounded
<1> QED  BY <1>5, <1>6 DEF cells

\* The guesses of a handler that leaves the cells alone.
LEMMA SameCellsGuess ==
  ASSUME NEW p, NEW q, NEW emu, Handled(p, q), q.cells = p.cells, Guesses(p, emu)
  PROVE  Guesses(q, emu)
  BY DEF Guesses, Handled, SameSettings

\* Predictions of a handler that is well founded.
LEMMA FoundedGuess ==
  ASSUME NEW q, NEW emu, Hunches(q, emu), \A pos \in Pos : Founded(q.cells[pos])
  PROVE  Guesses(q, emu)
  BY GuessesAreFounded

\* Where the glyph will be: only a wide one can need a newline first.
LEMMA AtMarginHas ==
  ASSUME NEW p, NEW emu \in RealScreen, Ready(p, emu), p.cursors # <<>>, NEW key \in Glyphs
  PROVE  LET q == AtMargin(p, emu, key)
         IN  /\ Handled(p, q) /\ Ready(q, emu) /\ q.cursors # <<>>
             /\ Guesses(p, emu) /\ key.w = 1 => Guesses(q, emu)
<1> DEFINE q == AtMargin(p, emu, key)
           tentative == BecomeTentative(p)
<1>1. /\ Handled(p, tentative) /\ Ready(tentative, emu) /\ tentative.cells = p.cells
      /\ tentative.cursors = p.cursors
  BY TentativeHandled
<1> HIDE DEF tentative
<1>2. CASE Cursor(p).col + key.w < emu.w
  <2>1. q = p
    BY <1>2 DEF AtMargin
  <2>2. Handled(p, p)
    BY DEF Handled, Ready, SameSettings
  <2> QED  BY <2>1, <2>2
<1>3. CASE ~(Cursor(p).col + key.w < emu.w) /\ key.w = 2 /\ Cursor(p).col = emu.w - 1
  <2>1. q = NewlineCarriageReturn(tentative, emu)
    BY <1>3 DEF AtMargin, tentative
  <2>2. Handled(tentative, q) /\ Ready(q, emu) /\ q.cursors # <<>>
    BY <1>1, <2>1, NewlineHas
  <2>3. Handled(p, q)
    BY <1>1, <2>2, HandledAgain
  <2> QED  BY <1>3, <2>2, <2>3
<1>4. CASE ~(Cursor(p).col + key.w < emu.w) /\ ~(key.w = 2 /\ Cursor(p).col = emu.w - 1)
  <2>1. q = tentative
    BY <1>4 DEF AtMargin, tentative
  <2> QED  BY <1>1, <2>1, SameCellsGuess
<1> QED  BY <1>2, <1>3, <1>4

\* What a handler may have predicted, when what was predicted is well founded.
Guessing(p, q, emu) ==
  Guesses(p, emu) /\ (\A pos \in Pos : Founded(q.cells[pos])) => Guesses(q, emu)

\* handleUserGrapheme.
LEMMA HandleUserGraphemeHas ==
  ASSUME NEW p, NEW emu \in RealScreen, Ready(p, emu), NEW key \in Glyphs
  PROVE  LET q == HandleUserGrapheme(p, emu, key)
         IN  Handled(p, q) /\ (key.w = 1 => Guessing(p, q, emu))
<1> DEFINE init == InitCursor(p, emu)
           m    == AtMargin(init, emu, key)
           row  == Cursor(m).row
           col  == Cursor(m).col
           made == GetOrMakeRow(m, row)
           with == [made EXCEPT !.cells = InsertGlyph(made, emu, key, row, col)]
           next == ExpireCursor(with)
           q == HandleUserGrapheme(p, emu, key)
<1>q. q = IF col < emu.w - key.w THEN MoveCursor(next, row, col + key.w)
          ELSE NewlineCarriageReturn(BecomeTentative(next), emu)
  BY DEF HandleUserGrapheme
<1>1. /\ Handled(p, init) /\ Ready(init, emu) /\ init.cursors # <<>>
      /\ Guesses(p, emu) => Guesses(init, emu)
  BY InitCursorHas, SameCellsGuess
<1> HIDE DEF init
<1>2. /\ Handled(init, m) /\ Ready(m, emu) /\ m.cursors # <<>>
      /\ Guesses(init, emu) /\ key.w = 1 => Guesses(m, emu)
  BY <1>1, AtMarginHas
<1> HIDE DEF m
<1>3. row \in 0..emu.h - 1 /\ col \in 0..emu.w - 1 /\ row \in 0..MaxHeight - 1
  <2>1. row \in 0..emu.h - 1 /\ col \in 0..emu.w - 1
    BY <1>2, LastCursor
  <2> HIDE DEF row, col
  <2> QED  BY <2>1, EngineAssumption DEF RealScreen, Screen
<1> HIDE DEF row, col
<1>4. /\ Handled(m, made) /\ Ready(made, emu) /\ made.cells = m.cells /\ made.cursors # <<>>
      /\ \E i \in DOMAIN made.rows : made.rows[i] = row
      /\ Guesses(m, emu) => Guesses(made, emu)
  BY <1>2, <1>3, GetOrMakeRowHas, SameCellsGuess
<1> HIDE DEF made
<1>5. /\ Handled(made, with) /\ Ready(with, emu) /\ with.cursors # <<>>
      /\ Guesses(made, emu) /\ key.w = 1 => Guesses(with, emu)
  BY <1>3, <1>4, InsertGlyphHas
<1> HIDE DEF with
<1>6. /\ Handled(with, next) /\ Ready(next, emu) /\ next.cursors # <<>> /\ next.cells = with.cells
      /\ Guesses(with, emu) => Guesses(next, emu)
  BY <1>5, ExpireCursorHas, SameCellsGuess
<1> HIDE DEF next
<1>7. Handled(p, next) /\ (Guesses(p, emu) /\ key.w = 1 => Guesses(next, emu))
  <2>1. Handled(p, m)
    BY <1>1, <1>2, HandledAgain
  <2>2. Handled(p, made)
    BY <1>4, <2>1, HandledAgain
  <2>3. Handled(p, with)
    BY <1>5, <2>2, HandledAgain
  <2>4. Handled(p, next)
    BY <1>6, <2>3, HandledAgain
  <2> QED  BY <1>1, <1>2, <1>4, <1>5, <1>6, <2>4
<1>8. CASE col < emu.w - key.w
  <2>1. q = MoveCursor(next, row, col + key.w)
    BY <1>8, <1>q
  <2>2. col + key.w \in 0..emu.w - 1
    <3>1. key.w \in {1, 2} /\ emu.w \in 1..MaxWidth
      BY DEF Glyphs, GlyphKey, RealScreen, Screen
    <3> QED  BY <1>3, <1>8, <3>1, EngineAssumption
  <2>3. Handled(next, q) /\ q.cells = next.cells
    BY <1>3, <1>6, <2>1, <2>2, MoveCursorHas
  <2>4. Handled(p, q)
    BY <1>7, <2>3, HandledAgain
  <2>5. Guesses(next, emu) => Guesses(q, emu)
    BY <2>3, SameCellsGuess
  <2> QED  BY <1>7, <2>4, <2>5 DEF Guessing, q
<1>9. CASE ~(col < emu.w - key.w)
  <2> DEFINE t == BecomeTentative(next)
  <2>1. q = NewlineCarriageReturn(t, emu)
    BY <1>9, <1>q
  <2>2. Handled(next, t) /\ Ready(t, emu) /\ t.cells = next.cells
    BY <1>6, TentativeHandled
  <2> HIDE DEF t
  <2>3. Handled(t, q) /\ (Hunches(t, emu) => Hunches(q, emu))
    BY <2>1, <2>2, NewlineHas
  <2>4. Handled(p, t)
    BY <1>7, <2>2, HandledAgain
  <2>5. Handled(p, q)
    BY <2>3, <2>4, HandledAgain
  <2>6. Guesses(next, emu) => Hunches(q, emu)
    BY <2>2, <2>3, SameCellsGuess, GuessesAreFounded
  <2> HIDE DEF q
  <2>7. key.w = 1 => Guessing(p, q, emu)
    BY <1>7, <2>6, FoundedGuess DEF Guessing
  <2> QED  BY <2>5, <2>7 DEF q
<1> QED  BY <1>8, <1>9

\* The arrows only move the cursor.
LEMMA CursorForwardHas ==
  ASSUME NEW p, NEW emu \in RealScreen, Ready(p, emu)
  PROVE  LET q == CursorForward(p, emu) IN Handled(p, q) /\ q.cells = p.cells
<1> DEFINE m    == InitCursor(p, emu)
           row  == Cursor(m).row
           col  == Cursor(m).col
           made == GetOrMakeRow(m, row)
           cont == IsCont(m, emu, <<row, col + 1>>)
           q == CursorForward(p, emu)
<1>q. q = IF col >= emu.w - 1 THEN m
          ELSE IF ~cont THEN ExpireCursor(MoveCursor(made, row, col + 1))
          ELSE IF col + 2 >= emu.w THEN made
          ELSE ExpireCursor(MoveCursor(made, row, col + 2))
  BY DEF CursorForward
<1>1. Handled(p, m) /\ Ready(m, emu) /\ m.cells = p.cells /\ m.cursors # <<>>
  BY InitCursorHas
<1> HIDE DEF m, q, cont
<1>2. row \in 0..emu.h - 1 /\ col \in 0..emu.w - 1 /\ row \in 0..MaxHeight - 1 /\ emu.w \in Nat
  <2>1. row \in 0..emu.h - 1 /\ col \in 0..emu.w - 1
    BY <1>1, LastCursor
  <2> HIDE DEF row, col
  <2> QED  BY <2>1, EngineAssumption DEF RealScreen, Screen
<1> HIDE DEF row, col
<1>3. Handled(p, made) /\ Ready(made, emu) /\ made.cells = p.cells /\ made.cursors # <<>>
  <2>1. Handled(m, made) /\ Ready(made, emu) /\ made.cells = m.cells /\ made.cursors = m.cursors
    BY <1>1, <1>2, GetOrMakeRowHas
  <2> HIDE DEF made
  <2> QED  BY <1>1, <2>1, HandledAgain
<1> HIDE DEF made
<1>4. ASSUME NEW to \in 0..emu.w - 1
      PROVE  LET r == ExpireCursor(MoveCursor(made, row, to)) IN Handled(p, r) /\ r.cells = p.cells
  <2> DEFINE moved == MoveCursor(made, row, to)
             r == ExpireCursor(moved)
  <2>1. Handled(made, moved) /\ Ready(moved, emu) /\ moved.cells = made.cells /\ moved.cursors # <<>>
    BY <1>2, <1>3, MoveCursorHas
  <2> HIDE DEF moved
  <2>2. Handled(moved, r) /\ r.cells = moved.cells
    BY <2>1, ExpireCursorHas
  <2>3. Handled(p, moved)
    BY <1>3, <2>1, HandledAgain
  <2> HIDE DEF r
  <2>4. Handled(p, r)
    BY <2>2, <2>3, HandledAgain
  <2> QED  BY <1>3, <2>1, <2>2, <2>4 DEF r, moved
<1>5. \/ q = m \/ q = made
      \/ \E to \in 0..emu.w - 1 : q = ExpireCursor(MoveCursor(made, row, to))
  <2>1. CASE col >= emu.w - 1
    BY <1>q, <2>1
  <2>2. CASE ~(col >= emu.w - 1) /\ ~cont
    <3>1. col + 1 \in 0..emu.w - 1
      BY <1>2, <2>2
    <3> QED  BY <1>q, <2>2, <3>1
  <2>3. CASE ~(col >= emu.w - 1) /\ cont /\ col + 2 >= emu.w
    BY <1>q, <2>3
  <2>4. CASE ~(col >= emu.w - 1) /\ cont /\ ~(col + 2 >= emu.w)
    <3>1. col + 2 \in 0..emu.w - 1
      BY <1>2, <2>4
    <3> QED  BY <1>q, <2>4, <3>1
  <2> QED  BY <2>1, <2>2, <2>3, <2>4
<1>6. Handled(p, q) /\ q.cells = p.cells
  BY <1>1, <1>3, <1>4, <1>5
<1> QED  BY <1>6 DEF q

LEMMA CursorBackHas ==
  ASSUME NEW p, NEW emu \in RealScreen, Ready(p, emu)
  PROVE  LET q == CursorBack(p, emu) IN Handled(p, q) /\ q.cells = p.cells
<1> DEFINE m    == InitCursor(p, emu)
           row  == Cursor(m).row
           col  == Cursor(m).col
           made == GetOrMakeRow(m, row)
           cont == IsCont(m, emu, <<row, col - 1>>)
           q == CursorBack(p, emu)
<1>q. q = IF col <= 0 THEN m
          ELSE IF ~cont THEN ExpireCursor(MoveCursor(made, row, col - 1))
          ELSE IF col - 2 <= 0 THEN MoveCursor(made, row, 0)
          ELSE ExpireCursor(MoveCursor(made, row, col - 2))
  BY DEF CursorBack
<1>1. Handled(p, m) /\ Ready(m, emu) /\ m.cells = p.cells /\ m.cursors # <<>>
  BY InitCursorHas
<1> HIDE DEF m, q, cont
<1>2. row \in 0..emu.h - 1 /\ col \in 0..emu.w - 1 /\ row \in 0..MaxHeight - 1 /\ emu.w \in Nat
  <2>1. row \in 0..emu.h - 1 /\ col \in 0..emu.w - 1
    BY <1>1, LastCursor
  <2> HIDE DEF row, col
  <2> QED  BY <2>1, EngineAssumption DEF RealScreen, Screen
<1> HIDE DEF row, col
<1>3. Handled(p, made) /\ Ready(made, emu) /\ made.cells = p.cells /\ made.cursors # <<>>
  <2>1. Handled(m, made) /\ Ready(made, emu) /\ made.cells = m.cells /\ made.cursors = m.cursors
    BY <1>1, <1>2, GetOrMakeRowHas
  <2> HIDE DEF made
  <2> QED  BY <1>1, <2>1, HandledAgain
<1> HIDE DEF made
<1>4. ASSUME NEW to \in 0..emu.w - 1
      PROVE  LET r == ExpireCursor(MoveCursor(made, row, to)) IN Handled(p, r) /\ r.cells = p.cells
  <2> DEFINE moved == MoveCursor(made, row, to)
             r == ExpireCursor(moved)
  <2>1. Handled(made, moved) /\ Ready(moved, emu) /\ moved.cells = made.cells /\ moved.cursors # <<>>
    BY <1>2, <1>3, MoveCursorHas
  <2> HIDE DEF moved
  <2>2. Handled(moved, r) /\ r.cells = moved.cells
    BY <2>1, ExpireCursorHas
  <2>3. Handled(p, moved)
    BY <1>3, <2>1, HandledAgain
  <2> HIDE DEF r
  <2>4. Handled(p, r)
    BY <2>2, <2>3, HandledAgain
  <2> QED  BY <1>3, <2>1, <2>2, <2>4 DEF r, moved
<1>5. Handled(p, MoveCursor(made, row, 0)) /\ MoveCursor(made, row, 0).cells = p.cells
  <2> DEFINE moved == MoveCursor(made, row, 0)
  <2>1. 0 \in 0..emu.w - 1
    BY <1>2
  <2>2. Handled(made, moved) /\ moved.cells = made.cells
    BY <1>2, <1>3, <2>1, MoveCursorHas
  <2> HIDE DEF moved
  <2>3. Handled(p, moved)
    BY <1>3, <2>2, HandledAgain
  <2> QED  BY <1>3, <2>2, <2>3 DEF moved
<1>6. \/ q = m \/ q = MoveCursor(made, row, 0)
      \/ \E to \in 0..emu.w - 1 : q = ExpireCursor(MoveCursor(made, row, to))
  <2>1. CASE col <= 0
    BY <1>q, <2>1
  <2>2. CASE ~(col <= 0) /\ ~cont
    <3>1. col - 1 \in 0..emu.w - 1
      BY <1>2, <2>2
    <3> QED  BY <1>q, <2>2, <3>1
  <2>3. CASE ~(col <= 0) /\ cont /\ col - 2 <= 0
    BY <1>q, <2>3
  <2>4. CASE ~(col <= 0) /\ cont /\ ~(col - 2 <= 0)
    <3>1. col - 2 \in 0..emu.w - 1
      BY <1>2, <2>4
    <3> QED  BY <1>q, <2>4, <3>1
  <2> QED  BY <2>1, <2>2, <2>3, <2>4
<1>7. Handled(p, q) /\ q.cells = p.cells
  BY <1>1, <1>3, <1>4, <1>5, <1>6
<1> QED  BY <1>7 DEF q

\* What was predicted may have to be written out.
LEMMA AppliedHandled ==
  ASSUME NEW p, Sound(p), NEW applied \in BOOLEAN
  PROVE  LET q == [p EXCEPT !.applied = applied] IN Handled(p, q) /\ q.cells = p.cells
<1> DEFINE q == [p EXCEPT !.applied = applied]
<1>1. p \in Engine
  BY DEF Sound
<1>2. /\ q \in Engine /\ SameSettings(p, q) /\ q.cells = p.cells /\ q.rows = p.rows /\ q.cursors = p.cursors
      /\ q.confirmedEpoch = p.confirmedEpoch /\ q.predictionEpoch = p.predictionEpoch
  BY <1>1 DEF Engine, SameSettings
<1> HIDE DEF q
<1>3. Sound(q)
  BY <1>2 DEF Sound, InPlace, InEpochs, Forgetful, SameSettings
<1> QED  BY <1>2, <1>3 DEF Handled, q

\* Keys that are predicted.
Keystrokes == {key \in AllKeys : key.kind \notin {"paste", "resize"}}

\* What one round of the client's loop leaves alone.
SameClient(p, q) ==
  /\ q.preference = p.preference
  /\ q.localFrameSent = p.localFrameSent /\ q.localFrameLateAcked = p.localFrameLateAcked

\* NewUserInput.
LEMMA NewUserInputHas ==
  ASSUME NEW p, Sound(p), NEW emu \in RealScreen, NEW key \in Keystrokes, NEW pace
  PROVE  LET q == NewUserInput(p, emu, key, pace)
         IN  /\ Sound(q) /\ SameClient(p, q)
             /\ \A pos \in Pos : q.cells[pos].frame \in {0, p.cells[pos].frame, p.localFrameSent + 1}
             /\ Guesses(p, emu) /\ ~IsUnfounded(q, key) => Guesses(q, emu)
<1> DEFINE epoch == IF p.preference = "Experimental" THEN p.confirmedEpoch ELSE p.predictionEpoch
           r == [p EXCEPT !.predictionEpoch = epoch]
           m == Cull(r, emu, pace)
           Done(x) == [x EXCEPT !.applied = FALSE]
           q == NewUserInput(p, emu, key, pace)
<1>1. CASE p.preference = "Never"
  <2>1. q = p
    BY <1>1 DEF NewUserInput
  <2> QED  BY <2>1 DEF SameClient
<1>2. CASE p.preference # "Never"
  <2>1. p \in Engine /\ epoch \in Nat /\ (p.preference = "Experimental" => epoch = 0)
    BY DEF Sound, Engine, InEpochs
  <2>q. q = CASE key.kind = "glyph"     -> Done(HandleUserGrapheme(m, emu, key))
              [] key.kind = "backspace" -> Done(BecomeTentative(InitCursor(m, emu)))
              [] key.kind = "CR"        -> Done(NewlineCarriageReturn(BecomeTentative(m), emu))
              [] key.kind = "CUF"       -> Done(CursorForward(m, emu))
              [] key.kind = "CUB"       -> Done(CursorBack(m, emu))
              [] key.kind = "control"   -> Done(BecomeTentative(m))
              [] key.kind = "partial"   -> m
    BY <1>2 DEF NewUserInput
  <2>e. p.preference # "Experimental" => epoch = p.predictionEpoch
    OBVIOUS
  <2> HIDE DEF epoch
  <2>2. /\ r \in Engine /\ SameClient(p, r) /\ r.cells = p.cells /\ r.rows = p.rows /\ r.cursors = p.cursors
        /\ r.height = p.height /\ r.width = p.width
        /\ r.confirmedEpoch = p.confirmedEpoch /\ r.predictionEpoch = epoch
    BY <2>1 DEF Engine, SameClient
  <2> HIDE DEF r
  <2>3. Sound(r)
    <3>1. InEpochs(r)
      BY <2>1, <2>2, <2>e DEF Sound, InEpochs, SameClient
    <3> QED  BY <2>2, <3>1 DEF Sound, InPlace, Forgetful, SameClient
  <2>4. /\ Ready(m, emu) /\ SameClient(p, m) /\ Fewer(p, m)
        /\ Guesses(p, emu) => Guesses(m, emu)
    <3>1. /\ Sound(m) /\ SameMode(r, m) /\ Fewer(r, m) /\ FitsScreen(m, emu)
          /\ Guesses(r, emu) => Guesses(m, emu)
      BY <1>2, <2>2, <2>3, CullHas DEF SameClient
    <3> HIDE DEF m
    <3>2. Guesses(p, emu) => Guesses(r, emu)
      BY <2>2 DEF Guesses, SameClient
    <3> QED  BY <1>2, <2>1, <2>2, <3>1, <3>2 DEF Ready, SameMode, SameClient, Fewer
  <2> HIDE DEF m
  <2>5. Sound(m) /\ Handled(m, m) /\ Guessing(m, m, emu)
    BY <2>4 DEF Ready, Handled, SameSettings, Guessing
  <2>6. ASSUME NEW x, Handled(m, x), Guessing(m, x, emu)
        PROVE  Handled(m, Done(x)) /\ Guessing(m, Done(x), emu)
    <3> DEFINE d == Done(x)
    <3>1. Handled(x, d) /\ d.cells = x.cells
      BY <2>6, AppliedHandled DEF Handled
    <3> HIDE DEF d
    <3>2. Handled(m, d)
      BY <2>6, <3>1, HandledAgain
    <3>3. Guessing(m, d, emu)
      BY <2>6, <3>1, SameCellsGuess DEF Guessing
    <3> QED  BY <3>2, <3>3 DEF d
  <2>7. Handled(m, q) /\ ((key.kind = "glyph" => key.w = 1) => Guessing(m, q, emu))
    <3> HIDE DEF q, Done
    <3>1. CASE key.kind = "glyph"
      <4>1. key \in Glyphs
        BY <3>1 DEF Keystrokes, AllKeys, GlyphKey, ResizeKey, OtherKey, Glyphs
      <4> DEFINE x == HandleUserGrapheme(m, emu, key)
      <4>2. Handled(m, x) /\ (key.w = 1 => Guessing(m, x, emu))
        BY <2>4, <4>1, HandleUserGraphemeHas
      <4>3. q = Done(x)
        BY <2>q, <3>1
      <4>4. Handled(m, Done(x))
        <5> DEFINE d == Done(x)
        <5> HIDE DEF x
        <5>1. Handled(x, d)
          BY <4>2, AppliedHandled DEF Handled, Done
        <5> HIDE DEF d
        <5>2. Handled(m, d)
          BY <4>2, <5>1, HandledAgain
        <5> QED  BY <5>2 DEF d
      <4> HIDE DEF x
      <4> QED  BY <2>6, <3>1, <4>2, <4>3, <4>4
    <3>2. CASE key.kind = "backspace"
      <4> DEFINE init == InitCursor(m, emu)
                 x == BecomeTentative(init)
      <4>1. Handled(m, init) /\ Ready(init, emu) /\ init.cells = m.cells
        BY <2>4, InitCursorHas
      <4> HIDE DEF init
      <4>2. Handled(init, x) /\ x.cells = init.cells
        BY <4>1, TentativeHandled
      <4>3. q = Done(x)
        BY <2>q, <3>2 DEF init
      <4> HIDE DEF x
      <4>4. Handled(m, x)
        BY <4>1, <4>2, HandledAgain
      <4>5. Guessing(m, x, emu)
        BY <4>1, <4>2, <4>4, SameCellsGuess DEF Guessing
      <4> QED  BY <2>6, <4>3, <4>4, <4>5
    <3>3. CASE key.kind = "CR"
      <4> DEFINE t == BecomeTentative(m)
                 x == NewlineCarriageReturn(t, emu)
      <4>1. Handled(m, t) /\ Ready(t, emu) /\ t.cells = m.cells
        BY <2>4, TentativeHandled
      <4> HIDE DEF t
      <4>2. Handled(t, x) /\ (Hunches(t, emu) => Hunches(x, emu))
        BY <4>1, NewlineHas
      <4>3. q = Done(x)
        BY <2>q, <3>3 DEF t
      <4> HIDE DEF x
      <4>4. Handled(m, x)
        BY <4>1, <4>2, HandledAgain
      <4>5. Guesses(m, emu) => Hunches(x, emu)
        BY <4>1, <4>2, SameCellsGuess, GuessesAreFounded
      <4>6. Guessing(m, x, emu)
        BY <4>5, FoundedGuess DEF Guessing
      <4> QED  BY <2>6, <4>3, <4>4, <4>6
    <3>4. CASE key.kind = "CUF"
      <4> DEFINE x == CursorForward(m, emu)
      <4>1. Handled(m, x) /\ x.cells = m.cells
        BY <2>4, CursorForwardHas
      <4>2. q = Done(x)
        BY <2>q, <3>4
      <4> HIDE DEF x
      <4>3. Guessing(m, x, emu)
        BY <4>1, SameCellsGuess DEF Guessing
      <4> QED  BY <2>6, <4>1, <4>2, <4>3
    <3>5. CASE key.kind = "CUB"
      <4> DEFINE x == CursorBack(m, emu)
      <4>1. Handled(m, x) /\ x.cells = m.cells
        BY <2>4, CursorBackHas
      <4>2. q = Done(x)
        BY <2>q, <3>5
      <4> HIDE DEF x
      <4>3. Guessing(m, x, emu)
        BY <4>1, SameCellsGuess DEF Guessing
      <4> QED  BY <2>6, <4>1, <4>2, <4>3
    <3>6. CASE key.kind = "control"
      <4> DEFINE x == BecomeTentative(m)
      <4>1. Handled(m, x) /\ x.cells = m.cells
        BY <2>4, TentativeHandled
      <4>2. q = Done(x)
        BY <2>q, <3>6
      <4> HIDE DEF x
      <4>3. Guessing(m, x, emu)
        BY <4>1, SameCellsGuess DEF Guessing
      <4> QED  BY <2>6, <4>1, <4>2, <4>3
    <3>7. CASE key.kind = "partial"
      <4>1. q = m
        BY <2>q, <3>7
      <4> QED  BY <2>5, <4>1
    <3> QED  BY <3>1, <3>2, <3>3, <3>4, <3>5, <3>6, <3>7
             DEF Keystrokes, AllKeys, GlyphKey, ResizeKey, OtherKey
  <2> HIDE DEF q, Done
  <2>8. SameClient(p, q)
    BY <2>4, <2>7 DEF SameClient, Handled, SameSettings
  <2>9. \A pos \in Pos : q.cells[pos].frame \in {0, p.cells[pos].frame, p.localFrameSent + 1}
    BY <2>4, <2>7 DEF Handled, Fewer, Gone, SameClient
  <2>10. ASSUME Guesses(p, emu), ~IsUnfounded(q, key) PROVE Guesses(q, emu)
    <3>1. key.kind = "glyph" => key.w = 1
      <4>1. key.kind = "glyph" => key \in Glyphs
        BY DEF Keystrokes, AllKeys, GlyphKey, ResizeKey, OtherKey, Glyphs
      <4>2. \A k \in Glyphs : k.w \in {1, 2}
        BY DEF Glyphs, GlyphKey
      <4> QED  BY <2>10, <4>1, <4>2 DEF IsUnfounded
    <3>2. \A pos \in Pos : Founded(q.cells[pos])
      BY <2>10 DEF IsUnfounded, Founded
    <3> QED  BY <2>4, <2>7, <2>10, <3>1, <3>2 DEF Guessing
  <2> QED  BY <2>7, <2>8, <2>9, <2>10 DEF Handled, q
<1> QED  BY <1>1, <1>2

-----------------------------------------------------------------------------
(* What the user sees.                                                     *)

\* apply: a position shows what the server's screen does unless a prediction
\* is active there.
LEMMA ApplyHas ==
  ASSUME NEW p, Sound(p), NEW emu \in RealScreen, p.preference # "Never" => FitsScreen(p, emu)
  PROVE  LET s == Apply(p, emu)
         IN  /\ s \in RealScreen /\ s.h = emu.h /\ s.w = emu.w
             /\ \A pos \in Pos : s.cells[pos] # emu.cells[pos] => p.cells[pos].active
<1> DEFINE shown == ShownCells(p, emu)
           cs    == ShownCursors(p)
           cells == [pos \in Pos |-> IF pos \in shown THEN p.cells[pos].repl ELSE emu.cells[pos]]
           row   == IF cs = <<>> THEN emu.row ELSE Last(cs).row
           col   == IF cs = <<>> THEN emu.col ELSE Last(cs).col
           s == Apply(p, emu)
<1>1. emu \in Screen /\ emu.row < emu.h /\ emu.col < emu.w
  BY DEF RealScreen
<1>2. shown \subseteq Pos /\ \A pos \in shown : p.cells[pos].active
  BY DEF ShownCells
<1>3. cs \in Seq(CursorPrediction) /\ \A i \in DOMAIN cs : SoundCursor(p, cs[i])
  <2>1. CASE Displayed(p)
    <3> DEFINE some == {i \in DOMAIN p.cursors : p.cursors[i].epoch <= p.confirmedEpoch}
    <3>1. cs = Kept(p.cursors, some)
      BY <2>1 DEF ShownCursors
    <3> HIDE DEF some, cs
    <3> QED  BY <3>1, KeptCursors
  <2>2. CASE ~Displayed(p)
    <3>1. cs = <<>>
      BY <2>2 DEF ShownCursors
    <3> HIDE DEF cs
    <3> QED  BY <3>1
  <2> QED  BY <2>1, <2>2
<1>s. s = [emu EXCEPT !.cells = cells, !.row = row, !.col = col]
  BY <1>1 DEF Apply, Screen
<1> HIDE DEF cs, shown
<1>4. cells \in [Pos -> Cell]
  <2>1. ASSUME NEW pos \in Pos PROVE p.cells[pos].repl \in Cell /\ emu.cells[pos] \in Cell
    BY <1>1 DEF Sound, Engine, CellPrediction, Screen
  <2> QED  BY <2>1
<1>5. row \in 0..MaxHeight - 1 /\ col \in 0..MaxWidth - 1 /\ row < emu.h /\ col < emu.w
  <2>1. CASE cs = <<>>
    BY <1>1, <2>1 DEF Screen
  <2>2. CASE cs # <<>>
    <3>1. Len(cs) \in DOMAIN cs /\ Last(cs) = cs[Len(cs)]
      BY <1>3, <2>2 DEF Last
    <3>2. Last(cs) \in CursorPrediction /\ SoundCursor(p, Last(cs))
      BY <1>3, <3>1
    <3> QED  BY <2>2, <3>2 DEF SoundCursor, CursorPrediction, FitsScreen
  <2> QED  BY <2>1, <2>2
<1> HIDE DEF cells, row, col
<1>6. s \in Screen /\ s.row < s.h /\ s.col < s.w /\ s.h = emu.h /\ s.w = emu.w /\ s.cells = cells
  BY <1>1, <1>4, <1>5, <1>s DEF Screen
<1> HIDE DEF s
<1>7. \A pos \in Pos : cells[pos] # emu.cells[pos] => p.cells[pos].active
  BY <1>2 DEF cells
<1> QED  BY <1>6, <1>7 DEF RealScreen, s

\* Nothing is shown of an engine that has no confirmed epoch yet.
LEMMA NothingShown ==
  ASSUME NEW p, Sound(p), NEW emu \in RealScreen, p.preference # "Experimental", p.confirmedEpoch = 0
  PROVE  Apply(p, emu) = emu
<1>1. p \in Engine /\ p.cursors \in Seq(CursorPrediction)
  BY DEF Sound, Engine
<1>2. ASSUME NEW pos \in Pos, p.cells[pos].active PROVE ~(p.cells[pos].epoch <= p.confirmedEpoch)
  <2>1. p.cells[pos].epoch > 0 /\ p.cells[pos].epoch \in Nat
    BY <1>2 DEF Sound, InEpochs, Engine, CellPrediction
  <2> QED  BY <2>1
<1>3. ShownCells(p, emu) = {}
  BY <1>2 DEF ShownCells
<1>4. ShownCursors(p) = <<>>
  <2> DEFINE some == {i \in DOMAIN p.cursors : p.cursors[i].epoch <= p.confirmedEpoch}
             cs == Kept(p.cursors, some)
  <2>1. ASSUME NEW i \in some PROVE FALSE
    <3>1. p.cursors[i] \in CursorPrediction /\ p.cursors[i].epoch > 0 /\ p.cursors[i].epoch <= 0
      BY <1>1, <2>1 DEF Sound, InEpochs
    <3> QED  BY <3>1 DEF CursorPrediction
  <2>2. cs \in Seq(CursorPrediction) /\ \A j \in DOMAIN cs : \E i \in DOMAIN p.cursors : i \in some /\ cs[j] = p.cursors[i]
    <3> HIDE DEF some
    <3> QED  BY <1>1, KeptHas
  <2>3. DOMAIN cs = {}
    BY <2>1, <2>2
  <2> HIDE DEF cs
  <2>4. cs = <<>>
    BY <2>2, <2>3
  <2> QED  BY <2>4 DEF ShownCursors, cs
<1>5. emu.cells = [pos \in Pos |-> emu.cells[pos]] /\ emu \in Screen
  BY DEF RealScreen, Screen
<1>6. Apply(p, emu) = [emu EXCEPT !.cells = [pos \in Pos |-> emu.cells[pos]], !.row = emu.row, !.col = emu.col]
  BY <1>3, <1>4, <1>5 DEF Apply, Screen
<1> QED  BY <1>5, <1>6 DEF Screen

\* outputNewFrame.
LEMMA OutputNewFrameHas ==
  ASSUME NEW p, Sound(p), NEW rem \in [screen : RealScreen, echoAck : Nat], NEW fresh \in BOOLEAN,
         p.localFrameLateAcked = rem.echoAck,
         OutputNewFrame(p, rem, fresh)
  PROVE  /\ remote' = rem
         /\ localFramebuffer' \in RealScreen
         /\ localFramebuffer'.h = rem.screen.h /\ localFramebuffer'.w = rem.screen.w
         /\ Sound(pe') /\ SameClient(p, pe')
         /\ pe'.preference # "Never" => FitsScreen(pe', rem.screen)
         /\ \A pos \in Pos : pe'.cells[pos].frame \in {0, p.cells[pos].frame}
         /\ OnlyUnansweredRemain'
         /\ Guesses(p, rem.screen) =>
              localFramebuffer' = rem.screen /\ Guesses(pe', rem.screen)
<1>1. PICK culled \in {Cull(p, rem.screen, pace) : pace \in Paces}, differ \in BOOLEAN, written \in BOOLEAN :
        /\ localFramebuffer' = Apply(culled, rem.screen)
        /\ pe' = [culled EXCEPT !.applied = IF ~(differ /\ written) /\ fresh THEN FALSE ELSE @ \/ differ]
        /\ remote' = rem
  BY DEF OutputNewFrame
<1> DEFINE emu == rem.screen
           applied == IF ~(differ /\ written) /\ fresh THEN FALSE ELSE culled.applied \/ differ
<1>2. PICK pace \in Paces : emu \in RealScreen /\ culled = Cull(p, emu, pace) /\ rem.echoAck \in Nat
  OBVIOUS
<1> HIDE DEF emu
<1>3. /\ Sound(culled) /\ SameMode(p, culled) /\ Fewer(p, culled)
      /\ p.preference # "Never" => FitsScreen(culled, emu)
      /\ UnansweredCursors(culled) /\ \A pos \in Pos : Unanswered(culled, pos)
      /\ Guesses(p, emu) => Guesses(culled, emu)
  BY <1>2, CullHas
<1>4. applied \in BOOLEAN /\ pe' = [culled EXCEPT !.applied = applied]
  BY <1>1, <1>3 DEF Sound, Engine
<1> HIDE DEF applied
<1>5. Handled(culled, pe') /\ pe'.cells = culled.cells /\ pe'.cursors = culled.cursors
  <2> DEFINE q == [culled EXCEPT !.applied = applied]
  <2>1. Handled(culled, q) /\ q.cells = culled.cells
    BY <1>3, <1>4, AppliedHandled
  <2>2. q.cursors = culled.cursors
    BY <1>3 DEF Sound, Engine
  <2> HIDE DEF q
  <2> QED  BY <1>4, <2>1, <2>2 DEF q
<1>6. /\ Sound(pe') /\ SameClient(p, pe') /\ (pe'.preference # "Never" => FitsScreen(pe', emu))
  BY <1>3, <1>5 DEF Handled, SameSettings, SameMode, SameClient, FitsScreen
<1>7. \A pos \in Pos : pe'.cells[pos].frame \in {0, p.cells[pos].frame}
  BY <1>3, <1>5 DEF Fewer, Gone
<1>8. /\ localFramebuffer' \in RealScreen /\ localFramebuffer'.h = emu.h /\ localFramebuffer'.w = emu.w
      /\ \A pos \in Pos : localFramebuffer'.cells[pos] # emu.cells[pos] => pe'.cells[pos].active
  <2>1. culled.preference # "Never" => FitsScreen(culled, emu)
    BY <1>3 DEF SameMode
  <2>2. LET s == Apply(culled, emu)
        IN  /\ s \in RealScreen /\ s.h = emu.h /\ s.w = emu.w
            /\ \A pos \in Pos : s.cells[pos] # emu.cells[pos] => culled.cells[pos].active
    BY <1>2, <1>3, <2>1, ApplyHas
  <2> QED  BY <1>1, <1>5, <2>2 DEF emu
<1>9. OnlyUnansweredRemain'
  <2>1. culled.localFrameLateAcked = rem.echoAck
    BY <1>3 DEF SameMode
  <2>2. \A pos \in Pos : pe'.cells[pos].active => pe'.cells[pos].frame > remote'.echoAck
    BY <1>1, <1>3, <1>5, <2>1 DEF Unanswered
  <2>3. \A i \in 1..Len(pe'.cursors) : pe'.cursors[i].frame > remote'.echoAck
    <3>1. culled.cursors \in Seq(CursorPrediction)
      BY <1>3 DEF Sound, Engine
    <3> QED  BY <1>1, <1>3, <1>5, <2>1, <3>1 DEF UnansweredCursors
  <2>4. \A pos \in Pos : localFramebuffer'.cells[pos] # remote'.screen.cells[pos] => pe'.cells[pos].active
    BY <1>1, <1>8 DEF emu
  <2> QED  BY <2>2, <2>3, <2>4 DEF OnlyUnansweredRemain, Predicted
<1>10. ASSUME Guesses(p, emu) PROVE localFramebuffer' = emu /\ Guesses(pe', emu)
  <2>1. Guesses(culled, emu)
    BY <1>3, <1>10
  <2>2. Apply(culled, emu) = emu
    BY <1>2, <1>3, <2>1, NothingShown DEF Guesses
  <2> QED  BY <1>1, <1>5, <2>1, <2>2, SameCellsGuess DEF emu
<1> QED  BY <1>1, <1>6, <1>7, <1>8, <1>9, <1>10 DEF emu

-----------------------------------------------------------------------------
(* The server's screen.                                                    *)

\* A screen on which nothing was written.
Quiet(s, t) == \A pos \in Pos : t.cells[pos] = s.cells[pos] \/ t.cells[pos] = Blank

LEMMA FitHas ==
  ASSUME NEW n \in Nat, NEW size \in Nat \ {0}
  PROVE  Fit(n, size) \in 0..size - 1
  BY DEF Fit

\* The size of a screen, and where its cursor is.
LEMMA ScreenHas ==
  ASSUME NEW s \in RealScreen
  PROVE  /\ s.h \in 1..MaxHeight /\ s.w \in 1..MaxWidth /\ s.h \in Nat \ {0} /\ s.w \in Nat \ {0}
         /\ s.row \in 0..s.h - 1 /\ s.col \in 0..s.w - 1 /\ s.row \in Nat /\ s.col \in Nat
         /\ s.cells \in [Pos -> Cell] /\ s \in Screen
  BY EngineAssumption DEF RealScreen, Screen

\* Where it is may change.
Moved(s, row, col) == [s EXCEPT !.row = row, !.col = col]

LEMMA CursorMoves ==
  ASSUME NEW s \in RealScreen, NEW row \in 0..s.h - 1, NEW col \in 0..s.w - 1
  PROVE  Moved(s, row, col) \in RealScreen /\ Moved(s, row, col).cells = s.cells
<1> DEFINE t == Moved(s, row, col)
<1>1. s.h \in 1..MaxHeight /\ s.w \in 1..MaxWidth /\ s \in Screen
  BY ScreenHas
<1>2. row \in 0..MaxHeight - 1 /\ col \in 0..MaxWidth - 1 /\ row < s.h /\ col < s.w
  BY <1>1, EngineAssumption
<1>3. t \in Screen /\ t.row = row /\ t.col = col /\ t.h = s.h /\ t.w = s.w /\ t.cells = s.cells
  BY <1>1, <1>2 DEF Screen, Moved
<1> HIDE DEF t
<1> QED  BY <1>2, <1>3 DEF RealScreen, t

LEMMA NewlineIsReal ==
  ASSUME NEW s \in RealScreen
  PROVE  Newline(s) \in RealScreen /\ Newline(s).cells = s.cells /\ Newline(s).col = 0 /\ Newline(s).w = s.w
<1>1. Fit(s.row + 1, s.h) \in 0..s.h - 1 /\ 0 \in 0..s.w - 1 /\ s \in Screen
  BY ScreenHas, FitHas
<1>2. Newline(s) = Moved(s, Fit(s.row + 1, s.h), 0)
  BY DEF Newline, Moved
<1>3. Newline(s).col = 0 /\ Newline(s).w = s.w
  BY <1>1, <1>2 DEF Screen, Moved
<1> QED  BY <1>1, <1>2, <1>3, CursorMoves

\* Its cells may.
LEMMA CellsChange ==
  ASSUME NEW s \in RealScreen, NEW cells \in [Pos -> Cell]
  PROVE  LET t == [s EXCEPT !.cells = cells]
         IN  t \in RealScreen /\ t.cells = cells /\ t.row = s.row /\ t.col = s.col /\ t.w = s.w /\ t.h = s.h
  BY DEF RealScreen, Screen

LEMMA OneCellChanges ==
  ASSUME NEW s \in RealScreen, NEW pos, NEW c \in Cell
  PROVE  LET t == [s EXCEPT !.cells[pos] = c]
         IN  t \in RealScreen /\ t.row = s.row /\ t.col = s.col /\ t.w = s.w /\ t.h = s.h
<1> DEFINE cells == [s.cells EXCEPT ![pos] = c]
<1>1. s.cells \in [Pos -> Cell] /\ s \in Screen
  BY ScreenHas
<1>2. cells \in [Pos -> Cell]
  BY <1>1
<1>3. [s EXCEPT !.cells[pos] = c] = [s EXCEPT !.cells = cells]
  BY <1>1 DEF Screen
<1> HIDE DEF cells
<1> QED  BY <1>2, <1>3, CellsChange

\* The host prints a glyph.
LEMMA PutIsReal ==
  ASSUME NEW s \in RealScreen, NEW key \in Glyphs
  PROVE  Put(s, key) \in RealScreen
<1> DEFINE at   == IF s.col + key.w > s.w THEN Newline(s) ELSE s
           here == <<at.row, at.col>>
           next == [at EXCEPT !.cells[here] = [ch |-> key.ch, wide |-> key.w = 2, cont |-> FALSE]]
           both == IF key.w = 2
                   THEN [next EXCEPT !.cells[<<at.row, at.col + 1>>] = [Blank EXCEPT !.cont = TRUE]]
                   ELSE next
           put  == IF at.col + key.w < s.w THEN [both EXCEPT !.col = both.col + key.w] ELSE Newline(both)
<1>1. key.w \in {1, 2} /\ key.ch \in Graphemes
  BY DEF Glyphs, GlyphKey
<1>2. at \in RealScreen /\ at.w = s.w
  BY NewlineIsReal
<1>p. Put(s, key) = put
  BY DEF Put
<1> HIDE DEF at, here
<1>3. next \in RealScreen /\ next.row = at.row /\ next.col = at.col /\ next.w = at.w /\ next.h = at.h
  <2> DEFINE c == [ch |-> key.ch, wide |-> key.w = 2, cont |-> FALSE]
  <2>1. c \in Cell
    BY <1>1 DEF Cell
  <2> HIDE DEF c
  <2>2. LET t == [at EXCEPT !.cells[here] = c]
        IN  t \in RealScreen /\ t.row = at.row /\ t.col = at.col /\ t.w = at.w /\ t.h = at.h
    BY <1>2, <2>1, OneCellChanges
  <2> QED  BY <2>2 DEF c
<1> HIDE DEF next
<1>4. both \in RealScreen /\ both.row = at.row /\ both.col = at.col /\ both.w = at.w /\ both.h = at.h
  <2>1. CASE key.w # 2
    BY <1>3, <2>1
  <2>2. CASE key.w = 2
    <3> DEFINE c == [Blank EXCEPT !.cont = TRUE]
               pos == <<at.row, at.col + 1>>
    <3>1. c \in Cell
      BY BlankIsCell DEF Cell
    <3> HIDE DEF c, pos
    <3>2. LET t == [next EXCEPT !.cells[pos] = c]
          IN  t \in RealScreen /\ t.row = next.row /\ t.col = next.col /\ t.w = next.w /\ t.h = next.h
      BY <1>3, <3>1, OneCellChanges
    <3>3. both = [next EXCEPT !.cells[pos] = c]
      BY <2>2 DEF c, pos
    <3> HIDE DEF both
    <3> QED  BY <1>3, <3>2, <3>3
  <2> QED  BY <2>1, <2>2
<1> HIDE DEF both
<1>5. CASE ~(at.col + key.w < s.w)
  <2>1. put = Newline(both)
    BY <1>5
  <2> HIDE DEF put
  <2> QED  BY <1>4, <1>p, <2>1, NewlineIsReal
<1>6. CASE at.col + key.w < s.w
  <2> DEFINE col == both.col + key.w
  <2>1. put = [both EXCEPT !.col = col]
    BY <1>6
  <2>2. both.row \in 0..both.h - 1 /\ both.col \in Nat /\ both.w \in Nat /\ both \in Screen
    BY <1>4, ScreenHas
  <2>3. col \in 0..both.w - 1
    BY <1>1, <1>2, <1>4, <1>6, <2>2
  <2> HIDE DEF col, put
  <2>4. [both EXCEPT !.col = col] = Moved(both, both.row, col)
    BY <2>2 DEF Screen, Moved
  <2> QED  BY <1>4, <1>p, <2>1, <2>2, <2>3, <2>4, CursorMoves
<1> QED  BY <1>5, <1>6

\* The host echoes a key.
LEMMA EchoedIsReal ==
  ASSUME NEW s \in RealScreen, NEW key \in AllKeys
  PROVE  /\ Echoed(s, key) \in RealScreen
         /\ key.kind # "glyph" => Quiet(s, Echoed(s, key))
<1>0. s.row \in 0..s.h - 1 /\ s \in Screen /\ s.col \in 0..s.w - 1 /\ s.w \in Nat \ {0} /\ s.col \in Nat
  BY ScreenHas
<1>1. CASE key.kind = "glyph"
  <2>1. key \in Glyphs
    BY <1>1 DEF AllKeys, GlyphKey, ResizeKey, OtherKey, Glyphs
  <2>2. Echoed(s, key) = Put(s, key)
    BY <1>1 DEF Echoed
  <2> QED  BY <1>1, <2>1, <2>2, PutIsReal
<1>2. CASE key.kind = "CR"
  <2>1. Echoed(s, key) = Newline(s)
    BY <1>2 DEF Echoed
  <2> QED  BY <2>1, NewlineIsReal DEF Quiet
<1>3. CASE key.kind \in {"CUF", "CUB"}
  <2>1. PICK col \in 0..s.w - 1 : Echoed(s, key) = [s EXCEPT !.col = col]
    <3>1. CASE key.kind = "CUF"
      <4>1. Fit(s.col + 1, s.w) \in 0..s.w - 1
        BY <1>0, FitHas
      <4> QED  BY <3>1, <4>1 DEF Echoed
    <3>2. CASE key.kind = "CUB"
      <4>1. (IF s.col = 0 THEN 0 ELSE s.col - 1) \in 0..s.w - 1
        BY <1>0
      <4> QED  BY <3>2, <4>1 DEF Echoed
    <3> QED  BY <1>3, <3>1, <3>2
  <2>2. [s EXCEPT !.col = col] = Moved(s, s.row, col)
    BY <1>0 DEF Screen, Moved
  <2> QED  BY <1>0, <2>1, <2>2, CursorMoves DEF Quiet
<1>4. CASE key.kind \notin {"glyph", "CR", "CUF", "CUB"}
  <2>1. Echoed(s, key) = s
    BY <1>4 DEF Echoed
  <2> QED  BY <2>1 DEF Quiet
<1> QED  BY <1>1, <1>2, <1>3, <1>4

\* The host clears it.
LEMMA ClearedIsReal ==
  ASSUME NEW s \in RealScreen
  PROVE  LET t == [s EXCEPT !.cells = [pos \in Pos |-> Blank]] IN t \in RealScreen /\ Quiet(s, t)
<1> DEFINE cells == [pos \in Pos |-> Blank]
<1>1. cells \in [Pos -> Cell]
  BY BlankIsCell
<1>2. \A pos \in Pos : cells[pos] = Blank
  OBVIOUS
<1> HIDE DEF cells
<1>3. LET t == [s EXCEPT !.cells = cells] IN t \in RealScreen /\ t.cells = cells
  BY <1>1, CellsChange
<1> QED  BY <1>2, <1>3 DEF Quiet, cells

\* Its size changes.
LEMMA ResizeIsReal ==
  ASSUME NEW s \in RealScreen, NEW h \in 1..MaxHeight, NEW w \in 1..MaxWidth
  PROVE  Resize(s, h, w) \in RealScreen /\ Quiet(s, Resize(s, h, w))
<1> DEFINE cells == [pos \in Pos |-> IF pos[1] < h /\ pos[2] < w THEN s.cells[pos] ELSE Blank]
           row == Fit(s.row, h)
           col == Fit(s.col, w)
           t == Resize(s, h, w)
<1>1. s.cells \in [Pos -> Cell] /\ s.row \in Nat /\ s.col \in Nat
  BY ScreenHas
<1>2. cells \in [Pos -> Cell] /\ \A pos \in Pos : cells[pos] = s.cells[pos] \/ cells[pos] = Blank
  BY <1>1, BlankIsCell
<1>3. row \in 0..h - 1 /\ col \in 0..w - 1
  <2>1. h \in Nat \ {0} /\ w \in Nat \ {0}
    OBVIOUS
  <2> QED  BY <1>1, <2>1, FitHas
<1>4. t = [h |-> h, w |-> w, row |-> row, col |-> col, cells |-> cells]
  BY DEF Resize
<1> HIDE DEF cells, row, col
<1>5. t \in Screen /\ t.row < t.h /\ t.col < t.w /\ t.cells = cells
  BY <1>2, <1>3, <1>4, EngineAssumption DEF Screen
<1> QED  BY <1>2, <1>5 DEF RealScreen, Quiet

-----------------------------------------------------------------------------
(* The client's steps.                                                     *)

\* The keys that may be typed.
LEMMA KeysAre == MaxKeys \in Nat /\ \A i \in 1..MaxKeys : Keys[i] \subseteq AllKeys
<1>1. Keys \in Seq(SUBSET AllKeys)
  BY PredictionAssumption DEF AllKeys
<1> QED  BY <1>1 DEF MaxKeys

\* What a step of the client keeps of frames and keys.
Sent ==
  /\ unsent \in Seq(AllKeys) /\ inFlight \in Seq(Frame) /\ lastSent \in Nat
  /\ lastSent + Len(unsent) <= typed
  /\ \A i \in DOMAIN inFlight : inFlight[i].num \in lastRemoteNum + 1..lastSent
  /\ \A i, j \in DOMAIN inFlight : i < j => inFlight[i].num < inFlight[j].num

\* tick: the frame that is sent is the newest.
LEMMA TickHas ==
  ASSUME Types, Numbered, NEW keys \in Seq(AllKeys), typed' \in Nat, lastSent + Len(keys) <= typed',
         lastRemoteNum' = lastRemoteNum, Tick(keys)
  PROVE  Sent' /\ lastSent' \in Nat /\ lastSent <= lastSent'
<1>0. lastSent \in Nat /\ lastRemoteNum \in Nat /\ lastRemoteNum <= lastSent /\ inFlight \in Seq(Frame) /\ Len(keys) \in Nat
  BY DEF Types, Numbered
<1>1. CASE /\ keys # <<>>
           /\ inFlight' = Append(inFlight, [num |-> lastSent + 1, keys |-> keys])
           /\ lastSent' = lastSent + 1 /\ unsent' = <<>>
  <2> DEFINE f == [num |-> lastSent + 1, keys |-> keys]
  <2>1. f \in Frame /\ f.num = lastSent + 1
    BY <1>0 DEF Frame
  <2> HIDE DEF f
  <2>2. inFlight' = Append(inFlight, f)
    BY <1>1 DEF f
  <2>3. /\ inFlight' \in Seq(Frame) /\ DOMAIN inFlight' = 1..Len(inFlight) + 1 /\ Len(inFlight) \in Nat
        /\ DOMAIN inFlight = 1..Len(inFlight)
        /\ \A i \in DOMAIN inFlight : inFlight'[i] = inFlight[i]
        /\ inFlight'[Len(inFlight) + 1] = f
    BY <1>0, <2>1, <2>2
  <2>4. \A i \in DOMAIN inFlight : inFlight[i].num \in lastRemoteNum + 1..lastSent
    BY DEF Numbered
  <2>5. Len(keys) # 0
    BY <1>1
  <2>6. lastSent' + Len(unsent') <= typed' /\ unsent' \in Seq(AllKeys) /\ lastSent' \in Nat
    BY <1>0, <1>1, <2>5
  <2>7. \A i \in DOMAIN inFlight' : inFlight'[i].num \in lastRemoteNum' + 1..lastSent'
    <3>1. ASSUME NEW i \in DOMAIN inFlight' PROVE inFlight'[i].num \in lastRemoteNum' + 1..lastSent'
      <4>1. CASE i \in DOMAIN inFlight
        BY <1>0, <1>1, <2>3, <2>4, <4>1
      <4>2. CASE i = Len(inFlight) + 1
        BY <1>0, <1>1, <2>1, <2>3, <4>2
      <4> QED  BY <2>3, <4>1, <4>2
    <3> QED  BY <3>1
  <2>8. ASSUME NEW i \in DOMAIN inFlight', NEW j \in DOMAIN inFlight', i < j
        PROVE  inFlight'[i].num < inFlight'[j].num
    <3>1. i \in DOMAIN inFlight
      BY <2>3, <2>8
    <3>2. inFlight'[i] = inFlight[i] /\ inFlight[i].num \in lastRemoteNum + 1..lastSent
      BY <2>3, <2>4, <3>1
    <3>3. CASE j \in DOMAIN inFlight
      BY <2>3, <2>8, <3>1, <3>3 DEF Numbered
    <3>4. CASE j = Len(inFlight) + 1
      BY <1>0, <2>1, <2>3, <3>2, <3>4
    <3> QED  BY <2>3, <3>3, <3>4
  <2> QED  BY <1>0, <1>1, <2>3, <2>6, <2>7, <2>8 DEF Sent
<1>2. CASE UNCHANGED <<inFlight, lastSent>> /\ unsent' = keys
  BY <1>0, <1>2 DEF Sent, Types, Numbered
<1> QED  BY <1>1, <1>2 DEF Tick

\* What a round leaves of the server's side.
Serving ==
  /\ screen \in RealScreen /\ hostInput \in Seq(AllKeys)
  /\ inputHistory \in Seq(Nat) /\ inputEcho \in {"Standby", "InputReady"}
  /\ lastRemoteNum \in Nat /\ echoAck \in Nat /\ printed \in BOOLEAN
  /\ echoAck <= lastRemoteNum
  /\ \A i \in DOMAIN inputHistory : inputHistory[i] \in echoAck..lastRemoteNum

LEMMA ServingHolds == Types /\ Numbered => Serving
  BY DEF Types, Numbered, Serving

\* A round of the client's loop, after which p is looked at.
LEMMA RoundHas ==
  ASSUME IInv, UNCHANGED <<serverVars, printed>>,
         NEW p, Sound(p),
         p.localFrameSent <= lastSent, \A pos \in Pos : p.cells[pos].frame <= lastSent + 1,
         NEW rem \in [screen : RealScreen, echoAck : Nat],
         p.localFrameLateAcked = rem.echoAck, rem.echoAck <= echoAck,
         NEW fresh \in BOOLEAN, OutputNewFrame(p, rem, fresh),
         NEW keys \in Seq(AllKeys), lastSent + Len(keys) <= typed', Tick(keys),
         typed' \in 0..MaxKeys, unfounded' \in BOOLEAN,
         ~printed => Unwritten(screen, rem.screen),
         ~printed /\ ~unfounded' /\ p.preference # "Experimental" => Guesses(p, rem.screen)
  PROVE  IInv'
<1> USE DEF IInv
<1>0. Types /\ Numbered
  OBVIOUS
<1>u. /\ screen' = screen /\ hostInput' = hostInput /\ inputHistory' = inputHistory /\ inputEcho' = inputEcho
      /\ lastRemoteNum' = lastRemoteNum /\ echoAck' = echoAck /\ printed' = printed
  BY DEF serverVars
<1>1. /\ remote' = rem /\ localFramebuffer' \in RealScreen
      /\ localFramebuffer'.h = rem.screen.h /\ localFramebuffer'.w = rem.screen.w
      /\ Sound(pe') /\ SameClient(p, pe')
      /\ pe'.preference # "Never" => FitsScreen(pe', rem.screen)
      /\ \A pos \in Pos : pe'.cells[pos].frame \in {0, p.cells[pos].frame}
      /\ OnlyUnansweredRemain'
      /\ Guesses(p, rem.screen) => localFramebuffer' = rem.screen /\ Guesses(pe', rem.screen)
  BY OutputNewFrameHas
<1>2. Sent' /\ lastSent' \in Nat /\ lastSent <= lastSent'
  <2>1. typed' \in Nat
    BY KeysAre
  <2> QED  BY <1>0, <1>u, <2>1, TickHas
<1>s. Serving
  BY <1>0, ServingHolds
<1>3. Types'
  BY <1>u, <1>1, <1>2, <1>s DEF Types, Sent, Serving
<1>4. Numbered'
  <2>1. lastRemoteNum' <= lastSent'
    <3>1. lastRemoteNum \in Nat /\ lastRemoteNum <= lastSent /\ lastSent \in Nat
      BY <1>0 DEF Types, Numbered
    <3> QED  BY <1>u, <1>2, <3>1
  <2>2. lastSent' + Len(unsent') <= typed'
    BY <1>2 DEF Sent
  <2> QED  BY <1>u, <1>1, <1>2, <1>s, <2>1, <2>2 DEF Numbered, Sent, Serving
<1>5. Predicting'
  <2>1. lastSent \in Nat /\ p \in Engine /\ p.localFrameSent \in Nat
    BY DEF Types, Sound, Engine
  <2>2. pe'.localFrameSent <= lastSent'
    BY <1>1, <1>2, <2>1 DEF SameClient
  <2>3. ASSUME NEW pos \in Pos PROVE pe'.cells[pos].frame <= lastSent' + 1
    <3>1. p.cells[pos].frame \in Nat
      BY <2>1 DEF Engine, CellPrediction
    <3> QED  BY <1>1, <1>2, <2>1, <3>1
  <2>4. pe'.localFrameLateAcked = remote'.echoAck
    BY <1>1 DEF SameClient
  <2> QED  BY <1>1, <2>2, <2>3, <2>4 DEF Predicting
<1>6. Silent'
  BY <1>u, <1>1 DEF Silent
<1>7. Blind'
  BY <1>u, <1>1 DEF Blind, SameClient
<1> QED  BY <1>3, <1>4, <1>5, <1>6, <1>7

\* What the loop tells the engine changes no prediction.
Told(p, interval, sent, ack) ==
  [p EXCEPT !.sendInterval = interval, !.localFrameSent = sent, !.localFrameLateAcked = ack]

LikeBefore(p, q) ==
  /\ Sound(q) /\ q.preference = p.preference /\ q.cells = p.cells
  /\ \A emu : Guesses(p, emu) => Guesses(q, emu)

LEMMA ToldHas ==
  ASSUME NEW p, Sound(p), NEW interval \in {"high", "middle", "low"}, NEW sent \in Nat, NEW ack \in Nat
  PROVE  /\ LikeBefore(p, Told(p, interval, sent, ack))
         /\ Told(p, interval, sent, ack).localFrameSent = sent
         /\ Told(p, interval, sent, ack).localFrameLateAcked = ack
<1> DEFINE q == Told(p, interval, sent, ack)
<1>1. p \in Engine
  BY DEF Sound
<1>2. /\ q \in Engine /\ q.preference = p.preference /\ q.cells = p.cells /\ q.rows = p.rows
      /\ q.cursors = p.cursors /\ q.height = p.height /\ q.width = p.width
      /\ q.confirmedEpoch = p.confirmedEpoch /\ q.predictionEpoch = p.predictionEpoch
      /\ q.localFrameSent = sent /\ q.localFrameLateAcked = ack
  BY <1>1 DEF Engine, Told
<1> HIDE DEF q
<1>3. Sound(q)
  BY <1>1, <1>2 DEF Sound, InPlace, InEpochs, Forgetful
<1>4. \A emu : Guesses(p, emu) => Guesses(q, emu)
  BY <1>2 DEF Guesses
<1>5. LikeBefore(p, q)
  BY <1>2, <1>3, <1>4 DEF LikeBefore
<1> QED  BY <1>2, <1>5 DEF q

\* What the engine has and what the loop knows.
LEMMA EngineIs ==
  ASSUME IInv
  PROVE  /\ Sound(pe) /\ pe \in Engine /\ pe.localFrameSent \in Nat /\ pe.localFrameLateAcked \in Nat
         /\ pe.sendInterval \in {"high", "middle", "low"}
         /\ pe.localFrameLateAcked = remote.echoAck /\ pe.localFrameSent <= lastSent
         /\ \A pos \in Pos : pe.cells[pos].frame <= lastSent + 1
         /\ remote \in [screen : RealScreen, echoAck : Nat] /\ remote.echoAck <= echoAck
         /\ lastSent \in Nat /\ lastSent + Len(unsent) <= typed /\ typed \in 0..MaxKeys /\ unsent \in Seq(AllKeys)
  BY DEF IInv, Types, Numbered, Predicting, Sound, Engine

\* The timer.
LEMMA TimeoutKeeps == IInv /\ Timeout => IInv'
<1> SUFFICES ASSUME IInv, Timeout PROVE IInv'
  OBVIOUS
<1>1. Tick(unsent) /\ OutputNewFrame(pe, remote, FALSE) /\ UNCHANGED <<serverVars, printed>>
      /\ typed' = typed /\ unfounded' = unfounded
  BY DEF Timeout
<1>2. /\ ~printed => Unwritten(screen, remote.screen)
      /\ ~printed /\ ~unfounded' /\ pe.preference # "Experimental" => Guesses(pe, remote.screen)
      /\ unfounded' \in BOOLEAN
  BY <1>1 DEF IInv, Silent, Blind, Types
<1> QED  BY <1>1, <1>2, EngineIs, RoundHas

\* Predictions that were given up guess nothing.
LEMMA ResetGuesses ==
  ASSUME NEW p, Sound(p), NEW emu, Guesses(p, emu)
  PROVE  Guesses(Reset(p), emu)
<1>1. /\ SameSettings(p, Reset(p)) /\ Fewer(p, Reset(p))
      /\ Reset(p).confirmedEpoch = p.confirmedEpoch
  BY ResetHas DEF Sound
<1> QED  BY <1>1, FewerGuesses

\* The window has another size.
LEMMA ProcessResizeKeeps == IInv /\ ProcessResize => IInv'
<1> SUFFICES ASSUME IInv, ProcessResize PROVE IInv'
  OBVIOUS
<1> DEFINE p == Reset(pe)
<1>1. PICK key \in Resizes : Tick(Append(unsent, key))
  BY DEF ProcessResize
<1>2. /\ OutputNewFrame(p, remote, FALSE) /\ UNCHANGED <<serverVars, printed>>
      /\ typed' = typed + 1 /\ unfounded' = unfounded
  BY DEF ProcessResize
<1>3. typed < MaxKeys /\ key \in AllKeys
  BY EngineIs, KeysAre DEF Resizes, NextKeys
<1>4. /\ Append(unsent, key) \in Seq(AllKeys) /\ lastSent + Len(Append(unsent, key)) <= typed'
      /\ typed' \in 0..MaxKeys
  BY <1>2, <1>3, EngineIs, KeysAre
<1>5. /\ Sound(p) /\ SameSettings(pe, p) /\ \A pos \in Pos : p.cells[pos].frame <= lastSent + 1
  <2>1. Sound(p) /\ SameSettings(pe, p) /\ Fewer(pe, p)
    BY EngineIs, ResetHas DEF Sound
  <2> HIDE DEF p
  <2>2. \A pos \in Pos : p.cells[pos].frame = pe.cells[pos].frame \/ p.cells[pos].frame = 0
    BY <2>1 DEF Fewer, Gone
  <2> QED  BY <2>1, <2>2, EngineIs
<1>6. /\ ~printed => Unwritten(screen, remote.screen)
      /\ ~printed /\ ~unfounded' /\ p.preference # "Experimental" => Guesses(p, remote.screen)
      /\ unfounded' \in BOOLEAN
  <2>1. p.preference = pe.preference
    BY <1>5 DEF SameSettings
  <2>2. ~printed /\ ~unfounded' /\ pe.preference # "Experimental" => Guesses(pe, remote.screen)
    BY <1>2 DEF IInv, Blind
  <2> QED  BY <1>2, <2>1, <2>2, EngineIs, ResetGuesses DEF IInv, Silent, Types
<1>7. p.localFrameSent <= lastSent /\ p.localFrameLateAcked = remote.echoAck
  BY <1>5, EngineIs DEF SameSettings
<1> HIDE DEF p
<1> QED  BY <1>1, <1>2, <1>4, <1>5, <1>6, <1>7, EngineIs, RoundHas

\* Bulk data.
LEMMA PasteKeeps == IInv /\ Paste => IInv'
<1> SUFFICES ASSUME IInv, Paste PROVE IInv'
  OBVIOUS
<1> DEFINE m == [pe EXCEPT !.localFrameSent = lastSent]
           p == Reset(m)
<1>1. PICK key \in Pasted : Tick(Append(unsent, [key EXCEPT !.kind = "glyph"]))
  BY DEF Paste
<1> DEFINE glyph == [key EXCEPT !.kind = "glyph"]
<1>2. /\ OutputNewFrame(p, remote, FALSE) /\ UNCHANGED <<serverVars, printed>>
      /\ typed' = typed + 1 /\ unfounded' = unfounded
  BY DEF Paste
<1>3. typed < MaxKeys /\ key \in AllKeys /\ key.kind = "paste"
  BY EngineIs, KeysAre DEF Pasted, NextKeys
<1>4. glyph \in AllKeys
  BY <1>3 DEF AllKeys, GlyphKey, ResizeKey, OtherKey
<1> HIDE DEF glyph
<1>5. /\ Append(unsent, glyph) \in Seq(AllKeys) /\ lastSent + Len(Append(unsent, glyph)) <= typed'
      /\ typed' \in 0..MaxKeys
  BY <1>2, <1>3, <1>4, EngineIs, KeysAre
<1>m. /\ Sound(m) /\ m.preference = pe.preference /\ m.cells = pe.cells
      /\ m.localFrameSent = lastSent /\ m.localFrameLateAcked = pe.localFrameLateAcked
      /\ \A emu : Guesses(pe, emu) => Guesses(m, emu)
  <2>1. m = Told(pe, pe.sendInterval, lastSent, pe.localFrameLateAcked)
    BY EngineIs DEF Told, Engine
  <2> HIDE DEF m
  <2>2. /\ LikeBefore(pe, Told(pe, pe.sendInterval, lastSent, pe.localFrameLateAcked))
        /\ Told(pe, pe.sendInterval, lastSent, pe.localFrameLateAcked).localFrameSent = lastSent
        /\ Told(pe, pe.sendInterval, lastSent, pe.localFrameLateAcked).localFrameLateAcked = pe.localFrameLateAcked
    BY EngineIs, ToldHas
  <2> QED  BY <2>1, <2>2 DEF LikeBefore
<1> HIDE DEF m
<1>6. /\ Sound(p) /\ SameSettings(m, p) /\ \A pos \in Pos : p.cells[pos].frame <= lastSent + 1
  <2>1. Sound(p) /\ SameSettings(m, p) /\ Fewer(m, p)
    BY <1>m, ResetHas DEF Sound
  <2> HIDE DEF p
  <2>2. \A pos \in Pos : p.cells[pos].frame = pe.cells[pos].frame \/ p.cells[pos].frame = 0
    BY <1>m, <2>1 DEF Fewer, Gone
  <2> QED  BY <2>1, <2>2, EngineIs
<1>7. /\ ~printed => Unwritten(screen, remote.screen)
      /\ ~printed /\ ~unfounded' /\ p.preference # "Experimental" => Guesses(p, remote.screen)
      /\ unfounded' \in BOOLEAN
  <2>1. p.preference = pe.preference
    BY <1>6, <1>m DEF SameSettings
  <2>2. ~printed /\ ~unfounded' /\ pe.preference # "Experimental" => Guesses(pe, remote.screen)
    BY <1>2 DEF IInv, Blind
  <2> QED  BY <1>2, <1>m, <2>1, <2>2, EngineIs, ResetGuesses DEF IInv, Silent, Types
<1>8. p.localFrameSent <= lastSent /\ p.localFrameLateAcked = remote.echoAck
  BY <1>6, <1>m, EngineIs DEF SameSettings
<1> HIDE DEF p
<1> QED  BY <1>1, <1>2, <1>5, <1>6, <1>7, <1>8, EngineIs, RoundHas DEF glyph

\* News of the server.
LEMMA ProcessNetworkInputKeeps == IInv /\ ProcessNetworkInput => IInv'
<1> SUFFICES ASSUME IInv, ProcessNetworkInput PROVE IInv'
  OBVIOUS
<1> DEFINE rem == [screen |-> screen, echoAck |-> echoAck]
<1>1. PICK interval \in Intervals :
        /\ Tick(unsent)
        /\ OutputNewFrame([pe EXCEPT !.sendInterval = interval, !.localFrameLateAcked = echoAck],
                          rem, rem.screen # remote.screen)
        /\ UNCHANGED <<serverVars, typed, unfounded, outputs, printed>>
  BY DEF ProcessNetworkInput
<1> DEFINE p == [pe EXCEPT !.sendInterval = interval, !.localFrameLateAcked = echoAck]
<1>2. interval \in {"high", "middle", "low"}
  BY PredictionAssumption
<1>3. screen \in RealScreen /\ echoAck \in Nat
  BY DEF IInv, Types
<1>4. /\ Sound(p) /\ p.preference = pe.preference /\ p.cells = pe.cells
      /\ p.localFrameSent = pe.localFrameSent /\ p.localFrameLateAcked = echoAck
      /\ \A emu : Guesses(pe, emu) => Guesses(p, emu)
  <2>1. p = Told(pe, interval, pe.localFrameSent, echoAck)
    BY EngineIs DEF Told, Engine
  <2> HIDE DEF p
  <2>2. /\ LikeBefore(pe, Told(pe, interval, pe.localFrameSent, echoAck))
        /\ Told(pe, interval, pe.localFrameSent, echoAck).localFrameSent = pe.localFrameSent
        /\ Told(pe, interval, pe.localFrameSent, echoAck).localFrameLateAcked = echoAck
    BY <1>2, <1>3, EngineIs, ToldHas
  <2> QED  BY <2>1, <2>2 DEF LikeBefore
<1>5. OutputNewFrame(p, rem, rem.screen # remote.screen)
  BY <1>1
<1> HIDE DEF p
<1>6. rem \in [screen : RealScreen, echoAck : Nat] /\ rem.screen = screen /\ rem.echoAck = echoAck
  BY <1>3
<1> HIDE DEF rem
<1>7. ~printed => Unwritten(screen, rem.screen)
  BY <1>6 DEF IInv, Silent, Unwritten
<1>8. ~printed /\ ~unfounded' /\ p.preference # "Experimental" => Guesses(p, rem.screen)
  <2>1. SUFFICES ASSUME ~printed, ~unfounded, pe.preference # "Experimental" PROVE Guesses(pe, screen)
    BY <1>1, <1>4, <1>6
  <2>2. Guesses(pe, remote.screen) /\ Unwritten(screen, remote.screen)
    BY <2>1 DEF IInv, Blind, Silent
  <2> QED  BY <2>2 DEF Guesses, Unwritten
<1>9. unfounded' \in BOOLEAN /\ typed' = typed /\ UNCHANGED <<serverVars, printed>>
  BY <1>1 DEF IInv, Types
<1>10. rem.echoAck <= echoAck /\ (rem.screen # remote.screen) \in BOOLEAN
  BY <1>3, <1>6
<1> QED  BY <1>1, <1>4, <1>5, <1>6, <1>7, <1>8, <1>9, <1>10, EngineIs, RoundHas

\* A key.
LEMMA ProcessUserInputKeeps == IInv /\ ProcessUserInput => IInv'
<1> SUFFICES ASSUME IInv, ProcessUserInput PROVE IInv'
  OBVIOUS
<1> DEFINE m == [pe EXCEPT !.localFrameSent = lastSent]
<1>1. PICK key \in NextKeys \ (Pasted \cup Resizes), swallowed \in BOOLEAN :
        /\ typed' = typed + 1
        /\ Tick(IF swallowed THEN unsent ELSE Append(unsent, key))
        /\ \E predicted \in {NewUserInput(m, localFramebuffer, key, pace) : pace \in Paces} :
             /\ OutputNewFrame(predicted, remote, FALSE)
             /\ unfounded' = (unfounded \/ IsUnfounded(predicted, key))
        /\ UNCHANGED <<serverVars, outputs, printed>>
  BY DEF ProcessUserInput
<1>2. PICK pace \in Paces :
        /\ OutputNewFrame(NewUserInput(m, localFramebuffer, key, pace), remote, FALSE)
        /\ unfounded' = (unfounded \/ IsUnfounded(NewUserInput(m, localFramebuffer, key, pace), key))
  BY <1>1
<1> DEFINE p == NewUserInput(m, localFramebuffer, key, pace)
           keys == IF swallowed THEN unsent ELSE Append(unsent, key)
<1>3. typed < MaxKeys /\ key \in AllKeys /\ key \in Keystrokes
  BY EngineIs, KeysAre DEF Pasted, Resizes, NextKeys, Keystrokes
<1>4. /\ keys \in Seq(AllKeys) /\ lastSent + Len(keys) <= typed' /\ typed' \in 0..MaxKeys /\ Tick(keys)
  <2>1. typed' = typed + 1 /\ Tick(keys)
    BY <1>1
  <2>2. Append(unsent, key) \in Seq(AllKeys) /\ Len(Append(unsent, key)) = Len(unsent) + 1 /\ Len(unsent) \in Nat
    BY <1>3, EngineIs
  <2>3. keys \in Seq(AllKeys) /\ (Len(keys) = Len(unsent) \/ Len(keys) = Len(unsent) + 1)
    BY <2>2, EngineIs
  <2> HIDE DEF keys
  <2> QED  BY <1>3, <2>1, <2>2, <2>3, EngineIs, KeysAre
<1> HIDE DEF keys
<1>m. /\ Sound(m) /\ m.preference = pe.preference /\ m.cells = pe.cells
      /\ m.localFrameSent = lastSent /\ m.localFrameLateAcked = pe.localFrameLateAcked
      /\ \A emu : Guesses(pe, emu) => Guesses(m, emu)
  <2>1. m = Told(pe, pe.sendInterval, lastSent, pe.localFrameLateAcked)
    BY EngineIs DEF Told, Engine
  <2> HIDE DEF m
  <2>2. /\ LikeBefore(pe, Told(pe, pe.sendInterval, lastSent, pe.localFrameLateAcked))
        /\ Told(pe, pe.sendInterval, lastSent, pe.localFrameLateAcked).localFrameSent = lastSent
        /\ Told(pe, pe.sendInterval, lastSent, pe.localFrameLateAcked).localFrameLateAcked = pe.localFrameLateAcked
    BY EngineIs, ToldHas
  <2> QED  BY <2>1, <2>2 DEF LikeBefore
<1> HIDE DEF m
<1>5. localFramebuffer \in RealScreen
  BY DEF IInv, Types
<1>6. /\ Sound(p) /\ SameClient(m, p)
      /\ \A pos \in Pos : p.cells[pos].frame \in {0, m.cells[pos].frame, m.localFrameSent + 1}
      /\ Guesses(m, localFramebuffer) /\ ~IsUnfounded(p, key) => Guesses(p, localFramebuffer)
  BY <1>3, <1>5, <1>m, NewUserInputHas
<1>o. OutputNewFrame(p, remote, FALSE) /\ unfounded' = (unfounded \/ IsUnfounded(p, key))
  BY <1>2
<1> HIDE DEF p
<1>7. /\ \A pos \in Pos : p.cells[pos].frame <= lastSent + 1
      /\ p.localFrameSent <= lastSent /\ p.localFrameLateAcked = remote.echoAck
  BY <1>6, <1>m, EngineIs DEF SameClient
<1>8. /\ ~printed => Unwritten(screen, remote.screen)
      /\ ~printed /\ ~unfounded' /\ p.preference # "Experimental" => Guesses(p, remote.screen)
  <2>1. p.preference = pe.preference
    BY <1>6, <1>m DEF SameClient
  <2>2. ~printed /\ ~unfounded /\ pe.preference # "Experimental" =>
          localFramebuffer = remote.screen /\ Guesses(pe, remote.screen)
    BY DEF IInv, Blind
  <2>3. unfounded \in BOOLEAN
    BY DEF IInv, Types
  <2> QED  BY <1>6, <1>m, <1>o, <2>1, <2>2, <2>3 DEF IInv, Silent
<1>9. unfounded' \in BOOLEAN
  BY <1>o DEF IInv, Types
<1> QED  BY <1>1, <1>4, <1>6, <1>7, <1>8, <1>9, <1>o, EngineIs, RoundHas

-----------------------------------------------------------------------------
(* The server and its host.                                                *)

\* What is acknowledged grows, and what is left to acknowledge is not older.
LEMMA SetEchoAckHas ==
  ASSUME echoAck \in Nat, NEW newest \in Nat, echoAck <= newest,
         NEW history \in Seq(Nat), \A i \in DOMAIN history : history[i] \in echoAck..newest,
         NEW echo \in {"Standby", "InputReady", "EchoDone"}, NEW aged \in 0..Len(history),
         SetEchoAck(history, echo, aged)
  PROVE  /\ echoAck' \in Nat /\ echoAck <= echoAck' /\ echoAck' <= newest
         /\ inputHistory' \in Seq(Nat) /\ inputEcho' \in {"Standby", "InputReady"}
         /\ \A i \in DOMAIN inputHistory' : inputHistory'[i] \in echoAck'..newest
<1> DEFINE n == IF echo = "EchoDone" THEN Len(history) ELSE aged
<1>0. Len(history) \in Nat /\ DOMAIN history = 1..Len(history)
  OBVIOUS
<1>1. n \in 0..Len(history)
  BY <1>0
<1>2. /\ echoAck' = (IF n = 0 THEN echoAck ELSE history[n])
      /\ inputHistory' = Kept(history, {i \in DOMAIN history : history[i] >= echoAck'})
      /\ inputEcho' = (IF echo = "EchoDone" THEN "Standby" ELSE echo)
  BY DEF SetEchoAck
<1> HIDE DEF n
<1>3. echoAck' \in echoAck..newest
  BY <1>0, <1>1, <1>2
<1> DEFINE some == {i \in DOMAIN history : history[i] >= echoAck'}
<1>4. \A i \in some : history[i] \in echoAck'..newest
  BY <1>0, <1>3
<1>5. inputHistory' = Kept(history, some)
  BY <1>2
<1> HIDE DEF some
<1>6. /\ inputHistory' \in Seq(Nat)
      /\ \A j \in DOMAIN inputHistory' : \E i \in DOMAIN history : i \in some /\ inputHistory'[j] = history[i]
  BY <1>5, KeptHas
<1>7. \A j \in DOMAIN inputHistory' : inputHistory'[j] \in echoAck'..newest
  BY <1>4, <1>6
<1> QED  BY <1>2, <1>3, <1>6, <1>7

\* What the host has not written stays so.
LEMMA QuietIsUnwritten ==
  ASSUME NEW s, NEW t, NEW rem, Quiet(s, t), Unwritten(s, rem)
  PROVE  Unwritten(t, rem)
  BY BlankIsCell DEF Quiet, Unwritten

\* A step of the server.
LEMMA ServedHas ==
  ASSUME IInv, UNCHANGED clientVars, screen' \in RealScreen, hostInput' \in Seq(AllKeys),
         inFlight' \in Seq(Frame), lastRemoteNum' \in Nat, lastRemoteNum' <= lastSent,
         \A i \in DOMAIN inFlight' : inFlight'[i].num \in lastRemoteNum' + 1..lastSent,
         \A i, j \in DOMAIN inFlight' : i < j => inFlight'[i].num < inFlight'[j].num,
         echoAck' \in Nat, echoAck <= echoAck', echoAck' <= lastRemoteNum',
         inputHistory' \in Seq(Nat), inputEcho' \in {"Standby", "InputReady"},
         \A i \in DOMAIN inputHistory' : inputHistory'[i] \in echoAck'..lastRemoteNum',
         printed' \in BOOLEAN, ~printed' => ~printed /\ Quiet(screen, screen')
  PROVE  IInv'
<1>1. /\ pe' = pe /\ localFramebuffer' = localFramebuffer /\ remote' = remote /\ unsent' = unsent
      /\ lastSent' = lastSent /\ typed' = typed /\ unfounded' = unfounded
  BY DEF clientVars
<1>2. Types'
  BY <1>1 DEF IInv, Types
<1>3. Numbered'
  <2>1. remote.echoAck \in Nat /\ remote.echoAck <= echoAck /\ echoAck \in Nat
    BY DEF IInv, Types, Numbered
  <2>2. remote'.echoAck <= echoAck'
    BY <1>1, <2>1
  <2>3. lastSent' + Len(unsent') <= typed'
    BY <1>1 DEF IInv, Numbered
  <2> QED  BY <1>1, <2>2, <2>3 DEF Numbered
<1>4. Predicting'
  BY <1>1 DEF IInv, Predicting, OnlyUnansweredRemain, Predicted
<1>5. Silent'
  <2>1. SUFFICES ASSUME ~printed' PROVE Unwritten(screen', remote'.screen)
    BY DEF Silent
  <2> QED  BY <1>1, <2>1, QuietIsUnwritten DEF IInv, Silent
<1>6. Blind'
  BY <1>1 DEF IInv, Blind
<1> QED  BY <1>2, <1>3, <1>4, <1>5, <1>6 DEF IInv

\* ECHO_TIMEOUT.
LEMMA ServeTimeoutKeeps == IInv /\ ServeTimeout => IInv'
<1> SUFFICES ASSUME IInv, ServeTimeout PROVE IInv'
  OBVIOUS
<1>1. PICK aged \in 0..Len(inputHistory) : SetEchoAck(inputHistory, inputEcho, aged)
  BY DEF ServeTimeout
<1>2. /\ UNCHANGED clientVars /\ inFlight' = inFlight /\ screen' = screen
      /\ lastRemoteNum' = lastRemoteNum /\ hostInput' = hostInput /\ printed' = printed
  BY DEF ServeTimeout
<1>3. Types /\ Numbered
  BY DEF IInv
<1>4. /\ echoAck' \in Nat /\ echoAck <= echoAck' /\ echoAck' <= lastRemoteNum
      /\ inputHistory' \in Seq(Nat) /\ inputEcho' \in {"Standby", "InputReady"}
      /\ \A i \in DOMAIN inputHistory' : inputHistory'[i] \in echoAck'..lastRemoteNum
  BY <1>1, <1>3, SetEchoAckHas DEF Types, Numbered
<1>5. Quiet(screen, screen')
  BY <1>2 DEF Quiet
<1> QED  BY <1>2, <1>3, <1>4, <1>5, ServedHas DEF Types, Numbered

\* The host reads a key and says nothing.
LEMMA HostIsSilentKeeps == IInv /\ HostIsSilent => IInv'
<1> SUFFICES ASSUME IInv, HostIsSilent PROVE IInv'
  OBVIOUS
<1>1. /\ UNCHANGED clientVars /\ inFlight' = inFlight /\ screen' = screen /\ echoAck' = echoAck
      /\ inputHistory' = inputHistory /\ inputEcho' = inputEcho /\ lastRemoteNum' = lastRemoteNum
      /\ hostInput' = Tail(hostInput) /\ hostInput # <<>> /\ printed' = printed
  BY DEF HostIsSilent
<1>2. Types /\ Numbered
  BY DEF IInv
<1>3. hostInput' \in Seq(AllKeys) /\ Quiet(screen, screen')
  BY <1>1, <1>2 DEF Types, Quiet
<1> QED  BY <1>1, <1>2, <1>3, ServedHas DEF Types, Numbered

\* The screen changes.
LEMMA ServeOutputHas ==
  ASSUME IInv, NEW after \in RealScreen, ServeOutput(after), hostInput' \in Seq(AllKeys),
         printed' \in BOOLEAN, ~printed' => ~printed /\ Quiet(screen, after)
  PROVE  IInv'
<1> DEFINE echo == IF inputEcho = "InputReady" THEN "EchoDone" ELSE inputEcho
<1>1. PICK aged \in 0..Len(inputHistory) : SetEchoAck(inputHistory, echo, aged)
  BY DEF ServeOutput
<1>2. /\ UNCHANGED clientVars /\ inFlight' = inFlight /\ screen' = after /\ lastRemoteNum' = lastRemoteNum
  BY DEF ServeOutput
<1>3. Types /\ Numbered
  BY DEF IInv
<1>4. echo \in {"Standby", "InputReady", "EchoDone"}
  BY <1>3 DEF Types
<1> HIDE DEF echo
<1>5. /\ echoAck' \in Nat /\ echoAck <= echoAck' /\ echoAck' <= lastRemoteNum
      /\ inputHistory' \in Seq(Nat) /\ inputEcho' \in {"Standby", "InputReady"}
      /\ \A i \in DOMAIN inputHistory' : inputHistory'[i] \in echoAck'..lastRemoteNum
  BY <1>1, <1>3, <1>4, SetEchoAckHas DEF Types, Numbered
<1> QED  BY <1>2, <1>3, <1>5, ServedHas DEF Types, Numbered

LEMMA HostEchoesKeeps == IInv /\ HostEchoes => IInv'
<1> SUFFICES ASSUME IInv, HostEchoes PROVE IInv'
  OBVIOUS
<1> DEFINE key == Head(hostInput)
<1>1. /\ hostInput # <<>> /\ ServeOutput(Echoed(screen, key)) /\ hostInput' = Tail(hostInput)
      /\ printed' = (printed \/ key.kind = "glyph")
  BY DEF HostEchoes
<1>2. hostInput \in Seq(AllKeys) /\ screen \in RealScreen /\ printed \in BOOLEAN
  BY DEF IInv, Types
<1>3. key \in AllKeys /\ hostInput' \in Seq(AllKeys)
  BY <1>1, <1>2
<1> HIDE DEF key
<1>4. Echoed(screen, key) \in RealScreen /\ (key.kind # "glyph" => Quiet(screen, Echoed(screen, key)))
  BY <1>2, <1>3, EchoedIsReal
<1> QED  BY <1>1, <1>2, <1>3, <1>4, ServeOutputHas

LEMMA HostOutputsKeeps == IInv /\ HostOutputs => IInv'
<1> SUFFICES ASSUME IInv, HostOutputs PROVE IInv'
  OBVIOUS
<1> DEFINE cleared == [screen EXCEPT !.cells = [pos \in Pos |-> Blank]]
<1>1. hostInput' = hostInput /\ printed' = printed
  BY DEF HostOutputs
<1>2. hostInput \in Seq(AllKeys) /\ screen \in RealScreen /\ printed \in BOOLEAN
  BY DEF IInv, Types
<1>3. CASE ServeOutput(Newline(screen))
  <2>1. Newline(screen) \in RealScreen /\ Quiet(screen, Newline(screen))
    BY <1>2, NewlineIsReal DEF Quiet
  <2> QED  BY <1>1, <1>2, <1>3, <2>1, ServeOutputHas
<1>4. CASE ServeOutput(cleared)
  <2>1. cleared \in RealScreen /\ Quiet(screen, cleared)
    BY <1>2, ClearedIsReal
  <2> HIDE DEF cleared
  <2> QED  BY <1>1, <1>2, <1>4, <2>1, ServeOutputHas
<1> QED  BY <1>3, <1>4 DEF HostOutputs

\* Frames arrive: their keys are for the host, or resize the screen.
LEMMA ServeInputKeeps == IInv /\ ServeInput => IInv'
<1> SUFFICES ASSUME IInv, ServeInput PROVE IInv'
  OBVIOUS
<1> DEFINE keysOf(n)    == FlattenSeq([i \in 1..n |-> inFlight[i].keys])
           resizesOf(k) == {i \in DOMAIN k : k[i].kind = "resize"}
           sizesOf(k)   == Kept(k, resizesOf(k))
           forHostOf(k) == Kept(k, DOMAIN k \ resizesOf(k))
           echoOf(k)    == IF forHostOf(k) # <<>> /\ inputEcho = "Standby" THEN "InputReady" ELSE inputEcho
<1>1. PICK n \in 1..Len(inFlight), aged \in 0..Len(inputHistory) :
        /\ inFlight' = SubSeq(inFlight, n + 1, Len(inFlight))
        /\ lastRemoteNum' = inFlight[n].num
        /\ screen' = IF sizesOf(keysOf(n)) = <<>> THEN screen
                     ELSE Resize(screen, Last(sizesOf(keysOf(n))).h, Last(sizesOf(keysOf(n))).w)
        /\ hostInput' = hostInput \o forHostOf(keysOf(n))
        /\ SetEchoAck(Append(inputHistory, inFlight[n].num), echoOf(keysOf(n)), aged)
        /\ UNCHANGED <<clientVars, outputs, printed>>
  BY DEF ServeInput
<1> DEFINE keys == keysOf(n)
           num  == inFlight[n].num
           sizes == sizesOf(keys)
           forHost == forHostOf(keys)
           echo == echoOf(keys)
           history == Append(inputHistory, num)
<1>2. /\ Types /\ Numbered /\ inFlight \in Seq(Frame) /\ Len(inFlight) \in Nat
      /\ lastRemoteNum \in Nat /\ lastSent \in Nat /\ echoAck \in Nat /\ echoAck <= lastRemoteNum
      /\ inputHistory \in Seq(Nat) /\ Len(inputHistory) \in Nat
      /\ \A i \in DOMAIN inputHistory : inputHistory[i] \in echoAck..lastRemoteNum
  BY DEF IInv, Types, Numbered
<1>3. keys \in Seq(AllKeys)
  <2>1. \A i \in 1..n : inFlight[i] \in Frame
    BY <1>2
  <2>2. \A i \in 1..n : inFlight[i].keys \in Seq(AllKeys)
    BY <2>1 DEF Frame
  <2>3. [i \in 1..n |-> inFlight[i].keys] \in Seq(Seq(AllKeys))
    BY <2>2
  <2> QED  BY <2>3, FlattenHas
<1>4. num \in Nat /\ lastRemoteNum < num /\ num <= lastSent
  BY <1>2 DEF Numbered
<1> HIDE DEF keysOf, keys, num
<1>5. screen' \in RealScreen /\ Quiet(screen, screen')
  <2> DEFINE resizes == resizesOf(keys)
  <2>1. /\ sizes \in Seq(AllKeys)
        /\ \A j \in DOMAIN sizes : \E i \in DOMAIN keys : i \in resizes /\ sizes[j] = keys[i]
    <3>1. sizes = Kept(keys, resizes)
      OBVIOUS
    <3> HIDE DEF sizes, resizes
    <3> QED  BY <1>3, <3>1, KeptHas
  <2>2. screen \in RealScreen
    BY <1>2 DEF Types
  <2>3. screen' = IF sizes = <<>> THEN screen ELSE Resize(screen, Last(sizes).h, Last(sizes).w)
    BY <1>1 DEF keys
  <2>4. \A j \in DOMAIN sizes : sizes[j] \in AllKeys /\ sizes[j].kind = "resize"
    BY <1>3, <2>1
  <2> HIDE DEF sizes
  <2>5. CASE sizes = <<>>
    BY <2>2, <2>3, <2>5 DEF Quiet
  <2>6. CASE sizes # <<>>
    <3> DEFINE size == Last(sizes)
    <3>1. Len(sizes) \in Nat /\ Len(sizes) \in DOMAIN sizes /\ size = sizes[Len(sizes)]
      BY <2>1, <2>6 DEF Last
    <3>2. size \in AllKeys /\ size.kind = "resize"
      BY <2>4, <3>1
    <3>3. screen' = Resize(screen, size.h, size.w)
      BY <2>3, <2>6
    <3> HIDE DEF size
    <3>4. size \in ResizeKey
      BY <3>2 DEF AllKeys, GlyphKey, ResizeKey, OtherKey
    <3>5. size.h \in 1..MaxHeight /\ size.w \in 1..MaxWidth
      BY <3>4 DEF ResizeKey
    <3> QED  BY <2>2, <3>3, <3>5, ResizeIsReal
  <2> QED  BY <2>5, <2>6
<1>6. hostInput' \in Seq(AllKeys)
  <2>1. forHost \in Seq(AllKeys)
    BY <1>3, KeptHas
  <2>2. hostInput' = hostInput \o forHost /\ hostInput \in Seq(AllKeys)
    BY <1>1, <1>2 DEF Types, keys
  <2> HIDE DEF forHost
  <2> QED  BY <2>1, <2>2
<1>7. /\ echoAck' \in Nat /\ echoAck <= echoAck' /\ echoAck' <= num
      /\ inputHistory' \in Seq(Nat) /\ inputEcho' \in {"Standby", "InputReady"}
      /\ \A i \in DOMAIN inputHistory' : inputHistory'[i] \in echoAck'..num
  <2>1. SetEchoAck(history, echo, aged) /\ aged \in 0..Len(inputHistory)
    BY <1>1 DEF keys, num
  <2>2. echo \in {"Standby", "InputReady", "EchoDone"}
    BY <1>2 DEF Types
  <2> HIDE DEF echo
  <2>3. history \in Seq(Nat) /\ Len(history) = Len(inputHistory) + 1
    BY <1>2, <1>4
  <2>4. \A i \in DOMAIN history : history[i] \in echoAck..num
    BY <1>2, <1>4
  <2> HIDE DEF history
  <2>5. echoAck <= num /\ aged \in 0..Len(history)
    BY <1>2, <1>4, <2>1, <2>3
  <2> QED  BY <1>2, <1>4, <2>1, <2>2, <2>3, <2>4, <2>5, SetEchoAckHas
<1>8. inFlight' = SubSeq(inFlight, n + 1, Len(inFlight)) /\ lastRemoteNum' = num
  BY <1>1 DEF num
<1>9. /\ inFlight' \in Seq(Frame)
      /\ \A i \in DOMAIN inFlight' : i \in Nat /\ n + i \in DOMAIN inFlight /\ inFlight'[i] = inFlight[n + i]
  <2>1. n \in 1..Len(inFlight)
    OBVIOUS
  <2> QED  BY <1>2, <1>8, <2>1
<1>10. /\ \A i \in DOMAIN inFlight' : inFlight'[i].num \in num + 1..lastSent
       /\ \A i, j \in DOMAIN inFlight' : i < j => inFlight'[i].num < inFlight'[j].num
  <2>1. /\ n \in DOMAIN inFlight /\ n \in Nat
        /\ \A i \in DOMAIN inFlight : inFlight[i].num \in Nat /\ inFlight[i].num <= lastSent
        /\ \A i, j \in DOMAIN inFlight : i < j => inFlight[i].num < inFlight[j].num
    BY <1>2 DEF Numbered
  <2>2. ASSUME NEW i \in DOMAIN inFlight' PROVE inFlight'[i].num \in num + 1..lastSent
    <3>1. i \in Nat /\ n + i \in DOMAIN inFlight /\ inFlight'[i] = inFlight[n + i]
      BY <1>9
    <3>2. i # 0
      BY <1>9
    <3>3. n < n + i
      BY <2>1, <3>1, <3>2
    <3>4. inFlight[n].num < inFlight[n + i].num
      BY <2>1, <3>1, <3>3
    <3> QED  BY <1>2, <1>4, <2>1, <3>1, <3>4 DEF num
  <2>3. ASSUME NEW i \in DOMAIN inFlight', NEW j \in DOMAIN inFlight', i < j
        PROVE  inFlight'[i].num < inFlight'[j].num
    <3>1. i \in Nat /\ j \in Nat /\ n + i < n + j
      BY <1>9, <2>1, <2>3
    <3> QED  BY <1>9, <2>1, <3>1
  <2> QED  BY <2>2, <2>3
<1>11. /\ UNCHANGED clientVars /\ printed' = printed /\ printed \in BOOLEAN
  BY <1>1, <1>2 DEF Types
<1> QED  BY <1>4, <1>5, <1>6, <1>7, <1>8, <1>9, <1>10, <1>11, ServedHas

-----------------------------------------------------------------------------
(* The client and the server together.                                     *)

LEMMA NewEngineIs ==
  ASSUME NEW mode \in Modes
  PROVE  /\ Sound(NewPredictionEngine(mode[1], mode[2]))
         /\ NewPredictionEngine(mode[1], mode[2]).preference \in Preferences
         /\ NewPredictionEngine(mode[1], mode[2]).localFrameSent = 0
         /\ NewPredictionEngine(mode[1], mode[2]).localFrameLateAcked = 0
         /\ NewPredictionEngine(mode[1], mode[2]).cells = NoCells
         /\ NewPredictionEngine(mode[1], mode[2]).confirmedEpoch = 0
<1> DEFINE p == NewPredictionEngine(mode[1], mode[2])
<1>1. mode[1] \in Preferences /\ mode[2] \in BOOLEAN
  BY PredictionAssumption DEF Preferences
<1>2. NoCells \in [Pos -> CellPrediction]
  BY NoCellsHas
<1>3. 0 \in 0..2 * RepairCount
  BY EngineAssumption
<1>4. p \in Engine
  BY <1>1, <1>2, <1>3 DEF Engine, NewPredictionEngine
<1>5. /\ p.cells = NoCells /\ p.cursors = <<>> /\ p.confirmedEpoch = 0 /\ p.predictionEpoch = 1
      /\ p.preference = mode[1] /\ p.localFrameSent = 0 /\ p.localFrameLateAcked = 0
  BY DEF NewPredictionEngine
<1> HIDE DEF p
<1>6. \A pos \in Pos : ~p.cells[pos].active /\ p.cells[pos].orig = {}
  BY <1>5, NoCellsHas DEF Gone
<1>7. Sound(p)
  BY <1>4, <1>5, <1>6 DEF Sound, InPlace, InEpochs, Forgetful
<1> QED  BY <1>1, <1>5, <1>7 DEF p

LEMMA NewScreenIs ==
  ASSUME NEW t \in Texts
  PROVE  NewScreen(t) \in RealScreen /\ \A pos \in Pos : Narrow(NewScreen(t).cells[pos])
<1> DEFINE cells == [pos \in Pos |-> IF pos[1] = 0 /\ pos[2] < Size[2] THEN Text(t) ELSE Blank]
<1>1. Text(t) \in Cell /\ Narrow(Text(t))
  BY PredictionAssumption DEF Text, Blank, Cell, Narrow
<1>2. cells \in [Pos -> Cell] /\ \A pos \in Pos : Narrow(cells[pos])
  BY <1>1, BlankIsCell
<1>3. NewScreen(t) = [h |-> Size[1], w |-> Size[2], row |-> 0, col |-> 0, cells |-> cells]
  BY DEF NewScreen
<1>4. Size[1] \in 1..MaxHeight /\ Size[2] \in 1..MaxWidth
  BY PredictionAssumption
<1> HIDE DEF cells
<1>5. 0 \in 0..MaxHeight - 1 /\ 0 \in 0..MaxWidth - 1 /\ 0 < Size[1] /\ 0 < Size[2]
  BY <1>4, EngineAssumption
<1> QED  BY <1>2, <1>3, <1>4, <1>5 DEF RealScreen, Screen

LEMMA InitHas == Init => IInv
<1> SUFFICES ASSUME Init PROVE IInv
  OBVIOUS
<1>1. PICK mode \in Modes, t \in Texts :
        /\ screen = NewScreen(t) /\ localFramebuffer = screen
        /\ remote = [screen |-> screen, echoAck |-> 0]
        /\ pe = Cull(NewPredictionEngine(mode[1], mode[2]), screen, "quick")
        /\ unsent = <<>> /\ lastSent = 0 /\ inFlight = <<>>
        /\ echoAck = 0 /\ inputHistory = <<>> /\ inputEcho = "Standby" /\ lastRemoteNum = 0
        /\ hostInput = <<>> /\ typed = 0 /\ outputs = 0 /\ printed = FALSE /\ unfounded = FALSE
  BY DEF Init
<1>2. screen \in RealScreen /\ \A pos \in Pos : Narrow(screen.cells[pos])
  BY <1>1, NewScreenIs
<1>r. remote.screen = screen /\ remote.echoAck = 0 /\ remote \in [screen : RealScreen, echoAck : Nat]
  BY <1>1, <1>2
<1> DEFINE p == NewPredictionEngine(mode[1], mode[2])
<1>3. /\ Sound(p) /\ p.localFrameSent = 0 /\ p.localFrameLateAcked = 0
      /\ p.cells = NoCells /\ p.confirmedEpoch = 0
  BY NewEngineIs
<1>4. pe = Cull(p, screen, "quick")
  BY <1>1
<1> HIDE DEF p
<1>5. /\ Sound(pe) /\ SameMode(p, pe) /\ Fewer(p, pe)
      /\ p.preference # "Never" => FitsScreen(pe, screen)
      /\ UnansweredCursors(pe) /\ \A pos \in Pos : Unanswered(pe, pos)
      /\ Guesses(p, screen) => Guesses(pe, screen)
  BY <1>2, <1>3, <1>4, CullHas
<1>6. \A pos \in Pos : ~p.cells[pos].active /\ p.cells[pos].frame = 0 /\ Narrow(p.cells[pos].repl)
  <2>1. \A pos \in Pos : Gone(Inactive(Blank), NoCells[pos])
    BY NoCellsHas
  <2> QED  BY <1>3, <2>1, BlankIsCell DEF Gone, Inactive
<1>7. \A pos \in Pos : ~pe.cells[pos].active /\ pe.cells[pos].frame = 0
  BY <1>5, <1>6 DEF Fewer, Gone
<1>8. p.preference # "Experimental" => Guesses(p, screen)
  BY <1>2, <1>3, <1>6 DEF Guesses
<1>9. Types
  <2>1. 0 \in 0..MaxKeys
    BY KeysAre
  <2>2. <<>> \in Seq(AllKeys) /\ <<>> \in Seq(Frame) /\ <<>> \in Seq(Nat)
    OBVIOUS
  <2>3. {screen, localFramebuffer} \subseteq RealScreen
    BY <1>1, <1>2
  <2> HIDE DEF p
  <2> QED  BY <1>1, <1>r, <2>1, <2>2, <2>3, Zenon DEF Types
<1>10. Numbered
  BY <1>1, <1>r DEF Numbered
<1>11. Predicting
  <2>1. OnlyUnansweredRemain
    <3>1. Predicted = {} /\ localFramebuffer = remote.screen
      BY <1>1, <1>7, <1>r DEF Predicted
    <3>2. DOMAIN pe.cursors = 1..Len(pe.cursors)
      BY <1>5 DEF Sound, Engine
    <3>3. pe.localFrameLateAcked = 0
      BY <1>3, <1>5 DEF SameMode
    <3> QED  BY <1>5, <1>r, <3>1, <3>2, <3>3 DEF OnlyUnansweredRemain, UnansweredCursors
  <2> QED  BY <1>1, <1>3, <1>5, <1>7, <1>r, <2>1 DEF Predicting, SameMode
<1>12. Silent
  BY <1>2, <1>r DEF Silent, Unwritten
<1>13. Blind
  BY <1>1, <1>5, <1>8, <1>r DEF Blind, SameMode
<1> QED  BY <1>9, <1>10, <1>11, <1>12, <1>13 DEF IInv

LEMMA NextKeeps == IInv /\ [Next]_vars => IInv'
<1> SUFFICES ASSUME IInv, [Next]_vars PROVE IInv'
  OBVIOUS
<1>1. CASE UNCHANGED vars
  <2>1. /\ pe' = pe /\ localFramebuffer' = localFramebuffer /\ remote' = remote /\ unsent' = unsent
        /\ lastSent' = lastSent /\ inFlight' = inFlight /\ screen' = screen /\ echoAck' = echoAck
        /\ inputHistory' = inputHistory /\ inputEcho' = inputEcho /\ lastRemoteNum' = lastRemoteNum
        /\ hostInput' = hostInput /\ typed' = typed /\ printed' = printed /\ unfounded' = unfounded
    BY <1>1 DEF vars, clientVars, serverVars
  <2> QED  BY <2>1 DEF IInv, Types, Numbered, Predicting, Silent, Blind, OnlyUnansweredRemain, Predicted
<1>2. CASE ClientNext
  BY <1>2, ProcessNetworkInputKeeps, TimeoutKeeps, ProcessUserInputKeeps, PasteKeeps, ProcessResizeKeeps
     DEF ClientNext
<1>3. CASE HostNext
  BY <1>3, HostEchoesKeeps, HostIsSilentKeeps, HostOutputsKeeps DEF HostNext
<1> QED  BY <1>1, <1>2, <1>3, ServeInputKeeps, ServeTimeoutKeeps DEF Next

\* The inductive invariant: the engine is sound, whatever the user typed and the
\* server answered, and while the host is silent its screen and the predictions
\* are such that none of them can be confirmed.
THEOREM Invariance == Spec => []IInv
  BY InitHas, NextKeeps, PTL DEF Spec

\* client.go, server.go and overlay.go keep their state within its types; a frame
\* is acknowledged (SetEchoAck) only after it was received and sent.
THEOREM TypeCorrect == Spec => []TypeOK
<1>1. IInv => TypeOK
  <2> SUFFICES ASSUME IInv PROVE TypeOK
    OBVIOUS
  <2>1. /\ Types /\ Numbered /\ Sound(pe) /\ \A pos \in Pos : pe.cells[pos].frame <= lastSent + 1
    BY DEF IInv, Predicting
  <2>2. {screen, localFramebuffer, remote.screen} \subseteq Screen
    BY <2>1 DEF Types, RealScreen
  <2>3. lastSent \in 0..MaxKeys
    BY <2>1, KeysAre DEF Types, Numbered
  <2>4. /\ lastRemoteNum \in 0..lastSent /\ echoAck \in 0..lastRemoteNum /\ remote.echoAck \in 0..echoAck
        /\ inputEcho \in {"Standby", "InputReady"}
    BY <2>1 DEF Types, Numbered
  <2>5. \A i \in 1..Len(inputHistory) : inputHistory[i] \in 0..lastRemoteNum
    BY <2>1 DEF Types, Numbered
  <2>6. /\ pe \in Engine /\ pe.confirmedEpoch <= pe.predictionEpoch
    BY <2>1 DEF Sound, InEpochs
  <2>7. \A pos \in Pos : pe.cells[pos] \in CellPrediction
    BY <2>6 DEF Engine
  <2>8. \A pos \in Pos : pe.cells[pos].frame \in Frames /\ pe.cells[pos].repl \in Cell
    BY <2>1, <2>7 DEF CellPrediction, Frames, Types
  <2> QED  BY <2>2, <2>3, <2>4, <2>5, <2>6, <2>8 DEF TypeOK, Engine
<1> QED  BY <1>1, Invariance, PTL

\* overlay.go, NewUserInput and its handlers: the row and column of a prediction,
\* and of the predicted cursor they index the screen with, are on that screen,
\* whatever its size and however it was changed.
THEOREM PredictionsAlwaysFit == Spec => []PredictionsFit
<1>1. IInv => PredictionsFit
  <2> SUFFICES ASSUME IInv PROVE PredictionsFit
    OBVIOUS
  <2>1. /\ pe \in Engine /\ InPlace(pe) /\ (pe.preference # "Never" => FitsScreen(pe, remote.screen))
        /\ localFramebuffer.h = remote.screen.h /\ localFramebuffer.w = remote.screen.w
    BY DEF IInv, Predicting, Sound
  <2>2. pe.preference # "Never" => pe.height = localFramebuffer.h /\ pe.width = localFramebuffer.w
    BY <2>1 DEF FitsScreen
  <2>3. /\ localFramebuffer.h \in Nat /\ localFramebuffer.w \in Nat
        /\ \A pos \in Pos : pos[1] \in Nat /\ pos[2] \in Nat
    <3>1. localFramebuffer \in Screen /\ MaxHeight \in Nat /\ MaxWidth \in Nat
      BY EngineAssumption DEF IInv, Types, RealScreen
    <3>2. localFramebuffer.h \in 1..MaxHeight /\ localFramebuffer.w \in 1..MaxWidth
      BY <3>1 DEF Screen
    <3> QED  BY <3>1, <3>2 DEF Pos
  <2>4. DOMAIN pe.cursors = 1..Len(pe.cursors) /\ \A i \in DOMAIN pe.cursors : pe.cursors[i] \in CursorPrediction
    BY <2>1 DEF Engine
  <2>5. \A i \in DOMAIN pe.cursors : pe.cursors[i].row \in Nat /\ pe.cursors[i].col \in Nat
    BY <2>4, EngineAssumption DEF CursorPrediction
  <2>6. \A i \in 1..Len(pe.cursors) : ~Outside(pe.cursors[i].row, pe.cursors[i].col, localFramebuffer)
    BY <2>1, <2>2, <2>3, <2>4, <2>5 DEF InPlace, Outside
  <2>7. \A pos \in Predicted : ~Outside(pos[1], pos[2], localFramebuffer)
    BY <2>1, <2>2, <2>3 DEF InPlace, Outside, Predicted
  <2> QED  BY <2>2, <2>6, <2>7 DEF PredictionsFit
<1> QED  BY <1>1, Invariance, PTL

\* overlay.go, cull in outputNewFrame: what the user sees differs from the
\* server's screen only where a prediction is for a frame not answered yet.
THEOREM OnlyUnansweredEverRemain == Spec => []OnlyUnansweredRemain
<1>1. IInv => OnlyUnansweredRemain
  BY DEF IInv, Predicting
<1> QED  BY <1>1, Invariance, PTL

\* overlay.go:615, an epoch begins tentatively: while the host prints nothing,
\* nothing the user types appears, for every screen and every text on it.
THEOREM NothingIsEverShownBlindly == Spec => []NothingIsShownBlindly
<1>1. IInv => NothingIsShownBlindly
  BY DEF IInv, Blind, NothingIsShownBlindly
<1> QED  BY <1>1, Invariance, PTL
=============================================================================
