-------------------------- MODULE Keystrokes_proofs --------------------------
(***************************************************************************)
(* A client that sends what its user types and the sizes of the user's     *)
(* window (UserStream) over SSP: the difference under way turns the stream *)
(* it refers to into the stream it announces, as sender.go:381 verifies,   *)
(* whatever has been lost, acknowledged, thrown away or subtracted, unless *)
(* it holds a keystroke that comes straight after a resize.                *)
(***************************************************************************)
EXTENDS MCSSP, SSP_proofs

\* The runes of one grapheme: one that stands alone, and those that attach to it.
Cluster ==
  {c \in Seq(Rune) : c # <<>> /\ c[1] \notin Combining /\ \A i \in 2..Len(c) : c[i] \in Combining}

Typed == {US!UserByte(c) : c \in Cluster}

\* What the user does: graphemes typed, sizes given to the window.
UserInput == Typed \cup {US!Resize(z) : z \in Size}

-----------------------------------------------------------------------------
(* The folds of UserStream, as instances of Folding.                       *)

OpAdd(p, um, ue)    == US!AddInstruction(um, ue)
OpCut(p, cs, r)     == IF cs # <<>> /\ r \in Combining
                       THEN Front(cs) \o <<Append(Last(cs), r)>> ELSE Append(cs, <<r>>)
OpApply(p, s, inst) == s \o US!ReceivedEvents(inst)
Whatever(p, a, b)   == TRUE

Adding   == INSTANCE Folding WITH op <- OpAdd, Rel <- Whatever
Cutting  == INSTANCE Folding WITH op <- OpCut, Rel <- Whatever
Applying == INSTANCE Folding WITH op <- OpApply, Rel <- Whatever

LEMMA TheFolds ==
  /\ \A s : FoldLeft(US!AddInstruction, <<>>, s) = Adding!Folded(0, <<>>, s)
  /\ \A k : US!Graphemes(k) = Cutting!Folded(0, <<>>, k)
  /\ \A u, d : US!ApplyString(u, d) = Applying!Folded(0, u, d)
<1>1. ASSUME NEW s PROVE FoldLeft(US!AddInstruction, <<>>, s) = Adding!Folded(0, <<>>, s)
  BY DEF FoldLeft, MapThenFoldSet, Max, Adding!Newest, Adding!FoldedBy, Adding!Folded, OpAdd
<1>2. ASSUME NEW k PROVE US!Graphemes(k) = Cutting!Folded(0, <<>>, k)
  BY DEF US!Graphemes, US!FoldLeft, US!MapThenFoldSet, US!Max, US!Front, US!Last, Front, Last, Cutting!Newest, Cutting!FoldedBy, Cutting!Folded, OpCut
<1>3. ASSUME NEW u, NEW d PROVE US!ApplyString(u, d) = Applying!Folded(0, u, d)
  BY DEF US!ApplyString, US!FoldLeft, US!MapThenFoldSet, US!Max, Applying!Newest, Applying!FoldedBy, Applying!Folded, OpApply
<1> QED  BY <1>1, <1>2, <1>3

\* State numbers (state.num) compare as naturals do: for the steps that leave
\* the numbers of the client's and the server's states unexpanded.
LEMMA Transitive == \A a, b, c \in Nat : a <= b /\ b <= c => a <= c
  OBVIOUS

\* A number no larger than the last one sent is one of the numbers up to it.
LEMMA UpToLast == \A n, m \in Nat : n <= m => n \in 0..m
  OBVIOUS

\* The last of a sequence that something was appended to, and the rest.
LEMMA LastOfAppend ==
  ASSUME NEW S, NEW s \in Seq(S), NEW x \in S
  PROVE  Last(Append(s, x)) = x /\ Front(Append(s, x)) = s /\ Append(s, x) # <<>>
<1> DEFINE t == Append(s, x)
           f == SubSeq(t, 1, Len(s))
<1>1. /\ t \in Seq(S) /\ t # <<>> /\ Len(t) = Len(s) + 1 /\ Len(s) \in Nat /\ t[Len(s) + 1] = x
      /\ \A i \in 1..Len(s) : t[i] = s[i] /\ s[i] \in S
  BY AppendProperties, LenProperties, ElementOfSeq
<1> HIDE DEF t
<1>2. f \in Seq(S) /\ Len(f) = Len(s) /\ \A i \in 1..Len(s) : f[i] = s[i]
  <2>1. \A i \in 1..Len(s) : t[i] \in S
    BY <1>1
  <2>2. /\ f \in Seq(S) /\ Len(f) = IF 1 <= Len(s) THEN Len(s) - 1 + 1 ELSE 0
        /\ \A i \in 1..Len(s) - 1 + 1 : f[i] = t[1 + i - 1]
    BY <1>1, <2>1, SubSeqProperties
  <2> HIDE DEF f
  <2> QED  BY <1>1, <2>2
<1> HIDE DEF f
<1>3. f = s
  BY <1>2, SeqEqual
<1>4. Len(t) - 1 = Len(s)
  BY <1>1
<1> QED  BY <1>1, <1>3, <1>4 DEF Front, Last, t, f

\* What a sequence that something was appended to holds.
LEMMA AppendElements ==
  ASSUME NEW S, NEW s \in Seq(S), NEW x, NEW t, t = Append(s, x)
  PROVE  \A i \in DOMAIN t : t[i] = x \/ \E j \in DOMAIN s : t[i] = s[j]
<1> DEFINE U == S \cup {x}
<1>1. Len(s) \in Nat /\ DOMAIN s = 1..Len(s) /\ s \in [1..Len(s) -> S]
  BY LenProperties
<1>2. s \in Seq(U) /\ x \in U
  <2>1. s \in [1..Len(s) -> U]
    BY <1>1
  <2> HIDE DEF U
  <2>2. s \in Seq(U)
    BY <1>1, <2>1, FunctionIsSequence
  <2> QED  BY <2>2 DEF U
<1> HIDE DEF U
<1>3. t \in Seq(U) /\ Len(t) = Len(s) + 1 /\ t[Len(s) + 1] = x /\ \A i \in 1..Len(s) : t[i] = s[i]
  BY <1>2, AppendProperties
<1>4. DOMAIN t = 1..Len(s) + 1
  BY <1>3, LenProperties
<1> QED  BY <1>1, <1>3, <1>4

\* A grapheme typed after others is cut off again, whole and by itself.
LEMMA CutsTheLast ==
  ASSUME NEW k \in Seq(Rune), US!Graphemes(k) \in Seq(Seq(Rune)), NEW c \in Cluster
  PROVE  US!Graphemes(k \o c) = Append(US!Graphemes(k), c)
<1> DEFINE cs == US!Graphemes(k)
           n  == Len(c)
           P(i) == SubSeq(c, 1, i)
<1>1. /\ c \in Seq(Rune) /\ n \in Nat /\ n >= 1 /\ DOMAIN c = 1..n /\ \A i \in 1..n : c[i] \in Rune
      /\ c[1] \notin Combining /\ \A i \in 2..n : c[i] \in Combining
  BY EmptySeq, LenProperties, ElementOfSeq DEF Cluster
<1>2. US!Graphemes(k \o c) = Cutting!Folded(0, cs, c)
  BY <1>1, TheFolds, Cutting!InARow
<1>3. \A i \in 1..n : P(i) \in Seq(Rune)
  BY <1>1, SubSeqProperties
<1>4. P(1) = <<c[1]>> /\ P(n) = c
  <2>1. P(1) \in Seq(Rune) /\ Len(P(1)) = 1 /\ P(1)[1] = c[1]
    BY <1>1, SubSeqProperties
  <2>2. P(n) = c
    BY <1>1, SubSeqFull
  <2> HIDE DEF P
  <2>3. P(1) = <<c[1]>>
    <3>1. DOMAIN P(1) = 1..1
      BY <2>1, LenProperties
    <3> QED  BY <2>1, <3>1
  <2> QED  BY <2>2, <2>3
<1>5. \A i \in 2..n : P(i) = Append(P(i - 1), c[i])
  <2>1. \A i \in 2..n : P(i) = P(i - 1) \o <<c[i]>>
    <3> SUFFICES ASSUME NEW i \in 2..n PROVE P(i) = P(i - 1) \o <<c[i]>>
      OBVIOUS
    <3>1. 1 \in 1..n /\ i \in 1..n
      BY <1>1
    <3> QED  BY <1>1, <3>1, SubSeqRecursiveSecond
  <2>2. \A i \in 2..n : i - 1 \in 1..n /\ i \in 1..n
    BY <1>1
  <2> SUFFICES ASSUME NEW i \in 2..n PROVE P(i) = Append(P(i - 1), c[i])
    OBVIOUS
  <2>3. P(i - 1) \in Seq(Rune) /\ c[i] \in Rune /\ P(i) = P(i - 1) \o <<c[i]>>
    BY <1>1, <1>3, <2>1, <2>2
  <2> HIDE DEF P
  <2> QED  BY <2>3, AppendIsConcat
<1> HIDE DEF cs, n, P
<1>6. PICK g : Cutting!Along(g, 0, cs, c, n) /\ Cutting!Folded(0, cs, c) = g[n]
  BY <1>1, Cutting!Steps
<1>7. g[0] = cs /\ \A i \in 1..n : g[i] = OpCut(0, g[i - 1], c[i])
  BY <1>6 DEF Cutting!Along
<1> DEFINE T == {i \in 0..n : i = 0 \/ g[i] = Append(cs, P(i))}
<1>8. cs \in Seq(Seq(Rune))
  BY DEF cs
<1>9. ASSUME NEW i \in 1..n, i - 1 \in T PROVE i \in T
  <2>1. g[i] = OpCut(0, g[i - 1], c[i])
    BY <1>7
  <2>2. CASE i = 1
    <3>1. g[1] = Append(cs, <<c[1]>>)
      BY <1>1, <1>7, <2>1, <2>2 DEF OpCut
    <3>2. g[i] = Append(cs, P(i)) /\ i \in 0..n
      BY <1>1, <1>4, <2>2, <3>1
    <3> QED  BY <3>2
  <2>3. CASE i # 1
    <3>1. i \in 2..n /\ i - 1 \in 1..n /\ i - 1 # 0
      BY <1>1, <2>3
    <3>2. g[i - 1] = Append(cs, P(i - 1)) /\ P(i - 1) \in Seq(Rune) /\ c[i] \in Combining
      BY <1>1, <1>3, <1>9, <3>1
    <3>3. Last(g[i - 1]) = P(i - 1) /\ Front(g[i - 1]) = cs /\ g[i - 1] # <<>>
      <4>1. /\ Last(Append(cs, P(i - 1))) = P(i - 1) /\ Front(Append(cs, P(i - 1))) = cs
            /\ Append(cs, P(i - 1)) # <<>>
        BY <1>8, <3>2, LastOfAppend, Zenon
      <4> QED  BY <3>2, <4>1, Zenon
    <3>4. g[i] = cs \o <<P(i)>>
      BY <1>5, <2>1, <3>1, <3>2, <3>3 DEF OpCut
    <3>5. P(i) \in Seq(Rune)
      BY <1>3
    <3>6. g[i] = Append(cs, P(i))
      BY <1>8, <3>4, <3>5, AppendIsConcat
    <3> QED  BY <1>1, <3>6
  <2> QED  BY <2>2, <2>3
<1>10. n \in T
  <2>1. 0 \in T
    BY <1>1
  <2>2. \A i \in 1..n : i - 1 \in T => i \in T
    BY <1>9
  <2> HIDE DEF T
  <2>3. \A i \in 0..n : i \in T
    BY <1>1, <2>1, <2>2, Cutting!UpTo
  <2> QED  BY <1>1, <2>3
<1> QED  BY <1>1, <1>2, <1>4, <1>6, <1>10 DEF cs

-----------------------------------------------------------------------------
(* A difference, applied.                                                  *)

\* The difference between a stream and the same stream with s behind it.
Added(s) == FoldLeft(US!AddInstruction, <<>>, s)

\* One instruction with all the runes, which the receiver cuts into the
\* keystrokes they came from.
LEMMA AddedIs ==
  ASSUME NEW s \in Seq(Typed)
  PROVE  \/ s = <<>> /\ Added(s) = <<>>
         \/ /\ s # <<>>
            /\ \E k \in Seq(Rune) : /\ Added(s) = <<US!Keystroke(k)>>
                                    /\ US!Graphemes(k) = [j \in 1..Len(s) |-> s[j].chs]
<1> DEFINE n == Len(s)
           Cuts(i) == [j \in 1..i |-> s[j].chs]
<1>1. n \in Nat /\ DOMAIN s = 1..n
  BY LenProperties
<1>2. \A i \in 1..n : s[i] \in Typed
  BY ElementOfSeq
<1>3. \A i \in 1..n : s[i].chs \in Cluster /\ s[i].chs \in Seq(Rune) /\ s[i].type = "userByte"
  BY <1>2 DEF Typed, Cluster, US!UserByte
<1> HIDE DEF n
<1>4. PICK g : Adding!Along(g, 0, <<>>, s, n) /\ Adding!Folded(0, <<>>, s) = g[n]
  BY <1>1, Adding!Steps
<1>5. g[0] = <<>> /\ \A i \in 1..n : g[i] = US!AddInstruction(g[i - 1], s[i])
  BY <1>4 DEF Adding!Along, OpAdd
<1>6. \A i \in 0..n : Cuts(i) \in Seq(Seq(Rune)) /\ Len(Cuts(i)) = i
  <2> SUFFICES ASSUME NEW i \in 0..n PROVE Cuts(i) \in Seq(Seq(Rune)) /\ Len(Cuts(i)) = i
    OBVIOUS
  <2>1. i \in Nat /\ \A j \in 1..i : s[j].chs \in Seq(Rune)
    BY <1>1, <1>3
  <2>2. Cuts(i) \in [1..i -> Seq(Rune)]
    BY <2>1
  <2> HIDE DEF Cuts
  <2> QED  BY <2>1, <2>2, FunctionIsSequence
<1>7. \A i \in 1..n : Cuts(i) = Append(Cuts(i - 1), s[i].chs)
  <2> SUFFICES ASSUME NEW i \in 1..n PROVE Cuts(i) = Append(Cuts(i - 1), s[i].chs)
    OBVIOUS
  <2> DEFINE a == Cuts(i - 1)
             b == Append(a, s[i].chs)
  <2>1. i - 1 \in 0..n /\ i \in 0..n
    BY <1>1
  <2>2. a \in Seq(Seq(Rune)) /\ Len(a) = i - 1 /\ \A j \in 1..i - 1 : a[j] = s[j].chs
    BY <1>6, <2>1
  <2>3. Cuts(i) \in Seq(Seq(Rune)) /\ Len(Cuts(i)) = i /\ \A j \in 1..i : Cuts(i)[j] = s[j].chs
    BY <1>6, <2>1
  <2>4. s[i].chs \in Seq(Rune)
    BY <1>3
  <2> HIDE DEF a, Cuts
  <2>5. /\ b \in Seq(Seq(Rune)) /\ Len(b) = i - 1 + 1
        /\ \A j \in 1..i - 1 : b[j] = a[j]
        /\ b[i - 1 + 1] = s[i].chs
    BY <2>2, <2>4, AppendProperties
  <2> HIDE DEF b
  <2>6. Len(b) = i /\ \A j \in 1..i : b[j] = s[j].chs
    BY <2>1, <2>2, <2>5
  <2>7. Cuts(i) = b
    BY <2>3, <2>5, <2>6, SeqEqual
  <2> QED  BY <2>7 DEF a, b
<1> HIDE DEF Cuts
<1> DEFINE T == {i \in 0..n : \/ i = 0
                              \/ \E k \in Seq(Rune) : g[i] = <<US!Keystroke(k)>> /\ US!Graphemes(k) = Cuts(i)}
<1>8. ASSUME NEW i \in 1..n, i - 1 \in T PROVE i \in T
  <2> DEFINE c == s[i].chs
  <2>1. c \in Cluster /\ c \in Seq(Rune) /\ s[i].type = "userByte"
    BY <1>3
  <2>2. g[i] = US!AddInstruction(g[i - 1], s[i]) /\ i \in 0..n
    BY <1>1, <1>5
  <2> HIDE DEF c
  <2>3. CASE i = 1
    <3>1. g[i] = <<US!Keystroke(c)>>
      BY <1>5, <2>1, <2>2, <2>3 DEF US!AddInstruction, US!IsUserByte, c
    <3>2. US!Graphemes(<<>>) = <<>> /\ <<>> \in Seq(Seq(Rune)) /\ <<>> \in Seq(Rune)
      BY TheFolds, Cutting!OfNothing, EmptySeq
    <3>3. US!Graphemes(<<>> \o c) = Append(<<>>, c)
      BY <2>1, <3>2, CutsTheLast
    <3>4. <<>> \o c = c
      BY <2>1, ConcatEmptySeq
    <3>5. Cuts(0) = <<>>
      <4>1. 0 \in 0..n
        BY <1>1
      <4> QED  BY <1>6, <4>1, EmptySeq
    <3>6. Cuts(i) = Append(<<>>, c)
      <4>1. 1 \in 1..n /\ 1 - 1 = 0
        BY <1>1, <2>3
      <4>2. Cuts(1) = Append(Cuts(0), s[1].chs)
        BY <1>7, <4>1
      <4> QED  BY <2>3, <3>5, <4>2, Zenon DEF c
    <3> QED  BY <2>1, <2>2, <3>1, <3>3, <3>4, <3>6
  <2>4. CASE i # 1
    <3>1. i - 1 # 0 /\ i - 1 \in 0..n
      BY <1>1, <2>4
    <3>2. PICK k \in Seq(Rune) : g[i - 1] = <<US!Keystroke(k)>> /\ US!Graphemes(k) = Cuts(i - 1)
      BY <1>8, <3>1
    <3>3. g[i] = <<US!Keystroke(k \o c)>>
      <4> DEFINE x == US!Keystroke(k)
      <4>1. x.type = "keystroke" /\ x.keys = k
        BY DEF US!Keystroke
      <4> HIDE DEF x
      <4>2. Last(<<x>>) = x /\ Front(<<x>>) = <<>> /\ <<x>> # <<>>
        <5>1. <<>> \in Seq({x}) /\ x \in {x} /\ <<x>> = Append(<<>>, x)
          BY EmptySeq
        <5>2. Last(Append(<<>>, x)) = x /\ Front(Append(<<>>, x)) = <<>> /\ Append(<<>>, x) # <<>>
          BY <5>1, LastOfAppend, Zenon
        <5> QED  BY <5>1, <5>2, Zenon
      <4>3. g[i] = <<>> \o <<US!Keystroke(k \o c)>>
        BY <2>1, <2>2, <3>2, <4>1, <4>2 DEF US!AddInstruction, US!IsUserByte, US!Last, US!Front, Last, Front, x, c
      <4>4. <<US!Keystroke(k \o c)>> \in Seq({US!Keystroke(k \o c)})
        OBVIOUS
      <4> QED  BY <4>3, <4>4, ConcatEmptySeq, Zenon
    <3>4. US!Graphemes(k \o c) = Append(Cuts(i - 1), c)
      BY <1>6, <2>1, <3>1, <3>2, CutsTheLast
    <3>5. k \o c \in Seq(Rune)
      BY <2>1, ConcatProperties
    <3>6. US!Graphemes(k \o c) = Cuts(i)
      BY <1>7, <3>4 DEF c
    <3> QED  BY <2>2, <3>3, <3>5, <3>6
  <2> QED  BY <2>3, <2>4
<1>9. n \in T
  <2>1. 0 \in T
    BY <1>1
  <2>2. \A i \in 1..n : i - 1 \in T => i \in T
    BY <1>8
  <2> HIDE DEF T
  <2>3. \A i \in 0..n : i \in T
    BY <1>1, <2>1, <2>2, Cutting!UpTo
  <2> QED  BY <1>1, <2>3
<1>10. Added(s) = g[n]
  BY <1>4, TheFolds DEF Added
<1>11. CASE n = 0
  <2>1. s = <<>>
    BY <1>11, EmptySeq DEF n
  <2> QED  BY <1>5, <1>10, <1>11, <2>1
<1>12. CASE n # 0
  <2>1. s # <<>>
    BY <1>12, EmptySeq DEF n
  <2>2. PICK k \in Seq(Rune) : g[n] = <<US!Keystroke(k)>> /\ US!Graphemes(k) = Cuts(n)
    BY <1>9, <1>12
  <2> QED  BY <1>10, <2>1, <2>2 DEF Cuts, n
<1> QED  BY <1>11, <1>12

\* Applied, it puts s behind the stream.
LEMMA AddedApplies ==
  ASSUME NEW u \in Seq(UserInput), NEW s \in Seq(Typed)
  PROVE  US!ApplyString(u, Added(s)) = u \o s
<1>1. CASE s = <<>> /\ Added(s) = <<>>
  <2>1. US!ApplyString(u, <<>>) = u
    BY TheFolds, Applying!OfNothing
  <2> QED  BY <1>1, <2>1, ConcatEmptySeq
<1>2. ASSUME NEW k \in Seq(Rune), Added(s) = <<US!Keystroke(k)>>,
             US!Graphemes(k) = [j \in 1..Len(s) |-> s[j].chs]
      PROVE  US!ApplyString(u, Added(s)) = u \o s
  <2> DEFINE cs == US!Graphemes(k)
             r  == [i \in DOMAIN cs |-> US!UserByte(cs[i])]
  <2>1. US!ApplyString(u, Added(s)) = OpApply(0, u, US!Keystroke(k))
    BY <1>2, TheFolds, Applying!OfOne
  <2>2. US!ReceivedEvents(US!Keystroke(k)) = r
    BY DEF US!ReceivedEvents, US!Keystroke
  <2>3. Len(s) \in Nat /\ DOMAIN s = 1..Len(s) /\ \A i \in 1..Len(s) : s[i] \in Typed
    BY LenProperties, ElementOfSeq
  <2>4. \A i \in 1..Len(s) : s[i] = US!UserByte(s[i].chs)
    BY <2>3 DEF Typed, US!UserByte
  <2>5. r = [i \in 1..Len(s) |-> s[i]]
    BY <1>2, <2>4
  <2>6. s = [i \in 1..Len(s) |-> s[i]]
    BY <2>3, LenProperties
  <2> QED  BY <2>1, <2>2, <2>5, <2>6 DEF OpApply
<1> QED  BY <1>1, <1>2, AddedIs

\* The messages a difference is made of.
Wire == {US!Keystroke(k) : k \in Seq(Rune)} \cup {US!ResizeMessage(z) : z \in Size}

\* A resize is one more message, and one more event where it is applied.
LEMMA ResizeApplies ==
  ASSUME NEW u \in Seq(UserInput), NEW v \in Seq(UserInput), NEW z \in Size,
         Added(v) \in Seq(Wire), US!ApplyString(u, Added(v)) = u \o v
  PROVE  LET w == v \o <<US!Resize(z)>>
         IN  Added(w) \in Seq(Wire) /\ US!ApplyString(u, Added(w)) = u \o w
<1> DEFINE x == US!Resize(z)
           m == US!ResizeMessage(z)
           a == Added(v)
<1>1. x \in UserInput /\ m \in Wire /\ ~US!IsUserByte(x) /\ x.size = z
  BY DEF UserInput, Wire, US!Resize, US!IsUserByte
<1>2. US!ReceivedEvents(m) = <<x>>
  BY DEF US!ReceivedEvents, US!ResizeMessage
<1> HIDE DEF x
<1>3. OpAdd(0, a, x) = Append(a, m)
  BY <1>1 DEF OpAdd, US!AddInstruction
<1> HIDE DEF m, a
<1>4. <<x>> \in Seq(UserInput) /\ <<m>> \in Seq(Wire)
  BY <1>1
<1>5. Added(v \o <<x>>) = OpAdd(0, a, x)
  <2>1. Adding!Folded(0, <<>>, v \o <<x>>) = Adding!Folded(0, Adding!Folded(0, <<>>, v), <<x>>)
    <3> DEFINE t == <<x>>
    <3>1. t \in Seq(UserInput)
      BY <1>4
    <3> HIDE DEF t
    <3>2. Adding!Folded(0, <<>>, v \o t) = Adding!Folded(0, Adding!Folded(0, <<>>, v), t)
      BY <3>1, Adding!InARow
    <3> QED  BY <3>2 DEF t
  <2> QED  BY <2>1, TheFolds, Adding!OfOne DEF Added, a
<1>6. a \in Seq(Wire) /\ US!ApplyString(u, a) = u \o v
  BY DEF a
<1>7. Added(v \o <<x>>) = a \o <<m>> /\ a \o <<m>> \in Seq(Wire)
  BY <1>1, <1>3, <1>4, <1>5, <1>6, AppendIsConcat, ConcatProperties
<1>8. US!ApplyString(u, a \o <<m>>) = (u \o v) \o <<x>>
  <2>1. Applying!Folded(0, u, a \o <<m>>) = Applying!Folded(0, Applying!Folded(0, u, a), <<m>>)
    <3> DEFINE t == <<m>>
    <3>1. t \in Seq(Wire) /\ a \in Seq(Wire)
      BY <1>4, <1>6
    <3> HIDE DEF t
    <3>2. Applying!Folded(0, u, a \o t) = Applying!Folded(0, Applying!Folded(0, u, a), t)
      BY <3>1, Applying!InARow
    <3> QED  BY <3>2 DEF t
  <2>2. Applying!Folded(0, u, a) = u \o v
    BY <1>6, TheFolds
  <2>3. Applying!Folded(0, u \o v, <<m>>) = (u \o v) \o <<x>>
    BY <1>2, Applying!OfOne DEF OpApply
  <2> QED  BY <2>1, <2>2, <2>3, TheFolds
<1>9. (u \o v) \o <<x>> = u \o (v \o <<x>>)
  BY <1>4, ConcatAssociative
<1> QED  BY <1>7, <1>8, <1>9 DEF x

\* A difference in which no keystroke comes straight after a resize holds
\* keystrokes first and then resizes; applied, it puts them behind the stream.
LEMMA InputApplies ==
  ASSUME NEW u \in Seq(UserInput), NEW s \in Seq(UserInput), ~KeyAfterResize(s)
  PROVE  US!ApplyString(u, Added(s)) = u \o s
<1> DEFINE n == Len(s)
           P(i) == SubSeq(s, 1, i)
<1>1. n \in Nat /\ DOMAIN s = 1..n /\ \A i \in 1..n : s[i] \in UserInput
  BY LenProperties, ElementOfSeq
<1>2. /\ \A x \in Typed : US!IsUserByte(x)
      /\ \A z \in Size : ~US!IsUserByte(US!Resize(z))
  BY DEF Typed, US!UserByte, US!Resize, US!IsUserByte
<1>3. \A i \in 1..n - 1 : US!IsUserByte(s[i + 1]) => US!IsUserByte(s[i])
  BY DEF KeyAfterResize
<1> HIDE DEF n
<1>4. \A i \in 0..n : /\ P(i) \in Seq(UserInput) /\ Len(P(i)) = i
                      /\ \A j \in 1..i : P(i)[j] = s[j]
  <2> SUFFICES ASSUME NEW i \in 0..n
               PROVE  /\ P(i) \in Seq(UserInput) /\ Len(P(i)) = i
                      /\ \A j \in 1..i : P(i)[j] = s[j]
    OBVIOUS
  <2>1. 1 \in Nat /\ i \in Nat /\ \A j \in 1..i : s[j] \in UserInput
    BY <1>1
  <2>2. /\ P(i) \in Seq(UserInput) /\ Len(P(i)) = IF 1 <= i THEN i - 1 + 1 ELSE 0
        /\ \A j \in 1..i - 1 + 1 : P(i)[j] = s[1 + j - 1]
    BY <2>1, SubSeqProperties
  <2> HIDE DEF P
  <2> QED  BY <2>1, <2>2
<1>5. P(0) = <<>> /\ P(n) = s
  <2>1. P(n) = s
    BY <1>1, SubSeqFull DEF n
  <2>2. 0 \in 0..n
    BY <1>1
  <2> HIDE DEF P
  <2> QED  BY <1>4, <2>1, <2>2, EmptySeq
<1>6. \A i \in 1..n : P(i) = P(i - 1) \o <<s[i]>>
  <2> SUFFICES ASSUME NEW i \in 1..n PROVE P(i) = P(i - 1) \o <<s[i]>>
    OBVIOUS
  <2>1. 1 \in 1..n /\ i \in 1..n
    BY <1>1
  <2> QED  BY <1>1, <2>1, SubSeqRecursiveSecond DEF n
<1> HIDE DEF P
<1> DEFINE K == {i \in 0..n : i = 0 \/ (US!IsUserByte(s[i]) => \A j \in 1..i : US!IsUserByte(s[j]))}
<1>7. \A i \in 0..n : i \in K
  <2>1. 0 \in K
    BY <1>1
  <2>2. ASSUME NEW i \in 1..n, i - 1 \in K PROVE i \in K
    <3>1. CASE i = 1
      BY <1>1, <3>1
    <3>2. CASE i # 1
      <4>1. i - 1 \in 1..n - 1 /\ i - 1 # 0 /\ i - 1 + 1 = i /\ i \in 0..n
        BY <1>1, <3>2
      <4>2. US!IsUserByte(s[i]) => US!IsUserByte(s[i - 1])
        BY <1>3, <4>1
      <4>3. US!IsUserByte(s[i]) => \A j \in 1..i - 1 : US!IsUserByte(s[j])
        BY <2>2, <4>1, <4>2
      <4>4. \A j \in 1..i : j \in 1..i - 1 \/ j = i
        BY <1>1
      <4> QED  BY <4>1, <4>3, <4>4
    <3> QED  BY <3>1, <3>2
  <2> HIDE DEF K
  <2> QED  BY <1>1, <2>1, <2>2, Cutting!UpTo
<1> DEFINE T == {i \in 0..n : /\ Added(P(i)) \in Seq(Wire)
                              /\ US!ApplyString(u, Added(P(i))) = u \o P(i)}
<1>8. ASSUME NEW v \in Seq(Typed)
      PROVE  Added(v) \in Seq(Wire) /\ US!ApplyString(u, Added(v)) = u \o v
  <2>1. Added(v) \in Seq(Wire)
    <3>1. CASE Added(v) = <<>>
      BY <3>1, EmptySeq
    <3>2. ASSUME NEW k \in Seq(Rune), Added(v) = <<US!Keystroke(k)>> PROVE Added(v) \in Seq(Wire)
      <4> DEFINE x == US!Keystroke(k)
      <4>1. x \in Wire
        BY DEF Wire
      <4> HIDE DEF x
      <4>2. <<x>> \in Seq(Wire)
        BY <4>1
      <4> QED  BY <3>2, <4>2 DEF x
    <3> QED  BY <3>1, <3>2, AddedIs
  <2> QED  BY <2>1, AddedApplies
<1>9. 0 \in T
  <2>1. <<>> \in Seq(Typed) /\ 0 \in 0..n
    BY <1>1, EmptySeq
  <2> QED  BY <1>5, <1>8, <2>1
<1>10. ASSUME NEW i \in 1..n, i - 1 \in T PROVE i \in T
  <2>1. i \in 0..n /\ i - 1 \in 0..n /\ i \in Nat
    BY <1>1
  <2>2. CASE US!IsUserByte(s[i])
    <3>1. \A j \in 1..i : US!IsUserByte(s[j]) /\ s[j] \in UserInput
      BY <1>1, <1>7, <2>1, <2>2
    <3>2. \A j \in 1..i : P(i)[j] \in Typed
      BY <1>2, <1>4, <2>1, <3>1 DEF UserInput
    <3>3. P(i) \in [1..i -> Typed]
      <4>1. P(i) \in [1..i -> UserInput]
        BY <1>4, <2>1, LenProperties
      <4> QED  BY <3>2, <4>1
    <3>4. P(i) \in Seq(Typed)
      BY <2>1, <3>3, FunctionIsSequence
    <3> QED  BY <1>8, <2>1, <3>4
  <2>3. CASE ~US!IsUserByte(s[i])
    <3>1. PICK z \in Size : s[i] = US!Resize(z)
      BY <1>1, <1>2, <2>3 DEF UserInput
    <3>2. P(i - 1) \in Seq(UserInput)
      BY <1>4, <2>1
    <3>3. Added(P(i - 1)) \in Seq(Wire) /\ US!ApplyString(u, Added(P(i - 1))) = u \o P(i - 1)
      BY <1>10
    <3>4. P(i) = P(i - 1) \o <<US!Resize(z)>>
      BY <1>6, <3>1
    <3>5. Added(P(i)) \in Seq(Wire) /\ US!ApplyString(u, Added(P(i))) = u \o P(i)
      BY <3>2, <3>3, <3>4, ResizeApplies
    <3> QED  BY <2>1, <3>5
  <2> QED  BY <2>2, <2>3
<1>11. n \in T
  <2>1. \A i \in 1..n : i - 1 \in T => i \in T
    BY <1>10
  <2> HIDE DEF T
  <2>2. \A i \in 0..n : i \in T
    BY <1>1, <1>9, <2>1, Cutting!UpTo
  <2> QED  BY <1>1, <2>2
<1> QED  BY <1>5, <1>11

-----------------------------------------------------------------------------
(* Parts of what was typed.                                                *)

\* The events after the first i, up to the j-th.
Part(f, i, j) == SubSeq(f, i + 1, j)

LEMMA PartIs ==
  ASSUME NEW S, NEW f \in Seq(S), NEW i \in Nat, NEW j \in Nat, i <= j, j <= Len(f)
  PROVE  /\ Part(f, i, j) \in Seq(S) /\ Len(Part(f, i, j)) = j - i /\ DOMAIN Part(f, i, j) = 1..j - i
         /\ \A k \in 1..j - i : Part(f, i, j)[k] = f[i + k]
<1> DEFINE p == SubSeq(f, i + 1, j)
<1>1. Len(f) \in Nat /\ \A k \in i + 1..j : f[k] \in S
  BY LenProperties, ElementOfSeq
<1>2. /\ p \in Seq(S) /\ Len(p) = IF i + 1 <= j THEN j - (i + 1) + 1 ELSE 0
      /\ \A k \in 1..j - (i + 1) + 1 : p[k] = f[i + 1 + k - 1]
  BY <1>1, SubSeqProperties
<1> HIDE DEF p
<1>3. Len(p) = j - i /\ \A k \in 1..j - i : p[k] = f[i + k]
  BY <1>2
<1>4. DOMAIN p = 1..j - i
  BY <1>2, <1>3, LenProperties
<1> QED  BY <1>2, <1>3, <1>4 DEF Part, p

LEMMA RestIs ==
  ASSUME NEW S, NEW f \in Seq(S), NEW i \in Nat, i <= Len(f)
  PROVE  /\ Part(f, i, Len(f)) \in Seq(S) /\ Len(Part(f, i, Len(f))) = Len(f) - i
         /\ \A k \in 1..Len(f) - i : Part(f, i, Len(f))[k] = f[i + k]
<1>1. PICK n \in Nat : n = Len(f)
  BY LenProperties
<1>2. i <= n /\ n <= Len(f)
  BY <1>1
<1>3. /\ Part(f, i, n) \in Seq(S) /\ Len(Part(f, i, n)) = n - i
      /\ \A k \in 1..n - i : Part(f, i, n)[k] = f[i + k]
  BY <1>2, PartIs
<1> QED  BY <1>1, <1>3, Zenon

\* One part and the next make one.
LEMMA PartsJoin ==
  ASSUME NEW S, NEW f \in Seq(S), NEW i \in Nat, NEW k \in Nat, NEW j \in Nat,
         i <= k, k <= j, j <= Len(f)
  PROVE  Part(f, i, k) \o Part(f, k, j) = Part(f, i, j)
<1>1. Len(f) \in Nat
  BY LenProperties
<1>2. i + 1 \in 1..Len(f) + 1 /\ k \in i + 1 - 1..Len(f) /\ j \in k..Len(f)
  BY <1>1
<1> QED  BY <1>2, ConcatAdjacentSubSeq DEF Part

\* A stream with one of its prefixes: they share the prefix, and what is left is
\* the next part.
LEMMA WithoutPrefix ==
  ASSUME NEW S, NEW f \in Seq(S), NEW b \in Nat, NEW i \in Nat, NEW j \in Nat,
         b <= i, i <= j, j <= Len(f)
  PROVE  US!Drop(Part(f, b, j), US!SharedPrefix(Part(f, b, j), Part(f, b, i))) = Part(f, i, j)
<1> DEFINE u == Part(f, b, j)
           x == Part(f, b, i)
           least  == US!Min({Len(u), Len(x)})
           shared == {n \in 0..least : \A m \in 1..n : u[m] = x[m]}
<1>1. /\ u \in Seq(S) /\ Len(u) = j - b /\ \A k \in 1..j - b : u[k] = f[b + k]
      /\ x \in Seq(S) /\ Len(x) = i - b /\ \A k \in 1..i - b : x[k] = f[b + k]
  <2>1. b <= j
    OBVIOUS
  <2>2. Len(f) \in Nat
    BY LenProperties
  <2>3. i <= Len(f)
    BY <2>2
  <2>4. u \in Seq(S) /\ Len(u) = j - b /\ \A k \in 1..j - b : u[k] = f[b + k]
    BY <2>1, PartIs, ZenonT(60)
  <2>5. x \in Seq(S) /\ Len(x) = i - b /\ \A k \in 1..i - b : x[k] = f[b + k]
    BY <2>3, PartIs, ZenonT(60)
  <2> QED  BY <2>4, <2>5
<1>2. US!SharedPrefix(u, x) = US!Max(shared)
  BY DEF US!SharedPrefix
<1> HIDE DEF u, x
<1>3. least = i - b
  <2>1. \A n \in {Len(u), Len(x)} : i - b <= n
    BY <1>1
  <2>2. \A n \in {Len(u), Len(x)} : (\A m \in {Len(u), Len(x)} : n <= m) => n = i - b
    BY <1>1
  <2>3. i - b \in {Len(u), Len(x)}
    BY <1>1
  <2> QED  BY <2>1, <2>2, <2>3 DEF US!Min
<1>4. i - b \in shared /\ \A n \in shared : i - b >= n
  <2> HIDE DEF least
  <2>1. i - b \in 0..least /\ \A n \in 0..least : i - b >= n
    BY <1>3
  <2>2. \A m \in 1..i - b : m \in 1..j - b
    OBVIOUS
  <2>3. \A m \in 1..i - b : u[m] = x[m]
    BY <1>1, <2>2
  <2> HIDE DEF least
  <2> QED  BY <2>1, <2>3
<1>5. shared \subseteq Int
  BY <1>3
<1> HIDE DEF shared, least
<1>6. US!Max(shared) = i - b
  <2>1. \A n \in shared : (\A m \in shared : n >= m) => n = i - b
    BY <1>4, <1>5
  <2> QED  BY <1>4, <2>1 DEF US!Max
<1> DEFINE d == Part(u, i - b, Len(u))
           p == Part(f, i, j)
<1>7. US!Drop(u, i - b) = d
  BY DEF US!Drop, Part
<1>8. /\ d \in Seq(S) /\ Len(d) = j - b - (i - b)
      /\ \A k \in 1..j - b - (i - b) : d[k] = u[i - b + k]
  <2>1. i - b \in Nat /\ Len(u) \in Nat /\ i - b <= Len(u) /\ Len(u) <= Len(u)
    BY <1>1
  <2>2. /\ d \in Seq(S) /\ Len(d) = Len(u) - (i - b)
        /\ \A k \in 1..Len(u) - (i - b) : d[k] = u[i - b + k]
    <3>1. PICK m \in Nat : m = i - b
      BY <2>1
    <3>2. /\ Part(u, m, Len(u)) \in Seq(S) /\ Len(Part(u, m, Len(u))) = Len(u) - m
          /\ \A k \in 1..Len(u) - m : Part(u, m, Len(u))[k] = u[m + k]
      <4>1. u \in Seq(S) /\ m <= Len(u)
        BY <1>1, <2>1, <3>1
      <4> QED  BY <4>1, RestIs
    <3> QED  BY <3>1, <3>2, Zenon
  <2> HIDE DEF d
  <2> QED  BY <1>1, <2>2
<1>9. p \in Seq(S) /\ Len(p) = j - i /\ \A k \in 1..j - i : p[k] = f[i + k]
  BY PartIs, ZenonT(60)
<1> HIDE DEF d, p
<1>10. Len(d) = Len(p) /\ \A k \in 1..Len(d) : d[k] = p[k]
  <2>1. Len(d) = j - i
    BY <1>8
  <2>2. ASSUME NEW k \in 1..j - i PROVE d[k] = p[k]
    <3>1. k \in 1..j - b - (i - b) /\ i - b + k \in 1..j - b /\ b + (i - b + k) = i + k
      OBVIOUS
    <3>2. d[k] = u[i - b + k] /\ u[i - b + k] = f[b + (i - b + k)]
      BY <1>1, <1>8, <3>1
    <3> QED  BY <1>9, <3>1, <3>2
  <2> QED  BY <1>9, <2>1, <2>2
<1>11. d = p
  BY <1>8, <1>9, <1>10, SeqEqual
<1> QED  BY <1>2, <1>6, <1>7, <1>11 DEF u, x, p

\* What is typed next changes no part, and makes the last one longer.
LEMMA TypedNext ==
  ASSUME NEW S, NEW f \in Seq(S), NEW x \in S, NEW i \in Nat
  PROVE  /\ \A j \in Nat : i <= j /\ j <= Len(f) => Part(Append(f, x), i, j) = Part(f, i, j)
         /\ i <= Len(f) => Part(Append(f, x), i, Len(f) + 1) = Append(Part(f, i, Len(f)), x)
<1> DEFINE g == Append(f, x)
<1>1. /\ g \in Seq(S) /\ Len(g) = Len(f) + 1 /\ Len(f) \in Nat /\ g[Len(f) + 1] = x
      /\ \A k \in 1..Len(f) : g[k] = f[k]
  BY AppendProperties, LenProperties
<1> HIDE DEF g
<1>2. ASSUME NEW j \in Nat, i <= j, j <= Len(f) PROVE Part(g, i, j) = Part(f, i, j)
  <2>1. /\ Part(f, i, j) \in Seq(S) /\ Len(Part(f, i, j)) = j - i
        /\ \A k \in 1..j - i : Part(f, i, j)[k] = f[i + k]
    BY <1>2, PartIs
  <2>2. j <= Len(g)
    BY <1>1, <1>2
  <2>3. /\ Part(g, i, j) \in Seq(S) /\ Len(Part(g, i, j)) = j - i
        /\ \A k \in 1..j - i : Part(g, i, j)[k] = g[i + k]
    <3>1. g \in Seq(S) /\ i \in Nat /\ j \in Nat /\ i <= j /\ j <= Len(g)
      BY <1>1, <1>2, <2>2
    <3> QED  BY <3>1, PartIs, Zenon
  <2>4. \A k \in 1..j - i : i + k \in 1..Len(f)
    BY <1>1, <1>2
  <2>5. \A k \in 1..j - i : Part(g, i, j)[k] = Part(f, i, j)[k]
    BY <1>1, <2>1, <2>3, <2>4
  <2> QED  BY <2>1, <2>3, <2>5, SeqEqual
<1>3. ASSUME i <= Len(f) PROVE Part(g, i, Len(f) + 1) = Append(Part(f, i, Len(f)), x)
  <2>1. i + 1 \in 1..Len(g) /\ Len(f) + 1 \in i + 1..Len(g) /\ Len(f) + 1 - 1 = Len(f)
    BY <1>1, <1>3
  <2>2. Part(g, i, Len(f) + 1) = Part(g, i, Len(f)) \o <<x>>
    <3>1. PICK m, n : m = i + 1 /\ n = Len(f) + 1
      OBVIOUS
    <3>2. g \in Seq(S) /\ m \in 1..Len(g) /\ n \in m..Len(g) /\ n - 1 = Len(f) /\ g[n] = x
      BY <1>1, <2>1, <3>1
    <3>3. SubSeq(g, m, n) = SubSeq(g, m, n - 1) \o <<g[n]>>
      BY <3>2, SubSeqRecursiveSecond, Zenon
    <3> QED  BY <3>1, <3>2, <3>3, Zenon DEF Part
  <2>3. Part(g, i, Len(f)) = Part(f, i, Len(f)) /\ Part(f, i, Len(f)) \in Seq(S)
    <3>1. Len(f) <= Len(f)
      BY <1>1
    <3>2. Part(f, i, Len(f)) \in Seq(S)
      BY <1>1, <1>3, <3>1, PartIs, Zenon
    <3> QED  BY <1>1, <1>2, <1>3, <3>1, <3>2, Zenon
  <2> QED  BY <2>2, <2>3, AppendIsConcat
<1> QED  BY <1>2, <1>3 DEF g

-----------------------------------------------------------------------------
(* Queues, by what they hold.                                              *)

\* An ack leaves states that were there.
LEMMA AckedElements ==
  ASSUME NEW S, NEW q \in Queue(S), NEW n \in Nat
  PROVE  \A i \in DOMAIN ProcessAcknowledgmentThrough(q, n) :
           \E j \in DOMAIN q : ProcessAcknowledgmentThrough(q, n)[i] = q[j]
<1>1. CASE n \notin Nums(q)
  BY <1>1 DEF ProcessAcknowledgmentThrough
<1>2. CASE n \in Nums(q)
  <2>1. PICK m \in 1..Len(q) + 1 : KeepFrom(q, n) = SubSeq(q, m, Len(q))
    <3>1. n \in Int
      OBVIOUS
    <3> QED  BY <3>1, KeepFromCuts
  <2> DEFINE k == SubSeq(q, m, Len(q))
  <2>2. Len(q) \in Nat /\ DOMAIN q = 1..Len(q) /\ \A i \in 1..Len(q) : q[i] \in [num : Nat, state : S]
    BY QueueElements
  <2>3. /\ k \in Queue(S) /\ Len(k) = IF m <= Len(q) THEN Len(q) - m + 1 ELSE 0
        /\ \A i \in 1..Len(q) - m + 1 : k[i] = q[m + i - 1]
    BY <2>2, SubSeqProperties DEF Queue
  <2> HIDE DEF k
  <2>4. DOMAIN k = 1..Len(q) - m + 1
    BY <2>2, <2>3, QueueElements
  <2>5. \A i \in DOMAIN k : m + i - 1 \in DOMAIN q /\ k[i] = q[m + i - 1]
    <3> SUFFICES ASSUME NEW i \in 1..Len(q) - m + 1 PROVE m + i - 1 \in DOMAIN q /\ k[i] = q[m + i - 1]
      BY <2>4
    <3>1. k[i] = q[m + i - 1]
      BY <2>3
    <3>2. PICK l \in Nat : l = Len(q)
      BY <2>2
    <3>3. m \in 1..l + 1 /\ i \in 1..l - m + 1
      BY <3>2
    <3>4. m + i - 1 \in 1..l
      BY <3>3
    <3> QED  BY <2>2, <3>1, <3>2, <3>4
  <2> QED  BY <1>2, <2>1, <2>5 DEF ProcessAcknowledgmentThrough, k
<1> QED  BY <1>1, <1>2

\* Adding a state leaves states that were there, and that one.
LEMMA AddedElements ==
  ASSUME NEW S, NEW q \in Queue(S), NEW n \in Nat, NEW x \in S
  PROVE  \A i \in DOMAIN AddSentState(q, n, x) :
           \/ AddSentState(q, n, x)[i] = [num |-> n, state |-> x]
           \/ \E j \in DOMAIN q : AddSentState(q, n, x)[i] = q[j]
<1> DEFINE new == [num |-> n, state |-> x]
           longer == Append(q, new)
           cut == SubSeq(longer, QueueDrop + 1, Len(longer))
           k == AddSentState(q, n, x)
<1>1. new \in [num : Nat, state : S]
  OBVIOUS
<1>2. Len(q) \in Nat /\ DOMAIN q = 1..Len(q)
  BY QueueElements
<1>3. k = IF Len(longer) > QueueLimit THEN cut ELSE longer
  BY Zenon DEF AddSentState
<1> HIDE DEF new, k
<1>4. /\ longer \in Queue(S) /\ Len(longer) = Len(q) + 1 /\ longer[Len(q) + 1] = new
      /\ \A i \in 1..Len(q) : longer[i] = q[i]
  BY <1>1, AppendProperties DEF Queue
<1> HIDE DEF longer
<1>5. DOMAIN longer = 1..Len(q) + 1 /\ \A i \in 1..Len(q) + 1 : longer[i] \in [num : Nat, state : S]
  BY <1>4, QueueElements
<1>6. \A i \in DOMAIN longer : longer[i] = new \/ \E j \in DOMAIN q : longer[i] = q[j]
  BY <1>2, <1>4, <1>5
<1>7. CASE Len(longer) > QueueLimit
  <2>1. QueueDrop \in Nat /\ QueueDrop < Len(longer)
    BY <1>2, <1>4, <1>7, LimitsAssumption
  <2>2. /\ cut \in Queue(S) /\ Len(cut) = IF QueueDrop + 1 <= Len(longer) THEN Len(longer) - (QueueDrop + 1) + 1 ELSE 0
        /\ \A i \in 1..Len(longer) - (QueueDrop + 1) + 1 : cut[i] = longer[QueueDrop + 1 + i - 1]
    <3>1. /\ QueueDrop + 1 \in Int /\ Len(longer) \in Int
          /\ \A i \in QueueDrop + 1..Len(longer) : longer[i] \in [num : Nat, state : S]
      BY <1>2, <1>4, <1>5, <2>1
    <3> QED  BY <3>1, SubSeqProperties DEF Queue
  <2> HIDE DEF cut
  <2>3. DOMAIN cut = 1..Len(longer) - QueueDrop
    <3>1. DOMAIN cut = 1..Len(cut)
      BY <2>2, QueueElements
    <3>2. Len(cut) = Len(longer) - QueueDrop
      BY <1>2, <1>4, <2>1, <2>2
    <3> QED  BY <3>1, <3>2
  <2>4. \A i \in DOMAIN cut : QueueDrop + i \in DOMAIN longer /\ cut[i] = longer[QueueDrop + i]
    BY <1>2, <1>4, <1>5, <2>1, <2>2, <2>3
  <2>5. k = cut
    BY <1>3, <1>7
  <2>6. \A i \in DOMAIN k : k[i] = new \/ \E j \in DOMAIN q : k[i] = q[j]
    BY <1>6, <2>4, <2>5
  <2> QED  BY <2>6 DEF k, new
<1>8. CASE ~(Len(longer) > QueueLimit)
  <2>1. k = longer
    BY <1>3, <1>8
  <2>2. \A i \in DOMAIN k : k[i] = new \/ \E j \in DOMAIN q : k[i] = q[j]
    BY <1>6, <2>1
  <2> QED  BY <2>2 DEF k, new
<1> QED  BY <1>7, <1>8

-----------------------------------------------------------------------------
(* What is assumed of the client.                                          *)

\* It sends user streams, as NewTransportClient (client.go) sets it up.
ClientSendsUserStreams ==
  /\ NoDiff = MCNoDiff /\ InitialState("client") = MCInitialState("client")
  /\ \A x : /\ StateClone("client", x) = MCClone("client", x)
            /\ StateReset("client", x) = MCReset("client", x)
  /\ \A x, y : /\ StateDiffFrom("client", x, y) = MCDiffFrom("client", x, y)
               /\ StateApplyString("client", x, y) = MCApplyString("client", x, y)
               /\ StateEqual("client", x, y) = MCEqual("client", x, y)
               /\ StateSubtract("client", x, y) = MCSubtract("client", x, y)
               /\ Push("client", x, y) = MCPush("client", x, y)

\* Its user types graphemes and resizes the window, in any order.
OfAUser == Event("client") \subseteq UserInput

\* It does not use up the ordinary numbers, 2^64 - 1 in the code.
NumbersSuffice == MaxNum["client"] + 1 < MaxUint64

-----------------------------------------------------------------------------
(* The invariant: every state of the client is what was typed between two  *)
(* moments, the first of which is the same for all of them.                *)

\* pos[n] events had been typed when state number n was made, the first b are
\* known to have been received.
Laid(pos, b) ==
  LET f    == fed["client"]
      q    == sentStates["client"]
      last == Last(q).num
  IN  /\ f \in Seq(UserInput) /\ pos[last] <= Len(f)
      /\ \A m, n \in 0..last : m <= n => pos[m] <= pos[n]
      /\ currentState["client"] = Part(f, b, Len(f))
      /\ \A i \in DOMAIN q : b <= pos[q[i].num] /\ q[i].state = Part(f, b, pos[q[i].num])
      /\ \A i \in DOMAIN network["server"] :
           LET inst == network["server"][i]
           IN  /\ inst.oldNum <= inst.newNum
               /\ inst.diff = Added(Part(f, pos[inst.oldNum], pos[inst.newNum]))
      /\ last = MaxUint64 => shutdownInProgress["client"] /\ pos[last] = Len(f)
      /\ last # MaxUint64 => last <= MaxNum["client"]

KInv == DOMAIN fed = Endpoint /\ \E pos \in [Nat -> Nat], b \in Nat : Laid(pos, b)

\* The client and its queue, in the terms of the lemmas above.
LEMMA ClientQueue ==
  ASSUME IInv
  PROVE  LET q == sentStates["client"]
         IN  /\ GoodQueue("client", q) /\ q \in Queue(State("client")) /\ q # <<>>
             /\ Len(q) \in Nat /\ Len(q) >= 1 /\ DOMAIN q = 1..Len(q)
             /\ \A i \in 1..Len(q) : q[i].num \in Nat /\ q[1].num <= q[i].num /\ q[i].num <= Last(q).num
             /\ Last(q).num \in Nat
             /\ \A i \in DOMAIN network["server"] :
                  /\ network["server"][i] \in Instruction("client")
                  /\ network["server"][i].oldNum \in Nat /\ network["server"][i].newNum \in Nat
                  /\ network["server"][i].newNum <= Last(q).num
<1> DEFINE q == sentStates["client"]
<1>1. "client" \in Endpoint /\ "server" \in Endpoint /\ Peer("client") = "server" /\ Peer("server") = "client"
  BY DEF Endpoint, Peer
<1>2. GoodQueue("client", q) /\ q \in Queue(State("client")) /\ q # <<>> /\ Ordered(q)
  BY <1>1 DEF IInv, TypeOK, SenderTypeOK, QueuesOrdered, NumbersBounded, GoodQueue, Queue, TimestampedState
<1>3. network["server"] \in Seq(Instruction("client"))
  BY <1>1 DEF IInv, TypeOK, SystemTypeOK
<1>4. \A i \in DOMAIN network["server"] : network["server"][i].newNum <= Last(q).num
  BY <1>1 DEF IInv, NumbersWereSent
<1> HIDE DEF q
<1>5. /\ Len(q) \in Nat /\ Len(q) >= 1 /\ DOMAIN q = 1..Len(q)
      /\ \A i \in 1..Len(q) : q[i].num \in Nat
  BY <1>2, QueueElements, EmptySeq DEF Queue
<1>6. \A i \in 1..Len(q) : q[1].num <= q[i].num /\ q[i].num <= Last(q).num
  BY <1>2, <1>5 DEF Ordered, Last
<1>7. Last(q).num \in Nat
  BY <1>5 DEF Last
<1>8. \A i \in DOMAIN network["server"] :
        /\ network["server"][i] \in Instruction("client")
        /\ network["server"][i].oldNum \in Nat /\ network["server"][i].newNum \in Nat
  <2>1. \A i \in DOMAIN network["server"] : network["server"][i] \in Instruction("client")
    BY <1>3, LenProperties, ElementOfSeq
  <2> QED  BY <2>1 DEF Instruction
<1> QED  BY <1>2, <1>4, <1>5, <1>6, <1>7, <1>8 DEF q

\* Its numbers, between the first and the last of them.
LEMMA ClientNumbers ==
  ASSUME IInv
  PROVE  LET q == sentStates["client"]
         IN  /\ 1 \in DOMAIN q /\ Len(q) \in DOMAIN q /\ Last(q).num \in Nat /\ Last(q).num \in 0..Last(q).num
             /\ \A i \in DOMAIN q : /\ q[i].num \in Nat /\ q[1].num \in Nat /\ q[1].num <= q[i].num
                                  /\ q[i].num <= Last(q).num /\ q[i].num \in 0..Last(q).num
<1> DEFINE q == sentStates["client"]
<1>1. /\ Len(q) \in Nat /\ Len(q) >= 1 /\ DOMAIN q = 1..Len(q) /\ Last(q).num \in Nat
      /\ \A i \in 1..Len(q) : q[i].num \in Nat /\ q[1].num <= q[i].num /\ q[i].num <= Last(q).num
  BY ClientQueue, ZenonT(60)
<1> HIDE DEF q
<1>2. 1 \in DOMAIN q /\ Len(q) \in DOMAIN q
  BY <1>1
<1>3. Last(q).num <= Last(q).num
  BY <1>1
<1>4. /\ Last(q).num \in 0..Last(q).num
      /\ \A i \in DOMAIN q : q[i].num \in 0..Last(q).num
  BY <1>1, <1>3, UpToLast, Zenon
<1>5. q[1].num \in Nat
  BY <1>1, <1>2, Zenon
<1> QED  BY <1>1, <1>2, <1>4, <1>5, Zenon DEF q

\* It makes the differences right.
LEMMA LaidRoundTrips ==
  ASSUME IInv, KInv, ClientSendsUserStreams
  PROVE  KeystrokesRoundTrip
<1> DEFINE q == sentStates["client"]
           f == fed["client"]
           last == Last(q).num
<1>1. PICK pos \in [Nat -> Nat], b \in Nat : Laid(pos, b)
  BY DEF KInv
<1>2. /\ f \in Seq(UserInput) /\ pos[last] <= Len(f) /\ last \in Nat
      /\ \A m, n \in 0..last : m <= n => pos[m] <= pos[n]
      /\ \A i \in DOMAIN q : b <= pos[q[i].num] /\ q[i].state = Part(f, b, pos[q[i].num])
  BY <1>1, ClientQueue DEF Laid
<1> SUFFICES ASSUME NEW m \in DOMAIN network["server"], NEW i \in DOMAIN q, NEW j \in DOMAIN q,
                    network["server"][m].oldNum = q[i].num, network["server"][m].newNum = q[j].num,
                    ~KeyAfterResize(Between(q[i].state, q[j].state))
             PROVE  StateEqual("client", q[j].state,
                      StateApplyString("client", StateClone("client", q[i].state), network["server"][m].diff))
  BY DEF KeystrokesRoundTrip, InstructionRoundTrips
<1> DEFINE old == q[i].num
           new == q[j].num
           d == network["server"][m].diff
<1>3. old \in Nat /\ new \in Nat /\ old <= new /\ new <= last
  <2>1. network["server"][m].oldNum <= network["server"][m].newNum
    BY <1>1 DEF Laid
  <2>2. network["server"][m].newNum <= last /\ q[i].num \in Nat /\ q[j].num \in Nat
    BY ClientQueue
  <2> QED  BY <2>1, <2>2
<1>4. d = Added(Part(f, pos[old], pos[new]))
  <2>1. d = Added(Part(f, pos[network["server"][m].oldNum], pos[network["server"][m].newNum]))
    BY <1>1 DEF Laid
  <2> QED  BY <2>1
<1>5. q[i].state = Part(f, b, pos[old]) /\ q[j].state = Part(f, b, pos[new]) /\ b <= pos[old]
  BY <1>2
<1> HIDE DEF f, last, old, new, d
<1>6. PICK x \in Nat, y \in Nat : x = pos[old] /\ y = pos[new]
  BY <1>3
<1>7. x <= y /\ y <= Len(f)
  <2>1. old \in 0..last /\ new \in 0..last /\ last \in 0..last
    BY <1>2, <1>3
  <2>2. pos[old] <= pos[new] /\ pos[new] <= pos[last]
    BY <1>2, <1>3, <2>1
  <2>3. pos[last] \in Nat /\ Len(f) \in Nat /\ pos[new] \in Nat /\ pos[last] <= Len(f)
    BY <1>2, <1>3, LenProperties
  <2>4. pos[new] <= Len(f)
    BY <2>2, <2>3, Transitive, Zenon
  <2> QED  BY <1>6, <2>2, <2>4, Zenon
<1>8. b <= x /\ x <= Len(f) /\ b <= y
  <2>1. Len(f) \in Nat
    BY <1>2, LenProperties
  <2>2. b <= x
    BY <1>5, <1>6, Zenon
  <2>3. PICK n \in Nat : n = Len(f)
    BY <2>1
  <2>4. x <= n
    BY <1>7, <2>3
  <2> QED  BY <1>7, <2>2, <2>3, <2>4
<1>9. Part(f, b, x) \in Seq(UserInput) /\ Part(f, x, y) \in Seq(UserInput)
  BY <1>2, <1>7, <1>8, PartIs
<1>10. Part(f, b, x) \o Part(f, x, y) = Part(f, b, y)
  BY <1>2, <1>7, <1>8, PartsJoin
<1>11. US!ApplyString(Part(f, b, x), Added(Part(f, x, y))) = Part(f, b, y)
  <2>1. Between(Part(f, b, x), Part(f, b, y)) = Part(f, x, y)
    BY <1>2, <1>7, <1>8, WithoutPrefix DEF Between
  <2>2. ~KeyAfterResize(Part(f, x, y))
    BY <1>5, <1>6, <2>1
  <2> QED  BY <1>9, <1>10, <2>2, InputApplies
<1>12. StateApplyString("client", StateClone("client", q[i].state), d) = Part(f, b, y)
  <2>1. StateApplyString("client", q[i].state, d) = US!ApplyString(q[i].state, d)
    BY DEF ClientSendsUserStreams, MCApplyString
  <2>2. StateClone("client", q[i].state) = q[i].state
    BY DEF ClientSendsUserStreams, MCClone
  <2> QED  BY <1>4, <1>5, <1>6, <1>11, <2>1, <2>2, Zenon
<1>13. StateEqual("client", q[j].state, Part(f, b, y)) = US!Equal(q[j].state, Part(f, b, y))
  BY DEF ClientSendsUserStreams, MCEqual
<1>14. q[j].state = Part(f, b, y)
  BY <1>5, <1>6
<1> QED  BY <1>12, <1>13, <1>14 DEF US!Equal, d

\* Nothing has been typed at first.
LEMMA InitKInv == Init /\ ClientSendsUserStreams => KInv
<1> SUFFICES ASSUME Init, ClientSendsUserStreams PROVE KInv
  OBVIOUS
<1> DEFINE pos == [n \in Nat |-> 0]
           q == sentStates["client"]
<1>1. /\ DOMAIN fed = Endpoint /\ fed["client"] = <<>> /\ network["server"] = <<>>
      /\ q = <<[num |-> 0, state |-> <<>>]>> /\ currentState["client"] = <<>>
  BY DEF Init, Endpoint, ClientSendsUserStreams, MCInitialState
<1>2. DOMAIN q = {1} /\ q[1].num = 0 /\ q[1].state = <<>> /\ Last(q).num = 0
  BY <1>1 DEF Last
<1>3. pos \in [Nat -> Nat] /\ pos[0] = 0 /\ 0 \in Nat
  OBVIOUS
<1>4. Part(<<>>, 0, 0) = <<>> /\ <<>> \in Seq(UserInput) /\ Len(<<>>) = 0
  BY EmptySeq, SubSeqEmpty DEF Part
<1>5. 0 <= MaxNum["client"] /\ 0 # MaxUint64
  BY NumbersAssumption DEF Endpoint
<1>6. \A m, n \in 0..0 : pos[m] <= pos[n]
  OBVIOUS
<1> HIDE DEF pos, q
<1>7. Laid(pos, 0)
  BY <1>1, <1>2, <1>3, <1>4, <1>5, <1>6 DEF Laid, q
<1> QED  BY <1>1, <1>3, <1>7 DEF KInv

\* Steps that leave the typed alone and may leave the client with fewer states
\* and the network with fewer packets.
LEMMA FewerKeepsKInv ==
  ASSUME KInv, DOMAIN fed' = Endpoint, fed'["client"] = fed["client"],
         currentState'["client"] = currentState["client"],
         shutdownInProgress["client"] => shutdownInProgress'["client"],
         Last(sentStates'["client"]).num = Last(sentStates["client"]).num,
         \A i \in DOMAIN sentStates'["client"] :
           \E j \in DOMAIN sentStates["client"] : sentStates'["client"][i] = sentStates["client"][j],
         \A i \in DOMAIN network'["server"] :
           \E j \in DOMAIN network["server"] : network'["server"][i] = network["server"][j]
  PROVE  KInv'
<1>1. PICK pos \in [Nat -> Nat], b \in Nat : Laid(pos, b)
  BY DEF KInv
<1> DEFINE f == fed["client"]
           last == Last(sentStates["client"]).num
           InQueue(x) == b <= pos[x.num] /\ x.state = Part(f, b, pos[x.num])
           OnNet(x) == /\ x.oldNum <= x.newNum
                       /\ x.diff = Added(Part(f, pos[x.oldNum], pos[x.newNum]))
<1>2. /\ f \in Seq(UserInput) /\ pos[last] <= Len(f)
      /\ \A m, n \in 0..last : m <= n => pos[m] <= pos[n]
      /\ currentState["client"] = Part(f, b, Len(f))
      /\ \A i \in DOMAIN sentStates["client"] : InQueue(sentStates["client"][i])
      /\ \A i \in DOMAIN network["server"] : OnNet(network["server"][i])
      /\ last = MaxUint64 => shutdownInProgress["client"] /\ pos[last] = Len(f)
      /\ last # MaxUint64 => last <= MaxNum["client"]
  BY <1>1, Zenon DEF Laid
<1> HIDE DEF InQueue, OnNet
<1>3. \A i \in DOMAIN sentStates'["client"] : InQueue(sentStates'["client"][i])
  BY <1>2
<1>4. \A i \in DOMAIN network'["server"] : OnNet(network'["server"][i])
  BY <1>2
<1>5. Last(sentStates'["client"]).num = last /\ fed'["client"] = f
  OBVIOUS
<1> HIDE DEF f, last
<1>6. Laid(pos, b)'
  BY <1>2, <1>3, <1>4, <1>5, Zenon DEF Laid, InQueue, OnNet
<1> QED  BY <1>6 DEF KInv

\* A keystroke or a resize is the last part of everything.
LEMMA InputKeepsKInv ==
  ASSUME IInv, KInv, ClientSendsUserStreams, OfAUser, Input("client")
  PROVE  KInv'
<1> DEFINE f == fed["client"]
           q == sentStates["client"]
           last == Last(q).num
<1>1. PICK pos \in [Nat -> Nat], b \in Nat : Laid(pos, b)
  BY DEF KInv
<1>2. PICK ev \in Event("client") :
        /\ currentState' = [currentState EXCEPT !["client"] = Push("client", @, ev)]
        /\ fed' = [fed EXCEPT !["client"] = Append(@, ev)]
  BY DEF Input
<1>3. UNCHANGED <<sentStates, shutdownInProgress, network>> /\ ~shutdownInProgress["client"]
  BY DEF Input
<1>4. ev \in UserInput
  BY DEF OfAUser
<1>5. DOMAIN fed' = Endpoint /\ fed'["client"] = Append(f, ev)
  BY <1>2 DEF KInv, Endpoint
<1>6. currentState'["client"] = Append(currentState["client"], ev)
  <2>1. "client" \in DOMAIN currentState
    BY DEF IInv, TypeOK, SenderTypeOK, Endpoint
  <2> QED  BY <1>2, <2>1 DEF ClientSendsUserStreams, MCPush, US!PushBack
<1>7. /\ f \in Seq(UserInput) /\ pos[last] <= Len(f) /\ Len(f) \in Nat /\ last \in Nat
      /\ \A m, n \in 0..last : m <= n => pos[m] <= pos[n]
      /\ currentState["client"] = Part(f, b, Len(f))
      /\ \A i \in DOMAIN q : b <= pos[q[i].num] /\ q[i].state = Part(f, b, pos[q[i].num])
      /\ last # MaxUint64 /\ last <= MaxNum["client"]
  BY <1>1, <1>3, ClientQueue, LenProperties DEF Laid
<1>8. \A n \in 0..last : pos[n] <= Len(f) /\ pos[n] \in Nat
  <2> SUFFICES ASSUME NEW n \in 0..last PROVE pos[n] <= Len(f) /\ pos[n] \in Nat
    OBVIOUS
  <2>1. last \in 0..last /\ n <= last /\ n \in Nat
    <3>1. last \in Nat
      BY <1>7
    <3> HIDE DEF last
    <3> QED  BY <3>1
  <2>2. pos[n] <= pos[last] /\ pos[n] \in Nat /\ pos[last] \in Nat
    BY <1>7, <2>1
  <2>3. pos[last] <= Len(f) /\ Len(f) \in Nat
    BY <1>7
  <2> QED  BY <2>2, <2>3, Transitive, Zenon
<1>9. \A i \in DOMAIN q : q[i].num \in 0..last
  BY ClientNumbers, Zenon
<1>10. 1 \in DOMAIN q
  BY ClientNumbers, Zenon
<1> DEFINE g == Append(f, ev)
<1>11. g \in Seq(UserInput) /\ Len(g) = Len(f) + 1
  BY <1>4, <1>7, AppendProperties
<1>12. ASSUME NEW i \in Nat, NEW j \in Nat, i <= j, j <= Len(f)
       PROVE  Part(g, i, j) = Part(f, i, j)
  BY <1>4, <1>7, <1>12, TypedNext, ZenonT(60)
<1>13. b <= Len(f)
  <2>1. b <= pos[q[1].num] /\ pos[q[1].num] <= Len(f) /\ pos[q[1].num] \in Nat
    BY <1>7, <1>8, <1>9, <1>10
  <2>2. Len(f) \in Nat
    BY <1>7
  <2> HIDE DEF q, f
  <2>3. PICK x \in Nat : x = pos[q[1].num]
    BY <2>1
  <2>4. b <= x /\ x <= Len(f)
    BY <2>1, <2>3, Zenon
  <2> QED  BY <2>2, <2>4
<1>14. Part(g, b, Len(g)) = Append(Part(f, b, Len(f)), ev)
  <2>1. Part(g, b, Len(f) + 1) = Append(Part(f, b, Len(f)), ev)
    BY <1>4, <1>7, <1>13, TypedNext
  <2> QED  BY <1>11, <2>1
<1> HIDE DEF g, f
<1>15. \A i \in DOMAIN q : b <= pos[q[i].num] /\ q[i].state = Part(g, b, pos[q[i].num])
  BY <1>7, <1>8, <1>9, <1>12
<1>16. \A i \in DOMAIN network["server"] :
         LET inst == network["server"][i]
         IN  /\ inst.oldNum <= inst.newNum
             /\ inst.diff = Added(Part(g, pos[inst.oldNum], pos[inst.newNum]))
  <2> SUFFICES ASSUME NEW i \in DOMAIN network["server"]
               PROVE  /\ network["server"][i].oldNum <= network["server"][i].newNum
                      /\ network["server"][i].diff = Added(Part(g, pos[network["server"][i].oldNum], pos[network["server"][i].newNum]))
    OBVIOUS
  <2> DEFINE old == network["server"][i].oldNum
             new == network["server"][i].newNum
  <2>1. old <= new /\ network["server"][i].diff = Added(Part(f, pos[old], pos[new]))
    BY <1>1 DEF Laid, f
  <2>2. old \in 0..last /\ new \in 0..last
    <3>1. old \in Nat /\ new \in Nat /\ new <= last /\ last \in Nat
      BY ClientQueue
    <3> HIDE DEF old, new, last
    <3> QED  BY <2>1, <3>1
  <2> HIDE DEF old, new
  <2>3. pos[old] <= pos[new] /\ pos[new] <= Len(f) /\ pos[old] \in Nat /\ pos[new] \in Nat
    BY <1>7, <1>8, <2>1, <2>2
  <2>4. Part(g, pos[old], pos[new]) = Part(f, pos[old], pos[new])
    BY <1>12, <2>3
  <2> QED  BY <2>1, <2>4 DEF old, new
<1>17. pos[last] <= Len(g)
  <2>1. pos[last] \in Nat /\ pos[last] <= Len(f) /\ Len(f) \in Nat
    BY <1>7
  <2>2. Len(f) <= Len(g) /\ Len(g) \in Nat
    BY <1>11, <2>1
  <2> QED  BY <2>1, <2>2, Transitive, Zenon
<1> HIDE DEF last, q
<1>18. sentStates'["client"] = q /\ network'["server"] = network["server"] /\ fed'["client"] = g
       /\ currentState'["client"] = Part(g, b, Len(g))
  BY <1>3, <1>5, <1>6, <1>7, <1>14 DEF q, f, g
<1>19. Laid(pos, b)'
  BY <1>7, <1>11, <1>15, <1>16, <1>17, <1>18, Zenon DEF Laid, last
<1> QED  BY <1>5, <1>19 DEF KInv

-----------------------------------------------------------------------------
(* A tick of the client.                                                   *)

\* Sending puts at most the instruction on the network.
LEMMA OnlyTheInstruction ==
  ASSUME IInv, NEW queue, NEW old, NEW new, NEW diff, NEW written,
         SendInFragments("client", queue, old, new, diff, written)
  PROVE  \A i \in DOMAIN network'["server"] :
           \/ network'["server"][i] = InstructionOf("client", queue, old, new, diff)
           \/ \E j \in DOMAIN network["server"] : network'["server"][i] = network["server"][j]
<1> DEFINE inst == InstructionOf("client", queue, old, new, diff)
           w == Append(network["server"], inst)
<1>1. Peer("client") = "server" /\ DOMAIN network = Endpoint /\ "server" \in Endpoint
      /\ network["server"] \in Seq(Instruction("client"))
  BY DEF IInv, TypeOK, SystemTypeOK, Endpoint, Peer
<1>2. network' = network \/ network' = [network EXCEPT !["server"] = w]
  BY <1>1 DEF SendInFragments
<1> HIDE DEF inst
<1>3. CASE network' = network
  BY <1>3
<1>4. CASE network' = [network EXCEPT !["server"] = w]
  <2>1. network'["server"] = w
    BY <1>1, <1>4
  <2>2. w = Append(network["server"], inst)
    OBVIOUS
  <2> HIDE DEF w
  <2>3. \A i \in DOMAIN w : w[i] = inst \/ \E j \in DOMAIN network["server"] : w[i] = network["server"][j]
    BY <1>1, <2>2, AppendElements
  <2> QED  BY <2>1, <2>3 DEF inst
<1> QED  BY <1>2, <1>3, <1>4

\* What the client subtracts and the differences it computes, in parts.
LEMMA OfParts ==
  ASSUME ClientSendsUserStreams, NEW f \in Seq(UserInput), NEW b \in Nat, NEW i \in Nat, NEW j \in Nat,
         b <= i, i <= j, j <= Len(f)
  PROVE  /\ StateSubtract("client", Part(f, b, j), Part(f, b, i)) = Part(f, i, j)
         /\ StateDiffFrom("client", Part(f, b, j), Part(f, b, i)) = Added(Part(f, i, j))
         /\ StateEqual("client", Part(f, b, j), Part(f, b, i)) => i = j
<1> DEFINE u == Part(f, b, j)
           x == Part(f, b, i)
<1>1. US!Drop(u, US!SharedPrefix(u, x)) = Part(f, i, j)
  BY WithoutPrefix
<1>2. Len(u) = j - b /\ Len(x) = i - b
  <2>1. b <= j /\ i <= Len(f)
    <3>1. Len(f) \in Nat
      BY LenProperties
    <3> QED  BY <3>1
  <2> QED  BY <2>1, PartIs, Zenon
<1> HIDE DEF u, x
<1>3. StateSubtract("client", u, x) = Part(f, i, j)
  BY <1>1 DEF ClientSendsUserStreams, MCSubtract, US!Subtract
<1>4. StateDiffFrom("client", u, x) = Added(Part(f, i, j))
  <2>1. StateDiffFrom("client", u, x) = US!DiffFrom(u, x)
    BY DEF ClientSendsUserStreams, MCDiffFrom
  <2>2. US!DiffFrom(u, x) = Added(US!Drop(u, US!SharedPrefix(u, x)))
    BY Zenon DEF US!DiffFrom, Added, US!FoldLeft, US!MapThenFoldSet, US!Max, FoldLeft, MapThenFoldSet, Max
  <2> QED  BY <1>1, <2>1, <2>2
<1>5. StateEqual("client", u, x) => u = x
  BY DEF ClientSendsUserStreams, MCEqual, US!Equal
<1>6. u = x => i = j
  BY <1>2
<1> QED  BY <1>3, <1>4, <1>5, <1>6 DEF u, x

\* Where the states of the client end, in what was typed.
LEMMA WhereStatesEnd ==
  ASSUME IInv, NEW pos \in [Nat -> Nat], NEW c \in Nat, Laid(pos, c),
         NEW i \in DOMAIN sentStates["client"]
  PROVE  LET q == sentStates["client"]
             x == pos[q[i].num]
         IN  /\ q[i].num \in 0..Last(q).num /\ x \in Nat /\ c <= x
             /\ pos[q[1].num] <= x /\ x <= Len(fed["client"])
<1> DEFINE f == fed["client"]
           q == sentStates["client"]
           last == Last(q).num
           x == pos[q[i].num]
           n == q[i].num
           m == q[1].num
<1>1. /\ f \in Seq(UserInput) /\ pos[last] <= Len(f)
      /\ \A k, l \in 0..last : k <= l => pos[k] <= pos[l]
      /\ c <= x
  BY DEF Laid
<1>2. n \in Nat /\ m \in Nat /\ last \in Nat /\ m <= n /\ n <= last
  BY ClientNumbers, Zenon
<1>3. Len(f) \in Nat
  BY <1>1, LenProperties
<1> HIDE DEF f, q, last, n, m
<1>4. n \in 0..last /\ m \in 0..last /\ last \in 0..last
  BY ClientNumbers, Zenon DEF n, m, last, q
<1>5. pos[m] <= pos[n] /\ pos[n] <= pos[last]
  BY <1>1, <1>2, <1>4
<1>6. PICK k \in Nat, l \in Nat : k = pos[n] /\ l = pos[last]
  BY <1>2
<1>7. k <= Len(f)
  <2>1. k <= l
    BY <1>5, <1>6
  <2>2. l <= Len(f)
    BY <1>1, <1>6, Zenon
  <2> QED  BY <1>3, <2>1, <2>2
<1> QED  BY <1>1, <1>4, <1>5, <1>6, <1>7 DEF f, q, last, n, m

\* What rationalizeStates leaves: everything from the b-th event on.
LEMMA RationalizedToFront ==
  ASSUME IInv, ClientSendsUserStreams, NEW pos \in [Nat -> Nat], NEW c \in Nat, Laid(pos, c),
         NEW b \in Nat, b = pos[sentStates["client"][1].num]
  PROVE  LET f == fed["client"]
         IN  /\ b <= Len(f) /\ RationalizedCurrent("client") = Part(f, b, Len(f))
             /\ DOMAIN RationalizedSent("client") = DOMAIN sentStates["client"]
             /\ \A i \in DOMAIN sentStates["client"] :
                  LET n == sentStates["client"][i].num
                  IN  /\ RationalizedSent("client")[i].num = n
                      /\ RationalizedSent("client")[i].state = Part(f, b, pos[n])
<1> DEFINE f == fed["client"]
           q == sentStates["client"]
           len == Len(f)
<1>1. /\ f \in Seq(UserInput) /\ currentState["client"] = Part(f, c, len)
      /\ \A i \in DOMAIN q : q[i].state = Part(f, c, pos[q[i].num])
  BY DEF Laid
<1>2. len \in Nat
  BY <1>1, LenProperties
<1>3. 1 \in DOMAIN q
  BY ClientNumbers, Zenon
<1>4. c <= b /\ b <= len
  BY <1>3, WhereStatesEnd
<1>5. Known("client") = Part(f, c, b)
  BY <1>1, <1>3 DEF Known
<1>6. RationalizedCurrent("client") = Part(f, b, len)
  <2>1. len <= Len(f)
    BY <1>2
  <2>2. StateSubtract("client", Part(f, c, len), Part(f, c, b)) = Part(f, b, len)
    BY <1>1, <1>2, <1>4, <2>1, OfParts, Zenon
  <2> QED  BY <1>1, <1>5, <2>2 DEF RationalizedCurrent
<1>7. ASSUME NEW i \in DOMAIN q
      PROVE  StateSubtract("client", q[i].state, Known("client")) = Part(f, b, pos[q[i].num])
  <2>1. PICK x \in Nat : x = pos[q[i].num]
    BY WhereStatesEnd
  <2>2. b <= x /\ x <= len
    BY <2>1, WhereStatesEnd
  <2>3. StateSubtract("client", Part(f, c, x), Part(f, c, b)) = Part(f, b, x)
    BY <1>1, <1>4, <2>2, OfParts, ZenonT(60)
  <2> QED  BY <1>1, <1>5, <2>1, <2>3
<1>8. DOMAIN RationalizedSent("client") = DOMAIN q
      /\ \A i \in DOMAIN q : /\ RationalizedSent("client")[i].num = q[i].num
                           /\ RationalizedSent("client")[i].state = StateSubtract("client", q[i].state, Known("client"))
  <2>1. \A i \in DOMAIN q : q[i] \in [num : Nat, state : State("client")]
    BY ClientQueue, QueueElements
  <2> QED  BY <2>1 DEF RationalizedSent
<1> QED  BY <1>4, <1>6, <1>7, <1>8

\* What has been typed, how much that is, and the number of the newest state.
Now(f, len, last) == f = fed["client"] /\ len = Len(f) /\ last = Last(sentStates["client"]).num

\* What it sends, if it sends: a state that is all that was typed, in a queue of
\* states rationalized to b, and the difference to one of them.
Ready(pos, b, f, len, last, queue, old, new, diff) ==
  /\ old <= last /\ Last(queue).num = new /\ last <= new /\ (new = last => pos[new] = len)
  /\ ~shutdownInProgress["client"] => new = last \/ new = last + 1
  /\ diff = Added(Part(f, pos[old], len)) /\ b <= len
  /\ \A i \in DOMAIN queue :
       \/ queue[i].num = new /\ queue[i].state = Part(f, b, len)
       \/ /\ queue[i].num \in 0..last /\ b <= pos[queue[i].num]
          /\ queue[i].state = Part(f, b, pos[queue[i].num])

\* That is laid out as well.
LEMMA SendingKeepsKInv ==
  ASSUME IInv, KInv, NumbersSuffice, fed' = fed,
         NEW pos \in [Nat -> Nat], NEW c \in Nat, Laid(pos, c), NEW b \in Nat,
         NEW f, NEW len \in Nat, NEW last \in Nat, Now(f, len, last),
         currentState'["client"] = Part(f, b, len),
         NEW queue, NEW old \in Nat, NEW new \in Nat, NEW diff, NEW written,
         SendInFragments("client", queue, old, new, diff, written),
         Ready(pos, b, f, len, last, queue, old, new, diff)
  PROVE  KInv'
<1>0. /\ old <= last /\ Last(queue).num = new /\ last <= new /\ (new = last => pos[new] = len)
      /\ ~shutdownInProgress["client"] => new = last \/ new = last + 1
      /\ diff = Added(Part(f, pos[old], len)) /\ b <= len
      /\ \A i \in DOMAIN queue :
           \/ queue[i].num = new /\ queue[i].state = Part(f, b, len)
           \/ /\ queue[i].num \in 0..last /\ b <= pos[queue[i].num]
              /\ queue[i].state = Part(f, b, pos[queue[i].num])
  BY DEF Ready
<1> USE <1>0
<1> DEFINE then == [n \in Nat |-> IF n <= last THEN pos[n] ELSE len]
<1>1. "client" \in Endpoint /\ Peer("client") = "server" /\ "server" \in Endpoint
  BY DEF Endpoint, Peer
<1>2. /\ f \in Seq(UserInput) /\ pos[last] <= len
      /\ \A m, n \in 0..last : m <= n => pos[m] <= pos[n]
      /\ last = MaxUint64 => shutdownInProgress["client"]
      /\ last # MaxUint64 => last <= MaxNum["client"]
  BY Zenon DEF Laid, Now
<1>3. /\ DOMAIN sentStates = Endpoint /\ DOMAIN network = Endpoint /\ network["server"] \in Seq(Instruction("client"))
      /\ shutdownInProgress \in [Endpoint -> BOOLEAN]
  BY <1>1 DEF IInv, TypeOK, SenderTypeOK, SystemTypeOK, Peer
<1>4. /\ new <= MaxNum["client"] \/ new = MaxUint64
      /\ sentStates' = [sentStates EXCEPT !["client"] = queue]
      /\ shutdownInProgress["client"] => shutdownInProgress'["client"]
  BY <1>1, <1>3 DEF SendInFragments
<1>5. MaxNum["client"] \in Nat /\ MaxUint64 \in Nat /\ MaxNum["client"] + 1 < MaxUint64
  BY <1>1, NumbersAssumption DEF NumbersSuffice
<1>6. new = MaxUint64 => shutdownInProgress["client"]
  <2>1. PICK most \in Nat, end \in Nat : most = MaxNum["client"] /\ end = MaxUint64
    BY <1>5
  <2>2. most + 1 < end
    BY <1>5, <2>1
  <2>3. ~shutdownInProgress["client"] => last <= most /\ last # end
    BY <1>2, <2>1
  <2>4. ~shutdownInProgress["client"] => new # end
    BY <2>2, <2>3
  <2> QED  BY <2>1, <2>4
<1>7. new # MaxUint64 => new <= MaxNum["client"]
  BY <1>4
<1>8. then \in [Nat -> Nat]
  BY <1>2
<1>9. then[new] = len
  BY <1>2
<1>10. \A n \in 0..last : then[n] = pos[n] /\ pos[n] \in Nat
  <2> SUFFICES ASSUME NEW n \in 0..last PROVE then[n] = pos[n] /\ pos[n] \in Nat
    OBVIOUS
  <2>1. n \in Nat /\ n <= last
    OBVIOUS
  <2> QED  BY <2>1
<1>11. \A m, n \in 0..new : m <= n => then[m] <= then[n]
  <2> SUFFICES ASSUME NEW m \in 0..new, NEW n \in 0..new, m <= n PROVE then[m] <= then[n]
    OBVIOUS
  <2>1. m \in Nat /\ n \in Nat /\ last \in 0..last
    BY <1>2
  <2>2. CASE n <= last
    <3>1. m \in 0..last /\ n \in 0..last
      BY <1>2, <2>1, <2>2
    <3> HIDE DEF then
    <3> QED  BY <1>2, <1>10, <3>1
  <2>3. CASE ~(n <= last) /\ m <= last
    <3>1. m \in 0..last
      BY <1>2, <2>1, <2>3
    <3>2. then[n] = len /\ then[m] = pos[m] /\ pos[m] <= pos[last]
      BY <1>2, <2>1, <2>3, <3>1
    <3>3. pos[m] \in Nat /\ pos[last] \in Nat
      BY <1>2, <2>1
    <3> HIDE DEF then
    <3> QED  BY <1>2, <3>2, <3>3
  <2>4. CASE ~(n <= last) /\ ~(m <= last)
    <3>1. then[n] = len /\ then[m] = len /\ len <= len
      BY <2>1, <2>4
    <3> HIDE DEF then
    <3> QED  BY <3>1
  <2> QED  BY <2>2, <2>3, <2>4
<1> HIDE DEF then
<1>12. \A i \in DOMAIN queue : b <= then[queue[i].num] /\ queue[i].state = Part(f, b, then[queue[i].num])
  BY <1>9, <1>10
<1> DEFINE OnNet(x) == /\ x.oldNum <= x.newNum
                       /\ x.diff = Added(Part(f, then[x.oldNum], then[x.newNum]))
<1>13. \A i \in DOMAIN network["server"] : OnNet(network["server"][i])
  <2> SUFFICES ASSUME NEW i \in DOMAIN network["server"] PROVE OnNet(network["server"][i])
    OBVIOUS
  <2> DEFINE x == network["server"][i]
  <2>1. x.oldNum <= x.newNum /\ x.diff = Added(Part(f, pos[x.oldNum], pos[x.newNum]))
    BY DEF Laid, Now
  <2>2. x.oldNum \in 0..last /\ x.newNum \in 0..last
    <3>1. x.oldNum \in Nat /\ x.newNum \in Nat /\ x.newNum <= last
      BY ClientQueue DEF Now
    <3>2. x.oldNum <= x.newNum
      BY <2>1
    <3> HIDE DEF x
    <3>3. PICK m \in Nat, n \in Nat : m = x.oldNum /\ n = x.newNum
      BY <3>1
    <3>4. m <= n /\ n <= last
      BY <3>1, <3>2, <3>3
    <3>5. m \in 0..last /\ n \in 0..last
      BY <3>4
    <3> QED  BY <3>3, <3>5
  <2> HIDE DEF x
  <2> QED  BY <1>10, <2>1, <2>2 DEF x
<1> DEFINE inst == InstructionOf("client", queue, old, new, diff)
<1>14. OnNet(inst)
  <2>1. inst.oldNum = old /\ inst.newNum = new /\ inst.diff = diff
    BY DEF InstructionOf
  <2>2. old \in 0..last /\ old <= new
    BY <1>2
  <2>3. then[old] = pos[old]
    BY <1>10, <2>2
  <2> HIDE DEF inst
  <2> QED  BY <1>9, <2>1, <2>2, <2>3
<1> HIDE DEF inst, OnNet
<1>15. \A i \in DOMAIN network'["server"] : OnNet(network'["server"][i])
  <2>1. \A i \in DOMAIN network'["server"] :
          network'["server"][i] = inst \/ \E j \in DOMAIN network["server"] : network'["server"][i] = network["server"][j]
    BY OnlyTheInstruction DEF inst
  <2> QED  BY <1>13, <1>14, <2>1
<1>16. sentStates'["client"] = queue /\ fed'["client"] = f /\ currentState'["client"] = Part(f, b, len) /\ len = Len(f)
  BY <1>1, <1>3, <1>4 DEF Now
<1>17. Last(queue).num = new
  OBVIOUS
<1>18. then[new] <= len
  BY <1>2, <1>9
<1>19. Laid(then, b)'
  BY <1>2, <1>4, <1>6, <1>7, <1>9, <1>11, <1>12, <1>15, <1>16, <1>17, <1>18, Zenon DEF Laid, OnNet
<1> QED  BY <1>8, <1>19 DEF KInv

\* The queue that goes with a new number, by what it holds.
LEMMA QueueToSend ==
  ASSUME NEW e \in Endpoint, NEW q, GoodQueue(e, q), NEW x \in State(e),
         NEW n \in Nat, Last(q).num <= n, n <= MaxUint64,
         NEW k, (k = q /\ Last(q).num = n) \/ k = AddSentState(q, n, x)
  PROVE  /\ Last(k).num = n
         /\ \A i \in DOMAIN k : \/ k[i].num = n /\ k[i].state = x
                              \/ \E j \in DOMAIN q : k[i] = q[j]
<1>1. CASE k = q /\ Last(q).num = n
  BY <1>1
<1>2. CASE k = AddSentState(q, n, x)
  <2>1. Last(k).num = n
    BY <1>2, AddSentStateIsGood
  <2>2. \A i \in DOMAIN k : k[i] = [num |-> n, state |-> x] \/ \E j \in DOMAIN q : k[i] = q[j]
    BY <1>2, AddedElements DEF GoodQueue
  <2>3. [num |-> n, state |-> x].num = n /\ [num |-> n, state |-> x].state = x
    OBVIOUS
  <2> QED  BY <2>1, <2>2, <2>3
<1> QED  BY <1>1, <1>2

\* A tick of the client: whatever state it assumes its server to have, it sends
\* what has been typed since then, or an empty ack if that is nothing.
LEMMA TickKeepsKInv ==
  ASSUME StatesClosed, IInv, KInv, ClientSendsUserStreams, NumbersSuffice,
         NEW k \in DOMAIN sentStates["client"], Tick("client", k)
  PROVE  KInv'
<1> DEFINE q == sentStates["client"]
           sent == RationalizedSent("client")
           current == RationalizedCurrent("client")
           diff == StateDiffFrom("client", current, sent[k].state)
<1>1. PICK pos, c : pos \in [Nat -> Nat] /\ c \in Nat /\ Laid(pos, c)
  BY DEF KInv
<1>2. PICK f, len, last :
        /\ f \in Seq(UserInput) /\ len \in Nat /\ last \in Nat
        /\ f = fed["client"] /\ len = Len(f) /\ last = Last(q).num
  <2>1. fed["client"] \in Seq(UserInput)
    BY <1>1 DEF Laid
  <2>2. Len(fed["client"]) \in Nat /\ Last(q).num \in Nat
    BY <2>1, LenProperties, ClientQueue
  <2> QED  BY <2>1, <2>2
<1>3. Now(f, len, last)
  BY <1>2 DEF Now
<1>4. 1 \in DOMAIN q /\ Len(q) \in DOMAIN q /\ \A i \in DOMAIN q : q[i].num \in Nat
  BY ClientNumbers, Zenon
<1>5. PICK b, old : b \in Nat /\ old \in Nat /\ b = pos[q[1].num] /\ old = q[k].num
  <2>1. pos[q[1].num] \in Nat
    BY <1>1, <1>4, WhereStatesEnd
  <2> QED  BY <1>4, <2>1
<1>6. /\ b <= len /\ current = Part(f, b, len) /\ DOMAIN sent = DOMAIN q
      /\ \A i \in DOMAIN q : sent[i].num = q[i].num /\ sent[i].state = Part(f, b, pos[q[i].num])
  BY <1>1, <1>2, <1>5, RationalizedToFront
<1>7. \A i \in DOMAIN q : /\ q[i].num \in 0..last /\ pos[q[i].num] \in Nat
                         /\ b <= pos[q[i].num] /\ pos[q[i].num] <= len
  BY <1>1, <1>2, <1>5, WhereStatesEnd
<1>8. GoodQueue("client", sent) /\ Last(sent).num = last /\ current \in State("client")
      /\ Len(sent) = Len(q)
  <2>1. "client" \in Endpoint
    BY DEF Endpoint
  <2> QED  BY <1>2, <2>1, RationalizedSentIsGood DEF IInv
<1>9. Last(sent).state = Part(f, b, pos[last])
  BY <1>2, <1>4, <1>6, <1>8 DEF Last
<1>10. StateReset("client", current) = current /\ StateClone("client", current) = current
  BY DEF ClientSendsUserStreams, MCReset, MCClone
<1>11. diff = Added(Part(f, pos[old], len))
  <2>1. PICK x \in Nat : x = pos[old]
    BY <1>5, <1>7
  <2>2. b <= x /\ x <= len /\ len <= Len(f)
    BY <1>2, <1>5, <1>7, <2>1
  <2>3. StateDiffFrom("client", Part(f, b, len), Part(f, b, x)) = Added(Part(f, x, len))
    BY <1>2, <1>5, <2>2, OfParts
  <2> QED  BY <1>5, <1>6, <2>1, <2>3
<1> HIDE DEF q, sent, current, diff
<1>12. \A i \in DOMAIN sent : /\ sent[i].num \in 0..last /\ b <= pos[sent[i].num]
                            /\ sent[i].state = Part(f, b, pos[sent[i].num])
  BY <1>6, <1>7
<1>13. /\ last = MaxUint64 => shutdownInProgress["client"] /\ pos[last] = len
       /\ last # MaxUint64 => last <= MaxNum["client"]
  BY <1>1, <1>2, Zenon DEF Laid, q
<1>14. /\ "client" \in Endpoint /\ MaxUint64 \in Nat /\ MaxNum["client"] \in Nat
       /\ MaxNum["client"] + 1 < MaxUint64 /\ last <= MaxUint64
  <2>1. "client" \in Endpoint /\ MaxUint64 \in Nat /\ MaxNum["client"] \in Nat
    BY NumbersAssumption DEF Endpoint
  <2>2. \E i \in DOMAIN q : last = q[i].num
    BY <1>2, <1>4 DEF Last, q
  <2> QED  BY <2>1, <2>2 DEF NumbersSuffice, IInv, NumbersBounded, Nums, q
<1>15. ASSUME NEW m, m \in {last, last + 1}, m = last => pos[last] = len, NEW n, n = NumberFor("client", m)
       PROVE  /\ n \in Nat /\ last <= n /\ n <= MaxUint64 /\ (n = last => pos[n] = len)
              /\ ~shutdownInProgress["client"] => n = last \/ n = last + 1
  <2>1. CASE shutdownInProgress["client"]
    BY <1>2, <1>13, <1>14, <1>15, <2>1 DEF NumberFor
  <2>2. CASE ~shutdownInProgress["client"]
    <3>1. n = m /\ last # MaxUint64 /\ last <= MaxNum["client"]
      BY <1>13, <1>15, <2>2 DEF NumberFor
    <3>2. last <= MaxUint64 /\ last + 1 <= MaxUint64
      <4>1. PICK most \in Nat, end \in Nat : most = MaxNum["client"] /\ end = MaxUint64
        BY <1>14
      <4>2. most + 1 < end /\ last <= most
        BY <1>14, <3>1, <4>1
      <4>3. last <= end /\ last + 1 <= end
        BY <1>2, <4>2
      <4> QED  BY <4>1, <4>3
    <3>3. n = last \/ n = last + 1
      BY <1>15, <3>1
    <3>4. n \in Nat /\ last <= n /\ n <= MaxUint64
      BY <1>2, <3>2, <3>3
    <3>5. n = last => pos[n] = len
      BY <1>15, <3>1
    <3> QED  BY <3>3, <3>4, <3>5
  <2> QED  BY <2>1, <2>2
<1>16. fed' = fed /\ currentState'["client"] = Part(f, b, len)
  <2>1. fed' = fed /\ currentState' = [currentState EXCEPT !["client"] = StateReset("client", current)]
    BY DEF Tick, current
  <2>2. "client" \in DOMAIN currentState
    BY <1>14 DEF IInv, TypeOK, SenderTypeOK
  <2> QED  BY <1>6, <1>10, <2>1, <2>2
<1>17. ASSUME NEW m, m \in {last, last + 1}, m = last => pos[last] = len, NEW n, n = NumberFor("client", m),
             NEW queue, (queue = sent /\ n = last) \/ queue = AddSentState(sent, n, current),
             NEW d, d = diff, NEW written,
             SendInFragments("client", queue, old, n, d, written)
      PROVE  KInv'
  <2>1. /\ n \in Nat /\ last <= n /\ n <= MaxUint64 /\ (n = last => pos[n] = len)
        /\ ~shutdownInProgress["client"] => n = last \/ n = last + 1
    BY <1>15, <1>17
  <2>2. /\ Last(queue).num = n
        /\ \A i \in DOMAIN queue : \/ queue[i].num = n /\ queue[i].state = current
                                 \/ \E j \in DOMAIN sent : queue[i] = sent[j]
    <3>1. (queue = sent /\ Last(sent).num = n) \/ queue = AddSentState(sent, n, current)
      BY <1>8, <1>17
    <3>2. n \in Nat /\ Last(sent).num <= n
      BY <1>8, <2>1
    <3> QED  BY <1>2, <1>8, <1>14, <2>1, <3>1, <3>2, QueueToSend
  <2>3. \A i \in DOMAIN queue :
           \/ queue[i].num = n /\ queue[i].state = Part(f, b, len)
           \/ /\ queue[i].num \in 0..last /\ b <= pos[queue[i].num]
              /\ queue[i].state = Part(f, b, pos[queue[i].num])
    <3> SUFFICES ASSUME NEW i \in DOMAIN queue
                 PROVE  \/ queue[i].num = n /\ queue[i].state = Part(f, b, len)
                        \/ /\ queue[i].num \in 0..last /\ b <= pos[queue[i].num]
                           /\ queue[i].state = Part(f, b, pos[queue[i].num])
      OBVIOUS
    <3>1. CASE queue[i].num = n /\ queue[i].state = current
      BY <1>6, <3>1
    <3>2. CASE \E j \in DOMAIN sent : queue[i] = sent[j]
      BY <1>12, <3>2, Zenon
    <3> QED  BY <2>2, <3>1, <3>2
  <2>4. old <= last
    <3>1. old \in 0..last
      BY <1>5, <1>7 DEF q
    <3> QED  BY <3>1
  <2>5. d = Added(Part(f, pos[old], len))
    BY <1>11, <1>17
  <2>6. Ready(pos, b, f, len, last, queue, old, n, d)
    BY <1>6, <2>1, <2>2, <2>3, <2>4, <2>5, Zenon DEF Ready
  <2>7. fed' = fed /\ currentState'["client"] = Part(f, b, len) /\ Laid(pos, c) /\ Now(f, len, last)
    BY <1>1, <1>3, <1>16
  <2>8. SendInFragments("client", queue, old, n, d, written)
    BY <1>17
  <2> QED  BY <1>1, <1>2, <1>5, <2>1, <2>6, <2>7, <2>8, SendingKeepsKInv
<1>18. sent[k].num = old
  BY <1>5, <1>6 DEF q
<1>19. PICK written \in SendOutcome :
         \/ SendToReceiver("client", StateReset("client", current), sent, sent[k], diff, written)
         \/ diff = NoDiff /\ SendEmptyAck("client", StateReset("client", current), sent, sent[k], written)
         \/ NothingToSend("client", current, sent, sent[k])
  BY DEF Tick, current, sent, diff
<1>20. CASE SendToReceiver("client", current, sent, sent[k], diff, written)
  <2> DEFINE m == IF StateEqual("client", current, Last(sent).state) THEN last ELSE last + 1
             n == NumberFor("client", m)
             queue == IF n = last THEN sent ELSE AddSentState(sent, n, current)
  <2>1. SendInFragments("client", queue, old, n, diff, written)
    BY <1>8, <1>10, <1>18, <1>20, Zenon DEF SendToReceiver
  <2>2. m \in {last, last + 1} /\ (m = last => pos[last] = len)
    <3>1. CASE ~StateEqual("client", current, Last(sent).state)
      BY <1>2, <3>1
    <3>2. CASE StateEqual("client", current, Last(sent).state)
      <4>1. PICK x \in Nat : x = pos[last]
        BY <1>1, <1>2
      <4>2. x <= len /\ b <= x
        <5>1. \E i \in DOMAIN q : last = q[i].num
          BY <1>2, <1>4 DEF Last, q
        <5> QED  BY <1>7, <4>1, <5>1
      <4>3. StateEqual("client", Part(f, b, len), Part(f, b, x)) => x = len
        <5>1. len <= Len(f)
          BY <1>2
        <5> QED  BY <1>2, <1>5, <4>2, <5>1, OfParts, Zenon
      <4> QED  BY <1>6, <1>9, <3>2, <4>1, <4>3
    <3> QED  BY <3>1, <3>2
  <2>3. (queue = sent /\ n = last) \/ queue = AddSentState(sent, n, current)
    OBVIOUS
  <2> HIDE DEF queue, n, m
  <2> QED  BY <1>17, <2>1, <2>2, <2>3 DEF n
<1>21. CASE diff = NoDiff /\ SendEmptyAck("client", current, sent, sent[k], written)
  <2> DEFINE n == NumberFor("client", last + 1)
             queue == AddSentState(sent, n, current)
  <2>1. SendInFragments("client", queue, old, n, NoDiff, written)
    BY <1>8, <1>10, <1>18, <1>21, Zenon DEF SendEmptyAck
  <2>2. last + 1 \in {last, last + 1} /\ last + 1 # last
    BY <1>2
  <2>3. queue = AddSentState(sent, n, current)
    OBVIOUS
  <2> HIDE DEF queue, n
  <2> QED  BY <1>17, <1>21, <2>1, <2>2, <2>3 DEF n
<1>22. CASE NothingToSend("client", current, sent, sent[k])
  <2>1. /\ sentStates' = [sentStates EXCEPT !["client"] = sent]
        /\ UNCHANGED <<network, shutdownInProgress>>
    BY <1>22 DEF NothingToSend
  <2>2. DOMAIN sentStates = Endpoint
    BY DEF IInv, TypeOK, SenderTypeOK
  <2>3. sentStates'["client"] = sent /\ network'["server"] = network["server"]
        /\ fed'["client"] = f /\ shutdownInProgress'["client"] = shutdownInProgress["client"]
    BY <1>2, <1>14, <1>16, <2>1, <2>2
  <2>4. /\ \A x, y \in 0..last : x <= y => pos[x] <= pos[y]
        /\ pos[last] <= len
        /\ \A i \in DOMAIN network["server"] :
             LET inst == network["server"][i]
             IN  /\ inst.oldNum <= inst.newNum
                 /\ inst.diff = Added(Part(f, pos[inst.oldNum], pos[inst.newNum]))
    BY <1>1, <1>2, Zenon DEF Laid, q
  <2>5. Laid(pos, b)'
    BY <1>2, <1>8, <1>12, <1>13, <1>16, <2>3, <2>4, Zenon DEF Laid
  <2>6. DOMAIN fed' = Endpoint
    BY <1>16 DEF KInv
  <2> QED  BY <1>1, <1>5, <2>5, <2>6 DEF KInv
<1> QED  BY <1>10, <1>19, <1>20, <1>21, <1>22

-----------------------------------------------------------------------------
(* The other steps.                                                        *)

\* A packet for the client may acknowledge, and so remove, states it has sent.
LEMMA RecvKeepsKInv ==
  ASSUME IInv, KInv, NEW e \in Endpoint, Recv(e)
  PROVE  KInv'
<1> DEFINE q == sentStates["client"]
<1>1. PICK i \in Deliverable(e) :
        /\ network' = network \/ network' = [network EXCEPT ![e] = RemoveAt(@, i)]
        /\ ProcessPayload(e, network[e][i])
  BY DEF Recv
<1>2. TypeOK /\ DOMAIN sentStates = Endpoint /\ "client" \in Endpoint /\ "server" \in Endpoint
      /\ i \in DOMAIN network[e]
  BY DEF IInv, TypeOK, SenderTypeOK, Endpoint, Deliverable
<1>3. network[e][i].ackNum \in Nat
  <2>1. network[e] \in Seq(Instruction(Peer(e)))
    BY <1>2 DEF TypeOK, SystemTypeOK
  <2>2. network[e][i] \in Instruction(Peer(e))
    BY <1>2, <2>1, LenProperties, ElementOfSeq
  <2> QED  BY <2>2 DEF Instruction
<1>4. sentStates' = [sentStates EXCEPT ![e] = ProcessAcknowledgmentThrough(@, network[e][i].ackNum)]
  BY <1>1 DEF ProcessPayload
<1>5. UNCHANGED <<currentState, shutdownInProgress, fed>> /\ DOMAIN fed = Endpoint
  BY DEF Recv, KInv
<1>6. \A m \in DOMAIN network'["server"] :
        \E j \in DOMAIN network["server"] : network'["server"][m] = network["server"][j]
  <2>1. NetworkShrinks(e)
    BY <1>1, <1>2, TakingOneShrinks
  <2>2. CASE e = "server"
    BY <2>1, <2>2 DEF NetworkShrinks
  <2>3. CASE e # "server"
    BY <1>2, <2>1, <2>3 DEF NetworkShrinks
  <2> QED  BY <2>2, <2>3
<1>7. /\ Last(sentStates'["client"]).num = Last(q).num
      /\ \A m \in DOMAIN sentStates'["client"] : \E j \in DOMAIN q : sentStates'["client"][m] = q[j]
  <2>1. CASE e # "client"
    BY <1>2, <1>4, <2>1
  <2>2. CASE e = "client"
    <3> DEFINE n == network[e][i].ackNum
               kept == ProcessAcknowledgmentThrough(q, n)
    <3>1. sentStates'["client"] = kept
      BY <1>2, <1>4, <2>2
    <3>2. q \in Queue(State("client")) /\ Ordered(q)
      BY <1>2, ClientQueue DEF GoodQueue
    <3>3. n \in Nat
      BY <1>3
    <3> HIDE DEF q, n
    <3>4. \A m \in DOMAIN kept : \E j \in DOMAIN q : kept[m] = q[j]
      BY <3>2, <3>3, AckedElements
    <3>5. Last(kept) = Last(q)
      BY <3>2, <3>3, KeepFromKnown DEF ProcessAcknowledgmentThrough
    <3> QED  BY <3>1, <3>4, <3>5 DEF q
  <2> QED  BY <2>1, <2>2
<1> QED  BY <1>5, <1>6, <1>7, FewerKeepsKInv

\* A tick of the server sends to the client only.
LEMMA ServerTickKeepsKInv ==
  ASSUME StatesClosed, IInv, KInv, TickAssumingNewest("server") \/ TickAssumingOldest("server")
  PROVE  KInv'
<1>1. "client" \in Endpoint /\ "server" \in Endpoint /\ Peer("server") = "client"
  BY DEF Endpoint, Peer
<1>2. TickOutcome("server")
  BY <1>1, BothTicksSend
<1>3. PICK q, x : /\ Sends("server", q) /\ currentState' = [currentState EXCEPT !["server"] = x]
                  /\ fed' = fed
  BY <1>2 DEF TickOutcome
<1>4. currentState'["client"] = currentState["client"] /\ sentStates'["client"] = sentStates["client"]
  BY <1>1, <1>3 DEF Sends, IInv, TypeOK, SenderTypeOK
<1>5. network'["server"] = network["server"]
  <2>1. DOMAIN network = Endpoint
    BY DEF IInv, TypeOK, SystemTypeOK
  <2>2. network' = network \/ \E inst : network' = [network EXCEPT !["client"] = Append(@, inst)]
    BY <1>1, <1>3 DEF Sends
  <2> QED  BY <1>1, <2>1, <2>2
<1>6. shutdownInProgress'["client"] = shutdownInProgress["client"]
  <2>1. shutdownInProgress \in [Endpoint -> BOOLEAN]
    BY DEF IInv, TypeOK, SenderTypeOK
  <2>2. shutdownInProgress' = shutdownInProgress
        \/ \E v : shutdownInProgress' = [shutdownInProgress EXCEPT !["server"] = v]
    <3>1. ASSUME NEW queue, NEW old, NEW new, NEW diff, NEW written,
                 SendInFragments("server", queue, old, new, diff, written)
          PROVE  \E v : shutdownInProgress' = [shutdownInProgress EXCEPT !["server"] = v]
      BY <3>1 DEF SendInFragments
    <3>2. PICK k : Tick("server", k)
      BY DEF TickAssumingNewest, TickAssumingOldest
    <3>3. PICK current, sent, assumed, diff, written :
            \/ SendToReceiver("server", current, sent, assumed, diff, written)
            \/ SendEmptyAck("server", current, sent, assumed, written)
            \/ NothingToSend("server", current, sent, assumed)
      BY <3>2 DEF Tick
    <3>4. CASE SendToReceiver("server", current, sent, assumed, diff, written)
      BY <3>1, <3>4 DEF SendToReceiver
    <3>5. CASE SendEmptyAck("server", current, sent, assumed, written)
      BY <3>1, <3>5 DEF SendEmptyAck
    <3>6. CASE NothingToSend("server", current, sent, assumed)
      BY <3>6 DEF NothingToSend
    <3> QED  BY <3>3, <3>4, <3>5, <3>6
  <2> QED  BY <1>1, <2>1, <2>2
<1>7. DOMAIN fed' = Endpoint /\ fed'["client"] = fed["client"]
  BY <1>3 DEF KInv
<1> QED  BY <1>4, <1>5, <1>6, <1>7, FewerKeepsKInv

\* Every step keeps the invariant.
LEMMA NextKeepsKInv ==
  ASSUME StatesClosed, ClientSendsUserStreams, OfAUser, NumbersSuffice, IInv, KInv, [Next]_vars
  PROVE  KInv'
<1>0. /\ "client" \in Endpoint /\ "server" \in Endpoint /\ DOMAIN fed = Endpoint
      /\ DOMAIN network = Endpoint /\ DOMAIN currentState = Endpoint
      /\ \A e \in Endpoint : e = "client" \/ e = "server"
  BY DEF Endpoint, KInv, IInv, TypeOK, SenderTypeOK, SystemTypeOK
<1> DEFINE Fewer == \A i \in DOMAIN network'["server"] :
                      \E j \in DOMAIN network["server"] : network'["server"][i] = network["server"][j]
<1>1. ASSUME Fewer, UNCHANGED <<sentStates, fed, currentState>>,
             shutdownInProgress["client"] => shutdownInProgress'["client"]
      PROVE  KInv'
  BY <1>0, <1>1, FewerKeepsKInv
<1>2. ASSUME NEW e \in Endpoint, Input(e) PROVE KInv'
  <2>1. CASE e = "client"
    BY <1>2, <2>1, InputKeepsKInv
  <2>2. CASE e = "server"
    <3>1. PICK ev : /\ currentState' = [currentState EXCEPT !["server"] = Push("server", @, ev)]
                    /\ fed' = [fed EXCEPT !["server"] = Append(@, ev)]
                    /\ UNCHANGED <<sentStates, shutdownInProgress, network>>
      BY <1>2, <2>2 DEF Input
    <3>2. DOMAIN fed' = Endpoint /\ fed'["client"] = fed["client"]
          /\ currentState'["client"] = currentState["client"]
      BY <1>0, <3>1
    <3> QED  BY <3>1, <3>2, FewerKeepsKInv
  <2> QED  BY <1>0, <2>1, <2>2
<1>3. ASSUME NEW e \in Endpoint, TickAssumingNewest(e) \/ TickAssumingOldest(e) PROVE KInv'
  <2>1. CASE e = "client"
    <3>1. PICK k \in {1, Len(sentStates["client"])} : Tick("client", k)
      BY <1>3, <2>1 DEF TickAssumingNewest, TickAssumingOldest
    <3>2. k \in DOMAIN sentStates["client"]
      BY ClientQueue
    <3> QED  BY <3>1, <3>2, TickKeepsKInv
  <2>2. CASE e = "server"
    BY <1>3, <2>2, ServerTickKeepsKInv
  <2> QED  BY <1>0, <2>1, <2>2
<1>4. ASSUME NEW e \in Endpoint, Recv(e) PROVE KInv'
  BY <1>4, RecvKeepsKInv
<1>5. ASSUME NEW e \in Endpoint, Lose(e) PROVE KInv'
  <2>1. PICK i \in Deliverable(e) : network' = [network EXCEPT ![e] = RemoveAt(@, i)]
    BY <1>5 DEF Lose
  <2>2. NetworkShrinks(e)
    BY <2>1, TakingOneShrinks DEF Deliverable, IInv
  <2>3. Fewer
    <3>1. CASE e = "server"
      BY <2>2, <3>1 DEF NetworkShrinks
    <3>2. CASE e # "server"
      BY <1>0, <2>2, <3>2 DEF NetworkShrinks
    <3> QED  BY <3>1, <3>2
  <2>4. UNCHANGED <<sentStates, fed, currentState, shutdownInProgress>>
    BY <1>5 DEF Lose, senderVars, historyVars
  <2> QED  BY <1>1, <2>3, <2>4
<1>6. ASSUME NEW e \in Endpoint, StartShutdown(e) PROVE KInv'
  <2>1. /\ UNCHANGED <<sentStates, fed, currentState, network>>
        /\ shutdownInProgress' = [shutdownInProgress EXCEPT ![e] = TRUE]
    BY <1>6 DEF StartShutdown, historyVars
  <2>2. shutdownInProgress["client"] => shutdownInProgress'["client"]
    BY <1>0, <2>1 DEF IInv, TypeOK, SenderTypeOK
  <2>3. Fewer
    BY <2>1
  <2> QED  BY <1>1, <2>1, <2>2, <2>3
<1>7. ASSUME NEW e \in Endpoint, End(e) \/ Abort(e) PROVE KInv'
  <2>1. /\ UNCHANGED <<sentStates, fed, currentState, shutdownInProgress>>
        /\ network' = [network EXCEPT ![e] = <<>>]
    BY <1>7 DEF End, Abort, Leave, senderVars, historyVars
  <2>2. Fewer
    BY <1>0, <2>1
  <2> QED  BY <1>1, <2>1, <2>2
<1>8. CASE UNCHANGED vars
  <2>1. UNCHANGED <<sentStates, fed, currentState, shutdownInProgress, network>>
    BY <1>8 DEF vars, senderVars, historyVars
  <2>2. Fewer
    BY <2>1
  <2> QED  BY <1>1, <2>1, <2>2
<1> QED  BY <1>2, <1>3, <1>4, <1>5, <1>6, <1>7, <1>8 DEF Next

\* Whatever the user types and however often the window is resized, whatever is
\* lost, duplicated, reordered, acknowledged late or cut from the queue of sent
\* states, the difference tick sends between two user streams
\* (UserStream.DiffFrom) turns the one into the other, as sender.go:381 verifies,
\* unless a keystroke comes straight after a resize between the two (user.go:156).
THEOREM KeystrokesAlwaysRoundTrip ==
  ASSUME StatesClosed, ClientSendsUserStreams, OfAUser, NumbersSuffice
  PROVE  Spec => []KeystrokesRoundTrip
<1> DEFINE Inv == IInv /\ KInv
<1>1. Init => Inv
  BY InitIInv, InitKInv
<1>2. Inv /\ [Next]_vars => Inv'
  BY NextKeepsIInv, NextKeepsKInv
<1>3. Inv => KeystrokesRoundTrip
  BY LaidRoundTrips
<1> QED  BY <1>1, <1>2, <1>3, PTL DEF Spec

=============================================================================
