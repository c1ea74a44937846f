-------------------------- MODULE Fragments_proofs --------------------------
(***************************************************************************)
(* What the Fragmenter and the FragmentAssembly keep true for every set of *)
(* instructions, payload length, MTU and weather, and that they implement  *)
(* Datagrams: what comes out is whole and is one of the instructions that  *)
(* went in.                                                                *)
(***************************************************************************)
EXTENDS Fragments, TLAPS, SequenceTheorems, FiniteSetTheorems, WellFoundedInduction

-----------------------------------------------------------------------------
(* Numbers.                                                                *)

\* Multiplication by a number keeps the order.
LEMMA TimesIsMonotonic ==
  ASSUME NEW a \in Nat, NEW b \in Nat, NEW c \in Nat, a <= b
  PROVE  a * c \in Nat /\ b * c \in Nat /\ a * c <= b * c
  OBVIOUS

\* What division leaves.
LEMMA Division ==
  ASSUME NEW a \in Nat, NEW b \in Nat \ {0}
  PROVE  a \div b \in Nat /\ (a \div b) * b <= a /\ a < (a \div b) * b + b
  OBVIOUS

\* The number of fragments of an instruction: all but the last are full.
LEMMA PiecesCover ==
  ASSUME NEW inst \in Instruction, NEW mtu \in Mtu
  PROVE  /\ Pieces(inst, mtu) \in 1..NumLimit
         /\ (Pieces(inst, mtu) - 1) * mtu < Size(inst)
         /\ Size(inst) <= Pieces(inst, mtu) * mtu
<1> DEFINE n == Size(inst)
           P == Pieces(inst, mtu)
<1>1. n \in Nat \ {0} /\ mtu \in Nat \ {0} /\ NumLimit \in Nat \ {0} /\ n <= mtu * NumLimit
  BY SizeAssumption, FitsAssumption
<1>2. P = (n + mtu - 1) \div mtu /\ n + mtu - 1 \in Nat
  BY <1>1 DEF Pieces
<1> HIDE DEF n, P
<1>3. P \in Nat /\ P * mtu <= n + mtu - 1 /\ n + mtu - 1 < P * mtu + mtu
  BY <1>1, <1>2, Division
<1>4. P * mtu \in Nat /\ n <= P * mtu /\ P * mtu - mtu < n
  <2>1. P * mtu \in Nat
    BY <1>1, <1>3
  <2> QED  BY <1>1, <1>3, <2>1
<1>5. (P - 1) * mtu = P * mtu - mtu
  BY <1>1, <1>3
<1>6. P # 0
  BY <1>1, <1>4
<1>7. P <= NumLimit
  <2> SUFFICES ASSUME ~(P <= NumLimit) PROVE FALSE
    OBVIOUS
  <2>1. P - 1 \in Nat /\ NumLimit <= P - 1
    BY <1>1, <1>3
  <2>2. NumLimit * mtu <= (P - 1) * mtu
    BY <1>1, <2>1, TimesIsMonotonic
  <2>3. NumLimit * mtu = mtu * NumLimit /\ mtu * NumLimit \in Nat
    BY <1>1
  <2> QED  BY <1>1, <1>4, <1>5, <2>2, <2>3
<1> QED  BY <1>1, <1>3, <1>4, <1>5, <1>6, <1>7 DEF n, P

\* A fragment on the wire is what was cut: its number survives, and only the
\* last one is final.
Piece(id, inst, mtu, k) == OnTheWire(NewFragment(id, inst, mtu, k))

LEMMA PieceFields ==
  ASSUME NEW inst \in Instruction, NEW mtu \in Mtu, NEW id, NEW k \in 0..Pieces(inst, mtu) - 1
  PROVE  LET f == Piece(id, inst, mtu, k)
             last == k = Pieces(inst, mtu) - 1
         IN  f = [id |-> id, fragmentNum |-> k, final |-> last,
                  contents |-> [inst |-> inst, from |-> k * mtu,
                                to |-> IF last THEN Size(inst) ELSE (k + 1) * mtu]]
<1> DEFINE P == Pieces(inst, mtu)
           n == Size(inst)
<1>1. /\ P \in 1..NumLimit /\ (P - 1) * mtu < n /\ n <= P * mtu
      /\ n \in Nat \ {0} /\ mtu \in Nat \ {0} /\ NumLimit \in Nat \ {0}
  BY PiecesCover, SizeAssumption
<1> HIDE DEF P, n
<1>2. k \in Nat /\ k <= P - 1 /\ k < NumLimit /\ k + 1 \in Nat /\ P - 1 \in Nat
  BY <1>1 DEF P
<1>3. (k + 1) * mtu >= n <=> k = P - 1
  <2>1. CASE k = P - 1
    <3>1. k + 1 = P
      BY <1>1, <2>1
    <3>2. (k + 1) * mtu = P * mtu
      BY <3>1
    <3> QED  BY <1>1, <2>1, <3>2
  <2>2. CASE k # P - 1
    <3>1. k + 1 <= P - 1
      BY <1>1, <1>2, <2>2
    <3>2. (k + 1) * mtu <= (P - 1) * mtu /\ (k + 1) * mtu \in Nat /\ (P - 1) * mtu \in Nat
      BY <1>1, <1>2, <3>1, TimesIsMonotonic
    <3>3. ~((k + 1) * mtu >= n)
      BY <1>1, <3>2
    <3> QED  BY <2>2, <3>3
  <2> QED  BY <2>1, <2>2
<1>4. k % (2 * NumLimit) = k /\ k % NumLimit = k /\ ~(k >= NumLimit)
  BY <1>1, <1>2
<1>5. NewFragment(id, inst, mtu, k) =
        [id |-> id, fragmentNum |-> k, final |-> k = P - 1,
         contents |-> [inst |-> inst, from |-> k * mtu,
                       to |-> IF k = P - 1 THEN n ELSE (k + 1) * mtu]]
  BY <1>3, <1>4 DEF NewFragment, n
<1> DEFINE fin == k = P - 1
           c == [inst |-> inst, from |-> k * mtu, to |-> IF fin THEN n ELSE (k + 1) * mtu]
           g == [id |-> id, fragmentNum |-> k, final |-> fin, contents |-> c]
<1>6. NewFragment(id, inst, mtu, k) = g
  BY <1>5
<1>7. fin \in BOOLEAN
  OBVIOUS
<1> HIDE DEF fin, c
<1>8. OnTheWire(g) = g
  <2>1. OnTheWire(g) = [g EXCEPT !.fragmentNum = k % NumLimit, !.final = fin \/ k >= NumLimit]
    BY DEF OnTheWire
  <2>2. (fin \/ k >= NumLimit) = fin
    BY <1>4, <1>7
  <2> QED  BY <1>4, <2>1, <2>2
<1>9. Piece(id, inst, mtu, k) = g
  BY <1>6, <1>8 DEF Piece
<1> QED  BY <1>9 DEF P, n, fin, c

\* A nonempty set of numbers has a least element.
LEMMA LeastNumber ==
  ASSUME NEW T, T \subseteq Nat, T # {}
  PROVE  \E x \in T : \A y \in T : x <= y
<1> DEFINE Below == {pair \in Nat \X Nat : pair[1] < pair[2]}
<1>1. IsWellFoundedOn(Below, Nat)
  BY NatLessThanWellFounded, Zenon DEF OpToRel
<1>2. \A x, y \in Nat : <<x, y>> \in Below <=> x < y
  OBVIOUS
<1> HIDE DEF Below
<1>3. PICK x \in T : \A y \in T : ~(<<y, x>> \in Below)
  BY <1>1, WFMin
<1>4. ASSUME NEW y \in T PROVE x <= y
  <2>1. x \in Nat /\ y \in Nat /\ ~(y < x)
    BY <1>2, <1>3
  <2> QED  BY <2>1
<1> QED  BY <1>4

-----------------------------------------------------------------------------
(* Sequences.                                                              *)

\* What is left when one element is taken out.
LEMMA RemoveAtProperties ==
  ASSUME NEW S, NEW s \in Seq(S), NEW i \in 1..Len(s)
  PROVE  /\ RemoveAt(s, i) \in Seq(S) /\ Len(RemoveAt(s, i)) = Len(s) - 1
         /\ \A j \in 1..Len(s) - 1 :
              RemoveAt(s, i)[j] = IF j < i THEN s[j] ELSE s[j + 1]
<1> DEFINE a == SubSeq(s, 1, i - 1)
           b == SubSeq(s, i + 1, Len(s))
           n == Len(s)
<1>0. n \in Nat /\ \A j \in 1..n : s[j] \in S
  BY LenProperties, ElementOfSeq
<1> HIDE DEF n
<1>1. i \in 1..n /\ i \in Nat /\ i - 1 \in Int /\ i + 1 \in Int /\ n = Len(s)
  BY <1>0 DEF n
<1>2. /\ a \in Seq(S) /\ Len(a) = i - 1
      /\ \A j \in 1..i - 1 : a[j] = s[j]
  <2>1. \A j \in 1..i - 1 : s[j] \in S
    BY <1>0, <1>1
  <2>2. /\ a \in Seq(S) /\ Len(a) = IF 1 <= i - 1 THEN i - 1 - 1 + 1 ELSE 0
        /\ \A j \in 1..i - 1 - 1 + 1 : a[j] = s[1 + j - 1]
    BY <1>1, <2>1, SubSeqProperties
  <2> HIDE DEF a
  <2>3. Len(a) = i - 1
    BY <1>1, <2>2
  <2>4. \A j \in 1..i - 1 : j \in 1..i - 1 - 1 + 1 /\ 1 + j - 1 = j
    BY <1>1
  <2> QED  BY <2>2, <2>3, <2>4
<1>3. /\ b \in Seq(S) /\ Len(b) = n - i
      /\ \A j \in 1..n - i : b[j] = s[i + j]
  <2>1. \A j \in i + 1..n : s[j] \in S
    BY <1>0, <1>1
  <2>2. /\ b \in Seq(S) /\ Len(b) = IF i + 1 <= n THEN n - (i + 1) + 1 ELSE 0
        /\ \A j \in 1..n - (i + 1) + 1 : b[j] = s[i + 1 + j - 1]
    BY <1>0, <1>1, <2>1, SubSeqProperties
  <2> HIDE DEF b
  <2>3. Len(b) = n - i
    BY <1>0, <1>1, <2>2
  <2>4. \A j \in 1..n - i : j \in 1..n - (i + 1) + 1 /\ i + 1 + j - 1 = i + j
    BY <1>0, <1>1
  <2> QED  BY <2>2, <2>3, <2>4
<1>4. RemoveAt(s, i) = a \o b
  BY DEF RemoveAt
<1> HIDE DEF a, b
<1>5. /\ a \o b \in Seq(S) /\ Len(a \o b) = Len(a) + Len(b)
      /\ \A j \in 1..Len(a) + Len(b) :
           (a \o b)[j] = IF j <= Len(a) THEN a[j] ELSE b[j - Len(a)]
  BY <1>2, <1>3, ConcatProperties
<1>6. Len(a) + Len(b) = n - 1
  BY <1>0, <1>1, <1>2, <1>3
<1>7. ASSUME NEW j \in 1..n - 1 PROVE (a \o b)[j] = IF j < i THEN s[j] ELSE s[j + 1]
  <2>1. (a \o b)[j] = IF j <= i - 1 THEN a[j] ELSE b[j - (i - 1)]
    BY <1>2, <1>5, <1>6
  <2>2. CASE j < i
    <3>1. j <= i - 1 /\ j \in 1..i - 1
      BY <1>1, <2>2
    <3> QED  BY <1>2, <2>1, <2>2, <3>1
  <2>3. CASE ~(j < i)
    <3>1. ~(j <= i - 1) /\ j - (i - 1) \in 1..n - i /\ i + (j - (i - 1)) = j + 1
      BY <1>0, <1>1, <2>3
    <3> QED  BY <1>3, <2>1, <2>3, <3>1
  <2> QED  BY <2>2, <2>3
<1> QED  BY <1>1, <1>4, <1>5, <1>6, <1>7

\* What comes of inserting an element.
LEMMA InsertAtProperties ==
  ASSUME NEW S, NEW s \in Seq(S), NEW i \in 1..Len(s) + 1, NEW e \in S
  PROVE  /\ InsertAt(s, i, e) \in Seq(S) /\ Len(InsertAt(s, i, e)) = Len(s) + 1
         /\ \A j \in 1..Len(s) + 1 :
              InsertAt(s, i, e)[j] = IF j < i THEN s[j] ELSE IF j = i THEN e ELSE s[j - 1]
<1> DEFINE n == Len(s)
           a == SubSeq(s, 1, i - 1)
           b == SubSeq(s, i, n)
<1>0. n \in Nat /\ \A j \in 1..n : s[j] \in S
  BY LenProperties, ElementOfSeq
<1>4. InsertAt(s, i, e) = a \o <<e>> \o b
  BY DEF InsertAt
<1> HIDE DEF n
<1>1. i \in 1..n + 1 /\ i \in Nat /\ i - 1 \in Int /\ n = Len(s)
  BY <1>0 DEF n
<1>2. /\ a \in Seq(S) /\ Len(a) = i - 1
      /\ \A j \in 1..i - 1 : a[j] = s[j]
  <2>1. \A j \in 1..i - 1 : s[j] \in S
    BY <1>0, <1>1
  <2>2. /\ a \in Seq(S) /\ Len(a) = IF 1 <= i - 1 THEN i - 1 - 1 + 1 ELSE 0
        /\ \A j \in 1..i - 1 - 1 + 1 : a[j] = s[1 + j - 1]
    BY <1>1, <2>1, SubSeqProperties
  <2> HIDE DEF a
  <2>3. Len(a) = i - 1
    BY <1>1, <2>2
  <2>4. \A j \in 1..i - 1 : j \in 1..i - 1 - 1 + 1 /\ 1 + j - 1 = j
    BY <1>1
  <2> QED  BY <2>2, <2>3, <2>4
<1>3. /\ b \in Seq(S) /\ Len(b) = n - i + 1
      /\ \A j \in 1..n - i + 1 : b[j] = s[i + j - 1]
  <2>1. \A j \in i..n : s[j] \in S
    BY <1>0, <1>1
  <2>2. /\ b \in Seq(S) /\ Len(b) = IF i <= n THEN n - i + 1 ELSE 0
        /\ \A j \in 1..n - i + 1 : b[j] = s[i + j - 1]
    BY <1>0, <1>1, <2>1, SubSeqProperties
  <2> HIDE DEF b
  <2>3. Len(b) = n - i + 1
    BY <1>0, <1>1, <2>2
  <2> QED  BY <2>2, <2>3
<1> HIDE DEF a, b
<1> DEFINE c == <<e>> \o b
<1>5. c \in Seq(S) /\ Len(c) = n - i + 2 /\ c[1] = e
      /\ \A j \in 2..n - i + 2 : c[j] = s[i + j - 2]
  <2>0. <<e>> \in Seq(S) /\ Len(<<e>>) = 1 /\ <<e>>[1] = e
    OBVIOUS
  <2>1. /\ c \in Seq(S) /\ Len(c) = Len(<<e>>) + Len(b)
        /\ \A j \in 1..Len(<<e>>) + Len(b) :
             c[j] = IF j <= Len(<<e>>) THEN <<e>>[j] ELSE b[j - Len(<<e>>)]
    BY <1>3, <2>0, ConcatProperties
  <2> HIDE DEF c
  <2>2. /\ Len(c) = n - i + 2
        /\ \A j \in 1..n - i + 2 : c[j] = IF j <= 1 THEN <<e>>[j] ELSE b[j - 1]
    BY <1>0, <1>1, <1>3, <2>0, <2>1
  <2>3. c[1] = e
    BY <1>0, <1>1, <2>0, <2>2
  <2>4. ASSUME NEW j \in 2..n - i + 2 PROVE c[j] = s[i + j - 2]
    <3>1. j \in 1..n - i + 2 /\ ~(j <= 1) /\ j - 1 \in 1..n - i + 1 /\ i + (j - 1) - 1 = i + j - 2
      BY <1>0, <1>1
    <3> QED  BY <1>3, <2>2, <3>1
  <2> QED  BY <2>1, <2>2, <2>3, <2>4
<1>6. InsertAt(s, i, e) = a \o c
  <2>1. <<e>> \in Seq(S)
    OBVIOUS
  <2> QED  BY <1>2, <1>3, <1>4, <2>1, ConcatAssociative
<1> HIDE DEF c
<1>7. /\ a \o c \in Seq(S) /\ Len(a \o c) = Len(a) + Len(c)
      /\ \A j \in 1..Len(a) + Len(c) :
           (a \o c)[j] = IF j <= Len(a) THEN a[j] ELSE c[j - Len(a)]
  BY <1>2, <1>5, ConcatProperties
<1>8. Len(a) + Len(c) = n + 1
  BY <1>0, <1>1, <1>2, <1>5
<1>9. ASSUME NEW j \in 1..n + 1
      PROVE  (a \o c)[j] = IF j < i THEN s[j] ELSE IF j = i THEN e ELSE s[j - 1]
  <2>1. (a \o c)[j] = IF j <= i - 1 THEN a[j] ELSE c[j - (i - 1)]
    BY <1>2, <1>7, <1>8
  <2>2. CASE j < i
    <3>1. j <= i - 1 /\ j \in 1..i - 1
      BY <1>1, <2>2
    <3> QED  BY <1>2, <2>1, <2>2, <3>1
  <2>3. CASE j = i
    <3>1. ~(j <= i - 1) /\ j - (i - 1) = 1 /\ ~(j < i)
      BY <1>1, <2>3
    <3> QED  BY <1>5, <2>1, <2>3, <3>1
  <2>4. CASE j > i
    <3>1. /\ ~(j <= i - 1) /\ ~(j < i) /\ j # i
          /\ j - (i - 1) \in 2..n - i + 2 /\ i + (j - (i - 1)) - 2 = j - 1
      BY <1>0, <1>1, <2>4
    <3> QED  BY <1>5, <2>1, <3>1
  <2>5. j < i \/ j = i \/ j > i
    BY <1>0, <1>1
  <2> QED  BY <2>2, <2>3, <2>4, <2>5
<1> QED  BY <1>1, <1>6, <1>7, <1>8, <1>9

-----------------------------------------------------------------------------
(* Fragments in order.                                                     *)

Sorted(q) == \A i, j \in DOMAIN q : i < j => q[i].fragmentNum < q[j].fragmentNum

\* Numbers that go up are not below their positions.
LEMMA NumbersAreNotBelow ==
  ASSUME NEW n \in Nat, NEW s, \A i \in 1..n : s[i] \in Nat,
         \A i, j \in 1..n : i < j => s[i] < s[j]
  PROVE  \A i \in 1..n : i - 1 <= s[i]
<1> DEFINE Bad == {i \in 1..n : ~(i - 1 <= s[i])}
<1> SUFFICES ASSUME Bad # {} PROVE FALSE
  OBVIOUS
<1>1. PICK i \in Bad : \A k \in Bad : i <= k
  <2>1. Bad \subseteq Nat
    OBVIOUS
  <2> HIDE DEF Bad
  <2> QED  BY <2>1, LeastNumber
<1>2. i \in 1..n /\ i \in Nat /\ ~(i - 1 <= s[i]) /\ s[i] \in Nat
  BY <1>1
<1>3. i - 1 \in 1..n /\ i - 1 < i
  BY <1>2
<1>4. i - 1 \notin Bad
  <2> HIDE DEF Bad
  <2> QED  BY <1>1, <1>2, <1>3
<1>5. i - 1 - 1 <= s[i - 1] /\ s[i - 1] < s[i] /\ s[i - 1] \in Nat
  BY <1>2, <1>3, <1>4
<1> QED  BY <1>2, <1>5

\* Numbers that go up and stay below m are m of them at the most, and if they
\* are m they are all of 0..m - 1.
LEMMA NumbersFill ==
  ASSUME NEW n \in Nat, NEW m \in Nat, NEW s, \A i \in 1..n : s[i] \in 0..m - 1,
         \A i, j \in 1..n : i < j => s[i] < s[j]
  PROVE  n <= m /\ (n = m => \A i \in 1..n : s[i] = i - 1)
<1>1. \A i \in 1..n : s[i] \in Nat /\ s[i] <= m - 1
  OBVIOUS
<1>2. \A i \in 1..n : i - 1 <= s[i]
  BY <1>1, NumbersAreNotBelow
<1>3. n <= m
  <2>1. CASE n = 0
    BY <2>1
  <2>2. CASE n # 0
    <3>1. n \in 1..n
      BY <2>2
    <3>2. n - 1 <= s[n] /\ s[n] \in Nat /\ s[n] <= m - 1
      BY <1>1, <1>2, <3>1
    <3> QED  BY <3>2
  <2> QED  BY <2>1, <2>2
<1>4. ASSUME n = m PROVE \A i \in 1..n : s[i] = i - 1
  <2> DEFINE t == [i \in 1..n |-> n - 1 - s[n + 1 - i]]
  <2>1. \A i \in 1..n : n + 1 - i \in 1..n /\ n + 1 - (n + 1 - i) = i
    OBVIOUS
  <2>2. \A i \in 1..n : t[i] \in Nat
    <3> SUFFICES ASSUME NEW i \in 1..n PROVE t[i] \in Nat
      OBVIOUS
    <3>1. s[n + 1 - i] \in Nat /\ s[n + 1 - i] <= n - 1
      BY <1>1, <1>4, <2>1
    <3> QED  BY <3>1
  <2>3. ASSUME NEW i \in 1..n, NEW j \in 1..n, i < j PROVE t[i] < t[j]
    <3>1. n + 1 - j < n + 1 - i
      BY <2>3
    <3>2. s[n + 1 - j] < s[n + 1 - i] /\ s[n + 1 - j] \in Nat /\ s[n + 1 - i] \in Nat
      BY <1>1, <2>1, <3>1
    <3> QED  BY <3>2
  <2>4. \A i \in 1..n : i - 1 <= t[i]
    <3> HIDE DEF t
    <3> QED  BY <2>2, <2>3, NumbersAreNotBelow
  <2>5. ASSUME NEW i \in 1..n PROVE s[i] = i - 1
    <3>1. n + 1 - i - 1 <= t[n + 1 - i] /\ t[n + 1 - i] = n - 1 - s[i]
      BY <2>1, <2>4
    <3> HIDE DEF t
    <3>2. i - 1 <= s[i] /\ s[i] \in Nat /\ i \in Nat
      BY <1>1, <1>2
    <3> QED  BY <3>1, <3>2
  <2> QED  BY <2>5
<1> QED  BY <1>3, <1>4

\* The places of the fragments of smaller number.
Smaller(q, frag) == {i \in DOMAIN q : q[i].fragmentNum < frag.fragmentNum}

\* The fragments of smaller number come first, so that their count is the
\* place for the new one.
LEMMA SmallerComeFirst ==
  ASSUME NEW q \in Seq(Fragment), Sorted(q), NEW frag \in Fragment
  PROVE  /\ 1 + Cardinality(Smaller(q, frag)) \in 1..Len(q) + 1
         /\ Smaller(q, frag) = 1..(1 + Cardinality(Smaller(q, frag))) - 1
<1> DEFINE n == Len(q)
           L == {i \in 1..n : q[i].fragmentNum < frag.fragmentNum}
           U == {i \in 1..n : ~(q[i].fragmentNum < frag.fragmentNum)}
<1>1. n \in Nat /\ DOMAIN q = 1..n /\ \A i \in 1..n : q[i] \in Fragment
  BY LenProperties, ElementOfSeq
<1>2. frag.fragmentNum \in Nat /\ \A i \in 1..n : q[i].fragmentNum \in Nat
  BY <1>1 DEF Fragment
<1> HIDE DEF n
<1>3. \E m \in 0..n : L = 1..m
  <2>1. CASE U = {}
    BY <1>1, <2>1
  <2>2. CASE U # {}
    <3>1. PICK u \in U : \A k \in U : u <= k
      <4>1. U \subseteq Nat
        BY <1>1
      <4> HIDE DEF U
      <4> QED  BY <2>2, <4>1, LeastNumber
    <3>2. u \in 1..n /\ u \in Nat /\ u - 1 \in 0..n /\ ~(q[u].fragmentNum < frag.fragmentNum)
      BY <1>1, <3>1
    <3>3. ASSUME NEW i \in 1..n PROVE i \in L <=> i <= u - 1
      <4>1. CASE i <= u - 1
        <5>1. ~(u <= i)
          BY <1>1, <3>2, <4>1
        <5>2. i \notin U
          BY <3>1, <5>1
        <5> QED  BY <4>1, <5>2
      <4>2. CASE ~(i <= u - 1)
        <5>1. u = i \/ u < i
          BY <1>1, <3>2, <4>2
        <5>2. q[u].fragmentNum <= q[i].fragmentNum
          BY <1>1, <1>2, <3>2, <5>1 DEF Sorted
        <5>3. ~(q[i].fragmentNum < frag.fragmentNum)
          BY <1>2, <3>2, <5>2
        <5> QED  BY <4>2, <5>3
      <4> QED  BY <4>1, <4>2
    <3>4. L = 1..u - 1
      <4>1. L \subseteq 1..n /\ 1..u - 1 \subseteq 1..n /\ \A i \in 1..n : i <= u - 1 <=> i \in 1..u - 1
        BY <1>1, <3>2
      <4> HIDE DEF L
      <4> QED  BY <3>3, <4>1
    <3> QED  BY <3>2, <3>4
  <2> QED  BY <2>1, <2>2
<1> HIDE DEF L, U
<1>4. PICK m \in 0..n : L = 1..m
  BY <1>3
<1>5. Cardinality(L) = m
  BY <1>1, <1>4, FS_Interval
<1>6. Smaller(q, frag) = L
  BY <1>1 DEF L, Smaller
<1>7. 1 + m \in 1..n + 1 /\ (1 + m) - 1 = m
  BY <1>1
<1>8. 1 + Cardinality(L) \in 1..n + 1 /\ L = 1..(1 + Cardinality(L)) - 1
  BY <1>4, <1>5, <1>7
<1> QED  BY <1>6, <1>8 DEF n

\* append and sort.SliceStable keep the fragments in order.
LEMMA InSortedPlaceSorts ==
  ASSUME NEW q \in Seq(Fragment), Sorted(q), NEW frag \in Fragment,
         \A i \in DOMAIN q : q[i].fragmentNum # frag.fragmentNum
  PROVE  /\ InSortedPlace(q, frag) \in Seq(Fragment)
         /\ Len(InSortedPlace(q, frag)) = Len(q) + 1
         /\ Sorted(InSortedPlace(q, frag))
         /\ \A i \in DOMAIN InSortedPlace(q, frag) :
              \/ InSortedPlace(q, frag)[i] = frag
              \/ \E j \in DOMAIN q : InSortedPlace(q, frag)[i] = q[j]
<1> DEFINE n == Len(q)
           smaller == Smaller(q, frag)
           p == 1 + Cardinality(smaller)
           r == InSortedPlace(q, frag)
<1>1. n \in Nat /\ DOMAIN q = 1..n /\ \A i \in 1..n : q[i] \in Fragment
  BY LenProperties, ElementOfSeq
<1>2. frag.fragmentNum \in Nat /\ \A i \in 1..n : q[i].fragmentNum \in Nat
  BY <1>1 DEF Fragment
<1>3. p \in 1..n + 1 /\ smaller = 1..p - 1
  BY SmallerComeFirst
<1>4. r = InsertAt(q, p, frag)
  BY DEF InSortedPlace, Smaller
<1>5. \A i \in 1..n : q[i].fragmentNum < frag.fragmentNum <=> i \in smaller
  BY <1>1 DEF Smaller
<1> HIDE DEF p, smaller, r
<1>6. /\ r \in Seq(Fragment) /\ Len(r) = n + 1
      /\ \A j \in 1..n + 1 : r[j] = IF j < p THEN q[j] ELSE IF j = p THEN frag ELSE q[j - 1]
  BY <1>3, <1>4, InsertAtProperties
<1> HIDE DEF n
<1>7. DOMAIN r = 1..n + 1
  BY <1>6, LenProperties
<1>8. p \in Nat /\ p <= n + 1 /\ 1 <= p
  BY <1>1, <1>3
<1>9. ASSUME NEW j \in 1..n + 1
      PROVE  /\ j < p => j \in 1..n /\ r[j] = q[j] /\ q[j].fragmentNum < frag.fragmentNum
             /\ j = p => r[j] = frag
             /\ p < j => /\ j - 1 \in 1..n /\ r[j] = q[j - 1]
                         /\ frag.fragmentNum < q[j - 1].fragmentNum
  <2>1. CASE j < p
    <3>1. j \in 1..n /\ j \in 1..p - 1 /\ ~(p < j) /\ j # p
      BY <1>1, <1>8, <2>1
    <3> QED  BY <1>3, <1>5, <1>6, <2>1, <3>1
  <2>2. CASE j = p
    <3>1. ~(j < p) /\ ~(p < j)
      BY <1>8, <2>2
    <3> QED  BY <1>6, <2>2, <3>1
  <2>3. CASE p < j
    <3>1. j - 1 \in 1..n /\ j - 1 \notin 1..p - 1 /\ ~(j < p) /\ j # p
      BY <1>1, <1>8, <2>3
    <3>2. ~(q[j - 1].fragmentNum < frag.fragmentNum) /\ q[j - 1].fragmentNum # frag.fragmentNum
      BY <1>1, <1>3, <1>5, <3>1
    <3>3. frag.fragmentNum < q[j - 1].fragmentNum
      BY <1>2, <3>1, <3>2
    <3> QED  BY <1>6, <2>3, <3>1, <3>3
  <2>4. j \in Nat
    BY <1>1
  <2> QED  BY <1>8, <2>1, <2>2, <2>3, <2>4
<1>10. ASSUME NEW i \in 1..n + 1, NEW j \in 1..n + 1, i < j
       PROVE  r[i].fragmentNum < r[j].fragmentNum
  <2>0. i \in Nat /\ j \in Nat
    BY <1>1
  <2>1. CASE j < p
    <3>1. i < p
      BY <1>8, <1>10, <2>0, <2>1
    <3> QED  BY <1>1, <1>9, <1>10, <2>1, <3>1 DEF Sorted
  <2>2. CASE j = p
    <3>1. i < p
      BY <1>10, <2>2
    <3> QED  BY <1>9, <2>2, <3>1
  <2>3. CASE p < j
    <3>1. CASE i < p
      <4>1. i < j - 1 \/ i = j - 1
        BY <1>8, <2>0, <2>3, <3>1
      <4>2. r[i] = q[i] /\ q[i].fragmentNum < frag.fragmentNum /\ i \in 1..n
        BY <1>9, <3>1
      <4>3. r[j] = q[j - 1] /\ frag.fragmentNum < q[j - 1].fragmentNum /\ j - 1 \in 1..n
        BY <1>9, <2>3
      <4> QED  BY <1>2, <4>2, <4>3
    <3>2. CASE i = p
      BY <1>9, <2>3, <3>2
    <3>3. CASE p < i
      <4>1. r[i] = q[i - 1] /\ i - 1 \in 1..n /\ r[j] = q[j - 1] /\ j - 1 \in 1..n
        BY <1>9, <2>3, <3>3
      <4>2. i - 1 < j - 1
        BY <1>10, <2>0
      <4> QED  BY <1>1, <4>1, <4>2 DEF Sorted
    <3> QED  BY <1>8, <2>0, <3>1, <3>2, <3>3
  <2> QED  BY <1>8, <2>0, <2>1, <2>2, <2>3
<1>11. \A i \in 1..n + 1 : r[i] = frag \/ \E j \in 1..n : r[i] = q[j]
  <2> SUFFICES ASSUME NEW i \in 1..n + 1 PROVE r[i] = frag \/ \E j \in 1..n : r[i] = q[j]
    OBVIOUS
  <2>1. i \in Nat
    BY <1>1
  <2> QED  BY <1>8, <1>9, <2>1
<1> QED  BY <1>1, <1>6, <1>7, <1>10, <1>11 DEF Sorted, r, n

-----------------------------------------------------------------------------
(* The inductive invariant.                                                *)

Cut == [inst : Instruction, mtu : Mtu]

\* f is a fragment of the instruction that was cut up under its id.
IsPiece(f, cut) ==
  /\ f.id \in DOMAIN cut
  /\ \E k \in 0..Pieces(cut[f.id].inst, cut[f.id].mtu) - 1 :
       f = Piece(f.id, cut[f.id].inst, cut[f.id].mtu, k)

\* The assembly holds different fragments of one instruction, in order, and
\* the total, once known, is that of the instruction.
Assembling(fa, cut) ==
  /\ fa \in [fragments : Seq(Fragment), currentId : 1..MaxId \cup {MaxUint64},
             fragmentsArrived : Nat, fragmentsTotal : {-1} \cup 1..NumLimit]
  /\ fa.fragmentsArrived = Len(fa.fragments)
  /\ Sorted(fa.fragments)
  /\ \A i \in DOMAIN fa.fragments :
       fa.fragments[i].id = fa.currentId /\ IsPiece(fa.fragments[i], cut)
  /\ fa.fragmentsTotal # -1 =>
       /\ fa.currentId \in DOMAIN cut
       /\ fa.fragmentsTotal = Pieces(cut[fa.currentId].inst, cut[fa.currentId].mtu)

\* One instruction and one MTU for each id, the last ones for the last id, and
\* every fragment anywhere is cut from them.
Cuts(cut) ==
  /\ cut \in [1..nextInstructionId -> Cut]
  /\ nextInstructionId # 0 =>
       cut[nextInstructionId] = [inst |-> lastInstruction, mtu |-> lastMTU]
  /\ \A id \in 1..nextInstructionId : cut[id].inst \in made
  /\ \A i \in DOMAIN network : IsPiece(network[i], cut)
  /\ Assembling(assembly, cut)

\* What is not about the fragments.
Types ==
  /\ lastInstruction \in Instruction \cup {NoInstruction} /\ lastMTU \in Mtu \cup {0}
  /\ nextInstructionId \in 0..MaxId
  /\ nextInstructionId = 0 => lastInstruction = NoInstruction
  /\ network \in Seq(Fragment)
  /\ weather \in [lossy : BOOLEAN, reordering : BOOLEAN, duplicating : BOOLEAN]
  /\ made \subseteq Instruction
  /\ latest \in [id : 0..MaxId, inst : SUBSET (Instruction \cup {NoInstruction})]

\* Without reordering the ids come in order, none before that of the
\* instruction put together last.
InOrder ==
  /\ \A i, j \in DOMAIN network : i < j => network[i].id <= network[j].id
  /\ \A i \in DOMAIN network : latest.id <= network[i].id

IInv ==
  /\ Types
  /\ \E cut : Cuts(cut)
  /\ latest.id <= nextInstructionId
  /\ assembly.fragmentsTotal # -1 => Len(assembly.fragments) < assembly.fragmentsTotal
  /\ ~weather.reordering => InOrder

-----------------------------------------------------------------------------
(* Putting an instruction together.                                        *)

\* The fields of a fragment that was cut up.
LEMMA PieceOfCut ==
  ASSUME NEW f, NEW cut, NEW n \in 0..MaxId, cut \in [1..n -> Cut], IsPiece(f, cut)
  PROVE  LET inst == cut[f.id].inst
             mtu == cut[f.id].mtu
             P == Pieces(inst, mtu)
         IN  /\ f.id \in 1..n /\ inst \in Instruction /\ mtu \in Mtu /\ P \in 1..NumLimit
             /\ f.fragmentNum \in 0..P - 1 /\ f \in Fragment
             /\ f.final <=> f.fragmentNum = P - 1
             /\ f.contents = [inst |-> inst, from |-> f.fragmentNum * mtu,
                              to |-> IF f.fragmentNum = P - 1 THEN Size(inst)
                                     ELSE (f.fragmentNum + 1) * mtu]
<1> DEFINE inst == cut[f.id].inst
           mtu == cut[f.id].mtu
           P == Pieces(inst, mtu)
<1>1. f.id \in 1..n /\ cut[f.id] \in Cut
  BY DEF IsPiece
<1>2. inst \in Instruction /\ mtu \in Mtu
  BY <1>1 DEF Cut
<1>3. PICK k \in 0..P - 1 : f = Piece(f.id, inst, mtu, k)
  BY DEF IsPiece
<1> HIDE DEF inst, mtu
<1>4. P \in 1..NumLimit
  BY <1>2, PiecesCover
<1> DEFINE last == k = P - 1
           to == IF last THEN Size(inst) ELSE (k + 1) * mtu
<1>5. f = [id |-> f.id, fragmentNum |-> k, final |-> last,
           contents |-> [inst |-> inst, from |-> k * mtu, to |-> to]]
  BY <1>2, <1>3, PieceFields
<1> HIDE DEF P
<1>6. k \in Nat /\ k <= P - 1 /\ P \in Nat /\ P <= NumLimit /\ NumLimit \in Nat
  BY <1>4, SizeAssumption
<1>7. to \in Nat /\ k * mtu \in Nat
  BY <1>2, <1>6, SizeAssumption
<1>8. last \in BOOLEAN
  OBVIOUS
<1>9. f.id \in 1..MaxId /\ k \in 0..NumLimit - 1
  BY <1>1, <1>6, IdAssumption
<1> HIDE DEF to, last
<1>10. f.fragmentNum = k /\ f.final = last
       /\ f.contents = [inst |-> inst, from |-> k * mtu, to |-> to]
  BY <1>5
<1>11. f \in Fragment
  BY <1>2, <1>5, <1>7, <1>8, <1>9 DEF Fragment, Contents
<1>12. k \in 0..P - 1
  BY <1>6
<1> QED  BY <1>1, <1>2, <1>4, <1>10, <1>11, <1>12 DEF last, to, P, inst, mtu

\* addFragment keeps the assembly one of fragments of one instruction, that of
\* the fragment just added.
LEMMA AddFragmentAssembles ==
  ASSUME NEW fa, NEW cut, NEW n \in 0..MaxId, cut \in [1..n -> Cut],
         Assembling(fa, cut), NEW frag, IsPiece(frag, cut)
  PROVE  /\ Assembling(AddFragment(fa, frag), cut)
         /\ AddFragment(fa, frag).currentId = frag.id
         /\ AddFragment(fa, frag).fragments # <<>>
<1> DEFINE P == Pieces(cut[frag.id].inst, cut[frag.id].mtu)
           with == WithFragment(fa, frag)
           Assembly == [fragments : Seq(Fragment), currentId : 1..MaxId \cup {MaxUint64},
                        fragmentsArrived : Nat, fragmentsTotal : {-1} \cup 1..NumLimit]
<1>1. /\ frag.id \in 1..n /\ P \in 1..NumLimit /\ frag \in Fragment
      /\ frag.fragmentNum \in 0..P - 1 /\ (frag.final <=> frag.fragmentNum = P - 1)
  BY PieceOfCut
<1>2. frag.id \in 1..MaxId /\ frag.id \in DOMAIN cut
  BY <1>1, IdAssumption
<1>3. /\ fa \in Assembly /\ fa.fragmentsArrived = Len(fa.fragments) /\ Sorted(fa.fragments)
      /\ \A i \in DOMAIN fa.fragments :
           fa.fragments[i].id = fa.currentId /\ IsPiece(fa.fragments[i], cut)
      /\ fa.fragmentsTotal # -1 =>
           /\ fa.currentId \in DOMAIN cut
           /\ fa.fragmentsTotal = Pieces(cut[fa.currentId].inst, cut[fa.currentId].mtu)
  BY DEF Assembling
<1>4. fa.fragments \in Seq(Fragment)
  BY <1>3
<1>5. Assembling(with, cut) /\ with.currentId = frag.id /\ with.fragments # <<>>
  <2>1. CASE fa.currentId # frag.id
    <3>1. with = [fragments |-> <<frag>>, currentId |-> frag.id, fragmentsArrived |-> 1,
                  fragmentsTotal |-> -1]
      BY <2>1 DEF WithFragment
    <3>2. /\ <<frag>> \in Seq(Fragment) /\ Len(<<frag>>) = 1 /\ <<frag>>[1] = frag
          /\ DOMAIN <<frag>> = {1} /\ <<frag>> # <<>>
      BY <1>1
    <3>3. Sorted(<<frag>>)
      BY <3>2 DEF Sorted
    <3>4. with \in Assembly
      BY <1>2, <3>1, <3>2
    <3> HIDE DEF with
    <3>5. \A i \in DOMAIN with.fragments :
            with.fragments[i].id = with.currentId /\ IsPiece(with.fragments[i], cut)
      BY <3>1, <3>2
    <3> QED  BY <3>1, <3>2, <3>3, <3>4, <3>5 DEF Assembling
  <2>2. CASE fa.currentId = frag.id /\ Has(fa, frag)
    <3>1. with = fa
      BY <2>2 DEF WithFragment
    <3>2. fa.fragments # <<>>
      <4>1. DOMAIN <<>> = {}
        OBVIOUS
      <4> QED  BY <2>2, <4>1 DEF Has
    <3> QED  BY <2>2, <3>1, <3>2
  <2>3. CASE fa.currentId = frag.id /\ ~Has(fa, frag)
    <3> DEFINE q == fa.fragments
               r == InSortedPlace(q, frag)
    <3>1. with = [fa EXCEPT !.fragments = r, !.fragmentsArrived = fa.fragmentsArrived + 1]
      BY <2>3 DEF WithFragment
    <3>2. /\ r \in Seq(Fragment) /\ Len(r) = Len(q) + 1 /\ Sorted(r)
          /\ \A i \in DOMAIN r : r[i] = frag \/ \E j \in DOMAIN q : r[i] = q[j]
      BY <1>1, <1>3, <1>4, <2>3, InSortedPlaceSorts DEF Has
    <3> HIDE DEF r
    <3>3. Len(q) \in Nat
      BY <1>4, LenProperties
    <3>4. r # <<>>
      BY <3>2, <3>3, EmptySeq
    <3>5. /\ with \in Assembly /\ with.fragments = r /\ with.currentId = frag.id
          /\ with.fragmentsArrived = Len(q) + 1 /\ with.fragmentsTotal = fa.fragmentsTotal
      <4> DEFINE m == Len(q) + 1
      <4>1. m \in Nat
        BY <3>3
      <4>2. with = [fa EXCEPT !.fragments = r, !.fragmentsArrived = m]
        BY <1>3, <3>1
      <4> HIDE DEF m, q, with
      <4>3. /\ with \in Assembly /\ with.fragments = r /\ with.currentId = fa.currentId
            /\ with.fragmentsArrived = m /\ with.fragmentsTotal = fa.fragmentsTotal
        BY <1>3, <3>2, <4>1, <4>2
      <4> QED  BY <2>3, <4>3 DEF m
    <3> HIDE DEF with
    <3>6. \A i \in DOMAIN r : r[i].id = frag.id /\ IsPiece(r[i], cut)
      BY <1>3, <2>3, <3>2
    <3> QED  BY <1>3, <2>3, <3>2, <3>4, <3>5, <3>6 DEF Assembling
  <2> QED  BY <2>1, <2>2, <2>3
<1> HIDE DEF with
<1>6. CASE frag.final
  <2> DEFINE fb == [with EXCEPT !.fragmentsTotal = frag.fragmentNum + 1]
  <2>1. AddFragment(fa, frag) = fb
    BY <1>6 DEF AddFragment, with
  <2>2. frag.fragmentNum + 1 = P
    BY <1>1, <1>6
  <2>3. with \in Assembly
    BY <1>5 DEF Assembling
  <2> HIDE DEF P
  <2>4. /\ fb \in Assembly /\ fb.fragments = with.fragments /\ fb.currentId = with.currentId
        /\ fb.fragmentsArrived = with.fragmentsArrived /\ fb.fragmentsTotal = P
    BY <1>1, <2>2, <2>3
  <2> HIDE DEF fb
  <2>5. Assembling(fb, cut)
    BY <1>2, <1>5, <2>4 DEF Assembling, P
  <2> QED  BY <1>5, <2>1, <2>4, <2>5
<1>7. CASE ~frag.final
  <2>1. AddFragment(fa, frag) = with
    BY <1>7 DEF AddFragment, with
  <2> QED  BY <1>5, <2>1
<1> QED  BY <1>6, <1>7

\* No more fragments arrive than there are, and when all have, what is decoded
\* is the instruction that was cut up, from its first byte to its last.
LEMMA AssemblyDecodes ==
  ASSUME NEW fa, NEW cut, NEW n \in 0..MaxId, cut \in [1..n -> Cut],
         Assembling(fa, cut), fa.fragmentsTotal # -1
  PROVE  /\ Len(fa.fragments) <= fa.fragmentsTotal
         /\ \A i \in DOMAIN fa.fragments : fa.fragments[i].fragmentNum < fa.fragmentsTotal
         /\ fa.fragmentsArrived = fa.fragmentsTotal =>
              fa.currentId \in DOMAIN cut /\ GetAssembly(fa) = cut[fa.currentId].inst
<1> DEFINE q == fa.fragments
           id == fa.currentId
           inst == cut[id].inst
           mtu == cut[id].mtu
           P == Pieces(inst, mtu)
           N == Len(q)
<1>1. /\ q \in Seq(Fragment) /\ fa.fragmentsArrived = N /\ fa.fragmentsTotal = P
      /\ id \in 1..n /\ Sorted(q)
      /\ \A i \in DOMAIN q : q[i].id = id /\ IsPiece(q[i], cut)
  BY DEF Assembling
<1>2. cut[id] \in Cut
  BY <1>1
<1>3. inst \in Instruction /\ mtu \in Mtu
  BY <1>2 DEF Cut
<1>4. P \in 1..NumLimit /\ mtu \in Nat \ {0} /\ Size(inst) \in Nat \ {0} /\ NumLimit \in Nat
  BY <1>3, PiecesCover, SizeAssumption
<1>5. N \in Nat /\ DOMAIN q = 1..N
  BY <1>1, LenProperties
<1>6. ASSUME NEW i \in 1..N
      PROVE  /\ q[i].fragmentNum \in 0..P - 1
             /\ q[i].contents = [inst |-> inst, from |-> q[i].fragmentNum * mtu,
                                 to |-> IF q[i].fragmentNum = P - 1 THEN Size(inst)
                                        ELSE (q[i].fragmentNum + 1) * mtu]
  <2>1. IsPiece(q[i], cut) /\ q[i].id = id
    BY <1>1, <1>5
  <2> QED  BY <2>1, PieceOfCut
<1> HIDE DEF inst, mtu, P, N, q
<1> DEFINE s == [i \in 1..N |-> q[i].fragmentNum]
<1>7. N <= P /\ (N = P => \A i \in 1..N : s[i] = i - 1)
  <2>1. \A i \in 1..N : s[i] \in 0..P - 1
    BY <1>6
  <2>2. \A i, j \in 1..N : i < j => s[i] < s[j]
    BY <1>1, <1>5 DEF Sorted
  <2>3. P \in Nat
    BY <1>4
  <2> HIDE DEF s
  <2> QED  BY <1>5, <2>1, <2>2, <2>3, NumbersFill
<1>8. \A i \in DOMAIN q : q[i].fragmentNum < P
  <2> SUFFICES ASSUME NEW i \in 1..N PROVE q[i].fragmentNum < P
    BY <1>5
  <2>1. q[i].fragmentNum \in 0..P - 1
    BY <1>6
  <2>2. P \in Int
    BY <1>4
  <2> HIDE DEF s
  <2> QED  BY <2>1, <2>2
<1>9. ASSUME N = P PROVE GetAssembly(fa) = inst
  <2> DEFINE c == [i \in 1..P |-> q[i].contents]
  <2>1. GetAssembly(fa) = Decode(c)
    BY <1>1 DEF GetAssembly, q
  <2>2. P \in Nat \ {0}
    BY <1>4
  <2>3. ASSUME NEW i \in 1..P
        PROVE  /\ c[i].inst = inst /\ c[i].from = (i - 1) * mtu
               /\ c[i].to = IF i = P THEN Size(inst) ELSE i * mtu
    <3>1. q[i].fragmentNum = i - 1 /\ i \in Nat
      BY <1>7, <1>9, <2>2
    <3>2. c[i] = [inst |-> inst, from |-> (i - 1) * mtu,
                  to |-> IF i - 1 = P - 1 THEN Size(inst) ELSE ((i - 1) + 1) * mtu]
      BY <1>6, <1>9, <3>1
    <3>3. (i - 1 = P - 1 <=> i = P) /\ (i - 1) + 1 = i
      BY <2>2, <3>1
    <3> QED  BY <3>2, <3>3
  <2>4. c \in Seq({q[i].contents : i \in 1..P}) /\ Len(c) = P
    BY <2>2
  <2> HIDE DEF c
  <2>5. c # <<>>
    <3>1. Len(<<>>) = 0
      BY EmptySeq
    <3> QED  BY <2>2, <2>4, <3>1
  <2>6. 1 \in 1..P /\ P \in 1..P
    BY <2>2
  <2>7. c[1].inst = inst /\ c[1].from = 0
    <3>1. (1 - 1) * mtu = 0
      BY <1>4
    <3> QED  BY <2>3, <2>6, <3>1
  <2>8. ASSUME NEW i \in 2..P PROVE c[i].inst = inst /\ c[i].from = c[i - 1].to
    <3>1. i \in 1..P /\ i - 1 \in 1..P /\ i - 1 # P
      BY <2>2
    <3> QED  BY <2>3, <3>1
  <2>9. Last(c).to = Size(inst)
    BY <2>3, <2>4, <2>6 DEF Last
  <2> QED  BY <2>1, <2>4, <2>5, <2>7, <2>8, <2>9 DEF Decode
<1> QED  BY <1>1, <1>7, <1>8, <1>9 DEF inst, P, N, q

-----------------------------------------------------------------------------
(* The steps.                                                              *)

\* A fragment is removed from the network or stays: what is left was there,
\* in the same order.
LEMMA NetworkThins ==
  ASSUME Types, NEW i \in DOMAIN network, network' \in {network, RemoveAt(network, i)}
  PROVE  /\ network' \in Seq(Fragment)
         /\ \A j \in DOMAIN network' : \E k \in DOMAIN network : network'[j] = network[k]
         /\ (\A j, k \in DOMAIN network : j < k => network[j].id <= network[k].id) =>
              \A j, k \in DOMAIN network' : j < k => network'[j].id <= network'[k].id
<1>0. network \in Seq(Fragment)
  BY DEF Types
<1>1. CASE network' = network
  BY <1>0, <1>1
<1>2. CASE network' = RemoveAt(network, i)
  <2> DEFINE n == Len(network)
  <2>1. n \in Nat /\ DOMAIN network = 1..n
    BY <1>0, LenProperties
  <2>2. /\ network' \in Seq(Fragment) /\ Len(network') = n - 1
        /\ \A j \in 1..n - 1 : network'[j] = IF j < i THEN network[j] ELSE network[j + 1]
    BY <1>0, <1>2, <2>1, RemoveAtProperties
  <2>3. DOMAIN network' = 1..n - 1
    BY <2>2, LenProperties
  <2> HIDE DEF n
  <2>4. ASSUME NEW j \in 1..n - 1
        PROVE  \E k \in 1..n : network'[j] = network[k] /\ k = IF j < i THEN j ELSE j + 1
    <3>1. j \in 1..n /\ j + 1 \in 1..n
      BY <2>1
    <3> QED  BY <2>2, <3>1
  <2>5. ASSUME \A j, k \in 1..n : j < k => network[j].id <= network[k].id,
               NEW j \in 1..n - 1, NEW k \in 1..n - 1, j < k
        PROVE  network'[j].id <= network'[k].id
    <3>1. PICK u \in 1..n : network'[j] = network[u] /\ u = IF j < i THEN j ELSE j + 1
      BY <2>4
    <3>2. PICK v \in 1..n : network'[k] = network[v] /\ v = IF k < i THEN k ELSE k + 1
      BY <2>4
    <3>3. u < v
      <4>1. i \in Nat /\ j \in Nat /\ k \in Nat
        BY <2>1
      <4> QED  BY <2>5, <3>1, <3>2, <4>1
    <3> QED  BY <2>5, <3>1, <3>2, <3>3
  <2> QED  BY <2>1, <2>2, <2>3, <2>4, <2>5
<1> QED  BY <1>1, <1>2

\* What arrives makes nothing but an instruction that was cut up.
LEMMA RecvAssembles ==
  ASSUME Types, NEW cut, Cuts(cut), Recv,
         assembly.fragmentsTotal # -1 => Len(assembly.fragments) < assembly.fragmentsTotal
  PROVE  /\ Assembling(assembly', cut)
         /\ assembly'.fragmentsTotal # -1 => Len(assembly'.fragments) < assembly'.fragmentsTotal
         /\ \E i \in Deliverable :
              /\ network' \in {network, RemoveAt(network, i)}
              /\ \/ latest' = latest
                 \/ /\ network[i].id \in 1..nextInstructionId
                    /\ latest' = [id |-> network[i].id, inst |-> {cut[network[i].id].inst}]
<1>1. PICK i \in Deliverable, stays \in {FALSE, weather.duplicating} :
        LET fa == AddFragment(assembly, network[i])
        IN  /\ network' = IF stays THEN network ELSE RemoveAt(network, i)
            /\ \/ /\ fa.fragmentsArrived = fa.fragmentsTotal
                  /\ latest' = [id |-> fa.currentId, inst |-> {GetAssembly(fa)}]
                  /\ assembly' = IF GetAssembly(fa) = NoInstruction THEN fa ELSE Assembled(fa)
               \/ /\ fa.fragmentsArrived # fa.fragmentsTotal
                  /\ assembly' = fa
                  /\ UNCHANGED latest
  BY DEF Recv
<1> DEFINE fa == AddFragment(assembly, network[i])
           n == nextInstructionId
<1>2. i \in DOMAIN network /\ n \in 0..MaxId /\ cut \in [1..n -> Cut]
  BY DEF Deliverable, Types, Cuts
<1>3. IsPiece(network[i], cut) /\ Assembling(assembly, cut)
  BY <1>2 DEF Cuts
<1>4. Assembling(fa, cut) /\ fa.currentId = network[i].id /\ fa.fragments # <<>>
  BY <1>2, <1>3, AddFragmentAssembles
<1>5. network' \in {network, RemoveAt(network, i)}
  BY <1>1
<1> HIDE DEF fa
<1>6. /\ fa \in [fragments : Seq(Fragment), currentId : 1..MaxId \cup {MaxUint64},
                 fragmentsArrived : Nat, fragmentsTotal : {-1} \cup 1..NumLimit]
      /\ fa.fragmentsArrived = Len(fa.fragments)
  BY <1>4 DEF Assembling
<1>7. CASE fa.fragmentsArrived = fa.fragmentsTotal
  <2>1. latest' = [id |-> fa.currentId, inst |-> {GetAssembly(fa)}]
        /\ assembly' = IF GetAssembly(fa) = NoInstruction THEN fa ELSE Assembled(fa)
    BY <1>1, <1>7 DEF fa
  <2>2. fa.fragmentsTotal # -1
    <3>1. fa.fragmentsArrived \in Nat
      BY <1>6
    <3> QED  BY <1>7, <3>1
  <2>3. fa.currentId \in 1..n /\ GetAssembly(fa) = cut[fa.currentId].inst
    BY <1>2, <1>4, <1>7, <2>2, AssemblyDecodes
  <2>4. GetAssembly(fa) # NoInstruction
    <3>1. cut[fa.currentId] \in Cut
      BY <1>2, <2>3
    <3>2. cut[fa.currentId].inst \in Instruction
      BY <3>1 DEF Cut
    <3> QED  BY <2>3, <3>2, SizeAssumption
  <2>5. assembly' = Assembled(fa)
    BY <2>1, <2>4
  <2> DEFINE fb == Assembled(fa)
  <2>6. /\ fb \in [fragments : Seq(Fragment), currentId : 1..MaxId \cup {MaxUint64},
                   fragmentsArrived : Nat, fragmentsTotal : {-1} \cup 1..NumLimit]
        /\ fb.fragments = <<>> /\ fb.fragmentsArrived = 0 /\ fb.fragmentsTotal = -1
    <3>1. <<>> \in Seq(Fragment) /\ 0 \in Nat /\ -1 \in {-1} \cup 1..NumLimit
      BY EmptySeq
    <3> QED  BY <1>6, <3>1 DEF Assembled
  <2> HIDE DEF fb
  <2>7. Len(<<>>) = 0 /\ DOMAIN <<>> = {}
    BY EmptySeq
  <2>8. Assembling(fb, cut)
    BY <2>6, <2>7 DEF Assembling, Sorted
  <2>9. latest' = [id |-> network[i].id, inst |-> {cut[network[i].id].inst}]
    BY <1>4, <2>1, <2>3
  <2> QED  BY <1>4, <1>5, <2>3, <2>5, <2>6, <2>8, <2>9 DEF fb
<1>8. CASE fa.fragmentsArrived # fa.fragmentsTotal
  <2>1. assembly' = fa /\ latest' = latest
    BY <1>1, <1>8 DEF fa
  <2>2. fa.fragmentsTotal # -1 => Len(fa.fragments) < fa.fragmentsTotal
    <3> SUFFICES ASSUME fa.fragmentsTotal # -1 PROVE Len(fa.fragments) < fa.fragmentsTotal
      OBVIOUS
    <3>1. Len(fa.fragments) <= fa.fragmentsTotal
      BY <1>2, <1>4, AssemblyDecodes
    <3>2. fa.fragmentsTotal \in Int /\ Len(fa.fragments) \in Int
      BY <1>6, SizeAssumption
    <3> QED  BY <1>6, <1>8, <3>1, <3>2
  <2> QED  BY <1>4, <1>5, <2>1, <2>2
<1> QED  BY <1>7, <1>8

\* A message that arrives, or is lost, leaves the invariant.
LEMMA RecvStep == IInv /\ Recv => IInv'
<1> SUFFICES ASSUME IInv, Recv PROVE IInv'
  OBVIOUS
<1>0. /\ Types /\ latest.id <= nextInstructionId
      /\ assembly.fragmentsTotal # -1 => Len(assembly.fragments) < assembly.fragmentsTotal
      /\ ~weather.reordering => InOrder
  BY DEF IInv
<1>1. PICK cut : Cuts(cut)
  BY DEF IInv
<1>2. UNCHANGED <<lastInstruction, lastMTU, nextInstructionId, weather, made>>
  BY DEF Recv
<1>3. /\ Assembling(assembly', cut)
      /\ assembly'.fragmentsTotal # -1 => Len(assembly'.fragments) < assembly'.fragmentsTotal
  BY <1>0, <1>1, RecvAssembles
<1>4. PICK i \in Deliverable :
        /\ network' \in {network, RemoveAt(network, i)}
        /\ \/ latest' = latest
           \/ /\ network[i].id \in 1..nextInstructionId
              /\ latest' = [id |-> network[i].id, inst |-> {cut[network[i].id].inst}]
  BY <1>0, <1>1, RecvAssembles
<1>5. i \in DOMAIN network /\ (~weather.reordering => i = 1)
  BY DEF Deliverable
<1>6. /\ network' \in Seq(Fragment)
      /\ \A j \in DOMAIN network' : \E k \in DOMAIN network : network'[j] = network[k]
      /\ (\A j, k \in DOMAIN network : j < k => network[j].id <= network[k].id) =>
           \A j, k \in DOMAIN network' : j < k => network'[j].id <= network'[k].id
  BY <1>0, <1>4, <1>5, NetworkThins
<1>7. Cuts(cut)'
  BY <1>1, <1>2, <1>3, <1>6 DEF Cuts
<1>8. /\ latest' \in [id : 0..MaxId, inst : SUBSET (Instruction \cup {NoInstruction})]
      /\ latest'.id <= nextInstructionId
  <2>1. CASE latest' = latest
    BY <1>0, <2>1 DEF Types
  <2>2. CASE /\ network[i].id \in 1..nextInstructionId
             /\ latest' = [id |-> network[i].id, inst |-> {cut[network[i].id].inst}]
    <3>1. cut[network[i].id] \in Cut
      BY <1>1, <2>2 DEF Cuts
    <3>2. cut[network[i].id].inst \in Instruction
      BY <3>1 DEF Cut
    <3>3. network[i].id \in 0..MaxId /\ network[i].id <= nextInstructionId
      BY <1>0, <2>2, IdAssumption DEF Types
    <3> QED  BY <2>2, <3>2, <3>3
  <2> QED  BY <1>4, <2>1, <2>2
<1>9. Types'
  BY <1>0, <1>2, <1>6, <1>8 DEF Types
<1>10. ASSUME ~weather.reordering PROVE InOrder'
  <2>1. InOrder /\ i = 1
    BY <1>0, <1>5, <1>10
  <2>2. network \in Seq(Fragment) /\ DOMAIN network = 1..Len(network) /\ Len(network) \in Nat
    BY <1>0, LenProperties DEF Types
  <2>3. \A k \in DOMAIN network : network[k].id \in Nat
    <3>1. \A k \in DOMAIN network : network[k] \in Fragment
      BY <2>2, ElementOfSeq
    <3> QED  BY <3>1 DEF Fragment
  <2>4. \A k \in DOMAIN network : network[1].id <= network[k].id
    <3> SUFFICES ASSUME NEW k \in DOMAIN network PROVE network[1].id <= network[k].id
      OBVIOUS
    <3>1. k = 1 \/ 1 < k
      BY <2>2
    <3> QED  BY <1>5, <2>1, <2>3, <3>1 DEF InOrder
  <2>5. \A k \in DOMAIN network : latest'.id <= network[k].id
    BY <1>4, <2>1, <2>4 DEF InOrder
  <2>6. \A j \in DOMAIN network' : latest'.id <= network'[j].id
    BY <1>6, <2>5
  <2>7. \A j, k \in DOMAIN network' : j < k => network'[j].id <= network'[k].id
    BY <1>6, <2>1 DEF InOrder
  <2> QED  BY <2>6, <2>7 DEF InOrder
<1> QED  BY <1>2, <1>3, <1>7, <1>8, <1>9, <1>10 DEF IInv

LEMMA LoseStep == IInv /\ Lose => IInv'
<1> SUFFICES ASSUME IInv, Lose PROVE IInv'
  OBVIOUS
<1>0. /\ Types /\ latest.id <= nextInstructionId
      /\ assembly.fragmentsTotal # -1 => Len(assembly.fragments) < assembly.fragmentsTotal
      /\ ~weather.reordering => InOrder
  BY DEF IInv
<1>1. PICK cut : Cuts(cut)
  BY DEF IInv
<1>2. UNCHANGED <<lastInstruction, lastMTU, nextInstructionId, assembly, weather, made, latest>>
  BY DEF Lose
<1>3. PICK i \in DOMAIN network : network' = RemoveAt(network, i)
  BY DEF Lose, Deliverable
<1>4. /\ network' \in Seq(Fragment)
      /\ \A j \in DOMAIN network' : \E k \in DOMAIN network : network'[j] = network[k]
      /\ (\A j, k \in DOMAIN network : j < k => network[j].id <= network[k].id) =>
           \A j, k \in DOMAIN network' : j < k => network'[j].id <= network'[k].id
  BY <1>0, <1>3, NetworkThins
<1>5. Cuts(cut)'
  BY <1>1, <1>2, <1>4 DEF Cuts
<1>6. Types'
  BY <1>0, <1>2, <1>4 DEF Types
<1>7. ASSUME ~weather.reordering PROVE InOrder'
  BY <1>0, <1>2, <1>4, <1>7 DEF InOrder
<1> QED  BY <1>0, <1>2, <1>5, <1>6, <1>7 DEF IInv

\* The table of cuts may grow, never change.
LEMMA PieceStays ==
  ASSUME NEW f, NEW cut, NEW more, DOMAIN cut \subseteq DOMAIN more,
         \A id \in DOMAIN cut : more[id] = cut[id], IsPiece(f, cut)
  PROVE  IsPiece(f, more)
  BY DEF IsPiece

LEMMA AssemblingStays ==
  ASSUME NEW fa, NEW cut, NEW more, DOMAIN cut \subseteq DOMAIN more,
         \A id \in DOMAIN cut : more[id] = cut[id], Assembling(fa, cut)
  PROVE  Assembling(fa, more)
<1>1. \A i \in DOMAIN fa.fragments : IsPiece(fa.fragments[i], more)
  BY PieceStays DEF Assembling
<1> QED  BY <1>1 DEF Assembling

\* An instruction is cut up, under the id it had or the next one.
LEMMA SendStep ==
  ASSUME IInv, NEW inst \in Instruction, NEW mtu \in Mtu, Send(inst, mtu)
  PROVE  IInv'
<1> DEFINE n == nextInstructionId
           m == NextId(inst, mtu)
           P == Pieces(inst, mtu)
           new == [inst |-> inst, mtu |-> mtu]
           all == MakeFragments(inst, mtu)
<1>0. /\ Types /\ latest.id <= n
      /\ assembly.fragmentsTotal # -1 => Len(assembly.fragments) < assembly.fragmentsTotal
      /\ ~weather.reordering => InOrder
  BY DEF IInv
<1>1. PICK cut : Cuts(cut)
  BY DEF IInv
<1>2. PICK written \in 1..P :
        /\ m <= MaxId /\ network' = network \o SubSeq(all, 1, written)
        /\ nextInstructionId' = m /\ lastInstruction' = inst /\ lastMTU' = mtu
        /\ made' = made \cup {inst}
        /\ UNCHANGED <<assembly, weather, latest>>
  BY DEF Send
<1>3. n \in 0..MaxId /\ cut \in [1..n -> Cut] /\ MaxId \in Nat /\ new \in Cut
  BY <1>0, <1>1, IdAssumption DEF Types, Cuts, Cut
<1>4. (m = n /\ n # 0 /\ cut[n] = new) \/ m = n + 1
  <2>1. CASE inst # lastInstruction \/ lastMTU # mtu
    BY <2>1 DEF NextId
  <2>2. CASE ~(inst # lastInstruction \/ lastMTU # mtu)
    <3>1. m = n /\ inst = lastInstruction /\ lastMTU = mtu
      BY <2>2 DEF NextId
    <3>2. n # 0
      BY <1>0, <3>1, SizeAssumption DEF Types
    <3> QED  BY <1>1, <3>1, <3>2 DEF Cuts
  <2> QED  BY <2>1, <2>2
<1> HIDE DEF m, new
<1>5. m \in 1..MaxId /\ n <= m
  BY <1>2, <1>3, <1>4
<1>6. PICK more : /\ more \in [1..m -> Cut] /\ more[m] = new
                  /\ DOMAIN cut \subseteq DOMAIN more
                  /\ \A id \in DOMAIN cut : more[id] = cut[id]
                  /\ \A id \in 1..m : id \in 1..n \/ id = m
  <2>1. CASE m = n /\ n # 0 /\ cut[n] = new
    BY <1>3, <2>1
  <2>2. CASE m = n + 1
    <3> DEFINE more == [id \in 1..m |-> IF id = m THEN new ELSE cut[id]]
    <3>1. \A id \in 1..m : id = m \/ id \in 1..n
      BY <1>3, <2>2
    <3>2. \A id \in 1..n : id \in 1..m /\ id # m
      BY <1>3, <2>2
    <3>3. more \in [1..m -> Cut]
      BY <1>3, <3>1
    <3>4. more[m] = new
      BY <1>5
    <3>5. \A id \in 1..n : more[id] = cut[id]
      BY <3>2
    <3> HIDE DEF more
    <3>6. 1..n \subseteq 1..m /\ DOMAIN cut = 1..n /\ DOMAIN more = 1..m
      BY <1>3, <3>2, <3>3
    <3> QED  BY <3>1, <3>3, <3>4, <3>5, <3>6
  <2> QED  BY <1>4, <2>1, <2>2
<1>7. P \in 1..NumLimit /\ P \in Nat /\ NumLimit \in Nat
  BY PiecesCover, SizeAssumption
<1>8. ASSUME NEW k \in 1..P PROVE IsPiece(all[k], more) /\ all[k].id = m /\ all[k] \in Fragment
  <2>1. all[k] = Piece(m, inst, mtu, k - 1) /\ k - 1 \in 0..P - 1
    BY <1>7 DEF MakeFragments, Piece, m
  <2>2. Piece(m, inst, mtu, k - 1).id = m
    BY <2>1, PieceFields
  <2>3. more[m].inst = inst /\ more[m].mtu = mtu /\ m \in DOMAIN more
    BY <1>5, <1>6 DEF new
  <2>4. IsPiece(all[k], more)
    BY <2>1, <2>2, <2>3 DEF IsPiece
  <2>5. all[k] \in Fragment
    <3>1. m \in 0..MaxId /\ more \in [1..m -> Cut]
      BY <1>5, <1>6
    <3> HIDE DEF all
    <3> QED  BY <2>4, <3>1, PieceOfCut
  <2> QED  BY <2>1, <2>2, <2>4, <2>5
<1> DEFINE some == SubSeq(all, 1, written)
<1>9. some \in Seq(Fragment) /\ Len(some) = written /\ \A k \in 1..written : some[k] = all[k]
  <2>1. written \in Int /\ 1 <= written /\ written <= P
    BY <1>7
  <2>2. \A k \in 1..written : all[k] \in Fragment
    BY <1>7, <1>8, <2>1
  <2>3. /\ some \in Seq(Fragment)
        /\ Len(some) = IF 1 <= written THEN written - 1 + 1 ELSE 0
        /\ \A k \in 1..written - 1 + 1 : some[k] = all[1 + k - 1]
    BY <2>1, <2>2, SubSeqProperties
  <2> HIDE DEF some, all
  <2>4. written - 1 + 1 = written /\ \A k \in 1..written : 1 + k - 1 = k
    BY <2>1
  <2> QED  BY <2>1, <2>3, <2>4
<1>10. \A k \in 1..written : IsPiece(some[k], more) /\ some[k].id = m
  <2>1. \A k \in 1..written : k \in 1..P
    BY <1>7
  <2> QED  BY <1>8, <1>9, <2>1
<1> HIDE DEF some, all, P
<1> DEFINE N == Len(network)
<1>11. network \in Seq(Fragment) /\ N \in Nat /\ DOMAIN network = 1..N
  BY <1>0, LenProperties DEF Types
<1>12. /\ network' \in Seq(Fragment) /\ Len(network') = N + written
       /\ \A j \in 1..N + written : network'[j] = IF j <= N THEN network[j] ELSE some[j - N]
  <2>1. network' = network \o some
    BY <1>2 DEF some, all
  <2>2. /\ network \o some \in Seq(Fragment) /\ Len(network \o some) = N + Len(some)
        /\ \A j \in 1..N + Len(some) :
             (network \o some)[j] = IF j <= N THEN network[j] ELSE some[j - N]
    BY <1>9, <1>11, ConcatProperties
  <2> QED  BY <1>9, <2>1, <2>2
<1>13. DOMAIN network' = 1..N + written
  BY <1>12, LenProperties
<1>14. written \in Nat /\ 1 <= written
  BY <1>7
<1> HIDE DEF N
<1>15. ASSUME NEW j \in 1..N + written
       PROVE  \/ j \in 1..N /\ network'[j] = network[j]
              \/ j > N /\ j - N \in 1..written /\ network'[j] = some[j - N]
  <2>1. CASE j <= N
    BY <1>11, <1>12, <1>14, <2>1
  <2>2. CASE ~(j <= N)
    <3>1. j > N /\ j - N \in 1..written
      BY <1>11, <1>14, <2>2
    <3> QED  BY <1>12, <2>2, <3>1
  <2> QED  BY <2>1, <2>2
<1>16. ASSUME NEW j \in 1..N + written PROVE IsPiece(network'[j], more)
  <2>1. CASE j \in 1..N /\ network'[j] = network[j]
    <3>1. IsPiece(network[j], cut)
      BY <1>1, <1>11, <2>1 DEF Cuts
    <3>2. IsPiece(network[j], more)
      BY <1>6, <3>1, PieceStays
    <3> QED  BY <2>1, <3>2
  <2>2. CASE j - N \in 1..written /\ network'[j] = some[j - N]
    BY <1>10, <2>2
  <2> QED  BY <1>15, <2>1, <2>2
<1>17. Assembling(assembly, more)
  BY <1>1, <1>6, AssemblingStays DEF Cuts
<1>18. Cuts(more)'
  <2>1. \A id \in 1..m : more[id].inst \in made'
    <3> SUFFICES ASSUME NEW id \in 1..m PROVE more[id].inst \in made'
      OBVIOUS
    <3>1. CASE id \in 1..n
      <4>1. more[id] = cut[id]
        BY <1>3, <1>6, <3>1
      <4> QED  BY <1>1, <1>2, <3>1, <4>1 DEF Cuts
    <3>2. CASE id = m
      BY <1>2, <1>6, <3>2 DEF new
    <3> QED  BY <1>6, <3>1, <3>2
  <2> QED  BY <1>2, <1>6, <1>13, <1>16, <1>17, <2>1 DEF Cuts, new
<1>19. Types'
  BY <1>0, <1>2, <1>5, <1>12 DEF Types
<1>20. ASSUME ~weather.reordering PROVE InOrder'
  <2>1. /\ InOrder /\ latest.id \in Nat /\ m \in Nat /\ n \in Nat
    BY <1>0, <1>3, <1>5, <1>20, IdAssumption DEF Types
  <2>2. \A j \in 1..N : network[j].id \in Nat /\ network[j].id <= m
    <3> SUFFICES ASSUME NEW j \in 1..N PROVE network[j].id \in Nat /\ network[j].id <= m
      OBVIOUS
    <3>1. network[j].id \in 1..n
      BY <1>1, <1>3, <1>11 DEF Cuts, IsPiece
    <3> QED  BY <1>5, <2>1, <3>1
  <2>3. ASSUME NEW j \in 1..N + written
        PROVE  latest.id <= network'[j].id
    <3>1. CASE j \in 1..N /\ network'[j] = network[j]
      BY <1>11, <2>1, <3>1 DEF InOrder
    <3>2. CASE j - N \in 1..written /\ network'[j] = some[j - N]
      <4>1. network'[j].id = m
        BY <1>10, <3>2
      <4> QED  BY <1>0, <1>5, <2>1, <4>1
    <3> QED  BY <1>15, <3>1, <3>2
  <2>4. ASSUME NEW j \in 1..N + written, NEW k \in 1..N + written, j < k
        PROVE  network'[j].id <= network'[k].id
    <3>0. j \in Nat /\ k \in Nat
      BY <1>11, <1>14
    <3>1. CASE k \in 1..N /\ network'[k] = network[k]
      <4>1. ~(j > N)
        BY <1>11, <2>4, <3>0, <3>1
      <4>2. j \in 1..N /\ network'[j] = network[j]
        BY <1>15, <4>1
      <4> QED  BY <1>11, <2>1, <2>4, <3>1, <4>2 DEF InOrder
    <3>2. CASE k - N \in 1..written /\ network'[k] = some[k - N]
      <4>1. network'[k].id = m
        BY <1>10, <3>2
      <4>2. CASE j \in 1..N /\ network'[j] = network[j]
        BY <2>2, <4>1, <4>2
      <4>3. CASE j - N \in 1..written /\ network'[j] = some[j - N]
        <5>1. network'[j].id = m
          BY <1>10, <4>3
        <5> QED  BY <2>1, <4>1, <5>1
      <4> QED  BY <1>15, <4>2, <4>3
    <3> QED  BY <1>15, <3>1, <3>2
  <2> QED  BY <1>2, <1>13, <2>3, <2>4 DEF InOrder
<1>21. latest'.id <= nextInstructionId'
  <2>1. latest.id \in Nat /\ n \in Nat /\ m \in Nat
    BY <1>0, <1>3, <1>5, IdAssumption DEF Types
  <2> QED  BY <1>0, <1>2, <1>5, <2>1
<1> QED  BY <1>0, <1>2, <1>18, <1>19, <1>20, <1>21 DEF IInv

LEMMA InvariantInit == Init => IInv
<1> SUFFICES ASSUME Init PROVE IInv
  OBVIOUS
<1>0. <<>> \in Seq(Fragment) /\ Len(<<>>) = 0 /\ DOMAIN <<>> = {}
  BY EmptySeq
<1>1. Types
  BY <1>0, IdAssumption DEF Init, Types
<1>2. assembly.fragments = <<>> /\ assembly.fragmentsTotal = -1
  BY DEF Init, NewFragmentAssembly
<1> DEFINE cut == [id \in 1..0 |-> [inst |-> NoInstruction, mtu |-> 0]]
<1>3. cut \in [1..0 -> Cut]
  OBVIOUS
<1>4. Assembling(assembly, cut)
  <2>1. assembly = [fragments |-> <<>>, currentId |-> MaxUint64, fragmentsArrived |-> 0,
                    fragmentsTotal |-> -1]
    BY DEF Init, NewFragmentAssembly
  <2> HIDE DEF cut
  <2> QED  BY <1>0, <2>1 DEF Assembling, Sorted
<1> HIDE DEF cut
<1>5. Cuts(cut)
  BY <1>0, <1>3, <1>4 DEF Init, Cuts
<1>6. InOrder
  BY <1>0 DEF Init, InOrder
<1>7. latest.id <= nextInstructionId
  BY DEF Init
<1> QED  BY <1>1, <1>2, <1>5, <1>6, <1>7 DEF IInv

LEMMA InvariantStep == IInv /\ [Next]_vars => IInv'
<1> SUFFICES ASSUME IInv, [Next]_vars PROVE IInv'
  OBVIOUS
<1>1. CASE UNCHANGED vars
  BY <1>1 DEF vars, IInv, Types, Cuts, InOrder
<1> QED  BY <1>1, SendStep, RecvStep, LoseStep DEF Next

-----------------------------------------------------------------------------
(* The theorems.                                                           *)

\* The invariant holds throughout, whatever the network does.
THEOREM Invariance == Spec => []IInv
<1>1. Init => IInv
  BY InvariantInit
<1>2. IInv /\ [Next]_vars => IInv'
  BY InvariantStep
<1> QED  BY <1>1, <1>2, PTL DEF Spec

\* The types: a fragment has 15 bits of number, whatever the payload and the
\* MTU, and an assembly no more fragments than that.
THEOREM TypeCorrect == Spec => []TypeOK
<1>1. IInv => TypeOK
  <2> SUFFICES ASSUME IInv PROVE TypeOK
    OBVIOUS
  <2>1. PICK cut : Cuts(cut)
    BY DEF IInv
  <2> QED  BY <2>1 DEF IInv, Types, TypeOK, Cuts, Assembling
<1> QED  BY <1>1, Invariance, PTL

\* The counters of the assembly are about the fragments present, one of each
\* number and all of one instruction, and getAssembly never finds it short.
THEOREM AssemblyIsAlwaysConsistent == Spec => []AssemblyIsConsistent
<1>1. IInv => AssemblyIsConsistent
  <2> SUFFICES ASSUME IInv PROVE AssemblyIsConsistent
    OBVIOUS
  <2>1. PICK cut : Cuts(cut)
    BY DEF IInv
  <2>2. /\ Assembling(assembly, cut) /\ nextInstructionId \in 0..MaxId
        /\ cut \in [1..nextInstructionId -> Cut]
        /\ assembly.fragmentsTotal # -1 => Len(assembly.fragments) < assembly.fragmentsTotal
    BY <2>1 DEF Cuts, IInv, Types
  <2>3. assembly.fragmentsTotal # -1 =>
          \A i \in DOMAIN assembly.fragments :
            assembly.fragments[i].fragmentNum < assembly.fragmentsTotal
    BY <2>2, AssemblyDecodes
  <2> QED  BY <2>2, <2>3 DEF AssemblyIsConsistent, Assembling, Sorted
<1> QED  BY <1>1, Invariance, PTL

\* Above this layer there are only whole instructions that were sent: the
\* Fragmenter, the network and the FragmentAssembly implement Datagrams.
THEOREM OnlyWholeInstructions == Spec => WholeInstructions
<1>1. Init => Whole!Init
  BY DEF Init, Whole!Init
<1>2. IInv /\ [Next]_vars => [Whole!Send \/ Whole!Deliver]_<<made, latest.inst>>
  <2> SUFFICES ASSUME IInv, [Next]_vars
               PROVE  [Whole!Send \/ Whole!Deliver]_<<made, latest.inst>>
    OBVIOUS
  <2>1. CASE UNCHANGED vars
    BY <2>1 DEF vars
  <2>2. ASSUME NEW inst \in Instruction, NEW mtu \in Mtu, Send(inst, mtu) PROVE Whole!Send
    BY <2>2 DEF Send, Whole!Send
  <2>3. CASE Recv
    <3>1. PICK cut : Cuts(cut)
      BY DEF IInv
    <3>2. PICK i \in Deliverable :
            \/ latest' = latest
            \/ /\ network[i].id \in 1..nextInstructionId
               /\ latest' = [id |-> network[i].id, inst |-> {cut[network[i].id].inst}]
      BY <2>3, <3>1, RecvAssembles DEF IInv
    <3>3. made' = made
      BY <2>3 DEF Recv
    <3>4. CASE latest' = latest
      BY <3>3, <3>4
    <3>5. CASE /\ network[i].id \in 1..nextInstructionId
               /\ latest' = [id |-> network[i].id, inst |-> {cut[network[i].id].inst}]
      <4>1. cut[network[i].id].inst \in made
        BY <3>1, <3>5 DEF Cuts
      <4>2. latest'.inst = {cut[network[i].id].inst}
        BY <3>5
      <4>3. Whole!Deliver
        BY <3>3, <4>1, <4>2 DEF Whole!Deliver
      <4> QED  BY <4>3
    <3> QED  BY <3>2, <3>4, <3>5
  <2>4. CASE Lose
    BY <2>4 DEF Lose
  <2> QED  BY <2>1, <2>2, <2>3, <2>4 DEF Next
<1>3. Spec => Whole!Spec
  BY <1>1, <1>2, Invariance, PTL DEF Spec, Whole!Spec
<1> QED  BY <1>3 DEF WholeInstructions

\* Fragments that arrive in order make instructions that arrive in order, be
\* they lost or repeated.
THEOREM OrderIsAlwaysKept == Spec => OrderIsKept
<1>1. IInv /\ [Next]_vars => [~weather.reordering => latest'.id >= latest.id]_vars
  <2> SUFFICES ASSUME IInv, Next, ~weather.reordering PROVE latest'.id >= latest.id
    OBVIOUS
  <2>0. latest.id \in Nat
    BY IdAssumption DEF IInv, Types
  <2>1. CASE latest' = latest
    BY <2>0, <2>1
  <2>2. CASE Recv
    <3>1. PICK cut : Cuts(cut)
      BY DEF IInv
    <3>2. PICK i \in Deliverable :
            \/ latest' = latest
            \/ latest' = [id |-> network[i].id, inst |-> {cut[network[i].id].inst}]
      BY <2>2, <3>1, RecvAssembles DEF IInv
    <3>3. i \in DOMAIN network /\ latest.id <= network[i].id
      BY DEF IInv, InOrder, Deliverable
    <3>4. network[i].id \in Nat
      <4>1. network[i] \in Fragment
        BY <3>3, ElementOfSeq, LenProperties DEF IInv, Types
      <4> QED  BY <4>1 DEF Fragment
    <3>5. CASE latest' = [id |-> network[i].id, inst |-> {cut[network[i].id].inst}]
      BY <2>0, <3>3, <3>4, <3>5
    <3> QED  BY <2>1, <3>2, <3>5
  <2>3. ASSUME NEW inst \in Instruction, NEW mtu \in Mtu, Send(inst, mtu) PROVE latest' = latest
    BY <2>3 DEF Send
  <2>4. CASE Lose
    BY <2>1, <2>4 DEF Lose
  <2> QED  BY <2>1, <2>2, <2>3, <2>4 DEF Next
<1> QED  BY <1>1, Invariance, PTL DEF Spec, OrderIsKept
=============================================================================
