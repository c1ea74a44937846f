------------------------------- MODULE Folding -------------------------------
(***************************************************************************)
(* What FoldLeft computes, for one operator op: it goes along the sequence *)
(* from base, one element after the other; what op keeps from one state to *)
(* the next it keeps; and over two sequences in a row it goes over one and *)
(* then over the other.                                                    *)
(*                                                                         *)
(* FoldLeft is defined by a choice of a function on sets of positions; that*)
(* there is such a function is what has to be proved.  A proof about       *)
(* FoldLeft(Op, base, seq) instantiates this module WITH op <- Op and      *)
(* expands both definitions to the same choice.  p holds the parameters of *)
(* an Op that is written in place.                                         *)
(***************************************************************************)
EXTENDS Integers, Sequences, TLAPS

LOCAL INSTANCE WellFoundedInduction

CONSTANTS op(_, _, _),   \* op(p, accumulated, element)
          Rel(_, _, _)   \* Rel(p, accumulated, the same from another base)

Newest(s) == CHOOSE x \in s : \A y \in s : x >= y

\* f is a solution of the recursion over the subsets of S.
FoldedBy(f, p, base, seq, S) ==
  f = [s \in SUBSET S |-> IF s = {} THEN base ELSE op(p, f[s \ {Newest(s)}], seq[Newest(s)])]

\* FoldLeft(op, base, seq).
Folded(p, base, seq) == (CHOOSE f : FoldedBy(f, p, base, seq, DOMAIN seq))[DOMAIN seq]

\* g goes along the first n elements.
Along(g, p, base, seq, n) == g[0] = base /\ \A i \in 1..n : g[i] = op(p, g[i - 1], seq[i])

-----------------------------------------------------------------------------
(* Numbers.                                                                *)

\* A nonempty set of numbers has a least element.
LEMMA LeastNumber ==
  ASSUME NEW T, T \subseteq Nat, T # {}
  PROVE  \E x \in T : \A y \in T : x <= y
<1> DEFINE Below == {pair \in Nat \X Nat : pair[1] < pair[2]}
<1>1. IsWellFoundedOn(Below, Nat)
  BY NatLessThanWellFounded, Zenon DEF OpToRel
<1>2. \A x, y \in Nat : <<x, y>> \in Below <=> x < y
  OBVIOUS
<1> HIDE DEF Below
<1>3. PICK x \in T : \A y \in T : ~(<<y, x>> \in Below)
  BY <1>1, WFMin
<1>4. ASSUME NEW y \in T PROVE x <= y
  <2>1. x \in Nat /\ y \in Nat /\ ~(y < x)
    BY <1>2, <1>3
  <2> QED  BY <2>1
<1> QED  BY <1>4

\* Induction up to n, over the set of the numbers for which something holds.
LEMMA UpTo ==
  ASSUME NEW n \in Nat, NEW T, 0 \in T, \A i \in 1..n : i - 1 \in T => i \in T
  PROVE  \A i \in 0..n : i \in T
<1>1. SUFFICES ASSUME (0..n) \ T # {} PROVE FALSE
  OBVIOUS
<1>2. PICK i \in (0..n) \ T : \A j \in (0..n) \ T : i <= j
  <2>1. (0..n) \ T \subseteq Nat
    OBVIOUS
  <2> QED  BY <1>1, <2>1, LeastNumber
<1>3. i \in 1..n /\ i - 1 \in 0..n /\ ~(i <= i - 1)
  BY <1>2
<1>4. i - 1 \in T
  BY <1>2, <1>3
<1> QED  BY <1>2, <1>3, <1>4

\* The last position.
LEMMA NewestIs ==
  ASSUME NEW n \in Nat, NEW s \in SUBSET (1..n)
  PROVE  /\ n \in s => Newest(s) = n
         /\ s # {} => Newest(s) \in s
<1>1. \A x \in s : x \in Int /\ x <= n
  OBVIOUS
<1>2. ASSUME n \in s PROVE Newest(s) = n
  <2>1. \A y \in s : n >= y
    BY <1>1
  <2>2. \A x \in s : (\A y \in s : x >= y) => x = n
    BY <1>1, <1>2
  <2> QED  BY <1>2, <2>1, <2>2 DEF Newest
<1>3. ASSUME s # {} PROVE Newest(s) \in s
  <2> DEFINE T == {n - x : x \in s}
  <2>1. T \subseteq Nat
    BY <1>1
  <2>2. T # {}
    BY <1>3
  <2> HIDE DEF T
  <2>3. PICK d \in T : \A e \in T : d <= e
    BY <2>1, <2>2, LeastNumber
  <2>4. PICK x \in s : d = n - x
    BY DEF T
  <2>5. \A y \in s : n - y \in T
    BY DEF T
  <2>6. \A y \in s : x >= y
    BY <1>1, <2>3, <2>4, <2>5
  <2> QED  BY <2>6 DEF Newest
<1> QED  BY <1>2, <1>3

-----------------------------------------------------------------------------
(* The recursion.                                                          *)

\* It has a solution.
LEMMA Defined ==
  ASSUME NEW p, NEW base, NEW seq, NEW n \in Nat
  PROVE  \E f : FoldedBy(f, p, base, seq, 1..n)
<1> DEFINE T == {k \in Nat : \E f : FoldedBy(f, p, base, seq, 1..k)}
<1>1. 0 \in T
  <2> DEFINE g == [s \in SUBSET (1..0) |-> base]
  <2>1. FoldedBy(g, p, base, seq, 1..0)
    BY DEF FoldedBy
  <2> HIDE DEF g
  <2> QED  BY <2>1
<1>2. ASSUME NEW k \in 1..n, k - 1 \in T PROVE k \in T
  <2>1. PICK f : FoldedBy(f, p, base, seq, 1..k - 1)
    BY <1>2
  <2> DEFINE g == [s \in SUBSET (1..k) |-> IF k \in s THEN op(p, f[s \ {k}], seq[k]) ELSE f[s]]
  <2>2. ASSUME NEW s \in SUBSET (1..k)
        PROVE  g[s] = IF s = {} THEN base ELSE op(p, g[s \ {Newest(s)}], seq[Newest(s)])
    <3>1. CASE k \in s
      <4>1. s \ {k} \in SUBSET (1..k) /\ k \notin s \ {k} /\ Newest(s) = k /\ s # {}
        BY <3>1, NewestIs
      <4>2. g[s] = op(p, f[s \ {k}], seq[k]) /\ g[s \ {k}] = f[s \ {k}]
        BY <3>1, <4>1
      <4> HIDE DEF g
      <4> QED  BY <4>1, <4>2
    <3>2. CASE k \notin s
      <4>1. \A x \in s : x \in 1..k - 1
        BY <3>2
      <4>2. s \in SUBSET (1..k - 1) /\ s \ {Newest(s)} \in SUBSET (1..k) /\ k \notin s \ {Newest(s)}
        BY <3>2, <4>1
      <4>3. g[s] = f[s] /\ g[s \ {Newest(s)}] = f[s \ {Newest(s)}]
        BY <3>2, <4>2
      <4>4. f[s] = IF s = {} THEN base ELSE op(p, f[s \ {Newest(s)}], seq[Newest(s)])
        BY <2>1, <4>2 DEF FoldedBy
      <4> HIDE DEF g
      <4> QED  BY <4>3, <4>4
    <3> QED  BY <3>1, <3>2
  <2>3. DOMAIN g = SUBSET (1..k) /\ g = [s \in DOMAIN g |-> g[s]]
    OBVIOUS
  <2> HIDE DEF g
  <2>4. FoldedBy(g, p, base, seq, 1..k)
    BY <2>2, <2>3 DEF FoldedBy
  <2> QED  BY <2>4
<1>3. n \in T
  <2> HIDE DEF T
  <2>1. \A i \in 1..n : i - 1 \in T => i \in T
    BY <1>2
  <2>2. \A i \in 0..n : i \in T
    BY <1>1, <2>1, UpTo
  <2> QED  BY <2>2
<1> QED  BY <1>3

\* One step after the other.
LEMMA Steps ==
  ASSUME NEW p, NEW base, NEW seq, NEW n \in Nat, DOMAIN seq = 1..n
  PROVE  \E g : Along(g, p, base, seq, n) /\ Folded(p, base, seq) = g[n]
<1> DEFINE f == CHOOSE f : FoldedBy(f, p, base, seq, DOMAIN seq)
           g == [i \in 0..n |-> f[1..i]]
<1>1. Folded(p, base, seq) = f[1..n]
  BY DEF Folded
<1>2. FoldedBy(f, p, base, seq, 1..n)
  BY Defined
<1> HIDE DEF f
<1>3. ASSUME NEW s \in SUBSET (1..n)
      PROVE  f[s] = IF s = {} THEN base ELSE op(p, f[s \ {Newest(s)}], seq[Newest(s)])
  BY <1>2 DEF FoldedBy
<1>4. g[0] = base
  <2>1. 1..0 = {} /\ g[0] = f[1..0]
    OBVIOUS
  <2> QED  BY <1>3, <2>1
<1>5. ASSUME NEW i \in 1..n PROVE g[i] = op(p, g[i - 1], seq[i])
  <2> DEFINE s == 1..i
  <2>1. s \in SUBSET (1..n) /\ i \in s /\ i \in Nat /\ i - 1 \in 0..n
    OBVIOUS
  <2>2. Newest(s) = i
    BY <2>1, NewestIs
  <2>3. s \ {i} = 1..i - 1
    OBVIOUS
  <2>4. g[i] = f[1..i] /\ g[i - 1] = f[1..i - 1]
    BY <2>1
  <2>5. f[s] = op(p, f[s \ {i}], seq[i])
    <3> HIDE DEF s, g
    <3> QED  BY <1>3, <2>1, <2>2
  <2> HIDE DEF g
  <2> QED  BY <2>3, <2>4, <2>5
<1>6. g[n] = f[1..n]
  OBVIOUS
<1> HIDE DEF g
<1>7. Along(g, p, base, seq, n)
  BY <1>4, <1>5 DEF Along
<1> QED  BY <1>1, <1>6, <1>7

\* There is one way along a sequence.
LEMMA OneWay ==
  ASSUME NEW p, NEW base, NEW s, NEW t, NEW n \in Nat, \A i \in 1..n : s[i] = t[i],
         NEW g, Along(g, p, base, s, n), NEW h, Along(h, p, base, t, n)
  PROVE  \A i \in 0..n : g[i] = h[i]
<1> DEFINE T == {i \in 0..n : g[i] = h[i]}
<1>1. 0 \in T
  BY DEF Along
<1>2. ASSUME NEW i \in 1..n, i - 1 \in T PROVE i \in T
  BY <1>2 DEF Along
<1>3. \A i \in 0..n : i \in T
  <2> HIDE DEF T
  <2>1. \A i \in 1..n : i - 1 \in T => i \in T
    BY <1>2
  <2> QED  BY <1>1, <2>1, UpTo
<1> QED  BY <1>3

-----------------------------------------------------------------------------
(* The facts about folds.                                                  *)

\* What each step keeps of two states the folds from them keep.
LEMMA Keeps ==
  ASSUME NEW p, NEW a, NEW b, Rel(p, a, b), NEW seq, NEW n \in Nat, DOMAIN seq = 1..n,
         \A i \in 1..n : \A x, y : Rel(p, x, y) => Rel(p, op(p, x, seq[i]), op(p, y, seq[i]))
  PROVE  Rel(p, Folded(p, a, seq), Folded(p, b, seq))
<1>1. PICK g : Along(g, p, a, seq, n) /\ Folded(p, a, seq) = g[n]
  BY Steps
<1>2. PICK h : Along(h, p, b, seq, n) /\ Folded(p, b, seq) = h[n]
  BY Steps
<1> DEFINE T == {i \in 0..n : Rel(p, g[i], h[i])}
<1>3. 0 \in T
  BY <1>1, <1>2 DEF Along
<1>4. ASSUME NEW i \in 1..n, i - 1 \in T PROVE i \in T
  <2>1. Rel(p, g[i - 1], h[i - 1]) /\ i \in 0..n
    BY <1>4
  <2>2. Rel(p, op(p, g[i - 1], seq[i]), op(p, h[i - 1], seq[i]))
    BY <2>1
  <2> QED  BY <1>1, <1>2, <2>1, <2>2 DEF Along
<1>5. \A i \in 0..n : i \in T
  <2> HIDE DEF T
  <2>1. \A i \in 1..n : i - 1 \in T => i \in T
    BY <1>4
  <2> QED  BY <1>3, <2>1, UpTo
<1>6. Rel(p, g[n], h[n])
  BY <1>5
<1> QED  BY <1>1, <1>2, <1>6

\* Nothing to go along.
LEMMA OfNothing == ASSUME NEW p, NEW base PROVE Folded(p, base, <<>>) = base
<1>1. DOMAIN <<>> = 1..0
  OBVIOUS
<1>2. PICK g : Along(g, p, base, <<>>, 0) /\ Folded(p, base, <<>>) = g[0]
  BY <1>1, Steps
<1> QED  BY <1>2 DEF Along

\* One element.
LEMMA OfOne == ASSUME NEW p, NEW base, NEW x PROVE Folded(p, base, <<x>>) = op(p, base, x)
<1>1. DOMAIN <<x>> = 1..1 /\ <<x>>[1] = x /\ 1 \in 1..1 /\ 1 - 1 = 0
  OBVIOUS
<1> DEFINE s == <<x>>
<1>2. DOMAIN s = 1..1 /\ s[1] = x
  BY <1>1
<1> HIDE DEF s
<1>3. PICK g : Along(g, p, base, s, 1) /\ Folded(p, base, s) = g[1]
  <2>1. 1 \in Nat
    OBVIOUS
  <2> QED  BY <1>2, <2>1, Steps, Zenon
<1>4. g[1] = op(p, g[0], s[1]) /\ g[0] = base
  BY <1>1, <1>3 DEF Along
<1> QED  BY <1>2, <1>3, <1>4 DEF s

\* Two sequences in a row.
LEMMA AlongTwo ==
  ASSUME NEW p, NEW base, NEW m \in Nat, NEW n \in Nat, NEW s, NEW t, NEW st,
         DOMAIN s = 1..m, DOMAIN t = 1..n, DOMAIN st = 1..m + n,
         \A i \in 1..m : st[i] = s[i], \A i \in 1..n : st[m + i] = t[i]
  PROVE  Folded(p, base, st) = Folded(p, Folded(p, base, s), t)
<1>1. PICK f : Along(f, p, base, st, m + n) /\ Folded(p, base, st) = f[m + n]
  <2>1. m + n \in Nat
    OBVIOUS
  <2> QED  BY <2>1, Steps
<1>2. PICK g : Along(g, p, base, s, m) /\ Folded(p, base, s) = g[m]
  BY Steps
<1>3. PICK h : Along(h, p, g[m], t, n) /\ Folded(p, g[m], t) = h[n]
  BY Steps
<1>4. f[m] = g[m]
  <2>1. Along(f, p, base, st, m)
    BY <1>1 DEF Along
  <2>2. \A i \in 0..m : f[i] = g[i]
    <3>1. m \in Nat /\ \A i \in 1..m : st[i] = s[i]
      OBVIOUS
    <3>2. \A x, y : Along(x, p, base, st, m) /\ Along(y, p, base, s, m) => \A i \in 0..m : x[i] = y[i]
      BY <3>1, OneWay, Z3
    <3> QED  BY <1>2, <2>1, <3>2
  <2> QED  BY <2>2
<1> DEFINE k == [i \in 0..n |-> f[m + i]]
<1>5. Along(k, p, g[m], t, n)
  <2>1. k[0] = g[m]
    BY <1>4
  <2>2. ASSUME NEW i \in 1..n PROVE k[i] = op(p, k[i - 1], t[i])
    <3>1. m + i \in 1..m + n /\ m + i - 1 = m + (i - 1) /\ i - 1 \in 0..n /\ i \in 0..n
      OBVIOUS
    <3>2. k[i] = f[m + i] /\ k[i - 1] = f[m + i - 1]
      BY <3>1
    <3> HIDE DEF k
    <3>3. \A j \in 1..m + n : f[j] = op(p, f[j - 1], st[j])
      BY <1>1, Zenon DEF Along
    <3>4. f[m + i] = op(p, f[m + i - 1], st[m + i])
      BY <3>1, <3>3
    <3> QED  BY <3>2, <3>4
  <2> HIDE DEF k
  <2> QED  BY <2>1, <2>2 DEF Along
<1>6. k[n] = f[m + n]
  OBVIOUS
<1> HIDE DEF k
<1>7. \A i \in 0..n : k[i] = h[i]
  BY <1>3, <1>5, OneWay
<1>8. k[n] = h[n]
  BY <1>7
<1> QED  BY <1>1, <1>2, <1>3, <1>6, <1>8

LEMMA InARow ==
  ASSUME NEW p, NEW base, NEW S, NEW s \in Seq(S), NEW t \in Seq(S)
  PROVE  Folded(p, base, s \o t) = Folded(p, Folded(p, base, s), t)
<1>1. PICK m \in Nat, n \in Nat : m = Len(s) /\ n = Len(t)
  OBVIOUS
<1>2. PICK st : st = s \o t
  OBVIOUS
<1>3. DOMAIN s = 1..m /\ DOMAIN t = 1..n /\ DOMAIN st = 1..m + n
  BY <1>1, <1>2
<1>4. (\A i \in 1..m : st[i] = s[i]) /\ (\A i \in 1..n : st[m + i] = t[i])
  BY <1>1, <1>2
<1>5. Folded(p, base, st) = Folded(p, Folded(p, base, s), t)
  <2>1. m \in Nat /\ n \in Nat
    OBVIOUS
  <2> QED  BY <1>3, <1>4, AlongTwo, Z3
<1> QED  BY <1>2, <1>5
=============================================================================
