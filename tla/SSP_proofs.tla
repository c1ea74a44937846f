----------------------------- MODULE SSP_proofs -----------------------------
(***************************************************************************)
(* What SSP keeps true for every kind of state, every bound and every      *)
(* network: the types, the order of the queues, that numbers and acks are  *)
(* about states that exist, that a clean shutdown is one, and what can be  *)
(* relied on while packets arrive in order.                                *)
(***************************************************************************)
EXTENDS SSP, TLAPS, SequenceTheorems, WellFoundedInduction, FiniteSetTheorems

(* The only thing the proofs need to know of the states: the methods of    *)
(* the State interface (network/state.go) stay within their types.         *)
StatesClosed ==
  \A e \in Endpoint :
    /\ InitialState(e) \in State(e) /\ NoDiff \in Diff(e)
    /\ \A x \in State(e) :
         /\ StateClone(e, x) \in State(e) /\ StateReset(e, x) \in State(e)
         /\ \A y \in State(e) : /\ StateDiffFrom(e, x, y) \in Diff(e)
                                /\ StateSubtract(e, x, y) \in State(e)
         /\ \A d \in Diff(e) : StateApplyString(e, x, d) \in State(e)
         /\ \A ev \in Event(e) : Push(e, x, ev) \in State(e)

-----------------------------------------------------------------------------
(* Queues.                                                                 *)

\* There are two ends, each the peer of the other.
LEMMA PeerType ==
  \A e \in Endpoint : Peer(e) \in Endpoint /\ Peer(Peer(e)) = e /\ Peer(e) # e
  BY DEF Peer, Endpoint

\* A function on 1..n is a sequence of length n.
LEMMA FunctionIsSequence ==
  ASSUME NEW S, NEW n \in Nat, NEW f \in [1..n -> S]
  PROVE  f \in Seq(S) /\ Len(f) = n /\ DOMAIN f = 1..n
  BY SeqDef, LenProperties

\* A nonempty set of numbers has a least element, and Min chooses it: the loops
\* over the queues stop at the first state with some property.
LEMMA LeastNumber ==
  ASSUME NEW T, T \subseteq Nat, T # {}
  PROVE  Min(T) \in T /\ \A y \in T : Min(T) <= y
<1> DEFINE LT == {ss \in Nat \X Nat : ss[1] < ss[2]}
<1>1. IsWellFoundedOn(LT, Nat)
  BY NatLessThanWellFounded, Zenon DEF OpToRel
<1>2. \A x, y \in Nat : <<x, y>> \in LT <=> x < y
  OBVIOUS
<1> HIDE DEF LT
<1>3. PICK x \in T : \A y \in T : ~(<<y, x>> \in LT)
  BY <1>1, WFMin
<1>4. ASSUME NEW y \in T PROVE x <= y
  <2>1. x \in Nat /\ y \in Nat
    OBVIOUS
  <2>2. ~(y < x)
    BY <1>2, <1>3, <2>1
  <2> QED  BY <2>1, <2>2
<1> QED  BY <1>4 DEF Min

\* A queue of timestamped states of S.
Queue(S) == Seq([num : Nat, state : S])

\* What a queue holds are numbers and states.
LEMMA QueueElements ==
  ASSUME NEW S, NEW q \in Queue(S)
  PROVE  /\ Len(q) \in Nat /\ DOMAIN q = 1..Len(q)
         /\ \A i \in 1..Len(q) :
              q[i] \in [num : Nat, state : S] /\ q[i].num \in Nat /\ q[i].state \in S
<1>1. /\ Len(q) \in Nat /\ DOMAIN q = 1..Len(q)
      /\ \A i \in 1..Len(q) : q[i] \in [num : Nat, state : S]
  BY ElementOfSeq, LenProperties DEF Queue
<1> QED  BY <1>1

\* KeepFrom cuts the states in front of the first whose number is not below n.
LEMMA KeepFromCuts ==
  ASSUME NEW S, NEW q \in Queue(S), NEW n \in Int
  PROVE  \E m \in 1..Len(q) + 1 :
           /\ KeepFrom(q, n) = SubSeq(q, m, Len(q))
           /\ \A i \in 1..m - 1 : q[i].num < n
           /\ m <= Len(q) => q[m].num >= n
<1> DEFINE T == {i \in 1..Len(q) + 1 : i = Len(q) + 1 \/ q[i].num >= n}
<1>0. Len(q) \in Nat /\ \A i \in 1..Len(q) : q[i].num \in Nat
  BY QueueElements
<1>1. T \subseteq Nat /\ Len(q) + 1 \in T
  BY <1>0
<1>2. Min(T) \in T /\ \A y \in T : Min(T) <= y
  <2> HIDE DEF T
  <2> QED  BY <1>1, LeastNumber
<1>3. \A i \in 1..Min(T) - 1 : q[i].num < n
  BY <1>0, <1>2
<1>4. KeepFrom(q, n) = SubSeq(q, Min(T), Len(q))
  BY Zenon DEF KeepFrom
<1>5. Min(T) \in 1..Len(q) + 1 /\ (Min(T) <= Len(q) => q[Min(T)].num >= n)
  BY <1>0, <1>2
<1> HIDE DEF T
<1> QED  BY <1>3, <1>4, <1>5

\* What is kept is still an ordered queue of the same states.
LEMMA KeepFromKeepsOrder ==
  ASSUME NEW S, NEW q \in Queue(S), Ordered(q), NEW n \in Int
  PROVE  /\ KeepFrom(q, n) \in Queue(S) /\ Ordered(KeepFrom(q, n))
         /\ Nums(KeepFrom(q, n)) \subseteq Nums(q)
<1>1. PICK m \in 1..Len(q) + 1 : KeepFrom(q, n) = SubSeq(q, m, Len(q))
  BY KeepFromCuts
<1> DEFINE k == SubSeq(q, m, Len(q))
<1>2. /\ k \in Queue(S)
      /\ \A i \in DOMAIN k : m + i - 1 \in DOMAIN q /\ k[i] = q[m + i - 1]
      /\ DOMAIN k \subseteq Nat
  <2>1. /\ Len(q) \in Nat /\ DOMAIN q = 1..Len(q)
        /\ \A i \in 1..Len(q) : q[i] \in [num : Nat, state : S]
    BY QueueElements
  <2>2. /\ k \in Queue(S) /\ Len(k) = Len(q) - m + 1
        /\ \A i \in 1..Len(q) - m + 1 : k[i] = q[m + i - 1]
    BY <2>1, SubSeqProperties DEF Queue
  <2>3. DOMAIN k = 1..Len(q) - m + 1
    BY <2>2, LenProperties DEF Queue
  <2> QED  BY <2>1, <2>2, <2>3
<1>3. Ordered(k)
  <2> HIDE DEF k
  <2> QED  BY <1>2 DEF Ordered
<1>4. Nums(k) \subseteq Nums(q)
  <2> HIDE DEF k
  <2> QED  BY <1>2 DEF Nums
<1> QED  BY <1>1, <1>2, <1>3, <1>4

\* Keeping from a number that is there puts that number in front and leaves
\* the last state where it is.
LEMMA KeepFromKnown ==
  ASSUME NEW S, NEW q \in Queue(S), Ordered(q), NEW n \in Nat, n \in Nums(q)
  PROVE  /\ KeepFrom(q, n) # <<>> /\ KeepFrom(q, n)[1].num = n
         /\ Last(KeepFrom(q, n)) = Last(q)
<1>0. /\ Len(q) \in Nat /\ DOMAIN q = 1..Len(q)
      /\ \A i \in 1..Len(q) : q[i] \in [num : Nat, state : S] /\ q[i].num \in Nat
  BY QueueElements
<1>1. PICK m \in 1..Len(q) + 1 :
        /\ KeepFrom(q, n) = SubSeq(q, m, Len(q))
        /\ \A i \in 1..m - 1 : q[i].num < n
        /\ m <= Len(q) => q[m].num >= n
  <2>1. n \in Int
    OBVIOUS
  <2> QED  BY <2>1, KeepFromCuts
<1>2. PICK j \in 1..Len(q) : q[j].num = n
  BY <1>0 DEF Nums
<1>3. m <= j
  BY <1>0, <1>1, <1>2
<1>4. q[m].num = n
  <2>1. q[m].num <= q[j].num
    BY <1>0, <1>3 DEF Ordered
  <2> QED  BY <1>0, <1>1, <1>2, <1>3, <2>1
<1> DEFINE k == SubSeq(q, m, Len(q))
<1>5. /\ Len(k) = Len(q) - m + 1
      /\ \A i \in 1..Len(q) - m + 1 : k[i] = q[m + i - 1]
  BY <1>0, <1>1, SubSeqProperties
<1>6. k[1] = q[m] /\ k[Len(k)] = q[Len(q)] /\ k # <<>>
  <2> HIDE DEF k
  <2> QED  BY <1>0, <1>2, <1>3, <1>5, EmptySeq
<1> QED  BY <1>1, <1>4, <1>6 DEF Last

\* Appending a number that is not below the others keeps a queue in order; its
\* front stays (AddSentState, ProcessPayload).
LEMMA AppendToQueue ==
  ASSUME NEW S, NEW q \in Queue(S), Ordered(q), NEW new \in [num : Nat, state : S],
         \A i \in DOMAIN q : q[i].num <= new.num
  PROVE  /\ Append(q, new) \in Queue(S) /\ Append(q, new) # <<>> /\ Ordered(Append(q, new))
         /\ Last(Append(q, new)) = new /\ Nums(Append(q, new)) = Nums(q) \cup {new.num}
         /\ q # <<>> => Append(q, new)[1] = q[1]
<1>0. /\ Len(q) \in Nat /\ DOMAIN q = 1..Len(q)
      /\ \A i \in 1..Len(q) : q[i] \in [num : Nat, state : S] /\ q[i].num \in Nat
  BY QueueElements
<1> DEFINE k == Append(q, new)
<1>1. /\ k \in Queue(S) /\ Len(k) = Len(q) + 1 /\ DOMAIN k = 1..Len(q) + 1
      /\ \A i \in 1..Len(q) : k[i] = q[i]
      /\ k[Len(q) + 1] = new
  BY <1>0, AppendProperties, LenProperties DEF Queue
<1> HIDE DEF k
<1>2. k # <<>>
  BY <1>0, <1>1, EmptySeq
<1>3. Ordered(k)
  BY <1>0, <1>1 DEF Ordered
<1>4. Last(k) = new
  BY <1>0, <1>1 DEF Last
<1>5. Nums(k) = Nums(q) \cup {new.num}
  BY <1>0, <1>1 DEF Nums
<1>6. q # <<>> => k[1] = q[1]
  BY <1>0, <1>1, EmptySeq DEF Queue
<1> QED  BY <1>1, <1>2, <1>3, <1>4, <1>5, <1>6 DEF k

\* Giving up the oldest states when the queue is too long leaves an ordered
\* queue that ends in the new state; without that the front stays.
LEMMA AddSentStateKeepsOrder ==
  ASSUME NEW S, NEW q \in Queue(S), q # <<>>, Ordered(q), NEW n \in Nat, NEW x \in S,
         \A i \in DOMAIN q : q[i].num <= n
  PROVE  LET k == AddSentState(q, n, x)
         IN  /\ k \in Queue(S) /\ k # <<>> /\ Ordered(k)
             /\ Last(k).num = n /\ Nums(k) \subseteq Nums(q) \cup {n}
<1> DEFINE new == [num |-> n, state |-> x]
           longer == Append(q, new)
           cut == SubSeq(longer, QueueDrop + 1, Len(longer))
<1>1. /\ longer \in Queue(S) /\ longer # <<>> /\ Ordered(longer)
      /\ Last(longer) = new /\ Nums(longer) = Nums(q) \cup {n}
  <2>1. new \in [num : Nat, state : S] /\ new.num = n
    OBVIOUS
  <2> HIDE DEF new
  <2> QED  BY <2>1, AppendToQueue
<1>2. CASE Len(longer) > QueueLimit
  <2> HIDE DEF longer
  <2>1. /\ Len(longer) \in Nat /\ DOMAIN longer = 1..Len(longer)
        /\ \A i \in 1..Len(longer) : longer[i] \in [num : Nat, state : S]
    BY <1>1, QueueElements
  <2>2. QueueDrop \in Nat /\ QueueDrop < Len(longer)
    BY <1>2, <2>1, LimitsAssumption
  <2>3. /\ cut \in Queue(S) /\ Len(cut) = Len(longer) - QueueDrop
        /\ \A i \in 1..Len(longer) - QueueDrop : cut[i] = longer[QueueDrop + i]
    <3>1. /\ cut \in Queue(S) /\ Len(cut) = Len(longer) - (QueueDrop + 1) + 1
          /\ \A i \in 1..Len(longer) - (QueueDrop + 1) + 1 :
               cut[i] = longer[QueueDrop + 1 + i - 1]
      <4>1. /\ QueueDrop + 1 \in Int /\ Len(longer) \in Int /\ QueueDrop + 1 <= Len(longer)
            /\ \A i \in QueueDrop + 1..Len(longer) : longer[i] \in [num : Nat, state : S]
        BY <2>1, <2>2
      <4> QED  BY <4>1, SubSeqProperties DEF Queue
    <3> HIDE DEF cut
    <3> QED  BY <2>1, <2>2, <3>1
  <2> HIDE DEF cut
  <2>4. DOMAIN cut = 1..Len(longer) - QueueDrop
    BY <2>3, QueueElements
  <2>5. cut # <<>> /\ Last(cut) = Last(longer)
    BY <2>1, <2>2, <2>3, EmptySeq DEF Last
  <2>6. Ordered(cut)
    <3>1. \A i \in DOMAIN cut : QueueDrop + i \in DOMAIN longer /\ i \in Nat
      BY <2>1, <2>2, <2>4
    <3>2. \A i, j \in DOMAIN cut : i <= j => longer[QueueDrop + i].num <= longer[QueueDrop + j].num
      BY <1>1, <2>2, <3>1 DEF Ordered
    <3> QED  BY <2>3, <2>4, <3>2 DEF Ordered
  <2>7. Nums(cut) \subseteq Nums(longer)
    BY <2>1, <2>2, <2>3, <2>4 DEF Nums
  <2>8. AddSentState(q, n, x) = cut
    BY <1>2, Zenon DEF AddSentState, cut, longer
  <2> QED  BY <1>1, <2>3, <2>5, <2>6, <2>7, <2>8
<1>3. CASE ~(Len(longer) > QueueLimit)
  <2>1. AddSentState(q, n, x) = longer
    BY <1>3, Zenon DEF AddSentState
  <2> QED  BY <1>1, <2>1
<1> QED  BY <1>2, <1>3

\* A queue whose states have been replaced, the numbers left alone.
LEMMA SameNumbers ==
  ASSUME NEW S, NEW q \in Queue(S), Ordered(q), NEW k \in [DOMAIN q -> [num : Nat, state : S]],
         \A i \in DOMAIN q : k[i].num = q[i].num
  PROVE  /\ k \in Queue(S) /\ Ordered(k) /\ Len(k) = Len(q)
         /\ Nums(k) = Nums(q)
         /\ q # <<>> => k # <<>> /\ k[1].num = q[1].num /\ Last(k).num = Last(q).num
<1>1. /\ Len(q) \in Nat /\ DOMAIN q = 1..Len(q)
      /\ \A i \in 1..Len(q) : q[i] \in [num : Nat, state : S] /\ q[i].num \in Nat
  BY QueueElements
<1>2. k \in Queue(S) /\ Len(k) = Len(q) /\ DOMAIN k = DOMAIN q
  BY <1>1, FunctionIsSequence DEF Queue
<1>3. Ordered(k)
  BY <1>1, <1>2 DEF Ordered
<1>4. Nums(k) = Nums(q)
  BY <1>1, <1>2 DEF Nums
<1>5. q # <<>> => k # <<>> /\ k[1].num = q[1].num /\ Last(k).num = Last(q).num
  BY <1>1, <1>2, EmptySeq DEF Last, Queue
<1> QED  BY <1>2, <1>3, <1>4, <1>5

\* The insertion of a late state loses one state and leaves an ordered queue.
LEMMA InsertOutOfOrderKeepsOrder ==
  ASSUME NEW S, NEW q \in Queue(S), Ordered(q), NEW new \in [num : Nat, state : S],
         \E i \in DOMAIN q : q[i].num > new.num
  PROVE  LET k == InsertOutOfOrder(q, new)
         IN  /\ k \in Queue(S) /\ k # <<>> /\ Ordered(k)
             /\ Nums(k) \subseteq Nums(q) \cup {new.num}
<1>0. /\ Len(q) \in Nat /\ DOMAIN q = 1..Len(q)
      /\ \A i \in 1..Len(q) : q[i] \in [num : Nat, state : S] /\ q[i].num \in Nat
  BY QueueElements
<1>n. new.num \in Nat
  OBVIOUS
<1> DEFINE T == {i \in DOMAIN q : q[i].num > new.num}
           at == Min(T)
           before == SubSeq(q, 1, at - 1)
           after == SubSeq(q, at + 1, Len(q))
           k == before \o <<new, new>> \o after
<1>1. at \in DOMAIN q /\ q[at].num > new.num /\ \A i \in 1..at - 1 : q[i].num <= new.num
  <2>1. T \subseteq Nat /\ T # {}
    BY <1>0
  <2>2. at \in T /\ \A y \in T : at <= y
    <3> HIDE DEF T
    <3> QED  BY <2>1, LeastNumber
  <2> HIDE DEF at
  <2> QED  BY <1>0, <1>n, <2>2
<1>2. InsertOutOfOrder(q, new) = k
  BY Zenon DEF InsertOutOfOrder
<1> HIDE DEF T, at
<1>3. /\ before \in Queue(S) /\ Len(before) = at - 1
      /\ \A i \in 1..at - 1 : before[i] = q[i]
  <2>1. at \in Int /\ at >= 1 /\ at <= Len(q) /\ \A i \in 1..at - 1 : q[i] \in [num : Nat, state : S]
    BY <1>0, <1>1
  <2>2. /\ before \in Queue(S) /\ Len(before) = IF 1 <= at - 1 THEN at - 1 - 1 + 1 ELSE 0
        /\ \A i \in 1..at - 1 - 1 + 1 : before[i] = q[1 + i - 1]
    BY <2>1, SubSeqProperties DEF Queue
  <2> HIDE DEF before
  <2> QED  BY <2>1, <2>2
<1>4. /\ after \in Queue(S) /\ Len(after) = Len(q) - at
      /\ \A i \in 1..Len(q) - at : after[i] = q[at + i]
  <2>1. at \in Int /\ at >= 1 /\ at <= Len(q)
        /\ \A i \in at + 1..Len(q) : q[i] \in [num : Nat, state : S]
    BY <1>0, <1>1
  <2>2. /\ after \in Queue(S)
        /\ Len(after) = IF at + 1 <= Len(q) THEN Len(q) - (at + 1) + 1 ELSE 0
        /\ \A i \in 1..Len(q) - (at + 1) + 1 : after[i] = q[at + 1 + i - 1]
    <3>1. at + 1 \in Int /\ Len(q) \in Int
      BY <1>0, <2>1
    <3> QED  BY <2>1, <3>1, SubSeqProperties DEF Queue
  <2> HIDE DEF after
  <2>3. Len(after) = Len(q) - at
    BY <1>0, <2>1, <2>2
  <2>4. \A i \in 1..Len(q) - at : i \in 1..Len(q) - (at + 1) + 1 /\ at + 1 + i - 1 = at + i
    BY <1>0, <2>1
  <2> QED  BY <2>2, <2>3, <2>4
<1> HIDE DEF before, after
<1>5. /\ k \in Queue(S) /\ Len(k) = Len(q) + 1
      /\ \A i \in 1..Len(q) + 1 :
           k[i] = IF i < at THEN q[i] ELSE IF i <= at + 1 THEN new ELSE q[i - 1]
  <2> DEFINE two == <<new, new>>
  <2>1. two \in Queue(S) /\ Len(two) = 2 /\ two[1] = new /\ two[2] = new
    BY DEF Queue
  <2> HIDE DEF two
  <2>2. /\ before \o two \in Queue(S) /\ Len(before \o two) = at + 1
        /\ \A i \in 1..at + 1 : (before \o two)[i] = IF i < at THEN q[i] ELSE new
    <3>1. /\ before \o two \in Queue(S) /\ Len(before \o two) = at - 1 + 2
          /\ \A i \in 1..at - 1 + 2 :
               (before \o two)[i] = IF i <= at - 1 THEN before[i] ELSE two[i - (at - 1)]
      <4>1. /\ before \o two \in Queue(S) /\ Len(before \o two) = Len(before) + Len(two)
            /\ \A i \in 1..Len(before) + Len(two) :
                 (before \o two)[i] =
                   IF i <= Len(before) THEN before[i] ELSE two[i - Len(before)]
        BY <1>3, <2>1, ConcatProperties DEF Queue
      <4> QED  BY <1>3, <2>1, <4>1
    <3> DEFINE b2 == before \o two
    <3>2. /\ b2 \in Queue(S) /\ Len(b2) = at - 1 + 2
          /\ \A i \in 1..at - 1 + 2 :
               b2[i] = IF i <= at - 1 THEN before[i] ELSE two[i - (at - 1)]
      BY <3>1
    <3> HIDE DEF b2
    <3>3. at \in Nat
      BY <1>0, <1>1
    <3>4. \A i \in 1..at + 1 : i \in 1..at - 1 \/ i = at \/ i = at + 1
      BY <3>3
    <3>5. \A i \in 1..at + 1 : b2[i] = IF i < at THEN q[i] ELSE new
      BY <1>3, <2>1, <3>2, <3>3, <3>4
    <3>6. b2 \in Queue(S) /\ Len(b2) = at + 1
      BY <3>2, <3>3
    <3> QED  BY <3>5, <3>6 DEF b2
  <2> DEFINE b2 == before \o two
  <2>3. /\ k \in Queue(S) /\ Len(k) = at + 1 + (Len(q) - at)
        /\ \A i \in 1..at + 1 + (Len(q) - at) :
             k[i] = IF i <= at + 1 THEN b2[i] ELSE after[i - (at + 1)]
    <3>1. /\ b2 \o after \in Queue(S) /\ Len(b2 \o after) = Len(b2) + Len(after)
          /\ \A i \in 1..Len(b2) + Len(after) :
               (b2 \o after)[i] = IF i <= Len(b2) THEN b2[i] ELSE after[i - Len(b2)]
      <4>1. b2 \in Queue(S)
        BY <2>2
      <4> HIDE DEF b2
      <4> QED  BY <1>4, <4>1, ConcatProperties DEF Queue
    <3>2. k = b2 \o after
      BY DEF two
    <3>3. Len(b2) = at + 1
      BY <2>2
    <3> HIDE DEF b2, k
    <3> QED  BY <1>4, <3>1, <3>2, <3>3
  <2>4. \A i \in 1..at + 1 : b2[i] = IF i < at THEN q[i] ELSE new
    BY <2>2
  <2> HIDE DEF b2, k
  <2>5. Len(k) = Len(q) + 1
    BY <1>0, <1>1, <2>3
  <2>6. ASSUME NEW i \in 1..Len(q) + 1
        PROVE  k[i] = IF i < at THEN q[i] ELSE IF i <= at + 1 THEN new ELSE q[i - 1]
    <3>1. at \in Nat /\ at + 1 + (Len(q) - at) = Len(q) + 1
      BY <1>0, <1>1
    <3>2. CASE i <= at + 1
      BY <1>0, <2>3, <2>4, <3>1, <3>2
    <3>3. CASE i > at + 1
      <4>1. i - (at + 1) \in 1..Len(q) - at /\ at + (i - (at + 1)) = i - 1
        BY <1>0, <3>1, <3>3
      <4>2. k[i] = after[i - (at + 1)]
        BY <1>0, <2>3, <3>1, <3>3
      <4> QED  BY <1>4, <3>1, <3>3, <4>1, <4>2
    <3> QED  BY <1>0, <3>1, <3>2, <3>3
  <2> QED  BY <2>3, <2>5, <2>6
<1> HIDE DEF k
<1>6. DOMAIN k = 1..Len(q) + 1 /\ k # <<>>
  BY <1>0, <1>5, QueueElements, EmptySeq
<1>7. Ordered(k)
  <2> SUFFICES ASSUME NEW i \in 1..Len(q) + 1, NEW j \in 1..Len(q) + 1, i <= j
               PROVE  k[i].num <= k[j].num
    BY <1>6 DEF Ordered
  <2>1. \A a, b \in 1..Len(q) : a <= b => q[a].num <= q[b].num
    BY <1>0 DEF Ordered
  <2>2. \A a \in 1..Len(q) : a >= at => q[a].num > new.num
    BY <1>0, <1>1, <1>n, <2>1
  <2>3. k[i].num \in Nat /\ k[j].num \in Nat
    BY <1>0, <1>1, <1>5, <1>n
  <2>4. \A a \in 1..Len(q) : a < at => q[a].num <= new.num
    BY <1>0, <1>1
  <2>5. at \in Nat /\ at <= Len(q)
    BY <1>0, <1>1
  <2>6. CASE j < at
    BY <1>0, <1>5, <2>1, <2>5, <2>6
  <2>7. CASE at <= j /\ j <= at + 1
    BY <1>0, <1>5, <1>n, <2>4, <2>5, <2>7
  <2>8. CASE j > at + 1
    <3>1. k[j] = q[j - 1] /\ j - 1 \in 1..Len(q) /\ j - 1 > at
      BY <1>0, <1>5, <2>5, <2>8
    <3>2. CASE i < at
      BY <1>0, <1>5, <1>n, <2>1, <2>5, <3>1, <3>2
    <3>3. CASE at <= i /\ i <= at + 1
      BY <1>0, <1>5, <1>n, <2>2, <2>5, <3>1, <3>3
    <3>4. CASE i > at + 1
      <4>1. k[i] = q[i - 1] /\ i - 1 \in 1..Len(q) /\ i - 1 <= j - 1
        BY <1>0, <1>5, <2>5, <2>8, <3>4
      <4> QED  BY <2>1, <3>1, <4>1
    <3> QED  BY <1>0, <2>5, <3>2, <3>3, <3>4
  <2> QED  BY <1>0, <2>5, <2>6, <2>7, <2>8
<1>8. Nums(k) \subseteq Nums(q) \cup {new.num}
  <2> SUFFICES ASSUME NEW i \in 1..Len(q) + 1 PROVE k[i].num \in Nums(q) \cup {new.num}
    BY <1>6 DEF Nums
  <2>1. at \in Nat /\ at <= Len(q)
    BY <1>0, <1>1
  <2>2. k[i] = new \/ \E a \in 1..Len(q) : k[i] = q[a]
    BY <1>0, <1>5, <2>1
  <2> QED  BY <1>0, <2>2 DEF Nums
<1> QED  BY <1>2, <1>5, <1>6, <1>7, <1>8

-----------------------------------------------------------------------------
(* What a tick does, whichever state it assumes and whatever it sends.     *)

\* What the sent states of e may be at any moment.
GoodQueue(e, q) ==
  /\ q \in Queue(State(e)) /\ q # <<>> /\ Ordered(q)
  /\ \A n \in Nums(q) : n <= MaxUint64

\* No sent state has a number above the one that asks for shutdown.
NumbersBounded == \A e \in Endpoint : \A n \in Nums(sentStates[e]) : n <= MaxUint64

\* The queue of sent states becomes q; at most one instruction goes out.
Sends(e, q) ==
  /\ sentStates' = [sentStates EXCEPT ![e] = q]
  /\ \/ network' = network
     \/ \E inst \in Instruction(e) :
          /\ inst.oldNum \in Nums(sentStates[e]) /\ inst.newNum = Last(q).num
          /\ inst.ackNum = ackNum[e] /\ inst.throwawayNum = q[1].num
          /\ network' = [network EXCEPT ![Peer(e)] = Append(@, inst)]
  /\ lastAckSent' = lastAckSent \/ lastAckSent' = [lastAckSent EXCEPT ![e] = ackNum[e]]
  /\ pendingDataAck' \in [Endpoint -> BOOLEAN] /\ shutdownInProgress' \in [Endpoint -> BOOLEAN]
  /\ shutdownTries' \in [Endpoint -> Nat] /\ overflowed' \in [Endpoint -> BOOLEAN]
  /\ \A x \in Endpoint : ~overflowed'[x] =>
       ~overflowed[x] /\ (x = e => q[1].num = sentStates[e][1].num)

\* sendInFragments sends what its caller has put in the queue.
LEMMA SendInFragmentsSends ==
  ASSUME TypeOK, NEW e \in Endpoint, NEW q, GoodQueue(e, q),
         NEW old \in Nums(sentStates[e]), old \in Nat,
         NEW new \in Nat, new = Last(q).num, NEW d \in Diff(e),
         NEW written \in BOOLEAN, SendInFragments(e, q, old, new, d, written)
  PROVE  Sends(e, q)
<1> DEFINE inst == InstructionOf(e, q, old, new, d)
<1>1. q[1].num \in Nat
  BY QueueElements, EmptySeq DEF GoodQueue, Queue
<1>2. /\ inst \in Instruction(e) /\ inst.oldNum = old /\ inst.newNum = new
      /\ inst.ackNum = ackNum[e] /\ inst.throwawayNum = q[1].num
  BY <1>1 DEF InstructionOf, Instruction, TypeOK, SenderTypeOK
<1>3. \/ network' = network
      \/ network' = [network EXCEPT ![Peer(e)] = Append(@, inst)]
  BY DEF SendInFragments
<1>4. /\ sentStates' = [sentStates EXCEPT ![e] = q]
      /\ lastAckSent' = [lastAckSent EXCEPT ![e] = ackNum[e]]
  BY DEF SendInFragments
<1>5. pendingDataAck' \in [Endpoint -> BOOLEAN] /\ shutdownInProgress' \in [Endpoint -> BOOLEAN]
  BY DEF SendInFragments, TypeOK, SenderTypeOK
<1>6. shutdownTries' \in [Endpoint -> Nat]
  BY DEF SendInFragments, TypeOK, SenderTypeOK
<1>7. /\ overflowed' \in [Endpoint -> BOOLEAN]
      /\ \A x \in Endpoint : ~overflowed'[x] =>
           ~overflowed[x] /\ (x = e => q[1].num = sentStates[e][1].num)
  BY DEF SendInFragments, TypeOK, SystemTypeOK
<1> HIDE DEF inst
<1> QED  BY <1>2, <1>3, <1>4, <1>5, <1>6, <1>7 DEF Sends

\* rationalizeStates changes the states of a queue and none of its numbers.
LEMMA RationalizedSentIsGood ==
  ASSUME StatesClosed, TypeOK, QueuesOrdered, NumbersBounded, NEW e \in Endpoint
  PROVE  /\ GoodQueue(e, RationalizedSent(e)) /\ RationalizedCurrent(e) \in State(e)
         /\ Len(RationalizedSent(e)) = Len(sentStates[e])
         /\ RationalizedSent(e)[1].num = sentStates[e][1].num
         /\ Last(RationalizedSent(e)).num = Last(sentStates[e]).num
         /\ \A i \in DOMAIN sentStates[e] : RationalizedSent(e)[i].num = sentStates[e][i].num
<1> DEFINE q == sentStates[e]
           k == RationalizedSent(e)
<1>1. q \in Queue(State(e)) /\ q # <<>> /\ Ordered(q)
  BY DEF TypeOK, SenderTypeOK, TimestampedState, Queue, QueuesOrdered
<1>2. /\ Len(q) \in Nat /\ DOMAIN q = 1..Len(q) /\ Len(q) >= 1
      /\ \A i \in 1..Len(q) : q[i] \in [num : Nat, state : State(e)]
  BY <1>1, QueueElements, EmptySeq DEF Queue
<1>3. Known(e) \in State(e)
  BY <1>2 DEF Known
<1>4. RationalizedCurrent(e) \in State(e)
  BY <1>3 DEF RationalizedCurrent, StatesClosed, TypeOK, SenderTypeOK
<1>5. \A i \in DOMAIN q : StateSubtract(e, q[i].state, Known(e)) \in State(e)
  BY <1>2, <1>3 DEF StatesClosed
<1>6. /\ k \in [DOMAIN q -> [num : Nat, state : State(e)]]
      /\ \A i \in DOMAIN q : k[i].num = q[i].num
  BY <1>2, <1>5 DEF RationalizedSent
<1> HIDE DEF k
<1>7. /\ k \in Queue(State(e)) /\ Ordered(k) /\ Len(k) = Len(q) /\ Nums(k) = Nums(q)
      /\ k # <<>> /\ k[1].num = q[1].num /\ Last(k).num = Last(q).num
  BY <1>1, <1>6, SameNumbers
<1>8. GoodQueue(e, k)
  BY <1>7 DEF GoodQueue, NumbersBounded
<1> QED  BY <1>4, <1>6, <1>7, <1>8 DEF k

\* The number of the state to send is not below those sent before.
LEMMA NumberForGrows ==
  ASSUME TypeOK, NEW e \in Endpoint, NEW n \in Nat, n <= MaxUint64
  PROVE  NumberFor(e, n) \in Nat /\ n <= NumberFor(e, n)
  BY NumbersAssumption DEF NumberFor

\* addSentState leaves a queue that ends with the number added.
LEMMA AddSentStateIsGood ==
  ASSUME NEW e \in Endpoint, NEW q, GoodQueue(e, q), NEW x \in State(e),
         NEW n \in Nat, Last(q).num <= n, n <= MaxUint64
  PROVE  GoodQueue(e, AddSentState(q, n, x)) /\ Last(AddSentState(q, n, x)).num = n
<1>1. /\ Len(q) \in Nat /\ Len(q) >= 1 /\ DOMAIN q = 1..Len(q)
      /\ \A i \in 1..Len(q) : q[i].num \in Nat
  BY QueueElements, EmptySeq DEF GoodQueue, Queue
<1>2. \A i \in DOMAIN q : q[i].num <= n
  BY <1>1 DEF GoodQueue, Ordered, Last
<1> DEFINE k == AddSentState(q, n, x)
<1>3. /\ k \in Queue(State(e)) /\ k # <<>> /\ Ordered(k)
      /\ Last(k).num = n /\ Nums(k) \subseteq Nums(q) \cup {n}
  BY <1>2, AddSentStateKeepsOrder DEF GoodQueue
<1> HIDE DEF k
<1> QED  BY <1>3 DEF GoodQueue, k

\* All that the invariant depends on of a tick.
TickOutcome(e) ==
  /\ \E q : GoodQueue(e, q) /\ Last(sentStates[e]).num <= Last(q).num /\ Sends(e, q)
  /\ \E x \in State(e) : currentState' = [currentState EXCEPT ![e] = x]
  /\ UNCHANGED <<ackNum, receiverVars, hasRemoteAddr, ended, fed, obtained, accepted>>

\* Whatever branch tick takes, its outcome is that of TickOutcome.
LEMMA TickSends ==
  ASSUME StatesClosed, TypeOK, QueuesOrdered, NumbersBounded, NEW e \in Endpoint,
         NEW k \in DOMAIN sentStates[e], Tick(e, k)
  PROVE  TickOutcome(e)
<1> DEFINE current == RationalizedCurrent(e)
           sent == RationalizedSent(e)
           diff == StateDiffFrom(e, current, sent[k].state)
           reset == StateReset(e, current)
           back == Last(sent)
<1>1. PICK written \in SendOutcome :
        \/ SendToReceiver(e, reset, sent, sent[k], diff, written)
        \/ diff = NoDiff /\ SendEmptyAck(e, reset, sent, sent[k], written)
        \/ NothingToSend(e, current, sent, sent[k])
  BY DEF Tick
<1>2. /\ currentState' = [currentState EXCEPT ![e] = reset]
      /\ UNCHANGED <<ackNum, receiverVars, hasRemoteAddr, ended, fed, obtained, accepted>>
  BY DEF Tick
<1>3. /\ GoodQueue(e, sent) /\ current \in State(e)
      /\ Len(sent) = Len(sentStates[e]) /\ sent[1].num = sentStates[e][1].num
      /\ back.num = Last(sentStates[e]).num
  BY RationalizedSentIsGood
<1>4. /\ Len(sent) \in Nat /\ DOMAIN sent = 1..Len(sent) /\ Len(sent) >= 1
      /\ \A i \in 1..Len(sent) : sent[i].num \in Nat /\ sent[i].state \in State(e)
  BY <1>3, QueueElements, EmptySeq DEF GoodQueue, Queue
<1>5. /\ sent[k].num \in Nat /\ sent[k].state \in State(e)
      /\ sent[k].num \in Nums(sentStates[e])
  <2>1. k \in 1..Len(sentStates[e])
    BY DEF TypeOK, SenderTypeOK
  <2>2. sent[k].num = sentStates[e][k].num
    BY RationalizedSentIsGood
  <2>3. sent[k].num \in Nums(sentStates[e])
    BY <2>2 DEF Nums
  <2> HIDE DEF sent
  <2> QED  BY <1>3, <1>4, <2>1, <2>3
<1>6. reset \in State(e) /\ StateClone(e, reset) \in State(e) /\ diff \in Diff(e) /\ NoDiff \in Diff(e)
  <2>1. current \in State(e) /\ sent[k].state \in State(e)
    BY <1>3, <1>5
  <2> HIDE DEF current, sent
  <2>2. reset \in State(e)
    BY <2>1 DEF StatesClosed
  <2>3. diff \in Diff(e) /\ NoDiff \in Diff(e)
    BY <2>1 DEF StatesClosed
  <2> HIDE DEF reset
  <2> QED  BY <2>2, <2>3 DEF StatesClosed
<1>7. back.num \in Nat /\ back.num <= MaxUint64 /\ written \in BOOLEAN
  BY <1>3, <1>4, SwitchesAssumption DEF GoodQueue, Nums, Last
<1>8. MaxNum[e] < MaxUint64 /\ MaxUint64 \in Nat /\ MaxNum[e] \in Nat
  BY NumbersAssumption
<1> HIDE DEF current, sent, diff, reset, back
<1>9. ASSUME NEW q, GoodQueue(e, q), back.num <= Last(q).num, Sends(e, q)
      PROVE  TickOutcome(e)
  BY <1>2, <1>3, <1>6, <1>9 DEF TickOutcome
<1>10. CASE SendToReceiver(e, reset, sent, sent[k], diff, written)
  <2> DEFINE n == IF StateEqual(e, reset, back.state) THEN back.num ELSE back.num + 1
             new == NumberFor(e, n)
             q == IF new = back.num THEN sent ELSE AddSentState(sent, new, StateClone(e, reset))
  <2>1. SendInFragments(e, q, sent[k].num, new, diff, written)
    BY <1>10, Zenon DEF SendToReceiver, back
  <2>2. new \in Nat /\ back.num <= new /\ new <= MaxUint64
    <3>1. new <= MaxNum[e] \/ new = MaxUint64
      BY <2>1, Zenon DEF SendInFragments
    <3>2. n \in Nat /\ back.num <= n
      BY <1>7
    <3> HIDE DEF n
    <3>3. new \in Nat /\ (new = n \/ new = MaxUint64)
      BY <1>8, <3>2 DEF NumberFor
    <3> HIDE DEF new
    <3> QED  BY <1>7, <1>8, <3>1, <3>2, <3>3
  <2> HIDE DEF n, new
  <2>3. GoodQueue(e, q) /\ Last(q).num = new
    <3>1. CASE new = back.num
      BY <1>3, <3>1 DEF back
    <3>2. CASE new # back.num
      BY <1>3, <1>6, <2>2, <3>2, AddSentStateIsGood DEF back
    <3> QED  BY <3>1, <3>2
  <2> HIDE DEF q
  <2>4. Sends(e, q)
    BY <1>5, <1>6, <1>7, <2>1, <2>2, <2>3, SendInFragmentsSends
  <2> QED  BY <1>9, <2>2, <2>3, <2>4
<1>11. CASE SendEmptyAck(e, reset, sent, sent[k], written)
  <2> DEFINE new == NumberFor(e, back.num + 1)
             q == AddSentState(sent, new, StateClone(e, reset))
  <2>1. SendInFragments(e, q, sent[k].num, new, NoDiff, written)
    BY <1>11, Zenon DEF SendEmptyAck, back
  <2>2. new \in Nat /\ back.num <= new /\ new <= MaxUint64
    <3>1. new <= MaxNum[e] \/ new = MaxUint64
      BY <2>1, Zenon DEF SendInFragments
    <3>2. new \in Nat /\ (new = back.num + 1 \/ new = MaxUint64)
      BY <1>7, <1>8 DEF NumberFor
    <3> HIDE DEF new
    <3> QED  BY <1>7, <1>8, <3>1, <3>2
  <2> HIDE DEF new
  <2>3. GoodQueue(e, q) /\ Last(q).num = new
    BY <1>3, <1>6, <2>2, AddSentStateIsGood DEF back
  <2> HIDE DEF q
  <2>4. Sends(e, q)
    BY <1>5, <1>6, <1>7, <2>1, <2>2, <2>3, SendInFragmentsSends
  <2> QED  BY <1>9, <2>2, <2>3, <2>4
<1>12. CASE NothingToSend(e, current, sent, sent[k])
  <2>1. Sends(e, sent)
    BY <1>3, <1>12 DEF NothingToSend, Sends, TypeOK, SenderTypeOK, SystemTypeOK
  <2> QED  BY <1>3, <1>7, <1>9, <2>1 DEF back
<1> QED  BY <1>1, <1>10, <1>11, <1>12

-----------------------------------------------------------------------------
(* What the arrival of an instruction does.                                *)

\* What the received states of e may be at any moment.
GoodReceived(e, r) == r \in Queue(State(Peer(e))) /\ r # <<>> /\ Ordered(r)

\* Of two families over Endpoint: they differ at e at most.
OnlyAt(e, new, old) == DOMAIN new = Endpoint /\ \A x \in Endpoint \ {e} : new[x] = old[x]

\* The received states become r, up to what picking them up takes out of them.
PickedUp(e, r) ==
  /\ GoodReceived(e, receivedState'[e]) /\ Nums(receivedState'[e]) = Nums(r)
  /\ Len(receivedState'[e]) = Len(r) /\ \A i \in DOMAIN r : receivedState'[e][i].num = r[i].num
  /\ OnlyAt(e, receivedState', receivedState)
  /\ lastReceiverState'[e] \in State(Peer(e)) /\ OnlyAt(e, lastReceiverState', lastReceiverState)

\* The main loops change received states and none of their numbers: GetRemoteDiff
\* and Reset.
LEMMA PickUpKeepsNumbers ==
  ASSUME StatesClosed, TypeOK, NEW e \in Endpoint, NEW r, GoodReceived(e, r), PickUp(e, r)
  PROVE  PickedUp(e, r)
<1> DEFINE S == State(Peer(e))
<1>1. /\ Len(r) \in Nat /\ Len(r) >= 1 /\ DOMAIN r = 1..Len(r)
      /\ \A i \in 1..Len(r) : r[i] \in [num : Nat, state : S] /\ r[i].state \in S
  BY QueueElements, EmptySeq DEF GoodReceived, Queue
<1>2. ASSUME NEW k \in [DOMAIN r -> [num : Nat, state : S]], \A i \in DOMAIN r : k[i].num = r[i].num
      PROVE  GoodReceived(e, k) /\ Nums(k) = Nums(r) /\ Len(k) = Len(r)
  BY <1>2, SameNumbers DEF GoodReceived
<1>3. /\ DOMAIN lastReceiverState = Endpoint /\ lastReceiverState[e] \in S
      /\ DOMAIN receivedState = Endpoint
  BY DEF TypeOK, ReceiverTypeOK
<1>4. ASSUME NEW k, GoodReceived(e, k), Nums(k) = Nums(r), Len(k) = Len(r),
             \A i \in DOMAIN r : k[i].num = r[i].num,
             receivedState' = [receivedState EXCEPT ![e] = k],
             \/ lastReceiverState' = lastReceiverState
             \/ \E x \in S : lastReceiverState' = [lastReceiverState EXCEPT ![e] = x]
      PROVE  PickedUp(e, r)
  BY <1>3, <1>4 DEF PickedUp, OnlyAt
<1>5. CASE e = "client"
  <2> DEFINE k == [r EXCEPT ![Len(r)].state = StateReset("server", @)]
  <2>1. receivedState' = [receivedState EXCEPT ![e] = k] /\ lastReceiverState' = lastReceiverState
    BY <1>5 DEF PickUp, PickUpAtClient
  <2>2. Peer(e) = "server" /\ "server" \in Endpoint
    BY <1>5 DEF Peer, Endpoint
  <2>3. StateReset("server", r[Len(r)].state) \in S
    BY <1>1, <2>2 DEF StatesClosed
  <2>4. /\ k \in [DOMAIN r -> [num : Nat, state : S]]
        /\ \A i \in DOMAIN r : k[i].num = r[i].num
    BY <1>1, <2>3
  <2> HIDE DEF k
  <2>5. GoodReceived(e, k) /\ Nums(k) = Nums(r) /\ Len(k) = Len(r)
    BY <1>2, <2>4
  <2> QED  BY <1>4, <2>1, <2>4, <2>5
<1>6. CASE e = "server"
  <2> DEFINE k == RationalizedReceived("server", r)
  <2>1. \/ receivedState' = [receivedState EXCEPT ![e] = r] /\ lastReceiverState' = lastReceiverState
        \/ /\ receivedState' = [receivedState EXCEPT ![e] = k]
           /\ lastReceiverState' = [lastReceiverState EXCEPT ![e] = Last(k).state]
    BY <1>6 DEF PickUp, PickUpAtServer
  <2>2. /\ k \in [DOMAIN r -> [num : Nat, state : S]]
        /\ \A i \in DOMAIN r : k[i].num = r[i].num
    <3>1. Peer("server") = Peer(e) /\ Peer(e) \in Endpoint
      BY <1>6, PeerType
    <3>2. \A x \in S : StateSubtract(Peer("server"), x, r[1].state) \in S
      <4>1. r[1].state \in S
        BY <1>1
      <4> QED  BY <3>1, <4>1 DEF StatesClosed
    <3>3. \A i \in DOMAIN r :
            StateSubtract(Peer("server"), StateSubtract(Peer("server"), r[i].state, r[1].state), r[1].state) \in S
      BY <1>1, <3>2
    <3> QED  BY <1>1, <3>2, <3>3 DEF RationalizedReceived
  <2> HIDE DEF k
  <2>3. GoodReceived(e, k) /\ Nums(k) = Nums(r) /\ Len(k) = Len(r)
    BY <1>2, <2>2
  <2>4. Last(k).state \in S
    BY <1>1, <2>2, <2>3 DEF Last
  <2> QED  BY <1>4, <2>1, <2>2, <2>3, <2>4
<1> QED  BY <1>5, <1>6 DEF Endpoint

\* All that the invariant depends on of the arrival of inst.
ReceiveOutcome(e, inst) ==
  /\ sentStates' = [sentStates EXCEPT ![e] = ProcessAcknowledgmentThrough(@, inst.ackNum)]
  /\ GoodReceived(e, receivedState'[e]) /\ Nums(receivedState'[e]) \subseteq accepted'[e]
  /\ OnlyAt(e, receivedState', receivedState)
  /\ lastReceiverState'[e] \in State(Peer(e)) /\ OnlyAt(e, lastReceiverState', lastReceiverState)
  /\ \/ accepted' = accepted /\ ackNum' = ackNum
     \/ /\ accepted' = [accepted EXCEPT ![e] = @ \cup {inst.newNum}]
        /\ ackNum' = ackNum \/ ackNum' = [ackNum EXCEPT ![e] = inst.newNum]
  /\ pendingDataAck' \in [Endpoint -> BOOLEAN] /\ quenching' \in [Endpoint -> BOOLEAN]

\* The state an instruction makes is a state, whatever is in the slot of its
\* reference state by then.
LEMMA ReceivedHasType ==
  ASSUME StatesClosed, NEW e \in Endpoint, NEW inst \in Instruction(Peer(e)),
         receivedState[e] \in Queue(State(Peer(e))), inst.oldNum \in Nums(receivedState[e]),
         NEW kept \in Queue(State(Peer(e)))
  PROVE  /\ Received(e, inst, kept) \in [num : Nat, state : State(Peer(e))]
         /\ Received(e, inst, kept).num = inst.newNum
<1> DEFINE q == receivedState[e]
           S == State(Peer(e))
           slot == Position(q, inst.oldNum)
           base == ReferenceState(q, kept, inst.oldNum)
<1>1. inst.newNum \in Nat /\ inst.diff \in Diff(Peer(e))
  BY DEF Instruction
<1>2. slot \in DOMAIN q
  BY DEF Nums, Position
<1>3. base \in S
  <2>1. /\ slot \in Nat /\ slot >= 1 /\ q[slot].state \in S
        /\ Len(kept) \in Nat /\ \A i \in 1..Len(kept) : kept[i].state \in S
    BY <1>2, QueueElements
  <2> HIDE DEF slot
  <2> QED  BY <2>1 DEF ReferenceState, slot
<1> HIDE DEF base
<1>4. StateClone(Peer(e), base) \in S
  BY <1>3, PeerType DEF StatesClosed
<1>5. StateApplyString(Peer(e), StateClone(Peer(e), base), inst.diff) \in S
  BY <1>1, <1>4, PeerType DEF StatesClosed
<1> QED  BY <1>1, <1>4, <1>5 DEF Received, base

\* Whatever branch ProcessPayload takes, its outcome is that of ReceiveOutcome.
LEMMA ProcessPayloadReceives ==
  ASSUME StatesClosed, TypeOK, QueuesOrdered, NumbersWereSent, NEW e \in Endpoint,
         NEW inst \in Instruction(Peer(e)), ProcessPayload(e, inst)
  PROVE  ReceiveOutcome(e, inst)
<1> DEFINE q == receivedState[e]
           S == State(Peer(e))
           kept == ProcessThrowawayUntil(q, inst.throwawayNum)
<1>1. /\ GoodReceived(e, q) /\ Nums(q) \subseteq accepted[e]
      /\ DOMAIN receivedState = Endpoint
  <2>1. GoodReceived(e, q) /\ DOMAIN receivedState = Endpoint
    BY DEF TypeOK, ReceiverTypeOK, TimestampedState, QueuesOrdered, GoodReceived, Queue
  <2>2. Nums(q) \subseteq accepted[e]
    BY PeerType DEF NumbersWereSent
  <2> QED  BY <2>1, <2>2
<1>2. /\ inst.oldNum \in Nat /\ inst.newNum \in Nat /\ inst.throwawayNum \in Nat
      /\ inst.diff \in Diff(Peer(e))
  BY DEF Instruction
<1>3. kept \in Queue(S) /\ Ordered(kept) /\ Nums(kept) \subseteq Nums(q)
  BY <1>1, <1>2, KeepFromKeepsOrder DEF ProcessThrowawayUntil, GoodReceived
<1>4. sentStates' = [sentStates EXCEPT ![e] = ProcessAcknowledgmentThrough(@, inst.ackNum)]
  BY DEF ProcessPayload
<1>5. \/ Ignored(e, inst)
      \/ inst.oldNum \in Nums(q) /\ (Quenched(e, kept) \/ AcceptState(e, inst, kept))
  BY DEF ProcessPayload
<1> HIDE DEF kept
<1>6. DOMAIN lastReceiverState = Endpoint /\ lastReceiverState[e] \in S
  BY DEF TypeOK, ReceiverTypeOK
<1>7. pendingDataAck \in [Endpoint -> BOOLEAN] /\ quenching \in [Endpoint -> BOOLEAN]
  BY DEF TypeOK, SenderTypeOK, ReceiverTypeOK
<1>8. CASE Ignored(e, inst)
  <2>1. receivedState' = receivedState /\ UNCHANGED <<ackNum, pendingDataAck, lastReceiverState, quenching, accepted>>
    BY <1>8 DEF Ignored, receiverVars
  <2> QED  BY <1>1, <1>4, <1>6, <1>7, <2>1 DEF ReceiveOutcome, OnlyAt
<1>9. CASE Quenched(e, kept)
  <2>1. GoodReceived(e, kept)
    <3>1. Len(kept) > 0
      BY <1>3, <1>9, QueueElements, LimitsAssumption DEF Quenched
    <3> QED  BY <1>3, <3>1, EmptySeq DEF GoodReceived
  <2>2. /\ receivedState' = [receivedState EXCEPT ![e] = kept]
        /\ UNCHANGED <<ackNum, pendingDataAck, lastReceiverState, quenching, accepted>>
    BY <1>9 DEF Quenched
  <2> QED  BY <1>1, <1>3, <1>4, <1>6, <1>7, <2>1, <2>2 DEF ReceiveOutcome, OnlyAt
<1>10. CASE inst.oldNum \in Nums(q) /\ AcceptState(e, inst, kept)
  <2> DEFINE new == Received(e, inst, kept)
  <2>1. new \in [num : Nat, state : S] /\ new.num = inst.newNum
    BY <1>1, <1>3, <1>10, ReceivedHasType DEF GoodReceived
  <2>2. /\ \/ /\ \E i \in DOMAIN kept : kept[i].num > inst.newNum
              /\ PickUp(e, InsertOutOfOrder(kept, new))
              /\ UNCHANGED <<ackNum, pendingDataAck>>
           \/ /\ ~\E i \in DOMAIN kept : kept[i].num > inst.newNum
              /\ PickUp(e, Append(kept, new))
              /\ ackNum' = [ackNum EXCEPT ![e] = inst.newNum]
              /\ pendingDataAck' = [pendingDataAck EXCEPT ![e] = @ \/ inst.diff # NoDiff]
        /\ accepted' = [accepted EXCEPT ![e] = @ \cup {inst.newNum}]
        /\ quenching' = [quenching EXCEPT ![e] = @ \/ Len(kept) > ReceivedLimit]
    BY <1>10 DEF AcceptState
  <2> HIDE DEF new
  <2>3. /\ accepted'[e] = accepted[e] \cup {inst.newNum}
        /\ quenching' \in [Endpoint -> BOOLEAN]
    BY <1>7, <2>2 DEF TypeOK, SystemTypeOK
  <2>4. pendingDataAck' \in [Endpoint -> BOOLEAN]
    BY <1>7, <2>2
  <2>5. PICK r : GoodReceived(e, r) /\ PickUp(e, r) /\ Nums(r) \subseteq Nums(kept) \cup {inst.newNum}
    <3>1. CASE \E i \in DOMAIN kept : kept[i].num > inst.newNum
      <4> DEFINE r == InsertOutOfOrder(kept, new)
      <4>1. GoodReceived(e, r) /\ Nums(r) \subseteq Nums(kept) \cup {inst.newNum}
        BY <1>3, <2>1, <3>1, InsertOutOfOrderKeepsOrder DEF GoodReceived
      <4>2. PickUp(e, r)
        BY <2>2, <3>1, Zenon
      <4> QED  BY <4>1, <4>2
    <3>2. CASE ~\E i \in DOMAIN kept : kept[i].num > inst.newNum
      <4> DEFINE r == Append(kept, new)
      <4>0. \A i \in DOMAIN kept : kept[i].num <= new.num
        BY <1>2, <1>3, <2>1, <3>2, QueueElements
      <4>1. GoodReceived(e, r) /\ Nums(r) \subseteq Nums(kept) \cup {inst.newNum}
        BY <1>3, <2>1, <4>0, AppendToQueue DEF GoodReceived
      <4>2. PickUp(e, r)
        BY <2>2, <3>2, Zenon
      <4> QED  BY <4>1, <4>2
    <3> QED  BY <3>1, <3>2
  <2>6. PickedUp(e, r)
    BY <2>5, PickUpKeepsNumbers
  <2> QED  BY <1>1, <1>3, <1>4, <2>2, <2>3, <2>4, <2>5, <2>6 DEF ReceiveOutcome, PickedUp
<1> QED  BY <1>5, <1>8, <1>9, <1>10

-----------------------------------------------------------------------------
(* The inductive invariant.  A clean shutdown rests on FrontWasAccepted    *)
(* and AcksNameAcceptedStates; FrontWasAccepted rests on the acks under    *)
(* way and, for the front that an ack leaves behind, on the order of the   *)
(* queue; the order of the queue when a shutdown state is added rests on   *)
(* NumbersBounded.                                                         *)

IInv ==
  /\ TypeOK /\ QueuesOrdered /\ NumbersBounded
  /\ NumbersWereSent /\ AcksNameAcceptedStates /\ FrontWasAccepted
  /\ ShutdownWasAccepted

\* The invariant holds when both ends have been created.
LEMMA InitIInv == StatesClosed /\ Init => IInv
<1> SUFFICES ASSUME StatesClosed, Init PROVE IInv
  OBVIOUS
<1>1. ASSUME NEW S, NEW x \in S
      PROVE  LET q == <<[num |-> 0, state |-> x]>>
             IN  /\ q \in Queue(S) /\ q # <<>> /\ Nums(q) = {0} /\ Ordered(q)
                 /\ q[1].num = 0 /\ Last(q).num = 0
  <2> DEFINE q == <<[num |-> 0, state |-> x]>>
  <2>1. q \in Queue(S) /\ q # <<>> /\ Len(q) = 1 /\ q[1].num = 0 /\ DOMAIN q = 1..1
    BY DEF Queue
  <2> HIDE DEF q
  <2>2. Nums(q) = {0} /\ Ordered(q) /\ Last(q).num = 0
    BY <2>1 DEF Nums, Ordered, Last
  <2> QED  BY <2>1, <2>2 DEF q
<1>2. \A e \in Endpoint : InitialState(e) \in State(e) /\ InitialState(Peer(e)) \in State(Peer(e))
  BY PeerType DEF StatesClosed
<1>3. \A e \in Endpoint :
        /\ sentStates[e] \in Queue(State(e)) /\ sentStates[e] # <<>> /\ Nums(sentStates[e]) = {0}
        /\ Ordered(sentStates[e]) /\ sentStates[e][1].num = 0 /\ Last(sentStates[e]).num = 0
  BY <1>1, <1>2 DEF Init
<1>4. \A e \in Endpoint :
        /\ receivedState[e] \in Queue(State(Peer(e))) /\ receivedState[e] # <<>>
        /\ Nums(receivedState[e]) = {0} /\ Ordered(receivedState[e])
  BY <1>1, <1>2 DEF Init
<1>5. \A e \in Endpoint : network[e] = <<>> /\ accepted[e] = {0} /\ ended[e] = "no"
  BY DEF Init
<1>6. SenderTypeOK
  BY <1>2, <1>3 DEF Init, SenderTypeOK, TimestampedState, Queue
<1>7. ReceiverTypeOK
  BY <1>2, <1>4 DEF Init, ReceiverTypeOK, TimestampedState, Queue
<1>8. SystemTypeOK
  <2>1. \A e \in Endpoint : network[e] \in Seq(Instruction(Peer(e)))
    BY <1>5, EmptySeq
  <2> QED  BY <2>1 DEF Init, SystemTypeOK, Reasons
<1>9. QueuesOrdered /\ NumbersBounded
  <2>1. QueuesOrdered
    BY <1>3, <1>4 DEF QueuesOrdered
  <2>2. 0 <= MaxUint64
    BY NumbersAssumption
  <2> QED  BY <1>3, <2>1, <2>2 DEF NumbersBounded
<1>10. NumbersWereSent
  BY <1>3, <1>4, <1>5, PeerType DEF NumbersWereSent
<1>11. AcksNameAcceptedStates
  BY <1>5, PeerType DEF AcksNameAcceptedStates, Init
<1>12. FrontWasAccepted /\ ShutdownWasAccepted
  BY <1>3, <1>5, PeerType DEF FrontWasAccepted, ShutdownWasAccepted
<1> QED  BY <1>6, <1>7, <1>8, <1>9, <1>10, <1>11, <1>12 DEF IInv, TypeOK

\* Removing an element from a sequence leaves the others, in their order.
LEMMA RemoveAtRemoves ==
  ASSUME NEW S, NEW q \in Seq(S), NEW i \in DOMAIN q
  PROVE  /\ RemoveAt(q, i) \in Seq(S) /\ DOMAIN RemoveAt(q, i) = 1..Len(q) - 1
         /\ \A j \in 1..Len(q) - 1 : RemoveAt(q, i)[j] = IF j < i THEN q[j] ELSE q[j + 1]
         /\ \A j \in DOMAIN RemoveAt(q, i) : \E k \in DOMAIN q : RemoveAt(q, i)[j] = q[k]
<1> DEFINE a == SubSeq(q, 1, i - 1)
           b == SubSeq(q, i + 1, Len(q))
<1>1. /\ Len(q) \in Nat /\ DOMAIN q = 1..Len(q) /\ \A k \in 1..Len(q) : q[k] \in S
      /\ i \in 1..Len(q)
  BY ElementOfSeq, LenProperties
<1>2. /\ a \in Seq(S) /\ Len(a) = i - 1 /\ \A k \in 1..i - 1 : a[k] = q[k]
  <2>1. i - 1 \in Int /\ \A k \in 1..i - 1 : q[k] \in S
    BY <1>1
  <2>2. /\ a \in Seq(S) /\ Len(a) = IF 1 <= i - 1 THEN i - 1 - 1 + 1 ELSE 0
        /\ \A k \in 1..i - 1 - 1 + 1 : a[k] = q[1 + k - 1]
    BY <2>1, SubSeqProperties
  <2> HIDE DEF a
  <2> QED  BY <1>1, <2>2
<1>3. /\ b \in Seq(S) /\ Len(b) = Len(q) - i /\ \A k \in 1..Len(q) - i : b[k] = q[i + k]
  <2>1. i + 1 \in Int /\ Len(q) \in Int /\ \A k \in i + 1..Len(q) : q[k] \in S
    BY <1>1
  <2>2. /\ b \in Seq(S) /\ Len(b) = IF i + 1 <= Len(q) THEN Len(q) - (i + 1) + 1 ELSE 0
        /\ \A k \in 1..Len(q) - (i + 1) + 1 : b[k] = q[i + 1 + k - 1]
    BY <2>1, SubSeqProperties
  <2> HIDE DEF b
  <2>3. Len(b) = Len(q) - i
    BY <1>1, <2>2
  <2>4. \A k \in 1..Len(q) - i : k \in 1..Len(q) - (i + 1) + 1 /\ i + 1 + k - 1 = i + k
    BY <1>1
  <2> QED  BY <2>2, <2>3, <2>4
<1> HIDE DEF a, b
<1>4. /\ a \o b \in Seq(S) /\ Len(a \o b) = Len(a) + Len(b)
      /\ \A k \in 1..Len(a) + Len(b) :
           (a \o b)[k] = IF k <= Len(a) THEN a[k] ELSE b[k - Len(a)]
  BY <1>2, <1>3, ConcatProperties
<1> DEFINE c == a \o b
<1>5. RemoveAt(q, i) = c
  BY DEF RemoveAt, a, b
<1>6. c \in Seq(S) /\ DOMAIN c = 1..Len(a) + Len(b)
  BY <1>4, LenProperties
<1>7. DOMAIN c = 1..Len(q) - 1
  BY <1>1, <1>2, <1>3, <1>6
<1>8. ASSUME NEW j \in 1..Len(q) - 1 PROVE c[j] = IF j < i THEN q[j] ELSE q[j + 1]
  <2>1. c[j] = IF j <= Len(a) THEN a[j] ELSE b[j - Len(a)]
    BY <1>4, <1>6, <1>7
  <2> HIDE DEF c
  <2>2. CASE j < i
    <3>1. j <= Len(a) /\ j \in 1..i - 1
      BY <1>1, <1>2, <2>2
    <3> QED  BY <1>2, <2>1, <2>2, <3>1
  <2>3. CASE ~(j < i)
    <3>1. ~(j <= Len(a)) /\ j - Len(a) \in 1..Len(q) - i /\ i + (j - Len(a)) = j + 1
      BY <1>1, <1>2, <1>3, <2>3
    <3> QED  BY <1>3, <2>1, <2>3, <3>1
  <2> QED  BY <2>2, <2>3
<1> HIDE DEF c
<1>9. \A j \in DOMAIN c : \E k \in DOMAIN q : c[j] = q[k]
  <2> SUFFICES ASSUME NEW j \in 1..Len(q) - 1 PROVE \E k \in 1..Len(q) : c[j] = q[k]
    BY <1>1, <1>7
  <2>1. (j \in 1..Len(q)) /\ (j + 1 \in 1..Len(q))
    BY <1>1
  <2> QED  BY <1>8, <2>1
<1> QED  BY <1>5, <1>6, <1>7, <1>8, <1>9

-----------------------------------------------------------------------------
(* A tick keeps the invariant.                                             *)

\* A tick keeps the invariant: what it sends has a new number, or one that the
\* queue already ends with, and the newest ack.
LEMMA TickKeepsIInv ==
  ASSUME IInv, NEW e \in Endpoint, TickOutcome(e)
  PROVE  IInv'
<1>1. PICK q : GoodQueue(e, q) /\ Last(sentStates[e]).num <= Last(q).num /\ Sends(e, q)
  BY DEF TickOutcome
<1>2. UNCHANGED <<ackNum, receiverVars, hasRemoteAddr, ended, fed, obtained, accepted>>
  BY DEF TickOutcome
<1>3. TypeOK
  BY DEF IInv
<1>4. /\ sentStates'[e] = q /\ \A x \in Endpoint : x # e => sentStates'[x] = sentStates[x]
      /\ DOMAIN sentStates' = Endpoint
  BY <1>1, <1>3 DEF Sends, TypeOK, SenderTypeOK
<1>5. /\ DOMAIN network' = Endpoint
      /\ \A x \in Endpoint : x # Peer(e) => network'[x] = network[x]
      /\ network'[Peer(e)] \in Seq(Instruction(e))
      /\ \A i \in DOMAIN network'[Peer(e)] :
           \/ i \in DOMAIN network[Peer(e)] /\ network'[Peer(e)][i] = network[Peer(e)][i]
           \/ /\ network'[Peer(e)][i].newNum = Last(q).num
              /\ network'[Peer(e)][i].ackNum = ackNum[e]
  <2> DEFINE p == Peer(e)
             w == network[p]
  <2>1. /\ DOMAIN network = Endpoint /\ p \in Endpoint /\ w \in Seq(Instruction(e))
        /\ Len(w) \in Nat /\ DOMAIN w = 1..Len(w)
    <3>1. w \in Seq(Instruction(e))
      BY <1>3, PeerType DEF TypeOK, SystemTypeOK
    <3> QED  BY <1>3, <3>1, PeerType, LenProperties DEF TypeOK, SystemTypeOK
  <2>2. CASE network' = network
    BY <2>1, <2>2
  <2>3. CASE \E inst \in Instruction(e) :
               /\ inst.newNum = Last(q).num /\ inst.ackNum = ackNum[e]
               /\ network' = [network EXCEPT ![p] = Append(@, inst)]
    <3>0. PICK inst \in Instruction(e) :
            /\ inst.newNum = Last(q).num /\ inst.ackNum = ackNum[e]
            /\ network' = [network EXCEPT ![p] = Append(@, inst)]
      BY <2>3
    <3> DEFINE k == Append(w, inst)
    <3>1. /\ k \in Seq(Instruction(e)) /\ DOMAIN k = 1..Len(w) + 1
          /\ \A i \in 1..Len(w) : k[i] = w[i]
          /\ k[Len(w) + 1] = inst
      <4>1. /\ k \in Seq(Instruction(e)) /\ Len(k) = Len(w) + 1
            /\ \A i \in 1..Len(w) : k[i] = w[i]
            /\ k[Len(w) + 1] = inst
        BY <2>1, AppendProperties
      <4> QED  BY <4>1, LenProperties
    <3> HIDE DEF k
    <3>2. network'[p] = k /\ DOMAIN network' = Endpoint
          /\ \A x \in Endpoint : x # p => network'[x] = network[x]
      BY <2>1, <3>0 DEF k
    <3> QED  BY <2>1, <3>0, <3>1, <3>2
  <2> QED  BY <1>1, <2>2, <2>3 DEF Sends
<1>6. /\ lastAckSent' \in [Endpoint -> Nat]
      /\ \A x \in Endpoint : lastAckSent'[x] = lastAckSent[x] \/ lastAckSent'[x] = ackNum[x]
  BY <1>1, <1>3 DEF Sends, TypeOK, SenderTypeOK
<1>7. \A x \in Endpoint : ~overflowed'[x] =>
        ~overflowed[x] /\ sentStates'[x][1].num = sentStates[x][1].num
  BY <1>1, <1>4 DEF Sends
<1>8. TypeOK'
  <2>1. \A x \in Endpoint : sentStates'[x] \in Queue(State(x)) /\ sentStates'[x] # <<>>
    BY <1>1, <1>3, <1>4 DEF GoodQueue, TypeOK, SenderTypeOK, Queue, TimestampedState
  <2>2. DOMAIN currentState' = Endpoint /\ \A x \in Endpoint : currentState'[x] \in State(x)
    BY <1>3 DEF TickOutcome, TypeOK, SenderTypeOK
  <2>3. SenderTypeOK'
    BY <1>1, <1>2, <1>3, <1>4, <1>6, <2>1, <2>2
       DEF Sends, TypeOK, SenderTypeOK, Queue, TimestampedState
  <2>4. ReceiverTypeOK'
    BY <1>2, <1>3 DEF TypeOK, ReceiverTypeOK, receiverVars
  <2>5. SystemTypeOK'
    <3>1. \A x \in Endpoint : network'[x] \in Seq(Instruction(Peer(x)))
      BY <1>3, <1>5, PeerType DEF TypeOK, SystemTypeOK
    <3> QED  BY <1>1, <1>2, <1>3, <1>5, <3>1 DEF Sends, TypeOK, SystemTypeOK
  <2> QED  BY <2>3, <2>4, <2>5 DEF TypeOK
<1>9. QueuesOrdered' /\ NumbersBounded'
  <2>1. \A x \in Endpoint : Ordered(sentStates'[x]) /\ \A n \in Nums(sentStates'[x]) : n <= MaxUint64
    BY <1>1, <1>4 DEF IInv, QueuesOrdered, NumbersBounded, GoodQueue
  <2>2. receivedState' = receivedState
    BY <1>2 DEF receiverVars
  <2> QED  BY <2>1, <2>2 DEF IInv, QueuesOrdered, NumbersBounded
<1>10. NumbersWereSent'
  <2> SUFFICES ASSUME NEW x \in Endpoint
               PROVE  /\ \A n \in accepted[Peer(x)] : n <= Last(sentStates'[x]).num
                      /\ Nums(receivedState[Peer(x)]) \subseteq accepted[Peer(x)]
                      /\ \A i \in DOMAIN network'[Peer(x)] :
                           network'[Peer(x)][i].newNum <= Last(sentStates'[x]).num
    BY <1>2 DEF NumbersWereSent, receiverVars
  <2>1. /\ \A n \in accepted[Peer(x)] : n <= Last(sentStates[x]).num
        /\ Nums(receivedState[Peer(x)]) \subseteq accepted[Peer(x)]
        /\ \A i \in DOMAIN network[Peer(x)] : network[Peer(x)][i].newNum <= Last(sentStates[x]).num
    BY DEF IInv, NumbersWereSent
  <2>2. CASE x = e
    <3>1. Last(sentStates[e]).num \in Nat /\ Last(q).num \in Nat
      <4>1. sentStates[e] \in Queue(State(e)) /\ sentStates[e] # <<>>
        BY <1>3 DEF TypeOK, SenderTypeOK, Queue, TimestampedState
      <4>2. \A r \in Queue(State(e)) : r # <<>> => Last(r).num \in Nat
        BY QueueElements, EmptySeq DEF Last, Queue
      <4> QED  BY <1>1, <4>1, <4>2 DEF GoodQueue
    <3>2. \A n \in accepted[Peer(e)] : n \in Nat
      BY <1>3, PeerType DEF TypeOK, SystemTypeOK
    <3>3. \A i \in DOMAIN network[Peer(e)] : network[Peer(e)][i].newNum \in Nat
      <4>1. network[Peer(e)] \in Seq(Instruction(e))
        BY <1>3, PeerType DEF TypeOK, SystemTypeOK
      <4>2. \A i \in DOMAIN network[Peer(e)] : network[Peer(e)][i] \in Instruction(e)
        BY <4>1, ElementOfSeq, LenProperties
      <4> QED  BY <4>2 DEF Instruction
    <3>4. \A n \in accepted[Peer(e)] : n <= Last(q).num
      BY <1>1, <2>1, <2>2, <3>1, <3>2
    <3>5. \A i \in DOMAIN network'[Peer(e)] : network'[Peer(e)][i].newNum <= Last(q).num
      BY <1>1, <1>5, <2>1, <2>2, <3>1, <3>3
    <3> QED  BY <1>4, <2>1, <2>2, <3>4, <3>5
  <2>3. CASE x # e
    <3>1. Peer(x) # Peer(e) /\ Peer(x) \in Endpoint
      BY <2>3, PeerType
    <3> QED  BY <1>4, <1>5, <2>1, <2>3, <3>1
  <2> QED  BY <2>2, <2>3
<1>11. AcksNameAcceptedStates'
  <2> SUFFICES ASSUME NEW x \in Endpoint
               PROVE  /\ ackNum[x] \in accepted[x] /\ lastAckSent'[x] \in accepted[x]
                      /\ \A i \in DOMAIN network'[Peer(x)] : network'[Peer(x)][i].ackNum \in accepted[x]
    BY <1>2 DEF AcksNameAcceptedStates
  <2>1. /\ ackNum[x] \in accepted[x] /\ lastAckSent[x] \in accepted[x]
        /\ \A i \in DOMAIN network[Peer(x)] : network[Peer(x)][i].ackNum \in accepted[x]
    BY DEF IInv, AcksNameAcceptedStates
  <2>2. CASE x = e
    BY <1>5, <1>6, <2>1, <2>2
  <2>3. CASE x # e
    <3>1. Peer(x) # Peer(e) /\ Peer(x) \in Endpoint
      BY <2>3, PeerType
    <3> QED  BY <1>5, <1>6, <2>1, <3>1
  <2> QED  BY <2>2, <2>3
<1>12. FrontWasAccepted'
  BY <1>2, <1>7 DEF IInv, FrontWasAccepted
<1>13. ShutdownWasAccepted'
  BY <1>2, <1>7 DEF IInv, ShutdownWasAccepted
<1> QED  BY <1>8, <1>9, <1>10, <1>11, <1>12, <1>13 DEF IInv

-----------------------------------------------------------------------------
(* The arrival of a packet keeps the invariant.                            *)

\* Packets under way to e are gone, and none are new.
NetworkShrinks(e) ==
  /\ DOMAIN network' = Endpoint /\ \A x \in Endpoint : x # e => network'[x] = network[x]
  /\ network'[e] \in Seq(Instruction(Peer(e)))
  /\ \A j \in DOMAIN network'[e] : \E i \in DOMAIN network[e] : network'[e][j] = network[e][i]

\* Taking a packet off the network, or leaving it there, adds none.
LEMMA TakingOneShrinks ==
  ASSUME TypeOK, NEW e \in Endpoint, NEW i \in DOMAIN network[e],
         network' = network \/ network' = [network EXCEPT ![e] = RemoveAt(@, i)]
  PROVE  NetworkShrinks(e)
<1>1. DOMAIN network = Endpoint /\ network[e] \in Seq(Instruction(Peer(e)))
  BY DEF TypeOK, SystemTypeOK
<1>2. CASE network' = network
  BY <1>1, <1>2 DEF NetworkShrinks
<1>3. CASE network' = [network EXCEPT ![e] = RemoveAt(@, i)]
  <2> DEFINE k == RemoveAt(network[e], i)
  <2>1. /\ k \in Seq(Instruction(Peer(e)))
        /\ \A j \in DOMAIN k : \E m \in DOMAIN network[e] : k[j] = network[e][m]
    BY <1>1, RemoveAtRemoves
  <2>2. network'[e] = k /\ DOMAIN network' = Endpoint
        /\ \A x \in Endpoint : x # e => network'[x] = network[x]
    BY <1>1, <1>3
  <2> HIDE DEF k
  <2> QED  BY <2>1, <2>2 DEF NetworkShrinks
<1> QED  BY <1>2, <1>3

\* A packet keeps the invariant: the number accepted was sent, it is put in its
\* place, and the ack it brings names a state that the peer has accepted.
LEMMA RecvKeepsIInv ==
  ASSUME StatesClosed, IInv, NEW e \in Endpoint, Recv(e)
  PROVE  IInv'
<1>1. TypeOK
  BY DEF IInv
<1>2. PICK m \in DOMAIN network[e] :
        /\ network' = network \/ network' = [network EXCEPT ![e] = RemoveAt(@, m)]
        /\ ProcessPayload(e, network[e][m])
  BY DEF Recv, Deliverable
<1> DEFINE inst == network[e][m]
<1>3. UNCHANGED <<currentState, shutdownInProgress, shutdownTries, lastAckSent, ended, overflowed>>
      /\ hasRemoteAddr' \in [Endpoint -> BOOLEAN]
  BY <1>1 DEF Recv, TypeOK, SystemTypeOK
<1>4. NetworkShrinks(e)
  BY <1>1, <1>2, TakingOneShrinks
<1>5. inst \in Instruction(Peer(e)) /\ inst.newNum \in Nat /\ inst.ackNum \in Nat
  <2>1. inst \in Instruction(Peer(e))
    BY <1>1, ElementOfSeq, LenProperties DEF TypeOK, SystemTypeOK
  <2> HIDE DEF inst
  <2> QED  BY <2>1 DEF Instruction
<1>6. inst.newNum <= Last(sentStates[Peer(e)]).num /\ inst.ackNum \in accepted[Peer(e)]
  BY PeerType DEF IInv, NumbersWereSent, AcksNameAcceptedStates
<1>7. ReceiveOutcome(e, inst)
  BY <1>1, <1>2, <1>5, ProcessPayloadReceives DEF IInv
<1> HIDE DEF inst
<1> DEFINE q == sentStates[e]
           k == ProcessAcknowledgmentThrough(q, inst.ackNum)
<1>8. /\ sentStates'[e] = k /\ \A x \in Endpoint : x # e => sentStates'[x] = sentStates[x]
      /\ DOMAIN sentStates' = Endpoint
  BY <1>1, <1>7 DEF ReceiveOutcome, TypeOK, SenderTypeOK
<1>9. /\ GoodQueue(e, k) /\ Last(k).num = Last(q).num
      /\ k[1].num = q[1].num \/ k[1].num = inst.ackNum
  <2>1. GoodQueue(e, q)
    BY <1>1 DEF IInv, TypeOK, SenderTypeOK, QueuesOrdered, NumbersBounded, GoodQueue, Queue, TimestampedState
  <2>2. CASE inst.ackNum \notin Nums(q)
    <3>1. k = q
      BY <2>2 DEF ProcessAcknowledgmentThrough
    <3> QED  BY <2>1, <3>1
  <2>3. CASE inst.ackNum \in Nums(q)
    <3>1. k = KeepFrom(q, inst.ackNum)
      BY <2>3 DEF ProcessAcknowledgmentThrough
    <3>2. /\ k \in Queue(State(e)) /\ Ordered(k) /\ Nums(k) \subseteq Nums(q)
      <4>1. inst.ackNum \in Int
        BY <1>5
      <4> QED  BY <2>1, <3>1, <4>1, KeepFromKeepsOrder DEF GoodQueue
    <3>3. k # <<>> /\ k[1].num = inst.ackNum /\ Last(k) = Last(q)
      BY <1>5, <2>1, <2>3, <3>1, KeepFromKnown DEF GoodQueue
    <3> HIDE DEF k
    <3> QED  BY <2>1, <3>2, <3>3 DEF GoodQueue
  <2> QED  BY <2>2, <2>3
<1>10. /\ DOMAIN accepted' = Endpoint /\ \A x \in Endpoint : x # e => accepted'[x] = accepted[x]
       /\ \A x \in Endpoint : accepted[x] \subseteq accepted'[x]
       /\ accepted'[e] \subseteq accepted[e] \cup {inst.newNum}
  BY <1>1, <1>7 DEF ReceiveOutcome, TypeOK, SystemTypeOK
<1>11. /\ ackNum' \in [Endpoint -> Nat]
       /\ \A x \in Endpoint : ackNum'[x] = ackNum[x] \/ ackNum'[x] \in accepted'[x]
  <2>1. CASE ackNum' = ackNum
    BY <1>1, <2>1 DEF TypeOK, SenderTypeOK
  <2>2. CASE /\ accepted' = [accepted EXCEPT ![e] = @ \cup {inst.newNum}]
             /\ ackNum' = [ackNum EXCEPT ![e] = inst.newNum]
    BY <1>1, <1>5, <2>2 DEF TypeOK, SenderTypeOK, SystemTypeOK
  <2> QED  BY <1>7, <2>1, <2>2 DEF ReceiveOutcome
<1>12. /\ GoodReceived(e, receivedState'[e]) /\ Nums(receivedState'[e]) \subseteq accepted'[e]
       /\ DOMAIN receivedState' = Endpoint
       /\ \A x \in Endpoint : x # e => receivedState'[x] = receivedState[x]
  BY <1>7 DEF ReceiveOutcome, OnlyAt
<1> HIDE DEF k
<1>13. TypeOK'
  <2>1. \A x \in Endpoint : sentStates'[x] \in Queue(State(x)) /\ sentStates'[x] # <<>>
    BY <1>1, <1>8, <1>9 DEF GoodQueue, TypeOK, SenderTypeOK, Queue, TimestampedState
  <2>2. pendingDataAck' \in [Endpoint -> BOOLEAN] /\ quenching' \in [Endpoint -> BOOLEAN]
    BY <1>7 DEF ReceiveOutcome
  <2>3. SenderTypeOK'
    BY <1>1, <1>3, <1>8, <1>11, <2>1, <2>2 DEF TypeOK, SenderTypeOK, Queue, TimestampedState
  <2>4. \A x \in Endpoint :
          receivedState'[x] \in Queue(State(Peer(x))) /\ receivedState'[x] # <<>>
    BY <1>1, <1>12 DEF GoodReceived, TypeOK, ReceiverTypeOK, Queue, TimestampedState
  <2>5. DOMAIN lastReceiverState' = Endpoint
        /\ \A x \in Endpoint : lastReceiverState'[x] \in State(Peer(x))
    BY <1>1, <1>7 DEF ReceiveOutcome, OnlyAt, TypeOK, ReceiverTypeOK
  <2>6. ReceiverTypeOK'
    BY <1>12, <2>2, <2>4, <2>5 DEF ReceiverTypeOK, Queue, TimestampedState
  <2>7. SystemTypeOK'
    <3>1. DOMAIN network' = Endpoint
          /\ \A x \in Endpoint : network'[x] \in Seq(Instruction(Peer(x)))
      BY <1>1, <1>4 DEF NetworkShrinks, TypeOK, SystemTypeOK
    <3>2. \A x \in Endpoint : accepted'[x] \subseteq Nat
      BY <1>1, <1>5, <1>10 DEF TypeOK, SystemTypeOK
    <3> QED  BY <1>1, <1>3, <1>10, <3>1, <3>2 DEF TypeOK, SystemTypeOK
  <2> QED  BY <2>3, <2>6, <2>7 DEF TypeOK
<1>14. QueuesOrdered' /\ NumbersBounded'
  <2>1. \A x \in Endpoint : Ordered(sentStates'[x]) /\ \A n \in Nums(sentStates'[x]) : n <= MaxUint64
    BY <1>8, <1>9 DEF IInv, QueuesOrdered, NumbersBounded, GoodQueue
  <2>2. \A x \in Endpoint : Ordered(receivedState'[x])
    BY <1>12 DEF IInv, QueuesOrdered, GoodReceived
  <2> QED  BY <2>1, <2>2 DEF QueuesOrdered, NumbersBounded
<1>15. NumbersWereSent'
  <2> SUFFICES ASSUME NEW x \in Endpoint
               PROVE  /\ \A n \in accepted'[Peer(x)] : n <= Last(sentStates'[x]).num
                      /\ Nums(receivedState'[Peer(x)]) \subseteq accepted'[Peer(x)]
                      /\ \A i \in DOMAIN network'[Peer(x)] :
                           network'[Peer(x)][i].newNum <= Last(sentStates'[x]).num
    BY DEF NumbersWereSent
  <2>1. /\ \A n \in accepted[Peer(x)] : n <= Last(sentStates[x]).num
        /\ Nums(receivedState[Peer(x)]) \subseteq accepted[Peer(x)]
        /\ \A i \in DOMAIN network[Peer(x)] : network[Peer(x)][i].newNum <= Last(sentStates[x]).num
    BY DEF IInv, NumbersWereSent
  <2>2. Last(sentStates'[x]).num = Last(sentStates[x]).num
    BY <1>8, <1>9
  <2>3. CASE x = e
    <3>1. Peer(x) # e /\ Peer(x) \in Endpoint
      BY <2>3, PeerType
    <3> QED  BY <1>4, <1>10, <1>12, <2>1, <2>2, <3>1 DEF NetworkShrinks
  <2>4. CASE x # e
    <3>1. Peer(x) = e /\ x = Peer(e)
      BY <2>4 DEF Peer, Endpoint
    <3>2. \A n \in accepted'[e] : n <= Last(sentStates[x]).num
      BY <1>6, <1>10, <2>1, <3>1
    <3>3. \A i \in DOMAIN network'[e] : network'[e][i].newNum <= Last(sentStates[x]).num
      BY <1>4, <2>1, <3>1 DEF NetworkShrinks
    <3> QED  BY <1>12, <2>2, <3>1, <3>2, <3>3
  <2> QED  BY <2>3, <2>4
<1>16. AcksNameAcceptedStates'
  <2> SUFFICES ASSUME NEW x \in Endpoint
               PROVE  /\ ackNum'[x] \in accepted'[x] /\ lastAckSent'[x] \in accepted'[x]
                      /\ \A i \in DOMAIN network'[Peer(x)] : network'[Peer(x)][i].ackNum \in accepted'[x]
    BY DEF AcksNameAcceptedStates
  <2>1. /\ ackNum[x] \in accepted[x] /\ lastAckSent[x] \in accepted[x]
        /\ \A i \in DOMAIN network[Peer(x)] : network[Peer(x)][i].ackNum \in accepted[x]
    BY DEF IInv, AcksNameAcceptedStates
  <2>2. \A i \in DOMAIN network'[Peer(x)] : network'[Peer(x)][i].ackNum \in accepted[x]
    <3>1. CASE Peer(x) = e
      BY <1>4, <2>1, <3>1 DEF NetworkShrinks
    <3>2. CASE Peer(x) # e
      BY <1>4, <2>1, <3>2, PeerType DEF NetworkShrinks
    <3> QED  BY <3>1, <3>2
  <2> QED  BY <1>3, <1>10, <1>11, <2>1, <2>2
<1>17. FrontWasAccepted'
  <2> SUFFICES ASSUME NEW x \in Endpoint, ~overflowed[x]
               PROVE  sentStates'[x][1].num \in accepted'[Peer(x)]
    BY <1>3 DEF FrontWasAccepted
  <2>1. sentStates[x][1].num \in accepted[Peer(x)]
    BY DEF IInv, FrontWasAccepted
  <2> QED  BY <1>6, <1>8, <1>9, <1>10, <2>1, PeerType
<1>18. ShutdownWasAccepted'
  BY <1>3, <1>10, PeerType DEF IInv, ShutdownWasAccepted
<1> QED  BY <1>13, <1>14, <1>15, <1>16, <1>17, <1>18 DEF IInv

-----------------------------------------------------------------------------
(* The other steps leave the queues, the numbers and the acks alone.       *)

\* What none of them changes.
Quiet ==
  UNCHANGED <<sentStates, receivedState, ackNum, lastAckSent, accepted, overflowed>>

\* A step that sends, receives and acknowledges nothing keeps the invariant if
\* it keeps the types and stops no loop without cause.
LEMMA QuietKeepsIInv ==
  ASSUME IInv, Quiet, TypeOK', ShutdownWasAccepted',
         NEW e \in Endpoint, NetworkShrinks(e)
  PROVE  IInv'
<1>1. QueuesOrdered' /\ NumbersBounded' /\ FrontWasAccepted'
  BY DEF IInv, Quiet, QueuesOrdered, NumbersBounded, FrontWasAccepted
<1>2. \A x \in Endpoint : \A j \in DOMAIN network'[x] :
        \E i \in DOMAIN network[x] : network'[x][j] = network[x][i]
  BY DEF NetworkShrinks
<1>3. NumbersWereSent'
  BY <1>2, PeerType DEF IInv, Quiet, NumbersWereSent
<1>4. AcksNameAcceptedStates'
  BY <1>2, PeerType DEF IInv, Quiet, AcksNameAcceptedStates
<1> QED  BY <1>1, <1>3, <1>4 DEF IInv

\* New input changes the current state only.
LEMMA InputKeepsIInv ==
  ASSUME StatesClosed, IInv, NEW e \in Endpoint, Input(e)
  PROVE  IInv'
<1>1. TypeOK /\ ShutdownWasAccepted
  BY DEF IInv
<1>2. UNCHANGED <<sentStates, ackNum, pendingDataAck, shutdownInProgress, shutdownTries,
                  lastAckSent, receiverVars, hasRemoteAddr, ended, network,
                  accepted, overflowed>>
  BY DEF Input
<1>3. DOMAIN currentState' = Endpoint /\ \A x \in Endpoint : currentState'[x] \in State(x)
  <2>1. PICK event \in Event(e) :
          currentState' = [currentState EXCEPT ![e] = Push(e, currentState[e], event)]
    BY DEF Input
  <2>2. Push(e, currentState[e], event) \in State(e)
    BY <1>1 DEF StatesClosed, TypeOK, SenderTypeOK
  <2> QED  BY <1>1, <2>1, <2>2 DEF TypeOK, SenderTypeOK
<1>4. TypeOK'
  BY <1>1, <1>2, <1>3 DEF TypeOK, SenderTypeOK, ReceiverTypeOK, SystemTypeOK, receiverVars
<1>5. NetworkShrinks(e)
  BY <1>1, <1>2 DEF NetworkShrinks, TypeOK, SystemTypeOK
<1>6. Quiet /\ ShutdownWasAccepted'
  BY <1>1, <1>2 DEF Quiet, receiverVars, ShutdownWasAccepted
<1> QED  BY <1>4, <1>5, <1>6, QuietKeepsIInv

\* A packet is lost.
LEMMA LoseKeepsIInv ==
  ASSUME IInv, NEW e \in Endpoint, Lose(e)
  PROVE  IInv'
<1>1. TypeOK /\ ShutdownWasAccepted
  BY DEF IInv
<1>2. UNCHANGED <<senderVars, receiverVars, hasRemoteAddr, ended, historyVars>>
  BY DEF Lose
<1>3. NetworkShrinks(e)
  <2>1. PICK i \in DOMAIN network[e] : network' = [network EXCEPT ![e] = RemoveAt(network[e], i)]
    BY DEF Lose, Deliverable
  <2> QED  BY <1>1, <2>1, TakingOneShrinks
<1>4. DOMAIN network' = Endpoint /\ \A x \in Endpoint : network'[x] \in Seq(Instruction(Peer(x)))
  BY <1>1, <1>3 DEF NetworkShrinks, TypeOK, SystemTypeOK
<1>5. TypeOK'
  BY <1>1, <1>2, <1>4
     DEF TypeOK, SenderTypeOK, ReceiverTypeOK, SystemTypeOK, senderVars, receiverVars, historyVars
<1>6. Quiet /\ ShutdownWasAccepted'
  BY <1>1, <1>2 DEF Quiet, senderVars, receiverVars, historyVars, ShutdownWasAccepted
<1> QED  BY <1>3, <1>5, <1>6, QuietKeepsIInv

\* A shutdown is asked for.
LEMMA StartShutdownKeepsIInv ==
  ASSUME IInv, NEW e \in Endpoint, StartShutdown(e)
  PROVE  IInv'
<1>1. TypeOK /\ ShutdownWasAccepted
  BY DEF IInv
<1>2. UNCHANGED <<currentState, sentStates, ackNum, pendingDataAck, shutdownTries, lastAckSent,
                  receiverVars, hasRemoteAddr, ended, network, historyVars>>
  BY DEF StartShutdown
<1>3. shutdownInProgress' \in [Endpoint -> BOOLEAN]
  BY <1>1 DEF StartShutdown, TypeOK, SenderTypeOK
<1>4. TypeOK'
  BY <1>1, <1>2, <1>3
     DEF TypeOK, SenderTypeOK, ReceiverTypeOK, SystemTypeOK, receiverVars, historyVars
<1>5. NetworkShrinks(e)
  BY <1>1, <1>2 DEF NetworkShrinks, TypeOK, SystemTypeOK
<1>6. Quiet /\ ShutdownWasAccepted'
  BY <1>1, <1>2 DEF Quiet, receiverVars, historyVars, ShutdownWasAccepted
<1> QED  BY <1>4, <1>5, <1>6, QuietKeepsIInv

\* A main loop stops; if it says so, the shutdown state has been accepted.
LEMMA LeaveKeepsIInv ==
  ASSUME IInv, NEW e \in Endpoint, NEW why \in Reasons, Leave(e, why),
         why = "acked" => ShutdownAcknowledged(e),
         why = "peerAcked" => CounterpartyShutdownAckSent(e)
  PROVE  IInv'
<1>1. TypeOK
  BY DEF IInv
<1>2. /\ UNCHANGED <<senderVars, receiverVars, hasRemoteAddr, historyVars>>
      /\ ended' \in [Endpoint -> Reasons] /\ ended'[e] = why
      /\ \A x \in Endpoint : x # e => ended'[x] = ended[x]
      /\ network' = [network EXCEPT ![e] = <<>>]
  BY <1>1 DEF Leave, TypeOK, SystemTypeOK
<1>3. NetworkShrinks(e)
  <2>1. <<>> \in Seq(Instruction(Peer(e))) /\ DOMAIN <<>> = {}
    OBVIOUS
  <2> QED  BY <1>1, <1>2, <2>1 DEF NetworkShrinks, TypeOK, SystemTypeOK
<1>4. DOMAIN network' = Endpoint /\ \A x \in Endpoint : network'[x] \in Seq(Instruction(Peer(x)))
  BY <1>1, <1>3 DEF NetworkShrinks, TypeOK, SystemTypeOK
<1>5. TypeOK'
  BY <1>1, <1>2, <1>4
     DEF TypeOK, SenderTypeOK, ReceiverTypeOK, SystemTypeOK, senderVars, receiverVars, historyVars
<1>6. Quiet
  BY <1>2 DEF Quiet, senderVars, receiverVars, historyVars
<1>7. ShutdownWasAccepted'
  <2> SUFFICES ASSUME NEW x \in Endpoint
               PROVE  /\ ended'[x] = "acked" /\ ~overflowed[x] => MaxUint64 \in accepted[Peer(x)]
                      /\ ended'[x] = "peerAcked" => MaxUint64 \in accepted[x]
    BY <1>6 DEF Quiet, ShutdownWasAccepted
  <2>1. CASE x = e
    BY <1>2, <2>1 DEF IInv, FrontWasAccepted, AcksNameAcceptedStates,
                      ShutdownAcknowledged, CounterpartyShutdownAckSent
  <2>2. CASE x # e
    BY <1>2, <2>2 DEF IInv, ShutdownWasAccepted
  <2> QED  BY <2>1, <2>2
<1> QED  BY <1>3, <1>5, <1>6, <1>7, QuietKeepsIInv

\* Both ticks assume one of the sent states.
LEMMA BothTicksSend ==
  ASSUME StatesClosed, IInv, NEW e \in Endpoint, TickAssumingNewest(e) \/ TickAssumingOldest(e)
  PROVE  TickOutcome(e)
<1>1. PICK k \in {1, Len(sentStates[e])} : Tick(e, k)
  BY DEF TickAssumingNewest, TickAssumingOldest
<1>2. k \in DOMAIN sentStates[e]
  <2>1. sentStates[e] \in Queue(State(e)) /\ sentStates[e] # <<>>
    BY DEF IInv, TypeOK, SenderTypeOK, Queue, TimestampedState
  <2>2. Len(sentStates[e]) \in Nat /\ DOMAIN sentStates[e] = 1..Len(sentStates[e])
    BY <2>1, QueueElements
  <2>3. Len(sentStates[e]) # 0
    BY <2>1, EmptySeq DEF Queue
  <2> QED  BY <2>2, <2>3
<1> QED  BY <1>1, <1>2, TickSends DEF IInv

\* Every step keeps the invariant.
LEMMA NextKeepsIInv ==
  StatesClosed /\ IInv /\ [Next]_vars => IInv'
<1> SUFFICES ASSUME StatesClosed, IInv, [Next]_vars PROVE IInv'
  OBVIOUS
<1>1. ASSUME NEW e \in Endpoint, Input(e) PROVE IInv'
  BY <1>1, InputKeepsIInv
<1>2. ASSUME NEW e \in Endpoint, TickAssumingNewest(e) \/ TickAssumingOldest(e) PROVE IInv'
  BY <1>2, BothTicksSend, TickKeepsIInv
<1>3. ASSUME NEW e \in Endpoint, Recv(e) PROVE IInv'
  BY <1>3, RecvKeepsIInv
<1>4. ASSUME NEW e \in Endpoint, Lose(e) PROVE IInv'
  BY <1>4, LoseKeepsIInv
<1>5. ASSUME NEW e \in Endpoint, StartShutdown(e) PROVE IInv'
  BY <1>5, StartShutdownKeepsIInv
<1>6. ASSUME NEW e \in Endpoint, End(e) PROVE IInv'
  <2> DEFINE why == ReasonToEnd(e)
  <2>1. why \in Reasons
    BY DEF ReasonToEnd, Reasons
  <2>2. why = "acked" => ShutdownAcknowledged(e)
    BY DEF ReasonToEnd
  <2>3. why = "peerAcked" => CounterpartyShutdownAckSent(e)
    BY DEF ReasonToEnd
  <2>4. Leave(e, why)
    BY <1>6 DEF End
  <2> HIDE DEF why
  <2> QED  BY <2>1, <2>2, <2>3, <2>4, LeaveKeepsIInv
<1>7. ASSUME NEW e \in Endpoint, Abort(e) PROVE IInv'
  <2>1. Leave(e, "aborted") /\ "aborted" \in Reasons
    BY <1>7 DEF Abort, Reasons
  <2> QED  BY <2>1, LeaveKeepsIInv
<1>8. CASE UNCHANGED vars
  BY <1>8 DEF vars, senderVars, receiverVars, historyVars, IInv, TypeOK, SenderTypeOK,
              ReceiverTypeOK, SystemTypeOK, QueuesOrdered, NumbersBounded, NumbersWereSent,
              AcksNameAcceptedStates, FrontWasAccepted, ShutdownWasAccepted
<1> QED  BY <1>1, <1>2, <1>3, <1>4, <1>5, <1>6, <1>7, <1>8 DEF Next

-----------------------------------------------------------------------------
(* The results.                                                            *)

\* The inductive invariant holds for every interface of states.
THEOREM Invariance == ASSUME StatesClosed PROVE Spec => []IInv
<1>1. Init => IInv
  BY InitIInv
<1>2. IInv /\ [Next]_vars => IInv'
  BY NextKeepsIInv
<1> QED  BY <1>1, <1>2, PTL DEF Spec

\* The queues of sent and received states, which tick, ProcessPayload and the
\* main loops index without a check, are never empty, and everything has its type.
THEOREM TypeCorrect == ASSUME StatesClosed PROVE Spec => []TypeOK
<1>1. IInv => TypeOK
  BY DEF IInv
<1> QED  BY <1>1, Invariance, PTL

\* No loss, duplication, reordering or overflow puts a queue out of order.
THEOREM QueuesStayOrdered == ASSUME StatesClosed PROVE Spec => []QueuesOrdered
<1>1. IInv => QueuesOrdered
  BY DEF IInv
<1> QED  BY <1>1, Invariance, PTL

\* Whatever an end holds, has accepted or has under way to it has been sent.
THEOREM OnlySentNumbers == ASSUME StatesClosed PROVE Spec => []NumbersWereSent
<1>1. IInv => NumbersWereSent
  BY DEF IInv
<1> QED  BY <1>1, Invariance, PTL

\* No ack, however late or often it arrives, is for a state that was not accepted.
THEOREM AcksAreTrue == ASSUME StatesClosed PROVE Spec => []AcksNameAcceptedStates
<1>1. IInv => AcksNameAcceptedStates
  BY DEF IInv
<1> QED  BY <1>1, Invariance, PTL

\* The state every difference may fall back to (updateAssumedReceiverState) is
\* one that the receiver has accepted.
THEOREM FrontIsKnown == ASSUME StatesClosed PROVE Spec => []FrontWasAccepted
<1>1. IInv => FrontWasAccepted
  BY DEF IInv
<1> QED  BY <1>1, Invariance, PTL

\* A main loop that ends because the shutdown was acknowledged, or because it
\* has acknowledged the other end's, is right.
THEOREM CleanShutdown == ASSUME StatesClosed PROVE Spec => []ShutdownWasAccepted
<1>1. IInv => ShutdownWasAccepted
  BY DEF IInv
<1> QED  BY <1>1, Invariance, PTL

-----------------------------------------------------------------------------
(* References, and packets that arrive in order: an instruction never      *)
(* refers to a state it tells the receiver to throw away; a receiver whose *)
(* packets are not reordered holds the state it has acknowledged and the   *)
(* oldest one of the sender, and accepts no number twice.  The invariant   *)
(* of this part, per direction.                                            *)

\* What e has under way refers to states the peer has, and tells it to throw
\* away none that e still has.
ReferencesAreKept(e) ==
  ~overflowed[e] =>
    \A i \in DOMAIN network[Peer(e)] :
      LET inst == network[Peer(e)][i]
      IN  /\ inst.throwawayNum <= inst.oldNum /\ inst.oldNum <= inst.newNum
          /\ inst.throwawayNum \in accepted[Peer(e)]
          /\ inst.throwawayNum <= sentStates[e][1].num

\* The newest state received by r is the last of its queue, the newest it has
\* accepted and the one it acknowledges; what is under way is not older.
ArrivesInOrder(r) ==
  r \notin Reordering =>
    /\ \A i, j \in DOMAIN network[r] : i <= j => network[r][i].newNum <= network[r][j].newNum
    /\ \A i \in DOMAIN network[r] : Last(receivedState[r]).num <= network[r][i].newNum
    /\ \A n \in accepted[r] : n <= Last(receivedState[r]).num
    /\ ackNum[r] = Last(receivedState[r]).num

\* r has the oldest state of the sender, and the one that any ack under way
\* will make the oldest.
HoldsReferences(r) ==
  r \notin Reordering /\ ~overflowed[Peer(r)] =>
    /\ sentStates[Peer(r)][1].num \in Nums(receivedState[r])
    /\ \A i \in DOMAIN network[Peer(r)] :
         sentStates[Peer(r)][1].num <= network[Peer(r)][i].ackNum =>
           network[Peer(r)][i].ackNum \in Nums(receivedState[r])

OInv ==
  \A e \in Endpoint : ReferencesAreKept(e) /\ ArrivesInOrder(e) /\ HoldsReferences(e)

-----------------------------------------------------------------------------
(* Queues.                                                                 *)

\* A queue holds every number finitely often.
LEMMA TimesType ==
  ASSUME NEW S, NEW q \in Queue(S), NEW n
  PROVE  Times(q, n) \in Nat /\ IsFiniteSet({i \in DOMAIN q : q[i].num = n})
<1> DEFINE T == {i \in DOMAIN q : q[i].num = n}
<1>1. Len(q) \in Nat /\ DOMAIN q = 1..Len(q)
  BY QueueElements
<1>2. IsFiniteSet(DOMAIN q)
  BY <1>1, FS_Interval
<1>3. T \in SUBSET DOMAIN q
  OBVIOUS
<1> HIDE DEF T
<1>4. IsFiniteSet(T)
  BY <1>2, <1>3, FS_Subset
<1>5. Cardinality(T) \in Nat
  BY <1>4, FS_CardinalityType
<1> QED  BY <1>4, <1>5 DEF Times, T

\* Queues with the same numbers hold each of them as often.
LEMMA SameNumbersSameTimes ==
  ASSUME NEW S, NEW q \in Queue(S), NEW k \in Queue(S), Len(k) = Len(q),
         \A i \in DOMAIN q : k[i].num = q[i].num, NEW n
  PROVE  Times(k, n) = Times(q, n)
<1>1. DOMAIN k = DOMAIN q
  BY QueueElements
<1>2. {i \in DOMAIN k : k[i].num = n} = {i \in DOMAIN q : q[i].num = n}
  BY <1>1
<1> QED  BY <1>2 DEF Times

\* What processThrowawayUntil keeps: the numbers from n on, the last state, and
\* nothing more often than before.
LEMMA KeepFromKeepsTheRest ==
  ASSUME NEW S, NEW q \in Queue(S), NEW n \in Int
  PROVE  /\ \A x \in Nums(q) : n <= x => x \in Nums(KeepFrom(q, n))
         /\ KeepFrom(q, n) # <<>> => Last(KeepFrom(q, n)) = Last(q)
         /\ \A x : Times(KeepFrom(q, n), x) <= Times(q, x)
<1>0. /\ Len(q) \in Nat /\ DOMAIN q = 1..Len(q)
      /\ \A i \in 1..Len(q) : q[i] \in [num : Nat, state : S] /\ q[i].num \in Nat
  BY QueueElements
<1>1. PICK m \in 1..Len(q) + 1 :
        /\ KeepFrom(q, n) = SubSeq(q, m, Len(q))
        /\ \A i \in 1..m - 1 : q[i].num < n
  BY KeepFromCuts
<1> DEFINE k == SubSeq(q, m, Len(q))
<1>2. /\ k \in Queue(S) /\ Len(k) = Len(q) - m + 1
      /\ \A i \in 1..Len(q) - m + 1 : k[i] = q[m + i - 1]
  BY <1>0, <1>1, SubSeqProperties DEF Queue
<1>3. DOMAIN k = 1..Len(q) - m + 1
  BY <1>2, LenProperties DEF Queue
<1> HIDE DEF k
<1>4. ASSUME NEW x \in Nums(q), n <= x PROVE x \in Nums(k)
  <2>1. PICK i \in 1..Len(q) : q[i].num = x
    BY <1>0 DEF Nums
  <2>2. m <= i
    <3>1. ~(i \in 1..m - 1)
      BY <1>0, <1>1, <1>4, <2>1
    <3> QED  BY <1>0, <3>1
  <2>3. i - m + 1 \in 1..Len(q) - m + 1 /\ m + (i - m + 1) - 1 = i
    BY <1>0, <2>2
  <2>4. k[i - m + 1].num = x
    BY <1>2, <2>1, <2>3
  <2> QED  BY <1>3, <2>3, <2>4 DEF Nums
<1>5. ASSUME k # <<>> PROVE Last(k) = Last(q)
  <2>1. Len(k) # 0
    BY <1>2, <1>5, EmptySeq DEF Queue
  <2>2. Len(k) \in 1..Len(q) - m + 1 /\ m + Len(k) - 1 = Len(q)
    BY <1>0, <1>2, <2>1
  <2> QED  BY <1>2, <2>2 DEF Last
<1>6. ASSUME NEW x PROVE Times(k, x) <= Times(q, x)
  <2> DEFINE K == {i \in DOMAIN k : k[i].num = x}
             Q == {i \in DOMAIN q : q[i].num = x}
             f == [i \in K |-> m + i - 1]
  <2>1. \A i \in K : m + i - 1 \in Q
    BY <1>0, <1>2, <1>3
  <2>2. f \in [K -> Q] /\ \A i, j \in K : f[i] = f[j] => i = j
    BY <1>3, <2>1
  <2>3. IsFiniteSet(Q)
    BY TimesType
  <2> HIDE DEF f, K, Q
  <2>4. f \in Injection(K, Q)
    BY <2>2 DEF Injection, IsInjective
  <2>5. Cardinality(K) <= Cardinality(Q)
    BY <2>3, <2>4, FS_Injection
  <2> QED  BY <2>5 DEF Times, K, Q
<1> QED  BY <1>1, <1>4, <1>5, <1>6 DEF k

\* A state appended to a queue is its last; the other numbers are there as
\* often as before.
LEMMA AppendAddsOne ==
  ASSUME NEW S, NEW q \in Queue(S), NEW new \in [num : Nat, state : S]
  PROVE  /\ Last(Append(q, new)) = new
         /\ Nums(q) \subseteq Nums(Append(q, new))
         /\ \A x : x # new.num => Times(Append(q, new), x) = Times(q, x)
<1>0. Len(q) \in Nat /\ DOMAIN q = 1..Len(q)
  BY QueueElements
<1> DEFINE k == Append(q, new)
<1>1. /\ k \in Queue(S) /\ Len(k) = Len(q) + 1
      /\ \A i \in 1..Len(q) : k[i] = q[i]
      /\ k[Len(q) + 1] = new
  BY <1>0, AppendProperties DEF Queue
<1>2. DOMAIN k = 1..Len(q) + 1
  BY <1>1, LenProperties DEF Queue
<1> HIDE DEF k
<1>3. Last(k) = new
  BY <1>1 DEF Last
<1>4. Nums(q) \subseteq Nums(k)
  BY <1>0, <1>1, <1>2 DEF Nums
<1>5. ASSUME NEW x, x # new.num PROVE Times(k, x) = Times(q, x)
  <2>1. {i \in DOMAIN k : k[i].num = x} = {i \in DOMAIN q : q[i].num = x}
    <3>1. ASSUME NEW i \in DOMAIN k, k[i].num = x PROVE i \in DOMAIN q /\ q[i].num = x
      <4>1. i # Len(q) + 1
        BY <1>1, <1>5, <3>1
      <4>2. i \in 1..Len(q)
        BY <1>0, <1>2, <4>1
      <4> QED  BY <1>0, <1>1, <3>1, <4>2
    <3>2. ASSUME NEW i \in DOMAIN q, q[i].num = x PROVE i \in DOMAIN k /\ k[i].num = x
      BY <1>0, <1>1, <1>2, <3>2
    <3> QED  BY <3>1, <3>2
  <2> QED  BY <2>1 DEF Times
<1> QED  BY <1>3, <1>4, <1>5 DEF k

-----------------------------------------------------------------------------
(* The arrival of an instruction that is not older than the states there.  *)

\* It changes the end of the received states, and their front only below its
\* throwaway number; a number that was accepted is not added again.
TakesInOrder(e, inst) ==
  /\ \A n \in Nums(receivedState[e]) : inst.throwawayNum <= n => n \in Nums(receivedState'[e])
  /\ \A n \in accepted[e] : Times(receivedState'[e], n) <= Times(receivedState[e], n)
  /\ \/ Last(receivedState'[e]).num = Last(receivedState[e]).num /\ UNCHANGED <<ackNum, accepted>>
     \/ /\ Last(receivedState'[e]).num = inst.newNum
        /\ ackNum' = [ackNum EXCEPT ![e] = inst.newNum]
        /\ accepted' = [accepted EXCEPT ![e] = @ \cup {inst.newNum}]

\* Such an instruction is never late for ProcessPayload: it is there already, is
\* refused, or is appended.
LEMMA ProcessPayloadTakesInOrder ==
  ASSUME StatesClosed, IInv, NEW e \in Endpoint, NEW inst \in Instruction(Peer(e)),
         ProcessPayload(e, inst), Last(receivedState[e]).num <= inst.newNum,
         \A n \in accepted[e] : n <= Last(receivedState[e]).num
  PROVE  TakesInOrder(e, inst)
<1> DEFINE q == receivedState[e]
           S == State(Peer(e))
           kept == ProcessThrowawayUntil(q, inst.throwawayNum)
<1>1. /\ GoodReceived(e, q) /\ DOMAIN receivedState = Endpoint
      /\ ReceiverTypeOK /\ TypeOK
  BY DEF IInv, TypeOK, ReceiverTypeOK, TimestampedState, QueuesOrdered, GoodReceived, Queue
<1>2. inst.newNum \in Nat /\ inst.throwawayNum \in Int
  BY DEF Instruction
<1>3. /\ q \in Queue(S) /\ q # <<>> /\ Len(q) \in Nat /\ Len(q) >= 1 /\ DOMAIN q = 1..Len(q)
      /\ \A i \in 1..Len(q) : q[i].num \in Nat /\ q[i].num <= Last(q).num
  <2>1. /\ q \in Queue(S) /\ q # <<>> /\ Len(q) \in Nat /\ DOMAIN q = 1..Len(q)
        /\ \A i \in 1..Len(q) : q[i].num \in Nat
    BY <1>1, QueueElements DEF GoodReceived
  <2>2. Len(q) # 0
    BY <2>1, EmptySeq DEF Queue
  <2> QED  BY <1>1, <2>1, <2>2 DEF GoodReceived, Ordered, Last
<1>4. /\ kept \in Queue(S) /\ Ordered(kept) /\ Nums(kept) \subseteq Nums(q)
      /\ \A n \in Nums(q) : inst.throwawayNum <= n => n \in Nums(kept)
      /\ kept # <<>> => Last(kept) = Last(q)
      /\ \A n : Times(kept, n) <= Times(q, n)
  BY <1>1, <1>2, <1>3, KeepFromKeepsOrder, KeepFromKeepsTheRest
     DEF GoodReceived, ProcessThrowawayUntil
<1>5. \/ Ignored(e, inst)
      \/ /\ inst.newNum \notin Nums(q) /\ inst.oldNum \in Nums(q)
         /\ Quenched(e, kept) \/ AcceptState(e, inst, kept)
  BY DEF ProcessPayload, AlreadyReceived
<1> HIDE DEF kept
<1>6. CASE Ignored(e, inst)
  <2>1. receivedState' = receivedState /\ UNCHANGED <<ackNum, accepted>>
    BY <1>6 DEF Ignored, receiverVars
  <2>2. \A n : Times(q, n) \in Nat
    BY <1>3, TimesType
  <2> QED  BY <2>1, <2>2 DEF TakesInOrder
<1>7. CASE Quenched(e, kept)
  <2>1. kept # <<>>
    BY <1>4, <1>7, QueueElements, EmptySeq, LimitsAssumption DEF Quenched
  <2>2. receivedState'[e] = kept /\ UNCHANGED <<ackNum, accepted>>
    BY <1>1, <1>7 DEF Quenched
  <2> QED  BY <1>4, <2>1, <2>2 DEF TakesInOrder
<1>8. CASE /\ inst.newNum \notin Nums(q) /\ inst.oldNum \in Nums(q)
           /\ AcceptState(e, inst, kept)
  <2> DEFINE new == Received(e, inst, kept)
             r == Append(kept, new)
  <2>1. new \in [num : Nat, state : S] /\ new.num = inst.newNum
    BY <1>3, <1>4, <1>8, ReceivedHasType
  <2>2. \A i \in DOMAIN kept : kept[i].num <= inst.newNum
    <3>1. ASSUME NEW n \in Nums(q) PROVE n <= inst.newNum
      BY <1>2, <1>3 DEF Nums, Last
    <3> QED  BY <1>4, <3>1 DEF Nums
  <2>3. ~\E i \in DOMAIN kept : kept[i].num > inst.newNum
    <3>1. \A i \in DOMAIN kept : kept[i].num \in Nat
      BY <1>4, QueueElements
    <3> QED  BY <1>2, <2>2, <3>1
  <2>4. /\ PickUp(e, r)
        /\ ackNum' = [ackNum EXCEPT ![e] = inst.newNum]
        /\ accepted' = [accepted EXCEPT ![e] = @ \cup {inst.newNum}]
    BY <1>8, <2>3 DEF AcceptState
  <2> HIDE DEF new
  <2>5. GoodReceived(e, r)
    BY <1>4, <2>1, <2>2, AppendToQueue DEF GoodReceived
  <2>6. /\ Last(r) = new /\ Nums(kept) \subseteq Nums(r)
        /\ \A n : n # inst.newNum => Times(r, n) = Times(kept, n)
    BY <1>4, <2>1, AppendAddsOne
  <2> HIDE DEF r
  <2>7. PickedUp(e, r)
    BY <1>1, <2>4, <2>5, PickUpKeepsNumbers
  <2>8. /\ Nums(receivedState'[e]) = Nums(r)
        /\ \A n : Times(receivedState'[e], n) = Times(r, n)
        /\ Last(receivedState'[e]).num = Last(r).num
    <3>1. /\ receivedState'[e] \in Queue(S) /\ r \in Queue(S)
          /\ Len(receivedState'[e]) = Len(r) /\ Nums(receivedState'[e]) = Nums(r)
          /\ \A i \in DOMAIN r : receivedState'[e][i].num = r[i].num
      BY <2>5, <2>7 DEF PickedUp, GoodReceived
    <3>2. Len(r) \in DOMAIN r
      <4>1. Len(r) \in Nat /\ Len(r) # 0 /\ DOMAIN r = 1..Len(r)
        BY <2>5, QueueElements, EmptySeq DEF GoodReceived, Queue
      <4> QED  BY <4>1
    <3> QED  BY <3>1, <3>2, SameNumbersSameTimes DEF Last
  <2>9. inst.newNum \notin accepted[e]
    <3>1. Last(q).num # inst.newNum
      BY <1>3, <1>8 DEF Nums, Last
    <3>2. Last(q).num \in Nat
      BY <1>3 DEF Last
    <3> QED  BY <1>2, <3>1, <3>2
  <2> QED  BY <1>4, <2>1, <2>4, <2>6, <2>8, <2>9 DEF TakesInOrder
<1> QED  BY <1>5, <1>6, <1>7, <1>8

-----------------------------------------------------------------------------
(* A tick keeps the invariant.                                             *)

\* What an instruction says when the sent states of e become q.
SentWith(e, q, inst) ==
  /\ inst.oldNum \in Nums(sentStates[e]) /\ inst.newNum = Last(q).num
  /\ inst.ackNum = ackNum[e] /\ inst.throwawayNum = q[1].num

\* v is w with inst behind it.
Joins(w, v, inst) ==
  /\ DOMAIN v = DOMAIN w \cup {Len(w) + 1}
  /\ \A i \in DOMAIN w : i \in Nat /\ i < Len(w) + 1 /\ v[i] = w[i]
  /\ Len(w) \in Nat /\ v[Len(w) + 1] = inst

\* At most one instruction joins those under way, at the end.
LEMMA SendsOne ==
  ASSUME TypeOK, NEW e \in Endpoint, NEW q, Sends(e, q)
  PROVE  /\ network'[e] = network[e]
         /\ \/ network'[Peer(e)] = network[Peer(e)]
            \/ \E inst \in Instruction(e) :
                 SentWith(e, q, inst) /\ Joins(network[Peer(e)], network'[Peer(e)], inst)
<1> DEFINE p == Peer(e)
           w == network[p]
<1>1. /\ DOMAIN network = Endpoint /\ p \in Endpoint /\ e # p /\ w \in Seq(Instruction(e))
      /\ Len(w) \in Nat /\ DOMAIN w = 1..Len(w)
  <2>1. w \in Seq(Instruction(e))
    BY PeerType DEF TypeOK, SystemTypeOK
  <2> QED  BY <2>1, PeerType, LenProperties DEF TypeOK, SystemTypeOK
<1>2. ASSUME NEW inst \in Instruction(e), network' = [network EXCEPT ![p] = Append(@, inst)]
      PROVE  network'[e] = network[e] /\ Joins(w, network'[p], inst)
  <2>1. network'[e] = network[e] /\ network'[p] = Append(w, inst)
    BY <1>1, <1>2
  <2>2. /\ Append(w, inst) \in Seq(Instruction(e)) /\ Len(Append(w, inst)) = Len(w) + 1
        /\ \A i \in 1..Len(w) : Append(w, inst)[i] = w[i]
        /\ Append(w, inst)[Len(w) + 1] = inst
    BY <1>1, AppendProperties
  <2>3. DOMAIN network'[p] = 1..Len(w) + 1
    BY <2>1, <2>2, LenProperties
  <2> HIDE DEF w
  <2> QED  BY <1>1, <2>1, <2>2, <2>3 DEF Joins
<1>3. \/ network' = network
      \/ \E inst \in Instruction(e) :
           SentWith(e, q, inst) /\ network' = [network EXCEPT ![p] = Append(@, inst)]
  BY DEF Sends, SentWith
<1> QED  BY <1>2, <1>3

\* The numbers of a queue of sent or received states lie between those at its ends.
LEMMA EndsOfQueue ==
  ASSUME NEW S, NEW q \in Queue(S), q # <<>>, Ordered(q)
  PROVE  /\ q[1].num \in Nums(q) /\ Last(q).num \in Nums(q) /\ Nums(q) \subseteq Nat
         /\ \A n \in Nums(q) : q[1].num <= n /\ n <= Last(q).num
<1>1. /\ Len(q) \in Nat /\ DOMAIN q = 1..Len(q) /\ Len(q) # 0
      /\ \A i \in 1..Len(q) : q[i].num \in Nat
  BY QueueElements, EmptySeq DEF Queue
<1>2. 1 \in DOMAIN q /\ Len(q) \in DOMAIN q /\ \A i \in DOMAIN q : 1 <= i /\ i <= Len(q)
  BY <1>1
<1> QED  BY <1>1, <1>2 DEF Nums, Ordered, Last

\* The queues of IInv.
LEMMA QueuesHaveEnds ==
  ASSUME IInv, NEW e \in Endpoint
  PROVE  /\ sentStates[e][1].num \in Nat /\ Last(sentStates[e]).num \in Nat
         /\ \A n \in Nums(sentStates[e]) :
              n \in Nat /\ sentStates[e][1].num <= n /\ n <= Last(sentStates[e]).num
         /\ Last(receivedState[e]).num \in Nums(receivedState[e])
         /\ \A n \in Nums(receivedState[e]) : n \in Nat /\ n <= Last(receivedState[e]).num
<1>1. /\ sentStates[e] \in Queue(State(e)) /\ sentStates[e] # <<>> /\ Ordered(sentStates[e])
      /\ receivedState[e] \in Queue(State(Peer(e))) /\ receivedState[e] # <<>>
      /\ Ordered(receivedState[e])
  BY DEF IInv, TypeOK, SenderTypeOK, ReceiverTypeOK, QueuesOrdered, Queue, TimestampedState
<1> QED  BY <1>1, EndsOfQueue

\* The fields of what is under way are numbers.
LEMMA UnderWay ==
  ASSUME TypeOK, NEW e \in Endpoint, NEW i \in DOMAIN network[e]
  PROVE  /\ network[e][i] \in Instruction(Peer(e))
         /\ network[e][i].oldNum \in Nat /\ network[e][i].newNum \in Nat
         /\ network[e][i].ackNum \in Nat /\ network[e][i].throwawayNum \in Nat
<1>1. network[e][i] \in Instruction(Peer(e))
  BY ElementOfSeq, LenProperties DEF TypeOK, SystemTypeOK
<1> QED  BY <1>1 DEF Instruction

\* What a tick sends refers to the sent states and acknowledges the newest
\* received one; its number is not below any sent before.
LEMMA TickKeepsOInv ==
  ASSUME IInv, OInv, NEW e \in Endpoint, TickOutcome(e)
  PROVE  OInv'
<1>1. PICK q : GoodQueue(e, q) /\ Last(sentStates[e]).num <= Last(q).num /\ Sends(e, q)
  BY DEF TickOutcome
<1>2. UNCHANGED <<ackNum, receivedState, accepted>>
  BY DEF TickOutcome, receiverVars
<1>3. TypeOK
  BY DEF IInv
<1> DEFINE p == Peer(e)
           w == network[p]
           v == network'[p]
<1>4. p \in Endpoint /\ Peer(p) = e /\ p # e /\ Endpoint = {e, p}
  BY DEF Peer, Endpoint
<1>5. /\ sentStates'[e] = q /\ sentStates'[p] = sentStates[p]
      /\ ~overflowed'[e] => ~overflowed[e] /\ q[1].num = sentStates[e][1].num
      /\ ~overflowed'[p] => ~overflowed[p]
  BY <1>1, <1>3, <1>4 DEF Sends, TypeOK, SenderTypeOK
<1>6. network'[e] = network[e] /\ (v = w \/ \E inst \in Instruction(e) : SentWith(e, q, inst) /\ Joins(w, v, inst))
  BY <1>1, <1>3, SendsOne
<1>7. Last(q).num \in Nat
  BY <1>1, EndsOfQueue DEF GoodQueue
<1>8. /\ \A i \in DOMAIN w : w[i].newNum \in Nat /\ w[i].newNum <= Last(q).num
      /\ Last(receivedState[p]).num <= Last(q).num /\ Last(receivedState[p]).num \in Nat
  <2>1. /\ \A i \in DOMAIN w : w[i].newNum <= Last(sentStates[e]).num
        /\ Last(receivedState[p]).num <= Last(sentStates[e]).num
        /\ Last(receivedState[p]).num \in Nat
    BY <1>4, QueuesHaveEnds DEF IInv, NumbersWereSent
  <2>2. \A i \in DOMAIN w : w[i].newNum \in Nat
    BY <1>3, <1>4, UnderWay
  <2>3. Last(sentStates[e]).num \in Nat
    BY QueuesHaveEnds
  <2> HIDE DEF w
  <2> QED  BY <1>1, <1>7, <2>1, <2>2, <2>3
<1>9. ReferencesAreKept(e)'
  <2> SUFFICES ASSUME ~overflowed'[e], NEW i \in DOMAIN v
               PROVE  /\ v[i].throwawayNum <= v[i].oldNum /\ v[i].oldNum <= v[i].newNum
                      /\ v[i].throwawayNum \in accepted[p]
                      /\ v[i].throwawayNum <= sentStates'[e][1].num
    BY <1>2 DEF ReferencesAreKept
  <2>1. sentStates'[e][1].num = sentStates[e][1].num /\ ~overflowed[e]
    BY <1>5
  <2>2. CASE i \in DOMAIN w /\ v[i] = w[i]
    BY <2>1, <2>2 DEF OInv, ReferencesAreKept
  <2>3. CASE \E inst \in Instruction(e) : SentWith(e, q, inst) /\ v[i] = inst
    <3>1. SentWith(e, q, v[i]) /\ v[i].throwawayNum = sentStates[e][1].num
      BY <1>5, <2>1, <2>3 DEF SentWith
    <3>2. /\ sentStates[e][1].num <= v[i].oldNum /\ v[i].oldNum <= Last(sentStates[e]).num
          /\ v[i].oldNum \in Nat /\ Last(sentStates[e]).num \in Nat /\ sentStates[e][1].num \in Nat
      BY <3>1, QueuesHaveEnds DEF SentWith
    <3>3. v[i].oldNum <= v[i].newNum
      BY <1>1, <1>7, <3>1, <3>2 DEF SentWith
    <3>4. sentStates[e][1].num \in accepted[p]
      BY <2>1 DEF IInv, FrontWasAccepted
    <3> QED  BY <2>1, <3>1, <3>2, <3>3, <3>4
  <2>4. (i \in DOMAIN w /\ v[i] = w[i]) \/ \E inst \in Instruction(e) : SentWith(e, q, inst) /\ v[i] = inst
    BY <1>6 DEF Joins
  <2> QED  BY <2>2, <2>3, <2>4
<1>10. ReferencesAreKept(p)'
  BY <1>2, <1>4, <1>5, <1>6 DEF OInv, ReferencesAreKept
<1>11. ArrivesInOrder(p)'
  <2> SUFFICES ASSUME p \notin Reordering
               PROVE  /\ \A i, j \in DOMAIN v : i <= j => v[i].newNum <= v[j].newNum
                      /\ \A i \in DOMAIN v : Last(receivedState[p]).num <= v[i].newNum
                      /\ \A n \in accepted[p] : n <= Last(receivedState[p]).num
                      /\ ackNum[p] = Last(receivedState[p]).num
    BY <1>2 DEF ArrivesInOrder
  <2>1. /\ \A i, j \in DOMAIN w : i <= j => w[i].newNum <= w[j].newNum
        /\ \A i \in DOMAIN w : Last(receivedState[p]).num <= w[i].newNum
        /\ \A n \in accepted[p] : n <= Last(receivedState[p]).num
        /\ ackNum[p] = Last(receivedState[p]).num
    BY <1>4 DEF OInv, ArrivesInOrder
  <2>2. ASSUME NEW inst \in Instruction(e), SentWith(e, q, inst), Joins(w, v, inst)
        PROVE  /\ \A i, j \in DOMAIN v : i <= j => v[i].newNum <= v[j].newNum
               /\ \A i \in DOMAIN v : Last(receivedState[p]).num <= v[i].newNum
    <3>1. inst.newNum = Last(q).num
      BY <2>2 DEF SentWith
    <3>2. /\ DOMAIN v = DOMAIN w \cup {Len(w) + 1}
          /\ \A i \in DOMAIN w : i \in Nat /\ i < Len(w) + 1 /\ v[i] = w[i]
          /\ Len(w) \in Nat /\ v[Len(w) + 1] = inst
      BY <2>2 DEF Joins
    <3> HIDE DEF v, w
    <3>3. \A i \in DOMAIN v : v[i].newNum \in Nat /\ v[i].newNum <= Last(q).num
      BY <1>7, <1>8, <3>1, <3>2
    <3>4. ASSUME NEW i \in DOMAIN v, NEW j \in DOMAIN v, i <= j PROVE v[i].newNum <= v[j].newNum
      <4>1. CASE j \in DOMAIN w
        <5>1. i \in DOMAIN w
          BY <3>2, <3>4, <4>1
        <5> QED  BY <2>1, <3>2, <3>4, <4>1, <5>1
      <4>2. CASE j = Len(w) + 1
        BY <3>1, <3>2, <3>3, <4>2
      <4> QED  BY <3>2, <4>1, <4>2
    <3>5. \A i \in DOMAIN v : Last(receivedState[p]).num <= v[i].newNum
      BY <1>8, <2>1, <3>1, <3>2
    <3> QED  BY <3>4, <3>5
  <2> QED  BY <1>6, <2>1, <2>2
<1>12. ArrivesInOrder(e)'
  BY <1>2, <1>6 DEF OInv, ArrivesInOrder
<1>13. HoldsReferences(p)'
  BY <1>2, <1>4, <1>5, <1>6 DEF OInv, HoldsReferences
<1>14. HoldsReferences(e)'
  <2> SUFFICES ASSUME e \notin Reordering, ~overflowed'[p]
               PROVE  /\ sentStates[p][1].num \in Nums(receivedState[e])
                      /\ \A i \in DOMAIN v : sentStates[p][1].num <= v[i].ackNum =>
                           v[i].ackNum \in Nums(receivedState[e])
    BY <1>2, <1>5 DEF HoldsReferences
  <2>1. /\ sentStates[p][1].num \in Nums(receivedState[e])
        /\ \A i \in DOMAIN w : sentStates[p][1].num <= w[i].ackNum =>
             w[i].ackNum \in Nums(receivedState[e])
    BY <1>5 DEF OInv, HoldsReferences
  <2>2. ackNum[e] \in Nums(receivedState[e])
    BY QueuesHaveEnds DEF OInv, ArrivesInOrder
  <2>3. \A i \in DOMAIN v : (i \in DOMAIN w /\ v[i] = w[i]) \/ v[i].ackNum = ackNum[e]
    BY <1>6 DEF Joins, SentWith
  <2> HIDE DEF v, w
  <2> QED  BY <2>1, <2>2, <2>3
<1> HIDE DEF p, v, w
<1>15. \A x \in Endpoint : ReferencesAreKept(x)' /\ ArrivesInOrder(x)' /\ HoldsReferences(x)'
  BY <1>4, <1>9, <1>10, <1>11, <1>12, <1>13, <1>14
<1> QED  BY <1>15 DEF OInv

-----------------------------------------------------------------------------
(* The arrival of a packet keeps the invariant.                            *)

\* Packets under way to e are gone; the others stay in their order.
NetworkThins(e) ==
  /\ \A x \in Endpoint : x # e => network'[x] = network[x]
  /\ \A i, j \in DOMAIN network'[e] : i <= j =>
       \E a, b \in DOMAIN network[e] :
         a <= b /\ network'[e][i] = network[e][a] /\ network'[e][j] = network[e][b]

\* Taking a packet off the network, or leaving it there, keeps the order.
LEMMA TakingOneThins ==
  ASSUME TypeOK, NEW e \in Endpoint, NEW m \in DOMAIN network[e],
         network' = network \/ network' = [network EXCEPT ![e] = RemoveAt(@, m)]
  PROVE  NetworkThins(e)
<1>1. DOMAIN network = Endpoint /\ network[e] \in Seq(Instruction(Peer(e)))
  BY DEF TypeOK, SystemTypeOK
<1>2. CASE network' = network
  BY <1>1, <1>2 DEF NetworkThins
<1>3. CASE network' = [network EXCEPT ![e] = RemoveAt(@, m)]
  <2> DEFINE w == network[e]
             k == RemoveAt(w, m)
  <2>1. /\ DOMAIN k = 1..Len(w) - 1
        /\ \A j \in 1..Len(w) - 1 : k[j] = IF j < m THEN w[j] ELSE w[j + 1]
        /\ Len(w) \in Nat /\ DOMAIN w = 1..Len(w) /\ m \in 1..Len(w)
    BY <1>1, RemoveAtRemoves, LenProperties
  <2>2. network'[e] = k /\ \A x \in Endpoint : x # e => network'[x] = network[x]
    BY <1>1, <1>3
  <2> HIDE DEF k, w
  <2>3. ASSUME NEW i \in DOMAIN k, NEW j \in DOMAIN k, i <= j
        PROVE  \E a, b \in DOMAIN w : a <= b /\ k[i] = w[a] /\ k[j] = w[b]
    <3> DEFINE At(x) == IF x < m THEN x ELSE x + 1
    <3>1. /\ At(i) \in DOMAIN w /\ At(j) \in DOMAIN w /\ At(i) <= At(j)
          /\ k[i] = w[At(i)] /\ k[j] = w[At(j)]
      BY <2>1, <2>3
    <3> HIDE DEF At
    <3> QED  BY <3>1
  <2> QED  BY <2>2, <2>3 DEF NetworkThins, w
<1> QED  BY <1>2, <1>3

\* What is left under way was under way.
LEMMA ThinnedElements ==
  ASSUME TypeOK', NEW e \in Endpoint, NetworkThins(e), NEW j \in DOMAIN network'[e]
  PROVE  \E i \in DOMAIN network[e] : network'[e][j] = network[e][i]
<1>1. network'[e] \in Seq(Instruction(Peer(e)))
  BY DEF TypeOK, SystemTypeOK
<1>2. j <= j
  BY <1>1, LenProperties
<1> QED  BY <1>2 DEF NetworkThins

\* The ack in an instruction moves the front of the sent states up to the state
\* acknowledged, or not at all.
LEMMA AckMovesFront ==
  ASSUME IInv, NEW e \in Endpoint, NEW n \in Nat
  PROVE  LET k == ProcessAcknowledgmentThrough(sentStates[e], n)
         IN  \/ k[1].num = sentStates[e][1].num
             \/ k[1].num = n /\ sentStates[e][1].num <= n
<1>1. sentStates[e] \in Queue(State(e)) /\ Ordered(sentStates[e])
  BY DEF IInv, TypeOK, SenderTypeOK, QueuesOrdered, Queue, TimestampedState
<1>2. CASE n \notin Nums(sentStates[e])
  BY <1>2 DEF ProcessAcknowledgmentThrough
<1>3. CASE n \in Nums(sentStates[e])
  <2>1. KeepFrom(sentStates[e], n)[1].num = n
    BY <1>1, <1>3, KeepFromKnown
  <2>2. sentStates[e][1].num <= n
    BY <1>3, QueuesHaveEnds
  <2> QED  BY <1>3, <2>1, <2>2 DEF ProcessAcknowledgmentThrough
<1> QED  BY <1>2, <1>3

\* A packet that arrives in order is the oldest under way, and leaves the
\* received states what they were but for their ends.
LEMMA RecvTakesInOrder ==
  ASSUME StatesClosed, IInv, OInv, NEW e \in Endpoint, e \notin Reordering,
         NEW m \in Deliverable(e), ProcessPayload(e, network[e][m])
  PROVE  /\ TakesInOrder(e, network[e][m])
         /\ \A i \in DOMAIN network[e] : network[e][m].newNum <= network[e][i].newNum
<1>1. m = 1 /\ m \in DOMAIN network[e]
  BY DEF Deliverable
<1>2. network[e][m] \in Instruction(Peer(e))
  BY <1>1, UnderWay DEF IInv
<1>3. /\ Last(receivedState[e]).num <= network[e][m].newNum
      /\ \A n \in accepted[e] : n <= Last(receivedState[e]).num
      /\ \A i, j \in DOMAIN network[e] : i <= j => network[e][i].newNum <= network[e][j].newNum
  BY <1>1 DEF OInv, ArrivesInOrder
<1>4. \A i \in DOMAIN network[e] : m <= i
  <2>1. network[e] \in Seq(Instruction(Peer(e)))
    BY DEF IInv, TypeOK, SystemTypeOK
  <2>2. \A i \in DOMAIN network[e] : i \in Nat /\ 1 <= i
    BY <2>1, LenProperties
  <2> QED  BY <1>1, <2>2
<1>5. TakesInOrder(e, network[e][m])
  BY <1>2, <1>3, ProcessPayloadTakesInOrder
<1> QED  BY <1>1, <1>3, <1>4, <1>5

\* A packet makes the receiver throw away nothing that its sender still has, and
\* its ack moves the front of the sent states to a state the other end holds.
LEMMA RecvKeepsOInv ==
  ASSUME StatesClosed, IInv, OInv, IInv', NEW e \in Endpoint, Recv(e)
  PROVE  OInv'
<1> DEFINE f == Peer(e)
<1>1. f \in Endpoint /\ Peer(f) = e /\ f # e /\ Endpoint = {e, f}
  BY DEF Peer, Endpoint
<1>2. PICK m \in Deliverable(e) :
        /\ network' = network \/ network' = [network EXCEPT ![e] = RemoveAt(@, m)]
        /\ ProcessPayload(e, network[e][m])
  BY DEF Recv
<1> DEFINE inst == network[e][m]
<1>3. m \in DOMAIN network[e] /\ TypeOK /\ TypeOK'
  BY DEF Deliverable, IInv
<1>4. inst \in Instruction(Peer(e)) /\ inst.ackNum \in Nat /\ inst.throwawayNum \in Nat
  BY <1>3, UnderWay
<1>5. ReceiveOutcome(e, inst)
  BY <1>2, <1>3, <1>4, ProcessPayloadReceives DEF IInv
<1>6. NetworkThins(e) /\ network'[f] = network[f]
  <2>1. NetworkThins(e)
    BY <1>2, <1>3, TakingOneThins
  <2> QED  BY <1>1, <2>1 DEF NetworkThins
<1>7. \A j \in DOMAIN network'[e] : \E i \in DOMAIN network[e] : network'[e][j] = network[e][i]
  BY <1>3, <1>6, ThinnedElements
<1>8. e \notin Reordering => /\ TakesInOrder(e, inst)
                             /\ \A i \in DOMAIN network[e] : inst.newNum <= network[e][i].newNum
  BY <1>2, RecvTakesInOrder
<1>9. /\ \/ sentStates'[e][1].num = sentStates[e][1].num
         \/ sentStates'[e][1].num = inst.ackNum /\ sentStates[e][1].num <= inst.ackNum
      /\ sentStates'[f] = sentStates[f]
  <2>1. /\ sentStates'[e] = ProcessAcknowledgmentThrough(sentStates[e], inst.ackNum)
        /\ sentStates'[f] = sentStates[f]
    BY <1>1, <1>3, <1>5 DEF ReceiveOutcome, TypeOK, SenderTypeOK
  <2> QED  BY <1>4, <2>1, AckMovesFront
<1>10. /\ receivedState'[f] = receivedState[f] /\ ackNum'[f] = ackNum[f]
       /\ accepted'[f] = accepted[f] /\ accepted[e] \subseteq accepted'[e]
       /\ overflowed' = overflowed
  <2>1. receivedState'[f] = receivedState[f]
    BY <1>1, <1>5 DEF ReceiveOutcome, OnlyAt
  <2>2. ackNum'[f] = ackNum[f] /\ accepted'[f] = accepted[f] /\ accepted[e] \subseteq accepted'[e]
    BY <1>1, <1>3, <1>5 DEF ReceiveOutcome, TypeOK, SenderTypeOK, SystemTypeOK
  <2> QED  BY <2>1, <2>2 DEF Recv
<1> HIDE DEF inst
<1>11. /\ \A x \in Endpoint : sentStates[x][1].num \in Nat /\ sentStates'[x][1].num \in Nat
       /\ sentStates[e][1].num <= sentStates'[e][1].num
  <2>1. \A x \in Endpoint : sentStates[x][1].num \in Nat
    BY QueuesHaveEnds
  <2> QED  BY <1>1, <1>4, <1>9, <2>1
<1>12. ReferencesAreKept(e)'
  <2> SUFFICES ASSUME ~overflowed[e], NEW i \in DOMAIN network[f]
               PROVE  /\ network[f][i].throwawayNum <= network[f][i].oldNum
                      /\ network[f][i].oldNum <= network[f][i].newNum
                      /\ network[f][i].throwawayNum \in accepted[f]
                      /\ network[f][i].throwawayNum <= sentStates'[e][1].num
    BY <1>6, <1>10 DEF ReferencesAreKept
  <2>1. /\ network[f][i].throwawayNum <= network[f][i].oldNum
        /\ network[f][i].oldNum <= network[f][i].newNum
        /\ network[f][i].throwawayNum \in accepted[f]
        /\ network[f][i].throwawayNum <= sentStates[e][1].num
    BY DEF OInv, ReferencesAreKept
  <2>2. network[f][i].throwawayNum \in Nat
    BY <1>1, <1>3, UnderWay
  <2> QED  BY <1>11, <2>1, <2>2
<1>13. ReferencesAreKept(f)'
  BY <1>1, <1>7, <1>9, <1>10 DEF OInv, ReferencesAreKept
<1>14. ArrivesInOrder(f)'
  BY <1>1, <1>6, <1>10 DEF OInv, ArrivesInOrder
<1>15. ArrivesInOrder(e)'
  <2> SUFFICES ASSUME e \notin Reordering
               PROVE  /\ \A i, j \in DOMAIN network'[e] :
                           i <= j => network'[e][i].newNum <= network'[e][j].newNum
                      /\ \A i \in DOMAIN network'[e] :
                           Last(receivedState'[e]).num <= network'[e][i].newNum
                      /\ \A n \in accepted'[e] : n <= Last(receivedState'[e]).num
                      /\ ackNum'[e] = Last(receivedState'[e]).num
    BY DEF ArrivesInOrder
  <2>1. /\ \A i, j \in DOMAIN network[e] : i <= j => network[e][i].newNum <= network[e][j].newNum
        /\ \A i \in DOMAIN network[e] : Last(receivedState[e]).num <= network[e][i].newNum
        /\ \A n \in accepted[e] : n <= Last(receivedState[e]).num
        /\ ackNum[e] = Last(receivedState[e]).num
    BY DEF OInv, ArrivesInOrder
  <2>2. \A i, j \in DOMAIN network'[e] : i <= j => network'[e][i].newNum <= network'[e][j].newNum
    BY <1>6, <2>1 DEF NetworkThins
  <2>3. TakesInOrder(e, inst) /\ \A i \in DOMAIN network[e] : inst.newNum <= network[e][i].newNum
    BY <1>8
  <2>4. CASE Last(receivedState'[e]).num = Last(receivedState[e]).num /\ UNCHANGED <<ackNum, accepted>>
    BY <1>7, <2>1, <2>2, <2>4
  <2>5. CASE /\ Last(receivedState'[e]).num = inst.newNum
             /\ ackNum' = [ackNum EXCEPT ![e] = inst.newNum]
             /\ accepted' = [accepted EXCEPT ![e] = @ \cup {inst.newNum}]
    <3>1. ackNum'[e] = inst.newNum /\ accepted'[e] = accepted[e] \cup {inst.newNum}
      BY <1>3, <2>5 DEF TypeOK, SenderTypeOK, SystemTypeOK
    <3>2. /\ inst.newNum \in Nat /\ Last(receivedState[e]).num <= inst.newNum
          /\ Last(receivedState[e]).num \in Nat
      BY <1>3, <2>1, UnderWay, QueuesHaveEnds DEF inst
    <3>3. \A n \in accepted[e] : n \in Nat
      BY <1>3 DEF TypeOK, SystemTypeOK
    <3>4. \A n \in accepted'[e] : n <= inst.newNum
      BY <2>1, <3>1, <3>2, <3>3
    <3> QED  BY <1>7, <2>2, <2>3, <2>5, <3>1, <3>4
  <2> QED  BY <2>3, <2>4, <2>5 DEF TakesInOrder
<1>16. HoldsReferences(e)'
  <2> SUFFICES ASSUME e \notin Reordering, ~overflowed[f]
               PROVE  /\ sentStates[f][1].num \in Nums(receivedState'[e])
                      /\ \A i \in DOMAIN network[f] : sentStates[f][1].num <= network[f][i].ackNum =>
                           network[f][i].ackNum \in Nums(receivedState'[e])
    BY <1>6, <1>9, <1>10 DEF HoldsReferences
  <2>1. /\ sentStates[f][1].num \in Nums(receivedState[e])
        /\ \A i \in DOMAIN network[f] : sentStates[f][1].num <= network[f][i].ackNum =>
             network[f][i].ackNum \in Nums(receivedState[e])
    BY DEF OInv, HoldsReferences
  <2>2. inst.throwawayNum <= sentStates[f][1].num
    BY <1>1, <1>3 DEF OInv, ReferencesAreKept, inst
  <2>3. \A n \in Nums(receivedState[e]) : sentStates[f][1].num <= n => n \in Nums(receivedState'[e])
    <3>1. \A n \in Nums(receivedState[e]) : n \in Nat
      BY QueuesHaveEnds
    <3>2. sentStates[f][1].num \in Nat
      BY <1>1, <1>11
    <3> QED  BY <1>4, <1>8, <2>2, <3>1, <3>2 DEF TakesInOrder
  <2>4. sentStates[f][1].num <= sentStates[f][1].num
    BY <1>1, <1>11
  <2> QED  BY <2>1, <2>3, <2>4
<1>17. HoldsReferences(f)'
  <2> SUFFICES ASSUME f \notin Reordering, ~overflowed[e]
               PROVE  /\ sentStates'[e][1].num \in Nums(receivedState[f])
                      /\ \A i \in DOMAIN network'[e] :
                           sentStates'[e][1].num <= network'[e][i].ackNum =>
                             network'[e][i].ackNum \in Nums(receivedState[f])
    BY <1>1, <1>10 DEF HoldsReferences
  <2>1. /\ sentStates[e][1].num \in Nums(receivedState[f])
        /\ \A i \in DOMAIN network[e] : sentStates[e][1].num <= network[e][i].ackNum =>
             network[e][i].ackNum \in Nums(receivedState[f])
    BY <1>1 DEF OInv, HoldsReferences
  <2>2. sentStates'[e][1].num \in Nums(receivedState[f])
    BY <1>3, <1>9, <2>1 DEF inst
  <2>3. \A i \in DOMAIN network[e] : network[e][i].ackNum \in Nat
    BY <1>3, UnderWay
  <2>4. ASSUME NEW j \in DOMAIN network'[e], sentStates'[e][1].num <= network'[e][j].ackNum
        PROVE  network'[e][j].ackNum \in Nums(receivedState[f])
    <3>1. PICK i \in DOMAIN network[e] : network'[e][j] = network[e][i]
      BY <1>7
    <3>2. sentStates[e][1].num <= network[e][i].ackNum
      BY <1>11, <2>3, <2>4, <3>1
    <3> QED  BY <2>1, <3>1, <3>2
  <2> QED  BY <2>2, <2>4
<1> HIDE DEF f
<1>18. \A x \in Endpoint : ReferencesAreKept(x)' /\ ArrivesInOrder(x)' /\ HoldsReferences(x)'
  BY <1>1, <1>12, <1>13, <1>14, <1>15, <1>16, <1>17
<1> QED  BY <1>18 DEF OInv

-----------------------------------------------------------------------------
(* All steps.                                                              *)

\* Losing packets, or everything under way to a loop that stops, thins out the
\* network and leaves the rest.
LEMMA QuietKeepsOInv ==
  ASSUME OInv, Quiet, TypeOK', NEW e \in Endpoint, NetworkThins(e)
  PROVE  OInv'
<1>1. ASSUME NEW x \in Endpoint
      PROVE  \A i, j \in DOMAIN network'[x] : i <= j =>
               \E a, b \in DOMAIN network[x] :
                 a <= b /\ network'[x][i] = network[x][a] /\ network'[x][j] = network[x][b]
  BY <1>1 DEF NetworkThins
<1>2. ASSUME NEW x \in Endpoint, NEW j \in DOMAIN network'[x]
      PROVE  \E i \in DOMAIN network[x] : network'[x][j] = network[x][i]
  BY <1>2, ThinnedElements DEF NetworkThins
<1>3. UNCHANGED <<sentStates, receivedState, ackNum, accepted, overflowed>>
  BY DEF Quiet
<1> SUFFICES ASSUME NEW x \in Endpoint
             PROVE  ReferencesAreKept(x)' /\ ArrivesInOrder(x)' /\ HoldsReferences(x)'
  BY DEF OInv
<1>4. Peer(x) \in Endpoint
  BY PeerType
<1>5. ReferencesAreKept(x)'
  BY <1>2, <1>3, <1>4 DEF OInv, ReferencesAreKept
<1>6. ArrivesInOrder(x)'
  BY <1>1, <1>2, <1>3 DEF OInv, ArrivesInOrder
<1>7. HoldsReferences(x)'
  BY <1>2, <1>3, <1>4 DEF OInv, HoldsReferences
<1> QED  BY <1>5, <1>6, <1>7

\* At the start each end holds the state 0 of the other and nothing is under way.
LEMMA InitOInv == Init => OInv
<1> SUFFICES ASSUME Init, NEW e \in Endpoint
             PROVE  ReferencesAreKept(e) /\ ArrivesInOrder(e) /\ HoldsReferences(e)
  BY DEF OInv
<1>1. Peer(e) \in Endpoint
  BY PeerType
<1>2. \A x \in Endpoint : network[x] = <<>> /\ accepted[x] = {0} /\ ackNum[x] = 0
  BY DEF Init
<1>3. ASSUME NEW y
      PROVE  LET q == <<[num |-> 0, state |-> y]>>
             IN  q[1].num = 0 /\ Last(q).num = 0 /\ 0 \in Nums(q)
  <2> DEFINE q == <<[num |-> 0, state |-> y]>>
  <2>1. Len(q) = 1 /\ q[1].num = 0 /\ 1 \in DOMAIN q
    OBVIOUS
  <2> HIDE DEF q
  <2>2. Last(q).num = 0 /\ 0 \in Nums(q)
    BY <2>1 DEF Nums, Last
  <2> QED  BY <2>1, <2>2 DEF q
<1>4. \A x \in Endpoint : sentStates[x][1].num = 0 /\ Last(receivedState[x]).num = 0 /\ 0 \in Nums(receivedState[x])
  BY <1>3 DEF Init
<1>5. DOMAIN network[e] = {} /\ DOMAIN network[Peer(e)] = {}
  BY <1>1, <1>2
<1> QED  BY <1>1, <1>2, <1>4, <1>5 DEF ReferencesAreKept, ArrivesInOrder, HoldsReferences

\* The steps other than ticks and arrivals.
LEMMA OthersAreQuiet ==
  ASSUME TypeOK, NEW e \in Endpoint,
         Input(e) \/ Lose(e) \/ StartShutdown(e) \/ End(e) \/ Abort(e)
  PROVE  Quiet /\ NetworkThins(e)
<1>1. DOMAIN network = Endpoint /\ network[e] \in Seq(Instruction(Peer(e)))
  BY DEF TypeOK, SystemTypeOK
<1>2. network' = network => NetworkThins(e)
  BY <1>1 DEF NetworkThins
<1>3. CASE Input(e) \/ StartShutdown(e)
  BY <1>2, <1>3 DEF Input, StartShutdown, Quiet, receiverVars, historyVars
<1>4. CASE Lose(e)
  <2>1. PICK i \in DOMAIN network[e] : network' = [network EXCEPT ![e] = RemoveAt(network[e], i)]
    BY <1>4 DEF Lose, Deliverable
  <2>2. NetworkThins(e)
    BY <2>1, TakingOneThins
  <2> QED  BY <1>4, <2>2 DEF Lose, Quiet, senderVars, receiverVars, historyVars
<1>5. ASSUME NEW why, Leave(e, why) PROVE Quiet /\ NetworkThins(e)
  <2>1. network' = [network EXCEPT ![e] = <<>>]
    BY <1>5 DEF Leave
  <2>2. DOMAIN network'[e] = {} /\ \A x \in Endpoint : x # e => network'[x] = network[x]
    BY <1>1, <2>1
  <2> QED  BY <1>5, <2>2 DEF NetworkThins, Leave, Quiet, senderVars, receiverVars, historyVars
<1>6. CASE End(e) \/ Abort(e)
  BY <1>5, <1>6 DEF End, Abort
<1> QED  BY <1>3, <1>4, <1>6

\* Every step keeps the invariant.
LEMMA NextKeepsOInv ==
  StatesClosed /\ IInv /\ OInv /\ [Next]_vars => OInv'
<1> SUFFICES ASSUME StatesClosed, IInv, OInv, [Next]_vars PROVE OInv'
  OBVIOUS
<1>1. IInv'
  BY NextKeepsIInv
<1>2. TypeOK /\ TypeOK'
  BY <1>1 DEF IInv
<1>3. ASSUME NEW e \in Endpoint, TickAssumingNewest(e) \/ TickAssumingOldest(e) PROVE OInv'
  BY <1>3, BothTicksSend, TickKeepsOInv
<1>4. ASSUME NEW e \in Endpoint, Recv(e) PROVE OInv'
  BY <1>1, <1>4, RecvKeepsOInv
<1>5. ASSUME NEW e \in Endpoint, Input(e) \/ Lose(e) \/ StartShutdown(e) \/ End(e) \/ Abort(e)
      PROVE  OInv'
  BY <1>2, <1>5, OthersAreQuiet, QuietKeepsOInv
<1>6. CASE UNCHANGED vars
  BY <1>6 DEF vars, senderVars, receiverVars, historyVars, OInv,
              ReferencesAreKept, ArrivesInOrder, HoldsReferences
<1> QED  BY <1>3, <1>4, <1>5, <1>6 DEF Next

-----------------------------------------------------------------------------
(* The results.                                                            *)

\* Both invariants hold for every interface of states and every network.
THEOREM OrderInvariance == ASSUME StatesClosed PROVE Spec => [](IInv /\ OInv)
<1>1. Init => IInv /\ OInv
  BY InitIInv, InitOInv
<1>2. IInv /\ OInv /\ [Next]_vars => IInv' /\ OInv'
  BY NextKeepsIInv, NextKeepsOInv
<1> QED  BY <1>1, <1>2, PTL DEF Spec

\* Until AddSentState cuts the queue, no instruction under way refers to a state
\* that it, or one sent before it, makes the receiver throw away.
THEOREM ReferencesAreAlwaysKept == ASSUME StatesClosed PROVE Spec => []ReferenceIsKept
<1>1. OInv => ReferenceIsKept
  BY DEF OInv, ReferencesAreKept, ReferenceIsKept
<1> QED  BY <1>1, OrderInvariance, PTL

\* A receiver whose packets are lost or duplicated, but not reordered, has the
\* state the sender goes back to when it assumes the oldest.
THEOREM FrontIsAlwaysHeld == ASSUME StatesClosed PROVE Spec => []FrontIsHeld
<1>1. OInv => FrontIsHeld
  <2> SUFFICES ASSUME OInv, NEW e \in Endpoint, ~overflowed[e], Peer(e) \notin Reordering
               PROVE  sentStates[e][1].num \in Nums(receivedState[Peer(e)])
    BY DEF FrontIsHeld
  <2> QED  BY PeerType DEF OInv, HoldsReferences
<1> QED  BY <1>1, OrderInvariance, PTL

\* What such a receiver acknowledges is its newest state, which it never throws
\* away, with or without a queue that overflowed.
THEOREM AckedStateIsAlwaysHeld == ASSUME StatesClosed PROVE Spec => []AckedStateIsHeld
<1>1. OInv => AckedStateIsHeld
  BY DEF OInv, ArrivesInOrder, AckedStateIsHeld
<1> QED  BY <1>1, OrderInvariance, PTL

\* Such a receiver accepts no number twice, also when it has thrown the state
\* away since: what AlreadyReceived cannot see any more is too old to arrive.
THEOREM NothingIsAcceptedTwice == ASSUME StatesClosed PROVE Spec => AcceptedOnce
<1>1. ASSUME IInv, OInv, [Next]_vars, NEW e \in Endpoint \ Reordering, NEW n \in accepted[e]
      PROVE  Times(receivedState'[e], n) <= Times(receivedState[e], n)
  <2>1. Times(receivedState[e], n) \in Nat
    <3>1. receivedState[e] \in Queue(State(Peer(e)))
      BY <1>1 DEF IInv, TypeOK, ReceiverTypeOK, Queue, TimestampedState
    <3> QED  BY <3>1, TimesType
  <2>2. CASE receivedState'[e] = receivedState[e]
    BY <2>1, <2>2
  <2>3. CASE Recv(e)
    <3>1. PICK m \in Deliverable(e) : ProcessPayload(e, network[e][m])
      BY <2>3 DEF Recv
    <3> QED  BY <1>1, <3>1, RecvTakesInOrder DEF TakesInOrder
  <2>4. ASSUME NEW x \in Endpoint, x # e, Recv(x) PROVE receivedState'[e] = receivedState[e]
    <3>1. PICK m \in Deliverable(x) : ProcessPayload(x, network[x][m])
      BY <2>4 DEF Recv
    <3>2. network[x][m] \in Instruction(Peer(x))
      BY <1>1, UnderWay DEF Deliverable, IInv
    <3>3. ReceiveOutcome(x, network[x][m])
      BY <1>1, <3>1, <3>2, ProcessPayloadReceives DEF IInv
    <3> QED  BY <2>4, <3>3 DEF ReceiveOutcome, OnlyAt
  <2>5. ASSUME NEW x \in Endpoint, TickAssumingNewest(x) \/ TickAssumingOldest(x)
        PROVE  receivedState'[e] = receivedState[e]
    BY <1>1, <2>5, BothTicksSend DEF TickOutcome, receiverVars
  <2>6. ASSUME NEW x \in Endpoint, Input(x) \/ Lose(x) \/ StartShutdown(x) \/ End(x) \/ Abort(x)
        PROVE  receivedState'[e] = receivedState[e]
    BY <1>1, <2>6, OthersAreQuiet DEF IInv, Quiet
  <2>7. UNCHANGED vars => receivedState'[e] = receivedState[e]
    BY DEF vars, receiverVars
  <2> QED  BY <1>1, <2>2, <2>3, <2>4, <2>5, <2>6, <2>7 DEF Next
<1>2. IInv /\ OInv /\ [Next]_vars =>
        [\A e \in Endpoint \ Reordering : \A n \in accepted[e] :
           Times(receivedState'[e], n) <= Times(receivedState[e], n)]_vars
  BY <1>1
<1> QED  BY <1>2, OrderInvariance, PTL DEF Spec, AcceptedOnce
=============================================================================
