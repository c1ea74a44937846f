------------------------- MODULE MainServer_proofs -------------------------
(***************************************************************************)
(* What the main server keeps true for every number of children, workers   *)
(* and attempts and whatever ports other programs use.                     *)
(***************************************************************************)
EXTENDS MainServer, TLAPS, SequenceTheorems, FiniteSetTheorems, FunctionTheorems,
        WellFoundedInduction

-----------------------------------------------------------------------------
(* The inductive invariant, in named parts.                                *)

Stage  == {"unborn", "starting", "keyed", "serving", "gone"}
Shell  == {"no", "gated", "released", "refused", "started", "running", "over"}
Process == [port : Nat, stage : Stage, serve : {"no", "running", "ended"}, shell : Shell,
            term : BOOLEAN]

\* A table of workers: finitely many ports, each with a worker.
Table(w) ==
  /\ w = [p \in DOMAIN w |-> w[p]]
  /\ DOMAIN w \subseteq Port /\ IsFiniteSet(DOMAIN w)
  /\ \A p \in DOMAIN w : w[p] \in Worker

\* TypeOK, with the shape of what it only mentions by its fields, and that a
\* process that runs has a port.
Types ==
  /\ pc \in {"run", "read", "wait", "stopping", "done", "panic"}
  /\ Table(workers)
  /\ opening \in Child \cup {None} /\ (opening # None <=> pc = "wait")
  /\ uxdown \in BOOLEAN
  /\ exChan \in Seq(Messages) /\ Len(exChan) <= 1 /\ uxSock \in Seq(Messages)
  /\ ux \in {"check", "read", "forward", "done"} /\ (ux = "forward" => uxSock # <<>>)
  /\ child \in [Child -> Process]
  /\ \A c \in Child : Alive(c) => child[c].port \in Port
  /\ foreign \in Foreign
  /\ answers \subseteq [child : Child, key : Child \cup {None}]
  /\ mishaps \subseteq {"placeholder", "timeout", "silent end", "shell missed"}

\* The messages under way, in the order in which run will see them.
Pending == exChan \o uxSock

\* Every message under way is about the worker at its port.
AboutWorkers ==
  \A i \in DOMAIN Pending :
    LET m == Pending[i]
    IN  /\ m.port \in DOMAIN workers /\ workers[m.port].child # None
        /\ \/ m.about = workers[m.port].child
           \/ m.header = "shell" /\ m.about = None

\* The report of its end is the last thing a process says.
RunIsLast ==
  \A i \in DOMAIN Pending : Pending[i].header = "run" =>
    /\ child[Pending[i].about].stage = "gone"
    /\ \A j \in DOMAIN Pending : i < j => Pending[j].port # Pending[i].port

\* A process that runs is the worker at its port, with its own shell.
Attached ==
  /\ \A c \in Child : Alive(c) => /\ child[c].port \in DOMAIN workers
                                  /\ workers[child[c].port].child = c
  /\ \A p \in DOMAIN workers : workers[p].shell \in {None, workers[p].child}

Sessions == "timeout" \notin mishaps => AboutWorkers /\ RunIsLast /\ Attached

\* While every request has been answered with a key, the only key under way
\* is that of the session being opened, and so is the only process that has
\* not sent its key.
KeysAreAwaited ==
  /\ \A a \in answers : a.key = a.child
  /\ \A c \in Child : child[c].stage = "starting" => c = opening
  /\ \A i \in DOMAIN Pending : Pending[i].header = "key" =>
       /\ Pending[i].about = opening /\ child[opening].stage # "starting"
       /\ \A j \in DOMAIN Pending : Pending[j].header = "key" => i = j

Keys ==
  "timeout" \notin mishaps /\ (\A a \in answers : a.key # None) => KeysAreAwaited

IInv == Types /\ Sessions /\ Keys /\ WorkersAreLimited

-----------------------------------------------------------------------------
(* Numbers.                                                                *)

\* A nonempty set of numbers has a least element, and Min chooses it.
LEMMA LeastPort ==
  ASSUME NEW T, T \subseteq Nat, T # {}
  PROVE  Min(T) \in T /\ \A y \in T : Min(T) <= y
<1> DEFINE Below == {pair \in Nat \X Nat : pair[1] < pair[2]}
<1>1. IsWellFoundedOn(Below, Nat)
  BY NatLessThanWellFounded, Zenon DEF OpToRel
<1>2. \A x, y \in Nat : <<x, y>> \in Below <=> x < y
  OBVIOUS
<1> HIDE DEF Below
<1>3. PICK x \in T : \A y \in T : ~(<<y, x>> \in Below)
  BY <1>1, WFMin
<1>4. ASSUME NEW y \in T PROVE x <= y
  <2>1. x \in Nat /\ y \in Nat /\ ~(y < x)
    BY <1>2, <1>3
  <2> QED  BY <2>1
<1> QED  BY <1>4 DEF Min

-----------------------------------------------------------------------------
(* The ports in use, in order.                                             *)

\* Some function counts the elements of D up in order.
Enumerates(s, n, D) == s \in [1..n -> D] /\ \A i, j \in 1..n : i < j => s[i] < s[j]

\* Finitely many ports can be put in order (sort.Ints).  There is no least
\* number of ports for which they could not: take the least port out.
LEMMA PortsCanBeSorted ==
  ASSUME NEW D, D \subseteq Nat, IsFiniteSet(D)
  PROVE  \E s : Enumerates(s, Cardinality(D), D)
<1> DEFINE Sortable(S) == \E s : Enumerates(s, Cardinality(S), S)
           Bad == {n \in Nat : \E S \in SUBSET Nat :
                     IsFiniteSet(S) /\ Cardinality(S) = n /\ ~Sortable(S)}
<1>1. SUFFICES ASSUME ~Sortable(D) PROVE FALSE
  OBVIOUS
<1>2. Cardinality(D) \in Nat
  BY FS_CardinalityType
<1>3. Bad # {} /\ Bad \subseteq Nat
  BY <1>1, <1>2
<1>4. PICK n \in Bad : \A k \in Bad : n <= k
  <2> HIDE DEF Bad
  <2> QED  BY <1>3, LeastPort
<1>5. PICK S \in SUBSET Nat : IsFiniteSet(S) /\ Cardinality(S) = n /\ ~Sortable(S)
  BY <1>4
<1>6. CASE n = 0
  <2>1. S = {}
    BY <1>5, <1>6, FS_EmptySet
  <2>2. Enumerates([i \in 1..0 |-> 0], 0, S)
    BY DEF Enumerates
  <2> QED  BY <1>5, <1>6, <2>2
<1>7. CASE n # 0
  <2> DEFINE m == Min(S)
             R == S \ {m}
  <2>0. n \in Nat /\ n - 1 \in Nat
    BY <1>7
  <2>1. S # {}
    BY <1>5, <1>7, FS_EmptySet
  <2>2. m \in S /\ \A y \in S : m <= y
    BY <2>1, LeastPort
  <2> HIDE DEF m
  <2>3. R \in SUBSET Nat /\ IsFiniteSet(R) /\ Cardinality(R) = n - 1
    BY <1>5, <2>2, FS_RemoveElement
  <2>4. n - 1 \notin Bad
    <3> HIDE DEF Bad
    <3> QED  BY <1>4, <2>0
  <2>5. Sortable(R)
    BY <2>0, <2>3, <2>4
  <2>6. PICK r : Enumerates(r, n - 1, R)
    BY <2>3, <2>5
  <2> DEFINE s == [i \in 1..n |-> IF i = 1 THEN m ELSE r[i - 1]]
  <2>7. ASSUME NEW i \in 1..n, i # 1
        PROVE  i - 1 \in 1..n - 1 /\ s[i] = r[i - 1] /\ s[i] \in R
    <3>1. i - 1 \in 1..n - 1
      BY <2>0, <2>7
    <3> QED  BY <2>6, <2>7, <3>1 DEF Enumerates
  <2>8. s \in [1..n -> S]
    BY <2>2, <2>7
  <2>9. ASSUME NEW i \in 1..n, NEW j \in 1..n, i < j PROVE s[i] < s[j]
    <3>0. j # 1 /\ i \in Nat /\ j \in Nat
      BY <2>0, <2>9
    <3>1. s[j] \in R /\ s[j] = r[j - 1] /\ j - 1 \in 1..n - 1
      BY <2>7, <3>0
    <3>2. CASE i = 1
      <4>1. s[i] = m
        BY <3>2
      <4>2. m \in Nat /\ s[j] \in Nat /\ m <= s[j] /\ m # s[j]
        <5> HIDE DEF s
        <5> QED  BY <2>2, <3>1
      <4> HIDE DEF s
      <4> QED  BY <4>1, <4>2
    <3>3. CASE i # 1
      <4>1. s[i] = r[i - 1] /\ i - 1 \in 1..n - 1
        BY <2>7, <3>3
      <4>2. i - 1 < j - 1
        BY <2>9, <3>0
      <4> HIDE DEF s
      <4> QED  BY <2>6, <3>1, <4>1, <4>2 DEF Enumerates
    <3> QED  BY <3>2, <3>3
  <2>10. Enumerates(s, n, S)
    <3> HIDE DEF s
    <3> QED  BY <2>8, <2>9 DEF Enumerates
  <2> HIDE DEF s
  <2> QED  BY <1>5, <2>10
<1> QED  BY <1>6, <1>7

\* What sort.Ints leaves: every port in use, in order.
LEMMA PortsAreSorted ==
  ASSUME NEW w, DOMAIN w \subseteq Port, IsFiniteSet(DOMAIN w)
  PROVE  /\ Cardinality(DOMAIN w) \in Nat
         /\ Enumerates(Ports(w), Cardinality(DOMAIN w), DOMAIN w)
         /\ \A p \in DOMAIN w : \E i \in 1..Cardinality(DOMAIN w) : Ports(w)[i] = p
<1> DEFINE D == DOMAIN w
           n == Cardinality(D)
           s == Ports(w)
<1>1. n \in Nat /\ D \subseteq Nat
  BY FS_CardinalityType DEF Port
<1>2. Enumerates(s, n, D)
  <2>1. \E t \in [1..n -> D] : \A i, j \in DOMAIN t : i < j => t[i] < t[j]
    <3>1. PICK t : Enumerates(t, n, D)
      BY <1>1, PortsCanBeSorted
    <3>2. t \in [1..n -> D] /\ DOMAIN t = 1..n
      BY <3>1 DEF Enumerates
    <3> QED  BY <3>1, <3>2 DEF Enumerates
  <2>2. s \in [1..n -> D] /\ \A i, j \in DOMAIN s : i < j => s[i] < s[j]
    BY <2>1, Zenon DEF Ports
  <2> HIDE DEF s, n
  <2>3. DOMAIN s = 1..n
    BY <2>2
  <2> QED  BY <2>2, <2>3 DEF Enumerates
<1> HIDE DEF s, n
<1>3. s \in Injection(1..n, D)
  <2>1. s \in [1..n -> D]
    BY <1>2 DEF Enumerates
  <2>2. ASSUME NEW a \in 1..n, NEW b \in 1..n, s[a] = s[b] PROVE a = b
    <3>1. a \in Nat /\ b \in Nat /\ s[a] \in Nat /\ s[b] \in Nat
      BY <1>1, <2>1
    <3>2. ~(s[a] < s[b]) /\ ~(s[b] < s[a])
      BY <2>2, <3>1
    <3>3. ~(a < b) /\ ~(b < a)
      BY <1>2, <3>2 DEF Enumerates
    <3> QED  BY <3>1, <3>3
  <2> QED  BY <2>1, <2>2, Fun_IsInj
<1>4. Cardinality(1..n) = n
  BY <1>1, FS_Interval
<1>5. s \in Surjection(1..n, D)
  BY <1>3, <1>4, FS_Injection DEF n
<1>6. \A p \in D : \E i \in 1..n : s[i] = p
  BY <1>5 DEF Surjection
<1> QED  BY <1>1, <1>2, <1>6 DEF s, n

\* Ports in order are not below their positions.
LEMMA PortsAreNotBelow ==
  ASSUME NEW n \in Nat, NEW D, D \subseteq Port, NEW s, Enumerates(s, n, D)
  PROVE  \A i \in 1..n : s[i] \in Nat /\ i <= s[i]
<1> DEFINE Bad == {i \in 1..n : ~(i <= s[i])}
<1>0. \A i \in 1..n : s[i] \in Nat \ {0}
  BY DEF Enumerates, Port
<1>1. SUFFICES ASSUME Bad # {} PROVE FALSE
  BY <1>0
<1>2. Bad \subseteq Nat
  OBVIOUS
<1>3. PICK i \in Bad : \A k \in Bad : i <= k
  <2> HIDE DEF Bad
  <2> QED  BY <1>1, <1>2, LeastPort
<1>4. i \in 1..n /\ i \in Nat /\ ~(i <= s[i]) /\ s[i] \in Nat \ {0}
  BY <1>0, <1>3
<1>5. i # 1
  BY <1>4
<1>6. i - 1 \in 1..n /\ i - 1 < i
  BY <1>4, <1>5
<1>7. i - 1 \notin Bad
  <2> HIDE DEF Bad
  <2> QED  BY <1>3, <1>4, <1>6
<1>8. i - 1 <= s[i - 1] /\ s[i - 1] < s[i] /\ s[i - 1] \in Nat
  BY <1>0, <1>4, <1>6, <1>7 DEF Enumerates
<1> QED  BY <1>4, <1>8

\* The empty table has no ports.
LEMMA EmptyTable ==
  ASSUME NEW w, w = [p \in DOMAIN w |-> w[p]]
  PROVE  w = <<>> <=> DOMAIN w = {}
  OBVIOUS

\* getAvailabePort returns the least port that is not in use.
LEMMA LeastAvailable ==
  ASSUME NEW w, Table(w)
  PROVE  /\ GetAvailabePort(w) \in Port \ DOMAIN w
         /\ 1..GetAvailabePort(w) - 1 \subseteq DOMAIN w
<1> DEFINE D == DOMAIN w
           n == Cardinality(D)
           s == Ports(w)
           gaps == {i \in DOMAIN s : i < s[i]}
<1>0. D \subseteq Port /\ IsFiniteSet(D) /\ D \subseteq Nat \ {0}
  BY DEF Table, Port
<1>1. n \in Nat /\ Enumerates(s, n, D) /\ \A p \in D : \E i \in 1..n : s[i] = p
  BY <1>0, PortsAreSorted
<1>2. w = <<>> <=> D = {}
  BY EmptyTable DEF Table
<1>3. GetAvailabePort(w) = IF w = <<>> THEN 1
                           ELSE IF gaps # {} THEN Min(gaps) ELSE s[Len(s)] + 1
  BY DEF GetAvailabePort
<1> HIDE DEF s, n
<1>4. \A i \in 1..n : s[i] \in Nat /\ i <= s[i] /\ s[i] \in D
  BY <1>0, <1>1, PortsAreNotBelow DEF Enumerates
<1>5. s \in Seq(D) /\ Len(s) = n /\ DOMAIN s = 1..n
  BY <1>1 DEF Enumerates
<1>6. CASE w = <<>>
  BY <1>2, <1>3, <1>6 DEF Port
<1>7. CASE w # <<>> /\ gaps # {}
  <2> DEFINE g == Min(gaps)
  <2>1. gaps \subseteq Nat
    BY <1>5
  <2>2. g \in gaps /\ \A i \in gaps : g <= i
    <3> HIDE DEF gaps
    <3> QED  BY <1>7, <2>1, LeastPort
  <2> HIDE DEF g
  <2>3. g \in 1..n /\ g \in Nat \ {0} /\ g < s[g]
    BY <1>5, <2>2
  <2>4. \A i \in 1..g - 1 : i \in 1..n /\ s[i] = i
    <3> SUFFICES ASSUME NEW i \in 1..g - 1 PROVE i \in 1..n /\ s[i] = i
      OBVIOUS
    <3>1. i \in 1..n /\ i \in Nat /\ ~(g <= i)
      BY <1>1, <2>3
    <3>2. ~(i < s[i])
      BY <1>5, <2>2, <3>1
    <3> QED  BY <1>4, <3>1, <3>2
  <2>5. g \notin D
    <3> SUFFICES ASSUME g \in D PROVE FALSE
      OBVIOUS
    <3>1. PICK i \in 1..n : s[i] = g
      BY <1>1
    <3>2. i \in Nat /\ (i < g => s[i] = i)
      BY <1>1, <2>3, <2>4
    <3>3. CASE i < g
      BY <3>1, <3>2, <3>3
    <3>4. CASE i = g
      BY <2>3, <3>1, <3>4
    <3>5. CASE g < i
      <4>1. s[g] < s[i]
        BY <1>1, <2>3, <3>5 DEF Enumerates
      <4> QED  BY <1>4, <2>3, <3>1, <4>1
    <3> QED  BY <2>3, <3>2, <3>3, <3>4, <3>5
  <2>6. 1..g - 1 \subseteq D
    BY <1>4, <2>4
  <2>7. GetAvailabePort(w) = g
    BY <1>3, <1>7 DEF g
  <2> QED  BY <2>3, <2>5, <2>6, <2>7 DEF Port
<1>8. CASE w # <<>> /\ gaps = {}
  <2>1. n \in Nat \ {0}
    <3>1. n # 0
      BY <1>0, <1>2, <1>8, FS_EmptySet DEF n
    <3> QED  BY <1>1, <3>1
  <2>2. \A i \in 1..n : s[i] = i
    <3> SUFFICES ASSUME NEW i \in 1..n PROVE s[i] = i
      OBVIOUS
    <3>1. ~(i < s[i])
      BY <1>5, <1>8
    <3> QED  BY <1>4, <3>1
  <2>3. GetAvailabePort(w) = n + 1
    BY <1>3, <1>5, <1>8, <2>1, <2>2
  <2>4. n + 1 \notin D
    <3> SUFFICES ASSUME n + 1 \in D PROVE FALSE
      OBVIOUS
    <3>1. PICK i \in 1..n : s[i] = n + 1
      BY <1>1
    <3> QED  BY <1>1, <2>2, <3>1
  <2>5. 1..n + 1 - 1 \subseteq D
    BY <1>1, <1>4, <2>2
  <2> QED  BY <2>1, <2>3, <2>4, <2>5 DEF Port
<1> QED  BY <1>6, <1>7, <1>8

-----------------------------------------------------------------------------
(* The table of workers.                                                   *)

\* A worker is added at a port that is not in use.
LEMMA WithAdds ==
  ASSUME NEW w, Table(w), NEW p \in Port \ DOMAIN w, NEW entry \in Worker
  PROVE  /\ Table(With(w, p, entry)) /\ DOMAIN With(w, p, entry) = DOMAIN w \cup {p}
         /\ With(w, p, entry)[p] = entry /\ \A q \in DOMAIN w : With(w, p, entry)[q] = w[q]
         /\ Cardinality(DOMAIN With(w, p, entry)) = Cardinality(DOMAIN w) + 1
<1> DEFINE v == With(w, p, entry)
<1>1. v = [q \in DOMAIN w \cup {p} |-> IF q = p THEN entry ELSE w[q]]
  BY DEF With
<1>2. /\ DOMAIN v = DOMAIN w \cup {p} /\ v[p] = entry /\ v = [q \in DOMAIN v |-> v[q]]
      /\ \A q \in DOMAIN w : v[q] = w[q]
  BY <1>1
<1> HIDE DEF v
<1>3. IsFiniteSet(DOMAIN v) /\ Cardinality(DOMAIN v) = Cardinality(DOMAIN w) + 1
  BY <1>2, FS_AddElement DEF Table
<1>4. DOMAIN v \subseteq Port /\ \A q \in DOMAIN v : v[q] \in Worker
  BY <1>2 DEF Table
<1> QED  BY <1>2, <1>3, <1>4 DEF Table, v

\* A worker is removed.
LEMMA WithoutRemoves ==
  ASSUME NEW w, Table(w), NEW p \in DOMAIN w
  PROVE  /\ Table(Without(w, p)) /\ DOMAIN Without(w, p) = DOMAIN w \ {p}
         /\ \A q \in DOMAIN w \ {p} : Without(w, p)[q] = w[q]
         /\ Cardinality(DOMAIN Without(w, p)) = Cardinality(DOMAIN w) - 1
<1> DEFINE v == Without(w, p)
<1>1. v = [q \in DOMAIN w \ {p} |-> w[q]]
  BY DEF Without, Restrict
<1>2. /\ DOMAIN v = DOMAIN w \ {p} /\ v = [q \in DOMAIN v |-> v[q]]
      /\ \A q \in DOMAIN w \ {p} : v[q] = w[q]
  BY <1>1
<1> HIDE DEF v
<1>3. IsFiniteSet(DOMAIN v) /\ Cardinality(DOMAIN v) = Cardinality(DOMAIN w) - 1
  BY <1>2, FS_RemoveElement DEF Table
<1>4. DOMAIN v \subseteq Port /\ \A q \in DOMAIN v : v[q] \in Worker
  BY <1>2 DEF Table
<1> QED  BY <1>2, <1>3, <1>4 DEF Table, v

\* One more attempt in vain.
TryAgain(w) == With(w, GetAvailabePort(w), Placeholder)

\* f is the course of n attempts in vain.
Course(f, n) == f = [k \in 0..n |-> IF k = 0 THEN workers ELSE TryAgain(f[k - 1])]

\* startChild's loop: each attempt in vain adds a placeholder to the workers
\* that the one before it left.
LEMMA TriedUnfolds ==
  /\ Tried[0] = workers
  /\ \A n \in 1..Attempts : Tried[n] = TryAgain(Tried[n - 1])
<1> DEFINE Bad == {n \in 0..Attempts : ~ \E f : Course(f, n)}
<1>0. Attempts \in Nat \ {0}
  BY MainServerAssumption
<1>1. Bad = {}
  <2> SUFFICES ASSUME Bad # {} PROVE FALSE
    OBVIOUS
  <2>1. Bad \subseteq Nat
    BY <1>0
  <2>2. PICK n \in Bad : \A k \in Bad : n <= k
    <3> HIDE DEF Bad
    <3> QED  BY <2>1, LeastPort
  <2>3. n \in 0..Attempts /\ n \in Nat
    BY <1>0, <2>2
  <2>4. CASE n = 0
    <3>1. Course([k \in 0..0 |-> workers], 0)
      <4> DEFINE f == [k \in 0..0 |-> workers]
      <4>1. \A k \in 0..0 : f[k] = IF k = 0 THEN workers ELSE TryAgain(f[k - 1])
        OBVIOUS
      <4> QED  BY <4>1 DEF Course
    <3> QED  BY <2>2, <2>4, <3>1
  <2>5. CASE n # 0
    <3>1. n - 1 \in 0..Attempts /\ ~(n <= n - 1)
      BY <1>0, <2>3, <2>5
    <3>2. n - 1 \notin Bad
      <4> HIDE DEF Bad
      <4> QED  BY <2>2, <3>1
    <3>3. PICK f : Course(f, n - 1)
      BY <3>1, <3>2
    <3> DEFINE g == [k \in 0..n |-> IF k = n THEN TryAgain(f[n - 1]) ELSE f[k]]
    <3>4. ASSUME NEW k \in 0..n
          PROVE  g[k] = IF k = 0 THEN workers ELSE TryAgain(g[k - 1])
      <4>1. CASE k = n
        <5>1. n - 1 \in 0..n /\ n - 1 # n
          BY <2>3, <2>5
        <5>2. g[k] = TryAgain(f[n - 1]) /\ g[n - 1] = f[n - 1]
          BY <4>1, <5>1
        <5> HIDE DEF g
        <5> QED  BY <2>5, <4>1, <5>2
      <4>2. CASE k # n
        <5>1. k \in 0..n - 1 /\ (k # 0 => k - 1 \in 0..n /\ k - 1 # n)
          BY <2>3, <4>2
        <5>2. f[k] = IF k = 0 THEN workers ELSE TryAgain(f[k - 1])
          BY <3>3, <5>1 DEF Course
        <5>3. g[k] = f[k] /\ (k # 0 => g[k - 1] = f[k - 1])
          BY <4>2, <5>1
        <5> HIDE DEF g
        <5> QED  BY <5>2, <5>3
      <4> QED  BY <4>1, <4>2
    <3>5. Course(g, n)
      <4>1. g = [k \in 0..n |-> g[k]]
        OBVIOUS
      <4> HIDE DEF g
      <4> QED  BY <3>4, <4>1 DEF Course
    <3> HIDE DEF g
    <3> QED  BY <2>2, <3>5
  <2> QED  BY <2>4, <2>5
<1>2. Attempts \in 0..Attempts
  BY <1>0
<1>3. \E f : Course(f, Attempts)
  BY <1>1, <1>2
<1>4. Course(Tried, Attempts)
  <2>1. Tried = CHOOSE f : f = [n \in 0..Attempts |->
                                  IF n = 0 THEN workers
                                  ELSE With(f[n - 1], GetAvailabePort(f[n - 1]), Placeholder)]
    BY Zenon DEF Tried
  <2> QED  BY <1>3, <2>1, Zenon DEF Course, TryAgain
<1> HIDE DEF Bad
<1>5. \A n \in 0..Attempts : Tried[n] = IF n = 0 THEN workers ELSE TryAgain(Tried[n - 1])
  BY <1>4 DEF Course
<1> QED  BY <1>0, <1>5

\* v is w with k placeholders more.
Extends(v, w, k) ==
  /\ Table(v) /\ DOMAIN w \subseteq DOMAIN v
  /\ \A q \in DOMAIN w : v[q] = w[q]
  /\ \A q \in DOMAIN v \ DOMAIN w : v[q] = Placeholder
  /\ Cardinality(DOMAIN v) = Cardinality(DOMAIN w) + k

\* A table has a number of ports, and a placeholder is a worker.
LEMMA TableSize ==
  /\ \A w : Table(w) => Cardinality(DOMAIN w) \in Nat
  /\ Placeholder \in Worker /\ \A c \in Child : [child |-> c, shell |-> None] \in Worker
<1>1. \A w : Table(w) => Cardinality(DOMAIN w) \in Nat
  BY FS_CardinalityType DEF Table
<1> QED  BY <1>1 DEF Placeholder, Worker

\* The attempts in vain leave the workers as they are and add placeholders.
LEMMA TriedExtends ==
  ASSUME Table(workers)
  PROVE  \A n \in 0..Attempts : Extends(Tried[n], workers, n)
<1> DEFINE Bad == {n \in 0..Attempts : ~Extends(Tried[n], workers, n)}
<1>0. Attempts \in Nat \ {0} /\ Cardinality(DOMAIN workers) \in Nat
  BY MainServerAssumption, TableSize
<1> SUFFICES ASSUME Bad # {} PROVE FALSE
  OBVIOUS
<1>1. Bad \subseteq Nat
  BY <1>0
<1>2. PICK n \in Bad : \A k \in Bad : n <= k
  <2> HIDE DEF Bad
  <2> QED  BY <1>1, LeastPort
<1>3. n \in 0..Attempts /\ n \in Nat /\ ~Extends(Tried[n], workers, n)
  BY <1>0, <1>2
<1>4. CASE n = 0
  <2>1. Tried[n] = workers
    BY <1>4, TriedUnfolds
  <2> QED  BY <1>0, <1>3, <1>4, <2>1 DEF Extends
<1>5. CASE n # 0
  <2> DEFINE w == Tried[n - 1]
             p == GetAvailabePort(w)
  <2>1. n - 1 \in 0..Attempts /\ ~(n <= n - 1) /\ n \in 1..Attempts
    BY <1>0, <1>3, <1>5
  <2>2. n - 1 \notin Bad
    <3> HIDE DEF Bad
    <3> QED  BY <1>2, <2>1
  <2>3. Extends(w, workers, n - 1)
    BY <2>1, <2>2
  <2>4. Tried[n] = With(w, p, Placeholder)
    BY <2>1, TriedUnfolds DEF TryAgain
  <2> HIDE DEF w
  <2>5. Table(w) /\ p \in Port \ DOMAIN w
    BY <2>3, LeastAvailable DEF Extends
  <2> HIDE DEF p
  <2> DEFINE v == With(w, p, Placeholder)
  <2>6. /\ Table(v) /\ DOMAIN v = DOMAIN w \cup {p} /\ v[p] = Placeholder
        /\ \A q \in DOMAIN w : v[q] = w[q]
        /\ Cardinality(DOMAIN v) = Cardinality(DOMAIN w) + 1
    <3>1. Placeholder \in Worker
      BY TableSize
    <3> QED  BY <2>5, <3>1, WithAdds
  <2> HIDE DEF v
  <2>7. Cardinality(DOMAIN v) = Cardinality(DOMAIN workers) + n
    BY <1>0, <1>3, <2>3, <2>6 DEF Extends
  <2>8. Extends(v, workers, n)
    BY <2>3, <2>6, <2>7 DEF Extends
  <2> QED  BY <1>3, <2>4, <2>8 DEF v
<1> QED  BY <1>4, <1>5

\* The loop settles a port after fewer attempts in vain than it makes.
LEMMA InVainType == InVain \in 0..Attempts - 1
<1> DEFINE T == {n \in 0..Attempts - 1 :
                   n = Attempts - 1 \/ CheckPortAvailable(GetAvailabePort(Tried[n]))}
<1>1. Attempts - 1 \in T /\ T \subseteq Nat
  BY MainServerAssumption
<1>2. Min(T) \in T
  <2> HIDE DEF T
  <2> QED  BY <1>1, LeastPort
<1>3. InVain = Min(T)
  BY Zenon DEF InVain
<1> QED  BY <1>2, <1>3

\* The port startChild settles on and the workers it finds then.
LEMMA StartChildPort ==
  ASSUME Table(workers)
  PROVE  LET w == Tried[InVain]
             p == GetAvailabePort(w)
         IN  \E k \in 0..Attempts - 1 : Extends(w, workers, k) /\ p \in Port \ DOMAIN w
<1> DEFINE w == Tried[InVain]
<1>1. InVain \in 0..Attempts - 1 /\ InVain \in 0..Attempts
  BY InVainType, MainServerAssumption
<1>2. Extends(w, workers, InVain)
  BY <1>1, TriedExtends
<1> HIDE DEF w
<1>3. GetAvailabePort(w) \in Port \ DOMAIN w
  BY <1>2, LeastAvailable DEF Extends
<1> QED  BY <1>1, <1>2, <1>3 DEF w

-----------------------------------------------------------------------------
(* Messages.                                                               *)

Mishap == {"placeholder", "timeout", "silent end", "shell missed"}

\* The fields of a worker, of a message and of a process.
LEMMA Fields ==
  /\ \A w \in Worker : w.child \in Child \cup {None} /\ w.shell \in Child \cup {None}
  /\ \A m \in Messages : /\ m.header \in {"key", "shell", "serve", "run"} /\ m.port \in Port
                         /\ m.about \in Child \cup {None}
  /\ NotYet \in Process /\ Gone \in Process /\ None \notin Child
  /\ Gone.stage = "gone" /\ NotYet.stage = "unborn"
<1>1. /\ \A w \in Worker : w.child \in Child \cup {None} /\ w.shell \in Child \cup {None}
      /\ \A m \in Messages : /\ m.header \in {"key", "shell", "serve", "run"} /\ m.port \in Port
                             /\ m.about \in Child \cup {None}
  BY DEF Worker, Messages
<1>2. NotYet \in Process /\ NotYet.stage = "unborn"
  BY DEF NotYet, Process, Stage, Shell, None
<1>3. Gone \in Process /\ Gone.stage = "gone"
  BY <1>2 DEF Gone, Process, Stage, NotYet
<1>4. None \notin Child
  BY DEF None, Child
<1> QED  BY <1>1, <1>2, <1>3, <1>4

\* handleMessage: at most the worker of the message goes, and only its shell
\* changes; of the processes only a shell ends.
LEMMA HandleMessageEffect ==
  ASSUME Types, NEW msg \in Messages, HandleMessage(msg)
  PROVE  /\ Table(workers') /\ DOMAIN workers' \subseteq DOMAIN workers
         /\ Cardinality(DOMAIN workers') <= Cardinality(DOMAIN workers)
         /\ \A q \in DOMAIN workers' : workers'[q].child = workers[q].child
         /\ \A q \in DOMAIN workers' :
              \/ workers'[q].shell = workers[q].shell
              \/ q = msg.port /\ msg.header = "shell" /\ workers'[q].shell = msg.about
         /\ \A q \in DOMAIN workers : q \in DOMAIN workers' \/ (q = msg.port /\ msg.header = "run")
         /\ msg.header = "run" => msg.port \notin DOMAIN workers'
         /\ child' \in [Child -> Process]
         /\ \A c \in Child : child'[c].stage = child[c].stage /\ child'[c].port = child[c].port
         /\ mishaps' \subseteq Mishap /\ ("timeout" \in mishaps' <=> "timeout" \in mishaps)
<1>0. /\ Table(workers) /\ child \in [Child -> Process] /\ mishaps \subseteq Mishap
      /\ Cardinality(DOMAIN workers) \in Nat
  BY TableSize DEF Types, Mishap
<1>1. CASE msg.port \notin DOMAIN workers
  <2>1. UNCHANGED <<workers, child, mishaps>>
    BY <1>1 DEF HandleMessage
  <2> QED  BY <1>0, <1>1, <2>1
<1>2. CASE msg.port \in DOMAIN workers
  <2> DEFINE sh == workers[msg.port].shell
             kill == msg.header = "serve" /\ sh # None
  <2>1. /\ workers' = IF CleanWorker(msg) THEN Without(workers, msg.port)
                      ELSE IF msg.header = "shell"
                           THEN [workers EXCEPT ![msg.port].shell = msg.about]
                           ELSE workers
        /\ child' = IF kill /\ child[sh].shell = "running"
                    THEN [child EXCEPT ![sh].shell = "over"] ELSE child
        /\ mishaps' \in {mishaps, mishaps \cup {"shell missed"}}
    BY <1>2 DEF HandleMessage
  <2>2. sh \in Child \cup {None}
    BY <1>0, <1>2, Fields DEF Table
  <2>3. /\ child' \in [Child -> Process]
        /\ \A c \in Child : child'[c].stage = child[c].stage /\ child'[c].port = child[c].port
    <3> HIDE DEF sh
    <3>1. CASE kill /\ child[sh].shell = "running"
      <4>1. sh \in Child /\ child' = [child EXCEPT ![sh].shell = "over"]
        BY <2>1, <2>2, <3>1
      <4> HIDE DEF kill
      <4>2. child[sh] \in Process
        BY <1>0, <4>1
      <4>3. [child[sh] EXCEPT !.shell = "over"] \in Process
        BY <4>2 DEF Process, Shell
      <4>4. /\ [child[sh] EXCEPT !.shell = "over"].stage = child[sh].stage
            /\ [child[sh] EXCEPT !.shell = "over"].port = child[sh].port
        BY <4>2 DEF Process
      <4> QED  BY <1>0, <4>1, <4>3, <4>4
    <3>2. CASE ~(kill /\ child[sh].shell = "running")
      <4>1. child' = child
        BY <2>1, <3>2
      <4> QED  BY <1>0, <4>1
    <3> QED  BY <3>1, <3>2
  <2>4. mishaps' \subseteq Mishap /\ ("timeout" \in mishaps' <=> "timeout" \in mishaps)
    BY <1>0, <2>1 DEF Mishap
  <2> HIDE DEF kill, sh
  <2>5. CASE msg.header = "run"
    <3>1. workers' = Without(workers, msg.port)
      BY <2>1, <2>5 DEF CleanWorker
    <3>2. /\ Table(workers') /\ DOMAIN workers' = DOMAIN workers \ {msg.port}
          /\ \A q \in DOMAIN workers \ {msg.port} : workers'[q] = workers[q]
          /\ Cardinality(DOMAIN workers') = Cardinality(DOMAIN workers) - 1
      BY <1>0, <1>2, <3>1, WithoutRemoves
    <3>3. Cardinality(DOMAIN workers') <= Cardinality(DOMAIN workers)
      BY <1>0, <3>2
    <3> QED  BY <2>3, <2>4, <2>5, <3>2, <3>3
  <2>6. CASE msg.header = "shell"
    <3>1. workers' = [workers EXCEPT ![msg.port].shell = msg.about]
      BY <2>1, <2>6 DEF CleanWorker
    <3>2. workers[msg.port] \in Worker /\ msg.about \in Child \cup {None}
      BY <1>0, <1>2, Fields DEF Table
    <3>3. [workers[msg.port] EXCEPT !.shell = msg.about] \in Worker
      BY <3>2 DEF Worker
    <3>4. /\ [workers[msg.port] EXCEPT !.shell = msg.about].child = workers[msg.port].child
          /\ [workers[msg.port] EXCEPT !.shell = msg.about].shell = msg.about
      BY <3>2 DEF Worker
    <3>5. workers \in [DOMAIN workers -> Worker]
      BY <1>0 DEF Table
    <3>6. /\ workers' \in [DOMAIN workers -> Worker]
          /\ workers'[msg.port] = [workers[msg.port] EXCEPT !.shell = msg.about]
          /\ \A q \in DOMAIN workers : q # msg.port => workers'[q] = workers[q]
      BY <1>2, <3>1, <3>3, <3>5
    <3>7. DOMAIN workers' = DOMAIN workers /\ workers' = [p \in DOMAIN workers' |-> workers'[p]]
      BY <3>6
    <3>8. Table(workers')
      BY <1>0, <3>6, <3>7 DEF Table
    <3>9. Cardinality(DOMAIN workers') <= Cardinality(DOMAIN workers)
      BY <1>0, <3>7
    <3> QED  BY <2>3, <2>4, <2>6, <3>4, <3>6, <3>7, <3>8, <3>9
  <2>7. CASE msg.header \notin {"run", "shell"}
    <3>1. workers' = workers
      BY <2>1, <2>7 DEF CleanWorker
    <3> QED  BY <1>0, <2>3, <2>4, <2>7, <3>1
  <2> QED  BY <2>5, <2>6, <2>7
<1> QED  BY <1>1, <1>2

-----------------------------------------------------------------------------
(* Processes.                                                              *)

\* The message m is one that the process c, which runs, sends when it gets
\* from one stage to another.
SentBy(m, c) ==
  /\ m \in Messages /\ m.port = child[c].port
  /\ m.about = c \/ (m.header = "shell" /\ m.about = None)
  /\ m.header = "run" => child'[c].stage = "gone"
  /\ m.header = "key" => child[c].stage = "starting" /\ child'[c].stage = "keyed"

\* What a step of the process c may do to the rest.
ProcessStep(c) ==
  /\ Alive(c)
  /\ UNCHANGED <<workers, pc, opening, answers, foreign, exChan, uxdown, ux>>
  /\ child' \in [Child -> Process] /\ \A d \in Child \ {c} : child'[d] = child[d]
  /\ \/ child'[c].stage = "gone"
     \/ child'[c].stage \in {"keyed", "serving"} /\ child'[c].port = child[c].port
  /\ \/ uxSock' = uxSock
     \/ ux # "done" /\ \E m \in Messages : SentBy(m, c) /\ uxSock' = Append(uxSock, m)
  /\ mishaps' \in {mishaps, mishaps \cup {"silent end"}}

\* A report is one more message in the Unix socket, while there is one.
LEMMA ReportAppends ==
  ASSUME Types, NEW m \in Messages, Report(<<m>>)
  PROVE  uxSock' = uxSock \/ (ux # "done" /\ uxSock' = Append(uxSock, m))
<1>1. uxSock \in Seq(Messages)
  BY DEF Types
<1>2. Append(uxSock, m) = uxSock \o <<m>>
  BY <1>1, AppendIsConcat
<1> QED  BY <1>2 DEF Report

\* A process that runs has a port, and so have its messages.
LEMMA MessageType ==
  ASSUME Types, NEW c \in Child, Alive(c), NEW header \in {"key", "shell", "serve", "run"},
         NEW about \in {c, None}
  PROVE  /\ Message(header, c, about) \in Messages
         /\ Message(header, c, about).port = child[c].port
         /\ Message(header, c, about).about = about
         /\ Message(header, c, about).header = header
  BY DEF Types, Message, Messages

\* A field of one process is set.
LEMMA ProcessSet ==
  ASSUME child \in [Child -> Process], NEW c \in Child, NEW r \in Process,
         child' = [child EXCEPT ![c] = r]
  PROVE  /\ child' \in [Child -> Process] /\ \A d \in Child \ {c} : child'[d] = child[d]
         /\ child'[c] = r
  OBVIOUS

\* Every step of runChild is such a step.
LEMMA ProcessSteps ==
  ASSUME Types, NEW c \in Child,
         \/ SendKey(c) \/ OpenPTS(c) \/ Connect(c) \/ ServeEnds(c)
         \/ StartShell(c) \/ ShellExits(c) \/ ChildDone(c) \/ Crash(c)
  PROVE  ProcessStep(c)
<1>0. child \in [Child -> Process] /\ child[c] \in Process /\ Gone \in Process
      /\ Gone.stage = "gone" /\ None \notin Child
  BY Fields DEF Types
<1>1. Alive(c)
  BY DEF SendKey, OpenPTS, Connect, ServeEnds, StartShell, ShellExits, ChildDone, Crash, Alive
<1>2. /\ UNCHANGED <<workers, pc, opening, answers, foreign, exChan, uxdown, ux>>
      /\ mishaps' \in {mishaps, mishaps \cup {"silent end"}}
  BY DEF SendKey, OpenPTS, Connect, ServeEnds, StartShell, ShellExits, ChildDone, Crash,
         ChildStep, mainVars, chanVars
<1> DEFINE Quiet == uxSock' = uxSock
           Says(header, about) == Report(<<Message(header, c, about)>>)
           Ends == child' = [child EXCEPT ![c] = Gone]
<1>3. ASSUME Ends, Quiet \/ Says("run", c)
      PROVE  ProcessStep(c)
  <2>1. /\ child' \in [Child -> Process] /\ \A d \in Child \ {c} : child'[d] = child[d]
        /\ child'[c].stage = "gone"
    BY <1>0, <1>3, ProcessSet
  <2>2. CASE Quiet
    BY <1>1, <1>2, <2>1, <2>2 DEF ProcessStep
  <2>3. CASE Says("run", c)
    <3> DEFINE m == Message("run", c, c)
    <3>1. m \in Messages /\ m.port = child[c].port /\ m.about = c /\ m.header = "run"
      BY <1>1, MessageType
    <3> HIDE DEF m
    <3>2. SentBy(m, c)
      BY <2>1, <3>1 DEF SentBy
    <3>3. uxSock' = uxSock \/ (ux # "done" /\ uxSock' = Append(uxSock, m))
      BY <2>3, <3>1, ReportAppends DEF m
    <3> QED  BY <1>1, <1>2, <2>1, <3>1, <3>2, <3>3 DEF ProcessStep
  <2> QED  BY <1>3, <2>2, <2>3
<1>4. ASSUME NEW r \in Process, child' = [child EXCEPT ![c] = r],
             r.stage \in {"keyed", "serving"}, r.port = child[c].port,
             NEW header \in {"key", "shell", "serve"}, NEW about \in {c, None},
             header # "shell" => about = c,
             header = "key" => child[c].stage = "starting" /\ r.stage = "keyed",
             Quiet \/ Says(header, about)
      PROVE  ProcessStep(c)
  <2>1. /\ child' \in [Child -> Process] /\ \A d \in Child \ {c} : child'[d] = child[d]
        /\ child'[c] = r
    BY <1>0, <1>4, ProcessSet
  <2>2. CASE Quiet
    BY <1>1, <1>2, <1>4, <2>1, <2>2 DEF ProcessStep
  <2>3. CASE Says(header, about)
    <3> DEFINE m == Message(header, c, about)
    <3>1. m \in Messages /\ m.port = child[c].port /\ m.about = about /\ m.header = header
      BY <1>1, MessageType
    <3> HIDE DEF m
    <3>2. SentBy(m, c)
      BY <1>4, <2>1, <3>1 DEF SentBy
    <3>3. uxSock' = uxSock \/ (ux # "done" /\ uxSock' = Append(uxSock, m))
      BY <2>3, <3>1, ReportAppends DEF m
    <3> QED  BY <1>1, <1>2, <1>4, <2>1, <3>1, <3>2, <3>3 DEF ProcessStep
  <2> QED  BY <1>4, <2>2, <2>3
<1> HIDE DEF Quiet, Says, Ends
<1>5. CASE SendKey(c)
  <2> DEFINE r == [child[c] EXCEPT !.stage = "keyed"]
  <2>1. r \in Process /\ r.stage = "keyed" /\ r.port = child[c].port
    BY <1>0 DEF Process, Stage
  <2>2. CASE child' = [child EXCEPT ![c].stage = "keyed"] /\ Says("key", c)
    <3>1. child' = [child EXCEPT ![c] = r] /\ child[c].stage = "starting"
      BY <1>0, <1>5, <2>2 DEF SendKey
    <3> HIDE DEF r
    <3> QED  BY <1>4, <2>1, <2>2, <3>1
  <2>3. CASE Ends /\ Says("run", c)
    BY <1>3, <2>3
  <2> QED  BY <1>5, <2>2, <2>3 DEF SendKey, Says, Ends
<1>6. CASE OpenPTS(c)
  <2> DEFINE r == [child[c] EXCEPT !.stage = "serving", !.serve = "running", !.shell = "gated"]
  <2>1. r \in Process /\ r.stage = "serving" /\ r.port = child[c].port
    BY <1>0 DEF Process, Stage, Shell
  <2>2. CASE child' = [child EXCEPT ![c].stage = "serving", ![c].serve = "running",
                                    ![c].shell = "gated"] /\ Quiet
    <3>1. child' = [child EXCEPT ![c] = r]
      BY <1>0, <2>2
    <3> HIDE DEF r
    <3> QED  BY <1>4, <2>1, <2>2, <3>1
  <2>3. CASE Ends /\ Says("run", c)
    BY <1>3, <2>3
  <2> QED  BY <1>6, <2>2, <2>3 DEF OpenPTS, Says, Ends, Quiet
<1>7. ASSUME NEW sh \in Shell, child[c].stage = "serving",
             child' = [child EXCEPT ![c].shell = sh],
             Quiet \/ Says("shell", None) \/ Says("shell", c)
      PROVE  ProcessStep(c)
  <2> DEFINE r == [child[c] EXCEPT !.shell = sh]
  <2>1. r \in Process /\ r.stage = "serving" /\ r.port = child[c].port
    BY <1>0, <1>7 DEF Process
  <2>2. child' = [child EXCEPT ![c] = r]
    BY <1>0, <1>7
  <2> HIDE DEF r
  <2> QED  BY <1>4, <1>7, <2>1, <2>2
<1>8. CASE Connect(c) \/ StartShell(c) \/ ShellExits(c)
  BY <1>7, <1>8 DEF Connect, StartShell, ShellExits, Shell, Quiet, Says
<1>9. CASE ServeEnds(c)
  <2> DEFINE sh == IF child[c].shell = "gated" THEN "refused" ELSE child[c].shell
             r == [child[c] EXCEPT !.serve = "ended", !.term = FALSE, !.shell = sh]
  <2>1. child[c].stage = "serving" /\ Says("serve", c)
    BY <1>9 DEF ServeEnds, Says
  <2>2. sh \in Shell
    BY <1>0 DEF Process, Shell
  <2>3. child' = [child EXCEPT ![c] = r]
    BY <1>0, <1>9 DEF ServeEnds
  <2> HIDE DEF sh
  <2>4. r \in Process /\ r.stage = "serving" /\ r.port = child[c].port
    BY <1>0, <2>1, <2>2 DEF Process
  <2> HIDE DEF r
  <2> QED  BY <1>4, <2>1, <2>3, <2>4
<1>10. CASE ChildDone(c) \/ Crash(c)
  BY <1>3, <1>10 DEF ChildDone, Crash, Ends, Quiet, Says
<1> QED  BY <1>5, <1>6, <1>8, <1>9, <1>10

-----------------------------------------------------------------------------
(* The messages under way.                                                 *)

\* Both parts of the queue, and where each message is in it.
LEMMA PendingType ==
  ASSUME Types
  PROVE  /\ Pending \in Seq(Messages) /\ Len(Pending) = Len(exChan) + Len(uxSock)
         /\ Len(Pending) \in Nat /\ Len(exChan) \in Nat /\ Len(uxSock) \in Nat
         /\ DOMAIN Pending = 1..Len(Pending)
         /\ \A i \in 1..Len(Pending) :
              Pending[i] = IF i <= Len(exChan) THEN exChan[i] ELSE uxSock[i - Len(exChan)]
         /\ \A i \in 1..Len(Pending) : Pending[i] \in Messages
<1>1. exChan \in Seq(Messages) /\ uxSock \in Seq(Messages)
  BY DEF Types
<1>2. /\ Pending \in Seq(Messages) /\ Len(Pending) = Len(exChan) + Len(uxSock)
      /\ \A i \in 1..Len(exChan) + Len(uxSock) :
           Pending[i] = IF i <= Len(exChan) THEN exChan[i] ELSE uxSock[i - Len(exChan)]
  BY <1>1, ConcatProperties, Zenon DEF Pending
<1>3. Len(Pending) \in Nat /\ DOMAIN Pending = 1..Len(Pending)
  BY <1>2, LenProperties
<1>4. Len(exChan) \in Nat /\ Len(uxSock) \in Nat
  BY <1>1, LenProperties
<1>5. \A i \in 1..Len(Pending) : Pending[i] \in Messages
  BY <1>2, ElementOfSeq
<1> QED  BY <1>2, <1>3, <1>4, <1>5

\* A channel that holds one message.
LEMMA Single ==
  ASSUME NEW S, NEW s \in Seq(S), s # <<>>, Len(s) <= 1
  PROVE  Len(s) = 1 /\ Head(s) = s[1] /\ Head(s) \in S /\ Tail(s) = <<>>
<1>1. Len(s) \in Nat \ {0}
  BY EmptySeq
<1>2. Len(s) = 1
  <2> DEFINE n == Len(s)
  <2>1. n \in Nat \ {0} /\ n <= 1
    BY <1>1
  <2> HIDE DEF n
  <2>2. n = 1
    BY <2>1
  <2> QED  BY <2>2 DEF n
<1>3. Head(s) \in S
  BY HeadTailProperties
<1>4. Head(s) = s[1]
  BY <1>2
<1>5. Tail(s) = <<>>
  <2>1. Tail(s) \in Seq(S) /\ Len(Tail(s)) = Len(s) - 1
    BY HeadTailProperties
  <2>2. Len(Tail(s)) = 0
    BY <1>2, <2>1
  <2>3. Tail(s) # <<>> => Len(Tail(s)) \in Nat \ {0}
    BY <2>1, EmptySeq
  <2> QED  BY <2>2, <2>3
<1> QED BY <1>2, <1>3, <1>4, <1>5

\* A message is taken from the channel.
LEMMA PendingShrinks ==
  ASSUME Types, exChan # <<>>, exChan' = Tail(exChan), uxSock' = uxSock
  PROVE  /\ Head(exChan) = Pending[1] /\ 1 \in DOMAIN Pending
         /\ exChan' = <<>> /\ Head(exChan) \in Messages
         /\ \A i \in DOMAIN Pending' : /\ i + 1 \in DOMAIN Pending
                                       /\ Pending'[i] = Pending[i + 1]
                                       /\ i \in Nat /\ 1 < i + 1
<1>1. exChan \in Seq(Messages) /\ uxSock \in Seq(Messages) /\ Len(exChan) <= 1
  BY DEF Types
<1>2. /\ Len(exChan) = 1 /\ Head(exChan) = exChan[1] /\ Head(exChan) \in Messages
      /\ Tail(exChan) = <<>>
  BY <1>1, Single
<1>3. exChan' = <<>>
  BY <1>2
<1>4. Pending' = uxSock
  BY <1>1, <1>3, ConcatEmptySeq DEF Pending
<1>5. 1 \in 1..Len(Pending) /\ Pending[1] = exChan[1]
  BY <1>2, PendingType
<1>6. ASSUME NEW i \in DOMAIN uxSock
      PROVE  i + 1 \in DOMAIN Pending /\ uxSock[i] = Pending[i + 1] /\ i \in Nat /\ 1 < i + 1
  <2>1. i \in 1..Len(uxSock) /\ Len(uxSock) \in Nat
    BY <1>1, LenProperties
  <2>2. i + 1 \in 1..Len(Pending) /\ ~(i + 1 <= Len(exChan)) /\ i + 1 - Len(exChan) = i
    BY <1>2, <2>1, PendingType
  <2>3. Pending[i + 1] = uxSock[i + 1 - Len(exChan)] /\ i + 1 \in DOMAIN Pending
    BY <2>2, PendingType
  <2> QED  BY <2>1, <2>2, <2>3
<1> QED  BY <1>2, <1>3, <1>4, <1>5, <1>6, PendingType

\* A message is sent to the Unix socket.
LEMMA PendingGrows ==
  ASSUME Types, NEW m \in Messages, exChan' = exChan, uxSock' = Append(uxSock, m)
  PROVE  /\ DOMAIN Pending' = 1..Len(Pending) + 1 /\ Pending'[Len(Pending) + 1] = m
         /\ \A i \in 1..Len(Pending) : Pending'[i] = Pending[i]
<1>1. exChan \in Seq(Messages) /\ uxSock \in Seq(Messages)
  BY DEF Types
<1>2. uxSock' = uxSock \o <<m>> /\ <<m>> \in Seq(Messages)
  BY <1>1, AppendIsConcat
<1>3. Pending' = (exChan \o uxSock) \o <<m>>
  BY <1>1, <1>2, ConcatAssociative DEF Pending
<1>4. Pending' = Append(Pending, m) /\ Pending \in Seq(Messages)
  BY <1>1, <1>3, AppendIsConcat, PendingType DEF Pending
<1> HIDE DEF Pending
<1>5. /\ Append(Pending, m) \in Seq(Messages) /\ Len(Append(Pending, m)) = Len(Pending) + 1
      /\ \A i \in 1..Len(Pending) : Append(Pending, m)[i] = Pending[i]
      /\ Append(Pending, m)[Len(Pending) + 1] = m
  BY <1>4, AppendProperties
<1>6. DOMAIN Append(Pending, m) = 1..Len(Pending) + 1
  BY <1>5, LenProperties
<1> QED  BY <1>4, <1>5, <1>6

\* uxServe hands a message on.
LEMMA PendingIsForwarded ==
  ASSUME Types, UxForward
  PROVE  /\ Pending' = Pending /\ exChan' \in Seq(Messages) /\ Len(exChan') <= 1
         /\ uxSock' \in Seq(Messages)
<1>1. /\ uxSock \in Seq(Messages) /\ uxSock # <<>> /\ exChan = <<>>
      /\ exChan' = <<Head(uxSock)>> /\ uxSock' = Tail(uxSock)
  BY DEF Types, UxForward
<1>2. Head(uxSock) \in Messages /\ Tail(uxSock) \in Seq(Messages)
  BY <1>1, HeadTailProperties
<1>3. <<Head(uxSock)>> \in Seq(Messages) /\ Len(<<Head(uxSock)>>) <= 1
  BY <1>2
<1>4. <<Head(uxSock)>> \o Tail(uxSock) = uxSock
  BY <1>1, ConcatSimplifications
<1>5. <<>> \o uxSock = uxSock
  BY <1>1, ConcatEmptySeq
<1> QED  BY <1>1, <1>2, <1>3, <1>4, <1>5 DEF Pending

-----------------------------------------------------------------------------
(* Starting processes and ending them.                                     *)

\* Processes end: those that are left are what they were.
Ended ==
  /\ child' \in [Child -> Process]
  /\ \A c \in Child : Alive(c)' => Alive(c) /\ child'[c].port = child[c].port
  /\ \A c \in Child : child[c].stage = "gone" => child'[c].stage = "gone"
  /\ \A c \in Child : child'[c].stage = "starting" => child[c].stage = "starting"

\* SIGTERM.
LEMMA TerminateEnds ==
  ASSUME Types, NEW S, Terminate(S)
  PROVE  Ended /\ mishaps' \in {mishaps, mishaps \cup {"silent end"}}
<1>0. child \in [Child -> Process] /\ Gone \in Process /\ Gone.stage = "gone"
  BY Fields DEF Types
<1>1. child' = [c \in Child |-> IF c \notin S \/ ~Alive(c) THEN child[c]
                                ELSE IF Handles(c) THEN [child[c] EXCEPT !.term = TRUE]
                                ELSE Gone]
  BY DEF Terminate
<1>2. ASSUME NEW c \in Child
      PROVE  /\ child'[c] \in Process
             /\ \/ child'[c].stage = child[c].stage /\ child'[c].port = child[c].port
                \/ child'[c].stage = "gone"
  <2>1. child[c] \in Process
    BY <1>0
  <2>2. /\ [child[c] EXCEPT !.term = TRUE] \in Process
        /\ [child[c] EXCEPT !.term = TRUE].stage = child[c].stage
        /\ [child[c] EXCEPT !.term = TRUE].port = child[c].port
    BY <2>1 DEF Process
  <2>3. child'[c] \in {child[c], [child[c] EXCEPT !.term = TRUE], Gone}
    BY <1>1
  <2> QED  BY <1>0, <2>1, <2>2, <2>3
<1>3. child' \in [Child -> Process]
  BY <1>1, <1>2
<1>4. mishaps' \in {mishaps, mishaps \cup {"silent end"}}
  BY DEF Terminate
<1> QED  BY <1>2, <1>3, <1>4 DEF Ended, Alive

\* startChild: the workers that were there stay, what is added are
\* placeholders and at most the worker of the new process.
Started(c) ==
  /\ Table(workers')
  /\ Cardinality(DOMAIN workers') <= Cardinality(DOMAIN workers) + Attempts
  /\ \E p \in Port : InUse(workers') \subseteq DOMAIN workers \cup {p}
  /\ \A q \in DOMAIN workers : q \in DOMAIN workers' /\ workers'[q] = workers[q]
  /\ \A q \in DOMAIN workers' \ DOMAIN workers : workers'[q].shell = None
  /\ child' \in [Child -> Process] /\ \A d \in Child \ {c} : child'[d] = child[d]
  /\ \/ /\ child'[c].stage = "starting" /\ child'[c].port \in DOMAIN workers'
        /\ workers'[child'[c].port].child = c
        /\ opening' = c /\ pc' = "wait"
     \/ child' = child /\ opening' = opening /\ pc' = "run"
  /\ mishaps' \in {mishaps, mishaps \cup {"placeholder"}}

LEMMA StartChildStarts ==
  ASSUME Types, NEW c \in Child, StartChild(c)
  PROVE  Started(c)
<1> DEFINE w == Tried[InVain]
           p == GetAvailabePort(w)
           entry == [child |-> c, shell |-> None]
           new == [NotYet EXCEPT !.port = p, !.stage = "starting"]
<1>0. child \in [Child -> Process] /\ Table(workers) /\ Cardinality(DOMAIN workers) \in Nat
  BY TableSize DEF Types
<1>1. PICK k \in 0..Attempts - 1 : Extends(w, workers, k) /\ p \in Port \ DOMAIN w
  BY <1>0, StartChildPort
<1>2. Placeholder \in Worker /\ entry \in Worker
  BY TableSize
<1>3. mishaps' \in {mishaps, mishaps \cup {"placeholder"}}
  BY DEF StartChild
<1>4. \/ /\ workers' = With(w, p, entry)
         /\ child' = [child EXCEPT ![c] = new]
         /\ opening' = c /\ pc' = "wait"
      \/ /\ workers' = IF CheckPortAvailable(p) THEN w ELSE With(w, p, Placeholder)
         /\ pc' = "run" /\ UNCHANGED <<child, opening>>
  BY Zenon DEF StartChild
<1>5. new \in Process /\ new.stage = "starting" /\ new.port = p
  <2>1. p \in Nat
    BY <1>1 DEF Port
  <2> HIDE DEF p
  <2> QED  BY <2>1 DEF NotYet, Process, Stage, Shell
<1> HIDE DEF p, w, entry, new
<1>6. /\ Table(w) /\ DOMAIN workers \subseteq DOMAIN w /\ \A q \in DOMAIN workers : w[q] = workers[q]
      /\ \A q \in DOMAIN w \ DOMAIN workers : w[q] = Placeholder
      /\ Cardinality(DOMAIN w) = Cardinality(DOMAIN workers) + k
  BY <1>1 DEF Extends
<1>7. k \in Nat /\ k + 1 <= Attempts /\ Attempts \in Nat
  BY MainServerAssumption
<1>8. ASSUME NEW e \in Worker, e.shell = None, workers' = With(w, p, e)
      PROVE  /\ Table(workers') /\ p \in DOMAIN workers' /\ workers'[p] = e
             /\ Cardinality(DOMAIN workers') <= Cardinality(DOMAIN workers) + Attempts
             /\ \E r \in Port : InUse(workers') \subseteq DOMAIN workers \cup {r}
             /\ \A q \in DOMAIN workers : q \in DOMAIN workers' /\ workers'[q] = workers[q]
             /\ \A q \in DOMAIN workers' \ DOMAIN workers : workers'[q].shell = None
  <2>1. /\ Table(workers') /\ DOMAIN workers' = DOMAIN w \cup {p} /\ workers'[p] = e
        /\ \A q \in DOMAIN w : workers'[q] = w[q]
        /\ Cardinality(DOMAIN workers') = Cardinality(DOMAIN w) + 1
    <3> DEFINE v == With(w, p, e)
    <3>1. /\ Table(v) /\ DOMAIN v = DOMAIN w \cup {p} /\ v[p] = e
          /\ \A q \in DOMAIN w : v[q] = w[q]
          /\ Cardinality(DOMAIN v) = Cardinality(DOMAIN w) + 1
      BY <1>1, <1>6, WithAdds
    <3>2. workers' = v
      BY <1>8
    <3> HIDE DEF v
    <3> QED  BY <3>1, <3>2
  <2>2. Cardinality(DOMAIN workers') <= Cardinality(DOMAIN workers) + Attempts
    BY <1>0, <1>6, <1>7, <2>1
  <2>3. \A q \in DOMAIN workers' \ DOMAIN workers : workers'[q].shell = None
    BY <1>6, <1>8, <2>1 DEF Placeholder
  <2>4. InUse(workers') \subseteq DOMAIN workers \cup {p} /\ p \in Port
    BY <1>1, <1>6, <2>1 DEF Placeholder, InUse
  <2> QED  BY <1>6, <2>1, <2>2, <2>3, <2>4
<1>9. CASE /\ workers' = With(w, p, entry)
           /\ child' = [child EXCEPT ![c] = new]
           /\ opening' = c /\ pc' = "wait"
  <2>1. entry.child = c /\ entry.shell = None
    BY DEF entry
  <2>2. /\ child' \in [Child -> Process] /\ \A d \in Child \ {c} : child'[d] = child[d]
        /\ child'[c] = new
    BY <1>0, <1>5, <1>9, ProcessSet
  <2> QED  BY <1>2, <1>3, <1>5, <1>8, <1>9, <2>1, <2>2 DEF Started
<1>10. CASE /\ workers' = IF CheckPortAvailable(p) THEN w ELSE With(w, p, Placeholder)
            /\ pc' = "run" /\ UNCHANGED <<child, opening>>
  <2>1. CASE CheckPortAvailable(p)
    <3>1. workers' = w
      BY <1>10, <2>1
    <3>2. Cardinality(DOMAIN workers') <= Cardinality(DOMAIN workers) + Attempts
      BY <1>0, <1>6, <1>7, <3>1
    <3>3. \A q \in DOMAIN workers' \ DOMAIN workers : workers'[q].shell = None
      BY <1>6, <3>1 DEF Placeholder
    <3>4. InUse(workers') \subseteq DOMAIN workers \cup {p} /\ p \in Port
      BY <1>1, <1>6, <3>1 DEF Placeholder, InUse
    <3> QED  BY <1>0, <1>3, <1>6, <1>10, <3>1, <3>2, <3>3, <3>4 DEF Started
  <2>2. CASE ~CheckPortAvailable(p)
    <3>1. workers' = With(w, p, Placeholder) /\ Placeholder.shell = None
      BY <1>10, <2>2 DEF Placeholder
    <3> QED  BY <1>0, <1>2, <1>3, <1>8, <1>10, <3>1 DEF Started
  <2> QED  BY <2>1, <2>2
<1> QED  BY <1>4, <1>9, <1>10

-----------------------------------------------------------------------------
(* Sessions: no message is about the wrong worker, no process is lost.     *)

\* Nothing new is said and nothing new is started.
LEMMA SessionsKept ==
  ASSUME Types, Sessions, workers' = workers, Pending' = Pending, Ended, mishaps \subseteq mishaps'
  PROVE  Sessions'
<1> SUFFICES ASSUME "timeout" \notin mishaps'
             PROVE  AboutWorkers' /\ RunIsLast' /\ Attached'
  BY DEF Sessions
<1>1. AboutWorkers /\ RunIsLast /\ Attached
  BY DEF Sessions
<1>2. AboutWorkers'
  BY <1>1 DEF AboutWorkers
<1>3. RunIsLast'
  <2> SUFFICES ASSUME NEW i \in DOMAIN Pending, Pending[i].header = "run"
               PROVE  /\ child'[Pending[i].about].stage = "gone"
                      /\ \A j \in DOMAIN Pending : i < j => Pending[j].port # Pending[i].port
    BY DEF RunIsLast
  <2>1. Pending[i] \in Messages
    BY PendingType
  <2>2. Pending[i].about \in Child
    BY <1>1, <2>1, Fields DEF AboutWorkers
  <2> QED  BY <1>1, <2>2 DEF RunIsLast, Ended
<1>4. Attached'
  BY <1>1 DEF Attached, Ended
<1> QED  BY <1>2, <1>3, <1>4

\* A process that runs takes a step and may say so.
LEMMA SessionsOfProcess ==
  ASSUME Types, Sessions, NEW c \in Child, ProcessStep(c)
  PROVE  Sessions'
<1> SUFFICES ASSUME "timeout" \notin mishaps'
             PROVE  AboutWorkers' /\ RunIsLast' /\ Attached'
  BY DEF Sessions
<1>0. /\ Alive(c) /\ workers' = workers /\ exChan' = exChan /\ mishaps \subseteq mishaps'
      /\ child' \in [Child -> Process] /\ \A d \in Child \ {c} : child'[d] = child[d]
      /\ \/ child'[c].stage = "gone"
         \/ child'[c].stage \in {"keyed", "serving"} /\ child'[c].port = child[c].port
  BY DEF ProcessStep
<1>1. AboutWorkers /\ RunIsLast /\ Attached
  BY <1>0 DEF Sessions
<1>2. Ended
  <2>1. child[c].stage \in {"starting", "keyed", "serving"}
    BY <1>0 DEF Alive
  <2> QED  BY <1>0, <2>1 DEF Ended, Alive
<1>3. Attached'
  BY <1>0, <1>1, <1>2 DEF Attached, Ended
<1>4. CASE uxSock' = uxSock
  <2>1. Pending' = Pending
    BY <1>0, <1>4 DEF Pending
  <2>2. Sessions'
    BY <1>0, <1>2, <2>1, SessionsKept
  <2> QED  BY <2>2 DEF Sessions
<1>5. CASE uxSock' # uxSock
  <2>1. PICK m \in Messages : SentBy(m, c) /\ uxSock' = Append(uxSock, m)
    BY <1>5 DEF ProcessStep
  <2> DEFINE n == Len(Pending)
  <2>2. /\ DOMAIN Pending' = 1..n + 1 /\ Pending'[n + 1] = m
        /\ \A i \in 1..n : Pending'[i] = Pending[i]
    BY <1>0, <2>1, PendingGrows
  <2>3. n \in Nat /\ DOMAIN Pending = 1..n /\ \A i \in 1..n : Pending[i] \in Messages
    BY PendingType
  <2> HIDE DEF n
  <2>4. /\ m.port = child[c].port
        /\ m.about = c \/ (m.header = "shell" /\ m.about = None)
        /\ m.header = "run" => child'[c].stage = "gone"
    BY <2>1 DEF SentBy
  <2>5. child[c].port \in DOMAIN workers /\ workers[child[c].port].child = c /\ c # None
    BY <1>0, <1>1, Fields DEF Attached
  <2>6. \A i \in 1..n + 1 : i \in 1..n \/ i = n + 1
    BY <2>3
  <2>7. AboutWorkers'
    <3> SUFFICES ASSUME NEW i \in 1..n + 1
                 PROVE  LET q == Pending'[i]
                        IN  /\ q.port \in DOMAIN workers /\ workers[q.port].child # None
                            /\ \/ q.about = workers[q.port].child
                               \/ q.header = "shell" /\ q.about = None
      BY <1>0, <2>2 DEF AboutWorkers
    <3>1. CASE i \in 1..n
      BY <1>1, <2>2, <2>3, <3>1 DEF AboutWorkers
    <3>2. CASE i = n + 1
      <4>1. Pending'[i] = m
        BY <2>2, <3>2
      <4> QED  BY <2>4, <2>5, <4>1
    <3> QED  BY <2>6, <3>1, <3>2
  <2>8. RunIsLast'
    <3> SUFFICES ASSUME NEW i \in 1..n + 1, Pending'[i].header = "run"
                 PROVE  /\ child'[Pending'[i].about].stage = "gone"
                        /\ \A j \in 1..n + 1 : i < j => Pending'[j].port # Pending'[i].port
      BY <2>2 DEF RunIsLast
    <3>1. CASE i \in 1..n
      <4>1. Pending'[i] = Pending[i] /\ Pending[i] \in Messages
        BY <2>2, <2>3, <3>1
      <4>2. /\ child[Pending[i].about].stage = "gone"
            /\ \A j \in 1..n : i < j => Pending[j].port # Pending[i].port
        BY <1>1, <2>3, <3>1, <4>1 DEF RunIsLast
      <4>3. Pending[i].about = workers[Pending[i].port].child /\ Pending[i].about \in Child
        BY <1>1, <2>3, <3>1, <4>1, Fields DEF AboutWorkers
      <4>4. Pending[i].about # c
        BY <1>0, <4>2 DEF Alive
      <4>5. m.port # Pending[i].port
        BY <2>4, <2>5, <4>3, <4>4
      <4>6. child'[Pending'[i].about].stage = "gone"
        BY <1>2, <4>1, <4>2, <4>3 DEF Ended
      <4>7. ASSUME NEW j \in 1..n + 1, i < j PROVE Pending'[j].port # Pending'[i].port
        <5>1. CASE j \in 1..n
          BY <2>2, <4>1, <4>2, <4>7, <5>1
        <5>2. CASE j = n + 1
          BY <2>2, <4>1, <4>5, <5>2
        <5> QED  BY <2>6, <5>1, <5>2
      <4> QED  BY <4>6, <4>7
    <3>2. CASE i = n + 1
      <4>1. Pending'[i] = m
        BY <2>2, <3>2
      <4>2. \A j \in 1..n + 1 : ~(i < j)
        BY <2>3, <3>2
      <4> QED  BY <2>4, <4>1, <4>2
    <3> QED  BY <2>6, <3>1, <3>2
  <2> QED  BY <1>3, <2>7, <2>8
<1> QED  BY <1>4, <1>5

\* run takes a message: the worker it removes has neither a process nor
\* another message.
LEMMA SessionsOfMessage ==
  ASSUME Types, Sessions, exChan # <<>>, HandleMessage(Head(exChan)), exChan' = Tail(exChan),
         uxSock' = uxSock
  PROVE  Sessions'
<1> DEFINE m == Head(exChan)
<1>0. /\ m = Pending[1] /\ 1 \in DOMAIN Pending /\ m \in Messages
      /\ \A i \in DOMAIN Pending' : /\ i + 1 \in DOMAIN Pending
                                    /\ Pending'[i] = Pending[i + 1]
                                    /\ i \in Nat /\ 1 < i + 1
  BY PendingShrinks
<1> HIDE DEF m
<1>1. /\ Table(workers') /\ DOMAIN workers' \subseteq DOMAIN workers
      /\ \A q \in DOMAIN workers' : workers'[q].child = workers[q].child
      /\ \A q \in DOMAIN workers' :
           \/ workers'[q].shell = workers[q].shell
           \/ q = m.port /\ m.header = "shell" /\ workers'[q].shell = m.about
      /\ \A q \in DOMAIN workers : q \in DOMAIN workers' \/ (q = m.port /\ m.header = "run")
      /\ child' \in [Child -> Process]
      /\ \A c \in Child : child'[c].stage = child[c].stage /\ child'[c].port = child[c].port
      /\ ("timeout" \in mishaps' <=> "timeout" \in mishaps)
  BY <1>0, HandleMessageEffect DEF m
<1> SUFFICES ASSUME "timeout" \notin mishaps'
             PROVE  AboutWorkers' /\ RunIsLast' /\ Attached'
  BY DEF Sessions
<1>2. AboutWorkers /\ RunIsLast /\ Attached
  BY <1>1 DEF Sessions
<1>3. /\ m.port \in DOMAIN workers /\ workers[m.port].child # None
      /\ m.about = workers[m.port].child \/ (m.header = "shell" /\ m.about = None)
  BY <1>0, <1>2 DEF AboutWorkers
<1>4. m.header = "run" =>
        /\ child[m.about].stage = "gone"
        /\ \A i \in DOMAIN Pending' : Pending'[i].port # m.port
  BY <1>0, <1>2 DEF RunIsLast
<1>5. AboutWorkers'
  <2> SUFFICES ASSUME NEW i \in DOMAIN Pending'
               PROVE  LET q == Pending'[i]
                      IN  /\ q.port \in DOMAIN workers' /\ workers'[q.port].child # None
                          /\ \/ q.about = workers'[q.port].child
                             \/ q.header = "shell" /\ q.about = None
    BY DEF AboutWorkers
  <2> DEFINE q == Pending'[i]
  <2>1. /\ q.port \in DOMAIN workers /\ workers[q.port].child # None
        /\ q.about = workers[q.port].child \/ (q.header = "shell" /\ q.about = None)
    BY <1>0, <1>2 DEF AboutWorkers
  <2>2. ~(q.port = m.port /\ m.header = "run")
    BY <1>4
  <2> HIDE DEF q
  <2>3. q.port \in DOMAIN workers' /\ workers'[q.port].child = workers[q.port].child
    BY <1>1, <2>1, <2>2
  <2>4. /\ q.port \in DOMAIN workers' /\ workers'[q.port].child # None
        /\ q.about = workers'[q.port].child \/ (q.header = "shell" /\ q.about = None)
    BY <2>1, <2>3
  <2> QED  BY <2>4 DEF q
<1>6. RunIsLast'
  <2> SUFFICES ASSUME NEW i \in DOMAIN Pending', Pending'[i].header = "run"
               PROVE  /\ child'[Pending'[i].about].stage = "gone"
                      /\ \A j \in DOMAIN Pending' : i < j => Pending'[j].port # Pending'[i].port
    BY DEF RunIsLast
  <2>1. i + 1 \in DOMAIN Pending /\ Pending'[i] = Pending[i + 1] /\ i \in Nat
    BY <1>0
  <2>2. /\ child[Pending[i + 1].about].stage = "gone"
        /\ \A j \in DOMAIN Pending : i + 1 < j => Pending[j].port # Pending[i + 1].port
    BY <1>2, <2>1 DEF RunIsLast
  <2>3. Pending[i + 1] \in Messages
    BY <2>1, PendingType
  <2>4. Pending[i + 1].about \in Child
    BY <1>2, <2>1, <2>3, Fields DEF AboutWorkers
  <2>5. ASSUME NEW j \in DOMAIN Pending', i < j PROVE Pending'[j].port # Pending'[i].port
    <3>1. j + 1 \in DOMAIN Pending /\ Pending'[j] = Pending[j + 1] /\ j \in Nat
      BY <1>0
    <3>2. i + 1 < j + 1
      BY <2>1, <2>5, <3>1
    <3> QED  BY <2>1, <2>2, <3>1, <3>2
  <2> QED  BY <1>1, <2>1, <2>2, <2>4, <2>5
<1>7. Attached'
  <2>1. ASSUME NEW c \in Child, Alive(c)'
        PROVE  child'[c].port \in DOMAIN workers' /\ workers'[child'[c].port].child = c
    <3>1. Alive(c) /\ child'[c].port = child[c].port
      BY <1>1, <2>1 DEF Alive
    <3>2. child[c].port \in DOMAIN workers /\ workers[child[c].port].child = c
      BY <1>2, <3>1 DEF Attached
    <3>3. ~(child[c].port = m.port /\ m.header = "run")
      <4> SUFFICES ASSUME child[c].port = m.port, m.header = "run" PROVE FALSE
        OBVIOUS
      <4>1. child[c].stage = "gone"
        BY <1>3, <1>4, <3>2
      <4> QED  BY <3>1, <4>1 DEF Alive
    <3> QED  BY <1>1, <3>1, <3>2, <3>3
  <2>2. ASSUME NEW q \in DOMAIN workers' PROVE workers'[q].shell \in {None, workers'[q].child}
    BY <1>1, <1>2, <1>3 DEF Attached
  <2> QED  BY <2>1, <2>2 DEF Attached
<1> QED  BY <1>5, <1>6, <1>7

\* startChild adds a worker at a port that no worker and no message has.
LEMMA SessionsOfStart ==
  ASSUME Types, Sessions, NEW c \in Child, child[c].stage = "unborn", Started(c), Pending' = Pending
  PROVE  Sessions'
<1>0. /\ \A q \in DOMAIN workers : q \in DOMAIN workers' /\ workers'[q] = workers[q]
      /\ \A q \in DOMAIN workers' \ DOMAIN workers : workers'[q].shell = None
      /\ child' \in [Child -> Process] /\ \A d \in Child \ {c} : child'[d] = child[d]
      /\ \/ /\ child'[c].stage = "starting" /\ child'[c].port \in DOMAIN workers'
            /\ workers'[child'[c].port].child = c
         \/ child' = child
      /\ mishaps \subseteq mishaps'
  BY DEF Started
<1> SUFFICES ASSUME "timeout" \notin mishaps'
             PROVE  AboutWorkers' /\ RunIsLast' /\ Attached'
  BY DEF Sessions
<1>1. AboutWorkers /\ RunIsLast /\ Attached
  BY <1>0 DEF Sessions
<1>2. AboutWorkers'
  <2> SUFFICES ASSUME NEW i \in DOMAIN Pending
               PROVE  LET q == Pending[i]
                      IN  /\ q.port \in DOMAIN workers' /\ workers'[q.port].child # None
                          /\ \/ q.about = workers'[q.port].child
                             \/ q.header = "shell" /\ q.about = None
    BY DEF AboutWorkers
  <2> QED  BY <1>0, <1>1 DEF AboutWorkers
<1>3. RunIsLast'
  <2> SUFFICES ASSUME NEW i \in DOMAIN Pending, Pending[i].header = "run"
               PROVE  /\ child'[Pending[i].about].stage = "gone"
                      /\ \A j \in DOMAIN Pending : i < j => Pending[j].port # Pending[i].port
    BY DEF RunIsLast
  <2>1. Pending[i] \in Messages
    BY PendingType
  <2>2. Pending[i].about \in Child
    BY <1>1, <2>1, Fields DEF AboutWorkers
  <2>3. child[Pending[i].about].stage = "gone"
    BY <1>1 DEF RunIsLast
  <2>4. Pending[i].about # c
    BY <2>3
  <2> QED  BY <1>0, <1>1, <2>2, <2>3, <2>4 DEF RunIsLast
<1>4. Attached'
  <2>1. ASSUME NEW d \in Child, Alive(d)'
        PROVE  child'[d].port \in DOMAIN workers' /\ workers'[child'[d].port].child = d
    <3>1. CASE child'[d] = child[d]
      <4>1. Alive(d)
        BY <2>1, <3>1 DEF Alive
      <4> QED  BY <1>0, <1>1, <3>1, <4>1 DEF Attached
    <3>2. CASE child'[d] # child[d]
      BY <1>0, <3>2
    <3> QED  BY <3>1, <3>2
  <2>2. ASSUME NEW q \in DOMAIN workers' PROVE workers'[q].shell \in {None, workers'[q].child}
    BY <1>0, <1>1 DEF Attached
  <2> QED  BY <2>1, <2>2 DEF Attached
<1> QED  BY <1>2, <1>3, <1>4

-----------------------------------------------------------------------------
(* Keys: each client is told the key of its own session.                   *)

\* The condition under which keys are awaited holds in a state if it does in
\* the next one; a key is about a process, so nobody's key is under way when
\* nobody waits for one.
Answered == "timeout" \notin mishaps /\ \A a \in answers : a.key # None

LEMMA NobodyWaits ==
  ASSUME Types, Sessions, Keys, Answered, opening = None
  PROVE  /\ \A a \in answers : a.key = a.child
         /\ \A c \in Child : child[c].stage # "starting"
         /\ \A i \in DOMAIN Pending : Pending[i].header # "key"
<1>1. KeysAreAwaited
  BY DEF Keys, Answered
<1>2. AboutWorkers
  BY DEF Sessions, Answered
<1>3. \A c \in Child : child[c].stage # "starting"
  BY <1>1, Fields DEF KeysAreAwaited
<1>4. \A i \in DOMAIN Pending : Pending[i].header # "key"
  <2> SUFFICES ASSUME NEW i \in DOMAIN Pending, Pending[i].header = "key" PROVE FALSE
    OBVIOUS
  <2>1. Pending[i].about = None
    BY <1>1 DEF KeysAreAwaited
  <2>2. Pending[i].about # None
    BY <1>2 DEF AboutWorkers
  <2> QED  BY <2>1, <2>2
<1> QED  BY <1>1, <1>3, <1>4 DEF KeysAreAwaited

\* Nothing new is said, answered or started.
LEMMA KeysKept ==
  ASSUME Types, Sessions, Keys, Pending' = Pending, Ended, mishaps \subseteq mishaps',
         answers' = answers, opening' = opening
  PROVE  Keys'
<1> SUFFICES ASSUME Answered' PROVE KeysAreAwaited'
  BY DEF Keys, Answered
<1>0. Answered
  BY DEF Answered
<1>1. KeysAreAwaited /\ AboutWorkers
  BY <1>0 DEF Keys, Sessions, Answered
<1>2. \A c \in Child : child'[c].stage = "starting" => c = opening
  BY <1>1 DEF KeysAreAwaited, Ended
<1>3. ASSUME NEW i \in DOMAIN Pending, Pending[i].header = "key"
      PROVE  /\ Pending[i].about = opening /\ child'[opening].stage # "starting"
             /\ \A j \in DOMAIN Pending : Pending[j].header = "key" => i = j
  <2>1. /\ Pending[i].about = opening /\ child[opening].stage # "starting"
        /\ \A j \in DOMAIN Pending : Pending[j].header = "key" => i = j
    BY <1>1, <1>3 DEF KeysAreAwaited
  <2>2. opening # None
    BY <1>1, <1>3, <2>1 DEF AboutWorkers
  <2>3. opening \in Child
    BY <2>2 DEF Types
  <2> QED  BY <2>1, <2>3 DEF Ended
<1>4. \A a \in answers : a.key = a.child
  BY <1>1 DEF KeysAreAwaited
<1> QED  BY <1>2, <1>3, <1>4 DEF KeysAreAwaited

\* The key of a process is sent once, and it is the one that is awaited.
LEMMA KeysOfProcess ==
  ASSUME Types, Sessions, Keys, NEW c \in Child, ProcessStep(c)
  PROVE  Keys'
<1>0. /\ Alive(c) /\ exChan' = exChan /\ mishaps \subseteq mishaps'
      /\ answers' = answers /\ opening' = opening
      /\ child' \in [Child -> Process] /\ \A d \in Child \ {c} : child'[d] = child[d]
      /\ \/ child'[c].stage = "gone"
         \/ child'[c].stage \in {"keyed", "serving"} /\ child'[c].port = child[c].port
  BY DEF ProcessStep
<1>2. Ended
  <2>1. child[c].stage \in {"starting", "keyed", "serving"}
    BY <1>0 DEF Alive
  <2> QED  BY <1>0, <2>1 DEF Ended, Alive
<1>4. CASE uxSock' = uxSock
  <2>1. Pending' = Pending
    BY <1>0, <1>4 DEF Pending
  <2> QED  BY <1>0, <1>2, <2>1, KeysKept
<1>5. CASE uxSock' # uxSock
  <2> SUFFICES ASSUME Answered' PROVE KeysAreAwaited'
    BY DEF Keys, Answered
  <2>0. Answered
    BY <1>0 DEF Answered
  <2>1. PICK m \in Messages : SentBy(m, c) /\ uxSock' = Append(uxSock, m)
    BY <1>5 DEF ProcessStep
  <2> DEFINE n == Len(Pending)
  <2>2. /\ DOMAIN Pending' = 1..n + 1 /\ Pending'[n + 1] = m
        /\ \A i \in 1..n : Pending'[i] = Pending[i]
    BY <1>0, <2>1, PendingGrows
  <2>3. n \in Nat /\ DOMAIN Pending = 1..n
    BY PendingType
  <2> HIDE DEF n
  <2>4. KeysAreAwaited /\ AboutWorkers
    BY <2>0 DEF Keys, Sessions, Answered
  <2>5. \A i \in 1..n + 1 : i \in 1..n \/ i = n + 1
    BY <2>3
  <2>6. \A d \in Child : child'[d].stage = "starting" => d = opening
    BY <1>2, <2>4 DEF KeysAreAwaited, Ended
  <2>7. \A a \in answers : a.key = a.child
    BY <2>4 DEF KeysAreAwaited
  <2>8. ASSUME NEW i \in 1..n, Pending[i].header = "key"
        PROVE  /\ Pending[i].about = opening /\ child[opening].stage # "starting"
               /\ child'[opening].stage # "starting" /\ m.header # "key"
               /\ \A j \in 1..n : Pending[j].header = "key" => i = j
    <3>1. /\ Pending[i].about = opening /\ child[opening].stage # "starting"
          /\ \A j \in 1..n : Pending[j].header = "key" => i = j
      BY <2>3, <2>4, <2>8 DEF KeysAreAwaited
    <3>2. opening # None
      BY <2>3, <2>4, <2>8, <3>1 DEF AboutWorkers
    <3>3. opening \in Child
      BY <3>2 DEF Types
    <3>4. child'[opening].stage # "starting"
      BY <1>2, <3>1, <3>3 DEF Ended
    <3>5. m.header # "key"
      <4> SUFFICES ASSUME m.header = "key" PROVE FALSE
        OBVIOUS
      <4>1. child[c].stage = "starting"
        BY <2>1 DEF SentBy
      <4>2. c = opening
        BY <2>4, <4>1 DEF KeysAreAwaited
      <4> QED  BY <3>1, <4>1, <4>2
    <3> QED  BY <3>1, <3>4, <3>5
  <2>9. m.header = "key" => /\ m.about = opening /\ child'[opening].stage # "starting"
                            /\ \A j \in 1..n : Pending[j].header # "key"
    <3> SUFFICES ASSUME m.header = "key"
                 PROVE  /\ m.about = opening /\ child'[opening].stage # "starting"
                        /\ \A j \in 1..n : Pending[j].header # "key"
      OBVIOUS
    <3>1. m.about = c /\ child[c].stage = "starting" /\ child'[c].stage = "keyed"
      BY <2>1 DEF SentBy
    <3>2. c = opening
      BY <2>4, <3>1 DEF KeysAreAwaited
    <3> QED  BY <2>8, <3>1, <3>2
  <2>10. ASSUME NEW i \in 1..n + 1, Pending'[i].header = "key"
         PROVE  /\ Pending'[i].about = opening /\ child'[opening].stage # "starting"
                /\ \A j \in 1..n + 1 : Pending'[j].header = "key" => i = j
    <3>1. CASE i \in 1..n
      <4>1. Pending'[i] = Pending[i] /\ Pending[i].header = "key"
        BY <2>2, <2>10, <3>1
      <4>2. ASSUME NEW j \in 1..n + 1, Pending'[j].header = "key" PROVE i = j
        <5>1. j # n + 1
          BY <2>2, <2>8, <3>1, <4>1, <4>2
        <5>2. j \in 1..n
          BY <2>5, <5>1
        <5>3. Pending[j].header = "key"
          BY <2>2, <4>2, <5>2
        <5> QED  BY <2>8, <3>1, <4>1, <5>2, <5>3
      <4> QED  BY <2>8, <3>1, <4>1, <4>2
    <3>2. CASE i = n + 1
      <4>1. Pending'[i] = m /\ m.header = "key"
        BY <2>2, <2>10, <3>2
      <4>2. ASSUME NEW j \in 1..n + 1, Pending'[j].header = "key" PROVE i = j
        <5>1. j \notin 1..n
          BY <2>2, <2>9, <4>1, <4>2
        <5> QED  BY <2>5, <3>2, <5>1
      <4> QED  BY <2>9, <4>1, <4>2
    <3> QED  BY <2>5, <3>1, <3>2
  <2> QED  BY <1>0, <2>2, <2>6, <2>7, <2>10 DEF KeysAreAwaited
<1> QED  BY <1>4, <1>5

\* run takes a message while nobody waits for a key: it is not a key.
LEMMA KeysOfMessage ==
  ASSUME Types, Sessions, Keys, exChan # <<>>, HandleMessage(Head(exChan)),
         exChan' = Tail(exChan), uxSock' = uxSock, opening = None, opening' = None,
         answers' = answers
  PROVE  Keys'
<1>0. /\ Head(exChan) \in Messages
      /\ \A i \in DOMAIN Pending' : i + 1 \in DOMAIN Pending /\ Pending'[i] = Pending[i + 1]
  BY PendingShrinks
<1>1. /\ \A c \in Child : child'[c].stage = child[c].stage
      /\ ("timeout" \in mishaps' <=> "timeout" \in mishaps)
  BY <1>0, HandleMessageEffect
<1> SUFFICES ASSUME Answered' PROVE KeysAreAwaited'
  BY DEF Keys, Answered
<1>2. Answered
  BY <1>1 DEF Answered
<1>3. /\ \A a \in answers : a.key = a.child
      /\ \A c \in Child : child[c].stage # "starting"
      /\ \A i \in DOMAIN Pending : Pending[i].header # "key"
  BY <1>2, NobodyWaits
<1>4. \A i \in DOMAIN Pending' : Pending'[i].header # "key"
  BY <1>0, <1>3
<1> QED  BY <1>1, <1>3, <1>4 DEF KeysAreAwaited

\* The answer has the key of the session it opened, or none.
LEMMA KeysOfAnswer ==
  ASSUME Types, Sessions, Keys, GotKey
  PROVE  Keys'
<1> DEFINE m == Head(exChan)
           new == [child |-> opening, key |-> KeyIn(m)]
<1>0. /\ exChan # <<>> /\ HandleMessage(m) /\ exChan' = Tail(exChan) /\ uxSock' = uxSock
      /\ answers' = answers \cup {new} /\ opening' = None /\ pc = "wait"
  BY DEF GotKey
<1>1. /\ m = Pending[1] /\ 1 \in DOMAIN Pending /\ m \in Messages
      /\ \A i \in DOMAIN Pending' : /\ i + 1 \in DOMAIN Pending
                                    /\ Pending'[i] = Pending[i + 1]
                                    /\ i \in Nat /\ 1 < i + 1
  BY <1>0, PendingShrinks
<1>2. /\ \A c \in Child : child'[c].stage = child[c].stage
      /\ ("timeout" \in mishaps' <=> "timeout" \in mishaps)
  BY <1>0, <1>1, HandleMessageEffect
<1> HIDE DEF m
<1> SUFFICES ASSUME Answered' PROVE KeysAreAwaited'
  BY DEF Keys, Answered
<1>3. Answered /\ KeyIn(m) # None
  <2>1. new \in answers' /\ new.key = KeyIn(m) /\ answers \subseteq answers'
    BY <1>0
  <2> HIDE DEF new
  <2> QED  BY <1>2, <2>1 DEF Answered
<1>4. KeysAreAwaited /\ AboutWorkers
  BY <1>3 DEF Keys, Sessions, Answered
<1>5. m.header = "key" /\ KeyIn(m) = m.about
  BY <1>3 DEF KeyIn
<1>6. /\ m.about = opening /\ child[opening].stage # "starting"
      /\ \A j \in DOMAIN Pending : Pending[j].header = "key" => 1 = j
  BY <1>1, <1>4, <1>5 DEF KeysAreAwaited
<1>7. \A a \in answers' : a.key = a.child
  BY <1>0, <1>4, <1>5, <1>6 DEF KeysAreAwaited
<1>8. \A c \in Child : child'[c].stage # "starting"
  BY <1>2, <1>4, <1>6 DEF KeysAreAwaited
<1>9. \A i \in DOMAIN Pending' : Pending'[i].header # "key"
  <2> SUFFICES ASSUME NEW i \in DOMAIN Pending', Pending'[i].header = "key" PROVE FALSE
    OBVIOUS
  <2>1. 1 = i + 1 /\ i \in Nat /\ 1 < i + 1
    BY <1>1, <1>6
  <2> QED  BY <2>1
<1> QED  BY <1>7, <1>8, <1>9 DEF KeysAreAwaited

\* A session is opened while nobody waits for a key.
LEMMA KeysOfStart ==
  ASSUME Types, Sessions, Keys, NEW c \in Child, Started(c), Pending' = Pending,
         opening = None, answers' = answers
  PROVE  Keys'
<1>0. /\ \A d \in Child \ {c} : child'[d] = child[d]
      /\ (opening' = c \/ (child' = child /\ opening' = opening))
      /\ mishaps \subseteq mishaps'
  BY DEF Started
<1> SUFFICES ASSUME Answered' PROVE KeysAreAwaited'
  BY DEF Keys, Answered
<1>1. Answered
  BY <1>0 DEF Answered
<1>2. /\ \A a \in answers : a.key = a.child
      /\ \A d \in Child : child[d].stage # "starting"
      /\ \A i \in DOMAIN Pending : Pending[i].header # "key"
  BY <1>1, NobodyWaits
<1> QED  BY <1>0, <1>2 DEF KeysAreAwaited

-----------------------------------------------------------------------------
(* The steps.                                                              *)

\* The parts of Types that most steps are about.
LEMMA TypesKept ==
  ASSUME Types, child' \in [Child -> Process], Ended, mishaps' \subseteq Mishap,
         UNCHANGED <<workers, opening, foreign, answers, exChan, uxSock>>,
         pc' \in {"run", "read", "wait", "stopping", "done", "panic"},
         (pc' = "wait" <=> pc = "wait"), uxdown' \in BOOLEAN,
         ux' \in {"check", "read", "forward", "done"}, ux' = "forward" => uxSock # <<>>
  PROVE  Types'
<1>1. ASSUME NEW c \in Child, Alive(c)' PROVE child'[c].port \in Port
  BY <1>1 DEF Types, Ended
<1> QED  BY <1>1 DEF Types, Mishap

\* run takes a message.
LEMMA TypesOfMessage ==
  ASSUME Types, exChan # <<>>, HandleMessage(Head(exChan)), exChan' = Tail(exChan),
         UNCHANGED <<foreign, ux, uxSock>>, opening' = None,
         pc' \in {"run", "read", "stopping", "done", "panic"}, uxdown' \in BOOLEAN,
         answers' \subseteq [child : Child, key : Child \cup {None}]
  PROVE  Types'
<1>1. Head(exChan) \in Messages /\ exChan' = <<>>
  BY PendingShrinks
<1>2. /\ Table(workers') /\ child' \in [Child -> Process] /\ mishaps' \subseteq Mishap
      /\ \A c \in Child : child'[c].stage = child[c].stage /\ child'[c].port = child[c].port
  BY <1>1, HandleMessageEffect
<1>3. exChan' \in Seq(Messages) /\ Len(exChan') <= 1
  <2>1. <<>> \in Seq(Messages) /\ Len(<<>>) = 0
    BY EmptySeq
  <2>2. Len(<<>>) <= 1
    BY <2>1
  <2> QED  BY <1>1, <2>1, <2>2
<1>4. ASSUME NEW c \in Child, Alive(c)' PROVE child'[c].port \in Port
  BY <1>2, <1>4 DEF Types, Alive
<1> QED  BY <1>2, <1>3, <1>4 DEF Types, Mishap

\* What KeyIn returns is a process or nothing.
LEMMA KeyInType == ASSUME NEW m \in Messages PROVE KeyIn(m) \in Child \cup {None}
  BY Fields DEF KeyIn

\* Every step keeps the types.
LEMMA TypesStep == Types /\ [Next]_vars => Types'
<1> SUFFICES ASSUME Types, [Next]_vars PROVE Types'
  OBVIOUS
<1>0. child \in [Child -> Process] /\ mishaps \subseteq Mishap /\ Table(workers)
  BY DEF Types, Mishap
<1>01. child' = child => Ended
  BY <1>0 DEF Ended, Alive
<1>1. CASE UNCHANGED vars
  BY <1>0, <1>01, <1>1, TypesKept DEF vars, mainVars, chanVars, Types
<1>2. CASE RunMessage
  <2>1. opening = None /\ opening' = None
    BY <1>2 DEF RunMessage, Types
  <2>2. pc' \in {"panic", "read"}
    BY <1>2 DEF RunMessage
  <2> QED  BY <1>2, <2>1, <2>2, TypesOfMessage DEF RunMessage, Types
<1>3. CASE RunIdle \/ ReadTimeout \/ UxCheck
  BY <1>0, <1>01, <1>3, TypesKept DEF RunIdle, ReadTimeout, UxCheck, mainVars, chanVars, Types
<1>4. CASE UxRead
  BY <1>0, <1>01, <1>4, TypesKept DEF UxRead, mainVars, Types
<1>5. CASE Shutdown
  <2>1. Ended /\ mishaps' \in {mishaps, mishaps \cup {"silent end"}}
    BY <1>5, TerminateEnds DEF Shutdown
  <2>2. mishaps' \subseteq Mishap /\ child' \in [Child -> Process]
    BY <1>0, <2>1 DEF Mishap, Ended
  <2>3. pc = "run" /\ pc' \in {"done", "stopping"} /\ uxdown' \in BOOLEAN
    BY <1>5 DEF Shutdown
  <2> QED  BY <1>5, <2>1, <2>2, <2>3, TypesKept DEF Shutdown, Types
<1>6. CASE StopMessage
  <2>1. opening = None /\ opening' = None
    BY <1>6 DEF StopMessage, Types
  <2>2. pc' \in {"done", "stopping"} /\ uxdown' \in BOOLEAN
    BY <1>6 DEF StopMessage, OnlyPlaceholders
  <2> QED  BY <1>6, <2>1, <2>2, TypesOfMessage DEF StopMessage, Types
<1>7. CASE GotKey
  <2>0. exChan # <<>> /\ exChan' = Tail(exChan) /\ uxSock' = uxSock
    BY <1>7 DEF GotKey
  <2>1. opening \in Child /\ Head(exChan) \in Messages
    BY <1>7, <2>0, PendingShrinks DEF GotKey, Types
  <2>2. [child |-> opening, key |-> KeyIn(Head(exChan))] \in [child : Child, key : Child \cup {None}]
    BY <2>1, KeyInType
  <2>3. answers' \subseteq [child : Child, key : Child \cup {None}]
    BY <1>7, <2>2 DEF GotKey, Types
  <2>4. uxdown' \in BOOLEAN
    BY <1>7 DEF GotKey, Types
  <2> QED  BY <1>7, <2>3, <2>4, TypesOfMessage DEF GotKey
<1>8. CASE KeyTimeout
  <2>1. PICK p \in DOMAIN workers : workers' = Without(workers, p)
    BY <1>8 DEF KeyTimeout
  <2>2. Table(workers')
    BY <1>0, <2>1, WithoutRemoves
  <2>3. mishaps' \subseteq Mishap
    BY <1>0, <1>8 DEF KeyTimeout, Mishap
  <2>4. ASSUME NEW c \in Child, Alive(c)' PROVE child'[c].port \in Port
    BY <1>8, <2>4 DEF KeyTimeout, Types, Alive
  <2> QED  BY <1>8, <2>2, <2>3, <2>4 DEF KeyTimeout, chanVars, Types, Mishap
<1>9. ASSUME NEW p \in DOMAIN workers, CloseChild(p) PROVE Types'
  <2>1. Ended /\ mishaps' \in {mishaps, mishaps \cup {"silent end"}}
    BY <1>9, TerminateEnds DEF CloseChild
  <2>2. mishaps' \subseteq Mishap /\ child' \in [Child -> Process]
    BY <1>0, <2>1 DEF Mishap, Ended
  <2> QED  BY <1>9, <2>1, <2>2, TypesKept DEF CloseChild, chanVars, Types
<1>10. CASE UxForward
  <2>1. exChan' \in Seq(Messages) /\ Len(exChan') <= 1 /\ uxSock' \in Seq(Messages)
    BY <1>10, PendingIsForwarded
  <2>2. ASSUME NEW c \in Child, Alive(c)' PROVE child'[c].port \in Port
    BY <1>10, <2>2 DEF UxForward, Types, Alive
  <2> QED  BY <1>10, <2>1, <2>2 DEF UxForward, mainVars, Types
<1>11. ASSUME NEW c \in Child, StartChild(c) PROVE Types'
  <2>1. Started(c)
    BY <1>11, StartChildStarts
  <2>2. /\ Table(workers') /\ child' \in [Child -> Process] /\ mishaps' \subseteq Mishap
        /\ opening' \in Child \cup {None} /\ (opening' # None <=> pc' = "wait")
        /\ pc' \in {"run", "wait"}
    <3>1. opening = None /\ c # None
      BY <1>11, Fields DEF StartChild, Types
    <3> QED  BY <1>0, <2>1, <3>1 DEF Started, Mishap
  <2>3. UNCHANGED <<foreign, answers, exChan, uxdown, ux, uxSock>>
    BY <1>11 DEF StartChild, chanVars
  <2>4. ASSUME NEW d \in Child, Alive(d)' PROVE child'[d].port \in Port
    <3>1. CASE child'[d] = child[d]
      BY <2>4, <3>1 DEF Types, Alive
    <3>2. CASE child'[d] # child[d]
      <4>1. child'[d].port \in DOMAIN workers'
        BY <2>1, <3>2 DEF Started
      <4> QED  BY <2>2, <4>1 DEF Table
    <3> QED  BY <3>1, <3>2
  <2> QED  BY <2>2, <2>3, <2>4 DEF Types, Mishap
<1>12. ASSUME NEW c \in Child, ProcessStep(c) PROVE Types'
  <2>0. /\ Alive(c) /\ UNCHANGED <<workers, pc, opening, answers, foreign, exChan, uxdown, ux>>
        /\ child' \in [Child -> Process] /\ \A d \in Child \ {c} : child'[d] = child[d]
        /\ child'[c].stage = "gone" \/ child'[c].port = child[c].port
        /\ mishaps' \in {mishaps, mishaps \cup {"silent end"}}
    BY <1>12 DEF ProcessStep
  <2>1. uxSock' \in Seq(Messages) /\ (uxSock # <<>> => uxSock' # <<>>)
    <3>1. uxSock' = uxSock \/ \E m \in Messages : uxSock' = Append(uxSock, m)
      BY <1>12 DEF ProcessStep
    <3>2. uxSock \in Seq(Messages)
      BY DEF Types
    <3> QED  BY <3>1, <3>2, AppendProperties
  <2>2. ASSUME NEW d \in Child, Alive(d)' PROVE child'[d].port \in Port
    <3>1. CASE d = c
      BY <2>0, <2>2, <3>1 DEF Types, Alive
    <3>2. CASE d # c
      BY <2>0, <2>2, <3>2 DEF Types, Alive
    <3> QED  BY <3>1, <3>2
  <2>3. mishaps' \subseteq Mishap
    BY <1>0, <2>0 DEF Mishap
  <2> QED  BY <2>0, <2>1, <2>2, <2>3 DEF Types, Mishap
<1>13. CASE \E c \in Child : \/ SendKey(c) \/ OpenPTS(c) \/ Connect(c) \/ ServeEnds(c)
                             \/ StartShell(c) \/ ShellExits(c) \/ ChildDone(c) \/ Crash(c)
  BY <1>12, <1>13, ProcessSteps
<1> QED  BY <1>1, <1>2, <1>3, <1>4, <1>5, <1>6, <1>7, <1>8, <1>9, <1>10, <1>11, <1>13 DEF Next

\* Sessions and Keys are kept by every step, the limit by every step but that
\* of startChild, which looks at it.
LEMMA InvariantStep == IInv /\ [Next]_vars => IInv'
<1> SUFFICES ASSUME Types, Sessions, Keys, WorkersAreLimited, [Next]_vars
             PROVE  Types' /\ Sessions' /\ Keys' /\ WorkersAreLimited'
  BY DEF IInv
<1>0. /\ Types' /\ child \in [Child -> Process] /\ Table(workers)
      /\ Cardinality(DOMAIN workers) \in Nat /\ Cardinality(DOMAIN workers') \in Nat
  <2>1. Types'
    BY TypesStep
  <2>2. Table(workers) /\ Table(workers')
    BY <2>1 DEF Types
  <2> QED  BY <2>1, <2>2, TableSize DEF Types
<1>01. child' = child => Ended
  BY <1>0 DEF Ended, Alive
<1>02. MaxWorkers \in Nat /\ Attempts \in Nat \ {0}
  BY MainServerAssumption
<1>03. ASSUME DOMAIN workers' \subseteq DOMAIN workers,
              \A q \in DOMAIN workers' : workers'[q].child = workers[q].child
       PROVE  WorkersAreLimited'
  <2>1. /\ IsFiniteSet(DOMAIN workers) /\ InUse(workers) \subseteq DOMAIN workers
        /\ InUse(workers') \subseteq InUse(workers)
    BY <1>0, <1>03 DEF Table, InUse
  <2>2. IsFiniteSet(InUse(workers))
    BY <2>1, FS_Subset
  <2>3. Cardinality(InUse(workers')) <= Cardinality(InUse(workers))
    BY <2>1, <2>2, FS_Subset
  <2>4. Cardinality(DOMAIN workers') <= Cardinality(DOMAIN workers)
    BY <1>03, <2>1, FS_Subset
  <2>5. Cardinality(InUse(workers)) \in Nat /\ Cardinality(InUse(workers')) \in Nat
    BY <2>1, <2>2, FS_Subset, FS_CardinalityType
  <2> QED  BY <1>0, <1>02, <2>3, <2>4, <2>5 DEF WorkersAreLimited
<1>04. workers' = workers => WorkersAreLimited'
  BY DEF WorkersAreLimited, InUse
<1>05. UNCHANGED <<exChan, uxSock>> => Pending' = Pending
  BY DEF Pending
<1> SUFFICES Sessions' /\ Keys' /\ WorkersAreLimited'
  BY <1>0
<1>1. ASSUME Ended, mishaps \subseteq mishaps', Pending' = Pending,
             UNCHANGED <<workers, opening, answers>>
      PROVE  Sessions' /\ Keys' /\ WorkersAreLimited'
  BY <1>1, <1>04, SessionsKept, KeysKept
<1>2. CASE UNCHANGED vars
  BY <1>01, <1>05, <1>1, <1>2 DEF vars, mainVars, chanVars
<1>3. CASE RunIdle \/ ReadTimeout \/ UxCheck \/ UxRead
  BY <1>01, <1>05, <1>1, <1>3 DEF RunIdle, ReadTimeout, UxCheck, UxRead, mainVars, chanVars
<1>4. CASE UxForward
  <2>1. Pending' = Pending
    BY <1>4, PendingIsForwarded
  <2> QED  BY <1>01, <1>1, <1>4, <2>1 DEF UxForward, mainVars
<1>5. CASE Shutdown
  <2>1. Ended /\ mishaps \subseteq mishaps'
    BY <1>5, TerminateEnds DEF Shutdown
  <2> QED  BY <1>05, <1>1, <1>5, <2>1 DEF Shutdown
<1>6. ASSUME NEW p \in DOMAIN workers, CloseChild(p)
      PROVE  Sessions' /\ Keys' /\ WorkersAreLimited'
  <2>1. Ended /\ mishaps \subseteq mishaps'
    BY <1>6, TerminateEnds DEF CloseChild
  <2> QED  BY <1>05, <1>1, <1>6, <2>1 DEF CloseChild, chanVars
<1>7. ASSUME exChan # <<>>, HandleMessage(Head(exChan)), exChan' = Tail(exChan), uxSock' = uxSock
      PROVE  Sessions' /\ WorkersAreLimited'
  <2>1. Head(exChan) \in Messages
    BY <1>7, PendingShrinks
  <2>2. /\ DOMAIN workers' \subseteq DOMAIN workers
        /\ \A q \in DOMAIN workers' : workers'[q].child = workers[q].child
    BY <1>7, <2>1, HandleMessageEffect
  <2> QED  BY <1>03, <1>7, <2>2, SessionsOfMessage
<1>8. CASE RunMessage \/ StopMessage
  <2>1. opening = None /\ opening' = None /\ answers' = answers
    BY <1>8 DEF RunMessage, StopMessage, Types
  <2>2. /\ exChan # <<>> /\ HandleMessage(Head(exChan)) /\ exChan' = Tail(exChan)
        /\ uxSock' = uxSock
    BY <1>8 DEF RunMessage, StopMessage
  <2> QED  BY <1>7, <2>1, <2>2, KeysOfMessage
<1>9. CASE GotKey
  BY <1>7, <1>9, KeysOfAnswer DEF GotKey
<1>10. CASE KeyTimeout
  <2>1. "timeout" \in mishaps'
    BY <1>10 DEF KeyTimeout
  <2>2. PICK p \in DOMAIN workers : workers' = Without(workers, p)
    BY <1>10 DEF KeyTimeout
  <2>3. /\ DOMAIN workers' \subseteq DOMAIN workers
        /\ \A q \in DOMAIN workers' : workers'[q].child = workers[q].child
    <3>1. /\ DOMAIN Without(workers, p) = DOMAIN workers \ {p}
          /\ \A q \in DOMAIN workers \ {p} : Without(workers, p)[q] = workers[q]
      BY <1>0, WithoutRemoves
    <3>2. DOMAIN workers' = DOMAIN workers \ {p}
      BY <2>2, <3>1
    <3> QED  BY <2>2, <3>1, <3>2
  <2> QED  BY <1>03, <2>1, <2>3 DEF Sessions, Keys
<1>11. ASSUME NEW c \in Child, StartChild(c) PROVE Sessions' /\ Keys' /\ WorkersAreLimited'
  <2>1. Started(c)
    BY <1>11, StartChildStarts
  <2>2. /\ opening = None /\ answers' = answers /\ child[c].stage = "unborn"
        /\ Cardinality(DOMAIN workers) < MaxWorkers /\ UNCHANGED <<exChan, uxSock>>
    BY <1>11 DEF StartChild, MayOpen, chanVars, Types
  <2>3. Cardinality(DOMAIN workers') <= Cardinality(DOMAIN workers) + Attempts
    BY <2>1 DEF Started
  <2>4. PICK p \in Port : InUse(workers') \subseteq DOMAIN workers \cup {p}
    BY <2>1 DEF Started
  <2>5. /\ IsFiniteSet(DOMAIN workers \cup {p})
        /\ Cardinality(DOMAIN workers \cup {p}) \in Nat
        /\ Cardinality(DOMAIN workers \cup {p}) <= Cardinality(DOMAIN workers) + 1
    <3>1. IsFiniteSet(DOMAIN workers)
      BY <1>0 DEF Table
    <3>2. /\ IsFiniteSet(DOMAIN workers \cup {p})
          /\ Cardinality(DOMAIN workers \cup {p}) \in
               {Cardinality(DOMAIN workers), Cardinality(DOMAIN workers) + 1}
      BY <3>1, FS_AddElement
    <3> QED  BY <1>0, <3>2
  <2>6. /\ Cardinality(InUse(workers')) \in Nat
        /\ Cardinality(InUse(workers')) <= Cardinality(DOMAIN workers) + 1
    <3>1. /\ IsFiniteSet(InUse(workers'))
          /\ Cardinality(InUse(workers')) <= Cardinality(DOMAIN workers \cup {p})
      BY <2>4, <2>5, FS_Subset
    <3> QED  BY <1>0, <2>5, <3>1, FS_CardinalityType
  <2>7. WorkersAreLimited'
    BY <1>0, <1>02, <2>2, <2>3, <2>6 DEF WorkersAreLimited
  <2> QED  BY <1>05, <2>1, <2>2, <2>7, SessionsOfStart, KeysOfStart
<1>12. ASSUME NEW c \in Child,
              \/ SendKey(c) \/ OpenPTS(c) \/ Connect(c) \/ ServeEnds(c)
              \/ StartShell(c) \/ ShellExits(c) \/ ChildDone(c) \/ Crash(c)
       PROVE  Sessions' /\ Keys' /\ WorkersAreLimited'
  <2>1. ProcessStep(c)
    BY <1>12, ProcessSteps
  <2>2. workers' = workers
    BY <2>1 DEF ProcessStep
  <2> QED  BY <1>04, <2>1, <2>2, SessionsOfProcess, KeysOfProcess
<1> QED  BY <1>2, <1>3, <1>4, <1>5, <1>6, <1>8, <1>9, <1>10, <1>11, <1>12 DEF Next

\* Nothing runs, nothing is under way and nobody has been answered.
LEMMA InvariantInit == Init => IInv
<1> SUFFICES ASSUME Init PROVE IInv
  OBVIOUS
<1>0. <<>> \in Seq(Messages) /\ Len(<<>>) = 0 /\ DOMAIN <<>> = {}
  BY EmptySeq
<1>1. Table(workers) /\ Cardinality(DOMAIN workers) = 0
  <2>1. DOMAIN workers = {} /\ workers = [p \in DOMAIN workers |-> workers[p]]
    BY <1>0 DEF Init
  <2>2. IsFiniteSet({}) /\ Cardinality({}) = 0
    BY FS_EmptySet
  <2> QED  BY <2>1, <2>2 DEF Table
<1>2. Pending = <<>>
  BY <1>0, ConcatEmptySeq DEF Pending, Init
<1>3. \A c \in Child : child[c] = NotYet /\ child[c].stage = "unborn"
  BY Fields DEF Init
<1>4. Types
  <2>1. child \in [Child -> Process]
    BY Fields DEF Init
  <2>2. Len(exChan) <= 1
    BY <1>0 DEF Init
  <2> QED  BY <1>0, <1>1, <1>3, <2>1, <2>2 DEF Init, Types, Alive
<1>5. Sessions
  BY <1>0, <1>1, <1>2, <1>3 DEF Sessions, AboutWorkers, RunIsLast, Attached, Alive, Init
<1>6. Keys
  BY <1>0, <1>2, <1>3 DEF Keys, KeysAreAwaited, Init
<1>7. WorkersAreLimited
  <2>1. InUse(workers) = {}
    BY <1>0 DEF InUse, Init
  <2>2. Cardinality(InUse(workers)) = 0
    BY <2>1, FS_EmptySet
  <2> QED  BY <1>1, <2>2, MainServerAssumption DEF WorkersAreLimited
<1> QED  BY <1>4, <1>5, <1>6, <1>7 DEF IInv

-----------------------------------------------------------------------------
(* The theorems.                                                           *)

\* The invariant holds throughout, whatever the children do and in whatever
\* order their messages come.
THEOREM Invariance == Spec => []IInv
<1>1. Init => IInv
  BY InvariantInit
<1>2. IInv /\ [Next]_vars => IInv'
  BY InvariantStep
<1> QED  BY <1>1, <1>2, PTL DEF Spec

\* The variables of the main server keep their types, and exChan never holds
\* more than one message.
THEOREM TypeCorrect == Spec => []TypeOK
<1>1. IInv => TypeOK
  <2> SUFFICES ASSUME Types PROVE TypeOK
    BY DEF IInv
  <2>1. \A c \in Child : child[c] \in Process
    BY DEF Types
  <2>2. \A c \in Child :
          /\ child[c].port \in Nat
          /\ child[c].stage \in {"unborn", "starting", "keyed", "serving", "gone"}
          /\ child[c].serve \in {"no", "running", "ended"} /\ child[c].term \in BOOLEAN
          /\ child[c].shell \in
               {"no", "gated", "released", "refused", "started", "running", "over"}
    BY <2>1 DEF Process, Stage, Shell
  <2> QED  BY <2>2 DEF Types, TypeOK, Table
<1> QED  BY <1>1, Invariance, PTL

\* getAvailabePort returns the least port that is not in use (server.go:960),
\* whatever ports have come and gone.
THEOREM PortIsAlwaysLeast == Spec => []PortIsLeast
<1>1. IInv => PortIsLeast
  BY LeastAvailable DEF IInv, Types, PortIsLeast
<1> QED  BY <1>1, Invariance, PTL

\* Never are more than MaxWorkers (maxPortLimit) of the workers processes, nor
\* are there more than MaxWorkers - 1 + Attempts of them with the placeholders
\* of a request, whatever ports other programs use (server.go:720,757).
THEOREM WorkersAreAlwaysLimited == Spec => []WorkersAreLimited
<1>1. IInv => WorkersAreLimited
  BY DEF IInv
<1> QED  BY <1>1, Invariance, PTL

\* Until a request has been answered with no key or too late, each client is
\* told the key of the session that its request opened (server.go:481).
THEOREM KeyIsAlwaysOwn == Spec => []KeyIsOwn
<1>1. IInv => KeyIsOwn
  BY DEF IInv, Keys, KeysAreAwaited, KeyIsOwn
<1> QED  BY <1>1, Invariance, PTL

\* Until startChild gives up waiting for a key, every process that runs is the
\* worker at its port, with the pid of its own shell.
THEOREM NoSessionIsEverForgotten == Spec => []NoSessionIsForgotten
<1>1. IInv => NoSessionIsForgotten
  BY DEF IInv, Sessions, Attached, NoSessionIsForgotten
<1> QED  BY <1>1, Invariance, PTL
=============================================================================
