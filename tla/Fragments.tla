----------------------------- MODULE Fragments -----------------------------
(***************************************************************************)
(* One direction of network/fragment.go: the Fragmenter of the sender cuts *)
(* an instruction into fragments no longer than the MTU, each a datagram   *)
(* of its own, and the FragmentAssembly of the receiver puts together what *)
(* arrives.  The code identifies an instruction by a number that changes   *)
(* when the instruction or the MTU does, and keeps one assembly at a time. *)
(*                                                                         *)
(* The payload of an instruction (the marshalled and compressed            *)
(* pb.Instruction) is known by the instruction and a range of bytes of it. *)
(***************************************************************************)
EXTENDS Integers, Sequences, FiniteSets, SequencesExt, FiniteSetsExt

CONSTANTS
  Instruction,   \* what sendInFragments may be given
  NoInstruction, \* what comes of a payload that cannot be decoded
  Size(_),       \* the length of the payload of an instruction
  Mtu,           \* the rooms for contents that Connection.getMTU may leave
  NumLimit,      \* 2^15: the final bit of a fragment on the wire
  MaxUint64,     \* the id before any
  MaxId,         \* bound: ids used
  ChanCap        \* bound: fragments under way

ASSUME SizeAssumption ==
  /\ \A inst \in Instruction : Size(inst) \in Nat \ {0}
  /\ NoInstruction \notin Instruction
  /\ Mtu \subseteq Nat \ {0} /\ NumLimit \in Nat \ {0}
ASSUME IdAssumption == MaxUint64 \in Nat /\ MaxId \in Nat /\ MaxId < MaxUint64 /\ ChanCap \in Nat

\* fragmentNum has 15 bits on the wire: no instruction is 32768 datagrams long.
ASSUME FitsAssumption ==
  \A inst \in Instruction, mtu \in Mtu : Size(inst) <= mtu * NumLimit

VARIABLES
  lastInstruction,    \* Fragmenter: the last instruction, its MTU and its id
  lastMTU, nextInstructionId,
  assembly,           \* FragmentAssembly
  network,            \* fragments under way, oldest first
  weather,            \* what the network does to them, the same throughout
  made,               \* history: the instructions cut up
  latest              \* history: the instruction put together last and its id

vars == <<lastInstruction, lastMTU, nextInstructionId, assembly, network, weather, made, latest>>

-----------------------------------------------------------------------------
(* Fragmenter.                                                             *)

\* NewFragment and the cut of the payload: fragment number k.
NewFragment(id, inst, mtu, k) ==
  LET end == (k + 1) * mtu
  IN  [id |-> id, fragmentNum |-> k % (2 * NumLimit), final |-> end >= Size(inst),
       contents |-> [inst |-> inst, from |-> k * mtu,
                     to |-> IF end >= Size(inst) THEN Size(inst) ELSE end]]

\* String and NewFragmentFrom: the number and the final flag share 16 bits.
OnTheWire(frag) ==
  [frag EXCEPT !.fragmentNum = @ % NumLimit, !.final = @ \/ frag.fragmentNum >= NumLimit]

\* Mutated: a different MTU does not make a different instruction of it.
MNextId(inst, mtu) ==
  IF inst # lastInstruction THEN nextInstructionId + 1 ELSE nextInstructionId

\* Mutated: a different MTU starts the ids anew.
MRestartingId(inst, mtu) ==
  IF lastMTU # mtu THEN 1
  ELSE IF inst # lastInstruction THEN nextInstructionId + 1 ELSE nextInstructionId

NextId(inst, mtu) ==
  IF inst # lastInstruction \/ lastMTU # mtu THEN nextInstructionId + 1 ELSE nextInstructionId

Pieces(inst, mtu) == (Size(inst) + mtu - 1) \div mtu

MakeFragments(inst, mtu) ==
  [k \in 1..Pieces(inst, mtu) |-> OnTheWire(NewFragment(NextId(inst, mtu), inst, mtu, k - 1))]

-----------------------------------------------------------------------------
(* FragmentAssembly.                                                       *)

NewFragmentAssembly ==
  [fragments |-> <<>>, currentId |-> MaxUint64, fragmentsArrived |-> 0, fragmentsTotal |-> -1]

\* Mutated: the ids are compared.
MHas(fa, frag) == \E i \in DOMAIN fa.fragments : fa.fragments[i].id = frag.id

Has(fa, frag) == \E i \in DOMAIN fa.fragments : fa.fragments[i].fragmentNum = frag.fragmentNum

\* Mutated: in the order of arrival.
MInSortedPlace(q, frag) == Append(q, frag)

\* append and sort.SliceStable.
InSortedPlace(q, frag) ==
  InsertAt(q, 1 + Cardinality({i \in DOMAIN q : q[i].fragmentNum < frag.fragmentNum}), frag)

\* addFragment up to the total: a fragment of another instruction starts anew.
WithFragment(fa, frag) ==
  IF fa.currentId # frag.id
  THEN [fragments |-> <<frag>>, currentId |-> frag.id, fragmentsArrived |-> 1,
        fragmentsTotal |-> -1]
  ELSE IF Has(fa, frag) THEN fa
  ELSE [fa EXCEPT !.fragments = InSortedPlace(@, frag), !.fragmentsArrived = @ + 1]

\* Mutated: fragments are counted from one.
MAddFragment(fa, frag) ==
  LET with == WithFragment(fa, frag)
  IN  IF frag.final THEN [with EXCEPT !.fragmentsTotal = frag.fragmentNum] ELSE with

AddFragment(fa, frag) ==
  LET with == WithFragment(fa, frag)
  IN  IF frag.final THEN [with EXCEPT !.fragmentsTotal = frag.fragmentNum + 1] ELSE with

\* Uncompress and Unmarshal: a payload from its first byte to its last is an
\* instruction, anything else an error.
Decode(contents) ==
  IF /\ contents # <<>> /\ contents[1].from = 0
     /\ \A i \in 2..Len(contents) : /\ contents[i].inst = contents[1].inst
                                    /\ contents[i].from = contents[i - 1].to
     /\ Last(contents).to = Size(contents[1].inst)
  THEN contents[1].inst ELSE NoInstruction

GetAssembly(fa) == Decode([i \in 1..fa.fragmentsTotal |-> fa.fragments[i].contents])

Assembled(fa) == [fa EXCEPT !.fragments = <<>>, !.fragmentsArrived = 0, !.fragmentsTotal = -1]

-----------------------------------------------------------------------------
Init ==
  /\ lastInstruction = NoInstruction /\ lastMTU = 0 /\ nextInstructionId = 0
  /\ assembly = NewFragmentAssembly
  /\ network = <<>>
  /\ weather \in [lossy : BOOLEAN, reordering : BOOLEAN, duplicating : BOOLEAN]
  /\ made = {} /\ latest = [id |-> 0, inst |-> {}]

\* sendFragments: the writes stop at the first that fails.
Send(inst, mtu) ==
  \E written \in 1..Pieces(inst, mtu) :
    /\ written = Pieces(inst, mtu) \/ weather.lossy
    /\ NextId(inst, mtu) <= MaxId /\ Len(network) + written <= ChanCap
    /\ network' = network \o SubSeq(MakeFragments(inst, mtu), 1, written)
    /\ nextInstructionId' = NextId(inst, mtu)
    /\ lastInstruction' = inst /\ lastMTU' = mtu
    /\ made' = made \cup {inst}
    /\ UNCHANGED <<assembly, weather, latest>>

Deliverable == {i \in DOMAIN network : i = 1 \/ weather.reordering}

\* The beginning of Transport.ProcessPayload; a duplicated fragment stays.
Recv ==
  \E i \in Deliverable, stays \in {FALSE, weather.duplicating} :
    LET fa == AddFragment(assembly, network[i])
    IN  /\ network' = IF stays THEN network ELSE RemoveAt(network, i)
        /\ \/ /\ fa.fragmentsArrived = fa.fragmentsTotal
              /\ latest' = [id |-> fa.currentId, inst |-> {GetAssembly(fa)}]
              /\ assembly' = IF GetAssembly(fa) = NoInstruction THEN fa ELSE Assembled(fa)
           \/ /\ fa.fragmentsArrived # fa.fragmentsTotal
              /\ assembly' = fa
              /\ UNCHANGED latest
        /\ UNCHANGED <<lastInstruction, lastMTU, nextInstructionId, weather, made>>

Lose ==
  /\ weather.lossy
  /\ \E i \in Deliverable : network' = RemoveAt(network, i)
  /\ UNCHANGED <<lastInstruction, lastMTU, nextInstructionId, assembly, weather, made, latest>>

Next == \/ \E inst \in Instruction, mtu \in Mtu : Send(inst, mtu)
        \/ Recv
        \/ Lose

Spec == Init /\ [][Next]_vars

-----------------------------------------------------------------------------
Contents == [inst : Instruction, from : Nat, to : Nat]
Fragment == [id : 1..MaxId, fragmentNum : 0..NumLimit - 1, final : BOOLEAN, contents : Contents]

\* The types, and that a fragment has the 15 bits of number that String
\* leaves it and an assembly no more fragments than that.
TypeOK ==
  /\ lastInstruction \in Instruction \cup {NoInstruction} /\ lastMTU \in Mtu \cup {0}
  /\ nextInstructionId \in 0..MaxId
  /\ assembly \in [fragments : Seq(Fragment), currentId : 1..MaxId \cup {MaxUint64},
                   fragmentsArrived : Nat, fragmentsTotal : {-1} \cup 1..NumLimit]
  /\ network \in Seq(Fragment)
  /\ weather \in [lossy : BOOLEAN, reordering : BOOLEAN, duplicating : BOOLEAN]
  /\ made \subseteq Instruction
  /\ latest.id \in 0..MaxId /\ latest.inst \subseteq Instruction \cup {NoInstruction}

\* getAssembly indexes fragments up to fragmentsTotal and ProcessPayload looks
\* into the instruction it returns, both unconditionally: the counters must be
\* about the fragments present, one of each number, none beyond the final one.
AssemblyIsConsistent ==
  LET q == assembly.fragments
  IN  /\ assembly.fragmentsArrived = Len(q)
      /\ \A i, j \in DOMAIN q : i < j => q[i].fragmentNum < q[j].fragmentNum
      /\ \A i \in DOMAIN q : q[i].id = assembly.currentId
      /\ assembly.fragmentsTotal # -1 =>
           /\ Len(q) < assembly.fragmentsTotal
           /\ \A i \in DOMAIN q : q[i].fragmentNum < assembly.fragmentsTotal

Whole == INSTANCE Datagrams WITH Message <- Instruction, sent <- made, out <- latest.inst

\* Above this layer there are only whole instructions that were sent
\* (Datagrams): fragments of two, or of one cut in two ways, are never taken
\* for an instruction.
WholeInstructions == Whole!Spec

\* Fragments that arrive in order make instructions that arrive in order, be
\* they lost or repeated: what SSP says of an end that is not Reordering is
\* about such a network.
OrderIsKept == [][~weather.reordering => latest'.id >= latest.id]_vars

\* ReadFromNetwork and the main loop go on reading.
Fair == Spec /\ WF_vars(Recv)

\* On a network that does nothing to the fragments every instruction that
\* was cut up is put together, whatever came before it.
EveryInstructionArrives ==
  \A id \in 1..MaxId :
    ~weather.lossy /\ ~weather.reordering /\ ~weather.duplicating
      /\ nextInstructionId = id ~> latest.id = id
=============================================================================
