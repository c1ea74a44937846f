-------------------------------- MODULE SSP --------------------------------
(***************************************************************************)
(* The state synchronisation protocol between one client and its server:   *)
(* network/transport.go (Transport) and network/sender.go                  *)
(* (TransportSender) at both ends, the two main loops that drive them      *)
(* (frontend/client/client.go main, frontend/server/server.go serve) and   *)
(* the UDP network between them.                                           *)
(*                                                                         *)
(* Each end sends numbered states.  An instruction carries the difference  *)
(* between a reference state (oldNum) and a new one (newNum), the newest   *)
(* number received from the other end (ackNum) and the oldest number the   *)
(* other end must still keep (throwawayNum).                               *)
(*                                                                         *)
(* As in the Go code, the protocol is generic in the states it carries:    *)
(* the constant operators stand for the methods of the State interface     *)
(* (network/state.go), their first argument for the end that sends.        *)
(*                                                                         *)
(* Time is abstracted: a tick happens at any moment and assumes either the *)
(* oldest or the newest sent state received, which are the two results     *)
(* updateAssumedReceiverState can have.  Unless "retry" is in Early the     *)
(* first is restricted to moments at which nothing is under way any more.  *)
(***************************************************************************)
EXTENDS Integers, Sequences, FiniteSets, SequencesExt, FiniteSetsExt

CONSTANTS
  State(_),                  \* the states an end can send
  InitialState(_),
  Diff(_),                   \* the differences between them
  NoDiff,                    \* the empty one
  StateDiffFrom(_, _, _),    \* StateDiffFrom(e, new, old)
  StateApplyString(_, _, _), \* StateApplyString(e, state, diff)
  StateEqual(_, _, _),
  StateSubtract(_, _, _),    \* StateSubtract(e, state, prefix)
  StateClone(_, _),
  StateReset(_, _),
  Event(_),                  \* what the application at an end may feed it
  Push(_, _, _),             \* Push(e, state, event): the state with the event
  Actions(_),                \* the events in a difference, for serve()
  StateGetDiff(_)            \* the output in a state, for outputNewFrame()

CONSTANTS
  QueueLimit, QueueDrop, \* 32 and 16: see AddSentState
  ReceivedLimit,         \* 1024: see Quenched
  ShutdownRetries,       \* SHUTDOWN_RETRIES, 16
  MaxUint64,             \* the number that asks for shutdown
  MaxNum,                \* bound per end: ordinary numbers it uses
  MaxEvent,              \* bound per end: events fed to it
  ChanCap                \* bound per end: packets under way to it

CONSTANTS
  Lossy, Reordering, Duplicating, \* ends whose incoming packets the network may so treat
  Closing,      \* ends that may start a shutdown
  Aborting,     \* ends that may vanish without one
  SendOutcome,  \* {TRUE}, or BOOLEAN where a UDP write may fail
  KeepAlive,    \* are the empty acks of an idle end (every ACK_INTERVAL) explored?
  Early         \* timeouts that may expire at any moment: "retry", "shutdown"

Endpoint == {"client", "server"}
Peer(e)  == IF e = "client" THEN "server" ELSE "client"

ASSUME LimitsAssumption ==
  /\ QueueLimit \in Nat /\ QueueDrop \in Nat /\ QueueDrop < QueueLimit
  /\ ReceivedLimit \in Nat /\ ShutdownRetries \in Nat
ASSUME NumbersAssumption ==
  /\ MaxUint64 \in Nat /\ MaxNum \in [Endpoint -> 0..MaxUint64 - 1]
  /\ MaxEvent \in [Endpoint -> Nat] /\ ChanCap \in [Endpoint -> Nat]
ASSUME SwitchesAssumption ==
  /\ Lossy \subseteq Endpoint /\ Reordering \subseteq Endpoint
  /\ Duplicating \subseteq Endpoint
  /\ Closing \subseteq Endpoint /\ Aborting \subseteq Endpoint
  /\ SendOutcome \subseteq BOOLEAN /\ KeepAlive \in BOOLEAN
  /\ Early \subseteq {"retry", "shutdown"}

VARIABLES
  \* TransportSender
  currentState, sentStates, ackNum, pendingDataAck,
  shutdownInProgress, shutdownTries,
  lastAckSent,         \* AckNum of fragmenter.lastInstruction
  \* Transport
  receivedState, lastReceiverState,
  quenching,           \* is receiverQuenchTimer armed?
  \* Connection, reduced to what the protocol reads of it
  hasRemoteAddr,
  \* the main loop: "no" while it runs, then why it stopped
  ended,
  \* packets under way to each end, oldest first
  network,
  \* history: events fed, events that came out at the other end, the numbers
  \* an end has put in receivedState, whether AddSentState has cut the queue, and
  \* what has gone wrong: see VerifyDiff, ReferenceMoved and InsertOutOfOrder
  fed, obtained, accepted, overflowed, mishaps

senderVars   == <<currentState, sentStates, ackNum, pendingDataAck,
                  shutdownInProgress, shutdownTries, lastAckSent>>
receiverVars == <<receivedState, lastReceiverState, quenching>>
historyVars  == <<fed, obtained, accepted, overflowed, mishaps>>
vars == <<senderVars, receiverVars, hasRemoteAddr, ended, network, historyVars>>

Nums(q) == {q[i].num : i \in DOMAIN q}

-----------------------------------------------------------------------------
(* Queues of timestamped states: their numbers never decrease.             *)

\* Mutated: the state with number n goes too.
MKeepFrom(q, n) ==
  SubSeq(q, Min({i \in 1..Len(q) + 1 : i = Len(q) + 1 \/ q[i].num > n}), Len(q))

\* The loops that copy the states whose number is not below n to the front
\* of the slice: in an ordered queue, all from the first such state on.
KeepFrom(q, n) ==
  SubSeq(q, Min({i \in 1..Len(q) + 1 : i = Len(q) + 1 \/ q[i].num >= n}), Len(q))

\* "Ignore ack if we have culled the state it's acknowledging".
ProcessAcknowledgmentThrough(q, n) == IF n \in Nums(q) THEN KeepFrom(q, n) ELSE q

\* Mutated: the oldest state that the other end still refers to goes too.
MProcessThrowawayUntil(q, n) == KeepFrom(q, n + 1)

ProcessThrowawayUntil(q, n) == KeepFrom(q, n)

\* Mutated: it gives up the new state instead.
MAddSentState(q, num, state) ==
  IF Len(q) = QueueLimit THEN q ELSE Append(q, [num |-> num, state |-> state])

\* The queue of sent states is limited.  The slice expression sentStates[16:]
\* gives up the OLDEST states, the acknowledged one among them.
AddSentState(q, num, state) ==
  LET longer == Append(q, [num |-> num, state |-> state])
  IN  IF Len(longer) > QueueLimit THEN SubSeq(longer, QueueDrop + 1, Len(longer)) ELSE longer

\* The position of the state with number n.
Position(q, n) == CHOOSE i \in DOMAIN q : q[i].num = n

\* Mutated: nobody looks.
MAlreadyReceived(q, n) == FALSE

\* "this is also part of how we enforce idempotency".
AlreadyReceived(q, n) == n \in Nums(q)

\* ProcessPayload keeps a POINTER to the slot of the reference state while
\* processThrowawayUntil moves the kept states to the front of the same
\* array: afterwards the slot may hold a younger state.
ReferenceState(q, kept, oldNum) ==
  LET slot == Position(q, oldNum)
  IN  IF slot <= Len(kept) THEN kept[slot].state ELSE q[slot].state

ReferenceMoved(q, kept, oldNum) ==
  ReferenceState(q, kept, oldNum) # q[Position(q, oldNum)].state

\* Mutated: a late state is appended like any other.
MInsertOutOfOrder(q, new) == Append(q, new)

\* "Insert new state in sorted place": when a younger state is present, the
\* insertion writes the new state over it before it copies the rest, so the
\* new state is there twice and the next younger one is gone.
InsertOutOfOrder(q, new) ==
  LET at == Min({i \in DOMAIN q : q[i].num > new.num})
  IN  SubSeq(q, 1, at - 1) \o <<new, new>> \o SubSeq(q, at + 1, Len(q))

-----------------------------------------------------------------------------
Init ==
  /\ currentState = [e \in Endpoint |-> InitialState(e)]
  /\ sentStates = [e \in Endpoint |-> <<[num |-> 0, state |-> InitialState(e)]>>]
  /\ ackNum = [e \in Endpoint |-> 0]
  /\ pendingDataAck = [e \in Endpoint |-> FALSE]
  /\ shutdownInProgress = [e \in Endpoint |-> FALSE]
  /\ shutdownTries = [e \in Endpoint |-> 0]
  /\ lastAckSent = [e \in Endpoint |-> 0]
  /\ receivedState = [e \in Endpoint |-> <<[num |-> 0, state |-> InitialState(Peer(e))]>>]
  /\ lastReceiverState = [e \in Endpoint |-> InitialState(Peer(e))]
  /\ quenching = [e \in Endpoint |-> FALSE]
  /\ hasRemoteAddr = [e \in Endpoint |-> e = "client"]
  /\ ended = [e \in Endpoint |-> "no"]
  /\ network = [e \in Endpoint |-> <<>>]
  /\ fed = [e \in Endpoint |-> <<>>]
  /\ obtained = [e \in Endpoint |-> <<>>]
  /\ accepted = [e \in Endpoint |-> {0}]
  /\ overflowed = [e \in Endpoint |-> FALSE]
  /\ mishaps = [e \in Endpoint |-> {}]

-----------------------------------------------------------------------------
(* Sending: TransportSender.tick.                                          *)

ShutdownAcknowledged(e) == sentStates[e][1].num = MaxUint64
\* Too many tries, or ten seconds: the latter at any moment, or never.
ShutdownAckTimedout(e)  == shutdownTries[e] > ShutdownRetries \/ "shutdown" \in Early
CounterpartyShutdownAckSent(e) == lastAckSent[e] = MaxUint64

\* rationalizeStates: what the other end is known to have goes from the
\* current state and from every sent state.
Known(e) == sentStates[e][1].state
RationalizedCurrent(e) == StateSubtract(e, currentState[e], Known(e))

\* Mutated: the sent states keep their acknowledged prefix.
MRationalizedSent(e) == sentStates[e]

RationalizedSent(e) ==
  [i \in DOMAIN sentStates[e] |->
     [sentStates[e][i] EXCEPT !.state = StateSubtract(e, @, Known(e))]]

\* updateAssumedReceiverState: the newest sent state while sent states are
\* younger than the timeout, the oldest one after that.
MayHaveTimedOut(e) ==
  \/ "retry" \in Early
  \/ /\ network[e] = <<>> /\ network[Peer(e)] = <<>>
     /\ lastAckSent[Peer(e)] = ackNum[Peer(e)] \/ ended[Peer(e)] # "no"

\* Mutated: there is no going back to the state known to be received.
MAssumable(e) == {Len(sentStates[e])}

Assumable(e) ==
  {Len(sentStates[e])} \cup (IF MayHaveTimedOut(e) THEN {1} ELSE {})

\* "special case for shutdown sequence".
NumberFor(e, num) == IF shutdownInProgress[e] THEN MaxUint64 ELSE num

\* Mutated: the receiver is told to throw away all but the newest state.
MInstructionOf(e, queue, oldNum, newNum, diff) ==
  [oldNum |-> oldNum, newNum |-> newNum, ackNum |-> ackNum[e],
   throwawayNum |-> Last(queue).num, diff |-> diff]

InstructionOf(e, queue, oldNum, newNum, diff) ==
  [oldNum |-> oldNum, newNum |-> newNum, ackNum |-> ackNum[e],
   throwawayNum |-> queue[1].num, diff |-> diff]

\* sendInFragments and sendFragments.  A failed write leaves the state in
\* the queue; the client's main loop then starts a shutdown.
SendInFragments(e, queue, oldNum, newNum, diff, written) ==
  /\ newNum <= MaxNum[e] \/ newNum = MaxUint64
  /\ sentStates' = [sentStates EXCEPT ![e] = queue]
  /\ network' = IF written /\ ended[Peer(e)] = "no"
                THEN [network EXCEPT ![Peer(e)] =
                        Append(@, InstructionOf(e, queue, oldNum, newNum, diff))]
                ELSE network
  /\ lastAckSent' = [lastAckSent EXCEPT ![e] = ackNum[e]]
  /\ pendingDataAck' = [pendingDataAck EXCEPT ![e] = @ /\ ~written]
  /\ shutdownTries' =
       [shutdownTries EXCEPT ![e] = IF newNum = MaxUint64 THEN @ + 1 ELSE @]
  /\ shutdownInProgress' =
       [shutdownInProgress EXCEPT ![e] = @ \/ (e = "client" /\ ~written)]
  /\ overflowed' = [overflowed EXCEPT ![e] = @ \/ queue[1].num # sentStates[e][1].num]

SendToReceiver(e, current, sent, assumed, diff, written) ==
  LET back   == Last(sent)
      newNum == NumberFor(e, IF StateEqual(e, current, back.state) THEN back.num ELSE back.num + 1)
      queue  == IF newNum = back.num THEN sent
                ELSE AddSentState(sent, newNum, StateClone(e, current))
  IN  SendInFragments(e, queue, assumed.num, newNum, diff, written)

SendEmptyAck(e, current, sent, assumed, written) ==
  LET newNum == NumberFor(e, Last(sent).num + 1)
  IN  /\ \/ KeepAlive \/ pendingDataAck[e]
         \/ shutdownInProgress[e] \/ ackNum[e] = MaxUint64
      /\ SendInFragments(e, AddSentState(sent, newNum, StateClone(e, current)),
                         assumed.num, newNum, NoDiff, written)

\* The send timer expired although there is nothing to send.
NothingToSend(e, current, sent, assumed) ==
  /\ \/ ~StateEqual(e, current, Last(sent).state)
     \/ ~StateEqual(e, current, assumed.state)
     \/ ~StateEqual(e, current, sent[1].state)
  /\ sentStates' = [sentStates EXCEPT ![e] = sent]
  /\ UNCHANGED <<network, lastAckSent, pendingDataAck, shutdownTries,
                 shutdownInProgress, overflowed>>

\* "verify diff has round-trip identity": tick logs a warning if it has not,
\* where verbose, and sends it all the same.
VerifyDiff(e, current, assumed, diff) ==
  diff = NoDiff \/ StateEqual(e, current, StateApplyString(e, StateClone(e, assumed.state), diff))

\* The conditions for leaving the main loop that precede its tick.
MustEnd(e) ==
  \/ shutdownInProgress[e] /\ (ShutdownAcknowledged(e) \/ shutdownTries[e] > ShutdownRetries)
  \/ CounterpartyShutdownAckSent(e)
  \/ e = "server" /\ shutdownInProgress[e] /\ Last(receivedState[e]).num = 0 /\ shutdownTries[e] > 0

\* (\E x \in {v} names a value; LET would have TLC compute it at every use.)
Tick(e, k) ==
  /\ ended[e] = "no" /\ ~MustEnd(e) /\ hasRemoteAddr[e]
  /\ Len(network[Peer(e)]) < ChanCap[Peer(e)]
  /\ \E current \in {RationalizedCurrent(e)}, sent \in {RationalizedSent(e)} :
       \E diff \in {StateDiffFrom(e, current, sent[k].state)}, written \in SendOutcome :
         /\ currentState' = [currentState EXCEPT ![e] = StateReset(e, current)]
         /\ mishaps' = IF VerifyDiff(e, current, sent[k], diff) THEN mishaps
                       ELSE [mishaps EXCEPT ![e] = @ \cup {"wrong difference"}]
         /\ \/ /\ diff # NoDiff
               /\ SendToReceiver(e, StateReset(e, current), sent, sent[k], diff, written)
            \/ /\ diff = NoDiff
               /\ SendEmptyAck(e, StateReset(e, current), sent, sent[k], written)
            \/ /\ diff = NoDiff
               /\ NothingToSend(e, current, sent, sent[k])
  /\ UNCHANGED <<ackNum, receiverVars, hasRemoteAddr, ended, fed, obtained, accepted>>

TickAssumingNewest(e) == Tick(e, Len(sentStates[e]))
TickAssumingOldest(e) == 1 \in Assumable(e) /\ Tick(e, 1)

-----------------------------------------------------------------------------
(* Receiving: Transport.ProcessPayload and what the main loop does next.   *)

Deliverable(e) == DOMAIN network[e] \cap (IF e \in Reordering THEN DOMAIN network[e] ELSE {1})

\* Mutated: the loop stops before the newest state.
MRationalizedReceived(e, rs) ==
  [i \in DOMAIN rs |->
     IF i = Len(rs) THEN rs[i]
     ELSE [rs[i] EXCEPT !.state = StateSubtract(Peer(e), @, rs[1].state)]]

\* GetRemoteDiff, called by serve() when the newest number has changed: the
\* events since the last call, then the oldest state is subtracted from all.
\* A state that is in the queue twice is one object, subtracted from twice.
RationalizedReceived(e, rs) ==
  LET oldest == rs[1].state
      once(s) == StateSubtract(Peer(e), s, oldest)
      twins(i) == \E j \in DOMAIN rs \ {i} : rs[j].num = rs[i].num
  IN  [i \in DOMAIN rs |->
         [rs[i] EXCEPT !.state = IF twins(i) THEN once(once(@)) ELSE once(@)]]

PickUpAtServer(rs) ==
  \/ /\ Last(rs).num = Last(receivedState["server"]).num
     /\ receivedState' = [receivedState EXCEPT !["server"] = rs]
     /\ UNCHANGED <<lastReceiverState, obtained>>
  \/ /\ Last(rs).num # Last(receivedState["server"]).num
     /\ \E rest \in {RationalizedReceived("server", rs)} :
          /\ receivedState' = [receivedState EXCEPT !["server"] = rest]
          /\ lastReceiverState' = [lastReceiverState EXCEPT !["server"] = Last(rest).state]
     /\ obtained' = [obtained EXCEPT !["server"] =
                       @ \o Actions(StateDiffFrom("client", Last(rs).state,
                                                  lastReceiverState["server"]))]

\* outputNewFrame: the output in the newest state, which is then cleared.
PickUpAtClient(rs) ==
  /\ obtained' = [obtained EXCEPT !["client"] = @ \o StateGetDiff(Last(rs).state)]
  /\ receivedState' = [receivedState EXCEPT !["client"] =
                         [rs EXCEPT ![Len(rs)].state = StateReset("server", @)]]
  /\ UNCHANGED lastReceiverState

PickUp(e, rs) == IF e = "server" THEN PickUpAtServer(rs) ELSE PickUpAtClient(rs)

\* Mutated: acknowledged all the same.
MIgnored(e, inst) ==
  /\ AlreadyReceived(receivedState[e], inst.newNum)
     \/ inst.oldNum \notin Nums(receivedState[e])
  /\ ackNum' = [ackNum EXCEPT ![e] = inst.newNum]
  /\ UNCHANGED <<pendingDataAck, receiverVars, obtained, accepted, mishaps>>

\* A state that is already there, or a reference state that is not.
Ignored(e, inst) ==
  /\ AlreadyReceived(receivedState[e], inst.newNum)
     \/ inst.oldNum \notin Nums(receivedState[e])
  /\ UNCHANGED <<ackNum, pendingDataAck, receiverVars, obtained, accepted, mishaps>>

\* "Do not accept state if our queue is full", for 15 seconds from the first
\* such state on; quenching says that the timer has been set before.
Quenched(e, kept) ==
  /\ Len(kept) > ReceivedLimit /\ quenching[e]
  /\ receivedState' = [receivedState EXCEPT ![e] = kept]
  /\ UNCHANGED <<ackNum, pendingDataAck, lastReceiverState, quenching, obtained, accepted, mishaps>>

Received(e, inst, kept) ==
  LET base == ReferenceState(receivedState[e], kept, inst.oldNum)
  IN  [num   |-> inst.newNum,
       state |-> IF inst.diff = NoDiff THEN StateClone(Peer(e), base)
                 ELSE StateApplyString(Peer(e), StateClone(Peer(e), base), inst.diff)]

AcceptState(e, inst, kept) ==
  LET late == \E i \in DOMAIN kept : kept[i].num > inst.newNum
  IN  /\ quenching' = [quenching EXCEPT ![e] = @ \/ Len(kept) > ReceivedLimit]
      /\ accepted' = [accepted EXCEPT ![e] = @ \cup {inst.newNum}]
      /\ mishaps' = [mishaps EXCEPT ![e] = @
                       \cup (IF ReferenceMoved(receivedState[e], kept, inst.oldNum)
                             THEN {"wrong reference"} ELSE {})
                       \cup (IF late THEN {"written over"} ELSE {})]
      /\ \E new \in {Received(e, inst, kept)} :
           \/ /\ late
              /\ \E rs \in {InsertOutOfOrder(kept, new)} : PickUp(e, rs)
              /\ UNCHANGED <<ackNum, pendingDataAck>>
           \/ /\ ~late
              /\ PickUp(e, Append(kept, new))
              /\ ackNum' = [ackNum EXCEPT ![e] = inst.newNum]
              /\ pendingDataAck' = [pendingDataAck EXCEPT ![e] = @ \/ inst.diff # NoDiff]

ProcessPayload(e, inst) ==
  /\ sentStates' = [sentStates EXCEPT ![e] = ProcessAcknowledgmentThrough(@, inst.ackNum)]
  /\ \/ Ignored(e, inst)
     \/ /\ ~AlreadyReceived(receivedState[e], inst.newNum)
        /\ inst.oldNum \in Nums(receivedState[e])
        /\ \E kept \in {ProcessThrowawayUntil(receivedState[e], inst.throwawayNum)} :
             Quenched(e, kept) \/ AcceptState(e, inst, kept)

\* A packet arrives; a duplicated one stays under way.
Recv(e) ==
  /\ ended[e] = "no"
  /\ \E i \in Deliverable(e), stays \in {FALSE} \cup {e \in Duplicating} :
       /\ network' = IF stays THEN network ELSE [network EXCEPT ![e] = RemoveAt(@, i)]
       /\ ProcessPayload(e, network[e][i])
  /\ hasRemoteAddr' = [hasRemoteAddr EXCEPT ![e] = TRUE]
  /\ UNCHANGED <<currentState, shutdownInProgress, shutdownTries, lastAckSent,
                 ended, fed, overflowed>>

Lose(e) ==
  /\ e \in Lossy
  /\ \E i \in Deliverable(e) : network' = [network EXCEPT ![e] = RemoveAt(@, i)]
  /\ UNCHANGED <<senderVars, receiverVars, hasRemoteAddr, ended, historyVars>>

-----------------------------------------------------------------------------
(* The main loops.                                                         *)

\* User input at the client, output of the shell at the server.
Input(e) ==
  /\ ended[e] = "no" /\ ~shutdownInProgress[e]
  /\ Len(fed[e]) < MaxEvent[e]
  /\ \E event \in Event(e) :
       /\ currentState' = [currentState EXCEPT ![e] = Push(e, @, event)]
       /\ fed' = [fed EXCEPT ![e] = Append(@, event)]
  /\ UNCHANGED <<sentStates, ackNum, pendingDataAck, shutdownInProgress, shutdownTries,
                 lastAckSent, receiverVars, hasRemoteAddr, ended, network,
                 obtained, accepted, overflowed, mishaps>>

\* The user quits, the shell exits, a signal arrives.
StartShutdown(e) ==
  /\ e \in Closing /\ ended[e] = "no" /\ ~shutdownInProgress[e]
  /\ shutdownInProgress' = [shutdownInProgress EXCEPT ![e] = TRUE]
  /\ UNCHANGED <<currentState, sentStates, ackNum, pendingDataAck, shutdownTries, lastAckSent,
                 receiverVars, hasRemoteAddr, ended, network, historyVars>>

\* Mutated: the number of tries is looked at before the ack.
MReasonToEnd(e) ==
  IF shutdownInProgress[e] /\ shutdownTries[e] > 0 THEN "acked"
  ELSE IF CounterpartyShutdownAckSent(e) THEN "peerAcked" ELSE "no"

\* Mutated: nobody counts the tries.
MPatientReasonToEnd(e) ==
  IF shutdownInProgress[e] /\ ShutdownAcknowledged(e) THEN "acked"
  ELSE IF CounterpartyShutdownAckSent(e) THEN "peerAcked" ELSE "no"

\* Why the main loop of e may stop now, in the order of its checks.
ReasonToEnd(e) ==
  IF shutdownInProgress[e] /\ ShutdownAcknowledged(e) THEN "acked"
  ELSE IF shutdownInProgress[e] /\ ShutdownAckTimedout(e) THEN "timedOut"
  ELSE IF CounterpartyShutdownAckSent(e) THEN "peerAcked"
  ELSE IF e = "server" /\ shutdownInProgress[e] /\ Last(receivedState[e]).num = 0
       THEN "notConnected"
  ELSE "no"

Leave(e, why) ==
  /\ ended' = [ended EXCEPT ![e] = why]
  /\ network' = [network EXCEPT ![e] = <<>>]
  /\ UNCHANGED <<senderVars, receiverVars, hasRemoteAddr, historyVars>>

End(e) == ended[e] = "no" /\ ReasonToEnd(e) # "no" /\ Leave(e, ReasonToEnd(e))

\* No response for a minute, a closed socket, a killed process.
Abort(e) == e \in Aborting /\ ended[e] = "no" /\ Leave(e, "aborted")

Next ==
  \E e \in Endpoint :
    \/ Input(e)
    \/ TickAssumingNewest(e)
    \/ TickAssumingOldest(e)
    \/ Recv(e)
    \/ Lose(e)
    \/ StartShutdown(e)
    \/ End(e)
    \/ Abort(e)

Spec == Init /\ [][Next]_vars

-----------------------------------------------------------------------------
(* What holds on every network.                                            *)

TimestampedState(e) == [num : Nat, state : State(e)]
Instruction(e) ==
  [oldNum : Nat, newNum : Nat, ackNum : Nat, throwawayNum : Nat, diff : Diff(e)]
Reasons == {"no", "acked", "timedOut", "peerAcked", "notConnected", "aborted"}

SenderTypeOK ==
  /\ DOMAIN currentState = Endpoint /\ DOMAIN sentStates = Endpoint
  /\ \A e \in Endpoint :
       /\ currentState[e] \in State(e)
       /\ sentStates[e] \in Seq(TimestampedState(e)) /\ sentStates[e] # <<>>
  /\ ackNum \in [Endpoint -> Nat] /\ lastAckSent \in [Endpoint -> Nat]
  /\ pendingDataAck \in [Endpoint -> BOOLEAN] /\ shutdownInProgress \in [Endpoint -> BOOLEAN]
  /\ shutdownTries \in [Endpoint -> Nat]

ReceiverTypeOK ==
  /\ DOMAIN receivedState = Endpoint /\ DOMAIN lastReceiverState = Endpoint
  /\ \A e \in Endpoint :
       /\ receivedState[e] \in Seq(TimestampedState(Peer(e))) /\ receivedState[e] # <<>>
       /\ lastReceiverState[e] \in State(Peer(e))
  /\ quenching \in [Endpoint -> BOOLEAN]

SystemTypeOK ==
  /\ hasRemoteAddr \in [Endpoint -> BOOLEAN] /\ ended \in [Endpoint -> Reasons]
  /\ DOMAIN network = Endpoint
  /\ \A e \in Endpoint : network[e] \in Seq(Instruction(Peer(e)))
  /\ DOMAIN accepted = Endpoint /\ \A e \in Endpoint : accepted[e] \subseteq Nat
  /\ overflowed \in [Endpoint -> BOOLEAN]

\* The types, and that neither queue is ever empty: tick, ProcessPayload and
\* the two main loops index the first and the last state unconditionally.
TypeOK == SenderTypeOK /\ ReceiverTypeOK /\ SystemTypeOK

Ordered(q) == \A i, j \in DOMAIN q : i <= j => q[i].num <= q[j].num

\* Both queues stay in the order of their numbers, whatever is lost,
\* duplicated or reordered: ShutdownAcknowledged, setAckNum and the
\* out-of-order test of ProcessPayload read a number at one end of a queue
\* for the least or the greatest in it.
QueuesOrdered == \A e \in Endpoint : Ordered(sentStates[e]) /\ Ordered(receivedState[e])

\* No end holds, references or has under way a number the other has not used.
NumbersWereSent ==
  \A e \in Endpoint :
    LET newest == Last(sentStates[e]).num
    IN  /\ \A n \in accepted[Peer(e)] : n <= newest
        /\ Nums(receivedState[Peer(e)]) \subseteq accepted[Peer(e)]
        /\ \A i \in DOMAIN network[Peer(e)] : network[Peer(e)][i].newNum <= newest

\* An ack, held, sent last or still under way, names a state its sender has
\* accepted.
AcksNameAcceptedStates ==
  \A e \in Endpoint :
    /\ ackNum[e] \in accepted[e] /\ lastAckSent[e] \in accepted[e]
    /\ \A i \in DOMAIN network[Peer(e)] : network[Peer(e)][i].ackNum \in accepted[e]

\* sender.go:34: "first element: known, acknowledged receiver sentStates".
\* True until AddSentState cuts the queue.
FrontWasAccepted ==
  \A e \in Endpoint : ~overflowed[e] => sentStates[e][1].num \in accepted[Peer(e)]

\* A reference state is never one the same instruction tells the receiver to
\* throw away, and what it tells to throw away ends at a state the receiver
\* has accepted.  True until AddSentState cuts the queue.
ReferenceIsKept ==
  \A e \in Endpoint : ~overflowed[e] =>
    \A i \in DOMAIN network[Peer(e)] :
      LET inst == network[Peer(e)][i]
      IN  /\ inst.throwawayNum <= inst.oldNum /\ inst.oldNum <= inst.newNum
          /\ inst.throwawayNum \in accepted[Peer(e)]

\* sender.go:381: "verify diff has round-trip identity".  The difference under
\* way turns the state it refers to into the state it announces.
InstructionRoundTrips(e, inst, old, new) ==
  inst.oldNum = old.num /\ inst.newNum = new.num =>
    StateEqual(e, new.state, StateApplyString(e, StateClone(e, old.state), inst.diff))
RoundTrip(e) ==
  \A m \in DOMAIN network[Peer(e)], i, j \in DOMAIN sentStates[e] :
    InstructionRoundTrips(e, network[Peer(e)][m], sentStates[e][i], sentStates[e][j])

\* An end that reports a clean shutdown is right: the shutdown state has been
\* accepted by the other end, or by itself if the other end asked for it.
ShutdownWasAccepted ==
  \A e \in Endpoint :
    /\ ended[e] = "acked" /\ ~overflowed[e] => MaxUint64 \in accepted[Peer(e)]
    /\ ended[e] = "peerAcked" => MaxUint64 \in accepted[e]

-----------------------------------------------------------------------------
(* What holds at an end whose packets arrive in order, lost or duplicated  *)
(* as they may be.                                                         *)

\* The receiver still has the oldest state of the sender, so the sender can
\* always go back to a reference state that the receiver knows.
FrontIsHeld ==
  \A e \in Endpoint :
    ~overflowed[e] /\ Peer(e) \notin Reordering =>
      sentStates[e][1].num \in Nums(receivedState[Peer(e)])

\* transport.go:289: "we don't want to ACK a state and then discard it later".
AckedStateIsHeld ==
  \A e \in Endpoint : e \notin Reordering => ackNum[e] = Last(receivedState[e]).num

\* The same promise on every network: what was acknowledged stays available
\* as a reference state.
AckedStateIsNeverDiscarded == \A e \in Endpoint : ackNum[e] \in Nums(receivedState[e])

Times(q, n) == Cardinality({i \in DOMAIN q : q[i].num = n})

\* transport.go:281: "this is ... part of how we enforce idempotency".  A
\* number that was accepted once is never accepted again, be it still in the
\* queue or thrown away since.
AcceptedOnce ==
  [][\A e \in Endpoint \ Reordering : \A n \in accepted[e] :
       Times(receivedState'[e], n) <= Times(receivedState[e], n)]_vars
=============================================================================
