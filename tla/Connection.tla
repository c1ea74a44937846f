----------------------------- MODULE Connection -----------------------------
(***************************************************************************)
(* network/network.go: the Connection of a client and that of its server.  *)
(*                                                                         *)
(* The client sends from the newest of its sockets and listens on all of   *)
(* them; it opens another (hopPort) when no round trip has succeeded for a *)
(* while, and closes old ones (pruneSockets).  The server has one socket   *)
(* and answers to where the newest packet came from; it detaches from a    *)
(* client it has not heard of for long.  Each packet says when it was sent *)
(* and, if there is something to answer, echoes the time of a packet of    *)
(* the other end: the receiver takes a sample of the round-trip time.      *)
(*                                                                         *)
(* What TransportSender.Awaken answers, which keeps an end from hopping or *)
(* detaching after hibernation, is an input here.  Each packet of the      *)
(* client carries a new state and each of the server acknowledges the      *)
(* newest one received (SSP).  SRTT and RTTVAR are known by the last       *)
(* sample that went into them.                                             *)
(***************************************************************************)
EXTENDS Integers, Sequences, FiniteSets, SequencesExt, FiniteSetsExt, Functions

CONSTANTS
  TsMod,          \* 65535: timestamp16 counts modulo this
  ReplyAge,       \* 1000: a timestamp older than this is not echoed
  RttMax,         \* 5000: samples not below this are ignored
  Penalty,        \* CONGESTION_TIMESTAMP_PENALTY, 500
  PortHop,        \* PORT_HOP_INTERVAL, 10000
  Association,    \* SERVER_ASSOCIATION_TIMEOUT, 40000
  OldSocketAge,   \* MAX_OLD_SOCKET_AGE, 60000
  MaxPorts,       \* MAX_PORTS_OPEN, 10
  Start,          \* the time at the beginning
  Congested,      \* ends whose incoming packets may be marked for congestion
  MaxTime, MaxMoves, \* bounds: the clock, changes of the client's address
  MaxSeq, ChanCap \* bounds per end: packets sent, packets under way to it

End     == {"client", "server"}
Peer(e) == IF e = "client" THEN "server" ELSE "client"
None    == -1

ASSUME ConnectionAssumption ==
  /\ {ReplyAge, RttMax, Penalty, PortHop, Association, OldSocketAge,
      MaxPorts, Start, MaxTime, MaxMoves} \subseteq Nat
  /\ TsMod \in Nat \ {0} /\ ReplyAge < TsMod /\ RttMax < TsMod /\ Start <= MaxTime
  /\ Congested \subseteq End /\ MaxSeq \in [End -> Nat] /\ ChanCap \in [End -> Nat]

VARIABLES
  now,
  where,                \* the address the client's packets come from, as the world sees it
  network,              \* network[e]: the set of packets under way to e
  \* both ends
  seq,                  \* encrypt.Unique: the number of packets made
  expectedReceiverSeq,
  saved,                \* savedTimestamp and savedTimestampReceivedAt, or nothing
  sample,               \* the last round-trip time measured
  \* the client
  socks, lastPortChoice, lastRoundtripSuccess,
  ackedAt,              \* when the oldest sent state was sent (getSentStateAckedTimestamp)
  \* the server
  remoteAddr, hasRemoteAddr, lastHeard,
  newestState,          \* when the newest state it received was sent
  \* history: where and when each packet of the client was sent, the newest of
  \* them that has arrived, and whether pruneSockets has found too many sockets
  origin, arrived, crowded

endVars    == <<seq, expectedReceiverSeq, saved, sample>>
clientVars == <<socks, lastPortChoice, lastRoundtripSuccess, ackedAt, crowded>>
serverVars == <<remoteAddr, hasRemoteAddr, lastHeard, newestState, arrived>>
vars == <<now, where, network, endVars, clientVars, serverVars, origin>>

NoSample == [r |-> None, true |-> None]
NoStamp  == [ts |-> None, true |-> None, at |-> None]

Init ==
  /\ now = Start /\ where = 0
  /\ network = [e \in End |-> {}]
  /\ seq = [e \in End |-> 0] /\ expectedReceiverSeq = [e \in End |-> 0]
  /\ saved = [e \in End |-> NoStamp] /\ sample = [e \in End |-> NoSample]
  /\ socks = <<1>> /\ lastPortChoice = Start /\ lastRoundtripSuccess = None
  /\ ackedAt = Start
  /\ remoteAddr = <<None, None>> /\ hasRemoteAddr = FALSE /\ lastHeard = None
  /\ newestState = Start
  /\ origin = <<>> /\ arrived = 0 /\ crowded = FALSE

-----------------------------------------------------------------------------
(* Timestamps.                                                             *)

Timestamp16 == now % TsMod

\* Counts modulo 65536, although timestamps are modulo 65535.
TimestampDiff(new, old) == (new - old) % (TsMod + 1)

Recent(e) == saved[e] # NoStamp /\ now - saved[e].at < ReplyAge

\* Mutated: the time the timestamp was held is not taken into account.
MHeld(e) == 0

\* send "corrected" timestamp advanced by how long we held it
Held(e) == now - saved[e].at

\* newPacket: without a recent timestamp the reply is 0.  `true' is the time
\* echoed, before it was cut to 16 bits.
TimestampReply(e) == IF Recent(e) THEN (saved[e].ts + Held(e)) % (TsMod + 1) ELSE 0
TrueReply(e)      == IF Recent(e) THEN saved[e].true + now - saved[e].at ELSE None

NewPacket(e, addr, payload) ==
  [seq |-> seq[e] + 1, timestamp |-> Timestamp16, timestampReply |-> TimestampReply(e),
   addr |-> addr, payload |-> payload, sentAt |-> now, echoes |-> TrueReply(e)]

\* The timestamp of a packet, put back if the packet has met congestion.
Stamp(p, ce) ==
  [ts |-> (p.timestamp - (IF ce THEN Penalty ELSE 0)) % (TsMod + 1),
   true |-> p.sentAt - (IF ce THEN Penalty ELSE 0), at |-> now]

\* The sample a packet yields; 65535 stands for no reply, and large ones are ignored.
Sampled(e, p) ==
  LET r == TimestampDiff(Timestamp16, p.timestampReply)
  IN  IF p.timestampReply # TsMod /\ r < RttMax
      THEN [r |-> r, true |-> IF p.echoes = None THEN None ELSE now - p.echoes]
      ELSE sample[e]

-----------------------------------------------------------------------------
(* Sockets of the client.                                                  *)

\* Mutated: the newest one is among those that go.
MCleanSocks(ss, n) == SubSeq(ss, 1, Len(ss) - n)

\* Mutated: one too many.
MCleanSocksToo(ss, n) == SubSeq(ss, n + 2, Len(ss))

\* cleanSocks: the n oldest sockets are closed.
CleanSocks(ss, n) == SubSeq(ss, n + 1, Len(ss))

\* pruneSockets: all but the newest go if that one is old enough; beyond the
\* limit as many as the limit go.
AfterAge(ss, chosen) ==
  IF Len(ss) > 1 /\ now - chosen > OldSocketAge THEN CleanSocks(ss, Len(ss) - 1) ELSE ss
PruneSockets(ss, chosen) ==
  LET young == AfterAge(ss, chosen)
  IN  IF Len(young) > MaxPorts /\ Len(ss) > 1 THEN CleanSocks(young, MaxPorts) ELSE young
TooMany(ss, chosen) == Len(ss) > 1 /\ Len(AfterAge(ss, chosen)) > MaxPorts

\* The time to hop has come; before the first answer it never does.
HopDue ==
  /\ now - lastPortChoice > PortHop
  /\ lastRoundtripSuccess # None /\ now - lastRoundtripSuccess > PortHop

\* hopPort: the new socket comes last, unless dialUDP fails.
HopPort ==
  /\ lastPortChoice' = now
  /\ \/ UNCHANGED <<socks, crowded>>
     \/ LET more == Append(socks, Last(socks) + 1)
        IN  /\ socks' = PruneSockets(more, now)
            /\ crowded' = (crowded \/ TooMany(more, now))
  /\ UNCHANGED <<lastRoundtripSuccess, ackedAt>>

-----------------------------------------------------------------------------
(* send.  A write that fails returns at once: that is a packet that gets   *)
(* lost and, like `awaken', neither a hop nor a detachment.                *)

MakePacket(e, addr, payload) ==
  /\ seq[e] < MaxSeq[e]
  /\ seq' = [seq EXCEPT ![e] = @ + 1]
  /\ saved' = [saved EXCEPT ![e] = IF Recent(e) THEN NoStamp ELSE @]
  /\ Cardinality(network[Peer(e)]) < ChanCap[Peer(e)]
  /\ network' = [network EXCEPT ![Peer(e)] = @ \cup {NewPacket(e, addr, payload)}]
  /\ UNCHANGED <<now, where, expectedReceiverSeq, sample>>

SendFromClient ==
  \E awaken \in BOOLEAN :
    LET addr == <<where, Last(socks)>>
    IN  /\ MakePacket("client", addr, now)
        /\ origin' = Append(origin, [addr |-> addr, at |-> now])
        /\ \/ ~awaken /\ HopDue /\ HopPort
           \/ (awaken \/ ~HopDue) /\ UNCHANGED clientVars
        /\ UNCHANGED serverVars

\* Mutated: it detaches a little too early.
MDetachDue == now - lastHeard >= Association

DetachDue == now - lastHeard > Association

SendFromServer ==
  \E awaken \in BOOLEAN :
    /\ hasRemoteAddr
    /\ MakePacket("server", remoteAddr, newestState)
    /\ hasRemoteAddr' = (awaken \/ ~DetachDue)
    /\ UNCHANGED <<clientVars, remoteAddr, lastHeard, newestState, arrived, origin>>

-----------------------------------------------------------------------------
(* Recv and recvOne, and what ProcessPayload then tells the Connection.    *)

\* Mutated: a packet is used whenever it comes.
MInOrder(e, p) == TRUE

\* don't use (but do return) out-of-order packets for timestamp or targeting
InOrder(e, p) == p.seq >= expectedReceiverSeq[e]

RecvOne(e, p, ce) ==
  IF InOrder(e, p)
  THEN /\ expectedReceiverSeq' = [expectedReceiverSeq EXCEPT ![e] = p.seq + 1]
       /\ saved' = [saved EXCEPT ![e] = Stamp(p, ce)]
       /\ sample' = [sample EXCEPT ![e] = Sampled(e, p)]
  ELSE UNCHANGED <<expectedReceiverSeq, saved, sample>>

\* A packet arrives; a duplicated one stays under way.
Arrives(e, p) ==
  /\ \E rest \in {network[e], network[e] \ {p}} : network' = [network EXCEPT ![e] = rest]
  /\ \E ce \in {FALSE, (e \in Congested)} : RecvOne(e, p, ce)
  /\ UNCHANGED <<now, where, seq, origin>>

\* The server: only the client can roam.
RecvAtServer(p) ==
  /\ Arrives("server", p)
  /\ IF InOrder("server", p)
     THEN hasRemoteAddr' = TRUE /\ lastHeard' = now /\ remoteAddr' = p.addr
     ELSE UNCHANGED <<hasRemoteAddr, lastHeard, remoteAddr>>
  /\ newestState' = Max({newestState, p.payload})
  /\ arrived' = Max({arrived, p.seq})
  /\ UNCHANGED clientVars

\* The client, on the socket the packet was sent to, if it is still open and
\* the client is still where the packet goes.
RecvAtClient(p) ==
  /\ p.addr[1] = where /\ p.addr[2] \in Range(socks)
  /\ Arrives("client", p)
  /\ socks' = PruneSockets(socks, lastPortChoice)
  /\ crowded' = (crowded \/ TooMany(socks, lastPortChoice))
  /\ ackedAt' = Max({ackedAt, p.payload})
  /\ lastRoundtripSuccess' = ackedAt'
  /\ UNCHANGED <<lastPortChoice, serverVars>>

\* The network loses a packet; the client moves; time passes.
Lose(e, p) ==
  /\ network' = [network EXCEPT ![e] = @ \ {p}]
  /\ UNCHANGED <<now, where, endVars, clientVars, serverVars, origin>>

Move ==
  /\ where < MaxMoves /\ where' = where + 1
  /\ UNCHANGED <<now, network, endVars, clientVars, serverVars, origin>>

Tock ==
  /\ now < MaxTime /\ now' = now + 1
  /\ UNCHANGED <<where, network, endVars, clientVars, serverVars, origin>>

Next ==
  \/ SendFromClient \/ SendFromServer
  \/ \E p \in network["server"] : RecvAtServer(p)
  \/ \E p \in network["client"] : RecvAtClient(p)
  \/ \E e \in End : \E p \in network[e] : Lose(e, p)
  \/ Move \/ Tock

Spec == Init /\ [][Next]_vars

-----------------------------------------------------------------------------
Time == Start..MaxTime
Addr == (0..MaxMoves) \X (Nat \ {0})
Packet == [seq : Nat, timestamp : 0..TsMod - 1, timestampReply : 0..TsMod, addr : Addr,
           payload : Time, sentAt : Time, echoes : Int]

\* The types, and that the client always has a socket to send from (sock
\* indexes the last one unconditionally).
TypeOK ==
  /\ now \in Time /\ where \in 0..MaxMoves
  /\ network \in [End -> SUBSET Packet]
  /\ seq \in [End -> Nat] /\ expectedReceiverSeq \in [End -> Nat]
  /\ \A e \in End : /\ saved[e] = NoStamp \/ (saved[e].ts \in 0..TsMod /\ saved[e].at \in Time)
                    /\ sample[e] = NoSample \/ sample[e].r \in 0..RttMax - 1
  /\ socks \in Seq(Nat \ {0}) /\ socks # <<>>
  /\ lastPortChoice \in Time /\ lastRoundtripSuccess \in Time \cup {None} /\ ackedAt \in Time
  /\ remoteAddr \in Addr \cup {<<None, None>>} /\ hasRemoteAddr \in BOOLEAN
  /\ lastHeard \in Time \cup {None} /\ newestState \in Time
  /\ crowded \in BOOLEAN /\ Len(origin) = seq["client"] /\ arrived \in 0..Len(origin)

\* network.go:700: "don't use (but do return) out-of-order packets for
\* timestamp or targeting".  The server answers to the address from which the
\* newest packet it has received was sent, however packets overtake one
\* another or are repeated while the client hops and moves.
TargetIsNewest ==
  arrived > 0 => remoteAddr = origin[arrived].addr

\* A server that has received what the client sent last answers to a socket on
\* which the client still listens: hopPort and pruneSockets must leave it open.
\* True while the client goes on sending, and until it has had more sockets
\* than MAX_PORTS_OPEN, when pruneSockets closes all but the newest.
AnswersAreHeard ==
  /\ arrived > 0 /\ arrived = seq["client"]
  /\ now - origin[seq["client"]].at <= OldSocketAge /\ ~crowded
  => remoteAddr[2] \in Range(socks)

\* A server that has heard from its client lately is attached to it: no order
\* of sending, receiving and detaching leaves it silent.
HeardIsAttached ==
  lastHeard # None /\ now - lastHeard <= Association => hasRemoteAddr

\* Whether the sample was taken from a packet that echoed one.
Echoed(e) == sample[e].true # None

\* A sample taken from a packet that echoes one is the time from the sending of
\* the packet echoed to the arrival of the echo, less the time the echo was
\* held, more the penalty of congestion, and one unit more if the timestamps
\* have wrapped in between (timestamp16, timestampDiff).  Nothing is said of a
\* packet that was under way for as long as the timestamps take to wrap, nor of
\* one that echoes none: its reply is 0 ("-1 for c++", network.go:519) where
\* 65535 would be ignored ("-1 in c++", network.go:726), and recvOne takes a
\* sample that is no round trip.
SampleIsRoundTrip ==
  \A e \in End :
    Echoed(e) /\ sample[e].true \in 0..TsMod - ReplyAge =>
      sample[e].r \in {sample[e].true, sample[e].true + 1}
=============================================================================
