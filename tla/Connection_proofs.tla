------------------------- MODULE Connection_proofs -------------------------
(***************************************************************************)
(* What the two Connections keep true for every value of the timers, every *)
(* number of sockets and every modulus of the timestamps, on a network     *)
(* that may lose, repeat and reorder packets: the types, whom the server   *)
(* answers, when it is attached, which sockets stay open and what a sample *)
(* of the round-trip time measures.                                        *)
(***************************************************************************)
EXTENDS Connection, TLAPS, SequenceTheorems

-----------------------------------------------------------------------------
(* The inductive invariant, in named parts.                                *)

StampType  == [ts : 0..TsMod, true : Int, at : Time]
SampleType == [r : 0..RttMax - 1, true : Int]
Origin     == [addr : Addr, at : Time]

\* TypeOK, with the shape of what it only mentions by its fields.
Types ==
  /\ now \in Time /\ where \in 0..MaxMoves
  /\ network \in [End -> SUBSET Packet]
  /\ seq \in [End -> Nat] /\ expectedReceiverSeq \in [End -> Nat]
  /\ saved \in [End -> StampType \cup {NoStamp}]
  /\ sample \in [End -> SampleType \cup {NoSample}]
  /\ socks \in Seq(Nat \ {0}) /\ socks # <<>>
  /\ lastPortChoice \in Time /\ lastRoundtripSuccess \in Time \cup {None} /\ ackedAt \in Time
  /\ remoteAddr \in Addr \cup {<<None, None>>} /\ hasRemoteAddr \in BOOLEAN
  /\ hasRemoteAddr => remoteAddr \in Addr
  /\ lastHeard \in Time \cup {None} /\ newestState \in Time
  /\ crowded \in BOOLEAN
  /\ origin \in Seq(Origin) /\ Len(origin) = seq["client"] /\ arrived \in 0..Len(origin)

\* A packet under way to the server is one the client has made, and says
\* where it was sent from.
PacketsAreMade ==
  \A p \in network["server"] :
    p.seq \in 1..Len(origin) /\ p.addr = origin[p.seq].addr

\* The server expects the packet after the newest that has arrived, and
\* answers to where that one came from.
ServerFollows ==
  /\ expectedReceiverSeq["server"] = IF arrived = 0 THEN 0 ELSE arrived + 1
  /\ arrived > 0 => remoteAddr = origin[arrived].addr

\* Whom it answers it has heard, and not in the future.
HeardBefore ==
  /\ hasRemoteAddr => lastHeard # None
  /\ HeardIsAttached

\* The socket of the client's last packet: it is the newest one unless the
\* client has hopped since, and it is open while the packet is young.
LastSocketIsOpen ==
  Len(origin) > 0 =>
    LET o == origin[Len(origin)]
    IN  /\ o.at > lastPortChoice => o.addr[2] = Last(socks)
        /\ now - o.at <= OldSocketAge /\ ~crowded => o.addr[2] \in Range(socks)

\* ts is what 16 bits keep of a time `true' that was counted from s: as far
\* off the timestamp of s as `true' is off s.
Counted(ts, true, s) == ts = ((s % TsMod) + (true - s)) % (TsMod + 1)

\* What is under way and what is saved are times of sending, put back by a
\* penalty and forward by how long they were held.
StampsAreCounted ==
  /\ \A e \in End : saved[e] # NoStamp =>
       /\ saved[e].at <= now
       /\ \E s \in Time : /\ s <= saved[e].at /\ saved[e].true <= s
                          /\ Counted(saved[e].ts, saved[e].true, s)
  /\ \A e \in End : \A p \in network[e] :
       /\ p.sentAt <= now /\ p.timestamp = p.sentAt % TsMod
       /\ p.echoes # None =>
            /\ ReplyAge > 0
            /\ \E s \in Time : /\ s <= p.sentAt /\ p.echoes < s + ReplyAge
                               /\ Counted(p.timestampReply, p.echoes, s)

IInv ==
  /\ Types /\ PacketsAreMade /\ ServerFollows /\ HeardBefore /\ LastSocketIsOpen
  /\ StampsAreCounted /\ SampleIsRoundTrip
-----------------------------------------------------------------------------
(* Arithmetic.                                                             *)

\* Quotient and remainder.
LEMMA DivMod ==
  ASSUME NEW x \in Int, NEW M \in Nat \ {0}
  PROVE  x \div M \in Int /\ x % M \in 0..M - 1 /\ x = M * (x \div M) + (x % M)
  BY SMT

\* The remainder is the only number in its range that differs by a multiple.
LEMMA ModUnique ==
  ASSUME NEW x \in Int, NEW M \in Nat \ {0}, NEW q \in Int, NEW r \in 0..M - 1,
         x = M * q + r
  PROVE  x % M = r
  BY SMT

\* A remainder may be taken before something is added ...
LEMMA ModAdd ==
  ASSUME NEW x \in Int, NEW h \in Int, NEW M \in Nat \ {0}
  PROVE  ((x % M) + h) % M = (x + h) % M
<1> DEFINE q == x \div M
           r == x % M
           k == (r + h) \div M
           t == (r + h) % M
<1>1. q \in Int /\ r \in Int /\ x = M * q + r
  BY DivMod
<1>2. k \in Int /\ t \in 0..M - 1 /\ r + h = M * k + t
  BY <1>1, DivMod
<1> HIDE DEF q, r, k, t
<1>3. x + h = M * (q + k) + t
  BY <1>1, <1>2
<1>4. (x + h) % M = t
  <2>1. x + h \in Int /\ q + k \in Int
    BY <1>1, <1>2
  <2> QED  BY <1>2, <1>3, <2>1, ModUnique
<1> QED BY <1>4 DEF r, t

\* ... or subtracted.
LEMMA ModSub ==
  ASSUME NEW a \in Int, NEW x \in Int, NEW M \in Nat \ {0}
  PROVE  (a - (x % M)) % M = (a - x) % M
<1> DEFINE q == x \div M
           r == x % M
           k == (a - r) \div M
           t == (a - r) % M
<1>1. q \in Int /\ r \in Int /\ x = M * q + r
  BY DivMod
<1>2. k \in Int /\ t \in 0..M - 1 /\ a - r = M * k + t
  BY <1>1, DivMod
<1> HIDE DEF q, r, k, t
<1>3. a - x = M * (k - q) + t
  BY <1>1, <1>2
<1>4. (a - x) % M = t
  <2>1. a - x \in Int /\ k - q \in Int
    BY <1>1, <1>2
  <2> QED  BY <1>2, <1>3, <2>1, ModUnique
<1> QED BY <1>4 DEF r, t

\* Between two times less than M apart the remainders wrap at most once.
LEMMA Wrap ==
  ASSUME NEW s \in Int, NEW n \in Int, NEW M \in Nat \ {0}, s <= n, n - s < M
  PROVE  n % M = (s % M) + (n - s) \/ n % M = (s % M) + (n - s) - M
<1> DEFINE q == s \div M
           r == s % M
           t == r + (n - s)
<1>1. q \in Int /\ r \in 0..M - 1 /\ s = M * q + r
  BY DivMod
<1>2. t \in Nat /\ t < 2 * M
  BY <1>1
<1> HIDE DEF q, r
<1>3. n = M * q + t /\ n = M * (q + 1) + (t - M)
  BY <1>1
<1> HIDE DEF t
<1>4. CASE t < M
  <2>1. t \in 0..M - 1
    BY <1>2, <1>4
  <2>2. n % M = t
    BY <1>1, <1>3, <2>1, ModUnique
  <2> QED BY <2>2 DEF r, t
<1>5. CASE t >= M
  <2>1. t - M \in 0..M - 1 /\ q + 1 \in Int
    BY <1>1, <1>2, <1>5
  <2>2. n % M = t - M
    BY <1>3, <2>1, ModUnique
  <2> QED BY <2>2 DEF r, t
<1> QED BY <1>2, <1>4, <1>5

\* Max of two numbers is one of them and not below the other.
LEMMA MaxOfTwo ==
  ASSUME NEW a \in Int, NEW b \in Int
  PROVE  Max({a, b}) = IF a >= b THEN a ELSE b
  BY DEF Max

\* What the assumptions say of each constant.
LEMMA Constants ==
  /\ ReplyAge \in Nat /\ RttMax \in Nat /\ Penalty \in Nat /\ PortHop \in Nat
  /\ Association \in Nat /\ OldSocketAge \in Nat /\ MaxPorts \in Nat
  /\ Start \in Nat /\ MaxTime \in Nat /\ MaxMoves \in Nat /\ Start <= MaxTime
  /\ TsMod \in Nat \ {0} /\ TsMod + 1 \in Nat \ {0} /\ ReplyAge < TsMod
  BY ConnectionAssumption

\* Timestamps and their differences, the two moduli.
LEMMA SixteenBits ==
  ASSUME NEW x \in Int
  PROVE  /\ x % TsMod \in 0..TsMod - 1 /\ x % TsMod \in Nat
         /\ x % (TsMod + 1) \in 0..TsMod /\ x % (TsMod + 1) \in Nat
<1>1. x % TsMod \in 0..TsMod - 1 /\ x % TsMod \in Nat
  <2>1. x % TsMod \in 0..TsMod - 1
    BY Constants, DivMod
  <2> QED  BY <2>1, Constants
<1>2. x % (TsMod + 1) \in 0..TsMod /\ x % (TsMod + 1) \in Nat
  <2> DEFINE m == TsMod + 1
  <2>1. m \in Nat \ {0} /\ 0..m - 1 = 0..TsMod
    BY Constants
  <2> HIDE DEF m
  <2>2. x % m \in 0..m - 1
    BY <2>1, DivMod
  <2>3. x % m \in 0..TsMod /\ x % m \in Nat
    <3>1. x % m \in 0..TsMod
      BY <2>1, <2>2
    <3> QED  BY <3>1, Constants
  <2> QED  BY <2>3 DEF m
<1> QED  BY <1>1, <1>2

-----------------------------------------------------------------------------
(* Sockets.                                                                *)

\* A client with a socket has a newest one.
LEMMA NewestSocket ==
  ASSUME NEW ss \in Seq(Nat \ {0}), ss # <<>>
  PROVE  /\ Len(ss) \in Nat \ {0} /\ Last(ss) \in Nat \ {0} /\ Last(ss) \in Range(ss)
         /\ \A i \in 1..Len(ss) : ss[i] \in Nat \ {0}
<1>1. Len(ss) \in Nat \ {0} /\ DOMAIN ss = 1..Len(ss)
  BY EmptySeq, LenProperties
<1>2. \A i \in 1..Len(ss) : ss[i] \in Nat \ {0}
  BY ElementOfSeq
<1>3. Len(ss) \in 1..Len(ss)
  BY <1>1
<1> QED  BY <1>1, <1>2, <1>3 DEF Last, Range

\* cleanSocks leaves the newest socket when it is not asked to close them all.
LEMMA CleanSocksKeepsNewest ==
  ASSUME NEW ss \in Seq(Nat \ {0}), NEW n \in Nat, n < Len(ss)
  PROVE  LET left == CleanSocks(ss, n)
         IN  /\ left \in Seq(Nat \ {0}) /\ left # <<>>
             /\ Last(left) = Last(ss)
<1> DEFINE left == SubSeq(ss, n + 1, Len(ss))
<1>1. Len(ss) \in Nat /\ \A i \in 1..Len(ss) : ss[i] \in Nat \ {0}
  BY LenProperties, ElementOfSeq
<1>2. \A i \in n + 1..Len(ss) : ss[i] \in Nat \ {0}
  BY <1>1
<1>3. /\ left \in Seq(Nat \ {0}) /\ Len(left) = Len(ss) - n
      /\ \A i \in 1..Len(ss) - n : left[i] = ss[n + i]
  <2>1. /\ SubSeq(ss, n + 1, Len(ss)) \in Seq(Nat \ {0})
        /\ Len(SubSeq(ss, n + 1, Len(ss))) =
             IF n + 1 <= Len(ss) THEN Len(ss) - (n + 1) + 1 ELSE 0
        /\ \A i \in 1..Len(ss) - (n + 1) + 1 :
             SubSeq(ss, n + 1, Len(ss))[i] = ss[(n + 1) + i - 1]
    BY <1>1, <1>2, SubSeqProperties
  <2> QED  BY <1>1, <2>1
<1> HIDE DEF left
<1>4. left # <<>>
  BY <1>1, <1>3, EmptySeq
<1>5. Last(left) = Last(ss)
  <2>1. Len(ss) - n \in 1..Len(ss) - n /\ n + (Len(ss) - n) = Len(ss)
    BY <1>1
  <2>2. left[Len(ss) - n] = ss[n + (Len(ss) - n)]
    BY <1>3, <2>1
  <2> QED  BY <1>3, <2>1, <2>2 DEF Last
<1> QED  BY <1>3, <1>4, <1>5 DEF CleanSocks, left

\* pruneSockets always leaves the newest socket, and every one unless there
\* are too many or the newest has become old.
LEMMA PruneKeepsNewest ==
  ASSUME NEW ss \in Seq(Nat \ {0}), ss # <<>>, NEW chosen \in Time, now \in Time
  PROVE  /\ PruneSockets(ss, chosen) \in Seq(Nat \ {0}) /\ PruneSockets(ss, chosen) # <<>>
         /\ Last(PruneSockets(ss, chosen)) = Last(ss)
         /\ TooMany(ss, chosen) \in BOOLEAN
         /\ now - chosen <= OldSocketAge /\ ~TooMany(ss, chosen) =>
              PruneSockets(ss, chosen) = ss
<1> DEFINE young == AfterAge(ss, chosen)
<1>0. Len(ss) \in Nat \ {0} /\ now \in Nat /\ chosen \in Nat
  BY NewestSocket, Constants DEF Time
<1>1. young \in Seq(Nat \ {0}) /\ young # <<>> /\ Last(young) = Last(ss)
  <2>1. CASE Len(ss) > 1 /\ now - chosen > OldSocketAge
    <3>1. Len(ss) - 1 \in Nat /\ Len(ss) - 1 < Len(ss)
      BY <1>0
    <3> QED  BY <2>1, <3>1, CleanSocksKeepsNewest DEF AfterAge
  <2> QED  BY <2>1 DEF AfterAge
<1>2. now - chosen <= OldSocketAge => young = ss
  BY <1>0, Constants DEF AfterAge
<1> HIDE DEF young
<1>3. PruneSockets(ss, chosen) =
        IF Len(young) > MaxPorts /\ Len(ss) > 1 THEN CleanSocks(young, MaxPorts) ELSE young
  BY DEF PruneSockets, young
<1>4. TooMany(ss, chosen) = (Len(ss) > 1 /\ Len(young) > MaxPorts)
  BY DEF TooMany, young
<1>5. CASE Len(young) > MaxPorts /\ Len(ss) > 1
  <2>1. Len(young) \in Nat /\ MaxPorts \in Nat /\ MaxPorts < Len(young)
    BY <1>1, <1>5, NewestSocket, Constants
  <2> QED  BY <1>1, <1>3, <1>4, <1>5, <2>1, CleanSocksKeepsNewest
<1>6. CASE ~(Len(young) > MaxPorts /\ Len(ss) > 1)
  BY <1>1, <1>2, <1>3, <1>4, <1>6
<1> QED  BY <1>5, <1>6

-----------------------------------------------------------------------------
(* Types.                                                                  *)

\* The fields of a packet.
LEMMA PacketFields ==
  ASSUME NEW p \in Packet
  PROVE  /\ p.seq \in Nat /\ p.timestamp \in 0..TsMod - 1 /\ p.timestampReply \in 0..TsMod
         /\ p.timestamp \in Nat /\ p.timestampReply \in Nat /\ p.sentAt \in Nat
         /\ p.addr \in Addr /\ p.payload \in Time /\ p.sentAt \in Time /\ p.echoes \in Int
<1>1. /\ p.seq \in Nat /\ p.timestamp \in 0..TsMod - 1 /\ p.timestampReply \in 0..TsMod
      /\ p.addr \in Addr /\ p.payload \in Time /\ p.sentAt \in Time /\ p.echoes \in Int
  BY DEF Packet
<1>2. p.timestamp \in Nat /\ p.timestampReply \in Nat /\ p.sentAt \in Nat
  BY <1>1, Constants DEF Time
<1> QED  BY <1>1, <1>2

\* The two ends are each other's peers.
LEMMA PeerType ==
  /\ "client" \in End /\ "server" \in End /\ "client" # "server"
  /\ Peer("client") = "server" /\ Peer("server") = "client"
  BY DEF End, Peer

\* A time is a number, and no time is nothing.
LEMMA TimeType ==
  /\ Time \subseteq Nat /\ Time \subseteq Int /\ None \notin Time
  /\ \A t \in Time : Start <= t /\ t <= MaxTime
  BY Constants DEF Time, None

\* What is saved is a stamp, which differs from no stamp.
LEMMA StampFields ==
  ASSUME NEW st \in StampType \cup {NoStamp}, st # NoStamp
  PROVE  /\ st \in StampType /\ st.ts \in 0..TsMod /\ st.true \in Int /\ st.at \in Time
         /\ st.ts \in Nat /\ st.at \in Nat
<1>1. st \in StampType /\ st.ts \in 0..TsMod /\ st.true \in Int /\ st.at \in Time
  BY DEF StampType
<1>2. st.ts \in Nat
  BY <1>1, Constants
<1>3. st.at \in Nat
  BY <1>1, TimeType
<1> QED  BY <1>1, <1>2, <1>3

\* newPacket makes a packet.
LEMMA NewPacketType ==
  ASSUME Types, NEW e \in End, NEW addr \in Addr, NEW payload \in Time
  PROVE  NewPacket(e, addr, payload) \in Packet
<1>1. seq[e] + 1 \in Nat
  BY DEF Types
<1>2. Timestamp16 \in 0..TsMod - 1
  BY SixteenBits, TimeType DEF Types, Timestamp16
<1>3. TimestampReply(e) \in 0..TsMod /\ TrueReply(e) \in Int
  <2>1. CASE Recent(e)
    <3>1. saved[e].ts \in Nat /\ saved[e].true \in Int /\ saved[e].at \in Nat
      BY <2>1, StampFields DEF Types, Recent
    <3>2. saved[e].ts + Held(e) \in Int /\ saved[e].true + now - saved[e].at \in Int
      <4>1. now \in Int
        BY TimeType DEF Types
      <4> QED  BY <3>1, <4>1 DEF Held
    <3>3. (saved[e].ts + Held(e)) % (TsMod + 1) \in 0..TsMod
      BY <3>2, SixteenBits
    <3> QED  BY <2>1, <3>2, <3>3 DEF TimestampReply, TrueReply
  <2>2. CASE ~Recent(e)
    BY <2>2, Constants DEF TimestampReply, TrueReply, None
  <2> QED  BY <2>1, <2>2
<1> QED  BY <1>1, <1>2, <1>3 DEF NewPacket, Packet, Types

\* recvOne makes a stamp ...
LEMMA StampHasType ==
  ASSUME Types, NEW p \in Packet, NEW ce \in BOOLEAN
  PROVE  Stamp(p, ce) \in StampType
<1> DEFINE penalty == IF ce THEN Penalty ELSE 0
<1>1. p.timestamp - penalty \in Int /\ p.sentAt - penalty \in Int
  <2>1. p.timestamp \in Nat /\ p.sentAt \in Nat
    BY PacketFields
  <2> QED  BY <2>1, Constants
<1> HIDE DEF penalty
<1>2. (p.timestamp - penalty) % (TsMod + 1) \in 0..TsMod
  BY <1>1, SixteenBits
<1> QED  BY <1>1, <1>2 DEF Stamp, StampType, Types, penalty

\* ... and a sample.
LEMMA SampledHasType ==
  ASSUME Types, NEW e \in End, NEW p \in Packet
  PROVE  Sampled(e, p) \in SampleType \cup {NoSample}
<1> DEFINE r == TimestampDiff(Timestamp16, p.timestampReply)
<1>1. Timestamp16 - p.timestampReply \in Int
  <2>1. p.timestampReply \in Nat /\ now \in Int
    BY PacketFields, TimeType DEF Types
  <2>2. now % TsMod \in Nat
    BY <2>1, SixteenBits
  <2> QED  BY <2>1, <2>2 DEF Timestamp16
<1>2. r \in Nat
  BY <1>1, SixteenBits DEF TimestampDiff
<1>3. now - p.echoes \in Int /\ None \in Int
  BY PacketFields, TimeType DEF Types, None
<1> HIDE DEF r
<1>4. r < RttMax => r \in 0..RttMax - 1
  BY <1>2, Constants
<1>5. Sampled(e, p) = IF p.timestampReply # TsMod /\ r < RttMax
                      THEN [r |-> r, true |-> IF p.echoes = None THEN None ELSE now - p.echoes]
                      ELSE sample[e]
  BY DEF Sampled, r
<1>6. CASE p.timestampReply # TsMod /\ r < RttMax
  BY <1>3, <1>4, <1>5, <1>6 DEF SampleType
<1>7. CASE ~(p.timestampReply # TsMod /\ r < RttMax)
  BY <1>5, <1>7 DEF Types
<1> QED  BY <1>6, <1>7

\* newPacket and what send does with it keep the types of what both ends have.
LEMMA MakePacketType ==
  ASSUME Types, NEW e \in End, NEW addr \in Addr, NEW payload \in Time,
         MakePacket(e, addr, payload)
  PROVE  /\ now' \in Time /\ where' \in 0..MaxMoves
         /\ network' \in [End -> SUBSET Packet]
         /\ seq' \in [End -> Nat] /\ expectedReceiverSeq' \in [End -> Nat]
         /\ saved' \in [End -> StampType \cup {NoStamp}]
         /\ sample' \in [End -> SampleType \cup {NoSample}]
<1>1. NewPacket(e, addr, payload) \in Packet
  BY NewPacketType
<1>2. network' \in [End -> SUBSET Packet]
  BY <1>1, PeerType DEF MakePacket, Types, End
<1>3. seq' \in [End -> Nat]
  BY DEF MakePacket, Types
<1>4. saved' \in [End -> StampType \cup {NoStamp}]
  BY DEF MakePacket, Types
<1> QED  BY <1>2, <1>3, <1>4 DEF MakePacket, Types

\* So do recvOne and the network.
LEMMA ArrivesType ==
  ASSUME Types, NEW e \in End, NEW p \in network[e], Arrives(e, p)
  PROVE  /\ now' \in Time /\ where' \in 0..MaxMoves
         /\ network' \in [End -> SUBSET Packet]
         /\ seq' \in [End -> Nat] /\ expectedReceiverSeq' \in [End -> Nat]
         /\ saved' \in [End -> StampType \cup {NoStamp}]
         /\ sample' \in [End -> SampleType \cup {NoSample}]
<1>1. p \in Packet /\ p.seq + 1 \in Nat
  BY PacketFields DEF Types
<1>2. network' \in [End -> SUBSET Packet]
  BY DEF Arrives, Types
<1>3. PICK ce \in BOOLEAN : RecvOne(e, p, ce)
  <2>1. \E ce \in {FALSE, (e \in Congested)} : RecvOne(e, p, ce)
    BY DEF Arrives
  <2>2. (e \in Congested) = TRUE \/ (e \in Congested) = FALSE
    OBVIOUS
  <2> QED  BY <2>1, <2>2, Zenon
<1>4. Stamp(p, ce) \in StampType /\ Sampled(e, p) \in SampleType \cup {NoSample}
  BY <1>1, StampHasType, SampledHasType
<1>5. expectedReceiverSeq' \in [End -> Nat]
  BY <1>1, <1>3 DEF RecvOne, Types
<1>6. saved' \in [End -> StampType \cup {NoStamp}]
  BY <1>3, <1>4 DEF RecvOne, Types
<1>7. sample' \in [End -> SampleType \cup {NoSample}]
  BY <1>3, <1>4 DEF RecvOne, Types
<1> QED  BY <1>2, <1>5, <1>6, <1>7 DEF Arrives, Types

\* The types of what only the client and only the server have.
ClientTypes ==
  /\ socks \in Seq(Nat \ {0}) /\ socks # <<>> /\ crowded \in BOOLEAN
  /\ lastPortChoice \in Time /\ lastRoundtripSuccess \in Time \cup {None} /\ ackedAt \in Time
ServerTypes ==
  /\ remoteAddr \in Addr \cup {<<None, None>>} /\ hasRemoteAddr \in BOOLEAN
  /\ hasRemoteAddr => remoteAddr \in Addr
  /\ lastHeard \in Time \cup {None} /\ newestState \in Time
OriginTypes ==
  origin \in Seq(Origin) /\ Len(origin) = seq["client"] /\ arrived \in 0..Len(origin)

\* What the client appends to the history.
LEMMA SendRecordsOrigin ==
  ASSUME Types, SendFromClient
  PROVE  LET o == [addr |-> <<where, Last(socks)>>, at |-> now]
         IN  /\ o \in Origin /\ <<where, Last(socks)>> \in Addr
             /\ MakePacket("client", <<where, Last(socks)>>, now)
             /\ origin' = Append(origin, o) /\ origin' \in Seq(Origin)
             /\ Len(origin') = Len(origin) + 1 /\ Len(origin) \in Nat
             /\ \A i \in 1..Len(origin) : origin'[i] = origin[i]
             /\ origin'[Len(origin) + 1] = o
<1> DEFINE o == [addr |-> <<where, Last(socks)>>, at |-> now]
<1>1. Last(socks) \in Nat \ {0}
  BY NewestSocket DEF Types
<1>2. <<where, Last(socks)>> \in Addr
  BY <1>1 DEF Addr, Types
<1>3. o \in Origin
  BY <1>2 DEF Origin, Types
<1>4. MakePacket("client", <<where, Last(socks)>>, now) /\ origin' = Append(origin, o)
  BY DEF SendFromClient
<1> HIDE DEF o
<1>5. origin \in Seq(Origin) /\ Len(origin) \in Nat
  BY LenProperties DEF Types
<1>6. /\ Append(origin, o) \in Seq(Origin) /\ Len(Append(origin, o)) = Len(origin) + 1
      /\ \A i \in 1..Len(origin) : Append(origin, o)[i] = origin[i]
      /\ Append(origin, o)[Len(origin) + 1] = o
  BY <1>3, <1>5, AppendProperties
<1>7. /\ origin' \in Seq(Origin) /\ Len(origin') = Len(origin) + 1
      /\ \A i \in 1..Len(origin) : origin'[i] = origin[i]
      /\ origin'[Len(origin) + 1] = o
  BY <1>4, <1>6
<1> QED  BY <1>2, <1>3, <1>4, <1>5, <1>7 DEF o

\* hopPort.
LEMMA HopPortType ==
  ASSUME Types, HopPort
  PROVE  ClientTypes'
<1> DEFINE more == Append(socks, Last(socks) + 1)
<1>1. Last(socks) + 1 \in Nat \ {0}
  BY NewestSocket DEF Types
<1>2. more \in Seq(Nat \ {0}) /\ more # <<>>
  <2>1. socks \in Seq(Nat \ {0})
    BY DEF Types
  <2> QED  BY <1>1, <2>1, AppendProperties
<1>3. PruneSockets(more, now) \in Seq(Nat \ {0}) /\ PruneSockets(more, now) # <<>>
      /\ TooMany(more, now) \in BOOLEAN
  <2> HIDE DEF more
  <2> QED  BY <1>2, PruneKeepsNewest DEF Types
<1>4. socks' \in Seq(Nat \ {0}) /\ socks' # <<>> /\ crowded' \in BOOLEAN
  <2>1. CASE UNCHANGED <<socks, crowded>>
    BY <2>1 DEF Types
  <2>2. CASE socks' = PruneSockets(more, now) /\ crowded' = (crowded \/ TooMany(more, now))
    <3> HIDE DEF more
    <3> QED  BY <1>3, <2>2 DEF Types
  <2> QED  BY <2>1, <2>2 DEF HopPort
<1> QED  BY <1>4 DEF HopPort, ClientTypes, Types

\* A packet that arrives at the server is numbered by the history; TypesStep
\* needs it, for arrived.
LEMMA TypesStep ==
  ASSUME Types, PacketsAreMade, [Next]_vars
  PROVE  Types'
<1>0. /\ ClientTypes /\ ServerTypes /\ OriginTypes
      /\ Len(origin) \in Nat /\ arrived \in Nat
  <2>1. Len(origin) \in Nat
    BY LenProperties DEF Types
  <2> QED  BY <2>1 DEF Types, ClientTypes, ServerTypes, OriginTypes
<1>1. CASE SendFromClient
  <2>1. <<where, Last(socks)>> \in Addr /\ MakePacket("client", <<where, Last(socks)>>, now)
    BY <1>1, SendRecordsOrigin
  <2>2. ClientTypes'
    <3>1. CASE HopPort
      BY <3>1, HopPortType
    <3>2. CASE UNCHANGED clientVars
      BY <1>0, <3>2 DEF ClientTypes, clientVars
    <3> QED  BY <1>1, <3>1, <3>2 DEF SendFromClient
  <2>3. ServerTypes'
    BY <1>0, <1>1 DEF SendFromClient, serverVars, ServerTypes
  <2>4. OriginTypes'
    <3>1. origin' \in Seq(Origin) /\ Len(origin') = Len(origin) + 1
      BY <1>1, SendRecordsOrigin
    <3>2. seq'["client"] = seq["client"] + 1
      BY <1>0, PeerType, <2>1 DEF MakePacket, Types
    <3>3. arrived' = arrived
      BY <1>1 DEF SendFromClient, serverVars
    <3> QED  BY <1>0, <3>1, <3>2, <3>3 DEF OriginTypes
  <2> QED  BY <1>0, PeerType, <2>1, <2>2, <2>3, <2>4, MakePacketType
           DEF Types, ClientTypes, ServerTypes, OriginTypes
<1>2. CASE SendFromServer
  <2>1. MakePacket("server", remoteAddr, newestState) /\ remoteAddr \in Addr
        /\ newestState \in Time
    BY <1>0, <1>2 DEF SendFromServer, ServerTypes
  <2>2. ClientTypes'
    BY <1>0, <1>2 DEF SendFromServer, clientVars, ClientTypes
  <2>3. ServerTypes'
    <3>1. hasRemoteAddr' \in BOOLEAN
      BY <1>2 DEF SendFromServer
    <3> QED  BY <1>0, <1>2, <2>1, <3>1 DEF SendFromServer, ServerTypes
  <2>4. OriginTypes'
    <3>1. seq'["client"] = seq["client"]
      BY <1>0, PeerType, <2>1 DEF MakePacket, Types
    <3> QED  BY <1>0, <1>2, <3>1 DEF SendFromServer, OriginTypes
  <2> QED  BY <1>0, PeerType, <2>1, <2>2, <2>3, <2>4, MakePacketType
           DEF Types, ClientTypes, ServerTypes, OriginTypes
<1>3. ASSUME NEW p \in network["server"], RecvAtServer(p)
      PROVE  Types'
  <2>1. p \in Packet /\ p.addr \in Addr /\ p.payload \in Time /\ p.seq \in 1..Len(origin)
    BY PeerType, PacketFields DEF Types, PacketsAreMade
  <2>2. Arrives("server", p)
    BY <1>3 DEF RecvAtServer
  <2>3. ClientTypes'
    BY <1>0, <1>3 DEF RecvAtServer, clientVars, ClientTypes
  <2>4. newestState' \in Time
    <3>1. newestState \in Int /\ p.payload \in Int
      BY <1>0, <2>1, TimeType DEF ServerTypes
    <3> QED  BY <1>0, <1>3, <2>1, <3>1, MaxOfTwo DEF RecvAtServer, ServerTypes
  <2>5. ServerTypes'
    BY <1>0, <1>3, <2>1, <2>4 DEF RecvAtServer, ServerTypes, Types
  <2>6. OriginTypes'
    <3>1. arrived \in Int /\ p.seq \in Int /\ p.seq \in 0..Len(origin)
      BY <1>0, <2>1
    <3>2. arrived' \in 0..Len(origin)
      BY <1>0, <1>3, <3>1, MaxOfTwo DEF RecvAtServer, OriginTypes
    <3>3. seq' = seq /\ origin' = origin
      BY <2>2 DEF Arrives
    <3> QED  BY <1>0, <3>2, <3>3 DEF OriginTypes
  <2> QED  BY <1>0, PeerType, <2>2, <2>3, <2>5, <2>6, ArrivesType
           DEF Types, ClientTypes, ServerTypes, OriginTypes
<1>4. ASSUME NEW p \in network["client"], RecvAtClient(p)
      PROVE  Types'
  <2>1. p \in Packet /\ p.payload \in Time
    BY PeerType, PacketFields DEF Types
  <2>2. Arrives("client", p)
    BY <1>4 DEF RecvAtClient
  <2>3. ClientTypes'
    <3>1. ackedAt' \in Time
      <4>1. ackedAt \in Int /\ p.payload \in Int
        BY <1>0, <2>1, TimeType DEF ClientTypes
      <4> QED  BY <1>0, <1>4, <2>1, <4>1, MaxOfTwo DEF RecvAtClient, ClientTypes
    <3>2. /\ PruneSockets(socks, lastPortChoice) \in Seq(Nat \ {0})
          /\ PruneSockets(socks, lastPortChoice) # <<>>
          /\ TooMany(socks, lastPortChoice) \in BOOLEAN
      BY PruneKeepsNewest DEF Types
    <3> QED  BY <1>0, <1>4, <3>1, <3>2 DEF RecvAtClient, ClientTypes
  <2>4. ServerTypes'
    BY <1>0, <1>4 DEF RecvAtClient, serverVars, ServerTypes
  <2>5. OriginTypes'
    BY <1>0, <1>4, <2>2 DEF RecvAtClient, Arrives, serverVars, OriginTypes
  <2> QED  BY <1>0, PeerType, <2>2, <2>3, <2>4, <2>5, ArrivesType
           DEF Types, ClientTypes, ServerTypes, OriginTypes
<1>5. ASSUME NEW e \in End, NEW p \in network[e], Lose(e, p)
      PROVE  Types'
  <2>1. network' \in [End -> SUBSET Packet]
    BY <1>5 DEF Lose, Types
  <2> QED  BY <1>5, <2>1 DEF Lose, Types, endVars, clientVars, serverVars
<1>6. CASE Move
  <2>1. where' \in 0..MaxMoves
    BY <1>6, Constants DEF Move, Types
  <2> QED  BY <1>6, <2>1 DEF Move, Types, endVars, clientVars, serverVars
<1>7. CASE Tock
  <2>1. now' \in Time
    BY <1>7, Constants DEF Tock, Types, Time
  <2> QED  BY <1>7, <2>1 DEF Tock, Types, endVars, clientVars, serverVars
<1>8. CASE UNCHANGED vars
  BY <1>8 DEF vars, Types, endVars, clientVars, serverVars
<1> QED  BY <1>1, <1>2, <1>3, <1>4, <1>5, <1>6, <1>7, <1>8 DEF Next

-----------------------------------------------------------------------------
(* The server follows the client.                                          *)

\* Only sending puts a packet under way, and it is a new one.
LEMMA UnderWay ==
  ASSUME Types, [Next]_vars, NEW e \in End, NEW p \in network'[e]
  PROVE  \/ p \in network[e]
         \/ /\ e = "server" /\ SendFromClient
            /\ p = NewPacket("client", <<where, Last(socks)>>, now)
         \/ e = "client" /\ SendFromServer /\ p = NewPacket("server", remoteAddr, newestState)
<1>1. CASE SendFromClient
  BY <1>1, PeerType DEF SendFromClient, MakePacket, Types
<1>2. CASE SendFromServer
  BY <1>2, PeerType DEF SendFromServer, MakePacket, Types
<1>3. ASSUME NEW q \in network["server"], RecvAtServer(q)
      PROVE  p \in network[e]
  BY <1>3, PeerType DEF RecvAtServer, Arrives, Types
<1>4. ASSUME NEW q \in network["client"], RecvAtClient(q)
      PROVE  p \in network[e]
  BY <1>4, PeerType DEF RecvAtClient, Arrives, Types
<1>5. ASSUME NEW d \in End, NEW q \in network[d], Lose(d, q)
      PROVE  p \in network[e]
  BY <1>5 DEF Lose, Types
<1>6. CASE Move \/ Tock \/ UNCHANGED vars
  BY <1>6 DEF Move, Tock, vars
<1> QED  BY <1>1, <1>2, <1>3, <1>4, <1>5, <1>6 DEF Next

\* The history only grows.
LEMMA OriginGrows ==
  ASSUME Types, [Next]_vars
  PROVE  /\ Len(origin) \in Nat /\ Len(origin') \in Nat /\ Len(origin) <= Len(origin')
         /\ \A i \in 1..Len(origin) : origin'[i] = origin[i]
<1>0. Len(origin) \in Nat
  BY LenProperties DEF Types
<1>1. CASE SendFromClient
  BY <1>0, <1>1, SendRecordsOrigin
<1>2. CASE origin' = origin
  BY <1>0, <1>2
<1>3. SendFromClient \/ origin' = origin
  BY DEF Next, vars, SendFromServer, RecvAtServer, RecvAtClient, Arrives, Lose, Move, Tock
<1> QED  BY <1>1, <1>2, <1>3

\* The next packet of the client has the next number of the history.
LEMMA PacketsAreMadeStep ==
  ASSUME Types, PacketsAreMade, [Next]_vars
  PROVE  PacketsAreMade'
<1> SUFFICES ASSUME NEW p \in network'["server"]
             PROVE  p.seq \in 1..Len(origin') /\ p.addr = origin'[p.seq].addr
  BY DEF PacketsAreMade
<1>1. CASE p \in network["server"]
  <2>1. p.seq \in 1..Len(origin) /\ p.addr = origin[p.seq].addr
    BY <1>1 DEF PacketsAreMade
  <2> QED  BY <2>1, OriginGrows
<1>2. CASE SendFromClient /\ p = NewPacket("client", <<where, Last(socks)>>, now)
  <2>1. p.seq = seq["client"] + 1 /\ p.addr = <<where, Last(socks)>>
    BY <1>2 DEF NewPacket
  <2>2. seq["client"] = Len(origin)
    BY DEF Types
  <2> QED  BY <1>2, <2>1, <2>2, SendRecordsOrigin
<1> QED  BY <1>1, <1>2, UnderWay, PeerType

\* A packet is used for targeting exactly if it is newer than any before.
LEMMA ServerFollowsStep ==
  ASSUME Types, PacketsAreMade, ServerFollows, [Next]_vars
  PROVE  ServerFollows'
<1>0. arrived \in 0..Len(origin) /\ Len(origin) \in Nat
  BY OriginGrows DEF Types
<1>1. ASSUME NEW p \in network["server"], RecvAtServer(p)
      PROVE  ServerFollows'
  <2>1. p.seq \in 1..Len(origin) /\ p.addr = origin[p.seq].addr /\ origin' = origin
    BY <1>1 DEF PacketsAreMade, RecvAtServer, Arrives
  <2>2. arrived' = IF arrived >= p.seq THEN arrived ELSE p.seq
    BY <1>0, <1>1, <2>1, MaxOfTwo DEF RecvAtServer
  <2>3. InOrder("server", p) <=> p.seq > arrived
    BY <1>0, <2>1 DEF InOrder, ServerFollows
  <2>4. CASE InOrder("server", p)
    <3>1. expectedReceiverSeq'["server"] = p.seq + 1 /\ remoteAddr' = p.addr
      BY <1>1, <2>4, PeerType DEF RecvAtServer, Arrives, RecvOne, Types
    <3>2. arrived' = p.seq
      BY <1>0, <2>1, <2>2, <2>3, <2>4
    <3> QED  BY <2>1, <3>1, <3>2 DEF ServerFollows
  <2>5. CASE ~InOrder("server", p)
    <3>1. UNCHANGED <<expectedReceiverSeq, remoteAddr>>
      BY <1>1, <2>5 DEF RecvAtServer, Arrives, RecvOne
    <3>2. arrived' = arrived
      BY <1>0, <2>1, <2>2, <2>3, <2>5
    <3> QED  BY <2>1, <3>1, <3>2 DEF ServerFollows
  <2> QED  BY <2>4, <2>5
<1>2. ASSUME NEW p \in network["client"], RecvAtClient(p)
      PROVE  ServerFollows'
  <2>1. expectedReceiverSeq'["server"] = expectedReceiverSeq["server"]
    BY <1>2, PeerType DEF RecvAtClient, Arrives, RecvOne, Types
  <2>2. UNCHANGED <<remoteAddr, arrived, origin>>
    BY <1>2 DEF RecvAtClient, Arrives, serverVars
  <2> QED  BY <2>1, <2>2 DEF ServerFollows
<1>3. CASE UNCHANGED <<expectedReceiverSeq, remoteAddr, arrived>>
  <2>1. arrived > 0 => origin'[arrived] = origin[arrived]
    BY <1>0, OriginGrows
  <2> QED  BY <1>3, <2>1 DEF ServerFollows
<1>4. \/ \E p \in network["server"] : RecvAtServer(p)
      \/ \E p \in network["client"] : RecvAtClient(p)
      \/ UNCHANGED <<expectedReceiverSeq, remoteAddr, arrived>>
  BY DEF Next, vars, SendFromClient, SendFromServer, MakePacket, Lose, Move, Tock,
         endVars, serverVars
<1> QED  BY <1>1, <1>2, <1>3, <1>4

\* A server that has been told of a client stays attached while it hears it.
LEMMA HeardBeforeStep ==
  ASSUME Types, HeardBefore, [Next]_vars
  PROVE  HeardBefore'
<1>0. /\ now \in Int /\ (lastHeard # None => lastHeard \in Int) /\ None \in Int
      /\ Association \in Nat /\ None \notin Time
  BY TimeType, Constants DEF Types, None
<1>1. CASE SendFromServer
  <2>1. UNCHANGED <<lastHeard, now>> /\ hasRemoteAddr /\ (~DetachDue => hasRemoteAddr')
    BY <1>1 DEF SendFromServer, MakePacket
  <2>2. lastHeard # None
    BY <2>1 DEF HeardBefore
  <2>3. now - lastHeard <= Association => ~DetachDue
    BY <1>0, <2>2 DEF DetachDue
  <2> QED  BY <2>1, <2>2, <2>3 DEF HeardBefore, HeardIsAttached
<1>2. ASSUME NEW p \in network["server"], RecvAtServer(p)
      PROVE  HeardBefore'
  <2>1. CASE InOrder("server", p)
    <3>1. hasRemoteAddr' = TRUE /\ lastHeard' = now
      BY <1>2, <2>1 DEF RecvAtServer
    <3> QED  BY <1>0, <3>1 DEF HeardBefore, HeardIsAttached, Types
  <2>2. CASE ~InOrder("server", p)
    <3>1. UNCHANGED <<hasRemoteAddr, lastHeard, now>>
      BY <1>2, <2>2 DEF RecvAtServer, Arrives
    <3> QED  BY <3>1 DEF HeardBefore, HeardIsAttached
  <2> QED  BY <2>1, <2>2
<1>3. CASE UNCHANGED <<hasRemoteAddr, lastHeard>> /\ now' \in {now, now + 1}
  BY <1>0, <1>3 DEF HeardBefore, HeardIsAttached
<1>4. \/ SendFromServer \/ \E p \in network["server"] : RecvAtServer(p)
      \/ UNCHANGED <<hasRemoteAddr, lastHeard>> /\ now' \in {now, now + 1}
  BY DEF Next, vars, SendFromClient, MakePacket, RecvAtClient, Arrives, Lose, Move, Tock,
         endVars, serverVars
<1> QED  BY <1>1, <1>2, <1>3, <1>4

-----------------------------------------------------------------------------
(* The client's sockets.                                                   *)

\* The socket of the last packet stays open while the packet is young.
LEMMA LastSocketIsOpenStep ==
  ASSUME Types, LastSocketIsOpen, [Next]_vars
  PROVE  LastSocketIsOpen'
<1> DEFINE o == origin[Len(origin)]
<1>0. /\ Len(origin) \in Nat /\ now \in Nat /\ lastPortChoice \in Nat /\ OldSocketAge \in Nat
      /\ socks \in Seq(Nat \ {0}) /\ socks # <<>> /\ lastPortChoice \in Time /\ now \in Time
      /\ Len(origin) > 0 => o \in Origin /\ o.at \in Nat
  <2>1. Len(origin) \in Nat /\ now \in Nat /\ lastPortChoice \in Nat
    BY OriginGrows, TimeType DEF Types
  <2>2. Len(origin) > 0 => o \in Origin
    BY <2>1, ElementOfSeq DEF Types
  <2>3. \A x \in Origin : x.at \in Nat
    BY TimeType DEF Origin
  <2> HIDE DEF o
  <2> QED  BY <2>1, <2>2, <2>3, Constants DEF Types
<1>1. Last(socks) \in Range(socks)
  BY <1>0, NewestSocket
<1>2. CASE SendFromClient
  <2> DEFINE a == <<where, Last(socks)>>
  <2>1. origin'[Len(origin')] = [addr |-> a, at |-> now] /\ a[2] = Last(socks) /\ now' = now
    <3>1. origin'[Len(origin) + 1] = [addr |-> a, at |-> now] /\ Len(origin') = Len(origin) + 1
      BY <1>2, SendRecordsOrigin
    <3> QED  BY <1>2, <3>1 DEF SendFromClient, MakePacket
  <2> HIDE DEF a
  <2>2. origin'[Len(origin')].addr[2] = Last(socks) /\ origin'[Len(origin')].at = now
    BY <2>1
  <2>3. CASE UNCHANGED clientVars
    <3>1. Last(socks') = Last(socks) /\ Range(socks') = Range(socks)
      BY <2>3 DEF clientVars
    <3> QED  BY <1>1, <2>2, <3>1 DEF LastSocketIsOpen
  <2>4. CASE HopPort
    <3>1. lastPortChoice' = now
      BY <2>4 DEF HopPort
    <3>2. ~crowded' => Last(socks) \in Range(socks')
      <4>1. CASE UNCHANGED <<socks, crowded>>
        BY <1>1, <4>1
      <4>2. ASSUME socks' = PruneSockets(Append(socks, Last(socks) + 1), now),
                   crowded' = (crowded \/ TooMany(Append(socks, Last(socks) + 1), now)),
                   ~crowded'
            PROVE  Last(socks) \in Range(socks')
        <5> DEFINE more == Append(socks, Last(socks) + 1)
        <5>1. Last(socks) + 1 \in Nat \ {0} /\ Len(socks) \in 1..Len(socks)
          BY <1>0, NewestSocket
        <5>2. /\ more \in Seq(Nat \ {0}) /\ more # <<>> /\ Len(more) = Len(socks) + 1
              /\ more[Len(socks)] = socks[Len(socks)]
          BY <1>0, <5>1, AppendProperties
        <5>3. ~TooMany(more, now) /\ socks' = PruneSockets(more, now)
          BY <4>2
        <5> HIDE DEF more
        <5>4. now - now <= OldSocketAge
          BY <1>0
        <5>5. socks' = more
          BY <1>0, <5>2, <5>3, <5>4, PruneKeepsNewest
        <5>6. DOMAIN more = 1..Len(more) /\ Len(socks) \in 1..Len(more)
          BY <5>1, <5>2, LenProperties
        <5> QED  BY <5>2, <5>5, <5>6 DEF Range, Last
      <4> QED  BY <2>4, <4>1, <4>2 DEF HopPort
    <3>3. ~(origin'[Len(origin')].at > lastPortChoice')
      BY <1>0, <2>2, <3>1
    <3> QED  BY <2>2, <3>2, <3>3 DEF LastSocketIsOpen
  <2> QED  BY <1>2, <2>3, <2>4 DEF SendFromClient
<1>3. ASSUME NEW p \in network["client"], RecvAtClient(p)
      PROVE  LastSocketIsOpen'
  <2>1. /\ socks' = PruneSockets(socks, lastPortChoice)
        /\ crowded' = (crowded \/ TooMany(socks, lastPortChoice))
        /\ UNCHANGED <<now, lastPortChoice, origin>>
    BY <1>3 DEF RecvAtClient, Arrives
  <2>2. /\ Last(socks') = Last(socks) /\ socks' \in Seq(Nat \ {0}) /\ socks' # <<>>
        /\ now - lastPortChoice <= OldSocketAge /\ ~crowded' => socks' = socks
    BY <1>0, <2>1, PruneKeepsNewest
  <2>3. Last(socks') \in Range(socks')
    BY <2>2, NewestSocket
  <2>4. ASSUME Len(origin) > 0, now - o.at <= OldSocketAge, ~crowded'
        PROVE  o.addr[2] \in Range(socks')
    <3>0. ~crowded
      BY <2>1, <2>4
    <3>1. CASE now - lastPortChoice <= OldSocketAge
      BY <2>2, <2>4, <3>0, <3>1 DEF LastSocketIsOpen
    <3>2. CASE now - lastPortChoice > OldSocketAge
      <4>1. o.at > lastPortChoice
        <5> HIDE DEF o
        <5> QED  BY <1>0, <2>4, <3>2
      <4>2. o.addr[2] = Last(socks)
        BY <2>4, <4>1 DEF LastSocketIsOpen
      <4> QED  BY <2>2, <2>3, <4>2
    <3> QED
      <4> HIDE DEF o
      <4> QED  BY <1>0, <3>1, <3>2
  <2>5. Len(origin) > 0 /\ o.at > lastPortChoice => o.addr[2] = Last(socks')
    BY <2>2 DEF LastSocketIsOpen
  <2> QED  BY <2>1, <2>4, <2>5 DEF LastSocketIsOpen
<1>4. CASE UNCHANGED <<socks, crowded, lastPortChoice, origin>> /\ now' \in {now, now + 1}
  <2>1. Len(origin) > 0 /\ now' - o.at <= OldSocketAge => now - o.at <= OldSocketAge
    <3> HIDE DEF o
    <3> QED  BY <1>0, <1>4
  <2> QED  BY <1>4, <2>1 DEF LastSocketIsOpen
<1>5. \/ SendFromClient \/ \E p \in network["client"] : RecvAtClient(p)
      \/ UNCHANGED <<socks, crowded, lastPortChoice, origin>> /\ now' \in {now, now + 1}
  BY DEF Next, vars, SendFromServer, MakePacket, RecvAtServer, Arrives, Lose, Move, Tock,
         clientVars
<1> QED  BY <1>2, <1>3, <1>4, <1>5

-----------------------------------------------------------------------------
(* Samples of the round-trip time.                                         *)

\* A count may be advanced by the time it was held, modulo 65536 ...
LEMMA AdvancedCount ==
  ASSUME NEW ts \in Int, NEW true \in Int, NEW s \in Int, NEW h \in Int, Counted(ts, true, s)
  PROVE  Counted((ts + h) % (TsMod + 1), true + h, s)
<1> DEFINE x == (s % TsMod) + (true - s)
<1>1. s % TsMod \in Int
  BY SixteenBits
<1>2. x \in Int /\ (s % TsMod) + (true + h - s) = x + h
  BY <1>1
<1>3. ts = x % (TsMod + 1)
  BY DEF Counted
<1> HIDE DEF x
<1>4. (ts + h) % (TsMod + 1) = (x + h) % (TsMod + 1)
  BY <1>2, <1>3, ModAdd, Constants
<1> QED  BY <1>2, <1>4 DEF Counted

\* ... and the difference to it is the time since, or one more if timestamps,
\* which are modulo 65535, have wrapped in between.
LEMMA MeasuredCount ==
  ASSUME NEW n \in Nat, NEW s \in Nat, s <= n, NEW echo \in Int, NEW reply \in Int,
         Counted(reply, echo, s), ReplyAge > 0, echo < s + ReplyAge,
         n - echo \in 0..TsMod - ReplyAge
  PROVE  TimestampDiff(n % TsMod, reply) \in {n - echo, n - echo + 1}
<1> DEFINE M == TsMod + 1
           x == (s % TsMod) + (echo - s)
           a == n % TsMod
<1>1. s % TsMod \in Int /\ a \in Int
  BY SixteenBits
<1>2. x \in Int /\ M \in Nat \ {0} /\ reply = x % M
  BY <1>1, Constants DEF Counted
<1>3. (a - reply) % M = (a - x) % M
  <2> HIDE DEF a, x, M
  <2> QED  BY <1>1, <1>2, ModSub
<1>4. a = (s % TsMod) + (n - s) \/ a = (s % TsMod) + (n - s) - TsMod
  <2>1. n - s < TsMod
    BY Constants
  <2>2. n \in Int /\ s \in Int /\ TsMod \in Nat \ {0}
    BY Constants
  <2> HIDE DEF M, x
  <2> QED  BY <2>1, <2>2, Wrap
<1>5. a - x = n - echo \/ a - x = n - echo - TsMod
  <2> HIDE DEF a
  <2> QED  BY <1>1, <1>4, Constants
<1>6. a - x \in Int /\ n - echo \in 0..M - 1 /\ n - echo + 1 \in 0..M - 1
  <2> HIDE DEF a, x
  <2> QED  BY <1>1, <1>2, Constants
<1> HIDE DEF a, x
<1>7. CASE a - x = n - echo
  <2>1. a - x = M * 0 + (n - echo)
    BY <1>2, <1>6, <1>7
  <2>2. (a - x) % M = n - echo
    <3> HIDE DEF M
    <3> QED  BY <1>2, <1>6, <2>1, ModUnique
  <2> QED  BY <1>3, <2>2 DEF TimestampDiff, a
<1>8. CASE a - x = n - echo - TsMod
  <2>1. a - x = M * (-1) + (n - echo + 1)
    BY <1>6, <1>8, Constants
  <2>2. (a - x) % M = n - echo + 1
    <3> HIDE DEF M
    <3> QED  BY <1>2, <1>6, <2>1, ModUnique
  <2> QED  BY <1>3, <2>2 DEF TimestampDiff, a
<1> QED  BY <1>5, <1>7, <1>8

\* What newPacket echoes is counted from when the packet echoed was sent.
LEMMA NewPacketIsCounted ==
  ASSUME Types, StampsAreCounted, NEW e \in End, NEW addr, NEW payload
  PROVE  LET p == NewPacket(e, addr, payload)
         IN  /\ p.sentAt = now /\ p.timestamp = p.sentAt % TsMod
             /\ p.echoes # None =>
                  /\ ReplyAge > 0
                  /\ \E s \in Time : /\ s <= p.sentAt /\ p.echoes < s + ReplyAge
                                     /\ Counted(p.timestampReply, p.echoes, s)
<1> DEFINE p == NewPacket(e, addr, payload)
<1>1. /\ p.sentAt = now /\ p.timestamp = now % TsMod /\ p.echoes = TrueReply(e)
      /\ p.timestampReply = TimestampReply(e)
  BY DEF NewPacket, Timestamp16
<1> HIDE DEF p
<1>2. ASSUME p.echoes # None
      PROVE  /\ ReplyAge > 0
             /\ \E s \in Time : /\ s <= now /\ p.echoes < s + ReplyAge
                                /\ Counted(p.timestampReply, p.echoes, s)
  <2> DEFINE st == saved[e]
             h  == now - st.at
  <2>1. Recent(e) /\ p.echoes = st.true + now - st.at
        /\ p.timestampReply = (st.ts + h) % (TsMod + 1)
    BY <1>1, <1>2 DEF TrueReply, TimestampReply, Held
  <2>2. st # NoStamp /\ h < ReplyAge
    BY <2>1 DEF Recent
  <2>3. st.ts \in Nat /\ st.true \in Int /\ st.at \in Nat /\ now \in Nat
    BY <2>2, StampFields, TimeType DEF Types
  <2>4. PICK s \in Time : s <= st.at /\ st.true <= s /\ Counted(st.ts, st.true, s)
    BY <2>2 DEF StampsAreCounted
  <2>5. st.at <= now
    BY <2>2 DEF StampsAreCounted
  <2> HIDE DEF st
  <2>6. s \in Int /\ h \in Int /\ p.echoes = st.true + h
    BY <2>1, <2>3, TimeType
  <2>7. Counted((st.ts + h) % (TsMod + 1), st.true + h, s)
    <3> HIDE DEF h
    <3> QED  BY <2>3, <2>4, <2>6, AdvancedCount
  <2>8. Counted(p.timestampReply, p.echoes, s)
    BY <2>1, <2>6, <2>7
  <2>9. s <= now /\ p.echoes < s + ReplyAge /\ ReplyAge > 0
    BY <2>2, <2>3, <2>4, <2>5, <2>6, Constants
  <2> QED  BY <2>8, <2>9
<1> QED  BY <1>1, <1>2 DEF p

\* A stamp is counted from when its packet was sent.
LEMMA StampIsCounted ==
  ASSUME Types, NEW p \in Packet, NEW ce \in BOOLEAN, p.timestamp = p.sentAt % TsMod,
         p.sentAt <= now
  PROVE  /\ Stamp(p, ce).at = now /\ Stamp(p, ce).true <= p.sentAt
         /\ Counted(Stamp(p, ce).ts, Stamp(p, ce).true, p.sentAt)
<1> DEFINE penalty == IF ce THEN Penalty ELSE 0
<1>1. penalty \in Nat
  BY Constants
<1> HIDE DEF penalty
<1>2. /\ Stamp(p, ce).at = now /\ Stamp(p, ce).true = p.sentAt - penalty
      /\ Stamp(p, ce).ts = (p.timestamp - penalty) % (TsMod + 1)
  BY DEF Stamp, penalty
<1>3. p.sentAt \in Nat /\ p.timestamp \in Nat
  BY PacketFields
<1>4. p.timestamp + ((p.sentAt - penalty) - p.sentAt) = p.timestamp - penalty
  BY <1>1, <1>3
<1>5. Counted(Stamp(p, ce).ts, Stamp(p, ce).true, p.sentAt)
  BY <1>2, <1>4 DEF Counted
<1> QED  BY <1>1, <1>2, <1>3, <1>5

\* What is saved after a step was saved before it, or is the stamp of a packet.
LEMMA SavedBefore ==
  ASSUME Types, [Next]_vars, NEW e \in End, saved'[e] # NoStamp
  PROVE  \/ saved'[e] = saved[e]
         \/ \E p \in network[e], ce \in BOOLEAN : saved'[e] = Stamp(p, ce) /\ now' = now
<1>1. ASSUME NEW d \in End, NEW p \in network[d], Arrives(d, p)
      PROVE  \/ saved'[e] = saved[e]
             \/ \E q \in network[e], ce \in BOOLEAN : saved'[e] = Stamp(q, ce) /\ now' = now
  <2>1. PICK ce \in BOOLEAN : RecvOne(d, p, ce)
    <3>1. \E ce \in {FALSE, (d \in Congested)} : RecvOne(d, p, ce)
      BY <1>1 DEF Arrives
    <3>2. (d \in Congested) = TRUE \/ (d \in Congested) = FALSE
      OBVIOUS
    <3> QED  BY <3>1, <3>2, Zenon
  <2>2. now' = now
    BY <1>1 DEF Arrives
  <2>3. CASE e = d /\ InOrder(d, p)
    <3>1. saved'[e] = Stamp(p, ce)
      BY <2>1, <2>3 DEF RecvOne, Types
    <3> QED  BY <2>2, <2>3, <3>1
  <2>4. CASE ~(e = d /\ InOrder(d, p))
    BY <2>1, <2>4 DEF RecvOne, Types
  <2> QED  BY <2>3, <2>4
<1>2. ASSUME NEW d \in End, NEW addr, NEW payload, MakePacket(d, addr, payload)
      PROVE  saved'[e] = saved[e]
  BY <1>2 DEF MakePacket, Types
<1>3. CASE saved' = saved
  BY <1>3
<1>4. \/ \E d \in End : \E p \in network[d] : Arrives(d, p)
      \/ \E d \in End : \E addr, payload : MakePacket(d, addr, payload)
      \/ saved' = saved
  BY PeerType DEF Next, vars, SendFromClient, SendFromServer, RecvAtServer, RecvAtClient,
     Lose, Move, Tock, endVars
<1> QED  BY <1>1, <1>2, <1>3, <1>4

\* Stamps and echoes stay counted.
LEMMA StampsAreCountedStep ==
  ASSUME Types, StampsAreCounted, [Next]_vars
  PROVE  StampsAreCounted'
<1>0. now \in Nat /\ now' \in {now, now + 1}
  <2>1. now' \in {now, now + 1}
    BY DEF Next, vars, SendFromClient, SendFromServer, MakePacket, RecvAtServer, RecvAtClient,
           Arrives, Lose, Move, Tock
  <2> QED  BY <2>1, TimeType DEF Types
<1>1. ASSUME NEW e \in End, saved'[e] # NoStamp
      PROVE  /\ saved'[e].at <= now'
             /\ \E s \in Time : /\ s <= saved'[e].at /\ saved'[e].true <= s
                                /\ Counted(saved'[e].ts, saved'[e].true, s)
  <2>1. CASE saved'[e] = saved[e]
    <3>1. /\ saved[e] # NoStamp /\ saved[e].at <= now /\ saved[e].at \in Nat
          /\ \E s \in Time : /\ s <= saved[e].at /\ saved[e].true <= s
                             /\ Counted(saved[e].ts, saved[e].true, s)
      BY <1>1, <2>1, StampFields DEF StampsAreCounted, Types
    <3>2. saved[e].at <= now'
      BY <1>0, <3>1
    <3> QED  BY <2>1, <3>1, <3>2
  <2>2. ASSUME NEW p \in network[e], NEW ce \in BOOLEAN, saved'[e] = Stamp(p, ce), now' = now
        PROVE  /\ saved'[e].at <= now'
               /\ \E s \in Time : /\ s <= saved'[e].at /\ saved'[e].true <= s
                                  /\ Counted(saved'[e].ts, saved'[e].true, s)
    <3>1. p \in Packet /\ p.sentAt \in Time
      BY PacketFields DEF Types
    <3>2. p.timestamp = p.sentAt % TsMod /\ p.sentAt <= now
      BY DEF StampsAreCounted
    <3>3. /\ Stamp(p, ce).at = now /\ Stamp(p, ce).true <= p.sentAt
          /\ Counted(Stamp(p, ce).ts, Stamp(p, ce).true, p.sentAt)
      BY <3>1, <3>2, StampIsCounted
    <3> QED  BY <1>0, <2>2, <3>1, <3>2, <3>3
  <2> QED  BY <1>1, <2>1, <2>2, SavedBefore
<1>2. ASSUME NEW e \in End, NEW p \in network'[e]
      PROVE  /\ p.sentAt <= now' /\ p.timestamp = p.sentAt % TsMod
             /\ p.echoes # None =>
                  /\ ReplyAge > 0
                  /\ \E s \in Time : /\ s <= p.sentAt /\ p.echoes < s + ReplyAge
                                     /\ Counted(p.timestampReply, p.echoes, s)
  <2>1. CASE p \in network[e]
    <3>1. p.sentAt \in Nat
      BY <2>1, PacketFields DEF Types
    <3>2. p.sentAt <= now
      BY <2>1 DEF StampsAreCounted
    <3>3. p.sentAt <= now'
      BY <1>0, <3>1, <3>2
    <3> QED  BY <2>1, <3>3 DEF StampsAreCounted
  <2>2. ASSUME NEW d \in End, NEW addr, NEW payload, p = NewPacket(d, addr, payload)
        PROVE  /\ p.sentAt <= now' /\ p.timestamp = p.sentAt % TsMod
               /\ p.echoes # None =>
                    /\ ReplyAge > 0
                    /\ \E s \in Time : /\ s <= p.sentAt /\ p.echoes < s + ReplyAge
                                       /\ Counted(p.timestampReply, p.echoes, s)
    <3>1. now <= now'
      BY <1>0
    <3> QED  BY <2>2, <3>1, NewPacketIsCounted
  <2> QED  BY <1>2, <2>1, <2>2, UnderWay, PeerType
<1> QED  BY <1>1, <1>2 DEF StampsAreCounted

\* Every sample taken from a packet that echoes one is of a count.
LEMMA SampleStep ==
  ASSUME Types, StampsAreCounted, SampleIsRoundTrip, [Next]_vars
  PROVE  SampleIsRoundTrip'
<1> SUFFICES ASSUME NEW e \in End, sample'[e].true # None,
                    sample'[e].true \in 0..TsMod - ReplyAge
             PROVE  sample'[e].r \in {sample'[e].true, sample'[e].true + 1}
  BY DEF SampleIsRoundTrip, Echoed
<1>1. CASE sample'[e] = sample[e]
  BY <1>1 DEF SampleIsRoundTrip, Echoed
<1>2. ASSUME NEW p \in network[e], sample'[e] = Sampled(e, p)
      PROVE  sample'[e].r \in {sample'[e].true, sample'[e].true + 1}
  <2> DEFINE r == TimestampDiff(Timestamp16, p.timestampReply)
             t == IF p.echoes = None THEN None ELSE now - p.echoes
  <2>1. CASE sample'[e] = [r |-> r, true |-> t]
    <3>1. sample'[e].r = r /\ sample'[e].true = t
      BY <2>1
    <3>2. p.echoes # None /\ t = now - p.echoes
      BY <3>1
    <3>3. /\ p.sentAt \in Nat /\ p.echoes \in Int /\ p.timestampReply \in Int
      BY PacketFields DEF Types
    <3>4. ReplyAge > 0 /\ p.sentAt <= now
      BY <3>2 DEF StampsAreCounted
    <3>5. PICK s \in Time : /\ s <= p.sentAt /\ p.echoes < s + ReplyAge
                            /\ Counted(p.timestampReply, p.echoes, s)
      BY <3>2 DEF StampsAreCounted
    <3>6. s \in Nat /\ now \in Nat /\ s <= now
      <4>1. s \in Nat /\ now \in Nat
        BY TimeType DEF Types
      <4> QED  BY <3>3, <3>4, <3>5, <4>1
    <3>7. now - p.echoes \in 0..TsMod - ReplyAge
      BY <3>1, <3>2
    <3>8. r \in {now - p.echoes, now - p.echoes + 1}
      BY <3>3, <3>4, <3>5, <3>6, <3>7, MeasuredCount DEF Timestamp16
    <3> QED  BY <3>1, <3>2, <3>8
  <2>2. CASE sample'[e] = sample[e]
    BY <1>1, <2>2
  <2> QED  BY <1>2, <2>1, <2>2 DEF Sampled
<1>3. ASSUME NEW d \in End, NEW p \in network[d], Arrives(d, p)
      PROVE  sample'[e] = sample[e] \/ \E q \in network[e] : sample'[e] = Sampled(e, q)
  BY <1>3 DEF Arrives, RecvOne, Types
<1>4. \/ \E d \in End : \E p \in network[d] : Arrives(d, p)
      \/ sample' = sample
  BY PeerType DEF Next, vars, SendFromClient, SendFromServer, MakePacket, RecvAtServer,
     RecvAtClient, Lose, Move, Tock, endVars
<1> QED  BY <1>1, <1>2, <1>3, <1>4

-----------------------------------------------------------------------------
(* The theorems.                                                           *)

\* The invariant holds of a client and a server that have not sent anything.
LEMMA InitialInvariant == Init => IInv
<1> SUFFICES ASSUME Init PROVE IInv
  OBVIOUS
<1>1. Start \in Time
  BY Constants DEF Time
<1>2. <<1>> \in Seq(Nat \ {0}) /\ <<1>> # <<>>
  OBVIOUS
<1>3. origin \in Seq(Origin) /\ Len(origin) = 0
  BY EmptySeq DEF Init
<1>4. seq["client"] = 0 /\ arrived \in 0..Len(origin)
  BY <1>3, PeerType DEF Init
<1>5. Types
  <2>1. network \in [End -> SUBSET Packet] /\ seq \in [End -> Nat]
        /\ expectedReceiverSeq \in [End -> Nat]
    BY DEF Init
  <2>2. /\ saved \in [End -> StampType \cup {NoStamp}]
        /\ sample \in [End -> SampleType \cup {NoSample}]
    BY DEF Init
  <2>3. now \in Time /\ where \in 0..MaxMoves /\ lastPortChoice \in Time /\ ackedAt \in Time
        /\ newestState \in Time
    BY <1>1, Constants DEF Init
  <2>4. socks \in Seq(Nat \ {0}) /\ socks # <<>>
    BY <1>2 DEF Init
  <2> QED  BY <1>3, <1>4, <2>1, <2>2, <2>3, <2>4 DEF Init, Types
<1>6. PacketsAreMade /\ ServerFollows /\ HeardBefore /\ LastSocketIsOpen
  BY <1>3, PeerType DEF Init, PacketsAreMade, ServerFollows, HeardBefore, HeardIsAttached,
                        LastSocketIsOpen
<1>7. StampsAreCounted
  BY DEF Init, StampsAreCounted
<1>8. SampleIsRoundTrip
  BY DEF Init, SampleIsRoundTrip, Echoed, NoSample
<1> QED  BY <1>5, <1>6, <1>7, <1>8 DEF IInv

\* Every step of the client, the server, the network and the clock keeps it.
LEMMA InvariantStep == IInv /\ [Next]_vars => IInv'
  BY TypesStep, PacketsAreMadeStep, ServerFollowsStep, HeardBeforeStep, LastSocketIsOpenStep,
     StampsAreCountedStep, SampleStep DEF IInv

\* The inductive invariant of the two Connections holds throughout.
THEOREM Invariance == Spec => []IInv
  BY InitialInvariant, InvariantStep, PTL DEF Spec

\* The types, and that the client always has a socket to send from: hopPort
\* and pruneSockets never close the newest one.
THEOREM TypeCorrect == Spec => []TypeOK
<1>1. IInv => TypeOK
  <2> SUFFICES ASSUME Types PROVE TypeOK
    BY DEF IInv
  <2>1. ASSUME NEW e \in End
        PROVE  /\ saved[e] = NoStamp \/ (saved[e].ts \in 0..TsMod /\ saved[e].at \in Time)
               /\ sample[e] = NoSample \/ sample[e].r \in 0..RttMax - 1
    BY DEF Types, StampType, SampleType
  <2> QED  BY <2>1 DEF Types, TypeOK
<1> QED  BY <1>1, Invariance, PTL

\* The server answers to where the newest packet it has received came from,
\* whatever the network does to the order and number of packets (recvOne).
THEOREM TargetIsAlwaysNewest == Spec => []TargetIsNewest
<1>1. IInv => TargetIsNewest
  BY DEF IInv, ServerFollows, TargetIsNewest
<1> QED  BY <1>1, Invariance, PTL

\* A server that has heard from its client lately is attached to it, for every
\* SERVER_ASSOCIATION_TIMEOUT (send, recvOne).
THEOREM HeardIsAlwaysAttached == Spec => []HeardIsAttached
<1>1. IInv => HeardIsAttached
  BY DEF IInv, HeardBefore
<1> QED  BY <1>1, Invariance, PTL

\* The answer to the client's last packet goes to a socket that is open, for
\* every MAX_OLD_SOCKET_AGE, PORT_HOP_INTERVAL and MAX_PORTS_OPEN (hopPort,
\* pruneSockets, cleanSocks).
THEOREM AnswersAreAlwaysHeard == Spec => []AnswersAreHeard
<1>1. IInv => AnswersAreHeard
  BY DEF IInv, Types, ServerFollows, LastSocketIsOpen, AnswersAreHeard
<1> QED  BY <1>1, Invariance, PTL

\* A sample taken from a packet that echoes one, and that was not under way for
\* as long as the timestamps take to wrap, is the round-trip time or one more,
\* for every modulus of the timestamps and every penalty: the two moduli of
\* timestamp16 and timestampDiff cost at most one unit (newPacket, recvOne).
\* The samples recvOne takes from packets that echo none are not covered.
THEOREM SampleIsAlwaysRoundTrip == Spec => []SampleIsRoundTrip
<1>1. IInv => SampleIsRoundTrip
  BY DEF IInv
<1> QED  BY <1>1, Invariance, PTL
=============================================================================
