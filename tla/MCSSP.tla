------------------------------- MODULE MCSSP -------------------------------
(***************************************************************************)
(* SSP for TLC.  The client sends user streams (UserStream), the server    *)
(* terminal states (Complete), as NewTransportClient and                   *)
(* NewTransportServer are instantiated in client.go and server.go.         *)
(***************************************************************************)
EXTENDS SSP

CONSTANTS Rune, Combining, Size,     \* of UserStream
          Output                     \* of Complete
US == INSTANCE UserStream
CT == INSTANCE Complete

MCState(e)        == IF e = "client" THEN US!Stream ELSE CT!Terminal
MCInitialState(e) == IF e = "client" THEN <<>> ELSE CT!NewComplete
MCDiff(e)         == IF e = "client" THEN US!UserMessage ELSE CT!HostMessage
MCNoDiff          == <<>>
MCDiffFrom(e, x, y)    == IF e = "client" THEN US!DiffFrom(x, y) ELSE CT!DiffFrom(x, y)
MCApplyString(e, x, d) == IF e = "client" THEN US!ApplyString(x, d) ELSE CT!ApplyString(x, d)
MCEqual(e, x, y)       == IF e = "client" THEN US!Equal(x, y) ELSE CT!Equal(x, y)
MCSubtract(e, x, y)    == IF e = "client" THEN US!Subtract(x, y) ELSE CT!Subtract(x, y)
MCClone(e, x)          == IF e = "client" THEN x ELSE CT!Clone(x)
MCReset(e, x)          == IF e = "client" THEN x ELSE CT!Reset(x)
MCPush(e, x, ev)       == IF e = "client" THEN US!PushBack(x, ev) ELSE CT!ActLarge(x, ev)
MCEvent(e) == IF e = "client" THEN {US!UserByte(<<r>>) : r \in Rune} \cup {US!Resize(s) : s \in Size}
              ELSE Output
MCActions(d) == US!ApplyString(<<>>, d)
MCGetDiff(x) == CT!GetDiff(x)

-----------------------------------------------------------------------------
(* The direction from the client to the server.                            *)

\* A difference that tick has sent is not one (user.go:156, which VerifyDiff
\* would warn of), the server has applied one to another state than the one it
\* refers to (transport.go:285), or has written a state that came late over
\* another (transport.go:328).
Disturbed == mishaps["client"] # {} \/ mishaps["server"] # {}

Delivery == INSTANCE StreamSync WITH
  Entry <- MCEvent("client"), input <- fed["client"], output <- obtained["server"],
  closed <- ended["client"] = "acked", disturbed <- Disturbed

\* doc/design.md:93-98: the server applies to its terminal the keystrokes and
\* resizes of the client.  Until one of the three mishaps each comes out once
\* and in order, whatever is lost, repeated, reordered, sent again or
\* acknowledged late, and a client that reports a clean exit has had all of them
\* applied: nothing else on the way from the keyboard to the server's terminal
\* goes wrong.  The runs ssp_late_ack, ssp_resize and ssp_reordered show the
\* mishaps.
InputArrivesOnceInOrder == Delivery!Spec

\* transport.go:281: "this is ... part of how we enforce idempotency".  What
\* has been applied at the server is a prefix of what was typed, also when acks
\* are lost and an instruction makes up for it later (transport.go:307: "apply
\* diff to reference state").
NothingIsAppliedTwice == IsPrefix(obtained["server"], fed["client"])

\* What the user did between two states of the client, and whether in it a
\* keystroke comes straight after a resize.
Between(old, new) == US!Drop(new, US!SharedPrefix(new, old))
KeyAfterResize(s) ==
  \E i \in 1..Len(s) - 1 : ~US!IsUserByte(s[i]) /\ US!IsUserByte(s[i + 1])

\* The differences tick sends between user streams (UserStream.DiffFrom) turn
\* the one into the other, whatever has been subtracted from the streams since,
\* keystrokes and resizes alike, unless a keystroke comes straight after a
\* resize between the two.
KeystrokesRoundTrip ==
  \A m \in DOMAIN network["server"], i, j \in DOMAIN sentStates["client"] :
    ~KeyAfterResize(Between(sentStates["client"][i].state, sentStates["client"][j].state)) =>
      InstructionRoundTrips("client", network["server"][m], sentStates["client"][i],
                            sentStates["client"][j])

\* sender.go:381: "verify diff has round-trip identity".  The same without
\* that exception.
InputRoundTrips == RoundTrip("client")

\* The same of the differences between terminals (Complete.DiffFrom).
OutputRoundTrips == RoundTrip("server")

\* The timers make a sender with something to say send it; a packet sent
\* again and again gets through; both main loops check their exits in every
\* round.
Fairness ==
  \A e \in Endpoint :
    /\ WF_vars(TickAssumingNewest(e) \/ TickAssumingOldest(e))
    /\ SF_vars(Recv(e)) /\ WF_vars(End(e))

\* Two bounds: the server starts its own shutdown before the second event, and
\* the client has a number left for each event.
ServerExitsEarly == shutdownInProgress'["server"] => Len(fed'["client"]) <= 1
NumberIsLeft     == Last(sentStates["client"]).num < MaxNum["client"]

DeliveryNext ==
  \E e \in Endpoint :
    \/ Input(e) /\ NumberIsLeft /\ ServerExitsEarly
    \/ StartShutdown(e) /\ ServerExitsEarly
    \/ TickAssumingNewest(e)
    \/ TickAssumingOldest(e)
    \/ Recv(e)
    \/ Lose(e)
    \/ End(e)
    \/ Abort(e)

DeliverySpec == Init /\ [][DeliveryNext]_vars /\ Fairness

\* Everything the user typed is applied at the server in the end, as it was
\* typed, unless a shutdown cuts the session short or there has been a mishap:
\* a difference that was lost is sent again, for a state the server has.
InputArrives ==
  []<>(obtained["server"] = fed["client"] \/ Disturbed \/ \E e \in Endpoint : ended[e] # "no")

\* A shutdown ends the session of the end that started it, also when the other
\* end is gone or is shutting down as well.  (Neither is ever taken back.)
ShutdownEnds == []<>(\A e \in Endpoint : shutdownInProgress[e] => ended[e] # "no")

-----------------------------------------------------------------------------
\* Bounds, per end.
AnEach(c, s) == [e \in Endpoint |-> IF e = "client" THEN c ELSE s]
Client1Server2 == AnEach(1, 2)
Client2Server1 == AnEach(2, 1)
Client2Server2 == AnEach(2, 2)
Client0Server2 == AnEach(0, 2)
Client3Server0 == AnEach(3, 0)
Client2Server3 == AnEach(2, 3)
Client3Server2 == AnEach(3, 2)
Client3Server3 == AnEach(3, 3)
=============================================================================
