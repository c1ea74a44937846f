SPECIFICATION Spec
CONSTANTS
  TsMod = 4
  ReplyAge = 2
  RttMax = 3
  Penalty = 1
  PortHop = 0
  Association = 1
  OldSocketAge = 1
  MaxPorts = 2
  Start = 2
  Congested = {"client"}
  MaxTime = 5
  MaxMoves = 1
  MaxSeq <- Client3Server2
  ChanCap <- Client1Server2
INVARIANTS TypeOK TargetIsNewest AnswersAreHeard HeardIsAttached SampleIsRoundTrip
CHECK_DEADLOCK FALSE
