SPECIFICATION Spec
CONSTANTS
  Rune = {a}
  Combining = {}
  Size = {}
  Output = {x}
  State <- MCState
  InitialState <- MCInitialState
  Diff <- MCDiff
  NoDiff <- MCNoDiff
  StateDiffFrom <- MCDiffFrom
  StateApplyString <- MCApplyString
  StateEqual <- MCEqual
  StateSubtract <- MCSubtract
  StateClone <- MCClone
  StateReset <- MCReset
  Push <- MCPush
  Event <- MCEvent
  Actions <- MCActions
  StateGetDiff <- MCGetDiff
  QueueLimit = 3
  QueueDrop = 2
  ReceivedLimit = 1
  ShutdownRetries = 1
  MaxUint64 = 9
  MaxNum <- Client1Server2
  MaxEvent <- Client0Server2
  ChanCap <- Client2Server1
  Lossy = {"client", "server"}
  Reordering = {"client"}
  Duplicating = {"client", "server"}
  Closing = {"client", "server"}
  Aborting = {}
  SendOutcome = {TRUE, FALSE}
  KeepAlive = TRUE
  Early = {"retry","shutdown"}
INVARIANTS TypeOK QueuesOrdered NumbersWereSent AcksNameAcceptedStates FrontWasAccepted ReferenceIsKept ShutdownWasAccepted FrontIsHeld AckedStateIsHeld
PROPERTY AcceptedOnce
CHECK_DEADLOCK FALSE
