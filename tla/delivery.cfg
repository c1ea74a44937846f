SPECIFICATION DeliverySpec
CONSTANTS
  Rune = {a}
  Combining = {}
  Size = {s}
  Output = {x}
  State <- MCState
  InitialState <- MCInitialState
  Diff <- MCDiff
  NoDiff <- MCNoDiff
  StateDiffFrom <- MCDiffFrom
  StateApplyString <- MCApplyString
  StateEqual <- MCEqual
  StateSubtract <- MCSubtract
  StateClone <- MCClone
  StateReset <- MCReset
  Push <- MCPush
  Event <- MCEvent
  Actions <- MCActions
  StateGetDiff <- MCGetDiff
  QueueLimit = 32
  QueueDrop = 16
  ReceivedLimit = 1024
  ShutdownRetries = 1
  MaxUint64 = 9
  MaxNum <- Client2Server1
  MaxEvent <- Client3Server0
  ChanCap <- Client1Server2
  Lossy = {"client","server"}
  Reordering = {"server"}
  Duplicating = {}
  Closing = {"client","server"}
  Aborting = {"server"}
  SendOutcome = {TRUE}
  KeepAlive = FALSE
  Early = {"retry"}
INVARIANT KeystrokesRoundTrip
PROPERTIES InputArrivesOnceInOrder InputArrives ShutdownEnds
CHECK_DEADLOCK FALSE
