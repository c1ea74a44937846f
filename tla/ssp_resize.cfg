SPECIFICATION Spec
CONSTANTS
  Rune = {a}
  Combining = {}
  Size = {s}
  Output = {x}
  State <- MCState
  InitialState <- MCInitialState
  Diff <- MCDiff
  NoDiff <- MCNoDiff
  StateDiffFrom <- MCDiffFrom
  StateApplyString <- MCApplyString
  StateEqual <- MCEqual
  StateSubtract <- MCSubtract
  StateClone <- MCClone
  StateReset <- MCReset
  Push <- MCPush
  Event <- MCEvent
  Actions <- MCActions
  StateGetDiff <- MCGetDiff
  QueueLimit = 32
  QueueDrop = 16
  ReceivedLimit = 1024
  ShutdownRetries = 1
  MaxUint64 = 9
  MaxNum <- Client2Server3
  MaxEvent <- Client3Server0
  ChanCap <- Client2Server2
  Lossy = {}
  Reordering = {}
  Duplicating = {}
  Closing = {}
  Aborting = {}
  SendOutcome = {TRUE}
  KeepAlive = FALSE
  Early = {}
INVARIANT InputRoundTrips
CHECK_DEADLOCK FALSE
