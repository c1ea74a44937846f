CONSTANTS
  NCols = 3
  NRows = 3
  SaveLines = 2
  Prologues <- MCPrologues
  Writes <- MCWrites
  Sizes <- MCSizes
  MaxResizes = 1
SPECIFICATION Spec
INVARIANTS TypeOK ClientAgrees HandledInOrder
PROPERTIES ScrollbackIsKept AllOutputIsHandled
CHECK_DEADLOCK FALSE
