SPECIFICATION Fair
CONSTANTS
  short = short
  long = long
  Instruction <- MCInstruction
  NoInstruction = none
  Size <- MCSize
  Mtu = {1, 2}
  NumLimit = 4
  MaxUint64 = 9
  MaxId = 2
  ChanCap = 5
INVARIANTS TypeOK AssemblyIsConsistent
PROPERTIES WholeInstructions OrderIsKept EveryInstructionArrives
CHECK_DEADLOCK FALSE
