SPECIFICATION FairSpec
CONSTANTS
  MaxWorkers = 2
  Attempts = 2
  Foreign = {{}, {2, 3}}
  MaxChild = 2
INVARIANTS TypeOK PortIsLeast WorkersAreLimited KeyIsOwn NoSessionIsForgotten
PROPERTY ShutdownCompletes
CHECK_DEADLOCK FALSE
