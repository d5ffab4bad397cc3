\* Files of three packets and of none, all options, and as many faults as retries.
SPECIFICATION Spec
CONSTANTS
  None = None
  Files <- TwoFiles
  MaxTry = 4
  Mod = 5
  Options <- AllOptions
  MaxFaults = 4
INVARIANTS
  TypeOK
  RetriesSuffice
PROPERTIES
  ImplementsTransfer
  BothEnd
\* Both programs end.
CHECK_DEADLOCK FALSE
