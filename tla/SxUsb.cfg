SPECIFICATION Spec
CONSTANTS
  Size = 3
  Bulk = 2
  Kinds = {"short", "long", "noclear"}
  MaxFrames = 3
  MaxFaults = 1
INVARIANTS
  TypeOK
  
  NotFreedInUse
PROPERTY
  CallsReturn
\* Once the camera is gone nothing is left to do.
CHECK_DEADLOCK FALSE
