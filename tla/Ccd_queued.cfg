\* One client queues three exposures of both fields and reads them in turn.
SPECIFICATION Spec
CONSTANTS
  None = None
  Clients = {0}
  Ids = {1, 2, 3}
  Durations = {1}
  Rows = 1
  OutCap = 1
  InCap = 1
  MaxTime = 3
  Askers = {}
  Brief = {}
  NoWipes = {FALSE}
  SharedFile = FALSE
  Replugs = 0
INVARIANT
  ExposedInFull
CHECK_DEADLOCK FALSE
