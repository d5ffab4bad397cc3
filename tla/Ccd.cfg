\* Two clients, one of each field, and up to three exposures that may overlap;
\* one client asks for brief ones only, the other for both kinds.
SPECIFICATION Spec
CONSTANTS
  None = None
  Clients = {1, 2}
  Ids = {1, 2, 3}
  Durations = {1, 2}
  Rows = 2
  OutCap = 1
  InCap = 1
  MaxTime = 2
  Askers = {1}
  Brief = {1}
  NoWipes = {TRUE}
  SharedFile = FALSE
  Replugs = 1
INVARIANTS
  TypeOK
  
  
  ReaderHasImage
PROPERTIES
  DownloadUndisturbed
  
\* At the bound on time, with the camera unplugged, nothing is left to do.
CHECK_DEADLOCK FALSE
