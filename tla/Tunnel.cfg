SPECIFICATION Spec
CONSTANTS
  Pids = {p1, p2, p3}
  Gates = {g1, g2}
  None = None
  Signals = {"HUP", "USR1", "TERM"}
  MaxSignals = 1
  MaxGates = 1
  MaxStarts = 1
  MaxFailures = 1
INVARIANTS
  TypeOK
  PidOfTunnel
  ShoreResolves
PROPERTY
  TunnelComesBack
CHECK_DEADLOCK FALSE
