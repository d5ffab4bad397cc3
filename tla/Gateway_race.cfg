\* Two scripts at a time.
SPECIFICATION Spec
CONSTANTS
  eth0 = eth0
  wlan0 = wlan0
  ppp0 = ppp0
  n1 = n1
  n2 = n2
  p1 = p1
  p2 = p2
  None = None
  Blank = Blank
  Procs = {p1, p2}
  Ifaces <- TwoIfaces
  Wired = {eth0}
  Nets = {n1}
  Priority <- TwoOrder
  Jobs = {"bound", "revert", "deconfig", "peerup", "linkdown", "unplug"}
  MayFail = TRUE
  MaxJobs = 3
  MaxRules = 3
INVARIANTS
  UndisturbedGateUp
  UndisturbedHosts
  UndisturbedTunnel
PROPERTIES
  MakeBeforeBreak
SYMMETRY Symmetry
\* When no interface changes any more, nothing runs.
CHECK_DEADLOCK FALSE
