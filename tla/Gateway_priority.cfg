\* The scripts that end in gateUp, one at a time, gateways that change.
SPECIFICATION Spec
CONSTANTS
  eth0 = eth0
  wlan0 = wlan0
  ppp0 = ppp0
  n1 = n1
  n2 = n2
  p1 = p1
  p2 = p2
  None = None
  Blank = Blank
  Procs = {p1}
  Ifaces <- ThreeIfaces
  Wired = {eth0}
  Nets = {n1, n2}
  Priority <- ThreeOrder
  Jobs = {"bound", "revert", "linkup", "ifdown"}
  MayFail = FALSE
  MaxJobs = 4
  MaxRules = 2
INVARIANTS
  TypeOK
  NatMatchesTunGate
  GatewayFollowsPriority
\* When no interface changes any more, nothing runs.
CHECK_DEADLOCK FALSE
