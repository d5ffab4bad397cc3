\* One of two links is lost, and pppd runs ip-down.
SPECIFICATION Spec
CONSTANTS
  eth0 = eth0
  wlan0 = wlan0
  ppp0 = ppp0
  n1 = n1
  n2 = n2
  p1 = p1
  p2 = p2
  None = None
  Blank = Blank
  Procs = {p1}
  Ifaces <- ThreeIfaces
  Wired = {eth0}
  Nets = {n1}
  Priority <- ThreeOrder
  Jobs = {"linkup", "linkdown"}
  MayFail = FALSE
  MaxJobs = 4
  MaxRules = 2
INVARIANTS
  GatewayFollowsPriority
\* When no interface changes any more, nothing runs.
CHECK_DEADLOCK FALSE
