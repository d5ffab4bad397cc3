\* Two scripts, three runs of them; a client crashes, one is deaf, and a pid is
\* used again.
SPECIFICATION Spec
CONSTANTS
  s1 = s1
  s2 = s2
  d1 = d1
  d2 = d2
  d3 = d3
  None = None
  Scripts = {s1, s2}
  Pids = {d1, d2, d3}
  MaxJobs = 3
  MaxCrashes = 1
  MaxHangs = 1
  MaxOthers = 1
  MaxFlips = 1
INVARIANTS
  TypeOK
  Tracked
  BystanderSpared
PROPERTIES
  DownStops
  ScriptsEnd
\* When nothing happens to the interface, no script runs.
CHECK_DEADLOCK FALSE
