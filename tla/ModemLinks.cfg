\* Three ports; any wait for the lock may time out,
\* and ifdown may overtake ifLink.
SPECIFICATION Spec
CONSTANTS
  tty0 = tty0
  tty1 = tty1
  tty2 = tty2
  NoOne = NoOne
  Ports = {tty0, tty1, tty2}
  Timeouts = TRUE
INVARIANTS
  TypeOK
  OrderIndependent
  NamesRemoved
PROPERTIES
  ScriptsEnd
