\* Five interfaces appear while catchup runs; one has no cable, one is not to
\* be started, one has a rule that names it in an argument, and catchup may
\* fail to get the lock or to read.
SPECIFICATION Spec
CONSTANTS
  eth0 = eth0
  wlan0 = wlan0
  wwan0 = wwan0
  usb0 = usb0
  iridium = iridium
  NoOne = NoOne
  Events = {eth0, wlan0, wwan0, usb0, iridium}
  ByName = {iridium}
  Unplugged = {eth0}
  NoAuto = {usb0}
  MayGiveUp = TRUE
INVARIANTS
  TypeOK
  NoNameLost
  UpOnce
PROPERTIES
  FileChangesLocked
  EventServed
  NetplugAfterCatchup
