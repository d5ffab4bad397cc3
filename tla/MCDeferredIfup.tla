--------------------------- MODULE MCDeferredIfup ---------------------------
(* Instances of DeferredIfup for TLC.                                      *)
EXTENDS DeferredIfup

CONSTANTS eth0, wlan0, wwan0, usb0, iridium
=============================================================================
