---------------------------- MODULE MCModemLinks ----------------------------
(* Instances of ModemLinks for TLC.                                        *)
EXTENDS ModemLinks

CONSTANTS tty0, tty1, tty2
=============================================================================
