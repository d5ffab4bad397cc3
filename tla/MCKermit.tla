------------------------------ MODULE MCKermit ------------------------------
(* Instances of Kermit for TLC.                                            *)
EXTENDS Kermit

\* Three data packets, then an empty file.
TwoFiles == <<<<1, 2, 3>>, <<>>>>
AllOptions == [stream : BOOLEAN, attributes : BOOLEAN, diskFails : BOOLEAN]
=============================================================================
