------------------------------ MODULE MCNetIf ------------------------------
(* Instances of NetIf for TLC.                                             *)
EXTENDS NetIf

CONSTANTS s1, s2, d1, d2, d3
=============================================================================
