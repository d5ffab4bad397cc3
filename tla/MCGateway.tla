----------------------------- MODULE MCGateway -----------------------------
(* Instances of Gateway for TLC.                                           *)
EXTENDS Gateway, TLC

CONSTANTS eth0, wlan0, ppp0, n1, n2, p1, p2

TwoIfaces == {eth0, ppp0}
TwoOrder  == <<eth0, ppp0>>
ThreeIfaces == {eth0, wlan0, ppp0}
\* the last glob, *, names every record once more
ThreeOrder  == <<eth0, wlan0, ppp0, eth0, ppp0, wlan0>>

AllJobs == JobKinds
Symmetry == Permutations(Procs)
=============================================================================
