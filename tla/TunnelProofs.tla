---------------------------- MODULE TunnelProofs ----------------------------
(***************************************************************************)
(* Proofs about Tunnel, for any number of pids, signals, failures, changes *)
(* of the gateway and, where the property allows them, second instances.   *)
(***************************************************************************)
EXTENDS Tunnel, TLAPS

\* The ssh of whoever waits for one has port 25, and no other.
UpHasPort == \A p \in Pids : pc[p] = "up" <=> port25 = p

\* The commands after the script has written its pid.
Claimed == {"fuser", "topIf", "grep", "ssh", "up", "end"}

\* init's instance, when it is the only one: nobody else writes the pid file
\* between its own commands.
OnlyInit ==
  /\ left.starts <= MaxStarts
  /\ left.starts = MaxStarts =>
       \A p \in Pids :
         /\ pc[p] # "dead" => p = init
         /\ pc[p] = "cat" => pidFile \in Pids
         /\ pc[p] \in Claimed => pidFile = p

\* From the command that writes it until ssh has ended, the fragment is there.
FragmentKept ==
  left.starts = MaxStarts =>
    \A p \in Pids : pc[p] \in {"grep", "ssh", "up"} => hosts

Inv == TypeOK /\ UpHasPort /\ OnlyInit /\ FragmentKept /\ ShoreResolves

\* At boot there is no instance.
LEMMA InvInit == Init => Inv
<1> SUFFICES ASSUME Init PROVE Inv
  OBVIOUS
<1> USE TunnelAssumption
<1>1. TypeOK
  <2>1. hosts \in BOOLEAN
    BY Zenon DEF Init
  <2>2. pending \in [Pids -> SUBSET {"HUP", "USR1", "TERM"}]
    BY DEF Init
  <2>3. left \in [signals : 0..MaxSignals, gates : 0..MaxGates, starts : 0..MaxStarts,
                  failures : 0..MaxFailures]
    BY DEF Init
  <2>4. /\ pc \in [Pids -> PCs] /\ old \in [Pids -> Pids \cup {None, "empty"}]
        /\ tries \in [Pids -> 0..2] /\ pidFile \in Pids \cup {"missing", "empty"}
        /\ port25 \in Pids \cup {None} /\ via \in Gates \cup {None}
        /\ init \in Pids \cup {None} /\ gate \in Gates \cup {None}
        /\ reader \in Pids \cup {None}
        /\ etcHosts \in {"without", "with", "lost"} \cup Merging
    BY DEF Init, PCs, Merging
  <2> QED BY <2>1, <2>2, <2>3, <2>4 DEF TypeOK
<1>2. UpHasPort
  BY DEF Init, UpHasPort
<1>3. OnlyInit
  BY DEF Init, OnlyInit, Claimed
<1>4. FragmentKept /\ ShoreResolves
  BY DEF Init, FragmentKept, ShoreResolves
<1> QED BY <1>1, <1>2, <1>3, <1>4 DEF Inv

\* Signals end an instance that has no traps yet, and wait otherwise.
LEMMA SignalTypes ==
  ASSUME TypeOK, NEW q \in Pids, NEW sig \in {"HUP", "USR1", "TERM"}
  PROVE  /\ PcAfter(q, sig) \in [Pids -> PCs]
         /\ PendingAfter(q, sig) \in [Pids -> SUBSET {"HUP", "USR1", "TERM"}]
         /\ \A p \in Pids : \/ PcAfter(q, sig)[p] = pc[p]
                            \/ pc[p] = "boot" /\ PcAfter(q, sig)[p] = "dead"
<1>1. CASE pc[q] = "boot"
  BY <1>1 DEF TypeOK, PCs, PcAfter, PendingAfter
<1>2. CASE pc[q] # "boot"
  <2>1. PcAfter(q, sig) = pc /\ PendingAfter(q, sig) = [pending EXCEPT ![q] = @ \cup {sig}]
    BY <1>2 DEF PcAfter, PendingAfter
  <2> QED BY <2>1 DEF TypeOK
<1> QED BY <1>1, <1>2

\* Every step keeps the types.
LEMMA TypeStep == TypeOK /\ [Next]_vars => TypeOK'
<1> SUFFICES ASSUME TypeOK, [Next]_vars PROVE TypeOK'
  OBVIOUS
<1> USE TunnelAssumption DEF TypeOK, PCs, At, Goto, hostsVars, scriptVars, worldVars
<1>1. CASE UNCHANGED vars
  BY <1>1 DEF vars
<1>2. ASSUME NEW p \in Pids, SetTraps(p) \/ Check(p) \/ Cat(p) \/ Claim(p)
      PROVE  TypeOK'
  BY <1>2 DEF SetTraps, Check, Cat, Claim
<1>3. ASSUME NEW p \in Pids, KillOld(p) PROVE TypeOK'
  <2>1. pc' \in [Pids -> PCs] /\ pending' \in [Pids -> SUBSET {"HUP", "USR1", "TERM"}]
    <3>1. CASE Alive(old[p]) /\ pending' = PendingAfter(old[p], "TERM")
               /\ pc' = [PcAfter(old[p], "TERM") EXCEPT ![p] = "claim"]
      BY <3>1, SignalTypes DEF Alive
    <3>2. CASE pc' = [pc EXCEPT ![p] = "claim"] /\ pending' = pending
      BY <3>2
    <3> QED BY <1>3, <3>1, <3>2 DEF KillOld
  <2> QED BY <1>3, <2>1 DEF KillOld
<1>4. ASSUME NEW p \in Pids, Fuser(p) \/ OpenTunnel(p) PROVE TypeOK'
  BY <1>4 DEF Fuser, OpenTunnel
<1>5. ASSUME NEW p \in Pids, TunHosts(p) PROVE TypeOK'
  <2>1. hosts' \in BOOLEAN
    BY <1>5, Zenon DEF TunHosts
  <2>2. etcHosts' \in {"without", "with", "lost"} \cup Merging
    BY <1>5 DEF TunHosts, Names
  <2> QED BY <1>5, <2>1, <2>2 DEF TunHosts
<1>6. ASSUME NEW p \in Pids, OpenFails(p) \/ SshEnds(p) PROVE TypeOK'
  BY <1>6 DEF OpenFails, SshEnds
<1>7. ASSUME NEW p \in Pids, EndOfScript(p) \/ Handle(p) PROVE TypeOK'
  <2>1. hosts' \in BOOLEAN
    BY <1>7, Zenon DEF EndOfScript, Handle, Leave, Exec
  <2>2. etcHosts' \in {"without", "with", "lost"} \cup Merging
    BY <1>7 DEF EndOfScript, Handle, Leave, Exec, Names
  <2> QED BY <1>7, <2>1, <2>2 DEF EndOfScript, Handle, Leave, Exec, Gone
<1>8. ASSUME NEW p \in Pids, Respawn(p) \/ StartByHand(p) PROVE TypeOK'
  BY <1>8 DEF Respawn, StartByHand, Start, Free
<1>9. CASE GateUpdated
  BY <1>9 DEF GateUpdated
<1>10. CASE KillHup
  <2>1. pc' \in [Pids -> PCs] /\ pending' \in [Pids -> SUBSET {"HUP", "USR1", "TERM"}]
    BY <1>10, SignalTypes DEF KillHup, Alive
  <2> QED BY <1>10, <2>1 DEF KillHup
<1>11. ASSUME NEW sig \in Signals, Signal(sig) PROVE TypeOK'
  <2>1. pc' \in [Pids -> PCs] /\ pending' \in [Pids -> SUBSET {"HUP", "USR1", "TERM"}]
    BY <1>11, SignalTypes DEF Signal, Alive
  <2> QED BY <1>11, <2>1 DEF Signal
<1>12. CASE HostsOpen \/ HostsWrite
  BY <1>12 DEF HostsOpen, HostsWrite, Merging
<1> QED
  BY <1>1, <1>2, <1>3, <1>4, <1>5, <1>6, <1>7, <1>8, <1>9, <1>10, <1>11, <1>12 DEF Next, Step

\* Only the instance at fuser takes the port from another.
LEMMA UpHasPortStep == TypeOK /\ UpHasPort /\ [Next]_vars => UpHasPort'
<1> SUFFICES ASSUME TypeOK, UpHasPort, [Next]_vars PROVE UpHasPort'
  OBVIOUS
<1> USE TunnelAssumption DEF UpHasPort, At, Goto, hostsVars, scriptVars, worldVars
<1>t. /\ pc \in [Pids -> PCs] /\ port25 \in Pids \cup {None}
      /\ pidFile \in Pids \cup {"missing", "empty"} /\ reader \in Pids \cup {None}
  BY DEF TypeOK
<1>1. CASE UNCHANGED vars
  BY <1>1 DEF vars
<1>2. ASSUME NEW p \in Pids,
             SetTraps(p) \/ Check(p) \/ Cat(p) \/ Claim(p) 
             \/ TunHosts(p)
      PROVE  UpHasPort'
  BY <1>2, <1>t DEF SetTraps, Check, Cat, Claim, TunHosts
<1>3. ASSUME NEW p \in Pids, KillOld(p) PROVE UpHasPort'
  <2>1. CASE Alive(old[p]) /\ pc' = [PcAfter(old[p], "TERM") EXCEPT ![p] = "claim"]
    BY <1>3, <1>t, <2>1, SignalTypes DEF KillOld, Alive
  <2>2. CASE pc' = [pc EXCEPT ![p] = "claim"]
    BY <1>3, <1>t, <2>2 DEF KillOld
  <2> QED BY <1>3, <2>1, <2>2 DEF KillOld
<1>4. ASSUME NEW p \in Pids, Fuser(p) \/ OpenTunnel(p) \/ OpenFails(p) \/ SshEnds(p)
      PROVE  UpHasPort'
  BY <1>4, <1>t DEF Fuser, OpenTunnel, OpenFails, SshEnds
<1>5. ASSUME NEW p \in Pids, EndOfScript(p) \/ Handle(p) PROVE UpHasPort'
  BY <1>5, <1>t DEF EndOfScript, Handle, Leave, Exec, Gone
<1>6. ASSUME NEW p \in Pids, Respawn(p) \/ StartByHand(p) PROVE UpHasPort'
  BY <1>6, <1>t DEF Respawn, StartByHand, Start, Free
<1>7. CASE GateUpdated
  BY <1>7 DEF GateUpdated
<1>8. CASE KillHup
  BY <1>8, <1>t, SignalTypes DEF KillHup, Alive
<1>9. ASSUME NEW sig \in Signals, Signal(sig) PROVE UpHasPort'
  <2>1. sig \in {"HUP", "USR1", "TERM"} /\ pidFile \in Pids /\ pc' = PcAfter(pidFile, sig)
    BY <1>9 DEF Signal, Alive
  <2> QED BY <1>9, <1>t, <2>1, SignalTypes DEF Signal
<1>10. CASE HostsOpen \/ HostsWrite
  BY <1>10 DEF HostsOpen, HostsWrite
<1> QED
  BY <1>1, <1>2, <1>3, <1>4, <1>5, <1>6, <1>7, <1>8, <1>9, <1>10 DEF Next, Step

\* While init's is the only instance, nobody else writes its pid file, and no
\* signal or fuser of another moves it on.
LEMMA OnlyInitStep == TypeOK /\ UpHasPort /\ OnlyInit /\ [Next]_vars => OnlyInit'
<1> SUFFICES ASSUME TypeOK, UpHasPort, OnlyInit, [Next]_vars PROVE OnlyInit'
  OBVIOUS
<1> DEFINE Clauses(p) == /\ pc[p] # "dead" => p = init
                         /\ pc[p] = "cat" => pidFile \in Pids
                         /\ pc[p] \in Claimed => pidFile = p
<1> USE TunnelAssumption DEF At, Goto, hostsVars, scriptVars, worldVars
<1>t. /\ pc \in [Pids -> PCs] /\ port25 \in Pids \cup {None}
      /\ old \in [Pids -> Pids \cup {None, "empty"}]
      /\ pidFile \in Pids \cup {"missing", "empty"} /\ reader \in Pids \cup {None}
      /\ init \in Pids \cup {None}
  BY DEF TypeOK
<1>l. left \in [signals : 0..MaxSignals, gates : 0..MaxGates, starts : 0..MaxStarts,
                failures : 0..MaxFailures]
  BY DEF TypeOK
<1>k. ASSUME left'.starts = left.starts,
             left.starts = MaxStarts /\ (\A q \in Pids : Clauses(q))
               => \A q \in Pids : Clauses(q)'
      PROVE  OnlyInit'
  BY <1>k DEF OnlyInit
<1>1. CASE UNCHANGED vars
  BY <1>1 DEF vars, OnlyInit
<1>2. ASSUME NEW p \in Pids,
             SetTraps(p) \/ Check(p) \/ Cat(p) \/ Claim(p) 
             \/ TunHosts(p) \/ OpenTunnel(p)
      PROVE  OnlyInit'
  <2>1. left'.starts = left.starts
    BY <1>2 DEF SetTraps, Check, Cat, Claim, TunHosts, OpenTunnel
  <2>2. ASSUME \A q \in Pids : Clauses(q) PROVE \A q \in Pids : Clauses(q)'
    <3>1. p = init /\ \A q \in Pids \ {p} : pc[q] = "dead"
      BY <1>2, <2>2 DEF SetTraps, Check, Cat, Claim, TunHosts, OpenTunnel
    <3>2. init' = init /\ \A q \in Pids \ {p} : pc'[q] = "dead"
      BY <1>2, <1>t, <3>1
      DEF SetTraps, Check, Cat, Claim, TunHosts, OpenTunnel
    <3>3. Clauses(p)'
      BY <1>2, <1>t, <2>2, <3>1, <3>2
      DEF Claimed, SetTraps, Check, Cat, Claim, TunHosts, OpenTunnel
    <3> QED BY <3>2, <3>3 DEF Claimed
  <2> QED BY <2>1, <2>2, <1>k
<1>3. ASSUME NEW p \in Pids, KillOld(p) PROVE OnlyInit'
  <2>1. left'.starts = left.starts
    BY <1>3 DEF KillOld
  <2>2. ASSUME \A q \in Pids : Clauses(q) PROVE \A q \in Pids : Clauses(q)'
    <3>1. p = init /\ init' = init /\ pidFile' = pidFile /\ \A q \in Pids \ {p} : pc[q] = "dead"
      BY <1>3, <2>2 DEF KillOld
    <3>2. pc'[p] \in {"claim", "claim"} /\ \A q \in Pids \ {p} : pc'[q] = "dead"
      <4>1. CASE Alive(old[p]) /\ pc' = [PcAfter(old[p], "TERM") EXCEPT ![p] = "claim"]
        BY <1>t, <3>1, <4>1, SignalTypes DEF Alive
      <4>2. CASE pc' = [pc EXCEPT ![p] = "claim"]
        BY <1>t, <3>1, <4>2
      <4> QED BY <1>3, <4>1, <4>2 DEF KillOld
    <3> QED BY <3>1, <3>2 DEF Claimed
  <2> QED BY <2>1, <2>2, <1>k
<1>4. ASSUME NEW p \in Pids, Fuser(p) \/ OpenFails(p) \/ SshEnds(p) PROVE OnlyInit'
  <2>1. left'.starts = left.starts
    BY <1>4, <1>l DEF Fuser, OpenFails, SshEnds
  <2>2. ASSUME \A q \in Pids : Clauses(q) PROVE \A q \in Pids : Clauses(q)'
    <3>1. p = init /\ pc[p] \in Claimed /\ \A q \in Pids \ {p} : pc[q] = "dead"
      BY <1>4, <2>2 DEF Fuser, OpenFails, SshEnds, Claimed
    <3>2. init' = init /\ pidFile' = pidFile
      BY <1>4 DEF Fuser, OpenFails, SshEnds
    <3>3. \A q \in Pids \ {p} : pc'[q] = "dead"
      <4>1. CASE Fuser(p)
        <5>1. port25 \notin Pids \ {p}
          BY <3>1 DEF UpHasPort
        <5> QED BY <4>1, <5>1, <3>1 DEF Fuser
      <4> QED BY <1>4, <4>1, <3>1, <1>t DEF OpenFails, SshEnds
    <3>4. pc'[p] # "cat"
      BY <1>4, <1>t DEF Fuser, OpenFails, SshEnds
    <3> QED BY <2>2, <3>1, <3>2, <3>3, <3>4 DEF Claimed
  <2> QED BY <2>1, <2>2, <1>k
<1>5. ASSUME NEW p \in Pids, EndOfScript(p) \/ Handle(p) PROVE OnlyInit'
  <2>1. left'.starts = left.starts
    BY <1>5 DEF EndOfScript, Handle, Leave, Exec
  <2>2. ASSUME \A q \in Pids : Clauses(q) PROVE \A q \in Pids : Clauses(q)'
    <3>1. p = init /\ \A q \in Pids \ {p} : pc[q] = "dead"
      BY <1>5, <2>2 DEF EndOfScript, Handle, Alive
    <3>2. init' = init /\ pc'[p] \in {"dead", "boot"} /\ \A q \in Pids \ {p} : pc'[q] = "dead"
      BY <1>5, <1>t, <3>1 DEF EndOfScript, Handle, Leave, Exec, Gone
    <3> QED BY <3>1, <3>2 DEF Claimed
  <2> QED BY <2>1, <2>2, <1>k
<1>6. ASSUME NEW p \in Pids, Respawn(p) PROVE OnlyInit'
  <2>1. left'.starts = left.starts
    BY <1>6 DEF Respawn
  <2>2. ASSUME \A q \in Pids : Clauses(q) PROVE \A q \in Pids : Clauses(q)'
    <3>1. \A q \in Pids : pc[q] = "dead"
      BY <1>6, <2>2 DEF Respawn, Alive
    <3> QED BY <1>6, <1>t, <3>1 DEF Respawn, Start, Free, Claimed
  <2> QED BY <2>1, <2>2, <1>k
<1>7. ASSUME NEW p \in Pids, StartByHand(p) PROVE OnlyInit'
  BY <1>7, <1>l DEF StartByHand, OnlyInit
<1>8. CASE GateUpdated
  BY <1>8, <1>l, <1>k DEF GateUpdated
<1>s. ASSUME NEW q \in Pids, NEW sig \in {"HUP", "USR1", "TERM"}, pc' = PcAfter(q, sig),
             init' = init, pidFile' = pidFile, left'.starts = left.starts
      PROVE  OnlyInit'
  BY <1>s, <1>t, <1>k, SignalTypes DEF Claimed
<1>9. CASE KillHup
  BY <1>9, <1>t, <1>k, <1>s DEF KillHup, Alive
<1>10. ASSUME NEW sig \in Signals, Signal(sig) PROVE OnlyInit'
  <2>1. /\ sig \in {"HUP", "USR1", "TERM"} /\ pidFile \in Pids /\ pc' = PcAfter(pidFile, sig)
        /\ init' = init /\ pidFile' = pidFile /\ left'.starts = left.starts
    BY <1>10, <1>l DEF Signal, Alive
  <2> QED BY <2>1, <1>s
<1>11. CASE HostsOpen \/ HostsWrite
  BY <1>11, <1>k DEF HostsOpen, HostsWrite
<1> QED
  BY <1>1, <1>2, <1>3, <1>4, <1>5, <1>6, <1>7, <1>8, <1>9, <1>10, <1>11 DEF Next, Step

\* Nobody but the only instance removes the fragment; a hostsUp that lists it
\* keeps the names.
LEMMA NamesStep ==
  TypeOK /\ UpHasPort /\ OnlyInit /\ FragmentKept /\ ShoreResolves /\ [Next]_vars
    => FragmentKept' /\ ShoreResolves'
<1> SUFFICES ASSUME TypeOK, UpHasPort, OnlyInit, FragmentKept, ShoreResolves, [Next]_vars
             PROVE  FragmentKept' /\ ShoreResolves'
  OBVIOUS
<1> USE TunnelAssumption DEF At, Goto, hostsVars, scriptVars, worldVars
<1>t. /\ pc \in [Pids -> PCs] /\ port25 \in Pids \cup {None}
      /\ old \in [Pids -> Pids \cup {None, "empty"}]
      /\ pidFile \in Pids \cup {"missing", "empty"} /\ reader \in Pids \cup {None}
  BY DEF TypeOK
<1>l. left \in [signals : 0..MaxSignals, gates : 0..MaxGates, starts : 0..MaxStarts,
                failures : 0..MaxFailures]
  BY DEF TypeOK
<1>1. CASE UNCHANGED vars
  BY <1>1 DEF vars, FragmentKept, ShoreResolves
<1>2. ASSUME NEW p \in Pids, SetTraps(p) \/ Check(p) \/ Cat(p) \/ Claim(p)
      PROVE  FragmentKept' /\ ShoreResolves'
  <2>1. pc'[p] \notin {"grep", "ssh", "up"} /\ \A q \in Pids \ {p} : pc'[q] = pc[q]
    BY <1>2, <1>t DEF SetTraps, Check, Cat, Claim
  <2>2. left' = left /\ UNCHANGED hostsVars
    BY <1>2 DEF SetTraps, Check, Cat, Claim
  <2> QED BY <2>1, <2>2 DEF FragmentKept, ShoreResolves
<1>3. ASSUME NEW p \in Pids, KillOld(p) PROVE FragmentKept' /\ ShoreResolves'
  <2>1. \A q \in Pids : pc'[q] \notin {"grep", "ssh", "up"} \/ pc'[q] = pc[q]
    <3>1. CASE Alive(old[p]) /\ pc' = [PcAfter(old[p], "TERM") EXCEPT ![p] = "claim"]
      BY <1>t, <3>1, SignalTypes DEF Alive
    <3>2. CASE pc' = [pc EXCEPT ![p] = "claim"]
      BY <1>t, <3>2
    <3> QED BY <1>3, <3>1, <3>2 DEF KillOld
  <2>2. left' = left /\ UNCHANGED hostsVars
    BY <1>3 DEF KillOld
  <2> QED BY <2>1, <2>2 DEF FragmentKept, ShoreResolves
<1>4. ASSUME NEW p \in Pids, Fuser(p) PROVE FragmentKept' /\ ShoreResolves'
  <2>1. \A q \in Pids : pc'[q] \in {"grep", "ssh", "up"}
          => pc'[q] = pc[q] \/ (pc[q] = "up" /\ pc'[q] = "ssh")
    BY <1>4, <1>t DEF Fuser, UpHasPort
  <2>2. left' = left /\ UNCHANGED hostsVars
    BY <1>4 DEF Fuser
  <2> QED BY <2>1, <2>2 DEF FragmentKept, ShoreResolves
<1>5. ASSUME NEW p \in Pids, TunHosts(p) PROVE FragmentKept' /\ ShoreResolves'
  <2>1. left' = left /\ \A q \in Pids \ {p} : pc'[q] = pc[q]
    BY <1>5, <1>t DEF TunHosts
  <2>2. CASE pc[p] = "topIf"
    <3>1. hosts => hosts'
      BY <1>5, <2>2, Zenon DEF TunHosts
    <3>2. pc'[p] \in {"grep", "end"} /\ (pc'[p] = "grep" => hosts') /\ etcHosts' = etcHosts
      BY <1>5, <2>2, <1>t DEF TunHosts
    <3> QED BY <2>1, <3>1, <3>2 DEF FragmentKept, ShoreResolves
  <2>3. CASE pc[p] = "grep"
    <3>1. pc'[p] = "ssh" /\ hosts' = hosts
      BY <1>5, <2>3, <1>t DEF TunHosts
    <3>2. etcHosts' # "without"
      BY <1>5, <2>3 DEF TunHosts, Names, Merging
    <3> QED BY <2>1, <2>3, <3>1, <3>2 DEF FragmentKept, ShoreResolves
  <2> QED BY <1>5, <2>2, <2>3 DEF TunHosts
<1>6. ASSUME NEW p \in Pids, OpenTunnel(p) \/ OpenFails(p) \/ SshEnds(p)
      PROVE  FragmentKept' /\ ShoreResolves'
  <2>1. \A q \in Pids : pc'[q] = pc[q] \/ pc[q] \in {"ssh", "up"}
    BY <1>6, <1>t DEF OpenTunnel, OpenFails, SshEnds
  <2>2. left'.starts = left.starts /\ UNCHANGED hostsVars
    BY <1>6, <1>l DEF OpenTunnel, OpenFails, SshEnds
  <2> QED BY <2>1, <2>2 DEF FragmentKept, ShoreResolves
<1>7. ASSUME NEW p \in Pids, EndOfScript(p) \/ Handle(p) PROVE FragmentKept' /\ ShoreResolves'
  <2>1. left' = left /\ Alive(p) /\ pc'[p] \in {"dead", "boot"}
        /\ \A q \in Pids \ {p} : pc'[q] = pc[q]
    BY <1>7, <1>t DEF EndOfScript, Handle, Leave, Exec, Gone, Alive
  <2>2. ASSUME left.starts = MaxStarts
        PROVE  \A q \in Pids : pc'[q] \notin {"grep", "ssh", "up"}
    BY <2>1, <2>2 DEF OnlyInit, Alive
  <2> QED BY <2>1, <2>2 DEF FragmentKept, ShoreResolves
<1>8. ASSUME NEW p \in Pids, Respawn(p) \/ StartByHand(p) PROVE FragmentKept' /\ ShoreResolves'
  <2>1. /\ \A q \in Pids : pc'[q] = pc[q] \/ pc'[q] = "boot"
        /\ UNCHANGED hostsVars
    BY <1>8, <1>t DEF Respawn, StartByHand, Start
  <2>2. left'.starts = MaxStarts => left.starts = MaxStarts
    BY <1>8, <1>l DEF Respawn, StartByHand
  <2> QED BY <2>1, <2>2 DEF FragmentKept, ShoreResolves
<1>9. CASE GateUpdated
  BY <1>9, <1>l DEF GateUpdated, FragmentKept, ShoreResolves
<1>s. ASSUME NEW q \in Pids, NEW sig \in {"HUP", "USR1", "TERM"}, pc' = PcAfter(q, sig),
             UNCHANGED hostsVars, left'.starts = left.starts
      PROVE  FragmentKept' /\ ShoreResolves'
  BY <1>s, <1>t, SignalTypes DEF FragmentKept, ShoreResolves
<1>10. CASE KillHup
  <2>1. CASE Alive(reader)
    BY <1>10, <2>1, <1>s DEF KillHup, Alive
  <2>2. CASE ~Alive(reader)
    BY <1>10, <2>2 DEF KillHup, FragmentKept, ShoreResolves
  <2> QED BY <2>1, <2>2
<1>11. ASSUME NEW sig \in Signals, Signal(sig) PROVE FragmentKept' /\ ShoreResolves'
  <2>1. /\ sig \in {"HUP", "USR1", "TERM"} /\ pidFile \in Pids /\ pc' = PcAfter(pidFile, sig)
        /\ UNCHANGED hostsVars /\ left'.starts = left.starts
    BY <1>11, <1>l DEF Signal, Alive
  <2> QED BY <2>1, <1>s
<1>12. CASE HostsOpen \/ HostsWrite
  <2>1. pc' = pc /\ hosts' = hosts /\ left' = left
    BY <1>12 DEF HostsOpen, HostsWrite
  <2>2. etcHosts' = "without" => ~hosts
    BY <1>12 DEF HostsOpen, HostsWrite
  <2> QED BY <2>1, <2>2 DEF FragmentKept, ShoreResolves
<1> QED
  BY <1>1, <1>2, <1>3, <1>4, <1>5, <1>6, <1>7, <1>8, <1>9, <1>10, <1>11, <1>12 DEF Next, Step

LEMMA Invariance == Spec => []Inv
<1>1. Inv /\ [Next]_vars => Inv'
  BY TypeStep, UpHasPortStep, OnlyInitStep, NamesStep DEF Inv
<1> QED BY InvInit, <1>1, PTL DEF Spec

(* Every instance of tunnel2shore is at one of its commands and waits only *)
(* for signals that it traps, for any number of instances, pids, gateways. *)
THEOREM TypeCorrect == Spec => []TypeOK
<1>1. Inv => TypeOK
  BY DEF Inv
<1> QED BY Invariance, <1>1, PTL

(* As long as init's is the only instance of tunnel2shore, the pid file    *)
(* names the one whose ssh is up, whatever signals it gets, before or      *)
(* after its traps are set, and however often it ends and is respawned.    *)
THEOREM PidOfTunnelHolds == Spec => []PidOfTunnel
<1>1. Inv => PidOfTunnel
  BY DEF Inv, OnlyInit, PidOfTunnel, Claimed
<1> QED BY Invariance, <1>1, PTL

(* As long as init's is the only instance of tunnel2shore, shore and mail  *)
(* resolve to this host while ssh is up or about to be opened, however the *)
(* script is signalled, ends and is respawned and whatever other scripts   *)
(* merge into /etc/hosts, but for a hostsUp under way and for one that     *)
(* listed the fragments before tunnel2shore had written its own.           *)
THEOREM ShoreResolvesHolds == Spec => []ShoreResolves
<1>1. Inv => ShoreResolves
  BY DEF Inv
<1> QED BY Invariance, <1>1, PTL
=============================================================================
