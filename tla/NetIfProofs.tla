---------------------------- MODULE NetIfProofs ----------------------------
(***************************************************************************)
(* Proofs about NetIf, for any number of scripts, pids, crashes and so on. *)
(*                                                                         *)
(* Two arguments.  As long as scripts take turns, no client comes into     *)
(* being but by the one script that runs, so what that script found out    *)
(* about clients stays true until it acts on it.  And as long as no client *)
(* crashed, whoever removes a client also removes its pid file before the  *)
(* pid is given away, in whatever way the scripts overlap.                 *)
(***************************************************************************)
EXTENDS NetIf, TLAPS

\* Where each function is before it returns.
ScriptOf ==
  \A s \in Scripts :
    /\ job[s] \in {"down", "out"} =>
         pc[s] \in {"idle", "glob", "head", "kill", "wait", "force", "rm", "ifconfig"}
    /\ pc[s] \in {"kill", "wait", "force", "rm", "lease"} => owner[s] \in Pids

\* Scripts that take turns.
Alone == ~disturbed => \A s, t \in Scripts : pc[s] # "idle" /\ pc[t] # "idle" => s = t

\* What a script in its turn knows of the clients.
Knows ==
  ~disturbed =>
    \A s \in Scripts :
      /\ pc[s] \in {"rmStale", "prep", "plugged", "client", "start", "rm", "ifconfig"}
           => Clients = {}
      /\ pc[s] \in {"kill", "wait", "force", "lease"} => \A d \in Clients : d = owner[s]

\* Without a crash a pid file outlives its client only until the script that
\* killed the client, and remembers its pid, removes the file.
FileOutlives ==
  /\ left["crashes"] <= MaxCrashes
  /\ left["crashes"] = MaxCrashes =>
       /\ ~hit
       /\ \A d \in Pids : process[d] # "other"
       /\ pidFile # None /\ process[pidFile] = "free" =>
            \E s \in Scripts : pc[s] = "rm" /\ owner[s] = pidFile

Inv == TypeOK /\ ScriptOf /\ Alone /\ Tracked /\ Knows /\ FileOutlives

\* The bounds are natural numbers.
LEMMA BoundsTypes ==
  /\ DOMAIN Bounds = {"jobs", "crashes", "hangs", "others", "flips"}
  /\ Bounds \in [DOMAIN Bounds -> Nat]
  /\ Bounds["crashes"] = MaxCrashes
BY NetIfAssumption DEF Bounds

\* At boot there is neither a script nor a client.
LEMMA InvInit == Init => Inv
<1> SUFFICES ASSUME Init PROVE Inv
  OBVIOUS
<1>1. TypeOK
  <2>1. /\ pc \in [Scripts -> PCs] /\ job \in [Scripts -> Jobs]
        /\ owner \in [Scripts -> Pids \cup {None}] /\ try \in [Scripts -> 1..2]
        /\ pidFile \in Pids \cup {None}
        /\ process \in [Pids -> ClientStates \cup {"free", "other"}]
    BY DEF Init, PCs, Jobs
  <2>2. /\ addr \in BOOLEAN /\ up \in BOOLEAN /\ carrier \in BOOLEAN
        /\ disturbed \in BOOLEAN /\ hit \in BOOLEAN
    BY Zenon DEF Init
  <2>3. left \in [DOMAIN Bounds -> Nat]
    BY BoundsTypes DEF Init
  <2> QED BY <2>1, <2>2, <2>3 DEF TypeOK
<1>2. ScriptOf /\ Alone
  BY DEF Init, ScriptOf, Alone
<1>3. Clients = {}
  BY DEF Init, Clients, ClientStates
<1>4. Tracked /\ Knows
  BY <1>3 DEF Tracked, Knows
<1>5. FileOutlives
  BY NetIfAssumption, BoundsTypes DEF Init, FileOutlives
<1> QED BY <1>1, <1>2, <1>4, <1>5 DEF Inv

\* Every step keeps the types.
LEMMA TypeStep == TypeOK /\ [Next]_vars => TypeOK'
<1> SUFFICES ASSUME TypeOK, [Next]_vars PROVE TypeOK'
  OBVIOUS
<1> USE NetIfAssumption, BoundsTypes DEF TypeOK, PCs, Jobs, ClientStates, At, Goto, Only, Ends, Return,
      ifVars, scriptVars
<1>1. CASE UNCHANGED vars
  BY <1>1 DEF vars
<1>2. ASSUME NEW s \in Scripts, NEW j \in Jobs, Begin(s, j) PROVE TypeOK'
  BY <1>2 DEF Begin, Use
<1>3. ASSUME NEW s \in Scripts, HasIP(s) \/ GlobUp(s) \/ HeadUp(s) \/ RmStale(s)
      PROVE  TypeOK'
  BY <1>3 DEF HasIP, GlobUp, HeadUp, RmStale
<1>4. ASSUME NEW d \in Pids \cup {None}, NEW sig \in {"HUP", "TERM", "KILL"}, Kill(d, sig)
      PROVE  process' \in [Pids -> ClientStates \cup {"free", "other"}] /\ hit' \in BOOLEAN
  <2>1. hit' \in BOOLEAN
    BY <1>4, Zenon DEF Kill
  <2>2. CASE d \in Pids
    <3>1. After(d, sig) \in ClientStates \cup {"free", "other"}
      BY <2>2 DEF After
    <3> QED BY <1>4, <2>1, <2>2, <3>1 DEF Kill
  <2>3. CASE d \notin Pids
    BY <1>4, <2>1, <2>3 DEF Kill
  <2> QED BY <2>2, <2>3
<1>5. ASSUME NEW s \in Scripts, Prep(s) \/ Plugged(s) \/ Ifconfig(s)
      PROVE  TypeOK'
  <2>1. addr' \in BOOLEAN /\ up' \in BOOLEAN
    BY <1>5, Zenon DEF Prep, Plugged, Ifconfig
  <2> QED BY <1>5, <2>1 DEF Prep, Plugged, Ifconfig
<1>6. ASSUME NEW s \in Scripts, OldClient(s) \/ SignalDHCPclient(s)
      PROVE  TypeOK'
  BY <1>6, <1>4 DEF OldClient, SignalDHCPclient
<1>7. ASSUME NEW s \in Scripts, KillHup(s) \/ ForceKill(s)
      PROVE  TypeOK'
  BY <1>7, <1>4 DEF KillHup, ForceKill
<1>8. ASSUME NEW s \in Scripts, StartClient(s)
      PROVE  TypeOK'
  BY <1>8 DEF StartClient
<1>b. ASSUME NEW s \in Scripts, Background(s) \/ NoLease(s)
      PROVE  TypeOK'
  BY <1>b DEF Background, NoLease
<1>9. ASSUME NEW s \in Scripts, Glob(s) \/ Head(s) \/ WaitGone(s) \/ WaitTimeout(s) \/ Rm(s)
      PROVE  TypeOK'
  BY <1>9 DEF Glob, Head, WaitGone, WaitTimeout, Rm
<1>10. ASSUME NEW d \in Pids, Bind(d) \/ ClientEnds(d)
      PROVE  TypeOK'
  BY <1>10 DEF Bind, ClientEnds
<1>11. ASSUME NEW d \in Pids, Crash(d) \/ Hang(d) \/ Bystander(d)
       PROVE  TypeOK'
  BY <1>11 DEF Crash, Hang, Bystander, Become, Use
<1>12. CASE Cable
  BY <1>12 DEF Cable, Use
<1> QED
  BY <1>1, <1>2, <1>3, <1>5, <1>6, <1>7, <1>8, <1>b, <1>9, <1>10, <1>11, <1>12 DEF Next, Step

\* Every step moves at most one script, along its function.
LEMMA ControlStep ==
  TypeOK /\ ScriptOf /\ Alone /\ [Next]_vars => ScriptOf' /\ Alone'
<1> SUFFICES ASSUME TypeOK, ScriptOf, Alone, [Next]_vars PROVE ScriptOf' /\ Alone'
  OBVIOUS
<1> USE DEF TypeOK, ScriptOf, Alone, At, Goto, Only, Ends, Return, Jobs, PCs
<1>1. CASE UNCHANGED <<pc, job, owner, disturbed>>
  BY <1>1
<1>2. ASSUME NEW s \in Scripts, NEW j \in Jobs, Begin(s, j) PROVE ScriptOf' /\ Alone'
  BY <1>2 DEF Begin
<1>3. ASSUME NEW s \in Scripts, Step(s) PROVE ScriptOf' /\ Alone'
  <2>1. CASE HasIP(s) \/ GlobUp(s) \/ HeadUp(s) \/ RmStale(s) \/ Prep(s) \/ Plugged(s)
    BY <2>1 DEF HasIP, GlobUp, HeadUp, RmStale, Prep, Plugged
  <2>2. CASE OldClient(s) \/ StartClient(s) \/ SignalDHCPclient(s)
    BY <2>2 DEF OldClient, StartClient, SignalDHCPclient
  <2>b. CASE Background(s) \/ NoLease(s)
    BY <2>b DEF Background, NoLease
  <2>3. CASE Glob(s) \/ KillHup(s) \/ WaitGone(s) \/ WaitTimeout(s) \/ ForceKill(s)
    BY <2>3 DEF Glob, KillHup, WaitGone, WaitTimeout, ForceKill
  <2>4. CASE Head(s) \/ Rm(s) \/ Ifconfig(s)
    BY <2>4 DEF Head, Rm, Ifconfig
  <2> QED BY <1>3, <2>1, <2>2, <2>b, <2>3, <2>4 DEF Step
<1> QED
  BY <1>1, <1>2, <1>3 DEF Next, vars, scriptVars, Bind, ClientEnds, Crash, Hang, Bystander,
     Become, Cable

\* A signal makes no client.
LEMMA KillShrinks ==
  ASSUME TypeOK, NEW d \in Pids, NEW sig \in {"HUP", "TERM", "KILL"}, Kill(d, sig)
  PROVE  Clients' \subseteq Clients
<1>1. process' = [process EXCEPT ![d] = After(d, sig)]
  BY DEF Kill
<1>2. process[d] \notin ClientStates => After(d, sig) \notin ClientStates
  BY DEF After, ClientStates
<1> QED BY <1>1, <1>2 DEF TypeOK, Clients

\* Only ifUp makes a client, and a client that goes to the background.
LEMMA ClientsShrink ==
  ASSUME TypeOK, ScriptOf, [Next]_vars,
         \A s \in Scripts : ~StartClient(s) /\ ~Background(s)
  PROVE  Clients' \subseteq Clients
<1>1. CASE UNCHANGED process
  BY <1>1 DEF Clients
<1>2. ASSUME NEW s \in Scripts, OldClient(s) \/ SignalDHCPclient(s), ~UNCHANGED process
      PROVE  Clients' \subseteq Clients
  BY <1>2, KillShrinks, NetIfAssumption DEF OldClient, SignalDHCPclient, TypeOK
<1>3. ASSUME NEW s \in Scripts, KillHup(s) \/ ForceKill(s)
      PROVE  Clients' \subseteq Clients
  BY <1>3, KillShrinks DEF KillHup, ForceKill, ScriptOf, At
<1>4. ASSUME NEW d \in Pids, ClientEnds(d) \/ Crash(d) \/ Hang(d) \/ Bystander(d)
      PROVE  Clients' \subseteq Clients
  BY <1>4 DEF ClientEnds, Crash, Hang, Bystander, Become, TypeOK, Clients, ClientStates
<1>5. ASSUME NEW s \in Scripts, NoLease(s) PROVE Clients' \subseteq Clients
  BY <1>5 DEF NoLease, TypeOK, Clients, ClientStates
<1> QED
  BY <1>1, <1>2, <1>3, <1>4, <1>5 DEF Next, Step, vars, Begin, HasIP, GlobUp, HeadUp, RmStale,
     Prep, Plugged, Glob, Head, WaitGone, WaitTimeout, Rm, Ifconfig, Bind, Cable


\* In its turn a script finds every client through the pid file, and what it
\* has found stays true while it works: nobody else starts one.
LEMMA TrackedStep == Inv /\ [Next]_vars => Tracked' /\ Knows'
<1> SUFFICES ASSUME Inv, [Next]_vars, ~disturbed' PROVE Tracked' /\ Knows'
  BY DEF Tracked, Knows
<1>1. TypeOK /\ ScriptOf /\ TypeOK' /\ ScriptOf' /\ Alone'
  BY TypeStep, ControlStep DEF Inv
<1>2. ~disturbed
  BY <1>1 DEF TypeOK, Next, Step, vars, Begin, HasIP, GlobUp, HeadUp, RmStale, Prep, Plugged,
     OldClient, StartClient, Background, NoLease, Glob, Head, KillHup, WaitGone, WaitTimeout,
     ForceKill, Rm, Ifconfig, SignalDHCPclient, Bind, ClientEnds, Crash, Hang, Bystander, Become, Cable, Only, Ends
<1>3. /\ \A d \in Clients : pidFile = d
      /\ \A s, t \in Scripts : pc[s] # "idle" /\ pc[t] # "idle" => s = t
      /\ \A s \in Scripts :
           /\ pc[s] \in {"rmStale", "prep", "plugged", "client", "start", "rm", "ifconfig"}
                => Clients = {}
           /\ pc[s] \in {"kill", "wait", "force", "lease"} => \A d \in Clients : d = owner[s]
  BY <1>2 DEF Inv, Alone, Tracked, Knows
<1>4. ASSUME NEW s \in Scripts, StartClient(s) PROVE Tracked' /\ Knows'
  <2>1. PICK d \in Pids : /\ process' = [process EXCEPT ![d] = "run"] /\ pidFile' = d
                          /\ owner' = [owner EXCEPT ![s] = d]
    BY <1>4 DEF StartClient
  <2>2. Clients = {} /\ \A t \in Scripts : t # s => pc[t] = "idle"
    BY <1>3, <1>4 DEF StartClient, At
  <2>3. Clients' = {d}
    BY <2>1, <2>2, <1>1 DEF TypeOK, Clients, ClientStates
  <2>4. pc'[s] = "lease" /\ owner'[s] = d /\ \A t \in Scripts : t # s => pc'[t] = "idle"
    BY <1>1, <1>4, <2>1, <2>2 DEF TypeOK, StartClient, Goto
  <2> QED BY <2>1, <2>3, <2>4 DEF Tracked, Knows
<1>b. ASSUME NEW s \in Scripts, Background(s) PROVE Tracked' /\ Knows'
  <2>1. PICK d \in Pids : /\ process' = [process EXCEPT ![owner[s]] = "free", ![d] = "run"]
                          /\ pidFile' = d
    BY <1>b DEF Background
  <2>2. /\ \A e \in Clients : e = owner[s]
        /\ owner[s] \in Pids /\ \A t \in Scripts : t # s => pc[t] = "idle"
    BY <1>1, <1>3, <1>b DEF Background, At, ScriptOf
  <2>3. Clients' \subseteq {d}
    BY <2>1, <2>2, <1>1 DEF TypeOK, Clients, ClientStates
  <2>4. \A t \in Scripts : pc'[t] = "idle"
    BY <1>1, <1>b, <2>2 DEF TypeOK, Background, Ends, Return, Goto
  <2> QED BY <2>1, <2>3, <2>4 DEF Tracked, Knows
<1>5. CASE \A s \in Scripts : ~StartClient(s) /\ ~Background(s)
  <2>1. Clients' \subseteq Clients
    BY <1>1, <1>5, ClientsShrink
  <2>2. Tracked'
    <3>1. CASE UNCHANGED pidFile
      BY <1>3, <2>1, <3>1 DEF Tracked
    <3>2. ASSUME NEW s \in Scripts, RmStale(s) \/ Rm(s) PROVE Tracked'
      BY <1>3, <2>1, <3>2 DEF Tracked, RmStale, Rm, At
    <3>3. ASSUME NEW d \in Pids, ClientEnds(d) PROVE Tracked'
      <4>1. d \in Clients /\ d \notin Clients'
        BY <1>1, <3>3 DEF ClientEnds, TypeOK, Clients, ClientStates
      <4> QED BY <1>3, <2>1, <4>1 DEF Tracked
    <3>4. ASSUME NEW s \in Scripts, NoLease(s) PROVE Tracked'
      <4>1. CASE UNCHANGED pidFile
        BY <1>3, <2>1, <4>1 DEF Tracked
      <4>2. CASE process[owner[s]] = "run" /\ process' = [process EXCEPT ![owner[s]] = "free"]
        <5>1. owner[s] \in Clients /\ owner[s] \notin Clients'
          BY <1>1, <3>4, <4>2 DEF NoLease, At, ScriptOf, TypeOK, Clients, ClientStates
        <5> QED BY <1>3, <2>1, <5>1 DEF Tracked
      <4> QED BY <3>4, <4>1, <4>2 DEF NoLease
    <3> QED
      BY <1>5, <3>1, <3>2, <3>3, <3>4 DEF Next, Step, vars, Begin, HasIP, GlobUp, HeadUp, Prep, Plugged,
         OldClient, Glob, Head, KillHup, WaitGone, WaitTimeout, ForceKill, Ifconfig,
         SignalDHCPclient, Bind, Crash, Hang, Bystander, Become, Cable
  <2>3. Knows'
    <3>1. CASE UNCHANGED <<pc, owner>>
      BY <1>3, <2>1, <3>1 DEF Knows
    <3>2. ASSUME NEW s \in Scripts, NEW j \in Jobs, Begin(s, j) PROVE Knows'
      BY <1>1, <1>3, <2>1, <3>2 DEF Knows, Begin, At, Goto, TypeOK
    <3>3. ASSUME NEW s \in Scripts, Step(s) PROVE Knows'
      <4> USE <1>1, <1>3, <2>1 DEF Knows, TypeOK, At, Goto, Only, Ends, Return
      <4>1. CASE HasIP(s) \/ RmStale(s)
        BY <4>1 DEF HasIP, RmStale
      <4>2. CASE Prep(s) \/ Plugged(s)
        BY <4>2 DEF Prep, Plugged
      <4>3. CASE GlobUp(s)
        <5>1. pidFile = None => Clients = {}
          BY NetIfAssumption DEF Clients
        <5> QED BY <4>3, <5>1 DEF GlobUp
      <4>4. CASE HeadUp(s)
        <5>1. CASE pc'[s] = "idle"
          BY <4>4, <5>1 DEF HeadUp
        <5>2. CASE pc'[s] = "rmStale"
          <6>1. pidFile = None \/ process[pidFile] = "free"
            BY <4>4, <5>2 DEF HeadUp, Alive
          <6>2. Clients = {}
            BY <6>1, NetIfAssumption DEF Clients, ClientStates
          <6> QED BY <4>4, <5>2, <6>2 DEF HeadUp
        <5> QED BY <4>4, <5>1, <5>2 DEF HeadUp
      <4>5. CASE OldClient(s) \/ SignalDHCPclient(s)
        BY <4>5 DEF OldClient, SignalDHCPclient
      <4>6. CASE Glob(s) \/ Head(s)
        <5>1. pidFile = None => Clients = {}
          BY NetIfAssumption DEF Clients
        <5>2. CASE Glob(s)
          BY <5>1, <5>2 DEF Glob
        <5>3. CASE Head(s)
          BY <5>1, <5>3 DEF Head
        <5> QED BY <4>6, <5>2, <5>3
      <4>7. CASE KillHup(s) \/ WaitTimeout(s)
        BY <4>7 DEF KillHup, WaitTimeout
      <4>8. CASE WaitGone(s)
        <5>1. process[owner[s]] = "free"
          BY <4>8 DEF WaitGone, Alive
        <5>2. \A d \in Clients : d = owner[s]
          BY <4>8 DEF WaitGone
        <5>3. Clients = {}
          BY <5>1, <5>2 DEF Clients, ClientStates
        <5> QED BY <4>8, <5>3 DEF WaitGone
      <4>9. CASE ForceKill(s)
        <5>1. owner[s] \notin Clients'
          BY <4>9 DEF ForceKill, Kill, After, Clients, ClientStates
        <5>2. Clients' = {}
          BY <4>9, <5>1 DEF ForceKill
        <5> QED BY <4>9, <5>2 DEF ForceKill
      <4>10. CASE Rm(s) \/ Ifconfig(s)
        BY <4>10 DEF Rm, Ifconfig
      <4>11. CASE NoLease(s)
        BY <4>11 DEF NoLease
      <4> QED
        BY <1>5, <3>3, <4>1, <4>2, <4>3, <4>4, <4>5, <4>6, <4>7, <4>8, <4>9, <4>10, <4>11
        DEF Step
    <3> QED
      BY <3>1, <3>2, <3>3 DEF Next, vars, scriptVars, Bind, ClientEnds, Crash, Hang, Bystander,
         Become, Cable
  <2> QED BY <2>2, <2>3
<1> QED BY <1>4, <1>b, <1>5

\* Without a crash, a pid whose process was killed is remembered until its
\* file is gone, and so is given to nobody whom a script would signal.
LEMMA FileOutlivesStep == Inv /\ [Next]_vars => FileOutlives'
<1> SUFFICES ASSUME Inv, [Next]_vars PROVE FileOutlives'
  OBVIOUS
<1>1. TypeOK /\ ScriptOf /\ FileOutlives /\ left["crashes"] \in Nat /\ MaxCrashes \in Nat
  BY BoundsTypes, NetIfAssumption DEF Inv, TypeOK
<1>2. CASE UNCHANGED <<pc, owner, pidFile, process, hit, left>>
  BY <1>1, <1>2 DEF FileOutlives
<1>3. ASSUME NEW what \in DOMAIN Bounds, Use(what)
      PROVE  /\ left'["crashes"] <= left["crashes"]
             /\ what # "crashes" => left'["crashes"] = left["crashes"]
             /\ what = "crashes" => left'["crashes"] # MaxCrashes
  BY <1>1, <1>3, BoundsTypes DEF Use, TypeOK, FileOutlives
<1>4. ASSUME NEW s \in Scripts, NEW j \in Jobs, Begin(s, j) PROVE FileOutlives'
  <2>1. left'["crashes"] = left["crashes"]
    BY <1>3, <1>4, BoundsTypes DEF Begin
  <2> QED BY <1>1, <1>4, <2>1 DEF FileOutlives, Begin, At, Goto, TypeOK
<1>5. ASSUME NEW s \in Scripts, Step(s) PROVE FileOutlives'
  <2> USE <1>1 DEF FileOutlives, TypeOK, At, Goto, Only, Ends, Return
  <2>1. CASE HasIP(s) \/ GlobUp(s) \/ HeadUp(s) \/ RmStale(s) \/ Prep(s) \/ Plugged(s)
    BY <2>1 DEF HasIP, GlobUp, HeadUp, RmStale, Prep, Plugged
  <2>2. CASE OldClient(s) \/ SignalDHCPclient(s)
    BY <2>2, NetIfAssumption DEF OldClient, SignalDHCPclient, Kill, After
  <2>3. CASE StartClient(s)
    BY <2>3 DEF StartClient
  <2>b. CASE Background(s) \/ NoLease(s)
    BY <2>b, NetIfAssumption DEF Background, NoLease, Alive, Reusable, ScriptOf
  <2>4. CASE Glob(s) \/ Head(s) \/ WaitTimeout(s)
    BY <2>4 DEF Glob, Head, WaitTimeout
  <2>5. CASE KillHup(s)
    BY <2>5 DEF KillHup, Kill, After, ScriptOf
  <2>6. CASE WaitGone(s)
    BY <2>6 DEF WaitGone
  <2>7. CASE ForceKill(s)
    BY <2>7 DEF ForceKill, Kill, After, ScriptOf
  <2>8. CASE Rm(s) \/ Ifconfig(s)
    BY <2>8 DEF Rm, Ifconfig
  <2> QED BY <1>5, <2>1, <2>2, <2>3, <2>b, <2>4, <2>5, <2>6, <2>7, <2>8 DEF Step
<1>6. ASSUME NEW d \in Pids, Bind(d) \/ ClientEnds(d) PROVE FileOutlives'
  BY <1>1, <1>6 DEF FileOutlives, TypeOK, Bind, ClientEnds, scriptVars
<1>7. ASSUME NEW d \in Pids, Crash(d) PROVE FileOutlives'
  <2>1. left'["crashes"] <= left["crashes"] /\ left'["crashes"] # MaxCrashes
    BY <1>3, <1>7, BoundsTypes DEF Crash, Become
  <2>2. left'["crashes"] \in Nat
    BY <1>7, <1>1, BoundsTypes DEF Crash, Become, Use, TypeOK
  <2> QED BY <1>1, <2>1, <2>2 DEF FileOutlives
<1>8. ASSUME NEW d \in Pids, Hang(d) PROVE FileOutlives'
  <2>1. left'["crashes"] = left["crashes"]
    BY <1>3, <1>8, BoundsTypes DEF Hang, Become
  <2> QED BY <1>1, <1>8, <2>1 DEF FileOutlives, TypeOK, Hang, Become, scriptVars
<1>9. ASSUME NEW d \in Pids, Bystander(d) PROVE FileOutlives'
  <2>1. left'["crashes"] = left["crashes"]
    BY <1>3, <1>9, BoundsTypes DEF Bystander, Become
  <2>2. left["crashes"] # MaxCrashes
    BY <1>1, <1>9, NetIfAssumption DEF Bystander, Reusable, FileOutlives
  <2> QED BY <1>1, <2>1, <2>2 DEF FileOutlives
<1>10. CASE Cable
  <2>1. left'["crashes"] = left["crashes"]
    BY <1>3, <1>10, BoundsTypes DEF Cable
  <2> QED BY <1>1, <1>10, <2>1 DEF FileOutlives, Cable, scriptVars
<1> QED
  BY <1>2, <1>4, <1>5, <1>6, <1>7, <1>8, <1>9, <1>10 DEF Next, vars, scriptVars

\* The invariant holds in every state that scripts, clients and the world reach.
LEMMA Invariance == Spec => []Inv
<1>1. Inv /\ [Next]_vars => Inv'
  BY TypeStep, ControlStep, TrackedStep, FileOutlivesStep DEF Inv
<1> QED BY <1>1, InvInit, PTL DEF Spec

\* Types, for any number of scripts and pids: what ifUp and ifDown read from a
\* pid file is a pid or nothing, and no bound is passed.
THEOREM TypeCorrect == Spec => []TypeOK
<1>1. Inv => TypeOK
  BY DEF Inv
<1> QED BY <1>1, Invariance, PTL

\* Scripts that take turns keep at most one DHCP client, and its pid file names
\* it, after any number of crashes, hangs and runs.
THEOREM TrackedHolds == Spec => []Tracked
<1>1. Inv => Tracked
  BY DEF Inv
<1> QED BY <1>1, Invariance, PTL

\* In any overlap of ifUp, ifDown and dhcp stop, a process that is no client is
\* signalled only after a client has crashed.
THEOREM BystanderSparedHolds == Spec => []BystanderSpared
<1>1. Inv => BystanderSpared
  BY DEF Inv, FileOutlives, BystanderSpared
<1> QED BY <1>1, Invariance, PTL

\* ifDown in its turn leaves no client, not even one that ignores signals.
THEOREM DownStopsHolds == Spec => DownStops
<1> DEFINE Stops == \A s \in Scripts :
             job[s] \in {"down", "out"} /\ pc[s] # "idle" /\ pc'[s] = "idle" /\ ~disturbed
               => Clients' = {}
<1>1. Inv /\ [Next]_vars => [Stops]_vars
  <2> SUFFICES ASSUME Inv, [Next]_vars, NEW s \in Scripts, job[s] \in {"down", "out"},
                      pc[s] # "idle", pc'[s] = "idle", ~disturbed
               PROVE  Clients' = {}
    OBVIOUS
  <2>1. TypeOK /\ ScriptOf /\ Tracked /\ Knows
    BY DEF Inv
  <2>2. PICK t \in Scripts : Step(t)
    BY <2>1 DEF Next, vars, scriptVars, Begin, At, Goto, TypeOK, Bind, ClientEnds, Crash, Hang,
       Bystander, Become, Cable
  <2>3. t = s
    BY <2>1, <2>2 DEF Step, TypeOK, HasIP, GlobUp, HeadUp, RmStale, Prep, Plugged, OldClient,
       StartClient, Background, NoLease, Glob, Head, KillHup, WaitGone, WaitTimeout, ForceKill,
       Rm, Ifconfig, SignalDHCPclient, Only, Ends, Return, Goto
  <2>4. Glob(s) \/ Ifconfig(s)
    BY <2>1, <2>2, <2>3 DEF ScriptOf, Step, TypeOK, HasIP, GlobUp, HeadUp, RmStale, Prep, Plugged,
       OldClient, StartClient, Background, NoLease, Head, KillHup, WaitGone, WaitTimeout, ForceKill, Rm,
       SignalDHCPclient, Only, Goto, At
  <2>5. UNCHANGED process
    BY <2>4 DEF Glob, Ifconfig
  <2>6. Clients = {}
    <3>1. CASE Glob(s)
      BY <2>1, <3>1, NetIfAssumption DEF Glob, Only, Goto, TypeOK, Tracked, Clients
    <3>2. CASE Ifconfig(s)
      BY <2>1, <3>2 DEF Ifconfig, At, Knows
    <3> QED BY <2>4, <3>1, <3>2
  <2> QED BY <2>5, <2>6 DEF Clients
<1>2. Spec => [][Stops]_vars
  BY <1>1, Invariance, PTL DEF Spec
<1> QED BY <1>2 DEF DownStops

=============================================================================
