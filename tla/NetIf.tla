------------------------------- MODULE NetIf -------------------------------
(* Up and down of a wired interface with a DHCP client: ifUp, preppedIfUp,   *)
(* ifDown and signalDHCPclient of usr/share/netutils.sh, run by udev's ifup, *)
(* netplugd and users, each in a process of its own and without a lock.      *)
(* They find the client, udhcpc, through its pid file, and wait for one that *)
(* they start until it has a lease and goes to the background.  A step is    *)
(* one access to something shared.  The client may crash, stop answering     *)
(* signals, or be slow to end; its pid may then be that of a bystander, a    *)
(* process that has nothing to do with the interface.  A pid that a script   *)
(* has read is not used again while the script remembers it.                 *)
EXTENDS Naturals

CONSTANTS Scripts,    \* processes that run the functions
          Pids,       \* pids of clients and bystanders
          None,       \* no pid, no file
          MaxJobs,    \* bound on runs of the scripts
          MaxCrashes, MaxHangs, MaxOthers, MaxFlips  \* bounds on what else happens

ASSUME NetIfAssumption ==
  /\ None \notin Pids
  /\ {MaxJobs, MaxCrashes, MaxHangs, MaxOthers, MaxFlips} \subseteq Nat

VARIABLES pc,         \* where each script is
          job,        \* up: ifup, netplug in; out: netplug out; down: ifdown; stop: dhcp stop
          owner,      \* its variable daemon; the client it waits for
          try,        \* the pass of ifDown's loop
          pidFile,    \* udhcpc-<if>.pid
          process,    \* what has each pid
          addr,       \* has the interface an address?
          up,         \* is it UP?
          carrier,    \* is the cable in?
          disturbed,  \* have two scripts run at the same time?
          hit,        \* was a bystander signalled?
          left        \* what is left of the bounds

scriptVars == <<pc, job, owner, try>>
ifVars == <<addr, up, carrier>>
vars == <<scriptVars, pidFile, process, ifVars, disturbed, hit, left>>

Jobs == {"up", "down", "out", "stop"}
PCs == {"idle", "hasIP", "globUp", "headUp", "rmStale", "prep", "plugged", "client",
        "start", "lease", "glob", "head", "kill", "wait", "force", "rm", "ifconfig", "signal"}

\* A client runs, is deaf to signals, or ends after HUP or TERM.
ClientStates == {"run", "deaf", "releasing", "ending"}
Clients == {d \in Pids : process[d] \in ClientStates}
Alive(d) == process[d] # "free"

Bounds == [jobs |-> MaxJobs, crashes |-> MaxCrashes, hangs |-> MaxHangs,
           others |-> MaxOthers, flips |-> MaxFlips]

TypeOK ==
  /\ pc \in [Scripts -> PCs] /\ job \in [Scripts -> Jobs]
  /\ owner \in [Scripts -> Pids \cup {None}] /\ try \in [Scripts -> 1..2]
  /\ pidFile \in Pids \cup {None}
  /\ process \in [Pids -> ClientStates \cup {"free", "other"}]
  /\ addr \in BOOLEAN /\ up \in BOOLEAN /\ carrier \in BOOLEAN
  /\ disturbed \in BOOLEAN /\ hit \in BOOLEAN
  /\ left \in [DOMAIN Bounds -> Nat]

Init ==
  /\ pc = [s \in Scripts |-> "idle"] /\ job = [s \in Scripts |-> "up"]
  /\ owner = [s \in Scripts |-> None] /\ try = [s \in Scripts |-> 1]
  /\ pidFile = None /\ process = [d \in Pids |-> "free"]
  /\ addr = FALSE /\ up = FALSE /\ carrier \in BOOLEAN
  /\ disturbed = FALSE /\ hit = FALSE /\ left = Bounds

-----------------------------------------------------------------------------
(* Steps of a script.                                                        *)

Use(what) == left[what] > 0 /\ left' = [left EXCEPT ![what] = @ - 1]

At(s, l) == pc[s] = l
Goto(s, l) == pc' = [pc EXCEPT ![s] = l]

\* A script that ends forgets what it read.
Return(s) ==
  /\ Goto(s, "idle")
  /\ owner' = [owner EXCEPT ![s] = None] /\ try' = [try EXCEPT ![s] = 1]

\* Only pc changes, besides what the action says.
Only(s, l) == Goto(s, l) /\ UNCHANGED <<job, owner, try, disturbed, left>>
Ends(s) == Return(s) /\ UNCHANGED <<job, disturbed, left>>

\* What a signal makes of the process d.
After(d, sig) ==
  IF process[d] = "other" \/ sig = "KILL" THEN "free"
  ELSE IF process[d] = "run" THEN (IF sig = "HUP" THEN "releasing" ELSE "ending")
  ELSE process[d]

Kill(d, sig) ==
  /\ process' = [process EXCEPT ![d] = After(d, sig)]
  /\ hit' = (hit \/ process[d] = "other")

Begin(s, j) ==
  /\ At(s, "idle") /\ Use("jobs")
  /\ job' = [job EXCEPT ![s] = j]
  /\ Goto(s, CASE j = "up" -> "hasIP" [] j = "stop" -> "signal" [] OTHER -> "glob")
  /\ disturbed' = (disturbed \/ \E t \in Scripts : ~At(t, "idle"))
  /\ UNCHANGED <<owner, try, pidFile, process, ifVars, hit>>

-----------------------------------------------------------------------------
(* ifUp                                                                      *)

HasIP(s) ==
  /\ At(s, "hasIP")
  /\ IF addr /\ up THEN Ends(s) ELSE Only(s, "globUp")
  /\ UNCHANGED <<pidFile, process, ifVars, hit>>

GlobUp(s) ==
  /\ At(s, "globUp") /\ Only(s, IF pidFile = None THEN "prep" ELSE "headUp")
  /\ UNCHANGED <<pidFile, process, ifVars, hit>>

\* Mutant of HeadUp: a pid file is stale, whoever its owner is.
HeadUpAny(s) ==
  /\ At(s, "headUp") /\ Only(s, "rmStale")
  /\ UNCHANGED <<pidFile, process, ifVars, hit>>

\* With a daemon alive there is nothing to do.
HeadUp(s) ==
  /\ At(s, "headUp")
  /\ IF pidFile # None /\ Alive(pidFile) THEN Ends(s) ELSE Only(s, "rmStale")
  /\ UNCHANGED <<pidFile, process, ifVars, hit>>

RmStale(s) ==
  /\ At(s, "rmStale") /\ Only(s, "prep") /\ pidFile' = None
  /\ UNCHANGED <<process, ifVars, hit>>

\* isDown && ifconfig up 0, which takes an address away.
Prep(s) ==
  /\ At(s, "prep") /\ Only(s, "plugged")
  /\ up' = TRUE /\ addr' = (up /\ addr)
  /\ UNCHANGED <<pidFile, process, carrier, hit>>

\* pluggedIn, and ipUp without an address in either case.
Plugged(s) ==
  /\ At(s, "plugged")
  /\ IF carrier THEN Only(s, "client") ELSE Ends(s)
  /\ addr' = FALSE /\ up' = TRUE
  /\ UNCHANGED <<pidFile, process, carrier, hit>>

\* preppedIfUp: a client that is there all the same gets a TERM, unawaited.
OldClient(s) ==
  /\ At(s, "client") /\ Only(s, "start")
  /\ IF pidFile # None THEN Kill(pidFile, "TERM") ELSE UNCHANGED <<process, hit>>
  /\ UNCHANGED <<pidFile, ifVars>>

Reusable(d) == process[d] = "free" /\ \A s \in Scripts : owner[s] # d

\* udhcpc writes its pid file, and the script waits for it, ...
StartClient(s) ==
  /\ At(s, "start") /\ Goto(s, "lease")
  /\ \E d \in Pids : /\ Reusable(d) /\ owner' = [owner EXCEPT ![s] = d]
                     /\ process' = [process EXCEPT ![d] = "run"] /\ pidFile' = d
  /\ UNCHANGED <<job, try, ifVars, disturbed, hit, left>>

\* ... until it goes to the background, with a new pid, ...
Background(s) ==
  /\ At(s, "lease") /\ process[owner[s]] = "run" /\ Ends(s)
  /\ \E d \in Pids : /\ Reusable(d) /\ pidFile' = d
                     /\ process' = [process EXCEPT ![owner[s]] = "free", ![d] = "run"]
  /\ UNCHANGED <<ifVars, hit>>

\* ... or ends without a lease, or was ended by somebody: return 5.
NoLease(s) ==
  /\ At(s, "lease") /\ Ends(s)
  /\ \/ /\ process[owner[s]] = "run" /\ pidFile' = None
        /\ process' = [process EXCEPT ![owner[s]] = "free"]
     \/ ~Alive(owner[s]) /\ UNCHANGED <<pidFile, process>>
  /\ UNCHANGED <<ifVars, hit>>

-----------------------------------------------------------------------------
(* ifDown                                                                    *)

Glob(s) ==
  /\ At(s, "glob")
  /\ \/ pidFile = None /\ ~up /\ Ends(s)
     \/ pidFile = None /\ up /\ Only(s, "ifconfig")
     \/ pidFile # None /\ Only(s, "head")
  /\ UNCHANGED <<pidFile, process, ifVars, hit>>

Head(s) ==
  /\ At(s, "head") /\ Goto(s, IF pidFile = None THEN "ifconfig" ELSE "kill")
  /\ owner' = [owner EXCEPT ![s] = pidFile]
  /\ UNCHANGED <<job, try, pidFile, process, ifVars, disturbed, hit, left>>

\* kill -HUP, in each pass of the loop.
KillHup(s) ==
  /\ At(s, "kill") /\ Only(s, "wait") /\ Kill(owner[s], "HUP")
  /\ UNCHANGED <<pidFile, ifVars>>

WaitGone(s) ==
  /\ At(s, "wait") /\ ~Alive(owner[s]) /\ Only(s, "rm")
  /\ UNCHANGED <<pidFile, process, ifVars, hit>>

\* Mutant of WaitTimeout: no end of passes.
WaitTimeoutMore(s) ==
  /\ At(s, "wait") /\ Alive(owner[s])
  /\ Goto(s, "kill") /\ try' = [try EXCEPT ![s] = @ + 1]
  /\ UNCHANGED <<job, owner, pidFile, process, ifVars, disturbed, hit, left>>

\* Mutant of WaitTimeout: the first pass is repeated.
WaitTimeoutSame(s) ==
  /\ At(s, "wait") /\ Alive(owner[s]) /\ Only(s, "kill")
  /\ UNCHANGED <<pidFile, process, ifVars, hit>>

\* Mutant of WaitTimeout: a daemon that does not end is left alone.
WaitTimeoutLeave(s) ==
  /\ At(s, "wait") /\ Alive(owner[s]) /\ Only(s, "ifconfig")
  /\ UNCHANGED <<pidFile, process, ifVars, hit>>

\* Eight seconds were not enough: once more, then by force.
WaitTimeout(s) ==
  /\ At(s, "wait") /\ Alive(owner[s])
  /\ Goto(s, IF try[s] = 1 THEN "kill" ELSE "force") /\ try' = [try EXCEPT ![s] = 2]
  /\ UNCHANGED <<job, owner, pidFile, process, ifVars, disturbed, hit, left>>

\* Mutant of ForceKill: the pid file stays.
ForceOnly(s) ==
  /\ At(s, "force") /\ Only(s, "ifconfig") /\ Kill(owner[s], "KILL")
  /\ UNCHANGED <<pidFile, ifVars>>

ForceKill(s) ==
  /\ At(s, "force") /\ Only(s, "rm") /\ Kill(owner[s], "KILL")
  /\ UNCHANGED <<pidFile, ifVars>>

Rm(s) ==
  /\ At(s, "rm") /\ Only(s, "ifconfig") /\ pidFile' = None
  /\ UNCHANGED <<process, ifVars, hit>>

\* ifconfig down, or 0 for netplug, which leaves the interface UP.
Ifconfig(s) ==
  /\ At(s, "ifconfig") /\ Ends(s)
  /\ addr' = FALSE /\ up' = (job[s] = "out")
  /\ UNCHANGED <<pidFile, process, carrier, hit>>

\* signalDHCPclient HUP
SignalDHCPclient(s) ==
  /\ At(s, "signal") /\ Ends(s)
  /\ IF pidFile # None THEN Kill(pidFile, "HUP") ELSE UNCHANGED <<process, hit>>
  /\ UNCHANGED <<pidFile, ifVars>>

Step(s) ==
  \/ HasIP(s) \/ GlobUp(s) \/ HeadUp(s) \/ RmStale(s) \/ Prep(s) \/ Plugged(s)
  \/ OldClient(s) \/ StartClient(s) \/ Background(s) \/ NoLease(s) \/ Glob(s) \/ Head(s)
  \/ KillHup(s) \/ WaitGone(s) \/ WaitTimeout(s) \/ ForceKill(s) \/ Rm(s) \/ Ifconfig(s) \/ SignalDHCPclient(s)

-----------------------------------------------------------------------------
(* The clients, and the world.                                               *)

\* A lease: default.script bound.
Bind(d) ==
  /\ process[d] = "run" /\ carrier /\ up /\ ~addr /\ addr' = TRUE
  /\ UNCHANGED <<scriptVars, pidFile, process, up, carrier, disturbed, hit, left>>

\* A client that ends removes the pid file, whoever wrote it last; after HUP
\* its script has taken the address away.
ClientEnds(d) ==
  /\ process[d] \in {"releasing", "ending"}
  /\ addr' = (addr /\ process[d] = "ending") /\ pidFile' = None
  /\ process' = [process EXCEPT ![d] = "free"]
  /\ UNCHANGED <<scriptVars, up, carrier, disturbed, hit, left>>

\* A client crashes or stops answering; another process gets the pid that the
\* file names, the only case that matters.
Become(d, from, to, bound) ==
  /\ process[d] = from /\ Use(bound) /\ process' = [process EXCEPT ![d] = to]
  /\ UNCHANGED <<scriptVars, pidFile, ifVars, disturbed, hit>>

Crash(d) == Become(d, "run", "free", "crashes")
Hang(d) == Become(d, "run", "deaf", "hangs")
Bystander(d) == pidFile = d /\ Reusable(d) /\ Become(d, "free", "other", "others")

Cable ==
  /\ Use("flips") /\ carrier' = ~carrier
  /\ UNCHANGED <<scriptVars, pidFile, process, addr, up, disturbed, hit>>

Next ==
  \/ \E s \in Scripts : Step(s) \/ \E j \in Jobs : Begin(s, j)
  \/ \E d \in Pids : Bind(d) \/ ClientEnds(d) \/ Crash(d) \/ Hang(d) \/ Bystander(d)
  \/ Cable

(* The kernel runs every script that has begun; udhcpc gets a lease or gives *)
(* up, and ends when it has taken a signal.                                  *)
Fairness ==
  /\ \A s \in Scripts : WF_vars(Step(s))
  /\ \A d \in Pids : WF_vars(ClientEnds(d))

Spec == Init /\ [][Next]_vars /\ Fairness

-----------------------------------------------------------------------------
(* Properties.                                                               *)

(* As long as scripts take turns, the pid file names every client there is:  *)
(* so there is at most one, and ifDown will find it, whatever crashed, hung  *)
(* or was stopped before (netutils.sh 456-486, 508-521, 543-548).            *)
Tracked == ~disturbed => \A d \in Clients : pidFile = d

(* A script that takes the interface down in its turn leaves no client       *)
(* behind, not even one that is deaf (netutils.sh 472-486).                  *)
DownStops ==
  [][\A s \in Scripts :
       job[s] \in {"down", "out"} /\ pc[s] # "idle" /\ pc'[s] = "idle" /\ ~disturbed
         => Clients' = {}]_vars

(* However the scripts overlap, no other process is signalled for a client   *)
(* unless a client crashed and left its pid file (netutils.sh 466-486, 545). *)
BystanderSpared == left.crashes = MaxCrashes => ~hit

(* ifDown waits for a client that does not end, but not for ever, and ifUp   *)
(* only for the one it starts: it ends unless that hangs before it has a     *)
(* lease and nobody kills it (netutils.sh 472-484, 553-556).                 *)
ScriptsEnd ==
  \A s \in Scripts :
    pc[s] # "idle" ~> pc[s] = "idle" \/ (pc[s] = "lease" /\ process[owner[s]] = "deaf")

=============================================================================
