------------------------------- MODULE Tunnel -------------------------------
(* The tunnel to shore, usr/sbin/tunnel2shore: a script that init respawns,  *)
(* that other scripts signal through its pid file when the gateway changes,  *)
(* and of which a second instance takes over from the first.                 *)
(* A step is one command of the script.  A signal that the script traps is   *)
(* handled when the command that runs has ended; only ssh runs for an        *)
(* unlimited time, and a sleep is part of the command that follows it.  exec *)
(* keeps the pid and resets the traps, so until they are set again a signal  *)
(* ends the script without its clean-up.  A trap is one step.  A pid is used *)
(* again once nobody remembers it.  Meanwhile other scripts rebuild          *)
(* /etc/hosts (hostsUp of netutils.sh), one at a time.                       *)
EXTENDS Naturals

CONSTANTS Pids,        \* process identifiers
          Gates,       \* interfaces that can be the gateway
          None,        \* no pid, no gateway
          Signals,     \* the signals that users send
          MaxSignals,  \* bound on those
          MaxGates,    \* bound on changes of the gateway
          MaxStarts,   \* bound on instances that a user starts beside init's
          MaxFailures  \* bound on tunnels that fail although there is a gateway

ASSUME TunnelAssumption ==
  /\ None \notin Pids \cup Gates /\ {"missing", "empty"} \cap Pids = {}
  /\ Signals \subseteq {"HUP", "USR1", "TERM"}
  /\ MaxSignals \in Nat /\ MaxGates \in Nat /\ MaxStarts \in Nat /\ MaxFailures \in Nat

VARIABLES pc,       \* the command each instance is at
          old,      \* its variable oldPID
          tries,    \* its calls of openTunnel so far
          pending,  \* signals its shell caught and has not handled
          pidFile,  \* $pidFn: "missing", "empty" or a pid
          hosts,    \* does $tunHostsFn exist?
          etcHosts, \* are shore and mail in /etc/hosts, or how far is a hostsUp?
          port25,   \* the instance whose ssh listens on port 25
          via,      \* the gateway that ssh was opened through
          init,     \* the instance that init started last
          gate,     \* the gateway, what topIf prints
          reader,   \* what a run of gateUpdated read from the pid file
          left      \* what is left of the bounds

hostsVars == <<hosts, etcHosts>>
scriptVars == <<old, tries, pending, pidFile, hostsVars, port25, via>>
worldVars == <<init, gate, reader, left>>
vars == <<pc, scriptVars, worldVars>>

\* dead: no process; boot: before the traps are set; up: ssh is running.
PCs == {"dead", "boot", "check", "cat", "kill", "claim", "claimEmpty",
        "claimNew", "fuser", "topIf", "grep", "ssh", "up", "end"}

\* A hostsUp has truncated /etc/hosts, and has then listed the fragments.
Merging == {"open", "listed", "unlisted"}

TypeOK ==
  /\ pc \in [Pids -> PCs] /\ old \in [Pids -> Pids \cup {None, "empty"}]
  /\ tries \in [Pids -> 0..2] /\ pending \in [Pids -> SUBSET {"HUP", "USR1", "TERM"}]
  /\ pidFile \in Pids \cup {"missing", "empty"} /\ hosts \in BOOLEAN
  /\ etcHosts \in {"without", "with", "lost"} \cup Merging
  /\ port25 \in Pids \cup {None} /\ via \in Gates \cup {None}
  /\ init \in Pids \cup {None} /\ gate \in Gates \cup {None} /\ reader \in Pids \cup {None}
  /\ left \in [signals : 0..MaxSignals, gates : 0..MaxGates, starts : 0..MaxStarts,
               failures : 0..MaxFailures]

\* Pids are interchangeable, and so are gateways: one of them stands for all.
Any(S) == CHOOSE x \in S : TRUE

Alive(p) == p \in Pids /\ pc[p] # "dead"

Init ==
  /\ pc = [p \in Pids |-> "dead"] /\ old = [p \in Pids |-> None]
  /\ tries = [p \in Pids |-> 0] /\ pending = [p \in Pids |-> {}]
  /\ pidFile = "missing" /\ hosts = FALSE /\ etcHosts = "without"
  /\ port25 = None /\ via = None
  /\ init = None /\ gate \in Gates \cup {None} /\ gate \in {None, Any(Gates)}
  /\ reader = None
  /\ left = [signals |-> MaxSignals, gates |-> MaxGates, starts |-> MaxStarts,
             failures |-> MaxFailures]

-----------------------------------------------------------------------------
(* The script's commands.  None begins while a caught signal waits.          *)

At(p, l) == pc[p] = l /\ pending[p] = {}
Goto(p, l) == pc' = [pc EXCEPT ![p] = l]

\* Until the traps are set.
SetTraps(p) ==
  /\ At(p, "boot") /\ Goto(p, "check")
  /\ UNCHANGED <<scriptVars, worldVars>>

\* [ -s $pidFn ] and [ -e $pidFn ].
Check(p) ==
  /\ At(p, "check")
  /\ \/ pidFile \in Pids /\ Goto(p, "cat")
     \/ pidFile = "empty" /\ Goto(p, "claimEmpty")
     \/ pidFile = "missing" /\ Goto(p, "claimNew")
  /\ UNCHANGED <<scriptVars, worldVars>>

\* oldPID: a file that went meanwhile ends the &&, and so does one's own pid.
Cat(p) ==
  /\ At(p, "cat")
  /\ \/ pidFile \in {"missing", p} /\ Goto(p, "fuser") /\ UNCHANGED old
     \/ pidFile \notin {"missing", p} /\ Goto(p, "kill") /\ old' = [old EXCEPT ![p] = pidFile]
  /\ UNCHANGED <<tries, pending, pidFile, hostsVars, port25, via, worldVars>>

\* What sig does to a live q: before its traps are set, it ends q.
PcAfter(q, sig) == IF pc[q] = "boot" THEN [pc EXCEPT ![q] = "dead"] ELSE pc
PendingAfter(q, sig) ==
  IF pc[q] = "boot" THEN pending ELSE [pending EXCEPT ![q] = @ \cup {sig}]

\* kill $oldPID.  The wait for its end may be given up, or not begin.
KillOld(p) ==
  /\ At(p, "kill")
  /\ \/ /\ Alive(old[p])
        /\ pending' = PendingAfter(old[p], "TERM")
        /\ pc' = [PcAfter(old[p], "TERM") EXCEPT ![p] = "claim"]
     \/ /\ ~Alive(old[p])
        /\ Goto(p, "claim") /\ UNCHANGED pending
  /\ UNCHANGED <<old, tries, pidFile, hostsVars, port25, via, worldVars>>

\* Mutant of Claim: the pid of an instance that was terminated stays.
ClaimOnly(p) ==
  /\ \/ At(p, "claim") /\ Goto(p, "fuser") /\ UNCHANGED pidFile
     \/ At(p, "claimEmpty") /\ Goto(p, "topIf") /\ pidFile' = p
     \/ At(p, "claimNew") /\ Goto(p, "topIf") /\ pidFile' = p
  /\ old' = [old EXCEPT ![p] = None]
  /\ UNCHANGED <<tries, pending, hostsVars, port25, via, worldVars>>

\* echo $$ >$pidFn, in each of the three cases; oldPID is not used any more.
Claim(p) ==
  /\ \/ At(p, "claim") /\ Goto(p, "fuser")
     \/ At(p, "claimEmpty") /\ Goto(p, "topIf")
     \/ At(p, "claimNew") /\ Goto(p, "topIf")
  /\ pidFile' = p /\ old' = [old EXCEPT ![p] = None]
  /\ UNCHANGED <<tries, pending, hostsVars, port25, via, worldVars>>

\* fuser kills the ssh that has port 25; the script that waits for it goes on.
Fuser(p) ==
  /\ At(p, "fuser")
  /\ port25' = None /\ via' = None
  /\ pc' = [q \in Pids |-> IF q = p THEN "topIf" ELSE IF q = port25 THEN "ssh" ELSE pc[q]]
  /\ UNCHANGED <<old, tries, pending, pidFile, hostsVars, worldVars>>

\* What this script writes to /etc/hosts is written over by a hostsUp under way.
Names(v) == etcHosts' = IF etcHosts \in Merging THEN etcHosts ELSE v

\* Mutant of TunHosts: /etc/hosts before the fragment.
TunHostsFirst(p) ==
  /\ \/ /\ At(p, "topIf") /\ gate # None /\ Goto(p, "grep")
        /\ Names("with") /\ UNCHANGED hosts
     \/ /\ At(p, "topIf") /\ gate = None /\ Goto(p, "end")
        /\ UNCHANGED hostsVars
     \/ /\ At(p, "grep") /\ Goto(p, "ssh")
        /\ hosts' = TRUE /\ UNCHANGED etcHosts
  /\ UNCHANGED <<old, tries, pending, pidFile, port25, via, worldVars>>

\* Shore and mail become names of this host: in the fragment from which every
\* hostsUp takes them, and then in /etc/hosts unless they are there.
TunHosts(p) ==
  /\ \/ /\ At(p, "topIf") /\ gate # None /\ Goto(p, "grep")
        /\ hosts' = TRUE /\ UNCHANGED etcHosts
     \/ /\ At(p, "topIf") /\ gate = None /\ Goto(p, "end")
        /\ UNCHANGED hostsVars
     \/ /\ At(p, "grep") /\ Goto(p, "ssh")
        /\ Names("with") /\ UNCHANGED hosts
  /\ UNCHANGED <<old, tries, pending, pidFile, port25, via, worldVars>>

\* openTunnel: ssh starts if it can have the port and there is a gateway, ...
OpenTunnel(p) ==
  /\ At(p, "ssh") /\ tries[p] < 2 /\ port25 = None /\ gate # None
  /\ tries' = [tries EXCEPT ![p] = @ + 1]
  /\ port25' = p /\ via' = gate
  /\ Goto(p, "up")
  /\ UNCHANGED <<old, pending, pidFile, hostsVars, worldVars>>

\* Mutant of OpenFails: openTunnel is called until it succeeds.
OpenFailsAgain(p) ==
  /\ At(p, "ssh")
  /\ \/ (port25 # None \/ gate = None) /\ UNCHANGED left
     \/ left.failures > 0 /\ left' = [left EXCEPT !.failures = @ - 1]
  /\ tries' = [tries EXCEPT ![p] = @ + 1]
  /\ UNCHANGED <<pc, old, pending, pidFile, hostsVars, port25, via, init, gate, reader>>

\* ... or fails.  It is called for the port of last time, and if that failed
\* once more for the port that shore assigns, if shore answers.
OpenFails(p) ==
  /\ At(p, "ssh") /\ tries[p] < 2
  /\ \/ (port25 # None \/ gate = None) /\ UNCHANGED left
     \/ left.failures > 0 /\ left' = [left EXCEPT !.failures = @ - 1]
  /\ tries' = [tries EXCEPT ![p] = @ + 1]
  /\ UNCHANGED <<pc, old, pending, pidFile, hostsVars, port25, via, init, gate, reader>>

\* The tunnel collapses when its gateway is no longer the gateway, and also
\* without cause.  An ssh that ends well is not started again.
SshEnds(p) ==
  /\ pc[p] = "up"
  /\ \/ via # gate /\ UNCHANGED left
     \/ left.failures > 0 /\ left' = [left EXCEPT !.failures = @ - 1]
  /\ port25' = None /\ via' = None
  /\ \E l \in {"ssh", "end"} : Goto(p, l)
  /\ UNCHANGED <<old, tries, pending, pidFile, hostsVars, init, gate, reader>>

\* A process ends; its shell variables go with it.
Gone(p) ==
  /\ Goto(p, "dead") /\ pending' = [pending EXCEPT ![p] = {}]
  /\ tries' = [tries EXCEPT ![p] = 0] /\ old' = [old EXCEPT ![p] = None]

\* The EXIT trap: without the fragment, its hostsUp takes the names away.
Leave(p) ==
  /\ Gone(p) /\ hosts' = FALSE /\ Names("without") /\ pidFile' = "missing"
  /\ UNCHANGED <<port25, via, worldVars>>

\* Mutant of EndOfScript: a tunnel that cannot be built is not given up.
EndOfScriptLater(p) == At(p, "end") /\ Leave(p)

\* The last line, also after two calls of openTunnel that failed.
EndOfScript(p) ==
  /\ At(p, "end") \/ (At(p, "ssh") /\ tries[p] = 2)
  /\ Leave(p)

\* exec $0 with the same pid; other signals the shell had caught are forgotten.
\* The fragment goes, but /etc/hosts is not rebuilt.
Exec(p) ==
  /\ Goto(p, "boot") /\ pending' = [pending EXCEPT ![p] = {}]
  /\ tries' = [tries EXCEPT ![p] = 0] /\ old' = [old EXCEPT ![p] = None]
  /\ hosts' = FALSE
  /\ UNCHANGED <<etcHosts, port25, via, worldVars>>

\* The traps of HUP, USR1 and TERM.  ssh was no background job and has ended,
\* so that killJobs and wait find nothing.
Handle(p) ==
  /\ Alive(p) /\ pc[p] # "up"
  /\ \/ "HUP" \in pending[p] /\ Exec(p) /\ UNCHANGED pidFile
     \/ "USR1" \in pending[p] /\ Exec(p) /\ pidFile' = "empty"
     \/ "TERM" \in pending[p] /\ Leave(p)

-----------------------------------------------------------------------------
(* The world around the script.                                              *)

Free == {p \in Pids : /\ pc[p] = "dead" /\ p \notin {pidFile, reader}
                      /\ \A q \in Pids : old[q] # p}
Start(p, S) ==
  /\ p \in S /\ p = Any(S)
  /\ Goto(p, "boot")
  /\ UNCHANGED <<scriptVars, gate, reader>>

\* init starts the script, and again whenever the one it started has ended.
Respawn(p) ==
  /\ ~Alive(init) /\ Start(p, Free) /\ init' = p
  /\ UNCHANGED left

\* A user starts the script too.
StartByHand(p) ==
  /\ left.starts > 0 /\ Start(p, Free \ {init})
  /\ left' = [left EXCEPT !.starts = @ - 1]
  /\ UNCHANGED init

\* gateUpdated finds the gateway changed and reads the pid file, ...
GateUpdated ==
  /\ left.gates > 0 /\ reader = None
  /\ left' = [left EXCEPT !.gates = @ - 1]
  /\ gate' \in (Gates \cup {None}) \ {gate}
  /\ reader' = IF gate' # None /\ pidFile \in Pids THEN pidFile ELSE None
  /\ UNCHANGED <<pc, scriptVars, init>>

\* ... and then signals the process it names.
KillHup ==
  /\ reader # None /\ reader' = None
  /\ IF Alive(reader)
     THEN pc' = PcAfter(reader, "HUP") /\ pending' = PendingAfter(reader, "HUP")
     ELSE UNCHANGED <<pc, pending>>
  /\ UNCHANGED <<old, tries, pidFile, hostsVars, port25, via, init, gate, left>>

\* A user signals the process that the pid file names.
Signal(sig) ==
  /\ left.signals > 0 /\ Alive(pidFile)
  /\ pc' = PcAfter(pidFile, sig) /\ pending' = PendingAfter(pidFile, sig)
  /\ left' = [left EXCEPT !.signals = @ - 1]
  /\ UNCHANGED <<old, tries, pidFile, hostsVars, port25, via, init, gate, reader>>

\* hostsUp, run by ifup, ifdown, udhcpc or pppd's scripts: /etc/hosts is
\* truncated, the fragments are listed, ...
HostsOpen ==
  /\ \/ etcHosts \notin Merging /\ etcHosts' = "open"
     \/ etcHosts = "open" /\ etcHosts' = (IF hosts THEN "listed" ELSE "unlisted")
  /\ UNCHANGED <<pc, old, tries, pending, pidFile, hosts, port25, via, worldVars>>

\* ... and copied from where hostsUp has written to: over what tunnel2shore
\* appended meanwhile.
HostsWrite ==
  /\ etcHosts \in {"listed", "unlisted"}
  /\ etcHosts' = IF ~hosts THEN "without" ELSE IF etcHosts = "listed" THEN "with" ELSE "lost"
  /\ UNCHANGED <<pc, old, tries, pending, pidFile, hosts, port25, via, worldVars>>

Step(p) ==
  \/ SetTraps(p) \/ Check(p) \/ Cat(p) \/ KillOld(p) \/ Claim(p)
  \/ Fuser(p) \/ TunHosts(p) \/ OpenTunnel(p) \/ OpenFails(p)
  \/ EndOfScript(p) \/ Handle(p)

Next ==
  \/ \E p \in Pids : Step(p) \/ SshEnds(p) \/ Respawn(p) \/ StartByHand(p)
  \/ GateUpdated \/ KillHup \/ HostsOpen \/ HostsWrite \/ \E sig \in Signals : Signal(sig)

(* Every instance runs, init respawns, and an ssh whose gateway went notices *)
(* it from its keepalives.                                                   *)
Fairness ==
  /\ \A p \in Pids : WF_vars(Step(p)) /\ WF_vars(SshEnds(p) /\ via # gate)
  /\ WF_vars(\E p \in Pids : Respawn(p))

Spec == Init /\ [][Next]_vars /\ Fairness

-----------------------------------------------------------------------------
(* Properties.                                                               *)

(* gateUpdated finds the tunnel through its pid file: as long as init's is   *)
(* the only instance, the file names the one whose ssh is up, whichever      *)
(* signals and failures came before (tunnel2shore 50-69, traps 43-48).       *)
PidOfTunnel ==
  left.starts = MaxStarts => \A p \in Pids : pc[p] = "up" => pidFile = p

(* shore and mail resolve to this host from before ssh is opened until it    *)
(* has ended, however often other scripts rebuild /etc/hosts meanwhile: the  *)
(* fragment is written first, so that every hostsUp that lists the fragments *)
(* later keeps the names.  Excepted are the time in which a hostsUp has the  *)
(* file truncated, and one that listed the fragments before the script wrote *)
(* its own and so writes over the appended line ("lost").  As long as init's *)
(* is the only instance (tunnel2shore 78-83, netutils.sh 243-251).           *)
ShoreResolves ==
  left.starts = MaxStarts =>
    \A p \in Pids : pc[p] \in {"ssh", "up"} => etcHosts # "without"

(* Whatever signals, failures and second instances there are: once the       *)
(* gateway stays, so does a tunnel through it (tunnel2shore as a whole).     *)
TunnelComesBack ==
  <>[](gate = None) \/ <>[](via = gate /\ \E p \in Pids : port25 = p /\ pc[p] = "up")

=============================================================================
