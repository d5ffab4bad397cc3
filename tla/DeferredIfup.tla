---------------------------- MODULE DeferredIfup ----------------------------
(***************************************************************************)
(* Bringing up interfaces found while the system boots: /lib/udev/ifup,    *)
(* run by udevd for every interface that appears, and /lib/udev/catchup,   *)
(* run by primenet when the boot scripts are through.                      *)
(*                                                                         *)
(* While /run/ifup.pending exists, ifup writes the interface's name to it  *)
(* instead of bringing the interface up; catchup takes the names, removes  *)
(* the file and brings the interfaces up.  Both hold an flock on the file  *)
(* for what they do with it.  The order of the names and the start delays  *)
(* are left out: the file is a set, and a sleep ends at some time.         *)
(***************************************************************************)
EXTENDS Naturals, FiniteSets

CONSTANTS Events,     \* "add" events; udevd runs one ifup process for each
          ByName,     \* those whose rule names the interface in an argument
          Unplugged,  \* those that catchup passes over: wired interfaces whose
                      \* cable is out, interfaces without a configuration
          NoAuto,     \* those whose configuration says NOAUTOSTART
          MayGiveUp,  \* FALSE: catchup always gets its lock in time and can read
          NoOne       \* holder of a free lock

ASSUME DeferredAssumption ==
  /\ ByName \subseteq Events
  /\ Unplugged \subseteq Events /\ NoAuto \subseteq Events
  /\ MayGiveUp \in BOOLEAN
  /\ NoOne \notin Events /\ NoOne # "catchup" /\ "catchup" \notin Events

VARIABLES exists,   \* /run/ifup.pending is there; init.d/udev touches it
          pending,  \* the names in it
          lock,     \* who holds the lock on it
          pc,       \* per event, where its ifup process is
          cpc,      \* where catchup is
          names,    \* catchup's list of names
          jobs,     \* its background jobs
          ups,      \* ifUp calls for the event's interface
          netplug   \* primenet has started netplugd

vars == <<exists, pending, lock, pc, cpc, names, jobs, ups, netplug>>

Labels == {"unborn", "check", "open", "flock", "recheck", "append", "up",
           "deferred", "done", "failed"}
CatchupLabels == {"unborn", "check", "open", "flock", "read", "rm", "release",
                  "loop", "gaveUp", "netplug", "done", "failed"}

TypeOK ==
  /\ exists \in BOOLEAN
  /\ pending \subseteq Events
  /\ lock \in Events \cup {"catchup", NoOne}
  /\ pc \in [Events -> Labels]
  /\ cpc \in CatchupLabels
  /\ names \subseteq Events
  /\ jobs \subseteq Events
  /\ ups \in [Events -> Nat]
  /\ netplug \in BOOLEAN

Init ==
  /\ exists = TRUE
  /\ pending = {}
  /\ lock = NoOne
  /\ pc = [e \in Events |-> "unborn"]
  /\ cpc = "unborn"
  /\ names = {}
  /\ jobs = {}
  /\ ups = [e \in Events |-> 0]
  /\ netplug = FALSE

-----------------------------------------------------------------------------
(* /lib/udev/ifup                                                          *)

Goto(e, label) == pc' = [pc EXCEPT ![e] = label]
catchupVars == <<cpc, names, jobs, netplug>>
fileVars == <<exists, pending, lock>>

Arrive(e) ==
  /\ pc[e] = "unborn"
  /\ Goto(e, "check")
  /\ UNCHANGED <<fileVars, catchupVars, ups>>

\* [ -r $lockFn ]
Check(e) ==
  /\ pc[e] = "check"
  /\ Goto(e, IF exists THEN "open" ELSE "up")
  /\ UNCHANGED <<fileVars, catchupVars, ups>>

\* exec 7<$lockFn ends the shell when the file has gone since the check.
Open(e) ==
  /\ pc[e] = "open"
  /\ Goto(e, IF exists THEN "flock" ELSE "failed")
  /\ UNCHANGED <<fileVars, catchupVars, ups>>

Flock(e) ==
  /\ pc[e] = "flock"
  /\ lock = NoOne
  /\ lock' = e
  /\ Goto(e, "recheck")
  /\ UNCHANGED <<exists, pending, catchupVars, ups>>

\* Mutant of Recheck: [ -e $lockFn ] is not tested again under the lock.
RecheckNot(e) ==
  /\ pc[e] = "recheck"
  /\ Goto(e, "append")
  /\ UNCHANGED <<fileVars, catchupVars, ups>>

\* [ -e $lockFn ], now with the lock; when the file is gone the lock is
\* released.
Recheck(e) ==
  /\ pc[e] = "recheck"
  /\ Goto(e, IF exists THEN "append" ELSE "up")
  /\ lock' = IF exists THEN lock ELSE NoOne
  /\ UNCHANGED <<exists, pending, catchupVars, ups>>

\* Mutant of Append: echo without exec, so the script goes on.
AppendOn(e) ==
  /\ pc[e] = "append"
  /\ pending' = IF e \in ByName THEN pending ELSE pending \cup {e}
  /\ exists' = TRUE
  /\ lock' = NoOne
  /\ Goto(e, "up")
  /\ UNCHANGED <<catchupVars, ups>>

\* exec echo: the process ends with the write, and the lock with the process.
\* The name is that of udev's INTERFACE, which a serial port does not have.
Append(e) ==
  /\ pc[e] = "append"
  /\ pending' = IF e \in ByName THEN pending ELSE pending \cup {e}
  /\ exists' = TRUE
  /\ lock' = NoOne
  /\ Goto(e, "deferred")
  /\ UNCHANGED <<catchupVars, ups>>

\* ifCfg, ifUpAuto: sleep, then ifUp.
BringUp(e) ==
  /\ pc[e] = "up"
  /\ ups' = IF e \in ByName \cup NoAuto THEN ups ELSE [ups EXCEPT ![e] = @ + 1]
  /\ Goto(e, "done")
  /\ UNCHANGED <<fileVars, catchupVars>>

IfupStep(e) == \/ Check(e) \/ Open(e) \/ Flock(e) \/ Recheck(e) \/ Append(e)
               \/ BringUp(e)

-----------------------------------------------------------------------------
(* /lib/udev/catchup and primenet                                          *)

CheckCatchup ==
  /\ cpc \in {"unborn", "check", "open"}
  /\ cpc' = CASE cpc = "unborn" -> "check"                   \* inittab, once
              [] cpc = "check" -> IF exists THEN "open" ELSE "netplug"
              [] cpc = "open" -> IF exists THEN "flock" ELSE "netplug"
  /\ UNCHANGED <<fileVars, pc, names, jobs, ups, netplug>>

FlockCatchup ==
  /\ cpc = "flock"
  /\ lock = NoOne
  /\ lock' = "catchup"
  /\ cpc' = "read"
  /\ UNCHANGED <<exists, pending, pc, names, jobs, ups, netplug>>

\* Mutant of FlockTimeout: catchup goes on without the lock.
FlockTimeoutOn ==
  /\ MayGiveUp
  /\ cpc = "flock"
  /\ lock # NoOne
  /\ cpc' = "read"
  /\ UNCHANGED <<fileVars, pc, names, jobs, ups, netplug>>

\* flock -w 60 gives up; so does catchup, and primenet takes no notice.
FlockTimeout ==
  /\ MayGiveUp
  /\ cpc = "flock"
  /\ lock # NoOne
  /\ cpc' = "gaveUp"
  /\ UNCHANGED <<fileVars, pc, names, jobs, ups, netplug>>

ReadNames ==
  /\ cpc = "read"
  /\ names' = pending
  /\ cpc' = "rm"
  /\ UNCHANGED <<fileVars, pc, jobs, ups, netplug>>

\* The read fails; the lock ends with catchup.
ReadFails ==
  /\ MayGiveUp
  /\ cpc = "read"
  /\ lock' = NoOne
  /\ cpc' = "gaveUp"
  /\ UNCHANGED <<exists, pending, pc, names, jobs, ups, netplug>>

RemoveFile ==
  /\ cpc = "rm"
  /\ exists' = FALSE
  /\ pending' = {}
  /\ cpc' = "release"
  /\ UNCHANGED <<lock, pc, names, jobs, ups, netplug>>

Release ==
  /\ cpc = "release"
  /\ lock' = NoOne
  /\ cpc' = "loop"
  /\ UNCHANGED <<exists, pending, pc, names, jobs, ups, netplug>>

\* Mutant of Spawn: the list of names is quoted, and so is one name.
SpawnQuoted ==
  /\ cpc = "loop"
  /\ names # {}
  /\ names' = {}
  /\ jobs' = jobs \cup {names}
  /\ UNCHANGED <<fileVars, pc, cpc, ups, netplug>>

\* ifCfg $iface && notUnplugged && ifUpAuto $delay &
Spawn ==
  /\ cpc = "loop"
  /\ \E e \in names :
       /\ names' = names \ {e}
       /\ jobs' = IF e \in Unplugged \cup NoAuto THEN jobs ELSE jobs \cup {e}
  /\ UNCHANGED <<fileVars, pc, cpc, ups, netplug>>

JobUp ==
  \E e \in jobs :
    /\ ups' = [ups EXCEPT ![e] = @ + 1]
    /\ jobs' = jobs \ {e}
    /\ UNCHANGED <<fileVars, pc, cpc, names, netplug>>

\* Mutant of Wait: catchup does not wait for its jobs.
WaitNot ==
  /\ cpc = "loop"
  /\ names = {}
  /\ cpc' = "netplug"
  /\ UNCHANGED <<fileVars, pc, names, jobs, ups, netplug>>

\* wait
Wait ==
  /\ cpc = "loop"
  /\ names = {} /\ jobs = {}
  /\ cpc' = "netplug"
  /\ UNCHANGED <<fileVars, pc, names, jobs, ups, netplug>>

StartNetplug ==
  /\ cpc \in {"netplug", "gaveUp"}
  /\ netplug' = TRUE
  /\ cpc' = IF cpc = "netplug" THEN "done" ELSE "failed"
  /\ UNCHANGED <<fileVars, pc, names, jobs, ups>>

CatchupStep ==
  \/ CheckCatchup \/ FlockCatchup \/ FlockTimeout \/ ReadNames \/ ReadFails
  \/ RemoveFile \/ Release \/ Spawn \/ JobUp \/ Wait \/ StartNetplug

-----------------------------------------------------------------------------
Finished == /\ cpc \in {"done", "failed"}
            /\ \A e \in Events : pc[e] \in {"deferred", "done", "failed"}
Terminated == Finished /\ UNCHANGED vars

Next == \/ \E e \in Events : Arrive(e) \/ IfupStep(e)
        \/ CatchupStep
        \/ Terminated

\* The kernel runs every process that can run, and init runs primenet.
Fairness == WF_vars(CatchupStep) /\ \A e \in Events : WF_vars(IfupStep(e))

Spec == Init /\ [][Next]_vars /\ Fairness

-----------------------------------------------------------------------------
(* Properties                                                              *)

\* A name that ifup wrote to the file is there, or catchup has it in hand, or
\* its interface was brought up: no interleaving of the two scripts loses it.
\* One of Unplugged is netplugd's business, and one of NoAuto its user's.
NoNameLost ==
  \A e \in Events \ (ByName \cup Unplugged \cup NoAuto) : pc[e] = "deferred" =>
    \/ exists /\ e \in pending
    \/ e \in names \cup jobs
    \/ ups[e] = 1

\* The file is changed by whoever holds its lock, and stays gone.
FileChangesLocked ==
  [][ /\ pending' # pending => lock # NoOne
      /\ exists' # exists => exists /\ lock = "catchup" ]_vars

\* Deferred or not, an interface is brought up once for its event.
UpOnce == \A e \in Events : ups[e] <= 1

\* Every event's interface is brought up, unless its process met the file's
\* removal between its check and its exec, catchup passes over it, it is not to
\* be started, or catchup could not lock or read the file.  An event of ByName
\* only has to end.
EventServed ==
  \A e \in Events : pc[e] = "check" ~>
    \/ ups[e] = 1 \/ (e \in ByName /\ pc[e] \in {"deferred", "done"})
    \/ pc[e] = "failed" \/ e \in Unplugged \cup NoAuto \/ cpc = "failed"

\* primenet: unless catchup gave up, netplugd starts when all interfaces that
\* were deferred are up.
NetplugAfterCatchup ==
  [][netplug' # netplug /\ cpc # "gaveUp" =>
       \A e \in Events \ (ByName \cup Unplugged \cup NoAuto) :
         pc[e] = "deferred" => ups[e] = 1]_vars
=============================================================================
