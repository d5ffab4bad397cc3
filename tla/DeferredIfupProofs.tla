------------------------- MODULE DeferredIfupProofs -------------------------
(***************************************************************************)
(* Proofs about DeferredIfup, for any number of interfaces.                *)
(***************************************************************************)
EXTENDS DeferredIfup, TLAPS

\* The lock is held where the scripts believe they hold it.
LockOwner ==
  /\ \A e \in Events : lock = e <=> pc[e] \in {"recheck", "append"}
  /\ lock = "catchup" <=> cpc \in {"read", "rm", "release"}

\* Before catchup removes the file it is there, and after it is not; the names
\* catchup read are all of the file's names when it removes them.
FileState ==
  /\ ~exists => pending = {}
  /\ cpc \in {"unborn", "check", "open", "flock", "read", "rm"} => exists
  /\ \A e \in Events : pc[e] = "append" => exists
  /\ cpc \in {"release", "loop", "netplug", "done"} => ~exists
  /\ cpc = "rm" => names = pending
  /\ cpc \notin {"rm", "release", "loop"} => names = {}
  /\ cpc # "loop" => jobs = {}

\* A name is on its way only while its interface waits to be brought up.
Once ==
  \A e \in Events :
    /\ e \in pending \cup names \cup jobs => pc[e] = "deferred" /\ ups[e] = 0
    /\ e \in jobs => e \notin names
    /\ pc[e] \notin {"deferred", "done"} => ups[e] = 0
    /\ ups[e] \in {0, 1}

Inv == TypeOK /\ LockOwner /\ FileState /\ Once /\ NoNameLost

\* At boot the file is there and empty, and neither script runs.
LEMMA InvInit == Init => Inv
<1> SUFFICES ASSUME Init PROVE Inv
  OBVIOUS
<1>1. TypeOK
  BY DEF Init, TypeOK, Labels, CatchupLabels
<1>2. LockOwner
  BY DeferredAssumption DEF Init, LockOwner
<1>3. FileState /\ Once /\ NoNameLost
  BY DEF Init, FileState, Once, NoNameLost
<1> QED BY <1>1, <1>2, <1>3 DEF Inv

\* Every step of ifup and of catchup keeps the invariant.
LEMMA InvStep == Inv /\ [Next]_vars => Inv'
<1> SUFFICES ASSUME Inv, [Next]_vars
             PROVE  Inv'
  OBVIOUS
<1> USE DeferredAssumption DEF Inv, TypeOK, LockOwner, FileState, Once,
      NoNameLost, Labels, CatchupLabels, Goto, fileVars, catchupVars
<1>1. CASE UNCHANGED vars
  BY <1>1 DEF vars
<1>2. ASSUME NEW e \in Events, Arrive(e) \/ Check(e) \/ Open(e)
      PROVE  Inv'
  BY <1>2 DEF Arrive, Check, Open
<1>3. ASSUME NEW e \in Events, Flock(e)
      PROVE  Inv'
  BY <1>3 DEF Flock
<1>4. ASSUME NEW e \in Events, Recheck(e)
      PROVE  Inv'
  BY <1>4 DEF Recheck
<1>5. ASSUME NEW e \in Events, Append(e)
      PROVE  Inv'
  BY <1>5 DEF Append
<1>6. ASSUME NEW e \in Events, BringUp(e)
      PROVE  Inv'
  BY <1>6 DEF BringUp
<1>7. CASE CheckCatchup
  BY <1>7 DEF CheckCatchup
<1>8. CASE FlockCatchup \/ FlockTimeout
  BY <1>8 DEF FlockCatchup, FlockTimeout
<1>9. CASE ReadNames
  BY <1>9 DEF ReadNames
<1>r. CASE ReadFails
  BY <1>r DEF ReadFails
<1>10. CASE RemoveFile
  BY <1>10 DEF RemoveFile
<1>11. CASE Release
  BY <1>11 DEF Release
<1>12. CASE Spawn
  BY <1>12 DEF Spawn
<1>13. CASE JobUp
  BY <1>13 DEF JobUp
<1>14. CASE Wait
  BY <1>14 DEF Wait
<1>15. CASE StartNetplug
  BY <1>15 DEF StartNetplug
<1> QED
  BY <1>1, <1>2, <1>3, <1>4, <1>5, <1>6, <1>7, <1>8, <1>9, <1>r, <1>10, <1>11, <1>12,
     <1>13, <1>14, <1>15 DEF Next, IfupStep, CatchupStep, Terminated

\* The invariant holds in every state that the scripts reach.
LEMMA Invariance == Spec => []Inv
BY InvInit, InvStep, PTL DEF Spec

\* Deferring loses no interface, for any number of them: the lock and the order
\* of catchup's read, rm and release are enough.
THEOREM NoNameLostHolds == Spec => []NoNameLost
<1>1. Inv => NoNameLost
  BY DEF Inv
<1> QED BY <1>1, Invariance, PTL

\* No interface is brought up both by its own ifup and by catchup, or twice.
THEOREM UpOnceHolds == Spec => []UpOnce
<1>1. Inv => UpOnce
  BY DEF Inv, Once, UpOnce
<1> QED BY <1>1, Invariance, PTL

\* The pending file is only ever changed under its lock, and once catchup has
\* removed it no ifup creates it again.
THEOREM FileChangesLockedHolds == Spec => FileChangesLocked
<1> DEFINE Locked == /\ pending' # pending => lock # NoOne
                     /\ exists' # exists => exists /\ lock = "catchup"
<1>1. Inv /\ [Next]_vars => [Locked]_vars
  <2> SUFFICES ASSUME Inv, [Next]_vars
               PROVE  [Locked]_vars
    OBVIOUS
  <2>1. CASE UNCHANGED <<exists, pending>>
    BY <2>1
  <2>2. ASSUME NEW e \in Events, Append(e)
        PROVE  Locked
    BY <2>2, DeferredAssumption DEF Inv, LockOwner, FileState, Append
  <2>3. CASE RemoveFile
    BY <2>3, DeferredAssumption DEF Inv, LockOwner, FileState, RemoveFile
  <2> QED
    BY <2>1, <2>2, <2>3 DEF Next, IfupStep, CatchupStep, Terminated, vars,
       fileVars, Arrive, Check, Open, Flock, Recheck, BringUp, CheckCatchup,
       FlockCatchup, FlockTimeout, ReadNames, ReadFails, Release, Spawn, JobUp,
       Wait, StartNetplug
<1>2. Spec => [][Locked]_vars
  BY <1>1, Invariance, PTL DEF Spec
<1> QED BY <1>2 DEF FileChangesLocked

\* Types, for any number of interfaces.
THEOREM TypeCorrect == Spec => []TypeOK
<1>1. Inv => TypeOK
  BY DEF Inv
<1> QED BY <1>1, Invariance, PTL

\* primenet starts netplugd when every interface that was deferred is up,
\* unless catchup gave up: wait comes after the last job, and the names of the
\* file are all among the jobs by then.
THEOREM NetplugAfterCatchupHolds == Spec => NetplugAfterCatchup
<1> DEFINE After == netplug' # netplug /\ cpc # "gaveUp" =>
                      \A e \in Events \ (ByName \cup Unplugged \cup NoAuto) :
                        pc[e] = "deferred" => ups[e] = 1
<1>1. Inv /\ [Next]_vars => [After]_vars
  <2> SUFFICES ASSUME Inv, [Next]_vars
               PROVE  [After]_vars
    OBVIOUS
  <2>1. CASE UNCHANGED netplug
    BY <2>1
  <2>2. CASE StartNetplug
    BY <2>2 DEF Inv, FileState, NoNameLost, StartNetplug
  <2> QED
    BY <2>1, <2>2 DEF Next, IfupStep, CatchupStep, Terminated, vars,
       fileVars, catchupVars, Arrive, Check, Open, Flock, Recheck, Append, BringUp,
       CheckCatchup, FlockCatchup, FlockTimeout, ReadNames, ReadFails, RemoveFile, Release,
       Spawn, JobUp, Wait
<1>2. Spec => [][After]_vars
  BY <1>1, Invariance, PTL DEF Spec
<1> QED BY <1>2 DEF NetplugAfterCatchup

=============================================================================
