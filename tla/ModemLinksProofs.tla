-------------------------- MODULE ModemLinksProofs --------------------------
(***************************************************************************)
(* ModemLinks: a modem's names do not depend on the order of its events,   *)
(* and ifdown removes every name made before it unlinks KEY, for any       *)
(* number of ports.                                                        *)
(*                                                                         *)
(* The argument is about which file a script has open.  Until ifdown has   *)
(* unlinked KEY there is one file; from then on there may be a second one, *)
(* and whoever opened the first waits for ifdown, which keeps its lock     *)
(* until if-KEY is gone too.                                               *)
(***************************************************************************)
EXTENDS ModemLinks, TLAPS

Holding == {"locked", "read", "link", "name", "loop", "rmKey", "rmIf", "rmFn"}

\* pc's of ifdown once KEY has lost its name.
KeyRemoved == {"rmIf", "rmFn", "done"}

\* Each script has its own steps.
ScriptLabels ==
  /\ \A p \in Ports :
       pc[p] \in {"start", "flock", "locked", "read", "link", "done", "failed"}
  /\ pc["ifLink"] \in {"start", "open", "flock", "locked", "name", "loop",
                       "done", "failed"}
  /\ pc["ifdown"] \in {"start", "flock", "locked", "loop", "rmKey", "rmIf",
                       "rmFn", "done", "failed"}

\* The lock is held from flock to the end of the script.
LockHeld ==
  \A s \in Scripts :
    /\ pc[s] = "flock" => fd[s] \in Files
    /\ pc[s] \in Holding => fd[s] \in Files /\ holder[fd[s]] = s
    /\ pc[s] \notin Holding => \A f \in Files : holder[f] # s
    /\ pc[s] \notin Holding \cup {"flock"} => fd[s] = NoOne

\* Files are created by scripts that have started.
Created ==
  /\ keyFn # NoOne => pc[keyFn] # "start"
  /\ \A s \in Scripts : fd[s] # NoOne => pc[fd[s]] # "start"
  /\ \A f \in Files : pc[f] = "start" => lines[f] = {}

\* What ifLink and ifdown have done so far.
Progress ==
  /\ ifFn => pc["ifLink"] \in {"loop", "done"}
  /\ pc["ifdown"] \in {"flock", "locked", "loop", "rmKey"} \cup KeyRemoved
       => pc["ifLink"] \in {"loop", "done"}
  /\ pc["ifdown"] \in Holding \cup {"done"} => pc["ifLink"] = "done"
  /\ pc["ifLink"] \in {"name", "loop", "done"}
     /\ pc["ifdown"] \notin {"rmFn", "done"} => ifKey
  /\ ifKey => pc["ifdown"] \notin {"rmFn", "done"}

\* One file until ifdown removes its name, and after that a waiting script has
\* either that file open or the one of the name.
OneFile ==
  /\ pc["ifdown"] \notin KeyRemoved =>
       /\ \A s \in Scripts : fd[s] # NoOne => fd[s] = keyFn
       /\ pc["ifLink"] # "start" => keyFn # NoOne
       /\ \A p \in Ports : pc[p] # "start" => keyFn # NoOne
  /\ pc["ifdown"] \in {"rmIf", "rmFn"} =>
       /\ keyFn # fd["ifdown"]
       /\ \A s \in Scripts : fd[s] \in {NoOne, keyFn, fd["ifdown"]}
  /\ \A p \in Ports : pc[p] = "link" => fd[p] = keyFn

\* The lines written, and the names made from them.
Named ==
  /\ \A p \in Ports : pc[p] \in {"read", "link"} => p \in lines[fd[p]]
  /\ pc["ifdown"] \notin KeyRemoved =>
       \A p \in Ports : pc[p] = "done" => p \in lines[keyFn]
  /\ pc["ifLink"] = "loop" => lines[keyFn] \subseteq links \cup todo["ifLink"]
  /\ todo["ifLink"] \subseteq IF pc["ifLink"] = "loop" THEN lines[keyFn] ELSE {}
  /\ pc["ifLink"] = "done" /\ pc["ifdown"] \in {"start", "flock", "failed"} =>
       \A p \in lines[keyFn] : p \in links \/ pc[p] \in {"read", "link"}

\* ifdown reads the lines of all names.
Removing ==
  /\ pc["ifdown"] = "loop" => links \subseteq todo["ifdown"]
  /\ pc["ifdown"] # "loop" => todo["ifdown"] = {}
  /\ pc["ifdown"] = "rmKey" => links = {}

\* A name has its line in the file of the name KEY, or ifdown has read it.
LinkRecorded ==
  \A p \in links :
    \/ keyFn # NoOne /\ p \in lines[keyFn]
    \/ p \in todo["ifdown"]

Inv ==
  /\ TypeOK /\ ScriptLabels /\ LockHeld /\ Created /\ Progress /\ OneFile
  /\ Named /\ Removing /\ LinkRecorded
-----------------------------------------------------------------------------
\* The scripts' first step finds no file, no name and no holder of a lock.
LEMMA InvInit == Init => Inv
<1> SUFFICES ASSUME Init PROVE Inv
  OBVIOUS
<1> USE PortsAssumption DEF Init, Scripts, Files
<1>1. TypeOK /\ ScriptLabels
  BY DEF TypeOK, ScriptLabels, Labels
<1>2. LockHeld /\ Created
  BY DEF LockHeld, Created, Holding
<1>3. Progress /\ OneFile
  BY DEF Progress, OneFile, KeyRemoved, Holding
<1>4. Named /\ Removing /\ LinkRecorded
  BY DEF Named, Removing, LinkRecorded
<1> QED BY <1>1, <1>2, <1>3, <1>4 DEF Inv

\* Every step of every script keeps the invariant.
LEMMA InvStep == Inv /\ [Next]_vars => Inv'
<1> SUFFICES ASSUME Inv, [Next]_vars
             PROVE  Inv'
  OBVIOUS
<1> USE PortsAssumption DEF Inv, TypeOK, ScriptLabels, LockHeld, Created,
      Progress, OneFile, Named, Removing, LinkRecorded, Holding, KeyRemoved, Labels, Scripts, Files,
      Goto, store
<1>1. CASE UNCHANGED vars
  BY <1>1 DEF vars
<1>2. ASSUME NEW p \in Ports, TtyOpen(p)
      PROVE  Inv'
  BY <1>2 DEF TtyOpen, OpenForAppend
<1>3. ASSUME NEW p \in Ports, TtyAppend(p)
      PROVE  Inv'
  BY <1>3 DEF TtyAppend
<1>4. ASSUME NEW p \in Ports, TtyRead(p)
      PROVE  Inv'
  BY <1>4 DEF TtyRead, End
<1>5. ASSUME NEW p \in Ports, TtyLink(p)
      PROVE  Inv'
  BY <1>5 DEF TtyLink, End
<1>6. CASE LinkCreate
  BY <1>6 DEF LinkCreate, OpenForAppend
<1>7. CASE LinkOpen
  BY <1>7 DEF LinkOpen, End
<1>8. CASE LinkStore
  BY <1>8 DEF LinkStore
<1>9. CASE LinkName
  BY <1>9 DEF LinkName
<1>10. CASE LinkPort
  BY <1>10 DEF LinkPort
<1>11. CASE LinkEnd
  BY <1>11 DEF LinkEnd, End
<1>12. CASE DownOpen
  BY <1>12 DEF DownOpen, End, Ended
<1>13. CASE DownRead
  BY <1>13 DEF DownRead
<1>14. CASE DownPort
  BY <1>14 DEF DownPort
<1>15. CASE DownLoopEnd
  BY <1>15 DEF DownLoopEnd
<1>16. CASE RemoveKey
  BY <1>16 DEF RemoveKey
<1>17. CASE RemoveIfKey
  <2>1. TypeOK' /\ ScriptLabels'
    BY <1>17 DEF RemoveIfKey
  <2>2. LockHeld' /\ Created'
    BY <1>17 DEF RemoveIfKey
  <2>3. Progress'
    BY <1>17 DEF RemoveIfKey
  <2>4. OneFile'
    BY <1>17 DEF RemoveIfKey
  <2>5. Named' /\ Removing' /\ LinkRecorded'
    BY <1>17 DEF RemoveIfKey
  <2> QED BY <2>1, <2>2, <2>3, <2>4, <2>5
<1>18. CASE RemoveIfFn
  <2>1. TypeOK' /\ ScriptLabels'
    BY <1>18 DEF RemoveIfFn, End
  <2>2. LockHeld' /\ Created'
    BY <1>18 DEF RemoveIfFn, End
  <2>3. Progress'
    BY <1>18 DEF RemoveIfFn, End
  <2>4. OneFile'
    BY <1>18 DEF RemoveIfFn, End
  <2>5. Named' /\ Removing' /\ LinkRecorded'
    BY <1>18 DEF RemoveIfFn, End
  <2> QED BY <2>1, <2>2, <2>3, <2>4, <2>5
<1>19. ASSUME NEW s \in Scripts, Flock(s)
      PROVE  Inv'
  BY <1>19 DEF Flock
<1>20. ASSUME NEW s \in Scripts, FlockTimeout(s)
      PROVE  Inv'
  BY <1>20 DEF FlockTimeout, End
<1> QED
  BY <1>1, <1>2, <1>3, <1>4, <1>5, <1>6, <1>7, <1>8, <1>9, <1>10, <1>11,
     <1>12, <1>13, <1>14, <1>15, <1>16, <1>17, <1>18, <1>19, <1>20
  DEF Next, Tty, IfLink, IfDown, Terminated

\* The invariant holds in every state that the scripts reach.
LEMMA Invariance == Spec => []Inv
  BY InvInit, InvStep, PTL DEF Spec

\* ifTTY before ifLink or after it, with any interleaving of the ports and any
\* lock given up: when both have ended, the port has its name under /dev/AT.
THEOREM OrderIndependentHolds == Spec => []OrderIndependent
<1>1. Inv => OrderIndependent
  <2> SUFFICES ASSUME Inv, NEW p \in Ports,
                      pc[p] = "done", pc["ifLink"] = "done",
                      pc["ifdown"] \in {"start", "flock", "failed"}
               PROVE  p \in links
    BY DEF OrderIndependent
  <2>1. p \in lines[keyFn]
    BY DEF Inv, Named, KeyRemoved
  <2> QED BY <2>1 DEF Inv, Named
<1> QED BY <1>1, Invariance, PTL

\* Whatever the order and interleaving of the scripts and whoever gives up
\* waiting for the lock, ifdown has removed every name when it unlinks KEY: a
\* port that waited for it makes none, and a later name is that of a port
\* whose ifTTY created KEY anew.
THEOREM NamesRemovedHolds == Spec => []NamesRemoved
<1>1. Inv => NamesRemoved
  <2> SUFFICES ASSUME Inv PROVE NamesRemoved
    OBVIOUS
  <2> USE DEF Inv, ScriptLabels, LinkRecorded, Removing, Scripts
  <2>1. CASE pc["ifdown"] \in {"start", "failed"}
    BY <2>1 DEF NamesRemoved
  <2>2. CASE pc["ifdown"] \in {"flock", "locked"}
    <3>1. fd["ifdown"] # NoOne
      BY <2>2, PortsAssumption DEF LockHeld, Holding, Files
    <3>2. fd["ifdown"] = keyFn
      BY <2>2, <3>1 DEF OneFile, KeyRemoved
    <3> QED BY <2>2, <3>2 DEF NamesRemoved
  <2>3. CASE pc["ifdown"] \in {"loop", "rmKey"}
    BY <2>3 DEF NamesRemoved
  <2>4. CASE pc["ifdown"] \in {"rmIf", "rmFn"}
    BY <2>4 DEF NamesRemoved, OneFile
  <2>5. CASE pc["ifdown"] = "done"
    <3>1. fd["ifdown"] = NoOne
      BY <2>5 DEF LockHeld, Holding
    <3> QED BY <2>5, <3>1 DEF NamesRemoved
  <2> QED BY <2>1, <2>2, <2>3, <2>4, <2>5
<1> QED BY <1>1, Invariance, PTL

\* Types: files are known by the scripts that created them, for any number of
\* ports.
THEOREM TypeCorrect == Spec => []TypeOK
<1>1. Inv => TypeOK
  BY DEF Inv
<1> QED BY <1>1, Invariance, PTL

=============================================================================
