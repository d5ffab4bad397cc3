----------------------------- MODULE ModemLinks -----------------------------
(***************************************************************************)
(* The names /dev/AT/<if>... of a USB modem's serial ports.  udevd runs    *)
(* ifTTY for each port, ifLink for the modem's network interface and, when *)
(* that goes away, ifdown.  A port's name contains the interface's, which  *)
(* is known only once the interface appears, before or after the ports:    *)
(* the scripts meet in /run/link.                                          *)
(*                                                                         *)
(*   /run/link/KEY     a line for each port; flock on it guards the rest   *)
(*   /run/link/if-KEY  the interface's name                                *)
(*   /run/link/IF      symlink to KEY                                      *)
(*                                                                         *)
(* The lock belongs to the open file and not to its name, so files created *)
(* under the name KEY, one after the other, are told apart by the script   *)
(* that created them.  One modem, one plugging in, one removal.            *)
(***************************************************************************)
EXTENDS FiniteSets

CONSTANTS Ports,     \* serial ports of the modem; one ifTTY runs for each
          Timeouts,  \* TRUE: flock -w60 may give up
          NoOne      \* no file, no holder of a lock

ASSUME PortsAssumption ==
  /\ Timeouts \in BOOLEAN
  /\ NoOne \notin Ports \cup {"ifLink", "ifdown"}
  /\ "ifLink" \notin Ports /\ "ifdown" \notin Ports

Scripts == Ports \cup {"ifLink", "ifdown"}
Files   == Ports \cup {"ifLink"}    \* those that create /run/link/KEY

VARIABLES keyFn,   \* the file of the name KEY, by its creator
          lines,   \* the ports with a line in it, for each such file
          holder,  \* who holds the file's lock
          fd,      \* per script, the file it has open as descriptor 5
          ifKey,   \* if-KEY exists
          ifFn,    \* IF exists
          links,   \* ports with a name under /dev/AT
          pc,      \* per script, its next step
          todo     \* lines that ifLink or ifdown has yet to read

vars == <<keyFn, lines, holder, fd, ifKey, ifFn, links, pc, todo>>
store == <<keyFn, lines, ifKey, ifFn>>

Labels == {"start", "open", "flock", "locked", "read", "link", "name", "loop",
           "rmKey", "rmIf", "rmFn", "done", "failed"}
Ended == {"done", "failed"}

TypeOK ==
  /\ keyFn \in Files \cup {NoOne}
  /\ lines \in [Files -> SUBSET Ports]
  /\ holder \in [Files -> Scripts \cup {NoOne}]
  /\ fd \in [Scripts -> Files \cup {NoOne}]
  /\ ifKey \in BOOLEAN
  /\ ifFn \in BOOLEAN
  /\ links \subseteq Ports
  /\ pc \in [Scripts -> Labels]
  /\ todo \in [{"ifLink", "ifdown"} -> SUBSET Ports]

Init ==
  /\ keyFn = NoOne
  /\ lines = [f \in Files |-> {}]
  /\ holder = [f \in Files |-> NoOne]
  /\ fd = [s \in Scripts |-> NoOne]
  /\ ifKey = FALSE
  /\ ifFn = FALSE
  /\ links = {}
  /\ pc = [s \in Scripts |-> "start"]
  /\ todo = [s \in {"ifLink", "ifdown"} |-> {}]

-----------------------------------------------------------------------------
(* Steps that the scripts share                                            *)

Goto(s, label) == pc' = [pc EXCEPT ![s] = label]

\* >> creates the file unless there is one.
OpenForAppend(s) == IF keyFn = NoOne THEN s ELSE keyFn

\* Mutant of End: a child keeps the descriptor, and with it the lock.
EndHolding(s, how) ==
  /\ Goto(s, how)
  /\ fd' = [fd EXCEPT ![s] = NoOne]
  /\ UNCHANGED holder

\* A process that ends closes its descriptor, and that gives up the lock.
End(s, how) ==
  /\ Goto(s, how)
  /\ fd' = [fd EXCEPT ![s] = NoOne]
  /\ holder' = [f \in Files |-> IF holder[f] = s THEN NoOne ELSE holder[f]]

\* flock -w60 5
Flock(s) ==
  /\ pc[s] = "flock"
  /\ holder[fd[s]] = NoOne
  /\ holder' = [holder EXCEPT ![fd[s]] = s]
  /\ Goto(s, "locked")
  /\ UNCHANGED <<store, fd, links, todo>>

FlockTimeout(s) ==
  /\ Timeouts
  /\ pc[s] = "flock"
  /\ holder[fd[s]] # NoOne
  /\ End(s, "failed")
  /\ UNCHANGED <<store, links, todo>>

-----------------------------------------------------------------------------
(* ifTTY, for port p                                                       *)

TtyOpen(p) ==
  /\ pc[p] = "start"
  /\ keyFn' = OpenForAppend(p)
  /\ fd' = [fd EXCEPT ![p] = OpenForAppend(p)]
  /\ Goto(p, "flock")
  /\ UNCHANGED <<lines, holder, ifKey, ifFn, links, todo>>

TtyAppend(p) ==
  /\ pc[p] = "locked"
  /\ lines' = [lines EXCEPT ![fd[p]] = @ \cup {p}]
  /\ Goto(p, "read")
  /\ UNCHANGED <<keyFn, holder, fd, ifKey, ifFn, links, todo>>

\* Mutant of TtyRead: ifTTY leaves all names to ifLink.
TtyReadNot(p) ==
  /\ pc[p] = "read"
  /\ End(p, "done")
  /\ UNCHANGED <<store, links, todo>>

\* The interface's name is taken from if-KEY, if it is known.
TtyRead(p) ==
  /\ pc[p] = "read"
  /\ IF ifKey THEN Goto(p, "link") /\ UNCHANGED <<fd, holder>>
              ELSE End(p, "done")
  /\ UNCHANGED <<store, links, todo>>

TtyLink(p) ==
  /\ pc[p] = "link"
  /\ links' = links \cup {p}
  /\ End(p, "done")
  /\ UNCHANGED <<store, todo>>

Tty(p) == TtyOpen(p) \/ TtyAppend(p) \/ TtyRead(p) \/ TtyLink(p)

-----------------------------------------------------------------------------
(* ifLink                                                                  *)

LinkCreate ==
  /\ pc["ifLink"] = "start"
  /\ keyFn' = OpenForAppend("ifLink")
  /\ Goto("ifLink", "open")
  /\ UNCHANGED <<lines, holder, fd, ifKey, ifFn, links, todo>>

LinkOpen ==
  /\ pc["ifLink"] = "open"
  /\ IF keyFn = NoOne THEN End("ifLink", "failed")
                      ELSE /\ fd' = [fd EXCEPT !["ifLink"] = keyFn]
                           /\ Goto("ifLink", "flock")
                           /\ UNCHANGED holder
  /\ UNCHANGED <<store, links, todo>>

\* echo $INTERFACE >if-KEY
LinkStore ==
  /\ pc["ifLink"] = "locked"
  /\ ifKey' = TRUE
  /\ Goto("ifLink", "name")
  /\ UNCHANGED <<keyFn, lines, holder, fd, ifFn, links, todo>>

\* ln -sf KEY IF, and on to the loop over the lines.
LinkName ==
  /\ pc["ifLink"] = "name"
  /\ ifFn' = TRUE
  /\ todo' = [todo EXCEPT !["ifLink"] = lines[fd["ifLink"]]]
  /\ Goto("ifLink", "loop")
  /\ UNCHANGED <<keyFn, lines, holder, fd, ifKey, links>>

\* Mutant of LinkPort: the lines are taken for a single name.
LinkPortQuoted ==
  /\ pc["ifLink"] = "loop"
  /\ todo["ifLink"] # {}
  /\ links' = links \cup {todo["ifLink"]}
  /\ todo' = [todo EXCEPT !["ifLink"] = {}]
  /\ UNCHANGED <<store, holder, fd, pc>>

LinkPort ==
  /\ pc["ifLink"] = "loop"
  /\ \E p \in todo["ifLink"] :
       /\ links' = links \cup {p}
       /\ todo' = [todo EXCEPT !["ifLink"] = @ \ {p}]
  /\ UNCHANGED <<store, holder, fd, pc>>

LinkEnd ==
  /\ pc["ifLink"] = "loop"
  /\ todo["ifLink"] = {}
  /\ End("ifLink", "done")
  /\ UNCHANGED <<store, links, todo>>

IfLink == LinkCreate \/ LinkOpen \/ LinkStore \/ LinkName \/ LinkPort \/ LinkEnd

-----------------------------------------------------------------------------
(* ifdown, from where /usr/sbin/ifdown has ended                           *)

\* exec 5<IF follows the symlink; without it the shell ends.
DownOpen ==
  /\ pc["ifdown"] = "start"
  /\ IF ifFn /\ keyFn # NoOne
       THEN /\ fd' = [fd EXCEPT !["ifdown"] = keyFn]
            /\ Goto("ifdown", "flock")
            /\ UNCHANGED holder
       ELSE End("ifdown", "failed")
  /\ UNCHANGED <<store, links, todo>>

DownRead ==
  /\ pc["ifdown"] = "locked"
  /\ todo' = [todo EXCEPT !["ifdown"] = lines[fd["ifdown"]]]
  /\ Goto("ifdown", "loop")
  /\ UNCHANGED <<store, holder, fd, links>>

DownPort ==
  /\ pc["ifdown"] = "loop"
  /\ \E p \in todo["ifdown"] :
       /\ links' = links \ {p}
       /\ todo' = [todo EXCEPT !["ifdown"] = @ \ {p}]
  /\ UNCHANGED <<store, holder, fd, pc>>

\* Mutant of DownLoopEnd: the lock is given up before the files are removed.
DownUnlock ==
  /\ pc["ifdown"] = "loop"
  /\ todo["ifdown"] = {}
  /\ holder' = [holder EXCEPT ![fd["ifdown"]] = NoOne]
  /\ Goto("ifdown", "rmKey")
  /\ UNCHANGED <<store, fd, links, todo>>

DownLoopEnd ==
  /\ pc["ifdown"] = "loop"
  /\ todo["ifdown"] = {}
  /\ Goto("ifdown", "rmKey")
  /\ UNCHANGED <<store, holder, fd, links, todo>>

\* rm KEY if-KEY IF removes them one by one; then the script ends.
RemoveKey ==
  /\ pc["ifdown"] = "rmKey"
  /\ keyFn' = NoOne
  /\ Goto("ifdown", "rmIf")
  /\ UNCHANGED <<lines, holder, fd, ifKey, ifFn, links, todo>>

RemoveIfKey ==
  /\ pc["ifdown"] = "rmIf"
  /\ ifKey' = FALSE
  /\ Goto("ifdown", "rmFn")
  /\ UNCHANGED <<keyFn, lines, holder, fd, ifFn, links, todo>>

RemoveIfFn ==
  /\ pc["ifdown"] = "rmFn"
  /\ ifFn' = FALSE
  /\ End("ifdown", "done")
  /\ UNCHANGED <<keyFn, lines, ifKey, links, todo>>

IfDown == \/ DownOpen \/ DownRead \/ DownPort \/ DownLoopEnd
          \/ RemoveKey \/ RemoveIfKey \/ RemoveIfFn

-----------------------------------------------------------------------------
AllEnded == \A s \in Scripts : pc[s] \in Ended
Terminated == AllEnded /\ UNCHANGED vars

Next == \/ \E p \in Ports : Tty(p)
        \/ IfLink
        \/ IfDown
        \/ \E s \in Scripts : Flock(s) \/ FlockTimeout(s)
        \/ Terminated

\* A script that was started and can go on does so.
Started(s) == pc[s] # "start"
Fairness ==
  /\ \A p \in Ports : WF_vars(Started(p) /\ Tty(p))
  /\ WF_vars(Started("ifLink") /\ IfLink)
  /\ WF_vars(Started("ifdown") /\ IfDown)
  /\ \A s \in Scripts : WF_vars(Flock(s))

Spec == Init /\ [][Next]_vars /\ Fairness

-----------------------------------------------------------------------------
(* Properties                                                              *)

\* Whichever comes first, a port's ifTTY or the interface's ifLink: when both
\* are through and no ifdown has begun to remove them, the port has its name.
OrderIndependent ==
  \A p \in Ports :
    /\ pc[p] = "done" /\ pc["ifLink"] = "done"
    /\ pc["ifdown"] \in {"start", "flock", "failed"}
    => p \in links

\* ifdown misses no name that was there before it unlinked KEY.  Before it has
\* the lock, every name has its line in the file that it has open or would
\* open; while it removes names, the ones left are among the lines that it has
\* yet to come to; and when it unlinks KEY there is none, also not of a port
\* that waits for its lock.  From then on the only names are those of ports
\* whose ifTTY opened KEY anew and found if-KEY still there (ifdown 8-14).
NamesRemoved ==
  \A p \in links :
    CASE pc["ifdown"] \in {"start", "failed"} -> p \in lines[keyFn]
      [] pc["ifdown"] \in {"flock", "locked"} -> p \in lines[fd["ifdown"]]
      [] pc["ifdown"] = "loop"                -> p \in todo["ifdown"]
      [] pc["ifdown"] = "rmKey"               -> FALSE
      [] OTHER -> keyFn \notin {NoOne, fd["ifdown"]} /\ p \in lines[keyFn]

\* Nobody waits for ever: a script that has opened the file ends.
ScriptsEnd == \A s \in Scripts : pc[s] = "flock" ~> pc[s] \in Ended
=============================================================================
