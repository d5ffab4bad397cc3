------------------------------- MODULE Gateway -------------------------------
(***************************************************************************)
(* Selection of the default gateway, /usr/share/netutils.sh and the        *)
(* scripts that call it (udhcpc's default.script, pppd's ip-up and ip-down,*)
(* ifdown, netplugd's policy script).                                      *)
(*                                                                         *)
(* Every event on an interface runs a shell script of its own.  A script   *)
(* records the interface's gateway in /run/resolv/<if>, scans all records  *)
(* in the order of /etc/sysconfig/gateway.priority, rewrites               *)
(* /etc/resolv.conf from the winner's record and replaces the kernel's     *)
(* default routes.  Nothing locks these files: the scripts interleave, and *)
(* a step of this module is one access of a script to what they share.     *)
(*                                                                         *)
(* `clean' is an auxiliary variable, absent from the code: clean[p] holds  *)
(* from the moment p's gateUp begins its scan until anyone but p's own     *)
(* gateUp, hostsUp and gateUpdated writes the shared state.  It never holds*)
(* of an ip-up that has lost IFS, which cannot scan.                       *)
(***************************************************************************)
EXTENDS Integers, Sequences, FiniteSets

CONSTANTS Procs,      \* the script processes that may run at the same time
          Ifaces,     \* network interfaces
          Wired,      \* those named eth[0-9], whose carrier is believed
          Nets,       \* networks; a network's name is also its gateway
          Priority,   \* gateway.priority's first line, globs expanded
          Jobs,       \* kinds of script that are started
          MayFail,    \* may ifconfig refuse an address (no such device)?
          MaxJobs,    \* bound: scripts started in one behaviour
          MaxRules,   \* bound: masquerade rules per interface
          None,       \* no file, no address, no gateway, no interface
          Blank       \* a record created but without its first line yet

JobKinds == {"bound", "revert", "deconfig", "linkup", "peerup", "linkdown",
             "ifdown", "unplug"}

\* The first line of resolv.conf, i's name and its gateway's address, taken
\* for a name by a shell that does not split it.
Line(i) == <<i>>

ASSUME ConstantsAssumption ==
  /\ Wired \subseteq Ifaces
  /\ Priority \in Seq(Ifaces)
  /\ \A i \in Ifaces : \E k \in 1..Len(Priority) : Priority[k] = i \* ends in *
  /\ Jobs \subseteq JobKinds
  /\ MayFail \in BOOLEAN
  /\ MaxJobs \in Nat
  /\ MaxRules \in Nat \ {0}
  /\ None \notin Ifaces /\ None \notin Nets
  /\ Blank \notin Nets /\ Blank # None
  /\ \A i \in Ifaces : Line(i) \notin Ifaces /\ Line(i) # None

VARIABLES
  record,     \* /run/resolv/<if>: None, Blank or the gateway it names
  carrier,    \* /sys/class/net/<if>/carrier
  addr,       \* the network the interface's IP address belongs to
  routes,     \* the kernel's default routes, <<gateway, interface>>
  resolvConf, \* the interface in the first line of /etc/resolv.conf
  hostsFn,    \* interfaces with a /run/<if>.hosts
  etcHosts,   \* /etc/hosts: whose address is ours, which files were merged
  tunGate,    \* /run/tunGate
  nat,        \* masquerade rules in POSTROUTING, per interface
  started,    \* scripts started so far
  pc, job,    \* per process: next step, and the script with its arguments
  attached,   \* is the process's record still the file of that name?
  pass, cur, seen,    \* gateUp's loops: which one, position, expanded globs
  topIface, gateway,  \* the interface gateUp selected and its gateway
  hdr,        \* what the first line of a record or of resolv.conf named
  del,        \* setGateway's list of routes to delete
  ok,         \* exit status of setGateway, and so of gateUp
  tun,        \* gateUpdated's copy of tunGate
  clean       \* auxiliary, see above

files   == <<record, hostsFn, tunGate>>
kernel  == <<carrier, addr, routes, nat>>
outputs == <<resolvConf, etcHosts>>
system  == <<files, kernel, outputs>>
args    == <<started, job>>
scan    == <<pass, cur, seen>>
pick    == <<topIface, gateway>>
choice  == <<pick, hdr, del, ok, tun>>
locals  == <<attached, scan, choice>>
vars == <<record, carrier, addr, routes, resolvConf, hostsFn, etcHosts,
          tunGate, nat, started, pc, job, attached, pass, cur, seen,
          topIface, gateway, hdr, del, ok, tun, clean>>

Script == [kind : JobKinds \cup {"none"}, dev : Ifaces \cup {None},
           net : Nets \cup {None}, gw : Nets \cup {None}]
NoJob  == [kind |-> "none", dev |-> None, net |-> None, gw |-> None]

Labels == {"idle", "drop", "gateDown", "ifconfig", "unlink", "create",
           "header", "glob", "test", "read", "trunc", "write", "snap", "add",
           "del", "flush", "hosts", "hostOpen", "hostTop", "hostMerge", "tunRead",
           "topIf", "masqDel", "tunWrite", "masqAdd", "disable", "exit"}

Names == Ifaces \cup {None} \cup {Line(i) : i \in Ifaces}

TypeOK ==
  /\ record \in [Ifaces -> Nets \cup {None, Blank}]
  /\ carrier \in [Ifaces -> BOOLEAN]
  /\ addr \in [Ifaces -> Nets \cup {None}]
  /\ routes \subseteq Nets \X Ifaces
  /\ resolvConf \in Ifaces \cup {None}
  /\ hostsFn \subseteq Ifaces
  /\ etcHosts \in [own : Ifaces \cup {None}, merged : SUBSET Ifaces]
  /\ tunGate \in Names
  /\ nat \in [Ifaces -> 0..MaxRules]
  /\ started \in 0..MaxJobs
  /\ pc \in [Procs -> Labels]
  /\ job \in [Procs -> Script]
  /\ attached \in [Procs -> BOOLEAN]
  /\ pass \in [Procs -> {1, 2}]
  /\ cur \in [Procs -> 1..Len(Priority) + 1]
  /\ seen \in [Procs -> SUBSET Ifaces]
  /\ topIface \in [Procs -> Ifaces \cup {None}]
  /\ gateway \in [Procs -> Nets \cup {None}]
  /\ hdr \in [Procs -> Names]
  /\ del \in [Procs -> SUBSET (Nets \X Ifaces)]
  /\ ok \in [Procs -> BOOLEAN]
  /\ tun \in [Procs -> Names]
  /\ clean \in [Procs -> BOOLEAN]

-----------------------------------------------------------------------------
(* Helpers                                                                 *)

Goto(p, label) == pc' = [pc EXCEPT ![p] = label]

\* A write of p outside of gateUp and what follows it disturbs every gateUp,
\* its own earlier one included; a write inside disturbs the others'.
DisturbAll == clean' = [q \in Procs |-> FALSE]
DisturbOthers(p) == clean' = [q \in Procs |-> q = p /\ clean[p]]

\* Scripts that call gateUp with the interface as $1, and with $2 if it has a
\* gateway; the others call it without arguments.
Ups == {"bound", "revert", "linkup", "peerup"}
GateArg(p) == IF job[p].kind \in Ups THEN job[p].dev ELSE None

\* With PEERNAME set (the peer had to authenticate itself), ip-up leaves IFS
\* empty: from then on neither `read' nor an unquoted variable is split.
Splits(p) == job[p].kind # "peerup"

\* The file of interface i is unlinked: whoever has it open writes to a file
\* that no longer has a name.
Orphan(i) == [q \in Procs |-> attached[q] /\ job[q].dev # i]

NotUnplugged(i) == i \in Wired => carrier[i]

\* What a scan of the given pass is looking for.
HasGateway(i) == record[i] \in Nets
Candidate(i, n) == HasGateway(i) /\ (n = 1 => NotUnplugged(i))

\* udhcpc and pppd wait for their scripts: an interface's daemon runs one at a
\* time.  ifdown and netplugd run theirs regardless.
DaemonScripts == {"bound", "revert", "deconfig", "linkup", "peerup", "linkdown"}
DaemonIdle(i) ==
  \A q \in Procs : ~(job[q].dev = i /\ job[q].kind \in DaemonScripts)

\* The kernel drops the default routes of an interface whose address changes.
RoutesWithout(i) == {r \in routes : r[2] # i}

-----------------------------------------------------------------------------
Init ==
  /\ record = [i \in Ifaces |-> None]
  /\ carrier = [i \in Ifaces |-> TRUE]
  /\ addr = [i \in Ifaces |-> None]
  /\ routes = {}
  /\ resolvConf = None
  /\ hostsFn = {}
  /\ etcHosts = [own |-> None, merged |-> {}]
  /\ tunGate = None
  /\ nat = [i \in Ifaces |-> 0]
  /\ started = 0
  /\ pc = [p \in Procs |-> "idle"]
  /\ job = [p \in Procs |-> NoJob]
  /\ attached = [p \in Procs |-> FALSE]
  /\ pass = [p \in Procs |-> 1]
  /\ cur = [p \in Procs |-> 1]
  /\ seen = [p \in Procs |-> {}]
  /\ topIface = [p \in Procs |-> None]
  /\ gateway = [p \in Procs |-> None]
  /\ hdr = [p \in Procs |-> None]
  /\ del = [p \in Procs |-> {}]
  /\ ok = [p \in Procs |-> TRUE]
  /\ tun = [p \in Procs |-> None]
  /\ clean = [p \in Procs |-> FALSE]

-----------------------------------------------------------------------------
(* The events that start a script                                          *)

Launch(p, kind, i, n, g, label) ==
  /\ pc[p] = "idle"
  /\ kind \in Jobs
  /\ kind \in DaemonScripts => DaemonIdle(i)
  /\ started < MaxJobs
  /\ started' = started + 1
  /\ job' = [job EXCEPT ![p] = [kind |-> kind, dev |-> i, net |-> n, gw |-> g]]
  /\ Goto(p, label)
  /\ UNCHANGED <<files, addr, routes, nat, outputs, locals>>

\* ipUp with an address: a lease, or a static configuration.  Either was got
\* over a working link.  g is the router the lease names, if any.
Bound(p, i, n, g) ==
  /\ Launch(p, "bound", i, n, g, "ifconfig")
  /\ carrier' = [carrier EXCEPT ![i] = TRUE]
  /\ DisturbAll

\* udhcpc lost its lease; the configuration gives a static address to fall
\* back to (revert) or none (deconfig).
Revert(p, i, n, g) ==
  Launch(p, "revert", i, n, g, "drop") /\ UNCHANGED <<carrier, clean>>

Deconfig(p, i) ==
  Launch(p, "deconfig", i, None, None, "drop") /\ UNCHANGED <<carrier, clean>>

\* pppd gives the interface its address before it runs ip-up, and takes it
\* away before it runs ip-down.  PEERNAME is set if the peer's name is known.
LinkUp(p, i, n, g) ==
  /\ i \notin Wired
  /\ \E kind \in {"linkup", "peerup"} : Launch(p, kind, i, n, g, "ifconfig")
  /\ UNCHANGED <<carrier, clean>>

LinkDown(p, i) ==
  /\ i \notin Wired
  /\ addr[i] # None
  /\ Launch(p, "linkdown", i, None, None, "ifconfig")
  /\ UNCHANGED <<carrier, clean>>

\* ifDown returns at once for an interface that is down and has no daemon,
\* but the trap on EXIT still calls gateUp.
Ifdown(p, i) ==
  /\ \E label \in {"gateDown", "glob"} :
       /\ label = "glob" => addr[i] = None
       /\ Launch(p, "ifdown", i, None, None, label)
  /\ UNCHANGED <<carrier, clean>>

\* The cable is pulled, and netplugd runs its policy script with "out".
Unplug(p, i) ==
  /\ i \in Wired
  /\ Launch(p, "unplug", i, None, None, "gateDown")
  /\ carrier' = [carrier EXCEPT ![i] = FALSE]
  /\ DisturbAll

Start(p) ==
  \E i \in Ifaces :
    \/ Deconfig(p, i)
    \/ LinkDown(p, i)
    \/ Ifdown(p, i)
    \/ Unplug(p, i)
    \/ \E n \in Nets : \E g \in {n, None} :
         \/ Bound(p, i, n, g)
         \/ Revert(p, i, n, g)
         \/ LinkUp(p, i, n, g)

-----------------------------------------------------------------------------
(* Before gateUp: the record goes, the address changes                     *)

\* default.script, deconfig: rm -f /run/resolv/<if>
DropRecord(p) ==
  /\ pc[p] = "drop"
  /\ record' = [record EXCEPT ![job[p].dev] = None]
  /\ attached' = Orphan(job[p].dev)
  /\ Goto(p, "ifconfig")
  /\ DisturbAll
  /\ UNCHANGED <<kernel, outputs, hostsFn, tunGate, args, scan, choice>>

\* gateDown $1 removes the interface's files.  ipDown passes no $1, and then
\* the names are /run/.hosts and /run/resolv/: nothing is removed.
GateDown(p) ==
  /\ pc[p] = "gateDown"
  /\ IF job[p].kind = "linkdown"
       THEN UNCHANGED <<record, hostsFn, attached>>
       ELSE /\ record' = [record EXCEPT ![job[p].dev] = None]
            /\ hostsFn' = hostsFn \ {job[p].dev}
            /\ attached' = Orphan(job[p].dev)
  /\ Goto(p, IF job[p].kind = "linkdown" THEN "glob" ELSE "ifconfig")
  /\ DisturbAll
  /\ UNCHANGED <<kernel, outputs, tunGate, args, scan, choice>>

\* ifconfig sets or clears the address (for ppp, pppd does).  The scripts of
\* deconfig and unplug end here: neither calls gateUp.
AfterIfconfig(kind) ==
  CASE kind \in Ups -> "unlink"
    [] kind = "linkdown" -> "gateDown"
    [] kind = "ifdown" -> "glob"
    [] OTHER -> "exit"

Ifconfig(p) ==
  LET i == job[p].dev IN
  /\ pc[p] = "ifconfig"
  /\ addr' = [addr EXCEPT ![i] = job[p].net]
  /\ routes' = IF addr[i] = job[p].net THEN routes ELSE RoutesWithout(i)
  /\ Goto(p, AfterIfconfig(job[p].kind))
  /\ DisturbAll
  /\ UNCHANGED <<files, carrier, nat, outputs, args, locals>>

\* ipUp returns 2, and deconfig then clears the address.  No gateUp follows for
\* p to be judged by.
IfconfigRefused(p) ==
  /\ pc[p] = "ifconfig"
  /\ MayFail
  /\ job[p].kind \in {"bound", "revert"}
  /\ Goto(p, IF job[p].kind = "revert" THEN "disable" ELSE "exit")
  /\ clean' = [clean EXCEPT ![p] = FALSE]
  /\ UNCHANGED <<system, args, locals>>

-----------------------------------------------------------------------------
(* gateUp: write the own record, then select an interface                  *)

Unlink(p) ==
  /\ pc[p] = "unlink"
  /\ record' = [record EXCEPT ![job[p].dev] = None]
  /\ attached' = Orphan(job[p].dev)
  /\ Goto(p, IF job[p].gw = None THEN "glob" ELSE "create")
  /\ DisturbAll
  /\ UNCHANGED <<kernel, outputs, hostsFn, tunGate, args, scan, choice>>

\* The redirection creates the file, or truncates one created meanwhile.
Create(p) ==
  /\ pc[p] = "create"
  /\ record' = [record EXCEPT ![job[p].dev] = Blank]
  /\ attached' = [attached EXCEPT ![p] = TRUE]
  /\ Goto(p, "header")
  /\ DisturbAll
  /\ UNCHANGED <<kernel, outputs, hostsFn, tunGate, args, scan, choice>>

Header(p) ==
  /\ pc[p] = "header"
  /\ record' = IF attached[p]
                 THEN [record EXCEPT ![job[p].dev] = job[p].gw]
                 ELSE record
  /\ attached' = [attached EXCEPT ![p] = FALSE]
  /\ Goto(p, "glob")
  /\ DisturbAll
  /\ UNCHANGED <<kernel, outputs, hostsFn, tunGate, args, scan, choice>>

\* The shell is busybox ash, whose local variables start with the value of the
\* caller's variable of that name; ip-up has one called gateway.
Inherited(p) == IF job[p].kind \in {"linkup", "peerup"} THEN job[p].gw ELSE None

\* A for loop expands its globs once, before its first iteration.  A list that
\* is not split is one word, which no record has for a name.
Glob(p) ==
  /\ pc[p] = "glob"
  /\ seen' = [seen EXCEPT ![p] =
                {i \in Ifaces : record[i] # None /\ Splits(p)}]
  /\ cur' = [cur EXCEPT ![p] = 1]
  /\ gateway' = [gateway EXCEPT ![p] = IF pass[p] = 1 THEN Inherited(p) ELSE @]
  /\ clean' = [clean EXCEPT ![p] = Splits(p) /\ (pass[p] = 1 \/ @)]
  /\ Goto(p, "test")
  /\ UNCHANGED <<system, args, attached, pass, topIface, hdr, del, ok, tun>>

\* [ -f "$interface" ] && notUnplugged "$interface", the latter in the first
\* loop only.
Test(p) ==
  LET i == Priority[cur[p]] IN
  /\ pc[p] = "test"
  /\ cur[p] <= Len(Priority)
  /\ IF i \in seen[p] /\ record[i] # None /\ (pass[p] = 1 => NotUnplugged(i))
       THEN Goto(p, "read") /\ UNCHANGED cur
       ELSE cur' = [cur EXCEPT ![p] = @ + 1] /\ UNCHANGED pc
  /\ UNCHANGED <<system, args, attached, pass, seen, choice, clean>>

\* read -r resolvDev gateway: a record not yet written reads as two empty
\* strings, one removed meanwhile leaves the variables as they were.
Read(p) ==
  LET i == Priority[cur[p]] IN
  /\ pc[p] = "read"
  /\ IF HasGateway(i)
       THEN /\ topIface' = [topIface EXCEPT ![p] = i]
            /\ gateway' = [gateway EXCEPT ![p] = record[i]]
            /\ Goto(p, "trunc")
            /\ UNCHANGED cur
       ELSE /\ cur' = [cur EXCEPT ![p] = @ + 1]
            /\ gateway' = [gateway EXCEPT ![p] =
                             IF record[i] = Blank THEN None ELSE @]
            /\ Goto(p, "test")
            /\ UNCHANGED topIface
  /\ UNCHANGED <<system, args, attached, pass, seen, hdr, del, ok, tun, clean>>

\* Mutant of EndOfScan: the loops start over for ever.
EndOfScanAgain(p) ==
  /\ pc[p] = "test"
  /\ cur[p] > Len(Priority)
  /\ pass' = [pass EXCEPT ![p] = @ + 1]
  /\ Goto(p, "glob")
  /\ UNCHANGED <<system, args, attached, cur, seen, choice, clean>>

\* A loop found nothing: the second one ignores the carriers (the second line
\* of gateway.priority is blank, so it has the first one's order), and after
\* that the given interface is taken.
EndOfScan(p) ==
  /\ pc[p] = "test"
  /\ cur[p] > Len(Priority)
  /\ IF pass[p] = 1
       THEN /\ pass' = [pass EXCEPT ![p] = 2]
            /\ Goto(p, "glob")
            /\ UNCHANGED topIface
       ELSE /\ topIface' = [topIface EXCEPT ![p] = GateArg(p)]
            /\ Goto(p, "trunc")
            /\ UNCHANGED pass
  /\ UNCHANGED <<system, args, attached, cur, seen, gateway, hdr, del, ok, tun,
                 clean>>

-----------------------------------------------------------------------------
(* setGateway: resolv.conf, then the default routes                        *)

\* The pipeline opens the record and truncates resolv.conf ...
Truncate(p) ==
  LET t == topIface[p] IN
  /\ pc[p] = "trunc"
  /\ hdr' = [hdr EXCEPT ![p] =
               IF t # None /\ HasGateway(t) THEN t ELSE None]
  /\ resolvConf' = None
  /\ Goto(p, "write")
  /\ DisturbOthers(p)
  /\ UNCHANGED <<files, kernel, etcHosts, args, attached, scan, pick, del, ok,
                 tun>>

\* ... and then writes what it read.
AfterWrite(p) ==
  CASE topIface[p] = None -> "hosts"    \* return 1: only callers without $1
    [] topIface[p] # None /\ gateway[p] # None -> "snap"
    [] OTHER -> "flush"

WriteResolv(p) ==
  /\ pc[p] = "write"
  /\ resolvConf' = hdr[p]
  /\ Goto(p, AfterWrite(p))
  /\ DisturbOthers(p)
  /\ UNCHANGED <<files, kernel, etcHosts, args, locals>>

Target(p) == <<gateway[p], topIface[p]>>

\* Mutants of Snapshot: only the interface's own old routes are deleted; the new
\* route is added only when there is no other; the old ones go first.
SnapshotOwn(p) ==
  /\ pc[p] = "snap"
  /\ Splits(p)
  /\ del' = [del EXCEPT ![p] = {r \in routes : r[2] = topIface[p]} \ {Target(p)}]
  /\ Goto(p, IF Target(p) \in routes THEN "del" ELSE "add")
  /\ UNCHANGED <<system, args, attached, scan, pick, hdr, ok, tun, clean>>

SnapshotNoAdd(p) ==
  /\ pc[p] = "snap"
  /\ Splits(p)
  /\ del' = [del EXCEPT ![p] = routes \ {Target(p)}]
  /\ Goto(p, IF routes # {} THEN "del" ELSE "add")
  /\ UNCHANGED <<system, args, attached, scan, pick, hdr, ok, tun, clean>>

SnapshotFlush(p) ==
  /\ pc[p] = "snap"
  /\ Splits(p)
  /\ routes' = routes \cap {Target(p)}
  /\ Goto(p, IF Target(p) \in routes THEN "del" ELSE "add")
  /\ DisturbOthers(p)
  /\ UNCHANGED <<files, carrier, addr, nat, outputs, args, locals>>

\* route -n: note the routes to delete, and whether the new one is missing.
Snapshot(p) ==
  /\ pc[p] = "snap"
  /\ Splits(p)
  /\ del' = [del EXCEPT ![p] = routes \ {Target(p)}]
  /\ Goto(p, IF Target(p) \in routes THEN "del" ELSE "add")
  /\ UNCHANGED <<system, args, attached, scan, pick, hdr, ok, tun, clean>>

\* Not split, a line of route -n has neither gateway nor interface, the address
\* keeps the blank that ip-up put before it, and the list of old routes is one
\* word: the add fails, and so does the only del, unless there is no route.
SnapshotUnsplit(p) ==
  /\ pc[p] = "snap"
  /\ ~Splits(p)
  /\ ok' = [ok EXCEPT ![p] = routes = {}]
  /\ Goto(p, "del")
  /\ UNCHANGED <<system, args, attached, scan, pick, hdr, del, tun, clean>>

\* route add default gw: the kernel refuses a gateway it cannot reach.  The
\* exit status of the command is not looked at.
AddRoute(p) ==
  /\ pc[p] = "add"
  /\ routes' = IF addr[topIface[p]] = gateway[p] THEN routes \cup {Target(p)}
                                                 ELSE routes
  /\ Goto(p, "del")
  /\ DisturbOthers(p)
  /\ UNCHANGED <<files, carrier, addr, nat, outputs, args, locals>>

\* route del default, one old route at a time; the status of the last one is
\* that of gateUp.
DelRoute(p) ==
  /\ pc[p] = "del"
  /\ \E r \in del[p] :
       /\ routes' = routes \ {r}
       /\ del' = [del EXCEPT ![p] = @ \ {r}]
       /\ ok' = [ok EXCEPT ![p] = r \in routes]
  /\ DisturbOthers(p)
  /\ UNCHANGED <<files, carrier, addr, nat, outputs, args, pc, attached, scan,
                 pick, hdr, tun>>

\* Without a gateway only the interface's own default routes are deleted.
FlushRoute(p) ==
  /\ pc[p] = "flush"
  /\ \E r \in routes : r[2] = topIface[p] /\ routes' = routes \ {r}
  /\ DisturbOthers(p)
  /\ UNCHANGED <<files, carrier, addr, nat, outputs, pc, args, locals>>

\* What each caller does with gateUp's exit status: ipUp returns (and deconfig
\* then gives the address up after all), ip-up skips hostsUp, the others take no
\* notice.
AfterGateUp(p) ==
  CASE ok[p] \/ job[p].kind \notin Ups -> "hosts"
    [] ~ok[p] /\ job[p].kind \in {"linkup", "peerup"} -> "tunRead"
    [] ~ok[p] /\ job[p].kind = "revert" -> "disable"
    [] OTHER -> "exit"

GateUpReturns(p) ==
  /\ \/ pc[p] = "del" /\ del[p] = {}
     \/ pc[p] = "flush" /\ RoutesWithout(topIface[p]) = routes
  /\ Goto(p, AfterGateUp(p))
  /\ UNCHANGED <<system, args, locals, clean>>

\* default.script, deconfig when ipUp has failed: ifconfig $interface 0
Disable(p) ==
  /\ pc[p] = "disable"
  /\ addr' = [addr EXCEPT ![job[p].dev] = None]
  /\ routes' = RoutesWithout(job[p].dev)
  /\ Goto(p, "exit")
  /\ DisturbAll
  /\ UNCHANGED <<files, carrier, nat, outputs, args, locals>>

-----------------------------------------------------------------------------
(* hostsUp                                                                 *)

HostsFile(p) ==
  /\ pc[p] = "hosts"
  /\ hostsFn' = hostsFn \cup ({GateArg(p)} \ {None})
  /\ Goto(p, "hostOpen")
  /\ DisturbOthers(p)
  /\ UNCHANGED <<record, tunGate, kernel, outputs, args, locals>>

\* The redirection truncates /etc/hosts.
HostOpen(p) ==
  /\ pc[p] = "hostOpen"
  /\ etcHosts' = [own |-> None, merged |-> {}]
  /\ Goto(p, "hostTop")
  /\ DisturbOthers(p)
  /\ UNCHANGED <<files, kernel, resolvConf, args, locals>>

\* netIfIP $(topIf), which means the script's own interface when topIf fails;
\* our name maps to 127.0.0.1 when that has no address, or when what ifconfig
\* prints is not split.
OwnHost(t, i) ==
  LET own == IF t = None THEN i ELSE t
  IN  IF addr[own] = None THEN None ELSE own

HostTop(p) ==
  /\ pc[p] = "hostTop"
  /\ hdr' = [hdr EXCEPT ![p] =
               IF Splits(p) THEN OwnHost(resolvConf, job[p].dev) ELSE None]
  /\ Goto(p, "hostMerge")
  /\ UNCHANGED <<system, args, attached, scan, pick, del, ok, tun, clean>>

\* Mutant of HostMerge: only the script's own hosts file is copied.
HostMergeOwn(p) ==
  /\ pc[p] = "hostMerge"
  /\ etcHosts' = [own |-> hdr[p], merged |-> hostsFn \cap {job[p].dev}]
  /\ Goto(p, "tunRead")
  /\ DisturbOthers(p)
  /\ UNCHANGED <<files, kernel, resolvConf, args, locals>>

HostMerge(p) ==
  /\ pc[p] = "hostMerge"
  /\ etcHosts' = [own |-> hdr[p], merged |-> hostsFn]
  /\ Goto(p, "tunRead")
  /\ DisturbOthers(p)
  /\ UNCHANGED <<files, kernel, resolvConf, args, locals>>

-----------------------------------------------------------------------------
(* gateUpdated, of sitecfg.sh                                              *)

TunRead(p) ==
  /\ pc[p] = "tunRead"
  /\ tun' = [tun EXCEPT ![p] = tunGate]
  /\ Goto(p, "topIf")
  /\ UNCHANGED <<system, args, attached, scan, pick, hdr, del, ok, clean>>

\* Mutant of AfterTopIf: nobody asks whether the interface changed.
AfterTopIfAlways(t, old) ==
  IF old # None /\ t # old THEN "masqDel" ELSE "tunWrite"

AfterTopIf(t, old) ==
  CASE t # None /\ t = old -> "exit"
    [] old # None /\ t # old -> "masqDel"
    [] OTHER -> "tunWrite"

\* What topIf prints: nothing, the interface, or the whole line.
TopName(p) == IF Splits(p) \/ resolvConf = None THEN resolvConf
                                               ELSE Line(resolvConf)

TopIf(p) ==
  /\ pc[p] = "topIf"
  /\ hdr' = [hdr EXCEPT ![p] = TopName(p)]
  /\ Goto(p, AfterTopIf(TopName(p), tun[p]))
  /\ UNCHANGED <<system, args, attached, scan, pick, del, ok, tun, clean>>

\* The interface that iptables gets with the name w: split, a line's first word.
Masqueraded(p, w) == {i \in Ifaces : w = i \/ (w = Line(i) /\ Splits(p))}

\* iptables -D fails when there is no such rule.
MasqDel(p) ==
  /\ pc[p] = "masqDel"
  /\ nat' = [i \in Ifaces |-> IF i \in Masqueraded(p, tun[p]) /\ nat[i] > 0
                                THEN nat[i] - 1 ELSE nat[i]]
  /\ Goto(p, "tunWrite")
  /\ DisturbOthers(p)
  /\ UNCHANGED <<files, carrier, addr, routes, outputs, args, locals>>

\* Mutant of TunWrite: /run/tunGate is not cleared when there is no gateway.
TunWriteSome(p) ==
  /\ pc[p] = "tunWrite"
  /\ tunGate' = IF hdr[p] = None THEN tunGate ELSE hdr[p]
  /\ Goto(p, IF hdr[p] = None THEN "exit" ELSE "masqAdd")
  /\ DisturbOthers(p)
  /\ UNCHANGED <<record, hostsFn, kernel, outputs, args, locals>>

TunWrite(p) ==
  /\ pc[p] = "tunWrite"
  /\ tunGate' = hdr[p]
  /\ Goto(p, IF hdr[p] = None THEN "exit" ELSE "masqAdd")
  /\ DisturbOthers(p)
  /\ UNCHANGED <<record, hostsFn, kernel, outputs, args, locals>>

\* iptables -A appends another rule even if there is one already; what it does
\* with a name that has a blank in it matters to no interface.
MasqAdd(p) ==
  /\ pc[p] = "masqAdd"
  /\ \A i \in Masqueraded(p, hdr[p]) : nat[i] < MaxRules
  /\ nat' = [i \in Ifaces |-> IF i \in Masqueraded(p, hdr[p]) THEN nat[i] + 1
                                                             ELSE nat[i]]
  /\ Goto(p, "exit")
  /\ DisturbOthers(p)
  /\ UNCHANGED <<files, carrier, addr, routes, outputs, args, locals>>

\* The process ends and its variables with it.
Exit(p) ==
  /\ pc[p] = "exit"
  /\ Goto(p, "idle")
  /\ job' = [job EXCEPT ![p] = NoJob]
  /\ attached' = [attached EXCEPT ![p] = FALSE]
  /\ pass' = [pass EXCEPT ![p] = 1]
  /\ cur' = [cur EXCEPT ![p] = 1]
  /\ seen' = [seen EXCEPT ![p] = {}]
  /\ topIface' = [topIface EXCEPT ![p] = None]
  /\ gateway' = [gateway EXCEPT ![p] = None]
  /\ hdr' = [hdr EXCEPT ![p] = None]
  /\ del' = [del EXCEPT ![p] = {}]
  /\ ok' = [ok EXCEPT ![p] = TRUE]
  /\ tun' = [tun EXCEPT ![p] = None]
  /\ UNCHANGED <<system, started, clean>>

-----------------------------------------------------------------------------
Step(p) ==
  \/ DropRecord(p) \/ GateDown(p) \/ Ifconfig(p) \/ IfconfigRefused(p)
  \/ Unlink(p) \/ Create(p) \/ Header(p)
  \/ Glob(p) \/ Test(p) \/ Read(p) \/ EndOfScan(p)
  \/ Truncate(p) \/ WriteResolv(p)
  \/ Snapshot(p) \/ SnapshotUnsplit(p) \/ AddRoute(p) \/ DelRoute(p) \/ FlushRoute(p)
  \/ GateUpReturns(p) \/ Disable(p)
  \/ HostsFile(p) \/ HostOpen(p) \/ HostTop(p) \/ HostMerge(p)
  \/ TunRead(p) \/ TopIf(p) \/ MasqDel(p) \/ TunWrite(p) \/ MasqAdd(p)
  \/ Exit(p)

Next == \E p \in Procs : Start(p) \/ Step(p)

Spec == Init /\ [][Next]_vars

-----------------------------------------------------------------------------
(* Properties                                                              *)

AllIdle == \A p \in Procs : pc[p] = "idle"

\* gateway.priority lists i before j.
Before(i, j) == \E k \in 1..Len(Priority) :
                  Priority[k] = i /\ \A l \in 1..k : Priority[l] # j

\* The interface that ought to be the gateway: of those with a recorded
\* gateway, one whose cable is in before one whose cable is out, and the
\* first of them in gateway.priority.
Better(i, j) ==
  \/ NotUnplugged(i) /\ ~NotUnplugged(j)
  \/ (NotUnplugged(i) <=> NotUnplugged(j)) /\ Before(i, j)
BestOf(S, w) == w \in S /\ \A j \in S \ {w} : Better(w, j)

Recorded == {i \in Ifaces : HasGateway(i)}
Alive    == {i \in Recorded : addr[i] = record[i]}

\* pc's after gateUp has returned, after hostsUp has, and after gateUpdated.
Finished   == {"exit", "idle"}
HostsDone  == {"tunRead", "topIf", "masqDel", "tunWrite", "masqAdd"}
              \cup Finished
GateUpDone == {"hosts", "hostOpen", "hostTop", "hostMerge"} \cup HostsDone

\* Whatever overlapping scripts left behind, one gateUp that nobody disturbs
\* puts it right: resolv.conf names the best recorded interface, its default
\* route is the only one (or none is left, if its address is gone), and
\* without any record resolv.conf names no interface.
UndisturbedGateUp ==
  \A p \in Procs : clean[p] /\ pc[p] \in GateUpDone =>
    /\ \A w \in Ifaces : BestOf(Recorded, w) =>
         /\ resolvConf = w
         /\ routes \subseteq {<<record[w], w>>}
         /\ addr[w] = record[w] => routes = {<<record[w], w>>}
    /\ Recorded = {} => resolvConf = None

\* The script whose gateUp nobody disturbed also leaves an /etc/hosts that has
\* this host under the gateway interface's address and merges the hosts files
\* of exactly the interfaces that have one.
UndisturbedHosts ==
  \A p \in Procs : clean[p] /\ pc[p] \in HostsDone =>
    /\ etcHosts.merged = hostsFn
    /\ resolvConf # None => etcHosts.own = OwnHost(resolvConf, resolvConf)

\* ... and gateUpdated then leaves the tunnel's gateway where resolv.conf is.
UndisturbedTunnel ==
  \A p \in Procs : clean[p] /\ pc[p] \in Finished => tunGate = resolvConf

\* setGateway makes before it breaks: while nobody interferes, a host with a
\* default route is not without one at any moment of the change to a gateway
\* that can be reached.
MakeBeforeBreak ==
  [][\A p \in Procs :
       /\ clean[p] /\ clean'[p]
       /\ pc[p] \in {"snap", "add", "del"}
       /\ addr[topIface[p]] = gateway[p]
       /\ routes # {}
       => routes' # {}]_vars

\* When no script runs, the masquerade rules are those of /run/tunGate: one for
\* the interface it names and none for any other, also when an ip-up without
\* IFS wrote a line there that names no interface, and when the next script
\* replaces it.  This holds of scripts that take turns; two gateUpdated at the
\* same time may leave a second rule.
NatMatchesTunGate ==
  AllIdle => \A i \in Ifaces : nat[i] = IF i = tunGate THEN 1 ELSE 0

\* What gateway.priority promises whenever interfaces came up or went down:
\* of the interfaces that are up with a gateway, the first one listed is the
\* default route and the source of resolv.conf.  The scripts that keep it, in
\* turn, are those that end in gateUp, of links whose peer has no PEERNAME and
\* devices whose ifconfig does not fail.
GatewayFollowsPriority ==
  AllIdle => \A w \in Ifaces : BestOf(Alive, w) =>
               routes = {<<record[w], w>>} /\ resolvConf = w

=============================================================================
