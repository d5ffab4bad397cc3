--------------------------- MODULE GatewayProofs ---------------------------
(***************************************************************************)
(* Proofs about Gateway, for any number of scripts and interfaces: gateUp, *)
(* what the scripts do after it, and scripts that run one after the other. *)
(***************************************************************************)
EXTENDS Gateway, TLAPS

\* A script that reads a record is within its list of interfaces.
ReadInRange == \A p \in Procs : pc[p] = "read" => cur[p] <= Len(Priority)

\* setGateway changes routes only for an interface with a gateway.
PickMade == \A p \in Procs : pc[p] \in {"snap", "add", "del"} =>
              topIface[p] \in Ifaces /\ gateway[p] \in Nets

\* What resolv.conf and /etc/hosts are written from is an interface.
HeaderRead == \A p \in Procs : pc[p] \in {"write", "hostMerge"} =>
                hdr[p] \in Ifaces \cup {None}

\* Where a script has not come to gateUp's scan.
Unscanned == {"idle", "drop", "gateDown", "ifconfig", "unlink", "create",
              "header"}

\* A scan counts as undisturbed only in a script that splits its list.
CleanSplits == \A p \in Procs :
                 clean[p] /\ pc[p] \notin Unscanned \cup {"glob"} => Splits(p)

TypeInv == TypeOK /\ ReadInRange /\ PickMade /\ HeaderRead /\ CleanSplits

\* Every entry of gateway.priority's list is an interface.
LEMMA PriorityTypes ==
  /\ Len(Priority) \in Nat
  /\ \A k \in 1..Len(Priority) : Priority[k] \in Ifaces
BY ConstantsAssumption

\* At boot no script runs and no interface is configured.
LEMMA TypeInit == Init => TypeInv
BY ConstantsAssumption, PriorityTypes
   DEF Init, TypeInv, TypeOK, ReadInRange, PickMade, HeaderRead, CleanSplits, Names, NoJob, Script, Labels

\* The start of a script keeps the types.
LEMMA TypeLaunch ==
  ASSUME TypeInv, NEW p \in Procs, NEW kind \in JobKinds, NEW i \in Ifaces,
         NEW n \in Nets \cup {None}, NEW g \in Nets \cup {None},
         NEW label \in {"drop", "gateDown", "ifconfig", "glob"},
         Launch(p, kind, i, n, g, label),
         carrier' \in [Ifaces -> BOOLEAN], clean' \in [Procs -> BOOLEAN],
         \A q \in Procs : clean'[q] => clean[q]
  PROVE  TypeInv'
<1>0. started' \in 0..MaxJobs
  <2>1. started < MaxJobs /\ started' = started + 1
    BY Zenon DEF Launch
  <2>2. started \in 0..MaxJobs /\ MaxJobs \in Nat
    BY Zenon, ConstantsAssumption DEF TypeInv, TypeOK
  <2> QED BY <2>1, <2>2
<1> USE DEF Launch, Goto, files, outputs, locals, scan, choice, pick
<1>1. job' \in [Procs -> Script]
  BY DEF TypeOK, TypeInv, Script
<1>2. pc' \in [Procs -> Labels] /\ ReadInRange' /\ PickMade' /\ HeaderRead'
  BY DEF TypeInv, TypeOK, ReadInRange, PickMade, HeaderRead, Labels
<1>3. CleanSplits'
  BY DEF TypeInv, TypeOK, CleanSplits, Splits, Unscanned
<1> QED BY <1>0, <1>1, <1>2, <1>3 DEF TypeInv, TypeOK

\* Each event that starts a script is such a start.
LEMMA TypeStart ==
  ASSUME TypeInv, NEW p \in Procs, Start(p)
  PROVE  TypeInv'
<1> USE DEF JobKinds, DisturbAll
<1>1. clean \in [Procs -> BOOLEAN] /\ carrier \in [Ifaces -> BOOLEAN]
  BY DEF TypeInv, TypeOK
<1>2. PICK i \in Ifaces :
        \/ Deconfig(p, i) \/ LinkDown(p, i) \/ Ifdown(p, i) \/ Unplug(p, i)
        \/ \E n \in Nets : \E g \in {n, None} :
             Bound(p, i, n, g) \/ Revert(p, i, n, g) \/ LinkUp(p, i, n, g)
  BY DEF Start
<1>3. CASE Deconfig(p, i)  BY <1>1, <1>3, TypeLaunch DEF Deconfig
<1>4. CASE LinkDown(p, i)  BY <1>1, <1>4, TypeLaunch DEF LinkDown
<1>5. CASE Ifdown(p, i)    BY <1>1, <1>5, TypeLaunch DEF Ifdown
<1>6. CASE Unplug(p, i)    BY <1>1, <1>6, TypeLaunch DEF Unplug
<1>7. CASE \E n \in Nets : \E g \in {n, None} :
             Bound(p, i, n, g) \/ Revert(p, i, n, g) \/ LinkUp(p, i, n, g)
  <2>1. PICK n \in Nets, g \in Nets \cup {None} :
          Bound(p, i, n, g) \/ Revert(p, i, n, g) \/ LinkUp(p, i, n, g)
    BY <1>7
  <2>2. CASE Bound(p, i, n, g)   BY <1>1, <2>2, TypeLaunch DEF Bound
  <2>3. CASE Revert(p, i, n, g)  BY <1>1, <2>3, TypeLaunch DEF Revert
  <2>4. CASE LinkUp(p, i, n, g)  BY <1>1, <2>4, TypeLaunch DEF LinkUp
  <2> QED BY <2>1, <2>2, <2>3, <2>4
<1> QED BY <1>2, <1>3, <1>4, <1>5, <1>6, <1>7

\* Where a step takes a script: only the test of a record leads to its reading.
LEMMA StepControl ==
  ASSUME NEW p \in Procs, Step(p)
  PROVE  \/ pc' = pc
         \/ \E label \in Labels \ {"read"} : Goto(p, label)
         \/ Test(p) /\ Goto(p, "read")
BY DEF Step, Labels, AfterIfconfig, AfterWrite, AfterGateUp, AfterTopIf,
       DropRecord, GateDown, Ifconfig, IfconfigRefused, Disable, Unlink, Create, Header, Glob,
       Test, Read, EndOfScan, Truncate, WriteResolv, Snapshot, SnapshotUnsplit, AddRoute, DelRoute,
       FlushRoute, GateUpReturns, HostsFile, HostOpen, HostTop, HostMerge, TunRead,
       TopIf, MasqDel, TunWrite, MasqAdd, Exit

\* A step leads its script to one of the labels.
LEMMA TypeControl ==
  ASSUME TypeInv, NEW p \in Procs, Step(p)
  PROVE  pc' \in [Procs -> Labels] /\ clean' \in [Procs -> BOOLEAN]
<1>1. pc \in [Procs -> Labels] /\ clean \in [Procs -> BOOLEAN]
  BY DEF TypeInv, TypeOK
<1>2. clean' \in [Procs -> BOOLEAN]
  BY <1>1 DEF Step, DisturbAll, DisturbOthers, locals, scan, choice,
       DropRecord, GateDown, Ifconfig, IfconfigRefused, Disable, Unlink, Create, Header, Glob,
       Test, Read, EndOfScan, Truncate, WriteResolv, Snapshot, SnapshotUnsplit, AddRoute, DelRoute,
       FlushRoute, GateUpReturns, HostsFile, HostOpen, HostTop, HostMerge, TunRead,
       TopIf, MasqDel, TunWrite, MasqAdd, Exit
<1>3. "read" \in Labels
  BY DEF Labels
<1> QED BY <1>1, <1>2, <1>3, StepControl DEF Goto

\* The position of a scan moves in four actions.
LEMMA StepCursor ==
  ASSUME NEW p \in Procs, Step(p)
  PROVE  UNCHANGED cur \/ Glob(p) \/ Test(p) \/ Read(p) \/ Exit(p)
BY DEF Step, args, scan, choice, locals,
       DropRecord, GateDown, Ifconfig, IfconfigRefused, Disable, Unlink, Create, Header, Glob,
       Test, Read, EndOfScan, Truncate, WriteResolv, Snapshot, SnapshotUnsplit, AddRoute, DelRoute,
       FlushRoute, GateUpReturns, HostsFile, HostOpen, HostTop, HostMerge, TunRead,
       TopIf, MasqDel, TunWrite, MasqAdd, Exit

\* Every step of a running script keeps the types.
LEMMA TypeOKStep ==
  ASSUME TypeInv, NEW p \in Procs, Step(p)
  PROVE  TypeOK'
<1> USE DEF files, kernel, outputs, system, args, scan, pick, choice, locals
<1>1. pc' \in [Procs -> Labels] /\ clean' \in [Procs -> BOOLEAN]
  BY TypeControl
<1>2. /\ job[p].dev \in Ifaces \cup {None}
      /\ job[p].net \in Nets \cup {None}
      /\ job[p].gw \in Nets \cup {None}
  BY DEF TypeOK, TypeInv, Script
<1>record. record \in [Ifaces -> Nets \cup {None, Blank}]
  BY DEF TypeInv, TypeOK
<1>addr. addr \in [Ifaces -> Nets \cup {None}]
  BY DEF TypeInv, TypeOK
<1>routes. routes \subseteq Nets \X Ifaces
  BY DEF TypeInv, TypeOK
<1>resolvConf. resolvConf \in Ifaces \cup {None}
  BY DEF TypeInv, TypeOK
<1>hostsFn. hostsFn \subseteq Ifaces
  BY DEF TypeInv, TypeOK
<1>etcHosts. etcHosts \in [own : Ifaces \cup {None}, merged : SUBSET Ifaces]
  BY DEF TypeInv, TypeOK
<1>tunGate. tunGate \in Names
  BY DEF TypeInv, TypeOK
<1>nat. nat \in [Ifaces -> 0..MaxRules]
  BY DEF TypeInv, TypeOK
<1>job. job \in [Procs -> Script]
  BY DEF TypeInv, TypeOK
<1>attached. attached \in [Procs -> BOOLEAN]
  BY DEF TypeInv, TypeOK
<1>pass. pass \in [Procs -> {1, 2}]
  BY DEF TypeInv, TypeOK
<1>cur. cur \in [Procs -> 1..Len(Priority) + 1]
  BY DEF TypeInv, TypeOK
<1>seen. seen \in [Procs -> SUBSET Ifaces]
  BY DEF TypeInv, TypeOK
<1>topIface. topIface \in [Procs -> Ifaces \cup {None}]
  BY DEF TypeInv, TypeOK
<1>gateway. gateway \in [Procs -> Nets \cup {None}]
  BY DEF TypeInv, TypeOK
<1>hdr. hdr \in [Procs -> Names]
  BY DEF TypeInv, TypeOK
<1>del. del \in [Procs -> SUBSET (Nets \X Ifaces)]
  BY DEF TypeInv, TypeOK
<1>ok. ok \in [Procs -> BOOLEAN]
  BY DEF TypeInv, TypeOK
<1>tun. tun \in [Procs -> Names]
  BY DEF TypeInv, TypeOK
<1>max. MaxRules \in Nat
  BY ConstantsAssumption
<1>read. pc[p] = "read" => cur[p] \in 1..Len(Priority)
  BY <1>cur, PriorityTypes DEF TypeInv, ReadInRange
<1>3. CASE DropRecord(p)
  <2>1. record' \in [Ifaces -> Nets \cup {None, Blank}]
    BY <1>2, <1>record, <1>3
    DEF DropRecord, Orphan
  <2>2. attached' \in [Procs -> BOOLEAN]
    BY <1>2, <1>attached, <1>3
    DEF DropRecord, Orphan
  <2> QED BY <1>1, <1>3, <2>1, <2>2 DEF TypeOK, TypeInv, DropRecord
<1>4. CASE GateDown(p)
  <2>1. record' \in [Ifaces -> Nets \cup {None, Blank}]
    BY <1>2, <1>record, <1>4
    DEF GateDown, Orphan
  <2>2. hostsFn' \subseteq Ifaces
    BY <1>2, <1>hostsFn, <1>4
    DEF GateDown, Orphan
  <2>3. attached' \in [Procs -> BOOLEAN]
    BY <1>2, <1>attached, <1>4
    DEF GateDown, Orphan
  <2> QED BY <1>1, <1>4, <2>1, <2>2, <2>3 DEF TypeOK, TypeInv, GateDown
<1>5. CASE Ifconfig(p)
  <2>1. addr' \in [Ifaces -> Nets \cup {None}]
    BY <1>2, <1>addr, <1>5
    DEF Ifconfig, RoutesWithout
  <2>2. routes' \subseteq Nets \X Ifaces
    BY <1>2, <1>routes, <1>addr, <1>5, <1>topIface, <1>gateway
    DEF Ifconfig, RoutesWithout
  <2> QED BY <1>1, <1>5, <2>1, <2>2 DEF TypeOK, TypeInv, Ifconfig
<1>6. CASE Unlink(p)
  <2>1. record' \in [Ifaces -> Nets \cup {None, Blank}]
    BY <1>2, <1>record, <1>6
    DEF Unlink, Orphan
  <2>2. attached' \in [Procs -> BOOLEAN]
    BY <1>2, <1>attached, <1>6
    DEF Unlink, Orphan
  <2> QED BY <1>1, <1>6, <2>1, <2>2 DEF TypeOK, TypeInv, Unlink
<1>7. CASE Create(p)
  <2>1. record' \in [Ifaces -> Nets \cup {None, Blank}]
    BY <1>2, <1>record, <1>7
    DEF Create
  <2>2. attached' \in [Procs -> BOOLEAN]
    BY <1>2, <1>attached, <1>7
    DEF Create
  <2> QED BY <1>1, <1>7, <2>1, <2>2 DEF TypeOK, TypeInv, Create
<1>8. CASE Header(p)
  <2>1. record' \in [Ifaces -> Nets \cup {None, Blank}]
    BY <1>2, <1>record, <1>8
    DEF Header
  <2>2. attached' \in [Procs -> BOOLEAN]
    BY <1>2, <1>attached, <1>8
    DEF Header
  <2> QED BY <1>1, <1>8, <2>1, <2>2 DEF TypeOK, TypeInv, Header
<1>9. CASE Glob(p)
  <2>1. seen' \in [Procs -> SUBSET Ifaces]
    BY <1>2, <1>seen, <1>9
    DEF Glob, Inherited
  <2>2. cur' \in [Procs -> 1..Len(Priority) + 1]
    BY <1>2, <1>cur, <1>9, PriorityTypes
    DEF Glob, Inherited
  <2>3. gateway' \in [Procs -> Nets \cup {None}]
    BY <1>2, <1>gateway, <1>record, <1>9, <1>cur
    DEF Glob, Inherited
  <2> QED BY <1>1, <1>9, <2>1, <2>2, <2>3 DEF TypeOK, TypeInv, Glob
<1>10. CASE Test(p)
  <2>1. cur' \in [Procs -> 1..Len(Priority) + 1]
    BY <1>2, <1>cur, <1>10, PriorityTypes
    DEF Test
  <2> QED BY <1>1, <1>10, <2>1 DEF TypeOK, TypeInv, Test
<1>11. CASE Read(p)
  <2>1. topIface' \in [Procs -> Ifaces \cup {None}]
    BY <1>2, <1>topIface, <1>11, PriorityTypes, <1>cur, <1>read
    DEF Read, HasGateway
  <2>2. gateway' \in [Procs -> Nets \cup {None}]
    BY <1>2, <1>gateway, <1>record, <1>11, <1>cur, <1>read
    DEF Read, HasGateway
  <2>3. cur' \in [Procs -> 1..Len(Priority) + 1]
    BY <1>2, <1>cur, <1>11, PriorityTypes, <1>read
    DEF Read, HasGateway
  <2> QED BY <1>1, <1>11, <2>1, <2>2, <2>3 DEF TypeOK, TypeInv, Read
<1>12. CASE EndOfScan(p)
  <2>1. pass' \in [Procs -> {1, 2}]
    BY <1>2, <1>pass, <1>12
    DEF EndOfScan, GateArg
  <2>2. topIface' \in [Procs -> Ifaces \cup {None}]
    BY <1>2, <1>topIface, <1>12, PriorityTypes, <1>cur
    DEF EndOfScan, GateArg
  <2> QED BY <1>1, <1>12, <2>1, <2>2 DEF TypeOK, TypeInv, EndOfScan
<1>13. CASE Truncate(p)
  <2>1. hdr' \in [Procs -> Names]
    BY <1>2, <1>hdr, <1>topIface, <1>13
    DEF Truncate, Names
  <2>2. resolvConf' \in Ifaces \cup {None}
    BY <1>2, <1>resolvConf, <1>hdr, <1>13
    DEF Truncate
  <2> QED BY <1>1, <1>13, <2>1, <2>2 DEF TypeOK, TypeInv, Truncate
<1>14. CASE WriteResolv(p)
  <2>1. resolvConf' \in Ifaces \cup {None}
    BY <1>14 DEF WriteResolv, TypeInv, HeaderRead
  <2> QED BY <1>1, <1>14, <2>1 DEF TypeOK, TypeInv, WriteResolv
<1>15. CASE Snapshot(p)
  <2>1. del' \in [Procs -> SUBSET (Nets \X Ifaces)]
    BY <1>2, <1>del, <1>routes, <1>15, <1>topIface, <1>gateway
    DEF Snapshot, Target
  <2> QED BY <1>1, <1>15, <2>1 DEF TypeOK, TypeInv, Snapshot
<1>16. CASE AddRoute(p)
  <2>1. routes' \subseteq Nets \X Ifaces
    BY <1>routes, <1>16 DEF TypeInv, PickMade, AddRoute, Target
  <2> QED BY <1>1, <1>16, <2>1 DEF TypeOK, TypeInv, AddRoute
<1>17. CASE DelRoute(p)
  <2>1. routes' \subseteq Nets \X Ifaces
    BY <1>2, <1>routes, <1>addr, <1>17, <1>topIface, <1>gateway
    DEF DelRoute
  <2>2. del' \in [Procs -> SUBSET (Nets \X Ifaces)]
    BY <1>2, <1>del, <1>routes, <1>17, <1>topIface, <1>gateway
    DEF DelRoute
  <2>3. ok' \in [Procs -> BOOLEAN]
    BY <1>2, <1>ok, <1>17
    DEF DelRoute
  <2> QED BY <1>1, <1>17, <2>1, <2>2, <2>3 DEF TypeOK, TypeInv, DelRoute
<1>18. CASE FlushRoute(p)
  <2>1. routes' \subseteq Nets \X Ifaces
    BY <1>2, <1>routes, <1>addr, <1>18, <1>topIface, <1>gateway
    DEF FlushRoute
  <2> QED BY <1>1, <1>18, <2>1 DEF TypeOK, TypeInv, FlushRoute
<1>19. CASE GateUpReturns(p)
  <2> QED BY <1>1, <1>19 DEF TypeOK, TypeInv, GateUpReturns
<1>20. CASE HostsFile(p)
  <2>1. hostsFn' \subseteq Ifaces
    BY <1>2, <1>hostsFn, <1>20
    DEF HostsFile, GateArg
  <2> QED BY <1>1, <1>20, <2>1 DEF TypeOK, TypeInv, HostsFile
<1>21. CASE HostTop(p)
  <2>1. hdr' \in [Procs -> Names]
    BY <1>2, <1>hdr, <1>resolvConf, <1>21
    DEF HostTop, OwnHost, Names
  <2> QED BY <1>1, <1>21, <2>1 DEF TypeOK, TypeInv, HostTop
<1>22. CASE HostMerge(p)
  <2>1. etcHosts' \in [own : Ifaces \cup {None}, merged : SUBSET Ifaces]
    BY <1>hostsFn, <1>22 DEF HostMerge, TypeInv, HeaderRead
  <2> QED BY <1>1, <1>22, <2>1 DEF TypeOK, TypeInv, HostMerge
<1>23. CASE TunRead(p)
  <2>1. tun' \in [Procs -> Names]
    BY <1>2, <1>tun, <1>tunGate, <1>23
    DEF TunRead
  <2> QED BY <1>1, <1>23, <2>1 DEF TypeOK, TypeInv, TunRead
<1>24. CASE TopIf(p)
  <2>1. hdr' \in [Procs -> Names]
    BY <1>hdr, <1>resolvConf, <1>24
    DEF TopIf, TopName, Names
  <2> QED BY <1>1, <1>24, <2>1 DEF TypeOK, TypeInv, TopIf
<1>25. CASE MasqDel(p)
  <2>1. nat' \in [Ifaces -> 0..MaxRules]
    BY <1>nat, <1>max, <1>25 DEF MasqDel
  <2> QED BY <1>1, <1>25, <2>1 DEF TypeOK, TypeInv, MasqDel
<1>26. CASE TunWrite(p)
  <2>1. tunGate' \in Names
    BY <1>2, <1>hdr, <1>26
    DEF TunWrite
  <2> QED BY <1>1, <1>26, <2>1 DEF TypeOK, TypeInv, TunWrite
<1>27. CASE MasqAdd(p)
  <2>1. nat' \in [Ifaces -> 0..MaxRules]
    BY <1>nat, <1>max, <1>27 DEF MasqAdd
  <2> QED BY <1>1, <1>27, <2>1 DEF TypeOK, TypeInv, MasqAdd
<1>28. CASE Exit(p)
  <2>1. job' \in [Procs -> Script]
    BY <1>2, <1>job, <1>28
    DEF Exit, NoJob, Script
  <2>2. attached' \in [Procs -> BOOLEAN]
    BY <1>2, <1>attached, <1>28
    DEF Exit, NoJob, Script
  <2>3. pass' \in [Procs -> {1, 2}]
    BY <1>2, <1>pass, <1>28
    DEF Exit, NoJob, Script
  <2>4. cur' \in [Procs -> 1..Len(Priority) + 1]
    BY <1>2, <1>cur, <1>28, PriorityTypes
    DEF Exit, NoJob, Script
  <2>5. seen' \in [Procs -> SUBSET Ifaces]
    BY <1>2, <1>seen, <1>28
    DEF Exit, NoJob, Script
  <2>6. topIface' \in [Procs -> Ifaces \cup {None}]
    BY <1>2, <1>topIface, <1>28, PriorityTypes, <1>cur
    DEF Exit, NoJob, Script
  <2>7. gateway' \in [Procs -> Nets \cup {None}]
    BY <1>2, <1>gateway, <1>record, <1>28, <1>cur
    DEF Exit, NoJob, Script
  <2>8. hdr' \in [Procs -> Names]
    BY <1>hdr, <1>28 DEF Exit, Names
  <2>9. del' \in [Procs -> SUBSET (Nets \X Ifaces)]
    BY <1>2, <1>del, <1>routes, <1>28, <1>topIface, <1>gateway
    DEF Exit, NoJob, Script
  <2>10. ok' \in [Procs -> BOOLEAN]
    BY <1>2, <1>ok, <1>28
    DEF Exit, NoJob, Script
  <2>11. tun' \in [Procs -> Names]
    BY <1>tun, <1>28 DEF Exit, Names
  <2> QED BY <1>1, <1>28, <2>1, <2>2, <2>3, <2>4, <2>5, <2>6, <2>7, <2>8, <2>9, <2>10, <2>11 DEF TypeOK, TypeInv, Exit
<1>29. CASE Disable(p)
  <2>1. addr' \in [Ifaces -> Nets \cup {None}]
    BY <1>addr, <1>29
    DEF Disable
  <2>2. routes' \subseteq Nets \X Ifaces
    BY <1>routes, <1>29
    DEF Disable, RoutesWithout
  <2> QED BY <1>1, <1>29, <2>1, <2>2 DEF TypeOK, TypeInv, Disable
<1>30. CASE IfconfigRefused(p)
  BY <1>1, <1>30 DEF TypeOK, TypeInv, IfconfigRefused
<1>31. CASE SnapshotUnsplit(p)
  <2>1. ok' \in [Procs -> BOOLEAN]
    BY <1>ok, <1>31 DEF SnapshotUnsplit
  <2> QED BY <1>1, <1>31, <2>1 DEF TypeOK, TypeInv, SnapshotUnsplit
<1>32. CASE HostOpen(p)
  <2>1. etcHosts' \in [own : Ifaces \cup {None}, merged : SUBSET Ifaces]
    BY <1>32 DEF HostOpen
  <2> QED BY <1>1, <1>32, <2>1 DEF TypeOK, TypeInv, HostOpen
<1> QED BY <1>3, <1>4, <1>5, <1>6, <1>7, <1>8, <1>9, <1>10, <1>11, <1>12, <1>13, <1>14, <1>15, <1>16,
     <1>17, <1>18, <1>19, <1>20, <1>21, <1>22, <1>23, <1>24, <1>25, <1>26, <1>27, <1>28, <1>29,
     <1>30, <1>31, <1>32
   DEF Step

\* A script that reads a record stays within gateway.priority's list.
LEMMA ReadInRangeStep ==
  ASSUME TypeInv, NEW p \in Procs, Step(p)
  PROVE  ReadInRange'
<1>1. cur \in [Procs -> 1..Len(Priority) + 1] /\ pc \in [Procs -> Labels]
  BY DEF TypeInv, TypeOK
<1>2. ReadInRange
  BY DEF TypeInv
<1>3. CASE Test(p) /\ Goto(p, "read")
  BY <1>1, <1>2, <1>3, PriorityTypes DEF ReadInRange, Goto, Test
<1>4. CASE \E label \in Labels \ {"read"} : Goto(p, label)
  <2>1. \A q \in Procs : q # p => cur'[q] = cur[q]
    BY <1>1, StepCursor DEF Glob, Test, Read, Exit
  <2> QED BY <1>1, <1>2, <1>4, <2>1 DEF ReadInRange, Goto
<1>5. CASE pc' = pc
  <2>1. \A q \in Procs : pc[q] = "read" => cur'[q] = cur[q]
    BY <1>1, <1>5, StepCursor DEF Glob, Test, Read, Exit, Goto
  <2> QED BY <1>1, <1>2, <1>5, <2>1 DEF ReadInRange
<1> QED BY <1>3, <1>4, <1>5, StepControl

\* What a script selected changes while it selects, and when it ends.
LEMMA StepPick ==
  ASSUME NEW p \in Procs, Step(p)
  PROVE  UNCHANGED pick \/ Glob(p) \/ Read(p) \/ EndOfScan(p) \/ Exit(p)
BY DEF Step, args, scan, choice, locals, pick,
       DropRecord, GateDown, Ifconfig, IfconfigRefused, Disable, Unlink, Create, Header, Glob,
       Test, Read, EndOfScan, Truncate, WriteResolv, Snapshot, SnapshotUnsplit, AddRoute, DelRoute,
       FlushRoute, GateUpReturns, HostsFile, HostOpen, HostTop, HostMerge, TunRead,
       TopIf, MasqDel, TunWrite, MasqAdd, Exit

\* How a script gets to change routes.
LEMMA StepToRoutes ==
  ASSUME NEW p \in Procs, Step(p), pc \in [Procs -> Labels],
         pc'[p] \in {"snap", "add", "del"}
  PROVE  pc[p] \in {"snap", "add", "del"} \/ WriteResolv(p)
BY DEF Step, Goto, AfterIfconfig, AfterWrite, AfterGateUp, AfterTopIf,
       DropRecord, GateDown, Ifconfig, IfconfigRefused, Disable, Unlink, Create, Header, Glob,
       Test, Read, EndOfScan, Truncate, Snapshot, SnapshotUnsplit, AddRoute, DelRoute,
       FlushRoute, GateUpReturns, HostsFile, HostOpen, HostTop, HostMerge, TunRead,
       TopIf, MasqDel, TunWrite, MasqAdd, Exit

\* A script that changes routes has selected an interface.
LEMMA PickMadeStep ==
  ASSUME TypeInv, NEW p \in Procs, Step(p)
  PROVE  PickMade'
<1> SUFFICES ASSUME NEW q \in Procs, pc'[q] \in {"snap", "add", "del"}
             PROVE  topIface'[q] \in Ifaces /\ gateway'[q] \in Nets
  BY DEF PickMade
<1>1. /\ pc \in [Procs -> Labels]
      /\ topIface \in [Procs -> Ifaces \cup {None}]
      /\ gateway \in [Procs -> Nets \cup {None}]
  BY DEF TypeInv, TypeOK
<1>2. CASE q # p
  <2>1. pc'[q] = pc[q]
    BY <1>1, <1>2, StepControl DEF Goto
  <2>2. topIface'[q] = topIface[q] /\ gateway'[q] = gateway[q]
    BY <1>1, <1>2, StepPick DEF pick, choice, Glob, Read, EndOfScan, Exit
  <2> QED BY <2>1, <2>2 DEF TypeInv, PickMade
<1>3. CASE q = p /\ WriteResolv(p)
  BY <1>1, <1>3 DEF WriteResolv, AfterWrite, Goto, locals, choice, pick
<1>4. CASE q = p /\ pc[p] \in {"snap", "add", "del"}
  BY <1>4, StepPick DEF TypeInv, PickMade, pick, Glob, Read, EndOfScan, Exit
<1> QED BY <1>1, <1>2, <1>3, <1>4, StepToRoutes

\* How a script gets to write resolv.conf or /etc/hosts, and where its header
\* changes.
LEMMA StepToWrite ==
  ASSUME NEW p \in Procs, Step(p), pc \in [Procs -> Labels]
  PROVE  /\ UNCHANGED hdr \/ Truncate(p) \/ HostTop(p) \/ TopIf(p) \/ Exit(p)
         /\ pc'[p] \in {"write", "hostMerge"} => Truncate(p) \/ HostTop(p)
BY DEF Step, Goto, AfterIfconfig, AfterWrite, AfterGateUp, AfterTopIf, args, scan, choice, locals,
       DropRecord, GateDown, Ifconfig, IfconfigRefused, Disable, Unlink, Create, Header, Glob,
       Test, Read, EndOfScan, WriteResolv, Snapshot, SnapshotUnsplit, AddRoute, DelRoute,
       FlushRoute, GateUpReturns, HostsFile, HostOpen, HostMerge, TunRead,
       TopIf, MasqDel, TunWrite, MasqAdd, Exit

\* What is written to resolv.conf and /etc/hosts is no unsplit line.
LEMMA HeaderReadStep ==
  ASSUME TypeInv, NEW p \in Procs, Step(p)
  PROVE  HeaderRead'
<1> SUFFICES ASSUME NEW q \in Procs, pc'[q] \in {"write", "hostMerge"}
             PROVE  hdr'[q] \in Ifaces \cup {None}
  BY DEF HeaderRead
<1>1. /\ pc \in [Procs -> Labels] /\ hdr \in [Procs -> Names]
      /\ topIface \in [Procs -> Ifaces \cup {None}] /\ resolvConf \in Ifaces \cup {None}
      /\ job[p].dev \in Ifaces \cup {None}
  BY DEF TypeInv, TypeOK, Script
<1>2. CASE q # p
  <2>1. pc'[q] = pc[q]
    BY <1>1, <1>2, StepControl DEF Goto
  <2>2. hdr'[q] = hdr[q]
    BY <1>1, <1>2, StepToWrite DEF Truncate, HostTop, TopIf, Exit
  <2> QED BY <2>1, <2>2 DEF TypeInv, HeaderRead
<1>3. CASE q = p /\ Truncate(p)
  BY <1>1, <1>3 DEF Truncate
<1>4. CASE q = p /\ HostTop(p)
  BY <1>1, <1>4 DEF HostTop, OwnHost
<1> QED BY <1>1, <1>2, <1>3, <1>4, StepToWrite

\* Where a step leaves a script undisturbed: the scan has begun, or was so before.
LEMMA StepClean ==
  ASSUME NEW p \in Procs, Step(p), clean \in [Procs -> BOOLEAN], pc \in [Procs -> Labels],
         clean'[p], pc'[p] \notin Unscanned \cup {"glob"}
  PROVE  \/ Glob(p) /\ Splits(p)
         \/ clean[p] /\ pc[p] \notin Unscanned \cup {"glob"}
<1>1. CASE Glob(p)
  BY <1>1 DEF Glob, Goto, Unscanned
<1>2. CASE ~Glob(p)
  <2>1. clean[p]
    BY <1>2, SMTT(20) DEF Step, DisturbAll, DisturbOthers,
         DropRecord, GateDown, Ifconfig, IfconfigRefused, Disable, Unlink, Create, Header,
         Test, Read, EndOfScan, Truncate, WriteResolv, Snapshot, SnapshotUnsplit, AddRoute, DelRoute,
         FlushRoute, GateUpReturns, HostsFile, HostOpen, HostTop, HostMerge, TunRead,
         TopIf, MasqDel, TunWrite, MasqAdd, Exit
  <2>2. pc[p] \notin Unscanned \cup {"glob"}
    <3>1. CASE \/ DropRecord(p) \/ GateDown(p) \/ Ifconfig(p) \/ IfconfigRefused(p) \/ Disable(p)
               \/ Unlink(p) \/ Create(p) \/ Header(p)
      <4> USE DEF Goto, Unscanned
      <4>1. CASE DropRecord(p)  BY <4>1 DEF DropRecord
      <4>2. CASE GateDown(p)  BY <4>2 DEF GateDown
      <4>3. CASE Ifconfig(p)  BY <4>3 DEF Ifconfig, DisturbAll
      <4>4. CASE IfconfigRefused(p)  BY <4>4 DEF IfconfigRefused
      <4>5. CASE Disable(p)  BY <4>5 DEF Disable
      <4>6. CASE Unlink(p)  BY <4>6 DEF Unlink
      <4>7. CASE Create(p)  BY <4>7 DEF Create
      <4>8. CASE Header(p)  BY <4>8 DEF Header
      <4> QED BY <3>1, <4>1, <4>2, <4>3, <4>4, <4>5, <4>6, <4>7, <4>8
    <3>2. CASE ~(\/ DropRecord(p) \/ GateDown(p) \/ Ifconfig(p) \/ IfconfigRefused(p)
                 \/ Disable(p) \/ Unlink(p) \/ Create(p) \/ Header(p))
      <4>1. pc[p] \notin {"idle", "drop", "gateDown", "ifconfig", "unlink", "create", "header",
                          "glob"}
        BY <1>2, <3>2, SMTT(20)
           DEF Step, Test, Read, EndOfScan, Truncate, WriteResolv, Snapshot, SnapshotUnsplit,
               AddRoute, DelRoute, FlushRoute, GateUpReturns, HostsFile, HostOpen, HostTop,
               HostMerge, TunRead, TopIf, MasqDel, TunWrite, MasqAdd, Exit
      <4> QED BY <4>1 DEF Unscanned
    <3> QED BY <3>1, <3>2
  <2> QED BY <2>1, <2>2
<1> QED BY <1>1, <1>2

\* Only the end of a script changes what it was started with.
LEMMA StepJob ==
  ASSUME NEW p \in Procs, Step(p)
  PROVE  UNCHANGED job \/ Exit(p)
BY DEF Step, args,
       DropRecord, GateDown, Ifconfig, IfconfigRefused, Disable, Unlink, Create, Header, Glob,
       Test, Read, EndOfScan, Truncate, WriteResolv, Snapshot, SnapshotUnsplit, AddRoute, DelRoute,
       FlushRoute, GateUpReturns, HostsFile, HostOpen, HostTop, HostMerge, TunRead,
       TopIf, MasqDel, TunWrite, MasqAdd

\* A step disturbs no script into being undisturbed.
LEMMA StepCleanOthers ==
  ASSUME NEW p \in Procs, Step(p), clean \in [Procs -> BOOLEAN]
  PROVE  \A q \in Procs \ {p} : clean'[q] => clean[q]
BY DEF Step, DisturbAll, DisturbOthers, locals,
       DropRecord, GateDown, Ifconfig, IfconfigRefused, Disable, Unlink, Create, Header, Glob,
       Test, Read, EndOfScan, Truncate, WriteResolv, Snapshot, SnapshotUnsplit, AddRoute, DelRoute,
       FlushRoute, GateUpReturns, HostsFile, HostOpen, HostTop, HostMerge, TunRead,
       TopIf, MasqDel, TunWrite, MasqAdd, Exit

LEMMA CleanSplitsStep ==
  ASSUME TypeInv, NEW p \in Procs, Step(p)
  PROVE  CleanSplits'
<1> SUFFICES ASSUME NEW q \in Procs, clean'[q], pc'[q] \notin Unscanned \cup {"glob"}
             PROVE  Splits(q)'
  BY DEF CleanSplits
<1>1. /\ pc \in [Procs -> Labels] /\ job \in [Procs -> Script] /\ clean \in [Procs -> BOOLEAN]
  BY DEF TypeInv, TypeOK
<1>2. CASE q # p
  <2>1. pc'[q] = pc[q] /\ job'[q] = job[q] /\ clean[q]
    BY <1>1, <1>2, StepControl, StepJob, StepCleanOthers DEF Goto, Exit
  <2> QED BY <2>1 DEF TypeInv, CleanSplits, Splits
<1>3. CASE q = p
  <2>1. job' = job
    BY <1>1, <1>3, StepJob DEF Exit, Goto, Unscanned
  <2> QED BY <1>1, <1>3, <2>1, StepClean DEF TypeInv, CleanSplits, Splits
<1> QED BY <1>2, <1>3

\* The typing invariant is kept by every step of the system.
LEMMA TypeStep == TypeInv /\ [Next]_vars => TypeInv'
<1> SUFFICES ASSUME TypeInv, [Next]_vars
             PROVE  TypeInv'
  OBVIOUS
<1>1. CASE UNCHANGED vars
  BY <1>1 DEF TypeInv, TypeOK, ReadInRange, PickMade, HeaderRead, CleanSplits, Splits, vars
<1>2. ASSUME NEW p \in Procs, Start(p)
      PROVE  TypeInv'
  BY <1>2, TypeStart
<1>3. ASSUME NEW p \in Procs, Step(p)
      PROVE  TypeInv'
  BY <1>3, TypeOKStep, ReadInRangeStep, PickMadeStep, HeaderReadStep, CleanSplitsStep DEF TypeInv
<1> QED BY <1>1, <1>2, <1>3 DEF Next

\* Every variable of a reachable state has its type, for every set of
\* processes, interfaces and networks and every priority list: the scans stay
\* within gateway.priority's list, and a route is only ever set for an
\* interface and a gateway.
THEOREM TypeCorrect == Spec => []TypeOK
<1>1. Spec => []TypeInv
  BY TypeInit, TypeStep, PTL DEF Spec
<1>2. TypeInv => TypeOK
  BY DEF TypeInv
<1> QED BY <1>1, <1>2, PTL

-----------------------------------------------------------------------------
(* An undisturbed gateUp                                                   *)

\* A script begins with the first of gateUp's two loops.
FirstPass == \A p \in Procs : pc[p] \in Unscanned => pass[p] = 1

NoCandidate(n) == \A i \in Ifaces : ~Candidate(i, n)

\* The loop has tried everything before its position, in vain.
CleanScan(p) ==
  /\ seen[p] = {i \in Ifaces : record[i] # None}
  /\ \A j \in 1..(cur[p] - 1) : ~Candidate(Priority[j], pass[p])
  /\ pass[p] = 2 => NoCandidate(1)
  /\ pc[p] = "read" /\ pass[p] = 1 => NotUnplugged(Priority[cur[p]])

\* gateUp has selected the best interface, if there is one at all.
Selected(p) ==
  \/ Recorded = {}
  \/ BestOf(Recorded, topIface[p]) /\ gateway[p] = record[topIface[p]]

Header1(p) == IF Recorded = {} THEN None ELSE topIface[p]

\* While routes are deleted, the new one is there if it can be.
CleanDel(p) ==
  /\ routes \subseteq del[p] \cup {Target(p)}
  /\ addr[topIface[p]] = gateway[p] => Target(p) \in routes
  /\ Target(p) \notin del[p]

GatewayRight ==
  /\ \A w \in Ifaces : BestOf(Recorded, w) =>
       /\ resolvConf = w
       /\ routes \subseteq {<<record[w], w>>}
       /\ addr[w] = record[w] => routes = {<<record[w], w>>}
  /\ Recorded = {} => resolvConf = None

CleanState(p) ==
  /\ pc[p] = "glob" /\ pass[p] = 2 => NoCandidate(1)
  /\ pc[p] \in {"test", "read"} => CleanScan(p)
  /\ pc[p] \in {"trunc", "write", "snap", "add", "del", "flush"} => Selected(p)
  /\ pc[p] = "write" => hdr[p] = Header1(p)
  /\ pc[p] \in {"snap", "add", "del", "flush"} => resolvConf = Header1(p)
  /\ pc[p] = "flush" => Recorded = {}
  /\ pc[p] = "add" => del[p] = routes \ {Target(p)}
  /\ pc[p] = "del" => CleanDel(p)
  /\ pc[p] \in GateUpDone => GatewayRight

CleanInv == FirstPass /\ \A p \in Procs : clean[p] => CleanState(p)

\* No two interfaces are both best.
LEMMA BestUnique ==
  ASSUME NEW v \in Ifaces, NEW w \in Ifaces,
         BestOf(Recorded, v), BestOf(Recorded, w)
  PROVE  v = w
<1> SUFFICES ASSUME v # w PROVE FALSE
  OBVIOUS
<1>1. Better(v, w) /\ Better(w, v)
  BY DEF BestOf
<1>2. Before(v, w) /\ Before(w, v)
  BY <1>1 DEF Better
<1>3. PICK k \in 1..Len(Priority) :
        Priority[k] = v /\ \A l \in 1..k : Priority[l] # w
  BY <1>2 DEF Before
<1>4. PICK m \in 1..Len(Priority) :
        Priority[m] = w /\ \A l \in 1..m : Priority[l] # v
  BY <1>2 DEF Before
<1>5. k \in 1..m \/ m \in 1..k
  BY PriorityTypes
<1> QED BY <1>3, <1>4, <1>5

\* The first candidate of a loop is the best interface.
LEMMA FirstIsBest ==
  ASSUME NEW k \in 1..Len(Priority), NEW n \in {1, 2},
         \A j \in 1..(k - 1) : ~Candidate(Priority[j], n),
         n = 2 => NoCandidate(1),
         Candidate(Priority[k], n)
  PROVE  BestOf(Recorded, Priority[k])
<1> DEFINE i == Priority[k]
<1>1. i \in Ifaces /\ i \in Recorded
  BY PriorityTypes DEF Candidate, Recorded
<1>2. ASSUME NEW j \in Recorded \ {i}
      PROVE  Better(i, j)
  <2>1. j \in Ifaces /\ HasGateway(j)
    BY DEF Recorded
  <2>2. CASE Candidate(j, n)
    <3>1. \A l \in 1..k : Priority[l] # j
      <4> SUFFICES ASSUME NEW l \in 1..k, Priority[l] = j PROVE FALSE
        OBVIOUS
      <4>1. l # k
        BY <1>2
      <4>2. l \in 1..(k - 1)
        BY <4>1, PriorityTypes
      <4> QED BY <2>2, <4>2
    <3>2. Before(i, j)
      BY <3>1 DEF Before
    <3>3. NotUnplugged(i) <=> NotUnplugged(j)
      BY <1>1, <2>1, <2>2 DEF NoCandidate, Candidate
    <3> QED BY <3>2, <3>3 DEF Better
  <2>3. CASE ~Candidate(j, n)
    BY <2>1, <2>3 DEF Candidate, Better
  <2> QED BY <2>2, <2>3
<1> QED BY <1>1, <1>2 DEF BestOf

\* What CleanState(p) depends on besides p's own variables.
shared == <<record, carrier, addr, routes, resolvConf>>
SameLocals(p) ==
  /\ pc'[p] = pc[p] /\ pass'[p] = pass[p] /\ cur'[p] = cur[p]
  /\ seen'[p] = seen[p] /\ topIface'[p] = topIface[p]
  /\ gateway'[p] = gateway[p] /\ hdr'[p] = hdr[p] /\ del'[p] = del[p]

\* CleanState(p) survives a step that changes nothing it depends on.
LEMMA CleanStateSame ==
  ASSUME NEW p \in Procs, CleanState(p), UNCHANGED shared, SameLocals(p)
  PROVE  CleanState(p)'
BY DEF CleanState, shared, SameLocals, NoCandidate, Candidate, HasGateway,
       NotUnplugged, CleanScan, Selected, Recorded, BestOf, Better, Before,
       Header1, CleanDel, Target, GatewayRight

\* A step that leaves p's scan undisturbed touches nothing the scan uses.
LEMMA OthersQuiet ==
  ASSUME TypeInv, NEW p \in Procs, NEW q \in Procs \ {p}, Step(q), clean'[p]
  PROVE  clean[p] /\ UNCHANGED shared /\ SameLocals(p)
<1> USE DEF shared, SameLocals, Goto, system, files, kernel, outputs, args, scan,
      pick, choice, locals
<1>1. /\ pc \in [Procs -> Labels] /\ pass \in [Procs -> {1, 2}]
      /\ cur \in [Procs -> 1..Len(Priority) + 1]
      /\ seen \in [Procs -> SUBSET Ifaces]
      /\ topIface \in [Procs -> Ifaces \cup {None}]
      /\ gateway \in [Procs -> Nets \cup {None}]
      /\ hdr \in [Procs -> Names]
      /\ del \in [Procs -> SUBSET (Nets \X Ifaces)]
      /\ clean \in [Procs -> BOOLEAN]
  BY DEF TypeInv, TypeOK
<1>2. ~DisturbAll /\ ~DisturbOthers(q)
  BY DEF DisturbAll, DisturbOthers
<1>3. \/ Glob(q) \/ Test(q) \/ Read(q) \/ EndOfScan(q) \/ Snapshot(q)
      \/ SnapshotUnsplit(q) \/ IfconfigRefused(q) \/ GateUpReturns(q) \/ HostTop(q) \/ TunRead(q) \/ TopIf(q) \/ Exit(q)
  BY <1>2 DEF Step, DropRecord, GateDown, Ifconfig, IfconfigRefused, Disable, Unlink, Create, Header,
     Truncate, WriteResolv, AddRoute, DelRoute, FlushRoute, HostsFile, HostOpen,
     HostMerge, MasqDel, TunWrite, MasqAdd
<1>4. CASE Glob(q)           BY <1>1, <1>4 DEF Glob
<1>5. CASE Test(q)           BY <1>1, <1>5 DEF Test
<1>6. CASE Read(q)           BY <1>1, <1>6 DEF Read
<1>7. CASE EndOfScan(q)      BY <1>1, <1>7 DEF EndOfScan
<1>8. CASE Snapshot(q)       BY <1>1, <1>8 DEF Snapshot
<1>9. CASE GateUpReturns(q)  BY <1>1, <1>9 DEF GateUpReturns
<1>10. CASE HostTop(q)       BY <1>1, <1>10 DEF HostTop
<1>11. CASE TunRead(q)       BY <1>1, <1>11 DEF TunRead
<1>12. CASE TopIf(q)         BY <1>1, <1>12 DEF TopIf
<1>13. CASE Exit(q)          BY <1>1, <1>13 DEF Exit
<1>14. CASE SnapshotUnsplit(q)  BY <1>1, <1>14 DEF SnapshotUnsplit
<1>15. CASE IfconfigRefused(q)  BY <1>1, <1>15 DEF IfconfigRefused
<1> QED BY <1>3, <1>4, <1>5, <1>6, <1>7, <1>8, <1>9, <1>10, <1>11, <1>12, <1>13, <1>14, <1>15

\* The same for the start of a script; its own process then is at a step that
\* CleanState says nothing about.
LEMMA StartQuiet ==
  ASSUME TypeInv, FirstPass, NEW p \in Procs, NEW q \in Procs, Start(q), clean'[p],
         clean[p] => CleanState(p)
  PROVE  CleanState(p)'
<1>1. PICK kind \in JobKinds, i \in Ifaces, n \in Nets \cup {None},
           g \in Nets \cup {None},
           label \in {"drop", "gateDown", "ifconfig", "glob"} :
        Launch(q, kind, i, n, g, label) /\ UNCHANGED <<carrier, clean>>
  <2>1. ~DisturbAll
    BY DEF DisturbAll
  <2>2. PICK i \in Ifaces :
        \/ Deconfig(q, i) \/ LinkDown(q, i) \/ Ifdown(q, i)
        \/ \E n \in Nets : \E g \in {n, None} :
             Revert(q, i, n, g) \/ LinkUp(q, i, n, g)
    BY <2>1 DEF Start, Bound, Unplug
  <2>3. CASE Deconfig(q, i)  BY <2>3 DEF Deconfig, JobKinds
  <2>4. CASE LinkDown(q, i)  BY <2>4 DEF LinkDown, JobKinds
  <2>5. CASE Ifdown(q, i)    BY <2>5 DEF Ifdown, JobKinds
  <2>6. CASE \E n \in Nets : \E g \in {n, None} : Revert(q, i, n, g)
    BY <2>6 DEF Revert, JobKinds
  <2>7. CASE \E n \in Nets : \E g \in {n, None} : LinkUp(q, i, n, g)
    BY <2>7 DEF LinkUp, JobKinds
  <2> QED BY <2>2, <2>3, <2>4, <2>5, <2>6, <2>7
<1>2. clean[p] /\ CleanState(p)
  BY <1>1
<1>3. UNCHANGED shared
  BY <1>1 DEF shared, Launch, files, outputs
<1>4. pc \in [Procs -> Labels]
  BY DEF TypeInv, TypeOK
<1>5. CASE q = p
  <2>1. pass'[p] = 1
    BY <1>1, <1>5 DEF Launch, locals, scan, FirstPass, Unscanned
  <2>2. pc'[p] \in {"drop", "gateDown", "ifconfig", "glob"}
    BY <1>1, <1>4, <1>5 DEF Launch, Goto
  <2> QED BY <2>1, <2>2 DEF CleanState, GateUpDone, HostsDone, Finished
<1>6. CASE q # p
  <2>1. SameLocals(p)
    BY <1>1, <1>4, <1>6
       DEF SameLocals, Launch, Goto, locals, scan, choice, pick
  <2> QED BY <1>2, <1>3, <2>1, CleanStateSame
<1> QED BY <1>5, <1>6

\* A script that has not begun its scan is in its first loop.
LEMMA FirstPassStep ==
  ASSUME TypeInv, FirstPass, NEW q \in Procs, Start(q) \/ Step(q)
  PROVE  FirstPass'
<1> USE DEF FirstPass, Unscanned
<1>1. pc \in [Procs -> Labels] /\ pass \in [Procs -> {1, 2}]
  BY DEF TypeInv, TypeOK
<1>2. CASE Start(q)
  BY <1>1, <1>2 DEF Start, Deconfig, LinkDown, Ifdown, Unplug, Bound, Revert,
     LinkUp, Launch, Goto, locals, scan
<1>3. CASE EndOfScan(q)
  BY <1>1, <1>3 DEF EndOfScan, Goto
<1>4. CASE Exit(q)
  BY <1>1, <1>4 DEF Exit, Goto
<1>5. CASE Step(q) /\ ~EndOfScan(q) /\ ~Exit(q)
  <2>1. UNCHANGED pass
    BY <1>5 DEF Step, locals, scan, DropRecord, GateDown, Ifconfig, IfconfigRefused, Disable, Unlink, Create,
       Header, Glob, Test, Read, Truncate, WriteResolv, Snapshot, SnapshotUnsplit, AddRoute,
       DelRoute, FlushRoute, GateUpReturns, HostsFile, HostOpen, HostTop, HostMerge,
       TunRead, TopIf, MasqDel, TunWrite, MasqAdd
  <2>2. pc'[q] \in Unscanned => pc[q] \in Unscanned
    BY <1>1, <1>5 DEF Step, Goto, AfterIfconfig, AfterWrite, AfterGateUp,
       AfterTopIf, DropRecord, GateDown, Ifconfig, IfconfigRefused, Disable, Unlink, Create, Header,
       Glob, Test, Read, Truncate, WriteResolv, Snapshot, SnapshotUnsplit, AddRoute, DelRoute,
       FlushRoute, GateUpReturns, HostsFile, HostOpen, HostTop, HostMerge, TunRead,
       TopIf, MasqDel, TunWrite, MasqAdd
  <2>3. \A r \in Procs \ {q} : pc'[r] = pc[r]
    BY <1>1, <1>5, StepControl DEF Goto
  <2> QED BY <1>1, <2>1, <2>2, <2>3
<1> QED BY <1>2, <1>3, <1>4, <1>5

\* The steps of an undisturbed gateUp itself, one after the other.
LEMMA OwnStep ==
  ASSUME TypeInv, FirstPass, NEW p \in Procs, Step(p), clean'[p],
         clean[p] => CleanState(p)
  PROVE  CleanState(p)'
<1> USE DEF GateUpDone, HostsDone, Finished
<1>1. /\ pc \in [Procs -> Labels] /\ pass \in [Procs -> {1, 2}]
      /\ cur \in [Procs -> 1..Len(Priority) + 1]
      /\ seen \in [Procs -> SUBSET Ifaces]
      /\ topIface \in [Procs -> Ifaces \cup {None}]
      /\ gateway \in [Procs -> Nets \cup {None}]
      /\ hdr \in [Procs -> Names]
      /\ del \in [Procs -> SUBSET (Nets \X Ifaces)]
      /\ record \in [Ifaces -> Nets \cup {None, Blank}]
      /\ clean \in [Procs -> BOOLEAN]
  BY DEF TypeInv, TypeOK
<1>2. None \notin Ifaces /\ None \notin Nets
  BY ConstantsAssumption
<1>3. CASE Glob(p)
  <2>1. UNCHANGED shared /\ UNCHANGED pass
    BY <1>3 DEF Glob, shared, system, files, kernel, outputs
  <2>2. pc'[p] = "test" /\ cur'[p] = 1
        /\ seen'[p] = {i \in Ifaces : record[i] # None}
    <3>1. Splits(p)
      BY <1>1, <1>3 DEF Glob
    <3> QED BY <1>1, <1>3, <3>1 DEF Glob, Goto
  <2>3. pass[p] = 2 => NoCandidate(1)
    BY <1>1, <1>3 DEF Glob, CleanState
  <2>4. (pass[p] = 2 => NoCandidate(1))'
    BY <2>1, <2>3 DEF shared, NoCandidate, Candidate, HasGateway, NotUnplugged
  <2>5. seen'[p] = {i \in Ifaces : record'[i] # None}
    BY <2>1, <2>2 DEF shared
  <2>6. CleanScan(p)'
    BY <2>2, <2>4, <2>5 DEF CleanScan
  <2> QED BY <2>2, <2>6 DEF CleanState
<1>4. CASE Test(p)
  <2> DEFINE i == Priority[cur[p]]
  <2>1. UNCHANGED shared /\ UNCHANGED <<pass, seen>> /\ clean[p]
    BY <1>4 DEF Test, shared, system, files, kernel, outputs
  <2>2. CleanScan(p) /\ pc[p] = "test"
    BY <1>4, <2>1 DEF CleanState, Test
  <2>3. cur[p] \in 1..Len(Priority) /\ i \in Ifaces
    BY <1>1, <1>4, PriorityTypes DEF Test
  <2>4. CASE pc'[p] = "read"
    <3>1. UNCHANGED cur /\ (pass[p] = 1 => NotUnplugged(i))
      BY <1>1, <1>4, <2>4 DEF Test
    <3>2. CleanScan(p)'
      BY <2>1, <2>2, <3>1 DEF CleanScan, shared, NoCandidate, Candidate,
         HasGateway, NotUnplugged
    <3> QED BY <2>4, <3>2 DEF CleanState
  <2>5. CASE pc'[p] # "read"
    <3>1. /\ pc'[p] = "test" /\ cur'[p] = cur[p] + 1
          /\ ~(i \in seen[p] /\ record[i] # None
                /\ (pass[p] = 1 => NotUnplugged(i)))
      BY <1>1, <1>4, <2>5 DEF Test, Goto
    <3>2. ~Candidate(i, pass[p])
      BY <1>1, <1>2, <2>2, <2>3, <3>1 DEF CleanScan, Candidate, HasGateway
    <3>3. \A j \in 1..(cur'[p] - 1) : ~Candidate(Priority[j], pass[p])
      BY <2>2, <2>3, <3>1, <3>2, PriorityTypes DEF CleanScan
    <3>4. CleanScan(p)'
      BY <2>1, <2>2, <3>1, <3>3 DEF CleanScan, shared, NoCandidate, Candidate,
         HasGateway, NotUnplugged
    <3> QED BY <3>1, <3>4 DEF CleanState
  <2> QED BY <2>4, <2>5
<1>5. CASE Read(p)
  <2> DEFINE i == Priority[cur[p]]
  <2>1. UNCHANGED shared /\ UNCHANGED <<pass, seen>> /\ clean[p]
    BY <1>5 DEF Read, shared, system, files, kernel, outputs
  <2>2. CleanScan(p) /\ pc[p] = "read"
    BY <1>5, <2>1 DEF CleanState, Read
  <2>3. cur[p] \in 1..Len(Priority) /\ i \in Ifaces
    BY <1>1, <2>2, PriorityTypes DEF TypeInv, ReadInRange
  <2>4. CASE HasGateway(i)
    <3>1. /\ topIface'[p] = i /\ gateway'[p] = record[i] /\ pc'[p] = "trunc"
      BY <1>1, <1>5, <2>4 DEF Read, Goto
    <3>2. BestOf(Recorded, i)
      <4>1. Candidate(i, pass[p])
        BY <2>2, <2>4 DEF CleanScan, Candidate
      <4>2. /\ \A j \in 1..(cur[p] - 1) : ~Candidate(Priority[j], pass[p])
            /\ pass[p] = 2 => NoCandidate(1)
        BY <2>2 DEF CleanScan
      <4>3. pass[p] \in {1, 2}
        BY <1>1
      <4> QED BY <2>3, <4>1, <4>2, <4>3, FirstIsBest
    <3>3. Selected(p)'
      BY <2>1, <3>1, <3>2 DEF shared, Selected, Recorded, HasGateway, BestOf,
         Better, NotUnplugged, Before
    <3> QED BY <3>1, <3>3 DEF CleanState
  <2>5. CASE ~HasGateway(i)
    <3>1. pc'[p] = "test" /\ cur'[p] = cur[p] + 1
      BY <1>1, <1>5, <2>5 DEF Read, Goto
    <3>2. \A j \in 1..(cur'[p] - 1) : ~Candidate(Priority[j], pass[p])
      BY <2>2, <2>3, <2>5, <3>1, PriorityTypes DEF CleanScan, Candidate
    <3>3. CleanScan(p)'
      BY <2>1, <2>2, <3>1, <3>2 DEF CleanScan, shared, NoCandidate, Candidate,
         HasGateway, NotUnplugged
    <3> QED BY <3>1, <3>3 DEF CleanState
  <2> QED BY <2>4, <2>5
<1>6. CASE EndOfScan(p)
  <2>1. UNCHANGED shared /\ UNCHANGED <<cur, seen, gateway>> /\ clean[p]
    BY <1>6 DEF EndOfScan, shared, system, files, kernel, outputs
  <2>2. CleanScan(p)
    BY <1>6, <2>1 DEF CleanState, EndOfScan
  <2>3. NoCandidate(pass[p])
    <3> SUFFICES ASSUME NEW i \in Ifaces PROVE ~Candidate(i, pass[p])
      BY DEF NoCandidate
    <3>1. PICK k \in 1..Len(Priority) : Priority[k] = i
      BY ConstantsAssumption
    <3>2. k \in 1..(cur[p] - 1)
      BY <1>1, <1>6, PriorityTypes DEF EndOfScan
    <3> QED BY <2>2, <3>1, <3>2 DEF CleanScan
  <2>4. CASE pass[p] = 1
    <3>1. pc'[p] = "glob"
      BY <1>1, <1>6, <2>4 DEF EndOfScan, Goto
    <3>2. NoCandidate(1)'
      BY <2>1, <2>3, <2>4 DEF shared, NoCandidate, Candidate, HasGateway,
         NotUnplugged
    <3> QED BY <3>1, <3>2 DEF CleanState
  <2>5. CASE pass[p] = 2
    <3>1. pc'[p] = "trunc"
      BY <1>1, <1>6, <2>5 DEF EndOfScan, Goto
    <3>2. Recorded' = {}
      BY <2>1, <2>3, <2>5 DEF shared, NoCandidate, Candidate, HasGateway,
         Recorded
    <3> QED BY <3>1, <3>2 DEF CleanState, Selected
  <2> QED BY <1>1, <2>4, <2>5
<1>7. CASE Truncate(p)
  <2>1. /\ clean[p] /\ pc'[p] = "write" /\ UNCHANGED <<record, carrier>>
        /\ UNCHANGED <<topIface, gateway>>
    BY <1>1, <1>7 DEF Truncate, Goto, DisturbOthers, files, kernel, pick
  <2>2. Selected(p)
    BY <1>7, <2>1 DEF CleanState, Truncate
  <2>3. hdr'[p] = Header1(p)
    BY <1>1, <1>2, <1>7, <2>2 DEF Truncate, Header1, Selected, BestOf, Recorded
  <2>4. Selected(p)' /\ Header1(p)' = Header1(p)
    BY <2>1, <2>2 DEF Selected, Header1, Recorded, HasGateway, BestOf, Better,
       NotUnplugged, Before
  <2> QED BY <2>1, <2>3, <2>4 DEF CleanState
<1>8. CASE WriteResolv(p)
  <2>1. /\ clean[p] /\ pc'[p] = AfterWrite(p) /\ resolvConf' = hdr[p]
        /\ UNCHANGED <<record, carrier, addr, routes, topIface, gateway>>
    BY <1>1, <1>8 DEF WriteResolv, Goto, DisturbOthers, files, kernel, locals,
       choice, pick
  <2>2. Selected(p) /\ hdr[p] = Header1(p)
    BY <1>8, <2>1 DEF CleanState, WriteResolv
  <2>3. /\ Selected(p)' /\ Header1(p)' = Header1(p) /\ Recorded' = Recorded
    BY <2>1, <2>2 DEF Selected, Header1, Recorded, HasGateway, BestOf, Better,
       NotUnplugged, Before
  <2>4. topIface[p] = None \/ gateway[p] = None => Recorded = {}
    BY <1>2, <2>2 DEF Selected, BestOf, Recorded, HasGateway
  <2>5. Recorded' = {} => GatewayRight'
    BY <2>1, <2>2, <2>3 DEF GatewayRight, BestOf, Header1
  <2> QED BY <2>1, <2>2, <2>3, <2>4, <2>5 DEF CleanState, AfterWrite
<1>9. CASE Snapshot(p)
  <2>1. /\ clean[p] /\ UNCHANGED shared /\ UNCHANGED <<topIface, gateway>>
        /\ del'[p] = routes \ {Target(p)}
        /\ pc'[p] = IF Target(p) \in routes THEN "del" ELSE "add"
    BY <1>1, <1>9 DEF Snapshot, Goto, shared, system, files, kernel, outputs, pick
  <2>2. Selected(p) /\ resolvConf = Header1(p)
    BY <1>9, <2>1 DEF CleanState, Snapshot
  <2>3. Selected(p)' /\ (resolvConf = Header1(p))' /\ Target(p)' = Target(p)
    BY <2>1, <2>2 DEF shared, Selected, Header1, Recorded, HasGateway, BestOf,
       Better, NotUnplugged, Before, Target
  <2>4. CASE pc'[p] = "add"
    BY <2>1, <2>3, <2>4 DEF CleanState, shared
  <2>5. CASE pc'[p] = "del"
    <3>1. CleanDel(p)'
      BY <2>1, <2>3, <2>5 DEF CleanDel, shared
    <3> QED BY <2>3, <2>5, <3>1 DEF CleanState
  <2> QED BY <2>1, <2>4, <2>5
<1>10. CASE AddRoute(p)
  <2>1. /\ clean[p] /\ UNCHANGED <<record, carrier, addr, resolvConf>>
        /\ UNCHANGED <<topIface, gateway, del>> /\ pc'[p] = "del"
        /\ routes' = IF addr[topIface[p]] = gateway[p]
                       THEN routes \cup {Target(p)} ELSE routes
    BY <1>1, <1>10 DEF AddRoute, Goto, DisturbOthers, files, outputs, locals,
       choice, pick
  <2>2. /\ Selected(p) /\ resolvConf = Header1(p)
        /\ del[p] = routes \ {Target(p)}
    BY <1>10, <2>1 DEF CleanState, AddRoute
  <2>3. Selected(p)' /\ (resolvConf = Header1(p))' /\ Target(p)' = Target(p)
    BY <2>1, <2>2 DEF Selected, Header1, Recorded, HasGateway, BestOf,
       Better, NotUnplugged, Before, Target
  <2>4. CleanDel(p)'
    BY <2>1, <2>2, <2>3 DEF CleanDel
  <2> QED BY <2>1, <2>3, <2>4 DEF CleanState
<1>11. CASE DelRoute(p)
  <2>1. /\ clean[p] /\ UNCHANGED <<record, carrier, addr, resolvConf>>
        /\ UNCHANGED <<topIface, gateway>> /\ pc[p] = "del" /\ pc' = pc
    BY <1>11 DEF DelRoute, DisturbOthers, files, outputs, pick
  <2>2. PICK r \in del[p] : routes' = routes \ {r} /\ del'[p] = del[p] \ {r}
    BY <1>1, <1>11 DEF DelRoute
  <2>3. Selected(p) /\ resolvConf = Header1(p) /\ CleanDel(p)
    BY <2>1 DEF CleanState
  <2>4. Selected(p)' /\ (resolvConf = Header1(p))' /\ Target(p)' = Target(p)
    BY <2>1, <2>3 DEF Selected, Header1, Recorded, HasGateway, BestOf,
       Better, NotUnplugged, Before, Target
  <2>5. CleanDel(p)'
    BY <2>1, <2>2, <2>3, <2>4 DEF CleanDel
  <2> QED BY <2>1, <2>4, <2>5 DEF CleanState
<1>12. CASE FlushRoute(p)
  <2>1. /\ clean[p] /\ UNCHANGED <<record, carrier, addr, resolvConf>>
        /\ UNCHANGED <<topIface, gateway>> /\ pc[p] = "flush" /\ pc' = pc
    BY <1>12 DEF FlushRoute, DisturbOthers, files, outputs, locals, choice, pick
  <2>2. Recorded = {} /\ resolvConf = Header1(p)
    BY <2>1 DEF CleanState
  <2>3. Recorded' = {} /\ (resolvConf = Header1(p))'
    BY <2>1, <2>2 DEF Recorded, HasGateway, Header1
  <2> QED BY <2>1, <2>3 DEF CleanState, Selected
<1>13. CASE GateUpReturns(p)
  <2>1. /\ clean[p] /\ UNCHANGED shared /\ pc'[p] = AfterGateUp(p)
    BY <1>1, <1>13 DEF GateUpReturns, Goto, shared, system, files, kernel, outputs
  <2>2. CASE Recorded = {}
    <3>1. resolvConf = None
      BY <1>13, <2>1, <2>2 DEF GateUpReturns, CleanState, Header1
    <3>2. GatewayRight'
      BY <2>1, <2>2, <3>1 DEF GatewayRight, shared, Recorded, HasGateway, BestOf
    <3> QED BY <2>1, <3>2 DEF CleanState, AfterGateUp
  <2>3. CASE Recorded # {}
    <3>1. pc[p] = "del" /\ del[p] = {}
      BY <1>13, <2>1, <2>3 DEF GateUpReturns, CleanState
    <3>2. /\ BestOf(Recorded, topIface[p]) /\ gateway[p] = record[topIface[p]]
          /\ resolvConf = topIface[p] /\ CleanDel(p)
      BY <2>1, <2>3, <3>1 DEF CleanState, Selected, Header1
    <3>3. topIface[p] \in Ifaces
      BY <3>2 DEF BestOf, Recorded
    <3>4. \A w \in Ifaces : BestOf(Recorded, w) => w = topIface[p]
      BY <3>2, <3>3, BestUnique
    <3>5. GatewayRight
      BY <2>3, <3>1, <3>2, <3>4 DEF GatewayRight, CleanDel, Target
    <3>6. GatewayRight'
      BY <2>1, <3>5 DEF GatewayRight, shared, Recorded, HasGateway, BestOf,
         Better, NotUnplugged, Before
    <3> QED BY <2>1, <3>6 DEF CleanState, AfterGateUp
  <2> QED BY <2>2, <2>3
<1>14. CASE \/ HostsFile(p) \/ HostOpen(p) \/ HostTop(p) \/ HostMerge(p) \/ TunRead(p)
            \/ TopIf(p) \/ MasqDel(p) \/ TunWrite(p) \/ MasqAdd(p) \/ Exit(p)
  <2>1. /\ clean[p] /\ UNCHANGED shared
        /\ pc[p] \in GateUpDone /\ pc'[p] \in GateUpDone
    BY <1>1, <1>14 DEF HostsFile, HostOpen, HostTop, HostMerge, TunRead, TopIf, MasqDel,
       TunWrite, MasqAdd, Exit, AfterTopIf, Goto, DisturbOthers, shared, system,
       files, kernel, outputs
  <2>2. GatewayRight'
    BY <2>1 DEF CleanState, GatewayRight, shared, Recorded, HasGateway, BestOf,
         Better, NotUnplugged, Before
  <2> QED BY <2>1, <2>2 DEF CleanState
<1>15. CASE \/ DropRecord(p) \/ GateDown(p) \/ Ifconfig(p) \/ Disable(p)
            \/ Unlink(p) \/ Create(p) \/ Header(p) \/ IfconfigRefused(p)
  BY <1>1, <1>15 DEF DropRecord, GateDown, Ifconfig, IfconfigRefused, Disable, Unlink, Create,
     Header, DisturbAll
<1>16. CASE SnapshotUnsplit(p)
  BY <1>16 DEF SnapshotUnsplit, TypeInv, CleanSplits, Unscanned
<1> QED BY <1>3, <1>4, <1>5, <1>6, <1>7, <1>8, <1>9, <1>10, <1>11, <1>12, <1>13,
     <1>14, <1>15, <1>16 DEF Step

\* At boot no gateUp is under way.
LEMMA CleanInit == Init => CleanInv
BY DEF Init, CleanInv, FirstPass

\* The invariant of undisturbed scans is kept by every step.
LEMMA CleanStep == TypeInv /\ CleanInv /\ [Next]_vars => CleanInv'
<1> SUFFICES ASSUME TypeInv, CleanInv, [Next]_vars
             PROVE  CleanInv'
  OBVIOUS
<1>1. CASE UNCHANGED vars
  <2>1. ASSUME NEW p \in Procs, clean'[p]
        PROVE  CleanState(p)'
    BY <1>1, <2>1, CleanStateSame DEF vars, CleanInv, shared, SameLocals
  <2> QED BY <1>1, <2>1 DEF CleanInv, FirstPass, vars
<1>2. ASSUME NEW q \in Procs, Start(q) \/ Step(q)
      PROVE  CleanInv'
  <2>1. FirstPass'
    BY <1>2, FirstPassStep DEF CleanInv
  <2>2. ASSUME NEW p \in Procs, clean'[p]
        PROVE  CleanState(p)'
    <3>1. CASE Start(q)
      BY <2>2, <3>1, StartQuiet DEF CleanInv
    <3>2. CASE Step(q) /\ q = p
      BY <2>2, <3>2, OwnStep DEF CleanInv
    <3>3. CASE Step(q) /\ q # p
      BY <2>2, <3>3, OthersQuiet, CleanStateSame DEF CleanInv
    <3> QED BY <1>2, <3>1, <3>2, <3>3
  <2> QED BY <2>1, <2>2 DEF CleanInv
<1> QED BY <1>1, <1>2 DEF Next

\* However many scripts overlap and whatever state they leave behind, a gateUp
\* of netutils.sh that runs undisturbed leaves resolv.conf and the default
\* route with the best interface of gateway.priority.
THEOREM UndisturbedCorrect == Spec => []UndisturbedGateUp
<1>1. Spec => [](TypeInv /\ CleanInv)
  BY TypeInit, TypeStep, CleanInit, CleanStep, PTL DEF Spec
<1>2. CleanInv => UndisturbedGateUp
  BY DEF CleanInv, CleanState, GatewayRight, UndisturbedGateUp
<1> QED BY <1>1, <1>2, PTL

\* setGateway's order, add before delete, keeps a default route throughout an
\* undisturbed change of gateway, whatever the routes were before.
THEOREM MakeBeforeBreakHolds == Spec => MakeBeforeBreak
<1> DEFINE Keeps(p) ==
      /\ clean[p] /\ clean'[p]
      /\ pc[p] \in {"snap", "add", "del"}
      /\ addr[topIface[p]] = gateway[p]
      /\ routes # {}
      => routes' # {}
<1>1. ASSUME TypeInv, CleanInv, [Next]_vars, NEW p \in Procs
      PROVE  Keeps(p)
  <2> SUFFICES ASSUME clean[p], clean'[p], pc[p] \in {"snap", "add", "del"},
                      addr[topIface[p]] = gateway[p], routes # {}
               PROVE  routes' # {}
    OBVIOUS
  <2>1. CASE UNCHANGED vars
    BY <2>1 DEF vars
  <2>2. ASSUME NEW q \in Procs, Start(q)
        PROVE  routes' = routes
    BY <2>2 DEF Start, Deconfig, LinkDown, Ifdown, Unplug, Bound, Revert,
       LinkUp, Launch
  <2>3. ASSUME NEW q \in Procs, Step(q), q # p
        PROVE  routes' = routes
    BY <1>1, <2>3, OthersQuiet DEF shared
  <2>4. CASE Step(p)
    <3>1. CleanState(p)
      BY <1>1 DEF CleanInv
    <3>2. \/ Snapshot(p) \/ SnapshotUnsplit(p) \/ AddRoute(p) \/ DelRoute(p) \/ GateUpReturns(p)
      BY <2>4 DEF Step, DropRecord, GateDown, Ifconfig, IfconfigRefused, Disable, Unlink, Create, Header,
         Glob, Test, Read, EndOfScan, Truncate, WriteResolv, FlushRoute,
         HostsFile, HostOpen, HostTop, HostMerge, TunRead, TopIf, MasqDel, TunWrite,
         MasqAdd, Exit
    <3>3. CASE Snapshot(p) \/ SnapshotUnsplit(p)
      BY <3>3 DEF Snapshot, SnapshotUnsplit, system, kernel
    <3>4. CASE AddRoute(p)
      BY <3>4 DEF AddRoute
    <3>5. CASE DelRoute(p)
      BY <3>1, <3>5 DEF DelRoute, CleanState, CleanDel
    <3>6. CASE GateUpReturns(p)
      BY <3>6 DEF GateUpReturns, system, kernel
    <3> QED BY <3>2, <3>3, <3>4, <3>5, <3>6
  <2> QED BY <1>1, <2>1, <2>2, <2>3, <2>4 DEF Next
<1>2. TypeInv /\ CleanInv /\ [Next]_vars => [\A p \in Procs : Keeps(p)]_vars
  BY <1>1
<1>3. Spec => [](TypeInv /\ CleanInv)
  BY TypeInit, TypeStep, CleanInit, CleanStep, PTL DEF Spec
<1>4. Spec => [][\A p \in Procs : Keeps(p)]_vars
  BY <1>2, <1>3, PTL DEF Spec
<1> QED BY <1>4 DEF MakeBeforeBreak

-----------------------------------------------------------------------------
(* After an undisturbed gateUp                                             *)

\* Where gateUp has deleted no route yet.
NotDeleted == Unscanned \cup {"glob", "test", "read", "trunc", "write", "snap", "add", "flush"}

Fresh == \A p \in Procs : pc[p] \in NotDeleted => ok[p] = TRUE

HostsRight ==
  /\ etcHosts.merged = hostsFn
  /\ resolvConf # None => etcHosts.own = OwnHost(resolvConf, resolvConf)

\* What an undisturbed script knows: the routes it deletes are there, so gateUp
\* succeeds, and what it read is what it would read now.
FollowUp(p) ==
  /\ pc[p] \in {"add", "del"} => del[p] \subseteq routes
  /\ pc[p] \in {"del"} \cup GateUpDone => ok[p] = TRUE
  /\ pc[p] = "hostMerge" => hdr[p] = OwnHost(resolvConf, job[p].dev)
  /\ pc[p] \in HostsDone => HostsRight
  /\ pc[p] = "topIf" => tun[p] = tunGate
  /\ pc[p] \in {"masqDel", "tunWrite"} => hdr[p] = resolvConf
  /\ pc[p] \in {"masqAdd"} \cup Finished => tunGate = resolvConf

FollowInv == Fresh /\ \A p \in Procs : clean[p] => FollowUp(p)

\* What FollowUp(p) depends on besides p's own variables.
written == <<addr, routes, resolvConf, hostsFn, etcHosts, tunGate>>
KeptLocals(p) ==
  /\ pc'[p] = pc[p] /\ job'[p] = job[p] /\ hdr'[p] = hdr[p] /\ del'[p] = del[p]
  /\ ok'[p] = ok[p] /\ tun'[p] = tun[p]

\* FollowUp(p) survives a step that changes nothing it depends on.
LEMMA FollowUpSame ==
  ASSUME NEW p \in Procs, FollowUp(p), UNCHANGED written, KeptLocals(p)
  PROVE  FollowUp(p)'
BY DEF FollowUp, written, KeptLocals, HostsRight, OwnHost

\* A step of another script that leaves p's clean touches nothing it uses.
LEMMA OthersKeep ==
  ASSUME TypeInv, NEW p \in Procs, NEW q \in Procs \ {p}, Step(q), clean'[p]
  PROVE  clean[p] /\ UNCHANGED written /\ KeptLocals(p)
<1> USE DEF written, KeptLocals, Goto, system, files, kernel, outputs, args, scan,
      pick, choice, locals
<1>1. /\ pc \in [Procs -> Labels] /\ job \in [Procs -> Script]
      /\ hdr \in [Procs -> Names]
      /\ del \in [Procs -> SUBSET (Nets \X Ifaces)]
      /\ ok \in [Procs -> BOOLEAN] /\ tun \in [Procs -> Names]
  BY DEF TypeInv, TypeOK
<1>2. ~DisturbAll /\ ~DisturbOthers(q)
  BY DEF DisturbAll, DisturbOthers
<1>3. \/ Glob(q) \/ Test(q) \/ Read(q) \/ EndOfScan(q) \/ Snapshot(q)
      \/ SnapshotUnsplit(q) \/ IfconfigRefused(q) \/ GateUpReturns(q) \/ HostTop(q) \/ TunRead(q) \/ TopIf(q) \/ Exit(q)
  BY <1>2 DEF Step, DropRecord, GateDown, Ifconfig, IfconfigRefused, Disable, Unlink, Create, Header,
     Truncate, WriteResolv, AddRoute, DelRoute, FlushRoute, HostsFile, HostOpen,
     HostMerge, MasqDel, TunWrite, MasqAdd
<1>c. clean[p]
  BY OthersQuiet
<1>4. CASE Glob(q) \/ Test(q) \/ Read(q)
  BY <1>1, <1>c, <1>4 DEF Glob, Test, Read
<1>5. CASE EndOfScan(q) \/ GateUpReturns(q)
  BY <1>1, <1>c, <1>5 DEF EndOfScan, GateUpReturns
<1>6. CASE Snapshot(q)       BY <1>1, <1>c, <1>6 DEF Snapshot
<1>7. CASE HostTop(q)        BY <1>1, <1>c, <1>7 DEF HostTop
<1>8. CASE TunRead(q)        BY <1>1, <1>c, <1>8 DEF TunRead
<1>9. CASE TopIf(q)          BY <1>1, <1>c, <1>9 DEF TopIf
<1>10. CASE Exit(q)          BY <1>1, <1>c, <1>10 DEF Exit
<1>11. CASE SnapshotUnsplit(q)  BY <1>1, <1>c, <1>11 DEF SnapshotUnsplit
<1>12. CASE IfconfigRefused(q)  BY <1>1, <1>c, <1>12 DEF IfconfigRefused
<1> QED BY <1>3, <1>4, <1>5, <1>6, <1>7, <1>8, <1>9, <1>10, <1>11, <1>12

\* The same for the start of a script.
LEMMA StartKeeps ==
  ASSUME TypeInv, NEW p \in Procs, NEW q \in Procs, Start(q), clean'[p],
         clean[p] => FollowUp(p)
  PROVE  FollowUp(p)'
<1>1. PICK kind \in JobKinds, i \in Ifaces, n \in Nets \cup {None},
           g \in Nets \cup {None},
           label \in {"drop", "gateDown", "ifconfig", "glob"} :
        Launch(q, kind, i, n, g, label) /\ UNCHANGED <<carrier, clean>>
  <2>1. ~DisturbAll
    BY DEF DisturbAll
  <2>2. PICK i \in Ifaces :
        \/ Deconfig(q, i) \/ LinkDown(q, i) \/ Ifdown(q, i)
        \/ \E n \in Nets : \E g \in {n, None} :
             Revert(q, i, n, g) \/ LinkUp(q, i, n, g)
    BY <2>1 DEF Start, Bound, Unplug
  <2>3. CASE Deconfig(q, i)  BY <2>3 DEF Deconfig, JobKinds
  <2>4. CASE LinkDown(q, i)  BY <2>4 DEF LinkDown, JobKinds
  <2>5. CASE Ifdown(q, i)    BY <2>5 DEF Ifdown, JobKinds
  <2>6. CASE \E n \in Nets : \E g \in {n, None} : Revert(q, i, n, g)
    BY <2>6 DEF Revert, JobKinds
  <2>7. CASE \E n \in Nets : \E g \in {n, None} : LinkUp(q, i, n, g)
    BY <2>7 DEF LinkUp, JobKinds
  <2> QED BY <2>2, <2>3, <2>4, <2>5, <2>6, <2>7
<1>2. pc \in [Procs -> Labels] /\ job \in [Procs -> Script]
  BY DEF TypeInv, TypeOK
<1>3. CASE q = p
  <2>1. pc'[p] \in {"drop", "gateDown", "ifconfig", "glob"}
    BY <1>1, <1>2, <1>3 DEF Launch, Goto
  <2> QED BY <2>1 DEF FollowUp, GateUpDone, HostsDone, Finished
<1>4. CASE q # p
  <2>1. UNCHANGED written /\ KeptLocals(p)
    BY <1>1, <1>2, <1>4
    DEF written, KeptLocals, Launch, Goto, files, outputs, locals, choice, pick
  <2> QED BY <1>1, <2>1, FollowUpSame
<1> QED BY <1>3, <1>4

\* gateUp's status is set by its deletes and forgotten when the script ends.
LEMMA FreshStep ==
  ASSUME TypeInv, Fresh, NEW q \in Procs, Start(q) \/ Step(q)
  PROVE  Fresh'
<1> USE DEF NotDeleted, Unscanned, locals, choice
<1>1. pc \in [Procs -> Labels] /\ ok \in [Procs -> BOOLEAN]
  BY DEF TypeInv, TypeOK
<1>2. CASE Start(q)
  <2>1. UNCHANGED ok /\ pc[q] = "idle" /\ \E l \in Labels : Goto(q, l)
    BY <1>2 DEF Start, Deconfig, LinkDown, Ifdown, Unplug, Bound, Revert, LinkUp, Launch, Labels
  <2> QED BY <1>1, <2>1 DEF Fresh, Goto
<1>3. CASE DelRoute(q)
  <2>1. pc' = pc /\ pc[q] = "del" /\ \A r \in Procs \ {q} : ok'[r] = ok[r]
    BY <1>1, <1>3 DEF DelRoute
  <2> QED BY <2>1 DEF Fresh
<1>4. CASE Exit(q)
  BY <1>1, <1>4 DEF Exit, Goto, Fresh
<1>6. CASE SnapshotUnsplit(q)
  <2>1. pc'[q] = "del" /\ \A r \in Procs \ {q} : ok'[r] = ok[r] /\ pc'[r] = pc[r]
    BY <1>1, <1>6 DEF SnapshotUnsplit, Goto
  <2> QED BY <2>1 DEF Fresh
<1>5. CASE Step(q) /\ ~DelRoute(q) /\ ~Exit(q) /\ ~SnapshotUnsplit(q)
  <2>1. UNCHANGED ok
    BY <1>5 DEF Step, DropRecord, GateDown, Ifconfig, IfconfigRefused, Disable, Unlink, Create,
       Header, Glob, Test, Read, EndOfScan, Truncate, WriteResolv, Snapshot, AddRoute,
       FlushRoute, GateUpReturns, HostsFile, HostOpen, HostTop, HostMerge,
       TunRead, TopIf, MasqDel, TunWrite, MasqAdd
  <2>2. pc'[q] \in NotDeleted => pc[q] \in NotDeleted
    BY <1>1, <1>5 DEF Step, Goto, AfterIfconfig, AfterWrite, AfterGateUp,
       AfterTopIf, DropRecord, GateDown, Ifconfig, IfconfigRefused, Disable, Unlink, Create, Header,
       Glob, Test, Read, EndOfScan, Truncate, WriteResolv, Snapshot, AddRoute,
       FlushRoute, GateUpReturns, HostsFile, HostOpen, HostTop, HostMerge, TunRead,
       TopIf, MasqDel, TunWrite, MasqAdd
  <2>3. \A r \in Procs \ {q} : pc'[r] = pc[r]
    BY <1>1, <1>5, StepControl DEF Goto
  <2> QED BY <1>1, <2>1, <2>2, <2>3 DEF Fresh
<1> QED BY <1>2, <1>3, <1>4, <1>5, <1>6

\* The steps of the undisturbed script itself.
LEMMA OwnFollows ==
  ASSUME TypeInv, Fresh, NEW p \in Procs, Step(p), clean'[p],
         clean[p] => FollowUp(p)
  PROVE  FollowUp(p)'
<1> USE DEF GateUpDone, HostsDone, Finished, Goto
<1>1. /\ pc \in [Procs -> Labels] /\ hdr \in [Procs -> Names]
      /\ del \in [Procs -> SUBSET (Nets \X Ifaces)]
      /\ ok \in [Procs -> BOOLEAN] /\ tun \in [Procs -> Names]
      /\ clean \in [Procs -> BOOLEAN] /\ job \in [Procs -> Script]
  BY DEF TypeInv, TypeOK
<1>2. CASE Glob(p) \/ Test(p) \/ Read(p) \/ EndOfScan(p) \/ Truncate(p)
  <2>1. pc'[p] \in {"glob", "test", "read", "trunc", "write"}
    BY <1>1, <1>2 DEF Glob, Test, Read, EndOfScan, Truncate
  <2> QED BY <2>1 DEF FollowUp
<1>3. CASE WriteResolv(p)
  <2>1. pc'[p] \in {"hosts", "snap", "flush"} /\ ok' = ok /\ pc[p] = "write"
    BY <1>1, <1>3 DEF WriteResolv, AfterWrite, locals, choice
  <2>2. ok[p] = TRUE
    BY <2>1 DEF Fresh, NotDeleted
  <2> QED BY <2>1, <2>2 DEF FollowUp
<1>4. CASE Snapshot(p)
  <2>1. /\ pc'[p] \in {"del", "add"} /\ del'[p] = routes \ {Target(p)}
        /\ routes' = routes /\ ok' = ok /\ pc[p] = "snap"
    BY <1>1, <1>4 DEF Snapshot, system, kernel
  <2>2. ok[p] = TRUE
    BY <2>1 DEF Fresh, NotDeleted
  <2> QED BY <2>1, <2>2 DEF FollowUp
<1>5. CASE AddRoute(p)
  <2>1. /\ pc[p] = "add" /\ pc'[p] = "del" /\ del' = del /\ ok' = ok
        /\ routes \subseteq routes' /\ clean[p]
    BY <1>1, <1>5 DEF AddRoute, locals, choice, DisturbOthers
  <2>2. ok[p] = TRUE
    BY <2>1 DEF Fresh, NotDeleted
  <2> QED BY <2>1, <2>2 DEF FollowUp
<1>6. CASE DelRoute(p)
  <2>1. clean[p] /\ pc[p] = "del" /\ pc' = pc
    BY <1>6 DEF DelRoute, DisturbOthers
  <2>2. PICK r \in del[p] : /\ routes' = routes \ {r} /\ del'[p] = del[p] \ {r}
                            /\ ok' = [ok EXCEPT ![p] = r \in routes]
    BY <1>1, <1>6 DEF DelRoute
  <2>3. del[p] \subseteq routes
    BY <2>1 DEF FollowUp
  <2>4. ok'[p] = TRUE
    <3>1. ok'[p] = (r \in routes)
      BY <1>1, <2>2, Zenon
    <3>2. (r \in routes) = TRUE
      BY <2>2, <2>3, Zenon
    <3> QED BY <3>1, <3>2
  <2> QED BY <2>1, <2>2, <2>3, <2>4 DEF FollowUp
<1>7. CASE FlushRoute(p)
  BY <1>7 DEF FlushRoute, FollowUp
<1>8. CASE GateUpReturns(p)
  <2>1. /\ pc[p] \in {"del", "flush"} /\ pc'[p] = AfterGateUp(p) /\ ok' = ok /\ clean[p]
    BY <1>1, <1>8 DEF GateUpReturns, locals, choice
  <2>2. ok[p] = TRUE
    BY <2>1 DEF Fresh, NotDeleted, FollowUp
  <2>3. pc'[p] = "hosts"
    BY <2>1, <2>2 DEF AfterGateUp
  <2> QED BY <2>1, <2>2, <2>3 DEF FollowUp
<1>s. clean[p] /\ pc[p] \in {"snap", "hostTop", "topIf"} => Splits(p)
  BY DEF TypeInv, CleanSplits, Unscanned
<1>9. CASE HostsFile(p) \/ HostOpen(p)
  <2>1. pc[p] \in {"hosts", "hostOpen"} /\ pc'[p] \in {"hostOpen", "hostTop"} /\ ok' = ok /\ clean[p]
    BY <1>1, <1>9 DEF HostsFile, HostOpen, locals, choice, DisturbOthers
  <2> QED BY <2>1 DEF FollowUp
<1>10. CASE HostTop(p)
  <2>1. /\ pc[p] = "hostTop" /\ pc'[p] = "hostMerge" /\ ok' = ok /\ clean[p]
        /\ hdr'[p] = OwnHost(resolvConf, job[p].dev)
        /\ UNCHANGED <<resolvConf, job, addr>>
    BY <1>1, <1>10, <1>s DEF HostTop, system, kernel, outputs, args
  <2>2. OwnHost(resolvConf, job[p].dev)' = OwnHost(resolvConf, job[p].dev)
    BY <2>1 DEF OwnHost
  <2> QED BY <2>1, <2>2 DEF FollowUp
<1>11. CASE HostMerge(p)
  <2>1. /\ pc[p] = "hostMerge" /\ pc'[p] = "tunRead" /\ ok' = ok /\ clean[p]
        /\ etcHosts' = [own |-> hdr[p], merged |-> hostsFn]
        /\ UNCHANGED <<resolvConf, hostsFn, addr>>
    BY <1>1, <1>11 DEF HostMerge, files, kernel, locals, choice, DisturbOthers
  <2>2. hdr[p] = OwnHost(resolvConf, job[p].dev) /\ ok[p] = TRUE
    BY <2>1 DEF FollowUp
  <2>3. HostsRight'
    BY <2>1, <2>2 DEF HostsRight, OwnHost
  <2> QED BY <2>1, <2>2, <2>3 DEF FollowUp
<1>h. ASSUME pc[p] \in HostsDone, pc'[p] \in HostsDone, ok'[p] = TRUE, clean[p],
             UNCHANGED <<etcHosts, resolvConf, hostsFn, addr>>
      PROVE  (pc[p] \in HostsDone => HostsRight)'
  BY <1>h DEF FollowUp, HostsRight, OwnHost
<1>12. CASE TunRead(p)
  <2>1. /\ pc[p] = "tunRead" /\ pc'[p] = "topIf" /\ ok' = ok /\ clean[p]
        /\ tun'[p] = tunGate /\ tunGate' = tunGate
        /\ UNCHANGED <<etcHosts, resolvConf, hostsFn, addr>>
    BY <1>1, <1>12 DEF TunRead, system, files, kernel, outputs
  <2>2. ok'[p] = TRUE
    BY <2>1 DEF FollowUp
  <2> QED BY <2>1, <2>2, <1>h DEF FollowUp
<1>13. CASE TopIf(p)
  <2>1. /\ pc[p] = "topIf" /\ pc'[p] = AfterTopIf(resolvConf, tun[p]) /\ ok' = ok /\ clean[p]
        /\ hdr'[p] = resolvConf /\ tunGate' = tunGate
        /\ UNCHANGED <<etcHosts, resolvConf, hostsFn, addr>>
    BY <1>1, <1>13, <1>s DEF TopIf, TopName, system, files, kernel, outputs
  <2>2. ok'[p] = TRUE /\ tun[p] = tunGate
    BY <2>1 DEF FollowUp
  <2>3. pc'[p] \in {"exit", "masqDel", "tunWrite"} /\ (pc'[p] = "exit" => tunGate = resolvConf)
    BY <2>1, <2>2 DEF AfterTopIf
  <2> QED BY <2>1, <2>2, <2>3, <1>h DEF FollowUp
<1>14. CASE MasqDel(p)
  <2>1. /\ pc[p] = "masqDel" /\ pc'[p] = "tunWrite" /\ ok' = ok /\ clean[p] /\ hdr' = hdr
        /\ UNCHANGED <<etcHosts, resolvConf, hostsFn, addr>>
    BY <1>1, <1>14 DEF MasqDel, files, outputs, locals, choice, DisturbOthers
  <2>2. ok'[p] = TRUE
    BY <2>1 DEF FollowUp
  <2> QED BY <2>1, <2>2, <1>h DEF FollowUp
<1>15. CASE TunWrite(p)
  <2>1. /\ pc[p] = "tunWrite" /\ pc'[p] \in {"exit", "masqAdd"} /\ ok' = ok /\ clean[p]
        /\ tunGate' = hdr[p] /\ UNCHANGED <<etcHosts, resolvConf, hostsFn, addr>>
    BY <1>1, <1>15 DEF TunWrite, kernel, outputs, locals, choice, DisturbOthers
  <2>2. ok'[p] = TRUE /\ hdr[p] = resolvConf
    BY <2>1 DEF FollowUp
  <2> QED BY <2>1, <2>2, <1>h DEF FollowUp
<1>16. CASE MasqAdd(p)
  <2>1. /\ pc[p] = "masqAdd" /\ pc'[p] = "exit" /\ ok' = ok /\ clean[p] /\ tunGate' = tunGate
        /\ UNCHANGED <<etcHosts, resolvConf, hostsFn, addr>>
    BY <1>1, <1>16 DEF MasqAdd, files, outputs, locals, choice, DisturbOthers
  <2>2. ok'[p] = TRUE /\ tunGate = resolvConf
    BY <2>1 DEF FollowUp
  <2> QED BY <2>1, <2>2, <1>h DEF FollowUp
<1>17. CASE Exit(p)
  <2>1. /\ pc[p] = "exit" /\ pc'[p] = "idle" /\ ok'[p] = TRUE /\ clean[p] /\ tunGate' = tunGate
        /\ UNCHANGED <<etcHosts, resolvConf, hostsFn, addr>>
    BY <1>1, <1>17 DEF Exit, system, files, kernel, outputs
  <2>2. tunGate = resolvConf
    BY <2>1 DEF FollowUp
  <2> QED BY <2>1, <2>2, <1>h DEF FollowUp
<1>18. CASE \/ DropRecord(p) \/ GateDown(p) \/ Ifconfig(p) \/ Disable(p)
            \/ Unlink(p) \/ Create(p) \/ Header(p) \/ IfconfigRefused(p)
  BY <1>1, <1>18 DEF DropRecord, GateDown, Ifconfig, IfconfigRefused, Disable, Unlink, Create,
     Header, DisturbAll
<1>19. CASE SnapshotUnsplit(p)
  BY <1>19, <1>s DEF SnapshotUnsplit
<1> QED BY <1>2, <1>3, <1>4, <1>5, <1>6, <1>7, <1>8, <1>9, <1>10, <1>11, <1>12, <1>13,
     <1>14, <1>15, <1>16, <1>17, <1>18, <1>19 DEF Step

\* At boot no script runs.
LEMMA FollowInit == Init => FollowInv
BY DEF Init, FollowInv, Fresh

\* The invariant of undisturbed scripts is kept by every step.
LEMMA FollowStep == TypeInv /\ FollowInv /\ [Next]_vars => FollowInv'
<1> SUFFICES ASSUME TypeInv, FollowInv, [Next]_vars
             PROVE  FollowInv'
  OBVIOUS
<1>1. CASE UNCHANGED vars
  <2>1. ASSUME NEW p \in Procs, clean'[p]
        PROVE  FollowUp(p)'
    BY <1>1, <2>1, FollowUpSame DEF vars, FollowInv, written, KeptLocals
  <2> QED BY <1>1, <2>1 DEF FollowInv, Fresh, vars
<1>2. ASSUME NEW q \in Procs, Start(q) \/ Step(q)
      PROVE  FollowInv'
  <2>1. Fresh'
    BY <1>2, FreshStep DEF FollowInv
  <2>2. ASSUME NEW p \in Procs, clean'[p]
        PROVE  FollowUp(p)'
    <3>1. CASE Start(q)
      BY <2>2, <3>1, StartKeeps DEF FollowInv
    <3>2. CASE Step(q) /\ q = p
      BY <2>2, <3>2, OwnFollows DEF FollowInv
    <3>3. CASE Step(q) /\ q # p
      BY <2>2, <3>3, OthersKeep, FollowUpSame DEF FollowInv
    <3> QED BY <1>2, <3>1, <3>2, <3>3
  <2> QED BY <2>1, <2>2 DEF FollowInv
<1> QED BY <1>1, <1>2 DEF Next

LEMMA FollowInvariance == Spec => [](TypeInv /\ FollowInv)
BY TypeInit, TypeStep, FollowInit, FollowStep, PTL DEF Spec

\* However many scripts overlap, the one whose gateUp nobody disturbed succeeds
\* and leaves an /etc/hosts that has this host under the address of the
\* gateway's interface and the files of exactly the interfaces that have one.
THEOREM UndisturbedHostsHolds == Spec => []UndisturbedHosts
<1>1. FollowInv => UndisturbedHosts
  BY DEF FollowInv, FollowUp, HostsRight, UndisturbedHosts
<1> QED BY FollowInvariance, <1>1, PTL

\* ... and its gateUpdated leaves /run/tunGate with resolv.conf's interface.
THEOREM UndisturbedTunnelHolds == Spec => []UndisturbedTunnel
<1>1. FollowInv => UndisturbedTunnel
  BY DEF FollowInv, FollowUp, UndisturbedTunnel
<1> QED BY FollowInvariance, <1>1, PTL
-----------------------------------------------------------------------------
(* Scripts that take turns                                                 *)

\* gateUpdated, when no other runs: the rule goes with the interface that
\* /run/tunGate named, before the file changes, and comes back after it has.
Masquerades(p) ==
  /\ pc[p] \in {"topIf", "masqDel"} => tun[p] = tunGate
  /\ pc[p] = "masqAdd" => hdr[p] = tunGate /\ (Splits(p) => tunGate \in Ifaces)
  /\ pc[p] \in {"masqDel", "tunWrite"} /\ Splits(p) => hdr[p] \in Ifaces \cup {None}
  /\ IF pc[p] \in {"tunWrite", "masqAdd"}
     THEN \A i \in Ifaces : nat[i] = 0
     ELSE \A i \in Ifaces : nat[i] = IF i = tunGate THEN 1 ELSE 0

\* The scripts that end in gateUp.
Settling == {"bound", "revert", "linkup", "ifdown"}

\* Where each of them is before its gateUp selects.
Turn(p) ==
  /\ pc[p] # "disable" /\ (pc[p] # "idle" => job[p].kind \in Settling /\ job[p].dev \in Ifaces)
  /\ pc[p] = "drop" => job[p].kind = "revert"
  /\ pc[p] = "gateDown" => job[p].kind = "ifdown"
  /\ pc[p] = "ifconfig" /\ job[p].kind \in {"revert", "ifdown"} => ~HasGateway(job[p].dev)
  /\ pc[p] \in {"unlink", "create", "header"} => addr[job[p].dev] = job[p].net
  /\ job[p].gw \in {job[p].net, None}

\* A record is as old as its interface's address, except while gateUp is about
\* to replace it.
RecordsFollow(p) ==
  \A i \in Ifaces : HasGateway(i) => \/ addr[i] = record[i]
                                     \/ pc[p] = "unlink" /\ i = job[p].dev

\* Nobody disturbs the only script.
StaysClean(p) ==
  /\ pc[p] \notin Unscanned \cup {"glob"} => clean[p]
  /\ pc[p] = "glob" /\ pass[p] = 2 => clean[p]
  /\ pc[p] = "idle" /\ ~clean[p] => Recorded = {}

TurnInv(p) == Turn(p) /\ RecordsFollow(p) /\ StaysClean(p)

\* Every step of the only script keeps the rules in line with /run/tunGate.
LEMMA MasqueradesStep ==
  ASSUME NEW s, Procs = {s}, TypeInv, Masquerades(s), [Next]_vars
  PROVE  Masquerades(s)'
<1> USE DEF Goto
<1>1. /\ pc \in [Procs -> Labels] /\ hdr \in [Procs -> Names]
      /\ tun \in [Procs -> Names] /\ tunGate \in Names
      /\ nat \in [Ifaces -> 0..MaxRules] /\ s \in Procs /\ None \notin Ifaces
      /\ resolvConf \in Ifaces \cup {None} /\ MaxRules \in Nat \ {0}
      /\ \A i \in Ifaces : Line(i) \notin Ifaces /\ Line(i) # None
  BY ConstantsAssumption DEF TypeInv, TypeOK
<1>2. CASE UNCHANGED vars
  BY <1>2 DEF vars, Masquerades, Splits
<1>k. ASSUME UNCHANGED <<nat, tunGate>>, pc[s] \notin {"tunWrite", "masqAdd"},
             pc'[s] \notin {"topIf", "masqDel", "tunWrite", "masqAdd"}
      PROVE  Masquerades(s)'
  BY <1>k DEF Masquerades
<1>3. CASE Start(s)
  <2>1. PICK l \in {"drop", "gateDown", "ifconfig", "glob"} : pc[s] = "idle" /\ Goto(s, l)
    BY <1>3 DEF Start, Deconfig, LinkDown, Ifdown, Unplug, Bound, Revert, LinkUp, Launch
  <2>2. UNCHANGED <<nat, tunGate>>
    BY <1>3 DEF Start, Deconfig, LinkDown, Ifdown, Unplug, Bound, Revert, LinkUp, Launch, files
  <2> QED BY <1>1, <1>k, <2>1, <2>2
<1>4. CASE \/ DropRecord(s) \/ GateDown(s) \/ Ifconfig(s) \/ Disable(s)
           \/ Unlink(s) \/ Create(s) \/ Header(s) \/ Glob(s) \/ Test(s) \/ Read(s)
           \/ EndOfScan(s) \/ Truncate(s) \/ WriteResolv(s) \/ Snapshot(s) \/ SnapshotUnsplit(s)
           \/ AddRoute(s) \/ IfconfigRefused(s) \/ HostOpen(s) \/ DelRoute(s) \/ FlushRoute(s) \/ GateUpReturns(s) \/ HostsFile(s) \/ HostTop(s)
           \/ HostMerge(s) \/ Exit(s)
  <2>1. UNCHANGED <<nat, tunGate>>
    BY <1>4 DEF DropRecord, GateDown, Ifconfig, IfconfigRefused, Disable, Unlink, Create, Header,
       Glob, Test, Read, EndOfScan, Truncate, WriteResolv, Snapshot, SnapshotUnsplit, AddRoute, DelRoute,
       FlushRoute, GateUpReturns, HostsFile, HostOpen, HostTop, HostMerge, Exit, system, files, kernel
  <2>2. pc[s] \notin {"tunWrite", "masqAdd"}
    BY <1>4 DEF DropRecord, GateDown, Ifconfig, IfconfigRefused, Disable, Unlink, Create, Header,
       Glob, Test, Read, EndOfScan, Truncate, WriteResolv, Snapshot, SnapshotUnsplit, AddRoute, DelRoute,
       FlushRoute, GateUpReturns, HostsFile, HostOpen, HostTop, HostMerge, Exit
  <2>3. pc'[s] \notin {"topIf", "masqDel", "tunWrite", "masqAdd"}
    BY <1>1, <1>4 DEF DropRecord, GateDown, Ifconfig, IfconfigRefused, Disable, Unlink, Create, Header,
       Glob, Test, Read, EndOfScan, Truncate, WriteResolv, Snapshot, SnapshotUnsplit, AddRoute, DelRoute,
       FlushRoute, GateUpReturns, HostsFile, HostOpen, HostTop, HostMerge, Exit, AfterIfconfig,
       AfterWrite, AfterGateUp
  <2> QED BY <1>k, <2>1, <2>2, <2>3
<1>5. CASE TunRead(s)
  <2>1. /\ pc[s] = "tunRead" /\ pc'[s] = "topIf" /\ tun'[s] = tunGate
        /\ UNCHANGED <<nat, tunGate>>
    BY <1>1, <1>5 DEF TunRead, system, files, kernel
  <2> QED BY <2>1 DEF Masquerades
<1>6. CASE TopIf(s)
  <2>1. /\ pc[s] = "topIf" /\ pc'[s] = AfterTopIf(TopName(s), tun[s])
        /\ hdr'[s] = TopName(s) /\ UNCHANGED <<nat, tunGate, tun, job>>
    BY <1>1, <1>6 DEF TopIf, system, files, kernel, args
  <2>2. tun[s] = tunGate /\ \A i \in Ifaces : nat[i] = IF i = tunGate THEN 1 ELSE 0
    BY <2>1 DEF Masquerades
  <2>6. Splits(s)' => hdr'[s] \in Ifaces \cup {None}
    BY <1>1, <2>1 DEF TopName, Splits
  <2>3. CASE pc'[s] = "exit"
    BY <1>k, <2>1, <2>3
  <2>4. CASE pc'[s] = "masqDel" /\ tun[s] # None
    BY <2>1, <2>2, <2>4, <2>6 DEF Masquerades
  <2>5. CASE pc'[s] = "tunWrite" /\ tun[s] = None
    <3>1. \A i \in Ifaces : nat'[i] = 0
      BY <1>1, <2>1, <2>2, <2>5
    <3> QED BY <2>5, <2>6, <3>1 DEF Masquerades
  <2> QED BY <2>1, <2>3, <2>4, <2>5 DEF AfterTopIf
<1>7. CASE MasqDel(s)
  <2>1. /\ pc[s] = "masqDel" /\ pc'[s] = "tunWrite" /\ UNCHANGED <<tunGate, hdr, job>>
        /\ nat' = [i \in Ifaces |-> IF i \in Masqueraded(s, tun[s]) /\ nat[i] > 0
                                     THEN nat[i] - 1 ELSE nat[i]]
    BY <1>1, <1>7 DEF MasqDel, files, args, locals, choice
  <2>2. /\ tun[s] = tunGate /\ (Splits(s) => hdr[s] \in Ifaces \cup {None})
        /\ \A i \in Ifaces : nat[i] = IF i = tunGate THEN 1 ELSE 0
    BY <2>1 DEF Masquerades
  <2>3. \A i \in Ifaces : nat'[i] = 0
    BY <2>1, <2>2 DEF Masqueraded
  <2> QED BY <2>1, <2>2, <2>3 DEF Masquerades, Splits
<1>8. CASE TunWrite(s)
  <2>1. /\ pc[s] = "tunWrite" /\ pc'[s] = (IF hdr[s] = None THEN "exit" ELSE "masqAdd")
        /\ tunGate' = hdr[s] /\ UNCHANGED <<nat, hdr, job>>
    BY <1>1, <1>8 DEF TunWrite, kernel, args, locals, choice
  <2>2. /\ \A i \in Ifaces : nat[i] = 0
        /\ Splits(s) => hdr[s] \in Ifaces \cup {None}
    BY <2>1 DEF Masquerades
  <2>3. CASE hdr[s] = None
    BY <1>1, <2>1, <2>2, <2>3 DEF Masquerades
  <2>4. CASE hdr[s] # None
    BY <1>1, <2>1, <2>2, <2>4 DEF Masquerades, Splits
  <2> QED BY <2>3, <2>4
<1>9. CASE MasqAdd(s)
  <2>1. /\ pc[s] = "masqAdd" /\ pc'[s] = "exit" /\ UNCHANGED tunGate
        /\ nat' = [i \in Ifaces |-> IF i \in Masqueraded(s, hdr[s]) THEN nat[i] + 1 ELSE nat[i]]
    BY <1>1, <1>9 DEF MasqAdd, files
  <2>2. /\ hdr[s] = tunGate /\ (Splits(s) => tunGate \in Ifaces)
        /\ \A i \in Ifaces : nat[i] = 0
    BY <2>1 DEF Masquerades
  <2>4. \A i \in Ifaces : i \in Masqueraded(s, hdr[s]) <=> i = tunGate
    BY <1>1, <2>2 DEF Masqueraded
  <2>3. \A i \in Ifaces : nat'[i] = IF i = tunGate THEN 1 ELSE 0
    BY <2>1, <2>2, <2>4
  <2> QED BY <2>1, <2>3 DEF Masquerades
<1> QED BY <1>2, <1>3, <1>4, <1>5, <1>6, <1>7, <1>8, <1>9 DEF Next, Step

\* As long as scripts take turns, whichever they are, gateUpdated keeps exactly
\* one masquerade rule, for the interface in /run/tunGate.
THEOREM NatMatchesTunGateInTurn ==
  ASSUME NEW s, Procs = {s}
  PROVE  Spec => []NatMatchesTunGate
<1>1. Init => Masquerades(s)
  BY ConstantsAssumption DEF Init, Masquerades
<1>2. TypeInv /\ Masquerades(s) /\ [Next]_vars => Masquerades(s)'
  BY MasqueradesStep
<1>3. Masquerades(s) => NatMatchesTunGate
  BY DEF Masquerades, NatMatchesTunGate, AllIdle
<1> QED BY TypeInit, TypeStep, <1>1, <1>2, <1>3, PTL DEF Spec

\* A start of the only script, with what its kind of script needs.
LEMMA TurnStart ==
  ASSUME NEW s, Procs = {s}, Jobs \subseteq Settling, TypeInv, FirstPass,
         TurnInv(s), Start(s)
  PROVE  TurnInv(s)'
<1>1. /\ pc \in [Procs -> Labels] /\ job \in [Procs -> Script] /\ s \in Procs
      /\ clean \in [Procs -> BOOLEAN]
  BY DEF TypeInv, TypeOK
<1>2. PICK i \in Ifaces, n \in Nets \cup {None}, g \in Nets \cup {None}, kind \in Settling,
           label \in {"drop", "gateDown", "ifconfig", "glob"} :
        /\ g \in {n, None} /\ Launch(s, kind, i, n, g, label)
        /\ label = "drop" => kind = "revert"
        /\ label = "gateDown" => kind = "ifdown"
        /\ label = "ifconfig" => kind \notin {"revert", "ifdown"}
  <2>1. PICK i \in Ifaces :
        \/ Deconfig(s, i) \/ LinkDown(s, i) \/ Ifdown(s, i) \/ Unplug(s, i)
        \/ \E n \in Nets : \E g \in {n, None} :
             Bound(s, i, n, g) \/ Revert(s, i, n, g) \/ LinkUp(s, i, n, g)
    BY DEF Start
  <2>2. ~Deconfig(s, i) /\ ~LinkDown(s, i) /\ ~Unplug(s, i)
    BY DEF Deconfig, LinkDown, Unplug, Launch, Settling
  <2>3. CASE Ifdown(s, i)
    <3>1. PICK label \in {"gateDown", "glob"} : Launch(s, "ifdown", i, None, None, label)
      BY <2>3 DEF Ifdown
    <3> QED BY <3>1 DEF Settling
  <2>4. CASE \E n \in Nets : \E g \in {n, None} :
               Bound(s, i, n, g) \/ Revert(s, i, n, g) \/ LinkUp(s, i, n, g)
    <3>1. PICK n \in Nets, g \in Nets \cup {None} :
            g \in {n, None} /\ (Bound(s, i, n, g) \/ Revert(s, i, n, g) \/ LinkUp(s, i, n, g))
      BY <2>4
    <3>2. \/ Launch(s, "bound", i, n, g, "ifconfig") \/ Launch(s, "revert", i, n, g, "drop")
          \/ Launch(s, "linkup", i, n, g, "ifconfig")
      BY <3>1 DEF Bound, Revert, LinkUp, Launch, Settling
    <3>3. CASE Launch(s, "bound", i, n, g, "ifconfig")
      BY <3>1, <3>3 DEF Settling
    <3>4. CASE Launch(s, "revert", i, n, g, "drop")
      BY <3>1, <3>4 DEF Settling
    <3>5. CASE Launch(s, "linkup", i, n, g, "ifconfig")
      BY <3>1, <3>5 DEF Settling
    <3> QED BY <3>2, <3>3, <3>4, <3>5
  <2> QED BY <2>1, <2>2, <2>3, <2>4
<1>3. /\ pc[s] = "idle" /\ pc'[s] = label /\ UNCHANGED <<record, addr, pass>>
      /\ job'[s] = [kind |-> kind, dev |-> i, net |-> n, gw |-> g]
  BY <1>1, <1>2 DEF Launch, Goto, files, locals, scan
<1>4. Turn(s)'
  BY <1>2, <1>3 DEF Turn
<1>5. RecordsFollow(s)'
  BY <1>3 DEF TurnInv, RecordsFollow, HasGateway
<1>6. StaysClean(s)'
  BY <1>1, <1>2, <1>3 DEF StaysClean, Unscanned, FirstPass
<1> QED BY <1>4, <1>5, <1>6 DEF TurnInv

\* Before gateUp selects, a script changes its own interface only, and there
\* the record goes before the address does, or is replaced after it.
LEMMA TurnBefore ==
  ASSUME NEW s, Procs = {s}, TypeInv, FirstPass, TurnInv(s),
         \/ DropRecord(s) \/ GateDown(s) \/ Ifconfig(s) \/ Unlink(s) \/ Create(s) \/ Header(s)
  PROVE  TurnInv(s)'
<1> USE DEF Goto
<1> DEFINE i == job[s].dev
<1>1. /\ pc \in [Procs -> Labels] /\ s \in Procs /\ record \in [Ifaces -> Nets \cup {None, Blank}]
      /\ addr \in [Ifaces -> Nets \cup {None}] /\ None \notin Nets /\ Blank \notin Nets
  BY ConstantsAssumption DEF TypeInv, TypeOK
<1>2. job' = job /\ pass' = pass /\ pc[s] \in Unscanned \ {"idle"}
  BY DEF DropRecord, GateDown, Ifconfig, Unlink, Create, Header, args, scan, locals, Unscanned
<1>3. /\ pass'[s] = 1 /\ job[s].kind \in Settling /\ i \in Ifaces /\ job[s].gw \in {job[s].net, None}
  BY <1>1, <1>2 DEF FirstPass, TurnInv, Turn, Unscanned
<1>c. pc'[s] \in {"ifconfig", "unlink", "create", "header", "glob"} => StaysClean(s)'
  BY <1>2, <1>3 DEF StaysClean, Unscanned
<1>4. CASE DropRecord(s) \/ GateDown(s)
  <2>1. /\ pc'[s] = "ifconfig" /\ record' = [record EXCEPT ![i] = None] /\ addr' = addr
    BY <1>1, <1>4 DEF DropRecord, GateDown, kernel, TurnInv, Turn
  <2>2. Turn(s)'
    BY <1>1, <1>2, <1>3, <2>1 DEF Turn, HasGateway
  <2>3. RecordsFollow(s)'
    BY <1>1, <1>2, <1>3, <1>4, <2>1 DEF RecordsFollow, HasGateway, TurnInv, DropRecord, GateDown
  <2> QED BY <1>c, <2>1, <2>2, <2>3 DEF TurnInv
<1>5. CASE Ifconfig(s)
  <2>1. /\ pc[s] = "ifconfig" /\ addr' = [addr EXCEPT ![i] = job[s].net] /\ record' = record
        /\ pc'[s] = IF job[s].kind = "ifdown" THEN "glob" ELSE "unlink"
    BY <1>1, <1>3, <1>5 DEF Ifconfig, AfterIfconfig, files, Settling, Ups
  <2>2. Turn(s)'
    BY <1>1, <1>2, <1>3, <2>1 DEF Turn
  <2>3. job[s].kind = "ifdown" => ~HasGateway(i)
    BY <2>1 DEF TurnInv, Turn
  <2>4. RecordsFollow(s)'
    BY <1>1, <1>2, <1>3, <2>1, <2>3 DEF RecordsFollow, HasGateway, TurnInv
  <2> QED BY <1>c, <2>1, <2>2, <2>4 DEF TurnInv
<1>6. CASE Unlink(s)
  <2>1. /\ pc[s] = "unlink" /\ record' = [record EXCEPT ![i] = None] /\ addr' = addr
        /\ pc'[s] \in {"glob", "create"}
    BY <1>1, <1>6 DEF Unlink, kernel
  <2>2. Turn(s)'
    BY <1>1, <1>2, <1>3, <2>1 DEF TurnInv, Turn
  <2>3. RecordsFollow(s)'
    BY <1>1, <1>2, <1>3, <2>1 DEF RecordsFollow, HasGateway, TurnInv
  <2> QED BY <1>c, <2>1, <2>2, <2>3 DEF TurnInv
<1>7. CASE Create(s)
  <2>1. /\ pc[s] = "create" /\ record' = [record EXCEPT ![i] = Blank] /\ addr' = addr
        /\ pc'[s] = "header"
    BY <1>1, <1>7 DEF Create, kernel
  <2>2. Turn(s)'
    BY <1>1, <1>2, <1>3, <2>1 DEF TurnInv, Turn
  <2>3. RecordsFollow(s)'
    BY <1>1, <1>2, <1>3, <2>1 DEF RecordsFollow, HasGateway, TurnInv
  <2> QED BY <1>c, <2>1, <2>2, <2>3 DEF TurnInv
<1>8. CASE Header(s)
  <2>1. /\ pc[s] = "header" /\ record' \in {record, [record EXCEPT ![i] = job[s].gw]}
        /\ addr' = addr /\ pc'[s] = "glob"
    BY <1>1, <1>8 DEF Header, kernel
  <2>2. Turn(s)'
    BY <1>1, <1>2, <1>3, <2>1 DEF TurnInv, Turn
  <2>3. addr[i] = job[s].net
    BY <2>1 DEF TurnInv, Turn
  <2>4. RecordsFollow(s)'
    BY <1>1, <1>2, <1>3, <2>1, <2>3 DEF RecordsFollow, HasGateway, TurnInv
  <2> QED BY <1>c, <2>1, <2>2, <2>4 DEF TurnInv
<1> QED BY <1>4, <1>5, <1>6, <1>7, <1>8

\* From its selection to its end, the only script is not disturbed, and gateUp
\* succeeds.
LEMMA TurnAfter ==
  ASSUME NEW s, Procs = {s}, ~MayFail, TypeInv, FollowInv, TurnInv(s), Step(s),
         ~DropRecord(s), ~GateDown(s), ~Ifconfig(s), ~Unlink(s), ~Create(s), ~Header(s)
  PROVE  TurnInv(s)'
<1> USE DEF Goto
<1>1. /\ pc \in [Procs -> Labels] /\ s \in Procs /\ clean \in [Procs -> BOOLEAN]
      /\ job \in [Procs -> Script] /\ pass \in [Procs -> {1, 2}]
  BY DEF TypeInv, TypeOK
<1>r. ASSUME UNCHANGED <<record, addr>>, pc[s] # "unlink" PROVE RecordsFollow(s)'
  BY <1>r DEF TurnInv, RecordsFollow, HasGateway
<1>k. ASSUME UNCHANGED <<record, addr>>, pc[s] \notin {"idle", "unlink"}, job' = job, clean'[s],
             pc'[s] \notin {"disable", "drop", "gateDown", "ifconfig", "unlink", "create", "header"}
      PROVE  TurnInv(s)'
  <2>1. Turn(s)'
    BY <1>k DEF TurnInv, Turn
  <2>2. StaysClean(s)'
    BY <1>k DEF StaysClean
  <2> QED BY <1>k, <1>r, <2>1, <2>2 DEF TurnInv
<1>2. CASE Glob(s)
  <2>1. /\ UNCHANGED <<record, addr, job>> /\ pc[s] = "glob" /\ pc'[s] = "test"
        /\ clean'[s] = (pass[s] = 1 \/ clean[s])
    <3>1. Splits(s)
      BY <1>2 DEF Glob, TurnInv, Turn, Splits, Settling
    <3> QED BY <1>1, <1>2, <3>1 DEF Glob, system, files, kernel, args
  <2>2. clean'[s]
    BY <1>1, <2>1 DEF TurnInv, StaysClean
  <2> QED BY <1>k, <2>1, <2>2
<1>3. CASE \/ Test(s) \/ Read(s) \/ EndOfScan(s) \/ Truncate(s) \/ WriteResolv(s) \/ Snapshot(s)
           \/ AddRoute(s) \/ DelRoute(s) \/ FlushRoute(s) \/ HostsFile(s) \/ HostOpen(s) \/ HostTop(s)
           \/ HostMerge(s) \/ TunRead(s) \/ TopIf(s) \/ MasqDel(s) \/ TunWrite(s) \/ MasqAdd(s)
  <2>1. UNCHANGED <<record, addr, job>>
    BY <1>3 DEF Test, Read, EndOfScan, Truncate, WriteResolv, Snapshot, AddRoute, DelRoute,
       FlushRoute, HostsFile, HostOpen, HostTop, HostMerge, TunRead, TopIf, MasqDel, TunWrite, MasqAdd,
       system, files, kernel, args
  <2>2. pc[s] \notin Unscanned \cup {"glob"}
    BY <1>3 DEF Test, Read, EndOfScan, Truncate, WriteResolv, Snapshot, AddRoute, DelRoute,
       FlushRoute, HostsFile, HostOpen, HostTop, HostMerge, TunRead, TopIf, MasqDel, TunWrite, MasqAdd,
       Unscanned
  <2>3. clean[s]
    BY <2>2 DEF TurnInv, StaysClean
  <2>4. clean'[s]
    BY <1>1, <1>3, <2>3 DEF Test, Read, EndOfScan, Truncate, WriteResolv, Snapshot, AddRoute,
       DelRoute, FlushRoute, HostsFile, HostOpen, HostTop, HostMerge, TunRead, TopIf, MasqDel, TunWrite,
       MasqAdd, DisturbOthers
  <2>5. pc'[s] \notin {"disable", "drop", "gateDown", "ifconfig", "unlink", "create", "header"}
    BY <1>1, <1>3 DEF Test, Read, EndOfScan, Truncate, WriteResolv, Snapshot, AddRoute, DelRoute,
       FlushRoute, HostsFile, HostOpen, HostTop, HostMerge, TunRead, TopIf, MasqDel, TunWrite, MasqAdd,
       AfterWrite, AfterTopIf
  <2> QED BY <1>k, <2>1, <2>2, <2>4, <2>5 DEF Unscanned
<1>4. CASE GateUpReturns(s)
  <2>1. /\ UNCHANGED <<record, addr, job, clean>> /\ pc[s] \in {"del", "flush"}
        /\ pc'[s] = AfterGateUp(s)
    BY <1>1, <1>4 DEF GateUpReturns, system, files, kernel, args
  <2>2. clean[s]
    BY <2>1 DEF TurnInv, StaysClean, Unscanned
  <2>3. ok[s] = TRUE
    BY <1>1, <2>1, <2>2 DEF FollowInv, Fresh, FollowUp, NotDeleted
  <2>4. pc'[s] = "hosts"
    BY <2>1, <2>3 DEF AfterGateUp
  <2> QED BY <1>k, <2>1, <2>2, <2>4
<1>5. CASE Exit(s)
  <2>1. /\ UNCHANGED <<record, addr, clean>> /\ pc[s] = "exit" /\ pc'[s] = "idle"
        /\ job'[s] = NoJob
    BY <1>1, <1>5 DEF Exit, system, files, kernel
  <2>2. clean'[s]
    BY <2>1 DEF TurnInv, StaysClean, Unscanned
  <2>3. Turn(s)'
    BY <2>1 DEF Turn, NoJob
  <2>4. StaysClean(s)'
    BY <2>1, <2>2 DEF StaysClean
  <2> QED BY <1>r, <2>1, <2>3, <2>4 DEF TurnInv
<1>6. ~Disable(s) /\ ~IfconfigRefused(s) /\ ~SnapshotUnsplit(s)
  BY DEF Disable, IfconfigRefused, SnapshotUnsplit, TurnInv, Turn, Splits, Settling
<1> QED BY <1>2, <1>3, <1>4, <1>5, <1>6 DEF Step

\* As long as scripts take turns and each ends in gateUp, whenever none runs the
\* default route and resolv.conf are with the first interface of
\* gateway.priority of those that are up with a gateway, for any list and any
\* interfaces.  The scripts that break it are those left out: deconfig, unplug
\* and ip-down, an ip-up that PEERNAME deprived of IFS, and one that ifconfig
\* fails.
THEOREM GatewayFollowsPriorityInTurn ==
  ASSUME NEW s, Procs = {s}, ~MayFail, Jobs \subseteq Settling
  PROVE  Spec => []GatewayFollowsPriority
<1>1. Init => TurnInv(s)
  BY ConstantsAssumption DEF Init, TurnInv, Turn, RecordsFollow, StaysClean, Recorded, HasGateway,
     NoJob, Unscanned
<1>2. TypeInv /\ CleanInv /\ FollowInv /\ TurnInv(s) /\ [Next]_vars => TurnInv(s)'
  <2> SUFFICES ASSUME TypeInv, CleanInv, FollowInv, TurnInv(s), [Next]_vars
               PROVE  TurnInv(s)'
    OBVIOUS
  <2>1. CASE UNCHANGED vars
    BY <2>1 DEF vars, TurnInv, Turn, RecordsFollow, StaysClean, Recorded, HasGateway
  <2>2. CASE Start(s)
    BY <2>2, TurnStart DEF CleanInv
  <2>3. CASE Step(s)
    BY <2>3, TurnBefore, TurnAfter DEF CleanInv
  <2> QED BY <2>1, <2>2, <2>3 DEF Next
<1>3. CleanInv /\ TurnInv(s) => GatewayFollowsPriority
  <2> SUFFICES ASSUME CleanInv, TurnInv(s), AllIdle, NEW w \in Ifaces, BestOf(Alive, w)
               PROVE  routes = {<<record[w], w>>} /\ resolvConf = w
    BY DEF GatewayFollowsPriority
  <2>1. pc[s] = "idle"
    BY DEF AllIdle
  <2>2. Alive = Recorded
    BY <2>1 DEF Alive, Recorded, TurnInv, RecordsFollow
  <2>3. BestOf(Recorded, w) /\ w \in Alive
    BY <2>2 DEF BestOf
  <2>4. clean[s]
    BY <2>1, <2>3 DEF TurnInv, StaysClean, BestOf
  <2>5. GatewayRight
    BY <2>1, <2>4 DEF CleanInv, CleanState, GateUpDone, HostsDone, Finished
  <2> QED BY <2>3, <2>5 DEF GatewayRight, Alive
<1> QED BY TypeInit, TypeStep, CleanInit, CleanStep, FollowInit, FollowStep, <1>1, <1>2, <1>3, PTL
   DEF Spec

=============================================================================
