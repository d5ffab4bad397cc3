--------------------------------- MODULE Ccd ---------------------------------
(* The class driver of the instrument's camera, starlight/kernel/ccd.c.      *)
(* Up to three clients, one for each field of the chip and one for both,     *)
(* queue exposures on one device.  A kernel timer completes the exposure at  *)
(* the head of the queue, its client downloads the image row by row, and the *)
(* last row takes it off the queue and starts or resumes the next one.       *)
(* A step is one system call, one run of the timer's handler, one wake-up of *)
(* a blocked read, or one row of a read: the mini-driver sleeps in read_row  *)
(* until it has the row, and everyone else goes on meanwhile.  The kernel is *)
(* one of 4.14 or later: the handler finds its exposure in the device.  Time *)
(* is jiffies.                                                               *)
EXTENDS Integers, Sequences, FiniteSets, SequencesExt

CONSTANTS Clients,    \* minor numbers in use: 0 both fields, 1 odd, 2 even
          Ids,        \* memory for struct ccd_exposure
          Durations,  \* exposure times that are asked for
          Rows,       \* rows of an image
          OutCap,     \* replies that fit out_buf
          InCap,      \* messages that fit in_buf
          MaxTime,    \* bound on jiffies
          NoWipes,    \* values of CCD_NOWIPE_FRAME that clients use
          Askers,     \* the clients that query, and that read parts of rows
          Brief,      \* the clients that ask for no longer exposure than 1
          SharedFile, \* may a client write while another thread of it reads?
          Replugs,    \* how often the camera may be plugged in again
          None        \* no exposure

ASSUME CcdAssumption ==
  /\ Clients \subseteq 0..2 /\ Askers \subseteq Clients /\ Brief \subseteq Clients
  /\ Durations \subseteq Nat /\ NoWipes \subseteq BOOLEAN
  /\ Rows \in Nat \ {0} /\ Rows < 1000000 /\ OutCap \in Nat /\ InCap \in Nat /\ MaxTime \in Nat
  /\ SharedFile \in BOOLEAN /\ Replugs \in Nat
  /\ Ids \subseteq Nat /\ None \notin Nat

VARIABLES dev,     \* struct ccd_device: its queue, timer and frame download
          client,  \* struct ccd_client of each minor number
          usage,   \* the device's count of open files, dev->opened
          camera,  \* is the mini-driver open?
          now,     \* jiffies
          plugs    \* how often the camera was plugged in again

vars == <<dev, client, usage, camera, now, plugs>>

(* An exposure: complete is 0, 1 (latched) or 2 (aborted, -1 in the code);   *)
(* begun is whether the mini-driver's new_frame was called for it.            *)
Exposures ==
  [client : Clients, msec : Durations, begin : Nat, end : Nat,
   complete : 0..2, begun : BOOLEAN]

ASSUME NoneAssumption == None \notin Exposures

(* current_read_row: a row, or one of two marks.                             *)
StartLoad == -1
EndLoad == 1000000
RowStates == -1..Rows \cup {EndLoad}

\* Garbage has no header, or is a message cut short.  A fatal message is one for
\* the temperature, which calls the null temp_control of this camera, or one of
\* no known kind and length zero, which is never shifted out of in_buf.
Messages == [op : {"query", "abort", "control", "garbage", "fatal"}]
              \cup [op : {"expose"}, msec : Durations, nowipe : NoWipes]

Expiries == Nat \cup {None}
Targets == Ids \cup {None}
Memory == [Ids -> Exposures \cup {None}]
Devices ==
  [registered : BOOLEAN, list : Seq(Ids), timer : Expiries, target : Targets,
   row : RowStates, woken : SUBSET Clients, bug : BOOLEAN, exp : Memory]

\* What a client's process does in the driver: nothing, wait for its exposure
\* to be at the head and complete, sleep in read_row for a row or for one of
\* which only a part fits its buffer; or it does not come back, having followed
\* a bad pointer or for ever in a loop.
Sleeping == {"row", "part"}
Doing == {"idle", "wait", "oops"} \cup Sleeping

\* out is the replies in out_buf; OutCap + 1 is a row written past its end.
ClientStates ==
  [opened : BOOLEAN, mine : Seq(Ids), inbuf : Seq(Messages), out : 0..OutCap + 1, rd : Doing]

\* The queue of d holds exposures that are allocated, each once.
Allocated(d) == IsInjective(d.list) /\ \A i \in DOMAIN d.list : d.exp[d.list[i]] # None

(* The queue holds exposures that are allocated, each once, also after calls *)
(* were cut off by an unplugged camera; in_buf stays within its size, and     *)
(* out_buf does until a read of a part of a row overruns it, which stops the  *)
(* model.                                                                    *)
TypeOK ==
  /\ dev \in Devices /\ Allocated(dev)
  /\ client \in [Clients -> ClientStates]
  /\ \A c \in Clients :
       Len(client[c].inbuf) <= InCap /\ (client[c].out <= OutCap \/ dev.bug)
  /\ usage \in 0..Cardinality(Clients)
  /\ camera \in BOOLEAN
  /\ now \in 0..MaxTime /\ plugs \in 0..Replugs

FieldsOf(c) == CASE c = 0 -> {"odd", "even"} [] c = 1 -> {"odd"} [] c = 2 -> {"even"}

Init ==
  /\ dev = [registered |-> TRUE, list |-> <<>>, timer |-> None, target |-> None,
            row |-> EndLoad, woken |-> {}, bug |-> FALSE, exp |-> [x \in Ids |-> None]]
  /\ client = [c \in Clients |-> [opened |-> FALSE, mine |-> <<>>, inbuf |-> <<>>,
                                  out |-> 0, rd |-> "idle"]]
  /\ usage = 0 /\ camera = FALSE /\ now = 0 /\ plugs = 0

-----------------------------------------------------------------------------
(* Exposure management: each operator is the device after the call.          *)

\* Those that wake_up_interruptible(&client->read_wait) wakes.
Waiting(c) == {b \in {c} : client[b].rd = "wait"}

\* start_exposure: del_timer, then add_timer.
StartExposure(d, x) ==
  LET end == now + d.exp[x].msec
  IN [d EXCEPT !.exp[x] = [d.exp[x] EXCEPT !.begun = TRUE, !.begin = now, !.end = end],
               !.timer = end, !.target = x]

\* Mutant of FinishExposure: the waiting read is not woken.
FinishExposureQuiet(d, x) ==
  IF d.exp[x] # None /\ d.list # <<>> /\ d.exp[x].complete = 0 /\ Head(d.list) = x
  THEN [d EXCEPT !.row = StartLoad, !.exp[x].complete = 1]
  ELSE d

\* Mutant of FinishExposure: whether it completed already is not tested.
FinishExposureAgain(d, x) ==
  IF d.exp[x] # None /\ d.list # <<>>
  THEN [d EXCEPT !.row = StartLoad, !.exp[x].complete = 1,
                 !.woken = @ \cup Waiting(d.exp[x].client)]
  ELSE d

FinishExposure(d, x) ==
  IF d.exp[x] # None /\ d.list # <<>> /\ d.exp[x].complete = 0 /\ Head(d.list) = x
  THEN [d EXCEPT !.row = StartLoad, !.exp[x].complete = 1,
                 !.woken = @ \cup Waiting(d.exp[x].client)]
  ELSE d

\* add_timer: a timer that is pending already stops the kernel, BUG_ON.
AddTimer(d, x) ==
  [d EXCEPT !.target = x, !.timer = d.exp[x].end, !.bug = @ \/ d.timer # None]

\* update_exposures from the i-th of the queue: each one follows the one before.
UpdateExposures(d, i) ==
  LET end[k \in i..Len(d.list)] ==
        IF k = i THEN d.exp[d.list[i]].end ELSE end[k-1] + d.exp[d.list[k]].msec
  IN [d EXCEPT !.exp = [x \in Ids |->
       IF \E k \in i+1..Len(d.list) : d.list[k] = x
       THEN LET k == CHOOSE k \in i+1..Len(d.list) : d.list[k] = x
            IN [d.exp[x] EXCEPT !.begin = end[k-1], !.end = end[k]]
       ELSE d.exp[x]]]

\* The head of the queue is gone: start the next exposure, or, when it began
\* before the old head x ended, resume it.
Successor(d, x) ==
  LET y == Head(d.list)
  IN IF d.exp[x].end <= d.exp[y].begin THEN StartExposure(UpdateExposures(d, 1), y)
     ELSE IF d.exp[y].end <= now THEN FinishExposure(d, y)
     ELSE AddTimer(d, y)

\* Mutant of DelExposure: the next exposure is left to itself.
DelExposureOnly(d, x) ==
  [d EXCEPT !.list = SelectSeq(@, LAMBDA y : y # x),
            !.timer = IF Contains(d.list, x) /\ d.exp[x].complete = 0 THEN None ELSE @]

DelExposure(d, x) ==
  IF d.list # <<>> /\ Head(d.list) = x
  THEN LET e == [d EXCEPT !.list = Tail(@),
                          !.timer = IF d.exp[x].complete = 0 THEN None ELSE @]
       IN IF e.list = <<>> THEN e ELSE Successor(e, x)
  ELSE IF Contains(d.list, x)
       THEN LET i == SelectInSeq(d.list, LAMBDA y : y = x)
            IN UpdateExposures([d EXCEPT !.list = RemoveAt(@, i)], i - 1)
       ELSE d

\* del_exposure, then kfree.
DelAndFree(d, x) == [DelExposure(d, x) EXCEPT !.exp[x] = None]

-----------------------------------------------------------------------------
(* A call works on a record of the device and of the client that calls:      *)
(* s.d and s.c.  A loop of the code is a function of the rounds it has done. *)

Free(d) == {x \in Ids : d.exp[x] = None}

\* Mutant of Queue: an exposure that overlaps the one at the head always goes
\* before it.
QueueFirst(d, x, nowipe) ==
  LET e == d.exp[x]
      h == d.exp[Head(d.list)]
      overlap == [e EXCEPT !.begin = now, !.end = now + e.msec]
      last == d.exp[Last(d.list)]
      after == [e EXCEPT !.begin = last.end, !.end = last.end + e.msec]
  IN IF d.list = <<>> THEN StartExposure([d EXCEPT !.list = <<x>>], x)
     ELSE IF nowipe /\ FieldsOf(e.client) \cap FieldsOf(h.client) = {} /\ Len(d.list) = 1
     THEN AddTimer([d EXCEPT !.exp[x] = overlap, !.list = <<x>> \o @, !.timer = None], x)
     ELSE [d EXCEPT !.exp[x] = after, !.list = Append(@, x)]

\* new_exposure, the parts after it is allocated and on the client's list.
\* An exposure of the other field, without a wipe, overlaps the only exposure
\* of the queue; when it ends first it goes before that one.
Queue(d, x, nowipe) ==
  LET e == d.exp[x]
      h == d.exp[Head(d.list)]
      overlap == [e EXCEPT !.begin = now, !.end = now + e.msec]
      last == d.exp[Last(d.list)]
      after == [e EXCEPT !.begin = last.end, !.end = last.end + e.msec]
  IN IF d.list = <<>> THEN StartExposure([d EXCEPT !.list = <<x>>], x)
     ELSE IF nowipe /\ FieldsOf(e.client) \cap FieldsOf(h.client) = {} /\ Len(d.list) = 1
     THEN IF now + e.msec < h.end
          THEN AddTimer([d EXCEPT !.exp[x] = overlap, !.list = <<x>> \o @, !.timer = None], x)
          ELSE [d EXCEPT !.exp[x] = [overlap EXCEPT !.begun = TRUE], !.list = Append(@, x)]
     ELSE [d EXCEPT !.exp[x] = after, !.list = Append(@, x)]

\* kmalloc takes some free memory.
NewExposure(s, c, m) ==
  LET x == CHOOSE x \in Ids : x \in Free(s.d)
      e == [client |-> c, msec |-> m.msec, begin |-> 0, end |-> 0,
            complete |-> 0, begun |-> FALSE]
  IN [d |-> Queue([s.d EXCEPT !.exp[x] = e], x, m.nowipe),
      c |-> [s.c EXCEPT !.mine = <<x>> \o @]]

\* What becomes of a process when its client's exposures are freed: one that
\* sleeps in read_row comes back to read_exposure, which uses the freed
\* exposure and frees it again.
CutOff(rd) == IF rd \in Sleeping THEN "oops" ELSE rd

\* abort_exposures: a download stops only when the client's newest exposure is
\* the one at the head; the newest, if not complete, is marked -1 (2 here) and
\* the pending read is woken; then all the client's exposures go, newest first.
AbortExposures(s, c) ==
  LET newest == Head(s.c.mine)
      atHead == s.d.list # <<>> /\ Head(s.d.list) = newest
      stopped == [s.d EXCEPT !.row = IF atHead THEN EndLoad ELSE @]
      marked == IF stopped.exp[newest].complete = 0
                THEN [stopped EXCEPT !.exp[newest].complete = 2, !.woken = @ \cup Waiting(c)]
                ELSE stopped
      rest[k \in 0..Len(s.c.mine)] ==
        IF k = 0 THEN marked ELSE DelAndFree(rest[k-1], s.c.mine[k])
  IN IF s.c.mine = <<>> THEN [s EXCEPT !.c.out = 0]
     ELSE [d |-> rest[Len(s.c.mine)],
           c |-> [s.c EXCEPT !.mine = <<>>, !.out = 0, !.rd = CutOff(@)]]

\* One message of parse_binary_msg.  A query without room for its reply ends
\* the call with ENOBUFS and stays in in_buf, as does all that follows it.  The
\* caller does not come back from a fatal message, nor from an exposure without
\* memory: what kmalloc returns is not tested.
Parse(s, m, c) ==
  IF s.c.inbuf # <<>> \/ (m.op = "query" /\ s.c.out >= OutCap)
  THEN [s EXCEPT !.c = [s.c EXCEPT !.inbuf = Append(@, m)]]
  ELSE IF m.op = "fatal" \/ (m.op = "expose" /\ Free(s.d) = {})
  THEN [s EXCEPT !.c = [s.c EXCEPT !.inbuf = Append(@, m), !.rd = "oops"]]
  ELSE CASE m.op = "query" -> [s EXCEPT !.c.out = @ + 1]
         [] m.op = "expose" -> NewExposure(s, c, m)
         [] m.op = "abort" -> AbortExposures(s, c)
         [] m.op \in {"control", "garbage"} -> s

ParseBinaryMsg(s, c, msgs) ==
  LET parsed[k \in 0..Len(msgs)] ==
        IF k = 0 THEN [s EXCEPT !.c.inbuf = <<>>] ELSE Parse(parsed[k-1], msgs[k], c)
  IN parsed[Len(msgs)]

\* read_exposure up to the sleep in read_row.
BeginRead(s, part) ==
  [d |-> [s.d EXCEPT !.row = IF @ = StartLoad THEN 0 ELSE @],
   c |-> [s.c EXCEPT !.rd = IF part THEN "part" ELSE "row"]]

\* Mutant of ReadExposure: an image that was read stays on the client's list.
ReadExposureLeft(s, more) ==
  LET x == Head(s.d.list)
      next == s.d.row + 1
  IN IF next < Rows
     THEN [d |-> [s.d EXCEPT !.row = next], c |-> [s.c EXCEPT !.rd = IF more THEN @ ELSE "idle"]]
     ELSE [d |-> DelAndFree([s.d EXCEPT !.row = EndLoad], x), c |-> [s.c EXCEPT !.rd = "idle"]]

\* read_exposure once read_row has its row: the last row ends the frame and
\* frees the exposure; after another the read goes on if there is room for more.
ReadExposure(s, more) ==
  LET x == Head(s.d.list)
      next == s.d.row + 1
  IN IF next < Rows
     THEN [d |-> [s.d EXCEPT !.row = next], c |-> [s.c EXCEPT !.rd = IF more THEN @ ELSE "idle"]]
     ELSE [d |-> DelAndFree([s.d EXCEPT !.row = EndLoad], x),
           c |-> [s.c EXCEPT !.mine = RemoveFirst(@, x), !.rd = "idle"]]

\* read_binary_exposure when only a part of a row fits the caller's buffer: the
\* row, with the image's header if it is the first, goes to out_buf, which
\* keeps the rest.  A wide one is written past its end: nothing can be said of
\* the kernel after that.
ReadPart(s, wide) ==
  LET t == ReadExposure(s, FALSE)
  IN [d |-> [t.d EXCEPT !.bug = @ \/ wide],
      c |-> [t.c EXCEPT !.out = IF wide THEN OutCap + 1 ELSE OutCap]]

-----------------------------------------------------------------------------
(* File operations.                                                          *)

HeadIsOf(d, c) == d.list # <<>> /\ d.exp[Head(d.list)].client = c
Ready(d, c) == HeadIsOf(d, c) /\ d.exp[Head(d.list)].complete # 0
Latched(d, c) == HeadIsOf(d, c) /\ d.exp[Head(d.list)].complete = 1

Running == ~dev.bug

Call(c, s) == dev' = s.d /\ client' = [client EXCEPT ![c] = s.c]
State(c) == [d |-> dev, c |-> client[c]]

ccd_open(c) ==
  /\ Running /\ dev.registered /\ ~client[c].opened
  /\ camera' = (camera \/ usage = 0)
  /\ client' = [client EXCEPT ![c] = [opened |-> TRUE, mine |-> <<>>, inbuf |-> <<>>,
                                     out |-> 0, rd |-> "idle"]]
  /\ usage' = usage + 1
  /\ UNCHANGED <<dev, now, plugs>>

\* The last close closes the mini-driver, also one that was never opened since
\* the camera was plugged in again.
ccd_close(c) ==
  /\ Running /\ client[c].opened /\ client[c].rd \in {"idle", "oops"}
  /\ LET s == AbortExposures(State(c), c)
     IN Call(c, [s EXCEPT !.c = [s.c EXCEPT !.opened = FALSE, !.inbuf = <<>>, !.out = 0]])
  /\ usage' = IF usage > 0 THEN usage - 1 ELSE 0
  /\ camera' = (camera /\ usage # 1)
  /\ UNCHANGED <<now, plugs>>

\* A write to a full in_buf copies nothing, and parses all the same.  What
\* follows garbage in in_buf goes with it.
ccd_write(c, m) ==
  LET inbuf == client[c].inbuf
      lost == \E i \in DOMAIN inbuf : inbuf[i].op = "garbage"
      msgs == IF Len(inbuf) < InCap /\ ~lost THEN Append(inbuf, m) ELSE inbuf
  IN /\ Running /\ dev.registered /\ client[c].opened
     /\ client[c].rd = "idle" \/ SharedFile
     /\ m.op \in {"query", "garbage", "fatal"} => c \in Askers
     /\ m.op = "expose" /\ c \in Brief => m.msec <= 1
     /\ Call(c, ParseBinaryMsg(State(c), c, msgs))
     /\ UNCHANGED <<usage, camera, now, plugs>>

\* ccd_read.  A buffered reply comes first; a client with no exposure gets end
\* of file; otherwise the read blocks until the head of the queue is the
\* client's and complete.
ccd_read(c, part) ==
  /\ Running /\ dev.registered /\ client[c].opened /\ client[c].rd = "idle"
  /\ part => c \in Askers
  /\ \/ \E left \in 0..client[c].out - 1 :
          client' = [client EXCEPT ![c].out = left] /\ UNCHANGED dev
     \/ /\ client[c].out = 0 /\ client[c].mine # <<>> /\ Latched(dev, c)
        /\ Call(c, BeginRead(State(c), part))
     \/ /\ client[c].out = 0 /\ client[c].mine # <<>> /\ ~Ready(dev, c)
        /\ client' = [client EXCEPT ![c].rd = "wait"] /\ UNCHANGED dev
  /\ UNCHANGED <<usage, camera, now, plugs>>

\* The blocked read is woken, by the driver or by a signal, and looks at the
\* head of the queue: without one it follows a null pointer.
wait_event(c, part, signal) ==
  /\ Running /\ client[c].rd = "wait" /\ (signal \/ c \in dev.woken)
  /\ part => c \in Askers
  /\ LET s == [State(c) EXCEPT !.d.woken = @ \ {c}]
     IN Call(c, IF dev.list = <<>> THEN [s EXCEPT !.c.rd = "oops"]
                ELSE IF signal THEN [s EXCEPT !.c.rd = "idle"]
                ELSE IF ~Ready(dev, c) THEN s
                ELSE IF Latched(dev, c) THEN BeginRead(s, part)
                ELSE [s EXCEPT !.c.rd = "idle"])
  /\ UNCHANGED <<usage, camera, now, plugs>>

\* read_row has a row; more is whether the caller's buffer has room for another
\* one, wide whether a row does not fit out_buf.
read_row(c, more) ==
  /\ Running /\ client[c].rd = "row"
  /\ Call(c, ReadExposure(State(c), more))
  /\ UNCHANGED <<usage, camera, now, plugs>>

read_part(c, wide) ==
  /\ Running /\ client[c].rd = "part"
  /\ Call(c, ReadPart(State(c), wide))
  /\ UNCHANGED <<usage, camera, now, plugs>>

-----------------------------------------------------------------------------
(* The timer and the camera's plug.                                          *)

\* complete_exposure.  A target that was freed has no effect here.
complete_exposure ==
  /\ Running /\ dev.timer # None /\ dev.timer <= now
  /\ dev' = FinishExposure([dev EXCEPT !.timer = None], dev.target)
  /\ UNCHANGED <<client, usage, camera, now, plugs>>

Tick ==
  /\ Running /\ now < MaxTime
  /\ now' = now + 1
  /\ UNCHANGED <<dev, client, usage, camera, plugs>>

\* Mutant of ccd_unregister_device: the device keeps its queue.
unregister_but_list ==
  /\ Running /\ dev.registered
  /\ dev' = [dev EXCEPT !.registered = FALSE, !.row = EndLoad,
                        !.exp = [x \in Ids |-> None]]
  /\ client' = [c \in Clients |-> [client[c] EXCEPT !.mine = <<>>]]
  /\ usage' = 0 /\ camera' = FALSE
  /\ UNCHANGED <<now, plugs>>

\* Every client's exposures are freed; neither the timer nor a blocked read
\* hears of it, and a reader that sleeps in read_row has the freed one.
ccd_unregister_device ==
  /\ Running /\ dev.registered
  /\ dev' = [dev EXCEPT !.registered = FALSE, !.list = <<>>, !.row = EndLoad,
                        !.exp = [x \in Ids |-> None]]
  /\ client' = [c \in Clients |-> [client[c] EXCEPT !.mine = <<>>, !.rd = CutOff(@)]]
  /\ usage' = 0 /\ camera' = FALSE
  /\ UNCHANGED <<now, plugs>>

ccd_register_device ==
  /\ Running /\ ~dev.registered /\ plugs < Replugs
  /\ dev' = [dev EXCEPT !.registered = TRUE, !.list = <<>>]
  /\ plugs' = plugs + 1
  /\ UNCHANGED <<client, usage, camera, now>>

Wake(c) == \E part \in BOOLEAN : wait_event(c, part, FALSE)

Next ==
  \/ \E c \in Clients : ccd_open(c) \/ ccd_close(c)
  \/ \E c \in Clients, m \in Messages : ccd_write(c, m)
  \/ \E c \in Clients, part \in BOOLEAN : ccd_read(c, part) \/ wait_event(c, part, TRUE)
  \/ \E c \in Clients, b \in BOOLEAN : read_row(c, b) \/ read_part(c, b)
  \/ \E c \in Clients : Wake(c)
  \/ complete_exposure \/ Tick
  \/ ccd_unregister_device \/ ccd_register_device

(* Time passes, the kernel runs a timer that is due and a process it woke.   *)
Fairness == WF_vars(Tick) /\ WF_vars(complete_exposure) /\ \A c \in Clients : WF_vars(Wake(c))

Spec == Init /\ [][Next]_vars /\ Fairness

-----------------------------------------------------------------------------
(* Properties.                                                               *)

\* a is before b on list l.
Before(l, a, b) == \E i, j \in DOMAIN l : i < j /\ l[i] = a /\ l[j] = b

\* List m is client c's part of the queue of d, newest first.
PartOf(m, d, c) ==
  /\ ToSet(m) = {x \in ToSet(d.list) : d.exp[x].client = c}
  /\ \A i, j \in DOMAIN m : i < j => Before(d.list, m[j], m[i])

(* The device's queue and the clients' own lists, which the code splices in  *)
(* separate places, hold the same exposures: a client's list is its part of  *)
(* the queue, newest first.                                                  *)
ClientOrder == \A c \in Clients : PartOf(client[c].mine, dev, c)

(* Whatever completed, overlapped, was read, aborted or unplugged before, an *)
(* exposure that waits at the head of the queue has the timer.               *)
HeadArmed ==
  Running /\ dev.list # <<>> /\ dev.exp[Head(dev.list)].complete = 0
    => dev.timer # None /\ dev.target = Head(dev.list)

(* An image of which some rows were read stays at the head of the queue and  *)
(* its rows are read in order, whatever the other clients queue or abort and *)
(* whatever the timer does, until it leaves the queue for good.  Its memory   *)
(* may then be used at once for an exposure, which is not complete.          *)
DownloadUndisturbed ==
  [][\A x \in Ids :
       /\ dev.row \in 0..Rows /\ dev.list # <<>> /\ Head(dev.list) = x
       /\ dev.exp[x].complete = 1 /\ Contains(dev'.list, x) /\ dev'.exp[x].complete = 1
       => Head(dev'.list) = x /\ dev'.row \in dev.row..Rows]_vars

(* read_exposure keeps a pointer to the exposure across the sleep in read_row *)
(* and takes it for the head of the queue afterwards.  It is: whatever other  *)
(* clients queue, read or abort and whatever the timer does, a reader that    *)
(* sleeps has its own image, latched, at the head.  Only an unplugged camera  *)
(* or an abort by another thread of the same client frees it meanwhile, and   *)
(* that reader is lost.                                                      *)
ReaderHasImage == \A c \in Clients : client[c].rd \in Sleeping => Latched(dev, c)

(* A read that blocks returns, unless the queue waits for another client to  *)
(* fetch its image, the camera was unplugged, or the exposure ends after the  *)
(* bound on time.                                                            *)
ReaderServed ==
  \A c \in Clients :
    client[c].rd = "wait" ~>
      \/ client[c].rd # "wait"
      \/ dev.list # <<>> /\ dev.exp[Head(dev.list)].complete = 1 /\ ~HeadIsOf(dev, c)
      \/ dev.timer # None /\ dev.timer > MaxTime
      \/ ~dev.registered \/ plugs > 0 \/ dev.bug

(* "Start next exposure.  Need to update the begin end times due to time     *)
(* spent in I/O": an image that is latched was begun by new_frame and was    *)
(* exposed for its time.                                                     *)
ExposedInFull ==
  \A x \in Ids : dev.exp[x] # None /\ dev.exp[x].complete = 1
    => dev.exp[x].begun /\ now >= dev.exp[x].begin + dev.exp[x].msec

=============================================================================
