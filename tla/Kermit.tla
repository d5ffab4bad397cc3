------------------------------- MODULE Kermit -------------------------------
(* G-Kermit sending a batch of files to G-Kermit, gkermit/gproto.w and       *)
(* gkermit/gkermit.c, over a line that loses and garbles packets and delays  *)
(* them.  A step is one call of input(), the action of the state machine for *)
(* the packet that it returns, and the packet that the action sends.         *)
(* Packets are left abstract: a packet whose block check fails is garbled.   *)
EXTENDS Naturals, Sequences, SequencesExt

CONSTANTS Files,      \* the files to send, each a sequence of data fields
          MaxTry,     \* MAXTRY
          Mod,        \* packet numbers are modulo 64 in the code
          Options,    \* what the programs may agree on, and the receiver's disk
          MaxFaults,  \* bound on lost, garbled and overtaken packets
          None

ASSUME KermitAssumption ==
  /\ Files \in Seq(Seq(Nat)) /\ MaxTry \in Nat /\ Mod \in Nat \ {0, 1}
  /\ Options \subseteq [stream : BOOLEAN, attributes : BOOLEAN, diskFails : BOOLEAN]
  /\ MaxFaults \in Nat

VARIABLES snd, rcv,      \* the two programs
          toRcv, toSnd,  \* the two directions of the line
          opt,           \* the options of this transfer
          faults

vars == <<snd, rcv, toRcv, toSnd, opt, faults>>

\* Type, number and data of a packet; Q is one whose block check fails.
Packet(type, n, data) == [type |-> type, n |-> n, data |-> data]
Types == {"S", "F", "A", "D", "Z", "B", "Y", "N", "E", "Q"}
Packets == [type : Types, n : 0..Mod-1, data : Nat]

ASSUME NoneAssumption == None \notin Packets

SndStates == {"s", "ssini", "ssfil", "ssatt", "ssdat", "sseof", "sseot", "done", "failed"}
RcvStates == {"v", "srini", "srfil", "sratt", "srdat", "done", "failed"}

(* The program counters, counts and packets are of their types, and a count  *)
(* of retries never passes the limit.                                        *)
TypeOK ==
  /\ snd \in [st : SndStates, seq : 0..Mod-1, retries : 0..MaxTry, streaming : BOOLEAN,
              pkt : Packets \cup {None}, file : 0..Len(Files), pos : Nat]
  /\ rcv \in [st : RcvStates, seq : 0..Mod-1, retries : 0..MaxTry, streaming : BOOLEAN,
              pkt : Packets \cup {None}, data : Seq(Nat), got : Seq(Seq(Nat))]
  /\ toRcv \in Seq(Packets) /\ toSnd \in Seq(Packets)
  /\ opt \in Options /\ faults \in 0..MaxFaults

Ended(p) == p.st \in {"done", "failed"}
Active(p) == p.st \notin {"done", "failed", "s", "v"}

Init ==
  /\ snd = [st |-> "s", seq |-> 0, retries |-> 0, streaming |-> FALSE, pkt |-> None,
            file |-> 0, pos |-> 0]
  /\ rcv = [st |-> "v", seq |-> 0, retries |-> 0, streaming |-> FALSE, pkt |-> None,
            data |-> <<>>, got |-> <<>>]
  /\ toRcv = <<>> /\ toSnd = <<>> /\ faults = 0
  /\ opt \in Options

-----------------------------------------------------------------------------
(* Sending a packet: the program p after it; p.pkt is what went out.         *)

NextNumber(p) == (p.seq + 1) % Mod

\* Mutant of SendNext: nxtpkt forgets to reset the count of retries.
SendNextTired(p, type, data) ==
  [p EXCEPT !.seq = NextNumber(p), !.pkt = Packet(type, NextNumber(p), data)]

\* nxtpkt, then spacket.
SendNext(p, type, data) ==
  [p EXCEPT !.seq = NextNumber(p), !.retries = 0, !.pkt = Packet(type, NextNumber(p), data)]

\* errpkt: an Error packet, then doexit(1).
ErrPkt(p) == [p EXCEPT !.pkt = Packet("E", p.seq, 0), !.st = "failed"]

\* Mutant of Resend: one retry too many.
ResendOnceMore(p) ==
  IF p.retries > MaxTry THEN ErrPkt(p)
  ELSE [p EXCEPT !.retries = @ + 1,
                 !.pkt = IF p.pkt = None THEN Packet("N", p.seq, 0) ELSE @]

\* Mutant of Resend: retries are not counted.
ResendForever(p) ==
  [p EXCEPT !.pkt = IF p.pkt = None THEN Packet("N", p.seq, 0) ELSE @]

\* resend, or nak when nothing was sent yet: the packet goes out again.
Resend(p) ==
  IF p.retries + 1 > MaxTry THEN ErrPkt(p)
  ELSE [p EXCEPT !.retries = @ + 1,
                 !.pkt = IF p.pkt = None THEN Packet("N", p.seq, 0) ELSE @]

\* input() got a timeout, a garbled packet, a NAK or a wrong number.
OnBad(p) == IF p.streaming THEN ErrPkt(p) ELSE Resend(p)

\* Mutant of Good: the packet's number is not looked at.
GoodAnyNumber(p, m) == m.type \notin {"Q", "N"}

\* What input() takes for the next packet.
Good(p, m) == m.n = p.seq /\ m.type \notin {"Q", "N"}

-----------------------------------------------------------------------------
(* The sending states.                                                       *)

\* sfile for the next file, or seot when there is none.
NextFile(s) ==
  IF s.file < Len(Files)
  THEN SendNext([s EXCEPT !.st = "ssfil", !.file = @ + 1, !.pos = 0], "F", s.file + 1)
  ELSE SendNext([s EXCEPT !.st = "sseot"], "B", 0)

\* sdata, or seof at the end of the file.
DataOrEof(s) ==
  IF s.pos < Len(Files[s.file])
  THEN SendNext([s EXCEPT !.st = "ssdat", !.pos = @ + 1], "D", Files[s.file][s.pos + 1])
  ELSE SendNext([s EXCEPT !.st = "sseof"], "Z", 0)

\* The action of the state machine for an ACK.
OnAck(s) ==
  CASE s.st = "ssini" ->
         [NextFile(s) EXCEPT !.streaming = opt.stream /\ s.file < Len(Files)]
    [] s.st = "ssfil" ->
         IF opt.attributes THEN SendNext([s EXCEPT !.st = "ssatt"], "A", 0) ELSE DataOrEof(s)
    [] s.st \in {"ssatt", "ssdat"} -> DataOrEof(s)
    [] s.st = "sseof" -> NextFile(s)
    [] s.st = "sseot" -> [s EXCEPT !.st = "done"]

OnReply(s, m) ==
  CASE m.type = "Y" -> OnAck(s)
    [] m.type = "E" -> [s EXCEPT !.st = "failed"]
    [] OTHER -> ErrPkt(s)

-----------------------------------------------------------------------------
(* The receiving states.                                                     *)

\* ack: while streaming, data packets get none.
Ack(r, m) ==
  IF r.streaming /\ m.type = "D"
  THEN [r EXCEPT !.seq = NextNumber(r), !.retries = 0]
  ELSE [r EXCEPT !.seq = NextNumber(r), !.retries = 0, !.pkt = Packet("Y", r.seq, 0)]

\* The action of the state machine for a packet.  rcvfil opens the file, decode
\* writes to it, closof closes it.
OnPacket(r, m) ==
  CASE r.st = "srini" /\ m.type = "S" ->
         [Ack(r, m) EXCEPT !.st = "srfil", !.streaming = opt.stream]
    [] r.st = "srfil" /\ m.type = "B" -> [Ack(r, m) EXCEPT !.st = "done"]
    [] r.st = "srfil" /\ m.type = "F" -> [Ack(r, m) EXCEPT !.st = "sratt", !.data = <<>>]
    [] r.st = "sratt" /\ m.type = "A" -> Ack(r, m)
    [] r.st \in {"sratt", "srdat"} /\ m.type = "D" ->
         [Ack(r, m) EXCEPT !.st = "srdat", !.data = Append(@, m.data)]
    [] r.st \in {"sratt", "srdat"} /\ m.type = "Z" ->
         [Ack(r, m) EXCEPT !.st = "srfil", !.got = Append(@, r.data), !.data = <<>>]
    [] m.type = "E" -> [r EXCEPT !.st = "failed"]
    [] OTHER -> ErrPkt(r)

-----------------------------------------------------------------------------
(* Steps of the two programs.                                                *)

\* A packet that is written joins the line, unless the other program is gone;
\* a program that ends reads no more.
Put(line, m, peer) == IF Ended(peer) THEN <<>> ELSE Append(line, m)

\* ttflui drops what has arrived by then: some packets of the line.
Flushed(p, line) == IF p.streaming THEN {line} ELSE {SubSeq(line, k, Len(line)) : k \in 1..Len(line)+1}

Sends(s, line) ==
  /\ snd' = s
  /\ toRcv' = IF s.st = "done" \/ (s.st = "failed" /\ s.pkt.type # "E") THEN toRcv
              ELSE Put(toRcv, s.pkt, rcv)
  /\ toSnd' = IF Ended(s) THEN <<>> ELSE line
  /\ UNCHANGED <<rcv, opt>>

Receives(r, sends, line) ==
  /\ rcv' = r
  /\ toSnd' = IF sends THEN Put(toSnd, r.pkt, snd) ELSE toSnd
  /\ toRcv' = IF Ended(r) THEN <<>> ELSE line
  /\ UNCHANGED <<snd, opt>>

\* tinit, and sinit sends the S packet.
StartSending ==
  /\ snd.st = "s"
  /\ Sends([snd EXCEPT !.st = "ssini", !.pkt = Packet("S", 0, 0)], toSnd)
  /\ UNCHANGED faults

StartReceiving ==
  /\ rcv.st = "v"
  /\ rcv' = [rcv EXCEPT !.st = "srini"]
  /\ UNCHANGED <<snd, toRcv, toSnd, opt, faults>>

StreamingData == snd.streaming /\ snd.pkt.type = "D"

SndInput ==
  /\ Active(snd) /\ ~StreamingData /\ toSnd # <<>>
  /\ IF Good(snd, Head(toSnd))
     THEN \E rest \in Flushed(snd, Tail(toSnd)) : Sends(OnReply(snd, Head(toSnd)), rest)
     ELSE Sends(OnBad(snd), Tail(toSnd))
  /\ UNCHANGED faults

\* Streaming data: without an answer the sender goes on as if there was an ACK;
\* of an answer the number is not looked at.
SndStream ==
  /\ Active(snd) /\ StreamingData
  /\ \/ Sends(OnAck(snd), toSnd)
     \/ /\ toSnd # <<>>
        /\ Sends(IF Head(toSnd).type \in {"Q", "N"} THEN ErrPkt(snd)
                 ELSE OnReply(snd, Head(toSnd)), Tail(toSnd))
  /\ UNCHANGED faults

\* Does the receiver, r afterwards, answer packet m?
Answers(r, m) == IF r.st = "failed" THEN m.type # "E" ELSE ~(r.streaming /\ m.type = "D")

RcvInput ==
  /\ Active(rcv) /\ toRcv # <<>>
  /\ LET m == Head(toRcv)
     IN IF Good(rcv, m)
        THEN \E rest \in Flushed(rcv, Tail(toRcv)) :
               \/ Receives(OnPacket(rcv, m), Answers(OnPacket(rcv, m), m), rest)
               \/ opt.diskFails /\ m.type \in {"F", "D", "Z"} /\ Receives(ErrPkt(rcv), TRUE, rest)
        ELSE Receives(OnBad(rcv), TRUE, Tail(toRcv))
  /\ UNCHANGED faults

\* ttinl's alarm; streaming turns it off.  It is a fault of the line when a
\* packet is still under way or about to be sent.
Quiet == toRcv = <<>> /\ toSnd = <<>> /\ snd.st # "s" /\ rcv.st # "v"

Alarm(p) ==
  /\ Active(p) /\ ~p.streaming
  /\ \/ Quiet /\ UNCHANGED faults
     \/ ~Quiet /\ faults < MaxFaults /\ faults' = faults + 1

SndTimeout == Alarm(snd) /\ Sends(Resend(snd), toSnd)
RcvTimeout == Alarm(rcv) /\ Receives(Resend(rcv), TRUE, toRcv)

\* The line loses or garbles a packet.
Spoil(line) ==
  {RemoveAt(line, i) : i \in DOMAIN line}
    \cup {[line EXCEPT ![i].type = "Q", ![i].data = 0] : i \in DOMAIN line}

Fault ==
  /\ faults < MaxFaults /\ faults' = faults + 1
  /\ \/ toRcv' \in Spoil(toRcv) /\ UNCHANGED toSnd
     \/ toSnd' \in Spoil(toSnd) /\ UNCHANGED toRcv
  /\ UNCHANGED <<snd, rcv, opt>>

SndStep == StartSending \/ SndInput \/ SndStream
RcvStep == StartReceiving \/ RcvInput

Next == SndStep \/ RcvStep \/ SndTimeout \/ RcvTimeout \/ Fault

(* Both programs run, and an alarm that is set goes off.                     *)
Fairness ==
  WF_vars(SndStep) /\ WF_vars(RcvStep) /\ WF_vars(SndTimeout) /\ WF_vars(RcvTimeout)

Spec == Init /\ [][Next]_vars /\ Fairness

-----------------------------------------------------------------------------
(* Properties.                                                               *)

Outcome(p) == IF Ended(p) THEN p.st ELSE "active"

Transfer == INSTANCE FileTransfer
              WITH got <- rcv.got, sender <- Outcome(snd), receiver <- Outcome(rcv)

(* Whatever the line loses, garbles or delays, and whether or not the data   *)
(* packets are acknowledged, the receiver closes exactly the sender's files, *)
(* each once and whole, and nobody ends well without them, as long as fewer  *)
(* packets are lost than there are packet numbers.                           *)
ImplementsTransfer == Transfer!Spec

(* No more faults than the limit on retries, and a disk that works, do no harm *)
(* to a transfer that does not stream: duplicates breed no failure.  Only    *)
(* the sender may fail, when the last ACK is lost and the receiver is gone.  *)
RetriesSuffice ==
  ~opt.stream /\ ~opt.diskFails /\ MaxFaults <= MaxTry
    => rcv.st # "failed" /\ (snd.st = "failed" => rcv.st = "done")

(* Both programs end, unless streaming turned the alarms off and a packet    *)
(* was lost.                                                                 *)
BothEnd == <>(Ended(snd) /\ Ended(rcv)) \/ (opt.stream /\ <>(faults > 0))

=============================================================================
