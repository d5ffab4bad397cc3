----------------------------- MODULE SxUsbProofs -----------------------------
(***************************************************************************)
(* Proofs about SxUsb, for frames and transfers of any size and any number *)
(* of frames and faults.                                                   *)
(***************************************************************************)
EXTENDS SxUsb, SequenceTheorems, TLAPS

\* Which calls the class driver makes when.
CallPhase ==
  /\ call = "acqNew" => phase = "exposing" /\ frame.kind = "short"
  /\ call \in {"acqClear", "clear"} => phase = "exposing" /\ frame.kind = "long"
  /\ call \in {"acqLatch", "wait", "recover", "acqCtrl", "reset"} => phase = "latched"
  /\ call = "acqLatch" => frame.kind # "short"
  /\ call \in {"acqClose", "forced"} => phase = "opened"
  /\ phase = "exposing" \/ call = "acqLatch" => got = <<>>

\* A call that waits for a row waits for one within the frame, and a transfer
\* under way is for rows that are missing.
Counters ==
  /\ call \in {"wait", "recover"} => Row <= count.rcved + count.remaining /\ Len(got) < Size
  /\ count.remaining > 0 => count.length = Least(Bulk, count.remaining)
  /\ "RCV" \in flags => count.remaining > 0

\* The flags cover what is on its way.
Flight ==
  /\ freed => "CONNECTED" \notin flags
  /\ "CONNECTED" \notin flags /\ ~spoiled => ~usb.snd /\ usb.rcv = 0
  /\ "CONNECTED" \notin flags /\ plugged => phase = "closed" /\ call = "none"
  /\ "CONNECTED" \in flags /\ usb.snd => "SND" \in flags
  /\ usb.rcv > 0 /\ ~spoiled => "RCV" \in flags
  /\ call = "clear" => "SND" \in flags /\ ~usb.snd
  /\ freed => call \notin {"clear", "reset"}
  /\ call = "oops" => ~plugged /\ freed

\* One at a time uses the control pipe.
Control ==
  /\ call = "reset" => "CTRL" \in flags /\ ~poll
  /\ poll => "CTRL" \in flags

\* The read command of the current frame was sent.
Current ==
  \/ phase = "latched" /\ call \notin {"acqLatch", "oops"}
  \/ phase = "exposing" /\ frame.kind = "short" /\ call # "acqNew"

\* As long as the camera is there, no row is delivered before it was received.
Delivered ==
  /\ ~spoiled /\ Current => count.rcved + count.remaining = Size /\ count.offset = Len(got)
                              /\ frame.asked = frame.number
  /\ ~spoiled /\ Current /\ "CONNECTED" \in flags => count.offset <= count.rcved
  /\ call = "recover" => (spoiled \/ ~plugged) /\ ("CONNECTED" \in flags => Row <= count.rcved)

\* Without a fault, what the driver still expects is what the camera will send.
InStep ==
  ~spoiled /\ plugged =>
    /\ count.remaining > 0 => "RCV" \in flags
    /\ "RCV_ERR" \notin flags
    /\ \A i \in 1..Len(stream) : stream[i] # Answer
    /\ usb.snd => /\ "RCV" \in flags /\ usb.rcv = 0 /\ stream = <<>>
                  /\ count.rcved = 0 /\ count.remaining = Size
    /\ ~usb.snd => /\ Len(stream) = count.remaining
                   /\ usb.rcv = IF count.remaining > 0 THEN count.length ELSE 0

\* ... and it is the current frame, from the first row that is missing.
RowsOnTheirWay ==
  ~spoiled /\ plugged /\ Current =>
    /\ \A i \in 1..count.rcved : pixels[i] = <<frame.number, i>>
    /\ \A i \in 1..Len(stream) : stream[i] = <<frame.number, count.rcved + i>>

Inv == /\ TypeOK /\ CallPhase /\ Counters /\ Flight /\ Control /\ Delivered /\ InStep
       /\ RowsOnTheirWay /\ RowsOfFrame

\* A transfer is for at least one row and for no more than are missing.
LEMMA LeastBounds ==
  ASSUME NEW n \in Nat
  PROVE  /\ Least(Bulk, n) \in 0..Bulk /\ Least(Bulk, n) <= n
         /\ n > 0 => Least(Bulk, n) > 0
BY SxAssumption DEF Least

\* When the driver is loaded nothing was asked for.
LEMMA InvInit == Init => Inv
<1> SUFFICES ASSUME Init PROVE Inv
  OBVIOUS
<1> USE SxAssumption DEF Init
<1>1. TypeOK
  <2>1. usb \in [snd : BOOLEAN, rcv : 0..Bulk]
    BY DEF Init
  <2>2. poll \in BOOLEAN /\ plugged \in BOOLEAN /\ freed \in BOOLEAN /\ spoiled \in BOOLEAN
    BY Zenon DEF Init
  <2>3. pixels \in [1..Size -> Rows]
    BY DEF Rows
  <2>4. stream \in Seq(Rows \cup {Answer}) /\ got \in Seq(Rows) /\ Len(got) <= Size
    BY DEF Init
  <2>5. /\ count \in [rcved : 0..Size, remaining : 0..Size, offset : 0..Size, length : 0..Bulk]
        /\ count.rcved + count.remaining <= Size
        /\ frame \in [number : 0..MaxFrames, kind : Kinds \cup {"none"}, asked : 0..MaxFrames]
    BY DEF Init
  <2>6. /\ flags \subseteq Flags /\ phase \in {"closed", "opened", "exposing", "latched"}
        /\ call \in {"none", "acqClear", "clear", "acqNew", "acqLatch", "wait", "recover",
                     "acqCtrl", "reset", "acqClose", "forced", "oops"}
        /\ faults \in 0..MaxFaults
    BY DEF Flags
  <2> QED BY <2>1, <2>2, <2>3, <2>4, <2>5, <2>6 DEF TypeOK
<1>2. CallPhase /\ Counters
  BY DEF CallPhase, Counters
<1>3. Flight /\ Control
  BY DEF Flight, Control
<1>4. Delivered
  BY DEF Delivered, Current
<1>5. InStep /\ RowsOnTheirWay
  BY DEF InStep, RowsOnTheirWay, Current
<1>6. RowsOfFrame
  BY DEF RowsOfFrame
<1> QED BY <1>1, <1>2, <1>3, <1>4, <1>5, <1>6 DEF Inv

\* The pieces of TypeOK.
FlagTypes == /\ flags \subseteq Flags /\ usb \in [snd : BOOLEAN, rcv : 0..Bulk]
             /\ phase \in {"closed", "opened", "exposing", "latched"}
             /\ call \in {"none", "acqClear", "clear", "acqNew", "acqLatch", "wait", "recover",
                          "acqCtrl", "reset", "acqClose", "forced", "oops"}
CountTypes ==
  /\ count \in [rcved : 0..Size, remaining : 0..Size, offset : 0..Size, length : 0..Bulk]
  /\ count.rcved + count.remaining <= Size
RowTypes ==
  /\ pixels \in [1..Size -> Rows] /\ stream \in Seq(Rows \cup {Answer})
  /\ frame \in [number : 0..MaxFrames, kind : Kinds \cup {"none"}, asked : 0..MaxFrames]
  /\ got \in Seq(Rows) /\ Len(got) <= Size
WorldTypes ==
  /\ poll \in BOOLEAN /\ plugged \in BOOLEAN /\ freed \in BOOLEAN /\ spoiled \in BOOLEAN
  /\ faults \in 0..MaxFaults

LEMMA TypeParts == TypeOK <=> FlagTypes /\ CountTypes /\ RowTypes /\ WorldTypes
BY DEF TypeOK, FlagTypes, CountTypes, RowTypes, WorldTypes

LEMMA TypePartsNext == TypeOK' <=> FlagTypes' /\ CountTypes' /\ RowTypes' /\ WorldTypes'
BY DEF TypeOK, FlagTypes, CountTypes, RowTypes, WorldTypes

\* What is asked for next.
LEMMA NextTransferFacts ==
  ASSUME TypeOK, NEW r \in 0..count.remaining, NextTransfer(r)
  PROVE  /\ usb' \in [snd : BOOLEAN, rcv : 0..Bulk] /\ CountTypes'
         /\ usb'.snd = usb.snd /\ usb'.rcv = (IF plugged THEN Least(Bulk, r) ELSE 0)
         /\ count'.rcved = count.rcved + count.remaining - r /\ count'.remaining = r
         /\ count'.offset = count.offset
         /\ r > 0 => count'.length = Least(Bulk, r)
<1>0. FlagTypes /\ CountTypes /\ r \in Nat /\ r <= Size
  BY TypeParts, SxAssumption DEF CountTypes
<1>1. /\ usb'.snd = usb.snd /\ usb'.rcv = (IF plugged THEN Least(Bulk, r) ELSE 0)
      /\ usb' \in [snd : BOOLEAN, rcv : 0..Bulk]
  BY <1>0, LeastBounds, SxAssumption DEF NextTransfer, FlagTypes
<1>2. /\ count'.rcved = count.rcved + count.remaining - r /\ count'.remaining = r
      /\ count'.offset = count.offset
      /\ r > 0 => count'.length = Least(Bulk, r)
      /\ CountTypes'
  <2> DEFINE l == IF r > 0 THEN Least(Bulk, r) ELSE count.length
  <2>1. l \in 0..Bulk
    BY <1>0, LeastBounds DEF CountTypes
  <2> DEFINE d == count.rcved + count.remaining - r
  <2>2. count' = [count EXCEPT !.rcved = d, !.remaining = r, !.length = l]
    BY DEF NextTransfer
  <2>3. d \in 0..Size /\ r \in 0..Size /\ d + r <= Size
    BY <1>0, SxAssumption DEF CountTypes
  <2> HIDE DEF l, d
  <2>4. count'.rcved = d /\ count'.remaining = r /\ count'.offset = count.offset /\ count'.length = l
    BY <1>0, <2>2 DEF CountTypes
  <2>5. count' \in [rcved : 0..Size, remaining : 0..Size, offset : 0..Size, length : 0..Bulk]
    BY <1>0, <2>1, <2>2, <2>3 DEF CountTypes
  <2>6. CountTypes'
    BY <2>3, <2>4, <2>5 DEF CountTypes
  <2> QED BY <2>4, <2>6 DEF l, d
<1> QED BY <1>1, <1>2

\* A transfer that is expected brings rows that are missing.
LEMMA ExpectedFits ==
  ASSUME TypeOK, Counters, Expected, usb.rcv > 0
  PROVE  /\ count.remaining - usb.rcv \in 0..count.remaining
         /\ usb.rcv \in 1..Size /\ count.rcved + usb.rcv <= Size
<1>0. FlagTypes /\ CountTypes
  BY TypeParts
<1>1. /\ count.remaining \in 1..Size /\ count.rcved \in 0..Size
      /\ count.rcved + count.remaining <= Size /\ usb.rcv \in 0..Bulk
  BY <1>0, SxAssumption DEF Expected, FlagTypes, CountTypes
<1>2. usb.rcv = Least(Bulk, count.remaining)
  BY <1>1 DEF Counters, Expected
<1>3. usb.rcv <= count.remaining
  BY <1>1, <1>2, LeastBounds, SxAssumption
<1> QED BY <1>1, <1>3, SxAssumption

\* Every step keeps the types of flags, URBs and calls.
LEMMA FlagTypesStep == TypeOK /\ Counters /\ [Next]_vars => FlagTypes'
<1> SUFFICES ASSUME TypeOK, Counters, [Next]_vars PROVE FlagTypes'
  OBVIOUS
<1>0. FlagTypes /\ CountTypes /\ plugged \in BOOLEAN
  BY TypeParts DEF WorldTypes
<1> USE SxAssumption, LeastBounds DEF FlagTypes, Flags, classVars, worldVars
<1>1. CASE UNCHANGED vars
  BY <1>0, <1>1 DEF vars
<1>2. CASE sx_open \/ sx_latch_frame \/ sx_read_row \/ sx_end_read \/ Abort \/ AbortRead \/ CloseBegin
  BY <1>0, <1>2 DEF sx_open, sx_latch_frame, sx_read_row, sx_end_read, Abort, AbortRead,
     CloseBegin, EndRead
<1>3. ASSUME NEW k \in Kinds, sx_new_frame(k) PROVE FlagTypes'
  BY <1>0, <1>3 DEF sx_new_frame
<1>4. CASE Clear \/ ClearDone \/ ClearDuringDownload \/ NoReadCommand \/ Wake \/ Recover \/ Interrupted
  BY <1>0, <1>4 DEF Clear, ClearDone, ClearDuringDownload, NoReadCommand, Wake, Recover, Interrupted, Deliver
<1>5. CASE sx_control \/ NoControl \/ sx_reset \/ sx_close \/ ForcedClose
  BY <1>0, <1>5 DEF sx_control, NoControl, sx_reset, sx_close, ForcedClose, EndRead
<1>6. CASE ReadCommand
  BY <1>0, <1>6 DEF ReadCommand
<1>7. CASE sx_usb_snd_complete
  BY <1>0, <1>7 DEF sx_usb_snd_complete, Submitted, CountTypes
<1>8. CASE sx_usb_rcv_complete
  <2>1. PICK r \in 0..count.remaining : NextTransfer(r)
    <3>1. 0 \in 0..count.remaining
      BY <1>0 DEF CountTypes
    <3>2. usb.rcv > 0 /\ ((Expected /\ NextTransfer(count.remaining - usb.rcv)) \/ NextTransfer(0))
      BY <1>8 DEF sx_usb_rcv_complete, Whole
    <3>3. Expected => count.remaining - usb.rcv \in 0..count.remaining
      BY <3>2, ExpectedFits
    <3> QED BY <3>1, <3>2, <3>3, Zenon
  <2>2. usb' \in [snd : BOOLEAN, rcv : 0..Bulk]
    BY <2>1, NextTransferFacts
  <2> QED BY <1>0, <1>8, <2>2 DEF sx_usb_rcv_complete
<1>9. CASE ReceiveError \/ ReceiveShort
  <2>1. NextTransfer(0) /\ 0 \in 0..count.remaining
    BY <1>0, <1>9 DEF ReceiveError, ReceiveShort, CountTypes
  <2>2. usb' \in [snd : BOOLEAN, rcv : 0..Bulk]
    BY <2>1, NextTransferFacts
  <2> QED BY <1>0, <1>9, <2>2 DEF ReceiveError, ReceiveShort
<1>10. CASE sx_tty_check_input \/ PollDone \/ Unplug \/ sx_usb_disconnect
  BY <1>0, <1>10 DEF sx_tty_check_input, PollDone, Unplug, sx_usb_disconnect
<1> QED
  BY <1>1, <1>2, <1>3, <1>4, <1>5, <1>6, <1>7, <1>8, <1>9, <1>10, Zenon DEF Next, ClassStep

\* Every step keeps the counters within the buffer.
LEMMA CountTypesStep == TypeOK /\ Counters /\ [Next]_vars => CountTypes'
<1> SUFFICES ASSUME TypeOK, Counters, [Next]_vars PROVE CountTypes'
  OBVIOUS
<1>0. CountTypes
  BY TypeParts
<1>1. CASE UNCHANGED vars
  BY <1>0, <1>1 DEF vars, CountTypes
<1>2. CASE \/ sx_open \/ sx_latch_frame \/ sx_read_row \/ Abort \/ AbortRead \/ CloseBegin
           \/ Clear \/ ClearDone \/ ClearDuringDownload \/ NoReadCommand \/ sx_control \/ sx_close \/ ForcedClose
           \/ sx_usb_snd_complete \/ sx_tty_check_input \/ PollDone \/ Unplug \/ sx_usb_disconnect
           \/ \E k \in Kinds : sx_new_frame(k)
  <2>1. count' = count
    BY <1>2 DEF sx_open, sx_latch_frame, sx_read_row, Abort, AbortRead, CloseBegin, Clear,
       ClearDone, ClearDuringDownload, NoReadCommand, sx_control, sx_close, ForcedClose, sx_usb_snd_complete,
       sx_tty_check_input, PollDone, Unplug, sx_usb_disconnect, sx_new_frame
  <2> QED BY <1>0, <2>1 DEF CountTypes
<1>3. CASE sx_end_read \/ NoControl \/ sx_reset
  BY <1>0, <1>3, SxAssumption DEF sx_end_read, NoControl, sx_reset, EndRead, CountTypes
<1>4. CASE Wake \/ Recover \/ Interrupted
  <2>1. /\ call \in {"wait", "recover"}
        /\ count' = count \/ count' = [count EXCEPT !.offset = @ + 1]
    BY <1>4 DEF Wake, Recover, Interrupted, Deliver
  <2> QED BY <1>0, <2>1, SxAssumption DEF CountTypes, Counters, Row
<1>5. CASE ReadCommand
  BY <1>0, <1>5, LeastBounds, SxAssumption DEF ReadCommand, CountTypes
<1>6. CASE sx_usb_rcv_complete
  <2>1. PICK r \in 0..count.remaining : NextTransfer(r)
    <3>1. 0 \in 0..count.remaining
      BY <1>0 DEF CountTypes
    <3>2. usb.rcv > 0 /\ ((Expected /\ NextTransfer(count.remaining - usb.rcv)) \/ NextTransfer(0))
      BY <1>6 DEF sx_usb_rcv_complete, Whole
    <3>3. Expected => count.remaining - usb.rcv \in 0..count.remaining
      BY <3>2, ExpectedFits
    <3> QED BY <3>1, <3>2, <3>3, Zenon
  <2> QED BY <2>1, NextTransferFacts
<1>7. CASE ReceiveError \/ ReceiveShort
  <2>1. NextTransfer(0) /\ 0 \in 0..count.remaining
    BY <1>0, <1>7 DEF ReceiveError, ReceiveShort, CountTypes
  <2> QED BY <2>1, NextTransferFacts
<1> QED BY <1>1, <1>2, <1>3, <1>4, <1>5, <1>6, <1>7, Zenon DEF Next, ClassStep

\* What the camera sends for one read command.
LEMMA WholeFrame ==
  ASSUME TypeOK
  PROVE  LET rows == [i \in 1..Size |-> <<frame.asked, i>>]
         IN  rows \in Seq(Rows \cup {Answer}) /\ Len(rows) = Size
<1> DEFINE rows == [i \in 1..Size |-> <<frame.asked, i>>]
<1>1. rows \in [1..Size -> Rows \cup {Answer}] /\ Size \in Nat
  BY SxAssumption DEF TypeOK, Rows
<1> HIDE DEF rows
<1>2. rows \in Seq(Rows \cup {Answer})
  BY <1>1, SeqDef
<1>3. Len(rows) = Size
  BY <1>1, <1>2, LenProperties
<1> QED BY <1>2, <1>3 DEF rows

\* Every step keeps the types of rows.
LEMMA RowTypesStep == TypeOK /\ Counters /\ [Next]_vars => RowTypes'
<1> SUFFICES ASSUME TypeOK, Counters, [Next]_vars PROVE RowTypes'
  OBVIOUS
<1>0. RowTypes /\ CountTypes
  BY TypeParts
<1> USE SxAssumption DEF classVars, worldVars
<1>1. CASE UNCHANGED vars
  BY <1>0, <1>1 DEF vars, RowTypes
<1>2. CASE \/ sx_open \/ sx_latch_frame \/ sx_end_read \/ Abort \/ AbortRead \/ CloseBegin
           \/ Clear \/ ClearDone \/ NoReadCommand \/ sx_control \/ NoControl
           \/ sx_reset \/ sx_close \/ ForcedClose \/ ReceiveError
           \/ sx_tty_check_input \/ PollDone \/ sx_usb_disconnect
  <2>1. UNCHANGED <<pixels, stream, frame, got>>
    BY <1>2 DEF sx_open, sx_latch_frame, sx_end_read, Abort, AbortRead, CloseBegin, Clear,
       ClearDone, NoReadCommand, sx_control, NoControl, sx_reset, sx_close,
       ForcedClose, ReceiveError, sx_tty_check_input, PollDone, sx_usb_disconnect
  <2> QED BY <1>0, <2>1 DEF RowTypes
<1>3. ASSUME NEW k \in Kinds, sx_new_frame(k) PROVE RowTypes'
  <2>1. UNCHANGED <<pixels, stream>> /\ got' = <<>>
        /\ frame' = [frame EXCEPT !.number = @ + 1, !.kind = k] /\ frame.number < MaxFrames
    BY <1>3 DEF sx_new_frame
  <2>2. frame' \in [number : 0..MaxFrames, kind : Kinds \cup {"none"}, asked : 0..MaxFrames]
    <3>1. frame \in [number : 0..MaxFrames, kind : Kinds \cup {"none"}, asked : 0..MaxFrames]
      BY <1>0 DEF RowTypes
    <3>2. frame.number + 1 \in 0..MaxFrames
      BY <2>1, <3>1
    <3> QED BY <2>1, <3>1, <3>2, Zenon
  <2> QED BY <1>0, <2>1, <2>2 DEF RowTypes
<1>b. CASE ReadCommand
  <2>1. UNCHANGED <<pixels, stream, got>> /\ frame' = [frame EXCEPT !.asked = frame.number]
    BY <1>b DEF ReadCommand
  <2>2. frame' \in [number : 0..MaxFrames, kind : Kinds \cup {"none"}, asked : 0..MaxFrames]
    BY <1>0, <2>1 DEF RowTypes
  <2> QED BY <1>0, <2>1, <2>2 DEF RowTypes
<1>c. CASE ClearDuringDownload
  <2>0. stream \in Seq(Rows \cup {Answer}) /\ usb.rcv \in Nat /\ Answer \in Rows \cup {Answer}
    BY <1>0 DEF RowTypes, TypeOK
  <2>1. /\ UNCHANGED <<pixels, frame, got>>
        /\ \/ stream' = Append(stream, Answer)
           \/ /\ Len(stream) > usb.rcv
              /\ stream' = SubSeq(stream, 1, usb.rcv) \o SubSeq(stream, usb.rcv + 2, Len(stream))
                             \o <<Answer>>
    BY <1>c DEF ClearDuringDownload
  <2> DEFINE E == Rows \cup {Answer}
  <2> HIDE DEF E, Answer
  <2>2. CASE stream' = Append(stream, Answer)
    BY <1>0, <2>0, <2>1, <2>2 DEF RowTypes
  <2>3. CASE Len(stream) > usb.rcv
             /\ stream' = SubSeq(stream, 1, usb.rcv) \o SubSeq(stream, usb.rcv + 2, Len(stream))
                            \o <<Answer>>
    <3>1. Len(stream) \in Nat /\ stream \in Seq(E)
      BY <2>0 DEF E
    <3>2. SubSeq(stream, 1, usb.rcv) \in Seq(E) /\ SubSeq(stream, usb.rcv + 2, Len(stream)) \in Seq(E)
      BY <2>0, <2>3, <3>1
    <3>3. <<Answer>> \in Seq(E)
      BY <2>0 DEF E
    <3>4. stream' \in Seq(E)
      BY <2>3, <3>2, <3>3, ConcatProperties, Zenon
    <3> QED BY <1>0, <2>1, <3>4 DEF RowTypes, E
  <2> QED BY <2>1, <2>2, <2>3
<1>d. CASE ReceiveShort
  <2>0. stream \in Seq(Rows \cup {Answer}) /\ usb.rcv \in Nat
    BY <1>0 DEF RowTypes, TypeOK
  <2>1. PICK n \in 1..usb.rcv : n <= Len(stream) /\ stream' = SubSeq(stream, n + 1, Len(stream))
    BY <1>d DEF ReceiveShort
  <2>2. stream' \in Seq(Rows \cup {Answer})
    BY <2>0, <2>1
  <2>3. UNCHANGED <<pixels, frame, got>>
    BY <1>d DEF ReceiveShort
  <2> QED BY <1>0, <2>2, <2>3 DEF RowTypes
<1>a. ASSUME NEW i \in 1..Size, Len(got) < Size, got' = Append(got, pixels[i])
      PROVE  got' \in Seq(Rows) /\ Len(got') <= Size
  BY <1>0, <1>a DEF RowTypes
<1>4. CASE sx_read_row
  <2>1. UNCHANGED <<pixels, stream, frame>> /\ Len(got) < Size
        /\ (got' = Append(got, pixels[1]) \/ got' = got)
    BY <1>4 DEF sx_read_row
  <2>2. got' \in Seq(Rows) /\ Len(got') <= Size
    BY <1>0, <1>a, <2>1 DEF RowTypes
  <2> QED BY <1>0, <2>1, <2>2 DEF RowTypes
<1>5. CASE Wake \/ Recover \/ Interrupted
  <2>1. UNCHANGED <<pixels, frame>> /\ (stream' = stream \/ stream' = <<>>)
        /\ (got' = Append(got, pixels[Row]) \/ got' = got) /\ call \in {"wait", "recover"}
    BY <1>5 DEF Wake, Recover, Interrupted, Deliver
  <2>2. Row \in 1..Size /\ Len(got) < Size
    BY <1>0, <2>1 DEF Row, Counters, CountTypes
  <2>3. got' \in Seq(Rows) /\ Len(got') <= Size
    BY <1>0, <1>a, <2>1, <2>2 DEF RowTypes
  <2>4. stream' \in Seq(Rows \cup {Answer})
    BY <1>0, <2>1, EmptySeq DEF RowTypes
  <2> QED BY <1>0, <2>1, <2>3, <2>4 DEF RowTypes
<1>6. CASE sx_usb_snd_complete
  <2>1. UNCHANGED <<pixels, frame, got>>
        /\ (stream' = stream \o [i \in 1..Size |-> <<frame.asked, i>>] \/ stream' = stream)
    BY <1>6 DEF sx_usb_snd_complete
  <2>2. stream' \in Seq(Rows \cup {Answer})
    <3> DEFINE rows == [i \in 1..Size |-> <<frame.asked, i>>]
    <3>1. rows \in Seq(Rows \cup {Answer})
      BY WholeFrame
    <3>2. stream' = stream \o rows \/ stream' = stream
      BY <2>1
    <3> HIDE DEF rows
    <3>3. stream \in Seq(Rows \cup {Answer})
      BY <1>0 DEF RowTypes
    <3>4. stream \o rows \in Seq(Rows \cup {Answer})
      BY <3>1, <3>3, ConcatProperties, Zenon
    <3> QED BY <3>2, <3>3, <3>4
  <2> QED BY <1>0, <2>1, <2>2 DEF RowTypes
<1>7. CASE sx_usb_rcv_complete
  <2>1. UNCHANGED <<frame, got>> /\ stream' = SubSeq(stream, usb.rcv + 1, Len(stream))
        /\ usb.rcv > 0 /\ Len(stream) >= usb.rcv
        /\ \A i \in 1..usb.rcv : stream[i] # Answer
    BY <1>7 DEF sx_usb_rcv_complete, Whole
  <2>2. usb.rcv \in Nat
    BY DEF TypeOK
  <2>3. stream' \in Seq(Rows \cup {Answer})
    BY <1>0, <2>1, <2>2 DEF RowTypes
  <2>4. pixels' \in [1..Size -> Rows]
    <3>1. CASE pixels' = [i \in 1..Size |-> IF i - count.rcved \in 1..usb.rcv
                                            THEN stream[i - count.rcved] ELSE pixels[i]]
      <4>1. ASSUME NEW i \in 1..Size, i - count.rcved \in 1..usb.rcv
            PROVE  stream[i - count.rcved] \in Rows
        <5>1. i - count.rcved \in 1..Len(stream)
          <6>1. count.rcved \in Nat /\ Len(stream) \in Nat /\ i \in Nat
            BY <1>0 DEF RowTypes, CountTypes
          <6> QED BY <2>1, <2>2, <4>1, <6>1
        <5> QED BY <1>0, <2>1, <4>1, <5>1 DEF RowTypes
      <4> QED BY <1>0, <3>1, <4>1 DEF RowTypes
    <3> QED BY <1>0, <1>7, <3>1 DEF sx_usb_rcv_complete, RowTypes
  <2> QED BY <1>0, <2>1, <2>3, <2>4 DEF RowTypes
<1>8. CASE Unplug
  BY <1>0, <1>8 DEF Unplug, RowTypes
<1> QED
  BY <1>1, <1>2, <1>3, <1>4, <1>5, <1>6, <1>7, <1>8, <1>b, <1>c, <1>d, Zenon DEF Next, ClassStep

\* Every step keeps the types of the rest.
LEMMA WorldTypesStep == TypeOK /\ [Next]_vars => WorldTypes'
<1> SUFFICES ASSUME TypeOK, [Next]_vars PROVE WorldTypes'
  OBVIOUS
<1>0. WorldTypes
  BY TypeParts
<1> USE SxAssumption DEF WorldTypes, classVars, worldVars, Fault, NoFault
<1>1. CASE UNCHANGED vars
  BY <1>0, <1>1 DEF vars
<1>2. CASE \/ sx_open \/ sx_latch_frame \/ sx_read_row \/ sx_end_read \/ Abort \/ AbortRead
           \/ CloseBegin \/ Clear \/ ClearDone \/ Wake \/ Recover \/ sx_control
           \/ sx_reset \/ sx_close \/ \E k \in Kinds : sx_new_frame(k)
  <2>1. UNCHANGED <<poll, plugged, freed, spoiled, faults>>
    BY <1>2 DEF sx_open, sx_latch_frame, sx_read_row, sx_end_read, Abort, AbortRead, CloseBegin,
       Clear, ClearDone, Wake, Recover, sx_control, sx_reset, sx_close, sx_new_frame
  <2> QED BY <1>0, <2>1
<1>3. CASE \/ ClearDuringDownload \/ ReceiveShort \/ ReadCommand \/ NoReadCommand \/ NoControl \/ ForcedClose \/ Interrupted
           \/ sx_usb_snd_complete \/ sx_usb_rcv_complete \/ ReceiveError
           \/ sx_tty_check_input \/ PollDone \/ Unplug \/ sx_usb_disconnect
  <2>1. faults' \in 0..MaxFaults
    BY <1>0, <1>3 DEF ClearDuringDownload, ReceiveShort, ReadCommand, NoReadCommand, NoControl, ForcedClose, Interrupted,
       sx_usb_snd_complete, sx_usb_rcv_complete, ReceiveError, sx_tty_check_input, PollDone,
       Unplug, sx_usb_disconnect
  <2>2. poll' \in BOOLEAN /\ plugged' \in BOOLEAN
    BY <1>0, <1>3, Zenon DEF ClearDuringDownload, ReceiveShort, ReadCommand, NoReadCommand, NoControl, ForcedClose, Interrupted,
       sx_usb_snd_complete, sx_usb_rcv_complete, ReceiveError, sx_tty_check_input, PollDone,
       Unplug, sx_usb_disconnect
  <2>3. freed' \in BOOLEAN
    BY <1>0, <1>3, Zenon DEF ClearDuringDownload, ReceiveShort, ReadCommand, NoReadCommand, NoControl, ForcedClose, Interrupted,
       sx_usb_snd_complete, sx_usb_rcv_complete, ReceiveError, sx_tty_check_input, PollDone,
       Unplug, sx_usb_disconnect
  <2>4. spoiled' \in BOOLEAN
    BY <1>0, <1>3, Zenon DEF ClearDuringDownload, ReceiveShort, ReadCommand, NoReadCommand, NoControl, ForcedClose, Interrupted,
       sx_usb_snd_complete, sx_usb_rcv_complete, ReceiveError, sx_tty_check_input, PollDone,
       Unplug, sx_usb_disconnect
  <2> QED BY <2>1, <2>2, <2>3, <2>4
<1> QED BY <1>1, <1>2, <1>3, Zenon DEF Next, ClassStep

LEMMA TypeStep == TypeOK /\ Counters /\ [Next]_vars => TypeOK'
BY FlagTypesStep, CountTypesStep, RowTypesStep, WorldTypesStep, TypePartsNext

\* Which calls are made when.
LEMMA CallPhaseStep == TypeOK /\ CallPhase /\ [Next]_vars => CallPhase'
<1> SUFFICES ASSUME TypeOK, CallPhase, [Next]_vars PROVE CallPhase'
  OBVIOUS
<1>0. phase \in {"closed", "opened", "exposing", "latched"}
  BY DEF TypeOK
<1> USE DEF CallPhase, Idle, classVars
<1>1. CASE UNCHANGED vars
  BY <1>1 DEF vars
<1>2. ASSUME NEW k \in Kinds, sx_new_frame(k) PROVE CallPhase'
  BY <1>2, SxAssumption DEF sx_new_frame
<1>3. CASE sx_open \/ sx_latch_frame \/ sx_read_row \/ sx_end_read \/ Abort \/ AbortRead \/ CloseBegin
  BY <1>0, <1>3 DEF sx_open, sx_latch_frame, sx_read_row, sx_end_read, Abort, AbortRead,
     CloseBegin, EndRead
<1>4. CASE Clear \/ ClearDone \/ ClearDuringDownload \/ ReadCommand \/ NoReadCommand \/ Wake \/ Recover \/ Interrupted
  BY <1>4 DEF Clear, ClearDone, ClearDuringDownload, ReadCommand, NoReadCommand, Wake, Recover, Interrupted, Deliver
<1>5. CASE sx_control \/ NoControl \/ sx_reset \/ sx_close \/ ForcedClose
  BY <1>5 DEF sx_control, NoControl, sx_reset, sx_close, ForcedClose, EndRead
<1>6. CASE \/ sx_usb_snd_complete \/ sx_usb_rcv_complete \/ ReceiveShort \/ ReceiveError
           \/ sx_tty_check_input \/ PollDone \/ Unplug \/ sx_usb_disconnect
  BY <1>6 DEF sx_usb_snd_complete, sx_usb_rcv_complete, ReceiveShort, ReceiveError, sx_tty_check_input,
     PollDone, Unplug, sx_usb_disconnect
<1> QED BY <1>1, <1>2, <1>3, <1>4, <1>5, <1>6, Zenon DEF Next, ClassStep

\* What the completion of a transfer does, whatever it brought.
LEMMA ReceiveFacts ==
  ASSUME TypeOK, Counters, sx_usb_rcv_complete \/ ReceiveShort \/ ReceiveError
  PROVE  \E r \in 0..count.remaining :
           /\ NextTransfer(r) /\ UNCHANGED <<frame, phase, call, got, poll, plugged, freed>>
           /\ r > 0 => {"RCV", "CONNECTED"} \subseteq flags /\ flags' = flags
           /\ "RCV" \in flags' => r > 0
           /\ \A f \in {"CONNECTED", "OPEN", "SND", "CTRL"} : f \in flags' <=> f \in flags
           /\ spoiled => spoiled'
<1>0. usb.rcv \in Nat /\ count.remaining \in Nat /\ spoiled \in BOOLEAN
  BY DEF TypeOK
<1> USE DEF classVars, worldVars, NoFault, Fault
<1>1. CASE sx_usb_rcv_complete /\ Expected
  <2>1. count.remaining - usb.rcv \in 0..count.remaining
    BY <1>1, ExpectedFits DEF sx_usb_rcv_complete, Whole
  <2>2. /\ NextTransfer(count.remaining - usb.rcv) /\ spoiled' = spoiled
        /\ UNCHANGED <<frame, phase, call, got, poll, plugged, freed>>
        /\ flags' = IF count.remaining = usb.rcv THEN flags \ {"RCV"} ELSE flags
    BY <1>1 DEF sx_usb_rcv_complete
  <2>3. {"RCV", "CONNECTED"} \subseteq flags
    BY <1>1 DEF Expected
  <2> QED BY <1>0, <2>1, <2>2, <2>3
<1>2. CASE (sx_usb_rcv_complete /\ ~Expected) \/ ReceiveShort \/ ReceiveError
  <2>1. /\ NextTransfer(0) /\ UNCHANGED <<frame, phase, call, got, poll, plugged, freed>>
        /\ \/ flags' = flags \ {"RCV"}
           \/ flags' = (flags \ {"RCV"}) \cup {"RCV_ERR"}
    BY <1>2 DEF sx_usb_rcv_complete, ReceiveShort, ReceiveError
  <2>2. spoiled => spoiled'
    BY <1>0, <1>2 DEF sx_usb_rcv_complete, ReceiveShort, ReceiveError
  <2> QED BY <1>0, <2>1, <2>2
<1> QED BY <1>1, <1>2

\* What a call waits for and what a transfer is for.
LEMMA CountersStep == TypeOK /\ CallPhase /\ Counters /\ [Next]_vars => Counters'
<1> SUFFICES ASSUME TypeOK, CallPhase, Counters, [Next]_vars PROVE Counters'
  OBVIOUS
<1>0. CountTypes
  BY TypeParts
<1> USE SxAssumption DEF Idle, Row, classVars
<1>1. CASE UNCHANGED vars
  BY <1>1 DEF vars, Counters
<1>2. CASE \/ sx_open \/ sx_latch_frame \/ Abort \/ AbortRead \/ CloseBegin
           \/ Clear \/ ClearDone \/ ClearDuringDownload \/ NoReadCommand \/ sx_control \/ sx_close \/ ForcedClose
           \/ \E k \in Kinds : sx_new_frame(k)
  <2>1. count' = count /\ call' \notin {"wait", "recover"} /\ ("RCV" \in flags' => "RCV" \in flags)
    BY <1>2 DEF sx_open, sx_latch_frame, Abort, AbortRead, CloseBegin, Clear,
       ClearDone, ClearDuringDownload, NoReadCommand, sx_control, sx_close, ForcedClose, sx_new_frame
  <2> QED BY <2>1 DEF Counters
<1>3. CASE sx_usb_snd_complete \/ sx_tty_check_input \/ PollDone \/ Unplug \/ sx_usb_disconnect
  <2>1. UNCHANGED <<count, call, got>> /\ ("RCV" \in flags' => "RCV" \in flags)
    BY <1>3 DEF sx_usb_snd_complete, sx_tty_check_input, PollDone, Unplug, sx_usb_disconnect
  <2> QED BY <2>1 DEF Counters
<1>4. CASE sx_read_row
  BY <1>0, <1>4 DEF sx_read_row, Counters, CountTypes
<1>5. CASE sx_end_read \/ NoControl \/ sx_reset
  <2>1. /\ call' = "none" /\ "RCV" \notin flags' /\ count' = [count EXCEPT !.remaining = 0]
    BY <1>5 DEF sx_end_read, NoControl, sx_reset, EndRead
  <2>2. count'.remaining = 0
    BY <1>0, <2>1 DEF CountTypes
  <2> QED BY <2>1, <2>2 DEF Counters
<1>6. CASE Wake \/ Recover \/ Interrupted
  <2>1. \/ call' = "recover" /\ call = "wait" /\ UNCHANGED <<got, count, flags>>
        \/ /\ call' \in {"none", "oops"} /\ ("RCV" \in flags' => "RCV" \in flags)
           /\ (count' = count \/ count' = [count EXCEPT !.offset = @ + 1])
    BY <1>6 DEF Wake, Recover, Interrupted, Deliver
  <2>2. CASE call' = "recover"
    BY <2>1, <2>2 DEF Counters
  <2>3. CASE call' \in {"none", "oops"}
    BY <1>0, <2>1, <2>3 DEF Counters, CountTypes
  <2> QED BY <2>1, <2>2, <2>3
<1>7. CASE ReadCommand
  <2>1. call' = "none" /\ count'.remaining = Size /\ count'.length = Least(Bulk, Size)
    BY <1>7 DEF ReadCommand
  <2> QED BY <2>1 DEF Counters
<1>8. CASE sx_usb_rcv_complete \/ ReceiveShort \/ ReceiveError
  <2>1. PICK r \in 0..count.remaining :
          NextTransfer(r) /\ UNCHANGED <<call, got>> /\ ("RCV" \in flags' => r > 0)
    BY <1>8, ReceiveFacts
  <2>2. /\ count'.rcved + count'.remaining = count.rcved + count.remaining
        /\ count'.remaining = r /\ count'.offset = count.offset
        /\ r > 0 => count'.length = Least(Bulk, r)
    BY <1>0, <2>1, NextTransferFacts DEF CountTypes
  <2> QED BY <2>1, <2>2 DEF Counters
<1> QED BY <1>1, <1>2, <1>3, <1>4, <1>5, <1>6, <1>7, <1>8, Zenon DEF Next, ClassStep

\* The flags go on covering what is on its way.
LEMMA FlightStep ==
  ASSUME TypeOK, CallPhase, Counters, Flight, Control, Delivered, [Next]_vars
  PROVE  Flight'
<1>0. /\ usb \in [snd : BOOLEAN, rcv : 0..Bulk] /\ CountTypes /\ freed \in BOOLEAN
      /\ plugged \in BOOLEAN /\ spoiled \in BOOLEAN /\ Bulk \in Nat /\ Size \in Nat
      /\ got \in Seq(Rows)
  BY TypeParts, SxAssumption DEF FlagTypes, WorldTypes, RowTypes
<1> USE DEF Idle, classVars, worldVars
<1>1. CASE UNCHANGED vars
  BY <1>1 DEF vars, Flight
<1>2. CASE \/ sx_open \/ sx_latch_frame \/ sx_read_row \/ Abort \/ AbortRead \/ CloseBegin
           \/ Wake \/ Recover \/ sx_control \/ \E k \in Kinds : sx_new_frame(k)
  <2>1. UNCHANGED <<usb, plugged, freed, spoiled>> /\ call' # "clear"
        /\ (call' = "oops" => freed) /\ (freed => call' # "reset")
    BY <1>0, <1>2, SxAssumption DEF sx_open, sx_latch_frame, sx_read_row, Abort, AbortRead, CloseBegin,
       Wake, Recover, sx_control, sx_new_frame, Deliver, Acquirable, Flight
  <2>2. \A f \in {"CONNECTED", "SND", "RCV"} : f \in flags' <=> f \in flags
    BY <1>2 DEF sx_open, sx_latch_frame, sx_read_row, Abort, AbortRead, CloseBegin,
       Wake, Recover, sx_control, sx_new_frame
  <2>3. ~("CONNECTED" \notin flags /\ plugged)
    BY <1>0, <1>2 DEF sx_open, sx_latch_frame, sx_read_row, Abort, AbortRead, CloseBegin,
       Wake, Recover, sx_control, sx_new_frame, Acquirable, Flight
  <2> QED BY <1>0, <2>1, <2>2, <2>3 DEF Flight
<1>3. CASE Clear \/ ClearDone \/ ClearDuringDownload
  <2>1. UNCHANGED <<usb, plugged, freed>> /\ (spoiled => spoiled')
    BY <1>0, <1>3 DEF Clear, ClearDone, ClearDuringDownload
  <2>2. /\ "CONNECTED" \in flags' <=> "CONNECTED" \in flags
        /\ "RCV" \in flags' <=> "RCV" \in flags
        /\ call' = "clear" => "SND" \in flags' /\ "SND" \notin flags /\ "CONNECTED" \in flags
        /\ "SND" \in flags /\ "SND" \notin flags' => call = "clear"
        /\ call \in {"acqClear", "clear"} /\ call' \in {"clear", "none"}
    BY <1>3 DEF Clear, ClearDone, ClearDuringDownload, Acquirable
  <2> QED BY <1>0, <2>1, <2>2 DEF Flight
<1>4. CASE NoReadCommand
  <2>1. UNCHANGED <<usb, plugged, freed, flags>> /\ spoiled' = TRUE /\ call \in {"acqNew", "acqLatch"}
        /\ call' = "none"
    BY <1>4 DEF NoReadCommand
  <2> QED BY <1>0, <2>1 DEF Flight
<1>5. CASE ReadCommand
  <2>1. /\ UNCHANGED <<plugged, freed>> /\ call' = "none" /\ flags' = flags \cup {"SND", "RCV"}
        /\ "CONNECTED" \in flags /\ usb'.rcv = usb.rcv
    BY <1>0, <1>5 DEF ReadCommand, Acquirable
  <2> QED BY <1>0, <2>1 DEF Flight
<1>6. CASE sx_end_read
  <2>1. /\ UNCHANGED <<usb, plugged, freed, spoiled>> /\ phase = "latched" /\ call = "none"
        /\ flags' = flags \ {"RCV"} /\ call' = "none" /\ Len(got) = Size
    BY <1>6 DEF sx_end_read
  <2>2. ~spoiled => usb.rcv = 0
    <3> SUFFICES ASSUME ~spoiled, "CONNECTED" \in flags PROVE usb.rcv = 0
      BY DEF Flight
    <3>1. count.remaining = 0
      BY <1>0, <2>1 DEF Delivered, Current, CountTypes
    <3> QED BY <1>0, <3>1 DEF Counters, Flight
  <2>3. ~("CONNECTED" \notin flags /\ plugged)
    BY <1>0, <2>1 DEF Flight
  <2> QED BY <1>0, <2>1, <2>2, <2>3 DEF Flight
<1>7. CASE NoControl
  <2>1. /\ UNCHANGED <<usb, plugged, freed>> /\ spoiled' = TRUE /\ call = "acqCtrl"
        /\ flags' = flags \ {"RCV"} /\ call' = "none"
    BY <1>7 DEF NoControl
  <2> QED BY <1>0, <2>1 DEF Flight
<1>8. CASE sx_reset
  <2>1. /\ UNCHANGED <<usb, plugged, freed, spoiled>> /\ call = "reset" /\ ResetDone
        /\ flags' = flags \ {"CTRL", "RCV"} /\ call' = "none"
    BY <1>8 DEF sx_reset
  <2>2. ~spoiled => usb.rcv = 0
    BY <1>0, <2>1 DEF Flight, ResetDone
  <2> QED BY <1>0, <2>1, <2>2 DEF Flight
<1>9. CASE sx_close
  <2>1. UNCHANGED <<usb, plugged, freed, spoiled>> /\ call = "acqClose" /\ call' \in {"none", "forced"}
    BY <1>9 DEF sx_close
  <2>2. \A f \in {"CONNECTED", "SND", "RCV"} : f \in flags' <=> f \in flags
    BY <1>9 DEF sx_close
  <2> QED BY <1>0, <2>1, <2>2 DEF Flight
<1>10. CASE ForcedClose
  <2>1. /\ UNCHANGED <<usb, plugged, spoiled>> /\ call = "forced" /\ ResetDone
        /\ flags' = flags \ {"CONNECTED", "SND", "RCV", "OPEN"} /\ phase' = "closed"
        /\ freed' /\ call' = IF freed THEN "oops" ELSE "none"
    BY <1>10 DEF ForcedClose
  <2>2. ~spoiled => ~usb.snd /\ usb.rcv = 0
    BY <1>0, <2>1 DEF Flight, ResetDone
  <2> QED BY <1>0, <2>1, <2>2 DEF Flight
<1>11. CASE Interrupted
  <2>1. UNCHANGED <<usb, plugged, freed, flags>> /\ spoiled' = TRUE /\ call = "wait"
        /\ (call' = "none" \/ (call' = "oops" /\ freed))
    BY <1>11 DEF Interrupted, Fault, Deliver
  <2> QED BY <1>0, <2>1 DEF Flight
<1>12. CASE sx_usb_snd_complete
  <2>1. /\ UNCHANGED <<plugged, freed, phase, call>> /\ usb.snd /\ flags' = flags \ {"SND"}
        /\ usb'.snd = FALSE /\ (spoiled => spoiled')
        /\ usb'.rcv = usb.rcv \/ {"RCV", "CONNECTED"} \subseteq flags
    BY <1>0, <1>12 DEF sx_usb_snd_complete, NoFault, Fault
  <2>2. ~usb'.snd
    BY <2>1
  <2> QED BY <1>0, <2>1, <2>2 DEF Flight
<1>13. CASE sx_usb_rcv_complete \/ ReceiveShort \/ ReceiveError
  <2>1. PICK r \in 0..count.remaining :
           /\ NextTransfer(r) /\ UNCHANGED <<frame, phase, call, got, poll, plugged, freed>>
           /\ r > 0 => {"RCV", "CONNECTED"} \subseteq flags /\ flags' = flags
           /\ \A f \in {"CONNECTED", "OPEN", "SND", "CTRL"} : f \in flags' <=> f \in flags
           /\ spoiled => spoiled'
    BY <1>13, ReceiveFacts
  <2>2. usb'.snd = usb.snd /\ (usb'.rcv > 0 => r > 0) /\ usb'.rcv \in 0..Bulk
    <3>1. r \in Nat /\ usb'.snd = usb.snd /\ usb'.rcv = (IF plugged THEN Least(Bulk, r) ELSE 0)
      BY <1>0, <2>1, NextTransferFacts DEF CountTypes
    <3>2. Least(Bulk, r) \in 0..Bulk /\ Least(Bulk, r) <= r
      BY <3>1, LeastBounds
    <3> QED BY <1>0, <3>1, <3>2
  <2> QED BY <1>0, <2>1, <2>2 DEF Flight
<1>14. CASE sx_tty_check_input \/ PollDone \/ Unplug
  <2>1. UNCHANGED <<usb, freed, spoiled, phase, call>> /\ (plugged' => plugged)
    BY <1>0, <1>14 DEF sx_tty_check_input, PollDone, Unplug
  <2>2. \A f \in {"CONNECTED", "SND", "RCV"} : f \in flags' <=> f \in flags
    BY <1>14 DEF sx_tty_check_input, PollDone, Unplug
  <2> QED BY <1>0, <2>1, <2>2 DEF Flight
<1>15. CASE sx_usb_disconnect
  <2>1. /\ UNCHANGED <<usb, plugged, spoiled, call>> /\ ~plugged /\ ~usb.snd /\ usb.rcv = 0
        /\ "CONNECTED" \notin flags' /\ ("SND" \in flags' <=> "SND" \in flags)
        /\ freed' => "SND" \notin flags /\ "CTRL" \notin flags
        /\ "CONNECTED" \in flags
    BY <1>15 DEF sx_usb_disconnect
  <2>2. freed' => call \notin {"clear", "reset"}
    BY <2>1 DEF Flight, Control
  <2> QED BY <1>0, <2>1, <2>2 DEF Flight
<1> QED BY <1>1, <1>2, <1>3, <1>4, <1>5, <1>6, <1>7, <1>8, <1>9, <1>10, <1>11, <1>12, <1>13,
     <1>14, <1>15, Zenon DEF Next, ClassStep

\* The poll and a reset exclude each other.
LEMMA ControlStep == Control /\ [Next]_vars => Control'
<1> SUFFICES ASSUME Control, [Next]_vars PROVE Control'
  OBVIOUS
<1> USE DEF classVars, worldVars, Control
<1>1. CASE UNCHANGED vars
  BY <1>1 DEF vars
<1>2. CASE \/ sx_open \/ sx_latch_frame \/ sx_read_row \/ Abort \/ AbortRead \/ CloseBegin
           \/ sx_end_read \/ Clear \/ ClearDone \/ ClearDuringDownload
  BY <1>2 DEF sx_open, sx_latch_frame, sx_read_row, Abort, AbortRead, CloseBegin,
     sx_end_read, Clear, ClearDone, ClearDuringDownload
<1>6. ASSUME NEW k \in Kinds, sx_new_frame(k) PROVE Control'
  <2>1. UNCHANGED <<flags, poll>> /\ call' \in {"acqNew", "acqClear", "none"}
    BY <1>6, SxAssumption DEF sx_new_frame
  <2> QED BY <2>1
<1>3. CASE \/ ReadCommand \/ NoReadCommand \/ Wake \/ Recover \/ Interrupted
           \/ NoControl \/ sx_close \/ ForcedClose
  BY <1>3 DEF ReadCommand, NoReadCommand, Wake, Recover, Interrupted, Deliver, NoControl, sx_close,
     ForcedClose
<1>4. CASE sx_control \/ sx_reset \/ sx_tty_check_input \/ PollDone
  BY <1>4 DEF sx_control, sx_reset, sx_tty_check_input, PollDone, Acquirable
<1>5. CASE \/ sx_usb_snd_complete \/ sx_usb_rcv_complete \/ ReceiveShort \/ ReceiveError
           \/ Unplug \/ sx_usb_disconnect
  BY <1>5 DEF sx_usb_snd_complete, sx_usb_rcv_complete, ReceiveShort, ReceiveError, Unplug,
     sx_usb_disconnect
<1> QED BY <1>1, <1>2, <1>3, <1>4, <1>5, <1>6, Zenon DEF Next, ClassStep

\* No row is delivered before it was received.
LEMMA DeliveredStep ==
  ASSUME TypeOK, CallPhase, Counters, Flight, Delivered, InStep, [Next]_vars
  PROVE  Delivered'
<1>0. /\ CountTypes /\ plugged \in BOOLEAN /\ spoiled \in BOOLEAN /\ Size \in Nat \ {0}
      /\ got \in Seq(Rows) /\ pixels \in [1..Size -> Rows] /\ Len(got) \in Nat
  BY TypeParts, SxAssumption DEF WorldTypes, RowTypes
<1> USE DEF Idle, classVars, worldVars
<1>1. CASE UNCHANGED vars
  BY <1>1 DEF vars, Delivered, Current, Row
<1>n. ASSUME ~Current', call' # "recover" PROVE Delivered'
  BY <1>n DEF Delivered
<1>k. ASSUME Current' => Current, UNCHANGED <<count, got, frame>>, spoiled => spoiled', plugged' => plugged,
             "CONNECTED" \in flags' => "CONNECTED" \in flags, call' = "recover" => call = "recover"
      PROVE  Delivered'
  BY <1>0, <1>k DEF Delivered, Row
<1>2. ASSUME NEW k \in Kinds, sx_new_frame(k) PROVE Delivered'
  BY <1>n, <1>2, SxAssumption DEF sx_new_frame, Current
<1>3. CASE sx_open \/ sx_end_read \/ Abort \/ CloseBegin \/ NoControl \/ sx_reset \/ sx_close \/ ForcedClose
  <2>1. phase' \in {"opened", "closed"} /\ call' # "recover"
    BY <1>3 DEF sx_open, sx_end_read, Abort, CloseBegin, NoControl, sx_reset, sx_close, ForcedClose,
       EndRead, CallPhase
  <2> QED BY <1>n, <2>1 DEF Current
<1>4. CASE sx_latch_frame \/ AbortRead \/ sx_control \/ Clear \/ ClearDone \/ ClearDuringDownload
  <2>1. UNCHANGED <<count, got, plugged, frame>> /\ (spoiled => spoiled') /\ call' # "recover"
        /\ ("CONNECTED" \in flags' => "CONNECTED" \in flags)
    BY <1>0, <1>4 DEF sx_latch_frame, AbortRead, sx_control, Clear, ClearDone, ClearDuringDownload
  <2>2. Current' => Current
    BY <1>4 DEF sx_latch_frame, AbortRead, sx_control, Clear, ClearDone, ClearDuringDownload, Current, CallPhase
  <2> QED BY <1>k, <2>1, <2>2
<1>5. CASE NoReadCommand
  <2>1. spoiled' = TRUE /\ call' = "none"
    BY <1>5 DEF NoReadCommand
  <2> QED BY <2>1 DEF Delivered
<1>6. CASE ReadCommand
  <2>1. /\ call' = "none" /\ UNCHANGED got /\ call \in {"acqNew", "acqLatch"}
        /\ count'.rcved = 0 /\ count'.remaining = Size /\ count'.offset = 0
        /\ frame' = [frame EXCEPT !.asked = frame.number]
    BY <1>6 DEF ReadCommand
  <2>2. Len(got') = 0
    BY <2>1 DEF CallPhase
  <2>3. frame'.asked = frame'.number
    BY <2>1 DEF TypeOK
  <2> QED BY <1>0, <2>1, <2>2, <2>3 DEF Delivered
<1>7. CASE sx_read_row
  <2>1. /\ UNCHANGED <<flags, count, phase, frame, spoiled, plugged>> /\ phase = "latched"
        /\ call = "none" /\ call' \in {"none", "wait"} /\ Len(got) < Size
        /\ \/ got' = got
           \/ count.offset + 1 > count.rcved + count.remaining
    BY <1>7 DEF sx_read_row
  <2>2. Current /\ Current'
    BY <2>1 DEF Current
  <2>3. ~spoiled => got' = got
    BY <1>0, <2>1, <2>2 DEF Delivered, CountTypes
  <2> QED BY <1>0, <2>1, <2>2, <2>3 DEF Delivered
<1>8. CASE Wake /\ "RCV_ERR" \in flags
  <2>1. /\ UNCHANGED <<flags, count, got, phase, frame, spoiled, plugged>> /\ call = "wait"
        /\ call' \in {"recover", "oops"} /\ (Row <= count.rcved \/ "CONNECTED" \notin flags)
    BY <1>8 DEF Wake
  <2>2. Current /\ phase = "latched"
    BY <2>1 DEF Current, CallPhase
  <2>3. spoiled \/ ~plugged
    BY <1>8 DEF InStep
  <2> QED BY <1>0, <2>1, <2>2, <2>3 DEF Delivered, Row
<1>o. CASE ((Wake /\ "RCV_ERR" \notin flags) \/ Recover) /\ freed
  <2>1. call' = "oops" /\ UNCHANGED phase /\ call \in {"wait", "recover"}
    BY <1>o DEF Wake, Recover, Deliver
  <2> QED BY <1>n, <2>1 DEF Current, CallPhase
<1>9. CASE ((Wake /\ "RCV_ERR" \notin flags) \/ Recover) /\ ~freed
  <2>1. /\ UNCHANGED <<phase, frame, spoiled>> /\ call \in {"wait", "recover"} /\ call' = "none"
        /\ got' = Append(got, pixels[Row]) /\ count' = [count EXCEPT !.offset = @ + 1]
        /\ "CONNECTED" \in flags' <=> "CONNECTED" \in flags
    BY <1>9 DEF Wake, Recover, Deliver
  <2>2. Current
    BY <2>1 DEF Current, CallPhase
  <2>3. "CONNECTED" \in flags => Row <= count.rcved
    BY <1>9 DEF Wake, Recover, Delivered
  <2>4. Row \in 1..Size
    BY <1>0, <2>1 DEF Row, Counters, CountTypes
  <2>5. Len(got') = Len(got) + 1
    BY <1>0, <2>1, <2>4
  <2>6. count'.rcved = count.rcved /\ count'.remaining = count.remaining
        /\ count'.offset = count.offset + 1
    BY <1>0, <2>1 DEF CountTypes
  <2> QED BY <1>0, <2>1, <2>2, <2>3, <2>5, <2>6 DEF Delivered, Row, CountTypes
<1>10. CASE Interrupted
  <2>1. spoiled' = TRUE /\ call' \in {"none", "oops"}
    BY <1>10 DEF Interrupted, Fault, Deliver
  <2> QED BY <2>1 DEF Delivered
<1>11. CASE sx_usb_snd_complete \/ sx_tty_check_input \/ PollDone \/ Unplug \/ sx_usb_disconnect
  <2>1. UNCHANGED <<count, got, phase, call, frame>> /\ (spoiled => spoiled') /\ (plugged' => plugged)
        /\ ("CONNECTED" \in flags' => "CONNECTED" \in flags)
    BY <1>0, <1>11 DEF sx_usb_snd_complete, sx_tty_check_input, PollDone, Unplug, sx_usb_disconnect,
       Fault, NoFault
  <2> QED BY <1>k, <2>1 DEF Current
<1>12. CASE sx_usb_rcv_complete \/ ReceiveShort \/ ReceiveError
  <2>1. PICK r \in 0..count.remaining :
           /\ NextTransfer(r) /\ UNCHANGED <<frame, phase, call, got, poll, plugged, freed>>
           /\ \A f \in {"CONNECTED", "OPEN", "SND", "CTRL"} : f \in flags' <=> f \in flags
           /\ spoiled => spoiled'
    BY <1>12, ReceiveFacts
  <2>2. /\ count'.rcved = count.rcved + count.remaining - r /\ count'.remaining = r
        /\ count'.offset = count.offset
    BY <2>1, NextTransferFacts
  <2>3. Current' = Current
    BY <2>1 DEF Current
  <2> QED BY <1>0, <2>1, <2>2, <2>3 DEF Delivered, Row, CountTypes
<1> QED BY <1>1, <1>2, <1>3, <1>4, <1>5, <1>6, <1>7, <1>8, <1>9, <1>10, <1>11, <1>12, <1>o
   DEF Next, ClassStep

\* The next rows of a frame that is received as expected.
LEMMA ReceiveInStep ==
  ASSUME TypeOK, Counters, Flight, InStep, ~spoiled, plugged, sx_usb_rcv_complete
  PROVE  Expected /\ ~usb.snd /\ Len(stream) = count.remaining
<1>0. usb.rcv > 0 /\ usb.rcv \in Nat /\ count.remaining \in Nat
  BY DEF sx_usb_rcv_complete, Whole, TypeOK
<1>1. ~usb.snd
  BY <1>0 DEF InStep
<1>2. /\ Len(stream) = count.remaining
      /\ count.remaining > 0 => "RCV" \in flags
      /\ usb.rcv = IF count.remaining > 0 THEN count.length ELSE 0
  BY <1>1 DEF InStep
<1>3. "CONNECTED" \in flags
  BY <1>0 DEF Flight
<1> QED BY <1>0, <1>1, <1>2, <1>3 DEF Expected

\* A read command finds nothing left of earlier ones, or the frame is spoiled.
LEMMA ReadInStep ==
  ASSUME TypeOK, Counters, Flight, InStep, ReadCommand, ~spoiled', plugged
  PROVE  /\ stream = <<>> /\ usb.rcv = 0 /\ "RCV_ERR" \notin flags
         /\ usb'.snd /\ usb'.rcv = 0
<1>0. /\ usb \in [snd : BOOLEAN, rcv : 0..Bulk] /\ count.remaining \in Nat /\ stream \in Seq(Rows \cup {Answer})
      /\ spoiled \in BOOLEAN /\ plugged \in BOOLEAN
  BY DEF TypeOK
<1>1. /\ "SND" \notin flags /\ "RCV" \notin flags /\ "CONNECTED" \in flags
      /\ usb' = [usb EXCEPT !.snd = plugged]
      /\ spoiled' = (spoiled /\ ~Clean)
  BY DEF ReadCommand, Acquirable, Fault
<1>2. Clean
  <2>1. CASE spoiled
    BY <1>0, <1>1, <2>1
  <2>2. CASE ~spoiled
    <3>1. ~usb.snd
      BY <1>0, <1>1 DEF Flight
    <3>2. /\ Len(stream) = count.remaining /\ "RCV_ERR" \notin flags /\ ~(count.remaining > 0)
          /\ usb.rcv = IF count.remaining > 0 THEN count.length ELSE 0
      BY <1>1, <2>2, <3>1 DEF InStep
    <3>3. Len(stream) = 0
      BY <1>0, <3>2
    <3> QED BY <1>0, <3>2, <3>3, EmptySeq DEF Clean
  <2> QED BY <2>1, <2>2
<1>3. usb'.snd = plugged /\ usb'.rcv = usb.rcv
  BY <1>0, <1>1
<1> QED BY <1>2, <1>3 DEF Clean

\* The command that was sent makes the camera send the frame, whose first rows
\* the driver asks for.
LEMMA SendInStep ==
  ASSUME TypeOK, Flight, InStep, sx_usb_snd_complete, ~spoiled', plugged'
  PROVE  /\ ~spoiled /\ plugged /\ "RCV" \in flags /\ usb'.rcv = count.length
         /\ count.rcved = 0 /\ count.remaining = Size
         /\ stream' = [i \in 1..Size |-> <<frame.asked, i>>] /\ Len(stream') = Size
<1> DEFINE rows == [i \in 1..Size |-> <<frame.asked, i>>]
<1>0. /\ spoiled \in BOOLEAN /\ plugged \in BOOLEAN /\ rows \in Seq(Rows \cup {Answer}) /\ Len(rows) = Size
      /\ usb \in [snd : BOOLEAN, rcv : 0..Bulk]
  BY WholeFrame DEF TypeOK
<1> HIDE DEF rows
<1>1. plugged /\ usb.snd /\ spoiled' = spoiled /\ stream' = stream \o rows
  BY <1>0 DEF sx_usb_snd_complete, Fault, NoFault, worldVars, rows
<1>2. ~spoiled
  BY <1>1
<1>3. /\ "RCV" \in flags /\ usb.rcv = 0 /\ stream = <<>>
      /\ count.rcved = 0 /\ count.remaining = Size
  BY <1>1, <1>2 DEF InStep
<1>4. "CONNECTED" \in flags
  BY <1>1, <1>2 DEF Flight
<1>5. usb'.rcv = count.length
  <2>1. usb' = [snd |-> FALSE,
                rcv |-> IF {"RCV", "CONNECTED"} \subseteq flags THEN Submitted(count.length)
                        ELSE usb.rcv]
    BY DEF sx_usb_snd_complete
  <2>2. usb'.rcv = Submitted(count.length)
    BY <1>3, <1>4, <2>1
  <2> QED BY <1>1, <1>3, <2>2 DEF Submitted
<1>6. stream' = rows
  BY <1>0, <1>1, <1>3, ConcatEmptySeq
<1> QED BY <1>0, <1>1, <1>2, <1>3, <1>5, <1>6 DEF rows

\* What the driver expects stays what the camera sends.
LEMMA InStepStep ==
  ASSUME TypeOK, CallPhase, Counters, Flight, Delivered, InStep, [Next]_vars
  PROVE  InStep'
<1>0. /\ usb \in [snd : BOOLEAN, rcv : 0..Bulk] /\ CountTypes /\ stream \in Seq(Rows \cup {Answer})
      /\ plugged \in BOOLEAN /\ spoiled \in BOOLEAN /\ Size \in Nat \ {0} /\ Bulk \in Nat \ {0}
      /\ got \in Seq(Rows)
  BY TypeParts, SxAssumption DEF FlagTypes, WorldTypes, RowTypes
<1> USE DEF Idle, classVars, worldVars
<1>s. SUFFICES ASSUME ~spoiled', plugged' PROVE InStep'
  BY DEF InStep
<1>1. CASE UNCHANGED vars
  BY <1>1 DEF vars, InStep
<1>k. ASSUME UNCHANGED <<usb, stream, spoiled, plugged>>, count'.rcved = count.rcved,
             count'.remaining = count.remaining, count'.length = count.length,
             "RCV" \in flags' <=> "RCV" \in flags, "RCV_ERR" \in flags' <=> "RCV_ERR" \in flags
      PROVE  InStep'
  BY <1>k DEF InStep
<1>2. CASE \/ sx_open \/ sx_latch_frame \/ sx_read_row \/ Abort \/ AbortRead \/ CloseBegin
           \/ Clear \/ ClearDone \/ sx_control \/ sx_close
           \/ sx_tty_check_input \/ PollDone \/ sx_usb_disconnect
           \/ \E k \in Kinds : sx_new_frame(k)
  <2>1. UNCHANGED <<usb, stream, spoiled, plugged, count>>
    BY <1>2 DEF sx_open, sx_latch_frame, sx_read_row, Abort, AbortRead, CloseBegin,
       Clear, ClearDone, sx_control, sx_close, sx_tty_check_input, PollDone, sx_usb_disconnect,
       sx_new_frame
  <2>2. ("RCV" \in flags' <=> "RCV" \in flags) /\ ("RCV_ERR" \in flags' <=> "RCV_ERR" \in flags)
    BY <1>2 DEF sx_open, sx_latch_frame, sx_read_row, Abort, AbortRead, CloseBegin,
       Clear, ClearDone, sx_control, sx_close, sx_tty_check_input, PollDone, sx_usb_disconnect,
       sx_new_frame
  <2> QED BY <1>k, <2>1, <2>2
<1>3. CASE Wake
  <2>1. UNCHANGED <<usb, stream, spoiled, plugged, flags>>
        /\ (count' = count \/ count' = [count EXCEPT !.offset = @ + 1])
    BY <1>3 DEF Wake, Deliver
  <2> QED BY <1>0, <1>k, <2>1 DEF CountTypes
<1>4. ~Recover
  <2> SUFFICES ASSUME Recover PROVE FALSE
    OBVIOUS
  <2>1. call = "recover" /\ spoiled' = spoiled /\ plugged' = plugged
    BY DEF Recover
  <2> QED BY <1>0, <1>s, <2>1, Zenon DEF Delivered
<1>5. ~ClearDuringDownload /\ ~NoReadCommand /\ ~NoControl /\ ~Interrupted /\ ~Unplug
  BY <1>s DEF ClearDuringDownload, NoReadCommand, NoControl, Interrupted, Unplug, Fault
<1>6. CASE ReadCommand
  <2>1. /\ plugged /\ stream' = stream /\ flags' = flags \cup {"SND", "RCV"}
        /\ count'.rcved = 0 /\ count'.remaining = Size
    BY <1>6, <1>s DEF ReadCommand
  <2>2. stream = <<>> /\ "RCV_ERR" \notin flags /\ usb'.snd /\ usb'.rcv = 0
    BY <1>6, <1>s, <2>1, ReadInStep
  <2> QED BY <2>1, <2>2 DEF InStep
<1>r. ASSUME "RCV" \notin flags, "CONNECTED" \in flags, UNCHANGED <<usb, stream, spoiled, plugged>>,
             "RCV" \notin flags', "RCV_ERR" \in flags' <=> "RCV_ERR" \in flags,
             count' = [count EXCEPT !.remaining = 0] \/ count' = count
      PROVE  InStep'
  <2>1. ~spoiled /\ plugged /\ ~usb.snd /\ count.remaining = 0
    BY <1>0, <1>r, <1>s DEF InStep, CountTypes
  <2>2. count'.remaining = 0
    BY <1>0, <1>r, <2>1 DEF CountTypes
  <2> QED BY <1>0, <1>r, <2>1, <2>2 DEF InStep
<1>c. CASE "CONNECTED" \notin flags /\ (sx_end_read \/ sx_reset \/ ForcedClose)
  BY <1>0, <1>c, <1>s DEF Flight, sx_end_read, sx_reset, ForcedClose
<1>7. CASE sx_end_read /\ "CONNECTED" \in flags
  <2>1. /\ UNCHANGED <<usb, stream, spoiled, plugged>> /\ phase = "latched" /\ call = "none"
        /\ Len(got) = Size /\ flags' = flags \ {"RCV"} /\ count' = [count EXCEPT !.remaining = 0]
    BY <1>7 DEF sx_end_read, EndRead
  <2>2. count.remaining = 0
    BY <1>0, <1>7, <1>s, <2>1 DEF Delivered, Current, CountTypes
  <2> QED BY <1>7, <1>r, <2>1, <2>2 DEF Counters
<1>8. CASE (sx_reset \/ ForcedClose) /\ "CONNECTED" \in flags
  <2>1. /\ UNCHANGED <<usb, stream, spoiled, plugged>> /\ "RCV" \notin flags
        /\ "RCV" \notin flags' /\ ("RCV_ERR" \in flags' <=> "RCV_ERR" \in flags)
        /\ (count' = count \/ count' = [count EXCEPT !.remaining = 0])
    BY <1>8 DEF sx_reset, ForcedClose, EndRead, ResetDone
  <2> QED BY <1>8, <1>r, <2>1
<1>9. CASE sx_usb_snd_complete
  <2>1. UNCHANGED count /\ flags' = flags \ {"SND"} /\ usb'.snd = FALSE
    BY <1>0, <1>9 DEF sx_usb_snd_complete
  <2>2. /\ ~spoiled /\ plugged /\ "RCV" \in flags /\ usb'.rcv = count.length
        /\ count.rcved = 0 /\ count.remaining = Size
        /\ stream' = [i \in 1..Size |-> <<frame.asked, i>>] /\ Len(stream') = Size
    BY <1>9, <1>s, SendInStep
  <2>a. \A i \in 1..Len(stream') : stream'[i] # Answer
    BY <1>0, <2>2 DEF Answer
  <2>3. "RCV_ERR" \notin flags
    BY <2>2 DEF InStep
  <2>4. ~usb'.snd
    BY <2>1
  <2> QED BY <1>0, <2>1, <2>2, <2>3, <2>4, <2>a DEF InStep
<1>10. CASE sx_usb_rcv_complete
  <2>1. /\ plugged /\ ~spoiled /\ usb.rcv > 0 /\ Len(stream) >= usb.rcv
        /\ stream' = SubSeq(stream, usb.rcv + 1, Len(stream))
    BY <1>10, <1>s DEF sx_usb_rcv_complete, Whole, NoFault
  <2>a. \A i \in 1..Len(stream') : stream'[i] # Answer
    <3>0. usb.rcv \in Nat /\ Len(stream) \in Nat
      BY <1>0
    <3>1. \A i \in 1..Len(stream) : stream[i] # Answer
      BY <2>1 DEF InStep
    <3> SUFFICES ASSUME NEW i \in 1..Len(stream') PROVE stream'[i] # Answer
      OBVIOUS
    <3>2. usb.rcv + i \in 1..Len(stream) /\ stream'[i] = stream[usb.rcv + i]
      BY <1>0, <2>1, <3>0
    <3> QED BY <3>1, <3>2
  <2>2. Expected /\ ~usb.snd /\ Len(stream) = count.remaining
    BY <1>10, <2>1, ReceiveInStep
  <2> DEFINE r == count.remaining - usb.rcv
  <2>3. NextTransfer(r) /\ flags' = IF count.remaining = usb.rcv THEN flags \ {"RCV"} ELSE flags
    BY <1>10, <2>2 DEF sx_usb_rcv_complete
  <2>4. r \in 0..count.remaining /\ r \in Nat
    BY <2>1, <2>2, ExpectedFits
  <2> HIDE DEF r
  <2>5. /\ usb'.snd = usb.snd /\ usb'.rcv = Least(Bulk, r) /\ count'.remaining = r
        /\ r > 0 => count'.length = Least(Bulk, r)
    BY <2>1, <2>3, <2>4, NextTransferFacts
  <2>6. r = 0 => Least(Bulk, r) = 0
    BY <1>0 DEF Least
  <2>7. Len(stream') = r
    BY <1>0, <2>1, <2>2 DEF r
  <2>8. /\ r > 0 => "RCV" \in flags'
        /\ "RCV_ERR" \notin flags'
    BY <1>0, <2>1, <2>2, <2>3, <2>4 DEF Expected, InStep, r
  <2> QED BY <2>2, <2>4, <2>5, <2>6, <2>7, <2>8, <2>a DEF InStep
<1>11. ~ReceiveError
  BY <1>s DEF ReceiveError, Fault, NoFault
<1>12. ~ReceiveShort
  <2> SUFFICES ASSUME ReceiveShort PROVE FALSE
    OBVIOUS
  <2>1. usb.rcv \in Nat /\ Len(stream) \in Nat
    BY <1>0
  <2>2. PICK n \in 1..usb.rcv : n <= Len(stream) /\ stream[n] = Answer
    BY DEF ReceiveShort
  <2>3. n \in 1..Len(stream) /\ ~spoiled /\ plugged
    BY <1>s, <2>1, <2>2 DEF ReceiveShort, NoFault
  <2> QED BY <2>2, <2>3 DEF InStep
<1> QED BY <1>1, <1>2, <1>3, <1>4, <1>5, <1>6, <1>c, <1>7, <1>8, <1>9, <1>10, <1>11, <1>12
   DEF Next, ClassStep

\* Rows that arrive are stored where they belong.
LEMMA RowsOnTheirWayStep ==
  ASSUME TypeOK, CallPhase, Counters, Flight, Delivered, InStep, RowsOnTheirWay, [Next]_vars
  PROVE  RowsOnTheirWay'
<1>0. /\ usb \in [snd : BOOLEAN, rcv : 0..Bulk] /\ CountTypes /\ stream \in Seq(Rows \cup {Answer})
      /\ plugged \in BOOLEAN /\ spoiled \in BOOLEAN /\ Size \in Nat \ {0} /\ Bulk \in Nat \ {0}
      /\ pixels \in [1..Size -> Rows] /\ Len(stream) \in Nat
  BY TypeParts, SxAssumption DEF FlagTypes, WorldTypes, RowTypes
<1> USE DEF Idle, classVars, worldVars
<1>s. SUFFICES ASSUME ~spoiled', plugged', Current' PROVE RowsOnTheirWay'
  BY DEF RowsOnTheirWay
<1>1. CASE UNCHANGED vars
  BY <1>1 DEF vars, RowsOnTheirWay, Current
<1>k. ASSUME Current, UNCHANGED <<pixels, stream, frame, spoiled, plugged>>, count'.rcved = count.rcved
      PROVE  RowsOnTheirWay'
  <2>1. ~spoiled /\ plugged
    BY <1>k, <1>s
  <2> QED BY <1>k, <2>1 DEF RowsOnTheirWay
<1>n. ASSUME phase' \in {"opened", "closed"} PROVE FALSE
  BY <1>n, <1>s DEF Current
<1>2. ASSUME NEW k \in Kinds, sx_new_frame(k) PROVE FALSE
  <2>1. phase' = "exposing" /\ frame'.kind = k /\ (k = "short" => call' = "acqNew")
    BY <1>2, SxAssumption DEF sx_new_frame
  <2> QED BY <1>s, <2>1 DEF Current
<1>3. CASE sx_open \/ sx_end_read \/ Abort \/ CloseBegin \/ NoControl \/ sx_reset \/ sx_close \/ ForcedClose
  <2>1. phase' \in {"opened", "closed"}
    BY <1>3 DEF sx_open, sx_end_read, Abort, CloseBegin, NoControl, sx_reset, sx_close, ForcedClose,
       EndRead, CallPhase
  <2> QED BY <1>n, <2>1
<1>4. CASE \/ sx_latch_frame \/ sx_read_row \/ AbortRead \/ sx_control \/ Clear \/ ClearDone
           \/ sx_tty_check_input \/ PollDone \/ sx_usb_disconnect
  <2>1. UNCHANGED <<pixels, stream, frame, spoiled, plugged, count>>
    BY <1>4 DEF sx_latch_frame, sx_read_row, AbortRead, sx_control, Clear, ClearDone,
       sx_tty_check_input, PollDone, sx_usb_disconnect
  <2>2. Current' => Current
    BY <1>4 DEF sx_latch_frame, sx_read_row, AbortRead, sx_control, Clear, ClearDone,
       sx_tty_check_input, PollDone, sx_usb_disconnect, Current, CallPhase
  <2> QED BY <1>k, <1>s, <2>1, <2>2
<1>5. CASE Wake
  <2>1. /\ UNCHANGED <<pixels, stream, frame, spoiled, plugged>> /\ call = "wait"
        /\ count' = count \/ count' = [count EXCEPT !.offset = @ + 1]
    BY <1>5 DEF Wake, Deliver
  <2>2. count'.rcved = count.rcved /\ Current
    BY <1>0, <2>1 DEF CountTypes, Current, CallPhase
  <2> QED BY <1>k, <2>1, <2>2
<1>6. ~Recover
  <2> SUFFICES ASSUME Recover PROVE FALSE
    OBVIOUS
  <2>1. call = "recover" /\ spoiled' = spoiled /\ plugged' = plugged
    BY DEF Recover
  <2> QED BY <1>0, <1>s, <2>1, Zenon DEF Delivered
<1>7. ~ClearDuringDownload /\ ~NoReadCommand /\ ~Interrupted /\ ~Unplug /\ ~ReceiveError
  BY <1>s DEF ClearDuringDownload, NoReadCommand, Interrupted, Unplug, ReceiveError, Fault, NoFault
<1>8. CASE ReadCommand
  <2>1. plugged /\ stream' = stream /\ count'.rcved = 0
    BY <1>8, <1>s DEF ReadCommand
  <2>2. stream = <<>>
    BY <1>8, <1>s, <2>1, ReadInStep
  <2>3. 1..count'.rcved = {} /\ 1..Len(stream') = {}
    BY <2>1, <2>2
  <2> QED BY <2>3 DEF RowsOnTheirWay
<1>9. CASE sx_usb_snd_complete
  <2>1. /\ count.rcved = 0 /\ stream' = [i \in 1..Size |-> <<frame.asked, i>>]
        /\ Len(stream') = Size
    BY <1>9, <1>s, SendInStep
  <2>2. UNCHANGED <<frame, count>>
    BY <1>9 DEF sx_usb_snd_complete
  <2>a. frame.asked = frame.number
    <3>1. Current /\ ~spoiled
      BY <1>0, <1>9, <1>s DEF sx_usb_snd_complete, Current, Fault, NoFault
    <3> QED BY <3>1 DEF Delivered
  <2>3. 1..count'.rcved = {}
    BY <2>1, <2>2
  <2>4. \A i \in 1..Size : stream'[i] = <<frame'.number, count'.rcved + i>>
    BY <1>0, <2>1, <2>2, <2>a
  <2> QED BY <2>1, <2>3, <2>4 DEF RowsOnTheirWay
<1>10. CASE sx_usb_rcv_complete
  <2> DEFINE n == usb.rcv
  <2>1. /\ plugged /\ ~spoiled /\ n > 0 /\ Len(stream) >= n
        /\ stream' = SubSeq(stream, n + 1, Len(stream)) /\ UNCHANGED <<frame, phase, call>>
    BY <1>10, <1>s DEF sx_usb_rcv_complete, Whole, NoFault
  <2>2. Expected /\ Len(stream) = count.remaining
    BY <1>10, <2>1, ReceiveInStep
  <2>3. /\ NextTransfer(count.remaining - n)
        /\ pixels' = [i \in 1..Size |-> IF i - count.rcved \in 1..n
                                        THEN stream[i - count.rcved] ELSE pixels[i]]
    BY <1>10, <2>2 DEF sx_usb_rcv_complete
  <2>4. /\ count.remaining - n \in 0..count.remaining
        /\ n \in 1..Size /\ count.rcved + n <= Size
    BY <2>1, <2>2, ExpectedFits
  <2>5. count'.rcved = count.rcved + n
    <3>1. count'.rcved = count.rcved + count.remaining - (count.remaining - n)
      BY <2>3, <2>4, NextTransferFacts
    <3> QED BY <1>0, <2>4, <3>1 DEF CountTypes
  <2>6. /\ \A i \in 1..count.rcved : pixels[i] = <<frame.number, i>>
        /\ \A i \in 1..Len(stream) : stream[i] = <<frame.number, count.rcved + i>>
    <3>1. Current
      BY <1>s, <2>1 DEF Current
    <3> QED BY <2>1, <3>1 DEF RowsOnTheirWay
  <2>7. ASSUME NEW i \in 1..count'.rcved PROVE pixels'[i] = <<frame'.number, i>>
    <3>1. i \in 1..Size /\ i \in Int /\ count.rcved \in Nat /\ n \in Nat /\ i <= count.rcved + n
      BY <1>0, <2>4, <2>5 DEF CountTypes
    <3>2. CASE i <= count.rcved
      <4>1. i \in 1..count.rcved /\ i - count.rcved \notin 1..n
        BY <3>1, <3>2
      <4>2. pixels'[i] = pixels[i]
        BY <2>3, <3>1, <4>1
      <4> QED BY <2>1, <2>6, <4>1, <4>2
    <3>3. CASE i > count.rcved
      <4>a. \A x \in Int : \A r, m, l \in Nat : x > r /\ x <= r + m /\ l >= m =>
              x - r \in 1..m /\ x - r \in 1..l /\ r + (x - r) = x
        OBVIOUS
      <4>b. Len(stream) \in Nat
        BY <1>0 DEF RowTypes
      <4>1. i - count.rcved \in 1..n /\ i - count.rcved \in 1..Len(stream)
            /\ count.rcved + (i - count.rcved) = i
        BY <2>1, <3>1, <3>3, <4>a, <4>b, Zenon
      <4>2. pixels'[i] = stream[i - count.rcved]
        BY <2>3, <3>1, <4>1
      <4>3. stream[i - count.rcved] = <<frame.number, count.rcved + (i - count.rcved)>>
        BY <2>6, <4>1
      <4> QED BY <2>1, <4>1, <4>2, <4>3
    <3> QED BY <3>1, <3>2, <3>3
  <2>8. ASSUME NEW i \in 1..Len(stream') PROVE stream'[i] = <<frame'.number, count'.rcved + i>>
    <3>0. stream \in Seq(Rows \cup {Answer}) /\ Len(stream) \in Nat /\ n \in Nat /\ count.rcved \in Nat
      BY <1>0, <2>4 DEF CountTypes, RowTypes
    <3>1. Len(stream') = Len(stream) - n /\ n \in Nat /\ count.rcved \in Nat
      BY <2>1, <3>0
    <3>a. \A l, x \in Nat : \A j \in 1..l - x : j \in Nat /\ x + j \in 1..l
      OBVIOUS
    <3>b. \A s \in Seq(Rows \cup {Answer}), x \in Nat : x <= Len(s) =>
            \A j \in 1..Len(s) - x : SubSeq(s, x + 1, Len(s))[j] = s[x + j]
      OBVIOUS
    <3>c. i \in 1..Len(stream) - n /\ n <= Len(stream)
      BY <2>1, <3>0, <3>1
    <3>2. i \in Nat /\ n + i \in 1..Len(stream) /\ stream'[i] = stream[n + i]
      BY <2>1, <3>0, <3>a, <3>b, <3>c, Zenon
    <3>3. stream[n + i] = <<frame.number, count.rcved + (n + i)>>
      BY <2>6, <3>2
    <3>4. count.rcved + (n + i) = count'.rcved + i
      BY <2>5, <3>1, <3>2
    <3> QED BY <2>1, <3>2, <3>3, <3>4
  <2> QED BY <2>7, <2>8 DEF RowsOnTheirWay
<1>11. ~ReceiveShort
  <2> SUFFICES ASSUME ReceiveShort PROVE FALSE
    OBVIOUS
  <2>1. usb.rcv \in Nat /\ Len(stream) \in Nat
    BY <1>0
  <2>2. PICK n \in 1..usb.rcv : n <= Len(stream) /\ stream[n] = Answer
    BY DEF ReceiveShort
  <2>3. n \in 1..Len(stream) /\ ~spoiled /\ plugged
    BY <1>s, <2>1, <2>2 DEF ReceiveShort, NoFault
  <2> QED BY <2>2, <2>3 DEF InStep
<1> QED BY <1>1, <1>2, <1>3, <1>4, <1>5, <1>6, <1>7, <1>8, <1>9, <1>10, <1>11, Zenon DEF Next, ClassStep

\* The row that a call delivers is the next one of the frame.
LEMMA RowsOfFrameStep ==
  ASSUME TypeOK, CallPhase, Counters, Flight, Delivered, InStep, RowsOnTheirWay, RowsOfFrame,
         [Next]_vars
  PROVE  RowsOfFrame'
<1>0. /\ CountTypes /\ plugged \in BOOLEAN /\ spoiled \in BOOLEAN /\ Size \in Nat \ {0}
      /\ got \in Seq(Rows) /\ pixels \in [1..Size -> Rows] /\ Len(got) \in Nat
  BY TypeParts, SxAssumption DEF WorldTypes, RowTypes
<1> USE DEF Idle, classVars, worldVars
<1>s. SUFFICES ASSUME ~spoiled', plugged' PROVE RowsOfFrame'
  BY DEF RowsOfFrame
<1>1. CASE UNCHANGED vars
  BY <1>1 DEF vars, RowsOfFrame
<1>e. ASSUME got' = <<>> PROVE RowsOfFrame'
  <2>1. 1..Len(got') = {}
    BY <1>e
  <2> QED BY <2>1 DEF RowsOfFrame
<1>k. ASSUME UNCHANGED <<got, frame>>, spoiled => spoiled', plugged' => plugged PROVE RowsOfFrame'
  BY <1>k, <1>s DEF RowsOfFrame
<1>2. ASSUME NEW k \in Kinds, sx_new_frame(k) PROVE RowsOfFrame'
  BY <1>e, <1>2 DEF sx_new_frame
<1>3. CASE \/ sx_open \/ sx_latch_frame \/ sx_end_read \/ Abort \/ AbortRead \/ CloseBegin
           \/ Clear \/ ClearDone \/ ClearDuringDownload \/ NoReadCommand \/ sx_control \/ NoControl \/ sx_reset
           \/ sx_close \/ ForcedClose
           \/ sx_tty_check_input \/ PollDone \/ Unplug \/ sx_usb_disconnect
  <2>1. UNCHANGED <<got, frame>> /\ (spoiled => spoiled') /\ (plugged' => plugged)
    BY <1>0, <1>3 DEF sx_open, sx_latch_frame, sx_end_read, Abort, AbortRead, CloseBegin, Clear,
       ClearDone, ClearDuringDownload, NoReadCommand, sx_control, NoControl, sx_reset, sx_close, ForcedClose,
       sx_tty_check_input, PollDone, Unplug, sx_usb_disconnect
  <2> QED BY <1>k, <2>1
<1>4. CASE sx_usb_snd_complete \/ sx_usb_rcv_complete \/ ReceiveShort \/ ReceiveError
  <2>1. UNCHANGED <<got, frame>> /\ (spoiled => spoiled') /\ (plugged' => plugged)
    BY <1>0, <1>4 DEF sx_usb_snd_complete, sx_usb_rcv_complete, ReceiveShort, ReceiveError, Fault, NoFault
  <2> QED BY <1>k, <2>1
<1>5. CASE ReadCommand
  <2>1. got' = got /\ call \in {"acqNew", "acqLatch"}
    BY <1>5 DEF ReadCommand
  <2> QED BY <1>e, <2>1 DEF CallPhase
<1>6. CASE sx_read_row
  <2>1. /\ UNCHANGED <<frame, spoiled, plugged>> /\ phase = "latched" /\ call = "none"
        /\ Len(got) < Size
        /\ \/ got' = got
           \/ count.offset + 1 > count.rcved + count.remaining
    BY <1>6 DEF sx_read_row
  <2>2. got' = got
    BY <1>0, <1>s, <2>1 DEF Delivered, Current, CountTypes
  <2> QED BY <1>k, <2>1, <2>2
<1>7. CASE Wake /\ "RCV_ERR" \in flags
  <2>1. UNCHANGED <<got, frame, spoiled, plugged>>
    BY <1>7 DEF Wake
  <2> QED BY <1>k, <2>1
<1>8. CASE Wake /\ "RCV_ERR" \notin flags
  <2>1. /\ UNCHANGED <<frame, spoiled, plugged>> /\ call = "wait"
        /\ (Row <= count.rcved \/ "CONNECTED" \notin flags)
        /\ freed \/ got' = Append(got, pixels[Row])
    BY <1>8 DEF Wake, Deliver
  <2>2. ~spoiled /\ plugged /\ Current
    BY <1>s, <2>1 DEF Current, CallPhase
  <2>a. got' = Append(got, pixels[Row])
    BY <2>1, <2>2 DEF Flight
  <2>3. Row <= count.rcved
    BY <2>1, <2>2 DEF Flight
  <2>4. Row = Len(got) + 1 /\ Row \in 1..count.rcved /\ Row \in 1..Size
    BY <1>0, <2>2, <2>3 DEF Delivered, Row, CountTypes
  <2>5. pixels[Row] = <<frame.number, Row>> /\ pixels[Row] \in Rows
    BY <1>0, <2>2, <2>4 DEF RowsOnTheirWay
  <2>6. /\ Len(got') = Len(got) + 1 /\ got'[Len(got) + 1] = pixels[Row]
        /\ \A i \in 1..Len(got) : got'[i] = got[i]
    BY <1>0, <2>a, <2>5, AppendProperties
  <2>7. \A i \in 1..Len(got) : got[i] = <<frame.number, i>>
    BY <2>2 DEF RowsOfFrame
  <2>8. ASSUME NEW i \in 1..Len(got') PROVE got'[i] = <<frame'.number, i>>
    <3>1. i \in 1..Len(got) \/ i = Len(got) + 1
      BY <1>0, <2>6
    <3> QED BY <2>1, <2>4, <2>5, <2>6, <2>7, <3>1
  <2> QED BY <2>8 DEF RowsOfFrame
<1>9. ~Recover
  <2> SUFFICES ASSUME Recover PROVE FALSE
    OBVIOUS
  <2>1. call = "recover" /\ spoiled' = spoiled /\ plugged' = plugged
    BY DEF Recover
  <2> QED BY <1>0, <1>s, <2>1, Zenon DEF Delivered
<1>10. ~Interrupted
  BY <1>s DEF Interrupted, Fault
<1> QED BY <1>1, <1>2, <1>3, <1>4, <1>5, <1>6, <1>7, <1>8, <1>9, <1>10, Zenon DEF Next, ClassStep

\* The invariant holds in every state that the driver reaches.
THEOREM Invariance == Spec => []Inv
<1>1. ASSUME Inv, [Next]_vars PROVE Inv'
  <2>0. TypeOK /\ CallPhase /\ Counters /\ Flight /\ Control /\ Delivered /\ InStep /\ RowsOnTheirWay /\ RowsOfFrame
    BY <1>1 DEF Inv
  <2>1. TypeOK'
    BY <1>1, <2>0, TypeStep
  <2>2. CallPhase'
    BY <1>1, <2>0, CallPhaseStep
  <2>3. Counters'
    BY <1>1, <2>0, CountersStep
  <2>4. Flight'
    BY <1>1, <2>0, FlightStep
  <2>5. Delivered'
    BY <1>1, <2>0, DeliveredStep
  <2>6. InStep'
    BY <1>1, <2>0, InStepStep
  <2>7. RowsOnTheirWay'
    BY <1>1, <2>0, RowsOnTheirWayStep
  <2>8. RowsOfFrame'
    BY <1>1, <2>0, RowsOfFrameStep
  <2>9. Control'
    BY <1>1, <2>0, ControlStep
  <2> QED BY <2>1, <2>2, <2>3, <2>4, <2>5, <2>6, <2>7, <2>8, <2>9 DEF Inv
<1> QED BY <1>1, InvInit, PTL DEF Spec

\* The counters of sx_usb.c stay within the frame and its buffer, and the flags
\* and the class driver's calls have their types, whatever is lost or removed.
THEOREM TypeCorrect == Spec => []TypeOK
<1>1. Inv => TypeOK
  BY DEF Inv
<1> QED BY <1>1, Invariance, PTL

\* Every row that the class driver reads is that row of the frame it asked for
\* last, as long as no fault touched the frame, the chip was not cleared while
\* an aborted frame was coming, and the camera is there: the completion handlers
\* and sx_read_pixels agree without a lock, for frames and transfers of every
\* size.
THEOREM RowsOfFrameHolds == Spec => []RowsOfFrame
<1>1. Inv => RowsOfFrame
  BY DEF Inv
<1> QED BY <1>1, Invariance, PTL

\* Neither the removal of the camera (sx_usb_disconnect) nor a forced close
\* (sx_close) frees the URBs and buffers while a transfer or the clear uses
\* them, unless something spoiled the frame, or ever while a reset waits; and a
\* call uses what was freed only after a removal.
THEOREM NotFreedInUseHolds == Spec => []NotFreedInUse
<1>1. Inv => NotFreedInUse
  BY DEF Inv, Flight, NotFreedInUse
<1> QED BY <1>1, Invariance, PTL

=============================================================================
