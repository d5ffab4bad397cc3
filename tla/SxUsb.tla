-------------------------------- MODULE SxUsb --------------------------------
(* The mini-driver of the USB camera, starlight/kernel/sx_usb.c, below the   *)
(* class driver of module Ccd.  The class driver makes one call at a time,   *)
(* and a call may wait; the completions of the two URBs, the poll of the     *)
(* camera's serial ports and the removal of the camera come in between.      *)
(* State flags say who may use what.  A completion handler is one step, as   *)
(* on a single processor, and the kernel is 2.6 or later.                    *)
(* Pixels are counted in rows.                                               *)
EXTENDS Integers, Sequences

CONSTANTS Size,       \* rows of a frame
          Bulk,       \* rows that one URB transfers, SX_BULK_READ_SIZE
          Kinds,      \* kinds of frames that are asked for
          MaxFrames,  \* bound on frames
          MaxFaults   \* bound on signals, transfer errors and failed submissions

ASSUME SxAssumption ==
  /\ Size \in Nat \ {0} /\ Bulk \in Nat \ {0} /\ MaxFrames \in Nat /\ MaxFaults \in Nat
  /\ Kinds \subseteq {"short", "long", "noclear"}

VARIABLES flags,   \* state_flags
          usb,     \* the two URBs: is snd in flight, how many rows rcv asks for
          count,   \* bytes_rcved, bytes_remaining, read_offset, transfer length
          pixels,  \* pixel_buf, by row
          frame,   \* the newest frame, its kind, and the one last commanded to be read
          stream,  \* what the camera will still send
          phase,   \* what the class driver did last
          call,    \* where its call is
          got,     \* the rows it read of this frame
          poll,    \* is the serial port poll in a transfer?
          plugged, \* is the camera there?
          freed,   \* were the buffers and URBs freed?
          spoiled, \* did a fault, or a clear during a download, touch this frame?
          faults   \* faults so far

vars == <<flags, usb, count, pixels, frame, stream, phase, call, got, poll, plugged,
          freed, spoiled, faults>>
classVars == <<frame, phase, call, got>>
worldVars == <<poll, plugged, freed>>

Flags == {"CONNECTED", "OPEN", "SND", "RCV", "CTRL", "RCV_ERR"}
Rows == (0..MaxFrames) \X (1..Size)

\* What the camera answers to GET_TIMER: four bytes, so less than a row.
Answer == <<0, 0>>

(* The counters stay within the buffer.                                      *)
TypeOK ==
  /\ flags \subseteq Flags
  /\ usb \in [snd : BOOLEAN, rcv : 0..Bulk]
  /\ count \in [rcved : 0..Size, remaining : 0..Size, offset : 0..Size, length : 0..Bulk]
  /\ count.rcved + count.remaining <= Size
  /\ pixels \in [1..Size -> Rows] /\ stream \in Seq(Rows \cup {Answer})
  /\ frame \in [number : 0..MaxFrames, kind : Kinds \cup {"none"}, asked : 0..MaxFrames]
  /\ phase \in {"closed", "opened", "exposing", "latched"}
  /\ call \in {"none", "acqClear", "clear", "acqNew", "acqLatch", "wait", "recover",
               "acqCtrl", "reset", "acqClose", "forced", "oops"}
  /\ got \in Seq(Rows) /\ Len(got) <= Size
  /\ poll \in BOOLEAN /\ plugged \in BOOLEAN /\ freed \in BOOLEAN /\ spoiled \in BOOLEAN
  /\ faults \in 0..MaxFaults

Init ==
  /\ flags = {"CONNECTED"} /\ usb = [snd |-> FALSE, rcv |-> 0]
  /\ count = [rcved |-> 0, remaining |-> 0, offset |-> 0, length |-> 0]
  /\ pixels = [i \in 1..Size |-> <<0, i>>] /\ stream = <<>>
  /\ frame = [number |-> 0, kind |-> "none", asked |-> 0]
  /\ phase = "closed" /\ call = "none" /\ got = <<>>
  /\ poll = FALSE /\ plugged = TRUE /\ freed = FALSE /\ spoiled = FALSE /\ faults = 0

\* The class driver may make its next call.
Idle == call = "none" /\ ~freed

Least(a, b) == IF a < b THEN a ELSE b

\* A fault is counted and marks the frame.
Fault == faults < MaxFaults /\ faults' = faults + 1 /\ spoiled' = TRUE
NoFault == UNCHANGED <<faults, spoiled>>

-----------------------------------------------------------------------------
(* sx_open_acquire: with the flags free, or after the wait without them.     *)

Acquirable(fs) == flags \cap fs = {} /\ {"CONNECTED", "OPEN"} \subseteq flags

sx_open ==
  /\ phase = "closed" /\ Idle /\ flags \cap {"OPEN", "SND", "RCV"} = {}
  /\ "CONNECTED" \in flags
  /\ flags' = flags \cup {"OPEN"} /\ phase' = "opened"
  /\ UNCHANGED <<usb, count, pixels, frame, stream, call, got, worldVars, spoiled, faults>>

\* new_frame of a frame that the driver times reads it at once; otherwise the
\* camera is cleared, unless the frame is to stay.
sx_new_frame(k) ==
  /\ phase = "opened" /\ Idle /\ frame.number < MaxFrames
  /\ frame' = [frame EXCEPT !.number = @ + 1, !.kind = k] /\ got' = <<>>
  /\ phase' = "exposing"
  /\ call' = CASE k = "short" -> "acqNew" [] k = "long" -> "acqClear" [] k = "noclear" -> "none"
  /\ UNCHANGED <<flags, usb, count, pixels, stream, worldVars, spoiled, faults>>

\* The clear and the dummy read after it are synchronous, under SND only.
Clear ==
  /\ call = "acqClear"
  /\ \/ Acquirable({"SND"}) /\ flags' = flags \cup {"SND"} /\ call' = "clear"
     \/ ~Acquirable({"SND"}) /\ call' = "none" /\ UNCHANGED flags
  /\ UNCHANGED <<usb, count, pixels, frame, stream, phase, got, worldVars, spoiled, faults>>

\* The dummy read got its answer, or the camera did not take the commands.
ClearDone ==
  /\ call = "clear" /\ call' = "none"
  /\ flags' = flags \ {"SND"}
  /\ UNCHANGED <<usb, count, pixels, frame, stream, phase, got, worldVars, spoiled, faults>>

\* The dummy read is queued on the pipe of a download that goes on.  It takes
\* the packet after the transfer under way, or gives up, and then its answer
\* comes behind the rows.
ClearDuringDownload ==
  /\ call = "clear" /\ call' = "none"
  /\ plugged /\ (stream # <<>> \/ usb.rcv > 0)
  /\ \/ stream' = Append(stream, Answer)
     \/ /\ Len(stream) > usb.rcv
        /\ stream' = SubSeq(stream, 1, usb.rcv) \o SubSeq(stream, usb.rcv + 2, Len(stream))
                       \o <<Answer>>
  /\ flags' = flags \ {"SND"} /\ spoiled' = TRUE
  /\ UNCHANGED <<usb, count, pixels, frame, phase, got, worldVars, faults>>

sx_latch_frame ==
  /\ phase = "exposing" /\ Idle
  /\ phase' = "latched"
  /\ call' = IF frame.kind = "short" THEN "none" ELSE "acqLatch"
  /\ UNCHANGED <<flags, usb, count, pixels, frame, stream, got, worldVars, spoiled, faults>>

\* Nothing is left of an earlier frame, in the driver or in the camera.
Clean == usb.rcv = 0 /\ stream = <<>> /\ "RCV_ERR" \notin flags

\* Mutant of ReadCommand: the rows read so far are not forgotten.
ReadCommandOn ==
  /\ call \in {"acqNew", "acqLatch"} /\ call' = "none"
  /\ Acquirable({"SND", "RCV"}) /\ flags' = flags \cup {"SND", "RCV"}
  /\ count' = [rcved |-> count.rcved, remaining |-> Size, offset |-> 0,
               length |-> Least(Bulk, Size)]
  /\ \/ usb' = [usb EXCEPT !.snd = plugged] /\ spoiled' = (spoiled /\ ~Clean) /\ UNCHANGED faults
     \/ Fault /\ UNCHANGED usb
  /\ frame' = [frame EXCEPT !.asked = frame.number]
  /\ UNCHANGED <<pixels, stream, phase, got, worldVars>>

\* The read command is sent, from new_frame or from latch_frame.  Nobody looks
\* at the result of usb_submit_urb.
ReadCommand ==
  /\ call \in {"acqNew", "acqLatch"} /\ call' = "none"
  /\ Acquirable({"SND", "RCV"}) /\ flags' = flags \cup {"SND", "RCV"}
  /\ count' = [rcved |-> 0, remaining |-> Size, offset |-> 0, length |-> Least(Bulk, Size)]
  /\ \/ usb' = [usb EXCEPT !.snd = plugged] /\ spoiled' = (spoiled /\ ~Clean) /\ UNCHANGED faults
     \/ Fault /\ UNCHANGED usb
  /\ frame' = [frame EXCEPT !.asked = frame.number]
  /\ UNCHANGED <<pixels, stream, phase, got, worldVars>>

\* Half a second was not enough, or the camera is gone: the frame is not read.
NoReadCommand ==
  /\ call \in {"acqNew", "acqLatch"} /\ ~Acquirable({"SND", "RCV"})
  /\ call' = "none" /\ spoiled' = TRUE
  /\ UNCHANGED <<flags, usb, count, pixels, frame, stream, phase, got, worldVars, faults>>

-----------------------------------------------------------------------------
(* Reading.                                                                  *)

\* sx_read_row, for the next row.  Beyond the end the first row is returned.
sx_read_row ==
  /\ phase = "latched" /\ Idle /\ Len(got) < Size
  /\ \/ count.offset + 1 > count.rcved + count.remaining
        /\ got' = Append(got, pixels[1]) /\ UNCHANGED call
     \/ count.offset + 1 <= count.rcved + count.remaining /\ call' = "wait" /\ UNCHANGED got
  /\ UNCHANGED <<flags, usb, count, pixels, frame, stream, phase, worldVars, spoiled, faults>>

Row == count.offset + 1

\* The row at the offset in pixel_buf, which a removal has freed and made NULL.
Deliver ==
  /\ count' = [count EXCEPT !.offset = @ + 1]
  /\ \/ ~freed /\ got' = Append(got, pixels[Row]) /\ call' = "none"
     \/ freed /\ call' = "oops" /\ UNCHANGED got

\* The row is there, or the camera is gone.  After an error, first a reset,
\* through usbdev, which a removal made NULL as well.
Wake ==
  /\ call = "wait" /\ (Row <= count.rcved \/ "CONNECTED" \notin flags)
  /\ \/ /\ "RCV_ERR" \in flags /\ call' = IF freed THEN "oops" ELSE "recover"
        /\ UNCHANGED <<got, count>>
     \/ "RCV_ERR" \notin flags /\ Deliver
  /\ UNCHANGED <<flags, usb, pixels, frame, stream, phase, worldVars, spoiled, faults>>

\* A signal ends the wait, and the row is delivered all the same.
Interrupted ==
  /\ call = "wait" /\ "RCV_ERR" \notin flags /\ Fault
  /\ Deliver
  /\ UNCHANGED <<flags, usb, pixels, frame, stream, phase, worldVars>>

\* The reset command, which the camera obeys by forgetting what it had to send.
Recover ==
  /\ call = "recover"
  /\ flags' = flags \ {"RCV_ERR"} /\ stream' = <<>>
  /\ Deliver
  /\ UNCHANGED <<usb, pixels, frame, phase, worldVars, spoiled, faults>>

\* sx_end_read.
EndRead ==
  /\ count' = [count EXCEPT !.remaining = 0] /\ phase' = "opened"

sx_end_read ==
  /\ phase = "latched" /\ Idle /\ Len(got) = Size
  /\ EndRead /\ flags' = flags \ {"RCV"}
  /\ UNCHANGED <<usb, pixels, frame, stream, call, got, worldVars, spoiled, faults>>

\* abort_exposures before the first row was read only forgets the exposure; ...
Abort ==
  /\ Idle /\ (phase = "exposing" \/ (phase = "latched" /\ got = <<>>))
  /\ phase' = "opened"
  /\ UNCHANGED <<flags, usb, count, pixels, frame, stream, call, got, worldVars, spoiled, faults>>

\* ... in the middle of the image it calls sx_control(RESET) and then end_read.
AbortRead ==
  /\ phase = "latched" /\ Idle /\ Len(got) \in 1..Size - 1
  /\ call' = "acqCtrl"
  /\ UNCHANGED <<flags, usb, count, pixels, frame, stream, phase, got, worldVars, spoiled, faults>>

sx_control ==
  /\ call = "acqCtrl" /\ Acquirable({"CTRL"})
  /\ flags' = flags \cup {"CTRL"} /\ call' = "reset"
  /\ UNCHANGED <<usb, count, pixels, frame, stream, phase, got, worldVars, spoiled, faults>>

\* Without the flag sx_control does nothing.
NoControl ==
  /\ call = "acqCtrl" /\ ~Acquirable({"CTRL"})
  /\ call' = "none" /\ spoiled' = TRUE
  /\ EndRead /\ flags' = flags \ {"RCV"}
  /\ UNCHANGED <<usb, pixels, frame, stream, got, worldVars, faults>>

\* Mutant of ResetDone: the removal of the camera does not end the wait.
ResetDoneConnected == flags \cap {"RCV", "SND"} = {}

\* sx_reset only waits for what is under way.
ResetDone == "CONNECTED" \notin flags \/ flags \cap {"RCV", "SND"} = {}

sx_reset ==
  /\ call = "reset" /\ ResetDone
  /\ call' = "none"
  /\ EndRead /\ flags' = flags \ {"CTRL", "RCV"}
  /\ UNCHANGED <<usb, pixels, frame, stream, got, worldVars, spoiled, faults>>

-----------------------------------------------------------------------------
(* Closing.                                                                  *)

\* ccd_close aborts the exposures first.
CloseBegin ==
  /\ phase = "opened" /\ Idle /\ call' = "acqClose"
  /\ UNCHANGED <<flags, usb, count, pixels, frame, stream, phase, got, worldVars, spoiled, faults>>

sx_close ==
  /\ call = "acqClose"
  /\ \/ /\ Acquirable({"SND", "RCV"})
        /\ flags' = flags \ {"OPEN"} /\ phase' = "closed" /\ call' = "none"
     \/ /\ ~Acquirable({"SND", "RCV"})
        /\ call' = "forced" /\ UNCHANGED <<flags, phase>>
  /\ UNCHANGED <<usb, count, pixels, frame, stream, got, worldVars, spoiled, faults>>

\* A forced close waits for what is under way, and frees all: the URBs a second
\* time, when a removal overtook the close.
ForcedClose ==
  /\ call = "forced" /\ ResetDone
  /\ flags' = flags \ {"CONNECTED", "SND", "RCV", "OPEN"}
  /\ freed' = TRUE /\ phase' = "closed" /\ call' = IF freed THEN "oops" ELSE "none"
  /\ UNCHANGED <<usb, count, pixels, frame, stream, got, poll, plugged, spoiled, faults>>

-----------------------------------------------------------------------------
(* The completion handlers.                                                  *)

\* usb_submit_urb(rcv_urb): refused while it is in flight or the camera gone.
Submitted(length) == IF usb.rcv = 0 /\ plugged THEN length ELSE usb.rcv

\* The command was sent, or it failed, which the handler does not look at.
sx_usb_snd_complete ==
  /\ usb.snd
  /\ flags' = flags \ {"SND"}
  /\ usb' = [snd |-> FALSE,
             rcv |-> IF {"RCV", "CONNECTED"} \subseteq flags THEN Submitted(count.length)
                     ELSE usb.rcv]
  /\ \/ plugged /\ stream' = stream \o [i \in 1..Size |-> <<frame.asked, i>>] /\ NoFault
     \/ plugged /\ Fault /\ UNCHANGED stream
     \/ ~plugged /\ UNCHANGED stream /\ NoFault
  /\ UNCHANGED <<count, pixels, classVars, worldVars>>

\* The rest of the handler: ask for more, or be done.
NextTransfer(remaining) ==
  /\ count' = [count EXCEPT !.rcved = @ + count.remaining - remaining, !.remaining = remaining,
                            !.length = IF remaining > 0 THEN Least(Bulk, remaining) ELSE @]
  /\ usb' = [usb EXCEPT !.rcv = IF plugged THEN Least(Bulk, remaining) ELSE 0]

Expected == usb.rcv = count.length /\ count.remaining > 0 /\ {"RCV", "CONNECTED"} \subseteq flags

\* The transfer under way gets as many rows as it asks for.
Whole ==
  usb.rcv > 0 /\ Len(stream) >= usb.rcv /\ \A i \in 1..usb.rcv : stream[i] # Answer

\* Mutant of sx_usb_rcv_complete: each transfer is stored at the start.
rcv_complete_start ==
  /\ plugged /\ Whole
  /\ stream' = SubSeq(stream, usb.rcv + 1, Len(stream))
  /\ \/ /\ Expected
        /\ pixels' = [i \in 1..Size |-> IF i \in 1..usb.rcv THEN stream[i] ELSE pixels[i]]
        /\ NextTransfer(count.remaining - usb.rcv)
        /\ flags' = IF count.remaining = usb.rcv THEN flags \ {"RCV"} ELSE flags
     \/ /\ ~Expected
        /\ NextTransfer(0)
        /\ flags' = (flags \ {"RCV"}) \cup (IF usb.rcv # count.length THEN {"RCV_ERR"} ELSE {})
        /\ UNCHANGED pixels
  /\ NoFault /\ UNCHANGED <<classVars, worldVars>>

\* As many rows as were asked for.
sx_usb_rcv_complete ==
  /\ plugged /\ Whole
  /\ stream' = SubSeq(stream, usb.rcv + 1, Len(stream))
  /\ \/ /\ Expected
        /\ pixels' = [i \in 1..Size |-> IF i - count.rcved \in 1..usb.rcv
                                        THEN stream[i - count.rcved] ELSE pixels[i]]
        /\ NextTransfer(count.remaining - usb.rcv)
        /\ flags' = IF count.remaining = usb.rcv THEN flags \ {"RCV"} ELSE flags
     \/ /\ ~Expected
        /\ NextTransfer(0)
        /\ flags' = (flags \ {"RCV"}) \cup (IF usb.rcv # count.length THEN {"RCV_ERR"} ELSE {})
        /\ UNCHANGED pixels
  /\ NoFault /\ UNCHANGED <<classVars, worldVars>>

\* A packet that is not full ends the transfer: the answer to a dummy read.
ReceiveShort ==
  /\ plugged
  /\ \E n \in 1..usb.rcv :
       /\ n <= Len(stream) /\ stream[n] = Answer /\ \A i \in 1..n - 1 : stream[i] # Answer
       /\ stream' = SubSeq(stream, n + 1, Len(stream))
  /\ NextTransfer(0)
  /\ flags' = (flags \ {"RCV"}) \cup {"RCV_ERR"}
  /\ NoFault /\ UNCHANGED <<pixels, classVars, worldVars>>

\* Fewer rows, by an error or because the camera is gone: the missing ones
\* count as received.
ReceiveError ==
  /\ usb.rcv > 0
  /\ \/ plugged /\ Fault
     \/ ~plugged /\ NoFault
  /\ NextTransfer(0)
  /\ flags' = (flags \ {"RCV"}) \cup {"RCV_ERR"}
  /\ UNCHANGED <<pixels, stream, classVars, worldVars>>

-----------------------------------------------------------------------------
(* The poll of the serial ports, and the camera's plug.                      *)

sx_tty_check_input ==
  /\ ~poll /\ ~freed /\ "RCV" \notin flags /\ "CTRL" \notin flags /\ "CONNECTED" \in flags
  /\ flags' = flags \cup {"CTRL"} /\ poll' = TRUE
  /\ UNCHANGED <<usb, count, pixels, classVars, stream, plugged, freed, spoiled, faults>>

PollDone ==
  /\ poll /\ poll' = FALSE
  /\ flags' = flags \ {"CTRL"}
  /\ UNCHANGED <<usb, count, pixels, classVars, stream, plugged, freed, spoiled, faults>>

Unplug ==
  /\ plugged /\ plugged' = FALSE /\ stream' = <<>>
  /\ UNCHANGED <<flags, usb, count, pixels, classVars, poll, freed, spoiled, faults>>

\* Mutant of sx_usb_disconnect: whether the camera is in use is not tested.
sx_usb_disconnect_now ==
  /\ ~plugged /\ "CONNECTED" \in flags /\ ~usb.snd /\ usb.rcv = 0
  /\ flags' = flags \ {"CONNECTED", "OPEN"} /\ freed' = TRUE
  /\ UNCHANGED <<usb, count, pixels, classVars, stream, poll, plugged, spoiled, faults>>

\* The USB core completes the URBs first.  A camera in use is freed later, by
\* the close; one that is not is closed by the class driver's unregister.
sx_usb_disconnect ==
  /\ ~plugged /\ "CONNECTED" \in flags /\ ~usb.snd /\ usb.rcv = 0
  /\ freed' = (flags \cap {"SND", "RCV", "CTRL"} = {})
  /\ flags' = flags \ (IF freed' THEN {"CONNECTED", "OPEN"} ELSE {"CONNECTED"})
  /\ UNCHANGED <<usb, count, pixels, classVars, stream, poll, plugged, spoiled, faults>>

ClassStep ==
  \/ Clear \/ ClearDone \/ ClearDuringDownload \/ ReadCommand \/ NoReadCommand \/ Wake \/ Recover
  \/ sx_control \/ NoControl \/ sx_reset \/ sx_close \/ ForcedClose

Handlers == sx_usb_snd_complete \/ sx_usb_rcv_complete \/ ReceiveShort \/ (~plugged /\ ReceiveError)

Next ==
  \/ sx_open \/ \E k \in Kinds : sx_new_frame(k)
  \/ sx_latch_frame \/ sx_read_row \/ sx_end_read \/ Abort \/ AbortRead \/ CloseBegin
  \/ ClassStep \/ Interrupted
  \/ sx_usb_snd_complete \/ sx_usb_rcv_complete \/ ReceiveShort \/ ReceiveError
  \/ sx_tty_check_input \/ PollDone \/ Unplug \/ sx_usb_disconnect

(* The calls run, the camera answers as long as it has rows to send, a       *)
(* transfer of the poll ends, and the USB core reports a removal.            *)
Fairness == WF_vars(ClassStep) /\ WF_vars(Handlers) /\ WF_vars(PollDone) /\ WF_vars(sx_usb_disconnect)

Spec == Init /\ [][Next]_vars /\ Fairness

-----------------------------------------------------------------------------
(* Properties.                                                               *)

(* Every row that the class driver reads is that row of the frame it asked   *)
(* for, whatever was aborted before: unless a fault touched this frame, or   *)
(* one before it that left something behind, or the chip was cleared while   *)
(* an aborted frame was still coming (sx_read_pixels and the handlers share  *)
(* the counters and the buffer without a lock, sx_new_frame the pipe).       *)
RowsOfFrame ==
  ~spoiled /\ plugged => \A i \in 1..Len(got) : got[i] = <<frame.number, i>>

(* The buffers and URBs are not freed, by a removal or by a forced close,    *)
(* while pixels or a command are on their way (with the same exceptions) or  *)
(* a reset waits for them (SX_STATE_BUSY in sx_usb_disconnect, sx_reset in   *)
(* sx_close).  They can be freed under a call that has nothing on its way: a *)
(* reader that the removal has woken, a close that it overtook.  Then, but   *)
(* never while the camera is there, a call uses them again.                  *)
NotFreedInUse ==
  /\ freed /\ ~spoiled => ~usb.snd /\ usb.rcv = 0 /\ call # "clear"
  /\ freed => call # "reset"
  /\ call = "oops" => ~plugged /\ freed

(* Without a fault, and unless the chip was cleared during a download, every *)
(* call of the class driver returns, or ends in a crash because a removal    *)
(* freed what it goes on to use (NotFreedInUse says when that is possible).  *)
CallsReturn == call # "none" ~> call \in {"none", "oops"} \/ spoiled

=============================================================================
