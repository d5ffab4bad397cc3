---------------------------- MODULE FileTransfer ----------------------------
(* What a transfer of a batch of files promises: the receiver gets the files *)
(* whole, once each and in order; it ends well only when it has them all, and *)
(* the sender only when the receiver did.  Either may fail.                  *)
EXTENDS Naturals, Sequences

CONSTANT Files   \* the batch: a sequence of files, each a sequence of data

VARIABLES got,       \* the files that are complete on the receiver's disk
          sender,    \* how far each of them is
          receiver

vars == <<got, sender, receiver>>

Outcomes == {"active", "done", "failed"}

Init == got = <<>> /\ sender = "active" /\ receiver = "active"

Deliver ==
  /\ receiver = "active" /\ Len(got) < Len(Files)
  /\ got' = Append(got, Files[Len(got) + 1])
  /\ UNCHANGED <<sender, receiver>>

ReceiverDone ==
  /\ receiver = "active" /\ got = Files
  /\ receiver' = "done"
  /\ UNCHANGED <<got, sender>>

SenderDone ==
  /\ sender = "active" /\ receiver = "done"
  /\ sender' = "done"
  /\ UNCHANGED <<got, receiver>>

SenderFails == sender = "active" /\ sender' = "failed" /\ UNCHANGED <<got, receiver>>
ReceiverFails == receiver = "active" /\ receiver' = "failed" /\ UNCHANGED <<got, sender>>

Next == Deliver \/ ReceiverDone \/ SenderDone \/ SenderFails \/ ReceiverFails

Spec == Init /\ [][Next]_vars
=============================================================================
