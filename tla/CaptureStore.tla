---------------------------- MODULE CaptureStore ----------------------------
(***************************************************************************)
(* What a capture file promises its readers, whatever the format, the      *)
(* buffering and the failures: it shows the records of one batch, from the *)
(* first, more of them as time goes by, until another batch replaces it.   *)
(***************************************************************************)
EXTENDS Naturals, Sequences

CONSTANT Records   \* what a batch is made of

VARIABLES
  batch,  \* the batch the file is being filled with
  shown   \* the records a reader gets

IsStart(s, t) == \E k \in 0 .. Len(t) : s = SubSeq(t, 1, k)

Init == batch = <<>> /\ shown = <<>>

(* Another batch takes over; nothing of the old one is left.               *)
Replace == batch' \in Seq(Records) /\ IsStart(shown', batch')

Grow == UNCHANGED batch /\ IsStart(shown, shown') /\ IsStart(shown', batch)

Spec == Init /\ [][Replace \/ Grow]_<<batch, shown>>

=============================================================================
