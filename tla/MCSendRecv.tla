----------------------------- MODULE MCSendRecv -----------------------------
(* Instance of SendRecv for TLC: one socket, two filter programs that      *)
(* disagree on every frame but the last.                                   *)
EXTENDS SendRecv

CONSTANTS f1, f2

MCAccepts == [f \in {f1, f2} |->
  {p \in Frames : p = MaxFrames \/ (p % 2 = 1) = (f = f1)}]

=============================================================================
