----------------------------- MODULE PacketFeed -----------------------------
(***************************************************************************)
(* What a capture with one owner promises (Sniffer.stream(), whatever the  *)
(* sockets, polls, failures and re-openings underneath): the consumer gets *)
(* wanted frames in the order heard, none twice, never more than Limit,    *)
(* and at most one more once it has asked to stop.  Frames may be missed.  *)
(***************************************************************************)
EXTENDS Integers, Sequences

CONSTANTS
  MaxFrames,  \* frames are numbered as they are heard
  Wanted,     \* the frames the consumer asked for
  Limit       \* 0: no limit

VARIABLES
  heard,  \* number of frames heard so far
  out,    \* frames handed over, in order
  phase   \* "running", "stopping" (stop asked for), "stopped"

feedVars == <<heard, out, phase>>

FeedInit == heard = 0 /\ out = <<>> /\ phase = "running"

HearNext ==
  /\ heard < MaxFrames
  /\ heard' = heard + 1
  /\ UNCHANGED <<out, phase>>

(* A frame heard after everything handed over so far.                      *)
Fresh(p) == \A i \in DOMAIN out : out[i] < p

Deliver(p) ==
  /\ phase # "stopped"
  /\ Limit > 0 => Len(out) < Limit
  /\ p \in Wanted /\ p <= heard /\ Fresh(p)
  /\ out' = Append(out, p)
  /\ phase' = IF phase = "stopping" THEN "stopped" ELSE phase
  /\ UNCHANGED heard

AskStop ==
  /\ phase = "running"
  /\ phase' = "stopping"
  /\ UNCHANGED <<heard, out>>

FeedNext == HearNext \/ AskStop \/ \E p \in 1 .. MaxFrames : Deliver(p)

FeedSpec == FeedInit /\ [][FeedNext]_feedVars

=============================================================================
