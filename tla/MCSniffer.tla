----------------------------- MODULE MCSniffer -----------------------------
(* Instances of Sniffer for TLC. *)
EXTENDS Sniffer, TLC

CONSTANT f1   \* the one filter program

(* f1 accepts every frame but the second. *)
MCAccepts == [f \in {f1} |-> (1 .. MaxFrames) \ {2}]

SockSymmetry == Permutations(Socks)
Symmetry == Permutations(Socks) \cup Permutations(Threads)

(* The sole thread's view, as the abstract capture. *)
Owner == CHOOSE t \in Threads : TRUE

Feed == INSTANCE PacketFeed WITH
  heard <- wire,
  out   <- got[Owner],
  phase <- IF ~stop THEN "running"
           ELSE IF late[Owner] = 0 THEN "stopping" ELSE "stopped",
  Limit <- Count,
  Wanted <- {p \in 1 .. MaxFrames : Passes(Program, p)}

(* ImplementsFeed: a Sniffer with one owner whose filter is installed by   *)
(* every _open() is an implementation of PacketFeed.                       *)
ImplementsFeed == Feed!FeedSpec

=============================================================================
