------------------------------ MODULE MCReplay ------------------------------
(* Instances of Replay for TLC. *)
EXTENDS Replay

File(fmt, n, hurt) == [fmt |-> fmt, n |-> n, hurt |-> hurt]

(* Every format with two packets and cut short after one, an empty file, a *)
(* file that cannot be opened, and one that is no capture.                 *)
MCFiles ==
  { File(fmt, 2, "no") : fmt \in {"pcap", "pcap-be", "lightbin", "pcapng"} }
  \cup { File(fmt, 1, "tail") : fmt \in {"pcap", "lightbin", "pcapng"} }
  \cup { File("pcap", 0, "no"), File("lightbin", 2, "head"), File("other", 0, "no") }

=============================================================================
