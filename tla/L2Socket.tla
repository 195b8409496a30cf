------------------------------ MODULE L2Socket ------------------------------
(***************************************************************************)
(* A live capture socket (Layers/L2SocketL.py; Layers/L2Socket.py is its   *)
(* Windows twin): a Python object that owns one libpcap handle.            *)
(*                                                                         *)
(* Frames are numbered in the order in which the interface hears them, so  *)
(* a capture ring is the SET of the frames still in it and the oldest is   *)
(* the least.  libpcap itself is external.  Calls that release the         *)
(* interpreter lock are separate operators so that a thread can be between *)
(* two of them.                                                            *)
(***************************************************************************)
EXTENDS Integers, FiniteSets

CONSTANTS
  Socks,      \* L2Socket objects, each constructed at most once (bound)
  MaxFrames,  \* frames the interface hears in a behaviour (bound)
  RingSize,   \* frames libpcap buffers for one handle before it drops
  Programs,   \* filter strings that are ever compiled
  Accepts,    \* [Programs -> SUBSET Frames]: what each program lets through
  NoProgram,  \* no filter installed: every frame passes
  NoSock      \* the Python value None where a socket is expected

Frames == 1 .. MaxFrames

ASSUME SocketAssumption ==
  /\ MaxFrames \in Nat
  /\ RingSize \in Nat
  /\ NoProgram \notin Programs
  /\ NoSock \notin Socks
  /\ Accepts \in [Programs -> SUBSET Frames]

VARIABLES
  handle,   \* handle[s]: what became of the pcap handle of s
  program,  \* program[s]: the filter the handle runs
  ring,     \* ring[s]: frames buffered for s
  wire      \* number of frames heard so far

sockVars == <<handle, program, ring, wire>>

(***************************************************************************)
(* "none": not constructed; "open": activated; "freed": pcap_close() has   *)
(* run but self.pcap still holds the pointer; "closed": self.pcap is None  *)
(* and self.closed is True.                                                *)
(***************************************************************************)
HandleStates == {"none", "open", "freed", "closed"}

SockTypeOK ==
  /\ handle \in [Socks -> HandleStates]
  /\ program \in [Socks -> Programs \cup {NoProgram}]
  /\ ring \in [Socks -> SUBSET Frames]
  /\ wire \in 0 .. MaxFrames

SockInit ==
  /\ handle = [s \in Socks |-> "none"]
  /\ program = [s \in Socks |-> NoProgram]
  /\ ring = [s \in Socks |-> {}]
  /\ wire = 0

Passes(f, p) == f = NoProgram \/ p \in Accepts[f]

-----------------------------------------------------------------------------
(* A frame is heard: every open handle whose program passes it buffers it, *)
(* unless its ring is full.                                                *)
Hear ==
  /\ wire < MaxFrames
  /\ wire' = wire + 1
  /\ ring' = [s \in Socks |->
       IF /\ handle[s] = "open"
          /\ Passes(program[s], wire + 1)
          /\ Cardinality(ring[s]) < RingSize
       THEN ring[s] \cup {wire + 1} ELSE ring[s]]
  /\ UNCHANGED <<handle, program>>

(* L2Socket(...): pcap_create .. pcap_activate succeed. *)
Activate(s) ==
  /\ handle[s] = "none"
  /\ handle' = [handle EXCEPT ![s] = "open"]
  /\ UNCHANGED <<program, ring, wire>>

(* set_filter(f) on an open handle: compiled and installed; frames already *)
(* buffered that f rejects are discarded (libpcap re-filters them).        *)
InstallFilter(s, f) ==
  /\ program' = [program EXCEPT ![s] = f]
  /\ ring' = [ring EXCEPT ![s] = {p \in @ : Passes(f, p)}]
  /\ UNCHANGED <<handle, wire>>

(* pcap_next_ex hands out the oldest buffered frame. *)
Oldest(s, p) == p \in ring[s] /\ \A q \in ring[s] : p <= q

NextEx(s, p) ==
  /\ Oldest(s, p)
  /\ ring' = [ring EXCEPT ![s] = @ \ {p}]
  /\ UNCHANGED <<handle, program, wire>>

(* close(): the library call, then "self.pcap = None; self.closed = True". *)
PcapClose(s) ==
  /\ handle' = [handle EXCEPT ![s] = "freed"]
  /\ ring' = [ring EXCEPT ![s] = {}]
  /\ UNCHANGED <<program, wire>>

MarkClosed(s) ==
  /\ handle' = [handle EXCEPT ![s] = "closed"]
  /\ UNCHANGED <<program, ring, wire>>

=============================================================================
