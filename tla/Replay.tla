------------------------------- MODULE Replay -------------------------------
(***************************************************************************)
(* One call of replay() (utils/replay.py): passes over a capture file,     *)
(* sending its packets, while another thread may set stop_event and        *)
(* another program may rewrite the file.                                   *)
(*                                                                         *)
(*   while   the test of the while loop                                    *)
(*   open    the reader of this pass is opened (first step of the for)     *)
(*   load    the PCAP or LBN reader is reading the file (still that step)  *)
(*   next    the for loop asks the reader for a packet                     *)
(*   test    a packet in hand: stop_event, then count                      *)
(*   send    on_packet() and sendl2()                                      *)
(*   sleep   time.sleep(), however short                                   *)
(***************************************************************************)
EXTENDS Integers, Sequences

CONSTANTS
  Files,     \* the contents the capture file may have
  Loops,     \* the values of `loop` callers pass
  Counts,    \* the values of `count` callers pass
  MaxPass,   \* pass_num is counted up to here (bound; only `loop` reads it)
  MaxSent,   \* sent is counted up to here (bound)
  Rewrites,  \* how often the file is rewritten during the call (bound)
  Faults     \* what may raise: "callback", "send"

(* fmt: what the magic number says; "pcap-be" is a big-endian nanosecond   *)
(* pcap, which the reader knows and detect_file_type() does not.  n: whole *)
(* packets in the file.  hurt: "head", it cannot be opened; "tail", it is  *)
(* cut inside the record after the n-th.                                   *)
FileType ==
  [fmt : {"pcap", "pcap-be", "lightbin", "pcapng", "other"},
   n : Nat, hurt : {"no", "head", "tail"}]

ASSUME ReplayAssumption ==
  /\ Files \subseteq FileType
  /\ Loops \subseteq Nat /\ Counts \subseteq Nat
  /\ MaxPass \in Nat /\ \A l \in Loops : l <= MaxPass
  /\ MaxSent \in Nat /\ Rewrites \in Nat

VARIABLES
  file,     \* the file as it is now
  version,  \* how often it has been rewritten
  kind,     \* file_type: what detect_file_type() said before the first pass
  loop, count,
  watched,  \* a stop_event was passed
  stop,     \* it is set
  pc,
  pass,     \* pass_num
  sent,
  left,     \* packets the reader of this pass has read or buffered, and has
            \* yet to hand out
  todo,     \* what it will make of the rest of the file, as that is now
  ending,   \* what the reader does after them: "end" or "raise"
  opened,   \* history: the file when this pass opened it, with its version
  mixed,    \* history: it was rewritten while this pass was reading it
  out,      \* history: packets sent in this pass
  late      \* history: packets sent after stop_event was set

argVars == <<kind, loop, count, watched>>
readVars == <<left, todo, ending, opened, mixed>>
vars == <<file, version, argVars, stop, pc, pass, sent, readVars, out, late>>

Over == pc \in {"returned", "raised"}
Running == pc \notin {"out", "returned", "raised"}

(* A packet is known by the version of the file it is in and its place.  A *)
(* torn one is made of bytes that were no record of any version.           *)
Packets(f, v) == [i \in 1 .. f.n |-> <<v, i>>]
Torn(v) == <<v, 0>>

Least(a, b) == IF a <= b THEN a ELSE b

-----------------------------------------------------------------------------
(* detect_file_type(): a missing or unreadable file is "unknown" too.      *)
Detect(f) == IF f.fmt \in {"pcap", "lightbin", "pcapng"} THEN f.fmt ELSE "unknown"

(* What the reader of _iter_packets(k) makes of the file f.  The pcap      *)
(* reader, which serves unknown files as well, never complains.            *)
Readable(k, f) ==
  /\ f.hurt # "head"
  /\ IF k \in {"pcap", "unknown"} THEN f.fmt \in {"pcap", "pcap-be"} ELSE f.fmt = k

OpenRaises(k, f) == k \in {"lightbin", "pcapng"} /\ ~Readable(k, f)

Yield(k, f) == IF Readable(k, f) THEN f.n ELSE 0

EndOf(k, f) == IF k = "pcapng" /\ f.hurt = "tail" THEN "raise" ELSE "end"

Init ==
  /\ file \in Files
  /\ version = 0
  /\ loop \in Loops /\ count \in Counts
  /\ watched \in BOOLEAN /\ stop = FALSE
  /\ kind = "unknown"
  /\ pc = "out"
  /\ pass = 0 /\ sent = 0
  /\ left = <<>> /\ todo = <<>> /\ ending = "end"
  /\ opened = [file |-> file, version |-> 0] /\ mixed = FALSE
  /\ out = <<>> /\ late = 0

Goto(from, to) == pc = from /\ pc' = to

Call ==
  /\ Goto("out", "while")
  /\ kind' = Detect(file)
  /\ UNCHANGED <<file, version, loop, count, watched, stop, pass, sent,
                 readVars, out, late>>

(* Mutants of While: pass_num is never advanced; one pass too many.        *)
WhileForgets ==
  /\ Goto("while", IF loop = 0 \/ pass < loop THEN "open" ELSE "returned")
  /\ UNCHANGED <<file, version, argVars, stop, pass, sent, readVars, out, late>>

WhileOneMore ==
  /\ Goto("while", IF loop = 0 \/ pass <= loop THEN "open" ELSE "returned")
  /\ pass' = IF loop = 0 \/ pass <= loop THEN Least(pass + 1, MaxPass + 1) ELSE pass
  /\ UNCHANGED <<file, version, argVars, stop, sent, readVars, out, late>>

While ==
  /\ \/ /\ loop = 0 \/ pass < loop
        /\ Goto("while", "open")
        /\ pass' = Least(pass + 1, MaxPass)
     \/ /\ loop # 0 /\ pass >= loop
        /\ Goto("while", "returned")
        /\ UNCHANGED pass
  /\ UNCHANGED <<file, version, argVars, stop, sent, readVars, out, late>>

(* The file is opened again for every pass, as the kind found at first.    *)
(* A PCAP or LBN file is read to its end before the first packet is handed *)
(* out, a PCAPNG file as the pass goes on.                                 *)
OpenReader ==
  /\ IF OpenRaises(kind, file)
     THEN Goto("open", "raised") /\ UNCHANGED <<todo, ending>>
     ELSE /\ Goto("open", IF kind = "pcapng" THEN "next" ELSE "load")
          /\ todo' = SubSeq(Packets(file, version), 1, Yield(kind, file))
          /\ ending' = EndOf(kind, file)
  /\ left' = <<>>
  /\ opened' = [file |-> file, version |-> version] /\ mixed' = FALSE
  /\ out' = <<>>
  /\ UNCHANGED <<file, version, argVars, stop, pass, sent, late>>

(* stdio reads some more of the file: the whole records in that chunk.     *)
Fill ==
  \E n \in 1 .. Len(todo) :
    /\ left' = left \o SubSeq(todo, 1, n)
    /\ todo' = SubSeq(todo, n + 1, Len(todo))

(* Mutant of Load: the reader stops at the end of the first chunk.         *)
LoadOneChunk ==
  /\ Goto("load", "next")
  /\ \E n \in 0 .. Len(todo) :
       /\ todo # <<>> => n > 0
       /\ left' = SubSeq(todo, 1, n)
  /\ todo' = <<>>
  /\ UNCHANGED <<file, version, argVars, stop, pass, sent, ending, opened,
                 mixed, out, late>>

(* The loops of read_pcap_file() and lbn_load().                           *)
Load ==
  /\ pc = "load"
  /\ \/ Fill /\ UNCHANGED pc
     \/ /\ todo = <<>>
        /\ pc' = IF ending = "end" THEN "next" ELSE "raised"
        /\ UNCHANGED <<left, todo>>
  /\ UNCHANGED <<file, version, argVars, stop, pass, sent, ending, opened,
                 mixed, out, late>>

(* Only a PCAPNG reader still has something to read here.                  *)
NextPacket ==
  /\ \/ left # <<>> /\ Goto("next", "test") /\ UNCHANGED <<left, todo>>
     \/ left = <<>> /\ pc = "next" /\ Fill /\ UNCHANGED pc
     \/ /\ left = <<>> /\ todo = <<>>
        /\ Goto("next", IF ending = "end" THEN "while" ELSE "raised")
        /\ UNCHANGED <<left, todo>>
  /\ UNCHANGED <<file, version, argVars, stop, pass, sent, ending, opened,
                 mixed, out, late>>

(* Mutants of Test: the event is looked at only between passes; the count  *)
(* is off by one.                                                          *)
TestNoStop ==
  /\ Goto("test", IF count # 0 /\ Len(out) >= count THEN "while" ELSE "send")
  /\ UNCHANGED <<file, version, argVars, stop, pass, sent, readVars, out, late>>

TestCountPassed ==
  /\ Goto("test", IF stop THEN "returned"
                  ELSE IF count # 0 /\ Len(out) > count THEN "while" ELSE "send")
  /\ UNCHANGED <<file, version, argVars, stop, pass, sent, readVars, out, late>>

(* The index enumerate() gives is the number of packets sent in the pass.  *)
Test ==
  /\ Goto("test", IF stop THEN "returned"
                  ELSE IF count # 0 /\ Len(out) >= count THEN "while" ELSE "send")
  /\ UNCHANGED <<file, version, argVars, stop, pass, sent, readVars, out, late>>

Send ==
  /\ Goto("send", "sleep")
  /\ sent' = Least(sent + 1, MaxSent)
  /\ out' = Append(out, Head(left))
  /\ left' = Tail(left)
  /\ late' = IF stop THEN Least(late + 1, MaxSent) ELSE late
  /\ UNCHANGED <<file, version, argVars, stop, pass, todo, ending, opened, mixed>>

(* on_packet() or sendl2() raises: replay() does not catch it.             *)
SendRaises ==
  /\ Faults # {}
  /\ Goto("send", "raised")
  /\ UNCHANGED <<file, version, argVars, stop, pass, sent, readVars, out, late>>

Wake ==
  /\ Goto("sleep", "next")
  /\ UNCHANGED <<file, version, argVars, stop, pass, sent, readVars, out, late>>

Step ==
  \/ While \/ OpenReader \/ Load \/ NextPacket \/ Test \/ Send \/ Wake

-----------------------------------------------------------------------------
SetStop ==
  /\ watched /\ ~stop /\ Running
  /\ stop' = TRUE
  /\ UNCHANGED <<file, version, argVars, pc, pass, sent, readVars, out, late>>

(* The reader of this pass has not seen the end of the file.               *)
Reading ==
  \/ pc = "load"
  \/ kind = "pcapng" /\ pc \in {"next", "test", "send", "sleep"}

(* What a reader that goes on at its old offset makes of the new contents: *)
(* maybe something that never was a packet, then, if it can read the new   *)
(* format, packets that come after it, until the reader gives up (at the   *)
(* size or the count it took from the old file, or at a bad length).       *)
Leftovers(f, v) ==
  LET n == Yield(kind, [f EXCEPT !.hurt = "no"])
      Runs == {SubSeq(Packets(f, v), from, to) : from \in 1 .. n + 1, to \in 0 .. n}
  IN  Runs \cup {<<Torn(v)>> \o r : r \in Runs}

(* Another program rewrites the file in place.  The reader keeps what it   *)
(* has; the PCAP reader drops even that when a record's data is cut short, *)
(* and the LBN reader raises if it had not read the header yet.            *)
Rewrite ==
  /\ version < Rewrites /\ Running
  /\ \E f \in Files :
       /\ file' = f
       /\ version' = version + 1
       /\ \/ /\ Reading
             /\ todo' \in Leftovers(f, version')
             /\ ending' \in {"end"} \cup
                          (IF kind \in {"lightbin", "pcapng"} THEN {"raise"} ELSE {})
             /\ UNCHANGED left
          \/ /\ Reading /\ kind \in {"pcap", "unknown"}
             /\ left' = <<>> /\ todo' = <<>>
             /\ UNCHANGED ending
          \/ ~Reading /\ UNCHANGED <<left, todo, ending>>
  /\ mixed' = (mixed \/ Reading)
  /\ UNCHANGED <<argVars, stop, pc, pass, sent, opened, out, late>>

Next == Call \/ Step \/ SendRaises \/ SetStop \/ Rewrite

Spec == Init /\ [][Next]_vars

(* replay() runs: it is one thread that only ever waits in time.sleep().   *)
FairSpec == Spec /\ WF_vars(Step)

-----------------------------------------------------------------------------
PCs == {"out", "while", "open", "load", "next", "test", "send", "sleep",
        "returned", "raised"}

TypeOK ==
  /\ file \in Files /\ version \in 0 .. Rewrites
  /\ kind \in {"pcap", "lightbin", "pcapng", "unknown"}
  /\ loop \in Loops /\ count \in Counts
  /\ watched \in BOOLEAN /\ stop \in BOOLEAN
  /\ pc \in PCs
  /\ pass \in 0 .. MaxPass /\ sent \in 0 .. MaxSent
  /\ left \in Seq(Nat \X Nat) /\ todo \in Seq(Nat \X Nat) /\ ending \in {"end", "raise"}
  /\ opened \in [file : Files, version : 0 .. Rewrites]
  /\ mixed \in BOOLEAN
  /\ out \in Seq(Nat \X Nat) /\ late \in 0 .. MaxSent

(* How many packets of the file f a whole pass sends.                      *)
Share(f) == IF count = 0 THEN Yield(kind, f) ELSE Least(count, Yield(kind, f))

(* PassFaithful: a pass never sends more than `count` packets, and sends   *)
(* those the file had when the pass opened it, from the first, in order,   *)
(* all of them (or `count`) when it ends, unless the file was rewritten    *)
(* while the pass was reading it.  A PCAP or LBN file is read to its end   *)
(* before the first packet is sent: a rewrite from then on, however often  *)
(* and with whatever contents, does not touch the pass; nor does what was  *)
(* left of an earlier pass.                                                *)
PassFaithful ==
  Running /\ pc \notin {"open", "load"} /\ pass > 0 =>
    /\ count # 0 => Len(out) <= count
    /\ ~mixed =>
         /\ Len(out) <= Share(opened.file)
         /\ \A i \in DOMAIN out : out[i] = <<opened.version, i>>
         /\ pc = "while" => Len(out) = Share(opened.file)

(* TotalSent: replay() that returns without having been stopped has made   *)
(* `loop` whole passes, and its result counts every packet of them.        *)
TotalSent ==
  pc = "returned" /\ ~stop /\ version = 0 => sent = loop * Share(file)

(* LateSend: at most one packet is sent after stop_event is set, the one   *)
(* already past the test at line 58, however many passes were left.        *)
LateSend == late <= 1

(* Ends: with loop > 0 replay() comes to an end, stopped or not.           *)
Ends == (Running /\ loop > 0) ~> Over

(* StopSeen: a replay() that is stopped ends, unless the file it keeps     *)
(* opening holds no packet: stop_event is only looked at with one in hand. *)
StopSeen == (Running /\ stop) ~> (Over \/ Yield(kind, file) = 0)

(* StopHonoured: "replay stops as soon as stop_event.is_set() returns      *)
(* True" (utils/replay.py:44-45), read as: it does stop.                   *)
StopHonoured == (Running /\ stop) ~> Over

=============================================================================
