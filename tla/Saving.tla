------------------------------- MODULE Saving -------------------------------
(***************************************************************************)
(* A PcapWriteStream or LbnWriteStream (Saving/pcapwriter.py, Saving/      *)
(* lbn.py over lib/pcap_writer.c, lib/lbn.c) saving batches of packets in  *)
(* one file that may be read at any moment (lib/pcap_reader.c, lbn_load),  *)
(* on a disk that may be full, by a process that may die.                  *)
(*                                                                         *)
(* Both libraries write through stdio: what fwrite() accepted waits in     *)
(* `buffer` and reaches the file later, in order.  write() creates the     *)
(* file anew for every batch.  A reading is one step of the readers: it    *)
(* changes nothing here, so it is the set of its possible results.         *)
(***************************************************************************)
EXTENDS Integers, Sequences

CONSTANTS
  Packets,
  Big,        \* packets longer than PCAP_SNAPLEN
  Quarter,    \* packets that zlib shrinks to exactly a quarter
  Garbage,    \* what a reader may make of bytes that are no record
  MaxBatch,   \* packets in a batch (bound)
  MaxWrites,  \* files written (bound)
  Faults      \* of "open", "full", "nomem", "crash"

ASSUME SavingAssumption ==
  /\ Big \subseteq Packets /\ Quarter \subseteq Packets
  /\ Garbage \notin Packets
  /\ MaxBatch \in Nat /\ MaxWrites \in Nat

VARIABLES
  fmt,      \* "pcap" or "lbn": the class of the stream
  comp,     \* LbnWriteStream(compress=...)
  disk,     \* the file, see FileType
  buffer,   \* what stdio holds: Header, then records
  closed,   \* self._closed
  written,  \* self._packets_written
  pc,       \* "idle", "open", "put", "close"
  batch,    \* the packets of the write in progress or the last one
  index,    \* how many of them were given to fwrite()
  answer,   \* of the last write: "none" yet, "true", "empty", "raised"
  writes,   \* number of files written (bound)
  last,     \* history: the records the file was last created for
  lossy     \* history: the disk was full during that write

streamVars == <<closed, written>>
callVars == <<pc, batch, index, answer, writes>>
history == <<last, lossy>>
vars == <<fmt, comp, disk, buffer, streamVars, callVars, history>>

(* A record is a packet, and whether it was cut at PCAP_SNAPLEN.           *)
Records == Packets \X BOOLEAN
Header == <<"header">>
Record(p) == <<p, fmt = "pcap" /\ p \in Big>>
Stored(b) == [i \in DOMAIN b |-> Record(b[i])]

Batches == UNION { [1 .. n -> Packets] : n \in 1 .. MaxBatch }

(* minor and comp: LBN's version and flag.  head: the header is whole.     *)
(* recs: the whole records that follow it; gap: something is lost there,   *)
(* "end" when nothing was written after it, "more" when something was.     *)
FileType ==
  [minor : {0, 1}, comp : BOOLEAN, head : BOOLEAN, recs : Seq(Records),
   gap : {"none", "end", "more"}]

Blank(minor, c) ==
  [minor |-> minor, comp |-> c, head |-> FALSE, recs |-> <<>>, gap |-> "none"]

Init ==
  /\ fmt \in {"pcap", "lbn"}
  /\ comp \in (IF fmt = "pcap" THEN {FALSE} ELSE BOOLEAN)
  /\ disk = Blank(1, FALSE) /\ buffer = <<>>
  /\ closed = FALSE /\ written = 0
  /\ pc = "idle" /\ batch = <<>> /\ index = 0 /\ answer = "none" /\ writes = 0
  /\ last = <<>> /\ lossy = FALSE

Goto(from, to) == pc = from /\ pc' = to

-----------------------------------------------------------------------------
(* The stream                                                              *)

(* A closed stream refuses; an empty list is written without touching the  *)
(* file.                                                                   *)
WriteNothing ==
  /\ pc = "idle"
  /\ answer' = IF closed THEN "raised" ELSE "empty"
  /\ UNCHANGED <<fmt, comp, disk, buffer, streamVars, pc, batch, index, writes,
                 history>>

(* Mutant of Write: the position of the previous batch is kept.            *)
WriteOn(b) ==
  /\ ~closed /\ writes < MaxWrites
  /\ Goto("idle", "open")
  /\ batch' = b /\ answer' = "none" /\ writes' = writes + 1
  /\ UNCHANGED <<fmt, comp, disk, buffer, streamVars, index, history>>

Write(b) ==
  /\ ~closed /\ writes < MaxWrites
  /\ Goto("idle", "open")
  /\ batch' = b /\ index' = 0 /\ answer' = "none" /\ writes' = writes + 1
  /\ UNCHANGED <<fmt, comp, disk, buffer, streamVars, history>>

(* Mutant of OpenFile: fopen(name, "ab").                                  *)
OpenAppend ==
  /\ Goto("open", "put")
  /\ disk' = disk /\ buffer' = <<Header>>
  /\ last' = Stored(batch) /\ lossy' = FALSE
  /\ UNCHANGED <<fmt, comp, streamVars, batch, index, answer, writes>>

(* fopen(name, "wb"): from here the old contents are gone.                 *)
OpenFile ==
  /\ Goto("open", "put")
  /\ disk' = Blank(1, comp) /\ buffer' = <<Header>>
  /\ last' = Stored(batch) /\ lossy' = FALSE
  /\ UNCHANGED <<fmt, comp, streamVars, batch, index, answer, writes>>

OpenFails ==
  /\ "open" \in Faults
  /\ Goto("open", "idle")
  /\ answer' = "raised"
  /\ UNCHANGED <<fmt, comp, disk, buffer, streamVars, batch, index, writes,
                 history>>

Put ==
  /\ pc = "put" /\ index < Len(batch)
  /\ index' = index + 1
  /\ buffer' = Append(buffer, Record(batch[index + 1]))
  /\ UNCHANGED <<fmt, comp, disk, streamVars, pc, batch, answer, writes, history>>

(* LBN, compressing: no memory, or zlib fails.  The file is closed with    *)
(* the records put so far and the time stamp of this one.                  *)
NoMemory ==
  /\ "nomem" \in Faults /\ comp /\ index < Len(batch)
  /\ Goto("put", "close")
  /\ answer' = "raised"
  /\ UNCHANGED <<fmt, comp, disk, buffer, streamVars, batch, index, writes,
                 history>>

AllPut ==
  /\ index = Len(batch)
  /\ Goto("put", "close")
  /\ UNCHANGED <<fmt, comp, disk, buffer, streamVars, batch, index, answer,
                 writes, history>>

(* Mutant of Closed: the call does not wait for the buffer.                *)
ClosedEarly == pc = "close"

(* fclose() is over when the buffer is empty.                              *)
Closed == pc = "close" /\ buffer = <<>>

Return ==
  /\ Closed /\ pc' = "idle"
  /\ IF answer = "raised" THEN UNCHANGED <<answer, written>>
     ELSE answer' = "true" /\ written' = written + Len(batch)
  /\ UNCHANGED <<fmt, comp, disk, buffer, closed, batch, index, writes, history>>

(* close(), and a new stream object for the same file.                     *)
CloseStream ==
  /\ pc = "idle" /\ ~closed
  /\ closed' = TRUE
  /\ UNCHANGED <<fmt, comp, disk, buffer, written, callVars, history>>

NewStream ==
  /\ pc = "idle" /\ closed
  /\ closed' = FALSE /\ written' = 0 /\ answer' = "none"
  /\ UNCHANGED <<fmt, comp, disk, buffer, pc, batch, index, writes, history>>

-----------------------------------------------------------------------------
(* The file                                                                *)

(* The file once x has followed what is in it.                             *)
Land(x) ==
  CASE disk.gap # "none" -> [disk EXCEPT !.gap = "more"]
    [] disk.gap = "none" /\ x = Header -> [disk EXCEPT !.head = TRUE]
    [] OTHER -> [disk EXCEPT !.recs = Append(@, x)]

(* The file once only a part of the next item, or none of it, has arrived. *)
Short == [disk EXCEPT !.gap = IF @ = "none" THEN "end" ELSE "more"]

Flush ==
  /\ buffer # <<>>
  /\ disk' = Land(Head(buffer)) /\ buffer' = Tail(buffer)
  /\ UNCHANGED <<fmt, comp, streamVars, callVars, history>>

(* No room: what stdio could not write is dropped.  The PCAP writer sees   *)
(* it in fwrite() or fclose() and returns 1; the LBN writer looks at       *)
(* neither and carries on.                                                 *)
DiskFull ==
  /\ "full" \in Faults /\ buffer # <<>>
  /\ disk' = Short /\ buffer' = <<>> /\ lossy' = TRUE
  /\ IF fmt = "pcap" THEN pc' = "idle" /\ answer' = "raised"
     ELSE UNCHANGED <<pc, answer>>
  /\ UNCHANGED <<fmt, comp, streamVars, batch, index, writes, last>>

(* The process dies during write(): the buffer is lost, but for a part of  *)
(* its next item.  Another process starts with a new stream.               *)
Crash ==
  /\ "crash" \in Faults /\ pc # "idle"
  /\ disk' = disk \/ (buffer # <<>> /\ disk' = Short)
  /\ buffer' = <<>> /\ pc' = "idle" /\ answer' = "none"
  /\ closed' = FALSE /\ written' = 0
  /\ UNCHANGED <<fmt, comp, batch, index, writes, history>>

(* The file is replaced by one that an LBN 1.0 writer left.                *)
Legacy(b, c) ==
  /\ fmt = "lbn" /\ pc = "idle" /\ writes < MaxWrites
  /\ writes' = writes + 1 /\ answer' = "none"
  /\ disk' = [Blank(0, c) EXCEPT !.head = TRUE, !.recs = Stored(b)]
  /\ last' = Stored(b) /\ lossy' = FALSE
  /\ UNCHANGED <<fmt, comp, buffer, streamVars, pc, batch, index>>

-----------------------------------------------------------------------------
(* Reading                                                                 *)

(* lbn_load() returns -1 without a header that agrees with its checksum;   *)
(* read_pcap_file() returns no packets and no error.                       *)
Refused == fmt = "lbn" /\ ~disk.head

(* lbn_load() of a compressed 1.0 file guesses the length of each packet,  *)
(* and stops at the first guess that is wrong.                             *)
Guessed(recs) ==
  CHOOSE s \in { SubSeq(recs, 1, k) : k \in 0 .. Len(recs) } :
    /\ \A i \in DOMAIN s : s[i][1] \in Quarter
    /\ Len(s) < Len(recs) => recs[Len(s) + 1][1] \notin Quarter

(* The whole records up to the first gap.                                  *)
Whole ==
  IF ~disk.head THEN <<>>
  ELSE IF disk.minor = 0 /\ disk.comp THEN Guessed(disk.recs)
  ELSE disk.recs

(* What a reader that is not refused may return.                           *)
Readings ==
  { Whole } \cup (IF disk.gap = "more" THEN { Append(Whole, <<Garbage, FALSE>>) } ELSE {})

-----------------------------------------------------------------------------
Next ==
  \/ WriteNothing \/ OpenFile \/ OpenFails \/ Put \/ NoMemory \/ AllPut \/ Return
  \/ CloseStream \/ NewStream \/ Flush \/ DiskFull \/ Crash
  \/ \E b \in Batches : Write(b) \/ \E c \in BOOLEAN : Legacy(b, c)

Spec == Init /\ [][Next]_vars

-----------------------------------------------------------------------------
(* TypeOK: every variable keeps its type, and a write never runs past its  *)
(* batch.                                                                  *)
TypeOK ==
  /\ fmt \in {"pcap", "lbn"} /\ comp \in BOOLEAN
  /\ disk \in FileType /\ buffer \in Seq(Records \cup {Header})
  /\ closed \in BOOLEAN /\ written \in Nat /\ writes \in 0 .. MaxWrites
  /\ pc \in {"idle", "open", "put", "close"}
  /\ batch \in {<<>>} \cup Batches /\ index \in 0 .. Len(batch)
  /\ answer \in {"none", "true", "empty", "raised"}
  /\ last \in Seq(Records) /\ lossy \in BOOLEAN

(* SuccessDurable: once write() of a batch returned True every reader gets *)
(* that whole batch and nothing else (a PCAP packet over the limit cut),   *)
(* through closing the stream, and len(stream) counts it.  The LBN writer  *)
(* may have lost part of it to a full disk: lib/lbn.c:54-93.               *)
SuccessDurable ==
  answer = "true" /\ (fmt = "pcap" \/ ~lossy) =>
    ~Refused /\ Readings = { Stored(batch) } /\ written >= Len(batch)

(* OldCompressedRefused: LBN.md 5.3, "If the file is 1.0 and the           *)
(* LBN_FLAG_COMPRESSED bit is set, refuses the file with a clear error".   *)
OldCompressedRefused ==
  fmt = "lbn" /\ disk.head /\ disk.minor = 0 /\ disk.comp => Refused

=============================================================================
