---------------------------- MODULE SavingProofs ----------------------------
(***************************************************************************)
(* Theorems about Saving for every set of packets, batch length, number of *)
(* writes and combination of failures.                                     *)
(***************************************************************************)
EXTENDS MCSaving, SequenceTheorems, WellFoundedInduction, TLAPS

-----------------------------------------------------------------------------
(* Types                                                                   *)

LEMMA RecordType ==
  ASSUME NEW p \in Packets
  PROVE  Record(p) \in Records /\ Record(p) # Header
BY DEF Record, Records, Header

(* What is stored of a batch is one record per packet, in order.           *)
LEMMA StoredType ==
  ASSUME NEW b \in {<<>>} \cup Batches
  PROVE  /\ b \in Seq(Packets)
         /\ Stored(b) \in Seq(Records)
         /\ Len(Stored(b)) = Len(b)
         /\ \A i \in 1 .. Len(b) : Stored(b)[i] = Record(b[i])
<1>1. b \in Seq(Packets) /\ DOMAIN b = 1 .. Len(b) /\ Len(b) \in Nat
  <2>1. CASE b = <<>>
    BY <2>1, EmptySeq
  <2>2. CASE b \in Batches
    <3>1. PICK n \in 1 .. MaxBatch : b \in [1 .. n -> Packets]
      BY <2>2 DEF Batches
    <3>2. n \in Nat
      BY SavingAssumption
    <3> QED
      BY <3>1, <3>2
  <2> QED
    BY <2>1, <2>2
<1>2. \A i \in 1 .. Len(b) : b[i] \in Packets
  BY <1>1
<1>3. Stored(b) = [i \in 1 .. Len(b) |-> Record(b[i])]
  BY <1>1 DEF Stored
<1>4. \A i \in 1 .. Len(b) : Record(b[i]) \in Records
  BY <1>2, RecordType
<1> QED
  BY <1>1, <1>3, <1>4

LEMMA TypeInit == Init => TypeOK
<1> SUFFICES ASSUME Init PROVE TypeOK
  OBVIOUS
<1> USE SavingAssumption DEF Init
<1>1. fmt \in {"pcap", "lbn"} /\ comp \in BOOLEAN
  OBVIOUS
<1>2. disk \in FileType
  BY DEF FileType, Blank
<1>3. closed \in BOOLEAN /\ lossy \in BOOLEAN
  OBVIOUS
<1>4. buffer \in Seq(Records \cup {Header}) /\ last \in Seq(Records)
  OBVIOUS
<1>5. index \in 0 .. Len(batch) /\ batch \in {<<>>} \cup Batches
  OBVIOUS
<1>6. written \in Nat /\ writes \in 0 .. MaxWrites
  OBVIOUS
<1> QED
  BY <1>1, <1>2, <1>3, <1>4, <1>5, <1>6 DEF TypeOK

LEMMA LandType ==
  ASSUME TypeOK, NEW x \in Records \cup {Header}
  PROVE  Land(x) \in FileType /\ Short \in FileType
<1> USE DEF TypeOK, FileType
<1>1. Short \in FileType
  BY DEF Short
<1>2. CASE disk.gap # "none"
  <2>1. Land(x) = [disk EXCEPT !.gap = "more"]
    BY <1>2 DEF Land
  <2> QED
    BY <1>1, <2>1
<1>3. CASE disk.gap = "none" /\ x = Header
  <2>1. Land(x) = [disk EXCEPT !.head = TRUE]
    BY <1>3 DEF Land
  <2> QED
    BY <1>1, <2>1
<1>4. CASE disk.gap = "none" /\ x # Header
  <2>1. Land(x) = [disk EXCEPT !.recs = Append(@, x)]
    BY <1>4 DEF Land
  <2>2. Append(disk.recs, x) \in Seq(Records)
    BY <1>4
  <2> QED
    BY <1>1, <2>1, <2>2
<1> QED
  BY <1>2, <1>3, <1>4

LEMMA TypeStep == TypeOK /\ [Next]_vars => TypeOK'
<1> SUFFICES ASSUME TypeOK, [Next]_vars PROVE TypeOK'
  OBVIOUS
<1> USE SavingAssumption DEF TypeOK, Goto, streamVars, callVars, history
<1>1. CASE WriteNothing \/ OpenFails \/ NoMemory \/ AllPut
  BY <1>1 DEF WriteNothing, OpenFails, NoMemory, AllPut
<1>2. CASE CloseStream \/ NewStream
  <2>1. closed' \in BOOLEAN
    BY <1>2 DEF CloseStream, NewStream
  <2>2. written' \in Nat
    BY <1>2 DEF CloseStream, NewStream
  <2>3. answer' \in {"none", "true", "empty", "raised"}
    BY <1>2 DEF CloseStream, NewStream
  <2>4. UNCHANGED <<fmt, comp, disk, buffer, pc, batch, index, writes, history>>
    BY <1>2 DEF CloseStream, NewStream
  <2> QED
    BY <2>1, <2>2, <2>3, <2>4
<1>3. CASE OpenFile
  <2>1. disk' \in FileType
    BY <1>3 DEF OpenFile, Blank, FileType
  <2>2. buffer' \in Seq(Records \cup {Header})
    BY <1>3 DEF OpenFile
  <2>3. last' \in Seq(Records) /\ lossy' \in BOOLEAN
    BY <1>3, StoredType DEF OpenFile
  <2>4. pc' = "put" /\ UNCHANGED <<fmt, comp, streamVars, batch, index, answer, writes>>
    BY <1>3 DEF OpenFile
  <2> QED
    BY <2>1, <2>2, <2>3, <2>4
<1>4. CASE Put
  <2>1. Record(batch[index + 1]) \in Records
    <3>1. batch \in Seq(Packets) /\ index + 1 \in 1 .. Len(batch)
      BY <1>4, StoredType DEF Put
    <3> QED
      BY <3>1, RecordType
  <2>2. buffer' \in Seq(Records \cup {Header})
    BY <1>4, <2>1 DEF Put
  <2>3. index' \in 0 .. Len(batch)
    BY <1>4, StoredType DEF Put
  <2> QED
    BY <1>4, <2>2, <2>3 DEF Put
<1>5. CASE Return
  <2>1. Len(batch) \in Nat
    BY StoredType
  <2> QED
    BY <1>5, <2>1 DEF Return
<1>6. CASE Flush
  <2>1. Head(buffer) \in Records \cup {Header}
        /\ Tail(buffer) \in Seq(Records \cup {Header})
    BY <1>6, HeadTailProperties DEF Flush
  <2> QED
    BY <1>6, <2>1, LandType DEF Flush
<1>7. CASE DiskFull
  <2>1. Short \in FileType
    BY LandType
  <2> QED
    BY <1>7, <2>1 DEF DiskFull
<1>8. CASE Crash
  <2>1. disk' \in FileType
    BY <1>8, LandType DEF Crash
  <2>2. closed' \in BOOLEAN
    BY <1>8 DEF Crash
  <2>3. /\ buffer' = <<>> /\ pc' = "idle" /\ answer' = "none" /\ written' = 0
        /\ UNCHANGED <<fmt, comp, batch, index, writes, history>>
    BY <1>8 DEF Crash
  <2> QED
    BY <2>1, <2>2, <2>3
<1>9. ASSUME NEW b \in Batches, Write(b) PROVE TypeOK'
  <2>1. Len(b) \in Nat
    BY StoredType
  <2> QED
    BY <1>9, <2>1 DEF Write
<1>10. ASSUME NEW b \in Batches, NEW c \in BOOLEAN, Legacy(b, c) PROVE TypeOK'
  <2>1. last' \in Seq(Records) /\ lossy' \in BOOLEAN
    BY <1>10, StoredType DEF Legacy
  <2>2. disk' = [minor |-> 0, comp |-> c, head |-> TRUE, recs |-> last', gap |-> "none"]
    BY <1>10 DEF Legacy, Blank
  <2>3. disk' \in FileType
    BY <2>1, <2>2 DEF FileType
  <2>4. writes' \in 0 .. MaxWrites
    BY <1>10 DEF Legacy
  <2>5. /\ answer' = "none"
        /\ UNCHANGED <<fmt, comp, buffer, streamVars, pc, batch, index>>
    BY <1>10 DEF Legacy
  <2> QED
    BY <2>1, <2>3, <2>4, <2>5
<1>11. CASE UNCHANGED vars
  BY <1>11 DEF vars
<1> QED
  BY <1>1, <1>2, <1>3, <1>4, <1>5, <1>6, <1>7, <1>8, <1>9, <1>10, <1>11 DEF Next

(* TypeCorrect: every variable keeps its type, and no write runs past its  *)
(* batch.                                                                  *)
THEOREM TypeCorrect == Spec => []TypeOK
BY TypeInit, TypeStep, PTL DEF Spec

-----------------------------------------------------------------------------
(* The records of s are the first ones of t.                               *)
Begins(s, t) == Len(s) <= Len(t) /\ \A i \in 1 .. Len(s) : s[i] = t[i]

(* Nothing waits in stdio outside fopen() .. fclose().                     *)
Quiet == pc \in {"idle", "open"} => buffer = <<>>

(* What is in the file, whatever happened to it, began the last batch.     *)
FileInv ==
  /\ disk.head \/ disk.recs = <<>>
  /\ Begins(disk.recs, last)

(* While a batch is written, file and buffer together hold the header and  *)
(* the records put so far.                                                 *)
InFlight ==
  \/ /\ disk.head
     /\ Len(disk.recs) + Len(buffer) = index
     /\ \A j \in 1 .. Len(buffer) : buffer[j] = last[Len(disk.recs) + j]
  \/ /\ ~disk.head
     /\ Len(buffer) = index + 1
     /\ buffer[1] = Header
     /\ \A j \in 1 .. index : buffer[j + 1] = last[j]

(* A gap is a full disk that the LBN writer overlooked.                    *)
Overlooked == fmt = "lbn" /\ lossy

WriteInv ==
  /\ pc = "open" => index = 0
  /\ pc \in {"open", "put"} => answer = "none"
  /\ pc = "close" => answer \in {"none", "raised"}
  /\ pc = "close" /\ answer = "none" => index = Len(batch)
  /\ pc \in {"put", "close"} =>
       /\ last = Stored(batch)
       /\ disk.minor = 1
       /\ disk.gap = "none" => InFlight
       /\ disk.gap # "none" => Overlooked

(* After a write() that returned True.                                     *)
DoneInv ==
  answer = "true" =>
    /\ pc = "idle"
    /\ disk.minor = 1
    /\ written >= Len(batch)
    /\ disk.gap = "none" => disk.head /\ disk.recs = Stored(batch)
    /\ disk.gap # "none" => Overlooked

SaveInv == Quiet /\ FileInv /\ WriteInv /\ DoneInv

LEMMA SaveInit == Init => SaveInv
<1> SUFFICES ASSUME Init PROVE SaveInv
  OBVIOUS
<1>1. Quiet /\ WriteInv /\ DoneInv
  BY DEF Init, Quiet, WriteInv, DoneInv
<1>2. disk.recs = <<>> /\ last = <<>>
  BY DEF Init, Blank
<1>3. FileInv
  BY <1>2 DEF FileInv, Begins
<1> QED
  BY <1>1, <1>3 DEF SaveInv

(* What a write has put so far is no longer than what it has to store.     *)
LEMMA StoredSoFar ==
  ASSUME TypeOK, WriteInv, pc \in {"put", "close"}
  PROVE  /\ last = Stored(batch) /\ Len(last) = Len(batch)
         /\ index \in 0 .. Len(last)
         /\ \A i \in 1 .. Len(last) : last[i] = Record(batch[i]) /\ last[i] # Header
<1>1. last = Stored(batch) /\ batch \in {<<>>} \cup Batches
  BY DEF WriteInv, TypeOK
<1>2. /\ batch \in Seq(Packets) /\ Len(last) = Len(batch)
      /\ \A i \in 1 .. Len(batch) : last[i] = Record(batch[i])
  BY <1>1, StoredType
<1>3. \A i \in 1 .. Len(batch) : Record(batch[i]) # Header
  BY <1>2, RecordType
<1> QED
  BY <1>1, <1>2, <1>3 DEF TypeOK

(* A whole item that reaches a file without a gap.                         *)
LEMMA FlushWhole ==
  ASSUME TypeOK, FileInv, WriteInv, Flush, pc \in {"put", "close"},
         disk.gap = "none"
  PROVE  /\ FileInv' /\ InFlight'
         /\ disk'.gap = "none" /\ disk'.minor = disk.minor
<1> DEFINE x == Head(buffer)
<1>1. /\ UNCHANGED <<pc, last, index>>
      /\ disk' = Land(x) /\ buffer' = Tail(buffer)
      /\ buffer \in Seq(Records \cup {Header}) /\ buffer # <<>>
  BY DEF Flush, callVars, history, TypeOK
<1>2. /\ x = buffer[1] /\ Len(buffer) \in Nat \ {0}
      /\ Len(Tail(buffer)) = Len(buffer) - 1
      /\ \A j \in 1 .. Len(Tail(buffer)) : Tail(buffer)[j] = buffer[j + 1]
  BY <1>1
<1>3. disk.recs \in Seq(Records) /\ last \in Seq(Records) /\ index \in Nat
  BY DEF TypeOK, FileType
<1>4. InFlight
  BY DEF WriteInv
<1>5. CASE disk.head
  <2>1. /\ Len(disk.recs) + Len(buffer) = index
        /\ \A j \in 1 .. Len(buffer) : buffer[j] = last[Len(disk.recs) + j]
    BY <1>4, <1>5 DEF InFlight
  <2>2. Len(disk.recs) + 1 \in 1 .. Len(last) /\ x = last[Len(disk.recs) + 1]
    BY <1>2, <1>3, <2>1, StoredSoFar
  <2>3. x \in Records /\ x # Header
    BY <1>3, <2>2, StoredSoFar
  <2>4. disk' = [disk EXCEPT !.recs = Append(@, x)]
    BY <1>1, <2>3 DEF Land
  <2>5. /\ disk'.recs = Append(disk.recs, x) /\ disk'.head
        /\ disk'.gap = "none" /\ disk'.minor = disk.minor
    BY <1>5, <2>4 DEF TypeOK, FileType
  <2>6. /\ Len(disk'.recs) = Len(disk.recs) + 1
        /\ disk'.recs[Len(disk.recs) + 1] = x
        /\ \A i \in 1 .. Len(disk.recs) : disk'.recs[i] = disk.recs[i]
    BY <1>3, <2>3, <2>5
  <2>7. FileInv'
    <3>1. Len(disk.recs) \in Nat /\ last' = last
      BY <1>1, <1>3
    <3>2. Len(disk.recs) <= Len(last)
          /\ \A i \in 1 .. Len(disk.recs) : disk.recs[i] = last[i]
      BY DEF FileInv, Begins
    <3>3. Begins(disk'.recs, last)
      BY <2>2, <2>6, <3>1, <3>2 DEF Begins
    <3> QED
      BY <2>5, <3>1, <3>3 DEF FileInv
  <2>8. InFlight'
    <3> DEFINE r == Len(disk.recs)
               b == Tail(buffer)
    <3>1. /\ r \in Nat /\ Len(disk'.recs) = r + 1
          /\ buffer' = b /\ Len(b) = Len(buffer) - 1
          /\ last' = last /\ index' = index
      BY <1>1, <1>2, <1>3, <2>6
    <3>2. Len(disk'.recs) + Len(buffer') = index'
      BY <1>2, <2>1, <3>1
    <3>3. \A j \in 1 .. Len(b) : b[j] = last[r + 1 + j]
      <4> SUFFICES ASSUME NEW j \in 1 .. Len(b) PROVE b[j] = last[r + 1 + j]
        OBVIOUS
      <4>1. b[j] = buffer[j + 1] /\ j + 1 \in 1 .. Len(buffer)
        BY <1>2, <3>1
      <4>2. buffer[j + 1] = last[r + (j + 1)]
        BY <2>1, <4>1
      <4>3. j \in Nat /\ r \in Nat
        BY <1>2, <3>1
      <4> HIDE DEF r, b
      <4>4. r + (j + 1) = r + 1 + j
        BY <4>3
      <4> QED
        BY <4>1, <4>2, <4>4
    <3>4. \A j \in 1 .. Len(buffer') : buffer'[j] = last'[Len(disk'.recs) + j]
      BY <3>1, <3>3
    <3> QED
      BY <2>5, <3>2, <3>4 DEF InFlight
  <2> QED
    BY <2>5, <2>7, <2>8
<1>6. CASE ~disk.head
  <2>1. /\ Len(buffer) = index + 1 /\ buffer[1] = Header
        /\ \A j \in 1 .. index : buffer[j + 1] = last[j]
        /\ disk.recs = <<>>
    BY <1>4, <1>6 DEF InFlight, FileInv
  <2>2. disk' = [disk EXCEPT !.head = TRUE]
    BY <1>1, <1>2, <2>1 DEF Land
  <2>3. /\ disk'.recs = <<>> /\ disk'.head
        /\ disk'.gap = "none" /\ disk'.minor = disk.minor
    BY <2>1, <2>2 DEF TypeOK, FileType
  <2>4. FileInv'
    BY <1>1, <1>3, <2>3 DEF FileInv, Begins
  <2>5. InFlight'
    BY <1>1, <1>2, <1>3, <2>1, <2>3 DEF InFlight
  <2> QED
    BY <2>3, <2>4, <2>5
<1> QED
  BY <1>5, <1>6

LEMMA SaveStep == TypeOK /\ SaveInv /\ [Next]_vars => SaveInv'
<1> SUFFICES ASSUME TypeOK, SaveInv, [Next]_vars PROVE SaveInv'
  OBVIOUS
<1> USE DEF SaveInv, Goto, streamVars, callVars, history
<1>1. ASSUME UNCHANGED <<disk, last>> PROVE FileInv'
  BY <1>1 DEF FileInv, Begins
<1>2. ASSUME UNCHANGED <<disk, buffer, last, index>> PROVE InFlight' <=> InFlight
  BY <1>2 DEF InFlight
<1>3. ASSUME UNCHANGED <<fmt, lossy>> PROVE Overlooked' <=> Overlooked
  BY <1>3 DEF Overlooked
<1>0. ASSUME UNCHANGED <<fmt, batch>> PROVE Stored(batch)' = Stored(batch)
  BY <1>0 DEF Stored, Record
<1>4. CASE WriteNothing \/ OpenFails \/ CloseStream \/ NewStream
  <2>1. /\ UNCHANGED <<fmt, disk, buffer, batch, index, last, lossy>>
        /\ pc' = "idle" /\ pc \in {"idle", "open"}
    BY <1>4 DEF WriteNothing, OpenFails, CloseStream, NewStream
  <2>2. answer' # "true" \/ UNCHANGED <<answer, written, pc>>
    BY <1>4 DEF WriteNothing, OpenFails, CloseStream, NewStream
  <2>3. Quiet' /\ FileInv'
    BY <1>1, <2>1 DEF Quiet
  <2>4. WriteInv'
    BY <2>1 DEF WriteInv
  <2>5. DoneInv'
    BY <1>0, <1>3, <2>1, <2>2 DEF DoneInv
  <2> QED
    BY <2>3, <2>4, <2>5
<1>5. CASE OpenFile
  <2>1. /\ pc = "open" /\ pc' = "put" /\ UNCHANGED <<fmt, batch, index, answer>>
        /\ buffer' = <<Header>> /\ last' = Stored(batch)
        /\ disk'.head = FALSE /\ disk'.recs = <<>> /\ disk'.gap = "none"
        /\ disk'.minor = 1
    BY <1>5 DEF OpenFile, Blank
  <2>2. index = 0
    BY <1>5, <2>1 DEF WriteInv
  <2>3. Quiet' /\ DoneInv' /\ answer = "none"
    BY <2>1 DEF Quiet, WriteInv, DoneInv
  <2>4. FileInv'
    BY <2>1, StoredType DEF FileInv, Begins, TypeOK
  <2>5. InFlight'
    BY <2>1, <2>2 DEF InFlight
  <2>6. WriteInv'
    BY <1>0, <2>1, <2>3, <2>5 DEF WriteInv
  <2> QED
    BY <2>3, <2>4, <2>6
<1>6. CASE Put
  <2>1. /\ pc = "put" /\ index < Len(batch) /\ index' = index + 1
        /\ buffer' = Append(buffer, Record(batch[index + 1]))
        /\ UNCHANGED <<fmt, disk, pc, batch, answer, last, lossy>>
    BY <1>6 DEF Put
  <2>2. Quiet' /\ FileInv' /\ DoneInv'
    BY <1>1, <2>1 DEF Quiet, DoneInv, WriteInv
  <2>3. ASSUME disk.gap = "none" PROVE InFlight'
    <3>1. InFlight /\ index \in Nat /\ Len(disk.recs) \in Nat
          /\ buffer \in Seq(Records \cup {Header})
      BY <2>1, <2>3 DEF WriteInv, TypeOK, FileType
    <3>2. index + 1 \in 1 .. Len(last) /\ last[index + 1] = Record(batch[index + 1])
      BY <2>1, <3>1, StoredSoFar
    <3>3. /\ Len(buffer') = Len(buffer) + 1
          /\ buffer'[Len(buffer) + 1] = last[index + 1]
          /\ \A j \in 1 .. Len(buffer) : buffer'[j] = buffer[j]
      BY <2>1, <3>1, <3>2
    <3>4. CASE disk.head
      <4> DEFINE r == Len(disk.recs)
      <4>1. r \in Nat /\ Len(buffer) \in Nat /\ r + Len(buffer) = index
        BY <3>1, <3>4 DEF InFlight
      <4>2. \A j \in 1 .. Len(buffer) : buffer[j] = last[r + j]
        BY <3>1, <3>4 DEF InFlight
      <4>3. disk'.head /\ Len(disk'.recs) = r /\ last' = last /\ index' = index + 1
        BY <2>1, <3>4
      <4> HIDE DEF r
      <4>4. r + Len(buffer') = index'
        BY <3>1, <3>3, <4>1, <4>3
      <4>5. \A j \in 1 .. Len(buffer') : buffer'[j] = last[r + j]
        BY <3>1, <3>3, <4>1, <4>2
      <4> QED
        BY <4>3, <4>4, <4>5 DEF InFlight
    <3>5. CASE ~disk.head
      <4>1. /\ Len(buffer) = index + 1 /\ buffer[1] = Header
            /\ \A j \in 1 .. index : buffer[j + 1] = last[j]
        BY <3>1, <3>5 DEF InFlight
      <4>2. \A j \in 1 .. index + 1 : buffer'[j + 1] = last[j]
        BY <3>1, <3>3, <4>1
      <4>3. Len(buffer') = index' + 1 /\ buffer'[1] = Header
        BY <2>1, <3>1, <3>3, <4>1
      <4>4. ~disk'.head /\ \A j \in 1 .. index' : buffer'[j + 1] = last'[j]
        BY <2>1, <3>5, <4>2
      <4> QED
        BY <4>3, <4>4 DEF InFlight
    <3> QED
      BY <3>4, <3>5
  <2>4. WriteInv'
    BY <1>0, <1>3, <2>1, <2>3 DEF WriteInv
  <2> QED
    BY <2>2, <2>4
<1>7. CASE NoMemory \/ AllPut
  <2>1. /\ UNCHANGED <<fmt, disk, buffer, batch, index, last, lossy>>
        /\ pc = "put" /\ pc' = "close"
        /\ answer' = "raised" \/ (answer' = answer /\ index = Len(batch))
    BY <1>7 DEF NoMemory, AllPut
  <2>2. answer = "none"
    BY <2>1 DEF WriteInv
  <2>3. Quiet' /\ FileInv' /\ DoneInv'
    BY <1>1, <2>1, <2>2 DEF Quiet, DoneInv
  <2>4. WriteInv'
    BY <1>0, <1>2, <1>3, <2>1, <2>2 DEF WriteInv
  <2> QED
    BY <2>3, <2>4
<1>8. CASE Return
  <2>1. /\ UNCHANGED <<fmt, disk, buffer, batch, index, last, lossy>>
        /\ pc = "close" /\ pc' = "idle" /\ buffer = <<>>
        /\ answer = "raised" \/ written' = written + Len(batch)
        /\ answer = "raised" => answer' = "raised"
    BY <1>8 DEF Return, Closed
  <2>2. Quiet' /\ FileInv' /\ WriteInv'
    BY <1>1, <2>1, <1>8 DEF Quiet, WriteInv, Return
  <2>3. CASE answer = "raised"
    BY <2>1, <2>2, <2>3 DEF DoneInv
  <2>4. CASE answer # "raised"
    <3>1. answer = "none" /\ index = Len(batch) /\ disk.minor = 1
      BY <2>1, <2>4 DEF WriteInv
    <3>2. written' >= Len(batch)
      BY <2>1, <2>4, StoredType DEF TypeOK
    <3>3. ASSUME disk.gap = "none" PROVE disk.head /\ disk.recs = Stored(batch)
      <4>1. InFlight /\ Len(buffer) = 0 /\ index \in Nat
            /\ disk.recs \in Seq(Records) /\ last \in Seq(Records)
        BY <2>1, <3>3 DEF WriteInv, TypeOK, FileType
      <4>2. disk.head /\ Len(disk.recs) = index
        BY <4>1 DEF InFlight
      <4>3. last = Stored(batch) /\ Len(last) = index
        BY <2>1, <3>1, StoredSoFar
      <4>4. \A i \in 1 .. Len(disk.recs) : disk.recs[i] = last[i]
        BY DEF FileInv, Begins
      <4>5. disk.recs = last
        BY <4>1, <4>2, <4>3, <4>4, SeqEqual
      <4> QED
        BY <4>2, <4>3, <4>5
    <3>4. disk.gap # "none" => Overlooked
      BY <2>1 DEF WriteInv
    <3>5. DoneInv'
      BY <1>0, <1>3, <2>1, <3>1, <3>2, <3>3, <3>4 DEF DoneInv
    <3> QED
      BY <2>2, <3>5
  <2> QED
    BY <2>3, <2>4
<1>9. CASE Flush
  <2>1. /\ buffer # <<>> /\ disk' = Land(Head(buffer))
        /\ UNCHANGED <<fmt, pc, batch, index, answer, written, last, lossy>>
    BY <1>9 DEF Flush
  <2>2. pc \in {"put", "close"}
    BY <2>1 DEF Quiet, TypeOK
  <2>3. Quiet' /\ DoneInv'
    BY <2>1, <2>2 DEF Quiet, DoneInv
  <2>4. CASE disk.gap = "none"
    <3>1. /\ FileInv' /\ InFlight'
          /\ disk'.gap = "none" /\ disk'.minor = disk.minor
      BY <1>9, <2>2, <2>4, FlushWhole
    <3>2. WriteInv'
      BY <1>0, <2>1, <3>1 DEF WriteInv
    <3> QED
      BY <2>3, <3>1, <3>2
  <2>5. CASE disk.gap # "none"
    <3>1. disk' = [disk EXCEPT !.gap = "more"]
      BY <2>1, <2>5 DEF Land
    <3>2. /\ disk'.gap = "more" /\ disk'.minor = disk.minor
          /\ disk'.recs = disk.recs /\ disk'.head = disk.head
      BY <3>1 DEF TypeOK, FileType
    <3>3. FileInv'
      BY <2>1, <3>2 DEF FileInv, Begins
    <3>4. WriteInv'
      BY <1>0, <1>3, <2>1, <2>5, <3>2 DEF WriteInv
    <3> QED
      BY <2>3, <3>3, <3>4
  <2> QED
    BY <2>4, <2>5
<1>10. ASSUME disk' = disk \/ disk' = Short, UNCHANGED last
       PROVE  FileInv' /\ disk'.minor = disk.minor
              /\ (disk' = Short => disk'.gap # "none")
  <2>1. CASE disk' = Short
    <3>1. /\ disk'.gap # "none" /\ disk'.minor = disk.minor
          /\ disk'.recs = disk.recs /\ disk'.head = disk.head
      BY <2>1 DEF Short, TypeOK, FileType
    <3> QED
      BY <1>10, <3>1 DEF FileInv, Begins
  <2>2. CASE disk' = disk /\ disk # Short
    BY <1>1, <1>10, <2>2
  <2> QED
    BY <1>10, <2>1, <2>2
<1>11. CASE DiskFull
  <2>1. /\ buffer # <<>> /\ disk' = Short /\ buffer' = <<>> /\ lossy' = TRUE
        /\ UNCHANGED <<fmt, batch, index, last>>
        /\ \/ pc' = "idle" /\ answer' = "raised"
           \/ fmt = "lbn" /\ UNCHANGED <<pc, answer>>
    BY <1>11 DEF DiskFull, TypeOK
  <2>2. pc \in {"put", "close"}
    BY <2>1 DEF Quiet, TypeOK
  <2>3. FileInv' /\ disk'.gap # "none" /\ disk'.minor = disk.minor
    BY <1>10, <2>1
  <2>4. Quiet' /\ DoneInv'
    BY <2>1, <2>2 DEF Quiet, DoneInv
  <2>5. WriteInv'
    BY <1>0, <2>1, <2>2, <2>3 DEF WriteInv, Overlooked
  <2> QED
    BY <2>3, <2>4, <2>5
<1>12. CASE Crash
  <2>1. /\ disk' = disk \/ disk' = Short
        /\ buffer' = <<>> /\ pc' = "idle" /\ answer' = "none" /\ UNCHANGED last
    BY <1>12 DEF Crash
  <2>2. FileInv'
    BY <1>10, <2>1
  <2> QED
    BY <2>1, <2>2 DEF Quiet, WriteInv, DoneInv
<1>13. ASSUME NEW b \in Batches, Write(b) PROVE SaveInv'
  <2>1. /\ pc = "idle" /\ pc' = "open" /\ index' = 0 /\ answer' = "none"
        /\ UNCHANGED <<disk, buffer, last>>
    BY <1>13 DEF Write
  <2>2. FileInv'
    BY <1>1, <2>1
  <2> QED
    BY <2>1, <2>2 DEF Quiet, WriteInv, DoneInv
<1>14. ASSUME NEW b \in Batches, NEW c \in BOOLEAN, Legacy(b, c) PROVE SaveInv'
  <2>1. /\ pc = "idle" /\ answer' = "none" /\ UNCHANGED <<pc, buffer>>
        /\ last' = Stored(b)
        /\ disk'.head /\ disk'.recs = Stored(b)
    BY <1>14 DEF Legacy, Blank
  <2>2. FileInv'
    <3>1. Len(Stored(b)) \in Nat
      BY StoredType
    <3> QED
      BY <2>1, <3>1 DEF FileInv, Begins
  <2> QED
    BY <2>1, <2>2 DEF Quiet, WriteInv, DoneInv
<1>15. CASE UNCHANGED vars
  <2>1. UNCHANGED <<fmt, disk, buffer, written, pc, batch, index, answer, last, lossy>>
    BY <1>15 DEF vars
  <2>2. Quiet' /\ FileInv'
    BY <1>1, <2>1 DEF Quiet
  <2>3. WriteInv' /\ DoneInv'
    BY <1>0, <1>2, <1>3, <2>1 DEF WriteInv, DoneInv
  <2> QED
    BY <2>2, <2>3
<1> QED
  BY <1>4, <1>5, <1>6, <1>7, <1>8, <1>9, <1>11, <1>12, <1>13, <1>14, <1>15 DEF Next

LEMMA SaveCorrect == Spec => [](TypeOK /\ SaveInv)
BY TypeCorrect, SaveInit, SaveStep, PTL DEF Spec

(* DurableCorrect: a batch that write() reported saved is what every       *)
(* reader gets until the next write, for every batch and history of        *)
(* failures, unless the LBN writer overlooked a full disk.                 *)
THEOREM DurableCorrect == Spec => []SuccessDurable
<1>1. TypeOK /\ SaveInv => SuccessDurable
  <2> SUFFICES ASSUME TypeOK, SaveInv, answer = "true", fmt = "pcap" \/ ~lossy
               PROVE  ~Refused /\ Readings = { Stored(batch) } /\ written >= Len(batch)
    BY DEF SuccessDurable
  <2>1. /\ disk.gap = "none" /\ disk.minor = 1 /\ written >= Len(batch)
        /\ disk.head /\ disk.recs = Stored(batch)
    BY DEF SaveInv, DoneInv, Overlooked
  <2>2. Whole = Stored(batch)
    BY <2>1 DEF Whole
  <2>3. Readings = { Stored(batch) } /\ ~Refused
    BY <2>1, <2>2 DEF Readings, Refused
  <2> QED
    BY <2>1, <2>3
<1> QED
  BY <1>1, SaveCorrect, PTL

-----------------------------------------------------------------------------
(* The refinement of CaptureStore: what a reader gets before the first gap *)
(* is a growing start of the last batch.                                   *)

LEMMA BeginsIsStart ==
  ASSUME NEW s \in Seq(Records), NEW t \in Seq(Records), Begins(s, t)
  PROVE  Store!IsStart(s, t)
<1>1. Len(s) \in 0 .. Len(t) /\ \A i \in 1 .. Len(s) : s[i] = t[i]
  BY DEF Begins
<1>2. SubSeq(t, 1, Len(s)) \in Seq(Records) /\ Len(SubSeq(t, 1, Len(s))) = Len(s)
      /\ \A i \in 1 .. Len(s) : SubSeq(t, 1, Len(s))[i] = t[i]
  BY <1>1
<1>3. s = SubSeq(t, 1, Len(s))
  BY <1>1, <1>2, SeqEqual
<1> QED
  BY <1>1, <1>3 DEF Store!IsStart

(* The guessing reader of compressed 1.0 files stops somewhere: it returns *)
(* the records up to the first one that is guessed wrong.                  *)
LEMMA GuessedStarts ==
  ASSUME NEW recs \in Seq(Records)
  PROVE  Guessed(recs) \in { SubSeq(recs, 1, k) : k \in 0 .. Len(recs) }
<1> DEFINE T == { k \in 0 .. Len(recs) :
                    k < Len(recs) => recs[k + 1][1] \notin Quarter }
<1>1. T \subseteq Nat /\ Len(recs) \in T
  OBVIOUS
<1>2. PICK k \in T : \A j \in T : <<j, k>> \notin OpToRel(<, Nat)
  BY <1>1, NatLessThanWellFounded, WFMin
<1>3. \A j \in T : ~(j < k)
  BY <1>1, <1>2 DEF OpToRel
<1> DEFINE s == SubSeq(recs, 1, k)
<1>4. s \in Seq(Records) /\ Len(s) = k /\ DOMAIN s = 1 .. k
      /\ \A i \in 1 .. k : s[i] = recs[i]
  OBVIOUS
<1>5. \A i \in 1 .. k : s[i][1] \in Quarter
  <2> SUFFICES ASSUME NEW i \in 1 .. k PROVE recs[i][1] \in Quarter
    BY <1>4
  <2>1. i - 1 \in 0 .. Len(recs) /\ i - 1 < k /\ i - 1 < Len(recs)
    BY <1>1
  <2>2. i - 1 \notin T
    BY <1>3, <2>1
  <2>3. (i - 1) + 1 = i
    OBVIOUS
  <2> QED
    BY <2>1, <2>2, <2>3
<1>6. k < Len(recs) => recs[k + 1][1] \notin Quarter
  OBVIOUS
<1> QED
  BY <1>4, <1>5, <1>6 DEF Guessed

LEMMA WholeStarts == TypeOK /\ FileInv => Whole \in Seq(Records) /\ Begins(Whole, last)
<1> SUFFICES ASSUME TypeOK, FileInv
             PROVE  Whole \in Seq(Records) /\ Begins(Whole, last)
  OBVIOUS
<1>1. disk.recs \in Seq(Records) /\ last \in Seq(Records)
  BY DEF TypeOK, FileType
<1>2. ASSUME NEW k \in 0 .. Len(disk.recs)
      PROVE  SubSeq(disk.recs, 1, k) \in Seq(Records) /\ Begins(SubSeq(disk.recs, 1, k), last)
  <2> DEFINE s == SubSeq(disk.recs, 1, k)
  <2>1. s \in Seq(Records) /\ Len(s) = k /\ \A i \in 1 .. k : s[i] = disk.recs[i]
    BY <1>1
  <2>2. Len(disk.recs) \in Nat /\ Len(disk.recs) <= Len(last) /\ Len(last) \in Nat
        /\ \A i \in 1 .. Len(disk.recs) : disk.recs[i] = last[i]
    BY <1>1 DEF FileInv, Begins
  <2> QED
    BY <2>1, <2>2 DEF Begins
<1>3. CASE ~disk.head
  BY <1>1, <1>3 DEF Whole, Begins
<1>4. CASE disk.head /\ disk.minor = 0 /\ disk.comp
  BY <1>1, <1>2, <1>4, GuessedStarts DEF Whole
<1>5. CASE disk.head /\ ~(disk.minor = 0 /\ disk.comp)
  BY <1>1, <1>5 DEF Whole, FileInv
<1> QED
  BY <1>3, <1>4, <1>5

LEMMA StoreStep ==
  ASSUME TypeOK, SaveInv, TypeOK', SaveInv', [Next]_vars
  PROVE  [Store!Replace \/ Store!Grow]_<<last, Whole>>
<1> USE DEF Goto, streamVars, callVars, history
<1>1. /\ Whole \in Seq(Records) /\ Begins(Whole, last)
      /\ Whole' \in Seq(Records) /\ Begins(Whole', last')
      /\ last \in Seq(Records) /\ last' \in Seq(Records)
  <2>1. (TypeOK /\ FileInv)' => (Whole \in Seq(Records) /\ Begins(Whole, last))'
    BY WholeStarts, PTL
  <2> QED
    BY <2>1, WholeStarts DEF SaveInv, TypeOK
<1>2. ASSUME UNCHANGED <<disk, last>> PROVE UNCHANGED <<last, Whole>>
  BY <1>2 DEF Whole
<1>3. CASE OpenFile \/ \E b \in Batches, c \in BOOLEAN : Legacy(b, c)
  <2>1. Store!IsStart(Whole', last')
    BY <1>1, BeginsIsStart
  <2> QED
    BY <1>1, <2>1 DEF Store!Replace
<1>4. CASE DiskFull \/ Crash
  <2>1. UNCHANGED last /\ (disk' = disk \/ disk' = Short)
    BY <1>4 DEF DiskFull, Crash
  <2>2. CASE disk' = Short
    <3>1. /\ disk'.head = disk.head /\ disk'.recs = disk.recs
          /\ disk'.minor = disk.minor /\ disk'.comp = disk.comp
      BY <2>2 DEF Short, TypeOK, FileType
    <3> QED
      BY <2>1, <3>1 DEF Whole
  <2> QED
    BY <1>2, <2>1, <2>2
<1>5. CASE Flush
  <2>1. UNCHANGED last /\ disk' = Land(Head(buffer)) /\ buffer # <<>>
    BY <1>5 DEF Flush
  <2>2. CASE disk.gap # "none"
    <3>1. disk' = [disk EXCEPT !.gap = "more"]
      BY <2>1, <2>2 DEF Land
    <3>2. /\ disk'.head = disk.head /\ disk'.recs = disk.recs
          /\ disk'.minor = disk.minor /\ disk'.comp = disk.comp
      BY <3>1 DEF TypeOK, FileType
    <3> QED
      BY <2>1, <3>2 DEF Whole
  <2>3. CASE disk.gap = "none"
    <3>1. Store!IsStart(Whole', last)
      BY <1>1, <2>1, BeginsIsStart
    <3>2. pc \in {"put", "close"} /\ disk.minor = 1 /\ disk'.minor = 1
      BY <1>5, <2>1, <2>3, FlushWhole DEF SaveInv, Quiet, TypeOK, WriteInv
    <3>3. Begins(Whole, Whole')
      <4>1. CASE ~disk.head
        BY <1>1, <4>1 DEF Whole, Begins
      <4>2. CASE disk.head
        <5>1. disk'.head /\ Whole = disk.recs /\ Whole' = disk'.recs
              /\ (disk'.recs = disk.recs \/ disk'.recs = Append(disk.recs, Head(buffer)))
          <6>1. CASE Head(buffer) = Header
            BY <2>1, <2>3, <3>2, <4>2, <6>1 DEF Land, Whole, TypeOK, FileType
          <6>2. CASE Head(buffer) # Header
            BY <2>1, <2>3, <3>2, <4>2, <6>2, SMTT(30) DEF Land, Whole, TypeOK, FileType
          <6> QED
            BY <6>1, <6>2
        <5>2. /\ disk.recs \in Seq(Records)
              /\ Head(buffer) \in Records \cup {Header}
          BY <2>1 DEF TypeOK, FileType
        <5>3. Begins(disk.recs, disk.recs)
          BY <5>2 DEF Begins
        <5>4. Begins(disk.recs, Append(disk.recs, Head(buffer)))
          BY <5>2 DEF Begins
        <5> QED
          BY <5>1, <5>3, <5>4
      <4> QED
        BY <4>1, <4>2
    <3>4. Store!IsStart(Whole, Whole')
      BY <1>1, <3>3, BeginsIsStart
    <3> QED
      BY <2>1, <3>1, <3>4 DEF Store!Grow
  <2> QED
    BY <2>2, <2>3
<1>6. CASE \/ WriteNothing \/ OpenFails \/ Put \/ NoMemory \/ AllPut \/ Return
           \/ CloseStream \/ NewStream \/ (\E b \in Batches : Write(b))
           \/ UNCHANGED vars
  BY <1>2, <1>6 DEF WriteNothing, OpenFails, Put, NoMemory, AllPut, Return,
                    CloseStream, NewStream, Write, vars
<1> QED
  BY <1>3, <1>4, <1>5, <1>6 DEF Next

(* StoreCorrect: Saving implements CaptureStore: readers see a growing     *)
(* start of one batch, through every failure, full disk and crash.         *)
THEOREM StoreCorrect == Spec => ImplementsStore
<1>1. Init => Store!Init
  BY DEF Init, Blank, Whole, Store!Init
<1>2. /\ TypeOK /\ SaveInv /\ (TypeOK /\ SaveInv)' /\ [Next]_vars
      => [Store!Replace \/ Store!Grow]_<<last, Whole>>
  BY StoreStep
<1> QED
  BY <1>1, <1>2, SaveCorrect, PTL DEF Spec, ImplementsStore, Store!Spec

=============================================================================
