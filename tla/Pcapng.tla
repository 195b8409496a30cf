------------------------------- MODULE Pcapng -------------------------------
(***************************************************************************)
(* PcapngWriter and PcapngReader (Saving/pcapng.py over lib/pcapng.c) on   *)
(* one file, which the reader may open while it is being written, on a     *)
(* disk that may be full for a while and under a process that may die.     *)
(*                                                                         *)
(* The file is a sequence of 32-bit words: a block is its type, its length *)
(* in bytes, its body and the length again.  A word of a file in the other *)
(* byte order is the opposite number, and so is a word swapped by mistake. *)
(* A file is cut between two words.  Bytes of packets are never swapped.   *)
(***************************************************************************)
EXTENDS Integers, Sequences, SequencesExt, FiniteSetsExt

CONSTANTS
  Captures,   \* packets: [len |-> bytes, data |-> their words]
  Names,      \* interface names, likewise; len 0 for None and for ""
  Times,      \* time stamps
  Half,       \* 2^32: a time stamp is two words
  U16,        \* 2^16: an option's code and length share a word
  NameMax,    \* 65535: the longest option
  NameCap,    \* 255: the longest name the reader keeps
  MaxPacket,  \* PCAPNG_MAX_PACKET
  MaxCalls,   \* calls of the writer (bound)
  Others      \* files of other programs: sequences of blocks, see Foreign

VARIABLES
  file,     \* what was given to fwrite()
  disk,     \* how many words of it have reached the disk
  writer,   \* "none", "open", "closed"
  nextIf,   \* w->next_if_id
  calls,    \* calls made (bound)
  reader,   \* "none", "scan", "next": at work; its last answer: "open", "eof", "error", "refused"
  at,       \* the next word it reads
  ifaces,   \* r->ifaces
  returned, \* the packets it has returned
  added,    \* history: the interfaces in the file
  written,  \* history: the packets whose write_packet() returned
  made,     \* history: the writer's blocks, see Make
  lost,     \* history: a part of the file was lost
  tainted,  \* history: the writer was used again after an error
  whole     \* history: the reader's last step found the file whole

writerVars == <<writer, nextIf, calls>>
readerVars == <<reader, at, ifaces, returned, whole>>
pcapngVars == <<file, disk, writerVars, readerVars, added, written, made, lost, tainted>>

-----------------------------------------------------------------------------
(* Blocks                                                                  *)

SHB == 10
IDB == 1
EPB == 6
Magic == 26
OptIfName == 2

Words(bytes) == (bytes + 3) \div 4

(* The data of a packet or a name is as long as its length says; an option *)
(* of a kept name fits its field, and a name is shortened when written     *)
(* before it is shortened when read.                                       *)
ASSUME DataAssumption ==
  \A x \in Captures \cup Names : x.len \in Nat /\ x.data \in Seq(Int) /\ Len(x.data) = Words(x.len)
ASSUME SizeAssumption ==
  /\ Half \in Nat \ {0} /\ U16 \in Nat /\ NameMax \in Nat /\ NameCap \in Nat
  /\ NameCap <= NameMax /\ NameMax < U16
  /\ Times \subseteq Nat /\ MaxPacket \in Nat

Block(type, body) ==
  LET total == 4 * (Len(body) + 3) IN <<type, total>> \o body \o <<total>>

(* The section header; its length is left unspecified.                     *)
Shb == Block(SHB, <<Magic, 1, 0, 0>>)

Shortened(name, max) ==
  LET len == Min({name.len, max})
  IN [len |-> len, data |-> SubSeq(name.data, 1, Words(len))]

Option(code, x) == <<code * U16 + x.len>> \o x.data

Idb(link, snap, name) ==
  Block(IDB, <<link, snap>>
    \o IF name.len = 0 THEN <<>> ELSE Option(OptIfName, Shortened(name, NameMax)) \o <<0>>)

Epb(id, time, p) ==
  Block(EPB, <<id, time \div Half, time % Half, p.len, p.len>> \o p.data)

Interface(link, snap, name) == [link |-> link, snap |-> snap, name |-> name]
Packet(id, time, orig, p) ==
  [iface |-> id, time |-> time, orig |-> orig, len |-> p.len, data |-> p.data]

(* In the other byte order: SHB reads the same from both ends.             *)
Swapped(words) == [i \in DOMAIN words |-> IF words[i] = SHB THEN SHB ELSE -words[i]]

(* A block of another program, its words in either order: an option is     *)
(* [head |-> numbers, data |-> bytes].                                     *)
ForeignBlock(b, order) ==
  LET w(words) == IF order = 1 THEN words ELSE Swapped(words)
      options == FlattenSeq([i \in DOMAIN b.options |-> w(b.options[i].head) \o b.options[i].data])
      block(type, head, data) ==
        LET total == 4 * (3 + Len(head) + Len(data) + Len(options))
        IN w(<<type, total>> \o head) \o data \o options \o w(<<total>>)
  IN CASE b.kind = "packet" -> block(EPB, <<0, 0, 5, b.len, b.orig>>, b.data)
       [] b.kind = "interface" -> block(IDB, <<1, 0>>, <<>>)
       [] b.kind = "other" -> block(5, <<>>, <<>>)

-----------------------------------------------------------------------------
(* The reader.  Each read of it is a function of the words on the disk.    *)

Have(i) == i <= disk

(* r->swapped, which open() finds from the magic number.                   *)
swapped == disk >= 3 /\ file[3] = -Magic

WordAt(i) == IF ~swapped \/ file[i] = SHB THEN file[i] ELSE -file[i]

Bad == [st |-> "error"]
Read(next, known, packets) == [st |-> "ok", at |-> next, ifaces |-> known, packets |-> packets]

(* The repeated length at the end of a block.                              *)
Ends(end, total) == total % 4 = 0 /\ Have(end) /\ WordAt(end) = total

ReadEpb(i, total, known) ==
  LET captured == WordAt(i + 3)
      first == i + 5
      end == i - 2 + total \div 4 - 1
  IN IF \/ total - 12 < 20 \/ ~Have(i + 4)
        \/ captured < 0 \/ captured > MaxPacket \/ 4 * Words(captured) > total - 32
        \/ ~Have(first + Words(captured) - 1) \/ ~Ends(end, total)
     THEN Bad
     ELSE Read(end + 1, known,
            << Packet(WordAt(i), WordAt(i + 1) * Half + WordAt(i + 2), WordAt(i + 4),
                      [len |-> captured,
                       data |-> SubSeq(file, first, first + Words(captured) - 1)]) >>)

NoName == [len |-> -1, data |-> <<>>]
Overrun == [len |-> -2, data |-> <<>>]

OptionCode(i) == WordAt(i) \div U16
OptionLen(i) == WordAt(i) % U16
NextOption(i) == i + 1 + Words(OptionLen(i))

(* read_raw() of a name into name_buf.                                     *)
NameAt(i) ==
  LET kept == Min({OptionLen(i), NameCap})
  IN IF ~Have(i + Words(kept)) THEN Overrun
     ELSE [len |-> kept, data |-> SubSeq(file, i + 1, i + Words(kept))]

(* One turn of the loop over the options, given what the later ones say:   *)
(* the first name is kept, and any option may overrun the block.           *)
OptionName(i, end, rest) ==
  IF i = end THEN NoName
  ELSE IF ~Have(i) \/ NextOption(i) > end THEN Overrun
  ELSE IF OptionCode(i) = 0 THEN NoName
  ELSE IF OptionCode(i) = OptIfName /\ rest[NextOption(i)] # Overrun THEN NameAt(i)
  ELSE rest[NextOption(i)]

(* The if_name between two words.                                          *)
IfName(first, end) ==
  LET name[i \in first .. end] == OptionName(i, end, name) IN name[first]

ReadIdb(i, total, known) ==
  LET end == i - 2 + total \div 4 - 1
      name == IfName(i + 2, end)
  IN IF total - 12 < 8 \/ ~Have(i + 1) \/ name = Overrun \/ ~Ends(end, total) THEN Bad
     ELSE Read(end + 1,
               Append(known, Interface(WordAt(i), WordAt(i + 1),
                                       IF name = NoName THEN [len |-> 0, data |-> <<>>] ELSE name)),
               <<>>)

(* read_one_block(): any other type is skipped.                            *)
ReadBlock(i, known) ==
  IF ~Have(i) THEN [st |-> "eof"]
  ELSE IF ~Have(i + 1) \/ WordAt(i + 1) < 12 THEN Bad
  ELSE LET total == WordAt(i + 1)
           end == i + total \div 4 - 1
       IN CASE WordAt(i) = EPB -> ReadEpb(i + 2, total, known)
            [] WordAt(i) = IDB -> ReadIdb(i + 2, total, known)
            [] OTHER -> IF Ends(end, total) THEN Read(end + 1, known, <<>>) ELSE Bad

-----------------------------------------------------------------------------
(* stdio                                                                   *)

(* fwrite() takes the words.                                               *)
Accept(words) == file' = file \o words /\ UNCHANGED <<disk, lost>>

(* Some of what waits, and the end of these words, never gets there.       *)
Cut(words) ==
  \E k \in disk .. (Len(file) + Len(words) - 1) :
    /\ file' = SubSeq(file \o words, 1, k) /\ disk' = k
    /\ lost' = TRUE

(* A block is made, whether or not it gets there: the word after it and    *)
(* the interfaces and packets up to it.                                    *)
Made(words, next, ifs, pks) == [words |-> words, next |-> next, ifs |-> ifs, pks |-> pks]
Make(words, ifs, pks) ==
  made' = LET b == made[Len(made)]
          IN Append(made, Made(words, b.next + Len(words), b.ifs + ifs, b.pks + pks))

Flush ==
  /\ disk < Len(file)
  /\ disk' \in (disk + 1) .. Len(file)
  /\ UNCHANGED <<file, writerVars, readerVars, added, written, made, lost, tainted>>

-----------------------------------------------------------------------------
(* The writer                                                              *)

Called == calls < MaxCalls /\ calls' = calls + 1

(* fopen() fails, or the header does not fit, or the handle is returned.   *)
OpenWriter ==
  /\ writer = "none" /\ file = <<>> /\ Called
  /\ \/ /\ writer' = "open" /\ Accept(Shb)
        /\ made' = <<Made(Shb, Len(Shb) + 1, 0, 0)>>
     \/ /\ writer' = "closed" /\ Cut(Shb)
        /\ made' = <<Made(Shb, Len(Shb) + 1, 0, 0)>>
     \/ UNCHANGED <<file, disk, lost, writer, made>>
  /\ UNCHANGED <<nextIf, readerVars, added, written, tainted>>

(* A closed writer raises; so it does for what follows.                    *)
Use == writer = "open" /\ Called /\ tainted' = lost

AddInterface(link, name) ==
  /\ Use /\ Make(Idb(link, 0, name), 1, 0)
  /\ \/ /\ Accept(Idb(link, 0, name))
        /\ nextIf' = nextIf + 1
        /\ added' = Append(added, Interface(link, 0, Shortened(name, NameCap)))
     \/ Cut(Idb(link, 0, name)) /\ UNCHANGED <<nextIf, added>>
  /\ UNCHANGED <<writer, readerVars, written>>

WritePacket(id, time, p) ==
  /\ Use
  /\ \/ id >= nextIf /\ UNCHANGED <<file, disk, lost, written, made>>
     \/ /\ id < nextIf /\ Make(Epb(id, time, p), 0, 1)
        /\ \/ /\ Accept(Epb(id, time, p))
              /\ written' = Append(written, Packet(id, time, p.len, p))
           \/ Cut(Epb(id, time, p)) /\ UNCHANGED written
  /\ UNCHANGED <<writer, nextIf, readerVars, added>>

(* Nobody looks at what fclose() returns.                                  *)
CloseWriter ==
  /\ writer = "open" /\ writer' = "closed"
  /\ \/ disk' = Len(file) /\ UNCHANGED <<file, lost>>
     \/ disk < Len(file) /\ Cut(<<>>)
  /\ UNCHANGED <<nextIf, calls, readerVars, added, written, made, tainted>>

(* The writing process dies; the reader is in another one.                 *)
Die ==
  /\ writer = "open" /\ writer' = "closed"
  /\ disk < Len(file) /\ Cut(<<>>)
  /\ UNCHANGED <<nextIf, calls, readerVars, added, written, made, tainted>>

-----------------------------------------------------------------------------
(* The reader's calls, one block at a time                                 *)

Observe == whole' = (disk = Len(file) /\ file # <<>> /\ ~lost)

FileUnchanged == UNCHANGED <<file, disk, writerVars, added, written, made, lost, tainted>>

(* read_and_validate_shb().                                                *)
OpenReader ==
  /\ reader = "none" /\ Observe
  /\ LET valid == /\ disk >= 7 /\ file[1] = SHB
                  /\ file[3] \in {Magic, -Magic} /\ file[7] = file[2]
     IN \/ valid /\ reader' = "scan" /\ at' = Len(Shb) + 1
        \/ ~valid /\ reader' = "refused" /\ UNCHANGED at
  /\ UNCHANGED <<ifaces, returned>> /\ FileUnchanged

(* Mutant of StopAt: the type read to look at the block is not given back. *)
StopAfter(i) == i + 1

(* The pre-scan stops at the first block that is no interface.             *)
StopAt(i) == i

(* One turn of the pre-scan's loop.                                        *)
Prescan ==
  /\ reader = "scan" /\ Observe
  /\ LET r == ReadBlock(at, ifaces)
     IN \/ ~Have(at) /\ reader' = "open" /\ UNCHANGED <<at, ifaces>>
        \/ /\ Have(at) /\ WordAt(at) # IDB
           /\ reader' = "open" /\ at' = StopAt(at) /\ UNCHANGED ifaces
        \/ /\ Have(at) /\ WordAt(at) = IDB /\ r.st = "ok"
           /\ at' = r.at /\ ifaces' = r.ifaces /\ UNCHANGED reader
        \/ /\ Have(at) /\ WordAt(at) = IDB /\ r.st # "ok"
           /\ reader' = "refused" /\ at' = 0 /\ ifaces' = <<>>
  /\ UNCHANGED returned /\ FileUnchanged

(* read_packet() and the loop of pcapng_reader_next_packet() under it;     *)
(* None at the end, where it may be asked again.                           *)
ReadPacket ==
  /\ reader \in {"open", "eof", "next"} /\ Observe
  /\ LET r == ReadBlock(at, ifaces)
     IN \/ /\ r.st = "ok"
           /\ reader' = IF r.packets = <<>> THEN "next" ELSE "open"
           /\ at' = r.at /\ ifaces' = r.ifaces /\ returned' = returned \o r.packets
        \/ /\ r.st # "ok"
           /\ reader' = r.st /\ UNCHANGED <<at, ifaces, returned>>
  /\ FileUnchanged

CloseReader ==
  /\ reader \in {"open", "eof", "error", "refused"} /\ reader' = "none"
  /\ at' = 0 /\ ifaces' = <<>> /\ returned' = <<>>
  /\ UNCHANGED whole /\ FileUnchanged

-----------------------------------------------------------------------------
Empty ==
  /\ file = <<>> /\ disk = 0 /\ writer = "none"
  /\ added = <<>> /\ written = <<>>

(* A file left by another program, in either byte order.                   *)
Foreign(blocks, order) ==
  LET shb == IF order = 1 THEN Shb ELSE Swapped(Shb)
      of(kind) == SelectSeq(blocks, LAMBDA b : b.kind = kind)
  IN /\ file = shb \o FlattenSeq([i \in DOMAIN blocks |-> ForeignBlock(blocks[i], order)])
     /\ disk = Len(file) /\ writer = "closed"
     /\ added = [i \in DOMAIN of("interface") |-> Interface(1, 0, of("interface")[i].name)]
     /\ written = [i \in DOMAIN of("packet") |->
          LET b == of("packet")[i]
          IN Packet(0, 5, b.orig, [len |-> b.len, data |-> b.data])]

PcapngInit ==
  /\ Empty \/ \E blocks \in Others, order \in {1, -1} : Foreign(blocks, order)
  /\ nextIf = 0 /\ calls = 0
  /\ reader = "none" /\ at = 0 /\ ifaces = <<>> /\ returned = <<>>
  /\ made = <<>> /\ lost = FALSE /\ tainted = FALSE /\ whole = FALSE

PcapngNext ==
  \/ OpenWriter \/ CloseWriter \/ Die \/ Flush
  \/ OpenReader \/ Prescan \/ ReadPacket \/ CloseReader
  \/ \E link \in {1}, name \in Names : AddInterface(link, name)
  \/ \E id \in 0 .. 1, time \in Times, p \in Captures : WritePacket(id, time, p)

PcapngSpec == PcapngInit /\ [][PcapngNext]_pcapngVars

-----------------------------------------------------------------------------
(* ReadsWhatWasWritten: at any moment, from any file, in either byte       *)
(* order, the reader returns the packets and the interfaces in the order   *)
(* they were written, with their lengths, times and bytes, and no packet   *)
(* before its interface; None from it means that it has returned all that  *)
(* there is.  A whole file is refused, or ends in an error, only for a     *)
(* packet over PCAPNG_MAX_PACKET, which the writer lets through.  A        *)
(* program that goes on writing after an error gets none of this: the next *)
(* block is read as the missing part of the broken one.                    *)
ReadsWhatWasWritten ==
  ~tainted =>
    /\ IsPrefix(returned, written) /\ IsPrefix(ifaces, added)
    /\ \A i \in DOMAIN returned : returned[i].iface < Len(ifaces)
    /\ reader = "eof" /\ at = Len(file) + 1 /\ ~lost => returned = written /\ ifaces = added
    /\ reader \in {"error", "refused"} /\ whole =>
         \E i \in DOMAIN written : written[i].len > MaxPacket

=============================================================================
