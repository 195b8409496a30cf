# LightPacket in TLA+

LightPacket captures, builds, sends, stores and replays network packets: a
Python library over libpcap, four small C libraries for capture files, and a
compiler from filter expressions to BPF. This directory specifies the capture
loop, the sockets, replay, the capture files, the filter compiler and the
packets themselves, checks them with TLC and proves the main invariants with
TLAPS.

## The system

| Component | State | Operations | Talks to | What is hard | What makes it correct |
|---|---|---|---|---|---|
| Sniffer (`Sniffer.py`) | `_sock`, `_stop_event`, `_packets_captured`; a generator frame per `stream()` | `start`, `stream`, `stop`, `__exit__`, `_open`, `_close` | one `L2Socket`; the consumer (callbacks, `for` loops) | generators suspended anywhere while `stop()`, `__exit__` or another generator runs; failures inside `_open` | frames wanted, in order, never twice, at most `count` for one owner; ends on stop and timeout; socket always closed, never used after |
| L2Socket (`Layers/L2SocketL.py`, Windows twin `L2Socket.py`) | pcap handle, `closed`, `_filter` | constructor, `recv_one`, `recvl2`, `srp1`, `srp`, `set_filter`, `close`, `__del__` | libpcap | frames buffered before a filter, errors in the middle of a borrowed filter, calls after close | `_filter` tells the truth; a borrowed filter is returned; replies obey the filter; deadlines hold |
| L2Packet (`platforms/linux/L2Packet.py`, `bpf.py`) | AF_PACKET socket, `_filter` | `sendl2`, `recvl2`, `set_filter`, `close` | kernel, libpcap's compiler | failing `setsockopt`, memory of the compiled program | the kernel runs the filter the object names |
| Replay (`utils/replay.py`) | locals of one call | `replay` | a capture reader, a socket, `stop_event`, `on_packet` | stop at any moment, files rewritten between or during passes, files cut short | whole passes, in order, counted; stop is prompt |
| Capture files (`Saving/`, `lib/*.c`, `file/dtype.py`) | the file; per stream `_closed`, `_packets_written`, a C reader or writer | `write`, `write_one`, `open`, `read`, iteration, `close`, the one-shot functions | the file system | partial writes, crashes, re-created files, versions of a format | what is read back is a prefix of what was written; counts tell the truth |
| LightBPF | compiler state per `compile()` | lex, parse, compile, peephole, emulate, load | L2Socket, L2Packet, `Fprog` | back-patching, state shared by branches of an expression, optimisation under jumps | the program accepts a packet exactly when the expression does |
| ARP scan (`utils/Nsec/arp_resolution.py`) | a pool of probes, one socket each | `arp_ping`, `arp_scan` | L2Socket | one probe failing, hundreds of open sockets | answers of the others are not lost |
| Layers (`BaseLayer.py`, `Detect_layer.py`, `Layers/register.py`, headers) | mutable objects linked by `payload`; a class registry | `/`, `set_payload`, `build`, parsing, `register` | each other | shared sub-layers, cached header fields | `build` and parse agree |
| Headers (`EthernetII.py`, `ipv4.py`, ... one file each) | the fields, some filled in by `build()` and kept | constructor, `build`, `copy`, the parser | the payload's class and fields | lengths, checksums and tags depend on the layers around; input cut or padded anywhere | a packet is valid, parses back to what it was built from, and rebuilds to what was captured |
| Fragmentation, CIDR (`utils/`) | none | `fragment4`, `fragment6`, range expansion | – | boundaries | fragments cover the payload exactly; ranges hold exactly their addresses |
| EAPOL, 802.11, interface enumeration, configuration, logger | none worth a state | – | – | – | covered by example tests |

`PROJECT.json` lists every component with its files and status, and every
hazard with the line where it bites.

## The modules

`L2Socket` – one libpcap handle per socket and libpcap's ring for it (libpcap is
external: `Hear`, `Passes`, `Oldest`). Frames are numbered as they are heard, so
a ring is a set of numbers. `handle` keeps the two attributes `pcap` and `closed`
apart: between `pcap_close()` and the assignments the object still points at a
freed handle (`"freed"`).

`Sniffer` (extends `L2Socket`) – one Sniffer used by `Threads`. `pc[t]` is the
place of a thread's current call; there is one action between any two places
where another thread can run: `Begin`, `Construct`, `Link`, `SetFilter` are
`_open`; `Loop`, `Limits`, `Recv`, `Select`, `Read`, `Load`, `Tally`, `Interrupt` the
loop of `stream()`; `Resume` and `Abandon` the consumer; `Close`, `Free`, `Mark`,
`Forget` are `_close` with `L2Socket.close()` under it; `Finalise` is `__del__`
when the last reference goes. A libpcap call on a handle that is not open is
undefined behaviour: the model records it in `ub` and the caller does not come
back. `got` and `late` are history. `_packets_captured += 1` is a load (`Load`,
into `seen[t]`) and a store (`Tally`) without a lock, so threads can lose each
other's increments.

Simplifications: that store and the `yield` after it are one step; `self.pcap =
None; self.closed = True` is one step; the throw-away socket that asks for the
link type is one step; the copy of the packet bytes is not modelled.

`PacketFeed` – what a Sniffer with one owner promises, without sockets: wanted
frames, in the order heard, none twice, at most `Limit`, and at most one after
stop was asked for.

`SendRecv` (extends `L2Socket`) – `recvl2`, `srp1`, `srp`, `set_filter`, `close`
on sockets used by one thread each (as `arp_ping` does). `filter` is
`self._filter`, which is not the same thing as the program the handle runs.

`Replay` – one call of `replay()`: `While`, `OpenReader`, `Load`, `NextPacket`,
`Test`, `Send`, `Wake` are the two nested loops; `SetStop` is another thread, `Rewrite`
another program. A packet is `<<version of the file, index>>`. The readers are
operators: which files they can open (`Readable`, `OpenRaises`), how many
packets they give (`Yield`) and how they end (`EndOf`). PCAP and LBN files are
read to their end before the first packet is handed out (`Load`), PCAPNG files
as the pass goes on, all of them some whole records at a time (`Fill`), as stdio
reads them. A rewrite in the middle leaves the reader at its old offset in the
new file: what it makes of the rest is any `Leftovers`, which may begin with
something that was never a packet (`Torn`). `mixed` is history: the pass was
being read when that happened.

`Saving` – one PCAP or LBN write stream and its file. `write()` is `Write`,
`OpenFile` or `OpenFails`, `Put` for each packet, `NoMemory`, `AllPut`, `Return`;
stdio's buffer stands between `Put` and the file (`Flush`, `DiskFull`, `Crash`),
since neither C library flushes before `fclose()`. `Legacy` is a file of an LBN
1.0 writer. Reading changes nothing, so it is the set `Readings` of what a reader
may return from the file as it is; bytes that follow a gap may look like a record
(`Garbage`). A reading is taken for one step: a reader that is overtaken by
`fopen("wb")` in the middle of the file is not modelled, nor is a loss of power
(the pages of a file may then be missing in any order). The link type, the time
stamps and the original length in a record are data the properties do not use.

`CaptureStore` – what a capture file promises: a growing start of one batch.

`BpfParser`, `BpfCompiler`, `BpfCode` – LightBPF's compiler as functions: from
words to a tree (`Parse`), from a tree to labelled instructions (`Compile`, which
threads the compiler object with its flags, labels and scratch slots through the
rules), labels resolved to offsets (`Assemble`). A token is a record, since the
regular expression that cuts the text is taken as given; a 64-bit mask and an
IPv6 group would not fit TLC's integers, so a word has `Word` = 2^30 values, and
the 8 bits of a jump offset are scaled to `MaxOffset`.

`BpfMachine` – what an assembled program does: the emulator (`Execute`), the
peephole passes (`Optimize`: `RemoveNoops`, `ThreadJumps`, `DropDead`) and the
packing for the kernel (`Fprog`). Jumps go forward, so a run has at most as many
steps as the program has instructions; `Run`, the chains of `ja` (`Follow`) and
the worklist of reachable instructions (`Reachable`) are functions of the number
of steps or rounds, bounded by the program's length: the module has no recursive
operator and is proved about. The bitwise operators are constants, for which the
instance takes the community module's.

`BpfLoad` – a compiled program on its way to the packets: optimised or not
(`OptimizeCode`), attached (`Attach`), asked (`Receive`).

`Bpf` – one filter from text on: text, tree, program, then as in `BpfLoad`.
`Wanted` is the other side of the comparison: what an expression says of a
packet, worked out from the packet's bytes with no compiled code.

`Pcapng` – `PcapngWriter` and `PcapngReader` on one file. A file is a sequence
of 32-bit words; stdio stands between the writer and the disk (`Accept`,
`Flush`, and `Cut`, which loses a part for a full disk or a dead process), and a
reader may be at work meanwhile: opening, the pre-scan for interfaces and
`read_packet` go one block a step (`Prescan`, `ReadPacket`), so that the file can
grow between two blocks of one call. A file left by another program may have
either byte order, options and other blocks (`Foreign`). Section headers after
the first are skipped, as the code does.

`Layers` – a program's layer objects are a sequence, the heap, and a payload is
an index into it, so that two packets can share one. Each class's fixed header
is a list of field names and widths in the order of the wire (`Layout`);
addresses are their bytes, numbers over 2^31 too. `Octets` packs fields into
bytes and has the checksums of `utils/Checksum.py`.

`PacketBuild` – `build()` of a chain: `Before` is what a class does before it
asks for its payload (types, protocol numbers, the transport's checksum),
`After` what it does then (lengths, its own checksum), `Frame` moves the tags.
Each returns the heap with what the code keeps in the objects.

`PacketParse` – the parsers and `DetectLayer.start()`, from bytes to a sequence
of layers. Where the code's parsers call each other, each parser here gives its
own layers, the bytes it leaves and the name of the parser for them
(`Leaves`), and `Parse` goes from one to the next; `Answer` is what a parser
makes of the next one's answer, with the exceptions (`Raised`) caught where the
code catches them.

`Packets` – a program with a packet and some layers: `Stack` is `/`,
`SetPayload`, `Assign`, `BuildPacket`, `Register`, `Unregister`,
`FragmentPacket` (`fragment4` and `fragment6`), and `Capture`: what was built
comes back whole, cut or padded and is dissected. `seen` and `edited` are
history: from which objects, and which state of them, each object's own numbers
were computed.

`MCFormats` puts `Packets` and `Pcapng` into one run. They share no variable and
a behaviour is about one of the two: they are the two halves of what a capture
holds, and neither has an effect on the other.

`MCSniffer`, `MCSendRecv`, `MCReplay`, `MCSaving`, `MCBpf` give constants their values
and state the refinements.
`SnifferProofs`, `SnifferFeedProofs` (the refinement for one owner),
`SendRecvProofs`, `ReplayProofs`, `SavingProofs` hold the theorems. An operator
whose comment begins "Mutant of" is not part of a specification: it is a
plausible mistake in the operator after it, kept to show that a property notices.

## What the runs show

| Run | Bounds | Shows |
|---|---|---|
| `SnifferOwner` | 1 thread, 3 sockets, 4 frames, ring of 2, count 2 | one owner, any number of generators, failures of the constructor and of reads, Ctrl-C, stop, exit: no undefined call, one late frame at most (`LateBound`), every frame obeys the filter, `PacketFeed` is implemented, stop and timeout end every generator |
| `SnifferShared` | 2 threads, 2 sockets, 3 frames, ring of 1, count 2, no filter, failing probe and reads | whatever increments are lost, the count never exceeds what was handed out (`CountHonest`) and a limit once reached lasts (`LimitLasts`); no socket stays behind (`NoLeak`) |
| `SnifferThreads` | 2 threads, 2 sockets, no failures | **violation** of `NoUndefinedCall`: two `_close()` free one handle twice |
| `SnifferRetry` | 1 thread, failing link probe | **violation** of `FilterHonoured`: a retried `stream()` captures without its filter |
| `SendRecv` | 1 socket, 3 frames, 2 filters, counts 0–2, failing filters and reads | `_filter` tells the truth, borrowed filters come back, replies obey the filter, counts and deadlines hold |
| `Replay` | 10 file contents (each format whole and cut, empty, unreadable, no capture), loop and count 0–2, one rewrite | a pass sends the file it opened, whatever was left of the pass before and whatever is written once the file is read (`PassFaithful`), the total is right, at most one packet after stop, a finite replay ends, a stopped one ends unless its file is empty |
| `ReplayStop` | loop 0, no rewrite | **violation** of `StopHonoured`: an endless replay of an empty capture never sees `stop_event` |
| `Saving` | 2 packets (one over the snaplen), batches of 1–2, 3 files, every fault | a write that returned True is there for every reader (`SuccessDurable`), and whatever fails, what a reader gets is a growing start of one batch (`CaptureStore` is implemented) |
| `Bpf` | 526 expressions: every rule alone, under `not`, and in pairs and triples of rules that do not disturb each other; the documented filters that combine more than those, but for the ones below; 11 texts that are no filter; hand-made programs of five instructions; 12 packets (both IP versions, options, a later fragment, tags once and twice, MPLS, ARP, cut short) | an expression with the fewest parentheses parses back to itself and nonsense does not; the attached program accepts what the expression says; the kernel takes every program (`AttachedWhole`); no optimised program answers otherwise |
| `BpfTransport` | 4 documented filters | **violation** of `FilterMeansWhatItSays`: after `ip`, `port` loads from an X that nothing has set; under `not`, or left of an `or`, the IPv6 half of a bare `tcp` falls into the wrong place |
| `Formats` | 21 stacks of layers and 2 spare IP headers, programs of 2 calls (3 for the shortest stack), at most 9 objects, captures cut at 4 places or padded by 20, MTUs 20 to 72; for files: names longer than allowed, packets up to and over the limit, 4 calls of the writer, 2 files of other programs in both byte orders | packets are valid (`ValidAsBuilt`), come back as they were built (`DissectsAsBuilt`), captures rebuild to their bytes (`RebuildsAsCaptured`), fragments fit and reassemble (`FragmentsReassemble`); a PCAPNG reader gets what was written, in order (`ReadsWhatWasWritten`) |
| `SavingOld` | the same as `Saving` | **violation** of `OldCompressedRefused`: a compressed LBN 1.0 file is read with guessed lengths, not refused |

Why the bounds are enough. Three sockets are two re-openings, the third of which
meets state left by two earlier lives; four frames with a ring of two reach a
full ring, a drop, a rejected frame and one more after the count. Two threads
are enough for every conflict listed: each is between two calls; with a count
of 2 one of two increments can be lost below the limit and at it. Two file
versions (one rewrite) are what a pass can mix. A sent counter and a pass counter
saturate at `MaxSent` and `MaxPass` in `Replay` only so that `loop=0` stays
finite; no test of the code reads them there. Three
files let a batch be overwritten, cut, and overwritten again; two packets in a
batch are a first, which may be whole, and a next, which may be lost.

`SuccessDurable` excepts an LBN write during which the disk was full: `lbn_save`
looks at the result of no `fwrite` and not at `fclose`, and returns 0.

Files in `Formats`: `Half` and `U16` (2^32 and 2^16) are 100, `NameMax` and
`NameCap` (65535 and 255) 5 and 4, `PCAPNG_MAX_PACKET` 8; with four calls there
is a header, an interface, and two packets of which the first may be torn. The
file is cut between words, and a reader is not asked again after an error.
A writer that goes on after an error is excepted (`tainted`): its next block is
read as the missing part.

Packets in `Formats`: two calls are what it takes to share a layer and build, to
build twice, to assign to what was built, or to fragment and rebuild; the
longest stack has eight layers. A cut at 13, 16, 30 and 41 bytes is inside
and behind the Ethernet, tag, IP and transport headers. The minimum MTU
of IPv6 (1280) is scaled to 72, and 7 stands for the random identification.
The properties of packets are about those that nothing is known to spoil:

* `Pure`: no length or checksum in the packet was computed when a layer was
  under other headers, over another payload, or differently assigned.
  `build()` fills in such numbers once and keeps them, so after an assignment
  or a second use they are stale. The tags of an Ethernet or Dot3 frame survive
  one `build()` only: the second, finding the type known, leaves them behind it.
* `Understood`: each header can name what follows it. An Ethernet frame takes
  any unknown payload for IPv4, IPv6 takes Raw for Hop-by-Hop options and has no
  number for ICMP; SlowProtocol has no parser.
* `Lossy`: extension headers before TCP are dropped by the IPv6 parser, unless
  the packet is a fragment, ICMP
  stamps and masks are not rebuilt, the address of a Loopback forward message
  stays in the data, and a packet on a raw IP link goes to the IPv4 parser,
  which answers None for IPv6.
* `Unfaithful`: tags and lengths of zero are rebuilt differently.
* A fragment of a fragment, and a packet whose outermost layer is not IP, are
  not put together again by `FragmentsReassemble`. It has every later fragment
  dissected too, as a fragment with all its headers and its data, except of an
  IPv6 packet whose payload begins with an extension header: the parser goes on
  reading extension headers in every fragment (`ipv6.py:220`).

None of this is contradicted by a document, so none of it is a finding; the
model has all of it. Two more stay outside the instances: a frame with one service tag and no other makes the VLAN
parser raise, and the whole packet is Raw; a list of options that ends early is
rebuilt shorter.

Filters left out of `Bpf`. The code gives some filters another meaning than
their words, mostly because flags set while one part of an expression is
compiled are seen by the next:

* `not tcp`, `tcp or udp`, `(tcp or udp) and not dst port 53` and `ip and (port
  80 or port 443)` are listed in `LightBPF/README.md` (161, 181) and go wrong:
  they are the run `BpfTransport`. Each of the four violates the property alone.
* `ip proto tcp` is listed there, too (180), and raises: a name after `proto` is
  not resolved (`Compiler.py:1034-1035`). There is no program to ask, so the
  filter is in no run. `net N` and `icmp6` raise as well.
* `ip or tcp`, `port` after `arp` or another Ethernet type, other pairs of
  different transport tests under `or`, `vlan and` a test of hosts, transport
  fields or the length, a bare `proto N`, and a mask test with `<` or `<=` (no
  jump is emitted). The grammar in the documents allows them, but no document
  lists one of these combinations.
* `net ::/0` before a long test: optimising it would make a jump too long for
  its 8 bits, which the optimiser does not test (`Peephole.py:141`). So
  `AttachedWhole` says this of the instance's filters, not of every filter.

Deadlock is not checked: each system may really stop (all frames heard, all
calls returned).

`FilterHonoured` in `SnifferOwner` excludes the failures `"link"` (the run
`SnifferRetry` shows what it does) and `"filter"` (the code ignores the result
of `set_filter()`); `ImplementsFeed` too.

### Fairness

* Sniffer: `WF(Run(t))` – a thread that can run does; every wait has a poll
  timeout (`per_recv_timeout`). `WF(Consume(t))` – `start()`'s own loop comes
  back for the next frame or its callback raises. `WF(Expire(t))` – the clock
  advances. Nothing is assumed of traffic, of `stop()` or of failures.
* SendRecv: the deadline arrives and the call runs. A frame need not come; a
  `recvl2` without a deadline is not promised to return.
* Replay: the one thread runs, `time.sleep()` is finite.

## What is proved

The theorems hold for every value of the constants that meets the named
assumptions (`SocketAssumption`, `SnifferAssumption`, `SendRecvAssumption`,
`ReplayAssumption`, `SavingAssumption`, `DataAssumption` and `SizeAssumption` of
`Pcapng`, `ProgramsAssumption` and `MaxOffsetAssumption` of LightBPF), where a
run is one small instance. They cover every invariant and both refinements that
the runs of the Sniffer, the socket calls, replay and the write streams check,
what is checked of PCAPNG files for those of this library's own writer, and the
BPF optimiser. The proofs about the Sniffer, the socket calls, replay and the
write streams start from type correctness, which says that every step is defined
(a frame about to be handed over came from a ring, a packet about to be sent
from the reader).

`SnifferProofs`, for any number of threads, sockets and frames:

* `CountCorrect` – `[]CountHonest`: the limit ends no capture short. A store is
  one more than a load, and what was loaded is at most what had been handed out
  (`CountInv`), whichever increments get lost between the two.
* `LimitCorrect` – `Spec => LimitLasts`: once the limit is reached and no thread
  holds an older count, no generator asks for another frame, ever.
  By how much threads that share a Sniffer overshoot the limit before that is
  not claimed: a thread that is suspended between load and store can take the
  count back by any number, so the code has no bound. (For one owner
  `PacketFeed` has it: `count` and no more.)
* `LateCorrect` – a thread that has its late frame can only leave: it cannot pass
  `Loop` again, since `stop` is never cleared.
* `LeakCorrect` – `[]NoLeak`. A socket in `_sock` always has a thread that is not
  at rest (or is stuck in a failed `_open()`), and a handle freed but not yet
  marked is in the hands of the thread that will mark it (`LeakInv`).
* `OwnerSafe` (assuming one thread) – the socket a step works on is the one in
  `_sock`, open unless `_close()` is in progress; hence no undefined call. Two
  threads refute it: `SnifferThreads`.

`SnifferFeedProofs`, for one thread (`SoleOwner`), and a filter that is absent or
installed by every `_open()` (`FilterSure`: the failures `"link"` and `"filter"`
do not happen; `SnifferRetry` shows that the first alone refutes the claim):

* `FeedCorrect` – `Spec => ImplementsFeed`, and `FilterCorrect` –
  `[]FilterHonoured`. `FeedInv` has five parts: the only open socket is the
  Sniffer's and all others buffer nothing (`HeldInv`, without which an older
  socket could hold older frames); outside `_open()` that socket runs the filter
  and buffers only what it accepts (`FilterInv`); frames handed over, in hand and
  buffered were heard in this order (`OrderInv`), which is why none comes twice;
  they are wanted (`WantedInv`); and `captured` is what this owner got, below the
  limit when a frame is on its way (`TallyInv`). Then `HearFrame` is `HearNext`,
  `Tally` is `Deliver`, a first `Stop` or `Interrupt` is `AskStop`, and every
  other step leaves the feed as it is.

`SendRecvProofs`, for any sockets, filters, counts and traffic:

* `AgreeCorrect` – `self._filter` and the installed program change together or
  not at all.
* `BorrowCorrect` – the program in force at the start is what `original_filter`
  means, and restoring installs it.
* `CountCorrect` – a call that waits has less than its count (`CollectInv`).
* `FilterCorrect` – from the installation of a call's filter until the call
  leaves the loop, program and ring are those of the filter, because installing
  re-filters the ring (`ForceInv`).

`ReplayProofs`, for every set of files, rewrites, loops and counts:

* `LateCorrect` – a packet can be late only if `stop_event` was set
  after the test at line 58, and the next test ends the call.
* `PassCorrect` – `[]PassFaithful`. Unless the file was rewritten while the
  reader was reading it, the packets sent, those the reader has and those it has
  yet to read make up the file it opened, in order; and the count has not been
  exceeded (`PassInv`). A rewrite after the last read of a PCAP or LBN file
  touches none of these; one before it does mix two files, and then only the
  count is claimed.
* `TotalCorrect` – `[]TotalSent`. Before pass *k*, `sent` is *k* - 1 whole
  shares; within it, that and the length of `out` (`TotalInv`). Assumes
  `Uncapped`: the model's bound on `sent` is not met by a whole call.

`SavingProofs`, for every set of packets, batch and fault:

* `DurableCorrect` – `[]SuccessDurable`. While a batch is written, file and
  stdio's buffer together are the header and the records put so far, or there is
  a gap that only the LBN writer overlooks (`WriteInv`); so when `fclose()` has
  emptied the buffer and the write returned True, the file is the batch
  (`DoneInv`).
* `StoreCorrect` – `Spec => ImplementsStore`. What is in the file always began
  the batch it was last created for (`FileInv`), so each step either starts
  anew or lets the whole records grow. The lemma `GuessedStarts` (what a reader
  makes of a torn LBN 1.0 file is a start of its records) is an induction on the
  first bad record, by the library's theorem on well-founded minima.

`PcapngProofs`, for every set of packets, names and times, and every file that
`PcapngWriter` writes (`PcapngSpec /\ Empty`):

* `ReaderBetweenBlocks` – `[]ReadInv`, the inductive invariant. As long as the
  writer is not used again after an error, its blocks follow each other without a
  gap from the section header on (`ChainInv`, over the history `made`); the file
  is a start of their words, all of them if nothing was lost (`FileInv`); and the
  reader stands right after one of them and has given the interfaces and packets
  that were made up to there (`ReaderInv`). What the reader gave has to be told
  from where it stands, not from what is in the file: a packet that is still in
  stdio's buffer when the reader comes by must not be skipped, and one cut by a
  crash must not be given. Once the writer is used after an error nothing is
  claimed but that a part was lost (`tainted => lost`).
* `ReadsItsOwnFiles` – `[]ReadsWhatWasWritten`. The proof goes word by word
  through a block: `EpbWords` and `IdbWords` say what the writer puts where,
  `ReadsEpb` and `ReadsIdb` what the reader makes of those words, given that all
  of them are there, or that the file ends among them. The loop over an
  interface's options is a recursive function; that there is one (`IfNameDef`)
  follows from the library's well-founded minima, since each turn goes forward.

`BpfProofs`, for every program whose jumps go forward (`Seq(Instruction)`), of
any length, and every packet; nothing is assumed of the word size or of the bitwise
operators:

* `OptimizeKeepsAnswers` – `Optimize(c)` is again such a program, and
  `Execute(Optimize(c), p) = Execute(c, p)`. `From(c, p, a, r)` is the answer from
  instruction *a* on with registers *r*; since every step goes forward, a run has
  halted after as many steps as there are instructions (`RunDef`), and `From` at
  *a* is `From` at what comes after it (`FromStep`). Each pass is then compared
  with its input from the end backwards: if two programs differ from an address
  on, they differ from a later one on, and there is no such ascent (`NoAscent`).
  - Jump threading (`ThreadJumpsKeep`): a chain of `ja` only goes forward and the
    answer is the same all along it (`FollowForward`). The pass rewrites the code
    it reads, one instruction after another, so the lemma is about one of those
    steps (`ThreadedKeeps`).
  - Dropping instructions (`DropInsnsKeep`): `NewTargetIs` says where each address
    goes. A kept one goes to its place, a removed one where the next kept one goes,
    or past the end, and a jump over removed instructions stays a forward jump.
    Then a removed no-op, like the instruction after it, starts the same answer,
    and a kept one does what it did and goes on where its successor went
    (`DroppedInsns`), for any set of addresses closed under what can come next
    (`Closed`).
  - For no-op removal that set is every address. For dead code it is `Reachable`,
    which is closed because what a round of the search adds lies after what added
    it: as many rounds as there are instructions are enough (`ReachableIs`).
* `OptimizerCorrect` – `LoadSpec => OptimizerKeepsAnswers`, by the invariant that a
  program not yet attached is a sequence of such instructions. That the
  compiler's programs are, too, is what `TypeOK` says in the run `Bpf`.

* `KernelAnswers` – packing cuts every distance to a byte, and the kernel's program
  still answers like the compiled one, if no optimised jump is longer than that
  (`Encodable`). This is a hypothesis and not a result, because threading can
  lengthen a jump; for the instance's programs it is part of `AttachedWhole`.

Each inductive invariant was given to TLC as an invariant of a run before it
was proved (that of `OptimizerCorrect` as part of `Bpf`'s `TypeOK`).

Only model-checked: liveness (`StopEnds`, `TimeoutEnds`, `Returns`, `Ends`,
`StopSeen`), which is outside the prover; PCAPNG files of other programs, with
the other byte order and unknown blocks; of LightBPF the lexer, the parser, the
compiler and the assembler (`TypeOK`, `ParsesAsWritten`, `FilterMeansWhatItSays`
and `AttachedWhole` of `Bpf`); and `Packets`. The last two rest on recursive
operators, for which the prover has no SMT backend, and on what those compute for
every input, which would take inductions over trees and byte strings.

## Plan

Done: `L2Socket`, `Sniffer`, `SendRecv`, `Replay`, `Saving` with the abstract
`PacketFeed` and `CaptureStore`; `Bpf`; `Pcapng`; `Packets`, with headers, layer
objects and fragmentation in one module rather than one each, since the
fragments have to be built and parsed again to say anything about them; the
proofs of all invariants and refinements of the first four; the proof that a
PCAPNG reader gets what this library's own writer wrote; the proof that the
BPF optimiser changes no answer.

## Not modelled

* EAPOL, 802.11 and Linux cooked frames, and with them the detector's link types
  for those: more codecs of the scheme that `PacketBuild` and `PacketParse`
  have, without protocol state. Values that do not fit their field
  (`struct.error`), the text form of addresses and TCP flags, and printing.
* L2Packet and the ARP scan: the receive loop and the exchange are those of
  `SendRecv`; the rest is one kernel call after another, and a pool of probes
  that share nothing.
* CIDR ranges: address arithmetic, for the tests.
* Interface enumeration (operating-system queries), configuration, constants,
  the disassembler's output and logging.
* A BPF compiler object used for a second expression: `compile_str` makes a new
  one each time. The regular expression of the lexer, which takes some IPv6
  groups for MAC addresses.
