------------------------------- MODULE Packets ------------------------------
(***************************************************************************)
(* A program that makes packets: layers are stacked, changed, built,       *)
(* fragmented and shared between packets; what is sent is captured, whole, *)
(* cut short or padded, and dissected.                                     *)
(***************************************************************************)
EXTENDS PacketBuild, PacketParse, FiniteSets

CONSTANTS
  Starts,    \* what programs begin with: <<a packet's layers, steps they have>>
  Spares,    \* a sequence of single layers it has besides
  Edits,     \* assignments: <<class, field, value>>
  Bindings,  \* what a parser can be registered for: <<kind, number>>
  Cuts,      \* how many bytes a capture keeps
  Pads,      \* how many bytes of padding a frame gets
  Mtus, Idents, MinMtu6,  \* link MTUs; 1280, the least for IPv6
  MaxHeap    \* objects (bound)

VARIABLES
  heap,     \* the layer objects
  bound,    \* registry.bindings
  out,      \* the last packet built
  got,      \* the last packet dissected
  split,    \* the last packet fragmented
  edited,   \* history: how often each object was assigned to
  seen,     \* history: what each object's own numbers were computed from
  steps     \* steps the program has left (bound)

packetVars == <<heap, bound, out, got, split, edited, seen, steps>>

Nothing == [bytes |-> <<>>, layers |-> <<>>, pure |-> FALSE, sent |-> <<>>]
NoSplit == [from |-> Nothing, mtu |-> 0, parts |-> <<>>]

-----------------------------------------------------------------------------
(* Where the numbers in a packet come from                                 *)

(* Transport checksums are over the addresses of the nearest IP header.    *)
Base(h, c, k) ==
  LET ips == {j \in 1 .. k : h[c[j]].name \in {"IPv4", "IPv6"}}
  IN IF h[c[k]].name \in {"UDP", "TCP", "ICMP"} /\ ips # {}
     THEN CHOOSE j \in ips : \A m \in ips : m <= j ELSE k

(* The objects, each with its age, that layer k of chain c depends on.     *)
Depends(h, c, k) == [j \in 1 .. (Len(c) - Base(h, c, k) + 1) |->
                       LET x == c[j + Base(h, c, k) - 1] IN <<x, edited[x]>>]

SelfContained == {"Raw", "Fragment", "Custom", "ARP", "STP", "Loopback", "SlowProtocol"}

(* No number was computed from anything else than what is there now; tags  *)
(* survive one build() only, for the type is known at the second.          *)
Pure(h, i) ==
  LET c == Chain(h, i)
  IN \A k \in DOMAIN c :
       /\ h[c[k]].name \in SelfContained \/ seen[c[k]] \in {<<>>, Depends(h, c, k)}
       /\ \/ h[c[k]].name \notin {"Ethernet", "Dot3"} \/ NameOf(h, h[c[k]].next) # "VLAN"
          \/ seen[c[k]] = <<>>

Seen(h, i) ==
  LET c == Chain(h, i)
  IN [x \in DOMAIN seen |->
        IF seen[x] = <<>> /\ \E k \in DOMAIN c : c[k] = x
        THEN Depends(h, c, CHOOSE k \in DOMAIN c : c[k] = x) ELSE seen[x]]

(* What a packet on a link begins with.                                    *)
Outer == {"Ethernet", "Dot3", "PPP", "IPv4", "IPv6"}

(* What a header can say of the layer after it, and the parser knows.      *)
Announces(l, name) ==
  CASE l.name = "Ethernet" ->
         \/ name \in {"ARP", "IPv4", "IPv6", "PPPoE", "PPP2b", "Loopback"}
         \/ name = "Custom" /\ <<"ethertype", l.f.ethertype>> \in bound
    [] l.name = "Dot3" -> name = "LLC"
    [] l.name = "LLC" ->
         \/ name = "SNAP"
         \/ name = (IF <<"dsap_ssap", <<l.f.dsap, l.f.ssap>> >> \in bound THEN "Custom" ELSE "STP")
    [] l.name = "SNAP" -> name \in {"ARP", "IPv4", "IPv6", "PPPoE", "PPP2b", "Raw"}
    [] l.name \in {"PPP", "PPP2b"} -> name \in {"IPv4", "IPv6"}
    [] l.name = "PPPoE" -> (name = "PPP2b") = (l.f.code = 0 /\ l.f.ssid # 0)
    [] l.name = "IPv4" -> name \in {"UDP", "TCP", "ICMP", "Raw"}
    [] l.name = "IPv6" -> name \in {"UDP", "TCP", "IPv6ExtHeader"}
    [] l.name = "IPv6ExtHeader" -> name \in {"UDP", "Raw", "IPv6ExtHeader"}
    [] l.name \in {"UDP", "TCP", "ICMP"} -> name = "Raw"
    [] OTHER -> FALSE

Untagged(ls) == SelectSeq(ls, LAMBDA l : l.name # "VLAN")

Understood(ls) ==
  LET u == Untagged(ls)
  IN /\ ls[1].name \in Outer
     /\ \A k \in 1 .. Len(u) - 1 : Announces(u[k], u[k + 1].name)

Built(r, i) ==
  [bytes |-> r.bytes, layers |-> Layers(r.h, i), pure |-> Pure(heap, i), sent |-> <<>>]

-----------------------------------------------------------------------------
(* The program                                                             *)

Step == steps > 0 /\ steps' = steps - 1 /\ got' = Nothing

(* A step that leaves the packets behind that were built before.           *)
Turn == Step /\ out' = Nothing /\ UNCHANGED bound

(* i / j, where j may already be the payload of another packet.            *)
Stack(i, j) ==
  /\ Turn /\ heap' = Divide(heap, i, j) /\ Len(heap') <= MaxHeap
  /\ LET c == Chain(heap, i)
     IN /\ seen' = seen \o [k \in DOMAIN c |-> seen[c[k]]]
        /\ edited' = edited \o [k \in DOMAIN c |-> 0]
  /\ split' = NoSplit

(* i.set_payload(j): j goes after the last layer of i, in place.  A layer  *)
(* is not put after itself: the chain would have no end.                   *)
SetPayload(i, j) ==
  /\ Turn /\ Last(Chain(heap, i)) \notin Range(Chain(heap, j))
  /\ heap' = [heap EXCEPT ![Last(Chain(heap, i))].next = j]
  /\ split' = NoSplit /\ UNCHANGED <<seen, edited>>

Assign(i, e) ==
  /\ Turn /\ heap[i].name = e[1] /\ heap[i].f[e[2]] # e[3]
  /\ heap' = Set(heap, i, e[2], e[3])
  /\ edited' = [edited EXCEPT ![i] = @ + 1]
  /\ split' = NoSplit /\ UNCHANGED seen

BuildPacket(i) ==
  /\ Step
  /\ \E r \in {Build(heap, i)} : heap' = r.h /\ out' = IF r.ok THEN Built(r, i) ELSE Nothing
  /\ seen' = Seen(heap, i)
  /\ split' = NoSplit /\ UNCHANGED <<bound, edited>>

(* register() and unregister().                                            *)
Bind(parsers) ==
  Step /\ bound' = parsers /\ split' = NoSplit /\ UNCHANGED <<heap, out, seen, edited>>

Register(b) == Bind(bound \cup {b})
Unregister(b) == b \in bound /\ Bind(bound \ {b})

-----------------------------------------------------------------------------
(* What was sent comes back: whole, cut at the snap length, or padded to   *)
(* the least length of the link.                                           *)
Dissect(bytes, linktype) ==
  /\ out # Nothing
  /\ got' = [bytes |-> bytes, layers |-> Detect(bytes, linktype, bound),
             pure |-> out.pure /\ bytes = out.bytes /\ Understood(out.layers),
             sent |-> out.layers]
  /\ UNCHANGED <<heap, bound, out, split, edited, seen, steps>>

LinkOf(l) == CASE l.name = "PPP" -> 9 [] l.name \in {"IPv4", "IPv6"} -> 101 [] OTHER -> 1

Capture ==
  /\ got = Nothing
  /\ \E bytes \in {out.bytes} \cup {Slice(out.bytes, 1, n) : n \in Cuts}
                              \cup {out.bytes \o Zeros(n) : n \in Pads} :
       Dissect(bytes, IF out = Nothing THEN 1 ELSE LinkOf(out.layers[1]))

-----------------------------------------------------------------------------
(* utils/fragmentation.py                                                  *)

(* Mutant of DataPerFragment: the units of eight bytes are forgotten.      *)
DataAll(mtu, header) == mtu - header

DataPerFragment(mtu, header) == 8 * ((mtu - header) \div 8)

(* The chunks of a payload: where each begins, counted from zero.          *)
Offsets(payload, size) == [k \in 1 .. ((Len(payload) + size - 1) \div size) |-> (k - 1) * size]
Chunk(payload, offset, size) == Slice(payload, offset + 1, offset + size)

Fragments4(ip, payload, size, ident) ==
  LET at == Offsets(payload, size)
      more(k) == IF k < Len(at) THEN 1 ELSE 0
  IN [k \in DOMAIN at |->
        << [ip EXCEPT !.f.version = 4, !.f.checksum = None, !.f.id = ident, !.f.flags = more(k),
                      !.f.frag_offset = at[k] \div 8,
                      !.f.total_len = 4 * ip.f.ihl + Len(Chunk(payload, at[k], size))] >>
        \o Fragment(Chunk(payload, at[k], size))]

(* A next header of 0, which is Hop-by-Hop, counts as none.                *)
Fragments6(ip, payload, size, ident) ==
  LET at == Offsets(payload, size)
      more(k) == IF k < Len(at) THEN 1 ELSE 0
      ext(k) == Layer("IPv6ExtHeader",
                  [type |-> EXT_FRAGMENT, pseudo |-> NoBytes,
                   next_header |-> IF ip.f.next_header \in {None, 0} THEN 59 ELSE ip.f.next_header],
                  <<0>> \o Be(8 * (at[k] \div 8) + more(k), 2) \o Be(ident, 4), <<>>)
  IN [k \in DOMAIN at |->
        << [ip EXCEPT !.f.version = 6, !.f.next_header = EXT_FRAGMENT,
                      !.f.payload_len = 8 + Len(Chunk(payload, at[k], size))], ext(k) >>
        \o Fragment(Chunk(payload, at[k], size))]

(* The fragments of packet i; none where the code raises, and where the    *)
(* packet fits, for it is then returned as it is.  ident is the caller's,  *)
(* or the random one, or None: then the packet's own is used.              *)
Parts(ip, payload, mtu, ident) ==
  IF ip.name = "IPv4"
  THEN Fragments4(ip, payload, DataPerFragment(mtu, 4 * ip.f.ihl), ident)
  ELSE Fragments6(ip, payload, DataPerFragment(mtu, 40 + 8), ident)

HeaderLen(ip) == IF ip.name = "IPv4" THEN 4 * ip.f.ihl ELSE 40

Split(i, x, r, mtu, ident) ==
  LET ip == [r.h[x] EXCEPT !.next = NoLayer]
      fits == Len(r.bytes) <= mtu
      room == DataPerFragment(mtu, HeaderLen(ip) + IF ip.name = "IPv4" THEN 0 ELSE 8) > 0
  IN /\ r.ok
     /\ heap' = r.h /\ seen' = Seen(heap, i)
     /\ split' =
          IF fits \/ ~room THEN NoSplit
          ELSE [from |-> Built(r, i), mtu |-> mtu,
                parts |-> Parts(ip, From(r.bytes, HeaderLen(ip) + 1), mtu,
                                IF ident = None THEN ip.f.id ELSE ident)]

(* Not to be fragmented, or an MTU that IPv6 does not allow.               *)
Unsplittable(l, mtu) ==
  \/ l.name = "IPv4" /\ (l.f.flags \div 2) % 2 = 1
  \/ l.name = "IPv6" /\ mtu < MinMtu6

FragmentPacket(i, name, mtu, ident) ==
  \E x \in {FirstOf(heap, i, name)} \ {NoLayer} :
    /\ Turn /\ ~Unsplittable(heap[x], mtu)
    /\ ident = None => name = "IPv4" /\ heap[x].f.id # 0
    /\ \E r \in {Build(heap, i)} : Split(i, x, r, mtu, ident)
    /\ UNCHANGED edited

-----------------------------------------------------------------------------
PacketInit ==
  /\ \E s \in Starts : heap = Load(<<>>, s[1]) \o Spares /\ steps = s[2]
  /\ bound = {} /\ out = Nothing /\ got = Nothing /\ split = NoSplit
  /\ edited = [x \in DOMAIN heap |-> 0] /\ seen = [x \in DOMAIN heap |-> <<>>]

PacketNext ==
  \/ \E i, j \in DOMAIN heap : Stack(i, j) \/ SetPayload(i, j)
  \/ \E i \in DOMAIN heap, e \in Edits : Assign(i, e)
  \/ \E i \in DOMAIN heap : BuildPacket(i)
  \/ \E b \in Bindings : Register(b) \/ Unregister(b)
  \/ \E i \in DOMAIN heap, name \in {"IPv4", "IPv6"}, mtu \in Mtus, ident \in Idents :
       FragmentPacket(i, name, mtu, ident)
  \/ Capture

PacketSpec == PacketInit /\ [][PacketNext]_packetVars

-----------------------------------------------------------------------------
(* The bytes from layer k on.                                              *)
RECURSIVE Wire(_, _, _)
Wire(bytes, ls, k) ==
  IF k = 1 THEN bytes ELSE From(Wire(bytes, ls, k - 1), Len(Header(ls[k - 1])) + 1)

Number(b, i) == Num(Slice(b, i, i + 1))

(* The checksum of transport layer k, under the addresses above it.        *)
ChecksumRight(ls, k, w) ==
  LET ips == {j \in 1 .. k : ls[j].name \in {"IPv4", "IPv6"}}
      ip == ls[CHOOSE j \in ips : \A m \in ips : m <= j]
  IN verify_transport_checksum(ip.f.src, ip.f.dst, ProtoOf(ls[k].name), w)

(* Every length says how long what it counts is, every checksum verifies.  *)
LayerValid(ls, k, w) ==
  CASE ls[k].name = "Dot3" ->
         LET t == 4 * Cardinality({j \in DOMAIN ls : ls[j].name = "VLAN"})
         IN Number(w, 13 + t) = Len(w) - 14 - t
    [] ls[k].name = "PPPoE" -> Number(w, 5) = Len(w) - 6
    [] ls[k].name = "IPv4" -> /\ Number(w, 3) = Len(w)
                              /\ verify_ipv4_header(Slice(w, 1, 4 * (w[1] % 16)))
    [] ls[k].name = "IPv6" -> Number(w, 5) = Len(w) - 40
    [] ls[k].name = "UDP" -> Number(w, 5) = Len(w) /\ ChecksumRight(ls, k, w)
    [] ls[k].name = "TCP" -> ChecksumRight(ls, k, w)
    [] ls[k].name = "ICMP" -> ones_complement(w) = 0
    [] OTHER -> TRUE

(* ValidAsBuilt: a packet whose numbers were not computed for another one  *)
(* has right lengths and checksums wherever it was left to the program to  *)
(* find them, also when its layers are shared with other packets, were     *)
(* copied, or are built again unchanged.  Numbers computed once are kept:  *)
(* after an assignment or under another header they are stale.             *)
ValidAsBuilt ==
  out.pure /\ Understood(out.layers) =>
    \A k \in DOMAIN out.layers : LayerValid(out.layers, k, Wire(out.bytes, out.layers, k))

(* The same layer, but for the zeros that fill it up.                      *)
SameLayer(sent, back) ==
  /\ sent.name = back.name
  /\ \A k \in DOMAIN LayoutOf(sent) :
       LET x == LayoutOf(sent)[k][1]
       IN \/ sent.f[x] = back.f[x]
          \/ sent.f[x] = NoBytes /\ back.f[x] = Zeros(4)
  /\ IsPrefix(sent.opts, back.opts)
  /\ \A k \in Len(sent.opts) + 1 .. Len(back.opts) : back.opts[k].type = 0
  /\ IsPrefix(sent.data, back.data)
  /\ \A k \in Len(sent.data) + 1 .. Len(back.data) : back.data[k] = 0

(* What a parser drops or misplaces: a forward message of Loopback, stamps *)
(* and masks of ICMP, the extension headers before TCP, and a whole packet *)
(* that begins with IPv6: its link type is given to the parser of IPv4.    *)
Lossy(ls) ==
  \/ ls[1].name = "IPv6"
  \/ \E k \in DOMAIN ls :
       \/ ls[k].name = "Loopback" /\ ls[k].f.func = 512
       \/ ls[k].name = "ICMP" /\ ls[k].f.type \in {13, 14, 17, 18}
       \/ ls[k].name = "IPv6" /\ ls[k].f.next_header \in EXT_HEADERS
            /\ k < Len(ls) /\ ls[k + 1].name = "TCP"

(* DissectsAsBuilt: a packet that arrives whole comes back as the layers   *)
(* it was built from, each with its fields, through every parser on the    *)
(* way, when each header can say what follows it and no parser is lossy.   *)
DissectsAsBuilt ==
  got.pure /\ ~Lossy(got.sent) =>
    /\ Len(got.layers) = Len(got.sent)
    /\ \A k \in DOMAIN got.layers : SameLayer(got.sent[k], got.layers[k])

(* What the same fields build differently: the tags of a frame whose type  *)
(* is known, and a length of zero, which build() replaces.                 *)
Unfaithful(ls) ==
  \/ Lossy(ls)
  \/ \E k \in DOMAIN ls : \/ ls[k].name = "VLAN"
                          \/ ls[k].name = "Dot3" /\ ls[k].f.length = 0
                          \/ ls[k].name = "PPPoE" /\ ls[k].f.lenght = 0

(* RebuildsAsCaptured: what a capture was dissected into, whether it is    *)
(* whole, cut anywhere or padded, builds into the captured bytes again;    *)
(* only what comes after the end of the packet may be missing, and only    *)
(* after a layer that knows where it ends.                                 *)
RebuildsAsCaptured ==
  got.layers # <<>> /\ ~Unfaithful(got.layers) =>
    LET r == Build(Load(<<>>, got.layers), 1)
    IN /\ r.ok /\ IsPrefix(r.bytes, got.bytes)
       /\ \/ Len(r.bytes) = Len(got.bytes)
          \/ \E k \in DOMAIN got.layers : got.layers[k].name \in {"UDP", "IPv6", "ARP", "STP"}

(* FragmentsReassemble: the fragments of a packet that is not itself one   *)
(* fit the MTU, name each other's places, verify, and put together in that *)
(* order they are the payload; the parser of its version takes each but    *)
(* the first for a fragment, with all its headers.  Under IPv6 the type of *)
(* what is inside is kept unless it is zero; what begins with an extension *)
(* header of another type is parsed for one in every fragment.             *)
FragmentsReassemble ==
  LET parts == split.parts
      n == Len(parts)
      wire == [k \in DOMAIN parts |-> Build(Load(<<>>, parts[k]), 1).bytes]
      data == [k \in DOMAIN parts |-> parts[k][Len(parts[k])].data]
      first == split.from.layers[1]
      back == [k \in DOMAIN parts |-> Parse(first.name, wire[k], {})]
      names(ls) == [j \in DOMAIN ls |-> ls[j].name]
      headers == Len(wire[1]) - Len(data[1])
  IN parts # <<>> /\ (parts # <<>> => first.name = parts[1][1].name) =>
       /\ first.name = "IPv6" \/ FlattenSeq(data) = From(split.from.bytes, headers + 1)
       /\ first.name = "IPv4" \/ FlattenSeq(data) = From(split.from.bytes, 41)
       /\ \A k \in DOMAIN parts :
            LET before == Len(FlattenSeq(SubSeq(data, 1, k - 1)))
                last == k = n
            IN /\ Len(wire[k]) <= split.mtu /\ data[k] # <<>>
               /\ k = 1 \/ (first.name = "IPv6" /\ first.f.next_header \in EXT_HEADERS \ {0})
                  \/ /\ names(back[k]) = names(parts[k])
                     /\ Last(back[k]).data = data[k]
               /\ IF first.name = "IPv4"
                  THEN /\ Number(wire[k], 7) = (IF last THEN 0 ELSE 8192) + before \div 8
                       /\ before % 8 = 0
                       /\ verify_ipv4_header(SubSeq(wire[k], 1, headers))
                       /\ Number(wire[k], 3) = Len(wire[k]) /\ wire[k][10] = first.f.proto
                  ELSE /\ Number(wire[k], 43) = before + (IF last THEN 0 ELSE 1)
                       /\ before % 8 = 0
                       /\ Number(wire[k], 5) = Len(wire[k]) - 40
                       /\ (first.f.next_header # 0 => wire[k][41] = first.f.next_header)

=============================================================================
