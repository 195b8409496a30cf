---------------------------- MODULE PacketParse -----------------------------
(***************************************************************************)
(* The parsers: from bytes to a sequence of layers.  The empty sequence is *)
(* the answer None; Raised stands for an exception on its way up.  Each    *)
(* parser below gives its own layers, the bytes it leaves, and the name of *)
(* the parser that gets them; Parse runs one after the other.              *)
(***************************************************************************)
EXTENDS Layers

Raised == << Layer("raised", [x |-> 0], <<>>, <<>>) >>
Failed(ls) == IF ls = <<>> THEN FALSE ELSE ls[1].name = "raised"

Raw(b) == << Layer("Raw", [x |-> 0], b, <<>>) >>
Fragment(b) == << Layer("Fragment", [x |-> 0], b, <<>>) >>
Custom(b) == << Layer("Custom", [x |-> 0], b, <<>>) >>

(* The layers ls, whose rest the parser of this name gets; the last ones.  *)
Leaves(ls, rest, then) == [ls |-> ls, rest |-> rest, then |-> then]
Stops(ls) == Leaves(ls, <<>>, "Raw")

(* A parser that needs n bytes raises on fewer.                            *)
Needs(n, b, parsed) == IF Len(b) < n THEN Stops(Raised) ELSE parsed

(* The header of a class over the first bytes; extra are its attributes    *)
(* that are not in every header.                                           *)
Parsed(name, b, extra) == Layer(name, Unpack(Layout(name, 0), b) @@ extra, <<>>, <<>>)
NoExtra == [x |-> 0]

-----------------------------------------------------------------------------
(* Transport                                                               *)

(* A length too small to be true is ignored.                               *)
UdpPayload(b, length) == IF length >= 8 THEN Slice(b, 9, length) ELSE From(b, 9)

UdpOf(l, b) == Leaves(<<l>>, UdpPayload(b, l.f.length), "Raw")
Udp(b) == Needs(8, b, UdpOf(Parsed("UDP", b, NoExtra), b))

TcpOf(l, o, b) ==
  LET size == 4 * l.f.data_offset
  IN IF size < 20 \/ Len(b) < size \/ ~o.ok THEN Stops(Raised)
     ELSE Leaves(<< [l EXCEPT !.opts = o.opts, !.f.zero = 0] >>, From(b, size + 1), "Raw")

Tcp(b) ==
  Needs(20, b, TcpOf(Parsed("TCP", b, NoExtra), ParseOptions(Slice(b, 21, 4 * (b[13] \div 16))), b))

(* The stamps and the mask are taken out of the payload.                   *)
Taken(type, size) == CASE type \in {13, 14} /\ size >= 20 -> 12
                       [] type \in {17, 18} /\ size >= 12 -> 4
                       [] OTHER -> 0

Icmp(b) ==
  Needs(8, b,
    Leaves(<< Layer("ICMP", [zero |-> 0] @@ Unpack(Layout("ICMP", b[1]), b), <<>>, <<>>) >>,
           From(b, 9 + Taken(b[1], Len(b))), "Raw"))

-----------------------------------------------------------------------------
(* Internet                                                                *)

(* IPv6ExtHeaderParser: one header of this type, and what is left.         *)
ExtSize(type, b) ==
  IF type = EXT_FRAGMENT THEN 8 ELSE IF Len(b) < 2 THEN 2 ELSE 8 * (b[2] + 1)

ExtHeader(type, b, size) ==
  Layer("IPv6ExtHeader", [type |-> type, next_header |-> b[1], pseudo |-> NoBytes],
        Slice(b, IF type = EXT_FRAGMENT THEN 2 ELSE 3, size), <<>>)

(* The extension headers ls so far, and those from this type on; offset is *)
(* that of the last fragment header.                                       *)
RECURSIVE ExtHeaders(_, _, _, _)
ExtHeaders(ls, type, b, offset) ==
  IF type \notin EXT_HEADERS \/ b = <<>> \/ Len(b) < ExtSize(type, b)
  THEN [ok |-> type \notin EXT_HEADERS \/ b = <<>>,
        ls |-> ls, type |-> type, rest |-> b, offset |-> offset]
  ELSE ExtHeaders(Append(ls, ExtHeader(type, b, ExtSize(type, b))), b[1],
                  From(b, ExtSize(type, b) + 1),
                  IF type = EXT_FRAGMENT THEN Num(Slice(b, 4, 5)) \div 8 ELSE offset)

(* Only the first fragment begins with a transport header.                 *)
AsFragment(offset) == offset # 0

TransportOf(proto, offset, others) ==
  CASE AsFragment(offset) -> "Fragment"
    [] proto = 17 -> "UDP"
    [] proto = 6 -> "TCP"
    [] proto \in others -> "ICMP"
    [] OTHER -> "Raw"

(* A packet of the other version is parsed, and the result dropped.        *)
Ipv4Of(l, o, b) ==
  CASE l.f.version = 6 -> Leaves(<<>>, b, "IPv6")
    [] l.f.version = 4 /\ l.f.ihl >= 5 /\ Len(b) >= 4 * l.f.ihl /\ o.ok ->
         Leaves(<< [l EXCEPT !.opts = o.opts] >>, From(b, 4 * l.f.ihl + 1),
                TransportOf(l.f.proto, l.f.frag_offset, {1}))
    [] OTHER -> Stops(Raised)

Ipv4(b) ==
  Needs(20, b, Ipv4Of(Parsed("IPv4", b, NoExtra), ParseOptions(Slice(b, 21, 4 * (b[1] % 16))), b))

(* TCP goes directly after IPv6, without the extension headers; a later    *)
(* fragment goes after them, whatever it is a fragment of.                 *)
DropsExtHeaders(x) == x.offset = 0 /\ x.type = 6 /\ x.rest # <<>>

Ipv6Of(l, x, b) ==
  CASE l.f.version = 4 -> Leaves(<<>>, b, "IPv4")
    [] l.f.version = 6 /\ Len(b) >= 40 + l.f.payload_len /\ x.ok ->
         LET last == TransportOf(x.type, x.offset, {})
         IN Leaves(IF DropsExtHeaders(x) THEN <<l>> ELSE <<l>> \o x.ls, x.rest, last)
    [] OTHER -> Stops(Raised)

Ipv6(b) ==
  Needs(40, b, Ipv6Of(Parsed("IPv6", b, NoExtra),
                      ExtHeaders(<<>>, b[7], Slice(b, 41, 40 + Num(Slice(b, 5, 6))), 0), b))

-----------------------------------------------------------------------------
(* Point-to-point and control.  Parsers that were registered for a number  *)
(* come first; bound is the set of <<kind, number>> that have one.         *)

ByPpp(proto) == CASE proto = 33 -> "IPv4" [] proto = 87 -> "IPv6" [] OTHER -> "Raw"

PppOf(l, b, bound) ==
  Leaves(<<l>>, From(b, 5),
         IF <<"ppp_proto", l.f.proto>> \in bound THEN "Custom" ELSE ByPpp(l.f.proto))
Ppp(b, bound) == Needs(4, b, PppOf(Parsed("PPP", b, NoExtra), b, bound))

(* It asks the registry for a tuple, which nothing is registered for.      *)
Ppp2bOf(l, b) == Leaves(<<l>>, From(b, 3), ByPpp(l.f.proto))
Ppp2b(b) == Needs(2, b, Ppp2bOf(Parsed("PPP2b", b, NoExtra), b))

PppoEOf(l, b) ==
  Leaves(<<l>>, From(b, 7), IF l.f.code = 0 /\ l.f.ssid # 0 THEN "PPP2b" ELSE "Raw")
PppoE(b) == Needs(6, b, PppoEOf(Parsed("PPPoE", b, NoExtra), b))

(* What follows these two is dropped.                                      *)
Arp(b) == Needs(28, b, Stops(<< Parsed("ARP", b, NoExtra) >>))
Stp(b) == Needs(35, b, Stops(<< Parsed("STP", b, NoExtra) >>))

(* The address of a forward message stays in the data.                     *)
LoopbackFrame(b) ==
  Needs(4, b,
    Stops(<< [Parsed("Loopback", b, [fmac |-> Zeros(6)]) EXCEPT !.data = From(b, 5)] >>))

ByPid(pid) ==
  CASE pid = ARP_var -> "ARP"
    [] pid \in {34915, 34916} -> "PPPoE"
    [] pid = 34827 -> "PPP2b"
    [] pid = IPv4_var -> "IPv4"
    [] pid = IPv6_var -> "IPv6"
    [] OTHER -> "Raw"

SnapOf(l, b) == Leaves(<<l>>, From(b, 6), ByPid(l.f.pid))
Snap(b) == SnapOf(Parsed("SNAP", b, NoExtra), b)

LlcOf(l, b, bound) ==
  LET saps == <<l.f.dsap, l.f.ssap>>
  IN Leaves(<<l>>, From(b, 4),
       CASE <<"dsap_ssap", saps>> \in bound -> "Custom"
         [] saps = <<170, 170>> /\ Len(b) >= 8 -> "SNAP"
         [] saps = <<66, 66>> -> "STP"
         [] OTHER -> "Raw")
Llc(b, bound) == LlcOf(Parsed("LLC", b, NoExtra), b, bound)

-----------------------------------------------------------------------------
(* Frames                                                                  *)

(* vlannum(): the tags at the head of b.                                   *)
RECURSIVE VlanNum(_)
VlanNum(b) == IF Len(b) >= 4 /\ Num(Slice(b, 1, 2)) \in VLAN_TPIDS
              THEN 1 + VlanNum(From(b, 5)) ELSE 0

(* Mutant of Over: a payload nobody could parse is left out.               *)
OverDropped(ls, rest) == IF rest = <<>> \/ Failed(rest) THEN ls ELSE ls \o rest

(* layer / rest: nothing can be put after a layer but another layer.       *)
Over(ls, rest) == IF rest = <<>> \/ Failed(rest) THEN Raised ELSE ls \o rest

(* Only after a service tag is there another one.                          *)
RECURSIVE Vlans(_)
VlansOf(l, rest) ==
  IF l.f.tpid = STag /\ rest # <<>> THEN Over(<<l>>, Vlans(rest)) ELSE <<l>>
Vlans(b) == IF Len(b) < 4 THEN Raised ELSE VlansOf(Parsed("VLAN", b, NoExtra), From(b, 5))

ByEtherType(type, bound) ==
  CASE <<"ethertype", type>> \in bound -> "Custom"
    [] type = 32821 -> "ARP"
    [] type = 36864 -> "Loopback"
    [] OTHER -> ByPid(type)

Addressed(name, b, number, value) ==
  Layer(name, (number :> value) @@
              [dst |-> Slice(b, 1, 6), src |-> Slice(b, 7, 12), numofvlan |-> None], <<>>, <<>>)

(* A frame with tags, by its type or its length, and the rest p.           *)
EthernetFrame(b, type, tags, p, bound) ==
  Leaves(<< Addressed("Ethernet", b, "ethertype", type) >> \o tags, p, ByEtherType(type, bound))

Dot3Frame(b, length, tags, p) ==
  Leaves(<< Addressed("Dot3", b, "length", length) >> \o tags, p,
         IF Len(p) < 3 THEN "Raw" ELSE "LLC")

(* Mutant of Tagging: service tags are not looked for.                     *)
TaggingCustomer(type) == type = CTag

Tagging(type) == type \in {CTag, STag}

(* The frame b, with its type or length from byte k + 1 on.                *)
FrameOf(b, k, type, tags, bound) ==
  CASE Len(b) < k + 2 -> Stops(Raised)
    [] type <= 1500 -> IF Failed(tags) THEN Stops(Raised)
                       ELSE Dot3Frame(b, type, tags, From(b, k + 3))
    [] k = 12 /\ type < 1536 -> Stops(Raw(b))
    [] OTHER -> IF Failed(tags) THEN Stops(Raised)
                ELSE EthernetFrame(b, type, tags, From(b, k + 3), bound)

(* Even a frame too short for its first tag has one.                       *)
Dispatch(b, bound) ==
  LET tagged == Tagging(Num(Slice(b, 13, 14)))
      k == IF tagged THEN 12 + 4 * VlanNum(From(b, 13)) ELSE 12
  IN FrameOf(b, k, Num(Slice(b, k + 1, k + 2)),
             IF tagged THEN Vlans(Slice(b, 13, k + 2)) ELSE <<>>, bound)

-----------------------------------------------------------------------------
ParserOf(name, b, bound) ==
  CASE name = "Frame" -> Dispatch(b, bound)
    [] name = "LLC" -> Llc(b, bound)
    [] name = "SNAP" -> Snap(b)
    [] name = "STP" -> Stp(b)
    [] name = "ARP" -> Arp(b)
    [] name = "Loopback" -> LoopbackFrame(b)
    [] name = "PPP" -> Ppp(b, bound)
    [] name = "PPP2b" -> Ppp2b(b)
    [] name = "PPPoE" -> PppoE(b)
    [] name = "IPv4" -> Ipv4(b)
    [] name = "IPv6" -> Ipv6(b)
    [] name = "UDP" -> Udp(b)
    [] name = "TCP" -> Tcp(b)
    [] name = "ICMP" -> Icmp(b)
    [] name = "Fragment" -> Stops(Fragment(b))
    [] name = "Custom" -> Stops(Custom(b))
    [] OTHER -> Stops(Raw(b))

(* What a parser makes of its layers and of what the next one answered:    *)
(* LLC and SNAP catch what goes wrong below, a frame is there without a    *)
(* payload, and an answer for the other version is not returned.           *)
Answer(name, parsed, below) ==
  CASE name \in {"LLC", "SNAP"} ->
         parsed.ls \o (IF below = <<>> \/ Failed(below) THEN Raw(parsed.rest) ELSE below)
    [] name = "Frame" -> IF Failed(below) THEN Raised ELSE parsed.ls \o below
    [] parsed.ls = <<>> -> IF Failed(below) THEN Raised ELSE <<>>
    [] OTHER -> Over(parsed.ls, below)

RECURSIVE Parse(_, _, _)
Continue(name, parsed, bound) ==
  IF parsed.rest = <<>> THEN parsed.ls
  ELSE Answer(name, parsed, Parse(parsed.then, parsed.rest, bound))
Parse(name, b, bound) == Continue(name, ParserOf(name, b, bound), bound)

(* DetectLayer.start(): whatever goes wrong, the whole packet is Raw.      *)
Caught(ls, b) == IF Failed(ls) THEN Raw(b) ELSE ls
Detect(b, linktype, bound) ==
  Caught(Parse(CASE linktype = 9 -> "PPP" [] linktype = 101 -> "IPv4" [] OTHER -> "Frame",
               b, bound), b)

=============================================================================
