---------------------------- MODULE PacketBuild -----------------------------
(***************************************************************************)
(* build(): the bytes of a chain of layers.  What the user left out is     *)
(* filled in on the way, and stays in the objects for the next build().    *)
(***************************************************************************)
EXTENDS Layers

CONSTANT HostAddress   \* what GetIPv4() answers

Set(h, i, field, value) == [h EXCEPT ![i].f[field] = value]
Fill(h, i, field, value) == IF h[i].f[field] = None THEN Set(h, i, field, value) ELSE h
FillBytes(h, i, field, value) == IF h[i].f[field] = NoBytes THEN Set(h, i, field, value) ELSE h

(* The numbers by which a header names the layer that follows it.          *)
EtherTypeOf(name) ==
  CASE name = "ARP" -> ARP_var
    [] name = "PPPoE" -> 34916
    [] name = "PPP2b" -> 34827
    [] name = "Loopback" -> 36864
    [] name = "IPv6" -> IPv6_var
    [] name = "SlowProtocol" -> 34825
    [] OTHER -> IPv4_var

PidOf(name) ==
  CASE name \in {"PPPoE", "PPP2b", "IPv6", "SlowProtocol"} -> EtherTypeOf(name)
    [] name = "IPv4" -> IPv4_var
    [] name = "Raw" -> 0
    [] OTHER -> ARP_var

ProtoOf(name) == CASE name = "UDP" -> 17 [] name = "TCP" -> 6 [] name = "ICMP" -> 1 [] OTHER -> 0

NextHeaderOf(h, i, otherwise) ==
  CASE NameOf(h, i) = "IPv6ExtHeader" -> h[i].f.type
    [] NameOf(h, i) \in {"UDP", "TCP"} -> ProtoOf(h[i].name)
    [] OTHER -> otherwise

-----------------------------------------------------------------------------
(* Tags                                                                    *)

(* VLAN.num(): how many tags from i on, and the layer after them.          *)
RECURSIVE Tags(_, _)
Tags(h, i) == IF NameOf(h, i) = "VLAN" THEN 1 + Tags(h, h[i].next) ELSE 0
RECURSIVE AfterTags(_, _)
AfterTags(h, i) == IF NameOf(h, i) = "VLAN" THEN AfterTags(h, h[i].next) ELSE NameOf(h, i)

(* check_layers(): a tag before another tag becomes a service tag.         *)
RECURSIVE Tagged(_, _)
Tagged(h, i) ==
  IF NameOf(h, i) = "VLAN" /\ NameOf(h, h[i].next) = "VLAN"
  THEN Tagged(Set(h, i, "tpid", STag), h[i].next) ELSE h

-----------------------------------------------------------------------------
RECURSIVE Build(_, _)

(* get_payload_bytes(); PPPoE calls build() a second time for its own.     *)
Payload(h, i) ==
  IF h[i].next = NoLayer THEN [h |-> h, bytes |-> <<>>, ok |-> TRUE]
  ELSE Build(IF h[i].name = "PPPoE" THEN Build(h, h[i].next).h ELSE h, h[i].next)

(* compute_checksum() of the transport layer l under these addresses.      *)
DataOffset(l) == (20 + Len(OptionBytes(l.opts))) \div 4

Message(l, payload) ==
  Header(IF l.name = "UDP" /\ l.f.length = None
         THEN [l EXCEPT !.f.length = 8 + Len(payload)] ELSE l) \o payload

SumOf(l, payload, src, dst) ==
  IF l.name = "ICMP" THEN ones_complement(Message(l, payload))
  ELSE transport_checksum(src, dst, ProtoOf(l.name), Message(l, payload))

Summed(g, i, payload, src, dst) ==
  Set(g, i, "checksum", SumOf([g[i] EXCEPT !.f.checksum = 0], payload, src, dst))

ComputeChecksum(r, i, src, dst) ==
  Summed(IF r.h[i].name = "TCP" THEN Set(r.h, i, "data_offset", DataOffset(r.h[i])) ELSE r.h,
         i, r.bytes, src, dst)

(* Only a checksum that is None is computed.                               *)
Checksummed(h, n, names, src, dst) ==
  IF NameOf(h, n) \in names /\ h[n].f.checksum = None
  THEN ComputeChecksum(Payload(h, n), n, src, dst) ELSE h

(* An extension header hands the addresses on.                             *)
Forwarded(h, n, src, dst) ==
  IF NameOf(h, n) = "IPv6ExtHeader" THEN [h EXCEPT ![n].f.pseudo = <<src, dst>>] ELSE h

Under4(h, i) == Checksummed(h, h[i].next, {"UDP", "TCP", "ICMP"}, h[i].f.src, h[i].f.dst)

Under6(h, i, src, dst) ==
  Forwarded(Checksummed(h, h[i].next, {"UDP", "TCP"}, src, dst), h[i].next, src, dst)

(* What build() does before it asks for the payload.                       *)
Typed(h, i, n) ==
  Set(Set(IF NameOf(h, n) = "VLAN" THEN Tagged(h, n) ELSE h,
          i, "ethertype", EtherTypeOf(AfterTags(h, n))),
      i, "numofvlan", Tags(h, n))

Sized(h, i) ==
  IF h[i].f.ihl # 0 THEN h ELSE Set(h, i, "ihl", 5 + Len(OptionBytes(h[i].opts)) \div 4)

FillIpv4(h, i, below) ==
  FillBytes(Sized(FillBytes(Fill(h, i, "proto", ProtoOf(below)), i, "src", HostAddress), i),
            i, "dst", Zeros(4))

FillIpv6(h, i) ==
  FillBytes(FillBytes(Fill(h, i, "next_header", NextHeaderOf(h, h[i].next, 0)),
                      i, "src", Zeros(16)), i, "dst", Zeros(16))

Sap(l, below) == IF below = "STP" /\ l.f.dsap = None /\ l.f.ssap = None THEN 66 ELSE 170

Before(h, i) ==
  LET l == h[i]
      below == NameOf(h, l.next)
  IN CASE l.name = "Ethernet" ->
            IF l.f.ethertype # None THEN Set(h, i, "numofvlan", 0)
            ELSE Typed(h, i, l.next)
       [] l.name = "VLAN" -> Tagged(h, i)
       [] l.name = "LLC" -> Fill(Fill(h, i, "dsap", Sap(l, below)), i, "ssap", Sap(l, below))
       [] l.name = "SNAP" -> Fill(h, i, "pid", PidOf(below))
       [] l.name \in {"PPP", "PPP2b"} ->
            IF l.f.proto = 33 /\ below = "IPv6" THEN Set(h, i, "proto", 87) ELSE h
       [] l.name = "IPv4" -> Under4(FillIpv4(h, i, below), i)
       [] l.name = "IPv6" ->
            LET g == FillIpv6(h, i) IN Under6(g, i, g[i].f.src, g[i].f.dst)
       [] l.name = "IPv6ExtHeader" ->
            LET g == Fill(h, i, "next_header", NextHeaderOf(h, l.next, 59))
            IN IF l.f.pseudo = NoBytes THEN g
               ELSE Under6(g, i, l.f.pseudo[1], l.f.pseudo[2])
       [] OTHER -> h

(* Mutant of TotalLength: the options are not counted.                     *)
TotalLengthFixed(l, payload) == 20 + Len(payload)

TotalLength(l, payload) == 4 * l.f.ihl + Len(payload)

(* What it does once the payload is built.  Dot3 takes the tags off its    *)
(* length at every build().                                                *)
After(h, i, payload) ==
  LET l == h[i]
      n == Len(payload)
      fill(field, value) == Fill(h, i, field, value)
  IN CASE l.name = "Dot3" ->
            LET g == IF l.f.length = 0 THEN Set(h, i, "length", n) ELSE h
                t == IF NameOf(h, l.next) = "VLAN" THEN Tags(h, l.next) ELSE l.f.numofvlan
            IN Set(Set(g, i, "numofvlan", t), i, "length",
                   g[i].f.length - IF t > 0 THEN 4 * t ELSE 0)
       [] l.name = "PPPoE" -> IF l.f.lenght = 0 THEN Set(h, i, "lenght", n) ELSE h
       [] l.name = "IPv4" ->
            LET g == fill("total_len", TotalLength(l, payload))
            IN Fill(g, i, "checksum", ones_complement(Header(g[i])))
       [] l.name = "IPv6" -> fill("payload_len", n)
       [] l.name = "UDP" -> Fill(fill("length", 8 + n), i, "checksum", 0)
       [] l.name = "TCP" -> Set(h, i, "data_offset", DataOffset(l))
       [] OTHER -> h

(* The tags move from the head of the payload to before the type.          *)
Frame(l, payload) ==
  LET header == Header(l)
      k == 4 * l.f.numofvlan
  IN IF l.name \in {"Ethernet", "Dot3"} /\ k > 0
     THEN Slice(header, 1, 12) \o Slice(payload, 1, k) \o From(header, 13)
            \o From(payload, k + 1)
     ELSE header \o payload

(* Refused: a type that reads as a length, or a length that reads as one.  *)
Refused(l) ==
  \/ l.name = "Ethernet" /\ l.f.ethertype < 1536
  \/ l.name = "Dot3" /\ l.f.length > 1500

(* Ethernet refuses before it asks for the payload, Dot3 after; a length   *)
(* below zero, which the tags can make of a short one, cannot be packed.   *)
Unbuilt(h) == [h |-> h, bytes |-> <<>>, ok |-> FALSE]

Framed(h, i, payload) ==
  IF h[i].name = "Dot3" /\ h[i].f.length < 0 THEN Unbuilt(h)
  ELSE [h |-> h, bytes |-> Frame(h[i], payload), ok |-> TRUE]

Around(r, i) ==
  IF ~r.ok \/ Refused(r.h[i]) THEN Unbuilt(r.h)
  ELSE Framed(After(r.h, i, r.bytes), i, r.bytes)

Outwards(p, i) ==
  IF p[i].name = "Ethernet" /\ Refused(p[i]) THEN Unbuilt(p)
  ELSE Around(Payload(p, i), i)

Build(h, i) == Outwards(Before(h, i), i)

=============================================================================
