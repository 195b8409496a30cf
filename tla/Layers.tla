------------------------------- MODULE Layers -------------------------------
(***************************************************************************)
(* Packets as the program holds them: layer objects, each with the fields  *)
(* of its class and a reference to its payload.  The objects of a program  *)
(* are a sequence, the heap; a reference is an index into it, 0 for None.  *)
(***************************************************************************)
EXTENDS Octets

NoLayer == 0

(* One object: data holds the bytes of Raw and of the classes without a    *)
(* fixed layout, opts the options of IPv4 and TCP as [type, data].         *)
Layer(name, f, data, opts) ==
  [name |-> name, f |-> f, data |-> data, opts |-> opts, next |-> NoLayer]

VLAN_TPIDS == {33024, 34984, 37120, 37376}   \* 0x8100 0x88A8 0x9100 0x9200
CTag == 33024
STag == 34984
IPv4_var == 2048
IPv6_var == 34525
ARP_var == 2054
EXT_HEADERS == {0, 43, 44, 60, 135}
EXT_FRAGMENT == 44

(* The fixed part of a class's header: what the constructor keeps and      *)
(* build() packs, in the order of the wire.                                *)
EthernetFields == << <<"dst", 48>>, <<"src", 48>>, <<"ethertype", 16>> >>
Dot3Fields == << <<"dst", 48>>, <<"src", 48>>, <<"length", 16>> >>
VlanFields == << <<"tpid", 16>>, <<"priority", 3>>, <<"dei", 1>>, <<"vlan_id", 12>> >>
LlcFields == << <<"dsap", 8>>, <<"ssap", 8>>, <<"control", 8>> >>
SnapFields == << <<"oui", 24>>, <<"pid", 16>> >>
StpFields ==
  << <<"protocol_id", 16>>, <<"protocol_version", 8>>, <<"bpdu_type", 8>>, <<"flags", 8>>,
     <<"root_priority", 16>>, <<"root_mac", 48>>, <<"root_path_cost", 32>>,
     <<"bridge_priority", 16>>, <<"bridge_mac", 48>>, <<"port_id", 16>>, <<"message_age", 16>>,
     <<"max_age", 16>>, <<"hello_time", 16>>, <<"forward_delay", 16>> >>
ArpFields ==
  << <<"hwtype", 16>>, <<"ptype", 16>>, <<"maclen", 8>>, <<"plen", 8>>, <<"opcode", 16>>,
     <<"macsrc", 48>>, <<"ipsrc", 32>>, <<"macdst", 48>>, <<"ipdst", 32>> >>
(* Packed in the order of the machine: the numbers of a Loopback layer are *)
(* written here with their bytes exchanged.                                *)
LoopbackFields == << <<"skipcount", 16>>, <<"func", 16>> >>
PppFields == << <<"address", 8>>, <<"control", 8>>, <<"proto", 16>> >>
Ppp2bFields == << <<"proto", 16>> >>
PppoeFields ==
  << <<"version", 4>>, <<"type", 4>>, <<"code", 8>>, <<"ssid", 16>>, <<"lenght", 16>> >>
SlowFields == << <<"subtype", 8>> >>
Ipv4Fields ==
  << <<"version", 4>>, <<"ihl", 4>>, <<"tos", 8>>, <<"total_len", 16>>, <<"id", 16>>,
     <<"flags", 3>>, <<"frag_offset", 13>>, <<"ttl", 8>>, <<"proto", 8>>, <<"checksum", 16>>,
     <<"src", 32>>, <<"dst", 32>> >>
Ipv6Fields ==
  << <<"version", 4>>, <<"traffic_class", 8>>, <<"flow_label", 20>>, <<"payload_len", 16>>,
     <<"next_header", 8>>, <<"hop_limit", 8>>, <<"src", 128>>, <<"dst", 128>> >>
ExtFields == << <<"next_header", 8>> >>
UdpFields == << <<"sport", 16>>, <<"dport", 16>>, <<"length", 16>>, <<"checksum", 16>> >>
TcpFields ==
  << <<"sport", 16>>, <<"dport", 16>>, <<"seq", 32>>, <<"ack", 32>>, <<"data_offset", 4>>,
     <<"zero", 3>>, <<"flags", 9>>, <<"window", 16>>, <<"checksum", 16>>, <<"urgent_ptr", 16>> >>

(* The last four bytes of an ICMP header.                                  *)
RestOfHeader(type) ==
  CASE type \in {0, 8, 13, 14, 15, 16, 17, 18, 42, 43} -> << <<"id", 16>>, <<"seq", 16>> >>
    [] type = 5 -> << <<"gateway", 32>> >>
    [] type = 12 -> << <<"pointer", 8>>, <<"zero", 24>> >>
    [] type \in {9, 10} -> << <<"num_addrs", 8>>, <<"addr_entry_size", 8>>, <<"lifetime", 16>> >>
    [] OTHER -> << <<"unused", 32>> >>

IcmpFields(type) == << <<"type", 8>>, <<"code", 8>>, <<"checksum", 16>> >> \o RestOfHeader(type)

Layout(name, type) ==
  CASE name = "Ethernet" -> EthernetFields
    [] name = "Dot3" -> Dot3Fields
    [] name = "VLAN" -> VlanFields
    [] name = "LLC" -> LlcFields
    [] name = "SNAP" -> SnapFields
    [] name = "STP" -> StpFields
    [] name = "ARP" -> ArpFields
    [] name = "Loopback" -> LoopbackFields
    [] name = "PPP" -> PppFields
    [] name = "PPP2b" -> Ppp2bFields
    [] name = "PPPoE" -> PppoeFields
    [] name = "SlowProtocol" -> SlowFields
    [] name = "IPv4" -> Ipv4Fields
    [] name = "IPv6" -> Ipv6Fields
    [] name = "IPv6ExtHeader" -> ExtFields
    [] name = "UDP" -> UdpFields
    [] name = "TCP" -> TcpFields
    [] name = "ICMP" -> IcmpFields(type)
    [] OTHER -> <<>>   \* Raw, Fragment and the classes of registered parsers: data only

LayoutOf(l) == Layout(l.name, IF l.name = "ICMP" THEN l.f.type ELSE 0)

-----------------------------------------------------------------------------
(* IPOptions and TCPOptions                                                *)

SingleByte == {0, 1}
Padded(n, unit) == unit * ((n + unit - 1) \div unit)

OptionBytes(opts) ==
  LET one(o) == IF o.type \in SingleByte THEN <<o.type>> ELSE <<o.type, 2 + Len(o.data)>> \o o.data
      blob == FlattenSeq([k \in DOMAIN opts |-> one(opts[k])])
  IN blob \o Zeros(Padded(Len(blob), 4) - Len(blob))

(* parse(): up to the end-of-options byte; ok is false when it raises.     *)
RECURSIVE ParseOptions(_)
ParseOptions(raw) ==
  LET found(o, r) == [ok |-> r.ok, opts |-> <<o>> \o r.opts]
      end == [ok |-> TRUE, opts |-> <<>>]
  IN IF raw = <<>> THEN end
     ELSE IF raw[1] \in SingleByte
     THEN found([type |-> raw[1], data |-> <<>>],
                IF raw[1] = 0 THEN end ELSE ParseOptions(Tail(raw)))
     ELSE IF Len(raw) < 2 \/ raw[2] < 2 \/ raw[2] > Len(raw)
     THEN [ok |-> FALSE, opts |-> <<>>]
     ELSE found([type |-> raw[1], data |-> SubSeq(raw, 3, raw[2])],
                ParseOptions(From(raw, raw[2] + 1)))

-----------------------------------------------------------------------------
(* The bytes of one header                                                 *)

(* hdr_ext_len counts the units of eight bytes after the first.            *)
ExtBody(l) ==
  IF l.f.type = EXT_FRAGMENT
  THEN Slice(l.data, 1, 7) \o Zeros(7 - Len(Slice(l.data, 1, 7)))
  ELSE LET total == Padded(2 + Len(l.data), 8)
       IN <<total \div 8 - 1>> \o l.data \o Zeros(total - 2 - Len(l.data))

Header(l) ==
  Pack(LayoutOf(l), l.f) \o
    CASE l.name \in {"IPv4", "TCP"} -> OptionBytes(l.opts)
      [] l.name = "IPv6ExtHeader" -> ExtBody(l)
      [] l.name = "Loopback" -> (IF l.f.func = 512 THEN l.f.fmac ELSE <<>>) \o l.data
      [] OTHER -> l.data

-----------------------------------------------------------------------------
(* The objects: chains, and the / operator                                 *)

RECURSIVE Chain(_, _)
Chain(h, i) == IF i = NoLayer THEN <<>> ELSE <<i>> \o Chain(h, h[i].next)

Layers(h, i) == LET c == Chain(h, i) IN [k \in DOMAIN c |-> [h[c[k]] EXCEPT !.next = NoLayer]]

NameOf(h, i) == IF i = NoLayer THEN "NoneType" ELSE h[i].name

(* packet[IPv4]: the first layer of a class; 0 where the code raises.      *)
FirstOf(h, i, name) ==
  LET c == SelectSeq(Chain(h, i), LAMBDA x : h[x].name = name)
  IN IF c = <<>> THEN NoLayer ELSE c[1]

(* What copy() leaves behind: IPv6 forgets its version, Dot3 and Ethernet  *)
(* how many tags they counted.                                             *)
Copied(l) ==
  CASE l.name = "IPv6" -> [l EXCEPT !.f.version = 6]
    [] l.name \in {"Ethernet", "Dot3"} -> [l EXCEPT !.f.numofvlan = None]
    [] OTHER -> l

(* Objects of their own for the layers ls, linked in order.                *)
Load(h, ls) ==
  h \o [k \in DOMAIN ls |->
          [ls[k] EXCEPT !.next = IF k < Len(ls) THEN Len(h) + k + 1 ELSE NoLayer]]

(* i / j: a deep copy of i's chain; its last payload is j, not a copy.     *)
Divide(h, i, j) ==
  LET ls == Layers(h, i)
      copies == Load(h, [k \in DOMAIN ls |-> Copied(ls[k])])
  IN [copies EXCEPT ![Len(copies)].next = j]

=============================================================================
