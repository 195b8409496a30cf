------------------------------ MODULE MCFormats -----------------------------
(***************************************************************************)
(* The two halves of what a capture holds: packets and the file they are   *)
(* in.  They share no state; a behaviour is about one of them.             *)
(***************************************************************************)
EXTENDS Packets, Pcapng

VARIABLE subject   \* "packet" or "file"

-----------------------------------------------------------------------------
(* Packets                                                                 *)

Mac(n) == <<2, 0, 0, 0, 0, n>>
Ip(n) == <<10, 0, 0, n>>
Ip6(n) == <<254, 128, 0, 0, 0, 0, 0, 0, 0, 0, 0, 0, 0, 0, 1, n>>

Eth(type) == Layer("Ethernet", [dst |-> Mac(1), src |-> Mac(2), ethertype |-> type, numofvlan |-> None], <<>>, <<>>)
D3 == Layer("Dot3", [dst |-> Mac(1), src |-> Mac(2), length |-> 0, numofvlan |-> None], <<>>, <<>>)
Vlan(id) == Layer("VLAN", [tpid |-> CTag, priority |-> 5, dei |-> 1, vlan_id |-> id], <<>>, <<>>)
LlC == Layer("LLC", [dsap |-> None, ssap |-> None, control |-> 3], <<>>, <<>>)
SnaP == Layer("SNAP", [oui |-> 12, pid |-> None], <<>>, <<>>)
StP == Layer("STP", [protocol_id |-> 0, protocol_version |-> 0, bpdu_type |-> 0, flags |-> 1,
  root_priority |-> 32768, root_mac |-> Mac(3), root_path_cost |-> <<0, 0, 0, 4>>, bridge_priority |-> 32768,
  bridge_mac |-> Mac(4), port_id |-> 32769, message_age |-> 256, max_age |-> 5120, hello_time |-> 512,
  forward_delay |-> 3840], <<>>, <<>>)
ArP == Layer("ARP", [hwtype |-> 1, ptype |-> IPv4_var, maclen |-> 6, plen |-> 4, opcode |-> 1,
  macsrc |-> Mac(2), ipsrc |-> Ip(1), macdst |-> Mac(0), ipdst |-> Ip(2)], <<>>, <<>>)
Loop(func) == Layer("Loopback", [skipcount |-> 256, func |-> func, fmac |-> Mac(5)], <<1, 2, 3>>, <<>>)
Pp(proto) == Layer("PPP", [address |-> 255, control |-> 3, proto |-> proto], <<>>, <<>>)
P2b == Layer("PPP2b", [proto |-> 33], <<>>, <<>>)
PpE(ssid) == Layer("PPPoE", [version |-> 1, type |-> 1, code |-> 0, ssid |-> ssid, lenght |-> 0], <<>>, <<>>)
Slow == Layer("SlowProtocol", [subtype |-> 1], <<>>, <<>>)
V4(dst, flags, opts) == Layer("IPv4", [version |-> 4, ihl |-> 0, tos |-> 0, total_len |-> None, id |-> 9,
  flags |-> flags, frag_offset |-> 0, ttl |-> 64, proto |-> None, checksum |-> None,
  src |-> NoBytes, dst |-> Ip(dst)], <<>>, opts)
V6(dst) == Layer("IPv6", [version |-> 6, traffic_class |-> 3, flow_label |-> 70000, payload_len |-> None,
  next_header |-> None, hop_limit |-> 64, src |-> Ip6(1), dst |-> Ip6(dst)], <<>>, <<>>)
Ext(type, data) == Layer("IPv6ExtHeader", [type |-> type, next_header |-> None, pseudo |-> NoBytes], data, <<>>)
UdP == Layer("UDP", [sport |-> 1000, dport |-> 53, length |-> None, checksum |-> None], <<>>, <<>>)
TcP(opts) == Layer("TCP", [sport |-> 1000, dport |-> 80, seq |-> <<0, 0, 0, 1>>, ack |-> <<0, 0, 0, 2>>,
  data_offset |-> 5, zero |-> 0, flags |-> 258, window |-> 8192, checksum |-> None, urgent_ptr |-> 0], <<>>, opts)
IcmP(type) == Layer("ICMP", [x \in {"type", "code", "checksum"} \cup
    {RestOfHeader(type)[k][1] : k \in DOMAIN RestOfHeader(type)} |->
      CASE x = "type" -> type [] x = "code" -> 0 [] x = "checksum" -> None [] x = "zero" -> 0
        [] x = "unused" -> <<0, 0, 0, 0>> [] x = "gateway" -> NoBytes [] OTHER -> 7], <<>>, <<>>)
RaW(n) == Layer("Raw", [x |-> 0], [k \in 1 .. n |-> k], <<>>)
Cust == Layer("Custom", [x |-> 0], <<9, 9, 9>>, <<>>)

Opts == << [type |-> 1, data |-> <<>>], [type |-> 7, data |-> <<4, 0>>] >>

Longer == {
  <<Eth(None), V4(2, 0, Opts), UdP, RaW(5)>>,
  <<Eth(None), Vlan(100), Vlan(200), V6(2), Ext(60, <<1, 2, 3>>), Ext(44, <<0, 0, 0, 0, 0, 0, 7>>), UdP, RaW(3)>>,
  <<Eth(None), Vlan(100), ArP>>,
  <<V4(2, 0, <<>>), TcP(Opts), RaW(37)>>,
  <<V4(2, 2, <<>>), IcmP(8), RaW(37)>>,
  <<V6(2), UdP, RaW(80)>>,
  <<V6(2), TcP(<<>>), RaW(20)>>,
  <<V6(2), Ext(0, <<1>>), TcP(<<>>), RaW(8)>>,
  <<D3, LlC, StP>>,
  <<D3, Vlan(3), LlC, SnaP, ArP>>,
  <<D3, LlC, SnaP, V4(2, 0, <<>>), IcmP(5)>>,
  <<Eth(None), PpE(7), P2b, V6(2), TcP(<<>>)>>,
  <<Eth(None), PpE(0), P2b, V4(2, 0, <<>>), IcmP(12)>>,
  <<Pp(33), V4(2, 0, <<>>), IcmP(9)>>,
  <<Eth(None), Loop(256)>>, <<Eth(None), Loop(512)>>,
  <<Eth(None), Slow, RaW(3)>>,
  <<Eth(39321), Cust>>,
  <<Eth(None), V4(2, 0, <<>>), IcmP(13), RaW(12)>>,
  <<Eth(None), V4(2, 0, <<>>), IcmP(3), RaW(20)>> }

(* The shortest one is followed one step further.                          *)
MCStarts == {<<p, 2>> : p \in Longer} \cup { << <<V4(2, 0, <<>>), UdP, RaW(3)>>, 3>> }
MCSpares == <<V4(3, 0, <<>>), V6(3)>>
MCEdits == { <<"IPv4", "dst", Ip(7)>>, <<"UDP", "sport", 7>>, <<"VLAN", "vlan_id", 9>> }
MCBindings == { <<"ethertype", 39321>>, <<"dsap_ssap", <<66, 66>> >> }
MCIdents == {7, None}
MCHost == Ip(1)

-----------------------------------------------------------------------------
(* Files                                                                   *)
NoWords == [len |-> 0, data |-> <<>>]
MCCaptures == { NoWords, [len |-> 3, data |-> <<EPB>>], [len |-> 9, data |-> <<1, EPB, 44>>] }
MCNames == { NoWords, [len |-> 6, data |-> <<70, 71>>] }

Opt(head, data) == [head |-> head, data |-> data]
BlockOf(kind, orig, name, options) ==
  [kind |-> kind, len |-> 3, orig |-> orig, data |-> <<EPB>>, options |-> options, name |-> name]
PacketBlock(orig, options) == BlockOf("packet", orig, NoWords, options)
InterfaceBlock(name, options) == BlockOf("interface", 0, name, options)
OtherBlock(options) == BlockOf("other", 0, NoWords, options)
Short == [len |-> 2, data |-> <<70>>]

MCOthers == {
  <<InterfaceBlock(NoWords, <<>>), PacketBlock(3, <<>>), PacketBlock(9, <<Opt(<<5>>, <<5>>)>>)>>,
  <<OtherBlock(<<>>),
    InterfaceBlock(Short, <<Opt(<<304>>, <<9>>), Opt(<<202>>, <<70>>), Opt(<<201>>, <<71>>), Opt(<<0>>, <<>>)>>),
    PacketBlock(3, <<Opt(<<0>>, <<>>)>>),
    InterfaceBlock(Short, <<Opt(<<202>>, <<70>>)>>), OtherBlock(<<Opt(<<1>>, <<6>>)>>), PacketBlock(3, <<>>)>> }

-----------------------------------------------------------------------------
NoPackets ==
  /\ heap = <<>> /\ bound = {} /\ out = Nothing /\ got = Nothing /\ split = NoSplit
  /\ edited = <<>> /\ seen = <<>> /\ steps = 0

NoFile ==
  /\ Empty /\ nextIf = 0 /\ calls = 0
  /\ reader = "none" /\ at = 0 /\ ifaces = <<>> /\ returned = <<>>
  /\ made = <<>> /\ lost = FALSE /\ tainted = FALSE /\ whole = FALSE

Init == \/ subject = "packet" /\ PacketInit /\ NoFile
        \/ subject = "file" /\ PcapngInit /\ NoPackets

Next == \/ subject = "packet" /\ PacketNext /\ UNCHANGED <<pcapngVars, subject>>
        \/ subject = "file" /\ PcapngNext /\ UNCHANGED <<packetVars, subject>>

Spec == Init /\ [][Next]_<<packetVars, pcapngVars, subject>>

=============================================================================
