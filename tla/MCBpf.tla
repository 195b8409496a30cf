------------------------------- MODULE MCBpf -------------------------------
(***************************************************************************)
(* Inputs for Bpf: packets of every kind the rules tell apart, tests, and  *)
(* combinations of them.                                                   *)
(***************************************************************************)
EXTENDS Bpf

MCBitAnd(a, b) == a & b
MCBitOr(a, b)  == a | b
MCBitXor(a, b) == a ^^ b

A == 167772161  \* 10.0.0.1
B == 167772162
M1 == <<33554433, 5>>  \* the MAC 2:0:0:1:0:5
M2 == <<33554433, 6>>

Bytes4(w) == <<w \div 2^24, (w \div 2^16) % 256, (w \div 256) % 256, w % 256>>
Bytes2(h) == <<h \div 256, h % 256>>
Zeros(n)  == [i \in 1 .. n |-> 0]

MacBytes(m) == Bytes4(m[1]) \o Bytes2(m[2])
Ether(dst, src, type) == MacBytes(dst) \o MacBytes(src) \o Bytes2(type)
Ports(s, d, flags) == Bytes2(s) \o Bytes2(d) \o Zeros(9) \o <<flags>> \o Zeros(2)
V4(ihl, frag, proto, src, dst) ==
  <<64 + ihl, 0, 0, 40, 0, 0>> \o Bytes2(frag) \o <<64, proto, 0, 0>> \o Bytes4(src) \o Bytes4(dst)
  \o Zeros(4 * (ihl - 5))
V6(next, src, dst) ==
  <<96, 0, 0, 0, 0, 16, next, 64>> \o FlattenSeq([i \in 1 .. 4 |-> Bytes4(src[i])])
  \o FlattenSeq([i \in 1 .. 4 |-> Bytes4(dst[i])])

S6 == <<32, 1, 2, 3>>
D6 == <<32, 1, 2, 4>>

Tcp4   == Ether(M1, M2, IP) \o V4(5, 0, 6, A, B) \o Ports(1234, 80, 2)
Udp4   == Ether(M2, M1, IP) \o V4(6, 0, 17, B, A) \o Ports(53, 9, 0)
Icmp4  == Ether(M1, M2, IP) \o V4(5, 0, 1, A, A) \o <<8, 0, 0, 0>>
Later4 == Ether(M1, M2, IP) \o V4(5, 185, 6, A, B) \o Ports(80, 80, 0)
Tcp6   == Ether(M1, M2, IP6) \o V6(6, S6, D6) \o Ports(80, 5, 16)
Udp6   == Ether(M2, M1, IP6) \o V6(17, D6, S6) \o Ports(5, 53, 0)
Arp    == Ether(<<Word - 1, 65535>>, M1, 2054) \o Zeros(28)
Short  == SubSeq(Tcp4, 1, 22)
Tagged(p, vid) == SubSeq(p, 1, 12) \o <<129, 0>> \o Bytes2(vid) \o SubSeq(p, 13, Len(p))
Mpls6  == Ether(M1, M2, 34887) \o <<0, 0, 97, 64>> \o Zeros(8)

MCPackets == {Tcp4, Udp4, Icmp4, Later4, Tcp6, Udp6, Arp, Short,
              Tagged(Tcp4, 5), Tagged(Udp6, 6), Tagged(Tagged(Arp, 5), 7), Mpls6}

-----------------------------------------------------------------------------
Kw(kw, v, vtype)     == Keyword(kw, "", v, None, None, vtype)
Dir(kw, d, v, vtype) == Keyword(kw, "", v, d, None, vtype)
Of(proto, d, kw, v)  == Keyword(kw, "", v, d, proto, "number")
Name(proto, d, kw, n) == Keyword(kw, n, <<>>, d, proto, "name")
Rel(l, op, r) == Binary(l, op, r)
Num(v) == Number(v)
Fix(proto, off, size) == Byte(proto, Num(off), size)
AndE(a, b) == Binary(a, "and", b)
OrE(a, b)  == Binary(a, "or", b)

(* Tests that neither read nor set what later tests depend on.             *)
Free4 == {Kw("host", <<A>>, "ipv4"), Kw("less", <<54>>, "number"),
          Dir("net", "src and dst", <<A, 31>>, "cidr4"),
          Rel(Fix("ip", 9, 1), "!=", Num(6)),
          Rel(Binary(Fix("ip", 0, 1), "&", Num(15)), ">", Num(5))}

FreeMore ==
  {Dir("host", d, v.a, v.t) : d \in {"src", "dst", "src or dst", "src and dst"},
     v \in {[a |-> <<A>>, t |-> "ipv4"], [a |-> M1, t |-> "mac"], [a |-> S6, t |-> "ipv6"]}}
  \cup {Dir("net", "src", <<A>>, "ipv4"), Kw("net", <<A, 32>>, "cidr4"),
        [Kw("net", <<B>>, "ipv4") EXCEPT !.mask = <<AllOnes>>],
        Dir("net", "dst", S6 \o <<AllOnes, AllOnes, Word - 4, 0>>, "cidr6"),
        Name(None, None, "host", "router"), Kw("greater", <<60>>, "number"),
        Kw("broadcast", <<>>, None), Kw("multicast", <<>>, None),
        Rel(Fix("ip", 2, 2), "==", Binary(Length, "-", Num(14))),
        Rel(Binary(Binary(Fix("ip", 0, 1), "&", Num(15)), "*", Num(4)), ">=",
            Binary(Fix("ip", 9, 1), "+", Num(14))),
        Rel(Byte("ether", Binary(Num(2), "*", Num(6)), 2), "<", Num(2054)),
        Rel(Byte("ip", Binary(Fix("ip", 9, 1), ">>", Num(1)), 1), "<=", Num(20)),
        Rel(Binary(Fix("ether", 0, 1), "&", Num(1)), "==", Num(0)),
        Rel(Binary(Num(7), "%", Fix("ether", 0, 1)), "==", Num(1)),
        Rel(Binary(Num(8), "-", Binary(Length, "-", Num(20))), ">", Num(99)),
        Rel(Fix("ip6", 6, 1), ">", Num(6)), Rel(Fix("ether", 60, 1), "==", Num(0)),
        Rel(Literal("", <<A>>, "ipv4"), "==", Fix("ip", 12, 4)),
        Binary(Fix("ether", 3, 1), "^", Num(1)), Binary(Fix("ip", 8, 1), "&", Fix("ip", 0, 1)),
        Binary(Fix("ether", 11, 1), "|", Num(0)), Length, Fix("ip", 6, 2)}

(* The Ethernet types: later transport tests rely on them.                 *)
TypeTests ==
  {Protocol("arp"), Protocol("ip6"), Protocol("ether"),
   Name("ether", None, "proto", "arp"), Of("ip", None, "proto", <<6>>),
   Of("ip6", None, "proto", <<17>>),
   Rel(Fix("arp", 0, 2), "==", Num(0))}

(* Tests of the transport header, good when they come first.               *)
Transport ==
  {Protocol("tcp"), Protocol("udp"), Protocol("icmp"), Kw("port", <<80>>, "number"),
   Name("udp", "src or dst", "port", "domain"),
   Of("tcp", "dst", "port", <<80>>), Dir("portrange", "src", <<50, 80>>, "range"),
   Rel(Binary(Fix("tcp", 13, 1), "&", Num(2)), "!=", Num(0)),
   Rel(Byte("tcp", Field("tcpflags"), 1), "==", Num(16)),
   Rel(Byte("udp", Binary(Num(1), "+", Num(1)), 2), ">", Num(9)),
   Rel(Byte("icmp", Field("icmptype"), 1), "==", Num(8))}
Jumping == Transport \ {Protocol("tcp"), Protocol("udp")}

Tag == Kw("vlan", <<>>, None)
Tag5 == Kw("vlan", <<5>>, "number")

(* Filters of LightBPF/README.md and README.md that combine more than the  *)
(* sets below do.                                                          *)
Documented ==
  {AndE(Of("tcp", None, "port", <<80>>), Dir("host", "src", <<A>>, "ipv4")),
   AndE(Protocol("tcp"), Negation(Dir("port", "dst", <<80>>, "number"))),
   AndE(Protocol("arp"), Rel(Fix("arp", 6, 2), "==", Num(0))),
   AndE(Protocol("tcp"), OrE(Dir("host", "src", <<A>>, "ipv4"), Dir("host", "dst", <<B>>, "ipv4"))),
   Negation(Negation(Protocol("tcp"))), OrE(Protocol("arp"), Protocol("icmp")),
   Of("ether", None, "proto", <<IP>>), Name(None, "src", "port", "http"),
   [Kw("host", M1, "mac") EXCEPT !.protocol = "ether"],
   [Kw("net", D6 \o <<AllOnes, Word - 4, 0, 0>>, "cidr6") EXCEPT !.protocol = "ip6"]}

MCExpressions ==
  Documented \cup FreeMore \cup Free4 \cup TypeTests \cup Transport
  \cup {Negation(a) : a \in FreeMore \cup Free4 \cup TypeTests \cup Jumping}
  \cup {AndE(a, b) : a, b \in Free4} \cup {OrE(a, b) : a, b \in Free4}
  \cup {OrE(AndE(a, Negation(b)), c) : a, b, c \in Free4}
  \cup {AndE(a, Negation(OrE(b, Protocol("arp")))) : a, b \in TypeTests}
  \cup {AndE(a, b) : a \in Transport, b \in Free4}
  \cup {AndE(a, b) : a \in Free4, b \in Transport}
  \cup {OrE(a, b) : a \in Jumping, b \in Free4}
  \cup {AndE(Protocol("tcp"), AndE(Kw("port", <<80>>, "number"), Negation(Dir("port", "src", <<80>>, "number")))),
        AndE(Protocol("ip"), Protocol("udp")), AndE(Protocol("ip6"), Protocol("tcp")),
        Kw("mpls", <<>>, None), Kw("mpls", <<6>>, "number")}
  \cup {AndE(v, b) : v \in {Tag, Tag5, AndE(Tag, Tag5)},
        b \in {Tag, Protocol("arp"), Protocol("tcp"), Kw("port", <<53>>, "number"), Protocol("ip6"),
               Rel(Fix("ip", 9, 1), "==", Num(6))}}

(* Filters that LightBPF/README.md lists (161, 181) and that answer        *)
(* otherwise: the IPv6 half of a bare transport test falls into the wrong  *)
(* place, or a port is read with nothing in X because `ip' stood before it.*)
MCMisread ==
  {Negation(Protocol("tcp")), OrE(Protocol("tcp"), Protocol("udp")),
   AndE(OrE(Protocol("tcp"), Protocol("udp")), Negation(Dir("port", "dst", <<53>>, "number"))),
   AndE(Protocol("ip"), OrE(Kw("port", <<80>>, "number"), Kw("port", <<443>>, "number")))}

W(w) == WordText(w)
MCNonsense ==
  {<<>>, <<W("tcp"), W("and")>>, <<Sym("("), W("tcp")>>, <<W("tcp"), Sym(")")>>, <<W("src"), W("tcp")>>,
   <<W("port"), W("host")>>, <<W("mask"), Digits(1)>>, <<W("portrange"), Lexeme("RANGE", "", <<9, 2>>)>>,
   <<W("tcp"), Sym("["), Digits(0), Sym(":"), Digits(3), Sym("]")>>, <<W("less")>>, <<W("host"), Digits(4)>>}

(* Hand-made programs: three instructions out of these and two returns.    *)
Pieces == {LdLen, [Ja(0) EXCEPT !.jf = 0], [Ja(1) EXCEPT !.jf = 0], [Ja(2) EXCEPT !.jf = 0],
           Jump("jgt", 54, 0, 1), Jump("jgt", 54, 2, 0), Jump("jgt", 54, 1, 1), Ret(1)}
Plain(i) == IF IsJump(i) THEN i ELSE [i EXCEPT !.jt = 0, !.jf = 0]
MCPrograms ==
  {s \in {[q \in 1 .. 5 |-> IF q <= 3 THEN f[q] ELSE Plain(Ret(q - 4))] :
            f \in [1 .. 3 -> {Plain(i) : i \in Pieces}]} :
     \A q \in 1 .. 3 : \A o \in Targets(s[q]) : q + o < 5}

MCHostByName == [x \in {"router"} |-> B]
=============================================================================
