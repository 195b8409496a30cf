---------------------------- MODULE BpfCompiler ----------------------------
(***************************************************************************)
(* Syntax tree to classic BPF code.  src/LightBPF/CompilerSet/Compiler.py. *)
(*                                                                         *)
(* A rule takes the compiler c and gives the compiler after it: its output *)
(* so far, its counters, and the flags and offsets that `ip', `tcp' or     *)
(* `vlan' change for everything compiled later.  Every test has a target   *)
(* t for true and f for false.  An exception sets c.err.                   *)
(***************************************************************************)
EXTENDS BpfCode, BpfParser

CONSTANT HostByName   \* what the resolver answers, by name; no answer for the others

NewCompiler ==
  [out |-> <<>>, label |-> 0, scratch |-> 0, err |-> FALSE,
   upper |-> FALSE, explicit |-> 0, sip |-> FALSE,
   ep |-> 12, vid |-> 14, p4 |-> 23, p6 |-> 20, sport |-> 14, dport |-> 16,
   h4 |-> 14, h6 |-> 20, frag |-> 20]

IP  == 2048
IP6 == 34525

AllOnes == Word - 1
NetMask(bits) == IF bits >= 32 THEN AllOnes
                 ELSE IF 2^(32 - bits) >= Word THEN 0 ELSE Word - 2^(32 - bits)

Emit(c, items) == [c EXCEPT !.out = @ \o items]
Fresh(c, n)    == [c EXCEPT !.label = @ + n]
NewLabel(c, n) == <<"label", c.label + n>>
Error(c)       == [c EXCEPT !.err = TRUE]

(* A scratch slot; the seventeenth raises.                                 *)
Alloc(c) == [c EXCEPT !.scratch = @ + 1, !.err = @ \/ c.scratch >= Cardinality(Slots)]
Free(c)  == [c EXCEPT !.scratch = IF @ > 0 THEN @ - 1 ELSE 0]

-----------------------------------------------------------------------------
(* Addresses.  The same test on the source field, on the destination, on   *)
(* both or on either; `first' is the field looked at first.                *)

Directed(c, dir, src, dst, first, Match(_, _, _, _), t, f) ==
  LET second == IF first = src THEN dst ELSE src
      chk == NewLabel(c, 1)
      Then(c1) == Match(Emit(c1, <<Label(chk)>>), second, t, f)
  IN  CASE dir = "src"         -> Match(c, src, t, f)
        [] dir = "dst"         -> Match(c, dst, t, f)
        [] dir = "src and dst" -> Then(Match(Fresh(c, 1), first, chk, f))
        [] OTHER               -> Then(Match(Fresh(c, 1), first, t, chk))

(* The frame must be of this Ethernet type.                                *)
TypeGuard(c, type, f) == Emit(c, <<Abs(2, c.ep), Jump("jeq", type, Next0, f)>>)

HostV4(c, dir, addr, t, f) ==
  LET Match(c1, off, t1, f1) == Emit(c1, <<Abs(4, off), Jump("jeq", addr, t1, f1)>>)
  IN  Directed(TypeGuard(c, IP, f), dir, 26, 30, 26, Match, t, f)

(* Four words at an offset, each under its mask, all equal to those wanted.*)
NetWords(c, off, words, masks, t, f) ==
  LET n == Len(words)
      To(i) == IF i < n THEN NewLabel(c, i) ELSE t
      Test(i) == IF masks[i] = 0 THEN <<Ja(To(i))>>
                 ELSE <<Abs(4, off + 4 * (i - 1))>>
                      \o (IF masks[i] # AllOnes THEN <<Alu("&", masks[i])>> ELSE <<>>)
                      \o <<Jump("jeq", words[i], To(i), f)>>
      Ends(i) == IF i < n THEN <<Label(NewLabel(c, i))>> ELSE <<>>
  IN  Emit(Fresh(c, n - 1), FlattenSeq([i \in 1 .. n |-> Test(i) \o Ends(i)]))

HostV6(c, dir, words, t, f) ==
  LET Match(c1, off, t1, f1) == NetWords(c1, off, words, [i \in DOMAIN words |-> AllOnes], t1, f1)
  IN  Directed(TypeGuard(c, IP6, f), dir, 22, 38, 22, Match, t, f)

HostMac(c, dir, mac, t, f) ==
  LET Match(c1, off, t1, f1) ==
        LET rest == NewLabel(c1, 1)
        IN  Emit(Fresh(c1, 1), <<Abs(4, off), Jump("jeq", mac[1], rest, f1), Label(rest),
                                 Abs(2, off + 4), Jump("jeq", mac[2], t1, f1)>>)
  IN  Directed(c, dir, 6, 0, 0, Match, t, f)

Host(c, e, t, f) ==
  CASE e.vtype = "ipv4" -> HostV4(c, e.direction, e.value[1], t, f)
    [] e.vtype = "ipv6" -> HostV6(c, e.direction, e.value, t, f)
    [] e.vtype = "mac"  -> HostMac(c, e.direction, e.value, t, f)
    [] e.vtype = "name" /\ e.name \in DOMAIN HostByName ->
         HostV4(c, e.direction, HostByName[e.name], t, f)
    [] OTHER -> Error(c)

(* Without a mask or a length the class of the address gives the prefix.   *)
ClassPrefix(addr) ==
  LET first == addr \div 2^24
  IN  IF first < 128 THEN 8 ELSE IF first < 192 THEN 16 ELSE IF first < 224 THEN 24 ELSE 32

Net(c, e, t, f) ==
  LET addr == e.value[1]
      mask == IF e.mask # <<>> THEN e.mask[1]
              ELSE IF e.vtype = "cidr4" THEN NetMask(e.value[2]) ELSE NetMask(ClassPrefix(addr))
      masks6 == SubSeq(e.value, 5, 8)
      V4(c1, off, t1, f1) ==
        Emit(c1, <<Abs(4, off)>> \o (IF mask # AllOnes THEN <<Alu("&", mask)>> ELSE <<>>)
                 \o <<Jump("jeq", addr & mask, t1, f1)>>)
      V6(c1, off, t1, f1) ==
        NetWords(c1, off, [i \in 1 .. 4 |-> e.value[i] & masks6[i]], masks6, t1, f1)
  IN  CASE e.vtype = "ipv4" \/ (e.vtype = "cidr4" /\ e.mask = <<>>) ->
             Directed(TypeGuard(c, IP, f), e.direction, 26, 30, 26, V4, t, f)
        [] e.vtype = "cidr6" ->
             Directed(TypeGuard(c, IP6, f), e.direction, 22, 38, 22, V6, t, f)
        [] OTHER -> Error(c)

-----------------------------------------------------------------------------
(* Protocols.                                                              *)

TransportNum == [x \in ProtoQualifiers \cup {"igmp"} |->
  CASE x = "tcp" -> 6 [] x = "udp" -> 17 [] x = "icmp" -> 1 [] x = "sctp" -> 132
    [] x = "icmp6" -> 58 [] x = "igmp" -> 2]

(* Under an `ip' already compiled: the protocol byte alone.                *)
TransportV4(c, num, t, f) ==
  Emit(Fresh(c, 1), <<Label(NewLabel(c, 1)), Abs(1, c.p4), Jump("jeq", num, t, f)>>)

(* Under an `ip6': the next header, or the one behind a fragment header.   *)
TransportV6(c, num, t, f) ==
  LET frag == NewLabel(c, 2)
      ok   == NewLabel(c, 3)
  IN  Emit(Fresh(c, 3),
        <<Label(NewLabel(c, 1)), Abs(1, c.p6), Jump("jeq", num, t, frag),
          Label(frag), Jump("jeq", 44, ok, f),
          Label(ok), Abs(1, 54), Jump("jeq", num, t, f)>>)

(* For either version.  The IPv4 part jumps to t; the IPv6 part, when it   *)
(* matches, loads X and falls into whatever follows.                       *)
DualStack(c, num, t, f) ==
  LET chk4 == NewLabel(c, 1)
      chk6 == NewLabel(c, 2)
      frag == NewLabel(c, 3)
      load == NewLabel(c, 4)
  IN  Emit([Fresh(c, 4) EXCEPT !.sip = TRUE],
        <<Abs(2, c.ep), Jump("jeq", IP, chk4, chk6),
          Label(chk4), Abs(1, c.p4), Jump("jeq", num, Next0, f),
          Abs(2, c.frag), Jump("jset", 8191, f, frag),
          Label(frag), Msh(c.sport), Ja(t),
          Label(chk6), Jump("jeq", IP6, Next0, f),
          Abs(1, c.p6), Jump("jeq", num, load, f),
          Label(load), XImm(40)>>)

ProtocolTest(c, name, t, f) ==
  LET type == EtherTypes[name]
      guard == IF c.sip THEN c ELSE
               LET ok == NewLabel(c, 1)
               IN  Emit(Fresh(c, 1), <<Abs(2, c.ep), Jump("jeq", IP, ok, f), Label(ok)>>)
  IN  CASE name \in {"ether", "link"} -> Emit(c, <<Ja(t)>>)
        [] name \in DOMAIN EtherTypes ->
             [Emit(c, <<Abs(2, c.ep), Jump("jeq", type, t, f)>>) EXCEPT
                !.explicit = IF type \in {IP, IP6} THEN type ELSE @,
                !.sip = @ \/ type \in {IP, IP6},
                !.upper = TRUE]
        [] name = "icmp" -> Emit(guard, <<Abs(1, c.p4), Jump("jeq", 1, t, f)>>)
        [] name \in DOMAIN IpProtocols /\ name # "icmp" ->
             LET num == IpProtocols[name]
             IN  IF c.explicit = IP THEN TransportV4(c, num, t, f)
                 ELSE IF c.explicit = IP6 THEN TransportV6(c, num, t, f)
                 ELSE DualStack(c, num, t, f)
        [] OTHER -> Error(c)

-----------------------------------------------------------------------------
(* Ports.  X gets the length of the IP header, then the port is looked at. *)

SetupV4Only(c, num, f) ==
  LET chk == NewLabel(c, 1)
      ok  == NewLabel(c, 2)
      first == NewLabel(c, 3)
  IN  Emit(Fresh(c, 3),
        <<Abs(2, c.ep), Jump("jeq", IP, chk, f), Label(chk), Abs(1, c.p4),
          Jump("jeq", num, ok, f), Label(ok), Abs(2, c.frag),
          Jump("jset", 8191, f, first), Label(first), Msh(c.h4)>>)

SetupV6Only(c, num, f) ==
  LET chk == NewLabel(c, 1)
      ok  == NewLabel(c, 2)
  IN  Emit(Fresh(c, 2),
        <<Abs(2, c.ep), Jump("jeq", IP6, chk, f), Label(chk), Abs(1, c.h6),
          Jump("jeq", num, ok, f), Label(ok), XImm(40)>>)

(* proto is "none" for tcp or udp.                                         *)
SetupBoth(c, proto, f) ==
  LET ok4   == NewLabel(c, 1)
      ok6   == NewLabel(c, 2)
      ready == NewLabel(c, 3)
      chk6  == NewLabel(c, 4)
      chk4  == NewLabel(c, 5)
      udp4  == NewLabel(c, 6)
      first == NewLabel(c, 7)
      udp6  == NewLabel(c, 8)
      num   == IF proto \in DOMAIN TransportNum THEN <<TransportNum[proto]>> ELSE <<>>
      Proto(off, ok, udp) ==
        IF num # <<>> THEN <<Abs(1, off), Jump("jeq", num[1], ok, f)>>
        ELSE IF c.upper THEN <<>>
        ELSE <<Abs(1, off), Jump("jeq", 6, ok, udp), Label(udp), Jump("jeq", 17, ok, f)>>
      Unless(cond, items) == IF cond THEN <<>> ELSE items
      v4 == Unless(c.upper, <<Jump("jeq", IP, chk4, chk6)>>) \o <<Label(chk4)>>
            \o Proto(c.p4, ok4, udp4)
            \o <<Label(ok4), Abs(2, c.frag), Jump("jset", 8191, f, first), Label(first),
                 Msh(c.h4), Ja(ready)>>
      v6 == <<Label(chk6)>> \o Unless(c.upper, <<Jump("jeq", IP6, Next0, f)>>)
            \o Proto(c.h6, ok6, udp6) \o <<Label(ok6), XImm(40)>>
  IN  [Emit(Fresh(c, 8), Unless(c.upper, <<Abs(2, c.ep)>>)
                         \o (IF c.explicit \in {0, IP} THEN v4 ELSE <<>>)
                         \o (IF c.explicit \in {0, IP6} THEN v6 ELSE <<>>) \o <<Label(ready)>>)
       EXCEPT !.sip = TRUE]

SetupTransport(c, proto, f) ==
  CASE proto = "icmp6" -> SetupV6Only(c, TransportNum[proto], f)
    [] proto \in {"icmp", "igmp"} -> SetupV4Only(c, TransportNum[proto], f)
    [] OTHER -> SetupBoth(c, proto, f)

Services == [x \in {"http", "domain"} |-> IF x = "http" THEN 80 ELSE 53]

(* The layer is set up only once: a second `port' reuses X.                *)
Port(c, e, t, f) ==
  LET port == IF e.vtype = "number" THEN e.value[1] ELSE Services[e.name]
      c1 == IF c.sip THEN c ELSE SetupTransport(c, e.protocol, f)
      Match(c2, off, t1, f1) == Emit(c2, <<Ind(2, off), Jump("jeq", port, t1, f1)>>)
  IN  IF e.vtype = "name" /\ e.name \notin DOMAIN Services THEN Error(c)
      ELSE Directed(c1, e.direction, c.sport, c.dport, c.sport, Match, t, f)

PortRange(c, e, t, f) ==
  LET Match(c2, off, t1, f1) ==
        LET hi == NewLabel(c2, 1)
        IN  Emit(Fresh(c2, 1), <<Ind(2, off), Jump("jge", e.value[1], hi, f1),
                                 Label(hi), Jump("jgt", e.value[2], f1, t1)>>)
  IN  Directed(SetupTransport(c, e.protocol, f), e.direction, c.sport, c.dport, c.sport, Match, t, f)

-----------------------------------------------------------------------------
(* The other keywords.                                                     *)

LengthTest(c, e, t, f) ==
  Emit(c, <<LdLen, IF e.keyword = "less" THEN Jump("jgt", e.value[1], f, t)
                   ELSE Jump("jge", e.value[1], t, f)>>)

Broadcast(c, t, f) ==
  LET part == NewLabel(c, 1)
  IN  Emit(Fresh(c, 1), <<Abs(4, 0), Jump("jeq", AllOnes, part, f), Label(part),
                          Abs(2, 4), Jump("jeq", 65535, t, f)>>)

Multicast(c, t, f) == Emit(c, <<Abs(1, 0), Jump("jset", 1, t, f)>>)

(* Mutant: the next Ethernet type is looked for where the tag is.          *)
VlanStays(c, e, t, f) ==
  LET ok == NewLabel(c, 1)
  IN  Emit(Fresh(c, 1),
        <<Abs(2, c.ep), Jump("jeq", 33024, ok, Next0), Jump("jeq", 34984, ok, Next0),
          Jump("jeq", 37120, ok, f), Label(ok)>>
        \o (IF e.vtype = None THEN <<Ja(t)>>
            ELSE <<Abs(2, c.vid), Alu("&", 4095), Jump("jeq", e.value[1], t, f)>>))

(* A tag moves every later offset but those of the addresses.              *)
Vlan(c, e, t, f) ==
  LET ok == NewLabel(c, 1)
      c1 == [Fresh(c, 1) EXCEPT !.ep = @ + 4, !.frag = @ + 4, !.p4 = @ + 4, !.h4 = @ + 4,
               !.h6 = @ + 4, !.p6 = @ + 4, !.sport = @ + 4, !.dport = @ + 4, !.vid = @ + 4]
  IN  Emit(c1,
        <<Abs(2, c.ep), Jump("jeq", 33024, ok, Next0), Jump("jeq", 34984, ok, Next0),
          Jump("jeq", 37120, ok, f), Label(ok)>>
        \o (IF e.vtype = None THEN <<Ja(t)>>
            ELSE <<Abs(2, c.vid), Alu("&", 4095), Jump("jeq", e.value[1], t, f)>>))

Mpls(c, e, t, f) ==
  LET ok == NewLabel(c, 1)
      c1 == [Fresh(c, 1) EXCEPT !.ep = @ + 4, !.frag = @ + 4, !.p4 = @ + 4]
  IN  Emit(c1,
        <<Abs(2, c.ep), Jump("jeq", 34887, ok, f), Label(ok)>>
        \o (IF e.vtype = None THEN <<Ja(t)>>
            ELSE <<Abs(4, 14), Alu(">>", 12), Jump("jeq", e.value[1], t, f)>>))

(* `proto' alone, without a protocol before it, tests the IP version only. *)
Proto(c, e, t, f) ==
  LET byName == e.vtype = "name"
      known  == ~byName \/ e.name \in DOMAIN EtherTypes
      num    == IF byName THEN EtherTypes[e.name] ELSE e.value[1]
      six    == e.protocol \in {"ip6", "ipv6"} \/ (byName /\ e.name \in {"ip6", "ipv6"})
      c1 == [c EXCEPT !.upper = TRUE, !.explicit = IF num \in {IP, IP6} THEN num ELSE @]
      Under(type, off) ==
        Emit(TypeGuard(c1, type, f),
             IF e.protocol = None THEN <<>> ELSE <<Abs(1, off), Jump("jeq", num, t, f)>>)
  IN  IF ~known THEN Error(c)
      ELSE IF e.protocol \in {"ether", "link"}
      THEN Emit(c1, <<Abs(2, c.ep), Jump("jeq", num, t, f)>>)
      ELSE IF six THEN Under(IP6, 20)
      ELSE IF byName THEN TypeGuard(c1, num, f)
      ELSE Under(IP, 23)

KeywordTest(c, e, t, f) ==
  CASE e.keyword = "host"      -> Host(c, e, t, f)
    [] e.keyword = "net"       -> Net(c, e, t, f)
    [] e.keyword = "port"      -> Port(c, e, t, f)
    [] e.keyword = "portrange" -> PortRange(c, e, t, f)
    [] e.keyword \in {"less", "greater"}     -> LengthTest(c, e, t, f)
    [] e.keyword = "broadcast" -> Broadcast(c, t, f)
    [] e.keyword = "multicast" -> Multicast(c, t, f)
    [] e.keyword \in {"proto", "protochain"} -> Proto(c, e, t, f)
    [] e.keyword = "vlan"      -> Vlan(c, e, t, f)
    [] e.keyword = "mpls"      -> Mpls(c, e, t, f)
    [] OTHER                   -> Error(c)

-----------------------------------------------------------------------------
(* Values and conditions.                                                  *)

RECURSIVE Value(_, _, _), Arithmetic(_, _, _), Access(_, _, _), Condition(_, _, _, _)

(* Right operand to a scratch slot, left to A, right to X.                 *)
Operands(c, left, right, f) ==
  LET slot == c.scratch
      c1 == Emit(Value(Alloc(c), right, f), <<St(slot)>>)
  IN  Free(Emit(Value(c1, left, f), <<XMem(slot)>>))

Value(c, e, f) ==
  CASE e.n = "num"  -> Emit(c, <<Imm(e.value)>>)
    [] e.n = "len"  -> Emit(c, <<LdLen>>)
    [] e.n = "byte" -> Access(c, e, f)
    [] e.n = "bin"  -> Arithmetic(c, e, f)
    [] e.n = "lit" /\ e.kind = "ipv4" -> Emit(c, <<Imm(e.value[1])>>)
    [] OTHER        -> Error(c)

Arithmetic(c, e, f) ==
  IF e.op \notin UNION {Operators(l) : l \in 5 .. 10} THEN Error(c)
  ELSE IF e.right.n # "num" THEN Emit(Operands(c, e.left, e.right, f), <<AluX(e.op)>>)
  ELSE IF e.op \in {"/", "%"} /\ e.right.value = 0 THEN Error(c)
  ELSE Emit(Value(c, e.left, f), <<Alu(e.op, e.right.value)>>)

FieldOffset(name) == IF name = "tcpflags" THEN 13 ELSE IF name = "icmpcode" THEN 1 ELSE 0

(* Load size bytes at base + offset.                                       *)
At(c, base, e, f) ==
  LET fixed == CASE e.offset.n = "num" -> <<e.offset.value>>
                 [] e.offset.n = "field" -> <<FieldOffset(e.offset.name)>>
                 [] OTHER -> <<>>
  IN  IF fixed # <<>> THEN Emit(c, <<Abs(e.size, base + fixed[1])>>)
      ELSE Emit(Value(c, e.offset, f),
                (IF base = 0 THEN <<>> ELSE <<Alu("+", base)>>) \o <<Tax, Ind(e.size, 0)>>)

(* The same behind the IP header whose length is in X.                     *)
AtTransport(c, e, f) ==
  LET slot == c.scratch
      c1 == Emit(Value(Emit(Alloc(c), <<Stx(slot)>>), e.offset, f),
                 <<Alu("+", 14), XMem(slot), AluX("+"), Tax, Ind(e.size, 0)>>)
  IN  CASE e.offset.n = "num"   -> Emit(c, <<Ind(e.size, 14 + e.offset.value)>>)
        [] e.offset.n = "field" -> Emit(c, <<Ind(e.size, 14 + FieldOffset(e.offset.name))>>)
        [] OTHER -> Free(c1)

Access(c, e, f) ==
  LET proto == e.protocol
      first == NewLabel(c, 1)
      again == CASE c.explicit = IP ->
                      Emit(Fresh(c, 1),
                        <<Abs(1, c.p4), Jump("jeq", TransportNum[proto], Next0, f), Abs(2, c.frag),
                          Jump("jset", 8191, f, first), Label(first), Msh(c.h4)>>)
                 [] c.explicit = IP6 -> Emit(c, <<XImm(40)>>)
                 [] OTHER -> c
  IN  CASE proto \in {"ether", "link"} -> At(c, 0, e, f)
        [] proto \in {"ip", "ip4", "ipv4", "ip6", "ipv6"} ->
             At(TypeGuard(c, EtherTypes[proto], f), c.h4, e, f)
        [] proto \in DOMAIN TransportNum ->
             AtTransport(IF c.sip THEN again ELSE SetupTransport(c, proto, f), e, f)
        [] proto \in DOMAIN EtherTypes /\ EtherTypes[proto] \notin {IP, IP6} ->
             IF e.offset.n \in {"num", "field"} THEN At(TypeGuard(c, EtherTypes[proto], f), 14, e, f)
             ELSE TypeGuard(c, EtherTypes[proto], f)
        [] OTHER -> Error(c)

(* `<' and `<=' are `>=' and `>' with the targets swapped.                 *)
Relational(op, t, f, J(_, _, _)) ==
  CASE op = "==" -> J("jeq", t, f)
    [] op = "!=" -> J("jeq", f, t)
    [] op = ">"  -> J("jgt", t, f)
    [] op = ">=" -> J("jge", t, f)
    [] op = "<"  -> J("jge", f, t)
    [] op = "<=" -> J("jgt", f, t)

(* (value & mask) against 0; `<' and `<=' emit no jump at all.             *)
MaskTest(c, e, t, f) ==
  LET mask == e.left.right.value
  IN  Emit(Value(c, e.left.left, f),
           CASE e.op \in {"!=", ">"} -> <<Jump("jset", mask, t, f)>>
             [] e.op = "=="          -> <<Jump("jset", mask, f, t)>>
             [] e.op = ">="          -> <<Ja(t)>>
             [] OTHER                -> <<>>)

Comparison(c, e, t, f) ==
  LET masked == /\ e.left.n = "bin" /\ e.left.op = "&" /\ e.left.right.n = "num"
                /\ e.right.n = "num" /\ e.right.value = 0
      K(op, t1, f1) == Jump(op, e.right.value, t1, f1)
  IN  IF masked THEN MaskTest(c, e, t, f)
      ELSE IF e.right.n = "num" THEN Emit(Value(c, e.left, f), <<Relational(e.op, t, f, K)>>)
      ELSE Emit(Operands(c, e.left, e.right, f), <<Relational(e.op, t, f, JumpX)>>)

BitTest(c, e, t, f) ==
  IF e.right.n = "num"
  THEN Emit(Value(c, e.left, f), <<Jump("jset", e.right.value, t, f)>>)
  ELSE Emit(Operands(c, e.left, e.right, f), <<JumpX("jset", t, f)>>)

Condition(c, e, t, f) ==
  LET nxt == NewLabel(c, 1)
      Both(c1) == Condition(Emit(c1, <<Label(nxt)>>), e.right, t, f)
      NonZero == Emit(Value(c, e, f), <<Jump("jeq", 0, f, t)>>)
  IN  CASE e.n = "bin" ->
             (CASE e.op = "and" -> Both(Condition(Fresh(c, 1), e.left, nxt, f))
                [] e.op = "or"  -> Both(Condition(Fresh(c, 1), e.left, t, nxt))
                [] e.op \in {"==", "!=", ">", ">=", "<", "<="} -> Comparison(c, e, t, f)
                [] e.op = "&"   -> BitTest(c, e, t, f)
                [] OTHER        -> NonZero)
        [] e.n = "not"   -> Condition(c, e.expr, f, t)
        [] e.n = "proto" -> ProtocolTest(c, e.name, t, f)
        [] e.n = "kw"    -> KeywordTest(c, e, t, f)
        [] e.n \in {"byte", "num", "len"} -> NonZero
        [] OTHER         -> Error(c)

(* compile() starts over with the output and the counters, and with        *)
(* nothing else.                                                           *)
Compile(c, e) ==
  LET done == Condition([c EXCEPT !.out = <<>>, !.label = 0, !.scratch = 0, !.err = FALSE],
                        e, Accept, Reject)
      a == Assemble(done.out)
  IN  [compiler |-> done, ok |-> ~done.err /\ a.ok,
       code |-> IF ~done.err /\ a.ok THEN a.code ELSE <<>>]
=============================================================================
