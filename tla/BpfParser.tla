----------------------------- MODULE BpfParser -----------------------------
(***************************************************************************)
(* Filter text to syntax tree: the lexer's classification of words and the *)
(* recursive-descent parser.  src/LightBPF/Lexer.py, Parser.py,            *)
(* CompilerSet/Shortcut.py.                                                *)
(*                                                                         *)
(* The text is a sequence of lexemes, cut where the tokenizer's regular    *)
(* expression cuts: a kind, the word, and for numbers and addresses the    *)
(* numbers they stand for.  The name tables keep the names that tell the   *)
(* rules apart.                                                            *)
(***************************************************************************)
EXTENDS Integers, Sequences, FiniteSets, SequencesExt

-----------------------------------------------------------------------------
(* The lexer.                                                              *)

LogicalOps     == {"and", "or", "not"}
NamedConstants == [x \in {"tcp-syn", "tcp-ack", "icmp-echo"} |->
                     CASE x = "tcp-syn" -> 2 [] x = "tcp-ack" -> 16 [] OTHER -> 8]
FieldNames     == {"tcpflags", "icmptype", "icmpcode"}
DltLinks       == {"ether", "link", "wlan"}
ProtoQualifiers == {"tcp", "udp", "icmp", "icmp6", "sctp"}
EtherTypes     == [x \in {"ip", "ip4", "ipv4", "ip6", "ipv6", "arp"} |->
                     CASE x \in {"ip6", "ipv6"} -> 34525 [] x = "arp" -> 2054 [] OTHER -> 2048]
IpProtocols    == [x \in {"icmp", "igmp", "ipv4", "tcp", "udp", "ipv6", "gre", "sctp"} |->
                     CASE x = "icmp" -> 1 [] x = "igmp" -> 2 [] x = "ipv4" -> 4 [] x = "tcp" -> 6
                       [] x = "udp" -> 17 [] x = "ipv6" -> 41 [] x = "gre" -> 47 [] x = "sctp" -> 132]
Keywords       == {"host", "port", "net", "mask", "src", "dst", "portrange", "inbound", "outbound",
                   "less", "greater", "gateway", "broadcast", "multicast", "proto", "protochain",
                   "len", "vlan", "mpls"}

Token(type, word, nums) == [type |-> type, word |-> word, nums |-> nums]

(* The first table that holds a word decides what it is.                   *)
ClassifyWord(w) ==
  IF w \in DOMAIN NamedConstants /\ w \notin LogicalOps
  THEN Token("NUMBER", "", <<NamedConstants[w]>>)
  ELSE Token(CASE w \in LogicalOps          -> "LOGICAL"
               [] w \in FieldNames          -> "FIELD"
               [] w \in DltLinks            -> "DLT"
               [] w \in ProtoQualifiers     -> "IP-PROTOCOL"
               [] w \in {"vlan", "mpls"}    -> "KEYWORD"
               [] w \in DOMAIN EtherTypes   -> "ETHERTYPE"
               [] w \in DOMAIN IpProtocols  -> "IP-PROTOCOL"
               [] w \in Keywords            -> "KEYWORD"
               [] OTHER                     -> "IDENTIFIER", w, <<>>)

Tokenize(text) ==
  [n \in DOMAIN text |->
     LET x == text[n]
     IN  CASE x.kind = "WORD"      -> ClassifyWord(x.word)
           [] x.kind = "NOT_SYM"   -> Token("LOGICAL", "not", <<>>)
           [] x.kind = "LOGIC_SYM" -> Token("LOGICAL", IF x.word = "&&" THEN "and" ELSE "or", <<>>)
           [] x.kind = "REL_OP"    -> Token("REL_OP", IF x.word = "=" THEN "==" ELSE x.word, <<>>)
           [] x.kind \in {"HEX", "DIGITS"} -> Token("NUMBER", "", x.nums)
           [] OTHER                -> Token(x.kind, x.word, x.nums)]

Lexeme(kind, word, nums) == [kind |-> kind, word |-> word, nums |-> nums]

(* Shortcut: the word qinq stands for vlan and vlan.                       *)
Qinq(text) ==
  LET W(w) == Lexeme("WORD", w, <<>>)
  IN  FlattenSeq([n \in DOMAIN text |->
        IF text[n] = W("qinq") THEN <<W("vlan"), W("and"), W("vlan")>> ELSE <<text[n]>>])

-----------------------------------------------------------------------------
(* Trees.                                                                  *)

Binary(l, op, r) == [n |-> "bin", op |-> op, left |-> l, right |-> r]
Negation(e)      == [n |-> "not", expr |-> e]
Protocol(name)   == [n |-> "proto", name |-> name]
Number(v)        == [n |-> "num", value |-> v]
Length           == [n |-> "len"]
Field(name)      == [n |-> "field", name |-> name]
Literal(name, v, kind) == [n |-> "lit", name |-> name, value |-> v, kind |-> kind]
Byte(proto, offset, size) == [n |-> "byte", protocol |-> proto, offset |-> offset, size |-> size]
Keyword(kw, name, value, direction, protocol, vtype) ==
  [n |-> "kw", keyword |-> kw, name |-> name, value |-> value, direction |-> direction,
   protocol |-> protocol, vtype |-> vtype, mask |-> <<>>]

None   == "none"
NoTree == [n |-> "none"]

AddrType(t) == CASE t = "IPV4" -> "ipv4" [] t = "IPV6" -> "ipv6" [] t = "MAC" -> "mac"
                 [] t = "IPV4_CIDR" -> "cidr4" [] t = "IPV6_CIDR" -> "cidr6" [] OTHER -> None

-----------------------------------------------------------------------------
(* The parser.  A rule takes the tokens and a position and gives           *)
(* [ok, node, pos]; a SyntaxError is Failed.                               *)

Failed == [ok |-> FALSE, node |-> NoTree, pos |-> 0]
Parsed(node, pos) == [ok |-> TRUE, node |-> node, pos |-> pos]

Type(s, p) == IF p \in DOMAIN s THEN s[p].type ELSE None
IsTok(s, p, type, values) == Type(s, p) = type /\ s[p].word \in values
Proto3 == {"IP-PROTOCOL", "DLT", "ETHERTYPE"}

(* A tree in hand, the closing token must follow.                          *)
Closed(s, r, symbol) ==
  IF r.ok /\ IsTok(s, r.pos, "SYMBOL", {symbol}) THEN Parsed(r.node, r.pos + 1) ELSE Failed

(* The value that follows a keyword.                                       *)
KeywordValue(s, p, kw, proto, dir) ==
  LET t == Type(s, p)
      Node(vtype) == Keyword(kw, s[p].word, s[p].nums, dir, proto, vtype)
      NoValue == Parsed(Keyword(kw, "", <<>>, dir, proto, None), p)
      Take(vtype) == Parsed(Node(vtype), p + 1)
      masked == kw = "net" /\ IsTok(s, p + 1, "KEYWORD", {"mask"})
  IN  CASE kw \in {"broadcast", "multicast", "inbound", "outbound", "gateway"}
           /\ AddrType(t) = None /\ t \notin {"NUMBER", "IDENTIFIER"} -> NoValue
        [] kw \in {"less", "greater"} -> IF t = "NUMBER" THEN Take("number") ELSE Failed
        [] kw \in {"proto", "protochain"} ->
             IF t = "NUMBER" THEN Take("number")
             ELSE IF t \in {"IP-PROTOCOL", "ETHERTYPE", "IDENTIFIER"} THEN Take("name") ELSE Failed
        [] kw \in {"vlan", "mpls"} ->
             IF t = "NUMBER" THEN Take("number") ELSE NoValue
        [] kw = "portrange" ->
             IF t = "RANGE" /\ s[p].nums[1] <= s[p].nums[2] THEN Take("range") ELSE Failed
        [] kw = "port" ->
             IF t = "NUMBER" THEN Take("number")
             ELSE IF t \in {"IDENTIFIER", "IP-PROTOCOL"} THEN Take("name") ELSE Failed
        [] kw \in {"host", "net", "gateway"} ->
             IF AddrType(t) # None
             THEN IF ~masked THEN Take(AddrType(t))
                  ELSE IF Type(s, p + 2) # "IPV4" THEN Failed
                  ELSE Parsed([Node(AddrType(t)) EXCEPT !.mask = s[p + 2].nums], p + 3)
             ELSE IF t = "NUMBER" /\ kw = "net" THEN Take("number")
             ELSE IF t = "IDENTIFIER" THEN Take("name") ELSE Failed
        [] OTHER -> Failed

(* [protocol] [src | dst | src or dst | src and dst] keyword value.        *)
QualifierRule(s, p) ==
  LET proto == IF Type(s, p) \in Proto3 THEN s[p].word ELSE None
      p1    == IF proto = None THEN p ELSE p + 1
      dir1  == IF IsTok(s, p1, "KEYWORD", {"src", "dst"}) THEN s[p1].word ELSE None
      joined == /\ dir1 # None
                /\ IsTok(s, p1 + 1, "LOGICAL", {"or", "and"})
                /\ IsTok(s, p1 + 2, "KEYWORD", {"src", "dst"} \ {dir1})
                /\ Type(s, p1 + 3) = "KEYWORD" /\ s[p1 + 3].word \notin {"src", "dst"}
      dir   == IF ~joined THEN dir1
               ELSE IF s[p1 + 1].word = "or" THEN "src or dst" ELSE "src and dst"
      p2    == IF joined THEN p1 + 3 ELSE IF dir1 # None THEN p1 + 1 ELSE p1
  IN  IF proto # None /\ Type(s, p1) # "KEYWORD" THEN Parsed(Protocol(proto), p1)
      ELSE IF Type(s, p2) = "KEYWORD" THEN KeywordValue(s, p2 + 1, s[p2].word, proto, dir)
      ELSE Failed

(* Mutant: no look at the bracket behind a protocol.                       *)
StartsWithProtocol(s, p) ==
  Type(s, p) \in Proto3 \/ (Type(s, p) = "KEYWORD" /\ s[p].word # "len")

StartsQualifierRule(s, p) ==
  \/ Type(s, p) = "KEYWORD" /\ s[p].word # "len"
  \/ Type(s, p) \in Proto3 /\ ~IsTok(s, p + 1, "SYMBOL", {"["})

(* The operators of the binary levels, loosest first: levels 1 and 2 join  *)
(* conditions, 5 to 10 values.                                             *)
Operators(level) ==
  CASE level = 1 -> {"or"} [] level = 2 -> {"and"} [] level = 5 -> {"|"} [] level = 6 -> {"^"}
    [] level = 7 -> {"&"} [] level = 8 -> {"<<", ">>"} [] level = 9 -> {"+", "-"}
    [] level = 10 -> {"*", "/", "%"} [] OTHER -> {}
OperatorType(level) == IF level <= 2 THEN "LOGICAL" ELSE "MATH_OP"

RECURSIVE Level(_, _, _), More(_, _, _), NotExpr(_, _), Primary(_, _), Relation(_, _), Atom(_, _)

(* A binary level: operands of the next level, joined from the left.       *)
Tighter(s, p, level) ==
  IF level = 2 THEN NotExpr(s, p) ELSE IF level = 10 THEN Atom(s, p) ELSE Level(s, p, level + 1)

Level(s, p, level) == More(s, Tighter(s, p, level), level)

More(s, left, level) ==
  IF left.ok /\ IsTok(s, left.pos, OperatorType(level), Operators(level))
  THEN LET right == Tighter(s, left.pos + 1, level)
       IN  IF right.ok
           THEN More(s, Parsed(Binary(left.node, s[left.pos].word, right.node), right.pos), level)
           ELSE Failed
  ELSE left

NotExpr(s, p) ==
  IF IsTok(s, p, "LOGICAL", {"not"})
  THEN LET e == NotExpr(s, p + 1) IN IF e.ok THEN Parsed(Negation(e.node), e.pos) ELSE Failed
  ELSE Primary(s, p)

(* A parenthesis is tried as a condition first; when that fails, or a      *)
(* relation or an operator follows it, it is read again as a value.        *)
Primary(s, p) ==
  LET inner == IF IsTok(s, p, "SYMBOL", {"("}) THEN Closed(s, Level(s, p + 1, 1), ")") ELSE Failed
  IN  IF inner.ok /\ Type(s, inner.pos) \notin {"REL_OP", "MATH_OP"} THEN inner
      ELSE IF StartsQualifierRule(s, p) THEN QualifierRule(s, p)
      ELSE Relation(s, p)

Relation(s, p) ==
  LET left  == Level(s, p, 5)
      right == Level(s, left.pos + 1, 5)
  IN  IF ~left.ok \/ Type(s, left.pos) # "REL_OP" THEN left
      ELSE IF right.ok THEN Parsed(Binary(left.node, s[left.pos].word, right.node), right.pos)
      ELSE Failed

(* proto [ offset : size ]                                                 *)
ByteAccess(s, p) ==
  LET off   == Level(s, p + 2, 5)
      sized == off.ok /\ IsTok(s, off.pos, "SYMBOL", {":"})
      right == sized => Type(s, off.pos + 1) = "NUMBER" /\ s[off.pos + 1].nums[1] \in {1, 2, 4}
      size  == IF sized THEN s[off.pos + 1].nums[1] ELSE 1
  IN  IF ~off.ok \/ ~right THEN Failed
      ELSE Closed(s, Parsed(Byte(s[p].word, off.node, size),
                            IF sized THEN off.pos + 2 ELSE off.pos), "]")

Atom(s, p) ==
  LET t == Type(s, p)
  IN  CASE IsTok(s, p, "SYMBOL", {"("})   -> Closed(s, Level(s, p + 1, 5), ")")
        [] IsTok(s, p, "MATH_OP", {"-"})  ->
             LET e == Atom(s, p + 1)
             IN  IF e.ok THEN Parsed(Binary(Number(0), "-", e.node), e.pos) ELSE Failed
        [] t = "NUMBER"                   -> Parsed(Number(s[p].nums[1]), p + 1)
        [] IsTok(s, p, "KEYWORD", {"len"}) -> Parsed(Length, p + 1)
        [] t = "FIELD"                    -> Parsed(Field(s[p].word), p + 1)
        [] t \in Proto3 -> IF IsTok(s, p + 1, "SYMBOL", {"["}) THEN ByteAccess(s, p)
                           ELSE Parsed(Protocol(s[p].word), p + 1)
        [] AddrType(t) # None             -> Parsed(Literal(s[p].word, s[p].nums, AddrType(t)), p + 1)
        [] t = "IDENTIFIER"               -> Parsed(Literal(s[p].word, <<>>, "identifier"), p + 1)
        [] OTHER                          -> Failed

Parse(s) ==
  LET r == Level(s, 1, 1) IN IF r.ok /\ r.pos = Len(s) + 1 THEN r ELSE Failed
=============================================================================
