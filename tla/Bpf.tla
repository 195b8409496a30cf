-------------------------------- MODULE Bpf --------------------------------
(***************************************************************************)
(* A capture filter on its way from text to verdicts: lexed and parsed,    *)
(* compiled, optimised, packed for the kernel, run on every packet.        *)
(* src/LightBPF (BpfCompiler.compile_str and what it calls).               *)
(*                                                                         *)
(* `Wanted' is the other side of the comparison: what an expression means, *)
(* told from the packet and not from the code compiled for it.             *)
(***************************************************************************)
EXTENDS BpfCompiler, BpfLoad

CONSTANTS
  Expressions,   \* trees, given to the program as text
  Nonsense       \* texts that are no filter

VARIABLES
  asked,      \* what the text means; no tree for nonsense and for bare programs
  text,       \* the filter string, as lexemes
  ast         \* what the parser made of it

textVars == <<asked, text, ast>>
vars == <<textVars, loadVars>>

-----------------------------------------------------------------------------
(* An expression as a user writes it, with the fewest parentheses.         *)

Tightness(e) ==
  CASE e.n = "bin" -> IF \E l \in 1 .. 10 : e.op \in Operators(l)
                      THEN CHOOSE l \in 1 .. 10 : e.op \in Operators(l) ELSE 4
    [] e.n = "not" -> 3
    [] OTHER       -> 11

WordText(w) == Lexeme("WORD", w, <<>>)
Sym(w)      == Lexeme("SYMBOL", w, <<>>)
Digits(v)   == Lexeme("DIGITS", "", <<v>>)

ValueText(e) ==
  LET kind == CASE e.vtype = "number" -> "DIGITS" [] e.vtype = "name" -> "WORD" [] e.vtype = "range" -> "RANGE"
                [] e.vtype = "ipv4" -> "IPV4" [] e.vtype = "ipv6" -> "IPV6" [] e.vtype = "mac" -> "MAC"
                [] e.vtype = "cidr4" -> "IPV4_CIDR" [] OTHER -> "IPV6_CIDR"
  IN  IF e.vtype = None THEN <<>> ELSE <<Lexeme(kind, e.name, e.value)>>

DirectionText(d) ==
  CASE d = None -> <<>>
    [] d \in {"src", "dst"} -> <<WordText(d)>>
    [] OTHER -> <<WordText("src"), WordText(IF d = "src and dst" THEN "and" ELSE "or"), WordText("dst")>>

RECURSIVE Written(_, _)
Written(e, least) ==
  LET l == Tightness(e)
      op == Lexeme(IF l <= 2 THEN "WORD" ELSE IF l = 4 THEN "REL_OP" ELSE "MATH_OP", e.op, <<>>)
      bare ==
        CASE e.n = "bin"   -> Written(e.left, IF l = 4 THEN 5 ELSE l) \o <<op>> \o Written(e.right, l + 1)
          [] e.n = "not"   -> <<Lexeme("NOT_SYM", "!", <<>>)>> \o Written(e.expr, 3)
          [] e.n = "proto" -> <<WordText(e.name)>>
          [] e.n = "num"   -> <<Digits(e.value)>>
          [] e.n = "len"   -> <<WordText("len")>>
          [] e.n = "field" -> <<WordText(e.name)>>
          [] e.n = "lit"   -> <<Lexeme("IPV4", e.name, e.value)>>
          [] e.n = "byte"  -> <<WordText(e.protocol), Sym("[")>> \o Written(e.offset, 5)
                              \o (IF e.size = 1 THEN <<>> ELSE <<Sym(":"), Digits(e.size)>>) \o <<Sym("]")>>
          [] e.n = "kw"    -> (IF e.protocol = None THEN <<>> ELSE <<WordText(e.protocol)>>)
                              \o DirectionText(e.direction) \o <<WordText(e.keyword)>> \o ValueText(e)
                              \o (IF e.mask = <<>> THEN <<>>
                                  ELSE <<WordText("mask"), Lexeme("IPV4", "", e.mask)>>)
  IN  IF l < least THEN <<Sym("(")>> \o bare \o <<Sym(")")>> ELSE bare

-----------------------------------------------------------------------------
(* What an expression means for a packet.  A number is a value; Cut stands *)
(* for a byte that is not there (the whole filter refuses), Miss for a     *)
(* header that is not there (the test is false), Open for a question this  *)
(* definition leaves to the code.                                          *)

Cut == -1  Miss == -2  Open == -3

Truth(b) == IF b THEN 1 ELSE 0
AndThen(a, b) == IF a # 1 THEN a ELSE b
OrElse(a, b)  == IF a # 0 THEN a ELSE b

Get(p, off, size) == IF off + size > Len(p) THEN Cut ELSE ReadAt(p, off, size)
Same(v, w) == IF v = Cut THEN Cut ELSE Truth(v = w)
HasType(p, type) == Same(Get(p, 12, 2), type)

(* Where the header of one of these protocols starts; a fragment that is   *)
(* not the first has none.                                                 *)
TransportAt(p, nums) ==
  LET type == Get(p, 12, 2)
  IN  CASE type = IP /\ Len(p) < 24 -> Cut
        [] type = IP /\ Len(p) >= 24 /\ Get(p, 23, 1) \in nums ->
             IF Get(p, 20, 2) % 8192 # 0 THEN Miss ELSE 14 + 4 * (Get(p, 14, 1) % 16)
        [] type = IP6 -> IF Len(p) < 21 THEN Cut ELSE IF Get(p, 20, 1) \in nums THEN 54 ELSE Miss
        [] OTHER -> IF type = Cut THEN Cut ELSE Miss

Untag(p, n) == SubSeq(p, 1, 12) \o SubSeq(p, 13 + 4 * n, Len(p))

RECURSIVE Tags(_)
Tags(e) == CASE e.n = "kw"  -> Truth(e.keyword = "vlan")
             [] e.n = "bin" -> IF e.op = "and" THEN Tags(e.left) + Tags(e.right) ELSE 0
             [] OTHER       -> 0

Either(dir, s, d) ==
  CASE dir = "src" -> s [] dir = "dst" -> d
    [] dir = "src and dst" -> AndThen(s, d) [] OTHER -> OrElse(s, d)

WordsAt(p, off, words, masks) ==
  LET One(i) == LET v == Get(p, off + 4 * (i - 1), 4)
                IN  IF v = Cut THEN Cut ELSE Truth((v & masks[i]) = (words[i] & masks[i]))
  IN  FoldLeft(LAMBDA a, i : AndThen(a, One(i)), 1, [i \in DOMAIN words |-> i])

KeywordMeans(e, p) ==
  LET V4(mask, addr) == AndThen(HasType(p, IP),
        Either(e.direction, WordsAt(p, 26, <<addr>>, <<mask>>), WordsAt(p, 30, <<addr>>, <<mask>>)))
      V6(words, masks) == AndThen(HasType(p, IP6),
        Either(e.direction, WordsAt(p, 22, words, masks), WordsAt(p, 38, words, masks)))
      Mac(off) == AndThen(Same(Get(p, off, 4), e.value[1]), Same(Get(p, off + 4, 2), e.value[2]))
      h == TransportAt(p, IF e.protocol = None THEN {6, 17} ELSE {TransportNum[e.protocol]})
      Lo == IF e.keyword = "portrange" THEN e.value[1]
            ELSE IF e.vtype = "name" THEN Services[e.name] ELSE e.value[1]
      Hi == IF e.keyword = "portrange" THEN e.value[2] ELSE Lo
      PortIn(off) == LET v == Get(p, h + off, 2) IN IF v = Cut THEN Cut ELSE Truth(v \in Lo .. Hi)
  IN  CASE e.keyword = "host" ->
             (CASE e.vtype = "ipv4" -> V4(AllOnes, e.value[1])
                [] e.vtype = "name" -> V4(AllOnes, HostByName[e.name])
                [] e.vtype = "ipv6" -> V6(e.value, [i \in 1 .. 4 |-> AllOnes])
                [] e.vtype = "mac"  -> Either(e.direction, Mac(6), Mac(0)))
        [] e.keyword = "net" ->
             (CASE e.mask # <<>>     -> V4(e.mask[1], e.value[1])
                [] e.vtype = "ipv4"  -> V4(NetMask(ClassPrefix(e.value[1])), e.value[1])
                [] e.vtype = "cidr4" -> V4(NetMask(e.value[2]), e.value[1])
                [] e.vtype = "cidr6" -> V6(SubSeq(e.value, 1, 4), SubSeq(e.value, 5, 8)))
        [] e.keyword \in {"port", "portrange"} ->
             IF h = Cut THEN Cut ELSE IF h = Miss THEN 0 ELSE Either(e.direction, PortIn(0), PortIn(2))
        [] e.keyword = "less"      -> Truth(Len(p) <= e.value[1])
        [] e.keyword = "greater"   -> Truth(Len(p) >= e.value[1])
        [] e.keyword = "broadcast" -> AndThen(Same(Get(p, 0, 4), AllOnes), Same(Get(p, 4, 2), 65535))
        [] e.keyword = "multicast" -> Same(Get(p, 0, 1) % 2, 1)
        [] e.keyword = "vlan" ->
             AndThen(OrElse(HasType(p, 33024), OrElse(HasType(p, 34984), HasType(p, 37120))),
                     IF e.vtype = None THEN 1
                     ELSE IF Get(p, 14, 2) = Cut THEN Cut ELSE Truth(Get(p, 14, 2) % 4096 = e.value[1]))
        [] e.keyword = "mpls" ->
             AndThen(HasType(p, 34887),
                     IF e.vtype = None THEN 1
                     ELSE IF Get(p, 14, 4) = Cut THEN Cut ELSE Truth(Get(p, 14, 4) \div 4096 = e.value[1]))
        [] e.keyword = "proto" ->
             LET names == IF e.protocol = "ether" THEN EtherTypes ELSE IpProtocols
                 num == IF e.vtype = "name" THEN names[e.name] ELSE e.value[1]
             IN  CASE e.protocol = "ether" -> HasType(p, num)
                   [] e.protocol = "ip6"   -> AndThen(HasType(p, IP6), Same(Get(p, 20, 1), num))
                   [] e.protocol = "ip"    -> AndThen(HasType(p, IP), Same(Get(p, 23, 1), num))

ProtocolMeans(name, p) ==
  LET type == Get(p, 12, 2)
      later == type = IP /\ Len(p) >= 24 /\ Get(p, 20, 2) % 8192 # 0
      h == TransportAt(p, {IpProtocols[name]})
  IN  CASE name \in {"ether", "link"} -> 1
        [] name \in DOMAIN EtherTypes -> HasType(p, EtherTypes[name])
        [] name = "icmp" -> AndThen(HasType(p, IP), Same(Get(p, 23, 1), 1))
        [] OTHER -> IF later THEN Open ELSE IF h = Cut THEN Cut ELSE Truth(h # Miss)

RECURSIVE Number1(_, _), Wanted(_, _)

Number1(e, p) ==
  LET r == Number1(e.right, p)
      l == Number1(e.left, p)
      base == CASE e.protocol = "ether" -> 0
                [] e.protocol \in DOMAIN EtherTypes ->
                     LET is == HasType(p, EtherTypes[e.protocol])
                     IN  IF is = 1 THEN 14 ELSE IF is = 0 THEN Miss ELSE Cut
                [] e.protocol \in DOMAIN TransportNum -> TransportAt(p, {TransportNum[e.protocol]})
      off == IF e.offset.n = "field" THEN FieldOffset(e.offset.name) ELSE Number1(e.offset, p)
  IN  CASE e.n = "num" -> e.value
        [] e.n = "lit" -> e.value[1]
        [] e.n = "len"  -> Len(p)
        [] e.n = "byte" -> IF base < 0 THEN base ELSE IF off < 0 THEN off ELSE Get(p, base + off, e.size)
        [] e.n = "bin"  -> IF r < 0 THEN r ELSE IF l < 0 THEN l
                           ELSE IF e.op \in {"/", "%"} /\ r = 0 THEN Cut ELSE Calc(e.op, l, r)

Wanted(e, p) ==
  LET r == Number1(e.right, p)
      l == Number1(e.left, p)
      v == Number1(e, p)
      Fails(x) == IF x = Miss THEN 0 ELSE x
      sides == IF r < 0 THEN Fails(r) ELSE IF l < 0 THEN Fails(l)
               ELSE Truth(CASE e.op = "==" -> l = r [] e.op = "!=" -> l # r [] e.op = ">" -> l > r
                            [] e.op = ">=" -> l >= r [] e.op = "<" -> l < r [] e.op = "<=" -> l <= r)
  IN  CASE e.n = "bin" ->
             (CASE e.op = "and" -> AndThen(Wanted(e.left, p), Wanted(e.right, Untag(p, Tags(e.left))))
                [] e.op = "or"  -> OrElse(Wanted(e.left, p), Wanted(e.right, p))
                [] e.op \in {"==", "!=", ">", ">=", "<", "<="} -> sides
                [] OTHER -> IF v < 0 THEN Fails(v) ELSE Truth(v # 0))
        [] e.n = "not" -> LET w == Wanted(e.expr, p) IN IF w < 0 THEN w ELSE 1 - w
        [] e.n = "kw"  -> KeywordMeans(e, p)
        [] e.n = "proto" -> ProtocolMeans(e.name, p)
        [] OTHER -> IF v < 0 THEN Fails(v) ELSE Truth(v # 0)

-----------------------------------------------------------------------------
Init ==
  /\ \/ \E e \in Expressions : asked = e /\ text = Written(e, 1) /\ stage = "text" /\ code = <<>>
     \/ \E s \in Nonsense : asked = NoTree /\ text = s /\ stage = "text" /\ code = <<>>
     \/ asked = NoTree /\ text = <<>> /\ LoadInit
  /\ ast = NoTree
  /\ heard = NothingHeard

ParseText ==
  /\ stage = "text"
  /\ LET r == Parse(Tokenize(Qinq(text)))
     IN  stage' = (IF r.ok THEN "parsed" ELSE "syntax") /\ ast' = r.node
  /\ UNCHANGED <<asked, text, code, heard>>

CompileTree ==
  /\ stage = "parsed"
  /\ LET r == Compile(NewCompiler, ast)
     IN  stage' = (IF r.ok THEN "compiled" ELSE "refused") /\ code' = r.code
  /\ UNCHANGED <<asked, text, ast, heard>>

(* "text" -> "parsed" -> "compiled", where the program is loaded; or to     *)
(* "syntax" or "refused".                                                  *)
Next == ParseText \/ CompileTree \/ (LoadNext /\ UNCHANGED textVars)

Spec == Init /\ [][Next]_vars

-----------------------------------------------------------------------------
(* Types of the pipeline's state.                                          *)
TypeOK ==
  /\ stage \in {"text", "parsed", "syntax", "refused", "compiled", "optimised", "attached"}
  /\ heard.answer \in {0, Snaplen} \cup 0 .. 1
  /\ code \in Seq(Instruction)

(* An expression written with no more parentheses than precedence and      *)
(* associativity ask for parses back to itself; nonsense does not parse.   *)
(* Parser.py:96-113.                                                       *)
ParsesAsWritten ==
  /\ asked # NoTree => (stage # "syntax" /\ (stage # "text" => ast = asked))
  /\ (asked = NoTree /\ code = <<>>) => stage \in {"text", "syntax"}

(* The attached program accepts a packet exactly when the expression holds *)
(* of it; a missing header makes a test false wherever it stands, also     *)
(* under `not' (Compiler.py:19-27).  Flags of the compiler that one test   *)
(* leaves set for the next, labels that fall through, a tag that does not  *)
(* move what follows it would all break this; the code has such places,    *)
(* and filters that meet one are not among the Expressions of the run that *)
(* passes but, where a document lists them, of the run that fails.         *)
FilterMeansWhatItSays ==
  asked # NoTree /\ heard # NothingHeard =>
    LET w == Wanted(asked, heard.packet)
    IN  w # Open => heard.answer = (IF w = 1 THEN Snaplen ELSE 0)

(* What the kernel asks of a program before it takes it: jumps go forward  *)
(* and stay inside, the last instruction returns, no scratch slot is read  *)
(* on a path that has not written it; and packing cut no offset short.     *)
MustWritten(c) ==
  LET n == Len(c)
      Into(a, slots, w) == [slots EXCEPT ![a] = @ \cap w]
      At1(slots, a) ==
        LET i == c[a + 1]
            w == slots[a] \cup (IF i.class \in {"st", "stx"} THEN {i.k} ELSE {})
        IN  CASE i.class = "ret" -> slots
              [] IsJa(i)   -> Into(a + 1 + i.jt, slots, w)
              [] IsJump(i) -> Into(a + 1 + i.jf, Into(a + 1 + i.jt, slots, w), w)
              [] OTHER     -> Into(a + 1, slots, w)
  IN  FoldLeft(At1, [a \in 0 .. n - 1 |-> IF a = 0 THEN {} ELSE Slots], [q \in 1 .. n |-> q - 1])

KernelTakes(c) ==
  /\ c # <<>> /\ c[Len(c)].class = "ret"
  /\ \A a \in 0 .. Len(c) - 1 : \A t \in {a + 1 + o : o \in Targets(c[a + 1])} : t \in a + 1 .. Len(c) - 1
  /\ \A a \in 0 .. Len(c) - 1 :
       (c[a + 1].op = "mem" /\ c[a + 1].class \in {"ld", "ldx"}) => c[a + 1].k \in MustWritten(c)[a]

(* What the compiler and the optimiser make of an expression is a program  *)
(* the kernel takes, and packing cuts none of its jumps short, optimised   *)
(* or not.  Optimising `net ::/0' in front of a long test would: the       *)
(* optimiser never looks at the eight bits a jump has (Peephole.py:141).   *)
AttachedWhole ==
  asked # NoTree => /\ (stage \in {"compiled", "optimised"} => Encodable(code))
                    /\ (stage = "attached" => KernelTakes(code))
=============================================================================
