----------------------------- MODULE BpfMachine -----------------------------
(***************************************************************************)
(* Assembled classic BPF programs: the emulator that runs one on a packet, *)
(* the peephole optimiser, and the packing for the kernel.                 *)
(* src/LightBPF/CompilerSet: Instruction.py, Emulator.py, Peephole.py,     *)
(* Fprog.py.                                                               *)
(*                                                                         *)
(* A program is a sequence of instructions; addresses count from 0, as in  *)
(* the code, so instruction a is code[a + 1].  Jumps go forward: nothing   *)
(* else leaves the compiler, and the kernel takes nothing else.            *)
(***************************************************************************)
EXTENDS Integers, Sequences, FiniteSetsExt

CONSTANTS
  Word,       \* registers hold 0 .. Word-1 (2^32 in the code)
  MaxOffset,  \* the longest conditional jump (255 in the code)
  BitAnd(_, _), BitOr(_, _), BitXor(_, _)

ASSUME WordAssumption == Word \in {2^n : n \in 24 .. 30}
ASSUME MaxOffsetAssumption == MaxOffset \in 1 .. 255

Snaplen == 262144
Slots == 0 .. 15

Classes == {"ld", "ldx", "st", "stx", "alu", "jmp", "ret", "misc"}

(* One instruction by class and mode; jt is also the distance of a `ja'.   *)
Instruction ==
  [class : Classes, op : STRING, size : {1, 2, 4}, src : {"k", "x"},
   jt : Nat, jf : Nat, k : Int]

IsJump(i) == i.class = "jmp"
IsJa(i)   == IsJump(i) /\ i.op = "ja"

Targets(i) == IF IsJa(i) THEN {i.jt} ELSE IF IsJump(i) THEN {i.jt, i.jf} ELSE {}

(* Instruction.to_bytes refuses an offset that is not a byte; to_fprog     *)
(* stores it in a c_uint8, which keeps its low bits.                       *)
Encodable(code) ==
  \A n \in DOMAIN code : IsJump(code[n]) /\ ~IsJa(code[n]) =>
     {code[n].jt, code[n].jf} \subseteq 0 .. MaxOffset

Fprog(code) ==
  [n \in DOMAIN code |->
     IF IsJa(code[n]) THEN code[n]
     ELSE [code[n] EXCEPT !.jt = @ % (MaxOffset + 1), !.jf = @ % (MaxOffset + 1)]]

-----------------------------------------------------------------------------
(* The emulator: the registers A and X and the scratch memory M.  A load   *)
(* outside the packet and a division by zero end the program with 0: the   *)
(* packet is refused.                                                      *)

ReadAt(p, off, size) ==
  LET b(n) == p[off + n]
  IN  CASE size = 1 -> b(1)
        [] size = 2 -> b(1) * 256 + b(2)
        [] OTHER    -> (b(1) % (Word \div 2^24)) * 2^24 + b(2) * 2^16 + b(3) * 256 + b(4)

Shl(a, n) == IF n >= 30 \/ 2^n >= Word THEN 0 ELSE (a % (Word \div 2^n)) * 2^n
Shr(a, n) == IF n >= 30 THEN 0 ELSE a \div 2^n

Calc(op, a, v) ==
  CASE op = "+"  -> (a + v) % Word
    [] op = "-"  -> (a - v) % Word
    [] op = "*"  -> (a * v) % Word
    [] op = "/"  -> a \div v
    [] op = "%"  -> a % v
    [] op = "&"  -> BitAnd(a, v)
    [] op = "|"  -> BitOr(a, v)
    [] op = "^"  -> BitXor(a, v)
    [] op = "<<" -> Shl(a, v % 32)
    [] op = ">>" -> Shr(a, v % 32)

Holds(op, a, v) ==
  CASE op = "jeq"  -> a = v
    [] op = "jgt"  -> a > v
    [] op = "jge"  -> a >= v
    [] op = "jset" -> BitAnd(a, v) # 0

LoadOffset(i, r) == IF i.op = "ind" THEN r.X + i.k ELSE i.k
Operand(i, r) == IF i.src = "x" THEN r.X ELSE i.k

(* What ends the program at instruction i.                                 *)
Stops(i, r, p) ==
  \/ i.class = "ld" /\ i.op \in {"abs", "ind"} /\ LoadOffset(i, r) + i.size > Len(p)
  \/ i.class = "ldx" /\ i.op = "msh" /\ i.k >= Len(p)
  \/ i.class = "alu" /\ i.op \in {"/", "%"} /\ Operand(i, r) = 0
  \/ i.class = "ret"

(* What it does to the registers.                                          *)
Effect(i, r, p) ==
  CASE i.class = "ld" ->
         [r EXCEPT !.A = CASE i.op = "imm" -> i.k
                           [] i.op = "len" -> Len(p)
                           [] i.op = "mem" -> r.M[i.k]
                           [] OTHER -> ReadAt(p, LoadOffset(i, r), i.size)]
    [] i.class = "ldx" ->
         [r EXCEPT !.X = CASE i.op = "imm" -> i.k
                           [] i.op = "len" -> Len(p)
                           [] i.op = "mem" -> r.M[i.k]
                           [] i.op = "msh" -> 4 * (p[i.k + 1] % 16)]
    [] i.class = "st"   -> [r EXCEPT !.M[i.k] = r.A]
    [] i.class = "stx"  -> [r EXCEPT !.M[i.k] = r.X]
    [] i.class = "alu"  -> [r EXCEPT !.A = Calc(i.op, r.A, Operand(i, r))]
    [] i.class = "misc" -> IF i.op = "tax" THEN [r EXCEPT !.X = r.A] ELSE [r EXCEPT !.A = r.X]
    [] i.class = "jmp"  -> r

(* How far it jumps.                                                       *)
Skips(i, r) ==
  IF ~IsJump(i) THEN 0
  ELSE IF IsJa(i) \/ Holds(i.op, r.A, Operand(i, r)) THEN i.jt ELSE i.jf

Inside(code, a) == a \in 0 .. Len(code) - 1

Halted(code, m, p) == ~Inside(code, m.pc) \/ Stops(code[m.pc + 1], m.regs, p)

Step(code, m, p) ==
  LET i == code[m.pc + 1]
  IN  [pc |-> m.pc + 1 + Skips(i, m.regs), regs |-> Effect(i, m.regs, p)]

(* Every jump goes forward: no run has more steps than the program has     *)
(* instructions.                                                           *)
Run(code, p, m) ==
  LET after[n \in 0 .. Len(code)] ==
        IF n = 0 THEN m
        ELSE LET before == after[n - 1]
             IN  IF Halted(code, before, p) THEN before ELSE Step(code, before, p)
  IN  after[Len(code)]

Verdict(code, m) ==
  IF Inside(code, m.pc) /\ code[m.pc + 1].class = "ret" THEN code[m.pc + 1].k ELSE 0

Start == [pc |-> 0, regs |-> [A |-> 0, X |-> 0, M |-> [s \in Slots |-> 0]]]

Execute(code, p) == Verdict(code, Run(code, p, Start))

-----------------------------------------------------------------------------
(* The peephole optimiser.                                                 *)

(* Where instruction a may jump to.                                        *)
JumpsTo(code, a) == {a + 1 + o : o \in Targets(code[a + 1])}

(* A jump with other distances.                                            *)
Aimed(i, t, f) == [i EXCEPT !.jt = t, !.jf = IF IsJa(i) THEN @ ELSE f]

(* The addresses before a that stay, in order.                             *)
Packed(n, removed) ==
  LET packed[a \in 0 .. n] ==
        IF a = 0 THEN <<>>
        ELSE IF a - 1 \in removed THEN packed[a - 1] ELSE Append(packed[a - 1], a - 1)
  IN  packed

(* old_to_new, and an address that has none for what is after the end.     *)
NextKept(n, removed, a) == IF a < n THEN Min({b \in a .. n : b \notin removed}) ELSE a
NewTarget(n, removed, a) ==
  LET k == NextKept(n, removed, a) IN IF k < n THEN Len(Packed(n, removed)[k]) ELSE k

DropInsns(code, removed) ==
  LET n == Len(code)
      kept == Packed(n, removed)[n]
      Remapped(q) ==
        LET i == code[kept[q] + 1]
            To(o) == NewTarget(n, removed, kept[q] + 1 + o) - q
        IN  IF ~IsJump(i) THEN i
            ELSE Aimed(i, To(i.jt), To(i.jf))
  IN  IF removed = {} THEN code ELSE [q \in 1 .. Len(kept) |-> Remapped(q)]

(* Mutant: every `ja' counts as a no-op.                                   *)
RemoveEveryJa(code) == DropInsns(code, {a \in 0 .. Len(code) - 1 : IsJa(code[a + 1])})

RemoveNoops(code) ==
  DropInsns(code, {a \in 0 .. Len(code) - 1 : IsJa(code[a + 1]) /\ code[a + 1].jt = 0})

(* resolve(): from `ja' to `ja', none of them twice.                       *)
Hop(code, h) ==
  IF ~Inside(code, h.t) \/ h.t \in h.seen \/ ~IsJa(code[h.t + 1]) THEN h
  ELSE [t |-> h.t + 1 + code[h.t + 1].jt, seen |-> h.seen \cup {h.t}]

Follow(code, t) ==
  LET hops[n \in 0 .. Len(code)] ==
        IF n = 0 THEN [t |-> t, seen |-> {}] ELSE Hop(code, hops[n - 1])
  IN  hops[Len(code)].t

Threaded(code, a) ==
  LET i == code[a + 1]
      To(o) == Follow(code, a + 1 + o) - (a + 1)
  IN  IF ~IsJump(i) THEN code
      ELSE [code EXCEPT ![a + 1] = Aimed(i, To(i.jt), To(i.jf))]

(* Instruction after instruction, each seeing what those before became.    *)
ThreadJumps(code) ==
  LET threaded[n \in 0 .. Len(code)] ==
        IF n = 0 THEN code ELSE Threaded(threaded[n - 1], n - 1)
  IN  threaded[Len(code)]

(* What can come after instruction a.  Whatever some jump names is kept,   *)
(* even when that jump is itself dead.                                     *)
After(code, a) ==
  LET i == code[a + 1]
  IN  IF i.class = "ret" THEN {}
      ELSE IF IsJa(i) THEN JumpsTo(code, a)
      ELSE JumpsTo(code, a) \cup {a + 1}

Reachable(code) ==
  LET all == 0 .. Len(code) - 1
      reached[n \in 0 .. Len(code)] ==
        IF n = 0 THEN all \cap ({0} \cup UNION {JumpsTo(code, a) : a \in all})
        ELSE LET r == reached[n - 1] IN r \cup (all \cap UNION {After(code, a) : a \in r})
  IN  reached[Len(code)]

DropDead(code) == DropInsns(code, (0 .. Len(code) - 1) \ Reachable(code))

Optimize(code) == ThreadJumps(DropDead(ThreadJumps(RemoveNoops(code))))
=============================================================================
