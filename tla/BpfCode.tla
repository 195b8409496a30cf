------------------------------ MODULE BpfCode ------------------------------
(***************************************************************************)
(* What the compiler writes, and the assembler that turns its labels into  *)
(* offsets.  src/LightBPF/CompilerSet: Instruction.py, Opcode.py,          *)
(* Compiler.py (_assemble_and_backpatch).                                  *)
(*                                                                         *)
(* Before assembly jt and jf are labels, and labels stand among the        *)
(* instructions; <<"next">> is the 0 written to fall through.              *)
(***************************************************************************)
EXTENDS BpfMachine, FiniteSets, SequencesExt, Bitwise

Next0  == <<"next">>
Accept == <<"accept">>
Reject == <<"reject">>

-----------------------------------------------------------------------------
(* Instructions, as the compiler writes them.                              *)

Insn(class, op, size, k) ==
  [class |-> class, op |-> op, size |-> size, src |-> "k",
   jt |-> Next0, jf |-> Next0, k |-> k]

Abs(size, k) == Insn("ld", "abs", size, k)
Ind(size, k) == Insn("ld", "ind", size, k)
Imm(k)       == Insn("ld", "imm", 4, k % Word)
LdLen        == Insn("ld", "len", 4, 0)
XImm(k)      == Insn("ldx", "imm", 4, k)
XMem(m)      == Insn("ldx", "mem", 4, m)
Msh(k)       == Insn("ldx", "msh", 1, k)
St(m)        == Insn("st", "mem", 4, m)
Stx(m)       == Insn("stx", "mem", 4, m)
Alu(op, k)   == Insn("alu", op, 4, k % Word)
AluX(op)     == [Insn("alu", op, 4, 0) EXCEPT !.src = "x"]
Tax          == Insn("misc", "tax", 4, 0)
Ret(k)       == Insn("ret", "k", 4, k)
Ja(t)        == [Insn("jmp", "ja", 4, 0) EXCEPT !.jt = t]
Jump(op, k, t, f) == [Insn("jmp", op, 4, k % Word) EXCEPT !.jt = t, !.jf = f]
JumpX(op, t, f)   == [Jump(op, 0, t, f) EXCEPT !.src = "x"]
Label(l)     == [Insn("label", "label", 4, 0) EXCEPT !.jt = l]

-----------------------------------------------------------------------------
(* The assembler: drop the labels, append `accept' and `reject', turn each *)
(* target into an offset, following chains of `ja'.                        *)

(* Mutant: the labels stay among the instructions.                         *)
CleanKeepsLabels(items) == items \o <<Ret(Snaplen), Ret(0)>>

Clean(items) == SelectSeq(items, LAMBDA i : i.class # "label") \o <<Ret(Snaplen), Ret(0)>>

Address(items, l) ==
  LET Insns(s) == Len(SelectSeq(s, LAMBDA i : i.class # "label"))
  IN  CASE l = Accept -> Insns(items)
        [] l = Reject -> Insns(items) + 1
        [] OTHER -> Insns(SubSeq(items, 1, CHOOSE n \in DOMAIN items : items[n] = Label(l)))

RECURSIVE FollowLabels(_, _, _, _)
FollowLabels(items, clean, a, seen) ==
  IF a \in seen \/ a >= Len(clean) \/ ~IsJa(clean[a + 1]) THEN a
  ELSE FollowLabels(items, clean, Address(items, clean[a + 1].jt), seen \cup {a})

(* Mutant: offsets of any length.                                          *)
AssembleAnyOffset(items) ==
  LET clean == Clean(items)
      Offset(a, l) == IF l = Next0 THEN 0
                      ELSE FollowLabels(items, clean, Address(items, l), {}) - (a + 1)
  IN  [ok |-> TRUE,
       code |-> [n \in DOMAIN clean |->
                  [clean[n] EXCEPT
                     !.jt = IF IsJump(clean[n]) THEN Offset(n - 1, @) ELSE 0,
                     !.jf = IF IsJump(clean[n]) /\ ~IsJa(clean[n]) THEN Offset(n - 1, @) ELSE 0]]]

Assemble(items) ==
  LET clean == Clean(items)
      Known(l) == l \in {Accept, Reject, Next0} \/ \E n \in DOMAIN items : items[n] = Label(l)
      Offset(a, l) == IF l = Next0 THEN 0
                      ELSE FollowLabels(items, clean, Address(items, l), {}) - (a + 1)
      known == \A n \in DOMAIN clean : \A l \in Targets(clean[n]) : Known(l)
      code  == [n \in DOMAIN clean |->
                 [clean[n] EXCEPT
                    !.jt = IF IsJump(clean[n]) THEN Offset(n - 1, @) ELSE 0,
                    !.jf = IF IsJump(clean[n]) /\ ~IsJa(clean[n]) THEN Offset(n - 1, @) ELSE 0]]
  IN  IF ~known THEN [ok |-> FALSE]
      ELSE IF \E n \in DOMAIN code : ~IsJa(code[n]) /\ ~({code[n].jt, code[n].jf} \subseteq 0 .. MaxOffset)
      THEN [ok |-> FALSE]
      ELSE [ok |-> TRUE, code |-> code]

=============================================================================
