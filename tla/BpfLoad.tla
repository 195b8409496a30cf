------------------------------ MODULE BpfLoad ------------------------------
(***************************************************************************)
(* A compiled program on its way to the packets: optimised or not, packed  *)
(* for the kernel, run on every packet.                                    *)
(* src/LightBPF (BpfCompiler.compile, to_fprog, BpfEmulator).              *)
(***************************************************************************)
EXTENDS BpfMachine

CONSTANTS
  Programs,      \* programs handed over without a compiler
  Packets        \* byte sequences

ASSUME ProgramsAssumption == Programs \subseteq Seq(Instruction)

VARIABLES
  stage,      \* "compiled" [-> "optimised"] -> "attached"; before it see Bpf
  code,
  heard       \* the last packet and the program's answer

loadVars == <<stage, code, heard>>

NothingHeard == [packet |-> <<>>, answer |-> 0]

LoadInit == stage = "compiled" /\ code \in Programs /\ heard = NothingHeard

OptimizeCode ==
  /\ stage = "compiled"
  /\ stage' = "optimised"
  /\ code' = Optimize(code)
  /\ UNCHANGED heard

Attach ==
  /\ stage \in {"compiled", "optimised"}
  /\ stage' = "attached"
  /\ code' = Fprog(code)
  /\ UNCHANGED heard

Receive(p) ==
  /\ stage = "attached"
  /\ heard' = [packet |-> p, answer |-> Execute(code, p)]
  /\ UNCHANGED <<stage, code>>

LoadNext == OptimizeCode \/ Attach \/ \E p \in Packets : Receive(p)

LoadSpec == LoadInit /\ [][LoadNext]_loadVars

-----------------------------------------------------------------------------
(* Optimising changes no answer (Peephole.py:17-18).                       *)
OptimizerKeepsAnswers ==
  [][stage' = "optimised" =>
       \A p \in Packets : Execute(code', p) = Execute(code, p)]_loadVars
=============================================================================
