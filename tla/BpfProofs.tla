----------------------------- MODULE BpfProofs -----------------------------
(***************************************************************************)
(* The peephole optimiser changes no answer of any program whose jumps go  *)
(* forward, on any packet.                                                 *)
(***************************************************************************)
EXTENDS BpfLoad, SequenceTheorems, WellFoundedInduction, TLAPS

-----------------------------------------------------------------------------
(* Numbers and recursion                                                   *)

LEMMA LeastOf ==
  ASSUME NEW T, T \subseteq Nat, T # {}
  PROVE  \E m \in T : \A k \in T : m <= k
<1> DEFINE R == OpToRel(<, Nat)
<1>1. PICK m \in T : \A k \in T : ~ (<<k, m>> \in R)
  BY NatLessThanWellFounded, WFMin
<1>2. \A x \in Nat, y \in Nat : y < x => <<y, x>> \in R
  BY DEF OpToRel
<1> HIDE DEF R
<1>3. \A k \in T : ~ (k < m)
  BY <1>1, <1>2
<1> QED
  BY <1>3

(* No set of numbers up to n has above each of its members another one.    *)
LEMMA NoAscent ==
  ASSUME NEW n \in Nat, NEW Bad, Bad \subseteq 0 .. n,
         \A a \in Bad : \E b \in Bad : b > a
  PROVE  Bad = {}
<1> SUFFICES ASSUME Bad # {}  PROVE FALSE
  OBVIOUS
<1> DEFINE T == {d \in Nat : n - d \in Bad}
<1>1. \A a \in Bad : a \in 0 .. n /\ n - a \in Nat /\ n - (n - a) = a
  OBVIOUS
<1>2. \A a \in Bad : n - a \in T
  BY <1>1
<1>3. PICK m \in T : \A k \in T : m <= k
  <2>1. T \subseteq Nat /\ T # {}
    BY <1>2
  <2> HIDE DEF T
  <2> QED
    BY <2>1, LeastOf
<1>4. m \in Nat /\ n - m \in Bad
  OBVIOUS
<1>5. PICK b \in Bad : b > n - m
  BY <1>4
<1>6. m <= n - b
  <2> HIDE DEF T
  <2> QED
    BY <1>2, <1>3
<1>7. n - b < m
  BY <1>1, <1>4, <1>5
<1> QED
  BY <1>1, <1>4, <1>6, <1>7

(* Nor one of numbers in which each has another one under it.              *)
LEMMA NoDescent ==
  ASSUME NEW T, T \subseteq Nat, \A k \in T : \E j \in T : j < k
  PROVE  T = {}
<1> SUFFICES ASSUME T # {}  PROVE FALSE
  OBVIOUS
<1>1. PICK m \in T : \A k \in T : m <= k
  BY LeastOf
<1>2. PICK j \in T : j < m
  BY <1>1
<1> QED
  BY <1>1, <1>2

(* A recursive function of 0 .. n whose turns stay in a set is there.      *)
Turns(n, S, turn) == \A k \in 1 .. n, s \in S : turn[k][s] \in S

Recursive(n, S, first, turn, f) ==
  /\ f = [k \in 0 .. n |-> f[k]]
  /\ f[0] = first
  /\ \A k \in 1 .. n : f[k] = turn[k][f[k - 1]]
  /\ \A k \in 0 .. n : f[k] \in S

LEMMA Recursion ==
  ASSUME NEW n \in Nat, NEW S, NEW first \in S, NEW turn, Turns(n, S, turn)
  PROVE  \E f : Recursive(n, S, first, turn, f)
<1>0. \A k \in 1 .. n, s \in S : turn[k][s] \in S
  BY DEF Turns
<1> DEFINE Good(f, k) == f[k] = (IF k = 0 THEN first ELSE turn[k][f[k - 1]]) /\ f[k] \in S
           T == {m \in 0 .. n : ~ \E f : \A k \in 0 .. m : Good(f, k)}
<1>1. ASSUME NEW m \in T  PROVE \E j \in T : j < m
  <2>1. m \in 0 .. n
    OBVIOUS
  <2>2. m # 0
    <3> DEFINE g == [k \in 0 .. 0 |-> first]
    <3>1. \A k \in 0 .. 0 : Good(g, k)
      <4>1. \A k \in 0 .. 0 : k = 0
        OBVIOUS
      <4>2. g[0] = first
        OBVIOUS
      <4> HIDE DEF g
      <4> QED
        BY <4>1, <4>2
    <3>2. \E f : \A k \in 0 .. 0 : Good(f, k)
      <4> HIDE DEF Good, g
      <4> QED
        BY <3>1
    <3> QED
      BY <3>2
  <2>3. ASSUME m - 1 \notin T  PROVE FALSE
    <3>1. PICK f : \A k \in 0 .. m - 1 : Good(f, k)
      BY <2>1, <2>2, <2>3
    <3> DEFINE g == [k \in 0 .. m |-> IF k = m THEN turn[m][f[m - 1]] ELSE f[k]]
    <3>2. \A k \in 0 .. m - 1 : g[k] = f[k]
      BY <2>1
    <3>3. g[m] = turn[m][f[m - 1]]
      BY <2>1
    <3> HIDE DEF g
    <3>4. m - 1 \in 0 .. m - 1 /\ f[m - 1] \in S
      BY <2>1, <2>2, <3>1
    <3>5. ASSUME NEW k \in 0 .. m  PROVE Good(g, k)
      <4>1. CASE k = m
        BY <4>1, <1>0, <2>1, <2>2, <3>2, <3>3, <3>4
      <4>2. CASE k # m
        <5>1. k \in 0 .. m - 1 /\ (k # 0 => k - 1 \in 0 .. m - 1)
          BY <4>2, <2>1
        <5> QED
          BY <5>1, <3>1, <3>2
      <4> QED
        BY <4>1, <4>2
    <3> QED
      BY <3>5, <2>1
  <2>4. m - 1 \in T /\ m - 1 < m
    BY <2>1, <2>3
  <2> HIDE DEF T
  <2> QED
    BY <2>4
<1>2. T = {}
  <2>1. T \subseteq Nat
    OBVIOUS
  <2> HIDE DEF T
  <2> QED
    BY <1>1, <2>1, NoDescent
<1>3. PICK f : \A k \in 0 .. n : Good(f, k)
  BY <1>2
<1> DEFINE g == [k \in 0 .. n |-> f[k]]
<1>4. \A k \in 0 .. n : g[k] = f[k]
  OBVIOUS
<1>5. g[0] = first /\ \A k \in 1 .. n : g[k] = turn[k][g[k - 1]]
  <2>1. 0 \in 0 .. n /\ \A k \in 1 .. n : k \in 0 .. n /\ k # 0 /\ k - 1 \in 0 .. n
    OBVIOUS
  <2> HIDE DEF g
  <2> QED
    BY <2>1, <1>3, <1>4
<1>6. \A k \in 0 .. n : g[k] \in S
  BY <1>3, <1>4
<1>7. g = [k \in 0 .. n |-> g[k]]
  OBVIOUS
<1> QED
  <2> HIDE DEF g
  <2> QED
    BY <1>5, <1>6, <1>7 DEF Recursive

-----------------------------------------------------------------------------
(* Runs                                                                    *)

At(a, r) == [pc |-> a, regs |-> r]
Turn(c, p, m) == IF Halted(c, m, p) THEN m ELSE Step(c, m, p)

LEMMA InstructionAt ==
  ASSUME NEW c \in Seq(Instruction), NEW a \in Nat, Inside(c, a)
  PROVE  /\ c[a + 1] \in Instruction /\ Len(c) \in Nat /\ a < Len(c)
         /\ \A r : Skips(c[a + 1], r) \in Nat
<1>1. Len(c) \in Nat /\ a + 1 \in 1 .. Len(c) /\ a < Len(c)
  BY DEF Inside
<1>2. c[a + 1] \in Instruction
  BY <1>1
<1>3. \A r : Skips(c[a + 1], r) \in Nat
  BY <1>2 DEF Skips, Instruction
<1> QED
  BY <1>1, <1>2, <1>3

LEMMA StepAt ==
  ASSUME NEW c \in Seq(Instruction), NEW p, NEW a \in Nat, NEW r,
         ~Halted(c, At(a, r), p)
  PROVE  \E b, s : b \in Nat /\ b > a /\ Step(c, At(a, r), p) = At(b, s)
<1>1. Inside(c, a)
  BY DEF Halted, At
<1>2. Skips(c[a + 1], r) \in Nat
  BY <1>1, InstructionAt
<1>3. Step(c, At(a, r), p) = At(a + 1 + Skips(c[a + 1], r), Effect(c[a + 1], r, p))
  BY DEF Step, At
<1>4. a + 1 + Skips(c[a + 1], r) \in Nat /\ a + 1 + Skips(c[a + 1], r) > a
  BY <1>2
<1> QED
  BY <1>3, <1>4

(* The steps of a run; every one of them goes forward, so the last state   *)
(* has halted.                                                             *)
LEMMA RunDef ==
  ASSUME NEW c \in Seq(Instruction), NEW p, NEW a \in Nat, NEW r
  PROVE  \E after : /\ Run(c, p, At(a, r)) = after[Len(c)]
                    /\ after[0] = At(a, r)
                    /\ \A n \in 1 .. Len(c) : after[n] = Turn(c, p, after[n - 1])
                    /\ Turn(c, p, after[Len(c)]) = after[Len(c)]
<1> DEFINE L == Len(c)
           Good(f, n) == f[n] = IF n = 0 THEN At(a, r) ELSE Turn(c, p, f[n - 1])
           T == {m \in 0 .. L : ~ \E f : \A n \in 0 .. m : Good(f, n)}
<1>0. L \in Nat
  OBVIOUS
<1> HIDE DEF L
<1>1. ASSUME NEW m \in T  PROVE \E j \in T : j < m
  <2>1. m \in 0 .. L
    OBVIOUS
  <2>2. m # 0
    <3> DEFINE g == [n \in 0 .. 0 |-> At(a, r)]
    <3>1. \A n \in 0 .. 0 : Good(g, n)
      <4>1. \A n \in 0 .. 0 : n = 0
        OBVIOUS
      <4>2. g[0] = At(a, r)
        OBVIOUS
      <4> HIDE DEF g
      <4> QED
        BY <4>1, <4>2
    <3>2. \E f : \A n \in 0 .. 0 : Good(f, n)
      <4> HIDE DEF Good, g
      <4> QED
        BY <3>1
    <3> HIDE DEF Good
    <3> QED
      BY <3>2
  <2>3. ASSUME m - 1 \notin T  PROVE FALSE
    <3>1. PICK f : \A n \in 0 .. m - 1 : Good(f, n)
      <4> HIDE DEF Good
      <4> QED
        BY <1>0, <2>1, <2>2, <2>3
    <3> DEFINE g == [n \in 0 .. m |-> IF n = m THEN Turn(c, p, f[m - 1]) ELSE f[n]]
    <3>2. \A n \in 0 .. m - 1 : g[n] = f[n]
      BY <1>0, <2>1
    <3>3. g[m] = Turn(c, p, f[m - 1])
      BY <1>0, <2>1
    <3> HIDE DEF g
    <3>5. ASSUME NEW n \in 0 .. m  PROVE Good(g, n)
      <4>1. CASE n = m
        BY <4>1, <1>0, <2>1, <2>2, <3>2, <3>3
      <4>2. CASE n # m
        <5>1. n \in 0 .. m - 1 /\ (n # 0 => n - 1 \in 0 .. m - 1)
          BY <4>2, <2>1
        <5> QED
          BY <5>1, <3>1, <3>2
      <4> QED
        BY <4>1, <4>2
    <3> HIDE DEF Good
    <3> QED
      BY <3>5, <2>1
  <2>4. m - 1 \in T /\ m - 1 < m
    BY <2>1, <2>3, <1>0
  <2> HIDE DEF T
  <2> QED
    BY <2>4
<1>2. T = {}
  <2>1. T \subseteq Nat
    BY <1>0
  <2> HIDE DEF T
  <2> QED
    BY <1>1, <2>1, NoDescent
<1>3. PICK f : \A n \in 0 .. L : Good(f, n)
  <2>1. L \in 0 .. L
    BY <1>0
  <2>2. L \notin T
    <3> HIDE DEF T
    <3> QED
      BY <1>2
  <2> HIDE DEF Good
  <2> QED
    BY <2>1, <2>2
<1> DEFINE F(g) == [n \in 0 .. L |-> IF n = 0 THEN At(a, r) ELSE Turn(c, p, g[n - 1])]
           h == [n \in 0 .. L |-> f[n]]
<1>4. h = F(h)
  <2>1. \A n \in 0 .. L : h[n] = f[n]
    OBVIOUS
  <2>2. \A n \in 0 .. L : n # 0 => n - 1 \in 0 .. L
    BY <1>0
  <2>3. \A n \in 0 .. L : h[n] = (IF n = 0 THEN At(a, r) ELSE Turn(c, p, h[n - 1]))
    <3> HIDE DEF h
    <3> QED
      BY <2>1, <2>2, <1>3
  <2> QED
    BY <2>3
<1> DEFINE after == CHOOSE g : g = F(g)
<1>5. after = F(after)
  <2> HIDE DEF F, h
  <2> QED
    BY <1>4
<1>6. Run(c, p, At(a, r)) = after[L]
  BY DEF Run, L, Turn
<1> HIDE DEF after
<1>7. after[0] = At(a, r) /\ \A n \in 1 .. L : after[n] = Turn(c, p, after[n - 1])
  <2>1. \A n \in 0 .. L : after[n] = (IF n = 0 THEN At(a, r) ELSE Turn(c, p, after[n - 1]))
    <3> QED
      BY <1>5
  <2>2. 0 \in 0 .. L /\ \A n \in 1 .. L : n \in 0 .. L /\ n # 0
    BY <1>0
  <2> QED
    BY <2>1, <2>2
(* After n steps the program has halted or got n further. *)
<1> DEFINE Far(n) == \E b, s : b \in Nat /\ after[n] = At(b, s) /\ (Halted(c, At(b, s), p) \/ b >= n)
<1>8. \A n \in 0 .. L : Far(n)
  <2> DEFINE U == {n \in 0 .. L : ~Far(n)}
  <2>1. ASSUME NEW n \in U  PROVE \E j \in U : j < n
    <3>1. n \in 0 .. L /\ ~Far(n)
      OBVIOUS
    <3>2. n # 0
      <4>1. after[0] = At(a, r) /\ a >= 0
        BY <1>7
      <4> QED
        BY <4>1, <3>1
    <3>3. n - 1 \in 0 .. L /\ n \in 1 .. L /\ n - 1 < n
      BY <1>0, <3>1, <3>2
    <3>4. ASSUME Far(n - 1)  PROVE FALSE
      <4>1. PICK b, s : b \in Nat /\ after[n - 1] = At(b, s) /\ (Halted(c, At(b, s), p) \/ b >= n - 1)
        BY <3>4
      <4>2. after[n] = Turn(c, p, At(b, s))
        BY <1>7, <3>3, <4>1
      <4>3. CASE Halted(c, At(b, s), p)
        <5>1. after[n] = At(b, s)
          BY <4>2, <4>3 DEF Turn
        <5>2. Far(n)
          BY <5>1, <4>1, <4>3
        <5> HIDE DEF Far
        <5> QED
          BY <5>2, <3>1
      <4>4. CASE ~Halted(c, At(b, s), p)
        <5>1. PICK d, t : d \in Nat /\ d > b /\ Step(c, At(b, s), p) = At(d, t)
          BY <4>1, <4>4, StepAt
        <5>2. after[n] = At(d, t)
          BY <5>1, <4>2, <4>4 DEF Turn
        <5>3. d >= n
          BY <5>1, <4>1, <4>4, <3>3
        <5>4. Far(n)
          BY <5>1, <5>2, <5>3
        <5> HIDE DEF Far
        <5> QED
          BY <5>4, <3>1
      <4> QED
        BY <4>3, <4>4
    <3>5. n - 1 \in U
      <4> HIDE DEF Far
      <4> QED
        BY <3>3, <3>4
    <3> HIDE DEF U
    <3> QED
      BY <3>3, <3>5
  <2>2. U = {}
    <3>1. U \subseteq Nat
      BY <1>0
    <3> HIDE DEF U
    <3> QED
      BY <3>1, <2>1, NoDescent
  <2> HIDE DEF Far
  <2> QED
    BY <2>2
<1>9. Halted(c, after[L], p)
  <2>1. PICK b, s : b \in Nat /\ after[L] = At(b, s) /\ (Halted(c, At(b, s), p) \/ b >= L)
    <3>1. L \in 0 .. L
      BY <1>0
    <3>2. Far(L)
      <4> HIDE DEF Far
      <4> QED
        BY <3>1, <1>8
    <3> QED
      BY <3>2
  <2>2. CASE b >= L
    <3>1. ~Inside(c, b)
      BY <2>2, <1>0 DEF Inside, L
    <3>2. ~Inside(c, At(b, s).pc)
      BY <3>1 DEF At
    <3> QED
      BY <3>2, <2>1 DEF Halted
  <2> QED
    BY <2>1, <2>2
<1> QED
  BY <1>6, <1>7, <1>9 DEF L, Turn

LEMMA RunHalted ==
  ASSUME NEW c \in Seq(Instruction), NEW p, NEW a \in Nat, NEW r, Halted(c, At(a, r), p)
  PROVE  Run(c, p, At(a, r)) = At(a, r)
<1>1. PICK after : /\ Run(c, p, At(a, r)) = after[Len(c)]
                   /\ after[0] = At(a, r)
                   /\ \A n \in 1 .. Len(c) : after[n] = Turn(c, p, after[n - 1])
  BY RunDef
<1> DEFINE U == {n \in 0 .. Len(c) : after[n] # At(a, r)}
<1>2. ASSUME NEW n \in U  PROVE \E j \in U : j < n
  <2>1. n \in 0 .. Len(c) /\ n # 0 /\ after[n] # At(a, r)
    BY <1>1
  <2>2. n - 1 \in 0 .. Len(c) /\ n \in 1 .. Len(c) /\ n - 1 < n
    BY <2>1
  <2>3. after[n - 1] # At(a, r)
    BY <2>1, <2>2, <1>1 DEF Turn
  <2>4. n - 1 \in U
    BY <2>2, <2>3
  <2> HIDE DEF U
  <2> QED
    BY <2>2, <2>4
<1>3. U = {}
  <2>1. U \subseteq Nat
    OBVIOUS
  <2> HIDE DEF U
  <2> QED
    BY <2>1, <1>2, NoDescent
<1>4. Len(c) \in 0 .. Len(c)
  OBVIOUS
<1> QED
  BY <1>1, <1>3, <1>4

LEMMA RunStep ==
  ASSUME NEW c \in Seq(Instruction), NEW p, NEW a \in Nat, NEW r, ~Halted(c, At(a, r), p)
  PROVE  Run(c, p, At(a, r)) = Run(c, p, Step(c, At(a, r), p))
<1>1. PICK f : /\ Run(c, p, At(a, r)) = f[Len(c)]
               /\ f[0] = At(a, r)
               /\ \A n \in 1 .. Len(c) : f[n] = Turn(c, p, f[n - 1])
               /\ Turn(c, p, f[Len(c)]) = f[Len(c)]
  BY RunDef, SMTT(30)
<1>2. PICK b, s : b \in Nat /\ b > a /\ Step(c, At(a, r), p) = At(b, s)
  BY StepAt
<1>3. PICK g : /\ Run(c, p, At(b, s)) = g[Len(c)]
               /\ g[0] = At(b, s)
               /\ \A n \in 1 .. Len(c) : g[n] = Turn(c, p, g[n - 1])
  BY <1>2, RunDef
<1>4. Len(c) \in Nat /\ Len(c) > 0
  <2>1. Inside(c, a)
    BY DEF Halted, At
  <2> QED
    BY <2>1, InstructionAt
<1> DEFINE U == {n \in 0 .. Len(c) - 1 : g[n] # f[n + 1]}
<1>5. ASSUME NEW n \in U  PROVE \E j \in U : j < n
  <2>1. n \in 0 .. Len(c) - 1 /\ g[n] # f[n + 1]
    OBVIOUS
  <2>2. n # 0
    <3>1. f[1] = Turn(c, p, f[0])
      <4>1. 1 \in 1 .. Len(c) /\ 1 - 1 = 0
        BY <1>4
      <4> QED
        BY <4>1, <1>1
    <3> QED
      BY <3>1, <2>1, <1>1, <1>2, <1>3 DEF Turn
  <2>3. n - 1 \in 0 .. Len(c) - 1 /\ n \in 1 .. Len(c) /\ n + 1 \in 1 .. Len(c) /\ n - 1 < n /\ (n + 1) - 1 = n /\ (n - 1) + 1 = n
    BY <1>4, <2>1, <2>2
  <2>4. g[n] = Turn(c, p, g[n - 1]) /\ f[n + 1] = Turn(c, p, f[n])
    <3> QED
      BY <2>3, <1>1, <1>3
  <2>5. g[n - 1] # f[n]
    <3> QED
      BY <2>1, <2>4
  <2>6. n - 1 \in U
    BY <2>3, <2>5
  <2> HIDE DEF U
  <2> QED
    BY <2>3, <2>6
<1>6. U = {}
  <2>1. U \subseteq Nat
    BY <1>4
  <2> HIDE DEF U
  <2> QED
    BY <2>1, <1>5, NoDescent
<1>7. Len(c) - 1 \in 0 .. Len(c) - 1 /\ (Len(c) - 1) + 1 = Len(c) /\ Len(c) \in 1 .. Len(c)
  BY <1>4
<1>8. g[Len(c) - 1] = f[Len(c)]
  BY <1>6, <1>7
<1>9. g[Len(c)] = Turn(c, p, f[Len(c)])
  <2> QED
    BY <1>3, <1>7, <1>8
<1> QED
  BY <1>1, <1>2, <1>3, <1>9 DEF Turn

(* The answer from instruction a on, with these registers.                 *)
From(c, p, a, r) == Verdict(c, Run(c, p, At(a, r)))

LEMMA FromOutside ==
  ASSUME NEW c \in Seq(Instruction), NEW p, NEW a \in Nat, NEW r, a >= Len(c)
  PROVE  From(c, p, a, r) = 0
<1>1. ~Inside(c, At(a, r).pc)
  BY DEF Inside, At
<1>2. Halted(c, At(a, r), p)
  BY <1>1 DEF Halted
<1>3. Run(c, p, At(a, r)) = At(a, r)
  BY <1>2, RunHalted
<1> QED
  BY <1>1, <1>3 DEF From, Verdict

LEMMA FromStop ==
  ASSUME NEW c \in Seq(Instruction), NEW p, NEW a \in Nat, NEW r,
         Inside(c, a), Stops(c[a + 1], r, p)
  PROVE  From(c, p, a, r) = IF c[a + 1].class = "ret" THEN c[a + 1].k ELSE 0
<1>1. At(a, r).pc = a /\ At(a, r).regs = r
  BY DEF At
<1>2. Halted(c, At(a, r), p)
  BY <1>1 DEF Halted
<1>3. Run(c, p, At(a, r)) = At(a, r)
  BY <1>2, RunHalted
<1> QED
  BY <1>1, <1>3 DEF From, Verdict

LEMMA FromStep ==
  ASSUME NEW c \in Seq(Instruction), NEW p, NEW a \in Nat, NEW r,
         Inside(c, a), ~Stops(c[a + 1], r, p)
  PROVE  From(c, p, a, r) = From(c, p, a + 1 + Skips(c[a + 1], r), Effect(c[a + 1], r, p))
<1>1. At(a, r).pc = a /\ At(a, r).regs = r
  BY DEF At
<1>2. ~Halted(c, At(a, r), p)
  BY <1>1 DEF Halted
<1>3. Step(c, At(a, r), p) = At(a + 1 + Skips(c[a + 1], r), Effect(c[a + 1], r, p))
  BY <1>1 DEF Step, At
<1> QED
  BY <1>2, <1>3, RunStep DEF From

LEMMA ExecuteFrom ==
  ASSUME NEW c, NEW p
  PROVE  Execute(c, p) = From(c, p, 0, Start.regs)
BY DEF Execute, From, Start, At

-----------------------------------------------------------------------------
(* Jump threading                                                          *)

(* A jump stops nothing and changes no register.                           *)
LEMMA JumpStep ==
  ASSUME NEW c \in Seq(Instruction), NEW p, NEW a \in Nat, NEW r,
         Inside(c, a), IsJump(c[a + 1])
  PROVE  From(c, p, a, r) = From(c, p, a + 1 + Skips(c[a + 1], r), r)
<1>1. ~Stops(c[a + 1], r, p) /\ Effect(c[a + 1], r, p) = r
  BY DEF IsJump, Stops, Effect
<1> QED
  BY <1>1, FromStep

LEMMA JaStep ==
  ASSUME NEW c \in Seq(Instruction), NEW p, NEW a \in Nat, NEW r,
         Inside(c, a), IsJa(c[a + 1])
  PROVE  From(c, p, a, r) = From(c, p, a + 1 + c[a + 1].jt, r)
<1>1. IsJump(c[a + 1]) /\ Skips(c[a + 1], r) = c[a + 1].jt
  BY DEF IsJa, Skips
<1> QED
  BY <1>1, JumpStep

(* A jump with other distances does what it did, but for the way it goes.  *)
LEMMA AimedKeeps ==
  ASSUME NEW i \in Instruction, IsJump(i), NEW t \in Nat, NEW f \in Nat
  PROVE  /\ Aimed(i, t, f) \in Instruction
         /\ Aimed(i, t, f).class = i.class /\ Aimed(i, t, f).k = i.k
         /\ \A r, p : /\ Stops(Aimed(i, t, f), r, p) = Stops(i, r, p)
                      /\ Effect(Aimed(i, t, f), r, p) = Effect(i, r, p)
         /\ \A r : \/ Skips(i, r) = i.jt /\ Skips(Aimed(i, t, f), r) = t
                   \/ Skips(i, r) = i.jf /\ Skips(Aimed(i, t, f), r) = f
<1> DEFINE j == Aimed(i, t, f)
<1>1. /\ j \in Instruction /\ j.class = i.class /\ j.op = i.op /\ j.size = i.size
      /\ j.src = i.src /\ j.k = i.k /\ j.jt = t /\ (~IsJa(i) => j.jf = f)
  BY DEF Instruction, Aimed
<1> HIDE DEF j
<1>2. ASSUME NEW r
      PROVE  LoadOffset(j, r) = LoadOffset(i, r) /\ Operand(j, r) = Operand(i, r)
  BY <1>1 DEF LoadOffset, Operand
<1>3. ASSUME NEW r, NEW p
      PROVE  Stops(j, r, p) = Stops(i, r, p) /\ Effect(j, r, p) = Effect(i, r, p)
  <2>1. Stops(j, r, p) = Stops(i, r, p)
    BY <1>1, <1>2 DEF Stops
  <2>2. Effect(j, r, p) = Effect(i, r, p)
    BY <1>1, <1>2 DEF Effect
  <2> QED
    BY <2>1, <2>2
<1>4. ASSUME NEW r
      PROVE  \/ Skips(i, r) = i.jt /\ Skips(j, r) = t
             \/ Skips(i, r) = i.jf /\ Skips(j, r) = f
  <2>1. IsJump(j) /\ IsJa(j) = IsJa(i)
    BY <1>1 DEF IsJump, IsJa
  <2>2. Holds(j.op, r.A, Operand(j, r)) = Holds(i.op, r.A, Operand(i, r))
    BY <1>1, <1>2
  <2>3. CASE IsJa(i) \/ Holds(i.op, r.A, Operand(i, r))
    <3>1. Skips(i, r) = i.jt /\ Skips(j, r) = t
      BY <1>1, <2>1, <2>2, <2>3 DEF Skips
    <3> QED
      BY <3>1
  <2>4. CASE ~(IsJa(i) \/ Holds(i.op, r.A, Operand(i, r)))
    <3>1. Skips(i, r) = i.jf /\ Skips(j, r) = f
      BY <1>1, <2>1, <2>2, <2>4 DEF Skips
    <3> QED
      BY <3>1
  <2> QED
    BY <2>3, <2>4
<1> QED
  BY <1>1, <1>3, <1>4 DEF j

Hopped == [t : Nat, seen : SUBSET Nat]

LEMMA HopForward ==
  ASSUME NEW c \in Seq(Instruction), NEW h \in Hopped
  PROVE  /\ Hop(c, h) \in Hopped /\ Hop(c, h).t >= h.t
         /\ \A p, r : From(c, p, Hop(c, h).t, r) = From(c, p, h.t, r)
<1>1. CASE ~Inside(c, h.t) \/ h.t \in h.seen \/ ~IsJa(c[h.t + 1])
  BY <1>1 DEF Hop, Hopped
<1>2. CASE ~(~Inside(c, h.t) \/ h.t \in h.seen \/ ~IsJa(c[h.t + 1]))
  <2>1. h.t \in Nat /\ h.seen \subseteq Nat /\ Inside(c, h.t) /\ IsJa(c[h.t + 1])
    BY <1>2 DEF Hopped
  <2>2. c[h.t + 1].jt \in Nat
    BY <2>1, InstructionAt DEF Instruction
  <2>3. Hop(c, h) = [t |-> h.t + 1 + c[h.t + 1].jt, seen |-> h.seen \cup {h.t}]
    BY <1>2 DEF Hop
  <2>4. Hop(c, h).t = h.t + 1 + c[h.t + 1].jt
    BY <2>3
  <2>5. Hop(c, h) \in Hopped
    BY <2>1, <2>2, <2>3 DEF Hopped
  <2> QED
    BY <2>1, <2>2, <2>4, <2>5, JaStep
<1> QED
  BY <1>1, <1>2

(* Following a chain of `ja' goes forward, and the answer is the same from *)
(* everywhere on it.                                                       *)
LEMMA FollowForward ==
  ASSUME NEW c \in Seq(Instruction), NEW t \in Nat
  PROVE  /\ Follow(c, t) \in Nat /\ Follow(c, t) >= t
         /\ \A p, r : From(c, p, Follow(c, t), r) = From(c, p, t, r)
<1> DEFINE n == Len(c)
           first == [t |-> t, seen |-> {}]
           turn == [k \in 1 .. n |-> [h \in Hopped |-> Hop(c, h)]]
           F(f) == [k \in 0 .. n |-> IF k = 0 THEN first ELSE Hop(c, f[k - 1])]
<1>0. n \in Nat
  OBVIOUS
<1>1. first \in Hopped /\ first.t = t
  BY DEF Hopped
<1> HIDE DEF n, first
<1>2. \A k \in 1 .. n, h \in Hopped : turn[k][h] = Hop(c, h) /\ turn[k][h] \in Hopped
  BY HopForward
<1> HIDE DEF turn
<1>3. PICK f : Recursive(n, Hopped, first, turn, f)
  BY <1>0, <1>1, <1>2, Recursion DEF Turns
<1>4. f = F(f)
  <2>1. \A k \in 0 .. n : k # 0 => k \in 1 .. n /\ k - 1 \in 0 .. n
    BY <1>0
  <2>2. \A k \in 0 .. n : f[k] = IF k = 0 THEN first ELSE Hop(c, f[k - 1])
    BY <2>1, <1>2, <1>3 DEF Recursive
  <2>3. F(f) = [k \in 0 .. n |-> f[k]]
    BY <2>2
  <2> QED
    BY <2>3, <1>3 DEF Recursive
<1> DEFINE hops == CHOOSE g : g = F(g)
<1>5. hops = F(hops)
  <2> HIDE DEF F
  <2> QED
    BY <1>4
<1>6. Follow(c, t) = hops[n].t
  BY DEF Follow, n, first
<1> HIDE DEF hops
<1>7. hops[0] = first /\ \A k \in 1 .. n : hops[k] = Hop(c, hops[k - 1])
  <2>1. \A k \in 0 .. n : hops[k] = IF k = 0 THEN first ELSE Hop(c, hops[k - 1])
    BY <1>5
  <2>2. 0 \in 0 .. n /\ \A k \in 1 .. n : k \in 0 .. n /\ k # 0
    BY <1>0
  <2> QED
    BY <2>1, <2>2
<1> DEFINE Good(k) == /\ hops[k] \in Hopped /\ hops[k].t >= t
                      /\ \A p, r : From(c, p, hops[k].t, r) = From(c, p, t, r)
           U == {k \in 0 .. n : ~Good(k)}
<1>8. ASSUME NEW k \in U  PROVE \E j \in U : j < k
  <2>1. k \in 0 .. n /\ ~Good(k)
    OBVIOUS
  <2>2. Good(0)
    BY <1>1, <1>7
  <2>3. k # 0
    <3> HIDE DEF Good
    <3> QED
      BY <2>1, <2>2
  <2>4. k - 1 \in 0 .. n /\ k \in 1 .. n /\ k - 1 < k
    BY <1>0, <2>1, <2>3
  <2>5. hops[k] = Hop(c, hops[k - 1])
    BY <2>4, <1>7
  <2>6. Good(k - 1) => Good(k)
    <3> SUFFICES ASSUME Good(k - 1)  PROVE Good(k)
      OBVIOUS
    <3>1. hops[k - 1] \in Hopped
      OBVIOUS
    <3>2. /\ hops[k] \in Hopped /\ hops[k].t >= hops[k - 1].t
          /\ \A p, r : From(c, p, hops[k].t, r) = From(c, p, hops[k - 1].t, r)
      <4> HIDE DEF Good
      <4> QED
        BY <2>5, <3>1, HopForward
    <3>3. hops[k].t \in Nat /\ hops[k - 1].t \in Nat
      BY <3>1, <3>2 DEF Hopped
    <3>4. hops[k].t >= t
      BY <3>2, <3>3
    <3>5. \A p, r : From(c, p, hops[k].t, r) = From(c, p, t, r)
      BY <3>2
    <3> QED
      BY <3>2, <3>4, <3>5
  <2>7. k - 1 \in U
    <3> HIDE DEF Good
    <3> QED
      BY <2>1, <2>4, <2>6
  <2> HIDE DEF U
  <2> QED
    BY <2>4, <2>7
<1>9. U = {}
  <2>1. U \subseteq Nat
    BY <1>0
  <2> HIDE DEF U
  <2> QED
    BY <2>1, <1>8, NoDescent
<1>10. Good(n)
  <2> HIDE DEF Good
  <2> QED
    BY <1>0, <1>9
<1>11. hops[n].t \in Nat
  BY <1>10 DEF Hopped
<1> QED
  BY <1>6, <1>10, <1>11

(* One instruction retargeted: by what comes last, from the end backwards. *)
LEMMA ThreadedKeeps ==
  ASSUME NEW c \in Seq(Instruction), NEW a \in Nat, Inside(c, a)
  PROVE  /\ Threaded(c, a) \in Seq(Instruction) /\ Len(Threaded(c, a)) = Len(c)
         /\ \A p, r : \A b \in Nat : From(Threaded(c, a), p, b, r) = From(c, p, b, r)
<1> DEFINE i == c[a + 1]
           To(o) == Follow(c, a + 1 + o) - (a + 1)
           j == Aimed(i, To(i.jt), To(i.jf))
           d == [c EXCEPT ![a + 1] = j]
<1>1. CASE ~IsJump(i)
  BY <1>1 DEF Threaded
<1>2. CASE IsJump(i)
  <2>1. Threaded(c, a) = d
    BY <1>2 DEF Threaded
  <2>2. /\ i \in Instruction /\ i.jt \in Nat /\ i.jf \in Nat /\ Len(c) \in Nat /\ a < Len(c)
    BY InstructionAt DEF Instruction
  <2> HIDE DEF i
  <2>3. ASSUME NEW o \in Nat
        PROVE  /\ To(o) \in Nat /\ a + 1 + To(o) = Follow(c, a + 1 + o)
    <3>1. a + 1 + o \in Nat
      OBVIOUS
    <3>2. Follow(c, a + 1 + o) \in Nat /\ Follow(c, a + 1 + o) >= a + 1 + o
      BY <3>1, FollowForward
    <3> QED
      BY <3>2
  <2> DEFINE u == To(i.jt)
             v == To(i.jf)
  <2>4. u \in Nat /\ v \in Nat
    BY <2>2, <2>3
  <2> HIDE DEF To, u, v
  <2>5. /\ j \in Instruction /\ j.class = i.class /\ j.k = i.k
        /\ \A r, p : Stops(j, r, p) = Stops(i, r, p) /\ Effect(j, r, p) = Effect(i, r, p)
        /\ \A r : \/ Skips(i, r) = i.jt /\ Skips(j, r) = u
                  \/ Skips(i, r) = i.jf /\ Skips(j, r) = v
    BY <2>2, <2>4, <1>2, AimedKeeps DEF u, v
  <2> HIDE DEF j
  <2>6. ASSUME NEW r  PROVE a + 1 + Skips(j, r) = Follow(c, a + 1 + Skips(i, r))
    <3>1. a + 1 + u = Follow(c, a + 1 + i.jt) /\ a + 1 + v = Follow(c, a + 1 + i.jf)
      BY <2>2, <2>3 DEF u, v
    <3> QED
      BY <3>1, <2>5
  <2>7. d \in Seq(Instruction) /\ Len(d) = Len(c) /\ d[a + 1] = j
        /\ \A b \in 0 .. Len(c) - 1 : b # a => d[b + 1] = c[b + 1]
    <3>1. a + 1 \in 1 .. Len(c) /\ DOMAIN c = 1 .. Len(c)
      BY <2>2
    <3>2. /\ d = [x \in 1 .. Len(c) |-> IF x = a + 1 THEN j ELSE c[x]]
      BY <3>1
    <3>3. \A x \in 1 .. Len(c) : d[x] \in Instruction
      BY <3>1, <3>2, <2>5
    <3>4. d \in Seq(Instruction) /\ Len(d) = Len(c)
      <4>1. d \in [1 .. Len(c) -> Instruction]
        BY <3>2, <3>3
      <4> HIDE DEF d
      <4> QED
        BY <4>1, <2>2
    <3>5. \A b \in 0 .. Len(c) - 1 : b + 1 \in 1 .. Len(c) /\ (b # a => b + 1 # a + 1)
      BY <2>2
    <3> QED
      BY <3>1, <3>2, <3>4, <3>5
  <2> HIDE DEF d
  <2>8. ASSUME NEW p  PROVE \A r : \A b \in Nat : From(d, p, b, r) = From(c, p, b, r)
    <3> DEFINE Differ(b, r) == From(d, p, b, r) # From(c, p, b, r)
               Bad == {b \in 0 .. Len(c) : \E r : Differ(b, r)}
    <3>0. \A b \in Nat : Inside(c, b) <=> b \in 0 .. Len(c) - 1
      BY DEF Inside
    <3>1. \A b \in Nat : Inside(d, b) <=> Inside(c, b)
      BY <2>7 DEF Inside
    <3>2. \A b \in Nat : ~(b \in 0 .. Len(c) - 1) => \A r : ~Differ(b, r)
      <4>1. \A b \in Nat : ~(b \in 0 .. Len(c) - 1) => b >= Len(c) /\ b >= Len(d)
        BY <2>2, <2>7
      <4> QED
        BY <4>1, <2>7, FromOutside
    <3>3. \A r : \A b \in Nat : Differ(b, r) => b \in Bad
      <4>1. \A b \in 0 .. Len(c) - 1 : b \in 0 .. Len(c)
        BY <2>2
      <4> HIDE DEF Differ
      <4> QED
        BY <4>1, <3>2
    <3>4. ASSUME NEW b \in Bad  PROVE \E e \in Bad : e > b
      <4>1. PICK r : Differ(b, r)
        OBVIOUS
      <4>2. b \in Nat /\ b \in 0 .. Len(c) - 1 /\ Inside(c, b) /\ Inside(d, b)
        <5>1. b \in Nat
          BY <2>2
        <5> HIDE DEF Bad, Differ
        <5> QED
          BY <5>1, <4>1, <3>0, <3>1, <3>2
      <4>3. /\ Stops(d[b + 1], r, p) = Stops(c[b + 1], r, p)
            /\ Effect(d[b + 1], r, p) = Effect(c[b + 1], r, p)
            /\ d[b + 1].class = c[b + 1].class /\ d[b + 1].k = c[b + 1].k
        <5>1. CASE b = a
          <6>1. d[b + 1] = j /\ c[b + 1] = i
            BY <5>1, <2>7 DEF i
          <6> QED
            BY <6>1, <2>5
        <5>2. CASE b # a
          BY <5>2, <4>2, <2>7
        <5> QED
          BY <5>1, <5>2
      <4>4. ~Stops(c[b + 1], r, p)
        <5> SUFFICES ASSUME Stops(c[b + 1], r, p)  PROVE FALSE
          OBVIOUS
        <5>1. /\ From(c, p, b, r) = IF c[b + 1].class = "ret" THEN c[b + 1].k ELSE 0
              /\ From(d, p, b, r) = IF d[b + 1].class = "ret" THEN d[b + 1].k ELSE 0
          BY <4>2, <4>3, <2>7, FromStop
        <5> QED
          BY <5>1, <4>1, <4>3
      <4> DEFINE s == Effect(c[b + 1], r, p)
                 x == b + 1 + Skips(c[b + 1], r)
                 y == b + 1 + Skips(d[b + 1], r)
      <4>5. From(c, p, b, r) = From(c, p, x, s) /\ From(d, p, b, r) = From(d, p, y, s)
        BY <4>2, <4>3, <4>4, <2>7, FromStep
      <4>6. x \in Nat /\ x > b /\ y \in Nat /\ y > b
        <5>1. Skips(c[b + 1], r) \in Nat /\ Skips(d[b + 1], r) \in Nat
          BY <4>2, <2>7, InstructionAt
        <5> QED
          BY <5>1, <4>2
      <4>7. From(c, p, x, s) = From(c, p, y, s)
        <5>1. CASE b = a
          <6>1. d[b + 1] = j /\ c[b + 1] = i
            BY <5>1, <2>7 DEF i
          <6>2. y = Follow(c, x)
            BY <5>1, <6>1, <2>6
          <6> HIDE DEF x, y, s
          <6> QED
            BY <6>2, <4>6, FollowForward
        <5>2. CASE b # a
          BY <5>2, <4>2, <2>7
        <5> QED
          BY <5>1, <5>2
      <4>8. Differ(y, s)
        <5> HIDE DEF x, y, s
        <5> QED
          BY <4>1, <4>5, <4>7
      <4> HIDE DEF x, y, s, Differ, Bad
      <4> QED
        BY <4>6, <4>8, <3>3
    <3>5. Bad = {}
      <4>1. Bad \subseteq 0 .. Len(c)
        OBVIOUS
      <4> HIDE DEF Bad
      <4> QED
        BY <4>1, <2>2, <3>4, NoAscent
    <3> QED
      <4> HIDE DEF Bad
      <4> QED
        BY <3>3, <3>5
  <2> QED
    BY <2>1, <2>7, <2>8
<1> QED
  BY <1>1, <1>2

LEMMA ThreadJumpsKeep ==
  ASSUME NEW c \in Seq(Instruction)
  PROVE  /\ ThreadJumps(c) \in Seq(Instruction) /\ Len(ThreadJumps(c)) = Len(c)
         /\ \A p, r : From(ThreadJumps(c), p, 0, r) = From(c, p, 0, r)
<1> DEFINE n == Len(c)
           S == {d \in Seq(Instruction) : Len(d) = n}
           turn == [k \in 1 .. n |-> [d \in S |-> Threaded(d, k - 1)]]
           F(f) == [k \in 0 .. n |-> IF k = 0 THEN c ELSE Threaded(f[k - 1], k - 1)]
<1>0. n \in Nat
  OBVIOUS
<1>1. c \in S
  OBVIOUS
<1> HIDE DEF n
<1>2. ASSUME NEW k \in 1 .. n, NEW d \in S
      PROVE  /\ turn[k][d] = Threaded(d, k - 1) /\ Threaded(d, k - 1) \in S
             /\ \A p, r : From(Threaded(d, k - 1), p, 0, r) = From(d, p, 0, r)
  <2>1. k - 1 \in Nat /\ d \in Seq(Instruction) /\ Len(d) = n /\ k - 1 \in 0 .. n - 1
    BY <1>0
  <2>2. Inside(d, k - 1)
    BY <2>1 DEF Inside
  <2>3. /\ Threaded(d, k - 1) \in Seq(Instruction) /\ Len(Threaded(d, k - 1)) = n
        /\ \A p, r : \A b \in Nat : From(Threaded(d, k - 1), p, b, r) = From(d, p, b, r)
    BY <2>1, <2>2, ThreadedKeeps
  <2> QED
    BY <2>3
<1> HIDE DEF turn, S
<1>3. PICK f : Recursive(n, S, c, turn, f)
  BY <1>0, <1>1, <1>2, Recursion DEF Turns
<1>4. f = F(f)
  <2>1. \A k \in 0 .. n : k # 0 => k \in 1 .. n /\ k - 1 \in 0 .. n
    BY <1>0
  <2>2. \A k \in 0 .. n : f[k] = IF k = 0 THEN c ELSE Threaded(f[k - 1], k - 1)
    BY <2>1, <1>2, <1>3 DEF Recursive
  <2>3. F(f) = [k \in 0 .. n |-> f[k]]
    BY <2>2
  <2> QED
    BY <2>3, <1>3 DEF Recursive
<1> DEFINE threaded == CHOOSE g : g = F(g)
<1>5. threaded = F(threaded)
  <2> HIDE DEF F
  <2> QED
    BY <1>4
<1>6. ThreadJumps(c) = threaded[n]
  BY DEF ThreadJumps, n
<1> HIDE DEF threaded
<1>7. threaded[0] = c /\ \A k \in 1 .. n : threaded[k] = Threaded(threaded[k - 1], k - 1)
  <2>1. \A k \in 0 .. n : threaded[k] = IF k = 0 THEN c ELSE Threaded(threaded[k - 1], k - 1)
    BY <1>5
  <2>2. 0 \in 0 .. n /\ \A k \in 1 .. n : k \in 0 .. n /\ k # 0
    BY <1>0
  <2> QED
    BY <2>1, <2>2
<1> DEFINE Good(k) == /\ threaded[k] \in S
                      /\ \A p, r : From(threaded[k], p, 0, r) = From(c, p, 0, r)
           U == {k \in 0 .. n : ~Good(k)}
<1>8. ASSUME NEW k \in U  PROVE \E j \in U : j < k
  <2>1. k \in 0 .. n /\ ~Good(k)
    OBVIOUS
  <2>2. Good(0)
    BY <1>1, <1>7
  <2>3. k # 0
    <3> HIDE DEF Good
    <3> QED
      BY <2>1, <2>2
  <2>4. k - 1 \in 0 .. n /\ k \in 1 .. n /\ k - 1 < k
    BY <1>0, <2>1, <2>3
  <2>5. Good(k - 1) => Good(k)
    <3> SUFFICES ASSUME Good(k - 1)  PROVE Good(k)
      OBVIOUS
    <3>1. threaded[k] = Threaded(threaded[k - 1], k - 1)
      BY <2>4, <1>7
    <3> QED
      BY <3>1, <2>4, <1>2
  <2>6. k - 1 \in U
    <3> HIDE DEF Good
    <3> QED
      BY <2>1, <2>4, <2>5
  <2> HIDE DEF U
  <2> QED
    BY <2>4, <2>6
<1>9. U = {}
  <2>1. U \subseteq Nat
    BY <1>0
  <2> HIDE DEF U
  <2> QED
    BY <2>1, <1>8, NoDescent
<1>10. Good(n)
  <2> HIDE DEF Good
  <2> QED
    BY <1>0, <1>9
<1> QED
  BY <1>6, <1>10 DEF S, n

-----------------------------------------------------------------------------
(* Dropping instructions                                                   *)

LEMMA PackedDef ==
  ASSUME NEW n \in Nat, NEW removed
  PROVE  \E pk : /\ Packed(n, removed) = pk /\ pk[0] = <<>>
                 /\ \A a \in 1 .. n : pk[a] = IF a - 1 \in removed THEN pk[a - 1]
                                              ELSE Append(pk[a - 1], a - 1)
                 /\ \A a \in 0 .. n : pk[a] \in Seq(Nat)
<1> DEFINE S == Seq(Nat)
           New(a, s) == IF a - 1 \in removed THEN s ELSE Append(s, a - 1)
           turn == [k \in 1 .. n |-> [s \in S |-> New(k, s)]]
           F(f) == [a \in 0 .. n |->
                      IF a = 0 THEN <<>>
                      ELSE IF a - 1 \in removed THEN f[a - 1] ELSE Append(f[a - 1], a - 1)]
<1>1. <<>> \in S
  OBVIOUS
<1>2. ASSUME NEW k \in 1 .. n, NEW s \in S
      PROVE  turn[k][s] = New(k, s) /\ New(k, s) \in S
  <2>1. k - 1 \in Nat
    OBVIOUS
  <2>2. Append(s, k - 1) \in S
    BY <2>1
  <2> QED
    BY <2>2
<1> HIDE DEF turn, S
<1>3. PICK f : Recursive(n, S, <<>>, turn, f)
  <2>1. Turns(n, S, turn)
    BY <1>2 DEF Turns
  <2> QED
    BY <1>1, <2>1, Recursion
<1>4. f = F(f)
  <2>1. \A k \in 0 .. n : k # 0 => k \in 1 .. n /\ k - 1 \in 0 .. n
    OBVIOUS
  <2>2. \A k \in 0 .. n : f[k] = IF k = 0 THEN <<>> ELSE New(k, f[k - 1])
    <3> HIDE DEF New
    <3> QED
      BY <2>1, <1>2, <1>3 DEF Recursive
  <2>3. F(f) = [k \in 0 .. n |-> f[k]]
    BY <2>2
  <2> QED
    BY <2>3, <1>3 DEF Recursive
<1> DEFINE pk == CHOOSE g : g = F(g)
<1>5. pk = F(pk)
  <2> HIDE DEF F
  <2> QED
    BY <1>4
<1>6. Packed(n, removed) = pk
  BY DEF Packed
<1> HIDE DEF pk
<1>7. pk[0] = <<>> /\ \A a \in 1 .. n : pk[a] = New(a, pk[a - 1])
  <2>1. \A a \in 0 .. n : pk[a] = IF a = 0 THEN <<>> ELSE New(a, pk[a - 1])
    BY <1>5
  <2>2. 0 \in 0 .. n /\ \A a \in 1 .. n : a \in 0 .. n /\ a # 0
    OBVIOUS
  <2> HIDE DEF New
  <2> QED
    BY <2>1, <2>2
<1> DEFINE U == {a \in 0 .. n : pk[a] \notin S}
<1>8. ASSUME NEW a \in U  PROVE \E j \in U : j < a
  <2>1. a \in 0 .. n /\ a # 0 /\ pk[a] \notin S
    BY <1>1, <1>7
  <2>2. a - 1 \in 0 .. n /\ a \in 1 .. n /\ a - 1 < a
    BY <2>1
  <2>3. pk[a] = New(a, pk[a - 1])
    BY <2>2, <1>7
  <2>4. a - 1 \in U
    <3> HIDE DEF New
    <3> QED
      BY <2>1, <2>2, <2>3, <1>2
  <2> HIDE DEF U
  <2> QED
    BY <2>2, <2>4
<1>9. U = {}
  <2>1. U \subseteq Nat
    OBVIOUS
  <2> HIDE DEF U
  <2> QED
    BY <2>1, <1>8, NoDescent
<1> QED
  BY <1>6, <1>7, <1>9 DEF S

(* How the kept addresses before a, in order, tell where each one went.    *)
InOrder(pk, removed, a) ==
  /\ Len(pk[a]) \in 0 .. a
  /\ \A b \in 0 .. a : Len(pk[b]) <= Len(pk[a])
  /\ \A b \in 0 .. a - 1 : b \notin removed =>
        Len(pk[b]) < Len(pk[a]) /\ pk[a][Len(pk[b]) + 1] = b
  /\ \A q \in 1 .. Len(pk[a]) :
        pk[a][q] \in 0 .. a - 1 /\ pk[a][q] \notin removed /\ Len(pk[pk[a][q]]) = q - 1

LEMMA PackedInOrder ==
  ASSUME NEW n \in Nat, NEW removed
  PROVE  \E pk : /\ Packed(n, removed) = pk
                 /\ \A a \in 0 .. n : pk[a] \in Seq(Nat) /\ InOrder(pk, removed, a)
<1>1. PICK pk : /\ Packed(n, removed) = pk /\ pk[0] = <<>>
                /\ \A a \in 1 .. n : pk[a] = IF a - 1 \in removed THEN pk[a - 1]
                                             ELSE Append(pk[a - 1], a - 1)
                /\ \A a \in 0 .. n : pk[a] \in Seq(Nat)
  BY PackedDef
<1> DEFINE U == {a \in 0 .. n : ~InOrder(pk, removed, a)}
<1>2. ASSUME NEW a \in U  PROVE \E j \in U : j < a
  <2>1. a \in 0 .. n /\ ~InOrder(pk, removed, a)
    OBVIOUS
  <2>2. InOrder(pk, removed, 0)
    <3>1. Len(pk[0]) = 0 /\ 0 .. 0 - 1 = {} /\ 1 .. 0 = {} /\ 0 .. 0 = {0}
      BY <1>1
    <3> QED
      BY <3>1 DEF InOrder
  <2>3. a # 0
    BY <2>1, <2>2
  <2>4. a - 1 \in 0 .. n /\ a \in 1 .. n /\ a - 1 < a
    BY <2>1, <2>3
  <2> DEFINE s == pk[a - 1]
  <2>5. s \in Seq(Nat) /\ Len(s) \in Nat
    BY <2>4, <1>1
  <2>6. pk[a] = IF a - 1 \in removed THEN s ELSE Append(s, a - 1)
    BY <2>4, <1>1
  <2>7. SUFFICES ASSUME InOrder(pk, removed, a - 1)  PROVE InOrder(pk, removed, a)
    <3>1. a - 1 \in U
      BY <2>1, <2>4, <2>7
    <3> HIDE DEF U
    <3> QED
      BY <2>4, <3>1
  <2>8. /\ Len(s) \in 0 .. a - 1
        /\ \A b \in 0 .. a - 1 : Len(pk[b]) <= Len(s)
        /\ \A b \in 0 .. a - 2 : b \notin removed =>
              Len(pk[b]) < Len(s) /\ s[Len(pk[b]) + 1] = b
        /\ \A q \in 1 .. Len(s) :
              s[q] \in 0 .. a - 2 /\ s[q] \notin removed /\ Len(pk[s[q]]) = q - 1
    <3>1. a - 1 - 1 = a - 2
      BY <2>4
    <3> QED
      BY <2>7, <3>1 DEF InOrder
  <2>9. \A b \in 0 .. a : Len(pk[b]) \in Nat /\ (b \in 0 .. a - 1 \/ b = a)
    <3>1. \A b \in 0 .. a : b \in 0 .. n
      BY <2>1
    <3> QED
      BY <3>1, <2>4, <1>1
  <2>10. \A b \in 0 .. a - 1 : b \in 0 .. a - 2 \/ b = a - 1
    BY <2>4
  <2> HIDE DEF s, U
  <2>11. CASE a - 1 \in removed
    <3>1. pk[a] = s /\ 0 .. a - 2 \subseteq 0 .. a - 1 /\ Len(s) <= Len(s)
      BY <2>5, <2>6, <2>11, <2>4
    <3>2. Len(s) \in 0 .. a
      BY <2>8, <2>4
    <3>3. \A b \in 0 .. a : Len(pk[b]) <= Len(s)
      BY <2>8, <2>9, <3>1
    <3>4. \A b \in 0 .. a - 1 : b \notin removed => Len(pk[b]) < Len(s) /\ s[Len(pk[b]) + 1] = b
      BY <2>8, <2>10, <2>11
    <3>5. \A q \in 1 .. Len(s) : s[q] \in 0 .. a - 1 /\ s[q] \notin removed /\ Len(pk[s[q]]) = q - 1
      BY <2>8, <3>1
    <3> QED
      BY <3>1, <3>2, <3>3, <3>4, <3>5 DEF InOrder
  <2>12. CASE a - 1 \notin removed
    <3> DEFINE t == Append(s, a - 1)
    <3>1. /\ pk[a] = t /\ Len(t) = Len(s) + 1 /\ t[Len(s) + 1] = a - 1
          /\ \A q \in 1 .. Len(s) : t[q] = s[q]
      BY <2>5, <2>6, <2>12, <2>4
    <3> HIDE DEF t
    <3>2. Len(t) \in 0 .. a
      BY <2>8, <2>4, <3>1
    <3>3. \A b \in 0 .. a : Len(pk[b]) <= Len(t)
      BY <2>5, <2>8, <2>9, <3>1
    <3>4. ASSUME NEW b \in 0 .. a - 1, b \notin removed
          PROVE  Len(pk[b]) < Len(t) /\ t[Len(pk[b]) + 1] = b
      <4>1. CASE b = a - 1
        <5>1. Len(pk[b]) = Len(s)
          BY <4>1 DEF s
        <5> QED
          BY <5>1, <4>1, <3>1, <2>5
      <4>2. CASE b \in 0 .. a - 2
        <5>1. Len(pk[b]) < Len(s) /\ s[Len(pk[b]) + 1] = b
          BY <4>2, <3>4, <2>8
        <5>2. Len(pk[b]) \in Nat
          BY <2>9, <2>4
        <5>3. Len(pk[b]) + 1 \in 1 .. Len(s)
          BY <5>1, <5>2, <2>5
        <5> QED
          BY <5>1, <5>2, <5>3, <3>1, <2>5
      <4> QED
        BY <4>1, <4>2, <2>10
    <3>5. ASSUME NEW q \in 1 .. Len(t)
          PROVE  t[q] \in 0 .. a - 1 /\ t[q] \notin removed /\ Len(pk[t[q]]) = q - 1
      <4>1. CASE q = Len(s) + 1
        <5>1. t[q] = a - 1 /\ Len(pk[a - 1]) = q - 1
          BY <4>1, <3>1, <2>5 DEF s
        <5> QED
          BY <5>1, <2>12, <2>4
      <4>2. CASE q # Len(s) + 1
        <5>1. q \in 1 .. Len(s)
          BY <4>2, <3>1, <2>5
        <5>2. t[q] = s[q]
          BY <5>1, <3>1
        <5>3. s[q] \in 0 .. a - 1
          BY <5>1, <2>8, <2>4
        <5> QED
          BY <5>1, <5>2, <5>3, <2>8
      <4> QED
        BY <4>1, <4>2
    <3> QED
      BY <3>1, <3>2, <3>3, <3>4, <3>5 DEF InOrder
  <2> QED
    BY <2>11, <2>12
<1>3. U = {}
  <2>1. U \subseteq Nat
    OBVIOUS
  <2> HIDE DEF U
  <2> QED
    BY <2>1, <1>2, NoDescent
<1> QED
  BY <1>1, <1>3

LEMMA NextKeptIs ==
  ASSUME NEW n \in Nat, NEW removed, n \notin removed, NEW a \in Nat
  PROVE  LET k == NextKept(n, removed, a)
         IN  /\ k \in Nat /\ k >= a
             /\ a >= n => k = a
             /\ a < n => k <= n /\ k \notin removed /\ \A x \in a .. k - 1 : x \in removed
<1>1. CASE a >= n
  BY <1>1 DEF NextKept
<1>2. CASE a < n
  <2> DEFINE T == {b \in a .. n : b \notin removed}
             k == Min(T)
  <2>1. n \in T /\ T \subseteq Nat
    BY <1>2
  <2>2. NextKept(n, removed, a) = k
    BY <1>2 DEF NextKept
  <2>3. \E m \in T : \A x \in T : m <= x
    <3> HIDE DEF T
    <3> QED
      BY <2>1, LeastOf
  <2>4. k \in T /\ \A x \in T : k <= x
    <3> HIDE DEF T
    <3> QED
      BY <2>3 DEF Min
  <2> HIDE DEF k
  <2>5. k \in a .. n /\ k \notin removed
    BY <2>4
  <2>6. ASSUME NEW x \in a .. k - 1  PROVE x \in removed
    <3>1. x \in a .. n /\ ~(k <= x)
      BY <2>5, <1>2
    <3> QED
      BY <3>1, <2>4
  <2> HIDE DEF T
  <2> QED
    BY <1>2, <2>2, <2>5, <2>6
<1> QED
  BY <1>1, <1>2

(* Where each address goes: a kept one to its place w, any other where the *)
(* next kept one goes, or past the end.                                    *)
Places(n, removed, w, kept) ==
  /\ Packed(n, removed)[n] = kept /\ kept \in Seq(Nat) /\ Len(kept) <= n
  /\ \A q \in 1 .. Len(kept) :
        kept[q] \in 0 .. n - 1 /\ kept[q] \notin removed /\ w[kept[q]] = q - 1
  /\ \A b \in 0 .. n - 1 : b \notin removed =>
        /\ w[b] \in 0 .. Len(kept) - 1 /\ kept[w[b] + 1] = b
        /\ NewTarget(n, removed, b) = w[b]
        /\ \A a \in Nat : a > b => NewTarget(n, removed, a) > w[b]
        /\ \/ NewTarget(n, removed, b + 1) = w[b] + 1
           \/ NewTarget(n, removed, b + 1) >= n /\ w[b] + 1 = Len(kept)
  /\ \A b \in removed : NewTarget(n, removed, b) = NewTarget(n, removed, b + 1)
  /\ \A a \in Nat :
        NewTarget(n, removed, a) \in Nat /\ (a >= n => NewTarget(n, removed, a) >= n)
  /\ NewTarget(n, removed, 0) = 0 \/ (NewTarget(n, removed, 0) >= n /\ Len(kept) = 0)

LEMMA NewTargetIs ==
  ASSUME NEW n \in Nat, NEW removed, removed \subseteq 0 .. n - 1
  PROVE  \E w, kept : Places(n, removed, w, kept)
<1>1. PICK pk : /\ Packed(n, removed) = pk
                /\ \A a \in 0 .. n : pk[a] \in Seq(Nat) /\ InOrder(pk, removed, a)
  BY PackedInOrder
<1> DEFINE w == [b \in 0 .. n |-> Len(pk[b])]
           kept == pk[n]
           K(a) == NextKept(n, removed, a)
           N(a) == NewTarget(n, removed, a)
<1>2. \A b \in 0 .. n : w[b] = Len(pk[b]) /\ w[b] \in Nat
  BY <1>1
<1> HIDE DEF w
<1>3. /\ \A e \in 0 .. n : \A b \in 0 .. e : w[b] <= w[e]
      /\ \A e \in 0 .. n : w[e] \in 0 .. e
      /\ \A e \in 0 .. n : \A b \in 0 .. e - 1 : b \notin removed => w[b] < w[e]
      /\ \A e \in 0 .. n : \A q \in 1 .. w[e] : pk[e][q] \in 0 .. e - 1 /\ pk[e][q] \notin removed /\ w[pk[e][q]] = q - 1
      /\ \A b \in 0 .. n - 1 : b \notin removed => kept[w[b] + 1] = b
  <2>1. \A e \in 0 .. n : \A b \in 0 .. e : b \in 0 .. n
    OBVIOUS
  <2>2. \A e \in 0 .. n : \A b \in 0 .. e - 1 : b \in 0 .. e
    OBVIOUS
  <2>3. \A e \in 0 .. n : \A b \in 0 .. e : w[b] <= w[e]
    BY <1>1, <1>2, <2>1 DEF InOrder
  <2>4. \A e \in 0 .. n : \A b \in 0 .. e - 1 : b \notin removed => w[b] < w[e]
    BY <1>1, <1>2, <2>1, <2>2 DEF InOrder
  <2>5. ASSUME NEW e \in 0 .. n, NEW q \in 1 .. w[e]
        PROVE  pk[e][q] \in 0 .. e - 1 /\ pk[e][q] \notin removed /\ w[pk[e][q]] = q - 1
    <3>1. q \in 1 .. Len(pk[e])
      BY <1>2
    <3>2. pk[e][q] \in 0 .. e - 1 /\ pk[e][q] \notin removed /\ Len(pk[pk[e][q]]) = q - 1
      BY <3>1, <1>1 DEF InOrder
    <3>3. pk[e][q] \in 0 .. n
      BY <3>2
    <3> QED
      BY <3>2, <3>3, <1>2
  <2>6. ASSUME NEW b \in 0 .. n - 1, b \notin removed  PROVE kept[w[b] + 1] = b
    <3>1. n \in 0 .. n /\ b \in 0 .. n
      OBVIOUS
    <3>2. pk[n][Len(pk[b]) + 1] = b
      BY <3>1, <2>6, <1>1 DEF InOrder
    <3> QED
      BY <3>1, <3>2, <1>2
  <2>7. \A e \in 0 .. n : w[e] \in 0 .. e
    BY <1>1, <1>2, ZenonT(40) DEF InOrder
  <2> QED
    BY <2>3, <2>4, <2>5, <2>6, <2>7
<1>4. kept \in Seq(Nat) /\ Len(kept) = w[n] /\ w[n] \in Nat /\ w[n] <= n /\ w[0] = 0
  <2>1. n \in 0 .. n /\ 0 \in 0 .. n
    OBVIOUS
  <2>2. w[0] \in 0 .. 0 /\ w[n] \in 0 .. n
    BY <2>1, <1>3
  <2> QED
    BY <1>1, <1>2, <2>1, <2>2
<1>5. n \notin removed
  OBVIOUS
<1>6. \A a \in Nat : /\ K(a) \in Nat /\ K(a) >= a
                     /\ a >= n => K(a) = a
                     /\ a < n => K(a) <= n /\ K(a) \notin removed /\ \A x \in a .. K(a) - 1 : x \in removed
  BY <1>5, NextKeptIs
<1>7. \A a \in Nat : N(a) = IF K(a) < n THEN w[K(a)] ELSE K(a)
  <2>1. \A a \in Nat : K(a) < n => K(a) \in 0 .. n
    BY <1>6
  <2> HIDE DEF K
  <2>2. \A a \in Nat : N(a) = IF K(a) < n THEN Len(pk[K(a)]) ELSE K(a)
    BY <1>1 DEF NewTarget, K
  <2> HIDE DEF N
  <2> QED
    BY <1>2, <2>1, <2>2
<1> HIDE DEF K, N, kept
(* Nothing is kept between an address and the next one that is. *)
<1>8. ASSUME NEW a \in 0 .. n, NEW k \in a .. n, \A x \in a .. k - 1 : x \in removed
      PROVE  w[k] = w[a]
  <2>1. w[a] \in Nat /\ w[k] \in Nat /\ w[a] <= w[k] /\ k \in 0 .. n
    BY <1>2, <1>3
  <2> SUFFICES ASSUME w[a] < w[k]  PROVE FALSE
    BY <2>1
  <2> DEFINE b == pk[k][w[a] + 1]
  <2>2. w[a] + 1 \in 1 .. w[k]
    BY <2>1
  <2>3. b \in 0 .. k - 1 /\ b \notin removed /\ w[b] = (w[a] + 1) - 1
    BY <2>1, <2>2, <1>3
  <2> HIDE DEF b
  <2>4. b \notin a .. k - 1
    BY <1>8, <2>3
  <2>5. b \in 0 .. a - 1
    BY <2>3, <2>4
  <2>6. w[b] < w[a]
    BY <2>3, <2>5, <1>3
  <2> QED
    BY <2>1, <2>3, <2>6
<1>9. ASSUME NEW a \in 0 .. n  PROVE w[a] = w[K(a)] /\ K(a) \in a .. n
  <2>1. CASE a = n
    BY <2>1, <1>6
  <2>2. CASE a < n
    <3>1. a \in Nat
      OBVIOUS
    <3>2. K(a) \in a .. n /\ \A x \in a .. K(a) - 1 : x \in removed
      BY <2>2, <3>1, <1>6
    <3> QED
      BY <3>2, <1>8
  <2> QED
    BY <2>1, <2>2
<1>10. ASSUME NEW b \in 0 .. n - 1, b \notin removed
       PROVE  /\ w[b] \in 0 .. Len(kept) - 1 /\ kept[w[b] + 1] = b /\ N(b) = w[b]
              /\ \A a \in Nat : a > b => N(a) > w[b]
              /\ N(b + 1) = w[b] + 1 \/ (N(b + 1) >= n /\ w[b] + 1 = Len(kept))
  <2>1. b \in Nat /\ b < n /\ b + 1 \in 0 .. n /\ b \in 0 .. n /\ n \in 0 .. n /\ w[b] \in Nat
    BY <1>2
  <2>2. w[b] < w[n]
    BY <2>1, <1>3, <1>10
  <2>3. K(b) = b
    <3> SUFFICES ASSUME K(b) # b  PROVE FALSE
      OBVIOUS
    <3>1. b \in b .. K(b) - 1
      BY <2>1, <1>6
    <3> QED
      BY <3>1, <2>1, <1>6, <1>10
  <2>4. N(b) = w[b]
    BY <2>1, <2>3, <1>7
  <2>5. ASSUME NEW a \in Nat, a > b  PROVE N(a) > w[b]
    <3>1. K(a) \in Nat /\ K(a) >= a
      BY <1>6
    <3>2. CASE K(a) < n
      <4>1. b \in 0 .. K(a) - 1 /\ K(a) \in 0 .. n
        BY <3>1, <3>2, <2>5
      <4>2. w[b] < w[K(a)] /\ w[K(a)] \in Nat
        BY <4>1, <1>2, <1>3, <1>10
      <4> QED
        BY <4>2, <3>2, <1>7, <2>1
    <3>3. CASE ~(K(a) < n)
      <4>1. N(a) = K(a) /\ w[b] < n
        BY <3>3, <1>7, <1>4, <2>1, <2>2
      <4> QED
        BY <4>1, <3>1, <3>3, <2>1
    <3> QED
      BY <3>2, <3>3
  <2>6. w[b + 1] = w[b] + 1
    <3>1. w[b] < w[b + 1] /\ w[b + 1] \in Nat
      <4>1. b \in 0 .. (b + 1) - 1
        BY <2>1
      <4> QED
        BY <4>1, <2>1, <1>2, <1>3, <1>10
    <3> SUFFICES ASSUME w[b] + 1 < w[b + 1]  PROVE FALSE
      BY <3>1, <2>1
    <3> DEFINE e == pk[b + 1][w[b] + 2]
    <3>2. w[b] + 2 \in 1 .. w[b + 1]
      BY <3>1, <2>1
    <3>3. e \in 0 .. (b + 1) - 1 /\ e \notin removed /\ w[e] = (w[b] + 2) - 1
      BY <3>2, <2>1, <1>3
    <3> HIDE DEF e
    <3>4. e \in 0 .. b /\ w[e] = w[b] + 1
      BY <3>3, <2>1
    <3>5. w[e] <= w[b]
      BY <3>4, <2>1, <1>3
    <3> QED
      BY <3>4, <3>5, <2>1
  <2>7. w[b + 1] = w[K(b + 1)] /\ K(b + 1) \in b + 1 .. n
    BY <2>1, <1>9
  <2>8. N(b + 1) = IF K(b + 1) < n THEN w[K(b + 1)] ELSE K(b + 1)
    BY <2>1, <1>7
  <2>9. CASE K(b + 1) < n
    <3>1. N(b + 1) = w[b] + 1
      BY <2>9, <2>6, <2>7, <2>8
    <3> QED
      BY <3>1, <2>1, <2>2, <2>4, <2>5, <1>3, <1>4, <1>10
  <2>10. CASE ~(K(b + 1) < n)
    <3>1. K(b + 1) = n
      BY <2>10, <2>7, <2>1
    <3>2. N(b + 1) >= n /\ w[b] + 1 = Len(kept)
      BY <3>1, <2>6, <2>7, <2>8, <1>4
    <3> QED
      BY <3>2, <2>1, <2>2, <2>4, <2>5, <1>3, <1>4, <1>10
  <2> QED
    BY <2>9, <2>10
<1>11. ASSUME NEW b \in removed  PROVE N(b) = N(b + 1)
  <2>1. b \in Nat /\ b + 1 \in Nat /\ b < n /\ b + 1 <= n
    OBVIOUS
  <2>2. K(b) <= n /\ K(b) \notin removed /\ K(b) >= b /\ K(b) \in Nat
    BY <2>1, <1>6
  <2>3. \A x \in b .. K(b) - 1 : x \in removed
    BY <2>1, <1>6
  <2>4. K(b) >= b + 1
    <3>1. K(b) # b
      BY <2>2
    <3> QED
      BY <3>1, <2>1, <2>2
  <2>5. K(b + 1) \in b + 1 .. n /\ K(b + 1) \notin removed
    <3>1. b + 1 \in 0 .. n
      BY <2>1
    <3>2. CASE b + 1 = n
      BY <3>1, <3>2, <1>5, <1>9
    <3>3. CASE b + 1 < n
      BY <3>1, <3>3, <2>1, <1>6, <1>9
    <3> QED
      BY <3>2, <3>3, <2>1
  <2>6. K(b + 1) >= K(b)
    <3>1. ~(K(b + 1) \in b .. K(b) - 1)
      BY <2>3, <2>5
    <3> QED
      BY <3>1, <2>1, <2>2, <2>5
  <2>7. K(b) >= K(b + 1)
    <3>1. CASE b + 1 = n
      BY <3>1, <2>1, <2>2, <2>4, <2>5
    <3>2. CASE b + 1 < n
      <4>1. \A x \in b + 1 .. K(b + 1) - 1 : x \in removed
        BY <3>2, <2>1, <1>6
      <4>2. ~(K(b) \in b + 1 .. K(b + 1) - 1)
        BY <4>1, <2>2
      <4> QED
        BY <4>2, <2>1, <2>2, <2>4, <2>5
    <3> QED
      BY <3>1, <3>2, <2>1
  <2>8. K(b) = K(b + 1)
    BY <2>2, <2>5, <2>6, <2>7
  <2> QED
    BY <2>1, <2>8, <1>7
<1>12. ASSUME NEW a \in Nat  PROVE N(a) \in Nat /\ (a >= n => N(a) >= n)
  <2>1. CASE K(a) < n
    <3>1. K(a) \in 0 .. n
      BY <2>1, <1>6
    <3>2. ~(a >= n)
      BY <2>1, <1>6
    <3> QED
      BY <3>1, <3>2, <2>1, <1>2, <1>7
  <2>2. CASE ~(K(a) < n)
    <3>1. N(a) = K(a) /\ K(a) \in Nat /\ (a >= n => K(a) = a)
      BY <2>2, <1>6, <1>7
    <3> QED
      BY <3>1
  <2> QED
    BY <2>1, <2>2
<1>13. N(0) = 0 \/ (N(0) >= n /\ Len(kept) = 0)
  <2>1. w[0] = w[K(0)] /\ K(0) \in 0 .. n
    BY <1>9
  <2>2. N(0) = IF K(0) < n THEN w[K(0)] ELSE K(0)
    BY <1>7
  <2>3. CASE K(0) < n
    BY <2>1, <2>2, <2>3, <1>4
  <2>4. CASE ~(K(0) < n)
    <3>1. K(0) = n
      BY <2>1, <2>4
    <3>2. w[n] = 0
      BY <3>1, <2>1, <1>4
    <3>3. N(0) = n
      BY <3>1, <2>2, <2>4
    <3>4. N(0) >= n /\ Len(kept) = 0
      BY <3>2, <3>3, <1>4
    <3> QED
      BY <3>4
  <2> QED
    BY <2>3, <2>4
<1>14. \A q \in 1 .. Len(kept) : kept[q] \in 0 .. n - 1 /\ kept[q] \notin removed /\ w[kept[q]] = q - 1
  <2>1. n \in 0 .. n
    OBVIOUS
  <2> QED
    BY <2>1, <1>3, <1>4 DEF kept
<1>15. Packed(n, removed)[n] = kept
  BY <1>1 DEF kept
<1> HIDE DEF kept
<1>16. Places(n, removed, w, kept)
  BY <1>4, <1>10, <1>11, <1>12, <1>13, <1>14, <1>15 DEF N, Places
<1> QED
  BY <1>16

(* Live holds what can be reached from it: a removed instruction of it is  *)
(* a `ja' to the next one, and what comes after any other is in it again.  *)
Closed(c, removed, Live) ==
  /\ \A a \in Nat : a >= Len(c) => a \in Live
  /\ \A a \in Live : Inside(c, a) =>
       IF a \in removed THEN IsJa(c[a + 1]) /\ c[a + 1].jt = 0 /\ a + 1 \in Live
       ELSE c[a + 1].class # "ret" => \A r : a + 1 + Skips(c[a + 1], r) \in Live

(* A kept instruction does what it did and goes on where what came after   *)
(* it has gone.                                                            *)
Remade(c, removed, d, i, j, b, a) ==
  /\ j \in Instruction /\ j.class = i.class /\ j.k = i.k
  /\ \A r, p : Stops(j, r, p) = Stops(i, r, p) /\ Effect(j, r, p) = Effect(i, r, p)
  /\ \A r : LET x == b + 1 + Skips(i, r)
                y == a + 1 + Skips(j, r)
                t == NewTarget(Len(c), removed, x)
            IN  y = t \/ (y >= Len(d) /\ t >= Len(d))

LEMMA DroppedInsns ==
  ASSUME NEW c \in Seq(Instruction), NEW removed, removed \subseteq 0 .. Len(c) - 1,
         removed # {}, NEW w, NEW kept, Places(Len(c), removed, w, kept)
  PROVE  LET d == DropInsns(c, removed)
         IN  /\ d \in Seq(Instruction) /\ Len(d) = Len(kept)
             /\ \A b \in 0 .. Len(c) - 1 : b \notin removed =>
                   Remade(c, removed, d, c[b + 1], d[w[b] + 1], b, w[b])
<1> DEFINE n == Len(c)
           N(a) == NewTarget(n, removed, a)
           To(q, o) == N(kept[q] + 1 + o) - q
           Remapped(q) == IF ~IsJump(c[kept[q] + 1]) THEN c[kept[q] + 1]
                          ELSE Aimed(c[kept[q] + 1], To(q, c[kept[q] + 1].jt), To(q, c[kept[q] + 1].jf))
           d == [q \in 1 .. Len(kept) |-> Remapped(q)]
<1>1. DropInsns(c, removed) = d
  <2>1. Packed(n, removed)[n] = kept
    BY DEF Places
  <2> QED
    BY <2>1 DEF DropInsns
<1>2. n \in Nat /\ Len(kept) \in Nat /\ Len(kept) <= n
  <2>1. kept \in Seq(Nat) /\ Len(kept) <= n
    BY DEF Places
  <2> QED
    BY <2>1
<1> HIDE DEF n
<1>3. \A q \in 1 .. Len(kept) :
        kept[q] \in 0 .. n - 1 /\ kept[q] \notin removed /\ w[kept[q]] = q - 1
  BY DEF Places, n
<1>6. ASSUME NEW b \in 0 .. n - 1, b \notin removed
      PROVE  /\ w[b] \in 0 .. Len(kept) - 1 /\ kept[w[b] + 1] = b
             /\ \A a \in Nat : a > b => N(a) > w[b]
             /\ N(b + 1) = w[b] + 1 \/ (N(b + 1) >= n /\ w[b] + 1 = Len(kept))
  BY <1>6 DEF Places, n
<1>7. \A a \in Nat : N(a) \in Nat
  BY DEF Places, n
<1> HIDE DEF N
<1>4. ASSUME NEW b \in 0 .. n - 1, b \notin removed
      PROVE  LET i == c[b + 1]
                 j == d[w[b] + 1]
             IN  /\ j \in Instruction /\ j.class = i.class /\ j.k = i.k
                 /\ \A r, p : Stops(j, r, p) = Stops(i, r, p) /\ Effect(j, r, p) = Effect(i, r, p)
                 /\ \A r : \/ w[b] + 1 + Skips(j, r) = N(b + 1 + Skips(i, r))
                           \/ /\ w[b] + 1 + Skips(j, r) >= Len(kept)
                              /\ N(b + 1 + Skips(i, r)) >= Len(kept)
  <2> DEFINE q == w[b] + 1
             i == c[b + 1]
             j == d[q]
             u == To(q, i.jt)
             v == To(q, i.jf)
  <2>1. b \in Nat /\ q \in 1 .. Len(kept) /\ kept[q] = b /\ w[b] \in Nat
    BY <1>2, <1>4, <1>6
  <2>2. j = IF ~IsJump(i) THEN i ELSE Aimed(i, u, v)
    BY <2>1
  <2>3. i \in Instruction /\ i.jt \in Nat /\ i.jf \in Nat
    <3>1. Inside(c, b)
      BY <1>2 DEF Inside, n
    <3> QED
      BY <3>1, <2>1, InstructionAt DEF Instruction
  <2> HIDE DEF i
  <2>4. ASSUME NEW o \in Nat  PROVE To(q, o) \in Nat /\ q + To(q, o) = N(b + 1 + o)
    <3>1. b + 1 + o \in Nat /\ b + 1 + o > b
      BY <2>1
    <3>2. N(b + 1 + o) \in Nat /\ N(b + 1 + o) > w[b]
      BY <3>1, <1>4, <1>6, <1>7
    <3> QED
      BY <3>2, <2>1
  <2>5. u \in Nat /\ v \in Nat /\ q + u = N(b + 1 + i.jt) /\ q + v = N(b + 1 + i.jf)
    BY <2>3, <2>4
  <2> HIDE DEF d, u, v, j
  <2>6. CASE IsJump(i)
    <3>1. j = Aimed(i, u, v)
      BY <2>2, <2>6
    <3>2. /\ j \in Instruction /\ j.class = i.class /\ j.k = i.k
          /\ \A r, p : Stops(j, r, p) = Stops(i, r, p) /\ Effect(j, r, p) = Effect(i, r, p)
          /\ \A r : \/ Skips(i, r) = i.jt /\ Skips(j, r) = u
                    \/ Skips(i, r) = i.jf /\ Skips(j, r) = v
      BY <3>1, <2>3, <2>5, <2>6, AimedKeeps
    <3>3. \A r : q + Skips(j, r) = N(b + 1 + Skips(i, r))
      BY <3>2, <2>5
    <3> QED
      BY <3>2, <3>3 DEF i, j
  <2>7. CASE ~IsJump(i)
    <3>1. j = i
      BY <2>2, <2>7
    <3>2. \A r : Skips(i, r) = 0 /\ Skips(j, r) = 0
      BY <3>1, <2>7 DEF Skips
    <3>3. N(b + 1) = w[b] + 1 \/ (N(b + 1) >= n /\ w[b] + 1 = Len(kept))
      BY <1>4, <1>6
    <3>4. N(b + 1) = q \/ (q >= Len(kept) /\ N(b + 1) >= Len(kept))
      <4>1. b + 1 \in Nat
        BY <2>1
      <4>2. N(b + 1) \in Nat
        BY <4>1, <1>7
      <4> QED
        BY <4>2, <3>3, <2>1, <1>2
    <3>5. q + 0 = q /\ b + 1 + 0 = b + 1
      BY <2>1
    <3>6. \A r : \/ q + Skips(j, r) = N(b + 1 + Skips(i, r))
                 \/ q + Skips(j, r) >= Len(kept) /\ N(b + 1 + Skips(i, r)) >= Len(kept)
      BY <3>2, <3>4, <3>5
    <3> QED
      BY <3>1, <3>6, <2>3 DEF i, j
  <2> QED
    BY <2>6, <2>7
<1>5. d \in Seq(Instruction) /\ Len(d) = Len(kept)
  <2>1. ASSUME NEW q \in 1 .. Len(kept)  PROVE Remapped(q) \in Instruction
    <3>1. kept[q] \in 0 .. n - 1 /\ kept[q] \notin removed /\ w[kept[q]] + 1 = q
      BY <1>2, <1>3
    <3>2. d[w[kept[q]] + 1] \in Instruction
      <4> HIDE DEF d
      <4> QED
        BY <3>1, <1>4
    <3>3. d[q] = Remapped(q)
      OBVIOUS
    <3> HIDE DEF Remapped, d
    <3> QED
      BY <3>1, <3>2, <3>3
  <2>2. d \in [1 .. Len(kept) -> Instruction]
    <3> HIDE DEF Remapped
    <3> QED
      BY <2>1
  <2> HIDE DEF d
  <2> QED
    BY <2>2, <1>2
<1> HIDE DEF d
<1> QED
  BY <1>1, <1>4, <1>5 DEF Remade, n, N

LEMMA DropInsnsKeep ==
  ASSUME NEW c \in Seq(Instruction), NEW removed, removed \subseteq 0 .. Len(c) - 1,
         NEW Live, 0 \in Live, Closed(c, removed, Live)
  PROVE  /\ DropInsns(c, removed) \in Seq(Instruction)
         /\ \A p, r : From(DropInsns(c, removed), p, 0, r) = From(c, p, 0, r)
<1>1. CASE removed = {}
  BY <1>1 DEF DropInsns
<1>2. CASE removed # {}
  <2> DEFINE n == Len(c)
             d == DropInsns(c, removed)
             N(a) == NewTarget(n, removed, a)
  <2>1. n \in Nat
    OBVIOUS
  <2>2. PICK w, kept : Places(n, removed, w, kept)
    BY <2>1, NewTargetIs
  <2>3. /\ d \in Seq(Instruction) /\ Len(d) = Len(kept)
        /\ \A b \in 0 .. n - 1 : b \notin removed =>
              Remade(c, removed, d, c[b + 1], d[w[b] + 1], b, w[b])
    BY <1>2, <2>2, DroppedInsns
  <2>9. Len(kept) <= n /\ Len(kept) \in Nat
    <3>1. kept \in Seq(Nat) /\ Len(kept) <= n
      BY <2>2 DEF Places
    <3> QED
      BY <3>1
  <2>4. /\ Len(kept) <= n /\ Len(kept) \in Nat
        /\ \A b \in 0 .. n - 1 : b \notin removed =>
              w[b] \in 0 .. Len(kept) - 1 /\ N(b) = w[b]
        /\ \A b \in removed : N(b) = N(b + 1)
        /\ \A a \in Nat : N(a) \in Nat /\ (a >= n => N(a) >= n)
        /\ N(0) = 0 \/ (N(0) >= n /\ Len(kept) = 0)
    BY <2>2, <2>9 DEF Places
  <2> HIDE DEF d
  <2>5. ASSUME NEW p
        PROVE  \A r : \A a \in Live : a \in Nat => From(d, p, N(a), r) = From(c, p, a, r)
    <3> DEFINE Differ(a, r) == From(d, p, N(a), r) # From(c, p, a, r)
               Bad == {a \in 0 .. n : a \in Live /\ \E r : Differ(a, r)}
    <3>1. \A a \in Nat : a >= n => \A r : ~Differ(a, r)
      <4>1. \A a \in Nat : a >= n => N(a) \in Nat /\ N(a) >= Len(d)
        BY <2>1, <2>3, <2>4
      <4> HIDE DEF N
      <4> QED
        BY <4>1, <2>3, FromOutside DEF n
    <3>2. \A a, r : a \in Nat /\ a \in Live /\ Differ(a, r) => a \in Bad
      <4>1. \A a \in Nat : ~(a >= n) => a \in 0 .. n
        BY <2>1
      <4> HIDE DEF Differ
      <4> QED
        BY <4>1, <3>1
    <3>3. ASSUME NEW a \in Bad  PROVE \E e \in Bad : e > a
      <4>1. PICK r : Differ(a, r)
        OBVIOUS
      <4>2. a \in Nat /\ a \in Live /\ a \in 0 .. n - 1 /\ Inside(c, a)
        <5>1. a \in 0 .. n /\ a \in Live
          OBVIOUS
        <5> HIDE DEF Bad, Differ
        <5>2. ~(a >= n)
          BY <5>1, <4>1, <3>1, <2>1
        <5> QED
          BY <5>1, <5>2, <2>1 DEF Inside
      <4>3. CASE a \in removed
        <5>1. IsJa(c[a + 1]) /\ c[a + 1].jt = 0 /\ a + 1 \in Live
          BY <4>2, <4>3 DEF Closed
        <5>2. From(c, p, a, r) = From(c, p, a + 1, r)
          <6>1. From(c, p, a, r) = From(c, p, a + 1 + c[a + 1].jt, r)
            BY <5>1, <4>2, JaStep
          <6>2. a + 1 + 0 = a + 1
            BY <4>2
          <6> QED
            BY <6>1, <6>2, <5>1
        <5>3. N(a) = N(a + 1)
          <6> HIDE DEF N
          <6> QED
            BY <4>3, <2>4
        <5>4. Differ(a + 1, r)
          <6> HIDE DEF N
          <6> QED
            BY <4>1, <5>2, <5>3
        <5>5. a + 1 \in Nat /\ a + 1 > a
          BY <4>2
        <5> HIDE DEF Bad, Differ
        <5> QED
          BY <5>1, <5>4, <5>5, <3>2
      <4>4. CASE a \notin removed
        <5> DEFINE i == c[a + 1]
                   j == d[w[a] + 1]
                   x == a + 1 + Skips(i, r)
                   y == w[a] + 1 + Skips(j, r)
                   s == Effect(i, r, p)
        <5>1. /\ j \in Instruction /\ j.class = i.class /\ j.k = i.k
              /\ Stops(j, r, p) = Stops(i, r, p) /\ Effect(j, r, p) = s
              /\ y = N(x) \/ (y >= Len(d) /\ N(x) >= Len(d))
          <6>1. Remade(c, removed, d, i, j, a, w[a])
            BY <4>2, <4>4, <2>3
          <6> QED
            BY <6>1 DEF Remade
        <5>2. w[a] \in Nat /\ N(a) = w[a] /\ Inside(d, w[a])
          <6>1. w[a] \in 0 .. Len(kept) - 1 /\ N(a) = w[a]
            <7> HIDE DEF N
            <7> QED
              BY <4>2, <4>4, <2>4
          <6> HIDE DEF N
          <6> QED
            BY <6>1, <2>3, <2>4 DEF Inside
        <5>3. Skips(i, r) \in Nat /\ Skips(j, r) \in Nat
          BY <4>2, <5>2, <2>3, InstructionAt
        <5>4. ~Stops(i, r, p)
          <6> SUFFICES ASSUME Stops(i, r, p)  PROVE FALSE
            OBVIOUS
          <6>1. /\ From(c, p, a, r) = IF i.class = "ret" THEN i.k ELSE 0
                /\ From(d, p, w[a], r) = IF j.class = "ret" THEN j.k ELSE 0
            BY <4>2, <5>1, <5>2, <2>3, FromStop
          <6> HIDE DEF i, j, N
          <6> QED
            BY <6>1, <5>1, <5>2, <4>1
        <5>5. From(c, p, a, r) = From(c, p, x, s) /\ From(d, p, w[a], r) = From(d, p, y, s)
          <6>1. From(c, p, a, r) = From(c, p, x, s)
            BY <4>2, <5>4, FromStep
          <6>2. From(d, p, w[a], r) = From(d, p, y, Effect(j, r, p))
            BY <5>1, <5>2, <5>4, <2>3, FromStep
          <6> QED
            BY <6>1, <6>2, <5>1
        <5>6. x \in Nat /\ x > a /\ y \in Nat /\ N(x) \in Nat
          <6>1. x \in Nat /\ x > a /\ y \in Nat
            <7> HIDE DEF i, j
            <7> QED
              BY <5>2, <5>3, <4>2
          <6> HIDE DEF x, y, N
          <6> QED
            BY <6>1, <2>4
        <5>7. x \in Live
          <6>1. i.class # "ret"
            BY <5>4 DEF Stops
          <6> QED
            BY <6>1, <4>2, <4>4 DEF Closed
        <5> HIDE DEF x, y, s, i, j, N
        <5>8. From(d, p, y, s) = From(d, p, N(x), s)
          BY <5>1, <5>6, <2>3, FromOutside
        <5>9. Differ(x, s)
          BY <5>2, <5>5, <5>8, <4>1
        <5> HIDE DEF Bad, Differ
        <5> QED
          BY <5>6, <5>7, <5>9, <3>2
      <4> QED
        BY <4>3, <4>4
    <3>4. Bad = {}
      <4>1. Bad \subseteq 0 .. n
        OBVIOUS
      <4> HIDE DEF Bad
      <4> QED
        BY <4>1, <2>1, <3>3, NoAscent
    <3> QED
      <4> HIDE DEF Bad
      <4> QED
        BY <3>2, <3>4
  <2>6. \A p, r : From(d, p, N(0), r) = From(c, p, 0, r)
    <3> HIDE DEF N
    <3> QED
      BY <2>5
  <2>7. \A p, r : From(d, p, N(0), r) = From(d, p, 0, r)
    <3>1. CASE N(0) = 0
      BY <3>1
    <3>2. CASE N(0) >= n /\ Len(kept) = 0
      <4>1. N(0) \in Nat /\ N(0) >= Len(d) /\ 0 >= Len(d)
        BY <3>2, <2>1, <2>3, <2>4
      <4> HIDE DEF N
      <4> QED
        BY <4>1, <2>3, FromOutside
    <3> QED
      BY <3>1, <3>2, <2>4
  <2> QED
    BY <2>3, <2>6, <2>7 DEF d
<1> QED
  BY <1>1, <1>2

LEMMA RemoveNoopsKeep ==
  ASSUME NEW c \in Seq(Instruction)
  PROVE  /\ RemoveNoops(c) \in Seq(Instruction)
         /\ \A p, r : From(RemoveNoops(c), p, 0, r) = From(c, p, 0, r)
<1> DEFINE removed == {a \in 0 .. Len(c) - 1 : IsJa(c[a + 1]) /\ c[a + 1].jt = 0}
<1>1. Closed(c, removed, Nat)
  <2>1. ASSUME NEW a \in Nat, Inside(c, a)
        PROVE  a + 1 \in Nat /\ \A r : a + 1 + Skips(c[a + 1], r) \in Nat
    <3>1. \A r : Skips(c[a + 1], r) \in Nat
      BY <2>1, InstructionAt
    <3> QED
      BY <3>1
  <2> QED
    BY <2>1 DEF Closed
<1>2. RemoveNoops(c) = DropInsns(c, removed)
  BY DEF RemoveNoops
<1>3. removed \subseteq 0 .. Len(c) - 1 /\ 0 \in Nat
  OBVIOUS
<1> HIDE DEF removed
<1>4. /\ DropInsns(c, removed) \in Seq(Instruction)
      /\ \A p, r : From(DropInsns(c, removed), p, 0, r) = From(c, p, 0, r)
  BY <1>1, <1>3, DropInsnsKeep
<1> QED
  BY <1>2, <1>4

(* After holds what comes next, and nothing before it.                     *)
LEMMA AfterIs ==
  ASSUME NEW c \in Seq(Instruction), NEW a \in Nat, Inside(c, a)
  PROVE  /\ \A b \in After(c, a) : b \in Nat /\ b > a
         /\ c[a + 1].class # "ret" => \A r : a + 1 + Skips(c[a + 1], r) \in After(c, a)
<1> DEFINE i == c[a + 1]
<1>1. i.jt \in Nat /\ i.jf \in Nat
  BY InstructionAt DEF Instruction
<1>2. \A o \in Targets(i) : o \in Nat
  BY <1>1 DEF Targets
<1>3. \A b \in JumpsTo(c, a) : b \in Nat /\ b > a
  BY <1>2 DEF JumpsTo
<1>4. \A o \in Targets(i) : a + 1 + o \in JumpsTo(c, a)
  BY DEF JumpsTo
<1>5. After(c, a) = IF i.class = "ret" THEN {}
                    ELSE IF IsJa(i) THEN JumpsTo(c, a)
                    ELSE JumpsTo(c, a) \cup {a + 1}
  BY DEF After
<1> HIDE DEF i
<1>6. \A b \in After(c, a) : b \in Nat /\ b > a
  BY <1>3, <1>5
<1>7. ASSUME i.class # "ret", NEW r  PROVE a + 1 + Skips(i, r) \in After(c, a)
  <2>1. CASE ~IsJump(i)
    <3>1. Skips(i, r) = 0 /\ ~IsJa(i)
      BY <2>1 DEF Skips, IsJa
    <3>2. a + 1 + 0 = a + 1
      OBVIOUS
    <3> QED
      BY <3>1, <3>2, <1>5, <1>7
  <2>2. CASE IsJump(i)
    <3>1. Skips(i, r) \in Targets(i)
      BY <2>2 DEF Skips, Targets
    <3>2. a + 1 + Skips(i, r) \in JumpsTo(c, a)
      BY <3>1, <1>4
    <3> QED
      BY <3>2, <1>5, <1>7
  <2> QED
    BY <2>1, <2>2
<1> QED
  BY <1>6, <1>7 DEF i

(* As many rounds as there are instructions are enough: what a round adds  *)
(* comes after what added it.                                              *)
LEMMA ReachableIs ==
  ASSUME NEW c \in Seq(Instruction)
  PROVE  /\ Reachable(c) \subseteq 0 .. Len(c) - 1
         /\ Len(c) > 0 => 0 \in Reachable(c)
         /\ \A a \in Reachable(c) : After(c, a) \cap (0 .. Len(c) - 1) \subseteq Reachable(c)
<1> DEFINE n == Len(c)
           all == 0 .. n - 1
           first == all \cap ({0} \cup UNION {JumpsTo(c, a) : a \in all})
           More(r) == r \cup (all \cap UNION {After(c, a) : a \in r})
           S == SUBSET all
           turn == [k \in 1 .. n |-> [r \in S |-> More(r)]]
           F(f) == [k \in 0 .. n |-> IF k = 0 THEN first ELSE More(f[k - 1])]
<1>0. n \in Nat
  OBVIOUS
<1>1. first \in S /\ (n > 0 => 0 \in first)
  OBVIOUS
<1>2. ASSUME NEW r \in S
      PROVE  /\ More(r) \in S /\ r \subseteq More(r)
             /\ \A a \in r : After(c, a) \cap all \subseteq More(r)
             /\ \A b \in More(r) : b \in r \/ \E a \in r : b \in After(c, a)
  OBVIOUS
<1> HIDE DEF n, first, all
<1>3. \A k \in 1 .. n, r \in S : turn[k][r] = More(r)
  OBVIOUS
<1> HIDE DEF turn, More, S
<1>4. PICK f : Recursive(n, S, first, turn, f)
  BY <1>0, <1>1, <1>2, <1>3, Recursion, ZenonT(40) DEF Turns
<1>5. f = F(f)
  <2>1. \A k \in 0 .. n : k # 0 => k \in 1 .. n /\ k - 1 \in 0 .. n
    BY <1>0
  <2>2. \A k \in 0 .. n : f[k] = IF k = 0 THEN first ELSE More(f[k - 1])
    BY <2>1, <1>3, <1>4 DEF Recursive
  <2>3. F(f) = [k \in 0 .. n |-> f[k]]
    BY <2>2
  <2> QED
    BY <2>3, <1>4 DEF Recursive
<1> DEFINE reached == CHOOSE g : g = F(g)
<1>6. reached = F(reached)
  <2> HIDE DEF F
  <2> QED
    BY <1>5
<1>7. Reachable(c) = reached[n]
  BY DEF Reachable, n, all, first, More
<1> HIDE DEF reached
<1>8. reached[0] = first /\ \A k \in 1 .. n : reached[k] = More(reached[k - 1])
  <2>1. \A k \in 0 .. n : reached[k] = IF k = 0 THEN first ELSE More(reached[k - 1])
    BY <1>6
  <2>2. 0 \in 0 .. n /\ \A k \in 1 .. n : k \in 0 .. n /\ k # 0
    BY <1>0
  <2> QED
    BY <2>1, <2>2
<1>9. \A k \in 0 .. n : k # 0 => k - 1 \in 0 .. n /\ k \in 1 .. n /\ k - 1 < k
  BY <1>0
<1> HIDE DEF F
<1> DEFINE Good(k) == /\ reached[k] \in S
                      /\ \A e \in 0 .. k : reached[e] \subseteq reached[k]
                      /\ \A a \in reached[k] : a <= k => a \in reached[a]
           U == {k \in 0 .. n : ~Good(k)}
<1>10. ASSUME NEW k \in U  PROVE \E j \in U : j < k
  <2>1. k \in 0 .. n /\ ~Good(k)
    OBVIOUS
  <2>2. Good(0)
    <3>1. reached[0] \in S
      BY <1>1, <1>8
    <3>2. \A e \in 0 .. 0 : e = 0
      OBVIOUS
    <3>3. \A a \in reached[0] : a \in 0 .. n - 1
      BY <3>1 DEF S, all
    <3>4. \A a \in reached[0] : a <= 0 => a = 0
      BY <3>3, <1>0
    <3> QED
      BY <3>1, <3>2, <3>4
  <2>3. k # 0
    <3> HIDE DEF Good
    <3> QED
      BY <2>1, <2>2
  <2>4. k - 1 \in 0 .. n /\ k \in 1 .. n /\ k - 1 < k
    BY <2>1, <2>3, <1>9
  <2>5. ASSUME Good(k - 1)  PROVE Good(k)
    <3> DEFINE old == reached[k - 1]
    <3>1. /\ old \in S
          /\ \A e \in 0 .. k - 1 : reached[e] \subseteq old
          /\ \A a \in old : a <= k - 1 => a \in reached[a]
      BY <2>5
    <3>2. reached[k] = More(old)
      BY <2>4, <1>8
    <3> HIDE DEF old, Good
    <3>3. reached[k] \in S /\ old \subseteq reached[k]
      BY <3>1, <3>2, <1>2
    <3>4. ASSUME NEW e \in 0 .. k  PROVE reached[e] \subseteq reached[k]
      <4>1. CASE e = k
        BY <4>1
      <4>2. CASE e # k
        <5>1. e \in 0 .. k - 1
          BY <4>2, <2>4
        <5> QED
          BY <5>1, <3>1, <3>3
      <4> QED
        BY <4>1, <4>2
    <3>5. ASSUME NEW a \in reached[k], a <= k  PROVE a \in reached[a]
      <4>1. a \in 0 .. n - 1
        BY <3>3 DEF S, all
      <4>2. CASE a = k
        BY <4>2, <3>5
      <4>3. CASE a # k
        <5>1. a <= k - 1
          BY <4>1, <4>3, <3>5, <2>4, <1>0
        <5>2. CASE a \in old
          BY <5>1, <5>2, <3>1
        <5>3. CASE a \notin old
          <6>1. PICK b \in old : a \in After(c, b)
            BY <5>3, <3>1, <3>2, <3>5, <1>2
          <6>2. b \in 0 .. n - 1
            BY <3>1 DEF S, all
          <6>3. b \in Nat /\ Inside(c, b)
            BY <6>2, <1>0 DEF Inside, n
          <6>4. b < a
            BY <6>1, <6>3, AfterIs
          <6>5. b \in reached[b]
            <7>1. b <= k - 1
              BY <5>1, <6>2, <6>4, <4>1, <2>4, <1>0
            <7> QED
              BY <7>1, <6>1, <3>1
          <6>6. a \in reached[b + 1]
            <7>1. b \in 0 .. k - 1 /\ b + 1 \in 1 .. n /\ (b + 1) - 1 = b
              BY <5>1, <6>2, <6>4, <4>1, <2>4, <1>0
            <7>2. reached[b + 1] = More(reached[b])
              BY <7>1, <1>8
            <7>3. reached[b] \in S
              BY <7>1, <3>1 DEF S
            <7>4. a \in After(c, b) \cap all
              BY <6>1, <4>1 DEF all
            <7> QED
              BY <7>2, <7>3, <7>4, <6>5, <1>2
          <6> QED
            BY <6>6, <6>4, <6>2, <4>1, <5>1, <3>1
        <5> QED
          BY <5>2, <5>3
      <4> QED
        BY <4>2, <4>3
    <3> QED
      BY <3>3, <3>4, <3>5 DEF Good
  <2>6. k - 1 \in U
    <3> HIDE DEF Good
    <3> QED
      BY <2>1, <2>4, <2>5
  <2> HIDE DEF U
  <2> QED
    BY <2>4, <2>6
<1>11. U = {}
  <2>1. U \subseteq Nat
    BY <1>0
  <2> HIDE DEF U
  <2> QED
    BY <2>1, <1>10, NoDescent
<1>12. \A k \in 0 .. n : Good(k)
  <2> HIDE DEF Good
  <2> QED
    BY <1>11
<1> HIDE DEF U
<1>13. reached[n] \subseteq all /\ n \in 0 .. n
  BY <1>0, <1>12 DEF S
<1>14. n > 0 => 0 \in reached[n]
  BY <1>0, <1>1, <1>8, <1>12
<1>15. ASSUME NEW a \in reached[n]  PROVE After(c, a) \cap all \subseteq reached[n]
  <2>1. a \in 0 .. n - 1
    BY <1>13 DEF all
  <2>2. a \in reached[a]
    BY <2>1, <1>0, <1>12, <1>13
  <2>3. a \in 0 .. n /\ a + 1 \in 1 .. n /\ a + 1 \in 0 .. n /\ (a + 1) - 1 = a
    BY <2>1, <1>0
  <2>4. reached[a + 1] = More(reached[a]) /\ reached[a] \in S
    BY <2>3, <1>8, <1>12
  <2>5. After(c, a) \cap all \subseteq reached[a + 1]
    BY <2>2, <2>4, <1>2
  <2>6. reached[a + 1] \subseteq reached[n]
    BY <2>3, <1>12, <1>13
  <2> QED
    BY <2>5, <2>6
<1> HIDE DEF Good
<1> QED
  BY <1>7, <1>13, <1>14, <1>15 DEF n, all

LEMMA DropDeadKeep ==
  ASSUME NEW c \in Seq(Instruction)
  PROVE  /\ DropDead(c) \in Seq(Instruction)
         /\ \A p, r : From(DropDead(c), p, 0, r) = From(c, p, 0, r)
<1> DEFINE n == Len(c)
           all == 0 .. n - 1
           removed == all \ Reachable(c)
           Live == Reachable(c) \cup {a \in Nat : a >= n}
<1>0. n \in Nat
  OBVIOUS
<1>1. /\ Reachable(c) \subseteq all
      /\ n > 0 => 0 \in Reachable(c)
      /\ \A a \in Reachable(c) : After(c, a) \cap all \subseteq Reachable(c)
  BY ReachableIs
<1>2. DropDead(c) = DropInsns(c, removed)
  BY DEF DropDead
<1>3. 0 \in Live
  BY <1>0, <1>1
<1>4. Closed(c, removed, Live)
  <2>1. ASSUME NEW a \in Live, Inside(c, a)
        PROVE  /\ a \notin removed
               /\ c[a + 1].class # "ret" => \A r : a + 1 + Skips(c[a + 1], r) \in Live
    <3>1. a \in Nat /\ a \in all /\ a \in Reachable(c)
      BY <2>1, <1>0 DEF Inside
    <3>2. ASSUME c[a + 1].class # "ret", NEW r  PROVE a + 1 + Skips(c[a + 1], r) \in Live
      <4> DEFINE b == a + 1 + Skips(c[a + 1], r)
      <4>1. b \in After(c, a) /\ b \in Nat
        BY <2>1, <3>1, <3>2, AfterIs
      <4> HIDE DEF b
      <4>2. b >= n \/ b \in all
        BY <4>1, <1>0
      <4>3. b \in all => b \in Reachable(c)
        BY <4>1, <3>1, <1>1
      <4>4. b \in Live
        BY <4>1, <4>2, <4>3
      <4> QED
        BY <4>4 DEF b
    <3> QED
      BY <3>1, <3>2
  <2>2. \A a \in Nat : a >= n => a \in Live
    OBVIOUS
  <2> HIDE DEF Live, removed
  <2> QED
    BY <2>1, <2>2 DEF Closed, n
<1>5. removed \subseteq 0 .. Len(c) - 1
  OBVIOUS
<1> HIDE DEF removed, Live
<1>6. /\ DropInsns(c, removed) \in Seq(Instruction)
      /\ \A p, r : From(DropInsns(c, removed), p, 0, r) = From(c, p, 0, r)
  BY <1>3, <1>4, <1>5, DropInsnsKeep
<1> QED
  BY <1>2, <1>6

-----------------------------------------------------------------------------
(* The optimiser                                                           *)

(* Whatever program it is given, on whatever packet, Optimize returns one  *)
(* that gives the same answer.                                             *)
THEOREM OptimizeKeepsAnswers ==
  ASSUME NEW c \in Seq(Instruction)
  PROVE  /\ Optimize(c) \in Seq(Instruction)
         /\ \A p : Execute(Optimize(c), p) = Execute(c, p)
<1> DEFINE c1 == RemoveNoops(c)
           c2 == ThreadJumps(c1)
           c3 == DropDead(c2)
           c4 == ThreadJumps(c3)
           r0 == Start.regs
<1>1. c1 \in Seq(Instruction) /\ \A p, r : From(c1, p, 0, r) = From(c, p, 0, r)
  BY RemoveNoopsKeep
<1> HIDE DEF c1
<1>2. c2 \in Seq(Instruction) /\ \A p, r : From(c2, p, 0, r) = From(c1, p, 0, r)
  BY <1>1, ThreadJumpsKeep
<1> HIDE DEF c2
<1>3. c3 \in Seq(Instruction) /\ \A p, r : From(c3, p, 0, r) = From(c2, p, 0, r)
  BY <1>2, DropDeadKeep
<1> HIDE DEF c3
<1>4. c4 \in Seq(Instruction) /\ \A p, r : From(c4, p, 0, r) = From(c3, p, 0, r)
  BY <1>3, ThreadJumpsKeep
<1> HIDE DEF c4
<1>5. Optimize(c) = c4
  BY DEF Optimize, c1, c2, c3, c4
<1>6. \A d, p : Execute(d, p) = From(d, p, 0, r0)
  <2>1. Start = At(0, r0)
    BY DEF Start, At
  <2> QED
    BY <2>1 DEF Execute, From
<1> QED
  BY <1>1, <1>2, <1>3, <1>4, <1>5, <1>6

(* No packet's answer changes when the program is optimised: whatever      *)
(* programs were handed over, until one is attached it is a sequence of    *)
(* instructions.                                                           *)
WellFormed == stage \in {"compiled", "optimised"} => code \in Seq(Instruction)

THEOREM OptimizerCorrect == LoadSpec => OptimizerKeepsAnswers
<1>1. LoadInit => WellFormed
  BY ProgramsAssumption DEF LoadInit, WellFormed
<1>2. WellFormed /\ [LoadNext]_loadVars => WellFormed'
  <2> SUFFICES ASSUME WellFormed, [LoadNext]_loadVars  PROVE WellFormed'
    OBVIOUS
  <2>1. CASE OptimizeCode
    BY <2>1, OptimizeKeepsAnswers DEF OptimizeCode, WellFormed
  <2>2. CASE Attach
    BY <2>2 DEF Attach, WellFormed
  <2>3. ASSUME NEW p \in Packets, Receive(p)  PROVE WellFormed'
    BY <2>3 DEF Receive, WellFormed
  <2>4. CASE UNCHANGED loadVars
    BY <2>4 DEF loadVars, WellFormed
  <2> QED
    BY <2>1, <2>2, <2>3, <2>4 DEF LoadNext
<1>3. WellFormed /\ [LoadNext]_loadVars =>
        [stage' = "optimised" =>
           \A p \in Packets : Execute(code', p) = Execute(code, p)]_loadVars
  <2> SUFFICES ASSUME WellFormed, LoadNext, stage' = "optimised"
               PROVE  \A p \in Packets : Execute(code', p) = Execute(code, p)
    OBVIOUS
  <2>1. CASE OptimizeCode
    BY <2>1, OptimizeKeepsAnswers DEF OptimizeCode, WellFormed
  <2>2. CASE Attach
    BY <2>2 DEF Attach
  <2>3. ASSUME NEW p \in Packets, Receive(p)  PROVE FALSE
    BY <2>3 DEF Receive
  <2> QED
    BY <2>1, <2>2, <2>3 DEF LoadNext
<1> QED
  BY <1>1, <1>2, <1>3, PTL DEF LoadSpec, OptimizerKeepsAnswers

-----------------------------------------------------------------------------
(* Packing for the kernel                                                  *)

(* Bytes hold the distances of an encodable program.                       *)
LEMMA FprogKeeps ==
  ASSUME NEW c \in Seq(Instruction), Encodable(c)
  PROVE  LET d == Fprog(c)
         IN  /\ d \in Seq(Instruction) /\ Len(d) = Len(c)
             /\ \A a \in Nat : Inside(c, a) =>
                  /\ Inside(d, a) /\ d[a + 1].class = c[a + 1].class /\ d[a + 1].k = c[a + 1].k
                  /\ \A r, p : /\ Stops(d[a + 1], r, p) = Stops(c[a + 1], r, p)
                               /\ Effect(d[a + 1], r, p) = Effect(c[a + 1], r, p)
                  /\ \A r : Skips(d[a + 1], r) = Skips(c[a + 1], r)
<1> DEFINE B == MaxOffset + 1
           Cut(i) == IF IsJa(i) THEN i ELSE [i EXCEPT !.jt = @ % B, !.jf = @ % B]
           d == [n \in 1 .. Len(c) |-> Cut(c[n])]
<1>1. Fprog(c) = d
  BY DEF Fprog
<1>2. B \in Nat /\ B > 0 /\ \A x \in 0 .. MaxOffset : x % B = x
  BY MaxOffsetAssumption
<1> HIDE DEF B
<1>3. ASSUME NEW i \in Instruction
      PROVE  /\ Cut(i) \in Instruction /\ Cut(i).class = i.class /\ Cut(i).op = i.op
             /\ Cut(i).size = i.size /\ Cut(i).src = i.src /\ Cut(i).k = i.k
             /\ IsJa(i) => Cut(i).jt = i.jt
             /\ (i.jt \in 0 .. MaxOffset /\ i.jf \in 0 .. MaxOffset) =>
                  (Cut(i).jt = i.jt /\ Cut(i).jf = i.jf)
  <2>1. \A x \in Nat : x % B \in Nat
    BY <1>2
  <2>2. i.jt % B \in Nat /\ i.jf % B \in Nat
    BY <2>1 DEF Instruction
  <2> QED
    BY <1>2, <2>2 DEF Instruction
<1> HIDE DEF Cut
<1>4. d \in Seq(Instruction) /\ Len(d) = Len(c)
  <2>1. d \in [1 .. Len(c) -> Instruction]
    BY <1>3
  <2> HIDE DEF d
  <2> QED
    BY <2>1
<1>5. ASSUME NEW a \in Nat, Inside(c, a)
      PROVE  /\ Inside(d, a) /\ d[a + 1].class = c[a + 1].class /\ d[a + 1].k = c[a + 1].k
             /\ \A r, p : /\ Stops(d[a + 1], r, p) = Stops(c[a + 1], r, p)
                          /\ Effect(d[a + 1], r, p) = Effect(c[a + 1], r, p)
             /\ \A r : Skips(d[a + 1], r) = Skips(c[a + 1], r)
  <2> DEFINE i == c[a + 1]
             j == d[a + 1]
  <2>1. i \in Instruction /\ a < Len(c) /\ Len(c) \in Nat /\ a + 1 \in 1 .. Len(c)
    BY <1>5, InstructionAt
  <2>2. j = Cut(i)
    BY <2>1
  <2>3. Inside(d, a)
    BY <2>1, <1>4 DEF Inside
  <2>4. IsJump(i) /\ ~IsJa(i) => i.jt \in 0 .. MaxOffset /\ i.jf \in 0 .. MaxOffset
    BY <2>1 DEF Encodable
  <2> HIDE DEF d, i, j
  <2>5. /\ j.class = i.class /\ j.op = i.op /\ j.size = i.size /\ j.src = i.src /\ j.k = i.k
        /\ IsJa(i) => j.jt = i.jt
        /\ IsJump(i) /\ ~IsJa(i) => j.jt = i.jt /\ j.jf = i.jf
    BY <2>1, <2>2, <2>4, <1>3
  <2>6. IsJump(j) = IsJump(i) /\ IsJa(j) = IsJa(i)
    BY <2>5 DEF IsJump, IsJa
  <2>7. ASSUME NEW r
        PROVE  LoadOffset(j, r) = LoadOffset(i, r) /\ Operand(j, r) = Operand(i, r)
    BY <2>5 DEF LoadOffset, Operand
  <2>8. ASSUME NEW r, NEW p
        PROVE  Stops(j, r, p) = Stops(i, r, p) /\ Effect(j, r, p) = Effect(i, r, p)
    <3>1. Stops(j, r, p) = Stops(i, r, p)
      BY <2>5, <2>7 DEF Stops
    <3>2. Effect(j, r, p) = Effect(i, r, p)
      BY <2>5, <2>7 DEF Effect
    <3> QED
      BY <3>1, <3>2
  <2>9. ASSUME NEW r  PROVE Skips(j, r) = Skips(i, r)
    <3>1. Holds(j.op, r.A, Operand(j, r)) = Holds(i.op, r.A, Operand(i, r))
      BY <2>5, <2>7
    <3>2. CASE ~IsJump(i)
      BY <3>2, <2>6 DEF Skips
    <3>3. CASE IsJa(i)
      BY <3>3, <2>5, <2>6 DEF Skips
    <3>4. CASE IsJump(i) /\ ~IsJa(i)
      BY <3>1, <3>4, <2>5, <2>6 DEF Skips
    <3> QED
      BY <3>2, <3>3, <3>4
  <2> QED
    BY <2>3, <2>5, <2>8, <2>9 DEF i, j
<1> HIDE DEF d
<1> QED
  BY <1>1, <1>4, <1>5

LEMMA FprogKeepsAnswers ==
  ASSUME NEW c \in Seq(Instruction), Encodable(c), NEW p
  PROVE  Execute(Fprog(c), p) = Execute(c, p)
<1> DEFINE d == Fprog(c)
           n == Len(c)
           Differ(a, r) == From(d, p, a, r) # From(c, p, a, r)
           Bad == {a \in 0 .. n : \E r : Differ(a, r)}
<1>1. /\ n \in Nat /\ d \in Seq(Instruction) /\ Len(d) = n
      /\ \A a \in Nat : Inside(c, a) =>
           /\ Inside(d, a) /\ d[a + 1].class = c[a + 1].class /\ d[a + 1].k = c[a + 1].k
           /\ \A r, q : /\ Stops(d[a + 1], r, q) = Stops(c[a + 1], r, q)
                        /\ Effect(d[a + 1], r, q) = Effect(c[a + 1], r, q)
           /\ \A r : Skips(d[a + 1], r) = Skips(c[a + 1], r)
  <2>1. n \in Nat
    OBVIOUS
  <2> QED
    BY <2>1, FprogKeeps
<1> HIDE DEF d, Differ
<1>2. ASSUME NEW a \in Nat, NEW r, Differ(a, r)
      PROVE  a \in Bad /\ Inside(c, a)
  <2>1. ~(a >= n)
    BY <1>1, <1>2, FromOutside DEF Differ
  <2> QED
    BY <1>1, <1>2, <2>1 DEF Inside
<1>3. ASSUME NEW a \in Bad  PROVE \E e \in Bad : e > a
  <2>1. PICK r : Differ(a, r)
    OBVIOUS
  <2>2. a \in Nat
    OBVIOUS
  <2> HIDE DEF Bad
  <2>3. Inside(c, a)
    BY <1>2, <2>1, <2>2
  <2> DEFINE s == Effect(c[a + 1], r, p)
             x == a + 1 + Skips(c[a + 1], r)
  <2>4. ~Stops(c[a + 1], r, p)
    <3> SUFFICES ASSUME Stops(c[a + 1], r, p)  PROVE FALSE
      OBVIOUS
    <3>1. From(c, p, a, r) = IF c[a + 1].class = "ret" THEN c[a + 1].k ELSE 0
      BY <2>2, <2>3, FromStop
    <3>2. From(d, p, a, r) = IF d[a + 1].class = "ret" THEN d[a + 1].k ELSE 0
      BY <1>1, <2>2, <2>3, FromStop
    <3> QED
      BY <1>1, <2>1, <2>2, <2>3, <3>1, <3>2 DEF Differ
  <2>5. From(c, p, a, r) = From(c, p, x, s)
    BY <2>2, <2>3, <2>4, FromStep
  <2>6. From(d, p, a, r) = From(d, p, x, s)
    <3>1. /\ Inside(d, a) /\ ~Stops(d[a + 1], r, p) /\ Effect(d[a + 1], r, p) = s
          /\ a + 1 + Skips(d[a + 1], r) = x
      BY <1>1, <2>2, <2>3, <2>4
    <3>2. From(d, p, a, r) = From(d, p, a + 1 + Skips(d[a + 1], r), Effect(d[a + 1], r, p))
      BY <1>1, <2>2, <3>1, FromStep
    <3> QED
      BY <3>1, <3>2
  <2>7. x \in Nat /\ x > a
    <3>1. Skips(c[a + 1], r) \in Nat
      BY <2>2, <2>3, InstructionAt
    <3> QED
      BY <3>1, <2>2
  <2> HIDE DEF x, s
  <2>8. Differ(x, s)
    BY <2>1, <2>5, <2>6 DEF Differ
  <2> QED
    BY <1>2, <2>7, <2>8
<1>4. Bad = {}
  <2>1. Bad \subseteq 0 .. n
    OBVIOUS
  <2> HIDE DEF Bad
  <2> QED
    BY <1>1, <1>3, <2>1, NoAscent
<1>5. Start = At(0, Start.regs)
  BY DEF Start, At
<1> DEFINE r0 == Start.regs
<1>6. ~Differ(0, r0)
  <2> HIDE DEF Bad, r0
  <2> QED
    BY <1>2, <1>4
<1>7. \A e : Execute(e, p) = From(e, p, 0, r0)
  BY <1>5 DEF Execute, From
<1> QED
  BY <1>6, <1>7 DEF d, Differ

(* The kernel is handed a program that answers like the compiled one, if   *)
(* no optimised jump is longer than its byte (Peephole.py:17-18,           *)
(* Fprog.py:41-44).                                                        *)
THEOREM KernelAnswers ==
  ASSUME NEW c \in Seq(Instruction), Encodable(Optimize(c))
  PROVE  \A p : Execute(Fprog(Optimize(c)), p) = Execute(c, p)
<1>1. Optimize(c) \in Seq(Instruction) /\ \A p : Execute(Optimize(c), p) = Execute(c, p)
  BY OptimizeKeepsAnswers
<1>2. \A p : Execute(Fprog(Optimize(c)), p) = Execute(Optimize(c), p)
  BY <1>1, FprogKeepsAnswers
<1> QED
  BY <1>1, <1>2

=============================================================================
