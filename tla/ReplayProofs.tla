---------------------------- MODULE ReplayProofs ----------------------------
(* What holds of replay() for every set of files, loops and counts.        *)
EXTENDS Replay, SequenceTheorems, TLAPS

(* Only a thread that passed the stop test before stop_event was set can   *)
(* still send, and it has not done so yet.                                 *)
LateInv ==
  /\ late \in 0 .. 1
  /\ pc = "send" => late = 0
  /\ late = 1 => stop

LEMMA LateStep == ASSUME LateInv, [Next]_vars PROVE LateInv'
<1>1. ASSUME \/ Call \/ While \/ OpenReader \/ Load \/ NextPacket
             \/ SendRaises \/ Wake
      PROVE LateInv'
  BY <1>1 DEF LateInv, Call, While, OpenReader, Load, NextPacket, SendRaises,
              Wake, Goto
<1>2. CASE Test
  BY <1>2 DEF LateInv, Test, Goto
<1>3. CASE Send
  <2>1. late = 0 /\ pc' = "sleep" /\ stop' = stop
    BY <1>3 DEF Send, Goto, LateInv
  <2>2. late' = IF stop THEN Least(1, MaxSent) ELSE 0
    BY <1>3, <2>1 DEF Send
  <2>3. Least(1, MaxSent) \in 0 .. 1
    BY ReplayAssumption DEF ReplayAssumption, Least
  <2> QED BY <2>1, <2>2, <2>3 DEF LateInv
<1>4. CASE SetStop
  BY <1>4 DEF LateInv, SetStop
<1>5. CASE Rewrite
  BY <1>5 DEF LateInv, Rewrite
<1>6. CASE UNCHANGED vars
  BY <1>6 DEF LateInv, vars
<1> QED BY <1>1, <1>2, <1>3, <1>4, <1>5, <1>6 DEF Next, Step

(* LateCorrect: at most one packet is sent after stop_event is set, for    *)
(* every file, however it is rewritten, and every `loop` and `count`.      *)
THEOREM LateCorrect == Spec => []LateSend
<1>1. Init => LateInv
  BY DEF Init, LateInv
<1>2. LateInv /\ [Next]_vars => LateInv'
  BY LateStep
<1>3. LateInv => LateSend
  BY DEF LateInv, LateSend
<1> QED BY <1>1, <1>2, <1>3, PTL DEF Spec

-----------------------------------------------------------------------------
(* Types.  replay() only takes a packet from a reader that has one.        *)
TypeInv == TypeOK /\ (pc \in {"test", "send"} => left # <<>>)

LEMMA YieldType ==
  ASSUME NEW f \in FileType, NEW k
  PROVE  Yield(k, f) \in 0 .. f.n /\ f.n \in Nat
BY DEF FileType, Yield

LEMMA PacketsType ==
  ASSUME NEW f \in FileType, NEW v \in Nat
  PROVE  /\ Packets(f, v) \in Seq(Nat \X Nat)
         /\ Len(Packets(f, v)) = f.n
         /\ \A i \in 1 .. f.n : Packets(f, v)[i] = <<v, i>>
<1>1. f.n \in Nat
  BY DEF FileType
<1>2. \A i \in 1 .. f.n : <<v, i>> \in Nat \X Nat
  BY <1>1
<1> QED
  BY <1>1, <1>2 DEF Packets

LEMMA PartType ==
  ASSUME NEW S, NEW s \in Seq(S), NEW m \in 1 .. Len(s) + 1, NEW n \in 0 .. Len(s)
  PROVE  SubSeq(s, m, n) \in Seq(S)
BY SubSeqProperties

(* The packets the reader of this pass has or will have, as things are.    *)
Ahead == left \o todo

(* A chunk moves packets from the file into the reader's hands.            *)
LEMMA ChunkConcat ==
  ASSUME NEW S, NEW s \in Seq(S), NEW t \in Seq(S), NEW n \in 1 .. Len(t)
  PROVE  LET a == SubSeq(t, 1, n)
             b == SubSeq(t, n + 1, Len(t))
         IN  /\ s \o a \in Seq(S) /\ b \in Seq(S)
             /\ Len(s \o a) > 0
             /\ (s \o a) \o b = s \o t
<1> DEFINE a == SubSeq(t, 1, n)
           b == SubSeq(t, n + 1, Len(t))
<1>1. a \in Seq(S) /\ b \in Seq(S) /\ Len(a) = n
  <2>1. n \in 0 .. Len(t) /\ 1 \in 1 .. Len(t) + 1
    OBVIOUS
  <2>2. n + 1 \in 1 .. Len(t) + 1 /\ Len(t) \in 0 .. Len(t)
    OBVIOUS
  <2> QED
    BY <2>1, <2>2, PartType
<1>2. a \o b = t
  BY ConcatAdjacentSubSeq, SubSeqFull
<1> HIDE DEF a, b
<1>3. (s \o a) \o b = s \o (a \o b)
  BY <1>1, SMTT(30)
<1>4. s \o a \in Seq(S) /\ Len(s \o a) = Len(s) + n
  BY <1>1, ConcatProperties
<1>5. Len(s \o a) > 0
  BY <1>1, <1>4
<1>6. (s \o a) \o b = s \o t
  BY <1>2, <1>3
<1> QED
  BY <1>1, <1>4, <1>5, <1>6 DEF a, b

LEMMA FillStep ==
  ASSUME NEW S, left \in Seq(S), todo \in Seq(S), Fill
  PROVE  /\ left' \in Seq(S) /\ todo' \in Seq(S)
         /\ left' # <<>> /\ Ahead' = Ahead
<1>1. PICK n \in 1 .. Len(todo) :
        /\ left' = left \o SubSeq(todo, 1, n)
        /\ todo' = SubSeq(todo, n + 1, Len(todo))
  BY DEF Fill
<1>2. /\ left' \in Seq(S) /\ todo' \in Seq(S) /\ Len(left') > 0
      /\ left' \o todo' = left \o todo
  BY <1>1, ChunkConcat, ZenonT(40)
<1> QED
  BY <1>2 DEF Ahead

LEMMA TypeInit == Init => TypeInv
<1> SUFFICES ASSUME Init PROVE TypeInv
  OBVIOUS
<1>1. /\ left = <<>> /\ todo = <<>> /\ out = <<>> /\ mixed \in BOOLEAN
      /\ <<>> \in Seq(Nat \X Nat)
  BY EmptySeq DEF Init
<1>2. opened \in [file : Files, version : 0 .. Rewrites]
  BY ReplayAssumption DEF Init
<1>3. /\ file \in Files /\ version \in 0 .. Rewrites
      /\ pass \in 0 .. MaxPass /\ sent \in 0 .. MaxSent /\ late \in 0 .. MaxSent
  BY ReplayAssumption DEF Init
<1>4. /\ kind \in {"pcap", "lightbin", "pcapng", "unknown"}
      /\ loop \in Loops /\ count \in Counts
      /\ watched \in BOOLEAN /\ stop \in BOOLEAN
      /\ pc = "out" /\ ending \in {"end", "raise"}
  BY DEF Init
<1> QED
  BY <1>1, <1>2, <1>3, <1>4 DEF TypeInv, TypeOK, PCs

LEMMA LeftoversType ==
  ASSUME NEW f \in FileType, NEW v \in Nat, NEW q \in Leftovers(f, v)
  PROVE  q \in Seq(Nat \X Nat)
<1> DEFINE g == [f EXCEPT !.hurt = "no"]
           n == Yield(kind, g)
           ps == Packets(f, v)
<1>1. n \in 0 .. f.n /\ ps \in Seq(Nat \X Nat) /\ Len(ps) = f.n /\ f.n \in Nat
  <2>1. g \in FileType /\ g.n = f.n
    BY DEF FileType
  <2> QED
    BY <2>1, YieldType, PacketsType
<1> HIDE DEF n, ps
<1>2. ASSUME NEW from \in 1 .. n + 1, NEW to \in 0 .. n
      PROVE  SubSeq(ps, from, to) \in Seq(Nat \X Nat)
  <2>1. from \in 1 .. Len(ps) + 1 /\ to \in 0 .. Len(ps)
    BY <1>1
  <2> QED
    BY <1>1, <2>1, PartType
<1>3. <<Torn(v)>> \in Seq(Nat \X Nat)
  BY DEF Torn
<1> DEFINE Runs == {SubSeq(ps, from, to) : from \in 1 .. n + 1, to \in 0 .. n}
<1>a. ASSUME NEW r \in Runs PROVE r \in Seq(Nat \X Nat)
  <2>1. PICK from \in 1 .. n + 1, to \in 0 .. n : r = SubSeq(ps, from, to)
    BY <1>a
  <2> QED
    BY <1>2, <2>1
<1>b. Leftovers(f, v) = Runs \cup {<<Torn(v)>> \o r : r \in Runs}
  BY DEF Leftovers, n, ps, g
<1> HIDE DEF Runs
<1>4. q \in Runs \/ \E r \in Runs : q = <<Torn(v)>> \o r
  BY <1>b
<1>5. ASSUME NEW r \in Runs PROVE <<Torn(v)>> \o r \in Seq(Nat \X Nat)
  BY <1>3, <1>a, ConcatProperties
<1> QED
  BY <1>4, <1>5, <1>a

LEMMA TypeStep == TypeInv /\ [Next]_vars => TypeInv'
<1> SUFFICES ASSUME TypeInv, [Next]_vars PROVE TypeInv'
  OBVIOUS
<1> USE ReplayAssumption DEF TypeInv, TypeOK, PCs, Goto, argVars, readVars
<1>1. CASE Call
  BY <1>1 DEF Call, Detect
<1>2. CASE While
  <2>1. pass' \in 0 .. MaxPass
    BY <1>2 DEF While, Least
  <2> QED
    BY <1>2, <2>1 DEF While
<1>3. CASE OpenReader
  <2>1. opened' \in [file : Files, version : 0 .. Rewrites] /\ out' = <<>>
        /\ mixed' = FALSE /\ left' = <<>>
    BY <1>3 DEF OpenReader
  <2>2. todo' \in Seq(Nat \X Nat) /\ ending' \in {"end", "raise"}
    <3>1. file \in FileType /\ version \in Nat
      OBVIOUS
    <3> DEFINE ps == Packets(file, version)
               n  == Yield(kind, file)
    <3>2. ps \in Seq(Nat \X Nat) /\ n \in 0 .. Len(ps)
      BY <3>1, YieldType, PacketsType
    <3> HIDE DEF ps, n
    <3>3. SubSeq(ps, 1, n) \in Seq(Nat \X Nat)
      BY <3>2, PartType
    <3> QED
      BY <1>3, <3>3 DEF OpenReader, EndOf, ps, n
  <2>3. pc' \in {"load", "next", "raised"}
    BY <1>3 DEF OpenReader
  <2>4. UNCHANGED <<file, version, argVars, stop, pass, sent, late>>
    BY <1>3 DEF OpenReader
  <2>5. left' \in Seq(Nat \X Nat) /\ out' \in Seq(Nat \X Nat)
    BY <2>1, EmptySeq
  <2>6. /\ opened' \in [file : Files, version : 0 .. Rewrites] /\ mixed' \in BOOLEAN
        /\ pc' \in PCs /\ pc' \notin {"test", "send"}
    BY <2>1, <2>3
  <2>7. /\ file' \in Files /\ version' \in 0 .. Rewrites
        /\ kind' \in {"pcap", "lightbin", "pcapng", "unknown"}
        /\ loop' \in Loops /\ count' \in Counts
        /\ watched' \in BOOLEAN /\ stop' \in BOOLEAN
        /\ pass' \in 0 .. MaxPass /\ sent' \in 0 .. MaxSent /\ late' \in 0 .. MaxSent
    BY <2>4
  <2> HIDE DEF PCs
  <2> QED
    BY <2>2, <2>5, <2>6, <2>7
<1>4. CASE Load \/ NextPacket
  <2>1. /\ UNCHANGED <<file, version, argVars, stop, pass, sent, ending, opened,
                       mixed, out, late>>
        /\ pc \in {"load", "next"}
        /\ pc' \in {"load", "next", "test", "while", "raised"}
        /\ pc' = "test" => left # <<>> /\ left' = left
        /\ Fill \/ UNCHANGED <<left, todo>>
    BY <1>4, SMTT(30) DEF Load, NextPacket
  <2>2. left' \in Seq(Nat \X Nat) /\ todo' \in Seq(Nat \X Nat)
    BY <2>1, FillStep
  <2> QED
    BY <2>1, <2>2
<1>5. CASE Test
  BY <1>5 DEF Test
<1>6. CASE Send
  <2>1. Head(left) \in Nat \X Nat /\ Tail(left) \in Seq(Nat \X Nat)
    BY <1>6, HeadTailProperties DEF Send
  <2>2. sent' \in 0 .. MaxSent /\ late' \in 0 .. MaxSent
    BY <1>6 DEF Send, Least
  <2>3. left' \in Seq(Nat \X Nat) /\ out' \in Seq(Nat \X Nat)
    BY <1>6, <2>1 DEF Send
  <2> QED
    BY <1>6, <2>2, <2>3 DEF Send
<1>7. CASE SendRaises \/ Wake \/ SetStop \/ UNCHANGED vars
  BY <1>7, ZenonT(40) DEF SendRaises, Wake, SetStop, vars
<1>8. CASE Rewrite
  <2>1. PICK f \in Files :
          /\ file' = f
          /\ \/ Reading /\ todo' \in Leftovers(f, version') /\ UNCHANGED left
             \/ Reading /\ kind \in {"pcap", "unknown"} /\ left' = <<>> /\ todo' = <<>>
             \/ UNCHANGED <<left, todo>>
    BY <1>8 DEF Rewrite
  <2>2. version' \in 0 .. Rewrites /\ f \in FileType
    BY <1>8 DEF Rewrite
  <2>a. <<>> \in Seq(Nat \X Nat) /\ \A q \in Leftovers(f, version') : q \in Seq(Nat \X Nat)
    BY <2>2, EmptySeq, LeftoversType
  <2>3. todo' \in Seq(Nat \X Nat)
    BY <2>1, <2>a
  <2>4. left' \in Seq(Nat \X Nat) /\ (pc \in {"test", "send"} => left' # <<>>)
    BY <2>1, <2>a DEF Reading
  <2>5. ending' \in {"end", "raise"} /\ mixed' \in BOOLEAN
    BY <1>8 DEF Rewrite, Reading
  <2>6. UNCHANGED <<argVars, stop, pc, pass, sent, opened, out, late>>
    BY <1>8 DEF Rewrite
  <2> QED
    BY <2>1, <2>2, <2>3, <2>4, <2>5, <2>6
<1> QED
  BY <1>1, <1>2, <1>3, <1>4, <1>5, <1>6, <1>7, <1>8 DEF Next, Step

LEMMA TypeInvariant == Spec => []TypeInv
BY TypeInit, TypeStep, PTL DEF Spec

(* TypeCorrect: every variable keeps its type, whatever the file becomes;  *)
(* Head(left) in Send is always a packet.                                  *)
THEOREM TypeCorrect == Spec => []TypeOK
BY TypeInvariant, PTL DEF TypeInv

-----------------------------------------------------------------------------
(* One pass.  Unless the file was rewritten while the reader read it, the  *)
(* packets sent, those the reader has and those it has yet to read make up *)
(* the file it opened, in order.                                           *)
MidPass == pc \in {"load", "next", "test", "send", "sleep"}

Sent == \A i \in DOMAIN out : out[i] = <<opened.version, i>>

PassInv ==
  /\ opened.version <= version
  /\ opened.version = version => opened.file = file
  /\ mixed => version > 0
  /\ pc = "out" => pass = 0
  /\ count # 0 => Len(out) <= count
  /\ count # 0 /\ pc = "send" => Len(out) < count
  /\ ~mixed /\ MidPass =>
       /\ Sent
       /\ Len(out) + Len(Ahead) = Yield(kind, opened.file)
       /\ \A i \in DOMAIN Ahead : Ahead[i] = <<opened.version, Len(out) + i>>
  /\ ~mixed /\ pc = "while" /\ pass > 0 =>
       Sent /\ Len(out) = Share(opened.file)

(* Sending a packet takes it from the front of what is ahead.              *)
LEMMA SendAhead ==
  ASSUME NEW S, left \in Seq(S), todo \in Seq(S), left # <<>>,
         left' = Tail(left), todo' = todo
  PROVE  /\ Len(Ahead) > 0 /\ Head(left) = Ahead[1]
         /\ Len(Ahead') = Len(Ahead) - 1
         /\ \A i \in 1 .. Len(Ahead) - 1 : Ahead'[i] = Ahead[i + 1]
<1> DEFINE l == Len(left)
           t == Len(todo)
           w == Tail(left)
<1>1. /\ l \in Nat /\ l > 0 /\ t \in Nat /\ Head(left) = left[1]
      /\ w \in Seq(S) /\ Len(w) = l - 1
      /\ \A i \in 1 .. l - 1 : w[i] = left[i + 1]
  BY HeadTailProperties
<1>2. /\ Len(Ahead) = l + t
      /\ \A i \in 1 .. l + t : Ahead[i] = IF i <= l THEN left[i] ELSE todo[i - l]
  BY ConcatProperties DEF Ahead
<1>3. Ahead' = w \o todo
  BY DEF Ahead
<1> HIDE DEF w
<1>6. Len(w) = l - 1 /\ w \in Seq(S)
  BY <1>1 DEF l
<1>4. /\ Len(Ahead') = (l - 1) + t
      /\ \A i \in 1 .. (l - 1) + t :
           Ahead'[i] = IF i <= l - 1 THEN w[i] ELSE todo[i - (l - 1)]
  <2>1. /\ Len(w \o todo) = Len(w) + t
        /\ \A i \in 1 .. Len(w) + t :
             (w \o todo)[i] = IF i <= Len(w) THEN w[i] ELSE todo[i - Len(w)]
    BY <1>6, ConcatProperties
  <2> QED
    BY <1>3, <1>6, <2>1
<1> HIDE DEF l, t
<1>5. ASSUME NEW i \in 1 .. (l + t) - 1
      PROVE  Ahead'[i] = Ahead[i + 1]
  <2>1. /\ i \in 1 .. (l - 1) + t /\ i + 1 \in 1 .. l + t
        /\ i - (l - 1) = (i + 1) - l
        /\ i <= l - 1 <=> i + 1 <= l
        /\ i <= l - 1 => i \in 1 .. l - 1
    BY <1>1
  <2> QED
    BY <1>1, <1>2, <1>4, <2>1
<1> QED
  BY <1>1, <1>2, <1>4, <1>5

LEMMA PassStep == TypeInv /\ PassInv /\ [Next]_vars => PassInv'
<1> SUFFICES ASSUME TypeInv, PassInv, [Next]_vars PROVE PassInv'
  OBVIOUS
<1> USE DEF TypeInv, Goto, argVars, readVars, MidPass
<1> DEFINE y == Yield(kind, opened.file)
           lo == Len(out)
           ll == Len(Ahead)
<1>0. /\ lo \in Nat /\ ll \in Nat /\ y \in Nat /\ Ahead \in Seq(Nat \X Nat)
      /\ count \in Nat /\ version \in Nat /\ opened.version \in Nat
  <2>1. Ahead \in Seq(Nat \X Nat)
    BY ConcatProperties DEF TypeOK, Ahead
  <2> QED
    BY <2>1, ReplayAssumption, YieldType DEF TypeOK
<1>1. CASE Call
  BY <1>1 DEF Call, PassInv, Sent, Ahead
<1>2. CASE While
  <2>1. /\ UNCHANGED <<file, version, count, opened, mixed, out>>
        /\ pc' \in {"open", "returned"}
    BY <1>2 DEF While
  <2> QED
    BY <2>1 DEF PassInv
<1>3. CASE OpenReader
  <2>1. /\ opened' = [file |-> file, version |-> version] /\ out' = <<>>
        /\ mixed' = FALSE /\ left' = <<>>
        /\ UNCHANGED <<file, version, argVars, pass>>
        /\ pc' \in {"load", "next", "raised"}
        /\ pc' # "raised" =>
             todo' = SubSeq(Packets(file, version), 1, Yield(kind, file))
    BY <1>3 DEF OpenReader
  <2> DEFINE ps == Packets(file, version)
             n == Yield(kind, file)
  <2>2. /\ ps \in Seq(Nat \X Nat) /\ n \in 0 .. Len(ps)
        /\ \A i \in 1 .. n : ps[i] = <<version, i>>
    <3>1. file \in FileType /\ version \in Nat
      BY <1>0, ReplayAssumption DEF TypeOK
    <3>2. ps \in Seq(Nat \X Nat) /\ n \in 0 .. Len(ps) /\ n \in 0 .. file.n
      BY <3>1, YieldType, PacketsType
    <3>3. \A i \in 1 .. file.n : ps[i] = <<version, i>>
      BY <3>1, PacketsType
    <3>a. file.n \in Nat
      BY <3>1 DEF FileType
    <3> HIDE DEF ps, n
    <3>4. \A i \in 1 .. n : ps[i] = <<version, i>>
      BY <3>2, <3>3, <3>a
    <3> QED
      BY <3>2, <3>4
  <2> HIDE DEF ps, n
  <2>3. /\ Len(SubSeq(ps, 1, n)) = n
        /\ \A i \in 1 .. n : SubSeq(ps, 1, n)[i] = <<version, i>>
    BY <2>2
  <2>4. pc' # "raised" => Ahead' = SubSeq(ps, 1, n)
    <3>1. todo' \in Seq(Nat \X Nat)
      BY TypeStep DEF TypeOK
    <3>2. <<>> \o todo' = todo'
      BY <3>1, ConcatEmptySeq
    <3> QED
      BY <2>1, <3>2 DEF Ahead, ps, n
  <2>5. pc' # "raised" => /\ Len(out') + Len(Ahead') = Yield(kind, opened'.file)
                          /\ \A i \in DOMAIN Ahead' :
                               Ahead'[i] = <<opened'.version, Len(out') + i>>
    <3>1. Len(out') = 0
      BY <2>1
    <3>2. pc' # "raised" => DOMAIN Ahead' = 1 .. n
      BY <2>2, <2>3, <2>4
    <3>3. opened'.file = file /\ opened'.version = version
      BY <2>1
    <3>4. \A i \in 1 .. n : 0 + i = i
      BY <2>2
    <3>5. pc' # "raised" => Len(Ahead') = Yield(kind, file)
      BY <2>3, <2>4 DEF n
    <3>6. ASSUME pc' # "raised", NEW i \in 1 .. n
          PROVE  Ahead'[i] = <<opened'.version, Len(out') + i>>
      BY <2>3, <2>4, <3>1, <3>3, <3>4, <3>6
    <3>7. pc' # "raised" => Len(out') + Len(Ahead') = Yield(kind, opened'.file)
      BY <2>2, <3>1, <3>3, <3>5 DEF n
    <3> QED
      BY <3>2, <3>6, <3>7
  <2>6. Len(out') = 0
    BY <2>1
  <2>7. Sent'
    BY <2>1 DEF Sent
  <2> QED
    BY <1>0, <2>1, <2>5, <2>6, <2>7 DEF PassInv
<1>9. ASSUME UNCHANGED <<file, version, argVars, pass, opened, mixed, out>>,
             Ahead' = Ahead, MidPass, pc' \in {"load", "next", "test"}
      PROVE  PassInv'
  BY <1>9 DEF PassInv, Sent
<1>4. CASE Load \/ NextPacket
  <2>1. /\ UNCHANGED <<file, version, argVars, pass, opened, mixed, out>>
        /\ MidPass
    BY <1>4 DEF Load, NextPacket
  <2>a. /\ pc' \in {"load", "next", "test"} => Fill \/ UNCHANGED <<left, todo>>
        /\ \/ pc' \in {"load", "next", "test"}
           \/ pc' = "raised"
           \/ pc = "next" /\ left = <<>> /\ todo = <<>> /\ pc' = "while"
    BY <1>4 DEF Load, NextPacket
  <2>2. CASE pc' \in {"load", "next", "test"}
    <3>1. Fill \/ UNCHANGED <<left, todo>>
      BY <2>a, <2>2
    <3>2. Ahead' = Ahead
      <4>1. CASE Fill
        BY <4>1, FillStep DEF TypeOK
      <4>2. CASE UNCHANGED <<left, todo>>
        BY <4>2 DEF Ahead
      <4> QED
        BY <3>1, <4>1, <4>2
    <3> QED
      BY <1>9, <2>1, <2>2, <3>2
  <2>3. CASE pc = "next" /\ left = <<>> /\ todo = <<>> /\ pc' = "while"
    <3>1. Ahead = <<>>
      BY <2>3, ConcatEmptySeq DEF Ahead
    <3>2. ll = 0
      BY <3>1
    <3>3. ~mixed => Sent /\ lo + ll = y
      BY <2>3 DEF PassInv
    <3>4. count # 0 => lo <= count
      BY DEF PassInv
    <3> HIDE DEF lo, ll, y
    <3>5. ~mixed => lo = IF count = 0 THEN y ELSE Least(count, y)
      BY <1>0, <3>2, <3>3, <3>4 DEF Least
    <3>6. ~mixed => Sent' /\ Len(out') = Share(opened.file)'
      BY <2>1, <3>3, <3>5 DEF Sent, Share, lo, y
    <3> QED
      BY <2>1, <2>3, <3>6 DEF PassInv
  <2>4. CASE pc' = "raised"
    BY <2>1, <2>4 DEF PassInv
  <2> QED
    BY <2>a, <2>2, <2>3, <2>4
<1>5. CASE Test
  <2>1. UNCHANGED <<file, version, argVars, pass, readVars, out>> /\ pc = "test"
    BY <1>5 DEF Test
  <2>2. CASE pc' # "while"
    <3>1. pc' \in {"returned", "send"} /\ (pc' = "send" /\ count # 0 => ~(lo >= count))
      BY <1>5, <2>2 DEF Test
    <3> HIDE DEF lo
    <3>2. pc' = "send" /\ count # 0 => lo < count
      BY <1>0, <3>1
    <3>3. Ahead' = Ahead
      BY <2>1 DEF Ahead
    <3>4. pc' = "send" => MidPass
      BY <2>1
    <3> QED
      BY <2>1, <3>1, <3>2, <3>3, <3>4 DEF PassInv, Sent, lo
  <2>3. CASE pc' = "while"
    <3>1. count # 0 /\ lo >= count
      BY <1>5, <2>3 DEF Test
    <3>2. /\ ~mixed => Sent /\ lo + ll = y
          /\ lo <= count
      BY <2>1, <3>1 DEF PassInv
    <3> HIDE DEF lo, ll, y
    <3>3. ~mixed => lo = Least(count, y)
      BY <1>0, <3>1, <3>2 DEF Least
    <3>4. ~mixed => Sent' /\ Len(out') = Share(opened.file)'
      BY <2>1, <3>1, <3>2, <3>3 DEF Sent, Share, lo, y
    <3> QED
      BY <2>1, <2>3, <3>4 DEF PassInv
  <2> QED
    BY <2>2, <2>3
<1>6. CASE Send
  <2>1. /\ UNCHANGED <<file, version, argVars, pass, opened, mixed, todo>>
        /\ pc = "send" /\ pc' = "sleep" /\ left # <<>>
        /\ out' = Append(out, Head(left)) /\ left' = Tail(left)
    BY <1>6 DEF Send
  <2>2. /\ left \in Seq(Nat \X Nat) /\ out \in Seq(Nat \X Nat)
        /\ todo \in Seq(Nat \X Nat) /\ out' \in Seq(Nat \X Nat)
        /\ left' \in Seq(Nat \X Nat)
    BY TypeStep DEF TypeOK
  <2>3. /\ ll > 0 /\ Head(left) = Ahead[1]
        /\ Len(Ahead') = ll - 1 /\ \A i \in 1 .. ll - 1 : Ahead'[i] = Ahead[i + 1]
    BY <2>1, <2>2, SendAhead
  <2>4. ~mixed => /\ Sent /\ lo + ll = y
                  /\ \A i \in 1 .. ll : Ahead[i] = <<opened.version, lo + i>>
    <3>1. DOMAIN Ahead = 1 .. ll
      BY <1>0
    <3>2. ~mixed => /\ Sent /\ lo + ll = y
                    /\ \A i \in DOMAIN Ahead : Ahead[i] = <<opened.version, lo + i>>
      BY <2>1 DEF PassInv
    <3> QED
      BY <3>1, <3>2
  <2>5. /\ Len(out') = lo + 1 /\ out'[lo + 1] = Ahead[1]
        /\ \A i \in 1 .. lo : out'[i] = out[i]
    BY <2>1, <2>2, <2>3, HeadTailProperties, AppendProperties
  <2>6. /\ DOMAIN out = 1 .. lo /\ DOMAIN out' = 1 .. lo + 1
        /\ DOMAIN Ahead' = 1 .. ll - 1
    <3>1. Ahead' \in Seq(Nat \X Nat)
      BY <2>1, <2>2, ConcatProperties DEF Ahead
    <3> QED
      BY <2>2, <2>3, <2>5, <3>1
  <2>a. count # 0 => lo < count
    BY <2>1 DEF PassInv
  <2> HIDE DEF lo, ll, y
  <2>7. ~mixed => Sent'
    BY <1>0, <2>1, <2>3, <2>4, <2>5, <2>6 DEF Sent
  <2>8. /\ ~mixed => Len(out') + Len(Ahead') = y
        /\ count # 0 => Len(out') <= count
    <3>1. Len(out') = lo + 1 /\ Len(Ahead') = ll - 1 /\ (~mixed => lo + ll = y)
      BY <2>3, <2>4, <2>5
    <3>2. lo \in Nat /\ ll \in Nat /\ y \in Nat /\ count \in Nat
      BY <1>0
    <3> QED
      BY <2>a, <3>1, <3>2
  <2>9. ~mixed => \A i \in DOMAIN Ahead' : Ahead'[i] = <<opened.version, Len(out') + i>>
    <3>1. ASSUME ~mixed, NEW i \in 1 .. ll - 1
          PROVE  Ahead'[i] = <<opened.version, Len(out') + i>>
      <4>1. i + 1 \in 1 .. ll /\ lo + (i + 1) = Len(out') + i
        BY <1>0, <2>5
      <4> QED
        BY <2>3, <2>4, <3>1, <4>1
    <3> QED
      BY <2>6, <3>1
  <2> QED
    BY <2>1, <2>7, <2>8, <2>9 DEF PassInv, y
<1>7. CASE SendRaises \/ Wake \/ SetStop \/ UNCHANGED vars
  <2>1. /\ UNCHANGED <<file, version, argVars, pass, readVars, out>>
        /\ \/ pc' = pc
           \/ pc' = "raised"
           \/ pc = "sleep" /\ pc' = "next"
    BY <1>7 DEF SendRaises, Wake, SetStop, vars
  <2>2. Ahead' = Ahead
    BY <2>1 DEF Ahead
  <2> QED
    BY <2>1, <2>2 DEF PassInv, Sent, Share
<1>8. CASE Rewrite
  <2>1. /\ version' = version + 1 /\ pc # "out"
        /\ UNCHANGED <<argVars, pc, pass, opened, out>>
        /\ mixed' = (mixed \/ Reading)
        /\ ~Reading => UNCHANGED <<left, todo>>
    BY <1>8 DEF Rewrite, Running
  <2>2. opened.version < version' /\ version' > 0
    BY <1>0, <2>1 DEF PassInv
  <2>3. ~mixed' => ~mixed /\ Ahead' = Ahead
    BY <2>1 DEF Ahead
  <2>4. /\ opened'.version <= version'
        /\ opened'.version = version' => opened'.file = file'
    BY <1>0, <2>1, <2>2
  <2>5. Sent' <=> Sent
    BY <2>1 DEF Sent
  <2>6. /\ ~mixed' /\ MidPass' =>
             /\ Sent'
             /\ Len(out') + Len(Ahead') = Yield(kind', opened'.file)
             /\ \A i \in DOMAIN Ahead' : Ahead'[i] = <<opened'.version, Len(out') + i>>
        /\ ~mixed' /\ pc' = "while" /\ pass' > 0 =>
             Sent' /\ Len(out') = Share(opened.file)'
    BY <2>1, <2>3, <2>5 DEF PassInv, Share
  <2>7. /\ mixed' => version' > 0
        /\ pc' = "out" => pass' = 0
        /\ count' # 0 => Len(out') <= count'
        /\ count' # 0 /\ pc' = "send" => Len(out') < count'
    BY <2>1, <2>2 DEF PassInv
  <2> QED
    BY <2>4, <2>6, <2>7 DEF PassInv
<1> QED
  BY <1>1, <1>2, <1>3, <1>4, <1>5, <1>6, <1>7, <1>8 DEF Next, Step

LEMMA InitPass == Init => PassInv
<1> SUFFICES ASSUME Init PROVE PassInv
  OBVIOUS
<1>1. /\ opened = [file |-> file, version |-> 0] /\ version = 0 /\ ~mixed
      /\ pc = "out" /\ pass = 0 /\ Len(out) = 0 /\ count \in Nat
  BY ReplayAssumption DEF Init
<1> QED
  BY <1>1 DEF PassInv, MidPass

(* PassCorrect: for every set of files, however they are rewritten, a pass *)
(* sends at most `count` packets, and they are the first packets of the    *)
(* file it opened, in order, all of them or `count` when it ends, unless   *)
(* the file was rewritten while the pass was reading it: for PCAP and LBN, *)
(* that is before the pass hands out its first packet.                     *)
THEOREM PassCorrect == Spec => []PassFaithful
<1>1. Init => PassInv
  BY InitPass
<1>2. TypeInv /\ PassInv => PassFaithful
  <2> SUFFICES ASSUME TypeInv, PassInv, Running, pc \notin {"open", "load"}, pass > 0
               PROVE  /\ count # 0 => Len(out) <= count
                      /\ ~mixed => /\ Len(out) <= Share(opened.file) /\ Sent
                                   /\ pc = "while" => Len(out) = Share(opened.file)
    BY DEF PassFaithful, Sent
  <2> DEFINE y == Yield(kind, opened.file)
             lo == Len(out)
             ll == Len(Ahead)
  <2>1. lo \in Nat /\ ll \in Nat /\ y \in Nat /\ count \in Nat
    <3>1. Ahead \in Seq(Nat \X Nat)
      BY ConcatProperties DEF Ahead, TypeInv, TypeOK
    <3> QED
      BY <3>1, ReplayAssumption, YieldType DEF TypeInv, TypeOK
  <2>2. count # 0 => lo <= count
    BY DEF PassInv
  <2>3. CASE pc = "while"
    BY <2>1, <2>2, <2>3 DEF PassInv
  <2>4. CASE MidPass
    <3>1. ~mixed => Sent /\ lo + ll = y
      BY <2>4 DEF PassInv
    <3> HIDE DEF lo, ll, y
    <3>2. ~mixed => lo <= IF count = 0 THEN y ELSE Least(count, y)
      BY <2>1, <2>2, <3>1 DEF Least
    <3> QED
      BY <2>2, <2>4, <3>1, <3>2 DEF Share, MidPass, lo, y
  <2> QED
    BY <2>3, <2>4 DEF Running, MidPass, TypeInv, TypeOK, PCs
<1> QED
  BY <1>1, <1>2, TypeInvariant, PassStep, PTL DEF Spec

-----------------------------------------------------------------------------
(* The whole call, while nothing rewrites the file: `sent` is the packets  *)
(* of the passes that are over and those sent in this one.                 *)
TotalInv ==
  /\ pc = "returned" /\ ~stop => loop # 0
  /\ version = 0 /\ loop # 0 =>
       /\ pass <= loop
       /\ pc = "out" => pass = 0 /\ sent = 0
       /\ pc = "while" => sent = pass * Share(file)
       /\ pc = "open" => pass > 0 /\ sent = (pass - 1) * Share(file)
       /\ MidPass => pass > 0 /\ sent = (pass - 1) * Share(file) + Len(out)
       /\ pc = "returned" /\ ~stop => pass = loop /\ sent = pass * Share(file)

(* The bound on `sent` is out of the way of every whole call.              *)
Uncapped == \A f \in Files, l \in Loops : l * f.n <= MaxSent

LEMMA MoreLoops ==
  ASSUME NEW a \in Nat, NEW b \in Nat, NEW c \in Nat, NEW d \in Nat, a <= b, c <= d
  PROVE  a * c <= b * d
<1>1. a * c \in Nat /\ b * c \in Nat /\ b * d \in Nat
  OBVIOUS
<1>2. (b - a) * c >= 0 /\ b * (d - c) >= 0
  BY SMT
<1>3. (b - a) * c = b * c - a * c /\ b * (d - c) = b * d - b * c
  BY SMT
<1> QED
  BY <1>1, <1>2, <1>3

LEMMA OnePassMore ==
  ASSUME NEW a \in Nat, NEW c \in Nat
  PROVE  /\ 0 * c = 0 /\ ((a + 1) - 1) * c = a * c
         /\ (a - 1) * c + c = a * c
BY SMT

LEMMA ShareType == TypeOK => Share(file) \in 0 .. file.n /\ file.n \in Nat
<1> SUFFICES ASSUME TypeOK PROVE Share(file) \in 0 .. file.n /\ file.n \in Nat
  OBVIOUS
<1> DEFINE y == Yield(kind, file)
<1>1. y \in 0 .. file.n /\ file.n \in Nat /\ count \in Nat
  BY ReplayAssumption, YieldType DEF TypeOK
<1> HIDE DEF y
<1>2. (IF count = 0 THEN y ELSE Least(count, y)) \in 0 .. file.n
  BY <1>1 DEF Least
<1> QED
  BY <1>1, <1>2 DEF Share, y

LEMMA TotalStep ==
  ASSUME Uncapped
  PROVE  TypeInv /\ PassInv /\ TotalInv /\ [Next]_vars => TotalInv'
<1> SUFFICES ASSUME TypeInv, PassInv, TotalInv, [Next]_vars PROVE TotalInv'
  OBVIOUS
<1> USE DEF Goto, argVars, readVars, MidPass
<1> DEFINE S == Share(file)
           lo == Len(out)
<1>0. /\ S \in 0 .. file.n /\ file.n \in Nat /\ lo \in Nat
      /\ pass \in 0 .. MaxPass /\ sent \in 0 .. MaxSent /\ loop \in Nat
      /\ MaxPass \in Nat /\ MaxSent \in Nat /\ loop <= MaxPass
      /\ version \in Nat
  BY ReplayAssumption, ShareType DEF TypeInv, TypeOK
<1>a. TypeInv' /\ PassInv'
  BY TypeStep, PassStep
<1>b. version = 0 => opened.version = version /\ opened.file = file /\ ~mixed
  BY ReplayAssumption DEF PassInv, TypeInv, TypeOK
<1>1. CASE Call
  <2>0. TypeOK' => (Share(file) \in 0 .. file.n /\ file.n \in Nat)'
    BY ShareType, PTL
  <2>1. Share(file)' \in Nat
    BY <1>a, <2>0 DEF TypeInv
  <2> QED
    BY <1>1, <2>1, OnePassMore DEF Call, TotalInv
<1>2. CASE While
  <2>1. UNCHANGED <<file, version, argVars, stop, sent>> /\ pc = "while" /\ S' = S
    BY <1>2 DEF While, Share
  <2> HIDE DEF S
  <2>2. CASE pc' = "open" /\ pass' = Least(pass + 1, MaxPass) /\ (loop = 0 \/ pass < loop)
    <3>1. loop # 0 => pass' = pass + 1
      BY <1>0, <2>2 DEF Least
    <3>2. loop # 0 /\ version = 0 => sent = (pass' - 1) * S /\ pass' <= loop /\ pass' > 0
      BY <1>0, <2>1, <2>2, <3>1, OnePassMore DEF TotalInv, S
    <3> QED
      BY <2>1, <2>2, <3>2 DEF TotalInv, S
  <2>3. CASE pc' = "returned" /\ pass' = pass /\ loop # 0 /\ pass >= loop
    <3>1. version = 0 => pass = loop /\ sent = pass * S
      BY <1>0, <2>1, <2>3 DEF TotalInv, S
    <3> QED
      BY <2>1, <2>3, <3>1 DEF TotalInv, S
  <2> QED
    BY <1>2, <2>2, <2>3 DEF While
<1>3. CASE OpenReader
  <2>1. UNCHANGED <<file, version, argVars, stop, pass, sent>> /\ S' = S
        /\ pc = "open" /\ pc' \in {"load", "next", "raised"} /\ Len(out') = 0
    BY <1>3 DEF OpenReader, Share
  <2> HIDE DEF S
  <2>2. loop # 0 /\ version = 0 =>
          pass > 0 /\ pass <= loop /\ sent = (pass - 1) * S + Len(out')
    <3>1. (pass - 1) * S \in Int
      BY <1>0
    <3> QED
      BY <2>1, <3>1 DEF TotalInv, S
  <2> QED
    BY <2>1, <2>2 DEF TotalInv, S
<1>4. CASE Load \/ NextPacket \/ Test
  <2>1. UNCHANGED <<file, version, argVars, stop, pass, sent, opened, mixed, out>>
        /\ S' = S /\ MidPass
        /\ (pc' = "returned" => stop)
        /\ pc' \in {"load", "next", "test", "send", "while", "raised", "returned"}
    BY <1>4 DEF Load, NextPacket, Test, Share
  <2>2. loop # 0 /\ version = 0 => pass > 0 /\ sent = (pass - 1) * S + lo /\ pass <= loop
    BY <2>1 DEF TotalInv
  <2>3. pc' = "while" /\ version = 0 /\ loop # 0 => lo = S
    BY <1>a, <1>b, <2>1, <2>2 DEF PassInv
  <2> HIDE DEF S, lo
  <2>4. pc' = "while" /\ version = 0 /\ loop # 0 => sent = pass * S
    BY <1>0, <2>2, <2>3, OnePassMore
  <2> QED
    BY <2>1, <2>2, <2>4 DEF TotalInv, S, lo
<1>5. CASE Send
  <2>1. UNCHANGED <<file, version, argVars, stop, pass>> /\ S' = S
        /\ pc = "send" /\ pc' = "sleep" /\ left # <<>>
        /\ sent' = Least(sent + 1, MaxSent) /\ out' = Append(out, Head(left))
    BY <1>5, <1>a DEF Send, Share, TypeInv
  <2>2. Len(out') = lo + 1
    BY <2>1 DEF TypeInv, TypeOK
  <2>3. version = 0 => lo < S
    <3> DEFINE y == Yield(kind, file)
               ll == Len(Ahead)
    <3>1. y \in Nat /\ ll \in Nat \ {0} /\ count \in Nat
      <4>1. y \in Nat /\ count \in Nat
        BY ReplayAssumption, YieldType DEF TypeInv, TypeOK
      <4>2. left \in Seq(Nat \X Nat) /\ todo \in Seq(Nat \X Nat)
        BY DEF TypeInv, TypeOK
      <4>3. Len(left) > 0 /\ Len(left) \in Nat /\ Len(todo) \in Nat
        BY <2>1, <4>2
      <4>4. ll = Len(left) + Len(todo)
        BY <4>2, ConcatProperties DEF Ahead
      <4> QED
        BY <4>1, <4>3, <4>4
    <3>2. version = 0 => lo + ll = y /\ (count # 0 => lo < count)
      BY <1>b, <2>1 DEF PassInv
    <3> HIDE DEF y, ll, lo
    <3>3. version = 0 => lo < IF count = 0 THEN y ELSE Least(count, y)
      BY <1>0, <3>1, <3>2 DEF Least
    <3> QED
      BY <3>3 DEF Share, y
  <2>4. loop # 0 /\ version = 0 => pass > 0 /\ pass <= loop /\ sent = (pass - 1) * S + lo
    BY <2>1 DEF TotalInv
  <2>5. loop * file.n <= MaxSent
    BY DEF Uncapped, TypeInv, TypeOK
  <2> HIDE DEF S, lo
  <2>6. pass <= loop => pass * S <= loop * file.n
    BY <1>0, MoreLoops
  <2>7. loop # 0 /\ version = 0 => sent' = (pass - 1) * S + (lo + 1)
    <3> SUFFICES ASSUME loop # 0, version = 0 PROVE sent' = (pass - 1) * S + (lo + 1)
      OBVIOUS
    <3> DEFINE a == (pass - 1) * S
               b == pass * S
               c == loop * file.n
    <3>1. a \in Int /\ b \in Int /\ c \in Int /\ a + S = b
      BY <1>0, OnePassMore
    <3>2. sent = a + lo /\ lo < S /\ b <= c /\ c <= MaxSent
      BY <2>3, <2>4, <2>5, <2>6
    <3> HIDE DEF a, b, c
    <3>3. sent + 1 <= MaxSent /\ sent + 1 = a + (lo + 1)
      BY <1>0, <3>1, <3>2
    <3> QED
      BY <1>0, <2>1, <3>3 DEF Least, a
  <2> QED
    BY <2>1, <2>2, <2>4, <2>7 DEF TotalInv, S, lo
<1>6. CASE Wake \/ SendRaises \/ SetStop \/ UNCHANGED vars
  <2>1. UNCHANGED <<file, version, argVars, pass, sent, out>> /\ S' = S
        /\ (stop => stop')
        /\ (pc' = pc \/ pc' = "raised" \/ (MidPass /\ MidPass'))
    BY <1>6 DEF Wake, SendRaises, SetStop, vars, Share
  <2> HIDE DEF S
  <2> QED
    BY <2>1 DEF TotalInv, S
<1>7. CASE Rewrite
  <2>1. version' = version + 1 /\ pc' = pc /\ pc # "returned"
    BY <1>7 DEF Rewrite, Running
  <2> QED
    BY <1>0, <2>1 DEF TotalInv
<1> QED
  BY <1>1, <1>2, <1>3, <1>4, <1>5, <1>6, <1>7 DEF Next, Step

(* TotalCorrect: a replay() that is neither stopped nor disturbed makes    *)
(* `loop` whole passes and returns the number of packets of all of them,   *)
(* for every file, loop and count.                                         *)
THEOREM TotalCorrect ==
  ASSUME Uncapped
  PROVE  Spec => []TotalSent
<1>1. Init => PassInv /\ TotalInv
  <2> SUFFICES ASSUME Init PROVE PassInv /\ TotalInv
    OBVIOUS
  <2>1. pc = "out" /\ pass = 0 /\ sent = 0 /\ loop \in Nat
    BY ReplayAssumption DEF Init
  <2> QED
    BY <2>1, InitPass DEF TotalInv, MidPass
<1>2. TotalInv /\ TypeInv => TotalSent
  BY DEF TotalInv, TotalSent
<1> QED
  BY <1>1, <1>2, TypeInvariant, TypeInit, TypeStep, PassStep, TotalStep, PTL DEF Spec

=============================================================================
