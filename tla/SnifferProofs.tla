--------------------------- MODULE SnifferProofs ---------------------------
(***************************************************************************)
(* Theorems about Sniffer for every number of threads, sockets and frames. *)
(***************************************************************************)
EXTENDS Sniffer, FiniteSetTheorems, TLAPS

(* A frame counted by Tally is one that Read took from a ring.             *)
Holding == {"load", "tally"}

InHand == \A t \in Threads : pc[t] \in Holding => pkt[t] \in Frames

TypeInv == TypeOK /\ InHand

LEMMA TypeInit == Init => TypeInv
<1> SUFFICES ASSUME Init PROVE TypeInv
  OBVIOUS
<1> USE SocketAssumption, SnifferAssumption DEF Init, SockInit
<1>1. SockTypeOK
  BY DEF SockTypeOK, HandleStates, Frames
<1>2. deadline \in [Threads -> {"none", "ahead", "past"}]
  OBVIOUS
<1>3. got \in [Threads -> Seq(Frames)]
  OBVIOUS
<1>4. /\ pc \in [Threads -> PCs]
      /\ after \in [Threads -> Rest \cup {"yield"}]
  BY DEF PCs, Rest
<1>5. /\ on \in [Threads -> Socks \cup {NoSock}]
      /\ pkt \in [Threads -> 0 .. MaxFrames]
      /\ late \in [Threads -> Nat]
      /\ seen \in [Threads -> Nat]
  OBVIOUS
<1>6. TypeOK
  BY <1>1, <1>2, <1>3, <1>4, <1>5 DEF TypeOK
<1> QED
  BY <1>6 DEF TypeInv, InHand, Holding

LEMMA TypeStep == TypeInv /\ [Next]_vars => TypeInv'
<1> SUFFICES ASSUME TypeInv, [Next]_vars PROVE TypeInv'
  OBVIOUS
<1> USE SocketAssumption, SnifferAssumption
    DEF TypeInv, TypeOK, SockTypeOK, InHand, Holding, HandleStates, PCs, Rest, Frames,
        Goto, Leave, Undefined, sockVars, threadVars
<1>1. ASSUME HearFrame PROVE TypeInv'
  BY <1>1 DEF HearFrame, Hear
<1>2. ASSUME Stop PROVE TypeInv'
  BY <1>2 DEF Stop
<1>3. ASSUME NEW s \in Socks, Finalise(s) PROVE TypeInv'
  BY <1>3 DEF Finalise
<1>4. ASSUME NEW t \in Threads, Begin(t) PROVE TypeInv'
  BY <1>4 DEF Begin
<1>5. ASSUME NEW t \in Threads, Construct(t) PROVE TypeInv'
  BY <1>5, ZenonT(40) DEF Construct, Activate
<1>6. ASSUME NEW t \in Threads, Link(t) PROVE TypeInv'
  BY <1>6, ZenonT(40) DEF Link
<1>7. ASSUME NEW t \in Threads, SetFilter(t) PROVE TypeInv'
  <2>1. UNCHANGED <<sock, stop, captured, after, on, pkt, deadline, got, late, seen>>
    BY <1>7 DEF SetFilter
  <2>2. pc' \in [Threads -> PCs] /\ InHand'
    BY <1>7 DEF SetFilter
  <2>3. SockTypeOK'
    <3>1. CASE UNCHANGED sockVars
      BY <3>1
    <3>2. CASE sock # NoSock /\ InstallFilter(sock, Program)
      <4>1. sock \in Socks
        BY <3>2
      <4>2. Program \in Programs \cup {NoProgram}
        OBVIOUS
      <4>3. program' \in [Socks -> Programs \cup {NoProgram}]
        BY <3>2, <4>1, <4>2 DEF InstallFilter
      <4> QED
        BY <3>2, <4>3, SMTT(30) DEF InstallFilter
    <3>3. UNCHANGED sockVars \/ (sock # NoSock /\ InstallFilter(sock, Program))
      BY <1>7, ZenonT(40) DEF SetFilter
    <3> QED
      BY <3>1, <3>2, <3>3
  <2>4. ub' \in BOOLEAN
    BY <1>7 DEF SetFilter
  <2> QED
    BY <2>1, <2>2, <2>3, <2>4
<1>8. ASSUME NEW t \in Threads, Loop(t) PROVE TypeInv'
  BY <1>8, ZenonT(40) DEF Loop
<1>9. ASSUME NEW t \in Threads, Limits(t) PROVE TypeInv'
  BY <1>9, ZenonT(40) DEF Limits
<1>10. ASSUME NEW t \in Threads, Recv(t) PROVE TypeInv'
  BY <1>10, ZenonT(40) DEF Recv
<1>11. ASSUME NEW t \in Threads, Select(t) PROVE TypeInv'
  <2>1. CASE Undefined(on[t])
    BY <2>1
  <2>2. CASE handle[on[t]] = "open"
    <3>1. UNCHANGED <<sockVars, sock, stop, captured, after, pkt, deadline,
                      got, late, seen, ub>>
      BY <1>11, <2>2 DEF Select
    <3>2. on' \in [Threads -> Socks \cup {NoSock}]
      BY <1>11, <2>2 DEF Select
    <3>3. pc' \in {[pc EXCEPT ![t] = "loop"], [pc EXCEPT ![t] = "read"]}
      BY <1>11, <2>2 DEF Select
    <3>4. pc' \in [Threads -> PCs]
      BY <3>3
    <3>5. InHand'
      BY <3>1, <3>3
    <3> QED
      BY <3>1, <3>2, <3>4, <3>5
  <2> QED
    BY <1>11, <2>1, <2>2 DEF Select
<1>12. ASSUME NEW t \in Threads, Read(t) PROVE TypeInv'
  <2>1. CASE Undefined(on[t])
    BY <2>1
  <2>2. CASE handle[on[t]] = "open"
    <3>1. UNCHANGED <<sock, stop, captured, deadline, got, late, seen, ub>>
      BY <1>12, <2>2 DEF Read
    <3>2. on' \in [Threads -> Socks \cup {NoSock}]
      BY <1>12, <2>2 DEF Read
    <3>3. after' \in [Threads -> Rest \cup {"yield"}]
      BY <1>12, <2>2 DEF Read
    <3>4. CASE UNCHANGED <<sockVars, pkt>> /\ pc'[t] \notin Holding
      <4>1. pc' \in [Threads -> PCs] /\ InHand'
        BY <1>12, <2>2, <3>4, ZenonT(40) DEF Read
      <4> QED
        BY <3>1, <3>2, <3>3, <3>4, <4>1
    <3>5. CASE \E p \in Frames : /\ NextEx(on[t], p)
                                  /\ pkt' = [pkt EXCEPT ![t] = p]
                                  /\ pc' = [pc EXCEPT ![t] = "load"]
      <4>1. PICK p \in Frames : /\ NextEx(on[t], p)
                                /\ pkt' = [pkt EXCEPT ![t] = p]
                                /\ pc' = [pc EXCEPT ![t] = "load"]
        BY <3>5
      <4>2. SockTypeOK'
        BY <4>1 DEF NextEx
      <4>3. pkt' \in [Threads -> 0 .. MaxFrames] /\ InHand'
        BY <4>1
      <4>4. pc' \in [Threads -> PCs]
        BY <4>1
      <4> QED
        BY <3>1, <3>2, <3>3, <4>2, <4>3, <4>4
    <3>6. pc[t] = "read" /\ (\/ UNCHANGED <<sockVars, pkt>> /\ pc'[t] \notin Holding
                             \/ \E p \in Frames : /\ NextEx(on[t], p)
                                  /\ pkt' = [pkt EXCEPT ![t] = p]
                                  /\ pc' = [pc EXCEPT ![t] = "load"])
      BY <1>12, <2>2 DEF Read
    <3> QED
      BY <3>4, <3>5, <3>6
  <2> QED
    BY <1>12, <2>1, <2>2 DEF Read
<1>13. ASSUME NEW t \in Threads, Tally(t) PROVE TypeInv'
  <2>1. got' \in [Threads -> Seq(Frames)]
    BY <1>13 DEF Tally
  <2>2. late' \in [Threads -> Nat] /\ captured' \in Nat
        /\ seen' \in [Threads -> Nat]
    BY <1>13 DEF Tally
  <2>3. pc' \in [Threads -> PCs] /\ InHand'
    BY <1>13 DEF Tally
  <2>4. pkt' \in [Threads -> 0 .. MaxFrames]
    BY <1>13 DEF Tally
  <2> QED
    BY <1>13, <2>1, <2>2, <2>3, <2>4 DEF Tally
<1>14. ASSUME NEW t \in Threads, Close(t) PROVE TypeInv'
  <2>1. CASE sock = NoSock
    <3>1. after[t] \in PCs \ Holding
      OBVIOUS
    <3> QED
      BY <1>14, <2>1, <3>1, ZenonT(40) DEF Close
  <2>2. CASE sock # NoSock
    BY <1>14, <2>2, ZenonT(40) DEF Close
  <2> QED
    BY <2>1, <2>2
<1>15. ASSUME NEW t \in Threads, Free(t) PROVE TypeInv'
  <2>1. CASE Undefined(on[t])
    BY <2>1
  <2>2. CASE PcapClose(on[t]) /\ ~Undefined(on[t])
    BY <1>15, <2>2, ZenonT(40) DEF Free, PcapClose
  <2> QED
    BY <1>15, <2>1, <2>2 DEF Free
<1>16. ASSUME NEW t \in Threads, Mark(t) PROVE TypeInv'
  <2>1. handle' \in [Socks -> HandleStates]
    BY <1>16 DEF Mark, MarkClosed
  <2>2. pc' \in [Threads -> PCs] /\ InHand'
    BY <1>16 DEF Mark, MarkClosed
  <2> QED
    BY <1>16, <2>1, <2>2 DEF Mark, MarkClosed
<1>17. ASSUME NEW t \in Threads, Forget(t) PROVE TypeInv'
  <2>1. after[t] \in PCs \ Holding
    OBVIOUS
  <2> QED
    BY <1>17, <2>1 DEF Forget
<1>18. ASSUME NEW t \in Threads, Consume(t) PROVE TypeInv'
  BY <1>18, ZenonT(40) DEF Consume, Resume, Abandon
<1>19. ASSUME NEW t \in Threads, Exit(t) PROVE TypeInv'
  BY <1>19 DEF Exit
<1>20. ASSUME NEW t \in Threads, Expire(t) PROVE TypeInv'
  BY <1>20 DEF Expire
<1>21. ASSUME NEW t \in Threads, Interrupt(t) PROVE TypeInv'
  BY <1>21 DEF Interrupt
<1>22. ASSUME NEW t \in Threads, Load(t) PROVE TypeInv'
  BY <1>22 DEF Load
<1>23. CASE UNCHANGED vars
  BY <1>23 DEF vars
<1> QED
  BY <1>1, <1>2, <1>3, <1>4, <1>5, <1>6, <1>7, <1>8, <1>9, <1>10, <1>11,
     <1>12, <1>13, <1>14, <1>15, <1>16, <1>17, <1>18, <1>19, <1>20, <1>21,
     <1>22, <1>23 DEF Next, Run

LEMMA TypeInvariant == Spec => []TypeInv
BY TypeInit, TypeStep, PTL DEF Spec

(* TypeCorrect: every variable keeps its type; what Tally hands to the     *)
(* consumer is always a frame some ring held.                              *)
THEOREM TypeCorrect == Spec => []TypeOK
BY TypeInvariant, PTL DEF TypeInv

-----------------------------------------------------------------------------
(* The count.  Handed grows by one frame with every store, and no thread   *)
(* holds a count above it: a store of an old count only falls behind.      *)
CountInv ==
  /\ IsFiniteSet(Handed)
  /\ captured <= Cardinality(Handed)
  /\ \A t \in Threads : pc[t] = "tally" => seen[t] <= Cardinality(Handed)

LEMMA CountInit == Init => CountInv
<1> SUFFICES ASSUME Init PROVE CountInv
  OBVIOUS
<1>1. Handed = {}
  BY DEF Init, Handed
<1>2. IsFiniteSet(Handed) /\ Cardinality(Handed) = 0
  BY <1>1, FS_EmptySet
<1> QED
  BY <1>2 DEF Init, CountInv

(* A step that hands out, stores and loads nothing keeps CountInv.         *)
LEMMA CountQuiet ==
  ASSUME CountInv, UNCHANGED <<captured, got>>,
         \A t \in Threads : pc'[t] = "tally" => pc[t] = "tally" /\ seen'[t] = seen[t]
  PROVE  CountInv'
<1>1. Handed' = Handed
  BY DEF Handed
<1> QED
  BY <1>1 DEF CountInv

LEMMA HandedAppend ==
  ASSUME TypeInv, NEW t \in Threads, Tally(t)
  PROVE  /\ <<t, Len(got[t]) + 1>> \notin Handed
         /\ Handed' = Handed \cup {<<t, Len(got[t]) + 1>>}
<1>1. got[t] \in Seq(Frames) /\ pkt[t] \in Frames
  BY DEF Tally, Goto, TypeInv, TypeOK, InHand, Holding
<1>2. got'[t] = Append(got[t], pkt[t])
      /\ \A u \in Threads \ {t} : got'[u] = got[u]
  BY DEF Tally, TypeInv, TypeOK
<1>3. DOMAIN got[t] = 1 .. Len(got[t]) /\ Len(got[t]) \in Nat
  BY <1>1
<1>4. DOMAIN got'[t] = DOMAIN got[t] \cup {Len(got[t]) + 1}
  BY <1>1, <1>2, <1>3
<1>5. Len(got[t]) + 1 \notin DOMAIN got[t]
  BY <1>3
<1>6. ASSUME NEW u, NEW i
      PROVE  <<u, i>> \in Handed <=> u \in Threads /\ i \in DOMAIN got[u]
  BY DEF Handed
<1>7. ASSUME NEW u, NEW i
      PROVE  <<u, i>> \in Handed' <=> u \in Threads /\ i \in DOMAIN got'[u]
  BY DEF Handed
<1>8. \A x \in Handed \cup Handed' : \E u, i : x = <<u, i>>
  BY DEF Handed
<1>9. ASSUME NEW u, NEW i
      PROVE  <<u, i>> \in Handed'
               <=> <<u, i>> \in Handed \/ <<u, i>> = <<t, Len(got[t]) + 1>>
  BY <1>2, <1>4, <1>6, <1>7
<1> QED
  BY <1>5, <1>6, <1>8, <1>9

LEMMA CountStep == TypeInv /\ CountInv /\ [Next]_vars => CountInv'
<1> SUFFICES ASSUME TypeInv, TypeOK, CountInv, [Next]_vars PROVE CountInv'
  BY DEF TypeInv
<1> USE DEF Goto, Leave, Undefined, threadVars
<1>1. ASSUME NEW t \in Threads, Load(t) PROVE CountInv'
  <2>1. Handed' = Handed /\ captured' = captured
    BY <1>1 DEF Load, Handed
  <2>2. seen'[t] = captured
        /\ \A u \in Threads \ {t} : seen'[u] = seen[u] /\ pc'[u] = pc[u]
    BY <1>1 DEF Load, TypeOK
  <2> QED
    BY <2>1, <2>2 DEF CountInv
<1>2. ASSUME NEW t \in Threads, Tally(t) PROVE CountInv'
  <2>1. /\ IsFiniteSet(Handed')
        /\ Cardinality(Handed') = Cardinality(Handed) + 1
        /\ Cardinality(Handed) \in Nat
    <3>1. IsFiniteSet(Handed)
      BY DEF CountInv
    <3>2. <<t, Len(got[t]) + 1>> \notin Handed
          /\ Handed' = Handed \cup {<<t, Len(got[t]) + 1>>}
      BY <1>2, HandedAppend
    <3> DEFINE x == <<t, Len(got[t]) + 1>>
    <3> HIDE DEF x
    <3>3. x \notin Handed /\ Handed' = Handed \cup {x}
      BY <3>2 DEF x
    <3> QED
      BY <3>1, <3>3, FS_AddElement, FS_CardinalityType
  <2>2. /\ captured' = seen[t] + 1 /\ pc[t] = "tally" /\ pc'[t] = "yield"
        /\ \A u \in Threads \ {t} : seen'[u] = seen[u] /\ pc'[u] = pc[u]
    BY <1>2 DEF Tally, TypeOK
  <2>3. captured' <= Cardinality(Handed')
    BY <2>1, <2>2 DEF CountInv, TypeOK
  <2>4. ASSUME NEW u \in Threads, pc'[u] = "tally"
        PROVE  seen'[u] <= Cardinality(Handed')
    <3>1. u # t /\ seen'[u] = seen[u] /\ pc[u] = "tally"
      BY <2>2, <2>4
    <3>2. seen[u] \in Nat /\ seen[u] <= Cardinality(Handed)
      BY <3>1 DEF CountInv, TypeOK
    <3> QED
      BY <2>1, <3>1, <3>2
  <2> QED
    BY <2>1, <2>3, <2>4 DEF CountInv
<1>3. ASSUME NEW t \in Threads,
             \/ Begin(t) \/ Construct(t) \/ Link(t) \/ SetFilter(t) \/ Loop(t)
             \/ Limits(t) \/ Recv(t) \/ Select(t) \/ Read(t)
      PROVE  CountInv'
  <2>1. UNCHANGED <<captured, got, seen>>
    BY <1>3 DEF Begin, Construct, Link, SetFilter, Loop, Limits, Recv, Select, Read
  <2>2. \A u \in Threads : pc'[u] = "tally" => pc[u] = "tally"
    BY <1>3 DEF Begin, Construct, Link, SetFilter, Loop, Limits, Recv, Select,
                Read, TypeOK
  <2> QED
    BY <2>1, <2>2, CountQuiet
<1>4. ASSUME NEW t \in Threads,
             \/ Close(t) \/ Free(t) \/ Mark(t) \/ Forget(t) \/ Consume(t)
             \/ Exit(t) \/ Expire(t) \/ Interrupt(t)
      PROVE  CountInv'
  <2>1. UNCHANGED <<captured, got, seen>>
    BY <1>4 DEF Close, Free, Mark, Forget, Consume, Resume, Abandon, Exit,
                Expire, Interrupt
  <2>2. after[t] # "tally"
    BY DEF TypeOK, Rest
  <2>3. \A u \in Threads : pc'[u] = "tally" => pc[u] = "tally"
    BY <1>4, <2>2 DEF Close, Free, Mark, Forget, Consume, Resume, Abandon, Exit,
                Expire, Interrupt, TypeOK
  <2> QED
    BY <2>1, <2>3, CountQuiet
<1>5. CASE \/ HearFrame \/ Stop \/ (\E s \in Socks : Finalise(s))
           \/ UNCHANGED vars
  <2>1. UNCHANGED <<captured, got, seen, pc>>
    BY <1>5 DEF HearFrame, Stop, Finalise, vars
  <2> QED
    BY <2>1, CountQuiet
<1> QED
  BY <1>1, <1>2, <1>3, <1>4, <1>5 DEF Next, Run

(* CountCorrect: however many threads share a Sniffer, and whichever of    *)
(* their unlocked increments are lost, it never reports, and never limits  *)
(* a capture by, more frames than were handed out.                         *)
THEOREM CountCorrect == Spec => []CountHonest
<1>1. CountInv => CountHonest
  BY DEF CountInv, CountHonest
<1> QED
  BY <1>1, TypeInvariant, CountInit, CountStep, PTL DEF Spec, TypeInv

(* Only a store changes the count, and only a load what a thread has seen. *)
LEMMA LimitStep ==
  TypeOK /\ Limited /\ [Next]_vars =>
    /\ Limited'
    /\ \A t \in Threads : ~(pc[t] = "limits" /\ pc'[t] = "recv")
<1> SUFFICES ASSUME TypeOK, Limited, [Next]_vars
             PROVE  /\ Limited'
                    /\ \A t \in Threads : ~(pc[t] = "limits" /\ pc'[t] = "recv")
  OBVIOUS
<1> DEFINE Admits == \E t \in Threads : pc[t] = "limits" /\ pc'[t] = "recv"
<1> SUFFICES Limited' /\ ~Admits
  OBVIOUS
<1> USE SnifferAssumption DEF Goto, Leave, Undefined, threadVars
<1>0. ASSUME captured' = captured,
             \A u \in Threads : pc'[u] = "tally" => pc[u] = "tally" /\ seen'[u] = seen[u]
      PROVE  Limited'
  BY <1>0 DEF Limited
<1>1. ASSUME NEW t \in Threads, Load(t) PROVE Limited' /\ ~Admits
  <2>1. /\ captured' = captured /\ seen'[t] = captured /\ pc[t] = "load"
        /\ pc'[t] = "tally"
        /\ \A u \in Threads \ {t} : seen'[u] = seen[u] /\ pc'[u] = pc[u]
    BY <1>1 DEF Load, TypeOK
  <2>2. captured' >= Count /\ Count > 0 /\ captured + 1 >= Count
    BY <2>1 DEF Limited, TypeOK
  <2>3. \A u \in Threads : pc'[u] = "tally" => seen'[u] + 1 >= Count
    BY <2>1, <2>2 DEF Limited
  <2>4. Limited'
    BY <2>2, <2>3 DEF Limited
  <2> QED
    BY <2>1, <2>4
<1>2. ASSUME NEW t \in Threads, Tally(t) PROVE Limited' /\ ~Admits
  <2>1. /\ captured' = seen[t] + 1 /\ pc[t] = "tally" /\ pc'[t] = "yield"
        /\ \A u \in Threads \ {t} : seen'[u] = seen[u] /\ pc'[u] = pc[u]
    BY <1>2 DEF Tally, TypeOK
  <2>2. captured' >= Count /\ Count > 0
    BY <2>1 DEF Limited
  <2>3. \A u \in Threads : pc'[u] = "tally" => seen'[u] + 1 >= Count
    BY <2>1 DEF Limited
  <2>4. Limited'
    BY <2>2, <2>3 DEF Limited
  <2> QED
    BY <2>1, <2>4
<1>3. ASSUME NEW t \in Threads, Limits(t) PROVE Limited' /\ ~Admits
  <2>1. LimitReached(t)
    BY DEF Limited, LimitReached
  <2>2. /\ UNCHANGED <<captured, seen>> /\ pc[t] = "limits" /\ pc'[t] = "close"
        /\ \A u \in Threads \ {t} : pc'[u] = pc[u]
    BY <1>3, <2>1 DEF Limits, TypeOK
  <2>3. Limited'
    BY <1>0, <2>2
  <2> QED
    BY <2>2, <2>3
<1>4. ASSUME NEW t \in Threads,
             \/ Begin(t) \/ Construct(t) \/ Link(t) \/ SetFilter(t) \/ Loop(t)
             \/ Recv(t) \/ Select(t) \/ Read(t)
      PROVE  Limited' /\ ~Admits
  <2>1. UNCHANGED <<captured, seen>> /\ pc[t] # "limits"
    BY <1>4 DEF Begin, Construct, Link, SetFilter, Loop, Recv, Select, Read, Rest
  <2>2. \A u \in Threads \ {t} : pc'[u] = pc[u]
    BY <1>4 DEF Begin, Construct, Link, SetFilter, Loop, Recv, Select, Read, TypeOK
  <2>3. pc'[t] = "tally" => pc[t] = "tally"
    BY <1>4 DEF Begin, Construct, Link, SetFilter, Loop, Recv, Select, Read, TypeOK
  <2>4. Limited'
    BY <1>0, <2>1, <2>2, <2>3
  <2> QED
    BY <2>1, <2>2, <2>4
<1>5. ASSUME NEW t \in Threads,
             \/ Close(t) \/ Free(t) \/ Mark(t) \/ Forget(t) \/ Consume(t)
             \/ Exit(t) \/ Expire(t) \/ Interrupt(t)
      PROVE  Limited' /\ ~Admits
  <2>1. UNCHANGED <<captured, seen>>
    BY <1>5 DEF Close, Free, Mark, Forget, Consume, Resume, Abandon, Exit,
                Expire, Interrupt
  <2>2. after[t] \notin {"tally", "recv"}
    BY DEF TypeOK, Rest
  <2>3. \A u \in Threads \ {t} : pc'[u] = pc[u]
    BY <1>5 DEF Close, Free, Mark, Forget, Consume, Resume, Abandon, Exit,
                Expire, Interrupt, TypeOK
  <2>4. pc'[t] \in {"tally", "recv"} => pc'[t] = pc[t]
    BY <1>5, <2>2 DEF Close, Free, Mark, Forget, Consume, Resume, Abandon, Exit,
                Expire, Interrupt, TypeOK
  <2>5. Limited'
    BY <1>0, <2>1, <2>3, <2>4
  <2> QED
    BY <2>3, <2>4, <2>5
<1>6. CASE \/ HearFrame \/ Stop \/ (\E s \in Socks : Finalise(s))
           \/ UNCHANGED vars
  <2>1. UNCHANGED <<captured, seen, pc>>
    BY <1>6 DEF HearFrame, Stop, Finalise, vars
  <2> QED
    BY <1>0, <2>1
<1> QED
  BY <1>1, <1>2, <1>3, <1>4, <1>5, <1>6 DEF Next, Run

(* LimitCorrect: once the limit is reached and no thread holds an older    *)
(* count, it stays reached and no thread asks for another frame, for any   *)
(* number of threads, of generators and of re-openings.                    *)
THEOREM LimitCorrect == Spec => LimitLasts
<1>1. TypeOK /\ [Next]_vars =>
        [Limited => /\ Limited'
                    /\ \A t \in Threads : ~(pc[t] = "limits" /\ pc'[t] = "recv")]_vars
  BY LimitStep
<1> QED
  BY <1>1, TypeInvariant, PTL DEF Spec, TypeInv, LimitLasts

-----------------------------------------------------------------------------
(* stop().  Between the while test and the yield a thread can still come   *)
(* back with a frame, but only once: it must pass the test again.          *)
Polling == {"limits", "recv", "select", "read", "load", "tally"}

LateInv ==
  \A t \in Threads :
    /\ late[t] \in {0, 1}
    /\ late[t] = 1 => stop /\ pc[t] \notin Polling

LEMMA LateStep == TypeOK /\ LateInv /\ [Next]_vars => LateInv'
<1> SUFFICES ASSUME TypeOK, LateInv, [Next]_vars PROVE LateInv'
  OBVIOUS
<1> USE DEF Goto, Leave, Undefined, threadVars, LateInv, Polling
<1>1. ASSUME NEW t \in Threads, Loop(t) PROVE LateInv'
  BY <1>1 DEF Loop, TypeOK
<1>2. ASSUME NEW t \in Threads, Tally(t) PROVE LateInv'
  <2>1. late[t] = 0 /\ pc'[t] = "yield" /\ stop' = stop
    BY <1>2 DEF Tally, TypeOK
  <2>2. late'[t] = IF stop THEN 1 ELSE 0
    BY <1>2, <2>1 DEF Tally, TypeOK
  <2>3. \A u \in Threads \ {t} : late'[u] = late[u] /\ pc'[u] = pc[u]
    BY <1>2 DEF Tally, TypeOK
  <2> QED
    BY <2>1, <2>2, <2>3
<1>3. ASSUME NEW t \in Threads, Limits(t) \/ Recv(t) \/ Select(t) \/ Read(t) \/ Load(t)
      PROVE  LateInv'
  <2>1. UNCHANGED <<late, stop>> /\ pc[t] \in Polling
    BY <1>3 DEF Limits, Recv, Select, Read, Load
  <2>2. \A u \in Threads \ {t} : pc'[u] = pc[u]
    BY <1>3 DEF Limits, Recv, Select, Read, Load, TypeOK
  <2> QED
    BY <2>1, <2>2
<1>4. ASSUME NEW t \in Threads,
             \/ Begin(t) \/ Construct(t) \/ Link(t) \/ SetFilter(t) \/ Close(t)
             \/ Free(t) \/ Mark(t) \/ Forget(t) \/ Consume(t) \/ Exit(t)
             \/ Expire(t) \/ Interrupt(t)
      PROVE  LateInv'
  <2>1. late' = late /\ (stop => stop')
    BY <1>4 DEF Begin, Construct, Link, SetFilter, Close, Free, Mark, Forget,
                Consume, Resume, Abandon, Exit, Expire, Interrupt
  <2>2. after[t] \notin Polling
    BY DEF TypeOK, Rest
  <2>3. \A u \in Threads : pc'[u] \in Polling => pc[u] \in Polling
    BY <1>4, <2>2, SMTT(30) DEF Begin, Construct, Link, SetFilter, Close, Free, Mark,
       Forget, Consume, Resume, Abandon, Exit, Expire, Interrupt, TypeOK
  <2> QED
    BY <2>1, <2>3
<1>5. CASE \/ HearFrame \/ Stop \/ (\E s \in Socks : Finalise(s))
           \/ UNCHANGED vars
  <2>1. UNCHANGED <<late, pc>> /\ (stop => stop')
    BY <1>5 DEF HearFrame, Stop, Finalise, vars
  <2> QED
    BY <2>1
<1> QED
  BY <1>1, <1>2, <1>3, <1>4, <1>5 DEF Next, Run

(* LateCorrect: stop() lets every thread have at most one more frame, for  *)
(* any number of threads and of later stream() calls.                      *)
THEOREM LateCorrect == Spec => []LateBound
<1>1. Init => LateInv
  BY DEF Init, LateInv, Polling
<1>2. LateInv => LateBound
  BY DEF LateInv, LateBound
<1> QED
  BY <1>1, <1>2, TypeInvariant, LateStep, PTL DEF Spec, TypeInv

-----------------------------------------------------------------------------
(* One owner.  The socket a thread works on is the Sniffer's, and it is    *)
(* open except between pcap_close() and "self._sock = None".               *)
SoleOwner == \A t, u \in Threads : t = u

OwnerInv ==
  /\ ~ub
  /\ \A t \in Threads :
       /\ pc[t] \in {"select", "read", "free", "mark", "forget"} =>
            on[t] = sock /\ sock # NoSock
       /\ sock # NoSock /\ pc[t] \notin {"mark", "forget"} => handle[sock] = "open"

LEMMA OwnerStep ==
  ASSUME SoleOwner
  PROVE  TypeOK /\ OwnerInv /\ [Next]_vars => OwnerInv'
<1> SUFFICES ASSUME TypeOK, OwnerInv, [Next]_vars PROVE OwnerInv'
  OBVIOUS
<1> USE SoleOwner
    DEF Goto, Leave, Undefined, sockVars, threadVars, OwnerInv, SoleOwner
<1>1. ASSUME NEW t \in Threads,
             \/ Begin(t) \/ Construct(t) \/ Link(t)
      PROVE  OwnerInv'
  BY <1>1, SocketAssumption DEF Begin, Construct, Link, Activate, TypeOK, SockTypeOK, Rest
<1>2. ASSUME NEW t \in Threads, SetFilter(t) PROVE OwnerInv'
  BY <1>2 DEF SetFilter, InstallFilter, TypeOK
<1>3. ASSUME NEW t \in Threads, Loop(t) \/ Limits(t) \/ Recv(t) PROVE OwnerInv'
  BY <1>3 DEF Loop, Limits, Recv, TypeOK
<1>4. ASSUME NEW t \in Threads, Select(t) \/ Read(t) \/ Load(t) \/ Tally(t)
      PROVE  OwnerInv'
  BY <1>4 DEF Select, Read, NextEx, Load, Tally, TypeOK
<1>5. ASSUME NEW t \in Threads, Close(t) \/ Free(t) PROVE OwnerInv'
  <2>1. CASE Close(t)
    BY <2>1 DEF Close, TypeOK, Rest
  <2>2. CASE Free(t)
    BY <2>2, SMTT(30) DEF Free, PcapClose, TypeOK, SockTypeOK
  <2> QED
    BY <1>5, <2>1, <2>2
<1>6. ASSUME NEW t \in Threads, Mark(t) \/ Forget(t) PROVE OwnerInv'
  <2>1. CASE Mark(t)
    BY <2>1 DEF Mark, MarkClosed, TypeOK
  <2>2. CASE Forget(t)
    <3>1. after[t] \in {"idle", "done", "raised", "failed", "yield"}
      BY DEF TypeOK, Rest
    <3> QED
      BY <2>2, <3>1 DEF Forget, TypeOK
  <2> QED
    BY <1>6, <2>1, <2>2
<1>7. ASSUME NEW t \in Threads,
             Consume(t) \/ Exit(t) \/ Expire(t) \/ Interrupt(t)
      PROVE  OwnerInv'
  BY <1>7 DEF Consume, Resume, Abandon, Exit, Expire, Interrupt, TypeOK, Rest
<1>8. ASSUME NEW s \in Socks, Finalise(s) PROVE OwnerInv'
  BY <1>8 DEF Finalise, TypeOK, SockTypeOK
<1>9. CASE HearFrame \/ Stop \/ UNCHANGED vars
  BY <1>9 DEF HearFrame, Hear, Stop, vars
<1> QED
  BY <1>1, <1>2, <1>3, <1>4, <1>5, <1>6, <1>7, <1>8, <1>9 DEF Next, Run

(* OwnerSafe: while one thread owns the Sniffer, whatever fails and        *)
(* however often it opens, exits and re-enters it, no call reaches libpcap *)
(* with a NULL or freed handle.  Other threads may call stop().            *)
THEOREM OwnerSafe ==
  ASSUME SoleOwner
  PROVE  Spec => []NoUndefinedCall
<1>1. Init => OwnerInv
  BY DEF Init, OwnerInv
<1>2. OwnerInv => NoUndefinedCall
  BY DEF OwnerInv, NoUndefinedCall
<1>3. TypeOK /\ OwnerInv /\ [Next]_vars => OwnerInv'
  BY OwnerStep
<1> QED
  BY <1>1, <1>2, <1>3, TypeInvariant, PTL DEF Spec, TypeInv

-----------------------------------------------------------------------------
(* No leak.  A socket the Sniffer holds is the business of a thread that   *)
(* is not at rest, or was left by an _open() that failed; a half-closed    *)
(* one is in the hands of the thread that will mark it.                    *)
Ended == Rest \ {"failed"}

LeakInv ==
  /\ sock # NoSock => \E t \in Threads : pc[t] \notin Ended
  /\ \A s \in Socks :
       handle[s] = "freed" => \E t \in Threads : pc[t] = "mark" /\ on[t] = s

LEMMA LeakStep == TypeOK /\ LeakInv /\ [Next]_vars => LeakInv'
<1> SUFFICES ASSUME TypeOK, LeakInv, [Next]_vars PROVE LeakInv'
  OBVIOUS
<1> USE DEF Goto, Leave, Undefined, sockVars, threadVars
<1>1. ASSUME NEW t \in Threads, pc[t] # "mark",
             \A u \in Threads \ {t} : pc'[u] = pc[u] /\ on'[u] = on[u],
             sock' = NoSock \/ pc'[t] \notin Ended,
             \A s \in Socks : handle'[s] = "freed" => handle[s] = "freed"
      PROVE  LeakInv'
  <2>1. sock' # NoSock => \E u \in Threads : pc'[u] \notin Ended
    BY <1>1
  <2>2. ASSUME NEW s \in Socks, handle'[s] = "freed"
        PROVE  \E u \in Threads : pc'[u] = "mark" /\ on'[u] = s
    <3>1. PICK u \in Threads : pc[u] = "mark" /\ on[u] = s
      BY <1>1, <2>2 DEF LeakInv
    <3>2. u \in Threads \ {t}
      BY <1>1, <3>1
    <3> QED
      BY <1>1, <3>1, <3>2
  <2> QED
    BY <2>1, <2>2 DEF LeakInv
<1>2. ASSUME NEW t \in Threads,
             \/ Begin(t) \/ Construct(t) \/ Link(t) \/ SetFilter(t) \/ Loop(t)
             \/ Limits(t)
      PROVE  LeakInv'
  <2>1. pc[t] # "mark" /\ (sock' = NoSock \/ pc'[t] \notin Ended)
    BY <1>2 DEF Begin, Construct, Link, SetFilter, Loop, Limits, TypeOK, Ended, Rest
  <2>2. \A u \in Threads \ {t} : pc'[u] = pc[u] /\ on'[u] = on[u]
    BY <1>2 DEF Begin, Construct, Link, SetFilter, Loop, Limits, TypeOK
  <2>3. \A s \in Socks : handle'[s] = "freed" => handle[s] = "freed"
    BY <1>2 DEF Begin, Construct, Link, SetFilter, Loop, Limits, Activate,
                InstallFilter, TypeOK, SockTypeOK
  <2> QED
    BY <1>1, <2>1, <2>2, <2>3
<1>3. ASSUME NEW t \in Threads,
             \/ Recv(t) \/ Select(t) \/ Read(t) \/ Load(t) \/ Tally(t)
             \/ Consume(t) \/ Interrupt(t)
      PROVE  LeakInv'
  <2>1. pc[t] # "mark" /\ (sock' = NoSock \/ pc'[t] \notin Ended)
    BY <1>3 DEF Recv, Select, Read, Load, Tally, Consume, Resume, Abandon, Interrupt,
                TypeOK, Ended, Rest
  <2>2. \A u \in Threads \ {t} : pc'[u] = pc[u] /\ on'[u] = on[u]
    BY <1>3 DEF Recv, Select, Read, Load, Tally, Consume, Resume, Abandon, Interrupt, TypeOK
  <2>3. \A s \in Socks : handle'[s] = "freed" => handle[s] = "freed"
    BY <1>3 DEF Recv, Select, Read, Load, Tally, Consume, Resume, Abandon, Interrupt, NextEx
  <2> QED
    BY <1>1, <2>1, <2>2, <2>3
<1>4. ASSUME NEW t \in Threads, Exit(t) \/ Close(t) PROVE LeakInv'
  <2>1. pc[t] # "mark" /\ (sock' = NoSock \/ pc'[t] \notin Ended)
    BY <1>4 DEF Exit, Close, TypeOK, Ended, Rest
  <2>2. \A u \in Threads \ {t} : pc'[u] = pc[u] /\ on'[u] = on[u]
    BY <1>4 DEF Exit, Close, TypeOK
  <2>3. handle' = handle
    BY <1>4 DEF Exit, Close
  <2> QED
    BY <1>1, <2>1, <2>2, <2>3
<1>5. ASSUME NEW t \in Threads, Forget(t) PROVE LeakInv'
  <2>1. pc[t] # "mark" /\ sock' = NoSock /\ handle' = handle
    BY <1>5 DEF Forget
  <2>2. \A u \in Threads \ {t} : pc'[u] = pc[u] /\ on'[u] = on[u]
    BY <1>5 DEF Forget, TypeOK
  <2> QED
    BY <1>1, <2>1, <2>2
<1>6. ASSUME NEW t \in Threads, Free(t) PROVE LeakInv'
  <2>1. CASE Undefined(on[t])
    BY <2>1 DEF LeakInv
  <2>2. CASE PcapClose(on[t]) /\ ~Undefined(on[t])
    <3>1. /\ pc' = [pc EXCEPT ![t] = "mark"] /\ on' = on /\ sock' = sock
          /\ \A s \in Socks \ {on[t]} : handle'[s] = handle[s]
      BY <1>6, <2>2 DEF Free, PcapClose, TypeOK, SockTypeOK
    <3>2. pc[t] = "free" /\ pc'[t] = "mark" /\ "mark" \notin Ended
          /\ \A u \in Threads \ {t} : pc'[u] = pc[u]
      BY <1>6, <3>1 DEF Free, TypeOK, Ended, Rest
    <3> QED
      BY <3>1, <3>2 DEF LeakInv
  <2> QED
    BY <1>6, <2>1, <2>2 DEF Free
<1>7. ASSUME NEW t \in Threads, Mark(t) PROVE LeakInv'
  <2>1. /\ pc'[t] = "forget" /\ UNCHANGED <<sock, on>>
        /\ \A u \in Threads \ {t} : pc'[u] = pc[u]
    BY <1>7 DEF Mark, TypeOK
  <2>2. \A s \in Socks : handle'[s] = IF s = on[t] THEN "closed" ELSE handle[s]
    BY <1>7 DEF Mark, MarkClosed, TypeOK, SockTypeOK
  <2>3. "forget" \notin Ended
    BY DEF Ended, Rest
  <2> QED
    BY <2>1, <2>2, <2>3 DEF LeakInv
<1>8. ASSUME NEW s \in Socks, Finalise(s) PROVE LeakInv'
  <2>1. UNCHANGED <<sock, pc, on>>
        /\ \A r \in Socks : handle'[r] = "freed" => handle[r] = "freed"
    BY <1>8 DEF Finalise, TypeOK, SockTypeOK
  <2> QED
    BY <2>1 DEF LeakInv
<1>9. CASE HearFrame \/ Stop \/ (\E t \in Threads : Expire(t)) \/ UNCHANGED vars
  <2>1. UNCHANGED <<sock, pc, on, handle>>
    BY <1>9 DEF HearFrame, Hear, Stop, Expire, vars
  <2> QED
    BY <2>1 DEF LeakInv
<1> QED
  BY <1>2, <1>3, <1>4, <1>5, <1>6, <1>7, <1>8, <1>9 DEF Next, Run

(* LeakCorrect: when all generators have ended, and none in _open(), the   *)
(* Sniffer holds no socket and no handle is half closed, for any number of *)
(* threads and every failure.                                              *)
THEOREM LeakCorrect == Spec => []NoLeak
<1>1. Init => LeakInv
  BY DEF Init, SockInit, LeakInv
<1>2. LeakInv => NoLeak
  BY DEF LeakInv, NoLeak, Ended, Rest
<1> QED
  BY <1>1, <1>2, TypeInvariant, LeakStep, PTL DEF Spec, TypeInv

=============================================================================
