--------------------------- MODULE SendRecvProofs ---------------------------
(***************************************************************************)
(* Theorems about SendRecv: the filter srp1() and srp() borrow is given    *)
(* back, for any number of sockets, programs and frames.                   *)
(***************************************************************************)
EXTENDS SendRecv, TLAPS

USE SocketAssumption, SendRecvAssumption

LEMMA SetFilterType ==
  ASSUME TypeOK, NEW s \in Socks, NEW f \in Strings, SetFilter(s, f)
  PROVE  /\ SockTypeOK' /\ UNCHANGED handle
         /\ filter' \in [Socks -> Strings \cup {None}]
         /\ obeyed' \in [Socks -> BOOLEAN]
<1>1. Meaning(f) \in Programs \cup {NoProgram}
  BY DEF Meaning, Truthy
<1>2. SockTypeOK' /\ UNCHANGED handle
  <2>1. CASE InstallFilter(s, Meaning(f))
    <3>1. program' \in [Socks -> Programs \cup {NoProgram}]
      BY <1>1, <2>1 DEF TypeOK, SockTypeOK, InstallFilter
    <3>2. ring' \in [Socks -> SUBSET Frames]
      BY <2>1 DEF TypeOK, SockTypeOK, InstallFilter
    <3> QED
      BY <2>1, <3>1, <3>2 DEF TypeOK, SockTypeOK, InstallFilter
  <2>2. CASE UNCHANGED sockVars
    BY <2>2 DEF TypeOK, SockTypeOK, sockVars
  <2> QED
    BY <2>1, <2>2 DEF SetFilter
<1>3. filter' \in [Socks -> Strings \cup {None}]
  BY DEF TypeOK, SetFilter
<1>4. obeyed' \in [Socks -> BOOLEAN]
  BY DEF TypeOK, SetFilter
<1> QED
  BY <1>2, <1>3, <1>4

(* set_filter() inside a call is only reached with a filter to install.    *)
Tuning == \A s \in Socks : pc[s] = "tune" => call[s].want \in Programs

TypeInv == TypeOK /\ Tuning

LEMMA TypeStep == TypeInv /\ [Next]_vars => TypeInv'
<1> SUFFICES ASSUME TypeInv, [Next]_vars PROVE TypeInv'
  OBVIOUS
<1> USE DEF TypeInv, Tuning, TypeOK, Goto, End, sockVars, callVars
<1>1. ASSUME HearFrame PROVE TypeInv'
  BY <1>1 DEF HearFrame, Hear, SockTypeOK, Frames
<1>2. ASSUME NEW s \in Socks, Open(s) \/ Close(s) PROVE TypeInv'
  BY <1>2 DEF Open, Activate, Close, SockTypeOK, HandleStates
<1>3. ASSUME NEW s \in Socks, NEW f \in Strings, UserFilter(s, f) PROVE TypeInv'
  BY <1>3, SetFilterType DEF UserFilter
<1>4. ASSUME NEW s \in Socks, NEW c \in Calls, Start(s, c) \/ StartClosed(s, c)
      PROVE  TypeInv'
  <2>1. SockTypeOK'
    BY <1>4 DEF Start, StartClosed, SockTypeOK
  <2>2. CASE Start(s, c)
    <3>1. before' \in [Socks -> Programs \cup {NoProgram}]
      BY <2>2 DEF Start, SockTypeOK
    <3>2. original' \in [Socks -> Strings \cup {None}]
      BY <2>2 DEF Start
    <3>3. call' \in [Socks -> Calls \cup {Idle}] /\ Tuning'
      BY <2>2 DEF Start, Calls
    <3>4. pc' \in [Socks -> {"out", "tune", "wait", "restore"}]
      BY <2>2 DEF Start
    <3> QED
      BY <2>1, <2>2, <3>1, <3>2, <3>3, <3>4 DEF Start
  <2>3. CASE StartClosed(s, c)
    BY <2>1, <2>3 DEF StartClosed
  <2> QED
    BY <1>4, <2>2, <2>3
<1>5. ASSUME NEW s \in Socks, Tune(s) PROVE TypeInv'
  BY <1>5, SetFilterType DEF Tune, Strings
<1>6. ASSUME NEW s \in Socks, Take(s) PROVE TypeInv'
  <2>1. PICK p \in Frames : NextEx(s, p) /\ reply' = [reply EXCEPT ![s] = Append(@, p)]
    BY <1>6 DEF Take
  <2>2. SockTypeOK'
    BY <2>1 DEF NextEx, SockTypeOK
  <2>3. reply' \in [Socks -> Seq(Frames)]
    BY <2>1
  <2>4. /\ pc' \in [Socks -> {"out", "tune", "wait", "restore"}]
        /\ outcome' \in [Socks -> {"none", "returned", "raised", "undefined"}]
    BY <1>6 DEF Take, Leave
  <2>5. Tuning'
    BY <1>6 DEF Take, Leave
  <2> QED
    BY <1>6, <2>2, <2>3, <2>4, <2>5 DEF Take
<1>7. ASSUME NEW s \in Socks, TimeOut(s) \/ ReadError(s) PROVE TypeInv'
  BY <1>7, ZenonT(40) DEF TimeOut, Leave, ReadError, SockTypeOK
<1>8. ASSUME NEW s \in Socks, Restore(s) PROVE TypeInv'
  <2>1. CASE SetFilter(s, original[s]) /\ original[s] \in Strings
    BY <1>8, <2>1, SetFilterType DEF Restore
  <2>2. CASE SetFilter(s, Empty)
    BY <1>8, <2>2, SetFilterType DEF Restore, Strings
  <2>3. CASE UNCHANGED <<sockVars, filter, obeyed>>
    BY <1>8, <2>3 DEF Restore, SockTypeOK
  <2> QED
    BY <1>8, <2>1, <2>2, <2>3 DEF Restore, Truthy, Strings
<1>9. CASE UNCHANGED vars
  BY <1>9 DEF vars, SockTypeOK
<1> QED
  BY <1>1, <1>2, <1>3, <1>4, <1>5, <1>6, <1>7, <1>8, <1>9 DEF Next

LEMMA TypeInvariant == Spec => []TypeInv
<1>1. Init => TypeInv
  BY DEF Init, SockInit, TypeInv, Tuning, TypeOK, SockTypeOK, HandleStates, Frames
<1> QED
  BY <1>1, TypeStep, PTL DEF Spec

(* TypeCorrect: every variable keeps its type.                             *)
THEOREM TypeCorrect == Spec => []TypeOK
BY TypeInvariant, PTL DEF TypeInv

-----------------------------------------------------------------------------
(* What srp1() relies on: self._filter describes the handle's program (in  *)
(* every state of the handle), so the remembered string can rebuild it.    *)
AgreeInv == \A s \in Socks : program[s] = Meaning(filter[s])

(* While a call is in progress, and after it returned.                     *)
BorrowInv ==
  \A s \in Socks :
    /\ pc[s] # "out" =>
         /\ outcome[s] = "none"
         /\ Meaning(original[s]) = before[s]
         /\ call[s].op = "recvl2" => call[s].want = None
         /\ pc[s] = "tune" \/ call[s].want = None => program[s] = before[s]
    /\ outcome[s] = "returned" /\ obeyed[s] => program[s] = before[s]

LEMMA AgreeStep == TypeInv /\ AgreeInv /\ [Next]_vars => AgreeInv'
<1> SUFFICES ASSUME TypeInv, AgreeInv, [Next]_vars PROVE AgreeInv'
  OBVIOUS
<1> USE DEF TypeInv, AgreeInv, sockVars, callVars
<1>1. ASSUME NEW s \in Socks, NEW f \in Strings, SetFilter(s, f) PROVE AgreeInv'
  <2>1. CASE UNCHANGED <<program, filter>>
    BY <2>1
  <2>2. CASE InstallFilter(s, Meaning(f)) /\ filter' = [filter EXCEPT ![s] = f]
    <3>1. program'[s] = Meaning(f) /\ filter'[s] = f
      BY <2>2 DEF InstallFilter, TypeOK, SockTypeOK
    <3>2. \A r \in Socks \ {s} : program'[r] = program[r] /\ filter'[r] = filter[r]
      BY <2>2 DEF InstallFilter, TypeOK, SockTypeOK
    <3> QED
      BY <3>1, <3>2
  <2> QED
    BY <1>1, <2>1, <2>2 DEF SetFilter
<1>2. CASE UNCHANGED <<program, filter>>
  BY <1>2
<1>3. ASSUME NEW s \in Socks, Tune(s) PROVE AgreeInv'
  BY <1>1, <1>3 DEF Tune, Goto, Tuning, Strings
<1>4. ASSUME NEW s \in Socks, Restore(s) PROVE AgreeInv'
  BY <1>1, <1>2, <1>4 DEF Restore, Truthy, Strings
<1>5. ASSUME NEW s \in Socks, NEW f \in Strings, UserFilter(s, f) PROVE AgreeInv'
  BY <1>1, <1>5 DEF UserFilter
<1>6. ASSUME NEW s \in Socks,
             \/ Open(s) \/ Close(s) \/ Take(s) \/ TimeOut(s) \/ ReadError(s)
             \/ \E c \in Calls : Start(s, c) \/ StartClosed(s, c)
      PROVE  AgreeInv'
  BY <1>2, <1>6 DEF Open, Activate, Close, Take, NextEx, TimeOut, ReadError,
                    Start, StartClosed
<1>7. CASE HearFrame \/ UNCHANGED vars
  BY <1>2, <1>7 DEF HearFrame, Hear, vars
<1> QED
  BY <1>3, <1>4, <1>5, <1>6, <1>7 DEF Next

LEMMA BorrowStep == TypeInv /\ AgreeInv /\ BorrowInv /\ [Next]_vars => BorrowInv'
<1> SUFFICES ASSUME TypeInv, AgreeInv, BorrowInv, [Next]_vars PROVE BorrowInv'
  OBVIOUS
<1> USE DEF TypeInv, TypeOK, SockTypeOK, BorrowInv, Goto, End, sockVars, callVars
<1>1. ASSUME NEW s \in Socks, NEW f \in Strings, UserFilter(s, f) PROVE BorrowInv'
  BY <1>1 DEF UserFilter, SetFilter, InstallFilter
<1>2. ASSUME NEW s \in Socks, NEW c \in Calls, Sensible(c), Start(s, c)
      PROVE  BorrowInv'
  BY <1>2 DEF Start, AgreeInv, Sensible
<1>3. ASSUME NEW s \in Socks, NEW c \in Calls, StartClosed(s, c)
      PROVE  BorrowInv'
  BY <1>3 DEF StartClosed
<1>4. ASSUME NEW s \in Socks, Tune(s) PROVE BorrowInv'
  <2>1. call[s].want # None /\ outcome[s] = "none" /\ call[s].op # "recvl2"
    BY <1>4 DEF Tune, Tuning, Strings
  <2> QED
    BY <1>4, <2>1 DEF Tune, SetFilter, InstallFilter
<1>5. ASSUME NEW s \in Socks, Take(s) \/ TimeOut(s) \/ ReadError(s)
      PROVE  BorrowInv'
  <2>1. UNCHANGED <<program, filter, call, original, before, obeyed>>
    BY <1>5 DEF Take, NextEx, TimeOut, ReadError
  <2>2. \A r \in Socks \ {s} : pc'[r] = pc[r] /\ outcome'[r] = outcome[r]
    BY <1>5 DEF Take, TimeOut, ReadError, Leave
  <2>3. /\ pc[s] = "wait"
        /\ \/ pc'[s] \in {"wait", "restore"} /\ outcome'[s] = outcome[s]
           \/ pc'[s] = "out" /\ outcome'[s] = "raised"
           \/ pc'[s] = "out" /\ outcome'[s] = "returned" /\ call[s].op = "recvl2"
    BY <1>5 DEF Take, TimeOut, ReadError, Leave
  <2> QED
    BY <2>1, <2>2, <2>3
<1>6. ASSUME NEW s \in Socks, Restore(s) PROVE BorrowInv'
  <2>1. UNCHANGED <<call, original, before>> /\ pc'[s] = "out"
    BY <1>6 DEF Restore
  <2>2. \A r \in Socks \ {s} : /\ pc'[r] = pc[r] /\ outcome'[r] = outcome[r]
                               /\ program'[r] = program[r]
                               /\ obeyed'[r] = obeyed[r]
    BY <1>6 DEF Restore, SetFilter, InstallFilter
  <2>3. obeyed'[s] => program'[s] = before[s]
    <3>1. Meaning(original[s]) = before[s]
          /\ (call[s].want = None => program[s] = before[s])
      BY <1>6 DEF Restore
    <3> QED
      BY <1>6, <3>1 DEF Restore, SetFilter, InstallFilter, Meaning, Truthy
  <2> QED
    BY <2>1, <2>2, <2>3
<1>7. ASSUME NEW s \in Socks, Open(s) \/ Close(s) PROVE BorrowInv'
  BY <1>7 DEF Open, Activate, Close
<1>8. CASE HearFrame \/ UNCHANGED vars
  BY <1>8 DEF HearFrame, Hear, vars
<1> QED
  BY <1>1, <1>2, <1>3, <1>4, <1>5, <1>6, <1>7, <1>8 DEF Next

LEMMA FilterInit == Init => AgreeInv /\ BorrowInv
BY DEF Init, SockInit, AgreeInv, BorrowInv, Meaning, Truthy, Strings

(* AgreeCorrect: no sequence of calls, failed set_filter()s included, lets *)
(* self._filter and the handle's program disagree.                         *)
THEOREM AgreeCorrect == Spec => []FilterAgrees
<1>1. AgreeInv => FilterAgrees
  BY DEF AgreeInv, FilterAgrees
<1> QED
  BY <1>1, FilterInit, TypeInvariant, AgreeStep, PTL DEF Spec

(* BorrowCorrect: srp1() and srp() give the filter back when they return.  *)
THEOREM BorrowCorrect == Spec => []FilterRestored
<1>1. BorrowInv => FilterRestored
  BY DEF BorrowInv, FilterRestored
<1> QED
  BY <1>1, FilterInit, TypeInvariant, AgreeStep, BorrowStep, PTL DEF Spec

-----------------------------------------------------------------------------
(* What a call collects.  A count is never reached inside the loop.        *)
CollectInv ==
  \A s \in Socks :
    /\ call[s].op = "srp1" => call[s].count = 0
    /\ pc[s] = "tune" => reply[s] = <<>>
    /\ call[s].count > 0 =>
         /\ Len(reply[s]) <= call[s].count
         /\ pc[s] \in {"tune", "wait"} => Len(reply[s]) < call[s].count

(* While the filter of a call is in force, the ring holds nothing else.    *)
Forced(s) ==
  call[s].want # None /\ obeyed[s] =>
    /\ pc[s] = "wait" =>
         /\ program[s] = call[s].want
         /\ \A p \in ring[s] : Passes(call[s].want, p)
    /\ \A i \in DOMAIN reply[s] : Passes(call[s].want, reply[s][i])

ForceInv == \A s \in Socks : Forced(s)

LEMMA CollectInit == Init => CollectInv /\ ForceInv
BY DEF Init, CollectInv, ForceInv, Forced, Idle

(* The steps of one socket that leave the call and its frames alone.       *)
LEMMA CollectQuiet ==
  ASSUME NEW s \in Socks, NEW to \in {"out", "restore", "wait"},
         TypeOK, CollectInv, UNCHANGED <<call, reply>>,
         to = "wait" => pc[s] = "tune",
         pc' = [pc EXCEPT ![s] = to]
  PROVE  CollectInv'
BY DEF CollectInv, TypeOK

LEMMA CollectStep == TypeInv /\ CollectInv /\ [Next]_vars => CollectInv'
<1> SUFFICES ASSUME TypeInv, CollectInv, [Next]_vars PROVE CollectInv'
  OBVIOUS
<1> USE DEF TypeInv, Goto, End, sockVars, callVars
<1>1. ASSUME UNCHANGED <<call, reply, pc>> PROVE CollectInv'
  BY <1>1 DEF CollectInv
<1>2. CASE HearFrame \/ UNCHANGED vars
  BY <1>1, <1>2 DEF HearFrame, vars
<1>3. ASSUME NEW s \in Socks,
             \/ Open(s) \/ Close(s) \/ \E f \in Strings : UserFilter(s, f)
      PROVE  CollectInv'
  BY <1>1, <1>3 DEF Open, Close, UserFilter
<1>4. ASSUME NEW s \in Socks, Tune(s) \/ TimeOut(s) \/ ReadError(s) \/ Restore(s)
      PROVE  CollectInv'
  <2>1. UNCHANGED <<call, reply>>
    BY <1>4 DEF Tune, TimeOut, ReadError, Restore
  <2>2. \E to \in {"out", "restore", "wait"} :
          (to = "wait" => pc[s] = "tune") /\ pc' = [pc EXCEPT ![s] = to]
    BY <1>4 DEF Tune, TimeOut, ReadError, Restore, Leave
  <2> QED
    BY <2>1, <2>2, CollectQuiet
<1>5. ASSUME NEW s \in Socks, NEW c \in Calls, Sensible(c),
             Start(s, c) \/ StartClosed(s, c)
      PROVE  CollectInv'
  <2>1. /\ call' = [call EXCEPT ![s] = c] /\ reply' = [reply EXCEPT ![s] = <<>>]
        /\ \A r \in Socks \ {s} : pc'[r] = pc[r]
    BY <1>5 DEF Start, StartClosed, TypeOK
  <2>2. c.count \in Nat /\ (c.op = "srp1" => c.count = 0)
    BY <1>5 DEF Sensible, Calls
  <2>3. call'[s] = c /\ reply'[s] = <<>>
        /\ \A r \in Socks \ {s} : call'[r] = call[r] /\ reply'[r] = reply[r]
    BY <2>1 DEF TypeOK
  <2> QED
    BY <2>1, <2>2, <2>3 DEF CollectInv
<1>6. ASSUME NEW s \in Socks, Take(s) PROVE CollectInv'
  <2>1. PICK p \in Frames : reply' = [reply EXCEPT ![s] = Append(@, p)]
    BY <1>6 DEF Take
  <2>2. /\ Len(reply'[s]) = Len(reply[s]) + 1 /\ Len(reply[s]) \in Nat
        /\ \A r \in Socks \ {s} : reply'[r] = reply[r]
    BY <2>1 DEF TypeOK
  <2>3. /\ pc[s] = "wait" /\ call' = call /\ pc'[s] # "tune"
        /\ \A r \in Socks \ {s} : pc'[r] = pc[r]
        /\ Full(s, Len(reply[s]) + 1) => pc'[s] \in {"out", "restore"}
    BY <1>6 DEF Take, Leave, TypeOK
  <2>4. call[s].count \in Nat
    <3>1. call[s] \in Calls \/ call[s] = Idle
      BY DEF TypeOK
    <3>2. ASSUME NEW c \in Calls PROVE c.count \in Nat
      BY DEF Calls
    <3> QED
      BY <3>1, <3>2 DEF Idle
  <2> QED
    BY <2>2, <2>3, <2>4 DEF CollectInv, Full
<1> QED
  BY <1>2, <1>3, <1>4, <1>5, <1>6 DEF Next

LEMMA ForceStep ==
  TypeInv /\ CollectInv /\ ForceInv /\ [Next]_vars => ForceInv'
<1> SUFFICES ASSUME TypeInv, CollectInv, ForceInv, [Next]_vars PROVE ForceInv'
  OBVIOUS
<1> USE DEF TypeInv, TypeOK, SockTypeOK, ForceInv, Forced, Goto, End, sockVars, callVars
<1>1. CASE HearFrame
  <2>1. UNCHANGED <<call, pc, reply, obeyed, program>>
    BY <1>1 DEF HearFrame, Hear
  <2>2. \A s \in Socks : \A p \in ring'[s] : p \in ring[s] \/ Passes(program[s], p)
    BY <1>1 DEF HearFrame, Hear
  <2> QED
    BY <2>1, <2>2
<1>2. ASSUME NEW s \in Socks, Open(s) \/ Close(s) PROVE ForceInv'
  <2>1. UNCHANGED <<call, pc, reply, obeyed, program>>
    BY <1>2 DEF Open, Close, Activate
  <2>2. \A r \in Socks : ring'[r] \subseteq ring[r]
    BY <1>2 DEF Open, Close, Activate
  <2> QED
    BY <2>1, <2>2
<1>3. ASSUME NEW s \in Socks, NEW f \in Strings, UserFilter(s, f) PROVE ForceInv'
  BY <1>3, ZenonT(40) DEF UserFilter, SetFilter, InstallFilter
<1>4. ASSUME NEW s \in Socks, NEW c \in Calls, Start(s, c) PROVE ForceInv'
  <2>1. /\ call'[s] = c /\ reply'[s] = <<>> /\ (c.want # None => pc'[s] = "tune")
        /\ UNCHANGED <<program, ring>>
    BY <1>4 DEF Start
  <2>2. \A r \in Socks \ {s} : /\ call'[r] = call[r] /\ reply'[r] = reply[r]
                               /\ pc'[r] = pc[r] /\ obeyed'[r] = obeyed[r]
    BY <1>4 DEF Start
  <2>3. Forced(s)'
    BY <2>1
  <2>4. ASSUME NEW r \in Socks \ {s} PROVE Forced(r)'
    BY <2>1, <2>2
  <2> QED
    BY <2>3, <2>4
<1>5. ASSUME NEW s \in Socks, NEW c \in Calls, StartClosed(s, c) PROVE ForceInv'
  BY <1>5 DEF StartClosed
<1>6. ASSUME NEW s \in Socks, Tune(s) PROVE ForceInv'
  <2>1. call[s].want \in Programs /\ reply[s] = <<>> /\ UNCHANGED <<call, reply>>
    BY <1>6 DEF Tune, Tuning, CollectInv
  <2>2. \A r \in Socks \ {s} : /\ program'[r] = program[r] /\ ring'[r] = ring[r]
                               /\ pc'[r] = pc[r] /\ obeyed'[r] = obeyed[r]
    BY <1>6 DEF Tune, SetFilter, InstallFilter
  <2>3. obeyed'[s] => /\ program'[s] = call[s].want
                      /\ \A p \in ring'[s] : Passes(call[s].want, p)
    BY <1>6, <2>1 DEF Tune, SetFilter, InstallFilter, Meaning, Truthy
  <2>4. Forced(s)'
    BY <2>1, <2>3
  <2>5. ASSUME NEW r \in Socks \ {s} PROVE Forced(r)'
    BY <2>1, <2>2
  <2> QED
    BY <2>4, <2>5
<1>7. ASSUME NEW s \in Socks, Take(s) PROVE ForceInv'
  <2>1. PICK p \in Frames : NextEx(s, p) /\ reply' = [reply EXCEPT ![s] = Append(@, p)]
    BY <1>7 DEF Take
  <2>2. /\ pc[s] = "wait" /\ UNCHANGED <<call, obeyed, program>>
        /\ p \in ring[s] /\ \A r \in Socks : ring'[r] \subseteq ring[r]
        /\ \A r \in Socks \ {s} : pc'[r] = pc[r] /\ reply'[r] = reply[r]
    BY <1>7, <2>1 DEF Take, Leave, NextEx, Oldest
  <2>3. \A i \in DOMAIN reply'[s] : reply'[s][i] = p \/ (i \in DOMAIN reply[s] /\ reply'[s][i] = reply[s][i])
    BY <2>1
  <2>4. ASSUME call[s].want # None, obeyed[s]
        PROVE  \A i \in DOMAIN reply'[s] : Passes(call[s].want, reply'[s][i])
    BY <2>2, <2>3, <2>4
  <2> QED
    BY <2>2, <2>4
<1>8. ASSUME NEW s \in Socks, TimeOut(s) \/ ReadError(s) PROVE ForceInv'
  BY <1>8 DEF TimeOut, ReadError, Leave
<1>9. ASSUME NEW s \in Socks, Restore(s) PROVE ForceInv'
  BY <1>9 DEF Restore, SetFilter, InstallFilter
<1>10. CASE UNCHANGED vars
  BY <1>10 DEF vars
<1> QED
  BY <1>1, <1>2, <1>3, <1>4, <1>5, <1>6, <1>7, <1>8, <1>9, <1>10 DEF Next

(* CountCorrect: recvl2() and srp() never return more than `count` frames, *)
(* for every count and traffic.                                            *)
THEOREM CountCorrect == Spec => []CountRespected
<1>1. CollectInv => CountRespected
  BY DEF CollectInv, CountRespected
<1> QED
  BY <1>1, TypeInvariant, CollectInit, CollectStep, PTL DEF Spec

(* FilterCorrect: a call with a filter collects only frames that filter    *)
(* accepts, even those heard before it was installed.                      *)
THEOREM FilterCorrect == Spec => []FilteredReply
<1>1. ForceInv => FilteredReply
  BY DEF ForceInv, Forced, FilteredReply
<1> QED
  BY <1>1, TypeInvariant, CollectInit, CollectStep, ForceStep, PTL DEF Spec

=============================================================================
