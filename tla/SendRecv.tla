------------------------------ MODULE SendRecv ------------------------------
(***************************************************************************)
(* Send-and-receive on an L2Socket: recvl2(), srp1(), srp(), set_filter()  *)
(* and close() (Layers/L2SocketL.py).  Every socket is used by one thread, *)
(* as utils/Nsec/arp_resolution.py uses one socket per probe; frames are   *)
(* heard between any two steps of a call.                                  *)
(*                                                                         *)
(* srp1() and srp() borrow the socket's filter for one exchange: remember  *)
(* self._filter, install theirs, put the old one back.                     *)
(***************************************************************************)
EXTENDS L2Socket, Sequences

CONSTANTS
  None,      \* Python's None, as a filter string
  Counts,    \* the values of `count` callers pass
  Failures   \* what may fail: "set_filter", "read"

(* self._filter: never set, set to a program, or set to "" (= every frame).*)
Empty == ""
Strings == Programs \cup {Empty}
Truthy(f) == f \in Programs

(* Mutant of Meaning: the empty string is a program of its own.            *)
MeaningLiteral(f) == f

Meaning(f) == IF Truthy(f) THEN f ELSE NoProgram

Calls == [op : {"recvl2", "srp1", "srp"}, want : Programs \cup {None},
          count : Counts, timed : BOOLEAN]
Idle == [op |-> "none", want |-> None, count |-> 0, timed |-> TRUE]

ASSUME SendRecvAssumption ==
  /\ Counts \subseteq Nat
  /\ None \notin Strings /\ Empty \notin Programs
  /\ Failures \subseteq {"set_filter", "read"}

VARIABLES
  filter,    \* filter[s]: self._filter
  call,      \* call[s]: the call in progress or the last one
  pc,        \* pc[s]: "out", "tune", "wait", "restore"
  original,  \* original[s]: the local original_filter
  reply,     \* reply[s]: frames received so far by the call
  outcome,   \* outcome[s]: "none", "returned", "raised" or "undefined"
  before,    \* history: the program the handle ran when the call began
  obeyed     \* history: every set_filter() of the call succeeded

callVars == <<call, original, before>>
vars == <<sockVars, filter, callVars, pc, reply, outcome, obeyed>>

Init ==
  /\ SockInit
  /\ filter = [s \in Socks |-> None]
  /\ call = [s \in Socks |-> Idle]
  /\ pc = [s \in Socks |-> "out"]
  /\ original = [s \in Socks |-> None]
  /\ reply = [s \in Socks |-> <<>>]
  /\ outcome = [s \in Socks |-> "none"]
  /\ before = [s \in Socks |-> NoProgram]
  /\ obeyed = [s \in Socks |-> TRUE]

Goto(s, from, to) == pc[s] = from /\ pc' = [pc EXCEPT ![s] = to]
End(s, how) == outcome' = [outcome EXCEPT ![s] = how]

-----------------------------------------------------------------------------
(* Mutant of SetFilter: self._filter is assigned before it is known        *)
(* whether the program was installed.                                      *)
SetFilterEarly(s, f) ==
  /\ filter' = [filter EXCEPT ![s] = f]
  /\ \/ InstallFilter(s, Meaning(f)) /\ UNCHANGED obeyed
     \/ "set_filter" \in Failures /\ UNCHANGED <<sockVars, obeyed>>

(* set_filter(f): False, and nothing changed, when it does not compile or  *)
(* cannot be installed.                                                    *)
SetFilter(s, f) ==
  \/ /\ InstallFilter(s, Meaning(f))
     /\ filter' = [filter EXCEPT ![s] = f]
     /\ UNCHANGED obeyed
  \/ /\ "set_filter" \in Failures
     /\ obeyed' = [obeyed EXCEPT ![s] = FALSE]
     /\ UNCHANGED <<sockVars, filter>>

Open(s) ==
  /\ Activate(s)
  /\ UNCHANGED <<filter, callVars, pc, reply, outcome, obeyed>>

(* The user sets a filter between two calls (nothing happens once closed). *)
UserFilter(s, f) ==
  /\ handle[s] = "open" /\ pc[s] = "out"
  /\ SetFilter(s, f)
  /\ End(s, "none")
  /\ UNCHANGED <<callVars, pc, reply>>

Close(s) ==
  /\ handle[s] = "open" /\ pc[s] = "out"
  /\ handle' = [handle EXCEPT ![s] = "closed"]
  /\ ring' = [ring EXCEPT ![s] = {}]
  /\ End(s, "none")
  /\ UNCHANGED <<program, wire, filter, callVars, pc, reply, obeyed>>

(* A call begins: inject the request (srp1, srp), then read self._filter.  *)
Start(s, c) ==
  /\ handle[s] = "open"
  /\ Goto(s, "out", IF c.want = None THEN "wait" ELSE "tune")
  /\ call' = [call EXCEPT ![s] = c]
  /\ original' = [original EXCEPT ![s] = filter[s]]
  /\ reply' = [reply EXCEPT ![s] = <<>>]
  /\ before' = [before EXCEPT ![s] = program[s]]
  /\ obeyed' = [obeyed EXCEPT ![s] = TRUE]
  /\ End(s, "none")
  /\ UNCHANGED <<sockVars, filter>>

(* On a closed socket recvl2() and srp1() raise; srp() has no such test    *)
(* and passes a NULL handle to pcap_inject: what happens is undefined.     *)
StartClosed(s, c) ==
  /\ handle[s] = "closed" /\ pc[s] = "out"
  /\ call' = [call EXCEPT ![s] = c]
  /\ End(s, IF c.op = "srp" THEN "undefined" ELSE "raised")
  /\ reply' = [reply EXCEPT ![s] = <<>>]
  /\ UNCHANGED <<sockVars, filter, original, before, pc, obeyed>>

(* Mutant of Tune: a filter the user set is not overridden.                *)
TuneUnlessSet(s) ==
  /\ Goto(s, "tune", "wait")
  /\ IF Truthy(original[s]) THEN UNCHANGED <<sockVars, filter, obeyed>>
                            ELSE SetFilter(s, call[s].want)
  /\ UNCHANGED <<callVars, reply, outcome>>

Tune(s) ==
  /\ Goto(s, "tune", "wait")
  /\ SetFilter(s, call[s].want)
  /\ UNCHANGED <<callVars, reply, outcome>>

-----------------------------------------------------------------------------
(* The receive loop                                                        *)

Leave(s) ==
  IF call[s].op = "recvl2"
  THEN Goto(s, "wait", "out") /\ End(s, "returned")
  ELSE Goto(s, "wait", "restore") /\ UNCHANGED outcome

(* Mutant of Full: the loop goes on when the count is reached.             *)
FullLate(s, n) == call[s].op = "srp1" \/ (call[s].count > 0 /\ n > call[s].count)

Full(s, n) == call[s].op = "srp1" \/ (call[s].count > 0 /\ n >= call[s].count)

(* pcap_next_ex hands out a frame.                                         *)
Take(s) ==
  /\ pc[s] = "wait"
  /\ \E p \in Frames : NextEx(s, p) /\ reply' = [reply EXCEPT ![s] = Append(@, p)]
  /\ IF Full(s, Len(reply[s]) + 1) THEN Leave(s) ELSE UNCHANGED <<pc, outcome>>
  /\ UNCHANGED <<filter, callVars, obeyed>>

(* Mutant of TimeOut: the deadline is tested only when a frame arrived.    *)
TimeOutOnFrame(s) ==
  /\ pc[s] = "wait" /\ call[s].timed /\ ring[s] # {}
  /\ Leave(s)
  /\ UNCHANGED <<sockVars, filter, callVars, reply, obeyed>>

(* The deadline: select() was not ready, or no time remains.  recvl2()     *)
(* with timeout <= 0 has none.                                             *)
TimeOut(s) ==
  /\ pc[s] = "wait"
  /\ call[s].timed
  /\ Leave(s)
  /\ UNCHANGED <<sockVars, filter, callVars, reply, obeyed>>

(* pcap_next_ex returns -1: the call raises where it stands.               *)
ReadError(s) ==
  /\ "read" \in Failures
  /\ Goto(s, "wait", "out")
  /\ End(s, "raised")
  /\ UNCHANGED <<sockVars, filter, callVars, reply, obeyed>>

(* Mutant of Restore: only a filter that was set is put back.              *)
RestoreOnlySet(s) ==
  /\ Goto(s, "restore", "out")
  /\ IF Truthy(original[s]) THEN SetFilter(s, original[s])
                            ELSE UNCHANGED <<sockVars, filter, obeyed>>
  /\ End(s, "returned")
  /\ UNCHANGED <<callVars, reply>>

Restore(s) ==
  /\ Goto(s, "restore", "out")
  /\ \/ Truthy(original[s]) /\ SetFilter(s, original[s])
     \/ /\ ~Truthy(original[s]) /\ call[s].want # None
        /\ SetFilter(s, Empty)
     \/ /\ ~Truthy(original[s]) /\ call[s].want = None
        /\ UNCHANGED <<sockVars, filter, obeyed>>
  /\ End(s, "returned")
  /\ UNCHANGED <<callVars, reply>>

-----------------------------------------------------------------------------
HearFrame ==
  /\ Hear
  /\ UNCHANGED <<filter, callVars, pc, reply, outcome, obeyed>>

(* recvl2() takes no filter; srp1() takes no count; only recvl2() may be   *)
(* called without a deadline.                                              *)
Sensible(c) ==
  /\ c.op = "recvl2" => c.want = None
  /\ c.op = "srp1" => c.count = 0
  /\ c.op # "recvl2" => c.timed

Next ==
  \/ HearFrame
  \/ \E s \in Socks :
       \/ Open(s) \/ Close(s)
       \/ \E f \in Strings : UserFilter(s, f)
       \/ \E c \in Calls : Sensible(c) /\ (Start(s, c) \/ StartClosed(s, c))
       \/ Tune(s) \/ Take(s) \/ TimeOut(s) \/ ReadError(s) \/ Restore(s)

Spec == Init /\ [][Next]_vars

(* The deadline arrives and a runnable call runs; no frame need come.      *)
FairSpec ==
  Spec /\ \A s \in Socks :
    WF_vars(Tune(s)) /\ WF_vars(TimeOut(s)) /\ WF_vars(Restore(s))

-----------------------------------------------------------------------------
TypeOK ==
  /\ SockTypeOK
  /\ filter \in [Socks -> Strings \cup {None}]
  /\ call \in [Socks -> Calls \cup {Idle}]
  /\ pc \in [Socks -> {"out", "tune", "wait", "restore"}]
  /\ original \in [Socks -> Strings \cup {None}]
  /\ reply \in [Socks -> Seq(Frames)]
  /\ outcome \in [Socks -> {"none", "returned", "raised", "undefined"}]
  /\ before \in [Socks -> Programs \cup {NoProgram}]
  /\ obeyed \in [Socks -> BOOLEAN]

(* FilterAgrees: self._filter always names the program the handle runs,    *)
(* through every failed set_filter(): it is what srp1() puts back.         *)
FilterAgrees ==
  \A s \in Socks : handle[s] = "open" => program[s] = Meaning(filter[s])

(* FilterRestored: srp1() and srp() that return leave the handle with the  *)
(* filter it had, if no set_filter() failed.  (One that raises does not.)  *)
FilterRestored ==
  \A s \in Socks :
    outcome[s] = "returned" /\ obeyed[s] => program[s] = before[s]

(* FilteredReply: what a call with a filter collects is what that filter   *)
(* accepts, the frames buffered before it was installed included.          *)
FilteredReply ==
  \A s \in Socks :
    call[s].want # None /\ obeyed[s] =>
      \A i \in DOMAIN reply[s] : Passes(call[s].want, reply[s][i])

(* CountRespected: recvl2() and srp() never return more than count frames. *)
CountRespected ==
  \A s \in Socks :
    call[s].count > 0 => Len(reply[s]) <= call[s].count

(* Returns: every call with a deadline ends, whatever the traffic.         *)
Returns ==
  \A s \in Socks : (pc[s] # "out" /\ call[s].timed) ~> (pc[s] = "out")

=============================================================================
