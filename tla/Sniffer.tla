------------------------------ MODULE Sniffer ------------------------------
(***************************************************************************)
(* One Sniffer object (Sniffer.py) used by the threads in Threads.  Each   *)
(* thread may run stream() generators on it one after another, may leave a *)
(* `with` block (__exit__), and any thread may call stop().                *)
(*                                                                         *)
(* pc[t] is where thread t's current call is:                              *)
(*   idle                  no generator yet                                *)
(*   construct link filter _open()                                         *)
(*   loop limits           the while test, then the count and time limits  *)
(*   recv select read      recv_one(): attribute and closed tests, then    *)
(*                         the two calls into libpcap                      *)
(*   load tally            "+= 1" on the counter: its load, then its store *)
(*   yield                 suspended at the yield                          *)
(*   close free mark       _close() and L2Socket.close() under it          *)
(*   forget                "self._sock = None"                             *)
(*   done raised           the generator returned, or raised               *)
(*   failed                _open() raised, which is outside the try block  *)
(***************************************************************************)
EXTENDS L2Socket, Sequences

CONSTANTS
  Threads,   \* the threads that share the Sniffer
  Count,     \* Sniffer(count=...); 0 is "no limit"
  Program,   \* Sniffer(filter=...), or NoProgram
  Faults     \* the environment's failures that may happen

FaultKinds == {"construct", "link", "filter", "recv", "interrupt"}

ASSUME SnifferAssumption ==
  /\ IsFiniteSet(Threads)
  /\ Count \in Nat
  /\ Program \in Programs \cup {NoProgram}
  /\ Faults \subseteq FaultKinds

VARIABLES
  sock,      \* self._sock
  stop,      \* self._stop_event is set
  captured,  \* self._packets_captured
  pc,
  after,     \* after[t]: pc[t] once the _close() in progress is over
  on,        \* on[t]: the socket whose method t is executing
  pkt,       \* pkt[t]: the frame recv_one returned (0: none)
  deadline,  \* deadline[t]: "none" without self.timeout, else whether the
             \* timeout of t's generator is still "ahead" or "past"
  got,       \* history: frames t's consumer was handed
  late,      \* history: how many of them were counted after stop()
  seen,      \* seen[t]: the value of self._packets_captured t has loaded
  ub         \* a libpcap call was made with a NULL or a freed handle

threadVars == <<pc, after, on, pkt, deadline, got, late, seen>>
vars == <<sockVars, sock, stop, captured, threadVars, ub>>

Rest == {"idle", "done", "raised", "failed"}
PCs == Rest \cup {"construct", "link", "filter", "loop", "limits", "recv",
                  "select", "read", "load", "tally", "yield",
                  "close", "free", "mark", "forget"}

Init ==
  /\ SockInit
  /\ sock = NoSock
  /\ stop = FALSE
  /\ captured = 0
  /\ pc = [t \in Threads |-> "idle"]
  /\ after = [t \in Threads |-> "idle"]
  /\ on = [t \in Threads |-> NoSock]
  /\ pkt = [t \in Threads |-> 0]
  /\ \E d \in {"none", "ahead"} : deadline = [t \in Threads |-> d]
  /\ got = [t \in Threads |-> <<>>]
  /\ late = [t \in Threads |-> 0]
  /\ seen = [t \in Threads |-> 0]
  /\ ub = FALSE

Goto(t, from, to) == pc[t] = from /\ pc' = [pc EXCEPT ![t] = to]

(* Mutant of Leave: no `finally`.                                          *)
LeaveNoFinally(t, from, end) == Goto(t, from, end) /\ UNCHANGED after

(* The generator leaves the try block: _close() runs, then pc is `end`.    *)
Leave(t, from, end) ==
  /\ Goto(t, from, "close")
  /\ after' = [after EXCEPT ![t] = end]

(* A call into libpcap with a handle that is not open is undefined.  What  *)
(* it does is not modelled: the caller does not come back from it.         *)
Undefined(s) ==
  /\ handle[s] # "open"
  /\ ub' = TRUE
  /\ UNCHANGED <<sockVars, sock, stop, captured, threadVars>>

-----------------------------------------------------------------------------
(* _open()                                                                 *)

(* Mutant of Begin: each generator counts from zero.                       *)
BeginCountsAnew(t) ==
  /\ pc[t] \in Rest
  /\ sock = NoSock => \E s \in Socks : handle[s] = "none"
  /\ pc' = [pc EXCEPT ![t] = IF sock = NoSock THEN "construct" ELSE "loop"]
  /\ deadline' = [deadline EXCEPT ![t] = IF @ = "none" THEN @ ELSE "ahead"]
  /\ captured' = 0
  /\ UNCHANGED <<sockVars, sock, stop, after, on, pkt, got, late, seen, ub>>

Begin(t) ==
  /\ pc[t] \in Rest
  /\ sock = NoSock => \E s \in Socks : handle[s] = "none"  \* Socks is a bound
  /\ pc' = [pc EXCEPT ![t] = IF sock = NoSock THEN "construct" ELSE "loop"]
  /\ deadline' = [deadline EXCEPT ![t] = IF @ = "none" THEN @ ELSE "ahead"]
  /\ UNCHANGED <<sockVars, sock, stop, captured, after, on, pkt, got, late,
                 seen, ub>>

Construct(t) ==
  \/ /\ \E s \in Socks : Activate(s) /\ sock' = s
     /\ Goto(t, "construct", "link")
     /\ UNCHANGED <<stop, captured, after, on, pkt, deadline, got, late, seen,
                    ub>>
  \/ /\ "construct" \in Faults
     /\ Goto(t, "construct", "failed")
     /\ UNCHANGED <<sockVars, sock, stop, captured, after, on, pkt, deadline,
                    got, late, seen, ub>>

(* Mutant of Link: the filter is never installed.                          *)
LinkNoFilter(t) ==
  /\ Goto(t, "link", "loop")
  /\ UNCHANGED <<sockVars, sock, stop, captured, after, on, pkt, deadline,
                 got, late, seen, ub>>

(* A second, throw-away socket is constructed for datalink(); its failure  *)
(* leaves _open() with self._sock already assigned.                        *)
Link(t) ==
  /\ \/ Goto(t, "link", IF Program = NoProgram THEN "loop" ELSE "filter")
     \/ "link" \in Faults /\ Goto(t, "link", "failed")
  /\ UNCHANGED <<sockVars, sock, stop, captured, after, on, pkt, deadline,
                 got, late, seen, ub>>

(* self._sock.set_filter(self.filter): its result is not looked at.        *)
SetFilter(t) ==
  /\ pc[t] = "filter"
  /\ \/ /\ sock = NoSock
        /\ Goto(t, "filter", "failed")
        /\ UNCHANGED <<sockVars, ub>>
     \/ /\ sock # NoSock /\ handle[sock] = "open"
        /\ InstallFilter(sock, Program)
        /\ Goto(t, "filter", "loop")
        /\ UNCHANGED ub
     \/ /\ sock # NoSock
        /\ \/ handle[sock] = "closed"
           \/ "filter" \in Faults /\ handle[sock] = "open"
        /\ Goto(t, "filter", "loop")
        /\ UNCHANGED <<sockVars, ub>>
     \/ /\ sock # NoSock /\ handle[sock] = "freed"
        /\ ub' = TRUE
        /\ UNCHANGED <<sockVars, pc>>
  /\ UNCHANGED <<sock, stop, captured, after, on, pkt, deadline, got, late,
                 seen>>

-----------------------------------------------------------------------------
(* The loop of stream()                                                    *)

(* Mutant of Loop: `while True`.                                           *)
LoopForever(t) ==
  /\ Goto(t, "loop", "limits")
  /\ UNCHANGED <<sockVars, sock, stop, captured, after, on, pkt, deadline, got,
                 late, seen, ub>>

Loop(t) ==
  /\ pc[t] = "loop"
  /\ IF stop THEN Leave(t, "loop", "done")
             ELSE Goto(t, "loop", "limits") /\ UNCHANGED after
  /\ UNCHANGED <<sockVars, sock, stop, captured, on, pkt, deadline, got, late,
                 seen, ub>>

(* Mutants of LimitReached: off by one; the deadline is never looked at.   *)
LimitPassed(t) == (Count > 0 /\ captured > Count) \/ deadline[t] = "past"
LimitNoDeadline(t) == Count > 0 /\ captured >= Count

LimitReached(t) == (Count > 0 /\ captured >= Count) \/ deadline[t] = "past"

Limits(t) ==
  /\ pc[t] = "limits"
  /\ IF LimitReached(t) THEN Leave(t, "limits", "done")
                        ELSE Goto(t, "limits", "recv") /\ UNCHANGED after
  /\ UNCHANGED <<sockVars, sock, stop, captured, on, pkt, deadline, got, late,
                 seen, ub>>

(* self._sock.recv_one: None has no such attribute, a closed socket raises.*)
Recv(t) ==
  /\ pc[t] = "recv"
  /\ IF sock # NoSock => handle[sock] = "closed"
     THEN Leave(t, "recv", "raised") /\ UNCHANGED on
     ELSE /\ Goto(t, "recv", "select")
          /\ on' = [on EXCEPT ![t] = sock]
          /\ UNCHANGED after
  /\ UNCHANGED <<sockVars, sock, stop, captured, pkt, deadline, got, late,
                 seen, ub>>

(* Mutant of Select: "no packet" is not told from a packet.                *)
SelectNoNoneTest(t) ==
  /\ pc[t] = "select" /\ handle[on[t]] = "open"
  /\ Goto(t, "select", IF ring[on[t]] = {} THEN "load" ELSE "read")
  /\ UNCHANGED <<sockVars, sock, stop, captured, after, on, pkt, deadline,
                 got, late, seen, ub>>

(* Mutant of Select: a poll that returned no packet is counted too.        *)
SelectCountsPolls(t) ==
  /\ pc[t] = "select" /\ handle[on[t]] = "open"
  /\ IF ring[on[t]] = {}
     THEN Goto(t, "select", "loop") /\ captured' = captured + 1
     ELSE Goto(t, "select", "read") /\ UNCHANGED captured
  /\ UNCHANGED <<sockVars, sock, stop, after, on, pkt, deadline, got, late,
                 seen, ub>>

(* pcap_get_selectable_fd and select: not ready within per_recv_timeout is *)
(* "no packet".                                                            *)
Select(t) ==
  /\ pc[t] = "select"
  /\ \/ Undefined(on[t])
     \/ /\ handle[on[t]] = "open"
        /\ IF ring[on[t]] = {}
           THEN /\ Goto(t, "select", "loop")
                /\ on' = [on EXCEPT ![t] = NoSock]
           ELSE Goto(t, "select", "read") /\ UNCHANGED on
        /\ UNCHANGED <<sockVars, sock, stop, captured, after, pkt, deadline,
                       got, late, seen, ub>>

(* pcap_next_ex: a frame, nothing (another thread took it), or an error.   *)
Read(t) ==
  /\ pc[t] = "read"
  /\ \/ Undefined(on[t])
     \/ /\ handle[on[t]] = "open"
        /\ \/ /\ \E p \in Frames :
                   NextEx(on[t], p) /\ pkt' = [pkt EXCEPT ![t] = p]
              /\ Goto(t, "read", "load")
              /\ UNCHANGED after
           \/ /\ ring[on[t]] = {}
              /\ Goto(t, "read", "loop")
              /\ UNCHANGED <<sockVars, after, pkt>>
           \/ /\ "recv" \in Faults
              /\ Leave(t, "read", "raised")
              /\ UNCHANGED <<sockVars, pkt>>
        /\ on' = [on EXCEPT ![t] = NoSock]
        /\ UNCHANGED <<sock, stop, captured, deadline, got, late, seen, ub>>

(* Ctrl-C while recv_one waits is a stop().                                *)
Interrupt(t) ==
  /\ "interrupt" \in Faults
  /\ Leave(t, "select", "done")
  /\ stop' = TRUE
  /\ on' = [on EXCEPT ![t] = NoSock]
  /\ UNCHANGED <<sockVars, sock, captured, pkt, deadline, got, late, seen, ub>>

(* "self._packets_captured += 1" takes no lock: another thread may run     *)
(* between the load and the store, and its own count is then lost.         *)
Load(t) ==
  /\ Goto(t, "load", "tally")
  /\ seen' = [seen EXCEPT ![t] = captured]
  /\ UNCHANGED <<sockVars, sock, stop, captured, after, on, pkt, deadline,
                 got, late, ub>>

Tally(t) ==
  /\ Goto(t, "tally", "yield")
  /\ captured' = seen[t] + 1
  /\ seen' = [seen EXCEPT ![t] = 0]
  /\ got' = [got EXCEPT ![t] = Append(@, pkt[t])]
  /\ late' = [late EXCEPT ![t] = IF stop THEN @ + 1 ELSE @]
  /\ pkt' = [pkt EXCEPT ![t] = 0]
  /\ UNCHANGED <<sockVars, sock, stop, after, on, deadline, ub>>

(* The consumer asks for the next packet ...                               *)
Resume(t) ==
  /\ Goto(t, "yield", "loop")
  /\ UNCHANGED <<sockVars, sock, stop, captured, after, on, pkt, deadline,
                 got, late, seen, ub>>

(* ... or drops the generator: a break, or a callback of start() raised.   *)
Abandon(t) ==
  /\ Leave(t, "yield", "done")
  /\ UNCHANGED <<sockVars, sock, stop, captured, on, pkt, deadline, got, late,
                 seen, ub>>

Expire(t) ==
  /\ deadline[t] = "ahead"
  /\ pc[t] \notin Rest \cup {"construct", "link", "filter"}
  /\ deadline' = [deadline EXCEPT ![t] = "past"]
  /\ UNCHANGED <<sockVars, sock, stop, captured, pc, after, on, pkt, got, late,
                 seen, ub>>

-----------------------------------------------------------------------------
(* stop(), __exit__() and _close()                                         *)

Stop ==
  /\ ~stop
  /\ stop' = TRUE
  /\ UNCHANGED <<sockVars, sock, captured, threadVars, ub>>

(* The thread leaves the `with` block; its generator, if it has one, stays *)
(* suspended.  With self._sock None this _close() does nothing.            *)
Exit(t) ==
  /\ pc[t] \in Rest \cup {"yield"}
  /\ sock # NoSock
  /\ Leave(t, pc[t], pc[t])
  /\ UNCHANGED <<sockVars, sock, stop, captured, on, pkt, deadline, got, late,
                 seen, ub>>

Close(t) ==
  /\ pc[t] = "close"
  /\ IF sock = NoSock
     THEN Goto(t, "close", after[t]) /\ UNCHANGED on
     ELSE /\ Goto(t, "close", IF handle[sock] = "closed" THEN "forget" ELSE "free")
          /\ on' = [on EXCEPT ![t] = sock]
  /\ UNCHANGED <<sockVars, sock, stop, captured, after, pkt, deadline, got,
                 late, seen, ub>>

Free(t) ==
  /\ pc[t] = "free"
  /\ \/ Undefined(on[t])
     \/ /\ handle[on[t]] = "open"
        /\ PcapClose(on[t])
        /\ Goto(t, "free", "mark")
        /\ UNCHANGED <<sock, stop, captured, after, on, pkt, deadline, got,
                       late, seen, ub>>

Mark(t) ==
  /\ Goto(t, "mark", "forget")
  /\ MarkClosed(on[t])
  /\ UNCHANGED <<sock, stop, captured, after, on, pkt, deadline, got, late,
                 seen, ub>>

Forget(t) ==
  /\ Goto(t, "forget", after[t])
  /\ sock' = NoSock
  /\ on' = [on EXCEPT ![t] = NoSock]
  /\ UNCHANGED <<sockVars, stop, captured, after, pkt, deadline, got, late,
                 seen, ub>>

(* Mutant of Finalise: a socket is collected while it is in use.           *)
FinaliseInUse(s) ==
  /\ handle[s] = "open"
  /\ handle' = [handle EXCEPT ![s] = "closed"]
  /\ ring' = [ring EXCEPT ![s] = {}]
  /\ UNCHANGED <<program, wire, sock, stop, captured, threadVars, ub>>

(* L2Socket.__del__: the last reference to an open socket is gone.         *)
Finalise(s) ==
  /\ handle[s] = "open"
  /\ s # sock
  /\ \A t \in Threads : on[t] # s
  /\ handle' = [handle EXCEPT ![s] = "closed"]
  /\ ring' = [ring EXCEPT ![s] = {}]
  /\ UNCHANGED <<program, wire, sock, stop, captured, threadVars, ub>>

-----------------------------------------------------------------------------
(* Steps the interpreter takes by itself, and the choices of the consumer. *)
Run(t) ==
  \/ Construct(t) \/ Link(t) \/ SetFilter(t) \/ Loop(t) \/ Limits(t)
  \/ Recv(t) \/ Select(t) \/ Read(t) \/ Load(t) \/ Tally(t)
  \/ Close(t) \/ Free(t) \/ Mark(t) \/ Forget(t)

Consume(t) == Resume(t) \/ Abandon(t)

HearFrame ==
  /\ Hear
  /\ UNCHANGED <<sock, stop, captured, threadVars, ub>>

Next ==
  \/ HearFrame
  \/ Stop
  \/ \E s \in Socks : Finalise(s)
  \/ \E t \in Threads :
       \/ Begin(t) \/ Run(t) \/ Consume(t) \/ Exit(t) \/ Expire(t) \/ Interrupt(t)

Spec == Init /\ [][Next]_vars

(* A runnable thread runs; the clock advances; in start() the for loop     *)
(* always comes back for the next packet, or its callback raises.          *)
FairSpec ==
  /\ Spec
  /\ \A t \in Threads :
       /\ WF_vars(Run(t))
       /\ WF_vars(Consume(t))
       /\ WF_vars(Expire(t))

-----------------------------------------------------------------------------
TypeOK ==
  /\ SockTypeOK
  /\ sock \in Socks \cup {NoSock}
  /\ stop \in BOOLEAN
  /\ captured \in Nat
  /\ pc \in [Threads -> PCs]
  /\ after \in [Threads -> Rest \cup {"yield"}]
  /\ on \in [Threads -> Socks \cup {NoSock}]
  /\ pkt \in [Threads -> 0 .. MaxFrames]
  /\ deadline \in [Threads -> {"none", "ahead", "past"}]
  /\ got \in [Threads -> Seq(Frames)]
  /\ late \in [Threads -> Nat]
  /\ seen \in [Threads -> Nat]
  /\ ub \in BOOLEAN

(* The frames handed out so far, by any thread.                            *)
Handed == UNION {{t} \X DOMAIN got[t] : t \in Threads}

(* CountHonest: packets_captured never says more than was handed out, so   *)
(* the limit cannot end a capture short of Count frames, whichever counts  *)
(* the threads lose to each other.                                         *)
CountHonest == captured <= Cardinality(Handed)

(* The count has reached the limit, and no thread is about to store an     *)
(* older one.                                                              *)
Limited ==
  /\ Count > 0 /\ captured >= Count
  /\ \A t \in Threads : pc[t] = "tally" => seen[t] + 1 >= Count

(* LimitLasts: from then on, for ever, no generator asks for another frame *)
(* (_packets_captured is never reset, and no late store takes it below the *)
(* limit): each thread can only hand over the frame it already waits for.  *)
LimitLasts ==
  [][Limited => /\ Limited'
                /\ \A t \in Threads : ~(pc[t] = "limits" /\ pc'[t] = "recv")]_vars

(* LateBound: a thread is handed at most one frame after stop(), the one   *)
(* recv_one was already waiting for, however often it calls stream() again.*)
LateBound == \A t \in Threads : late[t] <= 1

(* NoUndefinedCall: no call reaches libpcap with a NULL or freed handle.   *)
NoUndefinedCall == ~ub

(* NoLeak: when every generator has ended, and none in _open(), the        *)
(* Sniffer holds no socket and no close() is half done.                    *)
NoLeak ==
  (\A t \in Threads : pc[t] \in Rest \ {"failed"}) =>
     /\ sock = NoSock
     /\ \A s \in Socks : handle[s] # "freed"

(* FilterHonoured: the consumer of Sniffer(filter=f) only sees frames that *)
(* f accepts.                                                              *)
FilterHonoured ==
  \A t \in Threads : \A i \in DOMAIN got[t] : Passes(Program, got[t][i])

(* StopEnds: after stop() every generator ends.                            *)
StopEnds == \A t \in Threads : stop ~> (pc[t] \in Rest \/ ub)

(* TimeoutEnds: with a timeout every generator ends, whatever is heard.    *)
TimeoutEnds ==
  \A t \in Threads :
    (deadline[t] # "none" /\ pc[t] \notin Rest) ~> (pc[t] \in Rest \/ ub)

=============================================================================
