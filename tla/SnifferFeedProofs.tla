------------------------- MODULE SnifferFeedProofs -------------------------
(***************************************************************************)
(* A Sniffer used by one thread implements PacketFeed: the filter, the     *)
(* order of the frames, the count limit and stop() hold together whatever  *)
(* is heard, fails, is interrupted or is opened again.                     *)
(***************************************************************************)
EXTENDS MCSniffer, SnifferProofs

(* The failures that leave _open() with an unfiltered socket: set_filter() *)
(* fails, or datalink() raises once self._sock is assigned.  With either   *)
(* the consumer may be handed frames the filter rejects.                   *)
FilterSure == Program = NoProgram \/ Faults \cap {"link", "filter"} = {}

Opening == {"construct", "link", "filter"}

(* The only open socket is the Sniffer's; the others buffer nothing.       *)
HeldInv ==
  /\ \A s \in Socks :
       /\ handle[s] = "open" => s = sock
       /\ handle[s] # "open" => ring[s] = {}
  /\ \A t \in Threads :
       /\ pc[t] = "construct" => sock = NoSock
       /\ pc[t] \in {"mark", "forget"} => \A s \in Socks : handle[s] # "open"

(* Outside _open() the socket runs the filter and buffers what it accepts. *)
FilterInv ==
  \A t \in Threads : pc[t] \notin Opening =>
     /\ sock # NoSock => Program \in {NoProgram, program[sock]}
     /\ \A s \in Socks : \A p \in ring[s] : Passes(Program, p)

(* The frames handed over, the one in hand and the buffered ones were      *)
(* heard in that order.                                                    *)
OrderInv ==
  /\ \A s \in Socks : \A p \in ring[s] : p <= wire
  /\ \A t \in Threads : \A i \in DOMAIN got[t] :
       /\ got[t][i] <= wire
       /\ \A s \in Socks : \A p \in ring[s] : got[t][i] < p
  /\ \A t \in Threads : pc[t] \in Holding =>
       /\ pkt[t] <= wire
       /\ \A s \in Socks : \A p \in ring[s] : pkt[t] < p
       /\ \A i \in DOMAIN got[t] : got[t][i] < pkt[t]

(* What was handed over, or is about to be, is wanted.                     *)
WantedInv ==
  \A t \in Threads :
    /\ pc[t] \in Holding => Passes(Program, pkt[t])
    /\ \A i \in DOMAIN got[t] : Passes(Program, got[t][i])

(* The count is that of this owner, also between the load and the store,   *)
(* and an admitted owner (past the limit test) is below it.                *)
AdmittedAt == {"recv", "select", "read", "load", "tally"}

TallyInv ==
  \A t \in Threads :
    /\ captured = Len(got[t])
    /\ pc[t] = "tally" => seen[t] = captured
    /\ Count > 0 /\ pc[t] \in AdmittedAt => captured < Count

FeedInv == HeldInv /\ FilterInv /\ OrderInv /\ WantedInv /\ TallyInv

-----------------------------------------------------------------------------
LEMMA HeldStep ==
  ASSUME SoleOwner
  PROVE  TypeOK /\ OwnerInv /\ HeldInv /\ [Next]_vars => HeldInv'
<1> SUFFICES ASSUME TypeOK, OwnerInv, HeldInv, [Next]_vars PROVE HeldInv'
  OBVIOUS
<1> USE SoleOwner
    DEF Goto, Leave, Undefined, sockVars, threadVars, HeldInv, SoleOwner
<1>0. ~ub /\ \A t \in Threads : after[t] \notin {"construct", "mark", "forget"}
  BY DEF OwnerInv, TypeOK, Rest
<1>1. ASSUME NEW t \in Threads, Begin(t) \/ Construct(t) \/ Link(t)
      PROVE  HeldInv'
  BY <1>1, SocketAssumption DEF Begin, Construct, Link, Activate, TypeOK, SockTypeOK, Rest
<1>2. ASSUME NEW t \in Threads, SetFilter(t) PROVE HeldInv'
  BY <1>2, <1>0 DEF SetFilter, InstallFilter, TypeOK, SockTypeOK
<1>3. ASSUME NEW t \in Threads,
             Loop(t) \/ Limits(t) \/ Recv(t) \/ Load(t) \/ Tally(t)
      PROVE  HeldInv'
  BY <1>3 DEF Loop, Limits, Recv, Load, Tally, TypeOK
<1>4. ASSUME NEW t \in Threads, Select(t) PROVE HeldInv'
  BY <1>4 DEF Select, TypeOK
<1>5. ASSUME NEW t \in Threads, Read(t) PROVE HeldInv'
  BY <1>5 DEF Read, NextEx, TypeOK, SockTypeOK
<1>6. ASSUME NEW t \in Threads, Close(t) PROVE HeldInv'
  BY <1>0, <1>6 DEF Close, TypeOK, OwnerInv
<1>7. ASSUME NEW t \in Threads, Free(t) PROVE HeldInv'
  BY <1>7, SMTT(30) DEF Free, PcapClose, TypeOK, SockTypeOK, OwnerInv
<1>8. ASSUME NEW t \in Threads, Mark(t) PROVE HeldInv'
  BY <1>8 DEF Mark, MarkClosed, TypeOK, SockTypeOK
<1>9. ASSUME NEW t \in Threads, Forget(t) PROVE HeldInv'
  BY <1>0, <1>9 DEF Forget, TypeOK
<1>10. ASSUME NEW t \in Threads, Consume(t) \/ Exit(t) \/ Expire(t) \/ Interrupt(t)
       PROVE  HeldInv'
  BY <1>10 DEF Consume, Resume, Abandon, Exit, Expire, Interrupt, TypeOK
<1>11. ASSUME NEW s \in Socks, Finalise(s) PROVE HeldInv'
  BY <1>11 DEF Finalise
<1>12. CASE HearFrame
  BY <1>12 DEF HearFrame, Hear, TypeOK, SockTypeOK
<1>13. CASE Stop \/ UNCHANGED vars
  BY <1>13 DEF Stop, vars
<1> QED
  BY <1>1, <1>2, <1>3, <1>4, <1>5, <1>6, <1>7, <1>8, <1>9, <1>10, <1>11,
     <1>12, <1>13 DEF Next, Run

LEMMA FilterStep ==
  ASSUME SoleOwner, FilterSure
  PROVE  TypeOK /\ OwnerInv /\ HeldInv /\ FilterInv /\ [Next]_vars => FilterInv'
<1> SUFFICES ASSUME TypeOK, OwnerInv, HeldInv, FilterInv, [Next]_vars
             PROVE  FilterInv'
  OBVIOUS
<1> USE SoleOwner
    DEF Goto, Leave, Undefined, sockVars, threadVars, FilterInv, SoleOwner, Opening
<1>0. ~ub
  BY DEF OwnerInv
<1>1. ASSUME NEW t \in Threads, Begin(t) PROVE FilterInv'
  BY <1>1 DEF Begin, TypeOK, Rest
<1>2. ASSUME NEW t \in Threads, Construct(t) PROVE FilterInv'
  BY <1>2, SocketAssumption DEF Construct, HeldInv, Activate, TypeOK, SockTypeOK
<1>3. ASSUME NEW t \in Threads, Link(t) PROVE FilterInv'
  BY <1>3 DEF Link, TypeOK, Passes, FilterSure
<1>4. ASSUME NEW t \in Threads, SetFilter(t) PROVE FilterInv'
  <2>1. sock # NoSock => handle[sock] = "open"
    BY <1>4 DEF SetFilter, OwnerInv
  <2>2. CASE UNCHANGED sockVars /\ (sock = NoSock \/ "filter" \in Faults)
    <3>1. sock = NoSock => \A s \in Socks : ring[s] = {}
      BY SocketAssumption DEF HeldInv
    <3>2. sock' = sock
      BY <1>4 DEF SetFilter
    <3> QED
      BY <2>2, <3>1, <3>2 DEF FilterSure, Passes
  <2>3. CASE sock # NoSock /\ InstallFilter(sock, Program)
    <3>1. sock \in Socks /\ sock' = sock /\ program'[sock] = Program
      BY <1>4, <2>3 DEF SetFilter, InstallFilter, TypeOK, SockTypeOK
    <3>2. \A s \in Socks \ {sock} : ring'[s] = {}
      BY <2>3 DEF InstallFilter, HeldInv, TypeOK, SockTypeOK
    <3>3. \A p \in ring'[sock] : Passes(Program, p)
      BY <2>3, <3>1 DEF InstallFilter, TypeOK, SockTypeOK
    <3> QED
      BY <3>1, <3>2, <3>3 DEF Passes
  <2> QED
    BY <1>0, <1>4, <2>1, <2>2, <2>3 DEF SetFilter
<1>5. ASSUME NEW t \in Threads,
             Loop(t) \/ Limits(t) \/ Recv(t) \/ Load(t) \/ Tally(t) \/ Select(t)
      PROVE  FilterInv'
  BY <1>5 DEF Loop, Limits, Recv, Load, Tally, Select, TypeOK
<1>6. ASSUME NEW t \in Threads, Read(t) PROVE FilterInv'
  BY <1>6 DEF Read, NextEx, TypeOK, SockTypeOK
<1>7. ASSUME NEW t \in Threads, Close(t) \/ Free(t) \/ Mark(t) \/ Forget(t)
      PROVE  FilterInv'
  BY <1>7 DEF Close, Free, Mark, Forget, PcapClose, MarkClosed, TypeOK, SockTypeOK
<1>8. ASSUME NEW t \in Threads, Consume(t) \/ Exit(t) \/ Expire(t) \/ Interrupt(t)
      PROVE  FilterInv'
  BY <1>8 DEF Consume, Resume, Abandon, Exit, Expire, Interrupt, TypeOK, Rest
<1>9. ASSUME NEW s \in Socks, Finalise(s) PROVE FilterInv'
  BY <1>9 DEF Finalise, TypeOK, SockTypeOK
<1>10. CASE HearFrame
  <2>1. UNCHANGED <<pc, sock, program>>
    BY <1>10 DEF HearFrame, Hear
  <2>2. ASSUME NEW t \in Threads, pc[t] \notin Opening, NEW s \in Socks,
               NEW p \in ring'[s]
        PROVE  Passes(Program, p)
    <3>1. \/ p \in ring[s]
          \/ handle[s] = "open" /\ Passes(program[s], p)
      BY <1>10, <2>2 DEF HearFrame, Hear, TypeOK, SockTypeOK
    <3>2. handle[s] = "open" => s = sock /\ sock # NoSock
      BY SocketAssumption DEF HeldInv
    <3> QED
      BY <2>2, <3>1, <3>2 DEF Passes
  <2> QED
    BY <2>1, <2>2
<1>11. CASE Stop \/ UNCHANGED vars
  BY <1>11 DEF Stop, vars
<1> QED
  BY <1>1, <1>2, <1>3, <1>4, <1>5, <1>6, <1>7, <1>8, <1>9, <1>10, <1>11
     DEF Next, Run

-----------------------------------------------------------------------------
(* A step that buffers, hands over and counts nothing keeps the order.     *)
LEMMA OrderQuiet ==
  ASSUME OrderInv, UNCHANGED <<wire, got>>,
         \A s \in Socks : ring'[s] \subseteq ring[s],
         \A t \in Threads : pc'[t] \in Holding => pc[t] \in Holding /\ pkt'[t] = pkt[t]
  PROVE  OrderInv'
BY DEF OrderInv

LEMMA OrderStep == TypeInv /\ OwnerInv /\ HeldInv /\ OrderInv /\ [Next]_vars => OrderInv'
<1> SUFFICES ASSUME TypeInv, OwnerInv, HeldInv, OrderInv, [Next]_vars
             PROVE  OrderInv'
  OBVIOUS
<1> USE DEF Goto, Leave, Undefined, sockVars, threadVars, TypeInv
<1>1. ASSUME NEW t \in Threads,
             \/ Begin(t) \/ Construct(t) \/ Link(t) \/ SetFilter(t) \/ Loop(t)
             \/ Limits(t) \/ Recv(t) \/ Select(t) \/ Load(t)
      PROVE  OrderInv'
  <2>1. UNCHANGED <<wire, got, pkt>>
    BY <1>1 DEF Begin, Construct, Link, SetFilter, Loop, Limits, Recv, Select, Load,
                Activate, InstallFilter
  <2>2. \A s \in Socks : ring'[s] \subseteq ring[s]
    BY <1>1, ZenonT(40) DEF Begin, Construct, Link, SetFilter, Loop, Limits, Recv, Select, Load,
                Activate, InstallFilter, TypeOK, SockTypeOK
  <2>3. \A u \in Threads : pc'[u] \in Holding => pc[u] \in Holding
    BY <1>1 DEF Begin, Construct, Link, SetFilter, Loop, Limits, Recv, Select,
                Load, Holding, TypeOK
  <2> QED
    BY <2>1, <2>2, <2>3, OrderQuiet
<1>2. ASSUME NEW t \in Threads,
             \/ Close(t) \/ Free(t) \/ Mark(t) \/ Forget(t) \/ Consume(t)
             \/ Exit(t) \/ Expire(t) \/ Interrupt(t)
      PROVE  OrderInv'
  <2>1. UNCHANGED <<wire, got, pkt>>
    BY <1>2 DEF Close, Free, Mark, Forget, Consume, Resume, Abandon, Exit,
                Expire, Interrupt, PcapClose, MarkClosed
  <2>2. \A s \in Socks : ring'[s] \subseteq ring[s]
    BY <1>2 DEF Close, Free, Mark, Forget, Consume, Resume, Abandon, Exit,
                Expire, Interrupt, PcapClose, MarkClosed, TypeOK, SockTypeOK
  <2>3. after[t] \notin Holding
    BY DEF TypeOK, Rest, Holding
  <2>4. \A u \in Threads : pc'[u] \in Holding => pc[u] \in Holding
    BY <1>2, <2>3 DEF Close, Free, Mark, Forget, Consume, Resume, Abandon, Exit,
                Expire, Interrupt, Holding, TypeOK
  <2> QED
    BY <2>1, <2>2, <2>4, OrderQuiet
<1>3. ASSUME NEW t \in Threads, Read(t) PROVE OrderInv'
  <2>1. UNCHANGED <<wire, got>> /\ pc[t] = "read"
    BY <1>3 DEF Read, NextEx
  <2>2. CASE UNCHANGED <<ring, pkt>> /\ pc'[t] \notin Holding
    <3>1. \A u \in Threads \ {t} : pc'[u] = pc[u]
      BY <1>3 DEF Read, TypeOK
    <3> QED
      BY <2>1, <2>2, <3>1, OrderQuiet
  <2>3. CASE \E p \in Frames : /\ NextEx(on[t], p)
                               /\ pkt' = [pkt EXCEPT ![t] = p]
                               /\ pc' = [pc EXCEPT ![t] = "load"]
                               /\ on[t] \in Socks
    <3>1. PICK p \in Frames : /\ NextEx(on[t], p)
                              /\ pkt' = [pkt EXCEPT ![t] = p]
                              /\ pc' = [pc EXCEPT ![t] = "load"]
                              /\ on[t] \in Socks
      BY <2>3
    <3>2. \A s \in Socks : ring'[s] \subseteq ring[s] /\ p \notin ring'[s]
      BY <2>1, <3>1 DEF NextEx, OwnerInv, HeldInv, TypeOK, SockTypeOK
    <3>3. p \in ring[on[t]] /\ \A s \in Socks : \A q \in ring'[s] : p < q
      BY <2>1, <3>1, <3>2 DEF NextEx, Oldest, OwnerInv, HeldInv, TypeOK, SockTypeOK, Frames
    <3>4. \A u \in Threads \ {t} : pc'[u] = pc[u] /\ pkt'[u] = pkt[u]
      BY <3>1
    <3>5. pkt'[t] = p
      BY <3>1 DEF TypeOK
    <3> QED
      BY <2>1, <3>1, <3>2, <3>3, <3>4, <3>5 DEF OrderInv
  <2>4. on[t] \in Socks /\ ~ub
    BY <2>1 DEF OwnerInv, TypeOK
  <2>5. CASE Undefined(on[t])
    BY <2>1, <2>2, <2>5 DEF Holding
  <2>6. CASE handle[on[t]] = "open" /\ pc'[t] \in Holding
    BY <1>3, <2>3, <2>4, <2>6 DEF Read, Holding, TypeOK
  <2>7. pc'[t] \notin Holding /\ handle[on[t]] = "open" => UNCHANGED <<ring, pkt>>
    BY <1>3 DEF Read, Holding, TypeOK
  <2> QED
    BY <1>3, <2>2, <2>5, <2>6, <2>7 DEF Read
<1>4. ASSUME NEW t \in Threads, Tally(t) PROVE OrderInv'
  BY <1>4, SMTT(30) DEF Tally, OrderInv, Holding, TypeOK
<1>5. ASSUME NEW s \in Socks, Finalise(s) PROVE OrderInv'
  BY <1>5, OrderQuiet DEF Finalise, TypeOK, SockTypeOK
<1>6. CASE HearFrame
  <2>1. UNCHANGED <<pc, got, pkt>> /\ wire' = wire + 1 /\ wire \in Nat
    BY <1>6 DEF HearFrame, Hear, TypeOK, SockTypeOK
  <2>2. \A s \in Socks : \A p \in ring'[s] : p \in ring[s] \/ p = wire + 1
    BY <1>6 DEF HearFrame, Hear
  <2>3. \A t \in Threads :
          pkt[t] \in Int /\ \A i \in DOMAIN got[t] : got[t][i] \in Int
    <3>1. Frames \subseteq Int /\ 0 .. MaxFrames \subseteq Int
      BY SocketAssumption DEF Frames
    <3>2. ASSUME NEW t \in Threads, NEW i \in DOMAIN got[t] PROVE got[t][i] \in Frames
      BY DEF TypeOK
    <3> QED
      BY <3>1, <3>2 DEF TypeOK
  <2>4. \A s \in Socks : \A p \in ring[s] : p \in Int
    BY DEF TypeOK, SockTypeOK, Frames
  <2> QED
    BY <2>1, <2>2, <2>3, <2>4 DEF OrderInv
<1>7. CASE Stop \/ UNCHANGED vars
  BY <1>7, OrderQuiet DEF Stop, vars
<1> QED
  BY <1>1, <1>2, <1>3, <1>4, <1>5, <1>6, <1>7 DEF Next, Run

-----------------------------------------------------------------------------
LEMMA WantedStep ==
  ASSUME SoleOwner
  PROVE  TypeInv /\ OwnerInv /\ FilterInv /\ WantedInv /\ [Next]_vars => WantedInv'
<1> SUFFICES ASSUME TypeInv, OwnerInv, FilterInv, WantedInv, [Next]_vars
             PROVE  WantedInv'
  OBVIOUS
<1> USE DEF Goto, Leave, Undefined, sockVars, threadVars, TypeInv, WantedInv
<1>1. ASSUME UNCHANGED <<got, pkt>>,
             \A u \in Threads : pc'[u] \in Holding => pc[u] \in Holding
      PROVE  WantedInv'
  BY <1>1 DEF Passes
<1>2. ASSUME NEW t \in Threads,
             \/ Begin(t) \/ Construct(t) \/ Link(t) \/ SetFilter(t) \/ Loop(t)
             \/ Limits(t) \/ Recv(t) \/ Select(t) \/ Load(t) \/ Consume(t)
             \/ Exit(t) \/ Expire(t) \/ Interrupt(t)
      PROVE  WantedInv'
  BY <1>1, <1>2, SMTT(30) DEF Begin, Construct, Link, SetFilter, Loop, Limits, Recv,
     Select, Load, Consume, Resume, Abandon, Exit, Expire, Interrupt, Holding, TypeOK
<1>3. ASSUME NEW t \in Threads, Close(t) \/ Free(t) \/ Mark(t) \/ Forget(t)
      PROVE  WantedInv'
  <2>1. after[t] \notin Holding
    BY DEF TypeOK, Rest, Holding
  <2> QED
    BY <1>1, <1>3, <2>1, SMTT(30) DEF Close, Free, Mark, Forget, PcapClose, MarkClosed,
                            Holding, TypeOK
<1>4. ASSUME NEW t \in Threads, Read(t) PROVE WantedInv'
  <2>1. got' = got /\ \A u \in Threads \ {t} : pc'[u] = pc[u] /\ pkt'[u] = pkt[u]
    BY <1>4 DEF Read, TypeOK
  <2>2. pc'[t] \in Holding => pkt'[t] \in ring[on[t]] /\ on[t] \in Socks
    BY <1>4 DEF Read, NextEx, Oldest, OwnerInv, Holding, TypeOK
  <2>3. pc'[t] \in Holding => Passes(Program, pkt'[t])
    BY <1>4, <2>2 DEF Read, FilterInv, Opening
  <2> QED
    BY <2>1, <2>3 DEF Passes
<1>5. ASSUME NEW t \in Threads, Tally(t) PROVE WantedInv'
  <2>1. pc'[t] = "yield" /\ got'[t] = Append(got[t], pkt[t])
        /\ \A u \in Threads \ {t} : UNCHANGED <<pc[u], pkt[u], got[u]>>
    BY <1>5 DEF Tally, TypeOK
  <2>2. Passes(Program, pkt[t])
    BY <1>5 DEF Tally, Holding
  <2>3. \A i \in DOMAIN got'[t] : Passes(Program, got'[t][i])
    BY <2>1, <2>2 DEF TypeOK, Passes
  <2> QED
    BY <2>1, <2>3 DEF Passes, Holding
<1>6. CASE HearFrame \/ Stop \/ (\E s \in Socks : Finalise(s)) \/ UNCHANGED vars
  BY <1>1, <1>6 DEF HearFrame, Stop, Finalise, vars
<1> QED
  BY <1>2, <1>3, <1>4, <1>5, <1>6 DEF Next, Run

LEMMA TallyStep ==
  ASSUME SoleOwner
  PROVE  TypeInv /\ TallyInv /\ [Next]_vars => TallyInv'
<1> SUFFICES ASSUME TypeInv, TallyInv, [Next]_vars PROVE TallyInv'
  OBVIOUS
<1> USE SoleOwner
    DEF Goto, Leave, Undefined, threadVars, TypeInv, TallyInv, SoleOwner
<1>1. ASSUME UNCHANGED <<captured, got>>,
             \A u \in Threads : pc'[u] \in AdmittedAt => pc[u] \in AdmittedAt,
             \A u \in Threads : pc'[u] = "tally" => pc[u] = "tally" /\ seen'[u] = seen[u]
      PROVE  TallyInv'
  BY <1>1
<1>2. ASSUME NEW t \in Threads,
             \/ Begin(t) \/ Construct(t) \/ Link(t) \/ SetFilter(t) \/ Loop(t)
             \/ Recv(t) \/ Select(t) \/ Read(t) \/ Consume(t) \/ Exit(t)
             \/ Expire(t) \/ Interrupt(t)
      PROVE  TallyInv'
  BY <1>1, <1>2 DEF Begin, Construct, Link, SetFilter, Loop, Recv, Select, Read,
     Consume, Resume, Abandon, Exit, Expire, Interrupt, TypeOK, AdmittedAt
<1>3. ASSUME NEW t \in Threads, Close(t) \/ Free(t) \/ Mark(t) \/ Forget(t)
      PROVE  TallyInv'
  <2>1. after[t] \notin AdmittedAt
    BY DEF TypeOK, Rest, AdmittedAt
  <2> QED
    BY <1>1, <1>3, <2>1 DEF Close, Free, Mark, Forget, TypeOK, AdmittedAt
<1>4. ASSUME NEW t \in Threads, Limits(t) PROVE TallyInv'
  <2>1. UNCHANGED <<captured, got>>
    BY <1>4 DEF Limits
  <2>2. Count > 0 /\ pc'[t] \in AdmittedAt => captured < Count
    BY <1>4, SnifferAssumption DEF Limits, LimitReached, TypeOK, AdmittedAt
  <2>3. pc'[t] # "tally"
    BY <1>4 DEF Limits, TypeOK
  <2> QED
    BY <2>1, <2>2, <2>3
<1>5. ASSUME NEW t \in Threads, Tally(t) PROVE TallyInv'
  <2>1. captured' = captured + 1 /\ got'[t] = Append(got[t], pkt[t])
        /\ pc'[t] = "yield"
    BY <1>5 DEF Tally, TypeOK
  <2>2. Len(got'[t]) = Len(got[t]) + 1
    BY <2>1 DEF TypeOK
  <2> QED
    BY <2>1, <2>2 DEF AdmittedAt
<1>6. ASSUME NEW t \in Threads, Load(t) PROVE TallyInv'
  <2>1. UNCHANGED <<captured, got>> /\ pc[t] = "load" /\ seen'[t] = captured
    BY <1>6 DEF Load, TypeOK
  <2> QED
    BY <2>1 DEF AdmittedAt
<1>7. CASE HearFrame \/ Stop \/ (\E s \in Socks : Finalise(s)) \/ UNCHANGED vars
  BY <1>1, <1>7 DEF HearFrame, Stop, Finalise, vars
<1> QED
  BY <1>2, <1>3, <1>4, <1>5, <1>6, <1>7 DEF Next, Run

-----------------------------------------------------------------------------
LEMMA FeedInvInit == Init => OwnerInv /\ FeedInv
<1> SUFFICES ASSUME Init PROVE OwnerInv /\ FeedInv
  OBVIOUS
<1> USE DEF Init, SockInit
<1>1. OwnerInv /\ HeldInv /\ FilterInv
  BY DEF OwnerInv, HeldInv, FilterInv
<1>2. \A t \in Threads : got[t] = <<>> /\ pc[t] = "idle"
  OBVIOUS
<1>3. OrderInv /\ WantedInv
  BY <1>2 DEF OrderInv, WantedInv, Holding
<1>4. TallyInv
  BY <1>2 DEF TallyInv, AdmittedAt
<1> QED
  BY <1>1, <1>3, <1>4 DEF FeedInv

LEMMA FeedCorrectInv ==
  ASSUME SoleOwner, FilterSure
  PROVE  Spec => [](TypeInv /\ LateInv /\ OwnerInv /\ FeedInv)
<1>1. Init => LateInv
  BY DEF Init, LateInv, Polling
<1>2. TypeInv /\ OwnerInv /\ FeedInv /\ [Next]_vars => OwnerInv' /\ FeedInv'
  BY OwnerStep, HeldStep, FilterStep, OrderStep, WantedStep, TallyStep
     DEF FeedInv, TypeInv
<1>3. TypeInv /\ LateInv /\ [Next]_vars => LateInv'
  BY LateStep DEF TypeInv
<1> QED
  BY <1>1, <1>2, <1>3, FeedInvInit, TypeInit, TypeStep, PTL DEF Spec

(* FilterCorrect: the consumer of Sniffer(filter=f) in one thread never    *)
(* sees a frame f rejects, however often the socket is opened again, unless*)
(* set_filter() fails or _open() is cut short by datalink().               *)
THEOREM FilterCorrect ==
  ASSUME SoleOwner, FilterSure
  PROVE  Spec => []FilterHonoured
<1>1. FeedInv => FilterHonoured
  BY DEF FeedInv, WantedInv, FilterHonoured
<1> QED
  BY <1>1, FeedCorrectInv, PTL

-----------------------------------------------------------------------------
(* Every step of a sole owner is a step of PacketFeed or changes nothing   *)
(* that the feed shows.                                                    *)
LEMMA FeedStep ==
  ASSUME SoleOwner, Owner \in Threads
  PROVE  TypeInv /\ LateInv /\ FeedInv /\ [Next]_vars
           => [Feed!FeedNext]_(Feed!feedVars)
<1> SUFFICES ASSUME TypeInv, LateInv, FeedInv, [Next]_vars
             PROVE  [Feed!FeedNext]_(Feed!feedVars)
  OBVIOUS
<1> USE SoleOwner
    DEF Goto, Leave, Undefined, sockVars, threadVars, TypeInv, SoleOwner
<1>1. ASSUME UNCHANGED <<wire, got, late, stop>> PROVE UNCHANGED Feed!feedVars
  BY <1>1 DEF Feed!feedVars
<1>2. ASSUME NEW t \in Threads,
             \/ Begin(t) \/ Construct(t) \/ Link(t) \/ SetFilter(t) \/ Loop(t)
             \/ Limits(t) \/ Recv(t) \/ Select(t) \/ Read(t) \/ Load(t)
      PROVE  UNCHANGED Feed!feedVars
  BY <1>1, <1>2 DEF Begin, Construct, Link, SetFilter, Loop, Limits, Recv,
     Select, Read, Load, Activate, InstallFilter, NextEx
<1>3. ASSUME NEW t \in Threads,
             \/ Close(t) \/ Free(t) \/ Mark(t) \/ Forget(t) \/ Consume(t)
             \/ Exit(t) \/ Expire(t)
      PROVE  UNCHANGED Feed!feedVars
  BY <1>1, <1>3 DEF Close, Free, Mark, Forget, Consume, Resume, Abandon, Exit,
     Expire, PcapClose, MarkClosed
<1>4. ASSUME NEW t \in Threads, Tally(t) PROVE Feed!Deliver(pkt[Owner])
  <2>1. t = Owner
    OBVIOUS
  <2> DEFINE p == pkt[Owner]
  <2>2. late[Owner] = 0 /\ p \in Frames
    BY <1>4, <2>1 DEF Tally, LateInv, Polling, InHand, Holding
  <2>3. Count > 0 => Len(got[Owner]) < Count
    BY <1>4, <2>1 DEF Tally, FeedInv, TallyInv, AdmittedAt
  <2>4. Passes(Program, p) /\ p <= wire /\ \A i \in DOMAIN got[Owner] : got[Owner][i] < p
    BY <1>4, <2>1 DEF Tally, FeedInv, WantedInv, OrderInv, Holding
  <2>5. got'[Owner] = Append(got[Owner], p) /\ UNCHANGED <<wire, stop>>
    BY <1>4, <2>1 DEF Tally, TypeOK
  <2>6. late'[Owner] = IF stop THEN 1 ELSE 0
    BY <1>4, <2>1, <2>2 DEF Tally, TypeOK
  <2> HIDE DEF p
  <2>7. p \in {q \in 1 .. MaxFrames : Passes(Program, q)}
    BY <2>2, <2>4 DEF Frames
  <2> QED
    BY <2>2, <2>3, <2>4, <2>5, <2>6, <2>7 DEF Feed!Deliver, Feed!Fresh, p
<1>5. ASSUME ~stop, stop' = TRUE, UNCHANGED <<wire, got, late>>
      PROVE  Feed!AskStop
  <2>1. late[Owner] = 0
    BY <1>5 DEF LateInv
  <2> QED
    BY <1>5, <2>1 DEF Feed!AskStop
<1>6. ASSUME NEW t \in Threads, Interrupt(t) PROVE [Feed!FeedNext]_(Feed!feedVars)
  <2>1. stop' = TRUE /\ UNCHANGED <<wire, got, late>>
    BY <1>6 DEF Interrupt
  <2>2. CASE stop
    BY <1>1, <2>1, <2>2 DEF TypeOK
  <2> QED
    BY <1>5, <2>1, <2>2 DEF Feed!FeedNext
<1>7. CASE Stop
  BY <1>5, <1>7 DEF Stop, Feed!FeedNext
<1>8. CASE HearFrame
  BY <1>8 DEF HearFrame, Hear, Feed!FeedNext, Feed!HearNext
<1>9. CASE (\E s \in Socks : Finalise(s)) \/ UNCHANGED vars
  BY <1>1, <1>9 DEF Finalise, vars
<1>10. ASSUME NEW t \in Threads, Tally(t) PROVE Feed!FeedNext
  <2>1. pkt[Owner] \in 1 .. MaxFrames
    BY <1>10 DEF Tally, InHand, Holding, Frames
  <2> QED
    BY <1>4, <1>10, <2>1 DEF Feed!FeedNext
<1> QED
  BY <1>2, <1>3, <1>6, <1>7, <1>8, <1>9, <1>10 DEF Next, Run

(* FeedCorrect: with one owner, stream() is an in-order feed of the wanted *)
(* frames, without repetition, never beyond the limit, and with at most    *)
(* one more frame after stop(); for every filter and every ring size.      *)
THEOREM FeedCorrect ==
  ASSUME SoleOwner, Threads # {}, FilterSure
  PROVE  Spec => ImplementsFeed
<1>1. Owner \in Threads
  BY DEF Owner
<1>2. Init => Feed!FeedInit
  BY <1>1 DEF Init, SockInit, Feed!FeedInit
<1>3. TypeInv /\ LateInv /\ FeedInv /\ [Next]_vars
        => [Feed!FeedNext]_(Feed!feedVars)
  BY <1>1, FeedStep
<1> QED
  BY <1>2, <1>3, FeedCorrectInv, PTL DEF Spec, ImplementsFeed, Feed!FeedSpec

=============================================================================
