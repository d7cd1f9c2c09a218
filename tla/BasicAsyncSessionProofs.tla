---------------------- MODULE BasicAsyncSessionProofs ----------------------
(***************************************************************************)
(* Proofs about BasicAsyncSession for every value of its constants.        *)
(***************************************************************************)
EXTENDS BasicAsyncSession, SequenceTheorems, TLAPS

-----------------------------------------------------------------------------
\* Every constructor builds a handler.
LEMMA ConstructorTypes ==
  /\ OnConnect \in Handler /\ OnTick \in Handler /\ OnRetry(TRUE) \in Handler /\ OnRetry(FALSE) \in Handler
  /\ \A e \in BOOLEAN : OnRetry(e) \in Handler /\ OnClose(e) \in Handler
  /\ \A e, k \in BOOLEAN : OnSent(e, k) \in Handler
  /\ \A e \in BOOLEAN, n \in Nat, r \in Read : OnRead(e, n, r) \in Handler
<1>1. OnTick \in [op : {"connect", "tick"}] /\ OnConnect \in [op : {"connect", "tick"}]
  BY DEF OnTick, OnConnect
<1>2. OnTick \in Handler /\ OnConnect \in Handler BY <1>1 DEF Handler
<1>3. \A e \in BOOLEAN : OnRetry(e) \in Handler /\ OnClose(e) \in Handler
  BY DEF OnRetry, OnClose, Handler
<1>4. \A e, k \in BOOLEAN : OnSent(e, k) \in Handler
  BY DEF OnSent, Handler
<1>5. \A e \in BOOLEAN, n \in Nat, r \in Read : OnRead(e, n, r) \in Handler
  BY DEF OnRead, Read, Handler
<1>6. OnRetry(TRUE) \in Handler /\ OnRetry(FALSE) \in Handler BY <1>3, Zenon
<1> QED BY <1>2, <1>3, <1>4, <1>5, <1>6

LEMMA OptionalType ==
  ASSUME NEW b, NEW x \in Handler
  PROVE  <<x>> \in Seq(Handler) /\ (IF b THEN <<x>> ELSE <<>>) \in Seq(Handler)
OBVIOUS

\* What close() and clear_all_timer() put on the strand is made of handlers.
LEMMA CloseType == close(TRUE) \in Seq(Handler) /\ close(FALSE) \in Seq(Handler)
<1>1. OnClose(TRUE) \in Handler /\ OnClose(FALSE) \in Handler
  BY ConstructorTypes, Zenon
<1>2. <<OnClose(TRUE)>> \in Seq(Handler) /\ <<OnClose(FALSE)>> \in Seq(Handler)
  BY <1>1, OptionalType, Zenon
<1> QED BY <1>2, EmptySeq, Zenon DEF close

\* A handler's choice of what to post, or of nothing, is a sequence of handlers.
LEMMA OptionalSeqType ==
  ASSUME NEW b, NEW s \in Seq(Handler), NEW t \in Seq(Handler)
  PROVE  (IF b THEN s ELSE t) \in Seq(Handler)
OBVIOUS

\* A write more, whatever its callback does.
LEMMA AppendWriteType ==
  ASSUME NEW s \in Seq(BOOLEAN), NEW k \in BOOLEAN
  PROVE  Append(s, k) \in Seq(BOOLEAN)
BY AppendProperties, Zenon

LEMMA ClearType == clear_all_timer \in Seq(Handler)
<1>1. (IF retry THEN <<OnRetry(TRUE)>> ELSE <<>>) \in Seq(Handler)
  BY ConstructorTypes, OptionalType, Zenon
<1>2. (IF tick THEN <<OnTick>> ELSE <<>>) \in Seq(Handler)
  BY ConstructorTypes
<1> QED BY <1>1, <1>2, ConcatProperties DEF clear_all_timer

LEMMA PickType ==
  ASSUME NEW l \in Nat, NEW p \in Pick(l)
  PROVE  p.rest \in 0..l /\ p.full \in BOOLEAN
BY DEF Pick

\* Running the head of the strand and posting t leaves a strand.
LEMMA PostType ==
  ASSUME NEW s \in Seq(Handler), s # <<>>, NEW t \in Seq(Handler)
  PROVE  Tail(s) \o t \in Seq(Handler)
BY HeadTailProperties, ConcatProperties

LEMMA OrphanReadsType ==
  ASSUME NEW s \in Seq(Read) PROVE OrphanReads(s) \in Seq(Read)
<1>1. \A r \in Read : Orphan(r) \in Read BY DEF Orphan, Read
<1> QED BY <1>1 DEF OrphanReads

LEMMA OrphanHandlerType ==
  ASSUME NEW h \in Handler, h.op = "read" PROVE Orphan(h) \in Handler /\ Orphan(h).op = "read"
<1>1. h \in [op : {"read"}, ec : BOOLEAN, n : Nat, cur : BOOLEAN, at : Nat]
  BY DEF Handler
<1>2. /\ Orphan(h) \in [op : {"read"}, ec : BOOLEAN, n : Nat, cur : BOOLEAN, at : Nat]
      /\ Orphan(h).op = "read"
  BY <1>1 DEF Orphan
<1> QED BY <1>2 DEF Handler

LEMMA OrphanHandlersType ==
  ASSUME NEW s \in Seq(Handler) PROVE OrphanHandlers(s) \in Seq(Handler)
<1>1. \A i \in 1..Len(s) :
        (IF s[i].op = "read" THEN Orphan(s[i]) ELSE s[i]) \in Handler
  BY OrphanHandlerType, ElementOfSeq
<1> QED BY <1>1 DEF OrphanHandlers

-----------------------------------------------------------------------------
\* A pick leaves the receiving side well typed.
LEMMA PickStepType ==
  ASSUME TypeOK, strand # <<>>, NEW l \in Nat, NEW posted \in Seq(Handler),
         pick_entire_msgs(l, posted)
  PROVE  /\ len' \in Nat /\ hasBuf' \in BOOLEAN /\ retry' \in BOOLEAN
         /\ reads' \in Seq(Read) /\ strand' \in Seq(Handler)
<1> DEFINE kept(p) == IF p.rest = l THEN hasBuf ELSE p.rest > 0
<1>1. PICK p \in Pick(l) :
        /\ len' = p.rest
        /\ hasBuf' = (kept(p) \/ state = "CONNECTING")
        /\ reads' = (IF kept(p) THEN reads ELSE OrphanReads(reads)) \o async_recv_loop(p.rest)
        /\ retry' = (retry \/ p.full)
        /\ strand' = (IF kept(p) THEN Tail(strand) ELSE OrphanHandlers(Tail(strand)))
                       \o posted
                       \o (IF retry /\ p.full THEN <<OnRetry(TRUE)>> ELSE <<>>)
  BY DEF pick_entire_msgs
<1>2. p.rest \in 0..l /\ p.full \in BOOLEAN BY PickType
<1>3. async_recv_loop(p.rest) \in Seq(Read)
  <2>1. NewRead(p.rest) \in Read BY <1>2 DEF NewRead, Read
  <2> QED BY <2>1 DEF async_recv_loop
<1>4. reads' \in Seq(Read)
  <2>1. (IF kept(p) THEN reads ELSE OrphanReads(reads)) \in Seq(Read)
    BY OrphanReadsType DEF TypeOK
  <2> QED BY <1>1, <1>3, <2>1, ConcatProperties
<1>5. strand' \in Seq(Handler)
  <2>1. Tail(strand) \in Seq(Handler) BY HeadTailProperties DEF TypeOK
  <2>2. (IF kept(p) THEN Tail(strand) ELSE OrphanHandlers(Tail(strand))) \in Seq(Handler)
    BY <2>1, OrphanHandlersType
  <2>3. (IF retry /\ p.full THEN <<OnRetry(TRUE)>> ELSE <<>>) \in Seq(Handler)
    BY ConstructorTypes, OptionalType, Zenon
  <2>4. (IF kept(p) THEN Tail(strand) ELSE OrphanHandlers(Tail(strand))) \o posted
          \in Seq(Handler)
    BY <2>2, ConcatProperties
  <2> QED BY <1>1, <2>3, <2>4, ConcatProperties
<1>6. hasBuf' \in BOOLEAN BY <1>1
<1>7. retry' \in BOOLEAN BY <1>1
<1>8. len' \in Nat BY <1>1, <1>2
<1> QED BY <1>4, <1>5, <1>6, <1>7, <1>8, Zenon

LEMMA NextFrameType ==
  ASSUME TypeOK PROVE NextFrame \in 0..FramesPerCheck - 1
BY TickAssumption DEF TypeOK, NextFrame

LEMMA OlderType ==
  ASSUME NEW i \in 0..Timeout + 1 PROVE Older(i) \in 0..Timeout + 1
BY TickAssumption DEF Older

LEMMA StartTickType ==
  ASSUME TypeOK, NEW s \in Seq(Handler), start_tick(s)
  PROVE  /\ idleRecv' \in 0..Timeout + 1 /\ idleSend' \in 0..Timeout + 1
         /\ frame' \in 0..FramesPerCheck - 1
         /\ tick' \in BOOLEAN /\ strand' \in Seq(Handler)
BY NextFrameType, ConstructorTypes, AppendProperties, TickAssumption DEF start_tick

LEMMA CloseStepType ==
  ASSUME TypeOK, NEW e \in BOOLEAN, shutdown_or_close(e)
  PROVE  state' \in States /\ sock' \in {"none", "open", "closed"}
BY DEF TypeOK, shutdown_or_close, States

\* Every step keeps the types.
LEMMA TypeStep == TypeOK /\ [Next]_vars => TypeOK'
<1> SUFFICES ASSUME TypeOK, [Next]_vars PROVE TypeOK'
  OBVIOUS
<1> USE DEF core, recv, timers, clocks, env
<1>1. CASE ConnectHandler
  <2>1. Tail(strand) \in Seq(Handler) BY <1>1, HeadTailProperties DEF ConnectHandler, Runs, TypeOK
  <2>2. reads' \in Seq(Read)
    BY <1>1, AppendProperties DEF ConnectHandler, TypeOK, NewRead, Read
  <2>3. writes' \in Seq(BOOLEAN)
    <3>1. writes \in Seq(BOOLEAN) /\ Append(writes, FALSE) \in Seq(BOOLEAN)
      BY AppendWriteType, Zenon DEF TypeOK
    <3> QED BY <1>1, <3>1, Zenon DEF ConnectHandler
  <2> QED BY <1>1, <2>1, <2>2, <2>3, StartTickType DEF ConnectHandler, TypeOK, States
<1>2. CASE ConnectHandlerFails
  <2>1. strand' \in Seq(Handler)
    BY <1>2, CloseType, PostType DEF ConnectHandlerFails, Runs, TypeOK
  <2>2. UNCHANGED <<program, core, recv, writes, sender, timers, clocks, owned, fault, env>>
    BY <1>2, Zenon DEF ConnectHandlerFails
  <2> QED BY <2>1, <2>2 DEF TypeOK
<1>3. CASE ReadHandler
  <2>1. Head(strand) \in Handler /\ Head(strand).op = "read" /\ strand # <<>>
    BY <1>3, HeadTailProperties DEF ReadHandler, Runs, TypeOK
  <2>2. Head(strand).n \in Nat BY <2>1 DEF Handler
  <2>3. (IF Head(strand).ec THEN close(FALSE) ELSE <<>>) \in Seq(Handler)
    BY CloseType, OptionalSeqType, EmptySeq, Zenon
  <2>4. len + Head(strand).n \in Nat BY <2>2 DEF TypeOK
  <2>5. pick_entire_msgs(len + Head(strand).n, IF Head(strand).ec THEN close(FALSE) ELSE <<>>)
    BY <1>3 DEF ReadHandler
  <2>6. /\ len' \in Nat /\ hasBuf' \in BOOLEAN /\ retry' \in BOOLEAN
        /\ reads' \in Seq(Read) /\ strand' \in Seq(Handler)
    BY <2>1, <2>3, <2>4, <2>5, PickStepType, Zenon
  <2>7. /\ UNCHANGED <<program, core, writes, sender, tick, frame, idleSend, owned, fault, env>>
        /\ idleRecv' = 0
    BY <1>3, Zenon DEF ReadHandler
  <2> QED BY <2>6, <2>7, TickAssumption DEF TypeOK
<1>4. CASE ReadHandlerNullBuffer
  BY <1>4 DEF ReadHandlerNullBuffer, TypeOK
<1>5. CASE ReadHandlerOverrun
  BY <1>5 DEF ReadHandlerOverrun, TypeOK
<1>6. CASE RetryHandler
  <2>1. strand # <<>> /\ len \in Nat /\ <<>> \in Seq(Handler)
    BY <1>6 DEF RetryHandler, Runs, TypeOK
  <2>2. /\ len' \in Nat /\ hasBuf' \in BOOLEAN /\ retry' \in BOOLEAN
        /\ reads' \in Seq(Read) /\ strand' \in Seq(Handler)
    BY <1>6, <2>1, PickStepType, Zenon DEF RetryHandler
  <2>3. UNCHANGED <<program, core, writes, sender, tick, frame, clocks, owned, fault, env>>
    BY <1>6, Zenon DEF RetryHandler
  <2> QED BY <2>2, <2>3 DEF TypeOK
<1>7. CASE RetryHandlerCancelled
  <2>1. strand' \in Seq(Handler)
    BY <1>7, CloseType, PostType DEF RetryHandlerCancelled, Runs, TypeOK
  <2>2. UNCHANGED <<program, core, recv, writes, sender, timers, clocks, owned, fault, env>>
    BY <1>7, Zenon DEF RetryHandlerCancelled
  <2> QED BY <2>1, <2>2 DEF TypeOK
<1>8. CASE SentHandler
  <2>1. (IF Head(strand).ec THEN close(FALSE)
         ELSE IF Head(strand).kick THEN close(TRUE) ELSE <<>>) \in Seq(Handler)
    BY CloseType, OptionalSeqType, EmptySeq, Zenon
  <2>2. strand' \in Seq(Handler)
    BY <1>8, <2>1, PostType DEF SentHandler, Runs, TypeOK
  <2>3. UNCHANGED <<program, core, recv, writes, sender, timers, clocks, owned, fault, env>>
    BY <1>8, Zenon DEF SentHandler
  <2> QED BY <2>2, <2>3 DEF TypeOK
<1>9. CASE CloseHandler
  <2>1. Head(strand) \in Handler /\ Head(strand).op = "close" /\ strand # <<>>
    BY <1>9, HeadTailProperties DEF CloseHandler, Runs, TypeOK
  <2>2. Head(strand).elegantly \in BOOLEAN BY <2>1 DEF Handler
  <2>3. (IF state = "CLOSE_DONE" THEN <<>> ELSE clear_all_timer) \in Seq(Handler)
    BY ClearType
  <2>4. strand' \in Seq(Handler)
    <3>1. strand' = Tail(strand) \o (IF state = "CLOSE_DONE" THEN <<>> ELSE clear_all_timer)
      BY <1>9, Zenon DEF CloseHandler
    <3> QED BY <2>1, <2>3, <3>1, PostType, Zenon DEF TypeOK
  <2>5. state' \in States /\ sock' \in {"none", "open", "closed"}
    BY <1>9, <2>2, CloseStepType DEF CloseHandler
  <2>6. retry' \in BOOLEAN /\ tick' \in BOOLEAN BY <1>9 DEF CloseHandler
  <2>7. UNCHANGED <<program, opc, recv, writes, sender, frame, clocks, owned, fault, env>>
    BY <1>9, Zenon DEF CloseHandler
  <2> QED BY <2>4, <2>5, <2>6, <2>7 DEF TypeOK
<1>10. CASE TickHandler
  <2>1. (IF TimedOut THEN close(TRUE) ELSE <<>>) \in Seq(Handler)
    BY CloseType, OptionalSeqType, EmptySeq, Zenon
  <2>2. (IF tick THEN <<OnTick>> ELSE <<>>) \in Seq(Handler)
    BY ConstructorTypes, OptionalType, Zenon
  <2>3. Tail(strand) \o (IF TimedOut THEN close(TRUE) ELSE <<>>) \in Seq(Handler)
    BY <1>10, <2>1, PostType DEF TickHandler, Runs, TypeOK
  <2>4. strand' \in Seq(Handler)
    BY <1>10, <2>2, <2>3, ConcatProperties DEF TickHandler
  <2>5. writes' \in Seq(BOOLEAN)
    <3>1. writes \in Seq(BOOLEAN) /\ Append(writes, FALSE) \in Seq(BOOLEAN)
      BY AppendWriteType, Zenon DEF TypeOK
    <3> QED BY <1>10, <3>1, Zenon DEF TickHandler
  <2>6. frame' \in 0..FramesPerCheck - 1 BY <1>10, NextFrameType DEF TickHandler
  <2>7. idleSend' \in 0..Timeout + 1
    BY <1>10, TickAssumption DEF TickHandler, TypeOK
  <2>8. tick' \in BOOLEAN BY <1>10 DEF TickHandler
  <2>9. UNCHANGED <<program, core, recv, sender, retry, idleRecv, owned, fault, env>>
    BY <1>10 DEF TickHandler
  <2> QED BY <2>4, <2>5, <2>6, <2>7, <2>8, <2>9 DEF TypeOK
<1>11. CASE TickHandlerDangling
  BY <1>11 DEF TickHandlerDangling, TypeOK
<1>12. CASE passively_connect_succ
  <2>1. reads' \in Seq(Read)
    BY <1>12, AppendProperties DEF passively_connect_succ, TypeOK, NewRead, Read
  <2> QED BY <1>12, <2>1 DEF passively_connect_succ, TypeOK, States
<1>13. CASE PassiveStartTick
  BY <1>13, StartTickType DEF PassiveStartTick, TypeOK
<1>14. CASE async_connect
  BY <1>14 DEF async_connect, TypeOK, States
<1>15. CASE async_send
  BY <1>15 DEF async_send, TypeOK
<1>16. CASE async_send_issue
  <2>1. PICK k \in BOOLEAN : writes' = Append(writes, k)
    BY <1>16 DEF async_send_issue
  <2>2. writes' \in Seq(BOOLEAN) BY <2>1, AppendWriteType, Zenon DEF TypeOK
  <2> QED BY <1>16, <2>2, TickAssumption DEF async_send_issue, TypeOK
<1>17. CASE kick
  <2>1. strand' \in Seq(Handler) BY <1>17, CloseType, ConcatProperties DEF kick, TypeOK
  <2>2. UNCHANGED <<program, core, recv, writes, sender, timers, clocks, owned, fault, env>>
    BY <1>17, Zenon DEF kick
  <2> QED BY <2>1, <2>2 DEF TypeOK
<1>18. CASE OwnerDrops
  BY <1>18 DEF OwnerDrops, TypeOK
<1>19. CASE ConnectCompletes
  <2>1. OnConnect \in Handler BY ConstructorTypes, Zenon
  <2>2. strand' \in Seq(Handler) BY <1>19, <2>1, AppendProperties DEF ConnectCompletes, TypeOK
  <2> QED BY <1>19, <2>2 DEF ConnectCompletes, TypeOK
<1>20. CASE ReadCompletes
  <2>1. Head(reads) \in Read /\ Tail(reads) \in Seq(Read)
    BY <1>20, HeadTailProperties DEF ReadCompletes, TypeOK
  <2>2. PICK o \in ReadOutcomes(Head(reads)) :
          /\ strand' = Append(strand, OnRead(o.ec, o.n, Head(reads)))
          /\ net' = net - o.n
    BY <1>20 DEF ReadCompletes
  <2>3. o.ec \in BOOLEAN /\ o.n \in 0..net BY DEF ReadOutcomes
  <2>4. o.n \in Nat /\ net' \in Nat BY <2>2, <2>3 DEF TypeOK
  <2>5. OnRead(o.ec, o.n, Head(reads)) \in Handler
    BY <2>1, <2>3, <2>4, ConstructorTypes, Zenon
  <2>6. strand' \in Seq(Handler) BY <2>2, <2>5, AppendProperties DEF TypeOK
  <2> QED BY <1>20, <2>1, <2>4, <2>6 DEF ReadCompletes, TypeOK
<1>21. CASE WriteCompletes
  <2>1. Head(writes) \in BOOLEAN /\ Tail(writes) \in Seq(BOOLEAN)
    BY <1>21, HeadTailProperties DEF WriteCompletes, TypeOK
  <2>2. PICK ec \in BOOLEAN : strand' = Append(strand, OnSent(ec, Head(writes)))
    BY <1>21 DEF WriteCompletes
  <2>3. OnSent(ec, Head(writes)) \in Handler BY <2>1, ConstructorTypes, Zenon
  <2>4. strand' \in Seq(Handler) BY <2>2, <2>3, AppendProperties DEF TypeOK
  <2> QED BY <1>21, <2>1, <2>4 DEF WriteCompletes, TypeOK
<1>22. CASE TickFires
  <2>1. strand' \in Seq(Handler)
    BY <1>22, ConstructorTypes, AppendProperties DEF TickFires, TypeOK
  <2> QED BY <1>22, <2>1, OlderType DEF TickFires, TypeOK
<1>23. CASE RetryFires
  <2>1. strand' \in Seq(Handler)
    BY <1>23, ConstructorTypes, AppendProperties DEF RetryFires, TypeOK
  <2> QED BY <1>23, <2>1 DEF RetryFires, TypeOK
<1>24. CASE PeerSends
  BY <1>24 DEF PeerSends, TypeOK
<1>25. CASE PeerCloses
  BY <1>25 DEF PeerCloses, TypeOK
<1>26. CASE PeerResets
  BY <1>26 DEF PeerResets, TypeOK
<1>27. CASE UNCHANGED vars
  BY <1>27 DEF vars, TypeOK
<1> QED
  BY <1>1, <1>2, <1>3, <1>4, <1>5, <1>6, <1>7, <1>8, <1>9, <1>10, <1>11, <1>12, <1>13,
     <1>14, <1>15, <1>16, <1>17, <1>18, <1>19, <1>20, <1>21, <1>22, <1>23, <1>24, <1>25,
     <1>26, <1>27
  DEF Next, StrandStep, CallerStep, KernelStep, PeerStep

\* The initial states are well typed.
LEMMA TypeInit == Init => TypeOK
<1> SUFFICES ASSUME Init PROVE TypeOK OBVIOUS
<1>1. strand \in Seq(Handler) /\ reads \in Seq(Read) /\ writes \in Seq(BOOLEAN)
  BY EmptySeq, Zenon DEF Init
<1>2. sock \in {"none", "open", "closed"} /\ opc \in {"accepted", "idle"}
  BY DEF Init
<1>3. idleRecv \in 0..Timeout + 1 /\ idleSend \in 0..Timeout + 1
  BY TickAssumption DEF Init
<1> QED BY <1>1, <1>2, <1>3 DEF Init, TypeOK, States

\* Every reachable state of a session is well typed, whatever the sizes and bounds.
THEOREM TypeCorrect == Spec => []TypeOK
BY TypeInit, TypeStep, PTL DEF Spec

-----------------------------------------------------------------------------
(***************************************************************************)
(* How a session is opened.  Until it is, nothing but the connection       *)
(* handler can be on its strand, so nothing can close it; that is why no   *)
(* later assignment of CONNECTING can revive a closed session.             *)
(***************************************************************************)
Unopened == opc \in {"accepted", "idle", "connecting", "connected"}

OpenInv ==
  Unopened =>
    /\ strand = (IF opc = "connected" THEN <<OnConnect>> ELSE <<>>)
    /\ reads = <<>> /\ writes = <<>> /\ sender = "idle"
    /\ tick = FALSE /\ retry = FALSE /\ len = 0
    /\ state \in {"INIT", "WAIT_CONNECT"} /\ sock # "closed"

LEMMA HeadOfUnopened ==
  ASSUME OpenInv, Unopened, strand # <<>>
  PROVE  Head(strand).op = "connect" /\ opc = "connected" /\ Tail(strand) = <<>>
<1>1. opc = "connected" /\ strand = <<OnConnect>> BY DEF OpenInv
<1>2. Head(<<OnConnect>>) = OnConnect /\ Tail(<<OnConnect>>) = <<>> OBVIOUS
<1>3. OnConnect.op = "connect" BY DEF OnConnect
<1> QED BY <1>1, <1>2, <1>3

\* Only the four opening steps change opc or act on an unopened session.
LEMMA OpenStep ==
  ASSUME TypeOK, OpenInv, [Next]_vars PROVE OpenInv'
<1> USE DEF core, recv, timers, clocks, env
<1>1. CASE StrandStep /\ ~ConnectHandler
  <2>1. ~Unopened
    BY <1>1, HeadOfUnopened
    DEF StrandStep, ConnectHandlerFails, ReadHandler, ReadHandlerNullBuffer, ReadHandlerOverrun,
        RetryHandler, RetryHandlerCancelled, SentHandler, CloseHandler, TickHandler,
        TickHandlerDangling, Runs
  <2>2. opc' = opc
    BY <1>1
    DEF StrandStep, ConnectHandlerFails, ReadHandler, ReadHandlerNullBuffer, ReadHandlerOverrun,
        RetryHandler, RetryHandlerCancelled, SentHandler, CloseHandler, TickHandler,
        TickHandlerDangling
  <2> QED BY <2>1, <2>2 DEF OpenInv, Unopened
<1>2. CASE ConnectHandler
  BY <1>2 DEF ConnectHandler, OpenInv, Unopened
<1>3. CASE passively_connect_succ \/ PassiveStartTick
  BY <1>3 DEF passively_connect_succ, PassiveStartTick, OpenInv, Unopened
<1>4. CASE async_connect
  BY <1>4 DEF async_connect, OpenInv, Unopened
<1>5. CASE ConnectCompletes
  BY <1>5 DEF ConnectCompletes, OpenInv, Unopened
<1>6. CASE async_send \/ async_send_issue \/ kick
  BY <1>6 DEF async_send, async_send_issue, kick, OpenInv, Unopened
<1>7. CASE ReadCompletes \/ WriteCompletes \/ TickFires \/ RetryFires
  BY <1>7 DEF ReadCompletes, WriteCompletes, TickFires, RetryFires, OpenInv, Unopened
<1>8. CASE OwnerDrops \/ PeerStep \/ UNCHANGED vars
  BY <1>8 DEF OwnerDrops, PeerStep, PeerSends, PeerCloses, PeerResets, vars, OpenInv, Unopened
<1> QED
  BY <1>1, <1>2, <1>3, <1>4, <1>5, <1>6, <1>7, <1>8 DEF Next, CallerStep, KernelStep

LEMMA OpenInit == Init => OpenInv
BY DEF Init, OpenInv, Unopened

-----------------------------------------------------------------------------
(***************************************************************************)
(* The state of a session and its descriptor.                              *)
(***************************************************************************)
\* No step closes the descriptor without entering CLOSE_DONE or the reverse,
\* and none goes back in the life of the session.
LEMMA SocketStep ==
  ASSUME TypeOK, OpenInv, SocketMatchesState, [Next]_vars
  PROVE  SocketMatchesState' /\ (Rank[state'] >= Rank[state] \/ UNCHANGED state)
<1> USE DEF core
<1>1. CASE CloseHandler
  <2>1. shutdown_or_close(Head(strand).elegantly) BY <1>1 DEF CloseHandler
  <2> QED BY <2>1 DEF shutdown_or_close, SocketMatchesState, TypeOK, States, Rank
<1>2. CASE ConnectHandler
  BY <1>2 DEF ConnectHandler, OpenInv, Unopened, SocketMatchesState, Rank
<1>3. CASE passively_connect_succ
  BY <1>3 DEF passively_connect_succ, OpenInv, Unopened, SocketMatchesState, Rank
<1>4. CASE async_connect
  BY <1>4 DEF async_connect, SocketMatchesState, Rank
<1>5. CASE UNCHANGED <<state, sock>>
  BY <1>5 DEF SocketMatchesState
<1> QED
  BY <1>1, <1>2, <1>3, <1>4, <1>5
  DEF Next, StrandStep, CallerStep, KernelStep, PeerStep, vars, ConnectHandlerFails, ReadHandler,
      ReadHandlerNullBuffer, ReadHandlerOverrun, RetryHandler, RetryHandlerCancelled, SentHandler,
      TickHandler, TickHandlerDangling, PassiveStartTick, async_send, async_send_issue, kick,
      OwnerDrops, ConnectCompletes, ReadCompletes, WriteCompletes, TickFires, RetryFires,
      PeerSends, PeerCloses, PeerResets

\* _state is CLOSE_DONE exactly when the socket has been closed.
THEOREM SocketMatchesStateAlways == Spec => []SocketMatchesState
<1>1. Init => SocketMatchesState BY DEF Init, SocketMatchesState
<1> QED BY <1>1, TypeInit, TypeStep, OpenInit, OpenStep, SocketStep, PTL DEF Spec

\* A session never goes back to an earlier state: a connection handler that
\* runs late and a close that comes twice change nothing that has ended.
THEOREM NeverRegresses == Spec => StateNeverRegresses
<1>1. Init => SocketMatchesState BY DEF Init, SocketMatchesState
<1>2. ASSUME TypeOK, OpenInv, SocketMatchesState, [Next]_vars
      PROVE  [Rank[state'] >= Rank[state]]_state
  BY <1>2, SocketStep
<1> QED
  BY <1>1, <1>2, TypeInit, TypeStep, OpenInit, OpenStep, SocketStep, PTL
  DEF Spec, StateNeverRegresses

-----------------------------------------------------------------------------
(***************************************************************************)
(* How often a strand, or what is posted to it, has a handler of a set H.  *)
(***************************************************************************)
NoneOf(s, H) == \A i \in 1..Len(s) : s[i] \notin H
OneOf(s, H) == \E i \in 1..Len(s) : s[i] \in H /\ \A j \in 1..Len(s) : s[j] \in H => j = i
With(op) == {h \in Handler : h.op = op}

LEMMA NoneOfConcat ==
  ASSUME NEW S, NEW s \in Seq(S), NEW t \in Seq(S), NEW H
  PROVE  NoneOf(s \o t, H) <=> NoneOf(s, H) /\ NoneOf(t, H)
<1>1. /\ Len(s \o t) = Len(s) + Len(t) /\ Len(s) \in Nat /\ Len(t) \in Nat
      /\ \A i \in 1..Len(s) : (s \o t)[i] = s[i]
      /\ \A i \in 1..Len(t) : (s \o t)[Len(s) + i] = t[i]
  BY ConcatProperties, LenProperties
<1>2. ASSUME NoneOf(s \o t, H) PROVE NoneOf(s, H) /\ NoneOf(t, H)
  <2>1. \A i \in 1..Len(s) : i \in 1..Len(s \o t)
    BY <1>1
  <2>2. \A i \in 1..Len(t) : Len(s) + i \in 1..Len(s \o t)
    BY <1>1
  <2> QED BY <1>1, <1>2, <2>1, <2>2 DEF NoneOf
<1>3. ASSUME NoneOf(s, H), NoneOf(t, H) PROVE NoneOf(s \o t, H)
  <2>1. ASSUME NEW i \in 1..Len(s \o t) PROVE (s \o t)[i] \notin H
    <3>1. CASE i <= Len(s)
      BY <1>1, <1>3, <3>1 DEF NoneOf
    <3>2. CASE i > Len(s)
      <4>1. i - Len(s) \in 1..Len(t) /\ i = Len(s) + (i - Len(s))
        BY <1>1, <3>2
      <4> QED BY <1>1, <1>3, <4>1 DEF NoneOf
    <3> QED BY <1>1, <3>1, <3>2
  <2> QED BY <2>1 DEF NoneOf
<1> QED BY <1>2, <1>3

LEMMA OneOfConcat ==
  ASSUME NEW S, NEW s \in Seq(S), NEW t \in Seq(S), NEW H
  PROVE  /\ OneOf(s, H) /\ NoneOf(t, H) => OneOf(s \o t, H)
         /\ NoneOf(s, H) /\ OneOf(t, H) => OneOf(s \o t, H)
<1>1. /\ Len(s \o t) = Len(s) + Len(t) /\ Len(s) \in Nat /\ Len(t) \in Nat
      /\ \A i \in 1..Len(s) : (s \o t)[i] = s[i]
      /\ \A i \in 1..Len(t) : (s \o t)[Len(s) + i] = t[i]
  BY ConcatProperties, LenProperties
<1>2. \A j \in 1..Len(s \o t) :
        j \in 1..Len(s) \/ (j - Len(s) \in 1..Len(t) /\ j = Len(s) + (j - Len(s)))
  BY <1>1
<1>3. ASSUME OneOf(s, H), NoneOf(t, H) PROVE OneOf(s \o t, H)
  <2>1. PICK i \in 1..Len(s) : s[i] \in H /\ \A j \in 1..Len(s) : s[j] \in H => j = i
    BY <1>3 DEF OneOf
  <2>2. i \in 1..Len(s \o t) /\ (s \o t)[i] \in H
    BY <1>1, <2>1
  <2>3. ASSUME NEW j \in 1..Len(s \o t), (s \o t)[j] \in H PROVE j = i
    BY <1>1, <1>2, <1>3, <2>1, <2>3 DEF NoneOf
  <2> QED BY <2>2, <2>3 DEF OneOf
<1>4. ASSUME NoneOf(s, H), OneOf(t, H) PROVE OneOf(s \o t, H)
  <2>1. PICK i \in 1..Len(t) : t[i] \in H /\ \A j \in 1..Len(t) : t[j] \in H => j = i
    BY <1>4 DEF OneOf
  <2>2. Len(s) + i \in 1..Len(s \o t) /\ (s \o t)[Len(s) + i] \in H
    BY <1>1, <2>1
  <2>3. ASSUME NEW j \in 1..Len(s \o t), (s \o t)[j] \in H PROVE j = Len(s) + i
    <3>1. j \notin 1..Len(s)
      BY <1>1, <1>4, <2>3 DEF NoneOf
    <3>2. j - Len(s) \in 1..Len(t) /\ t[j - Len(s)] \in H
      BY <1>1, <1>2, <2>3, <3>1
    <3>3. j - Len(s) = i
      BY <2>1, <3>2
    <3> QED BY <1>1, <2>3, <3>3
  <2> QED BY <2>2, <2>3 DEF OneOf
<1> QED BY <1>3, <1>4

\* The sequence without its head.
LEMMA OfTail ==
  ASSUME NEW S, NEW s \in Seq(S), s # <<>>, NEW H
  PROVE  /\ NoneOf(s, H) <=> Head(s) \notin H /\ NoneOf(Tail(s), H)
         /\ OneOf(s, H) /\ Head(s) \notin H => OneOf(Tail(s), H)
         /\ OneOf(s, H) /\ Head(s) \in H => NoneOf(Tail(s), H)
<1>1. /\ Len(s) \in Nat /\ Len(s) > 0 /\ Len(Tail(s)) = Len(s) - 1 /\ Head(s) = s[1]
      /\ \A i \in 1..Len(s) - 1 : Tail(s)[i] = s[i + 1]
  BY HeadTailProperties, LenProperties, EmptySeq
<1>2. 1 \in 1..Len(s) /\ \A i \in 1..Len(s) - 1 : i + 1 \in 1..Len(s) /\ i + 1 # 1
  BY <1>1
<1>3. \A i \in 1..Len(s) : i = 1 \/ (i - 1 \in 1..Len(s) - 1 /\ i = (i - 1) + 1)
  BY <1>1
<1>4. NoneOf(s, H) <=> Head(s) \notin H /\ NoneOf(Tail(s), H)
  <2>1. ASSUME NoneOf(s, H) PROVE Head(s) \notin H /\ NoneOf(Tail(s), H)
    BY <1>1, <1>2, <2>1 DEF NoneOf
  <2>2. ASSUME Head(s) \notin H, NoneOf(Tail(s), H) PROVE NoneOf(s, H)
    <3>1. ASSUME NEW i \in 1..Len(s) PROVE s[i] \notin H
      <4>1. CASE i = 1
        BY <1>1, <2>2, <4>1
      <4>2. CASE i # 1
        <5>1. i - 1 \in 1..Len(s) - 1 /\ Tail(s)[i - 1] = s[i]
          BY <1>1, <1>3, <4>2
        <5> QED BY <1>1, <2>2, <5>1 DEF NoneOf
      <4> QED BY <4>1, <4>2
    <3> QED BY <3>1 DEF NoneOf
  <2> QED BY <2>1, <2>2
<1>5. ASSUME OneOf(s, H), Head(s) \notin H PROVE OneOf(Tail(s), H)
  <2>1. PICK i \in 1..Len(s) : s[i] \in H /\ \A j \in 1..Len(s) : s[j] \in H => j = i
    BY <1>5 DEF OneOf
  <2>2. i - 1 \in 1..Len(Tail(s)) /\ Tail(s)[i - 1] \in H
    <3>1. i # 1
      BY <1>1, <1>5, <2>1
    <3>2. i - 1 \in 1..Len(s) - 1 /\ i = (i - 1) + 1
      BY <1>3, <3>1
    <3> QED BY <1>1, <2>1, <3>2
  <2>3. ASSUME NEW j \in 1..Len(Tail(s)), Tail(s)[j] \in H PROVE j = i - 1
    <3>1. s[j + 1] \in H /\ j + 1 \in 1..Len(s)
      BY <1>1, <1>2, <2>3
    <3> QED BY <1>1, <2>1, <2>3, <3>1
  <2> QED BY <2>2, <2>3 DEF OneOf
<1>6. ASSUME OneOf(s, H), Head(s) \in H PROVE NoneOf(Tail(s), H)
  <2>1. \A j \in 1..Len(s) : s[j] \in H => j = 1
    BY <1>1, <1>2, <1>6 DEF OneOf
  <2> QED BY <1>1, <1>2, <2>1 DEF NoneOf
<1> QED BY <1>4, <1>5, <1>6

LEMMA OfOne ==
  ASSUME NEW h, NEW H
  PROVE  /\ h \notin H => NoneOf(<<h>>, H)
         /\ h \in H => OneOf(<<h>>, H) /\ ~NoneOf(<<h>>, H)
         /\ NoneOf(<<>>, H)
<1>1. Len(<<h>>) = 1 /\ <<h>>[1] = h /\ Len(<<>>) = 0
  OBVIOUS
<1>2. 1..1 = {1} /\ 1..0 = {}
  OBVIOUS
<1> QED BY <1>1, <1>2 DEF NoneOf, OneOf

LEMMA OneIsSome == ASSUME NEW s, NEW H, OneOf(s, H) PROVE ~NoneOf(s, H)
  BY DEF OneOf, NoneOf

\* What is posted: the strand after a step holds as much of H as before.
Kept(H) == (NoneOf(strand, H) <=> NoneOf(strand', H)) /\ (OneOf(strand, H) => OneOf(strand', H))

LEMMA ClosePosts ==
  ASSUME NEW H, OnClose(TRUE) \notin H, OnClose(FALSE) \notin H
  PROVE  NoneOf(close(TRUE), H) /\ NoneOf(close(FALSE), H) /\ NoneOf(<<>>, H)
BY OfOne, Zenon DEF close

LEMMA KeptByConcat ==
  ASSUME NEW s \in Seq(Handler), NEW t \in Seq(Handler), NEW H, NoneOf(t, H)
  PROVE  /\ NoneOf(s \o t, H) <=> NoneOf(s, H)
         /\ OneOf(s, H) => OneOf(s \o t, H)
<1>1. NoneOf(s \o t, H) <=> NoneOf(s, H) /\ NoneOf(t, H)
  BY NoneOfConcat
<1>2. ASSUME OneOf(s, H) PROVE OneOf(s \o t, H)
  BY <1>2, OneOfConcat
<1> QED BY <1>1, <1>2

LEMMA KeptByPost ==
  ASSUME TypeOK, NEW t \in Seq(Handler), strand' = strand \o t, NEW H, NoneOf(t, H)
  PROVE  Kept(H)
<1>1. strand \in Seq(Handler)
  BY DEF TypeOK
<1> QED BY <1>1, KeptByConcat DEF Kept

LEMMA KeptByAppend ==
  ASSUME TypeOK, NEW h \in Handler, strand' = Append(strand, h), NEW H, h \notin H
  PROVE  Kept(H)
<1>1. strand \in Seq(Handler) /\ <<h>> \in Seq(Handler) /\ NoneOf(<<h>>, H)
  BY OptionalType, OfOne DEF TypeOK
<1>2. strand' = strand \o <<h>>
  BY <1>1, AppendIsConcat
<1> QED BY <1>1, <1>2, KeptByPost

LEMMA KeptByRun ==
  ASSUME TypeOK, strand # <<>>, NEW t \in Seq(Handler), strand' = Tail(strand) \o t,
         NEW H, Head(strand) \notin H, NoneOf(t, H)
  PROVE  Kept(H)
<1>1. strand \in Seq(Handler) /\ Tail(strand) \in Seq(Handler)
  BY HeadTailProperties DEF TypeOK
<1>2. /\ NoneOf(strand, H) <=> NoneOf(Tail(strand), H)
      /\ OneOf(strand, H) => OneOf(Tail(strand), H)
  BY <1>1, OfTail, Zenon
<1> QED BY <1>1, <1>2, KeptByConcat DEF Kept

\* Orphaning changes the reads of a strand and nothing else.
LEMMA OrphansKeep ==
  ASSUME NEW s \in Seq(Handler), NEW H,
         \A h \in Handler : h.op = "read" => (Orphan(h) \in H <=> h \in H)
  PROVE  /\ NoneOf(OrphanHandlers(s), H) <=> NoneOf(s, H)
         /\ OneOf(s, H) => OneOf(OrphanHandlers(s), H)
<1>1. Len(OrphanHandlers(s)) = Len(s) /\ Len(s) \in Nat
  BY DEF OrphanHandlers
<1>2. ASSUME NEW i \in 1..Len(s) PROVE OrphanHandlers(s)[i] \in H <=> s[i] \in H
  <2>1. s[i] \in Handler
    BY ElementOfSeq
  <2>2. OrphanHandlers(s)[i] = IF s[i].op = "read" THEN Orphan(s[i]) ELSE s[i]
    BY DEF OrphanHandlers
  <2> QED BY <2>1, <2>2
<1> QED BY <1>1, <1>2, Zenon DEF NoneOf, OneOf

\* pick_entire_msgs() runs the head, posts what its caller does and may cancel
\* the wait of an older retry.
LEMMA PickPosts ==
  ASSUME TypeOK, strand # <<>>, NEW l \in Nat, NEW posted \in Seq(Handler),
         pick_entire_msgs(l, posted)
  PROVE  \E s, t \in Seq(Handler) :
           /\ strand' = s \o t /\ (s = Tail(strand) \/ s = OrphanHandlers(Tail(strand)))
           /\ \A H : NoneOf(posted, H) /\ (OnRetry(TRUE) \notin H \/ ~retry \/ ~StorageCanFill)
                       => NoneOf(t, H)
<1> DEFINE kept(p) == IF p.rest = l THEN hasBuf ELSE p.rest > 0
           older(p) == IF retry /\ p.full THEN <<OnRetry(TRUE)>> ELSE <<>>
           s(p) == IF kept(p) THEN Tail(strand) ELSE OrphanHandlers(Tail(strand))
<1>1. PICK p \in Pick(l) : strand' = s(p) \o posted \o older(p)
  BY DEF pick_entire_msgs
<1>2. /\ s(p) \in Seq(Handler) /\ older(p) \in Seq(Handler)
      /\ s(p) = Tail(strand) \/ s(p) = OrphanHandlers(Tail(strand))
  <2>1. Tail(strand) \in Seq(Handler)
    BY HeadTailProperties DEF TypeOK
  <2>2. OrphanHandlers(Tail(strand)) \in Seq(Handler)
    BY <2>1, OrphanHandlersType
  <2>3. older(p) \in Seq(Handler)
    BY ConstructorTypes, OptionalType, Zenon
  <2> QED BY <2>1, <2>2, <2>3
<1>3. posted \o older(p) \in Seq(Handler) /\ strand' = s(p) \o (posted \o older(p))
  <2> HIDE DEF s, older
  <2> QED BY <1>1, <1>2, ConcatProperties, ConcatAssociative
<1>4. p.full => StorageCanFill
  BY DEF Pick
<1>5. ASSUME NEW H, NoneOf(posted, H), OnRetry(TRUE) \notin H \/ ~retry \/ ~StorageCanFill
      PROVE  NoneOf(posted \o older(p), H)
  <2>1. NoneOf(older(p), H)
    BY <1>4, <1>5, OfOne
  <2> HIDE DEF older
  <2> QED BY <1>2, <1>5, <2>1, NoneOfConcat
<1> HIDE DEF s, older
<1> QED BY <1>2, <1>3, <1>5

LEMMA KeptByPick ==
  ASSUME TypeOK, strand # <<>>, NEW l \in Nat, NEW posted \in Seq(Handler),
         pick_entire_msgs(l, posted), NEW H, Head(strand) \notin H, NoneOf(posted, H),
         OnRetry(TRUE) \notin H \/ ~retry \/ ~StorageCanFill,
         \A h \in Handler : h.op = "read" => (Orphan(h) \in H <=> h \in H)
  PROVE  Kept(H)
<1>1. PICK s, t \in Seq(Handler) :
        /\ strand' = s \o t /\ (s = Tail(strand) \/ s = OrphanHandlers(Tail(strand)))
        /\ NoneOf(t, H)
  BY PickPosts
<1>2. Tail(strand) \in Seq(Handler) /\ strand \in Seq(Handler)
  BY HeadTailProperties DEF TypeOK
<1>3. /\ NoneOf(strand, H) <=> NoneOf(Tail(strand), H)
      /\ OneOf(strand, H) => OneOf(Tail(strand), H)
  BY <1>2, OfTail, Zenon
<1>4. (NoneOf(s, H) <=> NoneOf(strand, H)) /\ (OneOf(strand, H) => OneOf(s, H))
  <2>1. /\ NoneOf(OrphanHandlers(Tail(strand)), H) <=> NoneOf(Tail(strand), H)
        /\ OneOf(Tail(strand), H) => OneOf(OrphanHandlers(Tail(strand)), H)
    BY <1>2, OrphansKeep
  <2> QED BY <1>1, <1>3, <2>1
<1> QED BY <1>1, <1>4, KeptByConcat DEF Kept

LEMMA ConstructorOps ==
  /\ OnConnect.op = "connect" /\ OnTick.op = "tick"
  /\ \A e : OnRetry(e).op = "retry" /\ OnClose(e).op = "close"
  /\ \A e, k : OnSent(e, k).op = "sent"
  /\ \A e, n, r : OnRead(e, n, r).op = "read"
BY DEF OnConnect, OnTick, OnRetry, OnClose, OnSent, OnRead

LEMMA OrphanIsRead ==
  ASSUME NEW op, NEW h \in Handler, h.op = "read"
  PROVE  Orphan(h) \in With(op) <=> h \in With(op)
BY OrphanHandlerType DEF With

\* The steps that neither run nor add a handler of H.
LEMMA OtherSteps ==
  ASSUME TypeOK, [Next]_vars, NEW op \in {"read", "tick", "retry"}, NEW H \in SUBSET With(op),
         op = "read" => ~ReadHandler /\ ~ReadCompletes,
         op = "tick" => /\ ~ConnectHandler /\ ~PassiveStartTick /\ ~TickHandler
                        /\ ~CloseHandler /\ ~TickFires,
         op = "retry" => ~retry /\ ~StorageCanFill /\ ~RetryHandler /\ ~RetryHandlerCancelled,
         ReadHandler \/ RetryHandler =>
           \A h \in Handler : h.op = "read" => (Orphan(h) \in H <=> h \in H)
  PROVE  Kept(H)
<1>1. \A h : h \in H => h.op = op
  BY DEF With
<1>2. /\ OnConnect \notin H /\ \A e : OnClose(e) \notin H
      /\ \A e, k : OnSent(e, k) \notin H
      /\ op # "tick" => OnTick \notin H
      /\ op # "retry" => \A e : OnRetry(e) \notin H
      /\ op # "read" => \A e, n, r : OnRead(e, n, r) \notin H
  BY <1>1, ConstructorOps
<1>3. /\ close(TRUE) \in Seq(Handler) /\ close(FALSE) \in Seq(Handler) /\ <<>> \in Seq(Handler)
      /\ NoneOf(close(TRUE), H) /\ NoneOf(close(FALSE), H) /\ NoneOf(<<>>, H)
  BY <1>2, CloseType, ClosePosts, EmptySeq
<1>4. strand # <<>> => Head(strand) \in Handler
  BY HeadTailProperties DEF TypeOK
<1>5. \A s \in Seq(Handler) : s \o <<>> = s
  BY ConcatEmptySeq
<1>c. CASE UNCHANGED strand
  BY <1>c DEF Kept
<1>6. CASE ConnectHandler
  <2>1. strand # <<>> /\ Head(strand) \notin H /\ Tail(strand) \in Seq(Handler)
    BY <1>1, <1>6, HeadTailProperties DEF ConnectHandler, Runs, TypeOK
  <2>2. PICK t \in Seq(Handler) : strand' = Tail(strand) \o t /\ NoneOf(t, H)
    <3>1. CASE tick
      <4>1. strand' = Append(Tail(strand), OnTick) /\ OnTick \in Handler /\ OnTick \notin H
        BY <1>2, <1>6, <3>1, ConstructorTypes DEF ConnectHandler, start_tick
      <4>2. strand' = Tail(strand) \o <<OnTick>> /\ <<OnTick>> \in Seq(Handler)
        BY <2>1, <4>1, AppendIsConcat, OptionalType
      <4> QED BY <4>1, <4>2, OfOne
    <3>2. CASE ~tick
      BY <1>3, <1>5, <1>6, <2>1, <3>2 DEF ConnectHandler, start_tick
    <3> QED BY <3>1, <3>2
  <2> QED BY <2>1, <2>2, KeptByRun
<1>7. CASE ConnectHandlerFails \/ RetryHandlerCancelled
  <2>1. strand # <<>> /\ Head(strand) \notin H /\ strand' = Tail(strand) \o close(FALSE)
    BY <1>1, <1>7 DEF ConnectHandlerFails, RetryHandlerCancelled, Runs
  <2> QED BY <1>3, <2>1, KeptByRun
<1>8. CASE SentHandler
  <2>1. PICK t \in Seq(Handler) : strand' = Tail(strand) \o t /\ NoneOf(t, H)
    BY <1>3, <1>8 DEF SentHandler
  <2>2. strand # <<>> /\ Head(strand) \notin H
    BY <1>1, <1>8 DEF SentHandler, Runs
  <2> QED BY <2>1, <2>2, KeptByRun
<1>9. CASE CloseHandler
  <2>1. strand # <<>> /\ Head(strand) \notin H
    BY <1>1, <1>9 DEF CloseHandler, Runs
  <2>2. clear_all_timer \in Seq(Handler) /\ NoneOf(clear_all_timer, H)
    <3> DEFINE r == IF retry THEN <<OnRetry(TRUE)>> ELSE <<>>
               k == IF tick THEN <<OnTick>> ELSE <<>>
    <3>1. r \in Seq(Handler) /\ k \in Seq(Handler)
      BY ConstructorTypes, OptionalType, Zenon
    <3>2. NoneOf(r, H) /\ NoneOf(k, H)
      BY <1>2, <1>9, OfOne
    <3> HIDE DEF r, k
    <3>3. NoneOf(r \o k, H)
      BY <3>1, <3>2, NoneOfConcat
    <3>4. clear_all_timer = r \o k
      BY DEF clear_all_timer, r, k
    <3> QED BY <3>3, <3>4, ClearType
  <2>3. PICK t \in Seq(Handler) : strand' = Tail(strand) \o t /\ NoneOf(t, H)
    BY <1>3, <1>9, <2>2, Zenon DEF CloseHandler
  <2> QED BY <2>1, <2>3, KeptByRun
<1>10. CASE TickHandler
  <2> DEFINE c == IF TimedOut THEN close(TRUE) ELSE <<>>
             k == IF tick THEN <<OnTick>> ELSE <<>>
  <2>1. c \in Seq(Handler) /\ k \in Seq(Handler) /\ Tail(strand) \in Seq(Handler)
    BY <1>3, <1>10, ConstructorTypes, OptionalType, HeadTailProperties
    DEF TickHandler, Runs, TypeOK
  <2>2. NoneOf(c, H) /\ NoneOf(k, H)
    BY <1>2, <1>3, <1>10, OfOne
  <2>3. strand' = (Tail(strand) \o c) \o k /\ strand # <<>> /\ Head(strand) \notin H
    BY <1>1, <1>10 DEF TickHandler, Runs
  <2> HIDE DEF c, k
  <2>4. strand' = Tail(strand) \o (c \o k) /\ c \o k \in Seq(Handler)
    BY <2>1, <2>3, ConcatAssociative, ConcatProperties
  <2>5. NoneOf(c \o k, H)
    BY <2>1, <2>2, NoneOfConcat
  <2> QED BY <2>3, <2>4, <2>5, KeptByRun
<1>11. CASE ReadHandler
  <2> DEFINE posted == IF Head(strand).ec THEN close(FALSE) ELSE <<>>
  <2>1. strand # <<>> /\ Head(strand).op = "read" /\ Head(strand) \notin H
    BY <1>1, <1>11 DEF ReadHandler, Runs
  <2>2. len + Head(strand).n \in Nat
    BY <1>4, <2>1 DEF Handler, TypeOK
  <2>3. posted \in Seq(Handler) /\ NoneOf(posted, H)
    BY <1>3
  <2>4. pick_entire_msgs(len + Head(strand).n, posted)
    BY <1>11 DEF ReadHandler
  <2> HIDE DEF posted
  <2> QED BY <1>2, <1>11, <2>1, <2>2, <2>3, <2>4, KeptByPick
<1>12. CASE RetryHandler
  <2>1. strand # <<>> /\ Head(strand) \notin H /\ len \in Nat /\ pick_entire_msgs(len, <<>>)
    BY <1>1, <1>12 DEF RetryHandler, Runs, TypeOK
  <2> QED BY <1>2, <1>3, <1>12, <2>1, KeptByPick
<1>13. CASE PassiveStartTick
  <2>1. CASE tick
    BY <1>2, <1>13, <2>1, ConstructorTypes, KeptByAppend DEF PassiveStartTick, start_tick
  <2>2. CASE ~tick
    BY <1>c, <1>13, <2>2 DEF PassiveStartTick, start_tick
  <2> QED BY <2>1, <2>2
<1>14. CASE ConnectCompletes
  BY <1>2, <1>14, ConstructorTypes, KeptByAppend DEF ConnectCompletes
<1>15. CASE kick
  BY <1>3, <1>15, KeptByPost DEF kick
<1>16. CASE WriteCompletes
  <2>1. PICK ec \in BOOLEAN : strand' = Append(strand, OnSent(ec, Head(writes)))
    BY <1>16 DEF WriteCompletes
  <2>2. OnSent(ec, Head(writes)) \in Handler
    <3>1. Head(writes) \in BOOLEAN
      BY <1>16, HeadTailProperties DEF WriteCompletes, TypeOK
    <3> QED BY <3>1, ConstructorTypes, Zenon
  <2> QED BY <1>2, <2>1, <2>2, KeptByAppend
<1>17. CASE ReadCompletes
  <2>1. PICK o \in ReadOutcomes(Head(reads)) :
          strand' = Append(strand, OnRead(o.ec, o.n, Head(reads)))
    BY <1>17 DEF ReadCompletes
  <2>2. OnRead(o.ec, o.n, Head(reads)) \in Handler
    <3>1. Head(reads) \in Read
      BY <1>17, HeadTailProperties DEF ReadCompletes, TypeOK
    <3>2. o.ec \in BOOLEAN /\ o.n \in Nat
      BY DEF ReadOutcomes, TypeOK
    <3> QED BY <3>1, <3>2, ConstructorTypes, Zenon
  <2> QED BY <1>2, <1>17, <2>1, <2>2, KeptByAppend
<1>18. CASE TickFires
  BY <1>2, <1>18, ConstructorTypes, KeptByAppend DEF TickFires
<1>19. CASE RetryFires
  BY <1>2, <1>19, ConstructorTypes, KeptByAppend DEF RetryFires
<1> QED
  BY <1>c, <1>6, <1>7, <1>8, <1>9, <1>10, <1>11, <1>12, <1>13, <1>14, <1>15, <1>16, <1>17, <1>18,
     <1>19
  DEF Next, StrandStep, CallerStep, KernelStep, PeerStep, ReadHandlerNullBuffer,
      ReadHandlerOverrun, TickHandlerDangling, passively_connect_succ, async_connect, async_send,
      async_send_issue, OwnerDrops, PeerSends, PeerCloses, PeerResets, vars

-----------------------------------------------------------------------------
(***************************************************************************)
(* ReadLoopAlive.                                                          *)
(***************************************************************************)
LoopInv == state = "CONNECTING" => reads # <<>> \/ ~NoneOf(strand, With("read"))

LEMMA NoneRunning ==
  ASSUME TypeOK, NEW op PROVE NoneOf(strand, With(op)) <=> On(op) = {}
<1>1. \A i \in 1..Len(strand) : strand[i] \in With(op) <=> strand[i].op = op
  BY ElementOfSeq DEF TypeOK, With
<1> QED BY <1>1 DEF NoneOf, On

LEMMA RunsOf ==
  ASSUME TypeOK, NEW op, Runs(op)
  PROVE  /\ strand # <<>> /\ strand \in Seq(Handler) /\ Tail(strand) \in Seq(Handler)
         /\ Head(strand) \in With(op) /\ Head(strand) \in Handler /\ ~NoneOf(strand, With(op))
<1>1. strand # <<>> /\ Head(strand) \in Handler /\ Head(strand).op = op
      /\ strand \in Seq(Handler) /\ Tail(strand) \in Seq(Handler)
  BY HeadTailProperties DEF TypeOK, Runs
<1>2. Head(strand) \in With(op)
  BY <1>1 DEF With
<1> QED BY <1>1, <1>2, OfTail

LEMMA AppendSome ==
  ASSUME NEW s \in Seq(Handler), NEW h \in Handler, NEW H, h \in H
  PROVE  ~NoneOf(Append(s, h), H) /\ (NoneOf(s, H) => OneOf(Append(s, h), H))
<1>1. Append(s, h) = s \o <<h>> /\ <<h>> \in Seq(Handler)
  BY AppendIsConcat, OptionalType
<1>2. OneOf(<<h>>, H) /\ ~NoneOf(<<h>>, H)
  BY OfOne
<1>3. NoneOf(s \o <<h>>, H) <=> NoneOf(s, H) /\ NoneOf(<<h>>, H)
  BY <1>1, NoneOfConcat
<1>4. NoneOf(s, H) /\ OneOf(<<h>>, H) => OneOf(s \o <<h>>, H)
  BY <1>1, OneOfConcat
<1> QED BY <1>1, <1>2, <1>3, <1>4

\* A pick of a connected session starts a read.
LEMMA PickReads ==
  ASSUME TypeOK, NEW l \in Nat, NEW posted, pick_entire_msgs(l, posted), state = "CONNECTING"
  PROVE  reads' # <<>>
<1>1. PICK p \in Pick(l), s \in Seq(Read) : reads' = s \o async_recv_loop(p.rest)
  BY OrphanReadsType DEF pick_entire_msgs, TypeOK
<1>2. async_recv_loop(p.rest) = <<NewRead(p.rest)>> /\ NewRead(p.rest) \in Read
  BY PickType DEF async_recv_loop, NewRead, Read
<1> QED BY <1>1, <1>2

LEMMA LoopStep == ASSUME TypeOK, LoopInv, [Next]_vars PROVE LoopInv'
<1> USE DEF core, recv
<1>1. CASE ReadHandler
  <2>1. len + Head(strand).n \in Nat
    <3>1. Head(strand) \in Handler /\ Head(strand).op = "read"
      BY <1>1, RunsOf DEF ReadHandler, Runs
    <3> QED BY <3>1 DEF Handler, TypeOK
  <2>2. state' = state /\ (state = "CONNECTING" => reads' # <<>>)
    BY <1>1, <2>1, PickReads DEF ReadHandler
  <2> QED BY <2>2 DEF LoopInv
<1>2. CASE RetryHandler
  <2>1. state' = state /\ (state = "CONNECTING" => reads' # <<>>)
    BY <1>2, PickReads DEF RetryHandler, TypeOK
  <2> QED BY <2>1 DEF LoopInv
<1>3. CASE ConnectHandler \/ passively_connect_succ
  <2>1. reads' = Append(reads, NewRead(len)) /\ NewRead(len) \in Read
    BY <1>3 DEF ConnectHandler, passively_connect_succ, NewRead, Read, TypeOK
  <2> QED BY <2>1, AppendProperties DEF LoopInv, TypeOK
<1>4. CASE ReadCompletes
  <2>1. PICK o \in ReadOutcomes(Head(reads)) :
          strand' = Append(strand, OnRead(o.ec, o.n, Head(reads)))
    BY <1>4 DEF ReadCompletes
  <2>2. OnRead(o.ec, o.n, Head(reads)) \in Handler
    <3>1. Head(reads) \in Read
      BY <1>4, HeadTailProperties DEF ReadCompletes, TypeOK
    <3>2. o.ec \in BOOLEAN /\ o.n \in Nat
      BY DEF ReadOutcomes, TypeOK
    <3> QED BY <3>1, <3>2, ConstructorTypes, Zenon
  <2>3. OnRead(o.ec, o.n, Head(reads)) \in With("read")
    BY <2>2, ConstructorOps DEF With
  <2> QED BY <2>1, <2>2, <2>3, AppendSome DEF LoopInv, TypeOK
<1>5. CASE ~(ReadHandler \/ RetryHandler \/ ConnectHandler \/ passively_connect_succ
              \/ ReadCompletes)
  <2>1. Kept(With("read"))
    BY <1>5, OtherSteps
  <2>2. reads' = reads /\ (state' = "CONNECTING" => state = "CONNECTING")
    BY <1>5
    DEF Next, StrandStep, CallerStep, KernelStep, PeerStep, vars, ConnectHandlerFails,
        ReadHandlerNullBuffer, ReadHandlerOverrun, RetryHandlerCancelled, SentHandler,
        CloseHandler, shutdown_or_close, TickHandler, TickHandlerDangling, PassiveStartTick,
        async_connect, async_send, async_send_issue, kick, OwnerDrops, ConnectCompletes,
        WriteCompletes, TickFires, RetryFires, PeerSends, PeerCloses, PeerResets
  <2> QED BY <2>1, <2>2 DEF LoopInv, Kept
<1> QED BY <1>1, <1>2, <1>3, <1>4, <1>5

\* The receive loop of a connected session never stops, whatever reads, retries
\* and closes overlap: every handler of a read reads again, also after an
\* error, and none is lost.
THEOREM LoopNeverStops == Spec => []ReadLoopAlive
<1>1. Init => LoopInv
  BY DEF Init, LoopInv
<1>2. TypeOK /\ LoopInv => ReadLoopAlive
  BY NoneRunning DEF LoopInv, ReadLoopAlive
<1> QED BY <1>1, <1>2, TypeInit, TypeStep, LoopStep, PTL DEF Spec

-----------------------------------------------------------------------------
(***************************************************************************)
(* OneTick.  Until the session is started nothing of the tick is there.    *)
(***************************************************************************)
TickInv ==
  /\ opc = "started" => IF tick THEN NoneOf(strand, With("tick")) ELSE OneOf(strand, With("tick"))
  /\ opc # "started" => ~tick /\ NoneOf(strand, With("tick"))

LEMMA OnTickIn == OnTick \in Handler /\ OnTick \in With("tick")
BY ConstructorTypes, ConstructorOps DEF With

LEMMA TickStep == ASSUME TypeOK, OpenInv, TickInv, [Next]_vars PROVE TickInv'
<1> USE DEF core, timers
<1> DEFINE H == With("tick")
<1>1. CASE ConnectHandler
  <2>1. ~tick /\ NoneOf(strand, H) /\ opc' = "started" /\ tick' = TRUE /\ strand' = Tail(strand)
    BY <1>1 DEF ConnectHandler, TickInv, start_tick
  <2>2. NoneOf(Tail(strand), H)
    BY <1>1, <2>1, RunsOf, OfTail DEF ConnectHandler
  <2> QED BY <2>1, <2>2 DEF TickInv
<1>2. CASE PassiveStartTick
  BY <1>2 DEF PassiveStartTick, TickInv, start_tick
<1>3. CASE TickHandler
  <2>1. Head(strand) \in H /\ strand # <<>> /\ ~NoneOf(strand, H) /\ strand \in Seq(Handler)
        /\ Tail(strand) \in Seq(Handler)
    BY <1>3, RunsOf DEF TickHandler
  <2>2. opc = "started" /\ ~tick /\ OneOf(strand, H)
    BY <2>1 DEF TickInv
  <2>3. NoneOf(Tail(strand), H)
    BY <2>1, <2>2, OfTail
  <2>4. opc' = opc /\ tick' = TRUE
    BY <1>3 DEF TickHandler
  <2>5. PICK t \in Seq(Handler) : strand' = Tail(strand) \o t /\ NoneOf(t, H)
    <3> DEFINE c == IF TimedOut THEN close(TRUE) ELSE <<>>
    <3>1. c \in Seq(Handler)
      BY CloseType, EmptySeq, Zenon
    <3>2. NoneOf(c, H)
      BY ClosePosts, ConstructorOps, OfOne DEF With
    <3>3. strand' = (Tail(strand) \o c) \o <<>>
      BY <1>3, <2>2 DEF TickHandler
    <3> HIDE DEF c
    <3>4. strand' = Tail(strand) \o c
      BY <2>1, <3>1, <3>3, ConcatProperties, ConcatEmptySeq
    <3> QED BY <3>1, <3>2, <3>4
  <2>6. NoneOf(strand', H)
    BY <2>1, <2>3, <2>5, NoneOfConcat
  <2> QED BY <2>2, <2>4, <2>6 DEF TickInv
<1>4. CASE CloseHandler /\ state # "CLOSE_DONE"
  <2>1. Tail(strand) \in Seq(Handler) /\ strand \in Seq(Handler) /\ strand # <<>>
        /\ Head(strand) \notin H
    BY <1>4, RunsOf DEF CloseHandler, Runs, With
  <2> DEFINE r == IF retry THEN <<OnRetry(TRUE)>> ELSE <<>>
             k == IF tick THEN <<OnTick>> ELSE <<>>
  <2>2. r \in Seq(Handler) /\ k \in Seq(Handler)
    BY ConstructorTypes, OptionalType, Zenon
  <2>3. NoneOf(r, H)
    BY ConstructorOps, OfOne DEF With
  <2>4. IF tick THEN OneOf(k, H) ELSE NoneOf(k, H)
    BY OnTickIn, OfOne
  <2>5. strand' = Tail(strand) \o (r \o k) /\ opc' = opc /\ tick' = FALSE
    BY <1>4 DEF CloseHandler, clear_all_timer
  <2> HIDE DEF r, k
  <2>6. r \o k \in Seq(Handler) /\ IF tick THEN OneOf(r \o k, H) ELSE NoneOf(r \o k, H)
    BY <2>2, <2>3, <2>4, NoneOfConcat, OneOfConcat, ConcatProperties
  <2>7. CASE tick
    <3>1. opc = "started" /\ NoneOf(strand, H)
      BY <2>7 DEF TickInv
    <3>2. NoneOf(Tail(strand), H)
      BY <2>1, <3>1, OfTail
    <3>3. OneOf(strand', H)
      BY <2>1, <2>5, <2>6, <2>7, <3>2, OneOfConcat
    <3> QED BY <2>5, <3>1, <3>3 DEF TickInv
  <2>8. CASE ~tick
    <3>1. Kept(H)
      BY <2>1, <2>5, <2>6, <2>8, KeptByRun
    <3> QED BY <2>5, <2>8, <3>1 DEF TickInv, Kept
  <2> QED BY <2>7, <2>8
<1>5. CASE CloseHandler /\ state = "CLOSE_DONE"
  <2>1. strand # <<>> /\ Head(strand) \notin H /\ strand' = Tail(strand) \o <<>>
        /\ opc' = opc /\ tick' = tick
    BY <1>5, RunsOf DEF CloseHandler, Runs, With, TypeOK
  <2>2. Kept(H)
    BY <2>1, EmptySeq, OfOne, KeptByRun
  <2> QED BY <2>1, <2>2 DEF TickInv, Kept
<1>6. CASE TickFires
  <2>1. opc = "started" /\ NoneOf(strand, H) /\ strand' = Append(strand, OnTick)
        /\ opc' = opc /\ tick' = FALSE
    BY <1>6 DEF TickFires, TickInv
  <2>2. OneOf(strand', H)
    BY <2>1, OnTickIn, AppendSome DEF TypeOK
  <2> QED BY <2>1, <2>2 DEF TickInv
<1>7. CASE ~(ConnectHandler \/ PassiveStartTick \/ TickHandler \/ CloseHandler \/ TickFires)
  <2>1. Kept(H)
    <3>1. \A h \in Handler : h.op = "read" => (Orphan(h) \in H <=> h \in H)
      BY OrphanIsRead
    <3> QED BY <1>7, <3>1, OtherSteps
  <2>2. tick' = tick /\ (opc' = "started" <=> opc = "started")
    BY <1>7
    DEF Next, StrandStep, CallerStep, KernelStep, PeerStep, vars, ConnectHandlerFails, ReadHandler,
        ReadHandlerNullBuffer, ReadHandlerOverrun, RetryHandler, RetryHandlerCancelled,
        SentHandler, TickHandlerDangling, passively_connect_succ,
        async_connect, async_send, async_send_issue, kick, OwnerDrops, ConnectCompletes,
        ReadCompletes, WriteCompletes, RetryFires, PeerSends, PeerCloses, PeerResets
  <2> QED BY <2>1, <2>2 DEF TickInv, Kept
<1> QED BY <1>1, <1>2, <1>3, <1>4, <1>5, <1>6, <1>7

LEMMA OneRunning ==
  ASSUME TypeOK, NEW op, OneOf(strand, With(op)) PROVE \E i \in On(op) : On(op) = {i}
<1>1. \A i \in 1..Len(strand) : strand[i] \in With(op) <=> strand[i].op = op
  BY ElementOfSeq DEF TypeOK, With
<1>2. PICK i \in 1..Len(strand) :
        strand[i] \in With(op) /\ \A j \in 1..Len(strand) : strand[j] \in With(op) => j = i
  BY DEF OneOf
<1> QED BY <1>1, <1>2 DEF On

\* A started session ticks on one timer chain for ever: the wait that a close
\* cancels completes and is armed again, and never while another is.
THEOREM TicksOnce == Spec => []OneTick
<1>1. Init => TickInv
  BY DEF Init, TickInv, NoneOf
<1>2. TypeOK /\ TickInv => OneTick
  <2> SUFFICES ASSUME TypeOK, TickInv, opc = "started"
               PROVE  \/ tick /\ On("tick") = {}
                      \/ ~tick /\ \E i \in On("tick") : On("tick") = {i}
    BY Zenon DEF OneTick
  <2>1. CASE tick
    BY <2>1, NoneRunning DEF TickInv
  <2>2. CASE ~tick
    BY <2>2, OneRunning DEF TickInv
  <2> QED BY <2>1, <2>2
<1> QED BY <1>1, <1>2, TypeInit, TypeStep, OpenInit, OpenStep, TickStep, PTL DEF Spec

-----------------------------------------------------------------------------
(***************************************************************************)
(* OneReadAtEnd and NoFault.  Where the storage never refuses a message    *)
(* there is no retry, so the read that a read handler starts is the only   *)
(* one: it fills the buffer behind what is stored, and what it may store   *)
(* fits.                                                                   *)
(***************************************************************************)
Astray(l) == {h \in With("read") : ~(h.cur /\ h.at = l /\ l + h.n <= Cap)}

OneReader ==
  \/ reads = <<>> /\ NoneOf(strand, With("read"))
  \/ hasBuf /\ reads = <<>> /\ OneOf(strand, With("read"))
  \/ hasBuf /\ reads = <<NewRead(len)>> /\ NoneOf(strand, With("read"))

ReadInv ==
  ~StorageCanFill =>
    /\ ~retry /\ NoneOf(strand, With("retry"))
    /\ owned /\ fault = "none" /\ len <= Cap
    /\ NoneOf(strand, Astray(len)) /\ OneReader

LEMMA NoneOfFewer ==
  ASSUME NEW s, NEW H, NoneOf(s, H), NEW G \in SUBSET H PROVE NoneOf(s, G)
BY DEF NoneOf

LEMMA AstrayIsRead == \A l : Astray(l) \in SUBSET With("read")
BY DEF Astray

\* A handler that starts the first read of a session.
LEMMA FirstRead ==
  ASSUME TypeOK, OpenInv, ReadInv, ConnectHandler \/ passively_connect_succ,
         Kept(With("retry")) \/ StorageCanFill, Kept(With("read"))
  PROVE  ReadInv'
<1> USE DEF core, recv, timers
<1>1. StorageCanFill' = StorageCanFill
  BY DEF ConnectHandler, passively_connect_succ, StorageCanFill
<1>2. UNCHANGED <<len, retry, owned, fault>> /\ reads' = Append(reads, NewRead(len)) /\ hasBuf' = TRUE
  BY DEF ConnectHandler, passively_connect_succ
<1>3. reads = <<>> /\ NoneOf(strand, With("read"))
  <2>1. Unopened /\ (strand = <<OnConnect>> \/ strand = <<>>)
    BY DEF ConnectHandler, passively_connect_succ, OpenInv, Unopened
  <2>2. OnConnect \notin With("read")
    BY ConstructorOps DEF With
  <2> QED BY <2>1, <2>2, OfOne DEF OpenInv
<1>4. reads' = <<NewRead(len)>> /\ NewRead(len') = NewRead(len)
  BY <1>2, <1>3 DEF NewRead
<1>5. NoneOf(strand', With("read"))
  BY <1>3 DEF Kept
<1>6. NoneOf(strand', Astray(len'))
  BY <1>5, AstrayIsRead, NoneOfFewer
<1> QED BY <1>1, <1>2, <1>4, <1>5, <1>6 DEF ReadInv, OneReader, Kept

\* The handler of the only read starts the next one, or none.
LEMMA NextRead ==
  ASSUME TypeOK, ReadInv, ~StorageCanFill, ReadHandler, Kept(With("retry"))
  PROVE  ReadInv'
<1> USE DEF core, recv, timers
<1> DEFINE h == Head(strand)
           posted == IF h.ec THEN close(FALSE) ELSE <<>>
<1>1. /\ strand # <<>> /\ strand \in Seq(Handler) /\ Tail(strand) \in Seq(Handler)
      /\ h \in With("read") /\ h \in Handler /\ h.op = "read" /\ ~NoneOf(strand, With("read"))
  BY RunsOf DEF ReadHandler, Runs
<1>2. reads = <<>> /\ OneOf(strand, With("read"))
  BY <1>1 DEF ReadInv, OneReader
<1>3. h.n \in Nat /\ len + h.n \in Nat /\ len + h.n <= Cap
  BY <1>1 DEF Handler, TypeOK, ReadHandler
<1>4. NoneOf(Tail(strand), With("read"))
  BY <1>1, <1>2, OfTail
<1>5. posted \in Seq(Handler) /\ NoneOf(posted, With("read"))
  <2>1. OnClose(TRUE) \notin With("read") /\ OnClose(FALSE) \notin With("read")
    BY ConstructorOps DEF With
  <2> QED BY <2>1, CloseType, ClosePosts, EmptySeq, Zenon
<1>6. pick_entire_msgs(len + h.n, posted)
  BY DEF ReadHandler
<1>7. UNCHANGED <<program, state, owned, fault>>
  BY DEF ReadHandler
<1> HIDE DEF h, posted
<1>8. NoneOf(strand', With("read"))
  <2>1. PICK s, t \in Seq(Handler) :
          /\ strand' = s \o t /\ (s = Tail(strand) \/ s = OrphanHandlers(Tail(strand)))
          /\ NoneOf(t, With("read"))
    BY <1>1, <1>3, <1>5, <1>6, PickPosts
  <2>2. \A g \in Handler : g.op = "read" => (Orphan(g) \in With("read") <=> g \in With("read"))
    BY OrphanIsRead
  <2>3. NoneOf(OrphanHandlers(Tail(strand)), With("read"))
    BY <1>1, <1>4, <2>2, OrphansKeep
  <2>4. NoneOf(s, With("read"))
    BY <1>4, <2>1, <2>3
  <2> QED BY <2>1, <2>4, NoneOfConcat
<1>9. PICK p \in Pick(len + h.n) :
        /\ len' = p.rest
        /\ hasBuf' = ((IF p.rest = len + h.n THEN hasBuf ELSE p.rest > 0) \/ state = "CONNECTING")
        /\ reads' = (IF (IF p.rest = len + h.n THEN hasBuf ELSE p.rest > 0)
                     THEN reads ELSE OrphanReads(reads)) \o async_recv_loop(p.rest)
        /\ retry' = (retry \/ p.full)
  BY <1>6 DEF pick_entire_msgs
<1>10. p.rest \in Nat /\ len' <= Cap /\ retry' = FALSE
  <2>1. p.rest \in 0..len + h.n /\ p.full \in BOOLEAN
    BY <1>3, PickType
  <2>2. p.full = FALSE
    BY <2>1 DEF Pick
  <2> QED BY <1>3, <1>9, <2>1, <2>2, SizeAssumption DEF ReadInv
<1>11. reads' = async_recv_loop(len')
  <2>1. OrphanReads(<<>>) = <<>>
    BY DEF OrphanReads
  <2>2. async_recv_loop(p.rest) \in Seq(Read)
    <3>1. NewRead(p.rest) \in Read
      BY <1>10 DEF NewRead, Read
    <3> QED BY <3>1 DEF async_recv_loop
  <2> QED BY <1>2, <1>9, <2>1, <2>2, ConcatEmptySeq
<1>12. OneReader'
  <2>1. CASE state = "CONNECTING"
    BY <1>8, <1>9, <1>11, <2>1 DEF OneReader, async_recv_loop, NewRead
  <2>2. CASE state # "CONNECTING"
    BY <1>8, <1>11, <2>2 DEF OneReader, async_recv_loop
  <2> QED BY <2>1, <2>2
<1>13. NoneOf(strand', Astray(len'))
  BY <1>8, AstrayIsRead, NoneOfFewer
<1> QED BY <1>7, <1>10, <1>12, <1>13 DEF ReadInv, Kept

\* What completes is the only read, aimed behind what is stored.
LEMMA ReadAnswered ==
  ASSUME TypeOK, ReadInv, ~StorageCanFill, ReadCompletes, Kept(With("retry"))
  PROVE  ReadInv'
<1> USE DEF core, recv, timers
<1>1. hasBuf /\ reads = <<NewRead(len)>> /\ NoneOf(strand, With("read"))
  BY DEF ReadCompletes, ReadInv, OneReader
<1>2. Head(reads) = NewRead(len) /\ NewRead(len) \in Read /\ reads' = <<>>
  BY <1>1 DEF ReadCompletes, NewRead, Read, TypeOK
<1> DEFINE g(o) == OnRead(o.ec, o.n, NewRead(len))
<1>3. PICK o \in ReadOutcomes(NewRead(len)) : strand' = Append(strand, g(o))
  BY <1>2 DEF ReadCompletes
<1>4. o.ec \in BOOLEAN /\ o.n \in Nat
  BY DEF ReadOutcomes, TypeOK
<1>5. g(o) \in Handler /\ g(o) \in With("read")
  BY <1>2, <1>4, ConstructorTypes, ConstructorOps DEF With
<1>6. len + o.n <= Cap
  BY <1>4, SizeAssumption DEF ReadOutcomes, NewRead, Space, ReadInv, TypeOK
<1>7. g(o) \notin Astray(len)
  BY <1>6 DEF Astray, OnRead, NewRead
<1>8. UNCHANGED <<program, hasBuf, len, retry, owned, fault>>
  BY DEF ReadCompletes
<1> HIDE DEF g
<1>9. NoneOf(strand', Astray(len))
  BY <1>3, <1>5, <1>7, KeptByAppend DEF Kept, ReadInv
<1>10. OneOf(strand', With("read"))
  BY <1>1, <1>3, <1>5, AppendSome DEF TypeOK
<1> QED BY <1>1, <1>2, <1>8, <1>9, <1>10 DEF ReadInv, OneReader, Kept, StorageCanFill

LEMMA ReadStep == ASSUME TypeOK, OpenInv, ReadInv, [Next]_vars PROVE ReadInv'
<1> USE DEF core, recv, timers
<1>1. program' = program
  BY DEF Next, StrandStep, CallerStep, KernelStep, PeerStep, vars, ConnectHandler,
     ConnectHandlerFails, ReadHandler, ReadHandlerNullBuffer, ReadHandlerOverrun, RetryHandler,
     RetryHandlerCancelled, SentHandler, CloseHandler, TickHandler, TickHandlerDangling,
     passively_connect_succ, PassiveStartTick, async_connect, async_send, async_send_issue, kick,
     OwnerDrops, ConnectCompletes, ReadCompletes, WriteCompletes, TickFires, RetryFires,
     PeerSends, PeerCloses, PeerResets
<1>2. CASE StorageCanFill
  BY <1>1, <1>2 DEF ReadInv, StorageCanFill
<1>3. CASE ~StorageCanFill
  <2>1. ~RetryHandler /\ ~RetryHandlerCancelled /\ ~RetryFires
    BY <1>3, RunsOf DEF RetryHandler, RetryHandlerCancelled, RetryFires, ReadInv
  <2>2. ~ReadHandlerNullBuffer /\ ~ReadHandlerOverrun
    <3>1. ASSUME Runs("read") PROVE hasBuf /\ len + Head(strand).n <= Cap
      <4>1. /\ ~NoneOf(strand, With("read")) /\ strand # <<>> /\ strand \in Seq(Handler)
            /\ Head(strand) \in With("read")
        BY <3>1, RunsOf
      <4>2. Head(strand) \notin Astray(len)
        BY <1>3, <4>1, OfTail DEF ReadInv
      <4> QED BY <1>3, <4>1, <4>2 DEF ReadInv, OneReader, Astray
    <3>2. ASSUME Runs("read") PROVE ~(len + Head(strand).n > Cap)
      <4>1. Head(strand).n \in Nat
        BY <3>2, RunsOf DEF Runs, Handler
      <4> QED BY <3>1, <3>2, <4>1, SizeAssumption DEF TypeOK
    <3> QED BY <3>1, <3>2 DEF ReadHandlerNullBuffer, ReadHandlerOverrun
  <2>3. ~TickHandlerDangling /\ ~OwnerDrops
    BY <1>3 DEF TickHandlerDangling, Alive, OwnerDrops, OwnerMayDrop, StorageCanFill, ReadInv
  <2>4. \A op, h : h \in Handler /\ h.op = "read" => (Orphan(h) \in With(op) <=> h \in With(op))
    BY OrphanIsRead
  <2>5. Kept(With("retry"))
    BY <1>3, <2>1, <2>4, OtherSteps DEF ReadInv
  <2>6. CASE ReadHandler
    BY <1>3, <2>5, <2>6, NextRead
  <2>7. CASE ReadCompletes
    BY <1>3, <2>5, <2>7, ReadAnswered
  <2>8. CASE ~ReadHandler /\ ~ReadCompletes
    <3>1. Kept(With("read")) /\ Kept(Astray(len))
      BY <2>1, <2>8, AstrayIsRead, OtherSteps
    <3>2. CASE ConnectHandler \/ passively_connect_succ
      BY <2>5, <3>1, <3>2, FirstRead
    <3>3. CASE ~ConnectHandler /\ ~passively_connect_succ
      <4> DEFINE Same == UNCHANGED <<hasBuf, len, reads, owned, fault>>
      <4>1. ASSUME StrandStep PROVE Same /\ ~retry'
        <5>1. ConnectHandlerFails \/ SentHandler \/ CloseHandler \/ TickHandler
          BY <2>1, <2>2, <2>3, <2>8, <3>3, <4>1, Zenon DEF StrandStep
        <5>2. Same
          BY <5>1 DEF ConnectHandlerFails, SentHandler, CloseHandler, TickHandler
        <5>3. retry = FALSE
          BY <1>3 DEF ReadInv, TypeOK
        <5>4. retry' = FALSE
          BY <5>1, <5>3 DEF ConnectHandlerFails, SentHandler, CloseHandler, TickHandler
        <5> QED BY <5>2, <5>4
      <4>2. ASSUME CallerStep PROVE Same /\ ~retry'
        <5>1. PassiveStartTick \/ async_connect \/ async_send \/ async_send_issue \/ kick
          BY <2>3, <3>3, <4>2, Zenon DEF CallerStep
        <5>2. Same /\ retry' = retry
          BY <5>1 DEF PassiveStartTick, async_connect, async_send, async_send_issue, kick
        <5> QED BY <1>3, <5>2 DEF ReadInv
      <4>3. ASSUME KernelStep PROVE Same /\ ~retry'
        <5>1. ConnectCompletes \/ WriteCompletes \/ TickFires
          BY <2>1, <2>8, <4>3, Zenon DEF KernelStep
        <5>2. Same /\ retry' = retry
          BY <5>1 DEF ConnectCompletes, WriteCompletes, TickFires
        <5> QED BY <1>3, <5>2 DEF ReadInv
      <4>4. ASSUME PeerStep \/ UNCHANGED vars PROVE Same /\ ~retry'
        <5>1. Same /\ retry' = retry
          BY <4>4 DEF PeerStep, PeerSends, PeerCloses, PeerResets, vars
        <5> QED BY <1>3, <5>1 DEF ReadInv
      <4>5. Same /\ ~retry'
        BY <4>1, <4>2, <4>3, <4>4 DEF Next
      <4> QED BY <1>1, <2>5, <3>1, <4>5 DEF ReadInv, OneReader, Kept, StorageCanFill, NewRead
    <3> QED BY <3>2, <3>3
  <2> QED BY <2>6, <2>7, <2>8
<1> QED BY <1>2, <1>3

LEMMA ReadInit == Init => ReadInv
BY SizeAssumption DEF Init, ReadInv, OneReader, NoneOf

LEMMA ReadInvAlways == Spec => [](TypeOK /\ ReadInv)
BY TypeInit, TypeStep, OpenInit, OpenStep, ReadInit, ReadStep, PTL DEF Spec

\* Where no message is refused, the receive loop never has a second read on
\* the buffer, and the one it has is aimed right behind the bytes stored.
THEOREM OneReaderOnly == Spec => []OneReadAtEnd
<1>1. TypeOK /\ ReadInv => OneReadAtEnd
  <2> SUFFICES ASSUME TypeOK, ReadInv, ~StorageCanFill
               PROVE  /\ Len(reads) <= 1
                      /\ \A i \in On("read") :
                           /\ reads = <<>>
                           /\ On("read") = {i}
                           /\ strand[i].cur /\ strand[i].at = len
                      /\ \A i \in 1..Len(reads) : reads[i].cur /\ reads[i].at = len
                      /\ On("read") # {} \/ reads # <<>> => hasBuf
    BY DEF OneReadAtEnd
  <2>1. ASSUME NEW i \in On("read") PROVE strand[i].cur /\ strand[i].at = len
    <3>1. strand[i] \in With("read") /\ i \in 1..Len(strand)
      BY ElementOfSeq DEF TypeOK, On, With
    <3>2. strand[i] \notin Astray(len)
      BY <3>1 DEF ReadInv, NoneOf
    <3> QED BY <3>1, <3>2 DEF Astray
  <2>2. CASE NoneOf(strand, With("read"))
    <3>1. On("read") = {}
      BY <2>2, NoneRunning
    <3>2. CASE reads = <<>>
      BY <3>1, <3>2
    <3>3. CASE hasBuf /\ reads = <<NewRead(len)>>
      BY <3>1, <3>3 DEF NewRead
    <3> QED BY <2>2, <3>2, <3>3, OneIsSome DEF ReadInv, OneReader
  <2>3. CASE hasBuf /\ reads = <<>> /\ OneOf(strand, With("read"))
    <3>1. \A i \in On("read") : On("read") = {i}
      BY <2>3, OneRunning
    <3> QED BY <2>1, <2>3, <3>1
  <2> QED BY <2>2, <2>3 DEF ReadInv, OneReader
<1> QED BY <1>1, ReadInvAlways, PTL

\* There no handler meets a buffer that was given back, one that overflows, or
\* a session that has been destroyed.
THEOREM HandlersFindBuffers == Spec => []NoFault
<1>1. ReadInv => NoFault
  BY DEF ReadInv, NoFault
<1> QED BY <1>1, ReadInvAlways, PTL
=============================================================================
