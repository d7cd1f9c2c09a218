------------------------- MODULE BasicAsyncSession -------------------------
(***************************************************************************)
(* One basic_async_session (AsioNet/basic_async_session.{h,cpp}): a TCP    *)
(* session whose completion handlers run on an asio strand while the       *)
(* thread that accepted it, senders and kickers call into it from outside. *)
(*                                                                         *)
(* The strand is a FIFO of ready handlers; running its head is one atomic  *)
(* step, as handlers of one strand never overlap.  An operation that is    *)
(* still in the kernel (an outstanding read or write, an armed timer, a    *)
(* pending connect) joins the FIFO when it completes, in any order.        *)
(*                                                                         *)
(* The byte stream is counted in units: a frame (head and body) is F of    *)
(* them and the receive buffer holds Cap.  What the bytes are is left out; *)
(* where each outstanding read writes is kept, because that decides        *)
(* whether the stream survives.  Time is counted in tick intervals.        *)
(***************************************************************************)
EXTENDS Integers, Sequences, FiniteSets

CONSTANTS
  Programs,       \* whose session: "proxy" accepts it, a game "server" connects it
  F,              \* units of one frame on the wire
  Cap,            \* units the receive buffer holds (ONCE_BUFFER_SIZE)
  FramesPerCheck, \* KEEP_ALIVE_PRECISION / _tick_interval
  Timeout,        \* _keep_alive_timeout, in tick intervals
  Delay,          \* NET_PREDICTION_DELAY_MS_MAX, in tick intervals
  MaxUnits,       \* bound: units sent by the peer and not read yet
  MaxWrites,      \* bound: writes in the kernel or on the strand at once
  MaxReads,       \* bound: receive loops running when a retry fires
  MaxReady,       \* bound: handlers on the strand when a read or a timer completes
  MaxKicks        \* bound: closes on the strand when a manager kicks

ASSUME ProgramAssumption == Programs \subseteq {"proxy", "server"}
ASSUME SizeAssumption ==
  /\ F \in Nat \ {0} /\ Cap \in Nat \ {0}
  /\ MaxUnits \in Nat /\ MaxWrites \in Nat /\ MaxKicks \in Nat
  /\ MaxReads \in Nat \ {0} /\ MaxReady \in Nat \ {0}
ASSUME TickAssumption ==
  /\ FramesPerCheck \in Nat \ {0}
  /\ Timeout \in Nat /\ Delay \in Nat /\ Delay <= Timeout

VARIABLES
  program,    \* the program the session is of, one of Programs
  state,      \* _state
  sock,       \* _sock: not opened yet, open, or closed
  opc,        \* how far opening the session has got
  strand,     \* ready handlers of the session's strand, oldest first
  hasBuf,     \* _recv_not_entire is not null
  len,        \* _recv_not_entire->length
  reads,      \* outstanding async_read_some calls, oldest first
  writes,     \* outstanding async_write_some calls, oldest first
  sender,     \* a thread inside async_send: past the state check or not
  retry,      \* _timer is armed (storage was full)
  tick,       \* _tick_timer is armed
  frame,      \* _keep_alive_frame_count
  idleRecv,   \* intervals since _last_recv_time
  idleSend,   \* intervals since _last_send_time
  owned,      \* somebody outside the session holds its session_sptr
  fault,      \* a use of a null or overfull buffer, or of a destroyed session
  net,        \* units sent by the peer and not read yet
  peerGone    \* the peer closed or reset the connection

core   == <<state, sock, opc>>
recv   == <<hasBuf, len, reads>>
timers == <<retry, tick, frame>>
clocks == <<idleRecv, idleSend>>
env    == <<net, peerGone>>
vars   == <<program, core, recv, writes, sender, timers, clocks, owned, fault, strand, env>>

\* The proxy's logics store every message they accept, and its managers and a
\* rejected authentication kick.  A game server's logic may refuse a message
\* (try_copy_to_storage), nobody kicks there, and whoever holds the
\* session_sptr releases it.
StorageCanFill == program = "server"
OwnerMayDrop == program = "server"
MayKick == program = "proxy" /\ MaxKicks > 0

(***************************************************************************)
(* Handlers waiting on the strand.                                         *)
(***************************************************************************)
States == {"INIT", "WAIT_CONNECT", "CONNECTING", "TO_CLOSE", "CLOSE_DONE"}

Read == [cur : BOOLEAN, at : Nat]        \* target buffer still current; offset
OnConnect == [op |-> "connect"]          \* opc says whether it failed
OnRead(ec, n, r) == [op |-> "read", ec |-> ec, n |-> n, cur |-> r.cur, at |-> r.at]
OnSent(ec, cb) == [op |-> "sent", ec |-> ec, kick |-> cb]
OnRetry(ec) == [op |-> "retry", ec |-> ec]
OnTick == [op |-> "tick"]
OnClose(elegantly) == [op |-> "close", elegantly |-> elegantly]

Handler ==
  [op : {"connect", "tick"}] \cup [op : {"retry"}, ec : BOOLEAN]
    \cup [op : {"close"}, elegantly : BOOLEAN]
    \cup [op : {"sent"}, ec : BOOLEAN, kick : BOOLEAN]
    \cup [op : {"read"}, ec : BOOLEAN, n : Nat, cur : BOOLEAN, at : Nat]

On(op) == {i \in 1..Len(strand) : strand[i].op = op}
Runs(op) == fault = "none" /\ strand # <<>> /\ Head(strand).op = op

\* Wrong variant: only a connected session is closed.
W_close(elegantly) == IF state # "CONNECTING" THEN <<>> ELSE <<OnClose(elegantly)>>

\* close(): the early return, or one handler posted to the strand.
close(elegantly) == IF state = "CLOSE_DONE" THEN <<>> ELSE <<OnClose(elegantly)>>

\* Wrong variant: the cancelled tick is not run.
W_clear_all_timer == IF retry THEN <<OnRetry(TRUE)>> ELSE <<>>

\* clear_all_timer(): a cancelled wait completes with an error, it is not lost.
clear_all_timer ==
  (IF retry THEN <<OnRetry(TRUE)>> ELSE <<>>) \o (IF tick THEN <<OnTick>> ELSE <<>>)

\* Something keeps the session's shared_ptr count above zero: its owner or a
\* handler that captured self.  Ticks capture a raw this and do not count.
Alive ==
  \/ owned \/ opc \in {"accepted", "recving", "connecting"} \/ sender # "idle"
  \/ reads # <<>> \/ writes # <<>> \/ retry
  \/ \E i \in 1..Len(strand) : strand[i].op # "tick"

(***************************************************************************)
(* Receiving.  pick_entire_msgs() takes whole frames off the buffer until  *)
(* none is left or the logic's storage is full; rest units stay behind.    *)
(***************************************************************************)
Pick(l) ==
  {p \in [rest : 0..l, full : BOOLEAN] :
     /\ (l - p.rest) % F = 0
     /\ IF p.full THEN StorageCanFill /\ p.rest >= F ELSE p.rest < F}

\* The buffer went back to its pool: reads aimed at it no longer fill ours.
Orphan(r) == [r EXCEPT !.cur = FALSE]
OrphanReads(s) == [i \in 1..Len(s) |-> Orphan(s[i])]
OrphanHandlers(s) ==
  [i \in 1..Len(s) |-> IF s[i].op = "read" THEN Orphan(s[i]) ELSE s[i]]

\* The read async_recv_loop() starts behind the l units stored; W_NewRead is a
\* wrong variant that overwrites them.
W_NewRead(l) == [cur |-> TRUE, at |-> 0]
NewRead(l) == [cur |-> TRUE, at |-> l]

\* async_recv_loop(); the wrong variants stop behind a partial frame, and read twice.
W_stop_recv_loop(l) == IF state = "CONNECTING" /\ l = 0 THEN <<NewRead(l)>> ELSE <<>>
W_twice_recv_loop(l) == IF state = "CONNECTING" THEN <<NewRead(l), NewRead(l)>> ELSE <<>>
async_recv_loop(l) == IF state = "CONNECTING" THEN <<NewRead(l)>> ELSE <<>>

\* pick_entire_msgs() on l units, then async_recv_loop(); posted are the
\* handlers this handler has posted before.
pick_entire_msgs(l, posted) ==
  \E p \in Pick(l) :
    LET kept == IF p.rest = l THEN hasBuf ELSE p.rest > 0
    IN  /\ len' = p.rest
        /\ hasBuf' = (kept \/ state = "CONNECTING")
        /\ reads' = (IF kept THEN reads ELSE OrphanReads(reads)) \o async_recv_loop(p.rest)
        /\ retry' = (retry \/ p.full)
        /\ strand' = (IF kept THEN Tail(strand) ELSE OrphanHandlers(Tail(strand)))
                       \o posted
                       \o (IF retry /\ p.full THEN <<OnRetry(TRUE)>> ELSE <<>>)

\* The completion handler of async_read_some.  An error posts close(false) and
\* the handler goes on: it still picks messages and reads again.
ReadHandler ==
  /\ Runs("read") /\ hasBuf /\ len + Head(strand).n <= Cap
  /\ LET h == Head(strand) IN
       pick_entire_msgs(len + h.n, IF h.ec THEN close(FALSE) ELSE <<>>)
  /\ idleRecv' = 0
  /\ UNCHANGED <<program, core, writes, sender, tick, frame, idleSend, owned, fault, env>>

\* The same handler when _recv_not_entire has been reset meanwhile.
ReadHandlerNullBuffer ==
  /\ Runs("read") /\ ~hasBuf
  /\ fault' = "null_buffer"
  /\ UNCHANGED <<program, core, recv, writes, sender, timers, clocks, owned, strand, env>>

\* The same handler when reads that overlapped have counted more units into
\* length than the buffer holds; available_capacity() - length wraps then.
ReadHandlerOverrun ==
  /\ Runs("read") /\ hasBuf /\ len + Head(strand).n > Cap
  /\ fault' = "overrun"
  /\ UNCHANGED <<program, core, recv, writes, sender, timers, clocks, owned, strand, env>>

\* The 100ms wait after a full storage; expires_from_now cancels an older one.
RetryHandler ==
  /\ Runs("retry") /\ ~Head(strand).ec
  /\ pick_entire_msgs(len, <<>>)
  /\ UNCHANGED <<program, core, writes, sender, tick, frame, clocks, owned, fault, env>>

RetryHandlerCancelled ==
  /\ Runs("retry") /\ Head(strand).ec
  /\ strand' = Tail(strand) \o close(FALSE)
  /\ UNCHANGED <<program, core, recv, writes, sender, timers, clocks, owned, fault, env>>

(***************************************************************************)
(* Closing.                                                                *)
(***************************************************************************)
\* Shutting down or closing the descriptor; the wrong variant does so again on
\* a session that is closed already.
W_shutdown_or_close(elegantly) ==
  IF elegantly THEN state' = "TO_CLOSE" /\ UNCHANGED sock
               ELSE state' = "CLOSE_DONE" /\ sock' = "closed"
shutdown_or_close(elegantly) ==
  IF sock # "open" \/ state = "CLOSE_DONE" THEN UNCHANGED <<state, sock>>
  ELSE IF elegantly THEN state' = "TO_CLOSE" /\ UNCHANGED sock
                    ELSE state' = "CLOSE_DONE" /\ sock' = "closed"

\* The handler close() posts.
CloseHandler ==
  /\ Runs("close")
  /\ LET done == state = "CLOSE_DONE" IN
       /\ strand' = Tail(strand) \o (IF done THEN <<>> ELSE clear_all_timer)
       /\ retry' = (retry /\ done) /\ tick' = (tick /\ done)
  /\ shutdown_or_close(Head(strand).elegantly)
  /\ UNCHANGED <<program, opc, recv, writes, sender, frame, clocks, owned, fault, env>>

\* kick() from another thread: proxy_manager::kick_one_client and the like,
\* which know the session only once it is connected.
kick ==
  /\ fault = "none" /\ owned /\ MayKick /\ Cardinality(On("close")) < MaxKicks
  /\ state \notin {"INIT", "WAIT_CONNECT"}
  /\ strand' = strand \o close(TRUE)
  /\ UNCHANGED <<program, core, recv, writes, sender, timers, clocks, owned, fault, env>>

(***************************************************************************)
(* Opening.  A passive session is opened by the accepting thread, outside  *)
(* the strand, in two calls; an active one by the strand once the kernel   *)
(* has connected it.                                                       *)
(***************************************************************************)
\* is_tick_frame_effective()'s counter; the wrong variant never wraps.
W_NextFrame == frame + 1
NextFrame == (frame + 1) % FramesPerCheck

\* start_tick(): the first fixed_tick() runs at once, where start_tick is
\* called.  Both idle times are 0 then, so its tick_alive() does nothing.
\* posted is what this step leaves on the strand otherwise.
start_tick(posted) ==
  /\ idleRecv' = 0 /\ idleSend' = 0
  /\ frame' = NextFrame
  /\ tick' = TRUE
  /\ strand' = IF tick THEN Append(posted, OnTick) ELSE posted

\* async_accept has filled _sock; init_options, then the first read.
passively_connect_succ ==
  /\ fault = "none" /\ program = "proxy" /\ opc = "accepted"
  /\ state' = "CONNECTING" /\ opc' = "recving"
  /\ hasBuf' = TRUE
  /\ reads' = Append(reads, NewRead(len))
  /\ UNCHANGED <<program, sock, len, writes, sender, timers, clocks, owned, fault, strand, env>>

PassiveStartTick ==
  /\ fault = "none" /\ program = "proxy" /\ opc = "recving"
  /\ opc' = "started"
  /\ start_tick(strand)
  /\ UNCHANGED <<program, state, sock, recv, writes, sender, retry, owned, fault, env>>

\* Opening the descriptor may fail; the wait for the connection then fails too.
async_connect ==
  /\ fault = "none" /\ program = "server" /\ opc = "idle" /\ state = "INIT"
  /\ state' = "WAIT_CONNECT" /\ opc' = "connecting"
  /\ sock' \in {"open", "none"}
  /\ UNCHANGED <<program, recv, writes, sender, timers, clocks, owned, fault, strand, env>>

ConnectCompletes ==
  /\ fault = "none" /\ opc = "connecting"
  /\ opc' \in {"refused"} \cup (IF sock = "open" THEN {"connected"} ELSE {})
  /\ strand' = Append(strand, OnConnect)
  /\ UNCHANGED <<program, state, sock, recv, writes, sender, timers, clocks, owned, fault, env>>

ConnectHandlerFails ==
  /\ Runs("connect") /\ opc = "refused"
  /\ strand' = Tail(strand) \o close(FALSE)
  /\ UNCHANGED <<program, core, recv, writes, sender, timers, clocks, owned, fault, env>>

\* The handler of a connection made; cb is start_tick and, for a game server,
\* send_verify_authentication.
ConnectHandler ==
  /\ Runs("connect") /\ opc = "connected"
  /\ state' = "CONNECTING" /\ opc' = "started"
  /\ hasBuf' = TRUE
  /\ reads' = Append(reads, NewRead(len))
  /\ start_tick(Tail(strand))
  /\ \E verifies \in BOOLEAN :
       writes' = IF verifies THEN Append(writes, FALSE) ELSE writes
  /\ UNCHANGED <<program, sock, len, sender, retry, owned, fault, env>>

(***************************************************************************)
(* Sending.  Any thread may call async_send(); between its check of _state *)
(* and the write it issues the strand can run.  A write is known here by   *)
(* its callback only: TRUE kicks (a rejected authentication answered).     *)
(***************************************************************************)
MayWrite == Len(writes) + Cardinality(On("sent")) < MaxWrites

async_send ==
  /\ fault = "none" /\ owned /\ sender = "idle" /\ state = "CONNECTING"
  /\ sender' = "checked"
  /\ UNCHANGED <<program, core, recv, writes, timers, clocks, owned, fault, strand, env>>

async_send_issue ==
  /\ fault = "none" /\ sender = "checked" /\ MayWrite
  /\ sender' = "idle" /\ idleSend' = 0
  /\ \E kicksAfter \in (IF MayKick THEN BOOLEAN ELSE {FALSE}) : writes' = Append(writes, kicksAfter)
  /\ UNCHANGED <<program, core, recv, timers, idleRecv, owned, fault, strand, env>>

SentHandler ==
  /\ Runs("sent")
  /\ strand' = Tail(strand) \o
       (IF Head(strand).ec THEN close(FALSE)
        ELSE IF Head(strand).kick THEN close(TRUE) ELSE <<>>)
  /\ UNCHANGED <<program, core, recv, writes, sender, timers, clocks, owned, fault, env>>

(***************************************************************************)
(* The tick.  fixed_tick() does not look at the error code, so the wait    *)
(* that clear_all_timer() cancels ticks once more and arms the next one.   *)
(***************************************************************************)
\* tick_alive() kicks a peer not heard of, else may send an empty frame.  The
\* wrong variant looks at the wrong clock.
W_TimedOut == NextFrame = 0 /\ state = "CONNECTING" /\ idleSend > Timeout
TimedOut == NextFrame = 0 /\ state = "CONNECTING" /\ idleRecv > Timeout
KeepAliveDue ==
  NextFrame = 0 /\ state = "CONNECTING" /\ ~TimedOut /\ idleSend > Timeout - Delay

TickHandler ==
  /\ Runs("tick") /\ Alive /\ Len(writes) < MaxWrites
  /\ frame' = NextFrame
  /\ tick' = TRUE
  /\ writes' = (IF KeepAliveDue THEN Append(writes, FALSE) ELSE writes)
  /\ idleSend' = (IF KeepAliveDue THEN 0 ELSE idleSend)
  /\ strand' = Tail(strand) \o (IF TimedOut THEN close(TRUE) ELSE <<>>)
                  \o (IF tick THEN <<OnTick>> ELSE <<>>)
  /\ UNCHANGED <<program, core, recv, sender, retry, idleRecv, owned, fault, env>>

\* Nothing holds the session any more: its destructor has cancelled the timer
\* and the handler runs on a session that is gone.
TickHandlerDangling ==
  /\ Runs("tick") /\ ~Alive
  /\ fault' = "dangling_tick"
  /\ UNCHANGED <<program, core, recv, writes, sender, timers, clocks, owned, strand, env>>

(***************************************************************************)
(* The kernel: timers that expire, reads and writes that complete.         *)
(***************************************************************************)
Older(idle) == IF idle > Timeout THEN idle ELSE idle + 1

TickFires ==
  /\ fault = "none" /\ tick /\ Len(strand) < MaxReady
  /\ tick' = FALSE
  /\ strand' = Append(strand, OnTick)
  /\ idleRecv' = Older(idleRecv) /\ idleSend' = Older(idleSend)
  /\ UNCHANGED <<program, core, recv, writes, sender, retry, frame, owned, fault, env>>

RetryFires ==
  /\ fault = "none" /\ retry /\ Len(strand) < MaxReady
  /\ Len(reads) + Cardinality(On("read") \cup On("retry")) < MaxReads
  /\ retry' = FALSE
  /\ strand' = Append(strand, OnRetry(FALSE))
  /\ UNCHANGED <<program, core, recv, writes, sender, tick, frame, clocks, owned, fault, env>>

\* What async_read_some may store: the capacity left behind offset at.
Space(at) == Cap - at

\* The outcomes of an outstanding read.  A read into no space succeeds at once
\* with nothing; at the end of the stream, or after a reset, a read fails.
ReadOutcomes(r) ==
  {o \in [ec : BOOLEAN, n : 0..net] :
     IF Space(r.at) = 0 THEN ~o.ec /\ o.n = 0
     ELSE IF sock # "open" THEN o.ec /\ o.n = 0
     ELSE IF o.ec THEN peerGone /\ net = 0
     ELSE o.n \in 1..Space(r.at)}

ReadCompletes ==
  /\ fault = "none" /\ reads # <<>> /\ Len(strand) < MaxReady
  /\ \E o \in ReadOutcomes(Head(reads)) :
       /\ strand' = Append(strand, OnRead(o.ec, o.n, Head(reads)))
       /\ net' = net - o.n
  /\ reads' = Tail(reads)
  /\ UNCHANGED <<program, core, hasBuf, len, writes, sender, timers, clocks, owned, fault, peerGone>>

\* A write fails on a closed socket; it may once either side is shutting down.
WriteCompletes ==
  /\ fault = "none" /\ writes # <<>>
  /\ \E ec \in (IF sock # "open" THEN {TRUE}
                  ELSE IF peerGone \/ state = "TO_CLOSE" THEN BOOLEAN ELSE {FALSE}) :
       strand' = Append(strand, OnSent(ec, Head(writes)))
  /\ writes' = Tail(writes)
  /\ UNCHANGED <<program, core, recv, sender, timers, clocks, owned, fault, env>>

(***************************************************************************)
(* The peer, and whoever holds the session.                                *)
(***************************************************************************)
Connected == sock = "open" /\ opc \in {"accepted", "recving", "connected", "started"}

PeerSends ==
  /\ fault = "none" /\ Connected /\ ~peerGone /\ net < MaxUnits
  /\ net' = net + 1
  /\ UNCHANGED <<program, core, recv, writes, sender, timers, clocks, owned, fault, strand, peerGone>>

\* FIN: what was sent can still be read.
PeerCloses ==
  /\ fault = "none" /\ Connected /\ ~peerGone
  /\ peerGone' = TRUE
  /\ UNCHANGED <<program, core, recv, writes, sender, timers, clocks, owned, fault, strand, net>>

\* RST: what was not read yet is gone too.
PeerResets ==
  /\ fault = "none" /\ Connected /\ ~peerGone
  /\ peerGone' = TRUE /\ net' = 0
  /\ UNCHANGED <<program, core, recv, writes, sender, timers, clocks, owned, fault, strand>>

\* Only the object that holds the session_sptr releases it, a holder of closed
\* and of open sessions alike (~inner_pair_session).
OwnerDrops ==
  /\ fault = "none" /\ OwnerMayDrop /\ owned /\ opc \in {"started", "refused"}
  /\ owned' = FALSE
  /\ UNCHANGED <<program, core, recv, writes, sender, timers, clocks, fault, strand, env>>

(***************************************************************************)
(* The specification.                                                      *)
(***************************************************************************)
Init ==
  /\ program \in Programs
  /\ state = "INIT"
  /\ IF program = "proxy" THEN sock = "open" /\ opc = "accepted"
                         ELSE sock = "none" /\ opc = "idle"
  /\ strand = <<>>
  /\ hasBuf = FALSE /\ len = 0 /\ reads = <<>>
  /\ writes = <<>> /\ sender = "idle"
  /\ retry = FALSE /\ tick = FALSE
  /\ frame \in 0..FramesPerCheck - 1   \* not initialised by the constructor
  /\ idleRecv = 0 /\ idleSend = 0
  /\ owned = TRUE /\ fault = "none"
  /\ net = 0 /\ peerGone = FALSE

StrandStep ==
  \/ ConnectHandler \/ ConnectHandlerFails
  \/ ReadHandler \/ ReadHandlerNullBuffer \/ ReadHandlerOverrun
  \/ RetryHandler \/ RetryHandlerCancelled
  \/ SentHandler \/ CloseHandler
  \/ TickHandler \/ TickHandlerDangling

CallerStep ==
  \/ passively_connect_succ \/ PassiveStartTick \/ async_connect
  \/ async_send \/ async_send_issue \/ kick \/ OwnerDrops

KernelStep ==
  \/ ConnectCompletes \/ ReadCompletes \/ WriteCompletes
  \/ TickFires \/ RetryFires

PeerStep == PeerSends \/ PeerCloses \/ PeerResets

Next == StrandStep \/ CallerStep \/ KernelStep \/ PeerStep

Spec == Init /\ [][Next]_vars

\* The io_context's threads run every ready handler, the kernel completes what
\* it can, and a thread inside a call returns.  Nobody has to send, kick or
\* close, and the peer has to do nothing at all.
Fairness ==
  /\ WF_vars(StrandStep)
  /\ WF_vars(passively_connect_succ) /\ WF_vars(PassiveStartTick)
  /\ WF_vars(async_send_issue)
  /\ WF_vars(ConnectCompletes)
  /\ WF_vars(ReadCompletes) /\ WF_vars(WriteCompletes)
  /\ WF_vars(TickFires) /\ WF_vars(RetryFires)

FairSpec == Spec /\ Fairness

(***************************************************************************)
(* Properties.                                                             *)
(***************************************************************************)
\* Every variable keeps its type.
TypeOK ==
  /\ program \in Programs
  /\ state \in States
  /\ sock \in {"none", "open", "closed"}
  /\ opc \in {"accepted", "recving", "idle", "connecting", "refused", "connected", "started"}
  /\ strand \in Seq(Handler)
  /\ hasBuf \in BOOLEAN /\ len \in Nat
  /\ reads \in Seq(Read) /\ writes \in Seq(BOOLEAN)
  /\ sender \in {"idle", "checked"}
  /\ retry \in BOOLEAN /\ tick \in BOOLEAN
  /\ frame \in 0..FramesPerCheck - 1
  /\ idleRecv \in 0..Timeout + 1 /\ idleSend \in 0..Timeout + 1
  /\ owned \in BOOLEAN /\ peerGone \in BOOLEAN
  /\ fault \in {"none", "null_buffer", "overrun", "dangling_tick"}
  /\ net \in Nat

\* The receive loop never has two reads on the buffer: of the reads in the
\* kernel and the read handlers on the strand there is at most one, and it
\* fills the buffer the session still holds, behind what is stored there.
\* (async_recv_loop, pick_a_entire_msg's memmove and reset.)  So it is where
\* the storage never refuses a message; a retry starts a second read.
OneReadAtEnd ==
  ~StorageCanFill =>
    /\ Len(reads) <= 1
    /\ \A i \in On("read") :
         /\ reads = <<>>
         /\ On("read") = {i}
         /\ strand[i].cur /\ strand[i].at = len
    /\ \A i \in 1..Len(reads) : reads[i].cur /\ reads[i].at = len
    /\ On("read") # {} \/ reads # <<>> => hasBuf

\* The receive loop never stops by itself: a connected session always has a
\* read in the kernel or its handler on the strand.
ReadLoopAlive ==
  state = "CONNECTING" => On("read") # {} \/ reads # <<>>

\* No handler runs on a null buffer, on a buffer whose length has passed its
\* capacity, or on a destroyed session, where messages are never refused and
\* whoever holds the session keeps it.
NoFault == ~StorageCanFill /\ ~OwnerMayDrop => fault = "none"

\* Whatever is kicked, cancelled or closed, a started session ticks on one
\* timer chain: the tick is armed or its handler is ready, never both or two.
OneTick ==
  LET ready == On("tick")
  IN  opc = "started" =>
        \/ tick /\ ready = {}
        \/ ~tick /\ \E i \in ready : ready = {i}

\* _state says CLOSE_DONE exactly when the descriptor has been closed.
SocketMatchesState == state = "CLOSE_DONE" <=> sock = "closed"

Rank == [INIT |-> 0, WAIT_CONNECT |-> 1, CONNECTING |-> 2, TO_CLOSE |-> 3, CLOSE_DONE |-> 4]

\* No step takes a session back to an earlier state of its life: neither the
\* late handler of a connection nor a second close reopens it.
StateNeverRegresses == [][Rank[state'] >= Rank[state]]_state

\* A session whose peer stays silent or fails is not left connected: the
\* keep-alive or an error gets it out of CONNECTING, unless units keep coming or
\* it has run into a fault (which only a game server's does), behind which
\* nothing is modelled.
SilentPeerDropped ==
  \/ []<><<net' > net>>_net
  \/ <>(fault # "none")
  \/ state = "CONNECTING" ~> state # "CONNECTING"

\* An error reported to any handler that closes on errors ends in CLOSE_DONE
\* once a socket was opened: a failed read or write, a refused connection, and a
\* retry wait that the next full storage has cancelled, although the handler of a
\* failed read reads again and other handlers run in between; or in a fault.
FailedHandler ==
  \E i \in 1..Len(strand) :
    \/ strand[i].op \in {"read", "sent", "retry"} /\ strand[i].ec
    \/ strand[i].op = "connect" /\ opc = "refused"
ErrorCloses ==
  FailedHandler /\ sock # "none" ~> state = "CLOSE_DONE" \/ fault # "none"

\* The tick never runs on a session that has been destroyed.
TickSafe == fault # "dangling_tick"

=============================================================================
