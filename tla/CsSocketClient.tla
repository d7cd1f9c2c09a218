--------------------------- MODULE CsSocketClient ---------------------------
(***************************************************************************)
(* The connection of the Unity client (src/CsNetwork).                     *)
(*                                                                         *)
(* The main thread calls Connect() and, in every frame, Tick(), which      *)
(* polls State and reads it up to four times.  The callback of             *)
(* BeginConnect runs on a pool thread and stores into State.  Nothing      *)
(* orders the two: the lock _sockMutex covers single reads and writes of   *)
(* _tcpSocket only.                                                        *)
(***************************************************************************)
EXTENDS Naturals

CONSTANTS
  MaxSockets,  \* bound on the calls of Connect()
  Programs     \* what the connect action does: "log", or "token": Send()

ASSUME ClientAssumption ==
  MaxSockets \in Nat \ {0} /\ Programs \subseteq {"log", "token"}

Socket == 1..MaxSockets
SocketState == {"Init", "Connecting", "Connected", "Closed", "Timeout"}

VARIABLES
  program,
  state,      \* _currentState
  last,       \* _lastState
  tcpSocket,  \* _tcpSocket, 0 for null
  made,       \* sockets made
  sock,       \* what each socket is
  cb,         \* where its callback is
  main,       \* where the main thread is
  read,       \* what it has read of State
  late,       \* more than _connectTimeout has gone since _startTimeMS
  threads,    \* startThread() has started the threads
  flag,       \* BlockPool._flag
  slipped,    \* State changed between lines 173 and 174 of the last entry
  overlapped, \* a callback had read Connected but not stored it when its socket
              \* was closed, or had passed its test when its socket was replaced
  outrun      \* State no longer said Connecting when AsyncConnect() stored the
              \* socket that it had announced

machine == <<state, last, read>>
sockets == <<tcpSocket, made, sock>>
entry == <<threads, flag>>
history == <<slipped, overlapped, outrun>>
vars == <<program, machine, sockets, cb, main, late, entry, history>>

\* The callback of a socket has passed the test of line 119.
Passed(k) == cb[k] \in {"matched", "threw", "ended", "connected", "closed"}
\* It will store Connected: it has read it, or will unless its socket is closed.
Announces(k) == cb[k] = "connected" \/ (Passed(k) /\ sock[k] = "connected")

(***************************************************************************)
(* The main thread: AsyncConnect().                                        *)
(***************************************************************************)
W_New == IF made = 0 THEN 1 ELSE made
New == made + 1

AsyncConnect ==
  /\ main = "idle" /\ made < MaxSockets /\ main' = "replace"
  /\ state' = "Connecting" /\ late' = FALSE
  /\ UNCHANGED <<program, last, read, sockets, cb, entry, history>>

\* The old socket is not closed, and its callback may have run since.
ReplaceSocket ==
  /\ main = "replace" /\ main' = "begin"
  /\ made' = New /\ tcpSocket' = New /\ sock' = [sock EXCEPT ![New] = "made"]
  /\ overlapped' = (\E k \in Socket : Announces(k))
  /\ outrun' = (state # "Connecting")
  /\ UNCHANGED <<program, machine, cb, late, entry, slipped>>

\* An exception of BeginConnect is logged; there will be no callback.
BeginConnect ==
  /\ main = "begin" /\ main' = "idle"
  /\ sock' \in {sock, [sock EXCEPT ![tcpSocket] = "connecting"]}
  /\ UNCHANGED <<program, machine, tcpSocket, made, cb, late, entry, history>>

(***************************************************************************)
(* The main thread: tickStateMachine().                                    *)
(***************************************************************************)
Compare ==
  /\ main = "idle" /\ main' = IF last # state THEN "read" ELSE "exec"
  /\ UNCHANGED <<program, machine, sockets, cb, late, entry, history>>

ReadState ==
  /\ main = "read" /\ main' = "enter" /\ read' = state
  /\ UNCHANGED <<program, state, last, sockets, cb, late, entry, history>>

\* Closing a socket that connects ends its BeginConnect.
closeSocket ==
  /\ read \in {"Timeout", "Closed"} /\ main' = "store"
  /\ cb' = [k \in Socket |-> IF k = tcpSocket /\ sock[k] = "connecting" THEN "called" ELSE cb[k]]
  /\ sock' = IF tcpSocket = 0 THEN sock ELSE [sock EXCEPT ![tcpSocket] = "closed"]
  /\ overlapped' = (overlapped \/ \E k \in Socket : cb[k] = "connected")
  /\ UNCHANGED <<tcpSocket, made, entry, slipped, outrun>>

\* The first use of BlockPool.Instance throws out of its constructor and
\* leaves _flag at 1: the frame ends, and the next use never returns.
W_Throws == main' = "store"
Throws == main' = "idle"
connectDoneAction ==
  /\ read = "Connected"
  /\ \/ program = "log" /\ threads' = TRUE /\ main' = "store" /\ UNCHANGED flag
     \/ program = "token" /\ flag = 0 /\ flag' = 1 /\ Throws /\ UNCHANGED threads
     \/ program = "token" /\ flag = 1 /\ main' = "hung" /\ UNCHANGED entry
  /\ UNCHANGED <<sockets, cb, history>>

stateEnter ==
  /\ main = "enter"
  /\ \/ closeSocket
     \/ connectDoneAction
     \/ read = "Connecting" /\ main' = "store" /\ UNCHANGED <<sockets, cb, entry, history>>
  /\ UNCHANGED <<program, machine, late>>

StoreLast ==
  /\ main = "store" /\ main' = "exec" /\ last' = state /\ slipped' = (state # read)
  /\ UNCHANGED <<program, state, read, sockets, cb, late, entry, overlapped, outrun>>

W_Expired == FALSE
Expired == late
stateExec ==
  /\ main = "exec" /\ main' = IF state = "Connecting" /\ Expired THEN "timeout" ELSE "idle"
  /\ UNCHANGED <<program, machine, sockets, cb, late, entry, history>>

StoreTimeout ==
  /\ main = "timeout" /\ main' = "idle" /\ state' = "Timeout"
  /\ UNCHANGED <<program, last, read, sockets, cb, late, entry, history>>

(***************************************************************************)
(* The network, the clock and onAsyncConnectDone().                        *)
(***************************************************************************)
NetworkAnswers(k) ==
  /\ sock[k] = "connecting" /\ sock' \in {[sock EXCEPT ![k] = a] : a \in {"connected", "failed"}}
  /\ cb' = [cb EXCEPT ![k] = "called"]
  /\ UNCHANGED <<program, machine, tcpSocket, made, main, late, entry, history>>

TimePasses ==
  /\ ~late /\ late' = TRUE
  /\ UNCHANGED <<program, machine, sockets, cb, main, entry, history>>

W_IsCurrent(k) == TRUE
IsCurrent(k) == tcpSocket = k

\* The steps of the callback that read, and the two that store.
Next_cb(k) ==
  IF cb[k] = "called" THEN IF IsCurrent(k) THEN "matched" ELSE "done"
  ELSE IF cb[k] = "matched" THEN IF sock[k] = "connected" THEN "ended" ELSE "threw"
  ELSE IF sock[k] = "connected" THEN "connected" ELSE "closed"
CallbackReads(k) ==
  /\ cb[k] \in {"called", "matched", "ended"} /\ cb' = [cb EXCEPT ![k] = Next_cb(k)]
  /\ UNCHANGED <<program, machine, sockets, main, late, entry, history>>
CallbackStores(k) ==
  /\ cb[k] \in {"threw", "connected", "closed"}
  /\ state' = IF cb[k] = "connected" THEN "Connected" ELSE "Closed"
  /\ cb' = [cb EXCEPT ![k] = IF cb[k] = "threw" THEN "ended" ELSE "done"]
  /\ UNCHANGED <<program, last, read, sockets, main, late, entry, history>>

Init ==
  /\ program \in Programs /\ state = "Init" /\ last = "Init" /\ read = "Init"
  /\ tcpSocket = 0 /\ made = 0 /\ sock = [k \in Socket |-> "none"]
  /\ cb = [k \in Socket |-> "none"] /\ main = "idle" /\ late = FALSE
  /\ threads = FALSE /\ flag = 0 /\ slipped = FALSE /\ overlapped = FALSE /\ outrun = FALSE

Tick == Compare \/ ReadState \/ stateEnter \/ StoreLast \/ stateExec \/ StoreTimeout
Next ==
  \/ AsyncConnect \/ ReplaceSocket \/ BeginConnect \/ Tick \/ TimePasses
  \/ \E k \in Socket : NetworkAnswers(k) \/ CallbackReads(k) \/ CallbackStores(k)

Spec == Init /\ [][Next]_vars

\* Frames go on and time passes.  Nothing is asked of the network.
FairSpec ==
  /\ Spec /\ WF_vars(TimePasses) /\ WF_vars(Tick) /\ WF_vars(ReplaceSocket \/ BeginConnect)

(***************************************************************************)
(* Properties.                                                             *)
(***************************************************************************)
\* Every variable keeps its type, and a socket that has not begun to connect
\* has no callback (AsyncConnect() makes a new one each time).
TypeOK ==
  /\ program \in {"log", "token"} /\ {state, last, read} \subseteq SocketState
  /\ made \in 0..MaxSockets /\ tcpSocket \in 0..made
  /\ sock \in [Socket -> {"none", "made", "connecting", "connected", "failed", "closed"}]
  /\ cb \in [Socket -> {"none", "called", "matched", "threw", "ended", "connected", "closed", "done"}]
  /\ \A k \in Socket : sock[k] \in {"none", "made", "connecting"} => cb[k] = "none"
  /\ main \in {"idle", "replace", "begin", "read", "enter", "store", "exec", "timeout", "hung"}
  /\ flag \in 0..1 /\ {late, threads, slipped, overlapped, outrun} \subseteq BOOLEAN

\* The machine never rests in Connected without having started the threads
\* that send and receive, even when the connect action throws, unless State
\* changed in the moment between the two reads of lines 173 and 174: a
\* connection that completes there is never announced.
ConnectedEntered == last = "Connected" /\ ~slipped => threads

\* State says Connected of a current socket that is connected. Three races, and
\* nothing else, break this: the callback reads Connected (line 135), its socket
\* is closed, it stores (136), or it passes its test (119) and is then replaced
\* (overlapped); the callback of an old socket stores while AsyncConnect() is at
\* lines 92-100 (outrun); it stores while the machine enters Timeout or Closed,
\* behind the read of line 173, whose entry closes the socket just announced.
EntersAnother == (main = "store" /\ read # state) \/ (slipped /\ last = state)
ConnectedIsCurrent ==
  state = "Connected" /\ ~overlapped /\ ~outrun =>
    sock[tcpSocket] = "connected" \/ EntersAnother

\* Whatever the network does, the machine settles: it has entered the state
\* it is in and no longer tries to connect.  Or the main thread hangs, in the
\* second Send() of a process.
Settles == <>[](last = state /\ state # "Connecting") \/ <>[](main = "hung")

=============================================================================
