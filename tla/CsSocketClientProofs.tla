------------------------- MODULE CsSocketClientProofs -------------------------
(***************************************************************************)
(* Theorems about CsSocketClient, for any number of calls of Connect():    *)
(* TypeOK, ConnectedEntered and ConnectedIsCurrent.                        *)
(***************************************************************************)
EXTENDS CsSocketClient, TLAPS

SocketIs == {"none", "made", "connecting", "connected", "failed", "closed"}
CallbackAt == {"none", "called", "matched", "threw", "ended", "connected", "closed", "done"}
MainAt == {"idle", "replace", "begin", "read", "enter", "store", "exec", "timeout", "hung"}

(***************************************************************************)
(* TypeOK.                                                                 *)
(***************************************************************************)
\* AsyncConnect() is in the middle: there is room for a socket, or the current
\* one has not begun to connect.
SocketInv ==
  /\ \A k \in Socket : k > made => sock[k] = "none"
  /\ main = "replace" => made < MaxSockets
  /\ main = "begin" => tcpSocket \in Socket /\ sock[tcpSocket] = "made"
TypeInv == TypeOK /\ SocketInv

LEMMA TypeInit == Init => TypeInv
<1> SUFFICES ASSUME Init PROVE TypeInv
  OBVIOUS
<1>1. made \in 0..MaxSockets /\ tcpSocket \in 0..made
  BY ClientAssumption DEF Init
<1>2. program \in {"log", "token"}
  BY ClientAssumption DEF Init
<1>3. {state, last, read} \subseteq SocketState /\ flag \in 0..1
  BY DEF Init, SocketState
<1>4. /\ sock = [k \in Socket |-> "none"] /\ cb = [k \in Socket |-> "none"]
      /\ main = "idle"
  BY DEF Init
<1>5. {late, threads, slipped, overlapped, outrun} \subseteq BOOLEAN
  BY DEF Init
<1>6. SocketInv
  BY <1>4 DEF SocketInv
<1> QED
  BY <1>1, <1>2, <1>3, <1>4, <1>5, <1>6 DEF TypeInv, TypeOK

\* A step that makes no socket and starts none, and gives callbacks only to
\* sockets that are answered or closed.
LEMMA TypeSteps ==
  ASSUME TypeInv, UNCHANGED <<program, tcpSocket, made>>,
         {state', last', read'} \subseteq SocketState,
         sock' \in [Socket -> SocketIs], cb' \in [Socket -> CallbackAt],
         \A k \in Socket : \/ sock'[k] = sock[k] /\ (cb[k] = "none" => cb'[k] = "none")
                           \/ k <= made /\ sock'[k] \notin {"none", "made", "connecting"},
         main' \in MainAt, main' = "replace" => made < MaxSockets,
         main' = "begin" => main = "begin" /\ sock' = sock,
         flag' \in 0..1, {late', threads', slipped', overlapped', outrun'} \subseteq BOOLEAN
  PROVE  TypeInv'
<1>1. \A k \in Socket : sock'[k] \in {"none", "made", "connecting"} => cb'[k] = "none"
  BY DEF TypeInv, TypeOK
<1>2. \A k \in Socket : k > made => sock'[k] = "none"
  <2>1. ASSUME NEW k \in Socket, k > made PROVE ~(k <= made)
    BY <2>1 DEF Socket, TypeInv, TypeOK
  <2> QED
    BY <2>1 DEF TypeInv, SocketInv
<1>3. SocketInv'
  BY <1>2 DEF TypeInv, SocketInv
<1> QED
  BY <1>1, <1>3 DEF TypeInv, TypeOK, SocketIs, CallbackAt, MainAt

LEMMA TypeStep == TypeInv /\ [Next]_vars => TypeInv'
<1> SUFFICES ASSUME TypeInv, [Next]_vars PROVE TypeInv'
  OBVIOUS
<1>t. /\ program \in {"log", "token"} /\ state \in SocketState /\ last \in SocketState
      /\ read \in SocketState /\ made \in 0..MaxSockets /\ tcpSocket \in 0..made
      /\ sock \in [Socket -> SocketIs] /\ cb \in [Socket -> CallbackAt]
      /\ main \in MainAt /\ flag \in 0..1 /\ late \in BOOLEAN
      /\ threads \in BOOLEAN /\ slipped \in BOOLEAN /\ overlapped \in BOOLEAN
      /\ outrun \in BOOLEAN
  BY DEF TypeInv, TypeOK, SocketIs, CallbackAt, MainAt
<1>i. main = "replace" => made < MaxSockets
  BY DEF TypeInv, SocketInv
<1>0. CASE UNCHANGED vars
  BY <1>0, <1>t, <1>i, TypeSteps DEF vars, machine, sockets, entry, history
<1>1. CASE AsyncConnect
  <2>1. /\ state' = "Connecting" /\ late' = FALSE /\ main' = "replace" /\ made < MaxSockets
        /\ UNCHANGED <<program, last, read, tcpSocket, made, sock, cb, threads, flag, slipped, overlapped, outrun>>
    BY <1>1 DEF AsyncConnect, sockets, entry, history
  <2>2. state' \in SocketState /\ main' \in MainAt
    BY <2>1 DEF SocketState, MainAt
  <2> QED
    BY <2>1, <2>2, <1>t, TypeSteps
<1>2. CASE ReplaceSocket
  <2>1. /\ main = "replace" /\ main' = "begin" /\ made' = made + 1 /\ tcpSocket' = made + 1
        /\ sock' = [sock EXCEPT ![made + 1] = "made"]
        /\ UNCHANGED <<program, state, last, read, cb, late, threads, flag, slipped>>
        /\ overlapped' \in BOOLEAN /\ outrun' \in BOOLEAN
    BY <1>2 DEF ReplaceSocket, New, machine, entry
  <2>2. /\ made + 1 \in Socket /\ made' \in 0..MaxSockets /\ tcpSocket' \in 0..made'
        /\ made + 1 > made
    BY <2>1, <1>t, <1>i, ClientAssumption DEF Socket
  <2>3. cb[made + 1] = "none"
    BY <2>2 DEF TypeInv, TypeOK, SocketInv
  <2>4. sock' \in [Socket -> SocketIs] /\ sock'[made + 1] = "made"
    BY <2>1, <2>2, <1>t DEF SocketIs
  <2>5. \A k \in Socket : sock'[k] \in {"none", "made", "connecting"} => cb'[k] = "none"
    BY <2>1, <2>3, <1>t DEF TypeInv, TypeOK
  <2>6. \A k \in Socket : k > made' => sock'[k] = "none"
    <3>1. ASSUME NEW k \in Socket, k > made' PROVE k > made /\ k # made + 1
      BY <3>1, <2>1, <1>t, ClientAssumption DEF Socket
    <3> QED
      BY <3>1, <2>1, <1>t DEF TypeInv, SocketInv
  <2> QED
    BY <2>1, <2>2, <2>4, <2>5, <2>6, <1>t
       DEF TypeInv, TypeOK, SocketInv, SocketIs, CallbackAt, MainAt
<1>3. CASE BeginConnect
  <2>1. /\ main = "begin" /\ main' = "idle"
        /\ sock' = sock \/ sock' = [sock EXCEPT ![tcpSocket] = "connecting"]
        /\ UNCHANGED <<program, state, last, read, tcpSocket, made, cb, late, threads, flag, slipped, overlapped, outrun>>
    BY <1>3 DEF BeginConnect, machine, entry, history
  <2>2. tcpSocket \in Socket /\ sock[tcpSocket] = "made" /\ cb[tcpSocket] = "none"
        /\ ~(tcpSocket > made)
    BY <2>1, <1>t DEF TypeInv, TypeOK, SocketInv
  <2>3. sock' \in [Socket -> SocketIs]
    BY <2>1, <1>t DEF SocketIs
  <2>4. \A k \in Socket : k # tcpSocket => sock'[k] = sock[k]
    BY <2>1, <1>t
  <2>5. \A k \in Socket : sock'[k] \in {"none", "made", "connecting"} => cb'[k] = "none"
    BY <2>1, <2>2, <2>4 DEF TypeInv, TypeOK
  <2>6. \A k \in Socket : k > made => sock'[k] = "none"
    BY <2>2, <2>4 DEF TypeInv, SocketInv
  <2> QED
    BY <2>1, <2>3, <2>5, <2>6, <1>t
       DEF TypeInv, TypeOK, SocketInv, SocketIs, CallbackAt, MainAt
<1>4. CASE Compare
  BY <1>4, <1>t, TypeSteps DEF Compare, machine, sockets, entry, history, MainAt
<1>5. CASE ReadState
  BY <1>5, <1>t, TypeSteps DEF ReadState, sockets, entry, history, MainAt
<1>6. CASE stateEnter
  <2>1. UNCHANGED <<program, state, last, read, late>> /\ main = "enter"
    BY <1>6 DEF stateEnter, machine
  <2>2. CASE closeSocket
    <3>1. /\ main' = "store" /\ UNCHANGED <<tcpSocket, made, threads, flag, slipped, outrun>>
          /\ overlapped' \in BOOLEAN
          /\ cb' = [k \in Socket |-> IF k = tcpSocket /\ sock[k] = "connecting" THEN "called" ELSE cb[k]]
          /\ sock' = IF tcpSocket = 0 THEN sock ELSE [sock EXCEPT ![tcpSocket] = "closed"]
      BY <2>2, <1>t DEF closeSocket, entry
    <3>2. sock' \in [Socket -> SocketIs] /\ cb' \in [Socket -> CallbackAt]
      BY <3>1, <1>t DEF SocketIs, CallbackAt
    <3>3. tcpSocket <= made /\ \A k \in Socket : k # 0
      BY <1>t, ClientAssumption DEF Socket
    <3>4. \A k \in Socket : IF k = tcpSocket THEN sock'[k] = "closed"
                            ELSE sock'[k] = sock[k] /\ cb'[k] = cb[k]
      BY <3>1, <3>3, <1>t
    <3> QED
      BY <2>1, <3>1, <3>2, <3>3, <3>4, <1>t, TypeSteps DEF MainAt
  <2>3. CASE connectDoneAction
    <3>1. /\ UNCHANGED <<tcpSocket, made, sock, cb, slipped, overlapped, outrun>>
          /\ main' \in {"store", "idle", "hung"} /\ flag' \in {flag, 1} /\ threads' \in {threads, TRUE}
      BY <2>3 DEF connectDoneAction, Throws, sockets, history, entry
    <3>2. flag' \in 0..1 /\ main' \in MainAt /\ main' # "replace" /\ main' # "begin"
      BY <3>1, <1>t DEF MainAt
    <3>3. {late', threads', slipped', overlapped', outrun'} \subseteq BOOLEAN
      BY <2>1, <3>1, <1>t
    <3>4. {state', last', read'} \subseteq SocketState
      BY <2>1, <1>t
    <3>5. sock' \in [Socket -> SocketIs] /\ cb' \in [Socket -> CallbackAt]
      BY <3>1, <1>t
    <3>6. UNCHANGED <<program, tcpSocket, made, sock, cb>>
      BY <2>1, <3>1
    <3> QED
      BY <3>2, <3>3, <3>4, <3>5, <3>6, TypeSteps
  <2>4. CASE read = "Connecting" /\ main' = "store" /\ UNCHANGED <<sockets, cb, entry, history>>
    BY <2>1, <2>4, <1>t, TypeSteps DEF sockets, entry, history, MainAt
  <2> QED
    BY <1>6, <2>2, <2>3, <2>4 DEF stateEnter
<1>7. CASE StoreLast
  BY <1>7, <1>t, TypeSteps DEF StoreLast, sockets, entry, MainAt
<1>8. CASE stateExec
  BY <1>8, <1>t, TypeSteps DEF stateExec, machine, sockets, entry, history, MainAt
<1>9. CASE StoreTimeout
  BY <1>9, <1>t, TypeSteps DEF StoreTimeout, sockets, entry, history, MainAt, SocketState
<1>10. CASE TimePasses
  BY <1>10, <1>t, <1>i, TypeSteps DEF TimePasses, machine, sockets, entry, history
<1>11. ASSUME NEW k \in Socket, NetworkAnswers(k) PROVE TypeInv'
  <2>1. /\ sock[k] = "connecting" /\ cb' = [cb EXCEPT ![k] = "called"]
        /\ \E a \in {"connected", "failed"} : sock' = [sock EXCEPT ![k] = a]
        /\ UNCHANGED <<program, state, last, read, tcpSocket, made, main, late, threads, flag, slipped, overlapped, outrun>>
    BY <1>11 DEF NetworkAnswers, machine, entry, history
  <2>2. sock' \in [Socket -> SocketIs] /\ cb' \in [Socket -> CallbackAt]
    BY <2>1, <1>t DEF SocketIs, CallbackAt
  <2>3. \A j \in Socket : IF j = k THEN sock'[j] \in {"connected", "failed"}
                          ELSE sock'[j] = sock[j] /\ cb'[j] = cb[j]
    BY <2>1, <1>t
  <2>4. \A j \in Socket : sock'[j] \in {"none", "made", "connecting"} => cb'[j] = "none"
    BY <2>3 DEF TypeInv, TypeOK
  <2>5. ~(k > made)
    BY <2>1 DEF TypeInv, SocketInv
  <2>6. SocketInv'
    BY <2>1, <2>3, <2>5 DEF TypeInv, SocketInv
  <2> QED
    BY <2>1, <2>2, <2>4, <2>6, <1>t DEF TypeInv, TypeOK, SocketIs, CallbackAt, MainAt
<1>12. ASSUME NEW k \in Socket, CallbackReads(k) \/ CallbackStores(k) PROVE TypeInv'
  <2>1. /\ cb[k] # "none" /\ state' \in {state, "Connected", "Closed"}
        /\ \E c \in CallbackAt : cb' = [cb EXCEPT ![k] = c]
        /\ UNCHANGED <<program, last, read, tcpSocket, made, sock, main, late, threads, flag, slipped, overlapped, outrun>>
    BY <1>12 DEF CallbackReads, CallbackStores, Next_cb, machine, sockets, entry, history, CallbackAt
  <2>2. state' \in SocketState /\ cb' \in [Socket -> CallbackAt]
    BY <2>1, <1>t DEF SocketState
  <2>3. \A j \in Socket : cb[j] = "none" => cb'[j] = "none"
    BY <2>1, <1>t
  <2> QED
    BY <2>1, <2>2, <2>3, <1>t, <1>i, TypeSteps
<1> QED
  BY <1>0, <1>1, <1>2, <1>3, <1>4, <1>5, <1>6, <1>7, <1>8, <1>9, <1>10, <1>11, <1>12
     DEF Next, Tick

LEMMA TypeInvAlways == Spec => []TypeInv
  BY TypeInit, TypeStep, PTL DEF Spec

(***************************************************************************)
(* Every variable keeps its type, and no callback runs for a socket that   *)
(* has not begun to connect, for any number of calls of Connect().         *)
(***************************************************************************)
THEOREM ClientTypeCorrect == Spec => []TypeOK
<1>1. TypeInv => TypeOK
  BY DEF TypeInv
<1> QED
  BY TypeInvAlways, <1>1, PTL

(***************************************************************************)
(* ConnectedEntered.                                                       *)
(***************************************************************************)
EntryInv ==
  /\ main = "store" /\ read = "Connected" => threads
  /\ ConnectedEntered

LEMMA EntryInit == Init => EntryInv
  BY DEF Init, EntryInv, ConnectedEntered

LEMMA EntryStep == TypeInv /\ EntryInv /\ [Next]_vars => EntryInv'
<1> SUFFICES ASSUME TypeInv, EntryInv, [Next]_vars PROVE EntryInv'
  OBVIOUS
<1> USE DEF EntryInv, ConnectedEntered
<1>0. CASE UNCHANGED <<last, read, main, threads, slipped>>
  BY <1>0
<1>1. CASE UNCHANGED <<last, threads, slipped>> /\ main' # "store"
  BY <1>1
<1>2. CASE stateEnter
  <2>1. CASE connectDoneAction
    <3>1. UNCHANGED <<last, read, slipped>> /\ (threads => threads')
          /\ (main' = "store" => threads')
      BY <1>2, <2>1 DEF stateEnter, connectDoneAction, Throws, machine, history, entry
    <3> QED
      BY <3>1
  <2>2. CASE read # "Connected"
    <3>1. UNCHANGED <<last, read, threads, slipped>>
      BY <1>2, <2>2 DEF stateEnter, closeSocket, connectDoneAction, machine, history, entry
    <3> QED
      BY <2>2, <3>1
  <2> QED
    BY <1>2, <2>1, <2>2 DEF stateEnter, closeSocket
<1>3. CASE StoreLast
  <2>1. main = "store" /\ main' = "exec" /\ last' = state /\ slipped' = (state # read)
        /\ threads' = threads
    BY <1>3 DEF StoreLast, entry
  <2> QED
    BY <2>1
<1>4. CASE AsyncConnect \/ ReplaceSocket \/ BeginConnect
  BY <1>4, <1>1 DEF AsyncConnect, ReplaceSocket, BeginConnect, machine, entry, history
<1>5. CASE Compare \/ ReadState \/ stateExec \/ StoreTimeout
  BY <1>5, <1>1 DEF Compare, ReadState, stateExec, StoreTimeout, machine, entry, history
<1>6. CASE TimePasses \/ UNCHANGED vars
  BY <1>6, <1>0 DEF TimePasses, vars, machine, entry, history
<1>7. ASSUME NEW k \in Socket, NetworkAnswers(k) \/ CallbackReads(k) \/ CallbackStores(k)
      PROVE  EntryInv'
  BY <1>7, <1>0 DEF NetworkAnswers, CallbackReads, CallbackStores, machine, entry, history
<1> QED
  BY <1>2, <1>3, <1>4, <1>5, <1>6, <1>7 DEF Next, Tick

(***************************************************************************)
(* Resting in Connected means that the threads were started, but for a     *)
(* state that slipped in between lines 173 and 174.                        *)
(***************************************************************************)
THEOREM EnteredBeforeResting == Spec => []ConnectedEntered
<1>1. Spec => []EntryInv
  BY TypeInvAlways, EntryInit, EntryStep, PTL DEF Spec
<1>2. EntryInv => ConnectedEntered
  BY DEF EntryInv
<1> QED
  BY <1>1, <1>2, PTL

(***************************************************************************)
(* ConnectedIsCurrent.  Unless the history says that it was disturbed, a   *)
(* callback that will store Connected is that of the current socket, which *)
(* is connected; and when State says so of a socket that is not, the entry *)
(* that closed it has just read another state, or the machine rests.       *)
(***************************************************************************)
ClosedByEntry ==
  \/ main = "store" /\ read # state
  \/ main \in {"idle", "exec"} /\ slipped /\ last = state
CurrentInv ==
  ~overlapped =>
    /\ \A k \in Socket : Announces(k) => k = tcpSocket /\ sock[k] = "connected"
    /\ ~outrun =>
         /\ main = "begin" => state # "Connected"
         /\ state = "Connected" => sock[tcpSocket] = "connected" \/ ClosedByEntry

LEMMA CurrentInit == Init => CurrentInv
  BY DEF Init, CurrentInv, Announces, Passed

\* Steps that neither store into State nor move a socket or a callback.
LEMMA CurrentKept ==
  ASSUME CurrentInv, UNCHANGED <<state, tcpSocket, sock, cb, overlapped, outrun>>,
         main' = "begin" => main = "begin", ClosedByEntry => ClosedByEntry' \/ state # "Connected"
  PROVE  CurrentInv'
  BY DEF CurrentInv, Announces, Passed

LEMMA CurrentStep == TypeInv /\ CurrentInv /\ [Next]_vars => CurrentInv'
<1> SUFFICES ASSUME TypeInv, CurrentInv, [Next]_vars, ~overlapped' PROVE CurrentInv'
  BY DEF CurrentInv
<1>t. /\ sock \in [Socket -> SocketIs] /\ cb \in [Socket -> CallbackAt]
      /\ \A k \in Socket : sock[k] \in {"none", "made", "connecting"} => cb[k] = "none"
  BY DEF TypeInv, TypeOK, SocketIs, CallbackAt
<1>1. CASE AsyncConnect
  <2>1. /\ state' = "Connecting" /\ main' = "replace"
        /\ UNCHANGED <<tcpSocket, sock, cb, overlapped, outrun>>
    BY <1>1 DEF AsyncConnect, sockets, history
  <2> QED
    BY <2>1 DEF CurrentInv, Announces, Passed
<1>2. CASE ReplaceSocket
  <2>1. /\ main' = "begin" /\ state' = state /\ cb' = cb /\ (~outrun' => state = "Connecting")
        /\ \A k \in Socket : ~Announces(k)
        /\ made' = New /\ sock' = [sock EXCEPT ![New] = "made"]
    BY <1>2 DEF ReplaceSocket, machine
  <2>2. \A k \in Socket : sock'[k] = sock[k] \/ sock'[k] = "made"
    BY <2>1, <1>t
  <2>3. \A k \in Socket : ~Announces(k)'
    BY <2>1, <2>2 DEF Announces, Passed
  <2> QED
    BY <2>1, <2>3 DEF CurrentInv
<1>3. CASE BeginConnect
  <2>1. /\ main = "begin" /\ main' = "idle"
        /\ UNCHANGED <<state, tcpSocket, cb, overlapped, outrun>>
        /\ sock' = sock \/ sock' = [sock EXCEPT ![tcpSocket] = "connecting"]
    BY <1>3 DEF BeginConnect, machine, history
  <2>2. cb[tcpSocket] = "none" /\ tcpSocket \in Socket
    BY <2>1, <1>t DEF TypeInv, SocketInv
  <2>3. \A k \in Socket : Announces(k)' => Announces(k) /\ sock'[k] = sock[k]
    BY <2>1, <2>2, <1>t DEF Announces, Passed
  <2>4. ~outrun' => state' # "Connected"
    BY <2>1 DEF CurrentInv
  <2> QED
    BY <2>1, <2>3, <2>4 DEF CurrentInv
<1>4. CASE Compare \/ ReadState \/ StoreLast \/ stateExec \/ TimePasses \/ UNCHANGED vars
  <2>1. /\ UNCHANGED <<state, tcpSocket, sock, cb, overlapped, outrun>>
        /\ main' = "begin" => main = "begin"
    BY <1>4 DEF Compare, ReadState, StoreLast, stateExec, TimePasses, vars, machine, sockets, history
  <2>2. ASSUME ClosedByEntry, state = "Connected" PROVE ClosedByEntry'
    <3>1. CASE Compare \/ stateExec \/ TimePasses \/ UNCHANGED vars
      BY <2>2, <3>1 DEF Compare, stateExec, TimePasses, vars, machine, history, ClosedByEntry
    <3>2. CASE ReadState
      BY <2>2, <3>2 DEF ReadState, ClosedByEntry
    <3>3. CASE StoreLast
      <4>1. main = "store" /\ main' = "exec" /\ last' = state /\ state' = state
            /\ slipped' = (state # read)
        BY <3>3 DEF StoreLast
      <4>2. state # read
        BY <2>2, <4>1 DEF ClosedByEntry
      <4> QED
        BY <4>1, <4>2 DEF ClosedByEntry
    <3> QED
      BY <1>4, <3>1, <3>2, <3>3
  <2> QED
    BY <2>1, <2>2, CurrentKept
<1>5. CASE StoreTimeout
  <2>1. /\ state' = "Timeout" /\ main' = "idle"
        /\ UNCHANGED <<tcpSocket, sock, cb, overlapped, outrun>>
    BY <1>5 DEF StoreTimeout, sockets, history
  <2> QED
    BY <2>1 DEF CurrentInv, Announces, Passed
<1>6. CASE stateEnter
  <2>1. UNCHANGED <<state, read>> /\ main = "enter"
    BY <1>6 DEF stateEnter, machine
  <2>2. CASE closeSocket
    <3>1. /\ main' = "store" /\ UNCHANGED <<tcpSocket, outrun>> /\ ~overlapped
          /\ read \in {"Timeout", "Closed"} /\ \A k \in Socket : cb[k] # "connected"
          /\ cb' = [k \in Socket |-> IF k = tcpSocket /\ sock[k] = "connecting" THEN "called" ELSE cb[k]]
          /\ sock' = IF tcpSocket = 0 THEN sock ELSE [sock EXCEPT ![tcpSocket] = "closed"]
      BY <2>2 DEF closeSocket
    <3>2. ASSUME NEW k \in Socket PROVE ~Announces(k)'
      <4>1. Passed(k)' => Passed(k) /\ cb'[k] # "connected"
        BY <3>1 DEF Passed
      <4>2. sock'[k] = "connected" => k # tcpSocket /\ sock[k] = "connected"
        BY <3>1, <1>t DEF Socket
      <4>3. cb'[k] # "connected"
        BY <3>1
      <4> QED
        BY <3>1, <4>1, <4>2, <4>3 DEF CurrentInv, Announces
    <3>3. state' = "Connected" => ClosedByEntry'
      BY <2>1, <3>1 DEF ClosedByEntry
    <3> QED
      BY <3>1, <3>2, <3>3 DEF CurrentInv
  <2>3. CASE connectDoneAction
    <3>1. /\ UNCHANGED <<tcpSocket, sock, cb, overlapped, outrun>>
          /\ main' \in {"store", "idle", "hung"}
      BY <2>3 DEF connectDoneAction, Throws, sockets, history
    <3> QED
      BY <2>1, <3>1, CurrentKept DEF ClosedByEntry
  <2>4. CASE main' = "store" /\ UNCHANGED <<sockets, cb, entry, history>>
    BY <2>1, <2>4, CurrentKept DEF sockets, history, ClosedByEntry
  <2> QED
    BY <1>6, <2>2, <2>3, <2>4 DEF stateEnter
<1>7. ASSUME NEW k \in Socket, NetworkAnswers(k) PROVE CurrentInv'
  <2>1. /\ sock[k] = "connecting" /\ cb' = [cb EXCEPT ![k] = "called"]
        /\ \E a \in {"connected", "failed"} : sock' = [sock EXCEPT ![k] = a]
        /\ UNCHANGED <<state, last, read, slipped, tcpSocket, main, overlapped, outrun>>
    BY <1>7 DEF NetworkAnswers, machine, history
  <2>2. \A j \in Socket : IF j = k THEN cb'[j] = "called"
                          ELSE sock'[j] = sock[j] /\ cb'[j] = cb[j]
    BY <2>1, <1>t
  <2>3. \A j \in Socket : Announces(j)' => Announces(j) /\ sock'[j] = sock[j]
    BY <2>2 DEF Announces, Passed
  <2>4. sock[tcpSocket] = "connected" => sock'[tcpSocket] = "connected"
    BY <2>1, <1>t
  <2>5. ClosedByEntry' = ClosedByEntry
    BY <2>1 DEF ClosedByEntry
  <2> QED
    BY <2>1, <2>3, <2>4, <2>5 DEF CurrentInv
<1>8. ASSUME NEW k \in Socket, CallbackReads(k) PROVE CurrentInv'
  <2>1. /\ cb[k] \in {"called", "matched", "ended"} /\ cb' = [cb EXCEPT ![k] = Next_cb(k)]
        /\ UNCHANGED <<state, last, read, slipped, tcpSocket, sock, main, overlapped, outrun>>
    BY <1>8 DEF CallbackReads, machine, sockets, history
  <2>2. cb'[k] = Next_cb(k) /\ \A j \in Socket : j # k => cb'[j] = cb[j]
    BY <2>1, <1>t
  <2>3. ASSUME Announces(k)' PROVE k = tcpSocket /\ sock[k] = "connected"
    <3>1. sock[k] = "connected"
      BY <2>1, <2>2, <2>3 DEF Announces, Next_cb
    <3>2. CASE cb[k] = "called"
      BY <2>1, <2>2, <2>3, <3>1, <3>2 DEF Announces, Passed, Next_cb, IsCurrent
    <3>3. CASE cb[k] # "called"
      BY <2>1, <3>1, <3>3 DEF Announces, Passed, CurrentInv
    <3> QED
      BY <3>1, <3>2, <3>3
  <2>4. \A j \in Socket : j # k /\ Announces(j)' => Announces(j)
    BY <2>1, <2>2 DEF Announces, Passed
  <2>5. ClosedByEntry' = ClosedByEntry
    BY <2>1 DEF ClosedByEntry
  <2> QED
    BY <2>1, <2>3, <2>4, <2>5 DEF CurrentInv
<1>9. ASSUME NEW k \in Socket, CallbackStores(k) PROVE CurrentInv'
  <2>1. /\ cb[k] \in {"threw", "connected", "closed"}
        /\ state' = IF cb[k] = "connected" THEN "Connected" ELSE "Closed"
        /\ cb' = [cb EXCEPT ![k] = IF cb[k] = "threw" THEN "ended" ELSE "done"]
        /\ UNCHANGED <<tcpSocket, sock, main, overlapped, outrun>>
    BY <1>9 DEF CallbackStores, sockets, history
  <2>2. state' = "Connected" => k = tcpSocket /\ sock[k] = "connected"
    BY <2>1 DEF CurrentInv, Announces
  <2>3. main = "begin" => sock[tcpSocket] = "made"
    BY DEF TypeInv, SocketInv
  <2>4. \A j \in Socket : Announces(j)' => Announces(j)
    BY <2>1, <1>t DEF Announces, Passed
  <2> QED
    BY <2>1, <2>2, <2>3, <2>4 DEF CurrentInv
<1> QED
  BY <1>1, <1>2, <1>3, <1>4, <1>5, <1>6, <1>7, <1>8, <1>9 DEF Next, Tick

(***************************************************************************)
(* State says Connected of a current socket that is connected, but for the *)
(* three races between the callback, which tests and later stores, and the *)
(* main thread, which closes the socket, replaces it, or enters the state  *)
(* that it read before.                                                    *)
(***************************************************************************)
THEOREM ConnectedMeansCurrent == Spec => []ConnectedIsCurrent
<1>1. Spec => []CurrentInv
  BY TypeInvAlways, CurrentInit, CurrentStep, PTL DEF Spec
<1>2. CurrentInv => ConnectedIsCurrent
  BY DEF CurrentInv, ConnectedIsCurrent, ClosedByEntry, EntersAnother
<1> QED
  BY <1>1, <1>2, PTL

===============================================================================
