----------------------------- MODULE ServerLink -----------------------------
(***************************************************************************)
(* The link of a game server to the proxy: active_server_session_mgr and   *)
(* its logic at one end; default_session_logic, then server_session_logic, *)
(* at the other; two streams of frames between them.                       *)
(*                                                                         *)
(* The game server numbers its frames with ++_seq, on whatever thread      *)
(* calls send(): the threads of the application, and the strand of the     *)
(* session, which sends the authentication request and the keep-alives.    *)
(* The proxy counts the frames it receives and refuses one whose number is *)
(* not the count.                                                          *)
(***************************************************************************)
EXTENDS Wire, Sequences, FiniteSets

CONSTANTS
  App,        \* threads of the application that call send()
  SeqWidth,   \* values of a sequence number, 2^32 in the code
  Sums,       \* sums of the data of messages and requests
  MaxSends,   \* bound on the frames the game server sends
  MaxBack,    \* bound on the frames on their way back
  Eagers      \* whether the application sends before the answer has come

ASSUME LinkAssumption ==
  /\ SeqWidth \in Nat \ {0} /\ (SeqWidth - 1) \div 65536 < 65536
  /\ \A s \in Sums : s \in Nat /\ s <= 32768 * 65535
  /\ MaxSends \in Nat \ {0} /\ MaxBack \in Nat \ {0}
  /\ "strand" \notin App /\ Eagers \subseteq BOOLEAN

Writer == App \cup {"strand"}

\* An authentication request, a message with its target and a keep-alive, told
\* apart by their length.
RequestLen == 13
MessageLen == 5

Authentication == {"BEFORE_VERIFY", "VERIFY_SUCC", "VERIFY_FAILED"}

VARIABLES
  eager,       \* the application does not wait for the answer
  state,       \* _state of the game server's session
  pc, len, cmd, old, new, \* of the wrap_to_send_data() of each writer
  gSeq, gAuth, \* _seq and _authentication of active_server_session_logic
  sent,        \* frames begun
  up, back,    \* the streams to the proxy and from it
  logic, pSeq, pAuth, \* the logic of the proxy's session and its members
  kicked,      \* the proxy's session has been kicked
  refused,     \* the proxy has refused a frame for its number
  raced, lost  \* writers have overlapped, and one has undone another's ++_seq

call == <<len, cmd, old, new>>
writers == <<pc, call, sent, raced>>
game == <<eager, state, gSeq, gAuth, lost>>
proxy == <<logic, pSeq, pAuth, kicked, refused>>
vars == <<writers, game, up, back, proxy>>

W_Inc(n) == n + 1
Inc(n) == (n + 1) % SeqWidth
Wrapping(w) == pc[w] \in {"wrap", "loaded", "stored"}

(***************************************************************************)
(* The game server.                                                        *)
(***************************************************************************)
\* The completion handler of async_connect sets _state first and then starts
\* the tick and sends the request; from here on other threads may send.
Connected ==
  /\ state = "WAIT_CONNECT" /\ state' = "CONNECTING"
  /\ pc' = [pc EXCEPT !["strand"] = "connected"]
  /\ UNCHANGED <<call, sent, raced, eager, gSeq, gAuth, lost, up, back, proxy>>

\* wrap_to_send_data() begins: behind the test of _state it chooses the command
\* by _authentication.
W_Command == IF gAuth = "BEFORE_VERIFY" THEN RoutingTransparent ELSE AuthenticationAAA
Command == IF gAuth = "BEFORE_VERIFY" THEN AuthenticationAAA ELSE RoutingTransparent
Begin(w, length) ==
  /\ state = "CONNECTING" /\ sent < MaxSends /\ sent' = sent + 1
  /\ pc' = [pc EXCEPT ![w] = "wrap"]
  /\ len' = [len EXCEPT ![w] = length]
  /\ cmd' = [cmd EXCEPT ![w] = Command]
  /\ raced' = (raced \/ \E v \in Writer \ {w} : Wrapping(v))
  /\ UNCHANGED <<old, new, game, up, back, proxy>>

send_verify_authentication == pc["strand"] = "connected" /\ Begin("strand", RequestLen)
keep_alive == pc["strand"] = "idle" /\ Begin("strand", 0)
send(w) ==
  /\ pc[w] = "idle" /\ (eager \/ gAuth # "BEFORE_VERIFY")
  /\ Begin(w, MessageLen)

\* ++_seq, which is not atomic: a load and a store, and where the build does
\* not keep the value a load again.
LoadSeq(w) ==
  /\ pc[w] = "wrap" /\ pc' = [pc EXCEPT ![w] = "loaded"]
  /\ old' = [old EXCEPT ![w] = gSeq]
  /\ UNCHANGED <<len, cmd, new, sent, raced, game, up, back, proxy>>

StoreSeq(w) ==
  /\ pc[w] = "loaded" /\ pc' = [pc EXCEPT ![w] = "stored"]
  /\ gSeq' = Inc(old[w]) /\ new' = [new EXCEPT ![w] = Inc(old[w])]
  /\ lost' = (lost \/ gSeq # old[w])
  /\ UNCHANGED <<len, cmd, old, sent, raced, eager, state, gAuth, up, back, proxy>>

\* async_write_some(): the frame goes behind those that are on their way, or,
\* on a session that has been closed, nowhere.
Write(w) ==
  /\ pc[w] = "stored" /\ pc' = [pc EXCEPT ![w] = "idle"]
  /\ \E seq \in {new[w], gSeq}, sum \in (IF len[w] = 0 THEN {0} ELSE Sums) :
       up' = IF state = "CONNECTING" THEN Append(up, Wrap(len[w], cmd[w], seq, sum)) ELSE up
  /\ UNCHANGED <<call, sent, raced, game, back, proxy>>

\* A frame from the proxy.  One without data is a keep-alive; the first other
\* one is the answer, of which check_verify_res() takes EC_Success for a failure.
W_Consumed(f) == FALSE
Consumed(f) == f = "keep_alive"
Verdict(f) == IF f = "EC_Success" THEN "VERIFY_FAILED" ELSE "VERIFY_SUCC"
unwrap_received_data ==
  /\ state = "CONNECTING" /\ pc["strand"] = "idle" /\ back # <<>>
  /\ back' = Tail(back)
  /\ gAuth' = IF Consumed(Head(back)) \/ gAuth # "BEFORE_VERIFY" THEN gAuth
              ELSE Verdict(Head(back))
  /\ UNCHANGED <<writers, eager, state, gSeq, lost, up, proxy>>

\* The end of the stream of a proxy that has kicked the session.
EndOfStream ==
  /\ state = "CONNECTING" /\ pc["strand"] = "idle" /\ kicked /\ back = <<>>
  /\ state' = "CLOSE_DONE"
  /\ UNCHANGED <<writers, eager, gSeq, gAuth, lost, up, back, proxy>>

(***************************************************************************)
(* The proxy.                                                              *)
(***************************************************************************)
\* A well-made request passes (ProxyManager has those that do not).  Data that
\* are no request are read as one: what is found in the place of the type of
\* the link decides, for a keep-alive what a pooled buffer holds there.
Passes(f) == IF f.cmd # AuthenticationAAA THEN {FALSE}
             ELSE IF f.len = RequestLen THEN {TRUE} ELSE BOOLEAN

\* unwrap_received_data() of both logics: a frame counts, refused or not.
W_Expected(f) == f.seq = pSeq
Expected(f) == f.seq = Inc(pSeq)
W_Counted(f) == IF Expected(f) THEN Inc(pSeq) ELSE pSeq
Counted(f) == Inc(pSeq)

\* default_session_logic: whatever comes first is taken for the request.  A
\* session that passes goes on with a server_session_logic, which inherits the
\* count.
W_Inherited == pSeq
Inherited == Inc(pSeq)
verify_authentication(f) ==
  \E pass \in Passes(f) :
    IF pass
    THEN /\ logic' = "server" /\ pAuth' = "VERIFY_SUCC" /\ pSeq' = Inherited
         /\ back' = Append(back, "EC_Success")
    ELSE /\ pAuth' = "VERIFY_FAILED" /\ back' = Append(back, "EC_ServerNotFound")
         /\ pSeq' = Counted(f) /\ UNCHANGED logic

Receive ==
  /\ up # <<>> /\ up' = Tail(up)
  /\ refused' = (refused \/ ~Expected(Head(up)))
  /\ LET f == Head(up)
     IN  IF Expected(f) /\ Verifies(f) /\ logic = "default" /\ pAuth = "BEFORE_VERIFY"
         THEN verify_authentication(f)
         ELSE pSeq' = Counted(f) /\ UNCHANGED <<logic, pAuth, back>>
  /\ UNCHANGED <<writers, game, kicked>>

\* The write of a refusal completes: kick().
Kick ==
  /\ pAuth = "VERIFY_FAILED" /\ ~kicked /\ kicked' = TRUE
  /\ UNCHANGED <<writers, game, up, back, logic, pSeq, pAuth, refused>>

\* A keep-alive of the proxy's session.
ProxyTick ==
  /\ state = "CONNECTING" /\ ~kicked /\ Len(back) < MaxBack
  /\ back' = Append(back, "keep_alive")
  /\ UNCHANGED <<writers, game, up, proxy>>

Init ==
  /\ eager \in Eagers /\ state = "WAIT_CONNECT"
  /\ pc = [w \in Writer |-> "idle"] /\ len = [w \in Writer |-> 0]
  /\ cmd = [w \in Writer |-> AuthenticationAAA]
  /\ old = [w \in Writer |-> 0] /\ new = [w \in Writer |-> 0]
  /\ gSeq = 0 /\ gAuth = "BEFORE_VERIFY" /\ sent = 0
  /\ up = <<>> /\ back = <<>>
  /\ logic = "default" /\ pSeq = 0 /\ pAuth = "BEFORE_VERIFY" /\ kicked = FALSE
  /\ refused = FALSE /\ raced = FALSE /\ lost = FALSE

Wrap_to_send_data(w) == LoadSeq(w) \/ StoreSeq(w) \/ Write(w)
Strand ==
  \/ Connected \/ send_verify_authentication \/ Wrap_to_send_data("strand")
  \/ unwrap_received_data \/ EndOfStream
Proxy == Receive \/ Kick

Next ==
  \/ Strand \/ keep_alive
  \/ \E w \in App : send(w) \/ Wrap_to_send_data(w)
  \/ Proxy \/ ProxyTick

Spec == Init /\ [][Next]_vars

\* The strands of both sessions run what is ready, and the streams deliver;
\* nobody has to send.
FairSpec == Spec /\ WF_vars(Strand) /\ WF_vars(Proxy)

(***************************************************************************)
(* Properties.                                                             *)
(***************************************************************************)
Frames == [len : {0, RequestLen, MessageLen}, mask : Word,
           cmd : {AuthenticationAAA, RoutingTransparent},
           seq : 0..SeqWidth - 1, sum : Sums \cup {0}]
Number == 0..SeqWidth - 1

\* Every variable keeps its type.
TypeOK ==
  /\ eager \in BOOLEAN /\ state \in {"WAIT_CONNECT", "CONNECTING", "CLOSE_DONE"}
  /\ pc \in [Writer -> {"idle", "connected", "wrap", "loaded", "stored"}]
  /\ len \in [Writer -> {0, RequestLen, MessageLen}]
  /\ cmd \in [Writer -> {AuthenticationAAA, RoutingTransparent}]
  /\ old \in [Writer -> Number] /\ new \in [Writer -> Number]
  /\ gSeq \in Number /\ pSeq \in Number
  /\ gAuth \in Authentication /\ pAuth \in Authentication
  /\ sent \in 0..MaxSends /\ logic \in {"default", "server"}
  /\ up \in Seq(Frames)
  /\ back \in Seq({"keep_alive", "EC_Success", "EC_ServerNotFound"})
  /\ kicked \in BOOLEAN /\ refused \in BOOLEAN /\ raced \in BOOLEAN /\ lost \in BOOLEAN

\* As long as no two sends of the game server overlap, the proxy refuses none
\* of its frames, whatever the change of logics, the verdict and the keep-alives.
RefusedOnlyAfterRace == refused => raced

\* Two sends that overlap may get their frames out of order, which the proxy
\* refuses, but when all is received both ends are in step again.  Only a
\* lost update of _seq puts them out of step, and then for ever.
InStepUnlessLost ==
  (\A w \in Writer : ~Wrapping(w)) /\ up = <<>> /\ state # "CLOSE_DONE" /\ ~lost
    => pSeq = gSeq

\* What check_verify_res() stores is the opposite of the proxy's verdict, and
\* is never stored for any other frame than the answer to the request.
VerdictMirrored ==
  gAuth # "BEFORE_VERIFY" =>
    /\ pAuth # "BEFORE_VERIFY"
    /\ gAuth = "VERIFY_FAILED" <=> pAuth = "VERIFY_SUCC"

\* The proxy never kicks a game server whose application waits for the answer
\* before it sends: a keep-alive or a message is never taken for its request.
WaitingServerNeverKicked == ~eager => ~kicked /\ pAuth # "VERIFY_FAILED"

\* Such a game server is verified and gets its answer.
Authenticates == ~eager ~> (pAuth = "VERIFY_SUCC" /\ gAuth # "BEFORE_VERIFY")

=============================================================================
