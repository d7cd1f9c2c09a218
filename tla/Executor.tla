------------------------------ MODULE Executor ------------------------------
(***************************************************************************)
(* async_job_executor and job_agent: the threads that run the handlers of  *)
(* an io_context, the references that keep an executor alive, and the pool *)
(* that hands out the agents of sessions that are gone.                    *)
(*                                                                         *)
(* An executor is held by its owner, by each of its threads (start()       *)
(* captures shared_from_this()) and by every job_agent made for it, the    *)
(* pooled ones included.  Whoever drops the last reference runs the        *)
(* destructor, which joins every thread.                                   *)
(*                                                                         *)
(* Two programs use executors.  The proxy has one for its acceptor and one *)
(* for its sessions, in a singleton.  A process with connecting inner      *)
(* pairs has one for each pair, and drops a pair when it likes.            *)
(***************************************************************************)
EXTENDS Naturals, Sequences, FiniteSets

CONSTANTS
  Session,     \* sessions ever made
  MaxAgents,   \* bound on the agents ever made
  Programs     \* the programs considered

ASSUME ExecutorAssumption ==
  /\ MaxAgents \in Nat \ {0} /\ Programs \subseteq {"proxy", "pairs"}

Executor == {"first", "second"}   \* acceptor and sessions; or two pairs
Thread == Executor \X {1, 2}
Agent == 1..MaxAgents
None == "none"

VARIABLES
  program,
  owned,      \* the executor is a member of a manager or of a pair
  started, stopped, destroyed,
  pc,         \* where a thread is
  made,       \* agents made
  owner,      \* _owner of each agent, None when the agent is deleted
  pool,       \* the pooled agents, the top last
  agent,      \* _job_agent of each session
  asked,      \* the executor a session was made with
  at,         \* where a session is
  kept,       \* _acceptor_job_agent of the proxy
  fault

executors == <<owned, started, stopped, destroyed>>
agents == <<made, owner, pool>>
sessions == <<agent, asked, at>>
vars == <<program, executors, pc, agents, sessions, kept, fault>>

\* The acceptor of the proxy has one thread, each pair one, and the sessions
\* of the proxy have session_thread_num_.
Has(e) == IF program = "proxy" /\ e = "second" THEN {1, 2} ELSE {1}
Of(e) == {e} \X Has(e)

SelfHeld(p, t) == p[t] \in {"running", "returned", "cleared"}
Referenced(e, ow, p, own) ==
  \/ ow[e]
  \/ \E t \in Of(e) : SelfHeld(p, t)
  \/ \E a \in Agent : own[a] = e

\* ~async_job_executor of those that lose their last reference.
Destroy(ow, p, own) ==
  destroyed' = destroyed \cup {e \in Executor : ~Referenced(e, ow, p, own)}

Alive == fault = "none"

(***************************************************************************)
(* Executors.                                                              *)
(***************************************************************************)
\* The proxy starts the executor of its sessions before that of its acceptor.
start(e) ==
  /\ Alive /\ owned[e] /\ e \notin started /\ started' = started \cup {e}
  /\ (program = "proxy" /\ e = "first") => "second" \in started
  /\ pc' = [t \in Thread |-> IF t \in Of(e) THEN "running" ELSE pc[t]]
  /\ UNCHANGED <<program, owned, stopped, destroyed, agents, sessions, kept, fault>>

\* stop_proxy() stops both executors, stop() of a pair its own.
Stops(e) == IF program = "proxy" THEN Executor ELSE {e}
stop(e) ==
  /\ Alive /\ owned[e] /\ e \in started /\ e \notin stopped
  /\ stopped' = stopped \cup Stops(e)
  /\ UNCHANGED <<program, owned, started, destroyed, pc, agents, sessions, kept, fault>>

\* io_context::run() returns.
RunReturns(t) ==
  /\ Alive /\ pc[t] = "running" /\ t[1] \in stopped \cup destroyed
  /\ pc' = [pc EXCEPT ![t] = "returned"]
  /\ UNCHANGED <<program, executors, agents, sessions, kept, fault>>

\* beforeDestroyThread(): the cache of the agents, one for all the threads of
\* a process on Linux, is cleared, which may destroy executors.
beforeDestroyThread(t) ==
  LET own == [a \in Agent |-> IF \E i \in 1..Len(pool) : pool[i] = a THEN None ELSE owner[a]]
  IN  /\ Alive /\ pc[t] = "returned" /\ pc' = [pc EXCEPT ![t] = "cleared"]
      /\ pool' = <<>> /\ owner' = own
      /\ Destroy(owned, pc, own)
      /\ UNCHANGED <<program, owned, started, stopped, made, sessions, kept, fault>>

\* The function object of the thread goes, and with it self.  If that was the
\* last reference the thread joins itself, which throws in a destructor.
ThreadEnds(t) ==
  LET p == [pc EXCEPT ![t] = "gone"]
  IN  /\ Alive /\ pc[t] = "cleared" /\ pc' = p
      /\ Destroy(owned, p, owner)
      /\ fault' = IF t[1] \in destroyed' THEN "self_join" ELSE "none"
      /\ UNCHANGED <<program, owned, started, stopped, agents, sessions, kept>>

(***************************************************************************)
(* Agents and sessions.                                                    *)
(***************************************************************************)
Top == pool[Len(pool)]
W_Fresh == made + 2
Fresh == made + 1
Got == IF pool = <<>> THEN Fresh ELSE Top
\* What is left in the pool; in the wrong variant the agent handed out too.
W_Rest == pool
Rest == SubSeq(pool, 1, Len(pool) - 1)

\* JOB_AGENT(excutor): a pooled agent comes as it was left, the argument is
\* for a new one only.
W_JOB_AGENT(e) ==
  IF pool = <<>>
  THEN /\ made < MaxAgents /\ made' = made + 1
       /\ owner' = [owner EXCEPT ![Fresh] = "first"] /\ UNCHANGED pool
  ELSE pool' = Rest /\ UNCHANGED <<made, owner>>
JOB_AGENT(e) ==
  IF pool = <<>>
  THEN /\ made < MaxAgents /\ made' = made + 1
       /\ owner' = [owner EXCEPT ![Fresh] = e] /\ UNCHANGED pool
  ELSE pool' = Rest /\ UNCHANGED <<made, owner>>

\* The proxy keeps the agent of its acceptor, taken before any session's.
W_KeepAcceptorAgent == kept' = 0 /\ pool' = <<Fresh>>
KeepAcceptorAgent == kept' = Fresh /\ pool' = pool
proxy_manager ==
  /\ Alive /\ program = "proxy" /\ kept = 0 /\ made = 0
  /\ made' = Fresh /\ owner' = [owner EXCEPT ![Fresh] = "first"]
  /\ KeepAcceptorAgent
  /\ UNCHANGED <<program, executors, pc, sessions, fault>>

\* A session is made and its first handler posted: by the acceptor for an
\* accepted one, by start() of a pair for one that connects.
MayMake(e) ==
  IF program = "proxy"
  THEN e = "second" /\ made > 0 /\ pc[<<"first", 1>>] = "running"
  ELSE e \in started /\ owned[e] /\ \A s \in Session : asked[s] # e
MakeSession(s, e) ==
  /\ Alive /\ at[s] = "none" /\ MayMake(e) /\ JOB_AGENT(e)
  /\ agent' = [agent EXCEPT ![s] = Got] /\ asked' = [asked EXCEPT ![s] = e]
  /\ at' = [at EXCEPT ![s] = "waiting"]
  /\ UNCHANGED <<program, executors, pc, kept, fault>>

\* A thread of the executor of its agent runs the handler of a session.  That
\* of a session whose pair is gone calls the pair back if it has connected; if
\* not it ends, and gives up the last reference to the session.
Runs(t, s) ==
  /\ pc[t] = "running" /\ at[s] \notin {"none", "gone"} /\ owner[agent[s]] = t[1]
  /\ t[1] \notin stopped \cup destroyed
Gone(s) == at' = [at EXCEPT ![s] = "gone"] /\ pool' = Append(pool, agent[s])
Serve(t, s) ==
  /\ Alive /\ Runs(t, s)
  /\ \/ at[s] = "waiting" /\ at' = [at EXCEPT ![s] = "served"] /\ UNCHANGED <<pool, fault>>
     \/ at[s] = "orphan" /\ Gone(s) /\ UNCHANGED fault
     \/ at[s] = "orphan" /\ fault' = "dangling_pair" /\ UNCHANGED <<at, pool>>
  /\ UNCHANGED <<program, executors, pc, made, owner, agent, asked, kept>>

\* The last reference to a session goes, in the proxy, or with the read that
\* held a session of a pair that is gone: its agent goes to the pool.
SessionCloses(t, s) ==
  /\ \/ program = "proxy" /\ at[s] = "served" /\ pc[t] = "running"
     \/ at[s] = "reading" /\ Runs(t, s)
  /\ Alive /\ Gone(s)
  /\ UNCHANGED <<program, executors, pc, made, owner, agent, asked, kept, fault>>

\* ~inner_pair_session: the session goes before the executor, unless a handler
\* holds it: the first one, which has not run, or that of a pending read.
PairDropped(e) ==
  LET Mine(p) == {s \in Session : asked[s] = e /\ at[s] = p}
      own == [owned EXCEPT ![e] = FALSE]
      Becomes(p) == [s \in Session |-> IF s \in Mine("served") THEN p
                                       ELSE IF s \in Mine("waiting") THEN "orphan" ELSE at[s]]
  IN  /\ Alive /\ program = "pairs" /\ owned[e] /\ e \in started /\ owned' = own
      /\ \/ at' = Becomes("reading") /\ UNCHANGED pool
         \/ \E s \in Mine("served") : at' = Becomes("gone") /\ pool' = Append(pool, agent[s])
      /\ Destroy(own, pc, owner)
      /\ UNCHANGED <<program, started, stopped, pc, made, owner, agent, asked, kept, fault>>

Init ==
  /\ program \in Programs
  /\ owned = [e \in Executor |-> TRUE] /\ started = {} /\ stopped = {} /\ destroyed = {}
  /\ pc = [t \in Thread |-> "none"]
  /\ made = 0 /\ owner = [a \in Agent |-> None] /\ pool = <<>>
  /\ agent = [s \in Session |-> 0] /\ asked = [s \in Session |-> None]
  /\ at = [s \in Session |-> "none"] /\ kept = 0 /\ fault = "none"

Run(t) ==
  \/ RunReturns(t) \/ beforeDestroyThread(t) \/ ThreadEnds(t)
  \/ \E s \in Session : Serve(t, s) \/ SessionCloses(t, s)

Next ==
  \/ proxy_manager
  \/ \E t \in Thread : Run(t)
  \/ \E e \in Executor : start(e) \/ stop(e) \/ PairDropped(e)
  \/ \E s \in Session, e \in Executor : MakeSession(s, e)

Spec == Init /\ [][Next]_vars

\* Threads run: run() hands every posted handler to a thread, and returns
\* when it is stopped.
FairSpec ==
  /\ Spec
  /\ \A t \in Thread : WF_vars(RunReturns(t) \/ beforeDestroyThread(t) \/ ThreadEnds(t))
  /\ \A s \in Session : WF_vars(\E t \in Thread : Serve(t, s))

(***************************************************************************)
(* Properties.                                                             *)
(***************************************************************************)
\* Every variable keeps its type; the pool and the sessions hold agents that
\* were made.
TypeOK ==
  /\ program \in {"proxy", "pairs"} /\ owned \in [Executor -> BOOLEAN]
  /\ started \subseteq Executor /\ stopped \subseteq Executor /\ destroyed \subseteq Executor
  /\ pc \in [Thread -> {"none", "running", "returned", "cleared", "gone"}]
  /\ made \in 0..MaxAgents /\ owner \in [Agent -> Executor \cup {None}]
  /\ pool \in Seq(1..made) /\ kept \in 0..made
  /\ agent \in [Session -> 0..made] /\ asked \in [Session -> Executor \cup {None}]
  /\ at \in [Session -> {"none", "waiting", "orphan", "served", "reading", "gone"}]
  /\ fault \in {"none", "self_join", "dangling_pair"}

\* As long as the sessions of a process all ask for one executor, as those of
\* the proxy do, each of them gets an agent of that executor, however many
\* times its agent has been through the pool.  (The second pair of a process
\* may get an agent of the first, whose executor is stopped.)
AgentOfAsked ==
  (\A s, u \in Session : asked[s] # None /\ asked[u] # None => asked[s] = asked[u]) =>
    \A s \in Session : at[s] \notin {"none", "gone"} => owner[agent[s]] = asked[s]

\* An agent in use is nobody else's and outlives its use. It comes from a pool
\* that any thread fills, whose agents every thread of the process deletes when
\* it ends, so that executors go with them; still no session ever posts to an
\* agent that another session or the acceptor has, that has been deleted, or
\* whose executor has been destroyed, whoever drops pairs, stops or closes.
InUse(s) == at[s] \notin {"none", "gone"}
AgentsOutliveUse ==
  /\ \A s, u \in Session : InUse(s) /\ InUse(u) /\ agent[s] = agent[u] => s = u
  /\ \A s \in Session :
       InUse(s) => agent[s] # kept /\ owner[agent[s]] \in Executor \ destroyed

\* Every session is served, unless something is stopped: the session of a
\* second pair too, whose agent may come from the pool and belong to an
\* executor that no pair owns any more (get_shared(), ~inner_pair_session).
Served ==
  \A s \in Session :
    at[s] = "waiting" ~> (at[s] \in {"served", "gone"} \/ stopped # {} \/ fault # "none")

=============================================================================
