--------------------------- MODULE ExecutorProofs ---------------------------
(***************************************************************************)
(* Theorems about Executor, for any set of sessions and any bound on the   *)
(* agents, in both programs: TypeOK, AgentOfAsked and AgentsOutliveUse.    *)
(***************************************************************************)
EXTENDS Executor, SequenceTheorems, TLAPS

State == {"none", "running", "returned", "cleared", "gone"}

(***************************************************************************)
(* Sequences of agents, whatever the set of those made.                    *)
(***************************************************************************)
\* The entries of a sequence behind Append and without its last element.
LEMMA Pushed ==
  ASSUME NEW S, NEW q \in Seq(S), NEW x \in S
  PROVE  /\ Append(q, x) \in Seq(S) /\ Len(Append(q, x)) = Len(q) + 1
         /\ \A i \in 1..Len(q) : Append(q, x)[i] = q[i]
         /\ Append(q, x)[Len(q) + 1] = x
  BY AppendProperties

LEMMA Popped ==
  ASSUME NEW S, NEW q \in Seq(S), q # <<>>
  PROVE  /\ SubSeq(q, 1, Len(q) - 1) \in Seq(S)
         /\ Len(SubSeq(q, 1, Len(q) - 1)) = Len(q) - 1
         /\ \A i \in 1..Len(q) - 1 : SubSeq(q, 1, Len(q) - 1)[i] = q[i]
         /\ Len(q) \in Nat \ {0} /\ q[Len(q)] \in S
<1>1. Len(q) \in Nat /\ Len(q) > 0 /\ q \in [1..Len(q) -> S]
  OBVIOUS
<1>2. SubSeq(q, 1, Len(q) - 1) = [i \in 1..Len(q) - 1 |-> q[i]]
  BY <1>1
<1> QED
  BY <1>1, <1>2

\* A sequence over a set is one over a larger set.
LEMMA Wider ==
  ASSUME NEW n \in Nat, NEW q \in Seq(1..n)
  PROVE  q \in Seq(1..n + 1)
<1>1. 1..n \subseteq 1..n + 1
  OBVIOUS
<1> QED
  BY <1>1

(***************************************************************************)
(* TypeOK.                                                                 *)
(***************************************************************************)
\* What a session that is made gets, and what is left of the pool.
LEMMA AgentGot ==
  ASSUME TypeOK, NEW e \in Executor, JOB_AGENT(e)
  PROVE  /\ made' \in 0..MaxAgents /\ made' \in {made, made + 1}
         /\ owner' \in [Agent -> Executor \cup {None}]
         /\ pool' \in Seq(1..made') /\ Got \in 1..made'
<1>1. made \in Nat /\ MaxAgents \in Nat /\ made <= MaxAgents
  BY ExecutorAssumption DEF TypeOK
<1>2. CASE pool = <<>>
  <2>1. made < MaxAgents /\ made' = made + 1 /\ pool' = pool /\ Got = made + 1
        /\ owner' = [owner EXCEPT ![made + 1] = e]
    BY <1>2 DEF JOB_AGENT, Fresh, Got
  <2>2. pool' \in Seq(1..made')
    BY <1>1, <2>1, Wider DEF TypeOK
  <2>3. owner' \in [Agent -> Executor \cup {None}]
    BY <2>1 DEF TypeOK
  <2> QED
    BY <1>1, <2>1, <2>2, <2>3
<1>3. CASE pool # <<>>
  <2>1. made' = made /\ owner' = owner /\ pool' = SubSeq(pool, 1, Len(pool) - 1)
        /\ Got = pool[Len(pool)]
    BY <1>3 DEF JOB_AGENT, Got, Top, Rest
  <2>2. pool' \in Seq(1..made) /\ Got \in 1..made
    BY <1>3, <2>1, Popped DEF TypeOK
  <2> QED
    BY <2>1, <2>2 DEF TypeOK
<1> QED
  BY <1>2, <1>3

\* A session that goes leaves its agent in the pool.
LEMMA AgentReturned ==
  ASSUME TypeOK, NEW s \in Session, agent[s] # 0
  PROVE  Append(pool, agent[s]) \in Seq(1..made)
<1>1. agent[s] \in 1..made
  BY DEF TypeOK
<1> QED
  BY <1>1, Pushed DEF TypeOK

\* A session has an agent and an executor from the moment it is made.
Held ==
  \A s \in Session : at[s] # "none" => agent[s] # 0 /\ asked[s] # None
TypeInv == TypeOK /\ Held

LEMMA TypeInit == Init => TypeInv
<1> SUFFICES ASSUME Init PROVE TypeInv
  OBVIOUS
<1> USE DEF Init
<1>1. program \in {"proxy", "pairs"} /\ owned \in [Executor -> BOOLEAN] /\ fault = "none"
  BY ExecutorAssumption
<1>2. pool = <<>> /\ made = 0 /\ kept = 0 /\ made \in 0..MaxAgents
  BY ExecutorAssumption
<1>3. started = {} /\ stopped = {} /\ destroyed = {}
  OBVIOUS
<1>4. pc \in [Thread -> State] /\ owner \in [Agent -> Executor \cup {None}]
  BY DEF State
<1>5. /\ agent \in [Session -> 0..made] /\ asked \in [Session -> Executor \cup {None}]
      /\ at = [s \in Session |-> "none"]
  OBVIOUS
<1> QED
  BY <1>1, <1>2, <1>3, <1>4, <1>5 DEF TypeInv, TypeOK, Held, State

\* The executors change, and no session or agent.
LEMMA TypeExecutors ==
  ASSUME TypeInv, UNCHANGED <<program, agents, sessions, kept>>,
         owned' \in [Executor -> BOOLEAN],
         started' \subseteq Executor, stopped' \subseteq Executor, destroyed' \subseteq Executor,
         pc' \in [Thread -> State], fault' \in {"none", "self_join", "dangling_pair"}
  PROVE  TypeInv'
  BY DEF TypeInv, TypeOK, Held, State, agents, sessions

\* The sessions change as Serve, SessionCloses and PairDropped change them.
LEMMA TypeSessions ==
  ASSUME TypeInv, UNCHANGED <<program, started, stopped, pc, made, owner, agent, asked, kept>>,
         owned' \in [Executor -> BOOLEAN], destroyed' \subseteq Executor,
         fault' \in {"none", "self_join", "dangling_pair"},
         at' \in [Session -> {"none", "waiting", "orphan", "served", "reading", "gone"}],
         \A s \in Session : at[s] = "none" => at'[s] = "none",
         pool' = pool \/ \E s \in Session : at[s] # "none" /\ pool' = Append(pool, agent[s])
  PROVE  TypeInv'
<1>1. pool' \in Seq(1..made)
  BY AgentReturned DEF TypeInv, TypeOK, Held
<1>2. Held'
  BY DEF TypeInv, TypeOK, Held
<1> QED
  BY <1>1, <1>2 DEF TypeInv, TypeOK

LEMMA TypeStep == TypeInv /\ [Next]_vars => TypeInv'
<1> SUFFICES ASSUME TypeInv, [Next]_vars PROVE TypeInv'
  OBVIOUS
<1>t. TypeOK
  BY DEF TypeInv
<1>0. CASE UNCHANGED vars
  BY <1>0, <1>t, TypeExecutors DEF vars, executors, TypeOK, State
<1>1. CASE proxy_manager
  <2>1. made = 0 /\ made' = 1 /\ kept' = 1 /\ pool' = pool /\ fault' = fault
        /\ owner' = [owner EXCEPT ![1] = "first"]
    BY <1>1 DEF proxy_manager, KeepAcceptorAgent, Fresh
  <2>2. UNCHANGED <<program, owned, started, stopped, destroyed, pc, agent, asked, at>>
    BY <1>1 DEF proxy_manager, executors, sessions
  <2>3. made' \in 0..MaxAgents /\ kept' \in 0..made'
    BY <2>1, ExecutorAssumption
  <2>4. pool' \in Seq(1..made')
    BY <2>1, <1>t, Wider DEF TypeOK
  <2>5. owner' \in [Agent -> Executor \cup {None}]
    BY <2>1, <1>t DEF TypeOK, Executor
  <2>6. agent' \in [Session -> 0..made']
    BY <2>1, <2>2, <1>t DEF TypeOK
  <2>7. Held'
    BY <2>2 DEF TypeInv, Held
  <2> QED
    BY <1>t, <2>1, <2>2, <2>3, <2>4, <2>5, <2>6, <2>7 DEF TypeInv, TypeOK
<1>2. ASSUME NEW e \in Executor, start(e) PROVE TypeInv'
  <2>1. pc' \in [Thread -> State]
    BY <1>2, <1>t DEF start, TypeOK, State
  <2> QED
    BY <1>2, <1>t, <2>1, TypeExecutors DEF start, TypeOK
<1>3. ASSUME NEW e \in Executor, stop(e) PROVE TypeInv'
  <2>1. Stops(e) \subseteq Executor
    BY DEF Stops
  <2> QED
    BY <1>3, <1>t, <2>1, TypeExecutors DEF stop, TypeOK, State
<1>4. ASSUME NEW e \in Executor, PairDropped(e) PROVE TypeInv'
  <2>1. owned' = [owned EXCEPT ![e] = FALSE] /\ fault' = fault
        /\ UNCHANGED <<program, started, stopped, pc, made, owner, agent, asked, kept>>
    BY <1>4 DEF PairDropped
  <2>2. destroyed' \subseteq Executor
    BY <1>4, <1>t DEF PairDropped, Destroy, TypeOK
  <2>3. \E p \in {"reading", "gone"} :
          at' = [s \in Session |->
                   IF s \in {u \in Session : asked[u] = e /\ at[u] = "served"} THEN p
                   ELSE IF s \in {u \in Session : asked[u] = e /\ at[u] = "waiting"}
                        THEN "orphan" ELSE at[s]]
    BY <1>4 DEF PairDropped
  <2>4. /\ at' \in [Session -> {"none", "waiting", "orphan", "served", "reading", "gone"}]
        /\ \A s \in Session : at[s] = "none" => at'[s] = "none"
    BY <2>3, <1>t DEF TypeOK
  <2>5. pool' = pool \/ \E s \in Session : at[s] # "none" /\ pool' = Append(pool, agent[s])
    BY <1>4 DEF PairDropped
  <2> QED
    BY <1>t, <2>1, <2>2, <2>4, <2>5, TypeSessions DEF TypeOK
<1>5. ASSUME NEW t \in Thread, RunReturns(t) PROVE TypeInv'
  BY <1>5, <1>t, TypeExecutors DEF RunReturns, executors, TypeOK, State
<1>6. ASSUME NEW t \in Thread, beforeDestroyThread(t) PROVE TypeInv'
  <2>1. /\ pc' = [pc EXCEPT ![t] = "cleared"] /\ pool' = <<>>
        /\ UNCHANGED <<program, owned, started, stopped, made, agent, asked, at, kept, fault>>
    BY <1>6 DEF beforeDestroyThread, sessions
  <2>2. owner' = [a \in Agent |-> IF \E i \in 1..Len(pool) : pool[i] = a THEN None ELSE owner[a]]
    BY <1>6 DEF beforeDestroyThread
  <2>3. owner' \in [Agent -> Executor \cup {None}]
    BY <2>2, <1>t DEF TypeOK
  <2>4. destroyed' \subseteq Executor
    BY <1>6, <1>t DEF beforeDestroyThread, Destroy, TypeOK
  <2>5. pool' \in Seq(1..made')
    BY <2>1
  <2>6. Held'
    BY <2>1 DEF TypeInv, Held
  <2>7. pc' \in [Thread -> State]
    BY <2>1, <1>t DEF TypeOK, State
  <2> QED
    BY <1>t, <2>1, <2>3, <2>4, <2>5, <2>6, <2>7 DEF TypeInv, TypeOK, State
<1>7. ASSUME NEW t \in Thread, ThreadEnds(t) PROVE TypeInv'
  <2>1. /\ pc' = [pc EXCEPT ![t] = "gone"] /\ fault' \in {"none", "self_join"}
        /\ UNCHANGED <<program, owned, started, stopped, agents, sessions, kept>>
    BY <1>7 DEF ThreadEnds
  <2>2. destroyed' \subseteq Executor
    BY <1>7, <1>t DEF ThreadEnds, Destroy, TypeOK
  <2>3. pc' \in [Thread -> State]
    BY <2>1, <1>t DEF TypeOK, State
  <2> QED
    BY <1>t, <2>1, <2>2, <2>3, TypeExecutors DEF TypeOK
<1>8. ASSUME NEW t \in Thread, NEW s \in Session, Serve(t, s) PROVE TypeInv'
  <2>1. UNCHANGED <<program, owned, started, stopped, destroyed, pc, made, owner, agent, asked, kept>>
    BY <1>8 DEF Serve, executors
  <2>2. /\ at[s] # "none" /\ fault' \in {fault, "dangling_pair"}
        /\ \/ at' = at /\ pool' = pool
           \/ at' = [at EXCEPT ![s] = "served"] /\ pool' = pool
           \/ at' = [at EXCEPT ![s] = "gone"] /\ pool' = Append(pool, agent[s])
    BY <1>8 DEF Serve, Gone
  <2>3. /\ at' \in [Session -> {"none", "waiting", "orphan", "served", "reading", "gone"}]
        /\ \A u \in Session : at[u] = "none" => at'[u] = "none"
    BY <2>2, <1>t DEF TypeOK
  <2> QED
    BY <1>t, <2>1, <2>2, <2>3, TypeSessions DEF TypeOK
<1>9. ASSUME NEW t \in Thread, NEW s \in Session, SessionCloses(t, s) PROVE TypeInv'
  <2>1. UNCHANGED <<program, owned, started, stopped, destroyed, pc, made, owner, agent, asked, kept, fault>>
    BY <1>9 DEF SessionCloses, executors
  <2>2. at[s] # "none" /\ at' = [at EXCEPT ![s] = "gone"] /\ pool' = Append(pool, agent[s])
    BY <1>9 DEF SessionCloses, Gone
  <2>3. /\ at' \in [Session -> {"none", "waiting", "orphan", "served", "reading", "gone"}]
        /\ \A u \in Session : at[u] = "none" => at'[u] = "none"
    BY <2>2, <1>t DEF TypeOK
  <2> QED
    BY <1>t, <2>1, <2>2, <2>3, TypeSessions DEF TypeOK
<1>10. ASSUME NEW s \in Session, NEW e \in Executor, MakeSession(s, e) PROVE TypeInv'
  <2>1. /\ JOB_AGENT(e) /\ agent' = [agent EXCEPT ![s] = Got] /\ asked' = [asked EXCEPT ![s] = e]
        /\ at' = [at EXCEPT ![s] = "waiting"]
        /\ UNCHANGED <<program, owned, started, stopped, destroyed, pc, kept, fault>>
    BY <1>10 DEF MakeSession, executors
  <2>2. /\ made' \in 0..MaxAgents /\ made' \in {made, made + 1}
        /\ owner' \in [Agent -> Executor \cup {None}]
        /\ pool' \in Seq(1..made') /\ Got \in 1..made'
    BY <2>1, <1>t, AgentGot
  <2>3. made \in Nat /\ 0..made \subseteq 0..made' /\ Got \in 0..made' /\ Got # 0
    BY <2>2, <1>t DEF TypeOK
  <2>4. agent' \in [Session -> 0..made'] /\ kept' \in 0..made'
    BY <2>1, <2>3, <1>t DEF TypeOK
  <2>5. asked' \in [Session -> Executor \cup {None}]
    BY <2>1, <1>t DEF TypeOK
  <2>6. at' \in [Session -> {"none", "waiting", "orphan", "served", "reading", "gone"}]
    BY <2>1, <1>t DEF TypeOK
  <2>7. Held'
    BY <1>t, <2>1, <2>3 DEF TypeInv, TypeOK, Held, Executor, None
  <2> QED
    BY <1>t, <2>1, <2>2, <2>4, <2>5, <2>6, <2>7 DEF TypeInv, TypeOK
<1> QED
  BY <1>0, <1>1, <1>2, <1>3, <1>4, <1>5, <1>6, <1>7, <1>8, <1>9, <1>10 DEF Next, Run

LEMMA TypeInvAlways == Spec => []TypeInv
  BY TypeInit, TypeStep, PTL DEF Spec

(***************************************************************************)
(* Every variable keeps its type, for any number of sessions and agents:   *)
(* JOB_AGENT() never hands out an agent that was not made, and the pool    *)
(* never gets one.                                                         *)
(***************************************************************************)
THEOREM ExecutorTypeCorrect == Spec => []TypeOK
<1>1. TypeInv => TypeOK
  BY DEF TypeInv
<1> QED
  BY TypeInvAlways, <1>1, PTL

(***************************************************************************)
(* AgentOfAsked.  An agent has one place at a time: the proxy's acceptor,  *)
(* the pool, or one session.  And every agent outside the acceptor that is *)
(* not deleted belongs to an executor that some session has asked for.     *)
(***************************************************************************)
Pooled(a) == \E i \in 1..Len(pool) : pool[i] = a

PlaceInv ==
  /\ \A i, j \in 1..Len(pool) : pool[i] = pool[j] => i = j
  /\ \A s, u \in Session : InUse(s) /\ InUse(u) /\ agent[s] = agent[u] => s = u
  /\ \A s \in Session : InUse(s) => agent[s] # kept /\ owner[agent[s]] # None /\ ~Pooled(agent[s])
  /\ \A i \in 1..Len(pool) : pool[i] # kept /\ owner[pool[i]] # None
AskedInv ==
  /\ \A s \in Session : at[s] = "none" => asked[s] = None
  /\ \A a \in 1..made : a # kept /\ owner[a] # None => \E s \in Session : asked[s] = owner[a]
AgentInv == PlaceInv /\ AskedInv

LEMMA AgentInit == Init => AgentInv
  BY ExecutorAssumption DEF Init, AgentInv, PlaceInv, AskedInv, InUse, Pooled

\* Steps that touch none of it.
LEMMA AgentKept ==
  ASSUME AgentInv, UNCHANGED <<agents, sessions, kept>>
  PROVE  AgentInv'
  BY DEF AgentInv, PlaceInv, AskedInv, InUse, Pooled, agents, sessions

\* Sessions change, none of them becomes live, and one that is live may go and
\* leave its agent in the pool.
LEMMA AgentReleased ==
  ASSUME TypeInv, AgentInv,
         UNCHANGED <<made, owner, agent, asked, kept>>,
         \A u \in Session : (at[u] = "none" <=> at'[u] = "none") /\ (InUse(u)' => InUse(u)),
         \/ pool' = pool
         \/ \E s \in Session : InUse(s) /\ ~InUse(s)' /\ pool' = Append(pool, agent[s])
  PROVE  AgentInv'
<1>1. AskedInv'
  BY DEF AgentInv, AskedInv
<1>2. CASE pool' = pool
  BY <1>1, <1>2 DEF AgentInv, PlaceInv, Pooled
<1>3. ASSUME NEW s \in Session, InUse(s), ~InUse(s)', pool' = Append(pool, agent[s])
      PROVE  PlaceInv'
  <2>1. agent[s] \in 1..made /\ pool \in Seq(1..made)
    BY <1>3 DEF TypeInv, TypeOK, Held, InUse
  <2>2. /\ Len(pool') = Len(pool) + 1 /\ Len(pool) \in Nat
        /\ \A i \in 1..Len(pool) : pool'[i] = pool[i]
        /\ pool'[Len(pool) + 1] = agent[s]
    BY <1>3, <2>1, Pushed
  <2>3. /\ ~Pooled(agent[s]) /\ agent[s] # kept /\ owner[agent[s]] # None
    BY <1>3 DEF AgentInv, PlaceInv
  <2>4. \A i \in 1..Len(pool') : i \in 1..Len(pool) \/ i = Len(pool) + 1
    BY <2>2
  <2>5. \A i, j \in 1..Len(pool') : pool'[i] = pool'[j] => i = j
    BY <2>2, <2>3, <2>4 DEF AgentInv, PlaceInv, Pooled
  <2>6. \A i \in 1..Len(pool') : pool'[i] # kept /\ owner[pool'[i]] # None
    BY <2>2, <2>3, <2>4 DEF AgentInv, PlaceInv
  <2>7. \A u \in Session : InUse(u)' => InUse(u) /\ u # s
    BY <1>3
  <2>8. \A u \in Session : InUse(u)' => agent[u] # agent[s]
    BY <1>3, <2>7 DEF AgentInv, PlaceInv
  <2>9. \A u \in Session : InUse(u)' => ~Pooled(agent[u])'
    BY <2>2, <2>4, <2>7, <2>8 DEF AgentInv, PlaceInv, Pooled
  <2> QED
    BY <2>5, <2>6, <2>7, <2>9 DEF AgentInv, PlaceInv
<1> QED
  BY <1>1, <1>2, <1>3 DEF AgentInv

LEMMA AgentMade ==
  ASSUME TypeInv, AgentInv, NEW s \in Session, NEW e \in Executor, MakeSession(s, e)
  PROVE  AgentInv'
<1>t. TypeOK
  BY DEF TypeInv
<1>1. /\ JOB_AGENT(e) /\ at[s] = "none" /\ kept' = kept
      /\ agent' = [agent EXCEPT ![s] = Got] /\ asked' = [asked EXCEPT ![s] = e]
      /\ at' = [at EXCEPT ![s] = "waiting"]
  BY DEF MakeSession
<1>2. /\ agent'[s] = Got /\ asked'[s] = e /\ InUse(s)' /\ asked[s] = None
      /\ \A u \in Session \ {s} : agent'[u] = agent[u] /\ asked'[u] = asked[u]
                                  /\ at'[u] = at[u] /\ (InUse(u)' <=> InUse(u))
  BY <1>1, <1>t DEF TypeOK, InUse, AgentInv, AskedInv
<1>3. e # None /\ made \in Nat /\ kept \in 0..made /\ pool \in Seq(1..made)
      /\ \A u \in Session : InUse(u) => agent[u] \in 1..made
  BY <1>t DEF Executor, None, TypeOK, TypeInv, Held, InUse
<1>4. CASE pool = <<>>
  <2>1. /\ made' = made + 1 /\ Got = made + 1 /\ pool' = pool /\ made < MaxAgents
        /\ owner' = [owner EXCEPT ![made + 1] = e]
    BY <1>1, <1>4 DEF JOB_AGENT, Fresh, Got
  <2>2. made + 1 \in Agent /\ owner'[made + 1] = e
        /\ \A a \in 1..made : owner'[a] = owner[a]
    BY <2>1, <1>3, <1>t, ExecutorAssumption DEF Agent, TypeOK
  <2>3. Len(pool') = 0
    BY <2>1, <1>4
  <2>4. PlaceInv'
    <3>1. \A u \in Session \ {s} : InUse(u) => agent[u] # Got
      BY <2>1, <1>3
    <3>2. \A u, v \in Session : InUse(u)' /\ InUse(v)' /\ agent'[u] = agent'[v] => u = v
      BY <3>1, <1>2 DEF AgentInv, PlaceInv
    <3>3. Got # kept
      BY <2>1, <1>3
    <3>4. \A u \in Session \ {s} : InUse(u) => owner'[agent[u]] # None /\ agent[u] # kept
      BY <2>2, <1>3 DEF AgentInv, PlaceInv
    <3> QED
      BY <3>2, <3>3, <3>4, <1>1, <1>2, <1>3, <2>1, <2>2, <2>3 DEF PlaceInv, Pooled
  <2>5. AskedInv'
    <3>1. \A a \in 1..made' : a \in 1..made \/ a = made + 1
      BY <2>1, <1>3
    <3>2. ASSUME NEW a \in 1..made, a # kept, owner[a] # None
          PROVE  \E u \in Session : asked'[u] = owner'[a]
      <4>1. PICK u \in Session : asked[u] = owner[a]
        BY <3>2 DEF AgentInv, AskedInv
      <4>2. u # s
        BY <4>1, <3>2, <1>2
      <4> QED
        BY <4>1, <4>2, <1>2, <2>2
    <3> QED
      BY <3>1, <3>2, <1>1, <1>2, <2>1, <2>2 DEF AskedInv, AgentInv, InUse
  <2> QED
    BY <2>4, <2>5 DEF AgentInv
<1>5. CASE pool # <<>>
  <2>1. /\ made' = made /\ owner' = owner /\ Got = pool[Len(pool)]
        /\ pool' = SubSeq(pool, 1, Len(pool) - 1)
    BY <1>1, <1>5 DEF JOB_AGENT, Got, Top, Rest
  <2>2. /\ Len(pool') = Len(pool) - 1 /\ Len(pool) \in Nat \ {0}
        /\ \A i \in 1..Len(pool) - 1 : pool'[i] = pool[i]
    BY <2>1, <1>3, <1>5, Popped
  <2>3. Len(pool) \in 1..Len(pool) /\ 1..Len(pool') \subseteq 1..Len(pool)
        /\ \A i \in 1..Len(pool') : i # Len(pool) /\ pool'[i] = pool[i]
    BY <2>2
  <2>4. Got # kept /\ owner[Got] # None /\ Pooled(Got)
    BY <2>1, <2>3 DEF AgentInv, PlaceInv, Pooled
  <2>5. \A i \in 1..Len(pool') : pool'[i] # Got
    BY <2>1, <2>3 DEF AgentInv, PlaceInv
  <2>6. \A u \in Session : InUse(u) => agent[u] # Got
    BY <2>4 DEF AgentInv, PlaceInv
  <2>7. \A u, v \in Session : InUse(u)' /\ InUse(v)' /\ agent'[u] = agent'[v] => u = v
    BY <2>6, <1>2 DEF AgentInv, PlaceInv
  <2>8. \A u \in Session \ {s} : InUse(u) => \A i \in 1..Len(pool') : pool'[i] # agent[u]
    BY <2>3 DEF AgentInv, PlaceInv, Pooled
  <2>9. \A i \in 1..Len(pool') : pool'[i] # kept /\ owner[pool'[i]] # None
    BY <2>3 DEF AgentInv, PlaceInv
  <2>10. \A i, j \in 1..Len(pool') : pool'[i] = pool'[j] => i = j
    BY <2>3 DEF AgentInv, PlaceInv
  <2>11. \A u \in Session : InUse(u)' => \A i \in 1..Len(pool') : pool'[i] # agent'[u]
    BY <2>5, <2>8, <1>2
  <2>12. PlaceInv'
    BY <2>1, <2>4, <2>7, <2>9, <2>10, <2>11, <1>1, <1>2 DEF AgentInv, PlaceInv, Pooled
  <2>13. AskedInv'
    <3>1. ASSUME NEW a \in 1..made, a # kept, owner[a] # None
          PROVE  \E u \in Session : asked'[u] = owner[a]
      <4>1. PICK u \in Session : asked[u] = owner[a]
        BY <3>1 DEF AgentInv, AskedInv
      <4>2. u # s
        BY <4>1, <3>1, <1>2
      <4> QED
        BY <4>1, <4>2, <1>2
    <3> QED
      BY <3>1, <1>1, <1>2, <2>1 DEF AskedInv, AgentInv, InUse
  <2> QED
    BY <2>12, <2>13 DEF AgentInv
<1> QED
  BY <1>4, <1>5

LEMMA AgentStep == TypeInv /\ AgentInv /\ [Next]_vars => AgentInv'
<1> SUFFICES ASSUME TypeInv, AgentInv, [Next]_vars PROVE AgentInv'
  OBVIOUS
<1>t. TypeOK
  BY DEF TypeInv
<1>0. CASE UNCHANGED <<agents, sessions, kept>>
  BY <1>0, AgentKept
<1>1. CASE proxy_manager
  <2>1. made = 0 /\ made' = 1 /\ kept' = 1 /\ pool' = pool /\ UNCHANGED <<agent, asked, at>>
    BY <1>1 DEF proxy_manager, KeepAcceptorAgent, Fresh, sessions
  <2>2. pool \in Seq(1..0) /\ \A s \in Session : ~InUse(s)
    BY <2>1, <1>t DEF TypeOK, TypeInv, Held, InUse
  <2>3. Len(pool) = 0
    BY <2>2
  <2>4. PlaceInv'
    BY <2>1, <2>2, <2>3 DEF PlaceInv, InUse, Pooled
  <2>5. AskedInv'
    BY <2>1 DEF AgentInv, AskedInv
  <2> QED
    BY <2>4, <2>5 DEF AgentInv
<1>2. ASSUME NEW t \in Thread, beforeDestroyThread(t) PROVE AgentInv'
  <2>1. /\ pool' = <<>> /\ UNCHANGED <<made, agent, asked, at, kept>>
        /\ owner' = [a \in Agent |-> IF \E i \in 1..Len(pool) : pool[i] = a THEN None ELSE owner[a]]
    BY <1>2 DEF beforeDestroyThread, sessions
  <2>2. made \in Nat /\ MaxAgents \in Nat /\ made <= MaxAgents
    BY <1>t, ExecutorAssumption DEF TypeOK
  <2>3. \A s \in Session : InUse(s) => agent[s] \in Agent
    BY <2>2, <1>t DEF TypeInv, TypeOK, Held, InUse, Agent
  <2>4. \A s \in Session : InUse(s) => owner'[agent[s]] = owner[agent[s]]
    BY <2>1, <2>3 DEF AgentInv, PlaceInv, Pooled
  <2>5. PlaceInv'
    BY <2>1, <2>4 DEF AgentInv, PlaceInv, InUse, Pooled
  <2>6. \A a \in 1..made : a \in Agent
    BY <2>2 DEF Agent
  <2>7. AskedInv'
    BY <2>1, <2>6 DEF AgentInv, AskedInv
  <2> QED
    BY <2>5, <2>7 DEF AgentInv
<1>3. ASSUME NEW t \in Thread, NEW s \in Session, Serve(t, s) PROVE AgentInv'
  <2>1. UNCHANGED <<made, owner, agent, asked, kept>>
    BY <1>3 DEF Serve
  <2>2. /\ InUse(s)
        /\ \/ at' = at /\ pool' = pool
           \/ at' = [at EXCEPT ![s] = "served"] /\ pool' = pool
           \/ at' = [at EXCEPT ![s] = "gone"] /\ pool' = Append(pool, agent[s])
    BY <1>3 DEF Serve, Gone, InUse
  <2>3. \A u \in Session : (at[u] = "none" <=> at'[u] = "none") /\ (InUse(u)' => InUse(u))
    BY <2>2, <1>t DEF TypeOK, InUse
  <2>4. pool' = pool \/ ~InUse(s)'
    BY <2>2, <1>t DEF TypeOK, InUse
  <2>5. pool' = pool \/ (InUse(s) /\ ~InUse(s)' /\ pool' = Append(pool, agent[s]))
    BY <2>2, <2>4
  <2> QED
    BY <2>1, <2>3, <2>5, AgentReleased
<1>4. ASSUME NEW t \in Thread, NEW s \in Session, SessionCloses(t, s) PROVE AgentInv'
  <2>1. UNCHANGED <<made, owner, agent, asked, kept>>
    BY <1>4 DEF SessionCloses
  <2>2. InUse(s) /\ at' = [at EXCEPT ![s] = "gone"] /\ pool' = Append(pool, agent[s])
    BY <1>4 DEF SessionCloses, Gone, InUse
  <2>3. /\ ~InUse(s)'
        /\ \A u \in Session : (at[u] = "none" <=> at'[u] = "none") /\ (InUse(u)' => InUse(u))
    BY <2>2, <1>t DEF TypeOK, InUse
  <2> QED
    BY <2>1, <2>2, <2>3, AgentReleased
<1>5. ASSUME NEW e \in Executor, PairDropped(e) PROVE AgentInv'
  <2>1. UNCHANGED <<made, owner, agent, asked, kept>>
    BY <1>5 DEF PairDropped
  <2>2. \E p \in {"reading", "gone"} :
          /\ at' = [s \in Session |->
                     IF s \in {u \in Session : asked[u] = e /\ at[u] = "served"} THEN p
                     ELSE IF s \in {u \in Session : asked[u] = e /\ at[u] = "waiting"}
                          THEN "orphan" ELSE at[s]]
          /\ \/ pool' = pool
             \/ /\ p = "gone"
                /\ \E s \in Session : /\ asked[s] = e /\ at[s] = "served"
                                      /\ pool' = Append(pool, agent[s])
    BY <1>5 DEF PairDropped
  <2>3. \A u \in Session : (at[u] = "none" <=> at'[u] = "none") /\ (InUse(u)' => InUse(u))
    BY <2>2 DEF InUse
  <2>4. \/ pool' = pool
        \/ \E s \in Session : InUse(s) /\ ~InUse(s)' /\ pool' = Append(pool, agent[s])
    BY <2>2 DEF InUse
  <2> QED
    BY <2>1, <2>3, <2>4, AgentReleased
<1>6. ASSUME NEW s \in Session, NEW e \in Executor, MakeSession(s, e) PROVE AgentInv'
  BY <1>6, AgentMade
<1>7. ASSUME NEW t \in Thread, RunReturns(t) \/ ThreadEnds(t) PROVE AgentInv'
  BY <1>7, <1>0 DEF RunReturns, ThreadEnds
<1>8. ASSUME NEW e \in Executor, start(e) \/ stop(e) PROVE AgentInv'
  BY <1>8, <1>0 DEF start, stop
<1>9. CASE UNCHANGED vars
  BY <1>9, <1>0 DEF vars
<1> QED
  BY <1>1, <1>2, <1>3, <1>4, <1>5, <1>6, <1>7, <1>8, <1>9 DEF Next, Run

(***************************************************************************)
(* Where all sessions ask for one executor, as in the proxy, a pooled      *)
(* agent is as good as a new one: its owner is that executor, since the    *)
(* acceptor never gives its own agent back and nobody else asked.          *)
(***************************************************************************)
THEOREM PooledAgentsFit == Spec => []AgentOfAsked
<1>1. Spec => []AgentInv
  BY TypeInvAlways, AgentInit, AgentStep, PTL DEF Spec
<1>2. ASSUME TypeInv, AgentInv,
             \A s, u \in Session : asked[s] # None /\ asked[u] # None => asked[s] = asked[u],
             NEW s \in Session, at[s] \notin {"none", "gone"}
      PROVE  owner[agent[s]] = asked[s]
  <2>1. agent[s] \in 1..made /\ asked[s] # None
    BY <1>2 DEF TypeInv, TypeOK, Held
  <2>2. agent[s] # kept /\ owner[agent[s]] # None
    BY <1>2 DEF AgentInv, PlaceInv, InUse
  <2>3. PICK u \in Session : asked[u] = owner[agent[s]]
    BY <1>2, <2>1, <2>2 DEF AgentInv, AskedInv
  <2> QED
    BY <1>2, <2>1, <2>2, <2>3
<1>3. TypeInv /\ AgentInv => AgentOfAsked
  BY <1>2 DEF AgentOfAsked
<1> QED
  BY <1>1, <1>3, TypeInvAlways, PTL

(***************************************************************************)
(* AgentsOutliveUse.  An executor that is destroyed is owned by nobody and *)
(* by no agent, and nobody can make an agent for it any more.              *)
(***************************************************************************)
Forgotten(e) == ~owned[e] /\ \A a \in Agent : owner[a] # e
DestroyedInv ==
  /\ program = "proxy" => \A e \in Executor : owned[e]
  /\ \A e \in destroyed : Forgotten(e)

LEMMA DestroyedInit == Init => DestroyedInv
  BY DEF Init, DestroyedInv

\* A step that leaves what is destroyed forgotten.
LEMMA DestroyedKept ==
  ASSUME DestroyedInv, NEW p, Destroy(owned', p, owner') \/ destroyed' = destroyed,
         program' = program, program = "proxy" => owned' = owned,
         \A e \in destroyed : Forgotten(e)'
  PROVE  DestroyedInv'
  BY DEF DestroyedInv, Destroy, Referenced, Forgotten

LEMMA DestroyedStep == TypeInv /\ DestroyedInv /\ [Next]_vars => DestroyedInv'
<1> SUFFICES ASSUME TypeInv, DestroyedInv, [Next]_vars PROVE DestroyedInv'
  OBVIOUS
<1>t. TypeOK /\ destroyed \subseteq Executor
  BY DEF TypeInv, TypeOK
<1>0. CASE UNCHANGED <<program, owned, destroyed, owner>>
  BY <1>0 DEF DestroyedInv, Forgotten
<1>1. CASE proxy_manager
  <2>1. UNCHANGED <<program, owned, destroyed>> /\ program = "proxy"
    BY <1>1 DEF proxy_manager, executors
  <2>2. destroyed = {}
    BY <2>1, <1>t DEF DestroyedInv, Forgotten
  <2> QED
    BY <2>1, <2>2 DEF DestroyedInv
<1>2. ASSUME NEW e \in Executor, PairDropped(e) PROVE DestroyedInv'
  <2>1. /\ program = "pairs" /\ owned' = [owned EXCEPT ![e] = FALSE]
        /\ UNCHANGED <<program, owner>> /\ Destroy(owned', pc, owner')
    BY <1>2 DEF PairDropped
  <2>2. \A d \in destroyed : Forgotten(d)'
    BY <2>1, <1>t DEF DestroyedInv, Forgotten, TypeOK
  <2> QED
    BY <2>1, <2>2, DestroyedKept
<1>3. ASSUME NEW t \in Thread, beforeDestroyThread(t) PROVE DestroyedInv'
  <2>1. /\ UNCHANGED <<program, owned>> /\ Destroy(owned', pc, owner')
        /\ owner' = [a \in Agent |-> IF \E i \in 1..Len(pool) : pool[i] = a THEN None ELSE owner[a]]
    BY <1>3 DEF beforeDestroyThread
  <2>2. \A d \in destroyed : Forgotten(d)'
    BY <2>1, <1>t DEF DestroyedInv, Forgotten, Executor, None
  <2> QED
    BY <2>1, <2>2, DestroyedKept
<1>4. ASSUME NEW t \in Thread, ThreadEnds(t) PROVE DestroyedInv'
  <2>1. UNCHANGED <<program, owned, owner>> /\ Destroy(owned', pc', owner')
    BY <1>4 DEF ThreadEnds, agents
  <2>2. \A d \in destroyed : Forgotten(d)'
    BY <2>1 DEF DestroyedInv, Forgotten
  <2> QED
    BY <2>1, <2>2, DestroyedKept
<1>5. ASSUME NEW s \in Session, NEW e \in Executor, MakeSession(s, e) PROVE DestroyedInv'
  <2>1. UNCHANGED <<program, owned, destroyed>> /\ JOB_AGENT(e) /\ MayMake(e)
    BY <1>5 DEF MakeSession, executors
  <2>2. owned[e]
    BY <2>1, <1>t DEF MayMake, DestroyedInv, TypeOK
  <2>3. owner' = owner \/ owner' = [owner EXCEPT ![Fresh] = e]
    BY <2>1 DEF JOB_AGENT
  <2>4. \A d \in destroyed : Forgotten(d)'
    BY <2>1, <2>2, <2>3, <1>t DEF TypeOK, DestroyedInv, Forgotten
  <2> QED
    BY <2>1, <2>4, DestroyedKept
<1>6. ASSUME NEW e \in Executor, start(e) \/ stop(e) PROVE DestroyedInv'
  BY <1>6, <1>0 DEF start, stop, agents
<1>7. ASSUME NEW t \in Thread, NEW s \in Session, Serve(t, s) \/ SessionCloses(t, s)
      PROVE  DestroyedInv'
  BY <1>7, <1>0 DEF Serve, SessionCloses, executors
<1>8. ASSUME NEW t \in Thread, RunReturns(t) PROVE DestroyedInv'
  BY <1>8, <1>0 DEF RunReturns, executors, agents
<1>9. CASE UNCHANGED vars
  BY <1>9, <1>0 DEF vars, executors, agents
<1> QED
  BY <1>1, <1>2, <1>3, <1>4, <1>5, <1>6, <1>7, <1>8, <1>9 DEF Next, Run

(***************************************************************************)
(* An agent that a session uses is nobody else's, is not deleted by a      *)
(* thread that ends (which deletes what is pooled), and keeps its executor *)
(* from being destroyed, whichever pair, thread or pool lets go of it.     *)
(***************************************************************************)
THEOREM UsedAgentsLive == Spec => []AgentsOutliveUse
<1>1. Spec => []AgentInv
  BY TypeInvAlways, AgentInit, AgentStep, PTL DEF Spec
<1>2. Spec => []DestroyedInv
  BY TypeInvAlways, DestroyedInit, DestroyedStep, PTL DEF Spec
<1>3. ASSUME TypeInv, AgentInv, DestroyedInv, NEW s \in Session, InUse(s)
      PROVE  agent[s] # kept /\ owner[agent[s]] \in Executor \ destroyed
  <2>1. agent[s] \in Agent
    BY <1>3, ExecutorAssumption DEF TypeInv, TypeOK, Held, InUse, Agent
  <2>2. agent[s] # kept /\ owner[agent[s]] # None
    BY <1>3 DEF AgentInv, PlaceInv
  <2>3. owner[agent[s]] \in Executor
    BY <1>3, <2>1, <2>2 DEF TypeInv, TypeOK
  <2> QED
    BY <1>3, <2>1, <2>2, <2>3 DEF DestroyedInv, Forgotten
<1>4. TypeInv /\ AgentInv /\ DestroyedInv => AgentsOutliveUse
  BY <1>3 DEF AgentsOutliveUse, AgentInv, PlaceInv
<1> QED
  BY <1>1, <1>2, <1>4, TypeInvAlways, PTL

=============================================================================
