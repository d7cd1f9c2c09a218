-------------------------- MODULE ProxyManagerProofs --------------------------
(***************************************************************************)
(* Theorems about ProxyManager, for any number of sessions, uids (repeated *)
(* or not) and game servers: TypeOK, ServersHaveServerLogic, LogicOwned    *)
(* and PromotedAsked.                                                      *)
(***************************************************************************)
EXTENDS ProxyManager, TLAPS

Where == {"idle", "move", "trans", "insert", "return", "verified", "echo", "refuse", "kick"}
Moving == {"trans", "insert", "return"}

(***************************************************************************)
(* TypeOK, and what is known of sessions that are not made yet and of      *)
(* moves that are under way.                                               *)
(***************************************************************************)
Range ==
  /\ \A s \in Session : s > created => logic[s] = None /\ pc[s] = "idle"
  /\ \A s \in Session : s <= created => uid[s] \in Uid
  /\ \A s \in Session : found[s] <= created
  /\ \A u \in Uid : unmanaged[u] <= created /\ server[u] <= created
  /\ acceptor = "waiting" => created \in Session
MovesHaveFound ==
  \A s \in Session : pc[s] \in Moving => found[s] \in Session /\ origin[s] \in Object
TypeInv == TypeOK /\ Range /\ MovesHaveFound

LEMMA Numbers ==
  /\ None \notin Session /\ None \notin Object /\ None \notin Uid
  /\ ServerLogic \notin Object /\ ServerLogic # None
  /\ \A s \in Session : s \in Nat /\ s >= 1 /\ s <= MaxSessions
  /\ MaxSessions \in Nat
BY ProxyAssumption DEF None, Session, Object, Uid, ServerLogic

LEMMA TypeInit == Init => TypeInv
<1> SUFFICES ASSUME Init PROVE TypeInv
  OBVIOUS
<1> USE DEF Init
<1>1. created = 0 /\ created \in 0..MaxSessions /\ acceptor = "post"
  BY ProxyAssumption
<1>2. /\ uid = [s \in Session |-> None] /\ logic = [s \in Session |-> None]
      /\ found = [s \in Session |-> None] /\ origin = [s \in Session |-> None]
      /\ this = [s \in Session |-> None] /\ pc = [s \in Session |-> "idle"]
      /\ unmanaged = [u \in Uid |-> None] /\ server = [u \in Uid |-> None]
  OBVIOUS
<1>3. Range
  BY <1>1, <1>2, Numbers DEF Range, None
<1>4. MovesHaveFound
  BY <1>2 DEF MovesHaveFound, Moving
<1>5. /\ conn \in [Session -> {"none", "open", "closed"}]
      /\ auth \in [Object -> {"before", "succ", "failed"}]
      /\ holder \in [Object -> Session \cup {None}] /\ pool \subseteq Object
  OBVIOUS
<1>6. /\ asked \in [Session -> {"nothing", "client", "other"} \cup ServerIds]
      /\ answer \in [Session -> {"none", "ok", "refused"}]
  OBVIOUS
<1>7. TypeOK
  BY <1>1, <1>2, <1>5, <1>6 DEF TypeOK
<1> QED
  BY <1>3, <1>4, <1>7 DEF TypeInv

\* A session that does not stand still is one of those made.
LEMMA Busy ==
  ASSUME TypeInv, NEW s \in Session, pc[s] # "idle" \/ logic[s] # None
  PROVE  s <= created /\ uid[s] \in Uid
<1>1. s \in Nat /\ created \in Nat
  BY Numbers DEF TypeInv, TypeOK
<1>2. s <= created
  BY <1>1 DEF TypeInv, Range
<1> QED
  BY <1>2 DEF TypeInv, Range

\* Steps that neither make a session nor move one.
LEMMA TypeSteps ==
  ASSUME TypeInv, UNCHANGED <<created, uid, found, origin, unmanaged, server>>,
         acceptor' \in {"post", "waiting", "stopped"},
         acceptor' = "waiting" => acceptor = "waiting",
         conn' \in [Session -> {"none", "open", "closed"}],
         logic' \in [Session -> Object \cup {None, ServerLogic}],
         \A s \in Session : logic[s] = None => logic'[s] = None,
         auth' \in [Object -> {"before", "succ", "failed"}],
         holder' = holder, pool' \subseteq Object,
         NEW s \in Session, NEW w \in Where, w \in Moving => pc[s] \in Moving,
         pc' = pc \/ ((pc[s] # "idle" \/ w = "idle" \/ logic[s] # None) /\ pc' = [pc EXCEPT ![s] = w]),
         this' \in [Session -> Object \cup {None}],
         asked' \in [Session -> {"nothing", "client", "other"} \cup ServerIds],
         answer' \in [Session -> {"none", "ok", "refused"}]
  PROVE  TypeInv'
<1>t. pc \in [Session -> Where]
  BY DEF TypeInv, TypeOK, Where
<1>1. pc' \in [Session -> Where]
  BY <1>t
<1>2. TypeOK'
  BY <1>1 DEF TypeInv, TypeOK, Where
<1>3. \A t \in Session : t > created => pc'[t] = "idle"
  <2>1. ASSUME NEW t \in Session, t > created PROVE pc'[t] = "idle"
    <3>1. pc[t] = "idle" /\ logic[t] = None
      BY <2>1 DEF TypeInv, Range
    <3> QED
      BY <3>1, <1>t
  <2> QED
    BY <2>1
<1>4. Range'
  BY <1>3 DEF TypeInv, Range
<1>5. MovesHaveFound'
  BY <1>t DEF TypeInv, MovesHaveFound
<1> QED
  BY <1>2, <1>4, <1>5 DEF TypeInv

\* A session is made.
LEMMA TypeAccept ==
  ASSUME TypeInv, accept_a_session
  PROVE  TypeInv'
<1>1. PICK u \in Uid, o \in Available :
        /\ uid' = [uid EXCEPT ![created + 1] = u]
        /\ pool' = pool \ {o} /\ logic' = [logic EXCEPT ![created + 1] = o]
        /\ auth' = [auth EXCEPT ![o] = "before"]
        /\ holder' = [holder EXCEPT ![o] = created + 1]
  BY DEF accept_a_session
<1>2. /\ created < MaxSessions /\ created' = created + 1 /\ acceptor' = "waiting"
      /\ UNCHANGED <<conn, unmanaged, server, pc, this, found, origin, asked, answer>>
  BY DEF accept_a_session, maps, locals, history
<1>3. o \in Object
  BY DEF Available, TypeInv, TypeOK
<1>4. created \in 0..MaxSessions /\ created + 1 \in Session /\ created' \in 0..MaxSessions
  BY <1>2, Numbers DEF TypeInv, TypeOK, Session
<1>5. /\ uid' \in [Session -> Uid \cup {None}]
      /\ logic' \in [Session -> Object \cup {None, ServerLogic}]
      /\ auth' \in [Object -> {"before", "succ", "failed"}]
      /\ holder' \in [Object -> Session \cup {None}] /\ pool' \subseteq Object
  BY <1>1, <1>3, <1>4 DEF TypeInv, TypeOK
<1>6. TypeOK'
  BY <1>2, <1>4, <1>5 DEF TypeInv, TypeOK
<1>7. Range'
  <2>1. ASSUME NEW s \in Session, s > created' PROVE logic'[s] = None /\ pc'[s] = "idle"
    <3>1. s > created /\ s # created + 1
      BY <2>1, <1>2, <1>4, Numbers
    <3>2. logic'[s] = logic[s]
      BY <3>1, <1>1, <1>4 DEF TypeInv, TypeOK
    <3> QED
      BY <3>1, <3>2, <1>2 DEF TypeInv, Range
  <2>2. ASSUME NEW s \in Session, s <= created' PROVE uid'[s] \in Uid
    <3>1. s <= created \/ s = created + 1
      BY <2>2, <1>2, <1>4, Numbers
    <3> QED
      BY <3>1, <1>1, <1>4 DEF TypeInv, TypeOK, Range
  <2>3. \A n \in Session \cup {None} : n <= created => n <= created'
    BY <1>2, <1>4, Numbers DEF None
  <2>4. /\ \A s \in Session : found'[s] <= created'
        /\ \A v \in Uid : unmanaged'[v] <= created' /\ server'[v] <= created'
    BY <2>3, <1>2 DEF TypeInv, TypeOK, Range
  <2>5. created' \in Session
    BY <1>2, <1>4
  <2> QED
    BY <2>1, <2>2, <2>4, <2>5 DEF Range
<1>8. MovesHaveFound'
  BY <1>2 DEF TypeInv, MovesHaveFound
<1> QED
  BY <1>6, <1>7, <1>8 DEF TypeInv

LEMMA TypeStep == TypeInv /\ [Next]_vars => TypeInv'
<1> SUFFICES ASSUME TypeInv, [Next]_vars PROVE TypeInv'
  OBVIOUS
<1>t. /\ TypeOK /\ Range /\ MovesHaveFound /\ pc \in [Session -> Where]
  BY DEF TypeInv, TypeOK, Where
<1>0. CASE UNCHANGED <<created, uid, conn, logic, auth, holder, pool, unmanaged, server,
                       pc, this, found, origin, asked, answer>>
           /\ acceptor' \in {"post", "waiting", "stopped"}
           /\ (acceptor' = "waiting" => acceptor = "waiting")
  BY <1>0 DEF TypeInv, TypeOK, Range, MovesHaveFound
<1>1. CASE accept_a_session
  BY <1>1, TypeAccept
<1>2. CASE Accepted
  <2>1. /\ acceptor = "waiting" /\ acceptor' = "post"
        /\ unmanaged' = insert(unmanaged, uid[created], created)
        /\ conn' = [conn EXCEPT ![created] = "open"]
        /\ UNCHANGED <<created, uid, logic, auth, holder, pool, server, pc, this, found, origin,
                       asked, answer>>
    BY <1>2 DEF Accepted, objects, locals, history
  <2>2. created \in Session /\ uid[created] \in Uid /\ created <= created
    BY <2>1, <1>t, Numbers DEF Range
  <2>3. unmanaged' \in [Uid -> Session \cup {None}]
        /\ \A u \in Uid : unmanaged'[u] \in {unmanaged[u], created}
    BY <2>1, <2>2, <1>t DEF TypeOK, insert
  <2>4. \A u \in Uid : unmanaged'[u] <= created
    BY <2>2, <2>3, <1>t DEF Range
  <2>5. conn' \in [Session -> {"none", "open", "closed"}]
    BY <2>1, <1>t DEF TypeOK
  <2> QED
    BY <2>1, <2>3, <2>4, <2>5, <1>t DEF TypeInv, TypeOK, Range, MovesHaveFound
<1>3. CASE stop_proxy \/ clean_up_closed_session \/ UNCHANGED vars
  BY <1>3, <1>0, <1>t
     DEF stop_proxy, clean_up_closed_session, complex_operation, vars, manager, objects, maps,
         locals, history, TypeOK
<1>4. ASSUME NEW s \in Session, verify_authentication(s) PROVE TypeInv'
  <2>1. /\ logic[s] \in Object /\ this' = [this EXCEPT ![s] = logic[s]]
        /\ UNCHANGED <<acceptor, created, uid, conn, logic, auth, holder, pool, unmanaged, server,
                       found, origin, answer>>
    BY <1>4 DEF verify_authentication, IsDefault, manager, objects, maps
  <2>2. PICK type \in {"client", "other"} \cup ServerIds, w \in {"move", "refuse"} :
          asked' = [asked EXCEPT ![s] = type] /\ pc' = [pc EXCEPT ![s] = w]
    BY <1>4 DEF verify_authentication, At
  <2>3. asked' \in [Session -> {"nothing", "client", "other"} \cup ServerIds]
        /\ this' \in [Session -> Object \cup {None}]
    BY <2>1, <2>2, <1>t DEF TypeOK
  <2>4. logic[s] # None /\ w \in Where /\ w \notin Moving
    BY <2>1, <2>2, Numbers DEF Where, Moving
  <2> QED
    BY <2>1, <2>2, <2>3, <2>4, <1>t, TypeSteps DEF TypeOK
<1>5. ASSUME NEW s \in Session, FindUnmanaged(s) PROVE TypeInv'
  <2>1. /\ pc[s] = "move"
        /\ UNCHANGED <<acceptor, created, uid, conn, logic, auth, holder, pool, server, this,
                       asked, answer>>
    BY <1>5 DEF FindUnmanaged, manager, objects, history
  <2>2. uid[s] \in Uid
    BY <2>1, Busy
  <2>3. unmanaged' = unmanaged
    BY <1>5 DEF FindUnmanaged, erase, contains_key
  <2>4. \/ /\ pc' = [pc EXCEPT ![s] = "verified"] /\ found' = found /\ origin' = origin
        \/ /\ unmanaged[uid[s]] # None /\ logic[unmanaged[uid[s]]] \in Object
           /\ found' = [found EXCEPT ![s] = unmanaged[uid[s]]]
           /\ origin' = [origin EXCEPT ![s] = logic[unmanaged[uid[s]]]]
           /\ pc' = [pc EXCEPT ![s] = "trans"]
    BY <1>5 DEF FindUnmanaged, At, IsDefault
  <2>5. CASE pc' = [pc EXCEPT ![s] = "verified"] /\ found' = found /\ origin' = origin
    BY <2>1, <2>3, <2>5, <1>t, TypeSteps DEF TypeOK, Where, Moving
  <2>6. ASSUME /\ unmanaged[uid[s]] # None /\ logic[unmanaged[uid[s]]] \in Object
               /\ found' = [found EXCEPT ![s] = unmanaged[uid[s]]]
               /\ origin' = [origin EXCEPT ![s] = logic[unmanaged[uid[s]]]]
               /\ pc' = [pc EXCEPT ![s] = "trans"]
        PROVE  TypeInv'
    <3>1. unmanaged[uid[s]] \in Session /\ unmanaged[uid[s]] <= created
      BY <2>2, <2>6, <1>t DEF TypeOK, Range
    <3>2. /\ found' \in [Session -> Session \cup {None}]
          /\ origin' \in [Session -> Object \cup {None}]
          /\ pc' \in [Session -> Where]
          /\ found'[s] = unmanaged[uid[s]] /\ origin'[s] \in Object
          /\ \A t \in Session \ {s} : found'[t] = found[t] /\ origin'[t] = origin[t] /\ pc'[t] = pc[t]
      BY <2>6, <3>1, <1>t DEF TypeOK, Where
    <3>3. TypeOK'
      BY <2>1, <2>3, <3>2, <1>t DEF TypeOK, Where
    <3>4. ~(s > created)
      BY <2>1, Busy, Numbers, <1>t DEF TypeOK
    <3>5. Range'
      BY <2>1, <2>3, <3>1, <3>2, <3>4, <1>t DEF Range
    <3>6. MovesHaveFound'
      BY <3>1, <3>2, <1>t DEF MovesHaveFound
    <3> QED
      BY <3>3, <3>5, <3>6 DEF TypeInv
  <2> QED
    BY <2>4, <2>5, <2>6
<1>6. ASSUME NEW s \in Session, ModifyLogic(s) PROVE TypeInv'
  <2>1. /\ pc[s] = "trans" /\ pc' = [pc EXCEPT ![s] = "insert"]
        /\ logic' = [logic EXCEPT ![found[s]] = ServerLogic]
        /\ UNCHANGED <<acceptor, created, uid, conn, auth, holder, pool, unmanaged, server, this,
                       found, origin, asked, answer>>
    BY <1>6 DEF ModifyLogic, TransTarget, At, manager, objects, maps, locals, history
  <2>2. found[s] \in Session /\ found[s] <= created
    BY <2>1, <1>t DEF MovesHaveFound, Moving, Range
  <2>3. pc' \in [Session -> Where] /\ logic' \in [Session -> Object \cup {None, ServerLogic}]
    BY <2>1, <1>t DEF TypeOK, Where
  <2>4. TypeOK'
    BY <2>1, <2>3, <1>t DEF TypeOK, Where
  <2>5. ~(s > created) /\ ~(found[s] > created)
    BY <2>1, <2>2, Busy, Numbers, <1>t DEF TypeOK
  <2>6. Range'
    BY <2>1, <2>5, <1>t DEF TypeOK, Range
  <2>7. MovesHaveFound'
    BY <2>1, <1>t DEF MovesHaveFound, Moving
  <2> QED
    BY <2>4, <2>6, <2>7 DEF TypeInv
<1>7. ASSUME NEW s \in Session, InsertServer(s) PROVE TypeInv'
  <2>1. /\ pc[s] = "insert" /\ pc' = [pc EXCEPT ![s] = "return"]
        /\ server' = insert(server, uid[s], found[s])
        /\ UNCHANGED <<acceptor, created, uid, conn, logic, auth, holder, pool, unmanaged, this,
                       found, origin, asked, answer>>
    BY <1>7 DEF InsertServer, At, manager, objects, locals, history
  <2>2. found[s] \in Session /\ found[s] <= created /\ uid[s] \in Uid /\ ~(s > created)
    BY <2>1, Busy, Numbers, <1>t DEF MovesHaveFound, Moving, Range, TypeOK
  <2>3. /\ server' \in [Uid -> Session \cup {None}]
        /\ \A u \in Uid : server'[u] \in {server[u], found[s]}
        /\ pc' \in [Session -> Where]
    BY <2>1, <2>2, <1>t DEF TypeOK, insert, Where
  <2>4. TypeOK'
    BY <2>1, <2>3, <1>t DEF TypeOK, Where
  <2>5. \A u \in Uid : server'[u] <= created
    BY <2>2, <2>3, <1>t DEF Range
  <2>6. Range'
    BY <2>1, <2>2, <2>5, <1>t DEF Range
  <2>7. MovesHaveFound'
    BY <2>1, <1>t DEF MovesHaveFound, Moving
  <2> QED
    BY <2>4, <2>6, <2>7 DEF TypeInv
<1>8. ASSUME NEW s \in Session, ReturnFromMove(s) PROVE TypeInv'
  <2>1. /\ pc[s] = "return" /\ pc' = [pc EXCEPT ![s] = "verified"]
        /\ pool' = pool \/ pool' = pool \cup {origin[s]}
        /\ origin' = [origin EXCEPT ![s] = None] /\ found' = [found EXCEPT ![s] = None]
        /\ UNCHANGED <<acceptor, created, uid, conn, logic, auth, holder, unmanaged, server, this,
                       asked, answer>>
    BY <1>8 DEF ReturnFromMove, At, manager, maps, history
  <2>2. origin[s] \in Object /\ ~(s > created)
    BY <2>1, Busy, Numbers, <1>t DEF MovesHaveFound, Moving, TypeOK
  <2>3. /\ pc' \in [Session -> Where] /\ pool' \subseteq Object
        /\ origin' \in [Session -> Object \cup {None}]
        /\ found' \in [Session -> Session \cup {None}]
        /\ \A t \in Session : found'[t] \in {found[t], None}
    BY <2>1, <2>2, <1>t DEF TypeOK, Where
  <2>4. TypeOK'
    BY <2>1, <2>3, <1>t DEF TypeOK, Where
  <2>5. None <= created
    BY <1>t, Numbers DEF TypeOK, None
  <2>6. Range'
    BY <2>1, <2>2, <2>3, <2>5, <1>t DEF Range
  <2>7. MovesHaveFound'
    BY <2>1, <1>t DEF TypeOK, MovesHaveFound, Moving
  <2> QED
    BY <2>4, <2>6, <2>7 DEF TypeInv
<1>9. ASSUME NEW s \in Session, Verified(s) PROVE TypeInv'
  <2>1. /\ pc[s] = "verified" /\ pc' = [pc EXCEPT ![s] = "echo"]
        /\ auth' = [auth EXCEPT ![this[s]] = "succ"]
        /\ UNCHANGED <<acceptor, created, uid, conn, logic, holder, pool, unmanaged, server, this,
                       found, origin, asked, answer>>
    BY <1>9 DEF Verified, At, manager, maps, locals, history
  <2>2. auth' \in [Object -> {"before", "succ", "failed"}]
    BY <2>1, <1>t DEF TypeOK
  <2> QED
    BY <2>1, <2>2, <1>t, TypeSteps DEF TypeOK, Where, Moving
<1>10. ASSUME NEW s \in Session, Echo(s) PROVE TypeInv'
  <2>1. /\ pc[s] = "echo" /\ pc' = [pc EXCEPT ![s] = "idle"]
        /\ answer' = answer \/ answer' = [answer EXCEPT ![holder[this[s]]] = "ok"]
        /\ this' = [this EXCEPT ![s] = None]
        /\ UNCHANGED <<acceptor, created, uid, conn, logic, auth, holder, pool, unmanaged, server,
                       found, origin, asked>>
    BY <1>10 DEF Echo, Answers, At, manager, objects, maps
  <2>2. answer' \in [Session -> {"none", "ok", "refused"}] /\ this' \in [Session -> Object \cup {None}]
    BY <2>1, <1>t DEF TypeOK
  <2> QED
    BY <2>1, <2>2, <1>t, TypeSteps DEF TypeOK, Where, Moving
<1>11. ASSUME NEW s \in Session, Refuse(s) PROVE TypeInv'
  <2>1. /\ pc[s] = "refuse" /\ \E w \in {"kick", "idle"} : pc' = [pc EXCEPT ![s] = w]
        /\ auth' = [auth EXCEPT ![this[s]] = "failed"]
        /\ answer' = answer \/ answer' = [answer EXCEPT ![holder[this[s]]] = "refused"]
        /\ UNCHANGED <<acceptor, created, uid, conn, logic, holder, pool, unmanaged, server, this,
                       found, origin, asked>>
    BY <1>11 DEF Refuse, Answers, At, manager, maps, locals
  <2>2. answer' \in [Session -> {"none", "ok", "refused"}]
        /\ auth' \in [Object -> {"before", "succ", "failed"}]
    BY <2>1, <1>t DEF TypeOK
  <2>3. PICK w \in {"kick", "idle"} : pc' = [pc EXCEPT ![s] = w]
    BY <2>1
  <2> QED
    BY <2>1, <2>2, <2>3, <1>t, TypeSteps DEF TypeOK, Where, Moving
<1>12. ASSUME NEW s \in Session, KickRefused(s) PROVE TypeInv'
  <2>1. /\ pc[s] = "kick" /\ pc' = [pc EXCEPT ![s] = "idle"]
        /\ conn' = conn \/ conn' = [conn EXCEPT ![holder[this[s]]] = "closed"]
        /\ this' = [this EXCEPT ![s] = None]
        /\ UNCHANGED <<acceptor, created, uid, logic, auth, holder, pool, unmanaged, server,
                       found, origin, asked, answer>>
    BY <1>12 DEF KickRefused, At, manager, objects, maps, history
  <2>2. conn' \in [Session -> {"none", "open", "closed"}] /\ this' \in [Session -> Object \cup {None}]
    BY <2>1, <1>t DEF TypeOK
  <2> QED
    BY <2>1, <2>2, <1>t, TypeSteps DEF TypeOK, Where, Moving
<1>13. ASSUME NEW s \in Session, Closes(s) PROVE TypeInv'
  <2>1. /\ conn' = [conn EXCEPT ![s] = "closed"]
        /\ UNCHANGED <<acceptor, created, uid, logic, auth, holder, pool, unmanaged, server, pc,
                       this, found, origin, asked, answer>>
    BY <1>13 DEF Closes, manager, objects, maps, locals, history
  <2>2. conn' \in [Session -> {"none", "open", "closed"}]
    BY <2>1, <1>t DEF TypeOK
  <2> QED
    BY <2>1, <2>2, <1>t DEF TypeInv, TypeOK, Range, MovesHaveFound
<1>14. ASSUME NEW s \in Session, Destroyed(s) PROVE TypeInv'
  <2>1. /\ logic' = [logic EXCEPT ![s] = None]
        /\ pool' = pool \/ (logic[s] \in Object /\ pool' = pool \cup {logic[s]})
        /\ UNCHANGED <<acceptor, created, uid, conn, auth, holder, unmanaged, server, pc,
                       this, found, origin, asked, answer>>
    BY <1>14 DEF Destroyed, IsDefault, manager, maps, locals, history
  <2>2. logic' \in [Session -> Object \cup {None, ServerLogic}] /\ pool' \subseteq Object
        /\ \A t \in Session : logic[t] = None => logic'[t] = None
    BY <2>1, <1>t DEF TypeOK
  <2> QED
    BY <2>1, <2>2, <1>t DEF TypeInv, TypeOK, Range, MovesHaveFound
<1> QED
  BY <1>1, <1>2, <1>3, <1>4, <1>5, <1>6, <1>7, <1>8, <1>9, <1>10, <1>11, <1>12, <1>13, <1>14
     DEF Next, Acceptor, Strand

LEMMA TypeInvAlways == Spec => []TypeInv
  BY TypeInit, TypeStep, PTL DEF Spec

(***************************************************************************)
(* Every variable keeps its type: a move that has found a session keeps it *)
(* and its logic object until it returns, so that what it gives back to    *)
(* the pool is an object.                                                  *)
(***************************************************************************)
THEOREM ManagerTypeCorrect == Spec => []TypeOK
<1>1. TypeInv => TypeOK
  BY DEF TypeInv
<1> QED
  BY TypeInvAlways, <1>1, PTL

\* How logic changes: the session made gets an object, a move makes a server
\* logic, the end of a session leaves none.
LEMMA LogicSteps ==
  ASSUME TypeInv, [Next]_vars,
         logic' # logic
  PROVE  \/ accept_a_session
         \/ \E s \in Session : ModifyLogic(s)
         \/ \E s \in Session : Destroyed(s)
<1>1. CASE Accepted \/ stop_proxy \/ clean_up_closed_session \/ UNCHANGED vars
  BY <1>1 DEF Accepted, stop_proxy, clean_up_closed_session, vars
<1>2. ASSUME NEW s \in Session,
             verify_authentication(s) \/ FindUnmanaged(s) \/ InsertServer(s) \/ ReturnFromMove(s)
               \/ Verified(s) \/ Echo(s) \/ Refuse(s) \/ KickRefused(s) \/ Closes(s)
      PROVE  FALSE
  BY <1>2 DEF verify_authentication, FindUnmanaged, InsertServer, ReturnFromMove, Verified, Echo,
              Refuse, KickRefused, Closes
<1> QED
  BY <1>1, <1>2 DEF Next, Acceptor, Strand

(***************************************************************************)
(* ServersHaveServerLogic, with the moves that are about to insert.        *)
(***************************************************************************)
AboutToInsert == \A s \in Session : pc[s] = "insert" => logic[found[s]] = ServerLogic
ServerInv == ServersHaveServerLogic /\ AboutToInsert

LEMMA ServerInit == Init => ServerInv
  BY Numbers DEF Init, ServerInv, ServersHaveServerLogic, AboutToInsert

\* Who is a server keeps its logic for as long as somebody can find it.
LEMMA StaysServer ==
  ASSUME TypeInv, [Next]_vars, NEW t \in Session, logic[t] = ServerLogic,
         Held(t) \/ \E s \in Session : found[s] = t
  PROVE  logic'[t] = ServerLogic
<1>1. CASE logic' = logic
  BY <1>1
<1>2. CASE accept_a_session
  <2>1. PICK o \in Object : logic' = [logic EXCEPT ![created + 1] = o]
    BY <1>2 DEF accept_a_session, Available, TypeInv, TypeOK
  <2>2. t # created + 1
    BY Busy, Numbers DEF TypeInv, TypeOK
  <2> QED
    BY <2>1, <2>2 DEF TypeInv, TypeOK
<1>3. ASSUME NEW s \in Session, ModifyLogic(s) PROVE logic'[t] = ServerLogic
  BY <1>3 DEF ModifyLogic, TypeInv, TypeOK
<1>4. ASSUME NEW s \in Session, Destroyed(s) PROVE logic'[t] = ServerLogic
  BY <1>4 DEF Destroyed, TypeInv, TypeOK
<1> QED
  BY <1>1, <1>2, <1>3, <1>4, LogicSteps

LEMMA ServerStep == TypeInv /\ ServerInv /\ [Next]_vars => ServerInv'
<1> SUFFICES ASSUME TypeInv, ServerInv, [Next]_vars PROVE ServerInv'
  OBVIOUS
<1>t. TypeOK /\ Range /\ MovesHaveFound
  BY DEF TypeInv
\* Steps after which nobody is managed or about to be inserted who was not before.
<1>0. ASSUME server' = server,
             \A s \in Session : pc'[s] = "insert" => pc[s] = "insert" /\ found'[s] = found[s]
      PROVE  ServerInv'
  <2>1. ASSUME NEW u \in Uid, server[u] # None PROVE logic'[server[u]] = ServerLogic
    <3>1. server[u] \in Session /\ logic[server[u]] = ServerLogic
      BY <2>1, <1>t DEF TypeOK, ServerInv, ServersHaveServerLogic
    <3>2. Held(server[u])
      BY DEF Held, Managed
    <3> QED
      BY <3>1, <3>2, StaysServer
  <2>2. ASSUME NEW s \in Session, pc[s] = "insert" PROVE logic'[found[s]] = ServerLogic
    <3>1. found[s] \in Session /\ logic[found[s]] = ServerLogic
      BY <2>2, <1>t DEF ServerInv, AboutToInsert, MovesHaveFound, Moving
    <3> QED
      BY <3>1, StaysServer
  <2> QED
    BY <1>0, <2>1, <2>2 DEF ServerInv, ServersHaveServerLogic, AboutToInsert
<1>1. CASE Acceptor \/ UNCHANGED vars
  BY <1>1, <1>0 DEF Acceptor, accept_a_session, Accepted, stop_proxy, clean_up_closed_session,
     complex_operation, vars, maps, locals
<1>2. ASSUME NEW s \in Session,
             verify_authentication(s) \/ Verified(s) \/ Echo(s) \/ Refuse(s) \/ KickRefused(s)
               \/ Closes(s) \/ Destroyed(s)
      PROVE  ServerInv'
  <2>1. server' = server /\ found' = found
    BY <1>2 DEF verify_authentication, Verified, Echo, Refuse, KickRefused, Closes, Destroyed,
       maps, locals
  <2>2. pc' = pc \/ \E w \in Where \ {"insert"} : pc' = [pc EXCEPT ![s] = w]
    BY <1>2 DEF verify_authentication, Verified, Echo, Refuse, KickRefused, Closes, Destroyed,
       At, Where
  <2> QED
    BY <2>1, <2>2, <1>0, <1>t DEF TypeOK
<1>3. ASSUME NEW s \in Session, FindUnmanaged(s) \/ ReturnFromMove(s) PROVE ServerInv'
  <2>1. /\ server' = server /\ \E w \in {"verified", "trans"} : pc' = [pc EXCEPT ![s] = w]
        /\ found' = found \/ \E t \in Session \cup {None} : found' = [found EXCEPT ![s] = t]
    <3>1. FindUnmanaged(s) => uid[s] \in Uid
      BY Busy DEF FindUnmanaged
    <3> QED
      BY <1>3, <3>1, <1>t DEF FindUnmanaged, ReturnFromMove, At, maps, TypeOK
  <2> QED
    BY <2>1, <1>0, <1>t DEF TypeOK
<1>4. ASSUME NEW s \in Session, ModifyLogic(s) PROVE ServerInv'
  <2>1. /\ pc[s] = "trans" /\ pc' = [pc EXCEPT ![s] = "insert"]
        /\ logic' = [logic EXCEPT ![found[s]] = ServerLogic]
        /\ server' = server /\ found' = found
    BY <1>4 DEF ModifyLogic, TransTarget, At, maps, locals
  <2>2. found[s] \in Session
    BY <2>1, <1>t DEF MovesHaveFound, Moving
  <2>3. \A t \in Session : logic'[t] = IF t = found[s] THEN ServerLogic ELSE logic[t]
    BY <2>1, <2>2, <1>t DEF TypeOK
  <2>4. \A t \in Session : t # s => pc'[t] = pc[t]
    BY <2>1, <1>t DEF TypeOK
  <2>5. \A u \in Uid : server[u] # None => server[u] \in Session
    BY <1>t DEF TypeOK
  <2>6. \A t \in Session : pc[t] = "insert" => found[t] \in Session
    BY <1>t DEF MovesHaveFound, Moving
  <2>7. ServersHaveServerLogic'
    BY <2>1, <2>3, <2>5 DEF ServerInv, ServersHaveServerLogic
  <2>8. AboutToInsert'
    BY <2>1, <2>2, <2>3, <2>4, <2>6 DEF ServerInv, AboutToInsert
  <2> QED
    BY <2>7, <2>8 DEF ServerInv
<1>5. ASSUME NEW s \in Session, InsertServer(s) PROVE ServerInv'
  <2>1. /\ pc[s] = "insert" /\ pc' = [pc EXCEPT ![s] = "return"]
        /\ server' = insert(server, uid[s], found[s]) /\ logic' = logic /\ found' = found
    BY <1>5 DEF InsertServer, At, locals
  <2>2. \A u \in Uid : server'[u] \in {server[u], found[s]}
    BY <2>1, <1>t DEF TypeOK, insert
  <2>3. ServersHaveServerLogic'
    BY <2>1, <2>2 DEF ServerInv, ServersHaveServerLogic, AboutToInsert
  <2>4. AboutToInsert'
    BY <2>1, <1>t DEF ServerInv, AboutToInsert, TypeOK
  <2> QED
    BY <2>3, <2>4 DEF ServerInv
<1> QED
  BY <1>1, <1>2, <1>3, <1>4, <1>5 DEF Next, Strand

(***************************************************************************)
(* What is in the map of servers has the logic of a server, which          *)
(* server_session() and its users cast it to without a test: it is made    *)
(* one before it is inserted, and while the map or a move has the session  *)
(* nothing destroys it.  Uids that repeat do not matter.                   *)
(***************************************************************************)
THEOREM ServersAreServers == Spec => []ServersHaveServerLogic
<1>1. ServerInv => ServersHaveServerLogic
  BY DEF ServerInv
<1>2. Spec => []ServerInv
  BY ServerInit, ServerStep, TypeInvAlways, PTL DEF Spec
<1> QED
  BY <1>1, <1>2, PTL

(***************************************************************************)
(* LogicOwned: an object that was never held is nobody's logic.            *)
(***************************************************************************)
OwnedObjects ==
  \A s \in Session : logic[s] \in Object => logic[s] \notin pool /\ holder[logic[s]] # None
NotShared == \A s, t \in Session : logic[s] \in Object /\ logic[s] = logic[t] => s = t
OwnInv == OwnedObjects /\ NotShared

LEMMA OwnInit == Init => OwnInv
  BY Numbers DEF Init, OwnInv, OwnedObjects, NotShared

LEMMA OwnStep == TypeInv /\ OwnInv /\ [Next]_vars => OwnInv'
<1> SUFFICES ASSUME TypeInv, OwnInv, [Next]_vars PROVE OwnInv'
  OBVIOUS
<1>t. TypeOK /\ Range /\ MovesHaveFound
  BY DEF TypeInv
<1>1. CASE accept_a_session
  <2>1. PICK o \in Available :
          /\ pool' = pool \ {o} /\ logic' = [logic EXCEPT ![created + 1] = o]
          /\ holder' = [holder EXCEPT ![o] = created + 1]
    BY <1>1 DEF accept_a_session
  <2>2. o \in Object /\ \A s \in Session : logic[s] # o
    BY Numbers, <1>t DEF Available, OwnInv, OwnedObjects, TypeOK
  <2>3. created + 1 \in Session /\ created + 1 # None
    BY <1>1, <1>t, Numbers DEF accept_a_session, TypeOK, Session
  <2>4. \A s \in Session : logic'[s] = IF s = created + 1 THEN o ELSE logic[s]
    BY <2>1, <2>3, <1>t DEF TypeOK
  <2>5. \A p \in Object : holder'[p] = IF p = o THEN created + 1 ELSE holder[p]
    BY <2>1, <2>2, <1>t DEF TypeOK
  <2>6. OwnedObjects'
    BY <2>1, <2>2, <2>3, <2>4, <2>5 DEF OwnInv, OwnedObjects
  <2>7. NotShared'
    BY <2>2, <2>3, <2>4 DEF OwnInv, NotShared
  <2> QED
    BY <2>6, <2>7 DEF OwnInv
<1>2. CASE Accepted \/ stop_proxy \/ clean_up_closed_session \/ UNCHANGED vars
  BY <1>2 DEF Accepted, stop_proxy, clean_up_closed_session, vars, objects, OwnInv, OwnedObjects,
     NotShared
<1>3. ASSUME NEW s \in Session,
             verify_authentication(s) \/ FindUnmanaged(s) \/ InsertServer(s) \/ Verified(s)
               \/ Echo(s) \/ Refuse(s) \/ KickRefused(s) \/ Closes(s)
      PROVE  OwnInv'
  <2>1. logic' = logic /\ pool' = pool /\ holder' = holder
    BY <1>3 DEF verify_authentication, FindUnmanaged, InsertServer, Verified, Echo, Refuse,
       KickRefused, Closes, objects
  <2> QED
    BY <2>1 DEF OwnInv, OwnedObjects, NotShared
<1>4. ASSUME NEW s \in Session, ModifyLogic(s) PROVE OwnInv'
  <2>1. /\ logic' = [logic EXCEPT ![found[s]] = ServerLogic]
        /\ pool' = pool /\ holder' = holder
    BY <1>4 DEF ModifyLogic, TransTarget, objects
  <2>2. \A t \in Session : logic'[t] \in Object => logic'[t] = logic[t]
    BY <2>1, <1>t, Numbers DEF TypeOK
  <2> QED
    BY <2>1, <2>2 DEF OwnInv, OwnedObjects, NotShared
<1>5. ASSUME NEW s \in Session, ReturnFromMove(s) PROVE OwnInv'
  <2>1. /\ logic' = logic /\ holder' = holder
        /\ pool' = pool \/ ((\A t \in Session : logic[t] # origin[s]) /\ pool' = pool \cup {origin[s]})
    BY <1>5 DEF ReturnFromMove, Referenced
  <2> QED
    BY <2>1 DEF OwnInv, OwnedObjects, NotShared
<1>6. ASSUME NEW s \in Session, Destroyed(s) PROVE OwnInv'
  <2>1. /\ logic' = [logic EXCEPT ![s] = None] /\ holder' = holder
        /\ pool' = pool \/ pool' = pool \cup {logic[s]}
    BY <1>6 DEF Destroyed
  <2>2. \A t \in Session : logic'[t] \in Object => t # s /\ logic'[t] = logic[t]
    BY <2>1, <1>t, Numbers DEF TypeOK
  <2> QED
    BY <2>1, <2>2 DEF OwnInv, OwnedObjects, NotShared
<1> QED
  BY <1>1, <1>2, <1>3, <1>4, <1>5, <1>6 DEF Next, Acceptor, Strand

(***************************************************************************)
(* No two sessions have the same default_session_logic, and none that is   *)
(* in the pool is a session's: the temporary that keeps the old logic of a *)
(* moved session alive gives it back after the session has let it go.      *)
(***************************************************************************)
THEOREM LogicsAreOwned == Spec => []LogicOwned
<1>1. TypeInv /\ OwnInv => LogicOwned
  BY Numbers DEF TypeInv, TypeOK, OwnInv, OwnedObjects, NotShared, LogicOwned, IsDefault
<1>2. Spec => []OwnInv
  BY OwnInit, OwnStep, TypeInvAlways, PTL DEF Spec
<1> QED
  BY <1>1, <1>2, TypeInvAlways, PTL

(***************************************************************************)
(* PromotedAsked: the maps and the moves keep sessions under their uid,    *)
(* and only those who ask to be a server move.                             *)
(***************************************************************************)
ByUid ==
  /\ \A u \in Uid : unmanaged[u] # None => uid[unmanaged[u]] = u
  /\ \A u \in Uid : server[u] # None => uid[server[u]] = u
  /\ \A s \in Session : pc[s] \in Moving => uid[found[s]] = uid[s]
MoversAsked == \A s \in Session : pc[s] \in {"move"} \cup Moving => asked[s] \in ServerIds
ServersAsked == UidsDiffer => \A s \in Session : logic[s] = ServerLogic => asked[s] \in ServerIds
UidInv == ByUid /\ MoversAsked /\ ServersAsked

LEMMA UidInit == Init => UidInv
  BY Numbers DEF Init, UidInv, ByUid, MoversAsked, ServersAsked, Moving

\* Steps that change none of the things UidInv is about but where strands are.
LEMMA UidSteps ==
  ASSUME TypeInv, UidInv, UNCHANGED <<created, uid, found, asked, unmanaged, server>>,
         \A s \in Session : logic'[s] = ServerLogic => logic[s] = ServerLogic,
         \A s \in Session : pc'[s] \in {"move"} \cup Moving => pc'[s] = pc[s]
  PROVE  UidInv'
<1>1. ByUid'
  BY DEF UidInv, ByUid
<1>2. MoversAsked'
  BY DEF UidInv, MoversAsked
<1>3. ServersAsked'
  BY DEF UidInv, ServersAsked, UidsDiffer
<1> QED
  BY <1>1, <1>2, <1>3 DEF UidInv

LEMMA UidAccept ==
  ASSUME TypeInv, UidInv, accept_a_session
  PROVE  UidInv'
<1>t. TypeOK /\ Range /\ MovesHaveFound
  BY DEF TypeInv
<1>1. PICK u \in Uid, o \in Object :
        uid' = [uid EXCEPT ![created + 1] = u] /\ logic' = [logic EXCEPT ![created + 1] = o]
  BY <1>t DEF accept_a_session, Available, TypeOK
<1>2. /\ created < MaxSessions /\ created' = created + 1
      /\ UNCHANGED <<unmanaged, server, pc, found, asked>>
  BY DEF accept_a_session, maps, locals, history
<1>3. created \in Nat /\ created + 1 \in Session
  BY <1>2, <1>t, Numbers DEF TypeOK, Session
<1>4. \A s \in Session : s <= created => s # created + 1 /\ uid'[s] = uid[s]
  BY <1>1, <1>3, <1>t, Numbers DEF TypeOK
<1>5. ByUid'
  <2>1. ASSUME NEW v \in Uid, unmanaged[v] # None PROVE uid'[unmanaged[v]] = v
    BY <2>1, <1>4, <1>t DEF UidInv, ByUid, TypeOK, Range
  <2>2. ASSUME NEW v \in Uid, server[v] # None PROVE uid'[server[v]] = v
    BY <2>2, <1>4, <1>t DEF UidInv, ByUid, TypeOK, Range
  <2>3. ASSUME NEW s \in Session, pc[s] \in Moving PROVE uid'[found[s]] = uid'[s]
    <3>1. s <= created
      BY <2>3, Busy DEF Moving
    <3>2. found[s] \in Session /\ found[s] <= created
      BY <2>3, <1>t DEF MovesHaveFound, Range
    <3> QED
      BY <2>3, <3>1, <3>2, <1>4 DEF UidInv, ByUid
  <2> QED
    BY <2>1, <2>2, <2>3, <1>2 DEF ByUid
<1>6. MoversAsked'
  BY <1>2 DEF UidInv, MoversAsked
<1>7. UidsDiffer' => UidsDiffer
  <2>1. \A s \in 1..created : s \in 1..created' /\ uid'[s] = uid[s]
    BY <1>2, <1>3, <1>4, Numbers DEF Session
  <2> QED
    BY <2>1 DEF UidsDiffer
<1>8. ServersAsked'
  <2>1. \A s \in Session : logic'[s] = ServerLogic => logic[s] = ServerLogic
    BY <1>1, <1>t, Numbers DEF TypeOK
  <2> QED
    BY <2>1, <1>2, <1>7 DEF UidInv, ServersAsked
<1> QED
  BY <1>5, <1>6, <1>8 DEF UidInv

LEMMA UidStep == TypeInv /\ UidInv /\ [Next]_vars => UidInv'
<1> SUFFICES ASSUME TypeInv, UidInv, [Next]_vars PROVE UidInv'
  OBVIOUS
<1>t. TypeOK /\ Range /\ MovesHaveFound
  BY DEF TypeInv
<1>1. CASE Accepted
  <2>1. /\ acceptor = "waiting" /\ unmanaged' = insert(unmanaged, uid[created], created)
        /\ UNCHANGED <<created, uid, logic, server, pc, found, asked>>
    BY <1>1 DEF Accepted, locals, history
  <2>2. created \in Session /\ uid[created] \in Uid
    BY <2>1, <1>t, Numbers DEF Range
  <2>3. \A u \in Uid : unmanaged'[u] = unmanaged[u] \/ (u = uid[created] /\ unmanaged'[u] = created)
    BY <2>1, <2>2, <1>t DEF TypeOK, insert
  <2>4. ByUid'
    BY <2>1, <2>3 DEF UidInv, ByUid
  <2> QED
    BY <2>1, <2>4 DEF UidInv, MoversAsked, ServersAsked, UidsDiffer
<1>2. CASE stop_proxy \/ clean_up_closed_session \/ UNCHANGED vars
  BY <1>2, UidSteps DEF stop_proxy, clean_up_closed_session, complex_operation, vars, manager,
     maps, locals, history
<1>3. ASSUME NEW s \in Session, verify_authentication(s) PROVE UidInv'
  <2>1. /\ pc[s] = "idle" /\ logic[s] \in Object
        /\ UNCHANGED <<created, uid, logic, unmanaged, server, found>>
    BY <1>3 DEF verify_authentication, MayStart, IsDefault, manager, maps
  <2>2. PICK type \in {"client", "other"} \cup ServerIds :
          /\ asked' = [asked EXCEPT ![s] = type]
          /\ pc' = [pc EXCEPT ![s] = IF Passes(s, type) THEN "move" ELSE "refuse"]
    BY <1>3 DEF verify_authentication, At
  <2>3. Passes(s, type) => type \in ServerIds
    BY DEF Passes, complex_operation
  <2>4. \A t \in Session \ {s} : pc'[t] = pc[t] /\ asked'[t] = asked[t]
    BY <2>2, <1>t DEF TypeOK
  <2>5. pc'[s] \notin Moving /\ asked'[s] = type /\ (pc'[s] = "move" => type \in ServerIds)
    BY <2>2, <2>3, <1>t DEF TypeOK, Moving
  <2>6. ByUid'
    BY <2>1, <2>4, <2>5 DEF UidInv, ByUid
  <2>7. MoversAsked'
    BY <2>4, <2>5 DEF UidInv, MoversAsked
  <2>8. ServersAsked'
    BY <2>1, <2>4, Numbers DEF UidInv, ServersAsked, UidsDiffer
  <2> QED
    BY <2>6, <2>7, <2>8 DEF UidInv
<1>4. ASSUME NEW s \in Session, FindUnmanaged(s) PROVE UidInv'
  <2>1. /\ pc[s] = "move" /\ UNCHANGED <<created, uid, logic, server, asked>>
    BY <1>4 DEF FindUnmanaged, manager, history
  <2>2. uid[s] \in Uid
    BY <2>1, Busy
  <2>3. unmanaged' = unmanaged
    BY <1>4 DEF FindUnmanaged, erase, contains_key
  <2>4. \/ pc' = [pc EXCEPT ![s] = "verified"] /\ found' = found
        \/ /\ unmanaged[uid[s]] # None
           /\ found' = [found EXCEPT ![s] = unmanaged[uid[s]]]
           /\ pc' = [pc EXCEPT ![s] = "trans"]
    BY <1>4 DEF FindUnmanaged, At
  <2>5. CASE pc' = [pc EXCEPT ![s] = "verified"] /\ found' = found
    BY <2>1, <2>3, <2>5, <1>t, UidSteps DEF TypeOK, Moving
  <2>6. ASSUME unmanaged[uid[s]] # None, found' = [found EXCEPT ![s] = unmanaged[uid[s]]],
               pc' = [pc EXCEPT ![s] = "trans"]
        PROVE  UidInv'
    <3>1. uid[unmanaged[uid[s]]] = uid[s]
      BY <2>2, <2>6 DEF UidInv, ByUid
    <3>2. /\ found'[s] = unmanaged[uid[s]]
          /\ \A t \in Session \ {s} : found'[t] = found[t] /\ pc'[t] = pc[t]
      BY <2>6, <1>t DEF TypeOK
    <3>3. ByUid'
      BY <2>1, <2>3, <3>1, <3>2 DEF UidInv, ByUid
    <3>4. MoversAsked'
      BY <2>1, <3>2 DEF UidInv, MoversAsked
    <3> QED
      BY <2>1, <3>3, <3>4 DEF UidInv, ServersAsked, UidsDiffer
  <2> QED
    BY <2>4, <2>5, <2>6
<1>5. ASSUME NEW s \in Session, ModifyLogic(s) PROVE UidInv'
  <2>1. /\ pc[s] = "trans" /\ pc' = [pc EXCEPT ![s] = "insert"]
        /\ logic' = [logic EXCEPT ![found[s]] = ServerLogic]
        /\ UNCHANGED <<created, uid, unmanaged, server, found, asked>>
    BY <1>5 DEF ModifyLogic, TransTarget, At, manager, maps, locals, history
  <2>2. /\ found[s] \in Session /\ found[s] <= created /\ s <= created
        /\ uid[found[s]] = uid[s] /\ asked[s] \in ServerIds
    BY <2>1, Busy, <1>t DEF MovesHaveFound, Moving, Range, UidInv, ByUid, MoversAsked
  <2>3. \A t \in Session : pc'[t] \in {"move"} \cup Moving => pc[t] \in {"move"} \cup Moving
    BY <2>1, <1>t DEF TypeOK, Moving
  <2>4. \A t \in Session : pc'[t] \in Moving => pc[t] \in Moving
    BY <2>1, <1>t DEF TypeOK, Moving
  <2>5. ByUid'
    BY <2>1, <2>4 DEF UidInv, ByUid
  <2>6. MoversAsked'
    BY <2>1, <2>3 DEF UidInv, MoversAsked
  <2>7. ServersAsked'
    <3>1. UidsDiffer => found[s] = s
      BY <2>2, <1>t, Numbers DEF UidsDiffer, TypeOK
    <3>2. \A t \in Session : logic'[t] = ServerLogic => t = found[s] \/ logic[t] = ServerLogic
      BY <2>1, <1>t DEF TypeOK
    <3> QED
      BY <2>1, <2>2, <3>1, <3>2 DEF UidInv, ServersAsked, UidsDiffer
  <2> QED
    BY <2>5, <2>6, <2>7 DEF UidInv
<1>6. ASSUME NEW s \in Session, InsertServer(s) PROVE UidInv'
  <2>1. /\ pc[s] = "insert" /\ pc' = [pc EXCEPT ![s] = "return"]
        /\ server' = insert(server, uid[s], found[s])
        /\ UNCHANGED <<created, uid, logic, unmanaged, found, asked>>
    BY <1>6 DEF InsertServer, At, manager, locals, history
  <2>2. uid[s] \in Uid /\ uid[found[s]] = uid[s]
    BY <2>1, Busy DEF UidInv, ByUid, Moving
  <2>3. \A u \in Uid : server'[u] = server[u] \/ (u = uid[s] /\ server'[u] = found[s])
    BY <2>1, <2>2, <1>t DEF TypeOK, insert
  <2>4. \A t \in Session : /\ pc'[t] \in Moving => pc[t] \in Moving
                           /\ pc'[t] = "move" => pc[t] = "move"
    BY <2>1, <1>t DEF TypeOK, Moving
  <2>5. ByUid'
    BY <2>1, <2>2, <2>3, <2>4 DEF UidInv, ByUid
  <2>6. MoversAsked'
    BY <2>1, <2>4 DEF UidInv, MoversAsked
  <2> QED
    BY <2>1, <2>5, <2>6 DEF UidInv, ServersAsked, UidsDiffer
<1>7. ASSUME NEW s \in Session, ReturnFromMove(s) PROVE UidInv'
  <2>1. /\ pc' = [pc EXCEPT ![s] = "verified"] /\ found' = [found EXCEPT ![s] = None]
        /\ UNCHANGED <<created, uid, logic, unmanaged, server, asked>>
    BY <1>7 DEF ReturnFromMove, At, manager, maps, history
  <2>2. \A t \in Session : pc'[t] \in {"move"} \cup Moving => pc'[t] = pc[t] /\ found'[t] = found[t]
    BY <2>1, <1>t DEF TypeOK, Moving
  <2>3. ByUid'
    BY <2>1, <2>2 DEF UidInv, ByUid
  <2>4. MoversAsked'
    BY <2>1, <2>2 DEF UidInv, MoversAsked
  <2> QED
    BY <2>1, <2>3, <2>4 DEF UidInv, ServersAsked, UidsDiffer
<1>8. ASSUME NEW s \in Session, Verified(s) \/ Echo(s) \/ Refuse(s) \/ KickRefused(s) PROVE UidInv'
  <2>1. UNCHANGED <<created, uid, logic, unmanaged, server, found, asked>>
    BY <1>8 DEF Verified, Echo, Refuse, KickRefused, manager, objects, maps, locals, history
  <2>2. PICK w \in {"echo", "kick", "idle"} : pc' = [pc EXCEPT ![s] = w]
    BY <1>8 DEF Verified, Echo, Refuse, KickRefused, At
  <2> QED
    BY <2>1, <2>2, <1>t, UidSteps DEF TypeOK, Moving
<1>9. ASSUME NEW s \in Session, Closes(s) \/ Destroyed(s) PROVE UidInv'
  <2>1. /\ UNCHANGED <<created, uid, unmanaged, server, found, asked, pc>>
        /\ logic' = logic \/ logic' = [logic EXCEPT ![s] = None]
    BY <1>9 DEF Closes, Destroyed, manager, maps, locals, history
  <2>2. \A t \in Session : logic'[t] = ServerLogic => logic[t] = ServerLogic
    BY <2>1, <1>t, Numbers DEF TypeOK
  <2> QED
    BY <2>1, <2>2, UidSteps
<1> QED
  BY <1>1, <1>2, <1>3, <1>4, <1>5, <1>6, <1>7, <1>8, <1>9, UidAccept DEF Next, Acceptor, Strand

(***************************************************************************)
(* While uids differ, verify_authentication() makes a server of nobody but *)
(* the session that asked to be one, and the map of servers has it under   *)
(* its own uid: move_server_available() finds by uid, and only the session *)
(* that runs it has that one.                                              *)
(***************************************************************************)
THEOREM PromotedHaveAsked == Spec => []PromotedAsked
<1>1. UidInv => PromotedAsked
  BY DEF UidInv, ByUid, ServersAsked, PromotedAsked
<1>2. Spec => []UidInv
  BY UidInit, UidStep, TypeInvAlways, PTL DEF Spec
<1> QED
  BY <1>1, <1>2, PTL

===============================================================================
