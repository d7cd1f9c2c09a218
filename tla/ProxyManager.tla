---------------------------- MODULE ProxyManager ----------------------------
(***************************************************************************)
(* The proxy's proxy_manager and the default_session_logic that every      *)
(* accepted session starts with.  The acceptor's thread creates sessions;  *)
(* each session's strand runs its handlers, of which the one that matters  *)
(* here is the authentication request, whose calls into the manager, the   *)
(* SafeHashMaps and the pool of logic objects are steps of their own.      *)
(*                                                                         *)
(* default_session_logic objects are pooled: one goes back when the last   *)
(* shared_ptr to it goes, although a member function of it may still run.  *)
(* Server logics are not told apart, nobody shares one.                    *)
(*                                                                         *)
(* The branch of verify_authentication() behind a found server, and with   *)
(* it client_session_logic, is left out: complex_operation() never runs    *)
(* the handler that would find one.                                        *)
(***************************************************************************)
EXTENDS Integers, FiniteSets

CONSTANTS
  MaxSessions,  \* bound: sessions the acceptor creates
  MaxUid,       \* bound: uids are 1..MaxUid
  ServerIds     \* what game servers call themselves (area, server and platform)

ASSUME ProxyAssumption ==
  /\ MaxSessions \in Nat \ {0} /\ MaxUid \in Nat \ {0}
  /\ ServerIds \cap {"client", "other", "nothing"} = {}

Session == 1..MaxSessions
Uid == 1..MaxUid
Object == 1..MaxSessions   \* the default_session_logic objects ever allocated
None == 0
ServerLogic == -1

VARIABLES
  acceptor,   \* "post": its handler is posted; "waiting" in async_accept; "stopped"
  created,    \* sessions created so far; the last one is being accepted
  uid,        \* _uuid of each session
  conn,       \* each session's connection: "none", "open" or "closed"
  logic,      \* _logic: an Object, ServerLogic or None
  auth,       \* _authentication of each Object
  holder,     \* _session_holder of each Object
  pool,       \* the Objects released to the pool
  unmanaged,  \* _un_managed_sessions: uid to session, None if absent
  server,     \* _server_sessions
  pc,         \* what each session's strand is doing
  this,       \* the Object whose member function it runs
  found,      \* the session move_server_available() got for the uid
  origin,     \* origin_logic, the Object that call keeps alive
  asked,      \* history: what each session has asked to be
  answer      \* history: the authentication answer each session has sent

manager == <<acceptor, created, uid>>
objects == <<auth, holder, pool>>
maps == <<unmanaged, server>>
locals == <<this, found, origin>>
history == <<asked, answer>>
vars == <<manager, conn, logic, objects, maps, pc, locals, history>>

IsDefault(l) == l \in Object

(***************************************************************************)
(* SafeHashMap, as far as the manager uses it.                             *)
(***************************************************************************)
contains_key(map, k) == map[k] # None
insert(map, k, v) == IF contains_key(map, k) THEN map ELSE [map EXCEPT ![k] = v]

\* erase() looks the key up and goes on if it is absent.
erase(map, k) == IF ~contains_key(map, k) THEN [map EXCEPT ![k] = None] ELSE map

\* complex_operation(): "container_handler(_container);" declares a variable of
\* the handler's type; what the caller's handler would have made of it is lost.
complex_operation(before, handled) == before

(***************************************************************************)
(* Accepting.                                                              *)
(***************************************************************************)
\* ObjectPool::get(): a released object if there is one, else a new one.
Available == IF pool # {} THEN pool ELSE {o \in Object : holder[o] = None}

\* The handler accept_a_session() posts: a session, its uid, which is clock()
\* and may be the uid of another, a default logic that is reset, async_accept.
accept_a_session ==
  /\ acceptor = "post" /\ created < MaxSessions
  /\ created' = created + 1
  /\ \E u \in Uid : uid' = [uid EXCEPT ![created + 1] = u]
  /\ \E o \in Available :
       /\ pool' = pool \ {o}
       /\ logic' = [logic EXCEPT ![created + 1] = o]
       /\ auth' = [auth EXCEPT ![o] = "before"]
       /\ holder' = [holder EXCEPT ![o] = created + 1]
  /\ acceptor' = "waiting"
  /\ UNCHANGED <<conn, maps, pc, locals, history>>

\* The completion of async_accept.
Accepted ==
  /\ acceptor = "waiting"
  /\ unmanaged' = insert(unmanaged, uid[created], created)
  /\ conn' = [conn EXCEPT ![created] = "open"]
  /\ acceptor' = "post"
  /\ UNCHANGED <<created, uid, logic, objects, server, pc, locals, history>>

\* A failed accept stops both executors: handlers that run finish, no more start.
stop_proxy ==
  /\ acceptor = "waiting"
  /\ acceptor' = "stopped"
  /\ UNCHANGED <<created, uid, conn, logic, objects, maps, pc, locals, history>>

(***************************************************************************)
(* Authentication, on the strand of session s.                             *)
(***************************************************************************)
At(s, where) == pc' = [pc EXCEPT ![s] = where]
MayStart(s) == pc[s] = "idle" /\ acceptor # "stopped"

\* proxy_manager::verify_authentication(): a client looks for a server, a server
\* is refused if its uid is there.  The wrong variant takes every other type of
\* session for a server.
Servers == {server[u] : u \in Uid} \ {None}
W_Passes(s, type) == type # "client" /\ ~contains_key(server, uid[s])
Passes(s, type) ==
  \/ type = "client" /\ complex_operation({}, Servers) # {}
  \/ type \in ServerIds /\ ~contains_key(server, uid[s])

\* unwrap_received_data() hands the first frame to verify_authentication(),
\* whatever its command is: "other" is a wrong command or type of session.
verify_authentication(s) ==
  /\ MayStart(s) /\ conn[s] = "open" /\ IsDefault(logic[s]) /\ auth[logic[s]] = "before"
  /\ this' = [this EXCEPT ![s] = logic[s]]
  /\ \E type \in {"client", "other"} \cup ServerIds :
       /\ asked' = [asked EXCEPT ![s] = type]
       /\ At(s, IF Passes(s, type) THEN "move" ELSE "refuse")
  /\ UNCHANGED <<manager, conn, logic, objects, maps, found, origin, answer>>

\* move_server_available(): the unmanaged session of the uid, and its logic.
\* If there is none, or it is no default logic, the call still counts as done.
FindUnmanaged(s) ==
  /\ pc[s] = "move"
  /\ LET t == unmanaged[uid[s]] IN
       IF t = None THEN At(s, "verified") /\ UNCHANGED <<unmanaged, found, origin>>
       ELSE /\ unmanaged' = erase(unmanaged, uid[s])
            /\ IF ~IsDefault(logic[t]) THEN At(s, "verified") /\ UNCHANGED <<found, origin>>
               ELSE /\ found' = [found EXCEPT ![s] = t]
                    /\ origin' = [origin EXCEPT ![s] = logic[t]]
                    /\ At(s, "trans")
  /\ UNCHANGED <<manager, conn, logic, objects, server, this, history>>

\* The wrong variant changes the logic of the session that asks.
W_TransTarget(s) == s
TransTarget(s) == found[s]

\* modify_session_logic(trans_to_server()).
ModifyLogic(s) ==
  /\ pc[s] = "trans"
  /\ logic' = [logic EXCEPT ![TransTarget(s)] = ServerLogic]
  /\ At(s, "insert")
  /\ UNCHANGED <<manager, conn, objects, maps, locals, history>>

InsertServer(s) ==
  /\ pc[s] = "insert"
  /\ server' = insert(server, uid[s], found[s])
  /\ At(s, "return")
  /\ UNCHANGED <<manager, conn, logic, objects, unmanaged, locals, history>>

\* The last shared_ptr to an Object goes: it is released to the pool.  Sessions
\* and the local variables of other strands may still have one; in the wrong
\* variant each local variable is an owner of its own.
W_Referenced(o, except) == FALSE
Referenced(o, except) ==
  \/ \E t \in Session : logic[t] = o
  \/ \E t \in Session \ {except} : origin[t] = o

ReturnFromMove(s) ==
  /\ pc[s] = "return"
  /\ pool' = IF Referenced(origin[s], s) THEN pool ELSE pool \cup {origin[s]}
  /\ origin' = [origin EXCEPT ![s] = None]
  /\ found' = [found EXCEPT ![s] = None]
  /\ At(s, "verified")
  /\ UNCHANGED <<manager, conn, logic, auth, holder, maps, this, history>>

\* Back in default_session_logic, on an object that may be someone else's now.
Verified(s) ==
  /\ pc[s] = "verified"
  /\ auth' = [auth EXCEPT ![this[s]] = "succ"]
  /\ At(s, "echo")
  /\ UNCHANGED <<manager, conn, logic, holder, pool, maps, locals, history>>

\* echo_authentication_res(): the answer goes to the holder of the object, if
\* that is connected.  The wrong variant sends the state of the authentication.
Sends(s) == conn[holder[this[s]]] = "open"
W_Answers(s, a) ==
  answer' = IF Sends(s) THEN [answer EXCEPT ![holder[this[s]]] = auth[this[s]]] ELSE answer
Answers(s, a) ==
  answer' = IF Sends(s) THEN [answer EXCEPT ![holder[this[s]]] = a] ELSE answer

Echo(s) ==
  /\ pc[s] = "echo"
  /\ Answers(s, "ok")
  /\ At(s, "idle") /\ this' = [this EXCEPT ![s] = None]
  /\ UNCHANGED <<manager, conn, logic, objects, maps, found, origin, asked>>

Refuse(s) ==
  /\ pc[s] = "refuse"
  /\ auth' = [auth EXCEPT ![this[s]] = "failed"]
  /\ Answers(s, "refused")
  /\ At(s, IF Sends(s) THEN "kick" ELSE "idle")
  /\ UNCHANGED <<manager, conn, logic, holder, pool, maps, locals, asked>>

\* The callback of the refusal's write kicks the holder of the object.
KickRefused(s) ==
  /\ pc[s] = "kick"
  /\ conn' = IF Sends(s) THEN [conn EXCEPT ![holder[this[s]]] = "closed"] ELSE conn
  /\ At(s, "idle") /\ this' = [this EXCEPT ![s] = None]
  /\ UNCHANGED <<manager, logic, objects, maps, found, origin, history>>

(***************************************************************************)
(* The end of a session.                                                   *)
(***************************************************************************)
Closes(s) ==
  /\ pc[s] \in {"idle", "kick"} /\ acceptor # "stopped" /\ conn[s] = "open"
  /\ conn' = [conn EXCEPT ![s] = "closed"]
  /\ UNCHANGED <<manager, logic, objects, maps, pc, locals, history>>

Managed(s) == \E u \in Uid : server[u] = s
Held(s) == Managed(s) \/ \E u \in Uid : unmanaged[u] = s

\* A closed session nobody holds is destroyed, and its logic with it.
Destroyed(s) ==
  /\ conn[s] = "closed" /\ pc[s] = "idle" /\ ~Held(s)
  /\ logic[s] # None /\ \A t \in Session : found[t] # s
  /\ logic' = [logic EXCEPT ![s] = None]
  /\ pool' = IF IsDefault(logic[s]) /\ \A t \in Session : origin[t] # logic[s]
             THEN pool \cup {logic[s]} ELSE pool
  /\ UNCHANGED <<manager, conn, auth, holder, maps, pc, locals, history>>

\* clean_up_closed_session(), on the acceptor's thread.
Swept(map) == [u \in Uid |-> IF map[u] # None /\ conn[map[u]] = "closed" THEN None ELSE map[u]]
clean_up_closed_session ==
  /\ acceptor # "stopped"
  /\ server' = complex_operation(server, Swept(server))
  /\ UNCHANGED <<manager, conn, logic, objects, unmanaged, pc, locals, history>>

Init ==
  /\ acceptor = "post" /\ created = 0
  /\ uid = [s \in Session |-> None] /\ conn = [s \in Session |-> "none"]
  /\ logic = [s \in Session |-> None]
  /\ auth = [o \in Object |-> "before"] /\ holder = [o \in Object |-> None] /\ pool = {}
  /\ unmanaged = [u \in Uid |-> None] /\ server = [u \in Uid |-> None]
  /\ pc = [s \in Session |-> "idle"]
  /\ this = [s \in Session |-> None] /\ found = [s \in Session |-> None]
  /\ origin = [s \in Session |-> None]
  /\ asked = [s \in Session |-> "nothing"] /\ answer = [s \in Session |-> "none"]

Acceptor == accept_a_session \/ Accepted \/ stop_proxy \/ clean_up_closed_session
Strand(s) ==
  \/ verify_authentication(s)
  \/ FindUnmanaged(s) \/ ModifyLogic(s) \/ InsertServer(s) \/ ReturnFromMove(s)
  \/ Verified(s) \/ Echo(s) \/ Refuse(s) \/ KickRefused(s)
  \/ Closes(s) \/ Destroyed(s)
Next == Acceptor \/ \E s \in Session : Strand(s)

Spec == Init /\ [][Next]_vars

\* Handlers that run return, and the clean-up timer keeps firing.
FairSpec ==
  /\ Spec
  /\ WF_vars(clean_up_closed_session)
  /\ \A s \in Session :
       /\ WF_vars(FindUnmanaged(s)) /\ WF_vars(ModifyLogic(s)) /\ WF_vars(InsertServer(s))
       /\ WF_vars(ReturnFromMove(s)) /\ WF_vars(Verified(s)) /\ WF_vars(Echo(s))
       /\ WF_vars(Refuse(s)) /\ WF_vars(KickRefused(s)) /\ WF_vars(Destroyed(s))

(***************************************************************************)
(* Properties.                                                             *)
(***************************************************************************)
\* Every variable keeps its type.
TypeOK ==
  /\ acceptor \in {"post", "waiting", "stopped"} /\ created \in 0..MaxSessions
  /\ uid \in [Session -> Uid \cup {None}]
  /\ conn \in [Session -> {"none", "open", "closed"}]
  /\ logic \in [Session -> Object \cup {None, ServerLogic}]
  /\ auth \in [Object -> {"before", "succ", "failed"}]
  /\ holder \in [Object -> Session \cup {None}] /\ pool \subseteq Object
  /\ unmanaged \in [Uid -> Session \cup {None}] /\ server \in [Uid -> Session \cup {None}]
  /\ pc \in [Session -> {"idle", "move", "trans", "insert", "return", "verified", "echo",
                        "refuse", "kick"}]
  /\ this \in [Session -> Object \cup {None}] /\ origin \in [Session -> Object \cup {None}]
  /\ found \in [Session -> Session \cup {None}]
  /\ asked \in [Session -> {"nothing", "client", "other"} \cup ServerIds]
  /\ answer \in [Session -> {"none", "ok", "refused"}]

\* What the managed map of servers holds has the logic of a server, which its
\* users cast it to without a test, also when two sessions share a uid.
\* (move_server_available changes the logic before it inserts.)
ServersHaveServerLogic == \A u \in Uid : server[u] # None => logic[server[u]] = ServerLogic

\* A logic object is released to the pool only when no session has it, and no
\* two sessions have the same one, whatever strands replace whose logic.
LogicOwned ==
  /\ \A s \in Session : logic[s] \notin pool
  /\ \A s, t \in Session : IsDefault(logic[s]) /\ logic[s] = logic[t] => s = t

\* While uids do not repeat, a session is promoted to a server only if it asked
\* for that itself, and is found under its own uid.
UidsDiffer == \A s, t \in 1..created : uid[s] = uid[t] => s = t
PromotedAsked ==
  UidsDiffer =>
    /\ \A s \in Session : logic[s] = ServerLogic => asked[s] \in ServerIds
    /\ \A u \in Uid : server[u] # None => uid[server[u]] = u

\* A session that has never asked for anything still has an unverified logic,
\* so that it may ask.
FreshIsUnverified ==
  \A s \in 1..created : asked[s] = "nothing" /\ IsDefault(logic[s]) => auth[logic[s]] = "before"

\* A managed server that closes is destroyed: the clean-up takes it out of the
\* managed map, and the move has taken it out of the unmanaged one.
ClosedIsDestroyed ==
  \A s \in Session :
    conn[s] = "closed" /\ Managed(s) ~> logic[s] = None \/ acceptor = "stopped"

=============================================================================
