------------------------ MODULE ThreadSafeObjectPool ------------------------
(***************************************************************************)
(* parallel_core::ThreadSafeObjectPool<T> for one T: a cache of free       *)
(* objects per thread id (ObjectPool, behind a Spinlock), found through    *)
(* ThreadCacheContiner, which the end of a thread cleans up through the    *)
(* listeners of ThreadWrapper.                                             *)
(*                                                                         *)
(* GET_CURRENT_THREAD_ID is GetCurrentThreadId() on Windows and getpid()   *)
(* on Linux: there all threads of the process have one id (sameId).        *)
(*                                                                         *)
(* A thread's call is a frame: pc, op, key, use, item, left.  Every lock   *)
(* taken, test and access to shared state is a step.  Look-ups without     *)
(* _mut are steps too: that they race inside std::unordered_map is below   *)
(* this model.  _count is left out: nothing reads it.                      *)
(***************************************************************************)
EXTENDS Naturals, Sequences, FiniteSets

CONSTANTS
  Thread,      \* the threads, numbers from 1
  SameIds,     \* whether all threads have one id: the builds to look at
  Ending,      \* the threads that createThread made, and that may end
  Quiets,      \* whether a thread ends only when nobody uses its id: the programs to look at
  MaxObjects,  \* bound: objects alive at a time
  MaxPools     \* bound: caches ever made

ASSUME ThreadAssumption ==
  /\ Thread \subseteq Nat \ {0} /\ Ending \subseteq Thread
  /\ SameIds \subseteq BOOLEAN /\ Quiets \subseteq BOOLEAN
ASSUME BoundAssumption == MaxObjects \in Nat /\ MaxPools \in Nat

VARIABLES
  sameId,       \* the build: all threads have one id
  quiet,        \* the program: a thread ends only when nobody uses its id
  threadIdMap,  \* _threadIdMap: the cache of an id, or None
  listeners,    \* _pidListenerMap: how many listeners an id has
  mut, mapMut,  \* _mut and _mapMut: who holds them
  made, live,   \* the caches constructed so far, and those not deleted
  stack,        \* _pool of a cache
  locked,       \* lock_variable of a cache's Spinlock
  owner,        \* its owner
  out,          \* the id in the deleter of an object that a client has
  pc, op,       \* of a thread: where it is, the call it is in
  key,          \* the id whose cache the call looks for
  use,          \* the cache it has found
  item,         \* the object it carries
  left,         \* listeners beforeDestroyThread has yet to call
  fault         \* undefined behaviour or a failed assertion

setup == <<sameId, quiet>>
map  == <<threadIdMap, listeners, mut, mapMut, made, live>>
lock == <<locked, owner>>
frame == <<op, key, use, item, left>>
vars == <<setup, map, stack, lock, out, pc, frame, fault>>

None == 0
Id == Thread \cup {1}
Pool == 1..MaxPools
Object == 1..MaxObjects

\* GET_CURRENT_THREAD_ID.  The wrong variant is getpid() everywhere.
W_IdOf(t) == 1
IdOf(t) == IF sameId THEN 1 ELSE t

InPool == {"size", "lock", "owner", "in", "unlock"}
Place == InPool \cup
  {"idle", "find", "mut", "insert", "register", "registered", "lookup",
   "mapMut", "notify", "delete", "erase", "ended"}
Op == {"get", "release", "clear", "relocked"}
Fault == {"none", "null_cache", "empty_top", "use_after_free", "assert"}

\* Where thread t is; nothing runs behind a fault.
At(t, at) == fault = "none" /\ pc[t] = at
AtPool(t, at) == At(t, at) /\ use[t] \in live
Goto(t, at) == pc' = [pc EXCEPT ![t] = at]

\* The call returns: its frame is gone.
Return(t) ==
  /\ Goto(t, "idle")
  /\ op' = [op EXCEPT ![t] = "get"] /\ key' = [key EXCEPT ![t] = IdOf(t)]
  /\ use' = [use EXCEPT ![t] = None] /\ item' = [item EXCEPT ![t] = None]
Top(p) == stack[p][Len(stack[p])]

\* What operator new may return: no object that a cache, a client or a thread has.
Fresh ==
  {o \in Object :
     /\ out[o] = None
     /\ \A t \in Thread : item[t] # o
     /\ \A p \in live : \A i \in 1..Len(stack[p]) : stack[p][i] # o}

(***************************************************************************)
(* Calls.                                                                  *)
(***************************************************************************)
\* get_shared(), on its way to the thread's own cache.
get_shared(t) ==
  /\ At(t, "idle") /\ Goto(t, "find")
  /\ op' = [op EXCEPT ![t] = "get"] /\ key' = [key EXCEPT ![t] = IdOf(t)]
  /\ UNCHANGED <<setup, map, stack, lock, out, use, item, left, fault>>

\* The deleter of the last shared_ptr: whichever thread runs it, the object
\* goes to the cache of the id that got it.
release(t) ==
  /\ At(t, "idle") /\ Goto(t, "find")
  /\ \E o \in Object :
       /\ out[o] # None
       /\ item' = [item EXCEPT ![t] = o]
       /\ key' = [key EXCEPT ![t] = out[o]]
       /\ out' = [out EXCEPT ![o] = None]
  /\ op' = [op EXCEPT ![t] = "release"]
  /\ UNCHANGED <<setup, map, stack, lock, use, left, fault>>

\* Nobody has an object of this id, nor is using its cache.
Quiet(i) ==
  /\ \A o \in Object : out[o] # i
  /\ \A t \in Thread : pc[t] \notin {"idle", "ended"} => key[t] # i

\* The function of a thread of createThread() returns.
beforeDestroyThread(t) ==
  /\ At(t, "idle") /\ t \in Ending /\ (quiet => Quiet(IdOf(t)))
  /\ Goto(t, "mapMut")
  /\ op' = [op EXCEPT ![t] = "clear"] /\ key' = [key EXCEPT ![t] = IdOf(t)]
  /\ UNCHANGED <<setup, map, stack, lock, out, use, item, left, fault>>

(***************************************************************************)
(* getThreadCache().                                                       *)
(***************************************************************************)
\* HAS_KEY without the lock.
Find(t) ==
  /\ At(t, "find")
  /\ Goto(t, IF threadIdMap[key[t]] = None THEN "mut" ELSE "lookup")
  /\ UNCHANGED <<setup, map, stack, lock, out, frame, fault>>

LockMut(t) ==
  /\ At(t, "mut") /\ mut = None /\ mut' = t
  /\ Goto(t, "insert")
  /\ UNCHANGED <<setup, threadIdMap, listeners, mapMut, made, live, stack, lock, out, frame, fault>>

\* A new cache; insert() leaves one that is there.
InsertCache(t) ==
  /\ At(t, "insert") /\ made < MaxPools
  /\ made' = made + 1 /\ live' = live \cup {made + 1}
  /\ use' = [use EXCEPT ![t] = made + 1]
  /\ threadIdMap' = [threadIdMap EXCEPT ![key[t]] = IF @ = None THEN made + 1 ELSE @]
  /\ Goto(t, "register")
  /\ UNCHANGED <<setup, listeners, mut, mapMut, stack, lock, out, op, key, item, left, fault>>

\* registerListener(), with _mut held.
registerListener(t) ==
  /\ At(t, "register") /\ mapMut = None
  /\ listeners' = [listeners EXCEPT ![key[t]] = @ + 1]
  /\ Goto(t, "registered")
  /\ UNCHANGED <<setup, threadIdMap, mut, mapMut, made, live, stack, lock, out, frame, fault>>

StartIn(t) == IF op[t] = "get" THEN "size" ELSE "lock"

\* The new cache was inserted, or is deleted in favour of the one that was.
LeaveMut(t) ==
  /\ At(t, "registered") /\ mut' = None
  /\ IF threadIdMap[key[t]] = use[t]
     THEN Goto(t, "lookup") /\ UNCHANGED <<live, use>>
     ELSE /\ live' = live \ {use[t]}
          /\ use' = [use EXCEPT ![t] = threadIdMap[key[t]]]
          /\ Goto(t, StartIn(t))
  /\ UNCHANGED <<setup, threadIdMap, listeners, mapMut, made, stack, lock, out, op, key, item, left, fault>>

\* _threadIdMap[threadId], which makes a null entry for an id it does not know.
Lookup(t) ==
  /\ At(t, "lookup")
  /\ IF threadIdMap[key[t]] = None
     THEN fault' = "null_cache" /\ UNCHANGED <<use, pc>>
     ELSE /\ use' = [use EXCEPT ![t] = threadIdMap[key[t]]]
          /\ Goto(t, StartIn(t)) /\ UNCHANGED fault
  /\ UNCHANGED <<setup, map, stack, lock, out, op, key, item, left>>

(***************************************************************************)
(* ObjectPool, behind its Spinlock.                                        *)
(***************************************************************************)
\* _pool.size() without the lock; when it is 0 the object is a new one.
TestSize(t) ==
  /\ AtPool(t, "size")
  /\ \/ stack[use[t]] # <<>> /\ Goto(t, "lock") /\ UNCHANGED <<out, op, key, use, item>>
     \/ /\ stack[use[t]] = <<>> /\ Return(t)
        /\ \E o \in Fresh : out' = [out EXCEPT ![o] = IdOf(t)]
  /\ UNCHANGED <<setup, map, stack, lock, left, fault>>

\* compare_exchange_strong succeeds.  In the wrong variant it may when it should not.
W_Free(p) == TRUE
Free(p) == ~locked[p]

Lock(t) ==
  /\ AtPool(t, "lock") /\ Free(use[t])
  /\ locked' = [locked EXCEPT ![use[t]] = TRUE]
  /\ Goto(t, "owner")
  /\ UNCHANGED <<setup, map, stack, owner, out, frame, fault>>

\* The store to owner behind it; forgotten in the wrong variant.
W_OwnedBy(p, t) == owner
OwnedBy(p, t) == [owner EXCEPT ![p] = t]

StoreOwner(t) ==
  /\ AtPool(t, "owner") /\ owner' = OwnedBy(use[t], t)
  /\ Goto(t, "in")
  /\ UNCHANGED <<setup, map, stack, locked, out, frame, fault>>

\* _pool.pop(), forgotten in the wrong variant.
W_Popped(p) == stack
Popped(p) == [stack EXCEPT ![p] = SubSeq(@, 1, Len(@) - 1)]

\* top() and pop(), for get() and in the loop of clear().
Pop(t) ==
  /\ AtPool(t, "in") /\ op[t] \in {"get", "clear"} /\ stack[use[t]] # <<>>
  /\ item' = [item EXCEPT ![t] = Top(use[t])]
  /\ stack' = Popped(use[t])
  /\ Goto(t, "unlock")
  /\ UNCHANGED <<setup, map, lock, out, op, key, use, left, fault>>

\* get() tests the size no more.
PopEmpty(t) ==
  /\ AtPool(t, "in") /\ op[t] = "get" /\ stack[use[t]] = <<>>
  /\ fault' = "empty_top"
  /\ UNCHANGED <<setup, map, stack, lock, out, pc, frame>>

\* What release() pushes; the wrong variant has reset the pointer before.
W_Pushed(t) == None
Pushed(t) == item[t]

Push(t) ==
  /\ AtPool(t, "in") /\ op[t] = "release"
  /\ stack' = [stack EXCEPT ![use[t]] = Append(@, Pushed(t))]
  /\ item' = [item EXCEPT ![t] = None]
  /\ Goto(t, "unlock")
  /\ UNCHANGED <<setup, map, lock, out, op, key, use, left, fault>>

\* clear() finds the pool empty, or has come back with the lock after a delete.
ClearNothing(t) ==
  /\ AtPool(t, "in")
  /\ op[t] = "relocked" \/ (op[t] = "clear" /\ stack[use[t]] = <<>>)
  /\ Goto(t, "unlock")
  /\ UNCHANGED <<setup, map, stack, lock, out, frame, fault>>

\* unlock() of thread t, which frees the lock only for its owner.
Unlocked(t) ==
  [locked EXCEPT ![use[t]] = IF owner[use[t]] = t THEN FALSE ELSE @]

UnlockGet(t) ==
  /\ AtPool(t, "unlock") /\ op[t] = "get" /\ locked' = Unlocked(t)
  /\ out' = [out EXCEPT ![item[t]] = IdOf(t)]
  /\ Return(t)
  /\ UNCHANGED <<setup, map, stack, owner, left, fault>>

UnlockRelease(t) ==
  /\ AtPool(t, "unlock") /\ op[t] = "release" /\ locked' = Unlocked(t)
  /\ Return(t)
  /\ UNCHANGED <<setup, map, stack, owner, out, left, fault>>

\* clear() unlocks to delete an object, and then locks again only to unlock
\* and start over; it is done when it found the pool empty.
UnlockClear(t) ==
  /\ AtPool(t, "unlock") /\ op[t] \in {"clear", "relocked"} /\ locked' = Unlocked(t)
  /\ \/ /\ op[t] = "clear" /\ item[t] # None
        /\ op' = [op EXCEPT ![t] = "relocked"] /\ Goto(t, "lock")
     \/ /\ op[t] = "relocked"
        /\ op' = [op EXCEPT ![t] = "clear"] /\ Goto(t, "lock")
     \/ /\ op[t] = "clear" /\ item[t] = None
        /\ Goto(t, "delete") /\ UNCHANGED op
  /\ item' = [item EXCEPT ![t] = None]
  /\ UNCHANGED <<setup, map, stack, owner, out, key, use, left, fault>>

\* Any access to a cache that has been deleted.
UseAfterFree(t) ==
  /\ fault = "none" /\ pc[t] \in InPool /\ use[t] \notin live
  /\ fault' = "use_after_free"
  /\ UNCHANGED <<setup, map, stack, lock, out, pc, frame>>

(***************************************************************************)
(* The end of a thread.                                                    *)
(***************************************************************************)
LockMapMut(t) ==
  /\ At(t, "mapMut") /\ mapMut = None /\ mapMut' = t
  /\ left' = [left EXCEPT ![t] = listeners[key[t]]]
  /\ Goto(t, "notify")
  /\ UNCHANGED <<setup, threadIdMap, listeners, mut, made, live, stack, lock, out, op, key, use, item, fault>>

\* onThreadClear() for the next listener, with _mapMut held.
onThreadClear(t) ==
  /\ At(t, "notify") /\ left[t] > 0 /\ mut = None /\ mut' = t
  /\ left' = [left EXCEPT ![t] = @ - 1]
  /\ IF threadIdMap[key[t]] = None
     THEN fault' = "assert" /\ UNCHANGED <<use, pc>>
     ELSE /\ use' = [use EXCEPT ![t] = threadIdMap[key[t]]]
          /\ Goto(t, "lock") /\ UNCHANGED fault
  /\ UNCHANGED <<setup, threadIdMap, listeners, mapMut, made, live, stack, lock, out, op, key, item>>

\* SAFE_DELETE(one), whose destructor was the loop of clear().
DeleteCache(t) ==
  /\ At(t, "delete") /\ live' = live \ {use[t]}
  /\ Goto(t, "erase")
  /\ UNCHANGED <<setup, threadIdMap, listeners, mut, mapMut, made, stack, lock, out, frame, fault>>

EraseCache(t) ==
  /\ At(t, "erase") /\ threadIdMap' = [threadIdMap EXCEPT ![key[t]] = None]
  /\ mut' = None
  /\ Goto(t, "notify")
  /\ UNCHANGED <<setup, listeners, mapMut, made, live, stack, lock, out, frame, fault>>

ThreadEnds(t) ==
  /\ At(t, "notify") /\ left[t] = 0
  /\ listeners' = [listeners EXCEPT ![key[t]] = 0] /\ mapMut' = None
  /\ Goto(t, "ended")
  /\ UNCHANGED <<setup, threadIdMap, mut, made, live, stack, lock, out, frame, fault>>

Init ==
  /\ sameId \in SameIds /\ quiet \in Quiets
  /\ threadIdMap = [i \in Id |-> None] /\ listeners = [i \in Id |-> 0]
  /\ mut = None /\ mapMut = None
  /\ made = 0 /\ live = {}
  /\ stack = [p \in Pool |-> <<>>]
  /\ locked = [p \in Pool |-> FALSE] /\ owner = [p \in Pool |-> None]
  /\ out = [o \in Object |-> None]
  /\ pc = [t \in Thread |-> "idle"] /\ op = [t \in Thread |-> "get"]
  /\ key = [t \in Thread |-> IdOf(t)] /\ use = [t \in Thread |-> None]
  /\ item = [t \in Thread |-> None] /\ left = [t \in Thread |-> 0]
  /\ fault = "none"

Call(t) == get_shared(t) \/ release(t) \/ beforeDestroyThread(t)
Cache(t) ==
  \/ Find(t) \/ LockMut(t) \/ InsertCache(t) \/ registerListener(t) \/ LeaveMut(t)
  \/ Lookup(t)
Pooled(t) ==
  \/ TestSize(t) \/ Lock(t) \/ StoreOwner(t) \/ Pop(t) \/ PopEmpty(t) \/ Push(t)
  \/ ClearNothing(t) \/ UnlockGet(t) \/ UnlockRelease(t) \/ UnlockClear(t)
  \/ UseAfterFree(t)
End(t) ==
  LockMapMut(t) \/ onThreadClear(t) \/ DeleteCache(t) \/ EraseCache(t) \/ ThreadEnds(t)

Next == \E t \in Thread : Call(t) \/ Cache(t) \/ Pooled(t) \/ End(t)

Spec == Init /\ [][Next]_vars

(***************************************************************************)
(* Properties.                                                             *)
(***************************************************************************)
MapOK ==
  /\ threadIdMap \in [Id -> 0..made] /\ listeners \in [Id -> Nat]
  /\ mut \in Thread \cup {None} /\ mapMut \in Thread \cup {None}
  /\ made \in 0..MaxPools /\ live \subseteq 1..made
PoolOK ==
  /\ stack \in [Pool -> Seq(Object)]
  /\ locked \in [Pool -> BOOLEAN] /\ owner \in [Pool -> Thread \cup {None}]
  /\ out \in [Object -> Id \cup {None}]
FrameOK ==
  /\ pc \in [Thread -> Place] /\ op \in [Thread -> Op]
  /\ key \in [Thread -> Id] /\ use \in [Thread -> 0..made]
  /\ item \in [Thread -> Object \cup {None}] /\ left \in [Thread -> Nat]

\* Every variable keeps its type.
TypeOK ==
  /\ sameId \in BOOLEAN /\ quiet \in BOOLEAN
  /\ MapOK /\ PoolOK /\ FrameOK
  /\ fault \in Fault

Holds(t, p) == pc[t] \in {"owner", "in", "unlock"} /\ use[t] = p

\* The Spinlock of a cache lets one thread at its stack, and is locked only
\* while a thread has it: the owner's unlock() always succeeds, also after
\* clear() has given the lock away in the middle of its loop.
MutualExclusion == \A p \in live : \A s, t \in Thread : Holds(s, p) /\ Holds(t, p) => s = t
NeverLeftLocked == \A p \in live : locked[p] => \E t \in Thread : Holds(t, p)

\* An object is with one client, in one call or once in one cache: it is never
\* handed to a second owner.
Places(o) ==
  (IF out[o] = None THEN {} ELSE {<<0, 0>>})
    \cup {<<0, t>> : t \in {t \in Thread : item[t] = o}}
    \cup UNION {{<<p, i>> : i \in {i \in 1..Len(stack[p]) : stack[p][i] = o}} : p \in live}
OneOwner == \A o \in Object : Cardinality(Places(o)) <= 1

\* Where threads have ids of their own and end only when nobody uses theirs,
\* get() never pops an empty stack, no call meets a deleted cache, and the end
\* of a thread finds the cache it is to clear.
NoFault == ~sameId /\ quiet => fault = "none"

\* The assertion of onThreadClear(), that an id which has a listener has a
\* cache, holds where threads have ids of their own, even when they end while
\* others still return objects to their caches.  With one id for all it fails:
\* two first calls at a time register two listeners for one cache.
ClearedHasCache == ~sameId => fault # "assert"

=============================================================================
