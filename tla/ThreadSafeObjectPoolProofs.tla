--------------------- MODULE ThreadSafeObjectPoolProofs ---------------------
(***************************************************************************)
(* Proofs about ThreadSafeObjectPool: the Spinlock of an object pool       *)
(* excludes, whichever threads share the cache and whenever caches come    *)
(* and go, no object gets a second owner, the end of a thread finds its    *)
(* cache, and a program that is quiet about ending threads meets no fault. *)
(***************************************************************************)
EXTENDS ThreadSafeObjectPool, FiniteSetTheorems, TLAPS

\* A release carries an object until it has pushed it, and the thread that
\* ends is in no other call.
Before == {"find", "mut", "insert", "register", "registered", "lookup", "size", "lock", "owner",
           "in"}
Carries == \A t \in Thread : pc[t] \in Before /\ op[t] = "release" => item[t] # None
EndsOnly == \A t \in Thread : pc[t] \in {"mapMut", "notify", "delete", "erase"} => op[t] = "clear"
TypeInv == TypeOK /\ Carries /\ EndsOnly

\* Who is past the compare-and-swap of a live cache has locked it, alone, and
\* is its owner one step later; a cache to come is not locked.
Past(t, p) == Holds(t, p) /\ p \in live
Guarded == \A t \in Thread, p \in Pool : Past(t, p) => locked[p]
Alone == \A s, t \in Thread, p \in Pool : Past(s, p) /\ Past(t, p) => s = t
Owned == \A t \in Thread, p \in Pool : Past(t, p) /\ pc[t] # "owner" => owner[p] = t
Kept == \A p \in Pool : p \in live /\ locked[p] => \E t \in Thread : Past(t, p)
Untouched == \A p \in Pool : p > made => ~locked[p]
LockInv == TypeInv /\ Guarded /\ Alone /\ Owned /\ Kept /\ Untouched

\* Ids and threads are numbers other than None.
LEMMA Ids ==
  /\ 1 \in Id /\ Thread \subseteq Id /\ \A t \in Thread : IdOf(t) \in Id
  /\ None \notin Thread /\ None = 0
  BY ThreadAssumption DEF Id, IdOf, None

\* What a call finds in the map, and the cache it is at.
LEMMA Found ==
  ASSUME TypeInv, NEW t \in Thread
  PROVE  /\ threadIdMap[key[t]] \in 0..made /\ 0 \in 0..made
         /\ use[t] \in live => use[t] \in Pool
         /\ listeners \in [Id -> Nat] /\ key[t] \in Id
         /\ listeners[key[t]] \in Nat /\ listeners[key[t]] + 1 \in Nat
<1> USE BoundAssumption DEF TypeInv, TypeOK, MapOK, FrameOK, Pool
<1>1. threadIdMap[key[t]] \in 0..made
  OBVIOUS
<1>2. 0 \in 0..made /\ 1..made \subseteq 1..MaxPools
  OBVIOUS
<1>3. listeners \in [Id -> Nat] /\ key[t] \in Id
  OBVIOUS
<1>4. listeners[key[t]] \in Nat /\ listeners[key[t]] + 1 \in Nat
  BY <1>3
<1>5. QED BY <1>1, <1>2, <1>3, <1>4

\* The ends of a sequence.
LEMMA Ends ==
  ASSUME NEW S, NEW s \in Seq(S)
  PROVE  /\ s # <<>> => s[Len(s)] \in S /\ SubSeq(s, 1, Len(s) - 1) \in Seq(S)
         /\ \A e \in S : Append(s, e) \in Seq(S)
<1>1. CASE s # <<>>
  <2>1. Len(s) \in Nat /\ Len(s) > 0 /\ s \in [1..Len(s) -> S]
    BY <1>1
  <2>2. SubSeq(s, 1, Len(s) - 1) = [i \in 1..Len(s) - 1 |-> s[i]]
    BY <2>1
  <2>3. QED BY <2>1, <2>2
<1>2. QED BY <1>1

\* A call of get_shared() starts.
LEMMA TypeGetShared ==
  ASSUME TypeInv, NEW t \in Thread, get_shared(t)
  PROVE  TypeInv'
<1> USE Ids, BoundAssumption DEF TypeInv, TypeOK, setup, map, lock, frame,
      None, get_shared, At, Goto
<1>1. MapOK'
  BY DEF MapOK, FrameOK, Pool
<1>2. PoolOK'
  BY DEF MapOK, PoolOK, FrameOK, Carries, Before
<1>3. FrameOK'
  BY DEF FrameOK, Place, InPool, Op
<1>4. Carries' /\ EndsOnly'
  BY DEF FrameOK, PoolOK, Carries, EndsOnly, Before, Object
<1>5. sameId' \in BOOLEAN /\ quiet' \in BOOLEAN /\ fault' \in Fault
  BY DEF Fault
<1>6. QED BY <1>1, <1>2, <1>3, <1>4, <1>5

\* A call of the deleter starts: it carries the object.
LEMMA TypeRelease ==
  ASSUME TypeInv, NEW t \in Thread, release(t)
  PROVE  TypeInv'
<1> USE Ids, BoundAssumption DEF TypeInv, TypeOK, setup, map, lock, frame,
      None, release, At, Goto
<1>1. MapOK'
  BY DEF MapOK, FrameOK, Pool
<1>2. PoolOK'
  BY DEF MapOK, PoolOK, FrameOK, Carries, Before, Object
<1>3. pc' \in [Thread -> Place]
  BY DEF FrameOK, Place, InPool
<1>4. op' \in [Thread -> Op]
  BY DEF FrameOK, Op
<1>5. key' \in [Thread -> Id]
  BY DEF FrameOK, PoolOK
<1>6. use' \in [Thread -> 0..made']
  BY Found DEF FrameOK
<1>7. item' \in [Thread -> Object \cup {None}]
  BY DEF FrameOK
<1>8. left' \in [Thread -> Nat]
  BY DEF FrameOK
<1>9. FrameOK'
  BY <1>3, <1>4, <1>5, <1>6, <1>7, <1>8 DEF FrameOK
<1>10. Carries' /\ EndsOnly'
  BY DEF FrameOK, PoolOK, Carries, EndsOnly, Before, Object
<1>11. sameId' \in BOOLEAN /\ quiet' \in BOOLEAN /\ fault' \in Fault
  BY DEF Fault
<1>12. QED BY <1>1, <1>2, <1>9, <1>10, <1>11

\* The end of a thread starts.
LEMMA TypeBeforeDestroyThread ==
  ASSUME TypeInv, NEW t \in Thread, beforeDestroyThread(t)
  PROVE  TypeInv'
<1> USE Ids, BoundAssumption DEF TypeInv, TypeOK, setup, map, lock, frame,
      None, beforeDestroyThread, At, Goto
<1>1. MapOK'
  BY DEF MapOK, FrameOK, Pool
<1>2. PoolOK'
  BY DEF MapOK, PoolOK, FrameOK, Carries, Before
<1>3. FrameOK'
  BY DEF FrameOK, Place, InPool, Op
<1>4. Carries' /\ EndsOnly'
  BY DEF FrameOK, PoolOK, Carries, EndsOnly, Before, Object
<1>5. sameId' \in BOOLEAN /\ quiet' \in BOOLEAN /\ fault' \in Fault
  BY DEF Fault
<1>6. QED BY <1>1, <1>2, <1>3, <1>4, <1>5

\* The unlocked look-up moves the call only.
LEMMA TypeFind ==
  ASSUME TypeInv, NEW t \in Thread, Find(t)
  PROVE  TypeInv'
<1> USE Ids, BoundAssumption DEF TypeInv, TypeOK, setup, map, lock, frame,
      None, Find, At, Goto
<1>1. MapOK'
  BY DEF MapOK, FrameOK, Pool
<1>2. PoolOK'
  BY DEF MapOK, PoolOK, FrameOK, Carries, Before
<1>3. FrameOK'
  BY DEF FrameOK, Place, InPool, Op
<1>4. Carries' /\ EndsOnly'
  BY DEF FrameOK, PoolOK, Carries, EndsOnly, Before, Object
<1>5. sameId' \in BOOLEAN /\ quiet' \in BOOLEAN /\ fault' \in Fault
  BY DEF Fault
<1>6. QED BY <1>1, <1>2, <1>3, <1>4, <1>5

\* _mut is taken.
LEMMA TypeLockMut ==
  ASSUME TypeInv, NEW t \in Thread, LockMut(t)
  PROVE  TypeInv'
<1> USE Ids, BoundAssumption DEF TypeInv, TypeOK, setup, map, lock, frame,
      None, LockMut, At, Goto
<1>1. MapOK'
  BY DEF MapOK, FrameOK, Pool
<1>2. PoolOK'
  BY DEF MapOK, PoolOK, FrameOK, Carries, Before
<1>3. FrameOK'
  BY DEF FrameOK, Place, InPool, Op
<1>4. Carries' /\ EndsOnly'
  BY DEF FrameOK, PoolOK, Carries, EndsOnly, Before, Object
<1>5. sameId' \in BOOLEAN /\ quiet' \in BOOLEAN /\ fault' \in Fault
  BY DEF Fault
<1>6. QED BY <1>1, <1>2, <1>3, <1>4, <1>5

\* A cache is made: the range of caches grows.
LEMMA TypeInsertCache ==
  ASSUME TypeInv, NEW t \in Thread, InsertCache(t)
  PROVE  TypeInv'
<1> USE Ids, BoundAssumption DEF TypeInv, TypeOK, setup, map, lock, frame,
      None, InsertCache, At, Goto
<1>1. MapOK'
  BY DEF MapOK, FrameOK, Pool
<1>2. PoolOK'
  BY DEF MapOK, PoolOK, FrameOK, Carries, Before
<1>3. pc' \in [Thread -> Place]
  BY DEF FrameOK, Place, InPool
<1>4. op' \in [Thread -> Op]
  BY DEF FrameOK, Op
<1>5. key' \in [Thread -> Id]
  BY DEF FrameOK
<1>6. use' \in [Thread -> 0..made']
  BY DEF FrameOK, MapOK
<1>7. item' \in [Thread -> Object \cup {None}]
  BY DEF FrameOK
<1>8. left' \in [Thread -> Nat]
  BY DEF FrameOK
<1>9. FrameOK'
  BY <1>3, <1>4, <1>5, <1>6, <1>7, <1>8 DEF FrameOK
<1>10. Carries' /\ EndsOnly'
  BY DEF FrameOK, PoolOK, Carries, EndsOnly, Before, Object
<1>11. sameId' \in BOOLEAN /\ quiet' \in BOOLEAN /\ fault' \in Fault
  BY DEF Fault
<1>12. QED BY <1>1, <1>2, <1>9, <1>10, <1>11

\* The number of listeners grows.
LEMMA TypeRegisterListener ==
  ASSUME TypeInv, NEW t \in Thread, registerListener(t)
  PROVE  TypeInv'
<1> USE Ids, BoundAssumption DEF TypeInv, TypeOK, setup, map, lock, frame,
      None, registerListener, At, Goto
<1>1. listeners' \in [Id -> Nat]
  BY Found
<1>2. MapOK'
  BY <1>1 DEF MapOK
<1>3. PoolOK'
  BY DEF MapOK, PoolOK, FrameOK, Carries, Before
<1>4. FrameOK'
  BY DEF FrameOK, Place, InPool, Op
<1>5. Carries' /\ EndsOnly'
  BY DEF FrameOK, PoolOK, Carries, EndsOnly, Before, Object
<1>6. sameId' \in BOOLEAN /\ quiet' \in BOOLEAN /\ fault' \in Fault
  BY DEF Fault
<1>7. QED BY <1>2, <1>3, <1>4, <1>5, <1>6

\* A superfluous cache goes; the call turns to the one in the map.
LEMMA TypeLeaveMut ==
  ASSUME TypeInv, NEW t \in Thread, LeaveMut(t)
  PROVE  TypeInv'
<1> USE Ids, BoundAssumption DEF TypeInv, TypeOK, setup, map, lock, frame,
      None, LeaveMut, At, Goto, StartIn
<1>1. MapOK'
  BY DEF MapOK, FrameOK, Pool
<1>2. PoolOK'
  BY DEF MapOK, PoolOK, FrameOK, Carries, Before
<1>3. pc' \in [Thread -> Place]
  BY DEF FrameOK, Place, InPool
<1>4. op' \in [Thread -> Op]
  BY DEF FrameOK, Op
<1>5. key' \in [Thread -> Id]
  BY DEF FrameOK
<1>6. use' \in [Thread -> 0..made']
  BY Found DEF FrameOK
<1>7. item' \in [Thread -> Object \cup {None}]
  BY DEF FrameOK
<1>8. left' \in [Thread -> Nat]
  BY DEF FrameOK
<1>9. FrameOK'
  BY <1>3, <1>4, <1>5, <1>6, <1>7, <1>8 DEF FrameOK
<1>10. Carries' /\ EndsOnly'
  BY DEF FrameOK, PoolOK, Carries, EndsOnly, Before, Object
<1>11. sameId' \in BOOLEAN /\ quiet' \in BOOLEAN /\ fault' \in Fault
  BY DEF Fault
<1>12. QED BY <1>1, <1>2, <1>9, <1>10, <1>11

\* The call turns to the cache in the map.
LEMMA TypeLookup ==
  ASSUME TypeInv, NEW t \in Thread, Lookup(t)
  PROVE  TypeInv'
<1> USE Ids, BoundAssumption DEF TypeInv, TypeOK, setup, map, lock, frame,
      None, Lookup, At, Goto, StartIn
<1>1. MapOK'
  BY DEF MapOK, FrameOK, Pool
<1>2. PoolOK'
  BY DEF MapOK, PoolOK, FrameOK, Carries, Before
<1>3. pc' \in [Thread -> Place]
  BY DEF FrameOK, Place, InPool
<1>4. op' \in [Thread -> Op]
  BY DEF FrameOK, Op
<1>5. key' \in [Thread -> Id]
  BY DEF FrameOK
<1>6. use' \in [Thread -> 0..made']
  BY Found DEF FrameOK
<1>7. item' \in [Thread -> Object \cup {None}]
  BY DEF FrameOK
<1>8. left' \in [Thread -> Nat]
  BY DEF FrameOK
<1>9. FrameOK'
  BY <1>3, <1>4, <1>5, <1>6, <1>7, <1>8 DEF FrameOK
<1>10. Carries' /\ EndsOnly'
  BY DEF FrameOK, PoolOK, Carries, EndsOnly, Before, Object
<1>11. sameId' \in BOOLEAN /\ quiet' \in BOOLEAN /\ fault' \in Fault
  BY DEF Fault
<1>12. QED BY <1>1, <1>2, <1>9, <1>10, <1>11

\* A new object is handed out, or the call goes for the lock.
LEMMA TypeTestSize ==
  ASSUME TypeInv, NEW t \in Thread, TestSize(t)
  PROVE  TypeInv'
<1> USE Ids, BoundAssumption DEF TypeInv, TypeOK, setup, map, lock, frame,
      None, TestSize, At, AtPool, Goto, Return
<1>1. MapOK'
  BY DEF MapOK, FrameOK, Pool
<1>2. out' \in [Object -> Id \cup {None}]
  BY DEF PoolOK
<1>3. PoolOK'
  BY <1>2 DEF PoolOK
<1>4. pc' \in [Thread -> Place]
  BY DEF FrameOK, Place, InPool
<1>5. op' \in [Thread -> Op]
  BY DEF FrameOK, Op
<1>6. key' \in [Thread -> Id]
  BY DEF FrameOK
<1>7. use' \in [Thread -> 0..made']
  <2>1. use \in [Thread -> 0..made] /\ 0 \in 0..made /\ made' = made
    BY Found DEF FrameOK
  <2>2. use' = use \/ use' = [use EXCEPT ![t] = 0]
    OBVIOUS
  <2> QED BY <2>1, <2>2, Zenon
<1>8. item' \in [Thread -> Object \cup {None}]
  BY DEF FrameOK
<1>9. left' \in [Thread -> Nat]
  BY DEF FrameOK
<1>10. FrameOK'
  BY <1>4, <1>5, <1>6, <1>7, <1>8, <1>9 DEF FrameOK
<1>11. ASSUME Goto(t, "lock"), UNCHANGED <<op, item>> PROVE Carries' /\ EndsOnly'
  BY <1>11 DEF FrameOK, Carries, EndsOnly, Before
<1>12. ASSUME Return(t) PROVE Carries' /\ EndsOnly'
  BY <1>12 DEF FrameOK, Carries, EndsOnly, Before
<1>13. Carries' /\ EndsOnly'
  BY <1>11, <1>12 DEF FrameOK
<1>14. sameId' \in BOOLEAN /\ quiet' \in BOOLEAN /\ fault' \in Fault
  BY DEF Fault
<1>15. QED BY <1>1, <1>3, <1>10, <1>13, <1>14

\* The lock is taken.
LEMMA TypeLock ==
  ASSUME TypeInv, NEW t \in Thread, Lock(t)
  PROVE  TypeInv'
<1> USE Ids, BoundAssumption DEF TypeInv, TypeOK, setup, map, lock, frame,
      None, Lock, At, AtPool, Goto, Free
<1>1. MapOK'
  BY DEF MapOK, FrameOK, Pool
<1>2. PoolOK'
  BY DEF MapOK, PoolOK, FrameOK, Carries, Before
<1>3. FrameOK'
  BY DEF FrameOK, Place, InPool, Op
<1>4. Carries' /\ EndsOnly'
  BY DEF FrameOK, PoolOK, Carries, EndsOnly, Before, Object
<1>5. sameId' \in BOOLEAN /\ quiet' \in BOOLEAN /\ fault' \in Fault
  BY DEF Fault
<1>6. QED BY <1>1, <1>2, <1>3, <1>4, <1>5

\* The owner is stored.
LEMMA TypeStoreOwner ==
  ASSUME TypeInv, NEW t \in Thread, StoreOwner(t)
  PROVE  TypeInv'
<1> USE Ids, BoundAssumption DEF TypeInv, TypeOK, setup, map, lock, frame,
      None, StoreOwner, At, AtPool, Goto, OwnedBy
<1>1. MapOK'
  BY DEF MapOK, FrameOK, Pool
<1>2. PoolOK'
  BY DEF MapOK, PoolOK, FrameOK, Carries, Before
<1>3. FrameOK'
  BY DEF FrameOK, Place, InPool, Op
<1>4. Carries' /\ EndsOnly'
  BY DEF FrameOK, PoolOK, Carries, EndsOnly, Before, Object
<1>5. sameId' \in BOOLEAN /\ quiet' \in BOOLEAN /\ fault' \in Fault
  BY DEF Fault
<1>6. QED BY <1>1, <1>2, <1>3, <1>4, <1>5

\* An object leaves the stack for the call.
LEMMA TypePop ==
  ASSUME TypeInv, NEW t \in Thread, Pop(t)
  PROVE  TypeInv'
<1> USE Ids, BoundAssumption DEF TypeInv, TypeOK, setup, map, lock, frame,
      None, Pop, At, AtPool, Goto, Popped, Top
<1>1. MapOK'
  BY DEF MapOK, FrameOK, Pool
<1>2. use[t] \in Pool /\ stack[use[t]] \in Seq(Object)
  BY Found DEF PoolOK
<1>3. Top(use[t]) \in Object /\ SubSeq(stack[use[t]], 1, Len(stack[use[t]]) - 1) \in Seq(Object)
  BY <1>2, Ends
<1>4. stack' \in [Pool -> Seq(Object)]
  BY <1>3 DEF PoolOK
<1>5. PoolOK'
  BY <1>4 DEF PoolOK
<1>6. pc' \in [Thread -> Place]
  BY DEF FrameOK, Place, InPool
<1>7. op' \in [Thread -> Op]
  BY DEF FrameOK, Op
<1>8. key' \in [Thread -> Id]
  BY DEF FrameOK
<1>9. use' \in [Thread -> 0..made']
  BY Found DEF FrameOK
<1>10. item' \in [Thread -> Object \cup {None}]
  BY <1>3 DEF FrameOK
<1>11. left' \in [Thread -> Nat]
  BY DEF FrameOK
<1>12. FrameOK'
  BY <1>6, <1>7, <1>8, <1>9, <1>10, <1>11 DEF FrameOK
<1>13. Carries' /\ EndsOnly'
  BY DEF FrameOK, PoolOK, Carries, EndsOnly, Before, Object
<1>14. sameId' \in BOOLEAN /\ quiet' \in BOOLEAN /\ fault' \in Fault
  BY DEF Fault
<1>15. QED BY <1>1, <1>5, <1>12, <1>13, <1>14

\* A fault moves nothing.
LEMMA TypePopEmpty ==
  ASSUME TypeInv, NEW t \in Thread, PopEmpty(t)
  PROVE  TypeInv'
<1> USE Ids, BoundAssumption DEF TypeInv, TypeOK, setup, map, lock, frame,
      None, PopEmpty, At, AtPool
<1>1. MapOK'
  BY DEF MapOK, FrameOK, Pool
<1>2. PoolOK'
  BY DEF MapOK, PoolOK, FrameOK, Carries, Before
<1>3. FrameOK'
  BY DEF FrameOK, Place, InPool, Op
<1>4. Carries' /\ EndsOnly'
  BY DEF FrameOK, PoolOK, Carries, EndsOnly, Before, Object
<1>5. sameId' \in BOOLEAN /\ quiet' \in BOOLEAN /\ fault' \in Fault
  BY DEF Fault
<1>6. QED BY <1>1, <1>2, <1>3, <1>4, <1>5

\* The object the call carries goes on the stack: that there is one is Carries.
LEMMA TypePush ==
  ASSUME TypeInv, NEW t \in Thread, Push(t)
  PROVE  TypeInv'
<1> USE Ids, BoundAssumption DEF TypeInv, TypeOK, setup, map, lock, frame,
      None, Push, At, AtPool, Goto, Pushed
<1>1. MapOK'
  BY DEF MapOK, FrameOK, Pool
<1>2. use[t] \in Pool /\ stack[use[t]] \in Seq(Object)
  BY Found DEF PoolOK
<1>3. item[t] \in Object
  BY DEF FrameOK, Carries, Before
<1>4. Append(stack[use[t]], item[t]) \in Seq(Object)
  BY <1>2, <1>3, Ends
<1>5. stack' \in [Pool -> Seq(Object)]
  BY <1>4 DEF PoolOK
<1>6. PoolOK'
  BY <1>5 DEF PoolOK
<1>7. FrameOK'
  BY DEF FrameOK, Place, InPool, Op
<1>8. Carries' /\ EndsOnly'
  BY DEF FrameOK, PoolOK, Carries, EndsOnly, Before, Object
<1>9. sameId' \in BOOLEAN /\ quiet' \in BOOLEAN /\ fault' \in Fault
  BY DEF Fault
<1>10. QED BY <1>1, <1>6, <1>7, <1>8, <1>9

\* clear() has nothing to take.
LEMMA TypeClearNothing ==
  ASSUME TypeInv, NEW t \in Thread, ClearNothing(t)
  PROVE  TypeInv'
<1> USE Ids, BoundAssumption DEF TypeInv, TypeOK, setup, map, lock, frame,
      None, ClearNothing, At, AtPool, Goto
<1>1. MapOK'
  BY DEF MapOK, FrameOK, Pool
<1>2. PoolOK'
  BY DEF MapOK, PoolOK, FrameOK, Carries, Before
<1>3. FrameOK'
  BY DEF FrameOK, Place, InPool, Op
<1>4. Carries' /\ EndsOnly'
  BY DEF FrameOK, PoolOK, Carries, EndsOnly, Before, Object
<1>5. sameId' \in BOOLEAN /\ quiet' \in BOOLEAN /\ fault' \in Fault
  BY DEF Fault
<1>6. QED BY <1>1, <1>2, <1>3, <1>4, <1>5

\* The object goes to the client.
LEMMA TypeUnlockGet ==
  ASSUME TypeInv, NEW t \in Thread, UnlockGet(t)
  PROVE  TypeInv'
<1> USE Ids, BoundAssumption DEF TypeInv, TypeOK, setup, map, lock, frame,
      None, UnlockGet, At, AtPool, Goto, Return, Unlocked
<1>1. MapOK'
  BY DEF MapOK, FrameOK, Pool
<1>2. PoolOK'
  BY DEF MapOK, PoolOK, FrameOK, Carries, Before
<1>3. pc' \in [Thread -> Place]
  BY DEF FrameOK, Place, InPool
<1>4. op' \in [Thread -> Op]
  BY DEF FrameOK, Op
<1>5. key' \in [Thread -> Id]
  BY DEF FrameOK
<1>6. use' \in [Thread -> 0..made']
  BY Found DEF FrameOK
<1>7. item' \in [Thread -> Object \cup {None}]
  BY DEF FrameOK
<1>8. left' \in [Thread -> Nat]
  BY DEF FrameOK
<1>9. FrameOK'
  BY <1>3, <1>4, <1>5, <1>6, <1>7, <1>8 DEF FrameOK
<1>10. Carries' /\ EndsOnly'
  BY DEF FrameOK, PoolOK, Carries, EndsOnly, Before, Object
<1>11. sameId' \in BOOLEAN /\ quiet' \in BOOLEAN /\ fault' \in Fault
  BY DEF Fault
<1>12. QED BY <1>1, <1>2, <1>9, <1>10, <1>11

\* The deleter returns.
LEMMA TypeUnlockRelease ==
  ASSUME TypeInv, NEW t \in Thread, UnlockRelease(t)
  PROVE  TypeInv'
<1> USE Ids, BoundAssumption DEF TypeInv, TypeOK, setup, map, lock, frame,
      None, UnlockRelease, At, AtPool, Goto, Return, Unlocked
<1>1. MapOK'
  BY DEF MapOK, FrameOK, Pool
<1>2. PoolOK'
  BY DEF MapOK, PoolOK, FrameOK, Carries, Before
<1>3. pc' \in [Thread -> Place]
  BY DEF FrameOK, Place, InPool
<1>4. op' \in [Thread -> Op]
  BY DEF FrameOK, Op
<1>5. key' \in [Thread -> Id]
  BY DEF FrameOK
<1>6. use' \in [Thread -> 0..made']
  BY Found DEF FrameOK
<1>7. item' \in [Thread -> Object \cup {None}]
  BY DEF FrameOK
<1>8. left' \in [Thread -> Nat]
  BY DEF FrameOK
<1>9. FrameOK'
  BY <1>3, <1>4, <1>5, <1>6, <1>7, <1>8 DEF FrameOK
<1>10. Carries' /\ EndsOnly'
  BY DEF FrameOK, PoolOK, Carries, EndsOnly, Before, Object
<1>11. sameId' \in BOOLEAN /\ quiet' \in BOOLEAN /\ fault' \in Fault
  BY DEF Fault
<1>12. QED BY <1>1, <1>2, <1>9, <1>10, <1>11

\* clear() goes around its loop or is done.
LEMMA TypeUnlockClear ==
  ASSUME TypeInv, NEW t \in Thread, UnlockClear(t)
  PROVE  TypeInv'
<1> USE Ids, BoundAssumption DEF TypeInv, TypeOK, setup, map, lock, frame,
      None, UnlockClear, At, AtPool, Goto, Unlocked
<1>1. MapOK'
  BY DEF MapOK, FrameOK, Pool
<1>2. PoolOK'
  BY DEF MapOK, PoolOK, FrameOK, Carries, Before
<1>3. pc' \in [Thread -> Place]
  BY DEF FrameOK, Place, InPool
<1>4. op' \in [Thread -> Op]
  BY DEF FrameOK, Op
<1>5. key' \in [Thread -> Id]
  BY DEF FrameOK
<1>6. use' \in [Thread -> 0..made']
  BY Found DEF FrameOK
<1>7. item' \in [Thread -> Object \cup {None}]
  BY DEF FrameOK
<1>8. left' \in [Thread -> Nat]
  BY DEF FrameOK
<1>9. FrameOK'
  BY <1>3, <1>4, <1>5, <1>6, <1>7, <1>8 DEF FrameOK
<1>10. Carries' /\ EndsOnly'
  <2>1. Carries'
    BY DEF FrameOK, Carries, Before
  <2>2. EndsOnly'
    BY DEF FrameOK, EndsOnly
  <2> QED BY <2>1, <2>2
<1>11. sameId' \in BOOLEAN /\ quiet' \in BOOLEAN /\ fault' \in Fault
  BY DEF Fault
<1>12. QED BY <1>1, <1>2, <1>9, <1>10, <1>11

\* A fault moves nothing.
LEMMA TypeUseAfterFree ==
  ASSUME TypeInv, NEW t \in Thread, UseAfterFree(t)
  PROVE  TypeInv'
<1> USE Ids, BoundAssumption DEF TypeInv, TypeOK, setup, map, lock, frame,
      None, UseAfterFree
<1>1. MapOK'
  BY DEF MapOK, FrameOK, Pool
<1>2. PoolOK'
  BY DEF MapOK, PoolOK, FrameOK, Carries, Before
<1>3. FrameOK'
  BY DEF FrameOK, Place, InPool, Op
<1>4. Carries' /\ EndsOnly'
  BY DEF FrameOK, PoolOK, Carries, EndsOnly, Before, Object
<1>5. sameId' \in BOOLEAN /\ quiet' \in BOOLEAN /\ fault' \in Fault
  BY DEF Fault
<1>6. QED BY <1>1, <1>2, <1>3, <1>4, <1>5

\* _mapMut is taken and the listeners are counted.
LEMMA TypeLockMapMut ==
  ASSUME TypeInv, NEW t \in Thread, LockMapMut(t)
  PROVE  TypeInv'
<1> USE Ids, BoundAssumption DEF TypeInv, TypeOK, setup, map, lock, frame,
      None, LockMapMut, At, Goto
<1>1. MapOK'
  BY DEF MapOK, FrameOK, Pool
<1>2. PoolOK'
  BY DEF MapOK, PoolOK, FrameOK, Carries, Before
<1>3. FrameOK'
  BY Found DEF FrameOK, Place, InPool, Op
<1>4. Carries' /\ EndsOnly'
  BY DEF FrameOK, PoolOK, Carries, EndsOnly, Before, Object
<1>5. sameId' \in BOOLEAN /\ quiet' \in BOOLEAN /\ fault' \in Fault
  BY DEF Fault
<1>6. QED BY <1>1, <1>2, <1>3, <1>4, <1>5

\* The next listener takes _mut and finds the cache, or asserts.
LEMMA TypeOnThreadClear ==
  ASSUME TypeInv, NEW t \in Thread, onThreadClear(t)
  PROVE  TypeInv'
<1> USE Ids, BoundAssumption DEF TypeInv, TypeOK, setup, map, lock, frame,
      None, onThreadClear, At, Goto
<1>1. MapOK'
  BY DEF MapOK, FrameOK, Pool
<1>2. PoolOK'
  BY DEF MapOK, PoolOK, FrameOK, Carries, Before
<1>3. pc' \in [Thread -> Place]
  BY DEF FrameOK, Place, InPool
<1>4. op' \in [Thread -> Op]
  BY DEF FrameOK, Op
<1>5. key' \in [Thread -> Id]
  BY DEF FrameOK
<1>6. use' \in [Thread -> 0..made']
  BY Found DEF FrameOK
<1>7. item' \in [Thread -> Object \cup {None}]
  BY DEF FrameOK
<1>8. left' \in [Thread -> Nat]
  BY DEF FrameOK
<1>9. FrameOK'
  BY <1>3, <1>4, <1>5, <1>6, <1>7, <1>8 DEF FrameOK
<1>10. Carries' /\ EndsOnly'
  BY DEF FrameOK, PoolOK, Carries, EndsOnly, Before, Object
<1>11. sameId' \in BOOLEAN /\ quiet' \in BOOLEAN /\ fault' \in Fault
  BY DEF Fault
<1>12. QED BY <1>1, <1>2, <1>9, <1>10, <1>11

\* A cache goes.
LEMMA TypeDeleteCache ==
  ASSUME TypeInv, NEW t \in Thread, DeleteCache(t)
  PROVE  TypeInv'
<1> USE Ids, BoundAssumption DEF TypeInv, TypeOK, setup, map, lock, frame,
      None, DeleteCache, At, Goto
<1>1. MapOK'
  BY DEF MapOK, FrameOK, Pool
<1>2. PoolOK'
  BY DEF MapOK, PoolOK, FrameOK, Carries, Before
<1>3. FrameOK'
  BY DEF FrameOK, Place, InPool, Op
<1>4. Carries' /\ EndsOnly'
  BY DEF FrameOK, PoolOK, Carries, EndsOnly, Before, Object
<1>5. sameId' \in BOOLEAN /\ quiet' \in BOOLEAN /\ fault' \in Fault
  BY DEF Fault
<1>6. QED BY <1>1, <1>2, <1>3, <1>4, <1>5

\* Its entry goes.
LEMMA TypeEraseCache ==
  ASSUME TypeInv, NEW t \in Thread, EraseCache(t)
  PROVE  TypeInv'
<1> USE Ids, BoundAssumption DEF TypeInv, TypeOK, setup, map, lock, frame,
      None, EraseCache, At, Goto
<1>1. MapOK'
  BY DEF MapOK, FrameOK, Pool
<1>2. PoolOK'
  BY DEF MapOK, PoolOK, FrameOK, Carries, Before
<1>3. FrameOK'
  BY DEF FrameOK, Place, InPool, Op
<1>4. Carries' /\ EndsOnly'
  BY DEF FrameOK, PoolOK, Carries, EndsOnly, Before, Object
<1>5. sameId' \in BOOLEAN /\ quiet' \in BOOLEAN /\ fault' \in Fault
  BY DEF Fault
<1>6. QED BY <1>1, <1>2, <1>3, <1>4, <1>5

\* The listeners of the id go.
LEMMA TypeThreadEnds ==
  ASSUME TypeInv, NEW t \in Thread, ThreadEnds(t)
  PROVE  TypeInv'
<1> USE Ids, BoundAssumption DEF TypeInv, TypeOK, setup, map, lock, frame,
      None, ThreadEnds, At, Goto
<1>1. MapOK'
  BY DEF MapOK, FrameOK, Pool
<1>2. PoolOK'
  BY DEF MapOK, PoolOK, FrameOK, Carries, Before
<1>3. FrameOK'
  BY DEF FrameOK, Place, InPool, Op
<1>4. Carries' /\ EndsOnly'
  BY DEF FrameOK, PoolOK, Carries, EndsOnly, Before, Object
<1>5. sameId' \in BOOLEAN /\ quiet' \in BOOLEAN /\ fault' \in Fault
  BY DEF Fault
<1>6. QED BY <1>1, <1>2, <1>3, <1>4, <1>5

(***************************************************************************)
(* The lock.                                                               *)
(***************************************************************************)
\* A step that leaves the locks alone and puts nobody past one.
LEMMA LocksLeft ==
  ASSUME LockInv, TypeInv', UNCHANGED lock, made' >= made,
         \A p \in Pool : p \in live' /\ locked[p] => p \in live,
         \A s \in Thread, p \in Pool :
           Past(s, p)' => Past(s, p) /\ (pc'[s] # "owner" => pc[s] # "owner"),
         \A s \in Thread, p \in Pool : Past(s, p) /\ p \in live' => Past(s, p)'
  PROVE  LockInv'
<1> USE DEF lock
<1>1. made \in Nat /\ made' \in Nat /\ Pool \subseteq Nat
  BY BoundAssumption DEF LockInv, TypeInv, TypeOK, MapOK, Pool
<1>2. Guarded'
  BY DEF LockInv, Guarded
<1>3. Alone'
  BY DEF LockInv, Alone
<1>4. Owned'
  BY DEF LockInv, Owned
<1>5. Kept'
  BY DEF LockInv, Kept
<1>6. Untouched'
  BY <1>1 DEF LockInv, Untouched
<1>7. QED BY <1>2, <1>3, <1>4, <1>5, <1>6 DEF LockInv

\* A step of t that stays on its side of every lock, and deletes no cache
\* another thread is not told of: one of the actions outside the Spinlock.
LEMMA OutsideLeft ==
  ASSUME LockInv, TypeInv', NEW t \in Thread, UNCHANGED <<lock, made, live>>,
         pc[t] \notin {"owner", "in", "unlock"}, pc'[t] \notin {"owner", "in", "unlock"},
         \A s \in Thread \ {t} : pc'[s] = pc[s] /\ use'[s] = use[s]
  PROVE  LockInv'
<1>1. made' >= made
  BY BoundAssumption DEF LockInv, TypeInv, TypeOK, MapOK
<1>2. \A s \in Thread, p \in Pool : Past(s, p)' <=> Past(s, p)
  BY DEF Past, Holds
<1>3. \A s \in Thread, p \in Pool : Past(s, p) => pc'[s] = pc[s]
  BY DEF Past, Holds
<1>4. QED BY <1>1, <1>2, <1>3, LocksLeft

\* unlock() by the thread that is past the lock.
LEMMA UnlockLeft ==
  ASSUME LockInv, TypeInv', NEW t \in Thread, UNCHANGED <<owner, made, live>>,
         AtPool(t, "unlock"), locked' = Unlocked(t),
         pc'[t] \notin {"owner", "in", "unlock"},
         \A s \in Thread \ {t} : pc'[s] = pc[s] /\ use'[s] = use[s]
  PROVE  LockInv'
<1> DEFINE q == use[t]
<1>1. q \in Pool /\ Past(t, q) /\ owner[q] = t
  BY Found DEF LockInv, Owned, Past, Holds, AtPool, At
<1>2. locked \in [Pool -> BOOLEAN]
  BY DEF LockInv, TypeInv, TypeOK, PoolOK
<1>3. ~locked'[q] /\ \A p \in Pool : p # q => locked'[p] = locked[p]
  BY <1>1, <1>2 DEF Unlocked
<1>4. \A s \in Thread, p \in Pool : Past(s, p)' <=> Past(s, p) /\ s # t
  BY DEF Past, Holds
<1>5. \A s \in Thread, p \in Pool : Past(s, p)' => Past(s, p) /\ p # q
  BY <1>1, <1>4 DEF LockInv, Alone
<1>6. Guarded' /\ Alone'
  BY <1>3, <1>4, <1>5 DEF LockInv, Guarded, Alone
<1>7. Owned'
  BY <1>4 DEF LockInv, Owned, Past, Holds
<1>8. Kept'
  <2> SUFFICES ASSUME NEW p \in Pool, p \in live, locked'[p] PROVE \E s \in Thread : Past(s, p)'
    BY DEF Kept
  <2>1. p # q /\ locked[p]
    BY <1>3
  <2>2. PICK s \in Thread : Past(s, p)
    BY <2>1 DEF LockInv, Kept
  <2>3. s # t
    BY <2>1, <2>2 DEF Past, Holds
  <2>4. QED BY <2>2, <2>3, <1>4
<1>9. Untouched'
  BY <1>3 DEF LockInv, Untouched
<1>10. QED BY <1>6, <1>7, <1>8, <1>9 DEF LockInv

\* The compare-and-swap.
LEMMA LockLeft ==
  ASSUME LockInv, TypeInv', NEW t \in Thread, Lock(t)
  PROVE  LockInv'
<1> DEFINE q == use[t]
<1>1. q \in Pool /\ q \in live /\ ~locked[q] /\ pc[t] = "lock"
  BY Found DEF Lock, AtPool, At, Free, LockInv
<1>2. UNCHANGED <<owner, made, live, use>> /\ locked \in [Pool -> BOOLEAN] /\ pc \in [Thread -> Place]
  BY DEF Lock, map, frame, LockInv, TypeInv, TypeOK, PoolOK, FrameOK
<1>3. locked'[q] /\ \A p \in Pool : p # q => locked'[p] = locked[p]
  BY <1>1, <1>2 DEF Lock
<1>4. pc'[t] = "owner" /\ \A s \in Thread : s # t => pc'[s] = pc[s]
  BY <1>2 DEF Lock, Goto
<1>5. \A s \in Thread : ~Past(s, q)
  BY <1>1 DEF LockInv, Guarded
<1>6. \A s \in Thread, p \in Pool : Past(s, p)' <=> Past(s, p) \/ (s = t /\ p = q)
  BY <1>1, <1>2, <1>4 DEF Past, Holds
<1>7. Guarded' /\ Alone'
  BY <1>3, <1>5, <1>6 DEF LockInv, Guarded, Alone
<1>8. Owned'
  BY <1>2, <1>4, <1>6 DEF LockInv, Owned
<1>9. Kept'
  BY <1>2, <1>3, <1>6 DEF LockInv, Kept
<1>10. Untouched'
  <2>1. q \in 1..made /\ made' = made
    BY <1>1, <1>2 DEF LockInv, TypeInv, TypeOK, MapOK
  <2>2. made \in Nat /\ Pool \subseteq Nat
    BY BoundAssumption DEF LockInv, TypeInv, TypeOK, MapOK, Pool
  <2>3. \A p \in Pool : p > made => p # q
    BY <2>1, <2>2
  <2>4. QED BY <1>3, <2>1, <2>3 DEF LockInv, Untouched
<1>11. QED BY <1>7, <1>8, <1>9, <1>10 DEF LockInv

\* The store of the owner, which only the thread past the lock does.
LEMMA StoreOwnerLeft ==
  ASSUME LockInv, TypeInv', NEW t \in Thread, StoreOwner(t)
  PROVE  LockInv'
<1> DEFINE q == use[t]
<1>1. q \in Pool /\ Past(t, q) /\ pc[t] = "owner"
  BY Found DEF StoreOwner, AtPool, At, LockInv, Past, Holds
<1>2. UNCHANGED <<locked, made, live, use>> /\ pc \in [Thread -> Place]
      /\ owner \in [Pool -> Thread \cup {None}]
  BY DEF StoreOwner, map, frame, LockInv, TypeInv, TypeOK, PoolOK, FrameOK
<1>3. owner'[q] = t /\ \A p \in Pool : p # q => owner'[p] = owner[p]
  BY <1>1, <1>2 DEF StoreOwner, OwnedBy
<1>4. pc'[t] = "in" /\ \A s \in Thread : s # t => pc'[s] = pc[s]
  BY <1>2 DEF StoreOwner, Goto
<1>5. \A s \in Thread, p \in Pool : Past(s, p)' <=> Past(s, p)
  BY <1>1, <1>2, <1>4 DEF Past, Holds
<1>6. Guarded' /\ Alone' /\ Untouched'
  BY <1>2, <1>5 DEF LockInv, Guarded, Alone, Untouched
<1>7. Kept'
  BY <1>2, <1>5 DEF LockInv, Kept
<1>8. Owned'
  <2> SUFFICES ASSUME NEW s \in Thread, NEW p \in Pool, Past(s, p), pc'[s] # "owner"
               PROVE  owner'[p] = s
    BY <1>5 DEF Owned
  <2>1. CASE s = t
    BY <2>1, <1>1, <1>3 DEF Past, Holds
  <2>2. CASE s # t
    <3>1. p # q
      BY <2>2, <1>1 DEF LockInv, Alone
    <3>2. QED BY <3>1, <2>2, <1>3, <1>4 DEF LockInv, Owned
  <2>3. QED BY <2>1, <2>2
<1>9. QED BY <1>6, <1>7, <1>8 DEF LockInv

\* A step on the stack, with the lock.
LEMMA InsideLeft ==
  ASSUME LockInv, TypeInv', NEW t \in Thread, UNCHANGED <<lock, made, live, use>>,
         pc[t] = "in", Goto(t, "unlock")
  PROVE  LockInv'
<1>1. made' >= made /\ pc \in [Thread -> Place]
  BY BoundAssumption DEF LockInv, TypeInv, TypeOK, MapOK, FrameOK
<1>2. pc'[t] = "unlock" /\ \A s \in Thread : s # t => pc'[s] = pc[s]
  BY <1>1 DEF Goto
<1>3. \A s \in Thread, p \in Pool : Past(s, p)' <=> Past(s, p)
  BY <1>2 DEF Past, Holds
<1>4. QED BY <1>1, <1>2, <1>3, LocksLeft

\* A cache is made, or one is deleted.
LEMMA CachesLeft ==
  ASSUME LockInv, TypeInv', NEW t \in Thread,
         InsertCache(t) \/ LeaveMut(t) \/ DeleteCache(t)
  PROVE  LockInv'
<1> USE DEF InsertCache, LeaveMut, DeleteCache
<1>1. pc \in [Thread -> Place] /\ use \in [Thread -> 0..made] /\ made \in Nat /\ live \subseteq 1..made
  BY BoundAssumption DEF LockInv, TypeInv, TypeOK, FrameOK, MapOK
<1>2. pc[t] \notin {"owner", "in", "unlock"} /\ pc'[t] \notin {"owner", "in", "unlock"}
  BY <1>1 DEF At, Goto, StartIn
<1>3. \A s \in Thread \ {t} : pc'[s] = pc[s] /\ use'[s] = use[s]
  BY <1>1 DEF Goto, frame
<1>4. UNCHANGED lock
  OBVIOUS
<1>5. made' >= made
  BY <1>1 DEF frame
<1>6. live' \subseteq live \/ (live' = live \cup {made + 1} /\ made + 1 \in Pool)
  <2>1. CASE InsertCache(t)
    <3>1. live' = live \cup {made + 1} /\ made < MaxPools
      BY <2>1
    <3>2. QED BY <3>1, <1>1, BoundAssumption DEF Pool
  <2>2. CASE LeaveMut(t) \/ DeleteCache(t)
    BY <2>2
  <2>3. QED BY <2>1, <2>2
<1>7. \A p \in Pool : p \in live' /\ locked[p] => p \in live
  <2>1. made + 1 \in Pool => ~locked[made + 1]
    BY <1>1 DEF LockInv, Untouched
  <2>2. QED BY <1>6, <2>1
<1>8. \A s \in Thread, p \in Pool : Past(s, p)' => Past(s, p)
  <2> SUFFICES ASSUME NEW s \in Thread, NEW p \in Pool, Past(s, p)' PROVE Past(s, p)
    OBVIOUS
  <2>1. s # t /\ Holds(s, p)
    BY <1>2, <1>3 DEF Past, Holds
  <2>2. p # made + 1
    BY <2>1, <1>1 DEF Holds
  <2>3. QED BY <2>1, <2>2, <1>6 DEF Past
<1>9. \A s \in Thread, p \in Pool : Past(s, p) /\ p \in live' => Past(s, p)'
  BY <1>2, <1>3 DEF Past, Holds
<1>10. \A s \in Thread, p \in Pool : Past(s, p) => pc'[s] = pc[s]
  BY <1>2, <1>3 DEF Past, Holds
<1>11. QED BY <1>4, <1>5, <1>7, <1>8, <1>9, <1>10, LocksLeft

(***************************************************************************)
(* The specification.                                                      *)
(***************************************************************************)
\* The invariant holds at first.
LEMMA InitInv ==
  Init => LockInv
<1> SUFFICES ASSUME Init PROVE LockInv
  OBVIOUS
<1> USE Ids, BoundAssumption, ThreadAssumption DEF Init
<1>1. MapOK
  BY DEF MapOK
<1>2. PoolOK
  BY DEF PoolOK
<1>3. FrameOK
  BY DEF FrameOK, Place, Op, None
<1>4. TypeInv
  BY <1>1, <1>2, <1>3 DEF TypeInv, TypeOK, Carries, EndsOnly, Fault
<1>5. Guarded /\ Alone /\ Owned /\ Kept /\ Untouched
  BY DEF Guarded, Alone, Owned, Kept, Untouched, Past
<1>6. QED BY <1>4, <1>5 DEF LockInv

\* Every step keeps the types.
LEMMA TypeStep ==
  TypeInv /\ [Next]_vars => TypeInv'
<1> SUFFICES ASSUME TypeInv, [Next]_vars PROVE TypeInv'
  OBVIOUS
<1>1. CASE UNCHANGED vars
  BY <1>1 DEF vars, setup, map, lock, frame, TypeInv, TypeOK, MapOK, PoolOK, FrameOK, Carries, EndsOnly
<1>2. ASSUME NEW t \in Thread, Call(t) PROVE TypeInv'
  BY <1>2, TypeGetShared, TypeRelease, TypeBeforeDestroyThread DEF Call
<1>3. ASSUME NEW t \in Thread, Cache(t) PROVE TypeInv'
  BY <1>3, TypeFind, TypeLockMut, TypeInsertCache, TypeRegisterListener, TypeLeaveMut, TypeLookup
     DEF Cache
<1>4. ASSUME NEW t \in Thread, Pooled(t) PROVE TypeInv'
  BY <1>4, TypeTestSize, TypeLock, TypeStoreOwner, TypePop, TypePopEmpty, TypePush,
     TypeClearNothing, TypeUnlockGet, TypeUnlockRelease, TypeUnlockClear, TypeUseAfterFree
     DEF Pooled
<1>5. ASSUME NEW t \in Thread, End(t) PROVE TypeInv'
  BY <1>5, TypeLockMapMut, TypeOnThreadClear, TypeDeleteCache, TypeEraseCache, TypeThreadEnds
     DEF End
<1>6. QED BY <1>1, <1>2, <1>3, <1>4, <1>5 DEF Next

\* Every step keeps the lock's invariant.
LEMMA LockStep ==
  LockInv /\ [Next]_vars => LockInv'
<1> SUFFICES ASSUME LockInv, [Next]_vars PROVE LockInv'
  OBVIOUS
<1>1. TypeInv'
  BY TypeStep DEF LockInv
<1>2. CASE UNCHANGED vars
  BY <1>1, <1>2 DEF vars, map, lock, frame, LockInv, Guarded, Alone, Owned, Kept, Untouched, Past, Holds
<1>3. ASSUME NEW t \in Thread, Call(t) \/ Cache(t) \/ Pooled(t) \/ End(t) PROVE LockInv'
  <2> USE <1>1 DEF setup, map, lock, frame
  <2>1. pc \in [Thread -> Place] /\ use \in [Thread -> 0..made]
    BY DEF LockInv, TypeInv, TypeOK, FrameOK
  <2> DEFINE Others == \A s \in Thread \ {t} : pc'[s] = pc[s] /\ use'[s] = use[s]
             Outside(a) == a \notin {"owner", "in", "unlock"}
  <2>2. CASE InsertCache(t) \/ LeaveMut(t) \/ DeleteCache(t)
    BY <2>2, CachesLeft
  <2>3. CASE Lock(t)
    BY <2>3, LockLeft
  <2>4. CASE StoreOwner(t)
    BY <2>4, StoreOwnerLeft
  <2>5. CASE Pop(t) \/ Push(t) \/ ClearNothing(t)
    <3>1. UNCHANGED <<lock, made, live, use>> /\ pc[t] = "in" /\ Goto(t, "unlock")
      BY <2>5 DEF Pop, Push, ClearNothing, AtPool, At
    <3>2. QED BY <3>1, InsideLeft
  <2>6. CASE PopEmpty(t) \/ UseAfterFree(t)
    <3>1. UNCHANGED <<map, lock, pc, use>>
      BY <2>6 DEF PopEmpty, UseAfterFree
    <3>2. QED BY <3>1 DEF LockInv, Guarded, Alone, Owned, Kept, Untouched, Past, Holds
  <2>7. CASE UnlockGet(t) \/ UnlockRelease(t) \/ UnlockClear(t)
    <3>1. UNCHANGED <<owner, made, live>> /\ AtPool(t, "unlock") /\ locked' = Unlocked(t)
      BY <2>7 DEF UnlockGet, UnlockRelease, UnlockClear
    <3>2. Outside(pc'[t]) /\ Others
      BY <2>7, <2>1 DEF UnlockGet, UnlockRelease, UnlockClear, Return, Goto
    <3>3. QED BY <3>1, <3>2, UnlockLeft
  <2>8. CASE Call(t)
    <3>1. UNCHANGED <<lock, made, live, use>> /\ Outside(pc[t]) /\ Outside(pc'[t]) /\ Others
      BY <2>8, <2>1 DEF Call, get_shared, release, beforeDestroyThread, At, Goto
    <3>2. QED BY <3>1, OutsideLeft
  <2>9. CASE Find(t) \/ LockMut(t) \/ registerListener(t) \/ Lookup(t) \/ TestSize(t)
    <3>1. UNCHANGED <<lock, made, live>> /\ Outside(pc[t]) /\ Outside(pc'[t]) /\ Others
      BY <2>9, <2>1 DEF Find, LockMut, registerListener, Lookup, TestSize, AtPool, At, Goto,
         Return, StartIn
    <3>2. QED BY <3>1, OutsideLeft
  <2>10. CASE LockMapMut(t) \/ onThreadClear(t) \/ EraseCache(t) \/ ThreadEnds(t)
    <3>1. UNCHANGED <<lock, made, live>> /\ Outside(pc[t]) /\ Outside(pc'[t]) /\ Others
      BY <2>10, <2>1 DEF LockMapMut, onThreadClear, EraseCache, ThreadEnds, At, Goto
    <3>2. QED BY <3>1, OutsideLeft
  <2>11. QED
    BY <1>3, <2>2, <2>3, <2>4, <2>5, <2>6, <2>7, <2>8, <2>9, <2>10 DEF Cache, Pooled, End
<1>4. QED BY <1>2, <1>3 DEF Next

\* Every state of the pool satisfies the invariant.
THEOREM LockInvAlways == Spec => []LockInv
<1>1. QED BY InitInv, LockStep, PTL DEF Spec

\* The types are kept, whichever thread runs which call.
THEOREM PoolTypeCorrect == Spec => []TypeOK
<1>1. LockInv => TypeOK
  BY DEF LockInv, TypeInv
<1>2. QED BY <1>1, LockInvAlways, PTL

\* At most one thread is past the compare-and-swap of a cache's Spinlock.
THEOREM SpinlockExcludes == Spec => []MutualExclusion
<1>1. LockInv => MutualExclusion
  <2> SUFFICES ASSUME LockInv PROVE MutualExclusion
    OBVIOUS
  <2>1. live \subseteq Pool
    BY BoundAssumption DEF LockInv, TypeInv, TypeOK, MapOK, Pool
  <2>2. QED BY <2>1 DEF LockInv, Alone, MutualExclusion, Past
<1>2. QED BY <1>1, LockInvAlways, PTL

\* A locked Spinlock has a thread that will unlock it: no unlock() is refused.
THEOREM SpinlockReturned == Spec => []NeverLeftLocked
<1>1. LockInv => NeverLeftLocked
  <2> SUFFICES ASSUME LockInv PROVE NeverLeftLocked
    OBVIOUS
  <2>1. live \subseteq Pool
    BY BoundAssumption DEF LockInv, TypeInv, TypeOK, MapOK, Pool
  <2>2. QED BY <2>1 DEF LockInv, Kept, NeverLeftLocked, Past
<1>2. QED BY <1>1, LockInvAlways, PTL

(***************************************************************************)
(* OneOwner.  The places of an object exclude each other: the client that  *)
(* has it, a call that carries it, a position in the stack of a live       *)
(* cache.  A cache to come is empty.                                       *)
(***************************************************************************)
Apart(o) ==
  /\ \A t \in Thread : out[o] # None => item[t] # o
  /\ \A s, t \in Thread : item[s] = o /\ item[t] = o => s = t
  /\ \A p \in live : \A i \in 1..Len(stack[p]) :
       stack[p][i] = o => out[o] = None /\ \A t \in Thread : item[t] # o
  /\ \A p, q \in live : \A i \in 1..Len(stack[p]), j \in 1..Len(stack[q]) :
       stack[p][i] = o /\ stack[q][j] = o => p = q /\ i = j
EmptyToCome == \A p \in Pool : p > made => stack[p] = <<>>
OwnInv == EmptyToCome /\ \A o \in Object : Apart(o)

\* An object that is nowhere it was not before.
LEMMA NotMoved ==
  ASSUME NEW o, Apart(o), out'[o] # None => out[o] # None,
         \A t \in Thread : item'[t] = o => item[t] = o,
         \A p \in live' : \A i \in 1..Len(stack'[p]) :
           stack'[p][i] = o => p \in live /\ i \in 1..Len(stack[p]) /\ stack[p][i] = o
  PROVE  Apart(o)'
  BY DEF Apart

\* An object that is in one place.
LEMMA WithClient ==
  ASSUME NEW o, \A t \in Thread : item'[t] # o,
         \A p \in live' : \A i \in 1..Len(stack'[p]) : stack'[p][i] # o
  PROVE  Apart(o)'
  BY DEF Apart

LEMMA WithThread ==
  ASSUME NEW o, NEW t, out'[o] = None, \A s \in Thread : s # t => item'[s] # o,
         \A p \in live' : \A i \in 1..Len(stack'[p]) : stack'[p][i] # o
  PROVE  Apart(o)'
  BY DEF Apart

LEMMA OwnInit == Init => OwnInv
<1> SUFFICES ASSUME Init PROVE OwnInv
  OBVIOUS
<1>1. EmptyToCome
  BY DEF Init, EmptyToCome
<1>2. ASSUME NEW o \in Object PROVE Apart(o)
  <2>1. o # None /\ \A t \in Thread : item[t] = None
    BY DEF Init, Object, None
  <2> QED BY <2>1 DEF Apart, Init
<1> QED BY <1>1, <1>2 DEF OwnInv

\* Steps that leave every stack alone.
LEMMA OwnSteps ==
  ASSUME TypeInv, OwnInv, stack' = stack, made' = made, live' \subseteq live,
         \A o \in Object : out'[o] # None => out[o] # None,
         \A t \in Thread : item'[t] = item[t] \/ item'[t] = None
  PROVE  OwnInv'
<1>1. EmptyToCome'
  BY DEF OwnInv, EmptyToCome
<1>2. ASSUME NEW o \in Object PROVE Apart(o)'
  <2>1. o # None
    BY DEF Object, None
  <2> QED BY <2>1, NotMoved DEF OwnInv
<1> QED BY <1>1, <1>2 DEF OwnInv

\* Work at the stack of a live cache.
LEMMA ComeStays ==
  ASSUME TypeInv, EmptyToCome, NEW p \in live,
         \A q \in Pool : q # p => stack'[q] = stack[q], made' = made
  PROVE  EmptyToCome'
<1>1. made \in Nat /\ p \in 1..made
  BY BoundAssumption DEF TypeInv, TypeOK, MapOK
<1>2. ASSUME NEW q \in Pool, q > made PROVE stack'[q] = <<>>
  <2>1. q # p
    BY <1>1, <1>2
  <2>2. stack'[q] = stack[q]
    BY <2>1
  <2> QED BY <1>2, <2>2 DEF EmptyToCome
<1> QED BY <1>2 DEF EmptyToCome

LEMMA OwnRelease == ASSUME TypeInv, OwnInv, NEW t \in Thread, release(t) PROVE OwnInv'
<1>1. PICK o \in Object :
        out[o] # None /\ item' = [item EXCEPT ![t] = o] /\ out' = [out EXCEPT ![o] = None]
  BY DEF release
<1>2. UNCHANGED <<stack, made, live>>
  BY DEF release, map
<1>3. ASSUME NEW n \in Object, n # o PROVE Apart(n)'
  <2>1. out'[n] = out[n] /\ \A s \in Thread : item'[s] = n => item[s] = n
    BY <1>1, <1>3 DEF TypeInv, TypeOK, PoolOK, FrameOK
  <2> QED BY <1>2, <2>1, NotMoved DEF OwnInv
<1>4. Apart(o)'
  <2>1. out'[o] = None /\ \A s \in Thread : s # t => item'[s] = item[s]
    BY <1>1 DEF TypeInv, TypeOK, PoolOK, FrameOK
  <2> QED BY <1>1, <1>2, <2>1, WithThread DEF OwnInv, Apart
<1> QED BY <1>2, <1>3, <1>4 DEF OwnInv, EmptyToCome

\* A new object, which operator new has found to be nobody's.
LEMMA OwnTestSize == ASSUME TypeInv, OwnInv, NEW t \in Thread, TestSize(t) PROVE OwnInv'
<1>1. UNCHANGED <<stack, made, live>>
  BY DEF TestSize, map
<1>2. CASE UNCHANGED <<out, item>>
  BY <1>1, <1>2, OwnSteps
<1>3. ASSUME NEW o \in Fresh, out' = [out EXCEPT ![o] = IdOf(t)],
             item' = [item EXCEPT ![t] = None]
      PROVE  OwnInv'
  <2>1. /\ o \in Object /\ (\A s \in Thread : item[s] # o)
        /\ \A p \in live : \A i \in 1..Len(stack[p]) : stack[p][i] # o
    BY <1>3 DEF Fresh
  <2>2. \A s \in Thread : item'[s] = item[s] \/ item'[s] = None
    BY <1>3 DEF TypeInv, TypeOK, FrameOK
  <2>3. \A n \in Object : n # None
    BY DEF Object, None
  <2>4. Apart(o)'
    BY <1>1, <2>1, <2>2, <2>3, WithClient
  <2>5. ASSUME NEW n \in Object, n # o PROVE Apart(n)'
    <3>1. out'[n] = out[n]
      BY <1>3, <2>5 DEF TypeInv, TypeOK, PoolOK
    <3> QED BY <1>1, <2>2, <2>3, <3>1, NotMoved DEF OwnInv
  <2> QED BY <1>1, <2>4, <2>5 DEF OwnInv, EmptyToCome
<1> QED BY <1>2, <1>3 DEF TestSize, Return

\* The top of the stack goes to the thread, and to nobody else.
LEMMA OwnPop == ASSUME TypeInv, OwnInv, NEW t \in Thread, Pop(t) PROVE OwnInv'
<1> DEFINE p == use[t]
           s == stack[p]
           o == s[Len(s)]
<1>1. /\ p \in live /\ p \in Pool /\ s # <<>> /\ s \in Seq(Object)
      /\ item' = [item EXCEPT ![t] = o] /\ stack' = [stack EXCEPT ![p] = SubSeq(s, 1, Len(s) - 1)]
      /\ UNCHANGED <<made, live, out>>
  BY Found DEF Pop, Popped, AtPool, Top, map, TypeInv, TypeOK, PoolOK
<1>2. /\ Len(s) \in 1..Len(s) /\ o \in Object
      /\ SubSeq(s, 1, Len(s) - 1) = [i \in 1..Len(s) - 1 |-> s[i]]
  <2>1. Len(s) \in Nat /\ Len(s) > 0 /\ s \in [1..Len(s) -> Object]
    BY <1>1
  <2> QED BY <2>1
<1>3. /\ Len(stack'[p]) = Len(s) - 1
      /\ \A i \in 1..Len(s) - 1 : i \in 1..Len(s) /\ i # Len(s) /\ stack'[p][i] = s[i]
      /\ \A q \in live : q # p => stack'[q] = stack[q]
  <2>1. stack'[p] = [i \in 1..Len(s) - 1 |-> s[i]] /\ stack'[p] = SubSeq(s, 1, Len(s) - 1)
    BY <1>1, <1>2 DEF TypeInv, TypeOK, PoolOK
  <2>2. Len(stack'[p]) = Len(s) - 1 /\ Len(s) \in Nat
    BY <1>1, <2>1
  <2>3. \A i \in 1..Len(s) - 1 : i \in 1..Len(s) /\ i # Len(s)
    BY <2>2
  <2>4. \A q \in live : q # p => stack'[q] = stack[q]
    <3>1. live \subseteq Pool
      BY BoundAssumption DEF TypeInv, TypeOK, MapOK, Pool
    <3> QED BY <1>1, <3>1 DEF TypeInv, TypeOK, PoolOK
  <2> QED BY <2>1, <2>2, <2>3, <2>4
<1>e. \A q \in Pool : q # p => stack'[q] = stack[q]
  BY <1>1 DEF TypeInv, TypeOK, PoolOK
<1> HIDE DEF o, s, p
<1>4. \A q \in live : \A i \in 1..Len(stack'[q]) :
        /\ i \in 1..Len(stack[q]) /\ stack'[q][i] = stack[q][i]
        /\ q = p => i # Len(s)
  BY <1>1, <1>3 DEF s
<1>5. ASSUME NEW n \in Object, n # o PROVE Apart(n)'
  <2>1. \A r \in Thread : item'[r] = n => item[r] = n
    BY <1>1, <1>5 DEF TypeInv, TypeOK, FrameOK
  <2> QED BY <1>1, <1>4, <2>1, NotMoved DEF OwnInv
<1>6. ASSUME NEW n \in Object, n = o PROVE Apart(n)'
  <2>1. Apart(n) /\ stack[p][Len(s)] = n
    BY <1>2, <1>6 DEF OwnInv, o, s
  <2>2. out[n] = None /\ \A r \in Thread : item[r] # n
    BY <1>1, <1>2, <2>1 DEF Apart, s
  <2>3. \A r \in Thread : r # t => item'[r] # n
    BY <1>1, <2>2 DEF TypeInv, TypeOK, FrameOK
  <2>4. \A q \in live : \A i \in 1..Len(stack'[q]) : stack'[q][i] # n
    BY <1>1, <1>2, <1>4, <2>1 DEF Apart, s
  <2>5. out'[n] = None /\ live' = live
    BY <1>1, <2>2
  <2> QED BY <2>3, <2>4, <2>5, WithThread
<1>7. EmptyToCome'
  BY <1>1, <1>e, ComeStays DEF OwnInv
<1> QED BY <1>5, <1>6, <1>7 DEF OwnInv

\* The object that is released is where nobody else has it: on the stack.
LEMMA OwnPush == ASSUME TypeInv, OwnInv, NEW t \in Thread, Push(t) PROVE OwnInv'
<1> DEFINE p == use[t]
           s == stack[p]
           o == item[t]
<1>1. /\ p \in live /\ p \in Pool /\ s \in Seq(Object) /\ o \in Object
      /\ item' = [item EXCEPT ![t] = None] /\ stack' = [stack EXCEPT ![p] = Append(s, o)]
      /\ UNCHANGED <<made, live, out>>
  <2>1. o \in Object
    BY DEF Push, AtPool, At, TypeInv, Carries, Before, TypeOK, FrameOK
  <2> QED BY <2>1, Found DEF Push, Pushed, AtPool, map, TypeInv, TypeOK, PoolOK
<1>2. /\ Len(stack'[p]) = Len(s) + 1 /\ Len(s) \in Nat
      /\ \A i \in 1..Len(s) : stack'[p][i] = s[i]
      /\ stack'[p][Len(s) + 1] = o
  <2>1. stack'[p] = Append(s, o)
    BY <1>1 DEF TypeInv, TypeOK, PoolOK
  <2> QED BY <1>1, <2>1
<1>3. \A q \in live : q # p => stack'[q] = stack[q]
  <2>1. live \subseteq Pool
    BY BoundAssumption DEF TypeInv, TypeOK, MapOK, Pool
  <2> QED BY <1>1, <2>1 DEF TypeInv, TypeOK, PoolOK
<1>e. \A q \in Pool : q # p => stack'[q] = stack[q]
  BY <1>1 DEF TypeInv, TypeOK, PoolOK
<1>4. \A r \in Thread : item'[r] = item[r] \/ item'[r] = None
  BY <1>1 DEF TypeInv, TypeOK, FrameOK
<1>n. \A n \in Object : n # None
  BY DEF Object, None
<1> HIDE DEF o, s, p
<1>5. \A i \in 1..Len(s) + 1 : i \in 1..Len(s) \/ i = Len(s) + 1
  BY <1>2
<1>6. \A q \in live : \A i \in 1..Len(stack'[q]) :
        \/ i \in 1..Len(stack[q]) /\ stack'[q][i] = stack[q][i]
        \/ q = p /\ i = Len(s) + 1 /\ stack'[q][i] = o
  BY <1>1, <1>2, <1>3, <1>5 DEF s
<1>7. ASSUME NEW n \in Object, n # o PROVE Apart(n)'
  BY <1>1, <1>4, <1>6, <1>7, <1>n, NotMoved DEF OwnInv
<1>8. ASSUME NEW n \in Object, n = o PROVE Apart(n)'
  <2>1. Apart(n) /\ item[t] = n
    BY <1>1, <1>8 DEF OwnInv, o
  <2>2. out[n] = None
    BY <2>1, <1>1, <1>n DEF Apart
  <2>3. \A r \in Thread : item'[r] # n
    <3>1. item'[t] = None
      BY <1>1 DEF TypeInv, TypeOK, FrameOK
    <3> QED BY <1>1, <1>4, <1>n, <2>1, <3>1 DEF Apart
  <2>4. \A q \in live : \A i \in 1..Len(stack[q]) : stack[q][i] # n
    BY <2>1 DEF Apart
  <2>5. \A q \in live : \A j \in 1..Len(stack'[q]) :
          stack'[q][j] = n => q = p /\ j = Len(s) + 1
    BY <1>6, <1>8, <2>4
  <2>6. out'[n] = None /\ live' = live
    BY <1>1, <2>2
  <2> QED BY <2>3, <2>5, <2>6 DEF Apart
<1>9. EmptyToCome'
  BY <1>1, <1>e, ComeStays DEF OwnInv
<1> QED BY <1>7, <1>8, <1>9 DEF OwnInv

\* get() gives the client what it has popped.
LEMMA OwnUnlockGet == ASSUME TypeInv, OwnInv, NEW t \in Thread, UnlockGet(t) PROVE OwnInv'
<1>1. /\ UNCHANGED <<stack, made, live>> /\ out' = [out EXCEPT ![item[t]] = IdOf(t)]
      /\ item' = [item EXCEPT ![t] = None]
  BY DEF UnlockGet, Return, map
<1>2. \A s \in Thread : item'[s] = item[s] \/ item'[s] = None
  BY <1>1 DEF TypeInv, TypeOK, FrameOK
<1>n. \A n \in Object : n # None
  BY DEF Object, None
<1>3. ASSUME NEW n \in Object, n # item[t] PROVE Apart(n)'
  <2>1. out'[n] = out[n]
    BY <1>1, <1>3 DEF TypeInv, TypeOK, PoolOK
  <2> QED BY <1>1, <1>2, <1>n, <2>1, NotMoved DEF OwnInv
<1>4. ASSUME NEW n \in Object, n = item[t] PROVE Apart(n)'
  <2>1. Apart(n)
    BY DEF OwnInv
  <2>2. \A s \in Thread : item'[s] # n
    <3>1. item'[t] = None
      BY <1>1 DEF TypeInv, TypeOK, FrameOK
    <3> QED BY <1>2, <1>4, <1>n, <2>1, <3>1 DEF Apart
  <2>3. \A p \in live : \A i \in 1..Len(stack[p]) : stack[p][i] # n
    BY <1>4, <2>1 DEF Apart
  <2> QED BY <1>1, <2>2, <2>3, WithClient
<1> QED BY <1>1, <1>3, <1>4 DEF OwnInv, EmptyToCome

LEMMA OwnInsertCache == ASSUME TypeInv, OwnInv, NEW t \in Thread, InsertCache(t) PROVE OwnInv'
<1>1. /\ made < MaxPools /\ made' = made + 1 /\ live' = live \cup {made + 1}
      /\ UNCHANGED <<stack, out, item>>
  BY DEF InsertCache
<1>2. made \in Nat /\ made + 1 \in Pool /\ made + 1 > made
  BY <1>1, BoundAssumption DEF TypeInv, TypeOK, MapOK, Pool
<1>3. stack[made + 1] = <<>> /\ 1..Len(stack[made + 1]) = {}
  BY <1>2 DEF OwnInv, EmptyToCome
<1>4. \A p \in live' : \A i \in 1..Len(stack[p]) : p \in live
  BY <1>1, <1>3
<1>5. \A o \in Object : Apart(o)'
  BY <1>1, <1>4, NotMoved DEF OwnInv
<1>6. \A p \in Pool : p > made + 1 => p > made
  BY <1>2 DEF Pool
<1> QED BY <1>1, <1>5, <1>6 DEF OwnInv, EmptyToCome

LEMMA OwnStep == TypeInv /\ OwnInv /\ [Next]_vars => OwnInv'
<1> SUFFICES ASSUME TypeInv, OwnInv, [Next]_vars PROVE OwnInv'
  OBVIOUS
<1>1. CASE UNCHANGED vars
  BY <1>1, OwnSteps DEF vars, map, frame
<1>2. ASSUME NEW t \in Thread,
             \/ get_shared(t) \/ beforeDestroyThread(t)
             \/ Find(t) \/ LockMut(t) \/ registerListener(t) \/ Lookup(t)
             \/ Lock(t) \/ StoreOwner(t) \/ PopEmpty(t) \/ ClearNothing(t) \/ UseAfterFree(t)
             \/ LockMapMut(t) \/ onThreadClear(t) \/ EraseCache(t) \/ ThreadEnds(t)
      PROVE  OwnInv'
  <2>1. UNCHANGED <<stack, made, live, out, item>>
    BY <1>2 DEF get_shared, beforeDestroyThread, Find, LockMut, registerListener, Lookup, Lock,
       StoreOwner, PopEmpty, ClearNothing, UseAfterFree, LockMapMut, onThreadClear, EraseCache,
       ThreadEnds, map, frame
  <2> QED BY <2>1, OwnSteps
<1>3. ASSUME NEW t \in Thread, LeaveMut(t) \/ DeleteCache(t) PROVE OwnInv'
  <2>1. UNCHANGED <<stack, made, out, item>> /\ live' \subseteq live
    BY <1>3 DEF LeaveMut, DeleteCache, frame
  <2> QED BY <2>1, OwnSteps
<1>4. ASSUME NEW t \in Thread, UnlockRelease(t) \/ UnlockClear(t) PROVE OwnInv'
  <2>1. UNCHANGED <<stack, made, live, out>> /\ item' = [item EXCEPT ![t] = None]
    BY <1>4 DEF UnlockRelease, UnlockClear, Return, map
  <2> QED BY <2>1, OwnSteps DEF TypeInv, TypeOK, FrameOK
<1> QED
  BY <1>1, <1>2, <1>3, <1>4, OwnRelease, OwnTestSize, OwnPop, OwnPush, OwnUnlockGet,
     OwnInsertCache DEF Next, Call, Cache, Pooled, End

\* No object is handed to a second owner, whichever threads share a cache and
\* however they end, also while clear() gives the lock away in its loop: what a
\* call takes from a stack is nowhere else.
THEOREM ObjectsHaveOneOwner == Spec => []OneOwner
<1>1. TypeInv /\ OwnInv => OneOwner
  <2> SUFFICES ASSUME TypeInv, OwnInv, NEW o \in Object PROVE Cardinality(Places(o)) <= 1
    BY DEF OneOwner
  <2>1. Apart(o)
    BY DEF OwnInv
  <2>2. ASSUME NEW x \in Places(o)
        PROVE  \/ x = <<0, 0>> /\ out[o] # None
               \/ \E t \in Thread : x = <<0, t>> /\ item[t] = o
               \/ \E p \in live : \E i \in 1..Len(stack[p]) : x = <<p, i>> /\ stack[p][i] = o
    BY DEF Places
  <2>3. ASSUME NEW x \in Places(o), NEW y \in Places(o) PROVE x = y
    BY <2>1, <2>2, <2>3 DEF Apart
  <2>4. CASE Places(o) = {}
    BY <2>4, FS_EmptySet
  <2>5. CASE Places(o) # {}
    <3>1. PICK x : x \in Places(o)
      BY <2>5
    <3>2. Places(o) = {x}
      BY <2>3, <3>1
    <3>3. Cardinality(Places(o)) = 1
      BY <3>2, FS_Singleton, Zenon
    <3> QED BY <3>3
  <2> QED BY <2>4, <2>5
<1>2. Spec => []OwnInv
  <2>1. LockInv => TypeInv
    BY DEF LockInv
  <2> QED BY <2>1, OwnInit, OwnStep, LockInvAlways, PTL DEF Spec
<1>3. LockInv => TypeInv
  BY DEF LockInv
<1> QED BY <1>1, <1>2, <1>3, LockInvAlways, PTL

(***************************************************************************)
(* ClearedHasCache.  Where every thread has an id of its own, an id gets   *)
(* its cache and its one listener from its own thread, before an object or *)
(* another thread can know the id; only its own end takes them away.       *)
(***************************************************************************)
\* Places at the end of a thread, and on the way to a cache of the call's own.
Leaving == {"mapMut", "notify", "delete", "erase", "ended"}
Making == {"mut", "insert", "register", "registered"}
\* A thread that has cleaned up.
Over(i) == pc[i] = "ended" \/ (pc[i] = "notify" /\ left[i] = 0)

\* The id a call is for, and that the end of a thread is a call of its own.
KeyOf(t) ==
  /\ op[t] # "release" => key[t] = IdOf(t)
  /\ op[t] \in {"clear", "relocked"} => pc[t] \in Leaving \cup InPool
  /\ pc[t] = "ended" => op[t] = "clear"
  /\ pc[t] = "idle" \/ pc[t] = "size" => op[t] = "get"
KeyInv ==
  /\ \A t \in Thread : KeyOf(t)
  /\ ~sameId => \A t \in Thread : key[t] \in Thread
  /\ ~sameId => \A o \in Object : out[o] \in Thread \cup {None}

\* An id without a cache is known to its own thread only, which has not got far;
\* for an id that has one nobody makes a cache, and its thread has registered
\* once, or is about to.  A thread that ends is told of one listener at most, and
\* its cache is in the map.
Early == {"idle", "find", "mut", "insert", "mapMut"}
UsesKey(t, i) ==
  key[t] = i =>
    /\ threadIdMap[i] = None => op[t] # "release" /\ pc[t] \in Early
    /\ threadIdMap[i] # None =>
         /\ pc[t] \notin {"mut", "insert"} /\ (t # i => pc[t] \notin Making)
         /\ pc[t] = "register" => listeners[i] = 0
Entry(i) ==
  /\ threadIdMap[i] = None => listeners[i] = 0 /\ \A o \in Object : out[o] # i
  /\ threadIdMap[i] # None => listeners[i] <= 1
Clears(i) ==
  /\ pc[i] = "notify" => left[i] = 1 /\ threadIdMap[i] # None
  /\ op[i] \in {"clear", "relocked"} /\ pc[i] \in InPool \cup {"delete", "erase"} => left[i] = 0
Listens(i) == Over(i) \/ (Entry(i) /\ (\A t \in Thread : UsesKey(t, i)) /\ Clears(i))
ClearInv == ~sameId => fault # "assert" /\ \A i \in Thread : Listens(i)

\* What a step of thread t leaves alone.
OnlyFrameOf(t) ==
  \A s \in Thread : s # t =>
    pc'[s] = pc[s] /\ op'[s] = op[s] /\ key'[s] = key[s] /\ use'[s] = use[s] /\ left'[s] = left[s]

LEMMA OthersStay ==
  ASSUME TypeInv, NEW t \in Thread, Call(t) \/ Cache(t) \/ Pooled(t) \/ End(t)
  PROVE  OnlyFrameOf(t) /\ UNCHANGED setup /\ fault = "none"
<1> USE DEF TypeInv, TypeOK, FrameOK, OnlyFrameOf, frame, Goto, Return, At, AtPool
<1>1. CASE Call(t)
  BY <1>1 DEF Call, get_shared, release, beforeDestroyThread
<1>2. CASE Cache(t)
  BY <1>2 DEF Cache, Find, LockMut, InsertCache, registerListener, LeaveMut, Lookup
<1>3. CASE Pooled(t)
  BY <1>3 DEF Pooled, TestSize, Lock, StoreOwner, Pop, PopEmpty, Push, ClearNothing, UnlockGet,
     UnlockRelease, UnlockClear, UseAfterFree
<1>4. CASE End(t)
  BY <1>4 DEF End, LockMapMut, onThreadClear, DeleteCache, EraseCache, ThreadEnds
<1> QED BY <1>1, <1>2, <1>3, <1>4

LEMMA KeyInit == Init => KeyInv
BY Ids DEF Init, KeyInv, KeyOf, IdOf

\* A call keeps its id; only get_shared(), release() and a return change it.
LEMMA KeyStep == TypeInv /\ KeyInv /\ [Next]_vars => KeyInv'
<1> SUFFICES ASSUME TypeInv, KeyInv, [Next]_vars PROVE KeyInv'
  OBVIOUS
<1>1. CASE UNCHANGED vars
  BY <1>1 DEF vars, KeyInv, KeyOf, frame, setup, IdOf
<1>2. ASSUME NEW t \in Thread, Call(t) \/ Cache(t) \/ Pooled(t) \/ End(t) PROVE KeyInv'
  <2>0. OnlyFrameOf(t) /\ UNCHANGED setup
    BY <1>2, OthersStay
  <2>1. (\A s \in Thread : IdOf(s)' = IdOf(s)) /\ (~sameId => IdOf(t) = t)
    BY <2>0 DEF setup, IdOf
  <2>t. /\ pc \in [Thread -> Place] /\ op \in [Thread -> Op] /\ key \in [Thread -> Id]
        /\ out \in [Object -> Id \cup {None}]
    BY DEF TypeInv, TypeOK, FrameOK, PoolOK
  <2>k. KeyOf(t) /\ (~sameId => key[t] \in Thread)
    BY DEF KeyInv
  <2>2. ASSUME KeyOf(t)', ~sameId => key'[t] \in Thread,
               ~sameId => \A o \in Object : out'[o] \in Thread \cup {None}
        PROVE  KeyInv'
    BY <2>0, <2>1, <2>2 DEF KeyInv, KeyOf, OnlyFrameOf, setup
  <2>3. ASSUME UNCHANGED <<out, key, op>>,
               op[t] \in {"clear", "relocked"} => pc'[t] \in Leaving \cup InPool,
               pc'[t] = "ended" => op[t] = "clear", pc'[t] # "idle",
               pc'[t] = "size" => op[t] = "get"
        PROVE  KeyInv'
    BY <2>0, <2>1, <2>2, <2>3, <2>k DEF KeyInv, KeyOf
  <2>4. CASE get_shared(t)
    BY <2>1, <2>2, <2>4, <2>t DEF get_shared, Goto, KeyInv, KeyOf
  <2>5. CASE release(t)
    <3>1. PICK o \in Object : out[o] # None /\ key' = [key EXCEPT ![t] = out[o]]
                               /\ out' = [out EXCEPT ![o] = None]
      BY <2>5 DEF release
    <3>2. pc'[t] = "find" /\ op'[t] = "release"
      BY <2>5, <2>t DEF release, Goto
    <3>3. ~sameId => key'[t] \in Thread
      BY <3>1, <2>t DEF KeyInv
    <3>4. ~sameId => \A n \in Object : out'[n] \in Thread \cup {None}
      BY <3>1, <2>t DEF KeyInv
    <3> QED BY <3>2, <3>3, <3>4, <2>2 DEF KeyOf
  <2>6. CASE beforeDestroyThread(t)
    BY <2>1, <2>2, <2>6, <2>t DEF beforeDestroyThread, Goto, KeyInv, KeyOf, Leaving
  <2>7. CASE Cache(t)
    BY <2>3, <2>7, <2>t, <2>k DEF Cache, Find, LockMut, InsertCache, registerListener, LeaveMut, Lookup,
       StartIn, frame, Goto, At, KeyOf, Leaving, InPool
  <2>8. CASE Lock(t) \/ StoreOwner(t) \/ Pop(t) \/ PopEmpty(t) \/ Push(t) \/ ClearNothing(t)
          \/ UseAfterFree(t)
    BY <2>3, <2>8, <2>t, <2>k DEF Lock, StoreOwner, Pop, PopEmpty, Push, ClearNothing, UseAfterFree,
       frame, Goto, AtPool, At, InPool, KeyOf
  <2>9. CASE TestSize(t)
    <3>1. CASE Goto(t, "lock") /\ UNCHANGED <<out, op, key>>
      BY <3>1, <2>3, <2>t, <2>k DEF Goto, InPool, KeyOf
    <3>2. ASSUME Return(t), NEW o \in Object, out' = [out EXCEPT ![o] = IdOf(t)] PROVE KeyInv'
      BY <3>2, <2>1, <2>2, <2>t DEF Return, Goto, KeyInv, KeyOf
    <3> QED BY <3>1, <3>2, <2>9 DEF TestSize, Fresh
  <2>10. CASE UnlockGet(t)
    <3>1. Return(t) /\ out' = [out EXCEPT ![item[t]] = IdOf(t)]
      BY <2>10 DEF UnlockGet
    <3> QED BY <3>1, <2>1, <2>2, <2>t DEF Return, Goto, KeyInv, KeyOf
  <2>11. CASE UnlockRelease(t)
    BY <2>1, <2>2, <2>11, <2>t DEF UnlockRelease, Return, Goto, KeyInv, KeyOf
  <2>12. CASE UnlockClear(t)
    <3>1. /\ key[t] = IdOf(t) /\ UNCHANGED <<key, out>>
          /\ op'[t] \in {"clear", "relocked"} /\ pc'[t] \in {"lock", "delete"}
      BY <2>12, <2>t, <2>k DEF UnlockClear, KeyOf, Goto
    <3> QED BY <3>1, <2>1, <2>2, <2>k DEF KeyOf, Leaving, InPool, KeyInv
  <2>13. CASE End(t)
    <3>1. /\ UNCHANGED <<out, key, op>> /\ pc'[t] \in {"notify", "lock", "erase", "ended"}
          /\ pc[t] \in {"mapMut", "notify", "delete", "erase"}
      BY <2>13, <2>t
      DEF End, LockMapMut, onThreadClear, DeleteCache, EraseCache, ThreadEnds, frame, Goto, At
    <3>2. op[t] = "clear"
      BY <3>1 DEF TypeInv, EndsOnly
    <3> QED BY <3>1, <3>2, <2>3 DEF InPool, Leaving
  <2> QED BY <1>2, <2>4, <2>5, <2>6, <2>7, <2>8, <2>9, <2>10, <2>11, <2>12, <2>13 DEF Call, Pooled
<1> QED BY <1>1, <1>2 DEF Next

\* Steps that leave the two maps and the clients' objects alone.
LEMMA FrameSteps ==
  ASSUME ClearInv, ~sameId, NEW t \in Thread, OnlyFrameOf(t),
         UNCHANGED <<threadIdMap, listeners, out>>, fault' # "assert", ~Over(t),
         \A i \in Thread : Entry(i) /\ UsesKey(t, i) => UsesKey(t, i)',
         Entry(t) /\ Clears(t) => Over(t)' \/ Clears(t)'
  PROVE  fault' # "assert" /\ \A i \in Thread : Listens(i)'
<1> SUFFICES ASSUME NEW i \in Thread PROVE Listens(i)'
  OBVIOUS
<1>1. Listens(i) /\ (Entry(i) => Entry(i)')
  BY DEF ClearInv, Entry
<1>2. Over(i) => Over(i)'
  BY DEF Over, OnlyFrameOf
<1>3. ASSUME NEW s \in Thread, s # t, UsesKey(s, i) PROVE UsesKey(s, i)'
  BY <1>3 DEF UsesKey, OnlyFrameOf
<1>4. Entry(i) /\ Clears(i) => Over(i)' \/ Clears(i)'
  BY DEF Clears, OnlyFrameOf
<1>5. ASSUME Entry(i), \A s \in Thread : UsesKey(s, i) PROVE \A s \in Thread : UsesKey(s, i)'
  BY <1>3, <1>5
<1>6. CASE Over(i)
  BY <1>2, <1>6 DEF Listens
<1>7. CASE ~Over(i)
  <2>1. Entry(i) /\ (\A s \in Thread : UsesKey(s, i)) /\ Clears(i)
    BY <1>1, <1>7 DEF Listens
  <2>2. Entry(i)' /\ \A s \in Thread : UsesKey(s, i)'
    BY <2>1, <1>1, <1>5
  <2> QED BY <2>1, <2>2, <1>4 DEF Listens
<1> QED BY <1>6, <1>7

LEMMA ClearInit == Init => ClearInv
<1> SUFFICES ASSUME Init, ~sameId, NEW i \in Thread PROVE Listens(i)
  BY DEF ClearInv, Init
<1>1. i \in Id /\ i # None /\ threadIdMap[i] = None
  BY Ids DEF Init
<1>2. Entry(i)
  BY <1>1 DEF Init, Entry
<1>3. Clears(i) /\ \A t \in Thread : UsesKey(t, i)
  BY <1>1 DEF Init, Clears, UsesKey, Early
<1> QED BY <1>2, <1>3 DEF Listens

\* What the steps know of the thread that takes them.
LEMMA OwnKey ==
  ASSUME TypeInv, KeyInv, ~sameId, NEW t \in Thread
  PROVE  /\ KeyOf(t) /\ IdOf(t) = t /\ key[t] \in Thread /\ (op[t] # "release" => key[t] = t)
         /\ pc \in [Thread -> Place] /\ op \in [Thread -> Op] /\ key \in [Thread -> Id]
         /\ left \in [Thread -> Nat] /\ use \in [Thread -> 0..made]
         /\ threadIdMap \in [Id -> 0..made] /\ listeners \in [Id -> Nat]
         /\ out \in [Object -> Id \cup {None}] /\ Thread \subseteq Id
BY Ids DEF TypeInv, TypeOK, MapOK, PoolOK, FrameOK, KeyInv, KeyOf, IdOf

\* Calls: a client's object tells of an id that has a cache.
LEMMA ClearOfCall ==
  ASSUME TypeInv, KeyInv, ClearInv, ~sameId, NEW t \in Thread, OnlyFrameOf(t), Call(t)
  PROVE  fault' # "assert" /\ \A i \in Thread : Listens(i)'
<1>1. ~Over(t) /\ KeyOf(t) /\ pc[t] = "idle" /\ fault = "none" /\ fault' = fault
      /\ UNCHANGED <<threadIdMap, listeners>>
  BY DEF Call, get_shared, release, beforeDestroyThread, At, Over, KeyInv, map
<1>2. CASE get_shared(t)
  <2>1. pc'[t] = "find" /\ op'[t] = "get" /\ key'[t] = t /\ key[t] = t /\ UNCHANGED out
    BY <1>1, <1>2, OwnKey DEF get_shared, Goto, KeyOf
  <2>2. Clears(t)' /\ \A i \in Thread : UsesKey(t, i) => UsesKey(t, i)'
    BY <1>1, <2>1 DEF Clears, UsesKey, InPool, Early, Making
  <2> QED BY <1>1, <2>1, <2>2, FrameSteps
<1>3. CASE beforeDestroyThread(t)
  <2>1. pc'[t] = "mapMut" /\ op'[t] = "clear" /\ key'[t] = t /\ key[t] = t /\ UNCHANGED out
    BY <1>1, <1>3, OwnKey DEF beforeDestroyThread, Goto, KeyOf
  <2>2. Clears(t)' /\ \A i \in Thread : UsesKey(t, i) => UsesKey(t, i)'
    BY <1>1, <2>1 DEF Clears, UsesKey, InPool, Early, Making
  <2> QED BY <1>1, <2>1, <2>2, FrameSteps
<1>4. CASE release(t)
  <2>1. PICK o \in Object : out[o] # None /\ key' = [key EXCEPT ![t] = out[o]]
                            /\ out' = [out EXCEPT ![o] = None]
    BY <1>4 DEF release
  <2>2. pc'[t] = "find" /\ key'[t] = out[o] /\ \A n \in Object : out'[n] = out[n] \/ out'[n] = None
    BY <1>4, <2>1, OwnKey DEF release, Goto
  <2>3. SUFFICES ASSUME NEW i \in Thread PROVE Listens(i)'
    BY <1>1
  <2>4. Listens(i) /\ (Over(i) => Over(i)')
    BY <1>1 DEF ClearInv, OnlyFrameOf, Over
  <2>5. Entry(i) => Entry(i)' /\ UsesKey(t, i)'
    BY <1>1, <2>1, <2>2, Ids DEF Entry, UsesKey, Making
  <2>6. ASSUME NEW s \in Thread, s # t, UsesKey(s, i) PROVE UsesKey(s, i)'
    BY <1>1, <2>6 DEF UsesKey, OnlyFrameOf
  <2>7. Clears(i) => Clears(i)'
    BY <1>1, <2>2 DEF Clears, OnlyFrameOf, InPool
  <2> QED BY <2>4, <2>5, <2>6, <2>7 DEF Listens
<1> QED BY <1>2, <1>3, <1>4 DEF Call

\* getThreadCache(): only its own thread inserts and registers for an id.
LEMMA ClearOfCache ==
  ASSUME TypeInv, KeyInv, ClearInv, ~sameId, NEW t \in Thread, OnlyFrameOf(t), Cache(t)
  PROVE  fault' # "assert" /\ \A i \in Thread : Listens(i)'
<1> DEFINE k == key[t]
<1>1. /\ fault = "none" /\ pc[t] \notin InPool \cup Leaving /\ UNCHANGED <<out, key, op, left>>
      /\ fault' # "assert" /\ ~Over(t)
  BY DEF Cache, Find, LockMut, InsertCache, registerListener, LeaveMut, Lookup, At, Over, InPool,
     Leaving, frame
<1>2. /\ op[t] # "release" => k = t
      /\ op[t] \notin {"clear", "relocked"}
      /\ Listens(k) /\ k \in Thread /\ k \in Id
  BY <1>1, OwnKey DEF KeyOf, ClearInv
<1>3. CASE Find(t) \/ LockMut(t) \/ LeaveMut(t) \/ Lookup(t)
  <2>1. /\ UNCHANGED <<threadIdMap, listeners>>
        /\ \/ pc[t] = "find" /\ pc'[t] = IF threadIdMap[k] = None THEN "mut" ELSE "lookup"
           \/ pc[t] = "mut" /\ pc'[t] = "insert"
           \/ pc[t] \in {"registered", "lookup"} /\ pc'[t] \in {"lookup", "size", "lock"}
    BY <1>3, OwnKey DEF Find, LockMut, LeaveMut, Lookup, map, Goto, StartIn, At
  <2>2. Clears(t)'
    BY <1>1, <1>2, <2>1 DEF Clears
  <2>3. ASSUME NEW i \in Thread, UsesKey(t, i) PROVE UsesKey(t, i)'
    BY <1>1, <2>1, <2>3 DEF UsesKey, Early, Making
  <2> QED BY <1>1, <2>1, <2>2, <2>3, FrameSteps
<1>4. CASE InsertCache(t) \/ registerListener(t)
  <2> SUFFICES ASSUME NEW i \in Thread PROVE Listens(i)'
    BY <1>1
  <2>1. Listens(i) /\ (Over(i) => Over(i)')
    BY <1>1 DEF ClearInv, OnlyFrameOf, Over
  <2>2. pc'[t] \in {"register", "registered"}
    BY <1>4, OwnKey DEF InsertCache, registerListener, Goto
  <2>3. Clears(t)'
    BY <1>1, <1>2, <2>2 DEF Clears, InPool
  <2>4. ~Over(k) => k = t
    BY <1>1, <1>2, <1>4 DEF Listens, UsesKey, Making, InsertCache, registerListener, At, Early
  <2>5. CASE i # k
    <3>1. threadIdMap'[i] = threadIdMap[i] /\ listeners'[i] = listeners[i]
      BY <1>4, <2>5, OwnKey DEF InsertCache, registerListener
    <3>2. Entry(i) => Entry(i)'
      BY <1>1, <3>1 DEF Entry
    <3>3. \A s \in Thread : UsesKey(s, i) => UsesKey(s, i)'
      BY <1>1, <2>5, <3>1 DEF UsesKey, OnlyFrameOf
    <3>4. Clears(i) => Clears(i)'
      BY <2>3, <3>1 DEF Clears, OnlyFrameOf
    <3> QED BY <2>1, <3>2, <3>3, <3>4 DEF Listens
  <2>6. CASE i = k /\ ~Over(k)
    <3>1. i = t /\ Entry(i) /\ \A s \in Thread : UsesKey(s, i)
      BY <2>1, <2>4, <2>6 DEF Listens
    <3>2. CASE InsertCache(t)
      <4>1. threadIdMap[i] = None /\ listeners[i] = 0
        BY <1>1, <2>6, <3>1, <3>2 DEF UsesKey, Entry, InsertCache, At
      <4>2. threadIdMap'[i] = made + 1 /\ made + 1 # None /\ listeners' = listeners
        BY <3>2, <2>6, <4>1, OwnKey, BoundAssumption DEF InsertCache, TypeInv, TypeOK, MapOK, None
      <4>3. Entry(i)'
        BY <4>1, <4>2 DEF Entry
      <4>4. ASSUME NEW s \in Thread PROVE UsesKey(s, i)'
        <5>1. CASE s = t
          BY <1>1, <2>2, <3>1, <4>1, <4>2, <5>1 DEF UsesKey
        <5>2. CASE s # t
          <6>1. key[s] = i => op[s] # "release"
            BY <3>1, <4>1 DEF UsesKey
          <6>2. key[s] # i
            BY <3>1, <5>2, <6>1, OwnKey
          <6> QED BY <5>2, <6>2 DEF UsesKey, OnlyFrameOf
        <5> QED BY <5>1, <5>2
      <4> QED BY <2>3, <3>1, <4>3, <4>4 DEF Listens
    <3>3. CASE registerListener(t)
      <4>1. threadIdMap[i] # None /\ listeners[i] = 0
        BY <1>1, <2>6, <3>1, <3>3 DEF UsesKey, Entry, registerListener, At, Early
      <4>2. threadIdMap' = threadIdMap /\ listeners'[i] = 1 /\ pc'[t] = "registered"
        BY <3>3, <2>6, <4>1, OwnKey DEF registerListener, Goto
      <4>3. Entry(i)'
        BY <4>1, <4>2 DEF Entry
      <4>4. ASSUME NEW s \in Thread PROVE UsesKey(s, i)'
        <5>1. CASE s = t
          BY <1>1, <3>1, <4>1, <4>2, <5>1 DEF UsesKey
        <5>2. CASE s # t
          BY <3>1, <4>1, <4>2, <5>2 DEF UsesKey, OnlyFrameOf, Making
        <5> QED BY <5>1, <5>2
      <4> QED BY <2>3, <3>1, <4>3, <4>4 DEF Listens
    <3> QED BY <1>4, <3>2, <3>3
  <2> QED BY <2>1, <2>5, <2>6 DEF Listens
<1> QED BY <1>3, <1>4 DEF Cache

\* ObjectPool: an object goes to a client under an id that has a cache.
LEMMA ClearOfPool ==
  ASSUME TypeInv, KeyInv, ClearInv, ~sameId, NEW t \in Thread, OnlyFrameOf(t), Pooled(t)
  PROVE  fault' # "assert" /\ \A i \in Thread : Listens(i)'
<1>1. /\ fault = "none" /\ pc[t] \in InPool /\ UNCHANGED <<threadIdMap, listeners, left>>
      /\ fault' # "assert" /\ ~Over(t)
  BY DEF Pooled, TestSize, Lock, StoreOwner, Pop, PopEmpty, Push, ClearNothing, UnlockGet,
     UnlockRelease, UnlockClear, UseAfterFree, AtPool, At, Over, InPool, frame, map
<1>2. /\ op[t] # "release" => key[t] = t
      /\ Listens(key[t]) /\ key[t] \in Thread /\ KeyOf(t) /\ Listens(t)
  BY OwnKey DEF ClearInv
<1>3. ASSUME UNCHANGED <<out, key>>, pc'[t] \in InPool \cup {"delete"},
             op'[t] = op[t] \/ (op[t] \in {"clear", "relocked"} /\ op'[t] \in {"clear", "relocked"})
      PROVE  \A i \in Thread : Listens(i)'
  <2>1. Clears(t) => Clears(t)'
    BY <1>1, <1>3 DEF Clears, InPool
  <2>2. ASSUME NEW i \in Thread, UsesKey(t, i) PROVE UsesKey(t, i)'
    BY <1>1, <1>3, <2>2 DEF UsesKey, Early, Making, InPool
  <2> QED BY <1>1, <1>3, <2>1, <2>2, FrameSteps
<1>4. ASSUME Return(t), NEW o \in Object \cup {None},
             out' = out \/ (op[t] = "get" /\ out' = [out EXCEPT ![o] = IdOf(t)])
      PROVE  \A i \in Thread : Listens(i)'
  <2> SUFFICES ASSUME NEW i \in Thread PROVE Listens(i)'
    OBVIOUS
  <2>1. pc'[t] = "idle" /\ op'[t] = "get" /\ key'[t] = t
    BY <1>4, OwnKey DEF Return, Goto
  <2>2. Listens(i) /\ (Over(i) => Over(i)')
    BY <1>1 DEF ClearInv, OnlyFrameOf, Over
  <2>3. Clears(i) => Clears(i)'
    BY <1>1, <2>1 DEF Clears, OnlyFrameOf, InPool
  <2>4. ASSUME Entry(i), UsesKey(t, i) PROVE Entry(i)'
    <3>1. CASE out' = out
      BY <1>1, <2>4, <3>1 DEF Entry
    <3>2. CASE i # t
      BY <1>1, <1>4, <2>4, <3>2, OwnKey DEF Entry
    <3>3. CASE i = t /\ op[t] = "get"
      <4>1. threadIdMap[i] # None
        BY <1>1, <1>2, <2>4, <3>3 DEF UsesKey, Early, InPool
      <4> QED BY <1>1, <2>4, <4>1 DEF Entry
    <3> QED BY <1>4, <3>1, <3>2, <3>3
  <2>5. ASSUME NEW s \in Thread, UsesKey(s, i) PROVE UsesKey(s, i)'
    BY <1>1, <2>1, <2>5 DEF UsesKey, OnlyFrameOf, Early, Making
  <2> QED BY <2>2, <2>3, <2>4, <2>5 DEF Listens
<1>5. CASE Lock(t) \/ StoreOwner(t) \/ Pop(t) \/ PopEmpty(t) \/ Push(t) \/ ClearNothing(t)
        \/ UnlockClear(t) \/ UseAfterFree(t)
  <2>1. UNCHANGED <<out, key>> /\ pc'[t] \in InPool \cup {"delete"}
    BY <1>1, <1>5, OwnKey DEF Lock, StoreOwner, Pop, PopEmpty, Push, ClearNothing, UnlockClear,
       UseAfterFree, frame, Goto, InPool
  <2>2. op'[t] = op[t] \/ (op[t] \in {"clear", "relocked"} /\ op'[t] \in {"clear", "relocked"})
    BY <1>5, OwnKey DEF Lock, StoreOwner, Pop, PopEmpty, Push, ClearNothing, UnlockClear,
       UseAfterFree, frame
  <2> QED BY <1>1, <1>3, <2>1, <2>2
<1>6. CASE TestSize(t)
  <2>1. CASE Goto(t, "lock") /\ UNCHANGED <<out, op, key>>
    <3>1. pc'[t] = "lock"
      BY <2>1, OwnKey DEF Goto
    <3> QED BY <1>1, <1>3, <2>1, <3>1 DEF InPool
  <2>2. ASSUME Return(t), NEW o \in Object, out' = [out EXCEPT ![o] = IdOf(t)]
        PROVE  \A i \in Thread : Listens(i)'
    <3>1. op[t] = "get"
      BY <1>2, <1>6 DEF TestSize, AtPool, At, KeyOf
    <3> QED BY <1>4, <2>2, <3>1
  <2> QED BY <1>1, <1>6, <2>1, <2>2 DEF TestSize, Fresh
<1>7. CASE UnlockGet(t)
  BY <1>1, <1>4, <1>7 DEF UnlockGet, TypeInv, TypeOK, FrameOK
<1>8. CASE UnlockRelease(t)
  BY <1>1, <1>4, <1>8 DEF UnlockRelease
<1> QED BY <1>1, <1>5, <1>6, <1>7, <1>8 DEF Pooled

\* The end of a thread: it alone takes the cache of its id away, and then is over.
LEMMA ClearOfEnd ==
  ASSUME TypeInv, KeyInv, ClearInv, ~sameId, NEW t \in Thread, OnlyFrameOf(t), End(t)
  PROVE  fault' # "assert" /\ \A i \in Thread : Listens(i)'
<1>1. /\ fault = "none" /\ pc[t] \in {"mapMut", "notify", "delete", "erase"}
      /\ UNCHANGED <<out, key, op>>
  BY DEF End, LockMapMut, onThreadClear, DeleteCache, EraseCache, ThreadEnds, At, frame
<1>2. key[t] = t /\ op[t] = "clear" /\ Listens(t)
  BY <1>1, OwnKey DEF TypeInv, EndsOnly, ClearInv
<1>3. ASSUME NEW i \in Thread, i # t,
             UNCHANGED <<threadIdMap[i], listeners[i]>>
      PROVE  Listens(i)'
  <2>1. Listens(i) /\ (Over(i) => Over(i)')
    BY <1>3 DEF ClearInv, OnlyFrameOf, Over
  <2>2. Entry(i) => Entry(i)'
    BY <1>1, <1>3 DEF Entry
  <2>3. \A s \in Thread : UsesKey(s, i) => UsesKey(s, i)'
    BY <1>1, <1>2, <1>3 DEF UsesKey, OnlyFrameOf
  <2>4. Clears(i) => Clears(i)'
    BY <1>3 DEF Clears, OnlyFrameOf
  <2> QED BY <2>1, <2>2, <2>3, <2>4 DEF Listens
<1>4. ASSUME Entry(t)', Clears(t)', \A s \in Thread : UsesKey(s, t)' PROVE Listens(t)'
  BY <1>4 DEF Listens
<1>5. CASE LockMapMut(t)
  <2>1. /\ UNCHANGED <<threadIdMap, listeners>> /\ fault' = fault
        /\ pc[t] = "mapMut" /\ pc'[t] = "notify" /\ left'[t] = listeners[t]
    BY <1>2, <1>5, OwnKey DEF LockMapMut, Goto, At
  <2>2. Entry(t) /\ listeners[t] \in Nat /\ \A s \in Thread : UsesKey(s, t)
    BY <1>2, <2>1, OwnKey DEF Listens, Over
  <2>3. CASE left'[t] = 0
    BY <1>1, <1>3, <2>1, <2>3 DEF Listens, Over
  <2>4. CASE left'[t] # 0
    <3>1. threadIdMap[t] # None /\ left'[t] = 1
      BY <2>1, <2>2, <2>4 DEF Entry
    <3>2. Entry(t)' /\ Clears(t)'
      BY <1>1, <2>1, <2>2, <3>1 DEF Entry, Clears, InPool
    <3>3. \A s \in Thread : UsesKey(s, t)'
      BY <1>1, <2>1, <2>2, <3>1 DEF UsesKey, OnlyFrameOf, Making
    <3> QED BY <1>1, <1>3, <1>4, <2>1, <3>2, <3>3
  <2> QED BY <2>3, <2>4
<1>6. CASE onThreadClear(t)
  <2>1. left[t] = 1 /\ threadIdMap[t] # None /\ Entry(t) /\ \A s \in Thread : UsesKey(s, t)
    BY <1>2, <1>6 DEF onThreadClear, At, Listens, Over, Clears
  <2>2. /\ UNCHANGED <<threadIdMap, listeners>> /\ fault' = fault
        /\ pc[t] = "notify" /\ pc'[t] = "lock" /\ left'[t] = 0
    BY <1>2, <1>6, <2>1, OwnKey DEF onThreadClear, Goto, At
  <2>3. Entry(t)' /\ Clears(t)'
    BY <1>1, <2>1, <2>2 DEF Entry, Clears, InPool
  <2>4. \A s \in Thread : UsesKey(s, t)'
    BY <1>1, <2>1, <2>2 DEF UsesKey, OnlyFrameOf, Making
  <2> QED BY <1>1, <1>3, <1>4, <2>2, <2>3, <2>4
<1>7. CASE DeleteCache(t)
  <2>1. /\ UNCHANGED <<threadIdMap, listeners, left>> /\ fault' = fault
        /\ pc[t] = "delete" /\ pc'[t] = "erase"
    BY <1>7, OwnKey DEF DeleteCache, Goto, At, frame
  <2>2. Entry(t) /\ Clears(t) /\ \A s \in Thread : UsesKey(s, t)
    BY <1>2, <2>1 DEF Listens, Over
  <2>3. Entry(t)' /\ Clears(t)'
    BY <1>1, <1>2, <2>1, <2>2 DEF Entry, Clears
  <2>4. \A s \in Thread : UsesKey(s, t)'
    BY <1>1, <1>2, <2>1, <2>2 DEF UsesKey, OnlyFrameOf, Making, Early
  <2> QED BY <1>1, <1>3, <1>4, <2>1, <2>3, <2>4
<1>8. CASE EraseCache(t)
  <2>1. /\ \A i \in Thread : i # t => threadIdMap'[i] = threadIdMap[i]
        /\ UNCHANGED <<listeners, left>> /\ fault' = fault
        /\ pc[t] = "erase" /\ pc'[t] = "notify"
    BY <1>2, <1>8, OwnKey DEF EraseCache, Goto, At, frame
  <2>2. left'[t] = 0
    BY <1>2, <2>1 DEF Listens, Over, Clears
  <2> QED BY <1>1, <1>3, <2>1, <2>2 DEF Listens, Over
<1>9. CASE ThreadEnds(t)
  <2>1. /\ \A i \in Thread : i # t => listeners'[i] = listeners[i]
        /\ UNCHANGED threadIdMap /\ fault' = fault
        /\ pc'[t] = "ended"
    BY <1>2, <1>9, OwnKey DEF ThreadEnds, Goto
  <2> QED BY <1>1, <1>3, <2>1 DEF Listens, Over
<1> QED BY <1>5, <1>6, <1>7, <1>8, <1>9 DEF End

LEMMA ClearStep == TypeInv /\ KeyInv /\ ClearInv /\ [Next]_vars => ClearInv'
<1> SUFFICES ASSUME TypeInv, KeyInv, ClearInv, [Next]_vars, (~sameId)' PROVE ClearInv'
  BY DEF ClearInv
<1>1. CASE UNCHANGED vars
  <2> USE <1>1 DEF vars, map, frame, setup
  <2>1. \A i \in Thread : Over(i) => Over(i)'
    BY DEF Over
  <2>2. \A i \in Thread : Entry(i) => Entry(i)'
    BY DEF Entry
  <2>3. \A i, t \in Thread : UsesKey(t, i) => UsesKey(t, i)'
    BY DEF UsesKey
  <2>4. \A i \in Thread : Clears(i) => Clears(i)'
    BY DEF Clears
  <2> QED BY <2>1, <2>2, <2>3, <2>4 DEF ClearInv, Listens
<1>2. ASSUME NEW t \in Thread, Call(t) \/ Cache(t) \/ Pooled(t) \/ End(t) PROVE ClearInv'
  <2>1. OnlyFrameOf(t) /\ ~sameId
    BY <1>2, OthersStay DEF setup
  <2>2. fault' # "assert" /\ \A i \in Thread : Listens(i)'
    BY <1>2, <2>1, ClearOfCall, ClearOfCache, ClearOfPool, ClearOfEnd
  <2> QED BY <2>2 DEF ClearInv
<1> QED BY <1>1, <1>2 DEF Next

\* Every state of the pool satisfies the invariant.
LEMMA ClearAlways == Spec => [](TypeInv /\ KeyInv /\ ClearInv)
<1>1. LockInv => TypeInv
  BY DEF LockInv
<1> QED
  BY <1>1, LockInvAlways, KeyInit, KeyStep, ClearInit, ClearStep, PTL DEF Spec

\* The assertion of onThreadClear() holds wherever threads have ids of their own:
\* the end of a thread finds the cache that its listener is for, whatever other
\* threads still return to it.
THEOREM EndsFindCaches == Spec => []ClearedHasCache
<1>1. ClearInv => ClearedHasCache
  BY DEF ClearInv, ClearedHasCache
<1> QED BY <1>1, ClearAlways, PTL

(***************************************************************************)
(* NoFault.  Where a thread ends only when nobody uses its id, nobody      *)
(* learns of the id later: the cache that goes is the one that only the    *)
(* ending thread is at.  What a call has found stays in the map, and what  *)
(* get() has seen on a stack nobody else can pop.                          *)
(***************************************************************************)
Leaves(i) == pc[i] \in Leaving \/ op[i] \in {"clear", "relocked"}
LeftAlone ==
  \A i \in Thread : Leaves(i) =>
    (\A o \in Object : out[o] # i) /\ \A t \in Thread : t # i => key[t] # i
Alive == \A i \in Thread : threadIdMap[i] # None /\ pc[i] # "erase" => threadIdMap[i] \in live
Distinct ==
  \A i, j \in Thread : threadIdMap[i] # None /\ threadIdMap[i] = threadIdMap[j] => i = j
Finds(t) ==
  /\ pc[t] \in InPool \cup {"register", "registered", "delete"} =>
       use[t] = threadIdMap[key[t]] /\ use[t] \in live
  /\ pc[t] \in {"lock", "owner", "in"} /\ op[t] = "get" => stack[use[t]] # <<>>
QuietInv ==
  ~sameId /\ quiet =>
    fault = "none" /\ LeftAlone /\ Alive /\ Distinct /\ \A t \in Thread : Finds(t)

\* All of it.
SafeInv == TypeInv /\ KeyInv /\ ClearInv /\ QuietInv

LEMMA QuietInit == Init => QuietInv
<1> SUFFICES ASSUME Init, ~sameId PROVE QuietInv
  BY DEF QuietInv
<1>1. \A i \in Thread : i \in Id /\ i # None /\ threadIdMap[i] = None
  BY Ids DEF Init
<1>2. LeftAlone
  BY <1>1 DEF Init, LeftAlone, Leaves, Leaving
<1>3. Alive /\ Distinct
  BY <1>1 DEF Alive, Distinct
<1>4. \A t \in Thread : Finds(t)
  BY DEF Init, Finds, InPool
<1> QED BY <1>2, <1>3, <1>4 DEF QuietInv, Init

\* What a call may rely on where nobody uses the id of a thread that ends.
LEMMA QuietKey ==
  ASSUME SafeInv, ~sameId, quiet, NEW t \in Thread, pc[t] \notin {"notify", "erase", "ended"}
  PROVE  /\ key[t] \in Thread /\ pc[key[t]] # "erase"
         /\ pc[t] \in {"mut", "insert"} => threadIdMap[key[t]] = None
         /\ pc[t] \notin Early => threadIdMap[key[t]] # None
<1> DEFINE k == key[t]
<1>1. k \in Thread /\ Listens(k)
  BY DEF SafeInv, KeyInv, ClearInv
<1>2. ~Over(k) /\ pc[k] # "erase"
  <2>1. CASE k = t
    BY <2>1 DEF Over
  <2>2. CASE k # t
    BY <1>1, <2>2 DEF SafeInv, QuietInv, LeftAlone, Leaves, Leaving, Over
  <2> QED BY <2>1, <2>2
<1>3. UsesKey(t, k)
  BY <1>1, <1>2 DEF Listens
<1> QED BY <1>1, <1>2, <1>3 DEF UsesKey

\* A cache is the cache of one id.
LEMMA QuietUse ==
  ASSUME SafeInv, ~sameId, quiet, NEW s \in Thread, NEW t \in Thread,
         pc[s] \in InPool \cup {"register", "registered", "delete"},
         pc[t] \in InPool \cup {"register", "registered", "delete"}
  PROVE  /\ use[t] \in live /\ use[t] # None /\ use[t] = threadIdMap[key[t]]
         /\ use[s] = use[t] => key[s] = key[t]
<1>1. /\ use[t] = threadIdMap[key[t]] /\ use[t] \in live /\ key[t] \in Thread
      /\ use[s] = threadIdMap[key[s]] /\ key[s] \in Thread
  BY DEF SafeInv, QuietInv, Finds, KeyInv
<1>2. use[t] # None
  BY <1>1, BoundAssumption DEF SafeInv, TypeInv, TypeOK, MapOK, None
<1> QED BY <1>1, <1>2 DEF SafeInv, QuietInv, Distinct

\* Nobody learns of the id of a thread that ends.
LEMMA QuietLeft ==
  ASSUME SafeInv, ~sameId, quiet, NEW t \in Thread, OnlyFrameOf(t),
         Call(t) \/ Cache(t) \/ Pooled(t) \/ End(t)
  PROVE  LeftAlone'
<1>1. IdOf(t) = t /\ KeyOf(t) /\ pc \in [Thread -> Place] /\ op \in [Thread -> Op]
      /\ key \in [Thread -> Id] /\ out \in [Object -> Id \cup {None}] /\ LeftAlone
      /\ \A s \in Thread : s # None
  BY OwnKey, Ids DEF SafeInv, QuietInv
<1>2. ASSUME NEW i \in Thread, Leaves(i), key'[t] \in {key[t], t},
             \A o \in Object : out'[o] = out[o] \/ out'[o] = None \/ (i # t /\ out'[o] = t)
      PROVE  (\A o \in Object : out'[o] # i) /\ \A s \in Thread : s # i => key'[s] # i
  BY <1>1, <1>2 DEF LeftAlone, OnlyFrameOf
<1>3. ASSUME key'[t] \in {key[t], t}, Leaves(t)' => Leaves(t),
             \A o \in Object : out'[o] = out[o] \/ out'[o] = None \/ (~Leaves(t) /\ out'[o] = t)
      PROVE  LeftAlone'
  <2> SUFFICES ASSUME NEW i \in Thread, Leaves(i)'
               PROVE  (\A o \in Object : out'[o] # i) /\ \A s \in Thread : s # i => key'[s] # i
    BY DEF LeftAlone
  <2>1. Leaves(i)
    BY <1>3 DEF Leaves, OnlyFrameOf
  <2> QED BY <1>2, <1>3, <2>1
<1>4. CASE get_shared(t)
  <2>1. UNCHANGED out /\ pc'[t] = "find" /\ op'[t] = "get" /\ key'[t] = t
    BY <1>1, <1>4 DEF get_shared, Goto
  <2> QED BY <1>3, <2>1 DEF Leaves, Leaving
<1>5. CASE release(t)
  <2>1. PICK o \in Object : out[o] # None /\ key' = [key EXCEPT ![t] = out[o]]
                            /\ out' = [out EXCEPT ![o] = None]
    BY <1>5 DEF release
  <2>2. pc'[t] = "find" /\ op'[t] = "release" /\ key'[t] = out[o]
        /\ \A n \in Object : out'[n] = out[n] \/ out'[n] = None
    BY <1>1, <1>5, <2>1 DEF release, Goto
  <2>3. ASSUME NEW i \in Thread, Leaves(i)' PROVE i # t /\ Leaves(i)
    BY <2>2, <2>3 DEF Leaves, Leaving, OnlyFrameOf
  <2> QED BY <1>1, <2>2, <2>3 DEF LeftAlone, OnlyFrameOf
<1>6. CASE beforeDestroyThread(t)
  <2>1. UNCHANGED out /\ key'[t] = t /\ pc[t] = "idle" /\ Quiet(t)
    BY <1>1, <1>6 DEF beforeDestroyThread, At
  <2>2. \A s \in Thread : s # t => key[s] # t
    BY <2>1, Ids, OwnKey DEF SafeInv, Quiet, KeyInv, KeyOf, IdOf
  <2>3. \A i \in Thread : i # t /\ Leaves(i)' => Leaves(i)
    BY DEF Leaves, OnlyFrameOf
  <2> QED BY <1>1, <2>1, <2>2, <2>3 DEF LeftAlone, OnlyFrameOf, Quiet
<1>7. CASE Cache(t)
  <2>1. UNCHANGED <<out, key, op>> /\ pc'[t] \notin Leaving
    BY <1>1, <1>7 DEF Cache, Find, LockMut, InsertCache, registerListener, LeaveMut, Lookup, At,
       Goto, StartIn, frame, Leaving
  <2> QED BY <1>3, <2>1 DEF Leaves
<1>8. CASE Lock(t) \/ StoreOwner(t) \/ Pop(t) \/ PopEmpty(t) \/ Push(t) \/ ClearNothing(t)
        \/ UseAfterFree(t)
  <2>1. UNCHANGED <<out, key, op>> /\ pc'[t] \notin Leaving
    BY <1>1, <1>8 DEF Lock, StoreOwner, Pop, PopEmpty, Push, ClearNothing, UseAfterFree, AtPool, At,
       Goto, frame, Leaving, InPool
  <2> QED BY <1>3, <2>1 DEF Leaves
<1>9. CASE UnlockClear(t)
  <2>1. UNCHANGED <<out, key>> /\ Leaves(t)
    BY <1>9 DEF UnlockClear, Leaves
  <2> QED BY <1>3, <2>1
<1>10. ASSUME Return(t), UNCHANGED out PROVE LeftAlone'
  <2>1. pc'[t] = "idle" /\ op'[t] = "get" /\ key'[t] = t
    BY <1>1, <1>10 DEF Return, Goto
  <2> QED BY <1>3, <1>10, <2>1 DEF Leaves, Leaving
<1>11. ASSUME Return(t), NEW o, out' = [out EXCEPT ![o] = t], ~Leaves(t) PROVE LeftAlone'
  <2>1. pc'[t] = "idle" /\ op'[t] = "get" /\ key'[t] = t
    BY <1>1, <1>11 DEF Return, Goto
  <2>2. \A n \in Object : out'[n] = out[n] \/ out'[n] = t
    BY <1>1, <1>11
  <2> QED BY <1>3, <1>11, <2>1, <2>2 DEF Leaves, Leaving
<1>12. CASE TestSize(t) \/ UnlockGet(t) \/ UnlockRelease(t)
  <2>1. UnlockRelease(t) \/ ~Leaves(t)
    BY <1>1, <1>12 DEF TestSize, UnlockGet, AtPool, At, Leaves, Leaving, KeyOf
  <2>2. CASE UnlockRelease(t)
    BY <1>10, <2>2 DEF UnlockRelease
  <2>3. CASE UnlockGet(t)
    BY <1>1, <1>11, <2>1, <2>3, <2>2 DEF UnlockGet
  <2>4. CASE TestSize(t)
    <3>1. CASE Goto(t, "lock") /\ UNCHANGED <<out, op, key>>
      <4>1. pc'[t] = "lock"
        BY <1>1, <3>1 DEF Goto
      <4> QED BY <1>3, <3>1, <4>1 DEF Leaves, Leaving
    <3>2. CASE Return(t) /\ \E o \in Fresh : out' = [out EXCEPT ![o] = IdOf(t)]
      BY <1>1, <1>11, <2>1, <2>2, <3>2
    <3> QED BY <2>4, <3>1, <3>2 DEF TestSize
  <2> QED BY <1>12, <2>2, <2>3, <2>4
<1>13. CASE End(t)
  <2>1. UNCHANGED <<out, key, op>> /\ pc[t] \in {"mapMut", "notify", "delete", "erase"}
    BY <1>13 DEF End, LockMapMut, onThreadClear, DeleteCache, EraseCache, ThreadEnds, frame, At
  <2> QED BY <1>3, <2>1 DEF Leaves, Leaving
<1> QED BY <1>4, <1>5, <1>6, <1>7, <1>8, <1>9, <1>12, <1>13 DEF Call, Pooled

\* The caches in the map are alive, and each is that of one id.
LEMMA QuietMap ==
  ASSUME SafeInv, ~sameId, quiet, NEW t \in Thread, OnlyFrameOf(t),
         Call(t) \/ Cache(t) \/ Pooled(t) \/ End(t)
  PROVE  Alive' /\ Distinct'
<1>1. /\ pc \in [Thread -> Place] /\ threadIdMap \in [Id -> 0..made] /\ Thread \subseteq Id
      /\ made \in Nat /\ live \subseteq 1..made /\ Alive /\ Distinct /\ Finds(t)
  BY OwnKey, BoundAssumption DEF SafeInv, QuietInv, TypeInv, TypeOK, MapOK
<1>2. ASSUME UNCHANGED <<threadIdMap, live>>, pc[t] = "erase" => pc'[t] = "erase"
      PROVE  Alive' /\ Distinct'
  BY <1>1, <1>2 DEF Alive, Distinct, OnlyFrameOf
<1>3. CASE Call(t) \/ Pooled(t)
  <2>1. UNCHANGED <<threadIdMap, live>> /\ pc[t] # "erase"
    BY <1>3 DEF Call, get_shared, release, beforeDestroyThread, Pooled, TestSize, Lock, StoreOwner,
       Pop, PopEmpty, Push, ClearNothing, UnlockGet, UnlockRelease, UnlockClear, UseAfterFree,
       AtPool, At, InPool, map
  <2> QED BY <1>2, <2>1
<1>4. CASE Find(t) \/ LockMut(t) \/ registerListener(t) \/ Lookup(t) \/ LockMapMut(t)
        \/ onThreadClear(t) \/ ThreadEnds(t)
  <2>1. UNCHANGED <<threadIdMap, live>> /\ pc[t] # "erase"
    BY <1>4 DEF Find, LockMut, registerListener, Lookup, LockMapMut, onThreadClear, ThreadEnds,
       At, map
  <2> QED BY <1>2, <2>1
<1>5. CASE LeaveMut(t)
  <2>1. UNCHANGED <<threadIdMap, live>> /\ pc[t] # "erase"
    BY <1>1, <1>5 DEF LeaveMut, Finds, At
  <2> QED BY <1>2, <2>1
<1>6. CASE InsertCache(t)
  <2>1. /\ key[t] \in Thread /\ threadIdMap[key[t]] = None /\ live' = live \cup {made + 1}
        /\ threadIdMap' = [threadIdMap EXCEPT ![key[t]] = made + 1] /\ pc'[t] = "register"
        /\ pc[t] # "erase" /\ pc[key[t]] # "erase"
    BY <1>1, <1>6, QuietKey DEF InsertCache, At, Goto
  <2>2. made + 1 # None /\ \A i \in Thread : threadIdMap[i] # made + 1
    BY <1>1 DEF None
  <2>3. Alive'
    BY <1>1, <2>1 DEF Alive, OnlyFrameOf
  <2>4. Distinct'
    BY <1>1, <2>1, <2>2 DEF Distinct
  <2> QED BY <2>3, <2>4
<1>7. CASE DeleteCache(t)
  <2>1. /\ key[t] = t /\ use[t] = threadIdMap[t] /\ live' = live \ {use[t]} /\ use[t] # None
        /\ pc'[t] = "erase" /\ UNCHANGED threadIdMap
    BY <1>1, <1>7, OwnKey, QuietUse DEF DeleteCache, At, Goto, SafeInv, TypeInv, EndsOnly
  <2> QED BY <1>1, <2>1 DEF Alive, Distinct, OnlyFrameOf
<1>8. CASE EraseCache(t)
  <2>1. /\ key[t] = t /\ threadIdMap' = [threadIdMap EXCEPT ![t] = None] /\ UNCHANGED live
    BY <1>1, <1>8, OwnKey DEF EraseCache, At, SafeInv, TypeInv, EndsOnly
  <2> QED BY <1>1, <2>1 DEF Alive, Distinct, OnlyFrameOf
<1> QED BY <1>3, <1>4, <1>5, <1>6, <1>7, <1>8 DEF Cache, End

\* What the other threads are at.
LEMMA QuietOthers ==
  ASSUME SafeInv, ~sameId, quiet, NEW t \in Thread, OnlyFrameOf(t),
         Call(t) \/ Cache(t) \/ Pooled(t) \/ End(t), NEW s \in Thread, s # t
  PROVE  Finds(s)'
<1> DEFINE AtCache == pc[s] \in InPool \cup {"register", "registered", "delete"}
<1>1. /\ pc'[s] = pc[s] /\ op'[s] = op[s] /\ key'[s] = key[s] /\ use'[s] = use[s]
      /\ Finds(s) /\ (op[s] # "release" => key[s] = s) /\ (op[t] # "release" => key[t] = t)
      /\ threadIdMap \in [Id -> 0..made] /\ stack \in [Pool -> Seq(Object)]
      /\ Thread \subseteq Id /\ key[s] \in Thread /\ key[t] \in Thread
  BY OwnKey DEF OnlyFrameOf, SafeInv, QuietInv, TypeInv, TypeOK, PoolOK
<1>2. ASSUME AtCache => threadIdMap'[key[s]] = threadIdMap[key[s]],
             AtCache => use[s] \in live',
             pc[s] \in {"lock", "owner", "in"} /\ op[s] = "get" /\ stack[use[s]] # <<>> =>
               stack'[use[s]] # <<>>
      PROVE  Finds(s)'
  BY <1>1, <1>2 DEF Finds
<1>3. CASE InsertCache(t)
  <2>1. /\ threadIdMap[key[t]] = None /\ live' = live \cup {made + 1} /\ UNCHANGED stack
        /\ threadIdMap' = [threadIdMap EXCEPT ![key[t]] = made + 1]
    BY <1>1, <1>3, QuietKey DEF InsertCache, At
  <2>2. AtCache => key[s] # key[t]
    BY <2>1, QuietUse
  <2> QED BY <1>1, <1>2, <2>1, <2>2 DEF Finds
<1>4. CASE DeleteCache(t)
  <2>1. /\ key[t] = t /\ live' = live \ {use[t]} /\ UNCHANGED <<threadIdMap, stack>>
        /\ pc[t] = "delete" /\ op[t] = "clear"
    BY <1>1, <1>4 DEF DeleteCache, At, SafeInv, TypeInv, EndsOnly
  <2>2. AtCache => use[s] # use[t] /\ use[s] \in live
    <3>1. key[s] # t
      BY <2>1 DEF SafeInv, QuietInv, LeftAlone, Leaves
    <3> QED BY <2>1, <3>1, QuietUse
  <2> QED BY <1>2, <2>1, <2>2
<1>5. CASE EraseCache(t)
  <2>1. /\ threadIdMap' = [threadIdMap EXCEPT ![t] = None] /\ UNCHANGED <<live, stack>>
        /\ op[t] = "clear"
    BY <1>1, <1>5 DEF EraseCache, At, SafeInv, TypeInv, EndsOnly
  <2>2. key[s] # t
    BY <2>1 DEF SafeInv, QuietInv, LeftAlone, Leaves
  <2> QED BY <1>1, <1>2, <2>1, <2>2 DEF Finds
<1>6. CASE LeaveMut(t)
  <2>1. UNCHANGED <<threadIdMap, live, stack>>
    BY <1>6 DEF LeaveMut, At, SafeInv, QuietInv, Finds
  <2> QED BY <1>1, <1>2, <2>1 DEF Finds
<1>7. CASE Pop(t)
  <2>1. /\ UNCHANGED <<threadIdMap, live>> /\ op[t] # "release" /\ pc[t] = "in" /\ use[t] \in Pool
        /\ stack' = [stack EXCEPT ![use[t]] = SubSeq(@, 1, Len(@) - 1)]
    BY <1>7, Found DEF Pop, Popped, AtPool, At, map, SafeInv
  <2>2. AtCache /\ op[s] = "get" => use[s] # use[t]
    BY <1>1, <2>1, QuietUse DEF InPool
  <2>3. AtCache /\ op[s] = "get" => stack'[use[s]] = stack[use[s]]
    BY <1>1, <2>1, <2>2
  <2> QED BY <1>1, <1>2, <2>1, <2>3 DEF Finds, InPool
<1>8. CASE Push(t)
  <2>1. /\ UNCHANGED <<threadIdMap, live>> /\ use[t] \in Pool
        /\ stack' = [stack EXCEPT ![use[t]] = Append(@, item[t])]
    BY <1>8, Found DEF Push, Pushed, AtPool, At, map, SafeInv
  <2>2. stack'[use[t]] # <<>>
    <3>1. /\ stack[use[t]] \in Seq(Object) /\ item[t] \in Object
          /\ stack'[use[t]] = Append(stack[use[t]], item[t])
      BY <1>1, <1>8, <2>1 DEF Push, AtPool, At, SafeInv, TypeInv, TypeOK, FrameOK, Carries, Before
    <3> QED BY <3>1
  <2>3. use[s] # use[t] => stack'[use[s]] = stack[use[s]]
    BY <1>1, <2>1
  <2> QED BY <1>1, <1>2, <2>1, <2>2, <2>3 DEF Finds
<1>9. CASE UNCHANGED <<threadIdMap, live, stack>>
  BY <1>1, <1>2, <1>9 DEF Finds
<1>10. CASE Call(t)
  BY <1>9, <1>10 DEF Call, get_shared, release, beforeDestroyThread, map
<1>11. CASE Find(t) \/ LockMut(t) \/ registerListener(t) \/ Lookup(t) \/ LockMapMut(t)
        \/ onThreadClear(t) \/ ThreadEnds(t)
  BY <1>9, <1>11 DEF Find, LockMut, registerListener, Lookup, LockMapMut, onThreadClear,
     ThreadEnds, map
<1>12. CASE TestSize(t) \/ Lock(t) \/ StoreOwner(t) \/ PopEmpty(t) \/ ClearNothing(t)
        \/ UnlockGet(t) \/ UnlockRelease(t) \/ UnlockClear(t) \/ UseAfterFree(t)
  BY <1>9, <1>12 DEF TestSize, Lock, StoreOwner, PopEmpty, ClearNothing, UnlockGet, UnlockRelease,
     UnlockClear, UseAfterFree, map
<1> QED
  BY <1>3, <1>4, <1>5, <1>6, <1>7, <1>8, <1>10, <1>11, <1>12 DEF Cache, Pooled, End

\* What the thread that takes the step is at, and that it meets no fault.
LEMMA QuietOwn ==
  ASSUME SafeInv, ~sameId, quiet, NEW t \in Thread, OnlyFrameOf(t),
         Call(t) \/ Cache(t) \/ Pooled(t) \/ End(t)
  PROVE  fault' = "none" /\ Finds(t)'
<1>1. /\ pc \in [Thread -> Place] /\ op \in [Thread -> Op] /\ use \in [Thread -> 0..made]
      /\ key \in [Thread -> Id] /\ threadIdMap \in [Id -> 0..made] /\ Thread \subseteq Id
      /\ Finds(t) /\ KeyOf(t) /\ (op[t] # "release" => key[t] = t) /\ fault = "none" /\ Alive
      /\ key[t] \in Thread
  BY OwnKey DEF SafeInv, QuietInv
<1>2. ASSUME fault' = fault, pc'[t] \notin InPool \cup {"register", "registered", "delete"}
      PROVE  fault' = "none" /\ Finds(t)'
  BY <1>1, <1>2 DEF Finds, InPool
<1>3. ASSUME UNCHANGED <<threadIdMap, live, stack, key, use, fault>>,
             pc[t] \in InPool \cup {"register", "registered", "delete"},
             pc'[t] \in {"lock", "owner", "in"} /\ op'[t] = "get" => stack[use[t]] # <<>>
      PROVE  fault' = "none" /\ Finds(t)'
  BY <1>1, <1>3 DEF Finds
<1>4. CASE Call(t)
  BY <1>1, <1>2, <1>4 DEF Call, get_shared, release, beforeDestroyThread, Goto, InPool
<1>5. CASE Find(t) \/ LockMut(t)
  <2>1. pc'[t] \in {"mut", "lookup", "insert"} /\ fault' = fault
    BY <1>1, <1>5 DEF Find, LockMut, Goto
  <2> QED BY <1>2, <2>1 DEF InPool
<1>6. CASE InsertCache(t)
  <2>1. /\ threadIdMap' = [threadIdMap EXCEPT ![key[t]] = made + 1] /\ live' = live \cup {made + 1}
        /\ use'[t] = made + 1 /\ key' = key /\ pc'[t] = "register" /\ fault' = fault
    BY <1>1, <1>6, QuietKey DEF InsertCache, At, Goto
  <2> QED BY <1>1, <2>1 DEF Finds
<1>7. CASE registerListener(t)
  <2>1. pc'[t] = "registered" /\ pc[t] = "register"
    BY <1>1, <1>7 DEF registerListener, At, Goto
  <2> QED BY <1>3, <1>7, <2>1 DEF registerListener, frame
<1>8. CASE LeaveMut(t)
  <2>1. pc'[t] = "lookup" /\ fault' = fault
    BY <1>1, <1>8 DEF LeaveMut, At, Goto, Finds
  <2> QED BY <1>2, <2>1 DEF InPool
<1>9. CASE Lookup(t)
  <2>1. /\ threadIdMap[key[t]] # None /\ pc[key[t]] # "erase" /\ pc[t] = "lookup"
    BY <1>9, QuietKey DEF Lookup, At, Early
  <2>2. /\ use'[t] = threadIdMap[key[t]] /\ pc'[t] = StartIn(t) /\ fault' = fault
        /\ UNCHANGED <<key, op, threadIdMap, live>>
    BY <1>1, <1>9, <2>1 DEF Lookup, Goto, map
  <2>3. threadIdMap[key[t]] \in live
    BY <1>1, <2>1 DEF Alive
  <2>4. pc'[t] \in {"lock", "owner", "in"} => op'[t] # "get"
    BY <2>2 DEF StartIn
  <2> QED BY <1>1, <2>2, <2>3, <2>4 DEF Finds
<1>10. CASE TestSize(t)
  <2>1. CASE Goto(t, "lock") /\ UNCHANGED <<op, key, use>> /\ stack[use[t]] # <<>>
    BY <1>3, <1>10, <2>1 DEF TestSize, AtPool, At, InPool, map
  <2>2. CASE Return(t)
    <3>1. pc'[t] = "idle" /\ fault' = fault
      BY <1>1, <1>10, <2>2 DEF TestSize, Return, Goto
    <3> QED BY <1>2, <3>1 DEF InPool
  <2> QED BY <1>10, <2>1, <2>2 DEF TestSize
<1>11. CASE Lock(t) \/ StoreOwner(t)
  <2>1. /\ UNCHANGED <<threadIdMap, live, stack, key, use, fault, op>>
        /\ pc[t] \in {"lock", "owner"}
    BY <1>11 DEF Lock, StoreOwner, AtPool, At, map, frame
  <2> QED BY <1>1, <1>3, <2>1 DEF Finds, InPool
<1>12. CASE Pop(t) \/ Push(t)
  <2>1. /\ UNCHANGED <<threadIdMap, live, key, use, fault>> /\ pc[t] = "in" /\ pc'[t] = "unlock"
    BY <1>1, <1>12 DEF Pop, Push, AtPool, At, map, frame, Goto
  <2> QED BY <1>1, <2>1 DEF Finds, InPool
<1>13. CASE ClearNothing(t)
  <2>1. /\ UNCHANGED <<threadIdMap, live, stack, key, use, fault>> /\ pc[t] = "in" /\ pc'[t] = "unlock"
    BY <1>1, <1>13 DEF ClearNothing, AtPool, At, map, frame, Goto
  <2> QED BY <1>3, <2>1 DEF InPool
<1>14. CASE PopEmpty(t) \/ UseAfterFree(t)
  BY <1>1, <1>14 DEF PopEmpty, UseAfterFree, AtPool, At, Finds
<1>15. CASE UnlockGet(t) \/ UnlockRelease(t)
  <2>1. pc'[t] = "idle" /\ fault' = fault
    BY <1>1, <1>15 DEF UnlockGet, UnlockRelease, Return, Goto
  <2> QED BY <1>2, <2>1 DEF InPool
<1>16. CASE UnlockClear(t)
  <2>1. /\ UNCHANGED <<threadIdMap, live, stack, key, use, fault>> /\ pc[t] = "unlock"
        /\ op'[t] # "get"
    BY <1>1, <1>16 DEF UnlockClear, AtPool, At, map
  <2> QED BY <1>3, <2>1 DEF InPool
<1>17. CASE LockMapMut(t) \/ DeleteCache(t) \/ EraseCache(t) \/ ThreadEnds(t)
  <2>1. pc'[t] \in {"notify", "erase", "ended"} /\ fault' = fault
    BY <1>1, <1>17 DEF LockMapMut, DeleteCache, EraseCache, ThreadEnds, Goto
  <2> QED BY <1>2, <2>1 DEF InPool
<1>18. CASE onThreadClear(t)
  <2>1. pc[t] = "notify" /\ left[t] > 0 /\ op[t] = "clear" /\ key[t] = t
    BY <1>1, <1>18 DEF onThreadClear, At, SafeInv, TypeInv, EndsOnly
  <2>2. threadIdMap[t] # None
    BY <2>1 DEF SafeInv, ClearInv, Listens, Over, Clears
  <2>3. /\ use'[t] = threadIdMap[t] /\ threadIdMap[t] \in live /\ fault' = fault
        /\ UNCHANGED <<threadIdMap, live, key, op>> /\ pc'[t] = "lock"
    BY <1>1, <1>18, <2>1, <2>2 DEF onThreadClear, Goto, Alive
  <2> QED BY <1>1, <2>1, <2>3 DEF Finds
<1> QED
  BY <1>4, <1>5, <1>6, <1>7, <1>8, <1>9, <1>10, <1>11, <1>12, <1>13, <1>14, <1>15, <1>16, <1>17,
     <1>18 DEF Cache, Pooled, End

LEMMA QuietStep == SafeInv /\ [Next]_vars => QuietInv'
<1> SUFFICES ASSUME SafeInv, [Next]_vars, (~sameId /\ quiet)' PROVE QuietInv'
  BY DEF QuietInv
<1>1. CASE UNCHANGED vars
  <2> USE <1>1 DEF vars, map, frame, setup
  <2>1. fault = "none" /\ LeftAlone /\ Alive /\ Distinct /\ \A t \in Thread : Finds(t)
    BY DEF SafeInv, QuietInv
  <2>2. LeftAlone' /\ Alive' /\ Distinct'
    BY <2>1 DEF LeftAlone, Leaves, Alive, Distinct
  <2>3. \A t \in Thread : Finds(t)'
    BY <2>1 DEF Finds
  <2> QED BY <2>1, <2>2, <2>3 DEF QuietInv
<1>2. ASSUME NEW t \in Thread, Call(t) \/ Cache(t) \/ Pooled(t) \/ End(t) PROVE QuietInv'
  <2>1. OnlyFrameOf(t) /\ ~sameId /\ quiet
    BY <1>2, OthersStay DEF setup, SafeInv
  <2>2. LeftAlone' /\ Alive' /\ Distinct' /\ fault' = "none" /\ Finds(t)'
    BY <1>2, <2>1, QuietLeft, QuietMap, QuietOwn
  <2>3. \A s \in Thread : s # t => Finds(s)'
    BY <1>2, <2>1, QuietOthers
  <2> QED BY <2>2, <2>3 DEF QuietInv
<1> QED BY <1>1, <1>2 DEF Next

\* A program whose threads have ids of their own, and end only when nobody uses
\* theirs, never pops an empty stack, meets a deleted or missing cache, or fails
\* the assertion of onThreadClear().
THEOREM QuietProgramsAreSafe == Spec => []NoFault
<1>1. SafeInv => NoFault
  BY DEF SafeInv, QuietInv, NoFault
<1>2. Spec => []SafeInv
  <2>1. SafeInv <=> TypeInv /\ KeyInv /\ ClearInv /\ QuietInv
    BY DEF SafeInv
  <2> QED BY <2>1, ClearAlways, QuietInit, QuietStep, PTL DEF Spec
<1> QED BY <1>1, <1>2, PTL

=============================================================================
