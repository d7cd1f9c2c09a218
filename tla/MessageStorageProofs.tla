------------------------ MODULE MessageStorageProofs ------------------------
(***************************************************************************)
(* Proofs about the storage, for any capacity and any messages: records    *)
(* are stored whole, and the inner pair picks them one by one.             *)
(***************************************************************************)
EXTENDS MessageStorage, SequenceTheorems, TLAPS

(***************************************************************************)
(* Types.  The parts are written to the last message; an inner message has *)
(* one field; what is known of a head has a length when the body is read.  *)
(***************************************************************************)
Newest == Len(lens)
Shape ==
  /\ Newest <= MaxMsgs /\ (part # 0 => Newest > 0)
  /\ reader = "inner" => pc \notin {"cmd", "len"}
  /\ pc = "body" => len # -1
  /\ pc # "idle" => picks < MaxMsgs
TypeInv == TypeOK /\ Shape

(***************************************************************************)
(* StoredWhole.  From the test to the last tryWrite there is room for all  *)
(* that is still to be written, whatever the consumer takes meanwhile.     *)
(***************************************************************************)
Rest(p) ==
  lens[Newest] + (IF p = DataPart THEN 0
                ELSE IF reader = "inner" THEN 3 ELSE IF p = 1 THEN 4 ELSE IF p = 2 THEN 2 ELSE 1)
RoomInv == ~dropped /\ (part # 0 => count + Rest(part) < Capacity)

(***************************************************************************)
(* The inner pair.  start[m] is how many units came before message m, in   *)
(* all; done is how many the consumer has taken.                           *)
(***************************************************************************)
Laid(start) ==
  /\ start \in [1..Newest + 1 -> Nat] /\ start[1] = 0
  /\ \A m \in 1..Newest :
       /\ lens[m] > 0 /\ start[m + 1] = start[m] + 3 + lens[m]
       /\ start[m] <= start[Newest]
Written(start) ==
  IF part = 0 THEN start[Newest + 1]
  ELSE IF part = 1 THEN start[Newest] ELSE start[Newest] + 3
Content(start, done) ==
  \A m \in 1..Newest, i \in 1..count :
    /\ start[m] < done + i /\ done + i <= start[m] + 3 => storage[i] = Unit(m, 1)
    /\ start[m] + 3 < done + i /\ done + i <= start[m + 1] => storage[i] = Unit(m, 2)
Reads(start, done) ==
  \/ pc \in {"idle", "head"} /\ len = -1 /\ done = start[picks + 1]
  \/ /\ pc \in {"idle", "body"} /\ uid = picks + 1 /\ done = start[picks + 1] + 3
     /\ picks < Newest /\ len = lens[picks + 1]
Stored(start, done) ==
  /\ Laid(start) /\ done \in Nat /\ done + count = Written(start)
  /\ Content(start, done) /\ picks <= Newest /\ Reads(start, done)
InnerInv ==
  reader = "inner" /\ ~blind =>
    ~overread /\ PickedIsNextStored /\ \E start, done : Stored(start, done)

\* The parts a message has, and what one unit is.
UnitSet == [msg : 1..MaxMsgs, part : 1..DataPart, len : 0..MaxData]

LEMMA Parts ==
  ASSUME TypeOK
  PROVE  /\ reader = "server" \/ reader = "inner"
         /\ reader = "server" => DataPart = 4 /\ HeadSize = 4
              /\ Fields[1] = 2 /\ Fields[2] = 1 /\ Fields[3] = 1
         /\ reader = "inner" => DataPart = 2 /\ HeadSize = 3 /\ Fields[1] = 3
<1>1. reader = "server" \/ reader = "inner"
  BY ReaderAssumption DEF TypeOK
<1>2. CASE reader = "server"
  <2>1. Fields = <<2, 1, 1>>
    BY <1>2 DEF Fields
  <2> QED BY <1>2, <2>1 DEF DataPart, HeadSize
<1>3. CASE reader = "inner"
  <2>1. Fields = <<3>>
    BY <1>3 DEF Fields
  <2> QED BY <1>3, <2>1 DEF DataPart, HeadSize
<1> QED BY <1>1, <1>2, <1>3

\* A sequence is a function.
LEMMA SeqFacts ==
  ASSUME NEW S, NEW s \in Seq(S)
  PROVE  Len(s) \in Nat /\ s \in [1..Len(s) -> S]
OBVIOUS

\* The types as later steps need them.
LEMMA Types ==
  ASSUME TypeOK
  PROVE  /\ lens \in Seq(0..MaxData) /\ Newest \in Nat /\ lens \in [1..Newest -> 0..MaxData]
         /\ storage \in Seq(UnitSet) /\ count \in Nat /\ storage \in [1..count -> UnitSet]
         /\ part \in 0..DataPart /\ MaxData \in Nat /\ MaxMsgs \in Nat /\ Capacity \in Nat
         /\ \A m \in 1..Newest : lens[m] \in Nat /\ lens[m] \in 0..MaxData
<1>1. lens \in Seq(0..MaxData) /\ storage \in Seq(UnitSet)
  BY DEF TypeOK, UnitSet
<1> HIDE DEF UnitSet
<1>2. /\ Newest \in Nat /\ lens \in [1..Newest -> 0..MaxData]
      /\ count \in Nat /\ storage \in [1..count -> UnitSet]
  BY <1>1, SeqFacts, Zenon DEF Newest, count
<1>3. /\ part \in 0..DataPart /\ MaxData \in Nat /\ MaxMsgs \in Nat /\ Capacity \in Nat
  BY StorageAssumption DEF TypeOK
<1>4. \A m \in 1..Newest : lens[m] \in Nat /\ lens[m] \in 0..MaxData
  BY <1>2, <1>3
<1> QED BY <1>1, <1>2, <1>3, <1>4, Zenon

\* The block of a part.
LEMMA Blocks ==
  ASSUME TypeOK, NEW m \in 1..Newest, m <= MaxMsgs, NEW p \in 1..DataPart
  PROVE  /\ Units(m, p) \in Seq(UnitSet)
         /\ Len(Units(m, p)) = IF p = DataPart THEN lens[m] ELSE Fields[p]
         /\ Len(Units(m, p)) \in Nat
         /\ \A i \in 1..Len(Units(m, p)) : Units(m, p)[i] = Unit(m, p)
<1> DEFINE n == IF p = DataPart THEN lens[m] ELSE Fields[p]
<1>1. n \in Nat
  <2>1. CASE reader = "server"
    <3>1. p \in {1, 2, 3, 4} /\ DataPart = 4
      BY <2>1, Parts
    <3> QED BY <2>1, <3>1, Parts, Types
  <2>2. CASE reader = "inner"
    <3>1. p \in {1, 2} /\ DataPart = 2
      BY <2>2, Parts
    <3> QED BY <2>2, <3>1, Parts, Types
  <2> QED BY <2>1, <2>2, Parts
<1>2. Unit(m, p) \in UnitSet
  BY Types DEF Unit, UnitSet
<1>3. Units(m, p) = [i \in 1..n |-> Unit(m, p)]
  BY DEF Units
<1> HIDE DEF n
<1>4. Units(m, p) \in Seq(UnitSet) /\ Len(Units(m, p)) = n
  BY <1>1, <1>2, <1>3
<1> QED BY <1>1, <1>3, <1>4 DEF n

\* What is left when units are taken.
LEMMA Taking ==
  ASSUME TypeOK, NEW n \in Nat, n <= count
  PROVE  LET rest == SubSeq(storage, n + 1, count) IN
         /\ rest \in Seq(UnitSet) /\ Len(rest) = count - n
         /\ \A i \in 1..Len(rest) : rest[i] = storage[n + i]
<1>1. storage \in Seq(UnitSet) /\ count = Len(storage) /\ count \in Nat
  BY Types DEF count
<1> HIDE DEF UnitSet
<1> QED BY <1>1

\* Types: the first state, and each kind of step.
LEMMA TypeInit == Init => TypeInv
<1> SUFFICES ASSUME Init PROVE TypeInv
  OBVIOUS
<1>1. /\ storage = <<>> /\ lens = <<>> /\ part = 0 /\ pc = "idle" /\ uid = 0 /\ picks = 0
      /\ reader \in Readers /\ dropped = FALSE /\ blind = FALSE /\ overread = FALSE /\ len \in {-1} \cup Garbage
  BY DEF Init
<1>2. DataPart \in Nat
  BY <1>1 DEF DataPart, Fields
<1>3. storage \in Seq([msg : 1..MaxMsgs, part : 1..DataPart, len : 0..MaxData])
      /\ lens \in Seq(0..MaxData)
  BY <1>1
<1>4. uid \in 0..MaxMsgs /\ picks \in 0..MaxMsgs /\ part \in 0..DataPart
  BY <1>1, <1>2, StorageAssumption
<1>5. TypeOK
  BY <1>1, <1>3, <1>4 DEF TypeOK
<1> QED BY <1>1, <1>5, StorageAssumption DEF TypeInv, Shape, Newest

LEMMA TypeCopy == ASSUME TypeInv, try_copy_to_storage PROVE TypeInv'
<1>1. PICK k \in DataLengths : SpaceFor(k) /\ lens' = Append(lens, k)
  BY DEF try_copy_to_storage
<1>2. /\ part' = 1 /\ part = 0 /\ Newest < MaxMsgs
      /\ UNCHANGED <<reader, storage, dropped, pc, uid, len, picks, picked, blind, overread>>
  BY DEF try_copy_to_storage, Newest
<1>3. k \in 0..MaxData
  BY StorageAssumption DEF DataLengths
<1>4. lens' \in Seq(0..MaxData) /\ Len(lens') = Newest + 1
  BY <1>1, <1>3, Types DEF TypeInv, Newest
<1>5. DataPart' = DataPart /\ 1 \in 0..DataPart
  BY <1>2, Parts DEF DataPart, Fields, TypeInv
<1>6. TypeOK'
  BY <1>2, <1>4, <1>5 DEF TypeInv, TypeOK, Garbage
<1> QED BY <1>2, <1>4, <1>6, Types DEF TypeInv, Shape, Newest

LEMMA TypeWrite == ASSUME TypeInv, WritePart PROVE TypeInv'
<1> DEFINE block == Units(Newest, part)
           fails == full(0) \/ Len(block) + count >= Capacity
<1>1. /\ part # 0 /\ part' = NextPart
      /\ UNCHANGED <<reader, lens, pc, uid, len, picks, picked, blind, overread>>
      /\ storage' = (IF fails THEN storage ELSE storage \o block) /\ dropped' = (dropped \/ fails)
  BY DEF WritePart, Newest
<1>2. Newest \in 1..Newest /\ Newest <= MaxMsgs /\ part \in 1..DataPart
  BY <1>1, Types, Parts DEF TypeInv, Shape
<1>3. block \in Seq(UnitSet) /\ storage \in Seq(UnitSet)
  BY <1>2, Blocks, Types DEF TypeInv
<1>4. storage' \in Seq(UnitSet)
  <2> HIDE DEF block, fails, UnitSet
  <2> QED BY <1>1, <1>3
<1>5. part' \in 0..DataPart /\ DataPart' = DataPart
  BY <1>1, <1>2, Parts DEF NextPart, DataPart, Fields, TypeInv
<1>6. dropped' \in BOOLEAN
  BY <1>1 DEF TypeInv, TypeOK
<1>7. TypeOK'
  BY <1>1, <1>4, <1>5, <1>6 DEF TypeInv, TypeOK, Garbage, UnitSet
<1> QED BY <1>1, <1>2, <1>7 DEF TypeInv, Shape, Newest

\* Steps of the application: fewer units stored, if any.
LEMMA TypeApplication ==
  ASSUME TypeInv, UNCHANGED <<reader, lens, part, dropped>>,
         storage' \in Seq(UnitSet), blind' \in BOOLEAN, overread' \in BOOLEAN,
         pc' \in {"idle", "head", "cmd", "len", "body"},
         reader = "inner" => pc' \notin {"cmd", "len"},
         uid' \in 0..MaxMsgs, len' \in {-1} \cup Garbage, picks' \in 0..MaxMsgs,
         pc' = "body" => len' # -1, pc' # "idle" => picks' < MaxMsgs
  PROVE  TypeInv'
<1>1. DataPart' = DataPart
  BY DEF DataPart, Fields
<1> QED BY <1>1 DEF TypeInv, TypeOK, Shape, Garbage, UnitSet, Newest

LEMMA TypeTakeField ==
  ASSUME TypeInv, NEW p \in 1..DataPart, p # DataPart, NEW next, TakeField(p, next)
  PROVE  /\ storage' \in Seq(UnitSet) /\ overread' \in BOOLEAN
         /\ (pc' = pc /\ overread' = TRUE) \/ pc' = next
         /\ Clean(p) => storage[1].msg \in 0..MaxMsgs /\ storage[1].len \in Garbage
                          /\ storage[1].len # -1
<1>1. Fields[p] \in Nat /\ Fields[p] > 0
  BY Parts DEF TypeInv
<1>2. storage \in Seq(UnitSet) /\ count \in Nat /\ storage \in [1..count -> UnitSet] /\ MaxData \in Nat
  BY Types DEF TypeInv
<1>3. storage' \in Seq(UnitSet) /\ overread' \in BOOLEAN /\ ((pc' = pc /\ overread' = TRUE) \/ pc' = next)
  <2>1. CASE Overreads(Fields[p])
    BY <1>2, <2>1 DEF TakeField
  <2>2. CASE ~Overreads(Fields[p])
    <3>1. count # 0 => Fields[p] <= count
      BY <1>1, <1>2, <2>2 DEF Overreads
    <3>2. count # 0 => SubSeq(storage, Fields[p] + 1, count) \in Seq(UnitSet)
      BY <1>1, <3>1, Taking DEF TypeInv
    <3> QED BY <1>2, <2>2, <3>2 DEF TakeField, TypeInv, TypeOK
  <2> QED BY <2>1, <2>2
<1>4. ASSUME Clean(p)
      PROVE  storage[1].msg \in 0..MaxMsgs /\ storage[1].len \in Garbage /\ storage[1].len # -1
  <2>1. storage[1] \in UnitSet
    BY <1>1, <1>2, <1>4 DEF Clean
  <2> QED BY <1>2, <2>1 DEF UnitSet, Garbage
<1> QED BY <1>3, <1>4

LEMMA TypeStep == TypeInv /\ [Next]_vars => TypeInv'
<1> SUFFICES ASSUME TypeInv, [Next]_vars PROVE TypeInv'
  OBVIOUS
<1>0. /\ storage \in Seq(UnitSet) /\ blind \in BOOLEAN /\ overread \in BOOLEAN /\ uid \in 0..MaxMsgs
      /\ len \in {-1} \cup Garbage /\ picks \in 0..MaxMsgs /\ MaxMsgs \in Nat
      /\ pc \in {"idle", "head", "cmd", "len", "body"}
      /\ MaxData \in Nat /\ 0 \in Garbage /\ 0 \in 0..MaxMsgs /\ -1 \notin Garbage
  <2>1. MaxData \in Nat /\ MaxMsgs \in Nat
    BY StorageAssumption
  <2>2. 0 \in Garbage /\ 0 \in 0..MaxMsgs /\ -1 \notin Garbage
    BY <2>1 DEF Garbage
  <2> QED BY <2>1, <2>2 DEF TypeInv, TypeOK, UnitSet
<1> HIDE DEF UnitSet
<1>1. CASE UNCHANGED vars
  BY <1>0, <1>1, TypeApplication DEF vars, TypeInv, Shape
<1>2. CASE try_copy_to_storage
  BY <1>2, TypeCopy
<1>3. CASE WritePart
  BY <1>3, TypeWrite
<1>4. CASE pick_msg
  <2>1. /\ UNCHANGED <<reader, storage, lens, part, dropped, uid, len, picks, blind, overread>>
        /\ picks < MaxMsgs /\ (pc' = "body" => HeadKnown)
        /\ pc' \in {"body", "head", "idle"}
    BY <1>4 DEF pick_msg
  <2>2. HeadKnown => len # -1
    BY DEF HeadKnown
  <2> QED BY <1>0, <2>1, <2>2, TypeApplication
<1>5. CASE ReadFirstField
  <2> DEFINE next == IF reader = "server" THEN "cmd" ELSE "body"
  <2>1. /\ pc = "head" /\ TakeField(1, next) /\ UNCHANGED <<reader, lens, part, dropped, picks>>
        /\ uid' = (IF Clean(1) THEN storage[1].msg ELSE 0)
        /\ IF reader = "server" THEN UNCHANGED len
           ELSE len' \in IF Clean(1) THEN {storage[1].len} ELSE Garbage
    BY <1>5 DEF ReadFirstField
  <2>2. 1 \in 1..DataPart /\ 1 # DataPart
    BY Parts DEF TypeInv
  <2>3. /\ storage' \in Seq(UnitSet) /\ overread' \in BOOLEAN
        /\ pc' \in {pc, next}
        /\ Clean(1) => storage[1].msg \in 0..MaxMsgs /\ storage[1].len \in Garbage
                         /\ storage[1].len # -1
    BY <2>1, <2>2, TypeTakeField, Zenon
  <2>4. uid' \in 0..MaxMsgs /\ len' \in {-1} \cup Garbage
    BY <1>0, <2>1, <2>3
  <2>5. pc' = "body" => reader # "server" /\ len' # -1
    BY <1>0, <2>1, <2>3
  <2>6. picks' < MaxMsgs /\ pc' \in {"head", "cmd", "body"} /\ (reader = "inner" => pc' # "cmd")
    BY <2>1, <2>3 DEF TypeInv, Shape
  <2>7. blind' \in BOOLEAN
    BY <1>5, Zenon DEF ReadFirstField
  <2> QED BY <1>0, <2>1, <2>3, <2>4, <2>5, <2>6, <2>7, TypeApplication
<1>6. CASE ReadCmd
  <2>1. pc = "cmd" /\ TakeField(2, "len") /\ UNCHANGED <<reader, lens, part, dropped, uid, len, picks, blind>>
    BY <1>6 DEF ReadCmd
  <2>2. reader = "server" /\ picks < MaxMsgs /\ 2 \in 1..DataPart /\ 2 # DataPart
    BY <2>1, Parts DEF TypeInv, Shape
  <2>3. storage' \in Seq(UnitSet) /\ overread' \in BOOLEAN /\ pc' \in {"cmd", "len"}
    BY <2>1, <2>2, TypeTakeField, Zenon
  <2> QED BY <1>0, <2>1, <2>2, <2>3, TypeApplication
<1>7. CASE ReadLength
  <2>1. /\ pc = "len" /\ TakeField(3, "body") /\ UNCHANGED <<reader, lens, part, dropped, uid, picks, blind>>
        /\ len' \in IF Clean(3) THEN {storage[1].len} ELSE Garbage
    BY <1>7 DEF ReadLength
  <2>2. reader = "server" /\ picks < MaxMsgs /\ 3 \in 1..DataPart /\ 3 # DataPart
    BY <2>1, Parts DEF TypeInv, Shape
  <2>3. storage' \in Seq(UnitSet) /\ overread' \in BOOLEAN /\ pc' \in {"len", "body"}
        /\ (Clean(3) => storage[1].len \in Garbage)
    BY <2>1, <2>2, TypeTakeField, Zenon
  <2>4. len' \in Garbage
    BY <2>1, <2>3
  <2> QED BY <1>0, <2>1, <2>2, <2>3, <2>4, TypeApplication
<1>8. CASE ReturnFalse
  <2>1. pc' = "idle" /\ UNCHANGED <<reader, storage, lens, part, dropped, uid, len, picks, blind, overread>>
    BY <1>8 DEF ReturnFalse
  <2> QED BY <1>0, <2>1, TypeApplication
<1>9. CASE ReadBody
  <2>1. pc = "body" /\ UNCHANGED <<reader, lens, part, dropped, blind>>
    BY <1>9 DEF ReadBody
  <2>2. len \in Nat /\ picks < MaxMsgs /\ len # -1
    BY <1>0, <2>1 DEF TypeInv, Shape, Garbage
  <2>3. CASE Overreads(len)
    <3>1. overread' = TRUE /\ UNCHANGED <<storage, pc, uid, len, picks>>
      BY <1>9, <2>3 DEF ReadBody
    <3> QED BY <1>0, <2>1, <2>2, <3>1, TypeApplication
  <2>4. CASE ~Overreads(len)
    <3>1. /\ storage' = (IF count = 0 THEN storage ELSE SubSeq(storage, len + 1, count))
          /\ picks' = picks + 1 /\ pc' = "idle" /\ uid' = 0 /\ len' = NoHead
          /\ UNCHANGED overread
      BY <1>9, <2>4 DEF ReadBody
    <3>2. storage' \in Seq(UnitSet)
      <4>1. count # 0 => len <= count
        BY <2>2, <2>4, Types DEF Overreads, TypeInv
      <4> QED BY <1>0, <2>2, <3>1, <4>1, Taking DEF TypeInv
    <3>3. picks' \in 0..MaxMsgs /\ len' \in {-1} \cup Garbage
      BY <1>0, <2>2, <3>1 DEF NoHead
    <3> QED BY <1>0, <2>1, <3>1, <3>2, <3>3, TypeApplication
  <2> QED BY <2>3, <2>4
<1> QED
  BY <1>1, <1>2, <1>3, <1>4, <1>5, <1>6, <1>7, <1>8, <1>9 DEF Next, Strand, Application

LEMMA TypeAlways == Spec => []TypeInv
BY TypeInit, TypeStep, PTL DEF Spec

(***************************************************************************)
(* Every variable keeps its type, whatever the strand stores with          *)
(* try_copy_to_storage() and the application picks with pick_msg(),        *)
(* garbage heads included.                                                 *)
(***************************************************************************)
THEOREM StorageTypeCorrect == Spec => []TypeOK
<1>1. TypeInv => TypeOK
  BY DEF TypeInv
<1> QED BY <1>1, TypeAlways, PTL

\* The application leaves the strand alone, and at most as much stored.
LEMMA ApplicationTakes ==
  ASSUME TypeInv, Application
  PROVE  UNCHANGED <<reader, lens, part, dropped>> /\ count' <= count /\ count \in Nat /\ count' \in Nat
<1>1. UNCHANGED <<reader, lens, part, dropped>>
  BY DEF Application, pick_msg, ReadFirstField, ReadCmd, ReadLength, ReturnFalse, ReadBody
<1>2. count \in Nat
  BY Types DEF TypeInv
<1> SUFFICES count' <= count /\ count' \in Nat
  BY <1>1, <1>2
<1>3. ASSUME NEW n \in Nat, n <= count, storage' = SubSeq(storage, n + 1, count)
      PROVE  count' <= count /\ count' \in Nat
  BY <1>2, <1>3, Taking DEF TypeInv, count
<1>4. ASSUME NEW p \in 1..DataPart, p # DataPart, NEW next, TakeField(p, next)
      PROVE  count' <= count /\ count' \in Nat
  <2>1. CASE storage' = storage
    BY <1>2, <2>1 DEF count
  <2>2. CASE ~Overreads(Fields[p]) /\ count # 0
    <3>1. Fields[p] \in Nat
      BY <1>4, Parts DEF TypeInv
    <3>2. Fields[p] <= count /\ storage' = SubSeq(storage, Fields[p] + 1, count)
      BY <1>2, <1>4, <2>2, <3>1 DEF TakeField, Overreads
    <3> QED BY <1>3, <3>1, <3>2
  <2> QED BY <1>4, <2>1, <2>2 DEF TakeField
<1>5. CASE pick_msg \/ ReturnFalse
  BY <1>2, <1>5 DEF pick_msg, ReturnFalse, count
<1>6. CASE ReadFirstField
  <2>1. 1 \in 1..DataPart /\ 1 # DataPart
    BY Parts DEF TypeInv
  <2>2. TakeField(1, IF reader = "server" THEN "cmd" ELSE "body")
    BY <1>6 DEF ReadFirstField
  <2> QED BY <1>4, <2>1, <2>2
<1>7. CASE ReadCmd
  <2>1. pc = "cmd" /\ TakeField(2, "len")
    BY <1>7 DEF ReadCmd
  <2>2. 2 \in 1..DataPart /\ 2 # DataPart
    BY <2>1, Parts DEF TypeInv, Shape
  <2> QED BY <1>4, <2>1, <2>2
<1>8. CASE ReadLength
  <2>1. pc = "len" /\ TakeField(3, "body")
    BY <1>8 DEF ReadLength
  <2>2. 3 \in 1..DataPart /\ 3 # DataPart
    BY <2>1, Parts DEF TypeInv, Shape
  <2> QED BY <1>4, <2>1, <2>2
<1>9. CASE ReadBody
  <2>1. pc = "body" /\ MaxData \in Nat
    BY <1>9, Types DEF ReadBody, TypeInv
  <2>2. len \in Nat
    BY <2>1 DEF TypeInv, TypeOK, Shape, Garbage
  <2>3. CASE storage' = storage
    BY <1>2, <2>3 DEF count
  <2>4. CASE ~Overreads(len) /\ count # 0
    <3>1. len <= count /\ storage' = SubSeq(storage, len + 1, count)
      BY <1>2, <1>9, <2>2, <2>4 DEF ReadBody, Overreads
    <3> QED BY <1>3, <2>2, <3>1
  <2> QED BY <1>9, <2>3, <2>4 DEF ReadBody
<1> QED BY <1>1, <1>2, <1>5, <1>6, <1>7, <1>8, <1>9 DEF Application

(***************************************************************************)
(* The room: the test gives it, a tryWrite uses up what it has written,    *)
(* and the application only makes more.                                    *)
(***************************************************************************)
LEMMA RoomStep == TypeInv /\ RoomInv /\ [Next]_vars => RoomInv'
<1> SUFFICES ASSUME TypeInv, RoomInv, [Next]_vars PROVE RoomInv'
  OBVIOUS
<1>1. /\ count \in Nat /\ Newest \in Nat /\ lens \in Seq(0..MaxData) /\ Capacity \in Nat
      /\ part \in 0..DataPart /\ \A m \in 1..Newest : lens[m] \in Nat
  BY Types DEF TypeInv
<1>2. CASE UNCHANGED vars
  BY <1>2 DEF vars, RoomInv, Rest, Newest, count, DataPart, Fields
<1>3. CASE Application
  <2>1. UNCHANGED <<reader, lens, part, dropped>> /\ count' <= count /\ count' \in Nat
    BY <1>3, ApplicationTakes
  <2>2. part # 0 => Rest(part) \in Nat
    BY <1>1 DEF TypeInv, Shape, Rest
  <2>3. Rest(part)' = Rest(part)
    BY <2>1 DEF Rest, Newest, DataPart, Fields
  <2>4. part # 0 => count' + Rest(part) < Capacity
    BY <1>1, <2>1, <2>2 DEF RoomInv
  <2> QED BY <2>1, <2>3, <2>4 DEF RoomInv
<1>4. CASE try_copy_to_storage
  <2>1. PICK k \in DataLengths : SpaceFor(k) /\ lens' = Append(lens, k)
    BY <1>4 DEF try_copy_to_storage
  <2>2. UNCHANGED <<reader, storage, dropped>> /\ part' = 1
    BY <1>4 DEF try_copy_to_storage
  <2>3. k \in 0..MaxData /\ k \in Nat
    BY StorageAssumption DEF DataLengths
  <2>4. Newest' = Newest + 1 /\ lens'[Newest + 1] = k
    BY <1>1, <2>1, <2>3 DEF Newest
  <2>5. count + HeadSize + k < Capacity
    <3>1. HeadSize \in Nat
      BY Parts DEF TypeInv
    <3> QED BY <1>1, <2>1, <2>3, <3>1 DEF SpaceFor, full
  <2>6. Rest(1)' = HeadSize + k
    <3>1. DataPart' = DataPart
      BY <2>2 DEF DataPart, Fields
    <3> QED BY <2>2, <2>3, <2>4, <3>1, Parts DEF Rest, TypeInv
  <2>7. count' = count
    BY <2>2 DEF count
  <2>8. HeadSize \in Nat
    BY Parts DEF TypeInv
  <2>9. count + (HeadSize + k) < Capacity
    BY <1>1, <2>3, <2>5, <2>8
  <2>10. part' = 1 => count' + Rest(part)' < Capacity
    BY <2>6, <2>7, <2>9, <2>2 DEF Rest
  <2> QED BY <2>2, <2>10 DEF RoomInv
<1>5. CASE WritePart
  <2> DEFINE block == Units(Newest, part)
             fails == full(0) \/ Len(block) + count >= Capacity
  <2>1. /\ part # 0 /\ part' = NextPart /\ UNCHANGED <<reader, lens>>
        /\ storage' = (IF fails THEN storage ELSE storage \o block) /\ dropped' = (dropped \/ fails)
    BY <1>5 DEF WritePart, Newest
  <2>2. Newest \in 1..Newest /\ Newest <= MaxMsgs /\ part \in 1..DataPart /\ lens[Newest] \in Nat
    BY <1>1, <2>1, Parts DEF TypeInv, Shape
  <2>3. /\ block \in Seq(UnitSet) /\ storage \in Seq(UnitSet) /\ Len(block) \in Nat
        /\ Len(block) = IF part = DataPart THEN lens[Newest] ELSE Fields[part]
    BY <2>2, Blocks, Types DEF TypeInv
  <2>4. Newest' = Newest /\ DataPart' = DataPart /\ lens' = lens
    BY <2>1 DEF Newest, DataPart, Fields
  <2>5. /\ Rest(part) \in Nat /\ Rest(part) >= Len(block)
        /\ part' # 0 => Rest(part)' = Rest(part) - Len(block)
    <3>1. CASE reader = "server"
      <4>1. part \in {1, 2, 3, 4} /\ DataPart = 4
        BY <2>2, <3>1, Parts DEF TypeInv
      <4>2. Fields[1] = 2 /\ Fields[2] = 1 /\ Fields[3] = 1 /\ reader' = "server"
        BY <2>1, <3>1, Parts DEF TypeInv
      <4>3. part' = IF part = 4 THEN 0 ELSE part + 1
        BY <2>1, <4>1 DEF NextPart
      <4>4. /\ Rest(1) = lens[Newest] + 4 /\ Rest(2) = lens[Newest] + 2
            /\ Rest(3) = lens[Newest] + 1 /\ Rest(4) = lens[Newest] + 0
        BY <3>1, <4>1 DEF Rest
      <4>5. /\ Rest(2)' = lens[Newest] + 2
            /\ Rest(3)' = lens[Newest] + 1 /\ Rest(4)' = lens[Newest] + 0
        BY <2>4, <4>1, <4>2 DEF Rest
      <4>6. Rest(part) \in Nat /\ Rest(part) >= Len(block)
        BY <2>2, <2>3, <4>1, <4>2, <4>4
      <4>7. ASSUME NEW p \in {2, 3, 4}, part' = p PROVE Rest(part)' = Rest(p)'
        BY <4>7 DEF Rest
      <4>8. part' # 0 => Rest(part)' = Rest(part) - Len(block)
        BY <2>2, <2>3, <4>1, <4>2, <4>3, <4>4, <4>5, <4>7
      <4> QED BY <4>6, <4>8
    <3>2. CASE reader = "inner"
      <4>1. part \in {1, 2} /\ DataPart = 2
        BY <2>2, <3>2, Parts DEF TypeInv
      <4>2. Fields[1] = 3 /\ reader' = "inner"
        BY <2>1, <3>2, Parts DEF TypeInv
      <4>3. part' = IF part = 2 THEN 0 ELSE part + 1
        BY <2>1, <4>1 DEF NextPart
      <4> QED BY <2>2, <2>3, <2>4, <3>2, <4>1, <4>2, <4>3 DEF Rest
    <3> QED BY <3>1, <3>2, Parts DEF TypeInv
  <2>6. ~fails
    BY <1>1, <2>1, <2>3, <2>5 DEF RoomInv, full
  <2>7. count' = count + Len(block)
    <3> HIDE DEF block, fails, UnitSet
    <3> QED BY <2>1, <2>3, <2>6 DEF count
  <2>8. part' # 0 => count' + Rest(part)' < Capacity
    <3> HIDE DEF block
    <3>1. count + Rest(part) < Capacity
      BY <2>1 DEF RoomInv
    <3>2. PICK r \in Nat, b \in Nat : r = Rest(part) /\ b = Len(block)
      BY <2>3, <2>5
    <3>3. (count + b) + (r - b) < Capacity
      BY <1>1, <3>1, <3>2
    <3> QED BY <2>5, <2>7, <3>2, <3>3
  <2>9. ~dropped'
    BY <2>1, <2>6 DEF RoomInv
  <2> QED BY <2>8, <2>9 DEF RoomInv
<1> QED BY <1>2, <1>3, <1>4, <1>5 DEF Next, Strand

(***************************************************************************)
(* try_copy_to_storage() looks once whether the record fits and never at   *)
(* what its tryWrites return: none of them fails, in either pair, since    *)
(* only the strand writes and pick_msg() can but make room.                *)
(***************************************************************************)
THEOREM MessagesStoredWhole == Spec => []StoredWhole
<1>1. Init => RoomInv
  BY DEF Init, RoomInv
<1>2. RoomInv => StoredWhole
  BY DEF RoomInv, StoredWhole
<1> QED BY <1>1, <1>2, TypeAlways, RoomStep, PTL DEF Spec

\* The inner pair's head is one part of three units, its data the other.
LEMMA Inner ==
  ASSUME TypeInv, reader = "inner"
  PROVE  DataPart = 2 /\ HeadSize = 3 /\ Fields[1] = 3 /\ pc \in {"idle", "head", "body"}
         /\ part \in {0, 1, 2}
BY Parts, Types DEF TypeInv, TypeOK, Shape

\* Where messages begin, for all that lie between two of them.
LEMMA Starts ==
  ASSUME TypeInv, NEW start, Laid(start), NEW m \in 1..Newest
  PROVE  /\ start[m] \in Nat /\ start[m + 1] \in Nat /\ start[Newest + 1] \in Nat
         /\ start[Newest] \in Nat /\ lens[m] \in Nat /\ lens[m] > 0
         /\ start[m + 1] = start[m] + 3 + lens[m] /\ start[m] <= start[Newest]
         /\ start[Newest + 1] = start[Newest] + 3 + lens[Newest] /\ lens[Newest] > 0
<1>1. Newest \in Nat /\ \A n \in 1..Newest : lens[n] \in Nat
  BY Types DEF TypeInv
<1>2. Newest \in 1..Newest /\ m + 1 \in 1..Newest + 1 /\ m \in 1..Newest + 1
      /\ Newest + 1 \in 1..Newest + 1 /\ Newest \in 1..Newest + 1
  BY <1>1
<1> QED BY <1>1, <1>2 DEF Laid

\* Nothing has been stored: message 1 begins at 0.
LEMMA InnerInit == Init => InnerInv
<1> SUFFICES ASSUME Init, reader = "inner", ~blind
             PROVE  ~overread /\ PickedIsNextStored /\ \E start, done : Stored(start, done)
  BY DEF InnerInv
<1>1. /\ storage = <<>> /\ lens = <<>> /\ part = 0 /\ pc = "idle" /\ picks = 0 /\ ~overread
      /\ len = -1
  BY DEF Init
<1>2. Newest = 0 /\ count = 0
  BY <1>1 DEF Newest, count
<1> DEFINE start == [m \in 1..1 |-> 0]
<1>3. start \in [1..Newest + 1 -> Nat] /\ start[1] = 0 /\ 1..Newest = {}
  BY <1>2
<1>4. Laid(start)
  BY <1>3 DEF Laid
<1>5. Written(start) = 0 /\ Reads(start, 0) /\ Content(start, 0)
  BY <1>1, <1>2, <1>3 DEF Written, Reads, Content
<1>6. Stored(start, 0)
  BY <1>1, <1>2, <1>4, <1>5 DEF Stored
<1> QED BY <1>1, <1>6 DEF PickedIsNextStored

\* A message is accepted: it begins where the last one ends.
LEMMA InnerCopy ==
  ASSUME TypeInv, reader = "inner", NEW start, NEW done, Stored(start, done), try_copy_to_storage
  PROVE  \E s : Stored(s, done)'
<1>1. PICK k \in DataLengths : lens' = Append(lens, k)
  BY DEF try_copy_to_storage
<1>2. /\ part = 0 /\ part' = 1
      /\ UNCHANGED <<reader, storage, pc, uid, len, picks>>
  BY DEF try_copy_to_storage
<1>3. k \in Nat /\ k > 0
  BY StorageAssumption DEF DataLengths
<1>4. /\ Newest \in Nat /\ lens \in Seq(0..MaxData) /\ count \in Nat /\ count' = count
      /\ picks \in Nat
  BY <1>2, Types DEF TypeInv, TypeOK, count
<1>5. /\ Newest' = Newest + 1 /\ lens'[Newest + 1] = k
      /\ \A m \in 1..Newest : lens'[m] = lens[m]
  BY <1>1, <1>4 DEF Newest
<1>n. PICK N : N = Newest
  OBVIOUS
<1>s. PICK s : s = [m \in 1..N + 2 |-> IF m = N + 2 THEN start[N + 1] + 3 + k ELSE start[m]]
  OBVIOUS
<1>6. /\ start \in [1..N + 1 -> Nat] /\ start[1] = 0 /\ done \in Nat /\ done + count = start[N + 1]
      /\ picks <= N
  BY <1>2, <1>n DEF Stored, Laid, Written
<1>7. start[N + 1] \in Nat
  BY <1>4, <1>6, <1>n
<1>8. /\ s \in [1..N + 2 -> Nat] /\ s[N + 2] = start[N + 1] + 3 + k
      /\ \A m \in 1..N + 1 : s[m] = start[m]
  BY <1>3, <1>4, <1>6, <1>7, <1>n, <1>s
<1>9. ASSUME NEW m \in 1..Newest'
      PROVE  lens'[m] > 0 /\ s[m + 1] = s[m] + 3 + lens'[m] /\ s[m] <= s[Newest']
  <2>1. CASE m \in 1..N
    <3>1. /\ lens[m] > 0 /\ start[m + 1] = start[m] + 3 + lens[m] /\ start[m] <= start[N + 1]
      <4>1. Laid(start) /\ m \in 1..Newest
        BY <2>1, <1>n DEF Stored
      <4>2. /\ start[m] \in Nat /\ start[Newest] \in Nat /\ lens[Newest] \in Nat
            /\ lens[m] > 0 /\ start[m + 1] = start[m] + 3 + lens[m] /\ start[m] <= start[Newest]
            /\ start[Newest + 1] = start[Newest] + 3 + lens[Newest]
        <5>1. Newest \in 1..Newest
          BY <1>4, <4>1
        <5> QED BY <4>1, <5>1, Starts
      <4> QED BY <4>2, <1>n
    <3>2. m + 1 \in 1..N + 1 /\ m \in 1..N + 1 /\ N + 1 \in 1..N + 1
      BY <1>4, <2>1, <1>n
    <3> QED BY <1>5, <1>8, <2>1, <3>1, <3>2, <1>n
  <2>2. CASE m = N + 1
    BY <1>3, <1>4, <1>5, <1>7, <1>8, <2>2, <1>n
  <2> QED BY <1>4, <1>5, <2>1, <2>2, <1>n
<1>10. Laid(s)'
  <2>1. s \in [1..Newest' + 1 -> Nat] /\ s[1] = 0
    BY <1>4, <1>5, <1>6, <1>8, <1>n
  <2> QED BY <1>9, <2>1 DEF Laid
<1>11. (done + count = Written(s))'
  BY <1>2, <1>4, <1>5, <1>6, <1>8, <1>n DEF Written
<1>12. Content(s, done)'
  <2> SUFFICES ASSUME NEW m \in 1..Newest', NEW i \in 1..count
               PROVE  /\ s[m] < done + i /\ done + i <= s[m] + 3 => storage[i] = Unit(m, 1)'
                      /\ s[m] + 3 < done + i /\ done + i <= s[m + 1] => storage[i] = Unit(m, 2)'
    BY <1>2, <1>4 DEF Content
  <2>1. CASE m \in 1..N
    <3>1. Unit(m, 1)' = Unit(m, 1) /\ Unit(m, 2)' = Unit(m, 2)
      BY <1>5, <2>1, <1>n DEF Unit
    <3>2. s[m] = start[m] /\ s[m + 1] = start[m + 1]
      BY <1>4, <1>8, <2>1, <1>n
    <3> QED BY <2>1, <3>1, <3>2, <1>n DEF Stored, Content
  <2>2. CASE m = N + 1
    <3>1. done + i <= s[m]
      BY <1>4, <1>6, <1>7, <1>8, <2>2, <1>n
    <3> QED BY <1>4, <1>6, <1>7, <1>8, <2>2, <3>1, <1>n
  <2> QED BY <1>4, <1>5, <2>1, <2>2, <1>n
<1>13. Reads(s, done)'
  <2>1. s[picks + 1] = start[picks + 1]
    BY <1>4, <1>6, <1>8, <1>n
  <2>2. picks < Newest => lens'[picks + 1] = lens[picks + 1] /\ picks < Newest'
    BY <1>4, <1>5
  <2> QED BY <1>2, <1>4, <2>1, <2>2 DEF Stored, Reads
<1>14. (picks <= Newest)'
  BY <1>2, <1>4, <1>5, <1>6, <1>n
<1> QED BY <1>6, <1>10, <1>11, <1>12, <1>13, <1>14 DEF Stored

\* A part is written, as there is room for it: the units of the last message grow.
LEMMA InnerWrite ==
  ASSUME TypeInv, RoomInv, ~dropped', reader = "inner", NEW start, NEW done, Stored(start, done),
         WritePart
  PROVE  Stored(start, done)'
<1> DEFINE block == Units(Newest, part)
<1>1. /\ part # 0 /\ part' = NextPart /\ UNCHANGED <<reader, lens, pc, uid, len, picks>>
      /\ storage' = storage \o block
  BY DEF WritePart, Newest, RoomInv
<1>2. /\ part \in {1, 2} /\ DataPart = 2 /\ Newest \in 1..Newest /\ Newest \in Nat
      /\ Newest <= MaxMsgs
  BY <1>1, Inner, Types DEF TypeInv, Shape
<1>3. /\ block \in Seq(UnitSet) /\ Len(block) = (IF part = 2 THEN lens[Newest] ELSE 3)
      /\ Len(block) \in Nat
      /\ \A i \in 1..Len(block) : block[i] = Unit(Newest, part)
  <2>1. Fields[1] = 3
    BY Inner
  <2>2. part \in 1..DataPart
    BY <1>2
  <2>3. /\ block \in Seq(UnitSet) /\ Len(block) = (IF part = DataPart THEN lens[Newest] ELSE Fields[part])
        /\ Len(block) \in Nat
        /\ \A i \in 1..Len(block) : block[i] = Unit(Newest, part)
    BY <1>2, <2>2, Blocks, Zenon DEF TypeInv
  <2>4. Len(block) = (IF part = 2 THEN lens[Newest] ELSE 3)
    BY <1>2, <2>1, <2>3
  <2> QED BY <2>3, <2>4
<1>4. storage \in Seq(UnitSet) /\ count \in Nat
  BY Types DEF TypeInv
<1>5. /\ count' = count + Len(block) /\ \A i \in 1..count : storage'[i] = storage[i]
      /\ \A i \in 1..count' : i \notin 1..count => storage'[i] = Unit(Newest, part)
  <2> HIDE DEF block, UnitSet
  <2>1. /\ Len(storage \o block) = Len(storage) + Len(block)
        /\ \A i \in 1..Len(storage) : (storage \o block)[i] = storage[i]
        /\ \A i \in 1..Len(storage) + Len(block) :
             i > Len(storage) => (storage \o block)[i] = block[i - Len(storage)]
    <3> DEFINE A == UnitSet
    <3>1. storage \in Seq(A) /\ block \in Seq(A)
      BY <1>3, <1>4
    <3>2. /\ Len(storage \o block) = Len(storage) + Len(block)
          /\ \A i \in 1..Len(storage) + Len(block) :
               (storage \o block)[i] = IF i <= Len(storage) THEN storage[i]
                                      ELSE block[i - Len(storage)]
      BY <3>1, ConcatProperties, Zenon
    <3>3. Len(storage) \in Nat /\ Len(block) \in Nat
      BY <1>3, <1>4 DEF count
    <3> QED BY <3>2, <3>3
  <2>2. ASSUME NEW i \in 1..count + Len(block), i \notin 1..count
        PROVE  i > count /\ i - count \in 1..Len(block)
    BY <1>3, <1>4, <2>2
  <2> QED BY <1>1, <1>3, <2>1, <2>2 DEF count
<1> HIDE DEF block
<1>6. /\ Laid(start) /\ done \in Nat /\ done + count = Written(start) /\ picks <= Newest
      /\ Content(start, done) /\ Reads(start, done)
  BY DEF Stored
<1>7. /\ start[Newest] \in Nat /\ lens[Newest] \in Nat
      /\ start[Newest + 1] = start[Newest] + 3 + lens[Newest]
  BY <1>2, <1>6, Starts
<1>8. Newest' = Newest
  BY <1>1 DEF Newest
<1>9. (done + count = Written(start))'
  <2>1. part' = IF part = 2 THEN 0 ELSE 2
    BY <1>1, <1>2 DEF NextPart
  <2> QED BY <1>2, <1>3, <1>4, <1>5, <1>6, <1>7, <1>8, <2>1 DEF Written
<1>10. Content(start, done)'
  <2> SUFFICES ASSUME NEW m \in 1..Newest, NEW i \in 1..count'
               PROVE  /\ start[m] < done + i /\ done + i <= start[m] + 3 => storage'[i] = Unit(m, 1)
                      /\ start[m] + 3 < done + i /\ done + i <= start[m + 1] => storage'[i] = Unit(m, 2)
    BY <1>1, <1>8 DEF Content, Unit
  <2>1. CASE i \in 1..count
    BY <1>5, <1>6, <2>1 DEF Content
  <2>2. CASE i \notin 1..count
    <3>1. /\ i \in Nat /\ i > count /\ i <= count + Len(block)
          /\ storage'[i] = Unit(Newest, part)
      BY <1>3, <1>4, <1>5, <2>2
    <3>2. /\ start[m] \in Nat /\ start[m + 1] \in Nat /\ start[m] <= start[Newest]
          /\ start[m + 1] = start[m] + 3 + lens[m]
      BY <1>6, Starts
    <3>3. CASE m = Newest
      BY <1>2, <1>3, <1>4, <1>6, <1>7, <3>1, <3>3 DEF Written
    <3>4. CASE m # Newest
      <4>1. m + 1 \in 1..Newest
        BY <1>2, <3>4
      <4>2. start[m + 1] <= start[Newest]
        BY <1>6, <4>1, Starts
      <4>3. done + i > start[Newest]
        BY <1>2, <1>4, <1>6, <1>7, <3>1 DEF Written
      <4>4. done + i > start[m + 1]
        BY <1>6, <1>7, <3>1, <3>2, <4>2, <4>3
      <4>5. lens[m] \in Nat
        BY <1>6, Starts
      <4>6. done + i > start[m] + 3
        BY <1>6, <3>1, <3>2, <4>4, <4>5
      <4> QED BY <1>6, <3>1, <3>2, <4>4, <4>6
    <3> QED BY <3>3, <3>4
  <2> QED BY <2>1, <2>2
<1>11. Reads(start, done)'
  <2>1. /\ pc' = pc /\ uid' = uid /\ len' = len /\ lens' = lens /\ picks' = picks
        /\ (picks < Newest' <=> picks < Newest)
    BY <1>1, <1>8
  <2> QED BY <1>6, <2>1 DEF Reads
<1> QED BY <1>1, <1>6, <1>8, <1>9, <1>10, <1>11 DEF Stored, Laid

\* What is at the front of the storage.  Nothing, or a head, or the head and the
\* data of the next message, where the consumer is between two messages.
LEMMA InnerFront ==
  ASSUME TypeInv, reader = "inner", NEW start, NEW done, Laid(start), done \in Nat,
         done + count = Written(start), picks <= Newest, done = start[picks + 1]
  PROVE  count = 0 \/ (picks < Newest /\ (count = 3 \/ count >= 3 + lens[picks + 1]))
<1>1. /\ Laid(start) /\ done \in Nat /\ done + count = Written(start) /\ picks <= Newest
      /\ done = start[picks + 1]
  OBVIOUS
<1>2. count \in Nat /\ picks \in Nat /\ Newest \in Nat /\ part \in {0, 1, 2}
      /\ (part # 0 => Newest > 0)
  BY Inner, Types DEF TypeInv, TypeOK, Shape
<1>3. CASE picks = Newest
  <2>1. CASE part = 0
    BY <1>1, <1>2, <1>3, <2>1 DEF Written
  <2>2. CASE part # 0
    <3>1. Newest \in 1..Newest
      BY <1>2, <2>2
    <3>2. /\ start[Newest] \in Nat /\ lens[Newest] \in Nat /\ lens[Newest] > 0
          /\ start[Newest + 1] = start[Newest] + 3 + lens[Newest]
      BY <1>1, <3>1, Starts
    <3>3. Written(start) = start[Newest] \/ Written(start) = start[Newest] + 3
      BY <1>2, <2>2 DEF Written
    <3> QED BY <1>1, <1>2, <1>3, <3>2, <3>3
  <2> QED BY <2>1, <2>2
<1>4. CASE picks + 1 = Newest
  <2>1. Newest \in 1..Newest
    BY <1>2, <1>4
  <2>2. /\ start[Newest] \in Nat /\ lens[Newest] \in Nat
        /\ start[Newest + 1] = start[Newest] + 3 + lens[Newest]
    BY <1>1, <2>1, Starts
  <2>3. Written(start) \in {start[Newest], start[Newest] + 3, start[Newest + 1]}
    BY <1>2 DEF Written
  <2> QED BY <1>1, <1>2, <1>4, <2>2, <2>3
<1>5. CASE picks + 1 < Newest
  <2>1. picks + 1 \in 1..Newest /\ picks + 2 \in 1..Newest
    BY <1>2, <1>5
  <2>2. /\ start[picks + 1] \in Nat /\ lens[picks + 1] \in Nat
        /\ start[picks + 1 + 1] = start[picks + 1] + 3 + lens[picks + 1]
    BY <1>1, <2>1, Starts
  <2>3. /\ start[picks + 2] \in Nat /\ start[picks + 2] <= start[Newest]
        /\ start[Newest] \in Nat /\ lens[Newest] \in Nat
        /\ start[Newest + 1] = start[Newest] + 3 + lens[Newest]
    <3>1. Newest \in 1..Newest
      BY <1>2, <2>1
    <3> QED BY <1>1, <2>1, <3>1, Starts
  <2>4. picks + 1 + 1 = picks + 2
    BY <1>2
  <2>5. Written(start) >= start[Newest] /\ Written(start) \in Nat
    BY <2>3 DEF Written
  <2>6. start[picks + 2] = start[picks + 1] + 3 + lens[picks + 1]
    BY <2>2, <2>4
  <2>7. done + count >= done + 3 + lens[picks + 1]
    BY <1>1, <2>2, <2>3, <2>5, <2>6
  <2> QED BY <1>1, <1>2, <1>5, <2>2, <2>7
<1> QED BY <1>1, <1>2, <1>3, <1>4, <1>5

\* Behind a head, there is nothing or all the data of that message.
LEMMA InnerRest ==
  ASSUME TypeInv, reader = "inner", NEW start, NEW done, Laid(start), done \in Nat,
         done + count = Written(start), NEW m \in 1..Newest, done = start[m] + 3
  PROVE  count = 0 \/ count >= lens[m]
<1>1. /\ count \in Nat /\ Newest \in Nat /\ Newest \in 1..Newest /\ part \in {0, 1, 2}
  BY Inner, Types DEF TypeInv, TypeOK
<1>2. /\ start[m] \in Nat /\ lens[m] \in Nat /\ start[m + 1] = start[m] + 3 + lens[m]
      /\ start[Newest] \in Nat /\ lens[Newest] \in Nat
      /\ start[Newest + 1] = start[Newest] + 3 + lens[Newest]
  <2>1. /\ start[m] \in Nat /\ lens[m] \in Nat /\ start[m + 1] = start[m] + 3 + lens[m]
    BY Starts
  <2>2. /\ start[Newest] \in Nat /\ lens[Newest] \in Nat
        /\ start[Newest + 1] = start[Newest] + 3 + lens[Newest]
    BY <1>1, Starts
  <2> QED BY <2>1, <2>2
<1>3. Written(start) \in {start[Newest], start[Newest] + 3, start[Newest + 1]}
  BY <1>1 DEF Written
<1>4. CASE m = Newest
  BY <1>1, <1>2, <1>3, <1>4
<1>5. CASE m # Newest
  <2>1. m + 1 \in 1..Newest
    BY <1>1, <1>5
  <2>2. start[m + 1] <= start[Newest] /\ start[m + 1] \in Nat
    BY <2>1, Starts
  <2>3. Written(start) >= start[Newest] /\ Written(start) \in Nat
    BY <1>2, <1>3
  <2> QED BY <1>1, <1>2, <2>2, <2>3
<1> QED BY <1>4, <1>5

\* Taking n units from the front.
LEMMA InnerTaken ==
  ASSUME TypeInv, NEW start, NEW done, Laid(start), done \in Nat, done + count = Written(start),
         Content(start, done), NEW n \in Nat, n <= count,
         storage' = SubSeq(storage, n + 1, count), UNCHANGED <<reader, lens, part>>
  PROVE  /\ Laid(start)' /\ done + n \in Nat /\ (done + n + count = Written(start))'
         /\ Content(start, done + n)' /\ count' = count - n
<1>1. count \in Nat
  BY Types DEF TypeInv
<1>2. count' = count - n /\ count' \in Nat
      /\ \A i \in 1..count' : storage'[i] = storage[n + i] /\ n + i \in 1..count
  <2>1. count' = count - n
    BY Taking DEF TypeInv, count
  <2>2. \A i \in 1..count' : storage'[i] = storage[n + i]
    BY Taking DEF TypeInv, count
  <2>3. \A i \in 1..count - n : n + i \in 1..count
    BY <1>1
  <2> QED BY <1>1, <2>1, <2>2, <2>3
<1>3. Newest' = Newest /\ Laid(start)'
  BY DEF Newest, Laid
<1>4. (done + n + count = Written(start))'
  <2>1. done + n + count' = done + count
    BY <1>1, <1>2
  <2> QED BY <1>3, <2>1 DEF Written
<1>5. Content(start, done + n)'
  <2> SUFFICES ASSUME NEW m \in 1..Newest, NEW i \in 1..count'
               PROVE  /\ start[m] < done + n + i /\ done + n + i <= start[m] + 3 =>
                           storage'[i] = Unit(m, 1)
                      /\ start[m] + 3 < done + n + i /\ done + n + i <= start[m + 1] =>
                           storage'[i] = Unit(m, 2)
    BY <1>3 DEF Content, Unit
  <2>1. done + n + i = done + (n + i) /\ n + i \in 1..count /\ storage'[i] = storage[n + i]
    BY <1>1, <1>2
  <2> QED BY <2>1 DEF Content
<1> QED BY <1>2, <1>3, <1>4, <1>5

\* The head: three units of the same message.
LEMMA InnerHead ==
  ASSUME TypeInv, reader = "inner", NEW start, NEW done, Stored(start, done), ReadFirstField,
         ~blind'
  PROVE  ~overread' /\ picked' = picked /\ Stored(start, done + 3)'
<1>1. /\ pc = "head" /\ TakeField(1, "body") /\ UNCHANGED <<reader, lens, part, picks, picked>>
      /\ uid' = (IF Clean(1) THEN storage[1].msg ELSE 0)
      /\ len' \in (IF Clean(1) THEN {storage[1].len} ELSE Garbage) /\ ~overread
      /\ count # 0
  BY DEF ReadFirstField
<1>m. PICK m : m = picks + 1
  OBVIOUS
<1>2. /\ Laid(start) /\ done \in Nat /\ done + count = Written(start) /\ Content(start, done)
      /\ picks < Newest /\ done = start[m] /\ (count = 3 \/ count >= 3 + lens[m])
  <2>1. /\ Laid(start) /\ done \in Nat /\ done + count = Written(start)
        /\ Content(start, done) /\ picks <= Newest /\ done = start[picks + 1]
    BY <1>1 DEF Stored, Reads
  <2> QED BY <1>1, <1>m, <2>1, InnerFront
<1>3. /\ count \in Nat /\ picks \in Nat /\ m \in 1..Newest /\ Fields[1] = 3 /\ lens[m] \in Nat
      /\ lens[m] > 0 /\ start[m] \in Nat
  <2>1. count \in Nat /\ picks \in Nat /\ Newest \in Nat
    BY Types DEF TypeInv, TypeOK, Newest
  <2>2. m \in 1..Newest /\ Fields[1] = 3
    BY <1>2, <1>m, <2>1, Inner
  <2>3. lens[m] \in Nat /\ lens[m] > 0
    BY <1>2, <2>2, Starts
  <2>4. start[m] \in Nat
    BY <1>2
  <2> QED BY <2>1, <2>2, <2>3, <2>4
<1>4. ~Overreads(3) /\ count # 0 /\ 3 <= count
  BY <1>2, <1>3 DEF Overreads
<1>5. storage' = SubSeq(storage, 3 + 1, count) /\ pc' = "body" /\ UNCHANGED overread
  BY <1>1, <1>3, <1>4 DEF TakeField
<1>6. storage[1] = Unit(m, 1) /\ storage[2] = Unit(m, 1) /\ storage[3] = Unit(m, 1)
  BY <1>2, <1>3, <1>4 DEF Content
<1>7. Clean(1)
  <2>1. /\ Len(Taken(3)) = 3 /\ Taken(3) # <<>>
        /\ \A i \in 1..3 : Taken(3)[i] = storage[i]
    <3>1. storage \in Seq(UnitSet) /\ count = Len(storage)
      BY Types DEF TypeInv, count
    <3> HIDE DEF UnitSet
    <3>2. PICK n : n = 3
      OBVIOUS
    <3>3. SubSeq(storage, 1, n) = [i \in 1..n |-> storage[i]]
      BY <1>3, <1>4, <3>1, <3>2
    <3>4. Len(SubSeq(storage, 1, n)) = n
      BY <1>3, <1>4, <3>1, <3>2
    <3>5. Taken(3) = SubSeq(storage, 1, n)
      BY <3>2 DEF Taken
    <3>6. \A i \in 1..3 : Taken(3)[i] = storage[i]
      BY <3>2, <3>3, <3>5
    <3>7. Len(Taken(3)) = 3
      BY <3>2, <3>4, <3>5
    <3> QED BY <3>6, <3>7
  <2>2. \A i \in 1..3 : Taken(3)[i] = Unit(m, 1)
    BY <1>6, <2>1
  <2>3. Unit(m, 1).part = 1
    BY DEF Unit
  <2>4. IsPart(Taken(3), 1)
    BY <2>1, <2>2, <2>3 DEF IsPart
  <2> QED BY <1>3, <1>4, <2>4 DEF Clean
<1>8. uid' = m /\ len' = lens[m]
  BY <1>1, <1>6, <1>7 DEF Unit
<1>9. /\ Laid(start)' /\ done + 3 \in Nat /\ (done + 3 + count = Written(start))'
      /\ Content(start, done + 3)' /\ count' = count - 3
  <2>1. PICK n : n = 3
    OBVIOUS
  <2>2. n \in Nat /\ n <= count /\ storage' = SubSeq(storage, n + 1, count)
    BY <1>3, <1>4, <1>5, <2>1
  <2>3. UNCHANGED <<reader, lens, part>>
    BY <1>1
  <2> QED BY <1>2, <2>1, <2>2, <2>3, InnerTaken
<1>10. Newest' = Newest
  BY <1>1 DEF Newest
<1>11. Reads(start, done + 3)'
  BY <1>1, <1>2, <1>3, <1>5, <1>8, <1>10, <1>m DEF Reads
<1> QED BY <1>1, <1>2, <1>3, <1>5, <1>9, <1>10, <1>11 DEF Stored

\* The data: as many units as the head says, all of the same message.
LEMMA InnerBody ==
  ASSUME TypeInv, reader = "inner", ~overread, NEW start, NEW done, Stored(start, done), ReadBody
  PROVE  ~overread' /\ PickedIsNextStored' /\ \E d : Stored(start, d)'
<1>m. PICK m, l : m = picks + 1 /\ l = len
  OBVIOUS
<1>1. pc = "body" /\ UNCHANGED <<reader, lens, part>>
  BY DEF ReadBody
<1>2. /\ Laid(start) /\ done \in Nat /\ done + count = Written(start) /\ Content(start, done)
      /\ picks < Newest /\ done = start[m] + 3 /\ l = lens[m] /\ uid = m
  BY <1>1, <1>m DEF Stored, Reads
<1>3. /\ count \in Nat /\ picks \in Nat /\ m \in 1..Newest /\ Newest \in Nat
      /\ count # 0 /\ count >= l
  <2>1. /\ count \in Nat /\ picks \in Nat /\ m \in 1..Newest /\ Newest \in Nat
    BY <1>2, <1>m, Types DEF TypeInv, TypeOK
  <2>2. count # 0
    BY DEF ReadBody, BodyMissing
  <2> QED BY <1>2, <2>1, <2>2, InnerRest
<1>4. l \in Nat /\ l > 0 /\ start[m] \in Nat /\ start[m + 1] = start[m] + 3 + l
  BY <1>2, <1>3, Starts
<1>5. ~Overreads(len) /\ count # 0
  BY <1>2, <1>3, <1>4, <1>m DEF Overreads
<1>6. /\ picked' = [uid |-> m, data |-> Taken(l)] /\ storage' = SubSeq(storage, l + 1, count)
      /\ picks' = m /\ pc' = "idle" /\ len' = -1 /\ overread' = FALSE
  BY <1>2, <1>5, <1>m DEF ReadBody, NoHead
<1>7. Taken(l) = [i \in 1..l |-> Unit(m, 2)]
  <2>1. storage \in Seq(UnitSet) /\ count = Len(storage)
    BY Types DEF TypeInv, count
  <2>2. Taken(l) = [i \in 1..l |-> storage[i]]
    <3> HIDE DEF UnitSet
    <3> QED BY <1>2, <1>3, <1>4, <2>1 DEF Taken
  <2>3. ASSUME NEW i \in 1..l PROVE storage[i] = Unit(m, 2)
    <3>1. i \in 1..count /\ start[m] + 3 < done + i /\ done + i <= start[m + 1]
      BY <1>2, <1>3, <1>4
    <3> QED BY <1>2, <1>3, <3>1 DEF Content
  <2> QED BY <2>2, <2>3
<1>8. Newest' = Newest
  BY <1>1 DEF Newest
<1>9. PickedIsNextStored'
  <2>1. DataPart' = 2
    BY <1>1, Inner DEF DataPart, Fields
  <2>2. Unit(m, 2)' = Unit(m, 2)
    BY <1>1 DEF Unit
  <2>3. Units(picks, DataPart)' = [i \in 1..l |-> Unit(m, 2)]
    BY <1>1, <1>2, <1>6, <2>1, <2>2 DEF Units, Unit
  <2>4. picks' <= Len(lens')
    BY <1>3, <1>6, <1>8 DEF Newest
  <2> QED BY <1>6, <1>7, <2>3, <2>4 DEF PickedIsNextStored
<1>10. /\ Laid(start)' /\ done + l \in Nat /\ (done + l + count = Written(start))'
       /\ Content(start, done + l)'
  BY <1>1, <1>2, <1>3, <1>4, <1>6, InnerTaken
<1>11. done + l = start[m + 1]
  BY <1>2, <1>4
<1>12. Reads(start, done + l)'
  BY <1>6, <1>11 DEF Reads
<1>13. picks' <= Newest'
  BY <1>3, <1>6, <1>8
<1> QED BY <1>6, <1>9, <1>10, <1>12, <1>13 DEF Stored

(***************************************************************************)
(* All steps. The strand appends to the layout, the application advances   *)
(* in it; a head it finds is whole, and so is the data behind a head.      *)
(***************************************************************************)
LEMMA InnerStep ==
  ASSUME TypeInv, RoomInv, RoomInv', InnerInv, [Next]_vars
  PROVE  InnerInv'
<1> SUFFICES ASSUME reader' = "inner", ~blind'
             PROVE  ~overread' /\ PickedIsNextStored' /\ \E start, done : Stored(start, done)'
  BY DEF InnerInv
<1>1. reader = "inner" /\ ~blind
  <2>1. CASE ReadFirstField
    BY <2>1, Zenon DEF ReadFirstField
  <2>2. CASE ~ReadFirstField
    <3>1. UNCHANGED <<reader, blind>>
      BY <2>2 DEF Next, Strand, Application, vars, try_copy_to_storage, WritePart, pick_msg,
         ReadCmd, ReadLength, ReturnFalse, ReadBody
    <3> QED BY <3>1, Zenon
  <2> QED BY <2>1, <2>2
<1>2. PICK start, done : Stored(start, done)
  BY <1>1 DEF InnerInv
<1>3. ~overread /\ PickedIsNextStored
  BY <1>1 DEF InnerInv
<1>4. ASSUME UNCHANGED <<reader, picks, picked>>,
             \E k : lens' = lens \/ (k \in 0..MaxData /\ lens' = Append(lens, k))
      PROVE  PickedIsNextStored'
  <2>1. picks \in Nat /\ lens \in Seq(0..MaxData) /\ DataPart' = DataPart
    BY <1>4, Types DEF TypeInv, TypeOK, DataPart, Fields
  <2>2. picks > 0 => picks <= Len(lens') /\ lens'[picks] = lens[picks]
    BY <1>3, <1>4, <2>1 DEF PickedIsNextStored
  <2>3. DataPart = 2
    BY <1>1, Inner
  <2>4. picks > 0 => Units(picks, DataPart)' = Units(picks, DataPart)
    BY <1>4, <2>1, <2>2, <2>3 DEF Units, Unit
  <2> QED BY <1>3, <1>4, <2>2, <2>4 DEF PickedIsNextStored
<1>5. ASSUME UNCHANGED <<reader, storage, lens, part, picks>>,
             Reads(start, done)'
      PROVE  Stored(start, done)'
  BY <1>2, <1>5 DEF Stored, Laid, Written, Content, Unit, Newest, count
<1>6. CASE UNCHANGED vars
  <2>1. Reads(start, done)'
    BY <1>2, <1>6 DEF vars, Stored, Reads, Newest, count
  <2> QED BY <1>3, <1>4, <1>5, <1>6, <2>1 DEF vars
<1>7. CASE try_copy_to_storage
  <2>1. PICK k \in DataLengths : lens' = Append(lens, k)
    BY <1>7 DEF try_copy_to_storage
  <2>2. k \in 0..MaxData
    BY StorageAssumption DEF DataLengths
  <2>3. UNCHANGED <<reader, picks, picked, blind, overread>>
    BY <1>7 DEF try_copy_to_storage
  <2> QED BY <1>1, <1>2, <1>3, <1>4, <1>7, <2>1, <2>2, <2>3, InnerCopy
<1>8. CASE WritePart
  <2>1. ~dropped' /\ UNCHANGED <<reader, lens, picks, picked, blind, overread>>
    BY <1>8 DEF RoomInv, WritePart
  <2> QED BY <1>1, <1>2, <1>3, <1>4, <1>8, <2>1, InnerWrite
<1>9. CASE pick_msg
  <2>1. /\ pc = "idle" /\ UNCHANGED <<reader, storage, lens, part, uid, len, picks, picked, overread>>
        /\ pc' = IF len # -1 THEN "body" ELSE IF empty(HeadSize) THEN "idle" ELSE "head"
    BY <1>1, <1>9 DEF pick_msg, HeadKnown
  <2>2. Reads(start, done)'
    <3>1. CASE len = -1 /\ done = start[picks + 1]
      BY <2>1, <3>1 DEF Reads
    <3>2. CASE /\ uid = picks + 1 /\ done = start[picks + 1] + 3
               /\ picks < Newest /\ len = lens[picks + 1]
      <4>1. picks + 1 \in 1..Newest
        BY <3>2, Types DEF TypeInv, TypeOK
      <4>2. len \in Nat
        BY <3>2, <4>1, Types DEF TypeInv
      <4>3. pc' = "body"
        BY <2>1, <4>2
      <4> QED BY <2>1, <3>2, <4>3 DEF Reads, Newest
    <3> QED BY <1>2, <2>1, <3>1, <3>2 DEF Stored, Reads
  <2> QED BY <1>3, <1>4, <1>5, <2>1, <2>2
<1>10. CASE ReadFirstField
  <2>1. ~overread' /\ picked' = picked /\ Stored(start, done + 3)'
    BY <1>1, <1>2, <1>10, InnerHead
  <2>2. UNCHANGED <<reader, lens, picks>>
    BY <1>10 DEF ReadFirstField
  <2> QED BY <1>4, <2>1, <2>2
<1>11. CASE ReadCmd \/ ReadLength
  BY <1>1, <1>11, Inner DEF ReadCmd, ReadLength
<1>12. CASE ReturnFalse
  <2>1. /\ pc = "body" /\ pc' = "idle"
        /\ UNCHANGED <<reader, storage, lens, part, uid, len, picks, picked, overread>>
    BY <1>12 DEF ReturnFalse
  <2>2. Reads(start, done)'
    BY <1>2, <2>1 DEF Stored, Reads, Newest
  <2> QED BY <1>3, <1>4, <1>5, <2>1, <2>2
<1>13. CASE ReadBody
  BY <1>1, <1>2, <1>3, <1>13, InnerBody
<1> QED
  BY <1>6, <1>7, <1>8, <1>9, <1>10, <1>11, <1>12, <1>13 DEF Next, Strand, Application

LEMMA InnerAlways == Spec => []InnerInv
<1>1. Init => RoomInv
  BY DEF Init, RoomInv
<1>2. InnerInv /\ TypeInv /\ RoomInv /\ RoomInv' /\ [Next]_vars => InnerInv'
  BY InnerStep
<1> QED BY <1>1, <1>2, TypeAlways, RoomStep, InnerInit, PTL DEF Spec

(***************************************************************************)
(* pick_msg() of the inner pair, whenever it is called, takes every        *)
(* message once, in the order in which its logic stored them, with the     *)
(* uid and the data of that one message, and never more than is stored --  *)
(* until it reads a head when nothing is stored, which its test lets pass. *)
(***************************************************************************)
THEOREM InnerTornOnlyIfBlind == Spec => []TornOnlyIfBlind
<1>1. InnerInv => TornOnlyIfBlind
  BY DEF InnerInv, TornOnlyIfBlind
<1> QED BY <1>1, InnerAlways, PTL

=============================================================================
