-------------------------- MODULE RingBufferProofs --------------------------
(***************************************************************************)
(* For every capacity, size of size_t, block and value: a ring buffer      *)
(* whose consumer counts first, and whose indices are stored wrapped or    *)
(* whose capacity divides 2^w, never overwrites what is stored and         *)
(* implements the FIFO of SpscFifo.                                        *)
(***************************************************************************)
EXTENDS RingBuffer, SequenceTheorems, TLAPS

\* What the ring needs from its user and its compiler.
Sound == Counted /\ (SplitStores => Word % Capacity = 0)

(***************************************************************************)
(* Arithmetic modulo the capacity.                                         *)
(***************************************************************************)
\* A remainder lies in the ring, and numbers of the ring are remainders.
LEMMA ModRange ==
  ASSUME NEW C \in Nat \ {0}, NEW a \in Int
  PROVE  a % C \in 0..C - 1 /\ (a \in 0..C - 1 => a % C = a)
  BY SMT

\* A remainder is its own remainder.
LEMMA ModTwice ==
  ASSUME NEW C \in Nat \ {0}, NEW a \in Int
  PROVE  (a % C) % C = a % C
<1>1. a % C \in 0..C - 1 /\ a % C \in Int
  BY ModRange
<1> QED BY <1>1, ModRange

\* Division with remainder.
LEMMA ModDivides ==
  ASSUME NEW C \in Nat \ {0}, NEW a \in Int
  PROVE  \E q \in Int : a = q * C + (a % C)
<1>1. a \div C \in Int /\ a = C * (a \div C) + (a % C)
  BY SMT
<1>2. a = (a \div C) * C + (a % C)
  BY <1>1, SMT
<1> QED BY <1>1, <1>2

\* The remainder is unique.
LEMMA ModUnique ==
  ASSUME NEW C \in Nat \ {0}, NEW q \in Int, NEW s \in 0..C - 1
  PROVE  (q * C + s) % C = s
  BY SMT

\* Numbers that differ by a multiple of C have the same remainder.
LEMMA ModMultiple ==
  ASSUME NEW C \in Nat \ {0}, NEW q \in Int, NEW a \in Int
  PROVE  (q * C + a) % C = a % C
<1>1. PICK p \in Int : a = p * C + (a % C)
  BY ModDivides
<1>2. a % C \in 0..C - 1
  BY ModRange
<1>3. q * C + a = (q + p) * C + (a % C) /\ q + p \in Int
  BY <1>1, <1>2, SMT
<1>4. ((q + p) * C + (a % C)) % C = a % C
  BY <1>2, <1>3, ModUnique
<1> QED BY <1>3, <1>4

\* Two numbers have the same remainder if their difference is that of two
\* numbers that have.
Same(C, a, b) == a % C = b % C

LEMMA SameShifted ==
  ASSUME NEW C \in Nat \ {0}, NEW a \in Int, NEW b \in Int, NEW x \in Int, NEW y \in Int,
         Same(C, a, b), x - y = a - b
  PROVE  Same(C, x, y)
<1>1. PICK p \in Int : a = p * C + (a % C)
  BY ModDivides
<1>2. PICK q \in Int : b = q * C + (b % C)
  BY ModDivides
<1>3. a - b = (p - q) * C /\ p - q \in Int
  BY <1>1, <1>2, ModRange, SMT DEF Same
<1>4. PICK k \in Int : x - y = k * C
  BY <1>3
<1>5. x = k * C + y
  BY <1>4, SMT
<1>6. (k * C + y) % C = y % C
  BY ModMultiple
<1> QED BY <1>5, <1>6 DEF Same

\* Different numbers less than C apart have different remainders.
LEMMA ModApart ==
  ASSUME NEW C \in Nat \ {0}, NEW a \in Int, NEW b \in Int, a - b \in 1..C - 1
  PROVE  ~Same(C, a, b)
<1>1. SUFFICES ASSUME Same(C, a, b) PROVE FALSE
  OBVIOUS
<1> DEFINE e == a - b
<1>2. e \in Int /\ 0 \in Int /\ e - 0 = a - b /\ e \in 1..C - 1
  BY SMT
<1> HIDE DEF e
<1>3. Same(C, e, 0)
  BY <1>1, <1>2, SameShifted
<1> QED BY <1>2, <1>3, SMT DEF Same

\* If C divides W, the remainder by W does not matter.
LEMMA ModOfMod ==
  ASSUME NEW C \in Nat \ {0}, NEW W \in Nat \ {0}, W % C = 0, NEW a \in Int
  PROVE  (a % W) % C = a % C
<1>1. PICK p \in Int : a = p * W + (a % W)
  BY ModDivides
<1>2. \E q \in Int : W = q * C + (W % C)
  <2>1. W \in Int
    BY SMT
  <2> QED BY <2>1, ModDivides
<1>3. PICK q \in Int : W = q * C
  BY <1>2, SMT
<1>4. a % W \in Int
  BY ModRange
<1>5. p * W = (p * q) * C /\ p * q \in Int
  BY <1>3, SMT
<1>6. a = (p * q) * C + (a % W)
  BY <1>1, <1>5
<1>7. ((p * q) * C + (a % W)) % C = (a % W) % C
  BY <1>4, <1>5, ModMultiple
<1> QED BY <1>6, <1>7

\* The elements of a concatenation.
LEMMA ConcatElements ==
  ASSUME NEW S, NEW s \in Seq(S), NEW t \in Seq(S)
  PROVE  s \o t = [i \in 1..Len(s) + Len(t) |-> IF i <= Len(s) THEN s[i] ELSE t[i - Len(s)]]
<1> DEFINE r == s \o t
<1>1. /\ r \in Seq(S) /\ Len(r) = Len(s) + Len(t)
      /\ \A i \in 1..Len(s) + Len(t) : r[i] = IF i <= Len(s) THEN s[i] ELSE t[i - Len(s)]
  BY ConcatProperties
<1> HIDE DEF r
<1>2. r = [i \in 1..Len(r) |-> r[i]]
  BY <1>1
<1>3. r = [i \in 1..Len(s) + Len(t) |-> r[i]]
  BY <1>1, <1>2
<1>4. r = [i \in 1..Len(s) + Len(t) |-> IF i <= Len(s) THEN s[i] ELSE t[i - Len(s)]]
  BY <1>1, <1>3
<1> QED BY <1>4 DEF r

(***************************************************************************)
(* Indices and slots.                                                      *)
(***************************************************************************)
\* What count() computes in size_t is the distance of the indices in the ring,
\* wrapped or not.
LEMMA CountIsDistance ==
  ASSUME Sound, NEW w \in 0..2 * Capacity - 1, NEW r \in 0..2 * Capacity - 1,
         SplitStores \/ (w < Capacity /\ r < Capacity)
  PROVE  ((w - r + Capacity) % Word) % Capacity = (w - r) % Capacity
<1>1. Capacity \in Nat \ {0} /\ Word \in Nat \ {0} /\ Word >= 2 * Capacity
  BY RingAssumption, SMT
<1>2. w - r \in Int /\ w - r + Capacity \in Int
  BY <1>1, SMT
<1>3. (w - r + Capacity) % Capacity = (w - r) % Capacity
  <2> DEFINE x == w - r + Capacity  y == w - r
  <2>1. x \in Int /\ y \in Int /\ x - y = Capacity - 0 /\ Capacity \in Int /\ 0 \in Int
    BY <1>1, SMT
  <2>2. Same(Capacity, Capacity, 0)
    <3>1. (1 * Capacity + 0) % Capacity = 0 /\ 1 * Capacity + 0 = Capacity
      BY <1>1, SMT
    <3> QED BY <1>1, <3>1, SMT DEF Same
  <2> HIDE DEF x, y
  <2>3. Same(Capacity, x, y)
    BY <1>1, <2>1, <2>2, SameShifted
  <2> QED BY <2>3 DEF x, y, Same
<1>4. CASE SplitStores
  <2>1. Word % Capacity = 0
    BY <1>4 DEF Sound
  <2> QED BY <1>1, <1>2, <1>3, <2>1, ModOfMod
<1>5. CASE w < Capacity /\ r < Capacity
  <2>1. w - r + Capacity \in 0..Word - 1
    BY <1>1, <1>5, SMT
  <2>2. (w - r + Capacity) % Word = w - r + Capacity
    BY <1>1, <1>2, <2>1, ModRange
  <2> QED BY <1>3, <2>2
<1> QED BY <1>4, <1>5

Distance(C, w, r) == (w - r) % C
Moved(C, i, n, i2) == Same(C, i2, i + n)

\* How the distance changes when the indices move.
LEMMA DistanceMoves ==
  ASSUME NEW C \in Nat \ {0}, NEW w \in Int, NEW r \in Int, NEW w2 \in Int, NEW r2 \in Int,
         NEW n \in Int, NEW m \in Int, Moved(C, w, n, w2), Moved(C, r, m, r2),
         Distance(C, w, r) + n - m \in 0..C - 1
  PROVE  Distance(C, w2, r2) = Distance(C, w, r) + n - m
<1> USE DEF Distance
<1> DEFINE d == (w - r) % C
           x == w + n - (r + m)
           y == w2 - (r + m)
           z == w2 - r2
           t == w - r
           g == d + n - m
           wn == w + n
           rm == r + m
<1>1. t \in Int /\ d \in 0..C - 1 /\ d \in Int
  <2>1. t \in Int
    BY SMT
  <2> HIDE DEF t
  <2>2. t % C \in 0..C - 1
    BY <2>1, ModRange
  <2> QED BY <2>1, <2>2, SMT DEF t
<1>2. Same(C, t, d)
  BY <1>1, SMT DEF Same
<1>3. g \in 0..C - 1 /\ g \in Int
  BY SMT
<1> HIDE DEF d
<1>4. /\ x \in Int /\ y \in Int /\ z \in Int /\ wn \in Int /\ rm \in Int
      /\ z - y = rm - r2 /\ y - x = w2 - wn /\ x - g = t - d
  BY <1>1, <1>3, SMT
<1>5. Same(C, w2, wn) /\ Same(C, rm, r2)
  BY DEF Moved, Same
<1> HIDE DEF x, y, z, t, g, wn, rm
<1>6. Same(C, z, y) /\ Same(C, y, x) /\ Same(C, x, g)
  BY <1>1, <1>2, <1>3, <1>4, <1>5, SameShifted
<1>7. g % C = g
  BY <1>3, ModRange
<1> QED BY <1>6, <1>7 DEF z, g, d, Same

\* The slots behind the write index are those behind what is stored.
LEMMA SlotBehind ==
  ASSUME NEW C \in Nat \ {0}, NEW w \in Int, NEW r \in Int, NEW k \in Int
  PROVE  Same(C, w + k, r + ((w - r) % C) + k)
<1> DEFINE d == (w - r) % C
           x == w + k
           y == r + d + k
           t == w - r
<1>1. t \in Int /\ d \in Int /\ Same(C, t, d)
  <2>1. t \in Int
    BY SMT
  <2>2. d \in 0..C - 1
    BY <2>1, ModRange
  <2> QED BY <2>1, <2>2, SMT DEF Same
<1> HIDE DEF d
<1>2. x \in Int /\ y \in Int /\ x - y = t - d
  BY <1>1, SMT
<1> HIDE DEF x, y, t
<1>3. Same(C, x, y)
  BY <1>1, <1>2, SameShifted
<1> QED BY <1>3 DEF d, x, y

\* A stored slot is no slot the producer fills.
LEMMA SlotsApart ==
  ASSUME Capacity \in Nat \ {0}, NEW w \in Int, NEW r \in Int, NEW i \in Int, NEW j \in Int,
         ((w - r) % Capacity) + j - i \in 1..Capacity - 1
  PROVE  Slot(w + j) # Slot(r + i)
<1> DEFINE d == (w - r) % Capacity
<1>1. d \in Int
  BY ModRange, w - r \in Int
<1>2. Slot(w + j) = Slot(r + d + j)
  BY SlotBehind DEF Same, Slot
<1>3. d + j - i \in 1..Capacity - 1
  OBVIOUS
<1> HIDE DEF d
<1>4. r + d + j \in Int /\ r + i \in Int /\ (r + d + j) - (r + i) \in 1..Capacity - 1
  BY <1>1, <1>3, SMT
<1>5. ~Same(Capacity, r + d + j, r + i)
  BY <1>4, ModApart
<1> QED BY <1>2, <1>5 DEF Slot, Same

(***************************************************************************)
(* The inductive invariant.                                                *)
(***************************************************************************)
\* The block the producer copies has room, and its first elements are there.
ProdInv ==
  prod.pc = "copy" =>
    /\ Len(prod.data) + count < Capacity /\ Len(prod.data) >= 1
    /\ prod.done <= Len(prod.data)
    /\ \A i \in 1..prod.done : buffer[Slot(writeIndex + i - 1)] = prod.data[i]

\* What the consumer wants is stored, and it has copied the front of it.
ConsInv ==
  cons.pc = "copy" =>
    /\ cons.length \in 1..count
    /\ Len(ret) <= cons.length
    /\ \A i \in 1..Len(ret) : ret[i] = queue[i]

\* Without split stores no index is ever outside the ring.
SplitInv == ~SplitStores => prod.pc # "wrap" /\ cons.pc # "wrap"

RInv == TypeOK /\ SplitInv /\ ProdInv /\ ConsInv

IndexOK ==
  /\ writeIndex \in 0..2 * Capacity - 1 /\ readIndex \in 0..2 * Capacity - 1
  /\ SplitStores \/ (writeIndex < Capacity /\ readIndex < Capacity)

LEMMA SizeFacts == Capacity \in Nat \ {0} /\ Word \in Nat \ {0} /\ Word >= 2 * Capacity
  BY RingAssumption, SMT

LEMMA IndexOKAlways ==
  ASSUME RInv PROVE IndexOK
  BY DEF RInv, TypeOK, SplitInv, IndexOK

\* count() in a state with sound indices, and in the next one.
LEMMA CountFacts ==
  ASSUME Sound, IndexOK
  PROVE  count = (writeIndex - readIndex) % Capacity /\ count \in 0..Capacity - 1
<1>1. count = (writeIndex - readIndex) % Capacity
  BY CountIsDistance DEF IndexOK, count
<1>2. writeIndex - readIndex \in Int
  BY SizeFacts, SMT DEF IndexOK
<1> QED BY <1>1, <1>2, ModRange, SizeFacts

LEMMA CountFactsNext ==
  ASSUME Sound, IndexOK'
  PROVE  count' = (writeIndex' - readIndex') % Capacity
  BY CountIsDistance DEF IndexOK, count

\* The abstract queue, spelled out.
LEMMA QueueFacts ==
  ASSUME Sound, RInv
  PROVE  /\ queue \in Seq(Value \cup {Junk}) /\ Len(queue) = count
         /\ \A i \in 1..count : queue[i] = buffer[Slot(readIndex + i - 1)]
<1>1. count \in Nat
  BY IndexOKAlways, CountFacts, SMT
<1>2. ASSUME NEW i \in 1..count PROVE buffer[Slot(readIndex + i - 1)] \in Value \cup {Junk}
  <2>1. readIndex + i - 1 \in Int
    BY <1>1, SizeFacts, SMT DEF RInv, TypeOK
  <2>2. Slot(readIndex + i - 1) \in 0..Capacity - 1
    BY <2>1, SizeFacts, ModRange DEF Slot
  <2> QED BY <2>2 DEF RInv, TypeOK
<1>3. queue \in [1..count -> Value \cup {Junk}]
  BY <1>2 DEF queue
<1> QED BY <1>1, <1>3, SMT DEF queue

(***************************************************************************)
(* The producer's steps: RInv is kept, and what becomes of the queue.      *)
(***************************************************************************)
\* A call that passes its tests has room for its block.
LEMMA StepTryWrite ==
  ASSUME Sound, RInv, tryWrite
  PROVE  RInv' /\ queue' = queue /\ got' = got
<1>1. PICK n \in 1..MaxBlock : \E data \in [1..n -> Value] :
        HasRoom(n) /\ prod' = [pc |-> "copy", data |-> data, done |-> 0]
  BY DEF tryWrite
<1>2. PICK data \in [1..n -> Value] :
        HasRoom(n) /\ prod' = [pc |-> "copy", data |-> data, done |-> 0]
  BY <1>1
<1>3. count' = count /\ queue' = queue
  BY DEF tryWrite, queue, count, Slot
<1>4. n \in Nat /\ n >= 1 /\ data \in Seq(Value) /\ Len(data) = n
  BY RingAssumption, SMT
<1>5. TypeOK'
  BY <1>2, <1>4, SMT DEF RInv, TypeOK, tryWrite, Idle
<1>6. SplitInv'
  BY <1>2 DEF RInv, SplitInv, tryWrite
<1>7. ProdInv'
  <2>1. count \in Nat
    BY IndexOKAlways, CountFacts, SMT
  <2>2. Len(prod'.data) + count' < Capacity /\ Len(prod'.data) >= 1
    BY <1>2, <1>3, <1>4, <2>1, SizeFacts, SMT DEF HasRoom
  <2> QED BY <1>2, <1>4, <2>2, SMT DEF ProdInv
<1>8. ConsInv'
  BY <1>3 DEF RInv, ConsInv, tryWrite
<1> QED BY <1>3, <1>5, <1>6, <1>7, <1>8 DEF RInv, tryWrite

\* Copying an element touches no stored slot and no slot filled before.
LEMMA StepWriteElement ==
  ASSUME Sound, RInv, WriteElement
  PROVE  RInv' /\ queue' = queue /\ got' = got
<1> DEFINE n == Len(prod.data)
           done == prod.done
           to == Slot(writeIndex + done)
<1>1. /\ prod.pc = "copy" /\ done \in Nat /\ done < n /\ n \in Nat /\ n + count < Capacity /\ n >= 1
      /\ prod.data \in Seq(Value)
      /\ prod' = [pc |-> "copy", data |-> prod.data, done |-> done + 1]
      /\ \A i \in 1..done : buffer[Slot(writeIndex + i - 1)] = prod.data[i]
  <2>1. prod.pc = "copy" /\ done < n /\ prod' = [prod EXCEPT !.done = @ + 1]
    BY DEF WriteElement
  <2>2. prod \in [pc : {"copy"}, data : Seq(Value), done : Nat]
    BY <2>1 DEF RInv, TypeOK, Idle
  <2> QED BY <2>1, <2>2, SMT DEF RInv, ProdInv
<1>2. /\ writeIndex \in Int /\ readIndex \in Int /\ count \in Nat
      /\ count = (writeIndex - readIndex) % Capacity
  BY IndexOKAlways, CountFacts, SizeFacts, SMT DEF IndexOK
<1>3. to \in 0..Capacity - 1 /\ buffer' = [buffer EXCEPT ![to] = prod.data[done + 1]]
  <2>1. writeIndex + done \in Int
    BY <1>1, <1>2, SMT
  <2> QED BY <2>1, SizeFacts, ModRange DEF WriteElement, Slot
<1>4. UNCHANGED <<readIndex, writeIndex, cons, ret, got>> /\ count' = count
  BY DEF WriteElement, count
<1>5. \A i \in 1..count : Slot(readIndex + i - 1) # to
  <2> SUFFICES ASSUME NEW i \in 1..count PROVE Slot(readIndex + i - 1) # to
    OBVIOUS
  <2> DEFINE k == i - 1
  <2>1. k \in Int /\ count + done - k \in 1..Capacity - 1 /\ readIndex + i - 1 = readIndex + k
    BY <1>1, <1>2, SizeFacts, SMT
  <2>2. done \in Int /\ ((writeIndex - readIndex) % Capacity) + done - k \in 1..Capacity - 1
    BY <1>1, <1>2, <2>1
  <2> HIDE DEF k
  <2>3. Slot(writeIndex + done) # Slot(readIndex + k)
    BY <1>2, <2>1, <2>2, SizeFacts, SlotsApart
  <2> QED BY <2>1, <2>3
<1>6. queue' = queue
  <2>1. \A i \in 1..count : Slot(readIndex + i - 1) \in 0..Capacity - 1
    <3> SUFFICES ASSUME NEW i \in 1..count PROVE Slot(readIndex + i - 1) \in 0..Capacity - 1
      OBVIOUS
    <3>1. readIndex + i - 1 \in Int
      BY <1>2, SMT
    <3> QED BY <3>1, SizeFacts, ModRange DEF Slot
  <2>2. \A i \in 1..count : buffer'[Slot(readIndex + i - 1)] = buffer[Slot(readIndex + i - 1)]
    BY <1>3, <1>5, <2>1 DEF RInv, TypeOK
  <2>3. queue' = [i \in 1..count |-> buffer'[Slot(readIndex + i - 1)]]
    BY <1>4 DEF queue, Slot
  <2> QED BY <2>2, <2>3 DEF queue
<1>7. TypeOK'
  <2>1. prod.data[done + 1] \in Value
    BY <1>1, SMT
  <2>2. buffer' \in [0..Capacity - 1 -> Value \cup {Junk}]
    BY <1>3, <2>1 DEF RInv, TypeOK
  <2>3. prod' \in [pc : {"copy"}, data : Seq(Value), done : Nat]
    BY <1>1, SMT
  <2> QED BY <1>1, <1>4, <2>2, <2>3 DEF RInv, TypeOK
<1>8. SplitInv'
  BY <1>1, <1>4 DEF RInv, SplitInv
<1>9. ProdInv'
  <2> SUFFICES ASSUME NEW i \in 1..done + 1
               PROVE  buffer'[Slot(writeIndex + i - 1)] = prod.data[i]
    BY <1>1, <1>4, SMT DEF ProdInv, Slot
  <2>1. CASE i = done + 1
    <3>1. writeIndex + i - 1 = writeIndex + done
      BY <1>1, <1>2, <2>1, SMT
    <3> QED BY <1>3, <2>1, <3>1 DEF RInv, TypeOK
  <2>2. CASE i # done + 1
    <3> DEFINE a == writeIndex + done  b == writeIndex + i - 1
    <3>1. i \in 1..done
      BY <1>1, <2>2, SMT
    <3>2. a \in Int /\ b \in Int /\ a - b \in 1..Capacity - 1
      <4>1. done \in Nat /\ done < Capacity /\ Capacity \in Nat /\ writeIndex \in Int
        BY <1>1, <1>2, SizeFacts, SMT
      <4>2. done - (i - 1) \in 1..Capacity - 1 /\ i \in Int
        BY <3>1, <4>1, SMT
      <4>3. a - b = done - (i - 1) /\ a \in Int /\ b \in Int
        BY <4>1, <4>2, SMT
      <4> QED BY <4>2, <4>3, Zenon
    <3> HIDE DEF a, b
    <3>3. Slot(a) # Slot(b) /\ Slot(b) \in 0..Capacity - 1
      BY <3>2, ModApart, ModRange, SizeFacts DEF Slot, Same
    <3>4. buffer'[Slot(b)] = buffer[Slot(b)]
      BY <1>3, <3>3 DEF RInv, TypeOK, a
    <3> QED BY <1>1, <3>1, <3>4 DEF b
  <2> QED BY <2>1, <2>2
<1>10. ConsInv'
  BY <1>4, <1>6 DEF RInv, ConsInv
<1> QED BY <1>4, <1>6, <1>7, <1>8, <1>9, <1>10 DEF RInv

\* When the index moves the whole block is stored.
LEMMA StepWriteShift ==
  ASSUME Sound, RInv, WriteShift
  PROVE  /\ RInv' /\ got' = got
         /\ prod.data \in Seq(Value) /\ Len(prod.data) \in 1..Capacity - 1 - Len(queue)
         /\ queue' = queue \o prod.data
<1> DEFINE n == Len(prod.data)
           next == (writeIndex + n) % Word
<1>1. /\ prod.pc = "copy" /\ n \in Nat /\ n + count < Capacity /\ n >= 1
      /\ prod.data \in Seq(Value)
      /\ \A i \in 1..n : buffer[Slot(writeIndex + i - 1)] = prod.data[i]
  <2>1. prod.pc = "copy" /\ prod.done = n
    BY DEF WriteShift
  <2>2. prod \in [pc : {"copy"}, data : Seq(Value), done : Nat]
    BY <2>1 DEF RInv, TypeOK, Idle
  <2> QED BY <2>1, <2>2, SMT DEF RInv, ProdInv
<1>2. /\ writeIndex \in 0..Capacity - 1 /\ readIndex \in 0..2 * Capacity - 1 /\ count \in Nat
      /\ count = (writeIndex - readIndex) % Capacity
  BY <1>1, IndexOKAlways, CountFacts, SizeFacts, SMT DEF IndexOK, RInv, TypeOK
<1>3. next = writeIndex + n /\ next \in 0..2 * Capacity - 1
  <2> DEFINE t == writeIndex + n
  <2>1. t \in 0..Word - 1 /\ t \in 0..2 * Capacity - 1
    BY <1>1, <1>2, SizeFacts, SMT
  <2>2. next = t % Word
    OBVIOUS
  <2> HIDE DEF t, next
  <2>3. t % Word = t
    BY <2>1, SizeFacts, SMT
  <2> QED BY <2>1, <2>2, <2>3 DEF t
<1>4. UNCHANGED <<buffer, readIndex, cons, ret, got>>
  BY DEF WriteShift
<1> HIDE DEF next
<1>5. \/ SplitStores /\ writeIndex' = next /\ prod' = [pc |-> "wrap"]
      \/ writeIndex' = next % Capacity /\ prod' = Idle
  BY DEF WriteShift, Wrapped, next
<1>6. /\ writeIndex' \in 0..2 * Capacity - 1 /\ Same(Capacity, writeIndex', writeIndex + n)
      /\ prod'.pc # "wrap" => writeIndex' < Capacity
      /\ prod' \in {Idle, [pc |-> "wrap"]}
  <2>1. next % Capacity \in 0..Capacity - 1 /\ (next % Capacity) % Capacity = next % Capacity
    <3>1. next \in Int
      BY <1>3
    <3> QED BY <3>1, SizeFacts, ModRange, ModTwice
  <2>2. CASE SplitStores /\ writeIndex' = next /\ prod' = [pc |-> "wrap"]
    BY <1>3, <2>2 DEF Same
  <2>3. CASE writeIndex' = next % Capacity /\ prod' = Idle
    <3>1. writeIndex' \in 0..2 * Capacity - 1 /\ writeIndex' < Capacity
      BY <2>1, <2>3, SizeFacts, SMT
    <3> QED BY <1>3, <2>1, <2>3, <3>1 DEF Same
  <2> QED BY <1>5, <2>2, <2>3
<1>7. TypeOK'
  BY <1>4, <1>6 DEF RInv, TypeOK
<1>8. SplitInv'
  BY <1>4, <1>5 DEF RInv, SplitInv, Idle
<1>9. count' = count + n
  <2>1. IndexOK'
    BY <1>7, <1>8 DEF IndexOK, TypeOK, SplitInv
  <2>2. count' = (writeIndex' - readIndex) % Capacity
    BY <1>4, <2>1, CountFactsNext
  <2>3. /\ count + n - 0 \in 0..Capacity - 1
        /\ readIndex + 0 = readIndex /\ 0 \in Int /\ writeIndex \in Int /\ readIndex \in Int
        /\ writeIndex' \in Int /\ n \in Int /\ count + n - 0 = count + n
    BY <1>1, <1>2, <1>6, SizeFacts, SMT
  <2>4. Moved(Capacity, readIndex, 0, readIndex) /\ Moved(Capacity, writeIndex, n, writeIndex')
    BY <1>6, <2>3 DEF Same, Moved
  <2>5. Distance(Capacity, writeIndex, readIndex) = count
    BY <1>2 DEF Distance
  <2>6. Distance(Capacity, writeIndex, readIndex) + n - 0 \in 0..Capacity - 1
    BY <2>3, <2>5
  <2> HIDE DEF n
  <2>7. Distance(Capacity, writeIndex', readIndex) = Distance(Capacity, writeIndex, readIndex) + n - 0
    BY <2>3, <2>4, <2>6, SizeFacts, DistanceMoves
  <2> QED BY <2>2, <2>3, <2>5, <2>7 DEF Distance
<1>10. \A i \in 1..n : buffer[Slot(readIndex + (count + i) - 1)] = prod.data[i]
  <2> SUFFICES ASSUME NEW i \in 1..n PROVE buffer[Slot(readIndex + (count + i) - 1)] = prod.data[i]
    OBVIOUS
  <2> DEFINE k == i - 1
  <2>1. /\ k \in Int /\ writeIndex + i - 1 = writeIndex + k
        /\ readIndex + (count + i) - 1 = readIndex + count + k
    BY <1>1, <1>2, SMT
  <2> HIDE DEF k
  <2>2. Slot(writeIndex + k) = Slot(readIndex + count + k)
    <3>1. writeIndex \in Int /\ readIndex \in Int
      BY <1>2, SizeFacts, SMT
    <3> QED BY <1>2, <2>1, <3>1, SizeFacts, SlotBehind DEF Same, Slot
  <2> QED BY <1>1, <2>1, <2>2
<1>11. queue' = queue \o prod.data
  <2>1. queue' = [i \in 1..count + n |-> buffer[Slot(readIndex + i - 1)]]
    BY <1>4, <1>9 DEF queue, Slot
  <2>2. queue = [i \in 1..count |-> buffer[Slot(readIndex + i - 1)]] /\ Len(queue) = count
    BY QueueFacts DEF queue
  <2>3. queue \o prod.data = [i \in 1..count + n |->
                             IF i <= count THEN queue[i] ELSE prod.data[i - count]]
    <3>1. queue \in Seq(Value \cup {Junk}) /\ Len(queue) = count
      BY QueueFacts
    <3>2. prod.data \in Seq(Value \cup {Junk})
      BY <1>1, SMT
    <3>3. queue \o prod.data
            = [i \in 1..Len(queue) + Len(prod.data) |->
                 IF i <= Len(queue) THEN queue[i] ELSE prod.data[i - Len(queue)]]
      BY <3>1, <3>2, ConcatElements
    <3> QED BY <3>1, <3>3
  <2>4. ASSUME NEW i \in 1..count + n
        PROVE  buffer[Slot(readIndex + i - 1)] = IF i <= count THEN queue[i] ELSE prod.data[i - count]
    <3>1. CASE i <= count
      BY <1>2, <2>2, <3>1, SMT
    <3>2. CASE ~(i <= count)
      <4>1. i - count \in 1..n /\ count + (i - count) = i
        BY <1>1, <1>2, <3>2, SMT
      <4>2. buffer[Slot(readIndex + (count + (i - count)) - 1)] = prod.data[i - count]
        BY <1>10, <4>1
      <4> QED BY <3>2, <4>1, <4>2
    <3> QED BY <3>1, <3>2
  <2> QED BY <2>1, <2>3, <2>4
<1>12. ProdInv'
  BY <1>5 DEF ProdInv, Idle
<1>13. ConsInv'
  <2>1. ASSUME cons.pc = "copy", NEW i \in 1..Len(ret) PROVE ret[i] = queue'[i]
    <3>1. ret[i] = queue[i] /\ i \in 1..count
      BY <1>2, <2>1, SMT DEF RInv, ConsInv, TypeOK
    <3>2. (queue \o prod.data)[i] = queue[i]
      BY <1>1, <3>1, QueueFacts, SMT
    <3> QED BY <1>11, <3>1, <3>2
  <2>2. cons.pc = "copy" => cons.length \in 1..count'
    BY <1>1, <1>2, <1>9, SMT DEF RInv, ConsInv
  <2> QED BY <1>4, <2>1, <2>2 DEF RInv, ConsInv
<1>14. n \in 1..Capacity - 1 - Len(queue)
  BY <1>1, <1>2, QueueFacts, SizeFacts, SMT
<1> QED BY <1>1, <1>4, <1>7, <1>8, <1>11, <1>12, <1>13, <1>14 DEF RInv

\* Wrapping an index changes nothing that either side computes.
LEMMA StepWriteWrap ==
  ASSUME Sound, RInv, WriteWrap
  PROVE  RInv' /\ queue' = queue /\ got' = got
<1>1. /\ prod.pc = "wrap" /\ prod' = Idle /\ writeIndex' = writeIndex % Capacity
      /\ UNCHANGED <<buffer, readIndex, cons, ret, got>>
  BY DEF WriteWrap, Wrapped
<1>2. /\ writeIndex \in Int /\ readIndex \in Int /\ count \in 0..Capacity - 1
      /\ count = Distance(Capacity, writeIndex, readIndex)
  BY IndexOKAlways, CountFacts, SizeFacts, SMT DEF IndexOK, Distance
<1>3. /\ writeIndex' \in 0..Capacity - 1 /\ writeIndex' \in 0..2 * Capacity - 1
      /\ writeIndex' < Capacity /\ writeIndex' \in Int
  BY <1>1, <1>2, SizeFacts, SMT
<1>4. TypeOK'
  BY <1>1, <1>3 DEF RInv, TypeOK, Idle
<1>5. SplitInv'
  BY <1>1 DEF RInv, SplitInv, Idle
<1>6. count' = count
  <2>1. Moved(Capacity, writeIndex, 0, writeIndex') /\ Moved(Capacity, readIndex, 0, readIndex)
    BY <1>1, <1>2, SizeFacts, SMT DEF Moved, Same
  <2>2. Distance(Capacity, writeIndex, readIndex) + 0 - 0 \in 0..Capacity - 1 /\ 0 \in Int
    BY <1>2, SMT
  <2>3. Distance(Capacity, writeIndex', readIndex) = Distance(Capacity, writeIndex, readIndex) + 0 - 0
    BY <1>2, <1>3, <2>1, <2>2, SizeFacts, DistanceMoves
  <2>4. IndexOK'
    BY <1>4, <1>5 DEF IndexOK, TypeOK, SplitInv
  <2>5. count' = Distance(Capacity, writeIndex', readIndex)
    BY <1>1, <2>4, CountFactsNext DEF Distance
  <2> QED BY <1>2, <2>3, <2>5, SMT
<1>7. queue' = queue
  BY <1>1, <1>6 DEF queue, Slot
<1>8. ProdInv' /\ ConsInv'
  BY <1>1, <1>6, <1>7 DEF RInv, ProdInv, ConsInv, Idle
<1> QED BY <1>1, <1>4, <1>5, <1>7, <1>8 DEF RInv

(***************************************************************************)
(* The consumer's steps.                                                   *)
(***************************************************************************)
\* A call asks for what is stored.
LEMMA StepTryRead ==
  ASSUME Sound, RInv, tryRead
  PROVE  RInv' /\ queue' = queue /\ got' = got
<1>1. PICK n \in 1..MaxBlock, withoutShift \in BOOLEAN :
        n <= count /\ cons' = [pc |-> "copy", length |-> n, withoutShift |-> withoutShift]
  BY DEF tryRead, Asks, Sound
<1>2. n \in Nat /\ n >= 1 /\ count \in Nat
  BY RingAssumption, IndexOKAlways, CountFacts, SMT
<1>3. ret' = <<>> /\ UNCHANGED <<buffer, readIndex, writeIndex, prod, got>> /\ cons = Idle
  BY DEF tryRead
<1>4. count' = count /\ queue' = queue
  BY <1>3 DEF count, queue, Slot
<1>5. TypeOK'
  <2>1. cons' \in [pc : {"copy"}, length : Nat, withoutShift : BOOLEAN]
    BY <1>1, <1>2
  <2> QED BY <1>1, <1>3, <2>1, SMT DEF RInv, TypeOK, Idle
<1>6. SplitInv'
  BY <1>1, <1>3 DEF RInv, SplitInv
<1>7. ProdInv'
  BY <1>3, <1>4 DEF RInv, ProdInv, Slot
<1>8. ConsInv'
  BY <1>1, <1>2, <1>3, <1>4, SMT DEF ConsInv
<1> QED BY <1>3, <1>4, <1>5, <1>6, <1>7, <1>8 DEF RInv

\* The next element copied is the next element of the queue.
LEMMA StepReadElement ==
  ASSUME Sound, RInv, ReadElement
  PROVE  RInv' /\ queue' = queue /\ got' = got
<1> DEFINE e == buffer[Slot(readIndex + Len(ret))]
<1>1. /\ cons.pc = "copy" /\ Len(ret) < cons.length /\ ret' = Append(ret, e)
      /\ UNCHANGED <<buffer, readIndex, writeIndex, prod, cons, got>>
  BY DEF ReadElement
<1>2. /\ count \in Nat /\ readIndex \in Int /\ cons.length \in 1..count
      /\ ret \in Seq(Value \cup {Junk}) /\ Len(ret) \in Nat
      /\ \A i \in 1..Len(ret) : ret[i] = queue[i]
  BY <1>1, IndexOKAlways, CountFacts, SizeFacts, SMT DEF RInv, TypeOK, ConsInv
<1>3. count' = count /\ queue' = queue
  BY <1>1 DEF count, queue, Slot
<1>4. e = queue[Len(ret) + 1] /\ e \in Value \cup {Junk}
  <2>1. Len(ret) + 1 \in 1..count /\ readIndex + (Len(ret) + 1) - 1 = readIndex + Len(ret)
    BY <1>1, <1>2, SMT
  <2>2. queue[Len(ret) + 1] = buffer[Slot(readIndex + (Len(ret) + 1) - 1)]
    BY <2>1, QueueFacts
  <2>3. queue[Len(ret) + 1] \in Value \cup {Junk}
    BY <2>1, QueueFacts, ElementOfSeq
  <2> QED BY <2>1, <2>2, <2>3
<1> HIDE DEF e
<1>5. ret' \in Seq(Value \cup {Junk}) /\ Len(ret') = Len(ret) + 1
  BY <1>1, <1>2, <1>4, SMT
<1>6. \A i \in 1..Len(ret') : ret'[i] = queue[i]
  BY <1>1, <1>2, <1>4, <1>5, SMT
<1>7. TypeOK'
  BY <1>1, <1>5 DEF RInv, TypeOK
<1>8. SplitInv' /\ ProdInv'
  BY <1>1, <1>3 DEF RInv, SplitInv, ProdInv, Slot
<1>9. ConsInv'
  <2>1. Len(ret') <= cons.length
    BY <1>1, <1>2, <1>5, SMT
  <2> QED BY <1>1, <1>2, <1>3, <1>6, <2>1 DEF ConsInv
<1> QED BY <1>1, <1>3, <1>7, <1>8, <1>9 DEF RInv

\* When the consumer's index moves by n, the first n elements leave the queue.
LEMMA ShiftFacts ==
  ASSUME Sound, RInv, cons.pc # "wrap", NEW n \in 1..count, Shift(n),
         UNCHANGED <<buffer, writeIndex, prod>>
  PROVE  /\ readIndex' \in 0..2 * Capacity - 1
         /\ cons' \in {Idle, [pc |-> "wrap"]} /\ cons'.pc # "copy"
         /\ cons'.pc # "wrap" => readIndex' < Capacity
         /\ ~SplitStores => cons'.pc # "wrap"
         /\ count' = count - n
         /\ queue' = SubSeq(queue, n + 1, Len(queue))
<1> DEFINE next == (readIndex + n) % Word
<1>1. /\ readIndex \in 0..Capacity - 1 /\ writeIndex \in Int /\ count \in 0..Capacity - 1
      /\ count = Distance(Capacity, writeIndex, readIndex) /\ n \in Nat /\ n >= 1 /\ n <= count
      /\ readIndex \in Int
  BY IndexOKAlways, CountFacts, SizeFacts, SMT DEF IndexOK, RInv, TypeOK, Distance
<1>2. next = readIndex + n /\ next \in 0..2 * Capacity - 1
  <2> DEFINE t == readIndex + n
  <2>1. t \in 0..Word - 1 /\ t \in 0..2 * Capacity - 1
    BY <1>1, SizeFacts, SMT
  <2>2. next = t % Word
    OBVIOUS
  <2> HIDE DEF t, next
  <2>3. t % Word = t
    BY <2>1, SizeFacts, SMT
  <2> QED BY <2>1, <2>2, <2>3 DEF t
<1>3. \/ SplitStores /\ readIndex' = next /\ cons' = [pc |-> "wrap"]
      \/ readIndex' = next % Capacity /\ cons' = Idle
  BY DEF Shift, Wrapped
<1> HIDE DEF next
<1>4. /\ readIndex' \in 0..2 * Capacity - 1 /\ Moved(Capacity, readIndex, n, readIndex')
      /\ cons' \in {Idle, [pc |-> "wrap"]} /\ cons'.pc # "copy"
      /\ cons'.pc # "wrap" => readIndex' < Capacity
      /\ ~SplitStores => cons'.pc # "wrap"
  <2>1. next % Capacity \in 0..Capacity - 1 /\ (next % Capacity) % Capacity = next % Capacity
    BY <1>2, SizeFacts, SMT
  <2>2. CASE SplitStores /\ readIndex' = next /\ cons' = [pc |-> "wrap"]
    BY <1>2, <2>2 DEF Same, Moved
  <2>3. CASE readIndex' = next % Capacity /\ cons' = Idle
    <3>1. readIndex' \in 0..2 * Capacity - 1 /\ readIndex' < Capacity
      BY <2>1, <2>3, SizeFacts, SMT
    <3>2. cons'.pc = "idle"
      BY <2>3 DEF Idle
    <3> QED BY <1>2, <2>1, <2>3, <3>1, <3>2 DEF Same, Moved
  <2> QED BY <1>3, <2>2, <2>3
<1>5. count' = count - n
  <2>1. Moved(Capacity, writeIndex, 0, writeIndex) /\ readIndex' \in Int
    BY <1>1, <1>4, SizeFacts, SMT DEF Moved, Same
  <2>2. Distance(Capacity, writeIndex, readIndex) + 0 - n \in 0..Capacity - 1 /\ 0 \in Int /\ n \in Int
    BY <1>1, SizeFacts, SMT
  <2>3. Distance(Capacity, writeIndex, readIndex') = Distance(Capacity, writeIndex, readIndex) + 0 - n
    BY <1>1, <1>4, <2>1, <2>2, SizeFacts, DistanceMoves
  <2>4. IndexOK'
    BY <1>4 DEF RInv, IndexOK, TypeOK, SplitInv
  <2>5. count' = Distance(Capacity, writeIndex, readIndex')
    BY <2>4, CountFactsNext DEF Distance
  <2> QED BY <1>1, <2>3, <2>5, SMT
<1>6. \A i \in 1..count - n : Slot(readIndex' + i - 1) = Slot(readIndex + (n + i) - 1)
  <2> SUFFICES ASSUME NEW i \in 1..count - n
               PROVE  Slot(readIndex' + i - 1) = Slot(readIndex + (n + i) - 1)
    OBVIOUS
  <2> DEFINE a == readIndex'  b == readIndex + n
             x == readIndex' + i - 1  y == readIndex + (n + i) - 1
  <2>1. a \in Int /\ b \in Int /\ x \in Int /\ y \in Int /\ x - y = a - b
    BY <1>1, <1>4, SizeFacts, SMT
  <2>2. Same(Capacity, a, b)
    BY <1>4 DEF Moved
  <2> HIDE DEF a, b, x, y
  <2>3. Same(Capacity, x, y)
    BY <2>1, <2>2, SizeFacts, SameShifted
  <2> QED BY <2>3 DEF Same, Slot, x, y
<1>7. queue' = SubSeq(queue, n + 1, Len(queue))
  <2>1. queue' = [i \in 1..count - n |-> buffer[Slot(readIndex' + i - 1)]]
    BY <1>5 DEF queue, Slot
  <2>2. Len(queue) = count /\ queue \in Seq(Value \cup {Junk})
        /\ \A i \in 1..count : queue[i] = buffer[Slot(readIndex + i - 1)]
    BY QueueFacts
  <2>3. SubSeq(queue, n + 1, Len(queue)) = [i \in 1..count - n |-> queue[n + i]]
    BY <1>1, <2>2, SMT
  <2>4. ASSUME NEW i \in 1..count - n PROVE buffer[Slot(readIndex' + i - 1)] = queue[n + i]
    <3>1. n + i \in 1..count
      BY <1>1, SMT
    <3> QED BY <1>6, <2>2, <3>1
  <2> QED BY <2>1, <2>3, <2>4
<1> QED BY <1>4, <1>5, <1>7

\* What is left of RInv to show after the consumer has moved its index.
LEMMA ShiftKeepsRInv ==
  ASSUME Sound, RInv, cons.pc # "wrap", NEW n \in 1..count, Shift(n),
         UNCHANGED <<buffer, writeIndex, prod>>,
         ret' \in Seq(Value \cup {Junk}), got' \in Seq(Value \cup {Junk})
  PROVE  RInv'
<1>1. TypeOK'
  BY ShiftFacts DEF RInv, TypeOK
<1>2. SplitInv' /\ ConsInv'
  BY ShiftFacts DEF RInv, SplitInv, ConsInv
<1>3. ProdInv'
  <2>1. count \in Nat /\ count' = count - n
    BY ShiftFacts, IndexOKAlways, CountFacts, SMT
  <2>2. ASSUME prod.pc = "copy" PROVE Len(prod.data) + count' < Capacity
    <3>1. Len(prod.data) \in Nat /\ Len(prod.data) + count < Capacity
      <4>1. prod \in [pc : {"copy"}, data : Seq(Value), done : Nat]
        BY <2>2 DEF RInv, TypeOK, Idle
      <4> QED BY <2>2, <4>1, SMT DEF RInv, ProdInv
    <3> QED BY <2>1, <3>1, SizeFacts, SMT
  <2> QED BY <2>2 DEF RInv, ProdInv, Slot
<1> QED BY <1>1, <1>2, <1>3 DEF RInv

\* A call that returns hands out the front of the queue and, unless it peeks,
\* takes it off.
LEMMA StepReadDone ==
  ASSUME Sound, RInv, ReadDone
  PROVE  /\ RInv'
         /\ cons.length \in 1..Len(queue)
         /\ got' = SubSeq(queue, 1, cons.length)
         /\ \/ queue' = queue
            \/ queue' = SubSeq(queue, cons.length + 1, Len(queue))
<1> DEFINE n == cons.length
<1>1. /\ cons.pc = "copy" /\ Len(ret) = n /\ got' = ret /\ ret' = <<>>
      /\ UNCHANGED <<buffer, writeIndex, prod>>
      /\ IF cons.withoutShift THEN cons' = Idle /\ UNCHANGED readIndex ELSE Shift(n)
  BY DEF ReadDone
<1>2. /\ n \in 1..count /\ count \in Nat /\ Len(queue) = count
      /\ queue \in Seq(Value \cup {Junk}) /\ ret \in Seq(Value \cup {Junk})
      /\ \A i \in 1..n : ret[i] = queue[i]
  BY <1>1, IndexOKAlways, CountFacts, QueueFacts, SMT DEF RInv, TypeOK, ConsInv
<1> HIDE DEF n
<1>3. got' = SubSeq(queue, 1, n)
  <2>1. SubSeq(queue, 1, n) = [i \in 1..n |-> queue[i]]
    BY <1>2, SMT
  <2>2. ret = [i \in 1..n |-> ret[i]]
    BY <1>1, <1>2, SMT
  <2> QED BY <1>1, <1>2, <2>1, <2>2
<1>4. ret' \in Seq(Value \cup {Junk}) /\ got' \in Seq(Value \cup {Junk})
  BY <1>1, <1>2, SMT
<1>5. CASE cons.withoutShift
  <2>1. cons' = Idle /\ UNCHANGED readIndex
    BY <1>1, <1>5
  <2>2. count' = count /\ queue' = queue
    BY <1>1, <2>1 DEF count, queue, Slot
  <2>3. TypeOK'
    BY <1>1, <1>4, <2>1 DEF RInv, TypeOK, Idle
  <2>4. SplitInv' /\ ConsInv'
    BY <1>1, <2>1 DEF RInv, SplitInv, ConsInv, Idle
  <2>5. ProdInv'
    BY <1>1, <2>1, <2>2 DEF RInv, ProdInv, Slot
  <2> QED BY <1>2, <1>3, <2>2, <2>3, <2>4, <2>5 DEF RInv, n
<1>6. CASE ~cons.withoutShift
  <2>1. Shift(n) /\ cons.pc # "wrap"
    BY <1>1, <1>6
  <2>2. queue' = SubSeq(queue, n + 1, Len(queue)) /\ RInv'
    BY <1>1, <1>2, <1>4, <2>1, ShiftFacts, ShiftKeepsRInv
  <2> QED BY <1>2, <1>3, <2>2 DEF n
<1> QED BY <1>5, <1>6

\* tryReadShift() takes the front off without handing it out.
LEMMA StepTryReadShift ==
  ASSUME Sound, RInv, tryReadShift
  PROVE  /\ RInv' /\ got' = got
         /\ \E n \in 1..Len(queue) : queue' = SubSeq(queue, n + 1, Len(queue))
<1>1. PICK n \in 1..MaxBlock : n <= count /\ Shift(n)
  BY DEF tryReadShift, Asks, Sound
<1>2. /\ cons = Idle /\ UNCHANGED <<buffer, writeIndex, prod, ret, got>>
  BY DEF tryReadShift
<1>3. cons.pc # "wrap" /\ ret' \in Seq(Value \cup {Junk}) /\ got' \in Seq(Value \cup {Junk})
  BY <1>2 DEF RInv, TypeOK, Idle
<1>4. n \in 1..count /\ Len(queue) = count
  BY <1>1, RingAssumption, QueueFacts, IndexOKAlways, CountFacts, SMT
<1>5. queue' = SubSeq(queue, n + 1, Len(queue)) /\ RInv'
  BY <1>1, <1>2, <1>3, <1>4, ShiftFacts, ShiftKeepsRInv
<1> QED BY <1>2, <1>4, <1>5

\* Wrapping the read index changes nothing either.
LEMMA StepReadWrap ==
  ASSUME Sound, RInv, ReadWrap
  PROVE  RInv' /\ queue' = queue /\ got' = got
<1>1. /\ cons.pc = "wrap" /\ cons' = Idle /\ readIndex' = readIndex % Capacity
      /\ UNCHANGED <<buffer, writeIndex, prod, ret, got>>
  BY DEF ReadWrap, Wrapped
<1>2. /\ writeIndex \in Int /\ readIndex \in Int /\ count \in 0..Capacity - 1
      /\ count = Distance(Capacity, writeIndex, readIndex)
  BY IndexOKAlways, CountFacts, SizeFacts, SMT DEF IndexOK, Distance
<1>3. /\ readIndex' \in 0..Capacity - 1 /\ readIndex' \in 0..2 * Capacity - 1
      /\ readIndex' < Capacity /\ readIndex' \in Int
  BY <1>1, <1>2, SizeFacts, SMT
<1>4. TypeOK'
  BY <1>1, <1>3 DEF RInv, TypeOK, Idle
<1>5. SplitInv'
  BY <1>1 DEF RInv, SplitInv, Idle
<1>6. count' = count
  <2>1. Moved(Capacity, writeIndex, 0, writeIndex) /\ Moved(Capacity, readIndex, 0, readIndex')
    BY <1>1, <1>2, SizeFacts, SMT DEF Moved, Same
  <2>2. Distance(Capacity, writeIndex, readIndex) + 0 - 0 \in 0..Capacity - 1 /\ 0 \in Int
    BY <1>2, SMT
  <2>3. Distance(Capacity, writeIndex, readIndex') = Distance(Capacity, writeIndex, readIndex) + 0 - 0
    BY <1>2, <1>3, <2>1, <2>2, SizeFacts, DistanceMoves
  <2>4. IndexOK'
    BY <1>4, <1>5 DEF IndexOK, TypeOK, SplitInv
  <2>5. count' = Distance(Capacity, writeIndex, readIndex')
    BY <1>1, <2>4, CountFactsNext DEF Distance
  <2> QED BY <1>2, <2>3, <2>5, SMT
<1>7. queue' = queue
  <2>1. ASSUME NEW i \in 1..count PROVE Slot(readIndex' + i - 1) = Slot(readIndex + i - 1)
    <3> DEFINE a == readIndex'  b == readIndex  x == readIndex' + i - 1  y == readIndex + i - 1
    <3>1. a \in Int /\ b \in Int /\ x \in Int /\ y \in Int /\ x - y = a - b
      BY <1>2, <1>3, SMT
    <3>2. Same(Capacity, a, b)
      BY <1>1, <1>2, <1>3, SizeFacts, SMT DEF Same
    <3> HIDE DEF a, b, x, y
    <3>3. Same(Capacity, x, y)
      BY <3>1, <3>2, SizeFacts, SameShifted
    <3> QED BY <3>3 DEF Same, Slot, x, y
  <2>2. queue' = [i \in 1..count |-> buffer[Slot(readIndex' + i - 1)]]
    BY <1>1, <1>6 DEF queue, Slot
  <2> QED BY <2>1, <2>2 DEF queue
<1>8. ProdInv' /\ ConsInv'
  BY <1>1, <1>6, <1>7 DEF RInv, ProdInv, ConsInv, Idle, Slot
<1> QED BY <1>1, <1>4, <1>5, <1>7, <1>8 DEF RInv

(***************************************************************************)
(* The theorems.                                                           *)
(***************************************************************************)
LEMMA InitRInv ==
  ASSUME Sound, Init
  PROVE  RInv /\ queue = <<>> /\ got = <<>>
<1>1. TypeOK
  BY SizeFacts, SMT DEF Init, TypeOK, Idle
<1>2. SplitInv /\ ProdInv /\ ConsInv
  BY DEF Init, SplitInv, ProdInv, ConsInv, Idle
<1>3. count = 0
  <2>1. count = (0 - 0) % Capacity
    BY <1>1, <1>2, IndexOKAlways, CountFacts DEF RInv, Init
  <2> QED BY <2>1, SizeFacts, SMT
<1>4. queue = <<>>
  BY <1>1, <1>2, <1>3, QueueFacts, EmptySeq DEF RInv
<1> QED BY <1>1, <1>2, <1>4 DEF RInv, Init

LEMMA StutterRInv ==
  ASSUME RInv, UNCHANGED vars
  PROVE  RInv' /\ queue' = queue /\ got' = got
BY DEF vars, RInv, TypeOK, SplitInv, ProdInv, ConsInv, queue, count, Slot, Idle

\* A ring whose consumer counts first keeps RInv.
THEOREM RInvAlways == ASSUME Sound PROVE Spec => []RInv
<1>1. Init => RInv
  BY InitRInv
<1>2. RInv /\ [Next]_vars => RInv'
  <2> SUFFICES ASSUME RInv, [Next]_vars PROVE RInv'
    OBVIOUS
  <2>1. CASE Producer
    BY <2>1, StepTryWrite, StepWriteElement, StepWriteShift, StepWriteWrap DEF Producer
  <2>2. CASE Consumer
    BY <2>2, StepTryRead, StepReadElement, StepReadDone, StepTryReadShift, StepReadWrap DEF Consumer
  <2>3. CASE UNCHANGED vars
    BY <2>3, StutterRInv
  <2> QED BY <2>1, <2>2, <2>3 DEF Next
<1> QED BY <1>1, <1>2, PTL DEF Spec

\* Every variable keeps its type, and an index leaves the ring only until its
\* thread wraps it (tryWrite, tryRead, tryReadShift).
THEOREM RingTypeCorrect == ASSUME Sound PROVE Spec => []TypeOK
<1>1. RInv => TypeOK
  BY DEF RInv
<1> QED BY <1>1, RInvAlways, PTL

\* The producer never copies into a slot that is stored for the consumer.
THEOREM StoredNeverOverwritten == ASSUME Sound PROVE Spec => []NeverOverwritesStored
<1>1. ASSUME RInv PROVE NeverOverwritesStored
  <2>1. /\ count = (writeIndex - readIndex) % Capacity /\ count \in 0..Capacity - 1
        /\ writeIndex \in Int /\ readIndex \in Int
    BY <1>1, IndexOKAlways, CountFacts, SizeFacts, SMT DEF IndexOK
  <2>2. CASE prod.pc = "copy"
    <3>1. Len(prod.data) \in Nat /\ Len(prod.data) + count < Capacity
      <4>1. prod \in [pc : {"copy"}, data : Seq(Value), done : Nat]
        BY <1>1, <2>2 DEF RInv, TypeOK, Idle
      <4> QED BY <1>1, <2>2, <4>1, SMT DEF RInv, ProdInv
    <3>2. ASSUME NEW i \in 0..count - 1, NEW j \in 0..Len(prod.data) - 1
          PROVE  Slot(writeIndex + j) # Slot(readIndex + i)
      <4>1. i \in Int /\ j \in Int /\ count + j - i \in 1..Capacity - 1
        BY <2>1, <3>1, SizeFacts, SMT
      <4>2. ((writeIndex - readIndex) % Capacity) + j - i \in 1..Capacity - 1
        BY <2>1, <4>1
      <4> QED BY <2>1, <4>1, <4>2, SizeFacts, SlotsApart
    <3> QED BY <2>2, <3>2 DEF NeverOverwritesStored, Stored, Filling
  <2>3. CASE prod.pc # "copy"
    BY <2>3 DEF NeverOverwritesStored, Filling
  <2> QED BY <2>2, <2>3
<1> QED BY <1>1, RInvAlways, PTL

\* The ring implements the FIFO: a block is appended by the store to
\* _writeIndex, taken by the store to _readIndex, and every other step of
\* either thread leaves the queue alone.
THEOREM RingImplementsFifo == ASSUME Sound PROVE Spec => RefinesFifo
<1>1. Init => Fifo!Init
  BY InitRInv DEF Fifo!Init
<1>2. RInv /\ [Next]_vars => [Fifo!Next]_<<queue, got>>
  <2> SUFFICES ASSUME RInv, [Next]_vars
               PROVE  Fifo!Next \/ (queue' = queue /\ got' = got)
    OBVIOUS
  <2>1. CASE WriteShift
    <3>1. /\ prod.data \in Seq(Value) /\ Len(prod.data) \in 1..Capacity - 1 - Len(queue)
          /\ queue' = queue \o prod.data /\ got' = got
      BY <2>1, StepWriteShift
    <3>2. prod.data \in [1..Len(prod.data) -> Value]
      BY <3>1, SMT
    <3>3. Fifo!Put
      BY <3>1, <3>2 DEF Fifo!Put, Fifo!Block
    <3> QED BY <3>3 DEF Fifo!Next
  <2>2. CASE ReadDone
    <3>1. /\ cons.length \in 1..Len(queue) /\ got' = SubSeq(queue, 1, cons.length)
          /\ \/ queue' = queue
             \/ queue' = SubSeq(queue, cons.length + 1, Len(queue))
      BY <2>2, StepReadDone
    <3>2. Fifo!Take \/ Fifo!Peek
      BY <3>1 DEF Fifo!Take, Fifo!Peek, Fifo!Front, Fifo!Behind
    <3> QED BY <3>2 DEF Fifo!Next
  <2>3. CASE tryReadShift
    <3>1. Fifo!Skip
      BY <2>3, StepTryReadShift DEF Fifo!Skip, Fifo!Behind
    <3> QED BY <3>1 DEF Fifo!Next
  <2>4. CASE tryWrite \/ WriteElement \/ WriteWrap
    BY <2>4, StepTryWrite, StepWriteElement, StepWriteWrap
  <2>5. CASE tryRead \/ ReadElement \/ ReadWrap
    BY <2>5, StepTryRead, StepReadElement, StepReadWrap
  <2>6. CASE UNCHANGED vars
    BY <2>6, StutterRInv
  <2> QED BY <2>1, <2>2, <2>3, <2>4, <2>5, <2>6 DEF Next, Producer, Consumer
<1> QED BY <1>1, <1>2, RInvAlways, PTL DEF Spec, RefinesFifo, Fifo!Spec

=============================================================================
