----------------------------- MODULE RingBuffer -----------------------------
(***************************************************************************)
(* parallel_core::RingBuffer (RingBuffer.h): a ring of Capacity slots that *)
(* one producer thread and one consumer thread use without a lock.  Every  *)
(* element copied and every store to an index is a step of its own.  An     *)
(* index is plain: a build may store it between "+= length" and            *)
(* "%= _capacity", or only the result of both (SplitStores allows either). *)
(*                                                                         *)
(* That the other thread sees the stores in program order is assumed (no   *)
(* barrier in the code asks for it), which is what x86 gives and what char *)
(* elements, which may alias the indices, keep the compiler to.            *)
(***************************************************************************)
EXTENDS Integers, Sequences

CONSTANTS
  Value,        \* what a slot may hold once written
  Junk,         \* what malloc leaves in a slot
  Capacity,     \* _capacity
  Word,         \* 2^w of size_t
  MaxBlock,     \* bound: elements of one call
  Counted,      \* the consumer asks for no more than count() says is stored
  SplitStores   \* the build may store an index before it is wrapped

ASSUME RingAssumption ==
  /\ Capacity \in Nat \ {0} /\ Word \in Nat /\ Word >= 2 * Capacity
  /\ MaxBlock \in Nat \ {0}
  /\ Counted \in BOOLEAN /\ SplitStores \in BOOLEAN
ASSUME JunkAssumption == Junk \notin Value

VARIABLES
  buffer,      \* _buffer
  readIndex,   \* _readIndex
  writeIndex,  \* _writeIndex
  prod,        \* the producer's call: where it is, its block, elements copied
  cons,        \* the consumer's call: where it is, its length, whether it peeks
  ret,         \* what the consumer's call has copied out so far
  got          \* the last block the consumer was handed

vars == <<buffer, readIndex, writeIndex, prod, cons, ret, got>>

Slot(i) == i % Capacity

\* count(), full(), empty(): computed in size_t.
count == ((writeIndex - readIndex + Capacity) % Word) % Capacity
full(add) == count + add >= Capacity
empty(del) == (count - del) % Word = 0

Idle == [pc |-> "idle"]

\* The two tests of tryWrite().  The wrong variant makes the first only.
W_HasRoom(length) == ~full(0)
HasRoom(length) == ~full(0) /\ length + count < Capacity

tryWrite ==
  /\ prod = Idle
  /\ \E n \in 1..MaxBlock : \E data \in [1..n -> Value] :
       HasRoom(n) /\ prod' = [pc |-> "copy", data |-> data, done |-> 0]
  /\ UNCHANGED <<buffer, readIndex, writeIndex, cons, ret, got>>

WriteElement ==
  /\ prod.pc = "copy" /\ prod.done < Len(prod.data)
  /\ buffer' = [buffer EXCEPT ![Slot(writeIndex + prod.done)] = prod.data[prod.done + 1]]
  /\ prod' = [prod EXCEPT !.done = @ + 1]
  /\ UNCHANGED <<readIndex, writeIndex, cons, ret, got>>

\* "%= _capacity"; in the wrong variant it is forgotten.
W_Wrapped(i) == i
Wrapped(i) == i % Capacity

\* "_writeIndex += length", with the wrap behind it or without.
WriteShift ==
  /\ prod.pc = "copy" /\ prod.done = Len(prod.data)
  /\ LET next == (writeIndex + Len(prod.data)) % Word IN
       \/ SplitStores /\ writeIndex' = next /\ prod' = [pc |-> "wrap"]
       \/ writeIndex' = Wrapped(next) /\ prod' = Idle
  /\ UNCHANGED <<buffer, readIndex, cons, ret, got>>

WriteWrap ==
  /\ prod.pc = "wrap"
  /\ writeIndex' = Wrapped(writeIndex)
  /\ prod' = Idle
  /\ UNCHANGED <<buffer, readIndex, cons, ret, got>>

\* A consumer that counts first.
Asks(n) == Counted => n <= count

\* tryRead() itself tests for an empty ring only, not for length elements.
tryRead ==
  /\ cons = Idle
  /\ \E n \in 1..MaxBlock, withoutShift \in BOOLEAN :
       /\ Asks(n) /\ ~empty(0)
       /\ cons' = [pc |-> "copy", length |-> n, withoutShift |-> withoutShift]
  /\ ret' = <<>>
  /\ UNCHANGED <<buffer, readIndex, writeIndex, prod, got>>

ReadElement ==
  /\ cons.pc = "copy" /\ Len(ret) < cons.length
  /\ ret' = Append(ret, buffer[Slot(readIndex + Len(ret))])
  /\ UNCHANGED <<buffer, readIndex, writeIndex, prod, cons, got>>

\* "_readIndex += n", with the wrap behind it or without.
Shift(n) ==
  LET next == (readIndex + n) % Word IN
    \/ SplitStores /\ readIndex' = next /\ cons' = [pc |-> "wrap"]
    \/ readIndex' = Wrapped(next) /\ cons' = Idle

ReadDone ==
  /\ cons.pc = "copy" /\ Len(ret) = cons.length
  /\ got' = ret /\ ret' = <<>>
  /\ IF cons.withoutShift THEN cons' = Idle /\ UNCHANGED readIndex
     ELSE Shift(cons.length)
  /\ UNCHANGED <<buffer, writeIndex, prod>>

tryReadShift ==
  /\ cons = Idle
  /\ \E n \in 1..MaxBlock : Asks(n) /\ ~empty(n) /\ Shift(n)
  /\ UNCHANGED <<buffer, writeIndex, prod, ret, got>>

ReadWrap ==
  /\ cons.pc = "wrap"
  /\ readIndex' = Wrapped(readIndex)
  /\ cons' = Idle
  /\ UNCHANGED <<buffer, writeIndex, prod, ret, got>>

Init ==
  /\ buffer = [i \in 0..Capacity - 1 |-> Junk]
  /\ readIndex = 0 /\ writeIndex = 0
  /\ prod = Idle /\ cons = Idle
  /\ ret = <<>> /\ got = <<>>

Producer == tryWrite \/ WriteElement \/ WriteShift \/ WriteWrap
Consumer == tryRead \/ ReadElement \/ ReadDone \/ tryReadShift \/ ReadWrap
Next == Producer \/ Consumer

Spec == Init /\ [][Next]_vars

(***************************************************************************)
(* Properties.                                                             *)
(***************************************************************************)
\* Every variable keeps its type; an index leaves the ring only until its
\* thread wraps it.
TypeOK ==
  /\ buffer \in [0..Capacity - 1 -> Value \cup {Junk}]
  /\ readIndex \in 0..2 * Capacity - 1 /\ writeIndex \in 0..2 * Capacity - 1
  /\ prod \in {Idle, [pc |-> "wrap"]}
       \cup [pc : {"copy"}, data : Seq(Value), done : Nat]
  /\ cons \in {Idle, [pc |-> "wrap"]}
       \cup [pc : {"copy"}, length : Nat, withoutShift : BOOLEAN]
  /\ ret \in Seq(Value \cup {Junk}) /\ got \in Seq(Value \cup {Junk})
  /\ prod.pc # "wrap" => writeIndex < Capacity
  /\ cons.pc # "wrap" => readIndex < Capacity

\* The slots stored for the consumer, and those the producer is filling.
Stored == {Slot(readIndex + i) : i \in 0..count - 1}
Filling ==
  IF prod.pc = "copy" THEN {Slot(writeIndex + i) : i \in 0..Len(prod.data) - 1} ELSE {}

\* The producer never copies into a slot the consumer may be copying from,
\* whatever either did since the producer tested for room.
NeverOverwritesStored == Stored \cap Filling = {}

\* The ring is the FIFO of SpscFifo: no element lost, doubled, reordered or
\* read before it was written.  A block is stored when _writeIndex moves and
\* taken when _readIndex moves.
queue == [i \in 1..count |-> buffer[Slot(readIndex + i - 1)]]
Fifo == INSTANCE SpscFifo WITH queue <- queue, got <- got
RefinesFifo == Fifo!Spec

=============================================================================
