------------------------------ MODULE SpscFifo ------------------------------
(***************************************************************************)
(* What parallel_core::RingBuffer promises its one producer and its one    *)
(* consumer ("consumer & producer are single, lock-free queue",            *)
(* RingBuffer.h:10): a bounded FIFO to which whole blocks are appended     *)
(* atomically and from whose front blocks are taken, looked at or skipped. *)
(***************************************************************************)
EXTENDS Naturals, Sequences

CONSTANTS Value, Capacity

VARIABLES
  queue,   \* the elements stored, oldest first
  got      \* the block handed to the consumer last

Block(n) == [1..n -> Value]
Front(n) == SubSeq(queue, 1, n)
Behind(n) == SubSeq(queue, n + 1, Len(queue))

Init == queue = <<>> /\ got = <<>>

\* One slot always stays free.
Put ==
  /\ \E n \in 1..Capacity - 1 - Len(queue) :
       \E block \in Block(n) : queue' = queue \o block
  /\ UNCHANGED got

Take == \E n \in 1..Len(queue) : got' = Front(n) /\ queue' = Behind(n)

Peek == \E n \in 1..Len(queue) : got' = Front(n) /\ UNCHANGED queue

Skip == \E n \in 1..Len(queue) : queue' = Behind(n) /\ UNCHANGED got

Next == Put \/ Take \/ Peek \/ Skip

Spec == Init /\ [][Next]_<<queue, got>>

=============================================================================
