--------------------------- MODULE MessageStorage ---------------------------
(***************************************************************************)
(* The storage between a session's strand, whose logic stores messages     *)
(* (try_copy_to_storage), and the application thread that picks them       *)
(* (pick_msg).  The reader "server" is active_server_session_mgr with          *)
(* active_server_session_logic; "inner" is inner_pair_session with         *)
(* inner_session_logic.                                                    *)
(*                                                                         *)
(* The ring buffer between them is the FIFO of SpscFifo, which RingBuffer  *)
(* implements as long as its consumer takes no more than is stored; taking *)
(* more is the fault "overread", behind which nothing is modelled.  Every  *)
(* tryWrite and tryRead is one step.  Sizes are counted in units of the    *)
(* 2 bytes of the length field.  A record is its fields and its data; each *)
(* unit knows the message, the part of it that it belongs to and the       *)
(* length of the message's data.                                           *)
(***************************************************************************)
EXTENDS Integers, Sequences

CONSTANTS
  Readers,     \* the pairs of classes: "server", "inner"
  Capacity,    \* units of the ring buffer
  MaxData,     \* bound: units of data of one message
  MaxMsgs      \* bound: messages stored, and messages picked

ASSUME ReaderAssumption == Readers # {} /\ Readers \subseteq {"server", "inner"}
ASSUME StorageAssumption ==
  Capacity \in Nat \ {0} /\ MaxData \in Nat \ {0} /\ MaxMsgs \in Nat

VARIABLES
  reader,    \* the pair that is running
  storage,   \* units stored, oldest first
  lens,      \* lens[m] is the data length of the m-th message accepted
  part,      \* part of the last message the strand writes next; 0: none
  dropped,   \* a tryWrite of an accepted message failed
  pc,        \* where pick_msg() is
  uid, len,  \* _already_read_uid and _already_read_length, or the head read;
             \* len = -1: _already_read_head is null
  picks,     \* messages pick_msg() has copied to its caller
  picked,    \* the last of them
  blind,     \* history: a head was read when nothing was stored
  overread   \* a tryRead took more than was stored

vars ==
  <<reader, storage, lens, part, dropped, pc, uid, len, picks, picked, blind, overread>>

\* id(4) cmd(2) length(2), or the protocol_head that inner_session_logic copies
\* in one piece; the data follows.
Fields == IF reader = "server" THEN <<2, 1, 1>> ELSE <<3>>
HeadSize == IF reader = "server" THEN 4 ELSE 3
DataPart == Len(Fields) + 1

\* A message the inner logic lets through is not empty; one for a game server
\* may consist of its uid alone.
DataLengths == IF reader = "server" THEN 0..MaxData ELSE 1..MaxData

count == Len(storage)
full(add) == count + add >= Capacity
\* size_t: count - del <= 0 says that they are equal.
empty(del) == count = del

Unit(m, p) == [msg |-> m, part |-> p, len |-> lens[m]]
Units(m, p) ==
  [i \in 1..(IF p = DataPart THEN lens[m] ELSE Fields[p]) |-> Unit(m, p)]

(***************************************************************************)
(* The strand.                                                             *)
(***************************************************************************)
\* The wrong variant forgets the head.
W_SpaceFor(length) == ~full(length)
SpaceFor(length) == ~full(HeadSize + length)

\* try_copy_to_storage(): one test, then a tryWrite for each part, whose
\* results nobody looks at.  A full storage changes nothing.  In the wrong
\* variant the parts never end.
try_copy_to_storage ==
  /\ ~overread /\ part = 0 /\ Len(lens) < MaxMsgs
  /\ \E k \in DataLengths : SpaceFor(k) /\ lens' = Append(lens, k)
  /\ part' = 1
  /\ UNCHANGED <<reader, storage, dropped, pc, uid, len, picks, picked, blind, overread>>

W_NextPart == part + 1
NextPart == IF part = DataPart THEN 0 ELSE part + 1

WritePart ==
  /\ ~overread /\ part # 0
  /\ LET block == Units(Len(lens), part)
         fails == full(0) \/ Len(block) + count >= Capacity
     IN  /\ storage' = IF fails THEN storage ELSE storage \o block
         /\ dropped' = (dropped \/ fails)
  /\ part' = NextPart
  /\ UNCHANGED <<reader, lens, pc, uid, len, picks, picked, blind, overread>>

(***************************************************************************)
(* The application's thread.                                               *)
(***************************************************************************)
Garbage == 0..MaxData + 1

\* A tryRead of n units that wants part p of a message: it reads nothing from
\* an empty ring, and garbage when what it reads is not that part.
Overreads(n) == count # 0 /\ n > count
Taken(n) == SubSeq(storage, 1, n)
IsPart(units, p) ==
  units # <<>> /\ \A i \in 1..Len(units) : units[i] = units[1] /\ units[i].part = p

\* The next part is read into v', where clean(u) is the value of a clean read.
TakeField(p, next) ==
  LET n == Fields[p]
  IN  IF Overreads(n) THEN overread' = TRUE /\ UNCHANGED <<storage, pc>>
      ELSE /\ storage' = IF count = 0 THEN storage ELSE SubSeq(storage, n + 1, count)
           /\ pc' = next
           /\ UNCHANGED overread

Clean(p) == count >= Fields[p] /\ IsPart(Taken(Fields[p]), p)

\* The application calls, whatever is stored; the head is read unless it has
\* been read already.  An empty ring passes the test.
HeadKnown == IF reader = "server" THEN len = 0 ELSE len # -1

pick_msg ==
  /\ pc = "idle" /\ picks < MaxMsgs /\ ~overread
  /\ pc' = IF HeadKnown THEN "body" ELSE IF empty(HeadSize) THEN "idle" ELSE "head"
  /\ UNCHANGED <<reader, storage, lens, part, dropped, uid, len, picks, picked, blind, overread>>

\* _already_read_uid, or the whole head of an inner message.
ReadFirstField ==
  /\ pc = "head" /\ ~overread
  /\ TakeField(1, IF reader = "server" THEN "cmd" ELSE "body")
  /\ uid' = IF Clean(1) THEN storage[1].msg ELSE 0
  /\ IF reader = "server" THEN UNCHANGED len
     ELSE len' \in IF Clean(1) THEN {storage[1].len} ELSE Garbage
  /\ blind' = (blind \/ count = 0)
  /\ UNCHANGED <<reader, lens, part, dropped, picks, picked>>

ReadCmd ==
  /\ pc = "cmd" /\ ~overread
  /\ TakeField(2, "len")
  /\ UNCHANGED <<reader, lens, part, dropped, uid, len, picks, picked, blind>>

ReadLength ==
  /\ pc = "len" /\ ~overread
  /\ TakeField(3, "body")
  /\ len' \in IF Clean(3) THEN {storage[1].len} ELSE Garbage
  /\ UNCHANGED <<reader, lens, part, dropped, uid, picks, picked, blind>>

\* pick_msg() returns false and keeps what it knows of the head.
BodyMissing == IF reader = "server" THEN empty(len) ELSE count = 0

ReturnFalse ==
  /\ pc = "body" /\ ~overread /\ BodyMissing
  /\ pc' = "idle"
  /\ UNCHANGED <<reader, storage, lens, part, dropped, uid, len, picks, picked, blind, overread>>

\* The head is forgotten with the message; in the wrong variant it is kept.
W_NoHead == len
NoHead == IF reader = "server" THEN 0 ELSE -1

\* The inner pair's pick_msg() returns false here too: its application has the
\* data, and cannot tell it from nothing.
ReadBody ==
  /\ pc = "body" /\ ~overread /\ ~BodyMissing
  /\ IF Overreads(len) THEN overread' = TRUE /\ UNCHANGED <<storage, pc, uid, len, picks, picked>>
     ELSE /\ picked' = [uid |-> uid, data |-> IF count = 0 THEN <<>> ELSE Taken(len)]
          /\ storage' = IF count = 0 THEN storage ELSE SubSeq(storage, len + 1, count)
          /\ picks' = picks + 1
          /\ pc' = "idle" /\ uid' = 0
          /\ len' = NoHead
          /\ UNCHANGED overread
  /\ UNCHANGED <<reader, lens, part, dropped, blind>>

\* The server manager's constructor leaves _already_read_length as it is.
Init ==
  /\ reader \in Readers
  /\ storage = <<>> /\ lens = <<>> /\ part = 0 /\ dropped = FALSE
  /\ pc = "idle" /\ uid = 0
  /\ len \in IF reader = "server" THEN Garbage ELSE {-1}
  /\ picks = 0 /\ picked = [uid |-> 0, data |-> <<>>]
  /\ blind = FALSE /\ overread = FALSE

Strand == try_copy_to_storage \/ WritePart
Application ==
  \/ pick_msg \/ ReadFirstField \/ ReadCmd \/ ReadLength \/ ReturnFalse \/ ReadBody
Next == Strand \/ Application

Spec == Init /\ [][Next]_vars

(***************************************************************************)
(* Properties.                                                             *)
(***************************************************************************)
\* Every variable keeps its type.
TypeOK ==
  /\ reader \in Readers
  /\ lens \in Seq(0..MaxData)
  /\ storage \in Seq([msg : 1..MaxMsgs, part : 1..DataPart, len : 0..MaxData])
  /\ part \in 0..DataPart /\ dropped \in BOOLEAN /\ blind \in BOOLEAN /\ overread \in BOOLEAN
  /\ pc \in {"idle", "head", "cmd", "len", "body"}
  /\ uid \in 0..MaxMsgs /\ len \in {-1} \cup Garbage
  /\ picks \in 0..MaxMsgs

\* A message is stored whole or not at all: once try_copy_to_storage() has
\* found room for it, none of its tryWrites fails, wherever the consumer is.
StoredWhole == ~dropped

\* What pick_msg() has copied last is the next message that was stored, with the
\* uid and the data it was stored with.
PickedIsNextStored ==
  picks > 0 =>
    /\ picks <= Len(lens)
    /\ picked = [uid |-> picks, data |-> Units(picks, DataPart)]

\* The inner pair takes message by message, and never units that are not stored,
\* until a head is read when nothing is stored.  Whatever else comes between its
\* steps does no harm: a poll while only the head is stored, a head that comes
\* between the test, which it would have failed, and the read, a poll that finds
\* the head without the data and leaves them to the next one.
TornOnlyIfBlind == reader = "inner" /\ ~blind => PickedIsNextStored /\ ~overread

=============================================================================
