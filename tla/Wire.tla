-------------------------------- MODULE Wire --------------------------------
(***************************************************************************)
(* The frame both programs and the client exchange (protocol.hpp): a head  *)
(* of eleven octets, as GCC packs it, and up to 65535 octets of data, with *)
(* the one's complement mask over both (proto_mask.hpp).                   *)
(*                                                                         *)
(* A frame is a record [len, mask, cmd, seq, sum].  The sum stands for its *)
(* data: the total of the 16-bit words that mask_off_32() makes of it, and *)
(* all that the mask depends on.                                           *)
(***************************************************************************)
EXTENDS Integers

Word == {n \in Nat : n <= 65535}

FrameKey == 46
AuthenticationAAA == 32398
RoutingTransparent == 32400

Low(w) == w % 256
High(w) == w \div 256

\* The octets of a protocol_head in memory, on a little-endian machine; the top
\* bit of cmd is the compressed flag, which no sender sets.
HeadOctets(f) ==
  <<FrameKey, Low(f.len), High(f.len), Low(f.mask), High(f.mask),
    Low(f.cmd), High(f.cmd),
    f.seq % 256, (f.seq \div 256) % 256, (f.seq \div 65536) % 256, f.seq \div (65536 * 256)>>

\* The words of the head in network order, the odd last octet as a high one.
HeadSum(f) ==
  LET h == HeadOctets(f) IN
    256 * (h[1] + h[3] + h[5] + h[7] + h[9] + h[11]) + h[2] + h[4] + h[6] + h[8] + h[10]

\* Adding the deferred carry; the second time it changes nothing unless the
\* first has left a carry.
Carry(acc) == (acc \div 65536) + (acc % 65536)
Fold(acc) == Carry(Carry(acc))

get_mask(f) == 65535 - (Fold(Fold(HeadSum(f)) + f.sum) % 65536)

\* get_a_head() with a mask of 0, and the mask filled in.
Wrap(len, cmd, seq, sum) ==
  LET f == [len |-> len, mask |-> 0, cmd |-> cmd, seq |-> seq, sum |-> sum]
  IN  [f EXCEPT !.mask = get_mask(f)]

\* What each receiver tests before it looks at a frame.
Verifies(f) == get_mask(f) = 0

=============================================================================
