-------------------------- MODULE ServerLinkProofs --------------------------
(***************************************************************************)
(* Proofs about the link of a game server to the proxy, for any number of  *)
(* threads, any width of the sequence numbers and any data.                *)
(***************************************************************************)
EXTENDS ServerLink, SequenceTheorems, FiniteSetTheorems, TLAPS

(***************************************************************************)
(* What the mask of a frame is good for, for every frame.                  *)
(***************************************************************************)
Sequence == {n \in Nat : n < 65536 * 65536}

\* The longest data have 32768 words of at most 65535 each, so that no sum
\* leaves its 32 bits.
DataSum == {n \in Nat : n <= 32768 * 65535}
\* A command takes the lower 15 bits of its word, the compressed flag the top one.
Frame == [len : Word, mask : Word, cmd : Word, seq : Sequence, sum : DataSum]

\* The head of a frame without its mask, and the sum of head and data.
Bare(f) == HeadSum([f EXCEPT !.mask = 0])
Total(f) == HeadSum(f) + f.sum

(***************************************************************************)
(* Carries change a sum by a multiple of 65535 and leave one word, which   *)
(* is zero for zero only.                                                  *)
(***************************************************************************)
LEMMA CarryOnce ==
  ASSUME NEW acc \in Nat
  PROVE  /\ Carry(acc) \in Nat
         /\ acc = Carry(acc) + 65535 * (acc \div 65536)
         /\ acc \div 65536 \in Nat
         /\ acc > 0 => Carry(acc) > 0
         /\ acc < 65536 => Carry(acc) = acc
  BY SMT DEF Carry

LEMMA CarryBound ==
  ASSUME NEW acc \in Nat
  PROVE  /\ acc <= 32770 * 65535 => Carry(acc) <= 98304
         /\ acc <= 98304 => Carry(acc) <= 65535
  BY SMT DEF Carry

LEMMA FoldWord ==
  ASSUME NEW acc \in Nat, acc <= 32770 * 65535
  PROVE  /\ Fold(acc) \in Word
         /\ acc > 0 => Fold(acc) > 0
         /\ \E k \in Nat : acc = Fold(acc) + 65535 * k
<1>1. PICK c \in Nat : c = Carry(acc)
  BY CarryOnce
<1>2. PICK k \in Nat : acc = c + 65535 * k
  BY SMT, CarryOnce, <1>1
<1>3. PICK d \in Nat : d = Carry(c)
  BY CarryOnce
<1>4. PICK l \in Nat : c = d + 65535 * l
  BY SMT, CarryOnce, <1>3
<1>5. d = Fold(acc)
  BY <1>1, <1>3 DEF Fold
<1>6. d <= 65535
  BY SMT, CarryBound, <1>1, <1>3
<1>7. acc > 0 => d > 0
  BY SMT, CarryOnce, <1>1, <1>3
<1>8. PICK q \in Nat : q = k + l
  OBVIOUS
<1>9. acc = d + 65535 * q
  BY SMT, <1>2, <1>4, <1>8
<1>10. d \in Word
  BY SMT, <1>6 DEF Word
<1> QED
  BY <1>5, <1>7, <1>9, <1>10

(***************************************************************************)
(* The mask lies across two words of the head, its low octet as a low one  *)
(* and its high octet as a high one: it adds itself to the sum.            *)
(***************************************************************************)
LEMMA FrameParts ==
  ASSUME NEW f \in Frame
  PROVE  /\ f.len \in Word /\ f.mask \in Word /\ f.cmd \in Word
         /\ f.seq \in Sequence /\ f.sum \in DataSum
  BY DEF Frame

LEMMA OctetsOfWord ==
  ASSUME NEW w \in Word
  PROVE  /\ Low(w) \in Nat /\ Low(w) <= 255
         /\ High(w) \in Nat /\ High(w) <= 255
         /\ w = 256 * High(w) + Low(w)
  BY SMT DEF Word, Low, High

LEMMA OctetsOfSequence ==
  ASSUME NEW n \in Sequence
  PROVE  /\ n % 256 \in Nat /\ n % 256 <= 255
         /\ (n \div 256) % 256 \in Nat /\ (n \div 256) % 256 <= 255
         /\ (n \div 65536) % 256 \in Nat /\ (n \div 65536) % 256 <= 255
         /\ n \div (65536 * 256) \in Nat /\ n \div (65536 * 256) <= 255
  BY SMT DEF Sequence

LEMMA HeadSumIs ==
  ASSUME NEW f
  PROVE  HeadSum(f) =
           256 * (FrameKey + High(f.len) + High(f.mask) + High(f.cmd)
                    + ((f.seq \div 256) % 256) + (f.seq \div (65536 * 256)))
             + Low(f.len) + Low(f.mask) + Low(f.cmd)
             + (f.seq % 256) + ((f.seq \div 65536) % 256)
  BY SMT DEF HeadSum, HeadOctets

LEMMA MaskAdds ==
  ASSUME NEW f \in Frame
  PROVE  /\ HeadSum(f) = Bare(f) + f.mask
         /\ Bare(f) \in Nat /\ Bare(f) > 0 /\ Bare(f) <= 300000
<1>1. f.len \in Word /\ f.mask \in Word /\ f.cmd \in Word /\ f.seq \in Sequence
  BY FrameParts
<1>2. PICK l1 \in Nat, l2 \in Nat : l1 = Low(f.len) /\ l2 = High(f.len) /\ l1 <= 255 /\ l2 <= 255
  BY <1>1, OctetsOfWord
<1>3. PICK c1 \in Nat, c2 \in Nat : c1 = Low(f.cmd) /\ c2 = High(f.cmd) /\ c1 <= 255 /\ c2 <= 255
  BY <1>1, OctetsOfWord
<1>4. PICK m1 \in Nat, m2 \in Nat : m1 = Low(f.mask) /\ m2 = High(f.mask)
  BY <1>1, OctetsOfWord
<1>5. PICK s0 \in Nat, s1 \in Nat, s2 \in Nat, s3 \in Nat :
        /\ s0 = f.seq % 256 /\ s1 = (f.seq \div 256) % 256
        /\ s2 = (f.seq \div 65536) % 256 /\ s3 = f.seq \div (65536 * 256)
        /\ s0 <= 255 /\ s1 <= 255 /\ s2 <= 255 /\ s3 <= 255
  BY <1>1, OctetsOfSequence
<1>6. HeadSum(f) = 256 * (FrameKey + l2 + m2 + c2 + s1 + s3) + l1 + m1 + c1 + s0 + s2
  BY HeadSumIs, <1>2, <1>3, <1>4, <1>5
<1>7. Bare(f) = 256 * (FrameKey + l2 + 0 + c2 + s1 + s3) + l1 + 0 + c1 + s0 + s2
  <2>1. PICK z : z = [f EXCEPT !.mask = 0]
    OBVIOUS
  <2>2. z.len = f.len /\ z.cmd = f.cmd /\ z.seq = f.seq /\ z.mask = 0
    BY <2>1 DEF Frame
  <2>3. Low(0) = 0 /\ High(0) = 0
    BY SMT DEF Low, High
  <2>4. HeadSum(z) = 256 * (FrameKey + l2 + 0 + c2 + s1 + s3) + l1 + 0 + c1 + s0 + s2
    BY HeadSumIs, <1>2, <1>3, <1>5, <2>2, <2>3
  <2> QED
    BY <2>1, <2>4 DEF Bare
<1>8. f.mask = 256 * m2 + m1
  BY <1>1, <1>4, OctetsOfWord
<1>9. PICK rest : rest = 256 * (FrameKey + l2 + 0 + c2 + s1 + s3) + l1 + 0 + c1 + s0 + s2
  OBVIOUS
<1>10. /\ 256 * (FrameKey + l2 + m2 + c2 + s1 + s3) + l1 + m1 + c1 + s0 + s2
            = rest + (256 * m2 + m1)
       /\ rest \in Nat /\ rest > 0 /\ rest <= 300000
  BY SMT, <1>2, <1>3, <1>5, <1>9 DEF FrameKey
<1>11. HeadSum(f) = rest + f.mask /\ Bare(f) = rest
  BY <1>6, <1>7, <1>8, <1>9, <1>10
<1> QED
  BY <1>10, <1>11

(***************************************************************************)
(* get_mask() is the rest to 65535 of the sum, modulo 65535.               *)
(***************************************************************************)
LEMMA MaskOfSum ==
  ASSUME NEW f \in Frame
  PROVE  /\ get_mask(f) \in Nat /\ get_mask(f) <= 65534
         /\ Total(f) \in Nat
         /\ \E k \in Int : Total(f) = 65535 - get_mask(f) + 65535 * k
<1>1. /\ f.sum \in Nat /\ f.sum <= 32768 * 65535
      /\ f.mask \in Nat /\ f.mask <= 65535
  BY SMT, FrameParts DEF DataSum, Word
<1>2. PICK h \in Nat : h = HeadSum(f) /\ h > 0 /\ h <= 400000
  BY SMT, MaskAdds, <1>1
<1>3. PICK u \in Nat : u = Fold(h) /\ u > 0 /\ u <= 65535
  BY SMT, <1>2, FoldWord DEF Word
<1>4. PICK a \in Nat : h = u + 65535 * a
  BY SMT, <1>2, <1>3, FoldWord
<1>5. PICK t \in Nat : t = u + f.sum /\ t > 0 /\ t <= 32770 * 65535
  BY SMT, <1>1, <1>3
<1>6. PICK v \in Nat : v = Fold(t) /\ v > 0 /\ v <= 65535
  BY SMT, <1>5, FoldWord DEF Word
<1>7. PICK b \in Nat : t = v + 65535 * b
  BY SMT, <1>5, <1>6, FoldWord
<1>8. get_mask(f) = 65535 - v
  <2>1. get_mask(f) = 65535 - (v % 65536)
    BY SMT, <1>2, <1>3, <1>5, <1>6 DEF get_mask
  <2>2. v % 65536 = v
    BY SMT, <1>6
  <2> QED
    BY SMT, <2>1, <2>2
<1>9. Total(f) = v + 65535 * (a + b)
  <2>1. PICK s \in Nat : s = f.sum
    BY <1>1
  <2>2. Total(f) = h + s /\ t = u + s
    BY <1>2, <1>5, <2>1 DEF Total
  <2> QED
    BY SMT, <1>4, <1>7, <2>2
<1>10. PICK k \in Int : k = a + b
  BY SMT
<1>11. Total(f) = 65535 - get_mask(f) + 65535 * k /\ Total(f) \in Nat
  BY SMT, <1>6, <1>8, <1>9, <1>10
<1>12. get_mask(f) \in Nat /\ get_mask(f) <= 65534
  BY SMT, <1>6, <1>8
<1> QED
  BY <1>11, <1>12

LEMMA WrapIsFrame ==
  ASSUME NEW length \in Word, NEW command \in Word, NEW number \in Sequence,
         NEW data \in DataSum
  PROVE  \E f \in Frame :
           /\ f.mask = 0 /\ f.sum = data
           /\ Wrap(length, command, number, data) \in Frame
           /\ Wrap(length, command, number, data).mask = get_mask(f)
           /\ Wrap(length, command, number, data).sum = data
           /\ Bare(Wrap(length, command, number, data)) = Bare(f)
<1>1. PICK f : f = [len |-> length, mask |-> 0, cmd |-> command, seq |-> number, sum |-> data]
  OBVIOUS
<1>2. 0 \in Word
  BY SMT DEF Word
<1>3. f \in Frame /\ f.mask = 0 /\ f.sum = data
  BY <1>1, <1>2 DEF Frame
<1>4. Wrap(length, command, number, data) = [f EXCEPT !.mask = get_mask(f)]
  BY <1>1 DEF Wrap
<1>5. get_mask(f) \in Word
  BY SMT, <1>3, MaskOfSum DEF Word
<1>6. PICK w : w = [f EXCEPT !.mask = get_mask(f)]
  OBVIOUS
<1>7. w \in Frame /\ w.mask = get_mask(f) /\ w.sum = data
  BY <1>3, <1>5, <1>6 DEF Frame
<1>8. [w EXCEPT !.mask = 0] = [f EXCEPT !.mask = 0]
  BY <1>3, <1>6 DEF Frame
<1>9. Bare(w) = Bare(f)
  BY <1>8 DEF Bare
<1> QED
  BY <1>3, <1>4, <1>6, <1>7, <1>9

(***************************************************************************)
(* Every frame that wrap_to_send_data() sends passes the mask test of its  *)
(* receiver, whatever its data, its length and its sequence number.        *)
(***************************************************************************)
THEOREM HonestFramesVerify ==
  ASSUME NEW length \in Word, NEW command \in Word, NEW number \in Sequence,
         NEW data \in DataSum
  PROVE  Verifies(Wrap(length, command, number, data))
<1>1. PICK w : w = Wrap(length, command, number, data)
  OBVIOUS
<1>2. PICK f \in Frame :
        /\ f.mask = 0 /\ f.sum = data
        /\ w \in Frame /\ w.mask = get_mask(f) /\ w.sum = data
        /\ Bare(w) = Bare(f)
  BY <1>1, WrapIsFrame
<1>3. PICK m \in Nat : m = get_mask(f) /\ m <= 65534
  BY <1>2, MaskOfSum
<1>4. PICK n \in Nat : n = get_mask(w) /\ n <= 65534
  BY <1>2, MaskOfSum
<1>5. PICK k \in Int : Total(f) = 65535 - m + 65535 * k
  BY <1>2, <1>3, MaskOfSum
<1>6. PICK l \in Int : Total(w) = 65535 - n + 65535 * l
  BY <1>2, <1>4, MaskOfSum
<1>7. Total(w) = Total(f) + m
  <2>1. PICK b \in Nat : b = Bare(f)
    BY <1>2, MaskAdds
  <2>2. HeadSum(f) = b + 0 /\ HeadSum(w) = b + m
    BY <1>2, <1>3, <2>1, MaskAdds
  <2>3. data \in Nat
    BY DEF DataSum
  <2>4. Total(f) = b + 0 + data /\ Total(w) = b + m + data
    BY <1>2, <2>2 DEF Total
  <2> QED
    BY SMT, <2>3, <2>4
<1>8. n = 65535 * (l - k)
  BY SMT, <1>5, <1>6, <1>7
<1>9. n = 0
  BY SMT, <1>4, <1>8
<1> QED
  BY <1>1, <1>4, <1>9 DEF Verifies

(***************************************************************************)
(* A frame whose words sum up to another total than those of a frame that  *)
(* passes, but one less than 65535 away from it, is refused: two frames    *)
(* that both pass differ by a multiple of 65535.  One changed octet, of    *)
(* the head or of the data, moves the total by 255 times 256 at most.      *)
(***************************************************************************)
THEOREM OctetErrorsDetected ==
  ASSUME NEW f \in Frame, NEW g \in Frame, Verifies(f),
         NEW d \in Int, Total(g) = Total(f) + d,
         d # 0, d < 65535, 0 - d < 65535
  PROVE  ~Verifies(g)
<1>1. PICK k \in Int : Total(f) = 65535 - get_mask(f) + 65535 * k
  BY MaskOfSum
<1>2. PICK l \in Int : Total(g) = 65535 - get_mask(g) + 65535 * l
  BY MaskOfSum
<1>3. SUFFICES ASSUME get_mask(g) = 0 PROVE FALSE
  BY DEF Verifies
<1>4. Total(f) = 65535 + 65535 * k /\ Total(g) = 65535 + 65535 * l
  BY SMT, <1>1, <1>2, <1>3 DEF Verifies
<1>5. d = 65535 * (l - k)
  BY SMT, <1>4
<1> QED
  BY SMT, <1>5

\* The octets of a head are octets.
LEMMA HeadOctetRange ==
  ASSUME NEW f \in Frame, NEW i \in 1..11
  PROVE  HeadOctets(f)[i] \in Nat /\ HeadOctets(f)[i] <= 255
<1>1. f.len \in Word /\ f.mask \in Word /\ f.cmd \in Word /\ f.seq \in Sequence
  BY FrameParts
<1>2. /\ Low(f.len) \in Nat /\ Low(f.len) <= 255 /\ High(f.len) \in Nat /\ High(f.len) <= 255
      /\ Low(f.mask) \in Nat /\ Low(f.mask) <= 255 /\ High(f.mask) \in Nat /\ High(f.mask) <= 255
      /\ Low(f.cmd) \in Nat /\ Low(f.cmd) <= 255 /\ High(f.cmd) \in Nat /\ High(f.cmd) <= 255
  BY <1>1, OctetsOfWord
<1>3. PICK s0 \in Nat, s1 \in Nat, s2 \in Nat, s3 \in Nat :
        /\ s0 = f.seq % 256 /\ s1 = (f.seq \div 256) % 256
        /\ s2 = (f.seq \div 65536) % 256 /\ s3 = f.seq \div (65536 * 256)
        /\ s0 <= 255 /\ s1 <= 255 /\ s2 <= 255 /\ s3 <= 255
  BY <1>1, OctetsOfSequence
<1>4. HeadOctets(f) = <<FrameKey, Low(f.len), High(f.len), Low(f.mask), High(f.mask),
                        Low(f.cmd), High(f.cmd), s0, s1, s2, s3>>
  BY <1>3 DEF HeadOctets
<1>5. FrameKey \in Nat /\ FrameKey <= 255
  BY DEF FrameKey
<1> QED
  BY <1>2, <1>3, <1>4, <1>5

(***************************************************************************)
(* A frame of which one octet of the mask, of the command with its flag,   *)
(* or of the sequence number, octets 4 to 11, is changed on its way does   *)
(* not pass the mask test of its receiver.  The receiver sums up the data  *)
(* that were sent, as the length is whole.  Nothing is said of the length, *)
(* octets 2 and 3: with another one the receiver sums up other data, and   *)
(* anything may come of that.  The key, octet 1, is tested for itself.     *)
(***************************************************************************)
THEOREM HeadOctetErrorsDetected ==
  ASSUME NEW f \in Frame, NEW g \in Frame, Verifies(f), g.sum = f.sum,
         NEW i \in 4..11, HeadOctets(g)[i] # HeadOctets(f)[i],
         \A j \in 1..11 \ {i} : HeadOctets(g)[j] = HeadOctets(f)[j]
  PROVE  ~Verifies(g)
<1>1. PICK a, b : /\ a = HeadOctets(f) /\ b = HeadOctets(g)
                  /\ \A j \in 1..11 \ {i} : b[j] = a[j]
                  /\ b[i] # a[i]
  OBVIOUS
<1>2. \A j \in 1..11 : /\ a[j] \in Nat /\ a[j] <= 255
                       /\ b[j] \in Nat /\ b[j] <= 255
  BY <1>1, HeadOctetRange
<1>3. PICK D \in Int : D = b[i] - a[i]
  BY <1>1, <1>2
<1>4. D # 0 /\ D <= 255 /\ 0 - D <= 255
  BY <1>1, <1>2, <1>3
<1> DEFINE Odd(x) == x[1] + x[3] + x[5] + x[7] + x[9] + x[11]
           Even(x) == x[2] + x[4] + x[6] + x[8] + x[10]
<1>o. /\ a[1] \in Nat /\ a[2] \in Nat /\ a[3] \in Nat /\ a[4] \in Nat /\ a[5] \in Nat /\ a[6] \in Nat
      /\ a[7] \in Nat /\ a[8] \in Nat /\ a[9] \in Nat /\ a[10] \in Nat /\ a[11] \in Nat
      /\ b[1] \in Nat /\ b[2] \in Nat /\ b[3] \in Nat /\ b[4] \in Nat /\ b[5] \in Nat /\ b[6] \in Nat
      /\ b[7] \in Nat /\ b[8] \in Nat /\ b[9] \in Nat /\ b[10] \in Nat /\ b[11] \in Nat
  BY <1>2
<1>5. Odd(a) \in Nat /\ Even(a) \in Nat
  BY SMT, <1>o
<1>6. HeadSum(f) = 256 * Odd(a) + Even(a) /\ HeadSum(g) = 256 * Odd(b) + Even(b)
  <2>1. /\ HeadSum(f) = 256 * (a[1] + a[3] + a[5] + a[7] + a[9] + a[11])
                          + a[2] + a[4] + a[6] + a[8] + a[10]
        /\ HeadSum(g) = 256 * (b[1] + b[3] + b[5] + b[7] + b[9] + b[11])
                          + b[2] + b[4] + b[6] + b[8] + b[10]
    BY <1>1 DEF HeadSum
  <2>2. PICK o \in Int, p \in Int : o = Odd(a) /\ p = Odd(b)
    BY SMT, <1>o
  <2>3. HeadSum(f) = 256 * o + a[2] + a[4] + a[6] + a[8] + a[10]
    BY <2>1, <2>2
  <2>4. HeadSum(g) = 256 * p + b[2] + b[4] + b[6] + b[8] + b[10]
    BY <2>1, <2>2
  <2> HIDE DEF Odd
  <2>5. HeadSum(f) = 256 * o + Even(a)
    BY SMT, <1>o, <2>3
  <2>6. HeadSum(g) = 256 * p + Even(b)
    BY SMT, <1>o, <2>4
  <2> QED BY <2>2, <2>5, <2>6
<1>7. ASSUME NEW j \in 1..11 PROVE b[j] = IF j = i THEN a[j] + D ELSE a[j]
  BY <1>1, <1>2, <1>3
<1>8. \/ Odd(b) = Odd(a) + D /\ Even(b) = Even(a)
      \/ Odd(b) = Odd(a) /\ Even(b) = Even(a) + D
  <2>1. CASE i \in {5, 7, 9, 11}
    BY SMTT(60), <1>2, <1>7, <2>1
  <2>2. CASE i \in {4, 6, 8, 10}
    BY SMTT(60), <1>2, <1>7, <2>2
  <2> QED BY <2>1, <2>2
<1> HIDE DEF Odd, Even
<1>9. HeadSum(f) \in Nat
  BY <1>5, <1>6
<1>10. PICK d \in Int : /\ HeadSum(g) = HeadSum(f) + d
                        /\ d # 0 /\ d < 65535 /\ 0 - d < 65535
  <2>1. CASE Odd(b) = Odd(a) + D /\ Even(b) = Even(a)
    <3>1. PICK d \in Int : d = 256 * D
      OBVIOUS
    <3>2. d # 0 /\ d < 65535 /\ 0 - d < 65535
      BY SMT, <1>4, <3>1
    <3>3. HeadSum(g) = HeadSum(f) + d
      BY SMT, <1>5, <1>6, <2>1, <3>1
    <3> QED BY <3>2, <3>3
  <2>2. CASE Odd(b) = Odd(a) /\ Even(b) = Even(a) + D
    <3>1. HeadSum(g) = HeadSum(f) + D /\ D < 65535 /\ 0 - D < 65535
      BY SMT, <1>4, <1>5, <1>6, <2>2
    <3> QED BY <1>4, <3>1
  <2> QED BY <1>8, <2>1, <2>2
<1>11. Total(g) = Total(f) + d
  <2>1. f.sum \in Nat
    BY FrameParts DEF DataSum
  <2> QED BY <1>9, <1>10, <2>1 DEF Total
<1> QED
  BY <1>10, <1>11, OctetErrorsDetected

(***************************************************************************)
(* Numbers, sums and answers of the link.                                  *)
(***************************************************************************)
Answers == {"keep_alive", "EC_Success", "EC_ServerNotFound"}
Lengths == {0, RequestLen, MessageLen}
Commands == {AuthenticationAAA, RoutingTransparent}

(***************************************************************************)
(* Types.                                                                  *)
(***************************************************************************)
\* A sequence number of any width up to 32 bits is one of the wire.
LEMMA NumberIsSequence == Number \subseteq Sequence
<1>1. SeqWidth \in Nat \ {0} /\ (SeqWidth - 1) \div 65536 < 65536
  BY LinkAssumption
<1>2. SeqWidth <= 65536 * 65536
  BY SMT, <1>1
<1> QED
  BY SMT, <1>1, <1>2 DEF Number, Sequence

LEMMA IncType == ASSUME NEW n \in Number PROVE Inc(n) \in Number
<1>1. SeqWidth \in Nat \ {0}
  BY LinkAssumption
<1> QED
  BY SMT, <1>1 DEF Inc, Number

LEMMA ZeroType == 0 \in Number
<1>1. SeqWidth \in Nat \ {0}
  BY LinkAssumption
<1> QED
  BY SMT, <1>1 DEF Number

LEMMA SumType == Sums \cup {0} \subseteq DataSum
<1>1. \A s \in Sums : s \in Nat /\ s <= 32768 * 65535
  BY LinkAssumption
<1> QED
  BY SMT, <1>1 DEF DataSum

\* What wrap_to_send_data() makes is a frame, with the fields it was given.
LEMMA WrapType ==
  ASSUME NEW l \in Lengths, NEW c \in Commands, NEW s \in Number, NEW d \in Sums \cup {0}
  PROVE  /\ Wrap(l, c, s, d) \in Frames
         /\ Wrap(l, c, s, d).seq = s
         /\ Wrap(l, c, s, d).len = l /\ Wrap(l, c, s, d).cmd = c
<1>1. l \in Word
  BY SMT DEF Lengths, RequestLen, MessageLen, Word
<1>2. c \in Word
  BY SMT DEF Commands, AuthenticationAAA, RoutingTransparent, Word
<1>3. s \in Sequence /\ d \in DataSum
  BY NumberIsSequence, SumType
<1>4. PICK f : f = [len |-> l, mask |-> 0, cmd |-> c, seq |-> s, sum |-> d]
  OBVIOUS
<1>5. 0 \in Word
  BY SMT DEF Word
<1>6. f \in Frame
  BY <1>1, <1>2, <1>3, <1>4, <1>5 DEF Frame
<1>7. PICK m \in Nat : m = get_mask(f) /\ m <= 65534
  BY <1>6, MaskOfSum
<1>8. m \in Word
  BY SMT, <1>7 DEF Word
<1>9. Wrap(l, c, s, d) = [len |-> l, mask |-> m, cmd |-> c, seq |-> s, sum |-> d]
  <2>1. Wrap(l, c, s, d) = [f EXCEPT !.mask = get_mask(f)]
    BY <1>4 DEF Wrap
  <2>2. [f EXCEPT !.mask = m] = [len |-> l, mask |-> m, cmd |-> c, seq |-> s, sum |-> d]
    BY <1>4
  <2> QED
    BY <1>7, <2>1, <2>2
<1> QED
  BY <1>8, <1>9 DEF Frames, Lengths, Commands, Number

LEMMA InitType == ASSUME Init PROVE TypeOK
<1>1. 0 \in Number
  BY ZeroType
<1>2. 0 \in 0..MaxSends
  <2>1. MaxSends \in Nat
    BY LinkAssumption
  <2> QED
    BY SMT, <2>1
<1>3. <<>> \in Seq(Frames) /\ <<>> \in Seq({"keep_alive", "EC_Success", "EC_ServerNotFound"})
  BY EmptySeq, Zenon
<1>4. eager \in BOOLEAN
  BY LinkAssumption DEF Init
<1> QED
  BY <1>1, <1>2, <1>3, <1>4 DEF Init, TypeOK, Authentication, Writer

\* The step of a writer that begins keeps the types.
LEMMA BeginType ==
  ASSUME TypeOK, NEW w \in Writer, NEW l \in Lengths, Begin(w, l) PROVE TypeOK'
<1>1. Command \in Commands /\ "wrap" \in {"idle", "connected", "wrap", "loaded", "stored"}
  BY DEF Command, Commands
<1>2. sent' \in 0..MaxSends
  <2>1. sent < MaxSends /\ sent' = sent + 1 /\ sent \in 0..MaxSends
    BY DEF Begin, TypeOK
  <2>2. MaxSends \in Nat
    BY LinkAssumption
  <2> QED
    BY SMT, <2>1, <2>2
<1>3. UNCHANGED <<old, new, eager, state, gSeq, gAuth, lost, up, back, logic, pSeq, pAuth, kicked, refused>>
  BY DEF Begin, game, proxy
<1>4. pc' \in [Writer -> {"idle", "connected", "wrap", "loaded", "stored"}]
  BY <1>1 DEF Begin, TypeOK
<1>5. len' \in [Writer -> {0, RequestLen, MessageLen}]
  BY DEF Begin, TypeOK, Lengths
<1>6. cmd' \in [Writer -> {AuthenticationAAA, RoutingTransparent}]
  BY <1>1 DEF Begin, TypeOK, Commands
<1>7. raced' \in BOOLEAN
  BY DEF Begin, TypeOK
<1> QED
  BY <1>2, <1>3, <1>4, <1>5, <1>6, <1>7 DEF TypeOK

\* Every step keeps the types.
LEMMA StepType == TypeOK /\ [Next]_vars => TypeOK'
<1> SUFFICES ASSUME TypeOK, [Next]_vars PROVE TypeOK'
  OBVIOUS
<1> USE DEF Authentication
<1>1. CASE Connected
  <2>1. pc' \in [Writer -> {"idle", "connected", "wrap", "loaded", "stored"}]
    BY <1>1 DEF Connected, TypeOK
  <2>2. state' \in {"WAIT_CONNECT", "CONNECTING", "CLOSE_DONE"}
    BY <1>1 DEF Connected
  <2>3. UNCHANGED <<call, sent, raced, eager, gSeq, gAuth, lost, up, back, proxy>>
    BY <1>1 DEF Connected
  <2> QED BY <2>1, <2>2, <2>3 DEF TypeOK, call, proxy
<1>2. CASE send_verify_authentication \/ keep_alive
  <2>1. "strand" \in Writer /\ RequestLen \in Lengths /\ 0 \in Lengths
    BY DEF Writer, Lengths
  <2>2. Begin("strand", RequestLen) \/ Begin("strand", 0)
    BY <1>2 DEF send_verify_authentication, keep_alive
  <2> QED BY <2>1, <2>2, BeginType
<1>3. ASSUME NEW w \in App, send(w) PROVE TypeOK'
  <2>1. w \in Writer /\ MessageLen \in Lengths
    BY DEF Writer, Lengths
  <2> QED BY <1>3, <2>1, BeginType DEF send
<1>4. ASSUME NEW w \in Writer, LoadSeq(w) PROVE TypeOK'
  <2>1. pc' \in [Writer -> {"idle", "connected", "wrap", "loaded", "stored"}]
    BY <1>4 DEF LoadSeq, TypeOK
  <2>2. old' \in [Writer -> Number]
    BY <1>4 DEF LoadSeq, TypeOK
  <2>3. UNCHANGED <<len, cmd, new, sent, raced, game, up, back, proxy>>
    BY <1>4 DEF LoadSeq
  <2> QED BY <2>1, <2>2, <2>3 DEF TypeOK, game, proxy
<1>5. ASSUME NEW w \in Writer, StoreSeq(w) PROVE TypeOK'
  <2>1. pc' \in [Writer -> {"idle", "connected", "wrap", "loaded", "stored"}]
    BY <1>5 DEF StoreSeq, TypeOK
  <2>2. Inc(old[w]) \in Number
    BY IncType DEF TypeOK
  <2>3. gSeq' \in Number /\ new' \in [Writer -> Number]
    BY <1>5, <2>2 DEF StoreSeq, TypeOK
  <2>4. lost' \in BOOLEAN
    BY <1>5 DEF StoreSeq, TypeOK
  <2>5. UNCHANGED <<len, cmd, old, sent, raced, eager, state, gAuth, up, back, proxy>>
    BY <1>5 DEF StoreSeq
  <2> QED BY <2>1, <2>3, <2>4, <2>5 DEF TypeOK, proxy
<1>6. ASSUME NEW w \in Writer, Write(w) PROVE TypeOK'
  <2>1. pc' \in [Writer -> {"idle", "connected", "wrap", "loaded", "stored"}]
    BY <1>6 DEF Write, TypeOK
  <2>2. PICK seq \in {new[w], gSeq}, sum \in (IF len[w] = 0 THEN {0} ELSE Sums) :
          up' = IF state = "CONNECTING" THEN Append(up, Wrap(len[w], cmd[w], seq, sum)) ELSE up
    BY <1>6 DEF Write
  <2>3. seq \in Number /\ sum \in Sums \cup {0} /\ len[w] \in Lengths /\ cmd[w] \in Commands
    BY DEF TypeOK, Lengths, Commands
  <2>4. Wrap(len[w], cmd[w], seq, sum) \in Frames
    BY <2>3, WrapType
  <2>5. up' \in Seq(Frames)
    BY <2>2, <2>4, AppendProperties DEF TypeOK
  <2>6. UNCHANGED <<call, sent, raced, game, back, proxy>>
    BY <1>6 DEF Write
  <2> QED BY <2>1, <2>5, <2>6 DEF TypeOK, call, game, proxy
<1>7. CASE unwrap_received_data
  <2>1. back' \in Seq({"keep_alive", "EC_Success", "EC_ServerNotFound"})
    BY <1>7, HeadTailProperties DEF unwrap_received_data, TypeOK
  <2>2. gAuth' \in Authentication
    BY <1>7 DEF unwrap_received_data, TypeOK, Verdict
  <2>3. UNCHANGED <<writers, eager, state, gSeq, lost, up, proxy>>
    BY <1>7 DEF unwrap_received_data
  <2> QED BY <2>1, <2>2, <2>3 DEF TypeOK, writers, call, proxy
<1>8. CASE EndOfStream
  BY <1>8 DEF EndOfStream, TypeOK, writers, call, proxy
<1>9. CASE Receive
  <2>1. Head(up) \in Frames /\ Tail(up) \in Seq(Frames)
    BY <1>9, HeadTailProperties DEF Receive, TypeOK
  <2>2. up' \in Seq(Frames) /\ refused' \in BOOLEAN
    BY <1>9, <2>1 DEF Receive, TypeOK
  <2>3. Inc(pSeq) \in Number
    BY IncType DEF TypeOK
  <2>4. /\ pSeq' \in Number /\ logic' \in {"default", "server"} /\ pAuth' \in Authentication
        /\ back' = back \/ back' = Append(back, "EC_Success") \/ back' = Append(back, "EC_ServerNotFound")
    BY <1>9, <2>3 DEF Receive, verify_authentication, TypeOK, Counted, Inherited
  <2>5. back' \in Seq({"keep_alive", "EC_Success", "EC_ServerNotFound"})
    <3>1. \A x \in Answers : Append(back, x) \in Seq(Answers)
      BY AppendProperties DEF TypeOK, Answers
    <3> QED BY <2>4, <3>1 DEF TypeOK, Answers
  <2>6. UNCHANGED <<writers, game, kicked>>
    BY <1>9 DEF Receive
  <2> QED BY <2>2, <2>4, <2>5, <2>6 DEF TypeOK, writers, call, game
<1>10. CASE Kick
  BY <1>10 DEF Kick, TypeOK, writers, call, game
<1>11. CASE ProxyTick
  <2>1. back' \in Seq({"keep_alive", "EC_Success", "EC_ServerNotFound"})
    BY <1>11, AppendProperties DEF ProxyTick, TypeOK
  <2>2. UNCHANGED <<writers, game, up, proxy>>
    BY <1>11 DEF ProxyTick
  <2> QED BY <2>1, <2>2 DEF TypeOK, writers, call, game, proxy
<1>12. CASE UNCHANGED vars
  BY <1>12 DEF TypeOK, vars, writers, call, game, proxy
<1>13. App \subseteq Writer /\ "strand" \in Writer
  BY DEF Writer
<1> QED
  BY <1>1, <1>2, <1>3, <1>4, <1>5, <1>6, <1>7, <1>8, <1>9, <1>10, <1>11, <1>12, <1>13
  DEF Next, Strand, Proxy, Wrap_to_send_data

\* Every variable of the link keeps its type.
THEOREM TypeCorrect == Spec => []TypeOK
<1>1. Init => TypeOK
  BY InitType
<1>2. TypeOK /\ [Next]_vars => TypeOK'
  BY StepType
<1> QED
  BY <1>1, <1>2, PTL DEF Spec

(***************************************************************************)
(* The verdicts.  An answer on its way tells what the proxy has decided,   *)
(* and what the game server has stored is the opposite of that.            *)
(***************************************************************************)
Fits(x, verdict) ==
  \/ x = "keep_alive"
  \/ x = "EC_Success" /\ verdict = "VERIFY_SUCC"
  \/ x = "EC_ServerNotFound" /\ verdict = "VERIFY_FAILED"
Opposite(g, p) ==
  \/ g = "BEFORE_VERIFY"
  \/ g = "VERIFY_FAILED" /\ p = "VERIFY_SUCC"
  \/ g = "VERIFY_SUCC" /\ p = "VERIFY_FAILED"
VerdictInv ==
  /\ \A i \in 1..Len(back) : Fits(back[i], pAuth)
  /\ Opposite(gAuth, pAuth)

LEMMA AppendFits ==
  ASSUME NEW s \in Seq(Answers), NEW x \in Answers, NEW v,
         \A i \in 1..Len(s) : Fits(s[i], v), Fits(x, v)
  PROVE  \A i \in 1..Len(Append(s, x)) : Fits(Append(s, x)[i], v)
<1> DEFINE t == Append(s, x)
<1>1. Len(t) = Len(s) + 1 /\ (\A i \in 1..Len(s) : t[i] = s[i]) /\ t[Len(s) + 1] = x
  BY AppendProperties
<1>2. Len(s) \in Nat
  BY LenProperties
<1> HIDE DEF t
<1>3. ASSUME NEW i \in 1..Len(t) PROVE Fits(t[i], v)
  <2>1. i \in 1..Len(s) \/ i = Len(s) + 1
    BY SMT, <1>1, <1>2
  <2> QED BY <1>1, <2>1
<1> QED BY <1>3 DEF t

LEMMA TailFits ==
  ASSUME NEW s \in Seq(Answers), s # <<>>, NEW v, \A i \in 1..Len(s) : Fits(s[i], v)
  PROVE  Fits(Head(s), v) /\ \A i \in 1..Len(Tail(s)) : Fits(Tail(s)[i], v)
<1>1. Len(s) \in Nat /\ Len(s) # 0
  BY LenProperties, EmptySeq
<1>2. 1 \in 1..Len(s) /\ Head(s) = s[1]
  BY <1>1, SMT
<1>3. Len(Tail(s)) = Len(s) - 1 /\ \A i \in 1..Len(Tail(s)) : Tail(s)[i] = s[i + 1]
  BY HeadTailProperties
<1>4. ASSUME NEW i \in 1..Len(Tail(s)) PROVE Fits(Tail(s)[i], v)
  <2>1. i + 1 \in 1..Len(s)
    BY SMT, <1>1, <1>3
  <2> QED BY <1>3, <2>1
<1> QED BY <1>2, <1>4

LEMMA VerdictStep == TypeOK /\ VerdictInv /\ [Next]_vars => VerdictInv'
<1> SUFFICES ASSUME TypeOK, VerdictInv, [Next]_vars PROVE VerdictInv'
  OBVIOUS
<1>0. back \in Seq(Answers)
  BY DEF TypeOK, Answers
<1>1. CASE UNCHANGED <<back, gAuth, pAuth>>
  BY <1>1 DEF VerdictInv
<1>2. CASE unwrap_received_data
  <2>1. back # <<>> /\ back' = Tail(back) /\ pAuth' = pAuth
    BY <1>2 DEF unwrap_received_data, proxy
  <2>2. Fits(Head(back), pAuth) /\ \A i \in 1..Len(Tail(back)) : Fits(Tail(back)[i], pAuth)
    BY <1>0, <2>1, TailFits DEF VerdictInv
  <2>3. CASE Consumed(Head(back)) \/ gAuth # "BEFORE_VERIFY"
    <3>1. gAuth' = gAuth
      BY <1>2, <2>3 DEF unwrap_received_data
    <3> QED BY <2>1, <2>2, <3>1 DEF VerdictInv
  <2>4. CASE ~Consumed(Head(back)) /\ gAuth = "BEFORE_VERIFY"
    <3>1. gAuth' = Verdict(Head(back))
      BY <1>2, <2>4 DEF unwrap_received_data
    <3>2. Opposite(gAuth', pAuth)
      BY <2>2, <2>4, <3>1 DEF Fits, Opposite, Consumed, Verdict
    <3> QED BY <2>1, <2>2, <3>2 DEF VerdictInv
  <2> QED BY <2>3, <2>4
<1>3. CASE Receive
  <2>1. gAuth' = gAuth
    BY <1>3 DEF Receive, game
  <2>2. CASE pAuth # "BEFORE_VERIFY" \/ UNCHANGED <<pAuth, back>>
    <3>1. UNCHANGED <<pAuth, back>>
      BY <1>3, <2>2 DEF Receive
    <3> QED BY <2>1, <3>1 DEF VerdictInv
  <2>3. CASE pAuth = "BEFORE_VERIFY" /\ ~UNCHANGED <<pAuth, back>>
    <3>1. \/ pAuth' = "VERIFY_SUCC" /\ back' = Append(back, "EC_Success")
          \/ pAuth' = "VERIFY_FAILED" /\ back' = Append(back, "EC_ServerNotFound")
      BY <1>3, <2>3 DEF Receive, verify_authentication
    <3>2. \A i \in 1..Len(back) : Fits(back[i], pAuth')
      BY <2>3 DEF VerdictInv, Fits
    <3>3. gAuth' = "BEFORE_VERIFY"
      BY <2>1, <2>3 DEF VerdictInv, Opposite
    <3>4. PICK x \in Answers : back' = Append(back, x) /\ Fits(x, pAuth')
      BY <3>1 DEF Answers, Fits
    <3>5. \A i \in 1..Len(back') : Fits(back'[i], pAuth')
      BY <1>0, <3>2, <3>4, AppendFits
    <3> QED BY <3>3, <3>5 DEF VerdictInv, Opposite
  <2> QED BY <2>2, <2>3
<1>4. CASE ProxyTick
  <2>1. back' = Append(back, "keep_alive") /\ UNCHANGED <<gAuth, pAuth>>
    BY <1>4 DEF ProxyTick, game, proxy
  <2>2. "keep_alive" \in Answers /\ Fits("keep_alive", pAuth)
    BY DEF Answers, Fits
  <2>3. \A i \in 1..Len(back') : Fits(back'[i], pAuth)
    BY <1>0, <2>1, <2>2, AppendFits DEF VerdictInv
  <2> QED BY <2>1, <2>3 DEF VerdictInv
<1>5. ASSUME NEW w, NEW l, Begin(w, l) PROVE UNCHANGED <<back, gAuth, pAuth>>
  BY <1>5 DEF Begin, game, proxy
<1>6. ASSUME NEW w, Wrap_to_send_data(w) PROVE UNCHANGED <<back, gAuth, pAuth>>
  BY <1>6 DEF Wrap_to_send_data, LoadSeq, StoreSeq, Write, game, proxy
<1>7. Connected \/ EndOfStream \/ Kick => UNCHANGED <<back, gAuth, pAuth>>
  BY DEF Connected, EndOfStream, Kick, game, proxy
<1>8. UNCHANGED vars => UNCHANGED <<back, gAuth, pAuth>>
  BY DEF vars, game, proxy
<1> QED
  BY <1>1, <1>2, <1>3, <1>4, <1>5, <1>6, <1>7, <1>8
  DEF Next, Strand, Proxy, send, keep_alive, send_verify_authentication

LEMMA InitVerdict == Init => VerdictInv
<1> SUFFICES ASSUME Init PROVE VerdictInv
  OBVIOUS
<1>1. back = <<>> /\ gAuth = "BEFORE_VERIFY"
  BY DEF Init
<1>2. 1..Len(back) = {}
  BY SMT, <1>1
<1> QED BY <1>1, <1>2 DEF VerdictInv, Opposite

\* The verdict a game server stores is the opposite of the one the proxy has
\* reached, and nothing but the answer to its request sets it.
THEOREM VerdictsMirrored == Spec => []VerdictMirrored
<1>1. Init => TypeOK /\ VerdictInv
  BY InitType, InitVerdict
<1>2. TypeOK /\ VerdictInv /\ [Next]_vars => (TypeOK /\ VerdictInv)'
  BY StepType, VerdictStep
<1>3. VerdictInv => VerdictMirrored
  BY DEF VerdictInv, Opposite, VerdictMirrored
<1> QED
  BY <1>1, <1>2, <1>3, PTL DEF Spec

(***************************************************************************)
(* The numbers.  Without a race one writer at a time makes a frame, the    *)
(* frames on their way continue the proxy's count without a gap, and _seq  *)
(* is the number of the last of them, or of the frame being made.          *)
(***************************************************************************)
LastOf(u, p) == IF u = <<>> THEN p ELSE u[Len(u)].seq
InOrder(u, p) == \A i \in 1..Len(u) : u[i].seq = Inc(IF i = 1 THEN p ELSE u[i - 1].seq)

OneWriter == \A v, w \in Writer : Wrapping(v) /\ Wrapping(w) => v = w
Numbers(w, l) ==
  /\ pc[w] = "loaded" => old[w] = gSeq
  /\ IF pc[w] = "stored" THEN new[w] = gSeq /\ gSeq = Inc(l) ELSE Wrapping(w) => gSeq = l
SeqInv ==
  /\ ~refused /\ OneWriter /\ InOrder(up, pSeq)
  /\ state = "WAIT_CONNECT" => \A w \in Writer : ~Wrapping(w)
  /\ state # "CLOSE_DONE" =>
       /\ \A w \in Writer : Numbers(w, LastOf(up, pSeq))
       /\ (\A w \in Writer : ~Wrapping(w)) => gSeq = LastOf(up, pSeq)
NumberInv == ~raced => SeqInv

LEMMA AppendInOrder ==
  ASSUME NEW u \in Seq(Frames), NEW f \in Frames, NEW p, InOrder(u, p), f.seq = Inc(LastOf(u, p))
  PROVE  InOrder(Append(u, f), p) /\ LastOf(Append(u, f), p) = f.seq
<1> DEFINE t == Append(u, f)
<1>1. /\ t # <<>> /\ Len(t) = Len(u) + 1 /\ (\A i \in 1..Len(u) : t[i] = u[i]) /\ t[Len(u) + 1] = f
  BY AppendProperties
<1>2. Len(u) \in Nat /\ (u = <<>> <=> Len(u) = 0)
  BY LenProperties, EmptySeq
<1> HIDE DEF t
<1>3. ASSUME NEW i \in 1..Len(t)
      PROVE  t[i].seq = Inc(IF i = 1 THEN p ELSE t[i - 1].seq)
  <2>1. CASE i \in 1..Len(u)
    <3>1. t[i] = u[i] /\ u[i].seq = Inc(IF i = 1 THEN p ELSE u[i - 1].seq)
      BY <1>1, <2>1 DEF InOrder
    <3>2. i = 1 \/ t[i - 1] = u[i - 1]
      <4>1. i = 1 \/ i - 1 \in 1..Len(u)
        BY SMT, <1>2, <2>1
      <4> QED BY <1>1, <4>1
    <3> QED BY <3>1, <3>2
  <2>2. CASE i = Len(u) + 1
    <3>1. t[i].seq = Inc(LastOf(u, p))
      BY <1>1, <2>2
    <3>2. CASE u = <<>>
      <4>1. i = 1
        BY SMT, <1>2, <2>2, <3>2
      <4> QED BY <3>1, <3>2, <4>1 DEF LastOf
    <3>3. CASE u # <<>>
      <4>1. i # 1 /\ i - 1 = Len(u) /\ Len(u) \in 1..Len(u)
        BY SMT, <1>2, <2>2, <3>3
      <4>2. t[i - 1] = u[Len(u)]
        BY <1>1, <4>1
      <4> QED BY <3>1, <3>3, <4>1, <4>2 DEF LastOf
    <3> QED BY <3>2, <3>3
  <2>3. i \in 1..Len(u) \/ i = Len(u) + 1
    BY SMT, <1>1, <1>2
  <2> QED BY <2>1, <2>2, <2>3
<1>4. LastOf(t, p) = f.seq
  BY <1>1 DEF LastOf
<1> QED BY <1>3, <1>4 DEF InOrder, t

LEMMA TailInOrder ==
  ASSUME NEW u \in Seq(Frames), u # <<>>, NEW p, InOrder(u, p)
  PROVE  /\ Head(u).seq = Inc(p)
         /\ InOrder(Tail(u), Inc(p)) /\ LastOf(Tail(u), Inc(p)) = LastOf(u, p)
<1> DEFINE t == Tail(u)
<1>1. t \in Seq(Frames) /\ Len(t) = Len(u) - 1 /\ \A i \in 1..Len(t) : t[i] = u[i + 1]
  BY HeadTailProperties
<1>2. Len(u) \in Nat /\ Len(u) # 0 /\ (t = <<>> <=> Len(t) = 0)
  BY <1>1, LenProperties, EmptySeq
<1> HIDE DEF t
<1>3. 1 \in 1..Len(u) /\ Head(u) = u[1]
  BY <1>2, SMT
<1>4. u[1].seq = Inc(p)
  BY <1>3 DEF InOrder
<1>5. ASSUME NEW i \in 1..Len(t)
      PROVE  t[i].seq = Inc(IF i = 1 THEN Inc(p) ELSE t[i - 1].seq)
  <2>1. i + 1 \in 1..Len(u) /\ i + 1 # 1 /\ (i + 1) - 1 = i /\ (i - 1) + 1 = i
        /\ (i = 1 \/ i - 1 \in 1..Len(t))
    BY SMT, <1>1, <1>2
  <2>2. t[i] = u[i + 1] /\ u[i + 1].seq = Inc(u[i].seq)
    BY <1>1, <2>1 DEF InOrder
  <2>3. i = 1 \/ t[i - 1] = u[i]
    BY <1>1, <2>1
  <2> QED BY <1>4, <2>2, <2>3
<1>6. LastOf(t, Inc(p)) = LastOf(u, p)
  <2>1. CASE t = <<>>
    <3>1. Len(u) = 1
      BY SMT, <1>1, <1>2, <2>1
    <3> QED BY <1>4, <2>1, <3>1 DEF LastOf
  <2>2. CASE t # <<>>
    <3>1. Len(t) \in 1..Len(t) /\ Len(t) + 1 = Len(u)
      BY SMT, <1>1, <1>2, <2>2
    <3>2. t[Len(t)] = u[Len(u)]
      BY <1>1, <3>1
    <3> QED BY <2>2, <3>2 DEF LastOf
  <2> QED BY <2>1, <2>2
<1> QED BY <1>3, <1>4, <1>5, <1>6 DEF InOrder, t

LEMMA InitNumbers == Init => NumberInv
<1> SUFFICES ASSUME Init PROVE NumberInv
  OBVIOUS
<1>1. /\ up = <<>> /\ gSeq = 0 /\ pSeq = 0 /\ ~refused
      /\ \A w \in Writer : pc[w] = "idle"
  BY DEF Init
<1>2. 1..Len(up) = {}
  BY SMT, <1>1
<1>3. \A w \in Writer : ~Wrapping(w)
  BY <1>1 DEF Wrapping
<1>4. LastOf(up, pSeq) = gSeq /\ InOrder(up, pSeq)
  BY <1>1, <1>2 DEF LastOf, InOrder
<1>5. \A w \in Writer : Numbers(w, LastOf(up, pSeq))
  BY <1>1, <1>3 DEF Numbers
<1> QED BY <1>1, <1>3, <1>4, <1>5 DEF NumberInv, SeqInv, OneWriter

\* A writer that begins, none of the others being at work, finds _seq to be
\* the last number.
LEMMA BeginNumbers ==
  ASSUME NumberInv, NEW w \in Writer, NEW l, TypeOK, Begin(w, l), ~Wrapping(w) PROVE NumberInv'
<1> SUFFICES ASSUME ~raced' PROVE SeqInv'
  BY DEF NumberInv
<1>1. ~raced /\ (\A v \in Writer \ {w} : ~Wrapping(v)) /\ raced' = FALSE
  BY DEF Begin
<1>2. SeqInv
  BY <1>1 DEF NumberInv
<1>3. \A v \in Writer : ~Wrapping(v)
  BY <1>1
<1>4. UNCHANGED <<old, new, gSeq, up, pSeq, refused, state>> /\ state = "CONNECTING"
  BY DEF Begin, game, proxy
<1>5. gSeq = LastOf(up, pSeq)
  BY <1>2, <1>3, <1>4 DEF SeqInv
<1>6. /\ pc'[w] = "wrap" /\ \A v \in Writer \ {w} : pc'[v] = pc[v]
  BY DEF Begin, TypeOK
<1>7. \A v \in Writer : Wrapping(v)' => v = w
  BY <1>3, <1>6 DEF Wrapping
<1>8. Wrapping(w)'
  BY <1>6 DEF Wrapping
<1>9. \A v \in Writer : Numbers(v, LastOf(up, pSeq))'
  <2>1. \A v \in Writer : pc'[v] # "loaded" /\ pc'[v] # "stored"
    BY <1>3, <1>6 DEF Wrapping
  <2>2. gSeq' = LastOf(up', pSeq')
    BY <1>4, <1>5
  <2> QED BY <2>1, <2>2 DEF Numbers, Wrapping
<1>10. InOrder(up, pSeq)'
  BY <1>2, <1>4 DEF SeqInv
<1> QED BY <1>10, <1>2, <1>4, <1>7, <1>8, <1>9 DEF SeqInv, OneWriter

\* ++_seq of the only writer.
LEMMA IncrementNumbers ==
  ASSUME NumberInv, TypeOK, NEW w \in Writer, LoadSeq(w) \/ StoreSeq(w) PROVE NumberInv'
<1> SUFFICES ASSUME ~raced' PROVE SeqInv'
  BY DEF NumberInv
<1>1. UNCHANGED <<up, pSeq, refused, state, raced>>
  BY DEF LoadSeq, StoreSeq, game, proxy
<1>2. SeqInv
  BY <1>1 DEF NumberInv
<1>3. Wrapping(w) /\ Wrapping(w)' /\ (\A v \in Writer \ {w} : pc'[v] = pc[v])
  BY DEF LoadSeq, StoreSeq, Wrapping, TypeOK
<1>4. \A v \in Writer : Wrapping(v)' => v = w
  BY <1>2, <1>3 DEF SeqInv, OneWriter, Wrapping
<1>5. ASSUME state # "CLOSE_DONE"
      PROVE  \A v \in Writer : Numbers(v, LastOf(up, pSeq))'
  <2>1. Numbers(w, LastOf(up, pSeq))
    BY <1>2, <1>5 DEF SeqInv
  <2>2. Numbers(w, LastOf(up, pSeq))'
    <3>1. CASE LoadSeq(w)
      <4>1. pc[w] = "wrap" /\ pc'[w] = "loaded" /\ old'[w] = gSeq /\ gSeq' = gSeq
        BY <3>1 DEF LoadSeq, TypeOK, game
      <4>2. gSeq = LastOf(up, pSeq)
        BY <1>3, <2>1, <4>1 DEF Numbers
      <4> QED BY <1>1, <4>1, <4>2 DEF Numbers
    <3>2. CASE StoreSeq(w)
      <4>1. /\ pc[w] = "loaded" /\ pc'[w] = "stored"
            /\ gSeq' = Inc(old[w]) /\ new'[w] = Inc(old[w])
        BY <3>2 DEF StoreSeq, TypeOK
      <4>2. gSeq = LastOf(up, pSeq) /\ old[w] = gSeq
        BY <1>3, <2>1, <4>1 DEF Numbers
      <4> QED BY <1>1, <4>1, <4>2 DEF Numbers
    <3> QED BY <3>1, <3>2
  <2>3. ASSUME NEW v \in Writer \ {w} PROVE Numbers(v, LastOf(up, pSeq))'
    <3>1. ~Wrapping(v)'
      BY <1>4
    <3> QED BY <3>1 DEF Numbers, Wrapping
  <2> QED BY <2>2, <2>3
<1> QED BY <1>1, <1>2, <1>3, <1>4, <1>5 DEF SeqInv, OneWriter

\* The only writer sends the number it has taken, whichever it reads again.
LEMMA WriteNumbers ==
  ASSUME NumberInv, TypeOK, NEW w \in Writer, Write(w) PROVE NumberInv'
<1> SUFFICES ASSUME ~raced' PROVE SeqInv'
  BY DEF NumberInv
<1>1. UNCHANGED <<pSeq, refused, state, raced, gSeq, old, new>>
  BY DEF Write, game, proxy, call
<1>2. SeqInv
  BY <1>1 DEF NumberInv
<1>3. /\ pc[w] = "stored" /\ Wrapping(w) /\ pc'[w] = "idle"
      /\ \A v \in Writer \ {w} : pc'[v] = pc[v]
  BY DEF Write, Wrapping, TypeOK
<1>4. \A v \in Writer : ~Wrapping(v)'
  BY <1>2, <1>3 DEF SeqInv, OneWriter, Wrapping
<1>5. InOrder(up', pSeq) /\ (state # "CLOSE_DONE" => gSeq = LastOf(up', pSeq))
  <2>1. CASE state # "CONNECTING"
    <3>1. up' = up
      BY <2>1 DEF Write
    <3>2. state = "CLOSE_DONE"
      BY <1>2, <1>3, <2>1 DEF SeqInv, TypeOK
    <3> QED BY <1>2, <3>1, <3>2 DEF SeqInv
  <2>2. CASE state = "CONNECTING"
    <3>1. PICK seq \in {new[w], gSeq}, sum \in (IF len[w] = 0 THEN {0} ELSE Sums) :
            up' = Append(up, Wrap(len[w], cmd[w], seq, sum))
      BY <2>2 DEF Write
    <3>2. new[w] = gSeq /\ gSeq = Inc(LastOf(up, pSeq))
      BY <1>2, <1>3, <2>2 DEF SeqInv, Numbers
    <3>3. seq = gSeq /\ seq \in Number /\ sum \in Sums \cup {0}
          /\ len[w] \in Lengths /\ cmd[w] \in Commands
      BY <3>2 DEF TypeOK, Lengths, Commands
    <3>4. PICK f \in Frames : f = Wrap(len[w], cmd[w], seq, sum) /\ f.seq = seq
      BY <3>3, WrapType
    <3>5. up \in Seq(Frames) /\ InOrder(up, pSeq)
      BY <1>2 DEF TypeOK, SeqInv
    <3> QED BY <3>1, <3>2, <3>3, <3>4, <3>5, AppendInOrder
  <2> QED BY <2>1, <2>2
<1>6. \A v \in Writer : pc'[v] # "loaded" /\ pc'[v] # "stored"
  BY <1>4 DEF Wrapping
<1>7. \A v \in Writer : Numbers(v, LastOf(up, pSeq))'
  BY <1>4, <1>6 DEF Numbers
<1> QED BY <1>1, <1>2, <1>4, <1>5, <1>7 DEF SeqInv, OneWriter

\* The proxy accepts the frame that comes, and counts it.
LEMMA ReceiveNumbers == ASSUME NumberInv, TypeOK, Receive PROVE NumberInv'
<1> SUFFICES ASSUME ~raced' PROVE SeqInv'
  BY DEF NumberInv
<1>1. UNCHANGED <<raced, gSeq, old, new, state, pc>>
  BY DEF Receive, game, writers, call
<1>2. SeqInv /\ up \in Seq(Frames) /\ up # <<>> /\ up' = Tail(up)
  BY <1>1 DEF NumberInv, TypeOK, Receive
<1>3. /\ Head(up).seq = Inc(pSeq) /\ InOrder(up', Inc(pSeq))
      /\ LastOf(up', Inc(pSeq)) = LastOf(up, pSeq)
  BY <1>2, TailInOrder DEF SeqInv
<1>4. pSeq' = Inc(pSeq)
  BY DEF Receive, verify_authentication, Counted, Inherited
<1>5. ~refused'
  BY <1>2, <1>3 DEF Receive, Expected, SeqInv
<1>6. UNCHANGED LastOf(up, pSeq) /\ InOrder(up, pSeq)'
  BY <1>3, <1>4
<1>7. \A w \in Writer : Wrapping(w)' <=> Wrapping(w)
  BY <1>1 DEF Wrapping
<1>8. state # "CLOSE_DONE" => \A w \in Writer : Numbers(w, LastOf(up, pSeq))'
  BY <1>1, <1>2, <1>6, <1>7 DEF SeqInv, Numbers
<1> QED BY <1>1, <1>2, <1>5, <1>6, <1>7, <1>8 DEF SeqInv, OneWriter

\* The other steps write no frame and count none.
LEMMA OtherNumbers ==
  ASSUME NumberInv, UNCHANGED <<raced, gSeq, old, new, up, pSeq, refused>>,
         \A w \in Writer : pc'[w] = pc[w] \/ (~Wrapping(w) /\ ~Wrapping(w)'),
         state' = state \/ state' = "CLOSE_DONE"
           \/ (state = "WAIT_CONNECT" /\ state' = "CONNECTING")
  PROVE  NumberInv'
<1> SUFFICES ASSUME ~raced' PROVE SeqInv'
  BY DEF NumberInv
<1>1. SeqInv
  BY DEF NumberInv
<1>2. \A w \in Writer : Wrapping(w)' <=> Wrapping(w)
  BY DEF Wrapping
<1>3. UNCHANGED LastOf(up, pSeq) /\ InOrder(up, pSeq)'
  BY <1>1 DEF SeqInv
<1>4. \A w \in Writer :
        Numbers(w, LastOf(up, pSeq)) => Numbers(w, LastOf(up, pSeq))'
  BY <1>2, <1>3 DEF Numbers, Wrapping
<1> QED BY <1>1, <1>2, <1>3, <1>4 DEF SeqInv, OneWriter

LEMMA NumberStep == TypeOK /\ NumberInv /\ [Next]_vars => NumberInv'
<1> SUFFICES ASSUME TypeOK, NumberInv, [Next]_vars PROVE NumberInv'
  OBVIOUS
<1>1. ASSUME NEW w \in Writer, NEW l, Begin(w, l), pc[w] \in {"idle", "connected"} PROVE NumberInv'
  BY <1>1, BeginNumbers DEF Wrapping
<1>2. ASSUME NEW w \in Writer, Wrap_to_send_data(w) PROVE NumberInv'
  BY <1>2, IncrementNumbers, WriteNumbers DEF Wrap_to_send_data
<1>3. CASE Receive
  BY <1>3, ReceiveNumbers
<1>4. CASE Connected
  <2>1. UNCHANGED <<raced, gSeq, old, new, up, pSeq, refused>> /\ state = "WAIT_CONNECT" /\ state' = "CONNECTING"
    BY <1>4 DEF Connected, call, proxy
  <2>2. raced \/ \A w \in Writer : ~Wrapping(w)
    BY <2>1 DEF NumberInv, SeqInv
  <2>3. CASE raced
    BY <2>1, <2>3 DEF NumberInv
  <2>4. CASE \A w \in Writer : ~Wrapping(w)
    <3>1. \A w \in Writer : ~Wrapping(w)'
      BY <1>4, <2>4 DEF Connected, Wrapping, TypeOK
    <3> QED BY <2>1, <2>4, <3>1, OtherNumbers
  <2> QED BY <2>2, <2>3, <2>4
<1>5. CASE unwrap_received_data \/ EndOfStream \/ Kick \/ ProxyTick \/ UNCHANGED vars
  <2>1. UNCHANGED <<raced, gSeq, old, new, up, pSeq, refused, pc>>
    BY <1>5 DEF unwrap_received_data, EndOfStream, Kick, ProxyTick, vars, writers, call, game, proxy
  <2>2. state' = state \/ state' = "CLOSE_DONE"
    BY <1>5 DEF unwrap_received_data, EndOfStream, Kick, ProxyTick, vars, game
  <2> QED BY <2>1, <2>2, OtherNumbers
<1>6. App \subseteq Writer /\ "strand" \in Writer
  BY DEF Writer
<1> QED
  BY <1>1, <1>2, <1>3, <1>4, <1>5, <1>6
  DEF Next, Strand, Proxy, send, keep_alive, send_verify_authentication

\* As long as no two sends of a game server overlap, the proxy never refuses a
\* frame of its for its number.
THEOREM RefusedOnlyForRaces == Spec => []RefusedOnlyAfterRace
<1>1. Init => TypeOK /\ NumberInv
  BY InitType, InitNumbers
<1>2. TypeOK /\ NumberInv /\ [Next]_vars => (TypeOK /\ NumberInv)'
  BY StepType, NumberStep
<1>3. NumberInv => RefusedOnlyAfterRace
  BY DEF NumberInv, SeqInv, RefusedOnlyAfterRace
<1> QED
  BY <1>1, <1>2, <1>3, PTL DEF Spec

(***************************************************************************)
(* A game server that waits.  Until its answer comes only its strand       *)
(* writes, the request first: so the request is the first frame the proxy  *)
(* looks at, it has the right number, its mask is right and it passes.     *)
(***************************************************************************)
AllVerify == \A i \in 1..Len(up) : Verifies(up[i])

LEMMA AllVerifyStep == TypeOK /\ AllVerify /\ [Next]_vars => AllVerify'
<1> SUFFICES ASSUME TypeOK, AllVerify, [Next]_vars PROVE AllVerify'
  OBVIOUS
<1>1. CASE up' = up
  BY <1>1 DEF AllVerify
<1>2. CASE Receive
  <2>1. up # <<>> /\ up' = Tail(up) /\ up \in Seq(Frames)
    BY <1>2 DEF Receive, TypeOK
  <2>2. Len(up) \in Nat /\ Len(up') = Len(up) - 1 /\ \A i \in 1..Len(up') : up'[i] = up[i + 1]
    BY <2>1, HeadTailProperties, LenProperties
  <2>3. \A i \in 1..Len(up') : i + 1 \in 1..Len(up)
    BY SMT, <2>2
  <2> QED BY <2>2, <2>3 DEF AllVerify
<1>3. ASSUME NEW w \in Writer, Write(w) PROVE AllVerify'
  <2>1. CASE state # "CONNECTING"
    BY <1>1, <1>3, <2>1 DEF Write
  <2>2. CASE state = "CONNECTING"
    <3>1. PICK seq \in {new[w], gSeq}, sum \in (IF len[w] = 0 THEN {0} ELSE Sums) :
            up' = Append(up, Wrap(len[w], cmd[w], seq, sum))
      BY <1>3, <2>2 DEF Write
    <3>2. seq \in Number /\ sum \in Sums \cup {0} /\ len[w] \in Lengths /\ cmd[w] \in Commands
      BY DEF TypeOK, Lengths, Commands
    <3>3. PICK f \in Frames : f = Wrap(len[w], cmd[w], seq, sum)
      BY <3>2, WrapType
    <3>4. seq \in Sequence /\ sum \in DataSum
      BY <3>2, NumberIsSequence, SumType
    <3>5. len[w] \in Word
      BY SMT, <3>2 DEF Lengths, RequestLen, MessageLen, Word
    <3>6. cmd[w] \in Word
      BY SMT, <3>2 DEF Commands, AuthenticationAAA, RoutingTransparent, Word
    <3>7. Verifies(f)
      BY <3>3, <3>4, <3>5, <3>6, HonestFramesVerify
    <3>8. up \in Seq(Frames) /\ Len(up) \in Nat /\ up' = Append(up, f)
      BY <3>1, <3>3, LenProperties DEF TypeOK
    <3>9. Len(up') = Len(up) + 1 /\ (\A i \in 1..Len(up) : up'[i] = up[i]) /\ up'[Len(up) + 1] = f
      BY <3>8, AppendProperties
    <3>10. \A i \in 1..Len(up') : i \in 1..Len(up) \/ i = Len(up) + 1
      BY SMT, <3>8, <3>9
    <3> QED BY <3>7, <3>9, <3>10 DEF AllVerify
  <2> QED BY <2>1, <2>2
<1>4. ASSUME NEW w, NEW l, Begin(w, l) PROVE up' = up
  BY <1>4 DEF Begin
<1>5. ASSUME NEW w, LoadSeq(w) \/ StoreSeq(w) PROVE up' = up
  BY <1>5 DEF LoadSeq, StoreSeq
<1>6. CASE Connected \/ unwrap_received_data \/ EndOfStream \/ Kick \/ ProxyTick \/ UNCHANGED vars
  BY <1>1, <1>6 DEF Connected, unwrap_received_data, EndOfStream, Kick, ProxyTick, vars
<1>7. App \subseteq Writer /\ "strand" \in Writer
  BY DEF Writer
<1> QED
  BY <1>1, <1>2, <1>3, <1>4, <1>5, <1>6, <1>7
  DEF Next, Strand, Proxy, Wrap_to_send_data, send, keep_alive, send_verify_authentication

LEMMA InitVerify == Init => AllVerify
<1> SUFFICES ASSUME Init PROVE AllVerify
  OBVIOUS
<1>1. up = <<>>
  BY DEF Init
<1>2. 1..Len(up) = {}
  BY SMT, <1>1
<1> QED BY <1>2 DEF AllVerify

IsRequest(l, c) == l = RequestLen /\ c = AuthenticationAAA
Requesting ==
  \/ state = "WAIT_CONNECT" /\ pc["strand"] = "idle"
  \/ state = "CONNECTING" /\ pc["strand"] = "connected"
  \/ Wrapping("strand") /\ IsRequest(len["strand"], cmd["strand"])
WaitingInv ==
  ~eager =>
    /\ ~kicked /\ pAuth # "VERIFY_FAILED" /\ state # "CLOSE_DONE"
    /\ gAuth = "BEFORE_VERIFY" => ~raced /\ \A w \in App : pc[w] = "idle"
    /\ pAuth = "BEFORE_VERIFY" =>
         /\ logic = "default"
         /\ IF up = <<>> THEN Requesting ELSE IsRequest(up[1].len, up[1].cmd)

LEMMA InitWaiting == Init => WaitingInv
<1> SUFFICES ASSUME Init PROVE WaitingInv
  OBVIOUS
<1>1. "strand" \in Writer /\ App \subseteq Writer
  BY DEF Writer
<1> QED BY <1>1 DEF Init, WaitingInv, Requesting

LEMMA WaitingStep ==
  TypeOK /\ VerdictInv /\ NumberInv /\ AllVerify /\ WaitingInv /\ [Next]_vars => WaitingInv'
<1> SUFFICES ASSUME TypeOK, VerdictInv, NumberInv, AllVerify, WaitingInv, [Next]_vars, ~eager'
             PROVE  WaitingInv'
  BY DEF WaitingInv
<1>0. eager' = eager
  BY DEF Next, Strand, Proxy, Connected, send_verify_authentication, keep_alive, send, Begin,
         Wrap_to_send_data, LoadSeq, StoreSeq, Write, unwrap_received_data, EndOfStream,
         Receive, Kick, ProxyTick, vars, game
<1> HIDE DEF Next
<1>1. /\ ~kicked /\ pAuth # "VERIFY_FAILED" /\ state # "CLOSE_DONE"
      /\ gAuth = "BEFORE_VERIFY" => ~raced /\ \A w \in App : pc[w] = "idle"
      /\ pAuth = "BEFORE_VERIFY" =>
           /\ logic = "default" /\ gAuth = "BEFORE_VERIFY"
           /\ IF up = <<>> THEN Requesting ELSE IsRequest(up[1].len, up[1].cmd)
  BY <1>0 DEF WaitingInv, VerdictInv, Opposite
<1>2. "strand" \in Writer /\ "strand" \notin App /\ App \subseteq Writer
      /\ \A w \in Writer : w \in App \/ w = "strand"
  BY LinkAssumption DEF Writer
<1>3. CASE Connected
  <2>1. /\ state = "WAIT_CONNECT" /\ state' = "CONNECTING"
        /\ UNCHANGED <<kicked, pAuth, gAuth, raced, logic, up, len, cmd>>
    BY <1>3 DEF Connected, call, proxy
  <2>2. pc'["strand"] = "connected" /\ \A w \in App : pc'[w] = pc[w]
    BY <1>2, <1>3 DEF Connected, TypeOK
  <2> QED BY <1>1, <2>1, <2>2 DEF WaitingInv, Requesting
<1>4. ASSUME NEW l, Begin("strand", l),
             (pc["strand"] = "connected" /\ l = RequestLen) \/ pc["strand"] = "idle"
      PROVE  WaitingInv'
  <2>1. UNCHANGED <<kicked, pAuth, gAuth, logic, up, state>> /\ state = "CONNECTING"
    BY <1>4 DEF Begin, game, proxy
  <2>2. pc'["strand"] = "wrap" /\ \A w \in App : pc'[w] = pc[w]
    BY <1>2, <1>4 DEF Begin, TypeOK
  <2>3. gAuth = "BEFORE_VERIFY" => ~raced'
    <3>1. gAuth = "BEFORE_VERIFY" => \A v \in Writer \ {"strand"} : ~Wrapping(v)
      BY <1>1, <1>2 DEF Wrapping
    <3> QED BY <1>1, <1>4, <3>1 DEF Begin
  <2>4. pAuth = "BEFORE_VERIFY" /\ up = <<>> => Requesting'
    <3>1. SUFFICES ASSUME pAuth = "BEFORE_VERIFY", up = <<>> PROVE Requesting'
      OBVIOUS
    <3>2. pc["strand"] = "connected" /\ l = RequestLen
      BY <1>1, <1>4, <2>1, <3>1 DEF Requesting, Wrapping
    <3>3. len'["strand"] = RequestLen /\ cmd'["strand"] = AuthenticationAAA
      BY <1>1, <1>2, <1>4, <3>1, <3>2 DEF Begin, TypeOK, Command
    <3> QED BY <2>2, <3>3 DEF Requesting, Wrapping, IsRequest
  <2> QED BY <1>1, <2>1, <2>2, <2>3, <2>4 DEF WaitingInv
<1>5. ASSUME NEW w \in App, send(w) PROVE WaitingInv'
  <2>1. gAuth # "BEFORE_VERIFY"
    BY <1>0, <1>5 DEF send
  <2>2. UNCHANGED <<kicked, pAuth, gAuth, logic, state>>
    BY <1>5 DEF send, Begin, game, proxy
  <2> QED BY <1>1, <2>1, <2>2 DEF WaitingInv
<1>6. ASSUME NEW w \in Writer, LoadSeq(w) \/ StoreSeq(w) PROVE WaitingInv'
  <2>1. UNCHANGED <<kicked, pAuth, gAuth, raced, logic, up, state, len, cmd>>
    BY <1>6 DEF LoadSeq, StoreSeq, game, proxy
  <2>2. Wrapping(w) /\ Wrapping(w)' /\ \A v \in Writer \ {w} : pc'[v] = pc[v]
    BY <1>6 DEF LoadSeq, StoreSeq, Wrapping, TypeOK
  <2>3. gAuth = "BEFORE_VERIFY" => w = "strand"
    BY <1>1, <1>2, <2>2 DEF Wrapping
  <2>4. Requesting => Requesting'
    BY <1>2, <2>1, <2>2 DEF Requesting, Wrapping
  <2>5. gAuth = "BEFORE_VERIFY" => \A v \in App : pc'[v] = pc[v]
    BY <1>2, <2>2, <2>3
  <2> QED BY <1>1, <2>1, <2>4, <2>5 DEF WaitingInv
<1>7. ASSUME NEW w \in Writer, Write(w) PROVE WaitingInv'
  <2>1. UNCHANGED <<kicked, pAuth, gAuth, raced, logic, state, len, cmd>>
    BY <1>7 DEF Write, game, proxy, call
  <2>2. Wrapping(w) /\ pc'[w] = "idle" /\ \A v \in Writer \ {w} : pc'[v] = pc[v]
    BY <1>7 DEF Write, Wrapping, TypeOK
  <2>3. gAuth = "BEFORE_VERIFY" => w = "strand" /\ \A v \in App : pc'[v] = pc[v]
    BY <1>1, <1>2, <2>2 DEF Wrapping
  <2>4. ASSUME pAuth = "BEFORE_VERIFY"
        PROVE  up' # <<>> /\ IsRequest(up'[1].len, up'[1].cmd)
    <3>1. w = "strand" /\ ~raced /\ state = "CONNECTING"
      BY <1>1, <2>2, <2>3, <2>4 DEF NumberInv, SeqInv, TypeOK
    <3>2. PICK seq \in {new[w], gSeq}, sum \in (IF len[w] = 0 THEN {0} ELSE Sums) :
            up' = Append(up, Wrap(len[w], cmd[w], seq, sum))
      BY <1>7, <3>1 DEF Write
    <3>3. seq \in Number /\ sum \in Sums \cup {0} /\ len[w] \in Lengths /\ cmd[w] \in Commands
      BY DEF TypeOK, Lengths, Commands
    <3>4. PICK f \in Frames : /\ f = Wrap(len[w], cmd[w], seq, sum)
                             /\ f.len = len[w] /\ f.cmd = cmd[w]
      BY <3>3, WrapType
    <3>5. up \in Seq(Frames) /\ up' = Append(up, f) /\ Len(up) \in Nat /\ (up = <<>> <=> Len(up) = 0)
      BY <3>2, <3>4, LenProperties, EmptySeq DEF TypeOK
    <3>6. /\ up' # <<>> /\ (\A i \in 1..Len(up) : up'[i] = up[i]) /\ up'[Len(up) + 1] = f
      BY <3>5, AppendProperties
    <3>7. CASE up = <<>>
      <4>1. up'[1] = f
        BY <3>5, <3>6, <3>7
      <4>2. IsRequest(len["strand"], cmd["strand"])
        BY <1>1, <2>2, <2>4, <3>1, <3>7 DEF Requesting, Wrapping
      <4> QED BY <3>1, <3>4, <3>6, <4>1, <4>2
    <3>8. CASE up # <<>>
      <4>1. 1 \in 1..Len(up)
        BY SMT, <3>5, <3>8
      <4> QED BY <1>1, <2>4, <3>6, <3>8, <4>1
    <3> QED BY <3>7, <3>8
  <2> QED BY <1>1, <2>1, <2>3, <2>4 DEF WaitingInv
<1>8. CASE unwrap_received_data
  <2>1. UNCHANGED <<kicked, pAuth, raced, logic, up, state, pc, len, cmd>>
    BY <1>8 DEF unwrap_received_data, writers, call, proxy
  <2>2. gAuth' = "BEFORE_VERIFY" => gAuth = "BEFORE_VERIFY"
    BY <1>8 DEF unwrap_received_data, Verdict
  <2>3. Requesting' <=> Requesting
    BY <2>1 DEF Requesting, Wrapping
  <2> QED BY <1>1, <2>1, <2>2, <2>3 DEF WaitingInv
<1>9. CASE Receive
  <2>1. UNCHANGED <<kicked, gAuth, raced, state, pc>>
    BY <1>9 DEF Receive, writers, game
  <2>2. CASE pAuth # "BEFORE_VERIFY"
    <3>1. UNCHANGED <<logic, pAuth>>
      BY <1>9, <2>2 DEF Receive
    <3> QED BY <1>1, <2>1, <2>2, <3>1 DEF WaitingInv
  <2>3. CASE pAuth = "BEFORE_VERIFY"
    <3>1. up # <<>> /\ up \in Seq(Frames) /\ Len(up) \in Nat /\ (up = <<>> <=> Len(up) = 0)
      BY <1>9, LenProperties, EmptySeq DEF Receive, TypeOK
    <3>2. 1 \in 1..Len(up) /\ Head(up) = up[1]
      BY SMT, <3>1
    <3>3. Verifies(Head(up)) /\ IsRequest(Head(up).len, Head(up).cmd)
      BY <1>1, <2>3, <3>1, <3>2 DEF AllVerify
    <3>4. Expected(Head(up))
      BY <1>1, <2>3, <3>1, TailInOrder DEF NumberInv, SeqInv, Expected
    <3>5. Passes(Head(up)) = {TRUE}
      BY <3>3 DEF Passes, IsRequest
    <3>6. verify_authentication(Head(up))
      BY <1>1, <1>9, <2>3, <3>3, <3>4 DEF Receive
    <3>7. pAuth' = "VERIFY_SUCC"
      BY <3>5, <3>6 DEF verify_authentication
    <3> QED BY <1>1, <2>1, <3>7 DEF WaitingInv
  <2> QED BY <2>2, <2>3
<1>10. CASE EndOfStream \/ Kick
  BY <1>1, <1>10 DEF EndOfStream, Kick
<1>11. CASE ProxyTick \/ UNCHANGED vars
  <2>1. UNCHANGED <<kicked, pAuth, gAuth, raced, logic, up, state, pc, len, cmd>>
    BY <1>11 DEF ProxyTick, vars, writers, call, game, proxy
  <2>2. Requesting' <=> Requesting
    BY <2>1 DEF Requesting, Wrapping
  <2> QED BY <1>1, <2>1, <2>2 DEF WaitingInv
<1> QED
  BY <1>2, <1>3, <1>4, <1>5, <1>6, <1>7, <1>8, <1>9, <1>10, <1>11
  DEF Next, Strand, Proxy, Wrap_to_send_data, keep_alive, send_verify_authentication

\* A game server whose application waits for the answer is never refused by
\* the proxy, nor kicked.
THEOREM WaitingServersStay == Spec => []WaitingServerNeverKicked
<1> DEFINE Inv == TypeOK /\ VerdictInv /\ NumberInv /\ AllVerify /\ WaitingInv
<1>1. Init => Inv
  BY InitType, InitVerdict, InitNumbers, InitVerify, InitWaiting
<1>2. Inv /\ [Next]_vars => Inv'
  BY StepType, VerdictStep, NumberStep, AllVerifyStep, WaitingStep
<1>3. Inv => WaitingServerNeverKicked
  BY DEF WaitingInv, WaitingServerNeverKicked
<1> QED
  BY <1>1, <1>2, <1>3, PTL DEF Spec

(***************************************************************************)
(* Both ends in step.  Whatever overlaps, every increment of _seq that is  *)
(* not lost becomes a frame, and every frame is counted: up to multiples   *)
(* of the width, _seq is ahead of the proxy's count by the frames on their *)
(* way and those whose number has been taken.                              *)
(***************************************************************************)
Taken == {w \in Writer : pc[w] = "stored"}
Ahead(g, p, n) == \E k \in Int : g - p + k * SeqWidth = n
LagInv ==
  /\ IsFiniteSet(Taken)
  /\ state = "WAIT_CONNECT" => \A w \in Writer : ~Wrapping(w)
  /\ state # "CLOSE_DONE" /\ ~lost => Ahead(gSeq, pSeq, Len(up) + Cardinality(Taken))

LEMMA IncAdds ==
  ASSUME NEW n \in Number
  PROVE  Inc(n) = n + 1 \/ Inc(n) = n + 1 - SeqWidth
<1>1. SeqWidth \in Nat \ {0}
  BY LinkAssumption
<1> QED
  BY SMT, <1>1 DEF Inc, Number

\* One more number taken, and one frame less to be counted.
LEMMA AheadSteps ==
  ASSUME NEW g \in Number, NEW p \in Number, NEW n \in Int, Ahead(g, p, n)
  PROVE  Ahead(Inc(g), p, n + 1) /\ Ahead(g, Inc(p), n - 1)
<1>1. SeqWidth \in Nat /\ g \in Int /\ p \in Int
  BY LinkAssumption DEF Number
<1>2. PICK k \in Int : g - p + k * SeqWidth = n
  BY DEF Ahead
<1>3. /\ k - 1 \in Int /\ (k - 1) * SeqWidth = k * SeqWidth - SeqWidth
      /\ k + 1 \in Int /\ (k + 1) * SeqWidth = k * SeqWidth + SeqWidth
      /\ k * SeqWidth \in Int
  BY SMT, <1>1
<1>4. \E j \in Int : Inc(g) - p + j * SeqWidth = n + 1
  <2>1. CASE Inc(g) = g + 1
    <3>1. Inc(g) - p + k * SeqWidth = n + 1
      BY <1>1, <1>2, <1>3, <2>1
    <3> QED BY <3>1
  <2>2. CASE Inc(g) = g + 1 - SeqWidth
    <3>1. Inc(g) - p + (k + 1) * SeqWidth = n + 1
      BY <1>1, <1>2, <1>3, <2>2
    <3> QED BY <1>3, <3>1
  <2> QED BY <2>1, <2>2, IncAdds
<1>5. \E j \in Int : g - Inc(p) + j * SeqWidth = n - 1
  <2>1. CASE Inc(p) = p + 1
    <3>1. g - Inc(p) + k * SeqWidth = n - 1
      BY <1>1, <1>2, <1>3, <2>1
    <3> QED BY <3>1
  <2>2. CASE Inc(p) = p + 1 - SeqWidth
    <3>1. g - Inc(p) + (k - 1) * SeqWidth = n - 1
      BY <1>1, <1>2, <1>3, <2>2
    <3> QED BY <1>3, <3>1
  <2> QED BY <2>1, <2>2, IncAdds
<1> QED BY <1>4, <1>5 DEF Ahead

\* Numbers that are nothing apart are the same.
LEMMA AheadOfNone ==
  ASSUME NEW g \in Number, NEW p \in Number, Ahead(g, p, 0)
  PROVE  g = p
<1>1. /\ SeqWidth \in Nat \ {0} /\ g \in Int /\ p \in Int
      /\ g - p < SeqWidth /\ p - g < SeqWidth
  BY LinkAssumption DEF Number
<1>2. PICK k \in Int : g - p + k * SeqWidth = 0
  BY DEF Ahead
<1>3. k >= 1 => k * SeqWidth >= SeqWidth
  BY SMT, <1>1
<1>4. k <= 0 - 1 => k * SeqWidth <= 0 - SeqWidth
  BY SMT, <1>1
<1>5. k = 0 /\ k * SeqWidth = 0
  BY SMT, <1>1, <1>2, <1>3, <1>4
<1> QED BY <1>1, <1>2, <1>5

LEMMA InitLag == Init => LagInv
<1> SUFFICES ASSUME Init PROVE LagInv
  OBVIOUS
<1>1. Taken = {} /\ (\A w \in Writer : ~Wrapping(w))
  BY DEF Init, Taken, Wrapping
<1>2. IsFiniteSet(Taken) /\ Cardinality(Taken) = 0
  BY <1>1, FS_EmptySet
<1>3. gSeq = 0 /\ pSeq = 0 /\ Len(up) = 0
  BY DEF Init
<1>4. SeqWidth \in Nat
  BY LinkAssumption
<1>5. gSeq - pSeq + 0 * SeqWidth = Len(up) + Cardinality(Taken)
  BY SMT, <1>2, <1>3, <1>4
<1> QED BY <1>1, <1>2, <1>5 DEF LagInv, Ahead

\* Steps that take no number, write no frame and count none.
LEMMA OtherLag ==
  ASSUME LagInv, UNCHANGED <<gSeq, pSeq, up, lost>>,
         \A w \in Writer : pc'[w] = "stored" <=> pc[w] = "stored",
         state' = "WAIT_CONNECT" => state = "WAIT_CONNECT" /\ pc' = pc,
         state' # "CLOSE_DONE" => state # "CLOSE_DONE"
  PROVE  LagInv'
<1>1. Taken' = Taken
  BY DEF Taken
<1>2. state' = "WAIT_CONNECT" => \A w \in Writer : ~Wrapping(w)'
  BY DEF LagInv, Wrapping
<1> QED BY <1>1, <1>2 DEF LagInv

LEMMA LagStep == TypeOK /\ LagInv /\ [Next]_vars => LagInv'
<1> SUFFICES ASSUME TypeOK, LagInv, [Next]_vars PROVE LagInv'
  OBVIOUS
<1>n. /\ IsFiniteSet(Taken) /\ Cardinality(Taken) \in Nat
      /\ up \in Seq(Frames) /\ Len(up) \in Nat
  BY FS_CardinalityType, LenProperties DEF LagInv, TypeOK
<1>1. ASSUME NEW w \in Writer, NEW l, Begin(w, l), pc[w] \in {"idle", "connected"} PROVE LagInv'
  BY <1>1, OtherLag DEF Begin, game, proxy, TypeOK
<1>2. ASSUME NEW w \in Writer, LoadSeq(w) PROVE LagInv'
  <2>1. UNCHANGED <<gSeq, pSeq, up, lost, state>> /\ pc[w] = "wrap" /\ pc' = [pc EXCEPT ![w] = "loaded"]
    BY <1>2 DEF LoadSeq, game, proxy
  <2>2. state # "WAIT_CONNECT"
    BY <2>1 DEF LagInv, Wrapping
  <2> QED BY <2>1, <2>2, OtherLag DEF TypeOK
<1>3. ASSUME NEW w \in Writer, StoreSeq(w) PROVE LagInv'
  <2>1. /\ pc[w] = "loaded" /\ pc' = [pc EXCEPT ![w] = "stored"]
        /\ gSeq' = Inc(old[w]) /\ lost' = (lost \/ gSeq # old[w])
        /\ UNCHANGED <<pSeq, up, state>>
    BY <1>3 DEF StoreSeq, proxy
  <2>2. state # "WAIT_CONNECT"
    BY <2>1 DEF LagInv, Wrapping
  <2>3. Taken' = Taken \cup {w} /\ w \notin Taken
    BY <2>1 DEF Taken, TypeOK
  <2>4. IsFiniteSet(Taken') /\ Cardinality(Taken') = Cardinality(Taken) + 1
    BY <1>n, <2>3, FS_AddElement
  <2>5. ASSUME state # "CLOSE_DONE", ~lost'
        PROVE  Ahead(gSeq', pSeq, Len(up) + Cardinality(Taken'))
    <3>1. ~lost /\ gSeq' = Inc(gSeq)
      BY <2>1, <2>5
    <3>2. Ahead(gSeq, pSeq, Len(up) + Cardinality(Taken))
      BY <2>5, <3>1 DEF LagInv
    <3>3. Ahead(Inc(gSeq), pSeq, Len(up) + Cardinality(Taken) + 1)
      BY <1>n, <3>2, AheadSteps DEF TypeOK
    <3>4. Len(up) + Cardinality(Taken) + 1 = Len(up) + Cardinality(Taken')
      BY <1>n, <2>4
    <3> QED BY <3>1, <3>3, <3>4
  <2> QED BY <2>1, <2>2, <2>4, <2>5 DEF LagInv
<1>4. ASSUME NEW w \in Writer, Write(w) PROVE LagInv'
  <2>1. /\ pc[w] = "stored" /\ pc' = [pc EXCEPT ![w] = "idle"]
        /\ UNCHANGED <<gSeq, pSeq, lost, state>>
    BY <1>4 DEF Write, game, proxy
  <2>2. state # "WAIT_CONNECT"
    BY <2>1 DEF LagInv, Wrapping
  <2>3. Taken' = Taken \ {w} /\ w \in Taken
    BY <2>1 DEF Taken, TypeOK
  <2>4. IsFiniteSet(Taken') /\ Cardinality(Taken') = Cardinality(Taken) - 1
    BY <1>n, <2>3, FS_RemoveElement
  <2>5. ASSUME state # "CLOSE_DONE"
        PROVE  Len(up') + Cardinality(Taken') = Len(up) + Cardinality(Taken)
    <3>1. state = "CONNECTING"
      BY <2>2, <2>5 DEF TypeOK
    <3>2. PICK seq \in {new[w], gSeq}, sum \in (IF len[w] = 0 THEN {0} ELSE Sums) :
            up' = Append(up, Wrap(len[w], cmd[w], seq, sum))
      BY <1>4, <3>1 DEF Write
    <3>3. /\ seq \in Number /\ sum \in Sums \cup {0}
          /\ len[w] \in Lengths /\ cmd[w] \in Commands
      BY DEF TypeOK, Lengths, Commands
    <3>4. PICK f \in Frames : f = Wrap(len[w], cmd[w], seq, sum)
      BY <3>3, WrapType
    <3>5. Len(up') = Len(up) + 1
      BY <1>n, <3>2, <3>4, AppendProperties
    <3> QED BY <1>n, <2>4, <3>5
  <2> QED BY <2>1, <2>2, <2>4, <2>5 DEF LagInv
<1>5. CASE Receive
  <2>1. UNCHANGED <<gSeq, lost, state, pc>> /\ up # <<>> /\ up' = Tail(up)
    BY <1>5 DEF Receive, game, writers
  <2>2. pSeq' = Inc(pSeq)
    BY <1>5 DEF Receive, verify_authentication, Counted, Inherited
  <2>3. Len(up') = Len(up) - 1
    BY <1>n, <2>1, HeadTailProperties
  <2>4. Taken' = Taken
    BY <2>1 DEF Taken
  <2>5. ASSUME state # "CLOSE_DONE", ~lost
        PROVE  Ahead(gSeq, pSeq', Len(up') + Cardinality(Taken))
    <3>1. Ahead(gSeq, pSeq, Len(up) + Cardinality(Taken))
      BY <2>5 DEF LagInv
    <3>2. Ahead(gSeq, Inc(pSeq), Len(up) + Cardinality(Taken) - 1)
      BY <1>n, <3>1, AheadSteps DEF TypeOK
    <3>3. Len(up) + Cardinality(Taken) - 1 = Len(up') + Cardinality(Taken)
      BY <1>n, <2>3
    <3> QED BY <2>2, <3>2, <3>3
  <2> QED BY <2>1, <2>4, <2>5 DEF LagInv, Wrapping
<1>6. CASE Connected
  <2>1. /\ UNCHANGED <<gSeq, pSeq, up, lost>> /\ state = "WAIT_CONNECT" /\ state' = "CONNECTING"
        /\ pc' = [pc EXCEPT !["strand"] = "connected"]
    BY <1>6 DEF Connected, proxy
  <2>2. \A w \in Writer : pc'[w] # "stored" /\ pc[w] # "stored"
    BY <2>1 DEF LagInv, Wrapping, TypeOK
  <2> QED BY <2>1, <2>2, OtherLag
<1>7. CASE unwrap_received_data \/ EndOfStream \/ Kick \/ ProxyTick \/ UNCHANGED vars
  <2>1. UNCHANGED <<gSeq, up, pSeq, lost, pc>> /\ (state' = state \/ state' = "CLOSE_DONE")
    BY <1>7 DEF unwrap_received_data, EndOfStream, Kick, ProxyTick, vars, writers, call, game, proxy
  <2> QED BY <2>1, OtherLag
<1>8. App \subseteq Writer /\ "strand" \in Writer
  BY DEF Writer
<1> QED
  BY <1>1, <1>2, <1>3, <1>4, <1>5, <1>6, <1>7, <1>8
  DEF Next, Strand, Proxy, Wrap_to_send_data, send, keep_alive, send_verify_authentication

\* When all that was sent is received both ends are in step, whatever sends
\* have overlapped and whatever was refused, unless an increment of _seq was
\* lost.
THEOREM InStepAgain == Spec => []InStepUnlessLost
<1>1. TypeOK /\ LagInv => InStepUnlessLost
  <2> SUFFICES ASSUME TypeOK, LagInv, \A w \in Writer : ~Wrapping(w), up = <<>>,
                      state # "CLOSE_DONE", ~lost
               PROVE  pSeq = gSeq
    BY DEF InStepUnlessLost
  <2>1. Taken = {}
    BY DEF Taken, Wrapping
  <2>2. Len(up) + Cardinality(Taken) = 0
    BY <2>1, FS_EmptySet
  <2>3. Ahead(gSeq, pSeq, 0)
    BY <2>2 DEF LagInv
  <2> QED BY <2>3, AheadOfNone DEF TypeOK
<1>2. Init => TypeOK /\ LagInv
  BY InitType, InitLag
<1>3. TypeOK /\ LagInv /\ [Next]_vars => (TypeOK /\ LagInv)'
  BY StepType, LagStep
<1> QED
  BY <1>1, <1>2, <1>3, PTL DEF Spec

=============================================================================
