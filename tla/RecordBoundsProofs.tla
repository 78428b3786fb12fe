------------------------- MODULE RecordBoundsProofs -------------------------
(***************************************************************************)
(* What runs the programs of a schema stays within its words, its buffers  *)
(* and its records, whatever the programs compute from whatever was read.  *)
(*                                                                         *)
(* Ranged says what the numbers and octets of a context are, and Moves     *)
(* that an operation leaves such a context behind, in the same place.      *)
(* Every operation has a lemma about that (...Moves), and every handler    *)
(* is a chain of them.                                                     *)
(***************************************************************************)
EXTENDS RecordExchangeProofs

-----------------------------------------------------------------------------
(* Contexts                                                                  *)

UWord == 0 .. MaxWord

\* record_position() of a context in the call c.
Reached(c, w) == IF c.decode THEN w.pos - Bool(w.bits # 0) ELSE Len(w.out)

CallRanged(c) ==
  /\ c.decode \in BOOLEAN /\ c.room \in UWord
  /\ c.input \in Seq(Byte) /\ Len(c.input) <= MaxWord

ContextFields == {"message", "record", "depth", "index", "base", "fstack", "out", "pos", "bits",
                  "acc", "overrun", "status", "crc", "rows", "pc"}

Ranged(c, w) ==
  /\ ContextFields \subseteq DOMAIN w
  /\ w.fstack \in Seq(UWord)
  /\ w.out \in Seq(Byte) /\ Len(w.out) <= c.room
  /\ w.pos \in 0 .. Len(c.input)
  /\ w.bits \in 0 .. 7 /\ w.acc \in 0 .. 2^w.bits - 1
  /\ w.base \in Nat /\ w.base <= Reached(c, w)
  /\ w.index \in UWord
  /\ w.crc.at \in Nat /\ w.crc.from \in Nat

SamePlace(old, w) ==
  /\ w.message = old.message /\ w.record = old.record /\ w.depth = old.depth
  /\ w.index = old.index /\ w.base = old.base /\ w.rows = old.rows

\* What an operation has made of the context old.
Moves(old, w) == Ranged(call, w) /\ SamePlace(old, w)

LEMMA ByteWidth ==
  /\ BYTE_BITS = 8 /\ WORD_BYTES \in Nat /\ WORD_BYTES >= 2
  /\ WordBits \in Nat /\ WordBits = WORD_BYTES * 8 /\ WordBits >= 16
  /\ Byte = 0 .. 255 /\ Byte \subseteq UWord
<1>1. BYTE_BITS = 8 /\ WORD_BYTES \in Nat /\ WORD_BYTES >= 2
  BY OctetsAssumption, WordBytesAssumption
<1>2. WordBits \in Nat /\ WordBits = WORD_BYTES * 8 /\ WordBits >= 16
  BY <1>1 DEF WordBits
<1>3. Byte = 0 .. 255 /\ MaxWord \in Nat /\ MaxWord >= 65535
  BY SmallWords DEF Byte
<1> QED BY <1>1, <1>2, <1>3 DEF UWord

LEMMA PlaceIsReached ==
  ASSUME NEW w
  PROVE  Position(w) = Reached(call, w)
BY DEF Position, Reached, Encoding

LEMMA ReachedFits ==
  ASSUME NEW c, CallRanged(c), NEW w, Ranged(c, w)
  PROVE  /\ Reached(c, w) \in UWord
         /\ c.decode => Reached(c, w) <= Len(c.input)
         /\ ~c.decode => Reached(c, w) <= c.room
<1>1. PICK n \in Nat : n = Len(w.out) /\ n <= c.room
  BY DEF Ranged
<1>2. PICK pos \in 0 .. Len(c.input) : pos = w.pos
  BY DEF Ranged
<1>3. PICK k \in Nat : k = Len(c.input) /\ k <= MaxWord
  BY DEF CallRanged
<1>4. MaxWord \in Nat /\ c.room \in 0 .. MaxWord
  BY SmallWords DEF CallRanged, UWord
<1>5. Reached(c, w) \in Nat
  <2>1. w.base \in Nat /\ w.base <= Reached(c, w)
    BY DEF Ranged
  <2>2. Reached(c, w) \in Int
    BY <1>1, <1>2, <1>3 DEF Reached, Bool
  <2> QED BY <2>1, <2>2
<1>6. CASE c.decode
  <2>1. Reached(c, w) <= k
    BY <1>2, <1>3, <1>6 DEF Reached, Bool
  <2> QED BY <1>3, <1>4, <1>5, <1>6, <2>1 DEF UWord
<1>7. CASE ~c.decode
  <2>1. Reached(c, w) = n
    BY <1>1, <1>7 DEF Reached
  <2> QED BY <1>1, <1>4, <1>7, <2>1 DEF UWord
<1> QED BY <1>6, <1>7

LEMMA MinOfTwo ==
  ASSUME NEW a \in Int, NEW b \in Int
  PROVE  Min({a, b}) \in {a, b} /\ Min({a, b}) <= a /\ Min({a, b}) <= b
BY DEF Min

\* A part of a sequence.
LEMMA PartOfSeq ==
  ASSUME NEW S, NEW s \in Seq(S), NEW a \in Nat \ {0}, NEW b \in Int, b <= Len(s)
  PROVE  /\ SubSeq(s, a, b) \in Seq(S)
         /\ Len(SubSeq(s, a, b)) = IF a <= b THEN b - a + 1 ELSE 0
         /\ \A i \in 1 .. Len(SubSeq(s, a, b)) : SubSeq(s, a, b)[i] = s[a + i - 1]
<1>1. \A i \in a .. b : s[i] \in S
  BY LenProperties, ElementOfSeq
<1> QED BY <1>1, SubSeqProperties

-----------------------------------------------------------------------------
(* Operations                                                                *)

LEMMA FailMoves ==
  ASSUME NEW old, NEW w, Moves(old, w), NEW status
  PROVE  Moves(old, Fail(w, status)) /\ Fail(w, status).overrun
BY DEF Moves, Ranged, SamePlace, Reached, Fail, ContextFields

\* What the other fields of a context may become.
LEMMA StackMoves ==
  ASSUME NEW old, NEW w, Moves(old, w), NEW s \in Seq(UWord)
  PROVE  Moves(old, [w EXCEPT !.fstack = s])
BY DEF Moves, Ranged, SamePlace, Reached, ContextFields

LEMMA StopMoves ==
  ASSUME NEW old, NEW w, Moves(old, w), NEW x
  PROVE  Moves(old, [w EXCEPT !.overrun = x])
BY DEF Moves, Ranged, SamePlace, Reached, ContextFields

LEMMA OutMoves ==
  ASSUME NEW old, NEW w, Moves(old, w), NEW x \in Seq(Byte), Len(w.out) <= Len(x),
         Len(x) <= call.room
  PROVE  Moves(old, [w EXCEPT !.out = x])
<1>1. PICK v : v = [w EXCEPT !.out = x]
  OBVIOUS
<1>2. SamePlace(old, v) /\ ContextFields \subseteq DOMAIN v
  BY <1>1 DEF Moves, Ranged, SamePlace, ContextFields
<1>3. Len(w.out) \in Nat /\ Len(x) \in Nat
  BY DEF Moves, Ranged
<1>4. w.base \in Nat /\ w.base <= Reached(call, v)
  BY <1>1, <1>3 DEF Moves, Ranged, Reached, ContextFields
<1> QED BY <1>1, <1>2, <1>4 DEF Moves, Ranged, ContextFields

LEMMA ReadMoves ==
  ASSUME NEW old, NEW w, Moves(old, w), NEW x \in w.pos .. Len(call.input)
  PROVE  Moves(old, [w EXCEPT !.pos = x])
<1>1. PICK v : v = [w EXCEPT !.pos = x]
  OBVIOUS
<1>2. SamePlace(old, v) /\ ContextFields \subseteq DOMAIN v
  BY <1>1 DEF Moves, Ranged, SamePlace, ContextFields
<1>3. w.pos \in Nat /\ x \in 0 .. Len(call.input) /\ w.pos <= x
  BY DEF Moves, Ranged
<1>4. w.base \in Nat /\ w.base <= Reached(call, v)
  BY <1>1, <1>3 DEF Moves, Ranged, Reached, ContextFields, Bool
<1> QED BY <1>1, <1>2, <1>3, <1>4 DEF Moves, Ranged, ContextFields

LEMMA CrcMoves ==
  ASSUME NEW old, NEW w, Moves(old, w), NEW crc, crc.at \in Nat, crc.from \in Nat
  PROVE  Moves(old, [w EXCEPT !.crc = crc])
BY DEF Moves, Ranged, SamePlace, Reached, ContextFields

\* fs_pop() and fs_push()
LEMMA OperandRanged ==
  ASSUME NEW c, NEW w, Ranged(c, w), NEW i \in 1 .. 4
  PROVE  Operand(w, i) \in UWord
<1>1. PICK s \in Seq(UWord) : s = w.fstack
  BY DEF Ranged
<1>2. 0 \in UWord
  BY SmallWords DEF UWord
<1>3. i <= Len(s) => s[Len(s) - i + 1] \in UWord
  <2> SUFFICES ASSUME i <= Len(s) PROVE s[Len(s) - i + 1] \in UWord
    OBVIOUS
  <2>1. Len(s) \in Nat /\ Len(s) - i + 1 \in 1 .. Len(s)
    BY LenProperties
  <2> QED BY <2>1, ElementOfSeq
<1> QED BY <1>1, <1>2, <1>3 DEF Operand

LEMMA PoppedMoves ==
  ASSUME NEW old, NEW w, Moves(old, w), NEW k \in Nat
  PROVE  Moves(old, Popped(w, k))
<1>1. CASE w.overrun
  BY <1>1 DEF Popped
<1>2. CASE ~w.overrun /\ k <= Len(w.fstack)
  <2>1. PICK s : s = SubSeq(w.fstack, 1, Len(w.fstack) - k)
    OBVIOUS
  <2>2. s \in Seq(UWord)
    <3>1. w.fstack \in Seq(UWord) /\ Len(w.fstack) \in Nat
      BY DEF Moves, Ranged
    <3>2. 1 \in Nat \ {0} /\ Len(w.fstack) - k \in Int /\ Len(w.fstack) - k <= Len(w.fstack)
      BY <3>1
    <3> QED BY <2>1, <3>1, <3>2, PartOfSeq
  <2>3. Popped(w, k) = [w EXCEPT !.fstack = s]
    BY <1>2, <2>1 DEF Popped
  <2> QED BY <2>2, <2>3, StackMoves
<1>3. CASE ~w.overrun /\ ~(k <= Len(w.fstack))
  <2>1. PICK v : v = [w EXCEPT !.fstack = <<>>]
    OBVIOUS
  <2>2. Moves(old, v)
    <3>1. <<>> \in Seq(UWord)
      OBVIOUS
    <3> QED BY <2>1, <3>1, StackMoves
  <2>3. Popped(w, k) = [v EXCEPT !.overrun = TRUE]
    BY <1>3, <2>1 DEF Popped
  <2> QED BY <2>2, <2>3, StopMoves
<1> QED BY <1>1, <1>2, <1>3

LEMMA PushMoves ==
  ASSUME NEW old, NEW w, Moves(old, w), NEW n, n \in UWord \/ w.overrun
  PROVE  Moves(old, Push(w, n))
<1>1. CASE w.overrun
  BY <1>1 DEF Push
<1>2. CASE ~w.overrun /\ Len(w.fstack) < STACK_DEPTH
  <2>1. PICK s : s = Append(w.fstack, n)
    OBVIOUS
  <2>2. s \in Seq(UWord)
    <3>1. w.fstack \in Seq(UWord)
      BY DEF Moves, Ranged
    <3> QED BY <1>2, <2>1, <3>1, AppendProperties
  <2>3. Push(w, n) = [w EXCEPT !.fstack = s]
    BY <1>2, <2>1 DEF Push
  <2> QED BY <2>2, <2>3, StackMoves
<1>3. CASE ~w.overrun /\ ~(Len(w.fstack) < STACK_DEPTH)
  BY <1>3, StopMoves DEF Push
<1> QED BY <1>1, <1>2, <1>3

\* b_emit()
LEMMA RoomLeft ==
  ASSUME CallRanged(call), NEW w, Ranged(call, w)
  PROVE  /\ Room(w) \in UWord /\ Len(w.out) + Room(w) = call.room
         /\ Unread(w) \in UWord /\ w.pos \in Nat /\ w.pos + Unread(w) = Len(call.input)
<1>1. PICK n \in Nat : n = Len(w.out) /\ n <= call.room
  BY DEF Ranged
<1>2. PICK k \in Nat : k = Len(call.input) /\ k <= MaxWord
  BY DEF CallRanged
<1>3. PICK pos \in 0 .. k : pos = w.pos
  BY <1>2 DEF Ranged
<1>4. MaxWord \in Nat /\ call.room \in 0 .. MaxWord
  BY SmallWords DEF CallRanged, UWord
<1> QED BY <1>1, <1>2, <1>3, <1>4, SMTT(30) DEF Room, Unread, UWord

LEMMA EmitMoves ==
  ASSUME CallRanged(call), NEW old, NEW w, Moves(old, w), NEW octets \in Seq(Byte)
  PROVE  Moves(old, Emit(w, octets))
<1>1. CASE w.overrun
  BY <1>1 DEF Emit
<1>2. CASE ~w.overrun
  <2>1. PICK k : k = Min({Room(w), Len(octets)})
    OBVIOUS
  <2>2. /\ Len(octets) \in Nat /\ Room(w) \in Nat /\ Len(w.out) \in Nat
        /\ Len(w.out) + Room(w) = call.room
    <3>1. Ranged(call, w)
      BY DEF Moves
    <3>2. Len(octets) \in Nat /\ Len(w.out) \in Nat
      BY <3>1, LenProperties DEF Ranged
    <3>3. Room(w) \in UWord /\ Len(w.out) + Room(w) = call.room
      BY <3>1, RoomLeft
    <3> QED BY <3>2, <3>3 DEF UWord
  <2>3. k \in Nat /\ k <= Room(w) /\ k <= Len(octets)
    <3>1. PICK a \in Nat, b \in Nat : a = Room(w) /\ b = Len(octets)
      BY <2>2
    <3>2. Min({a, b}) \in {a, b} /\ Min({a, b}) <= a /\ Min({a, b}) <= b
      <4>1. a \in Int /\ b \in Int
        OBVIOUS
      <4> QED BY <4>1, MinOfTwo, Zenon
    <3> QED BY <2>1, <3>1, <3>2
  <2>4. PICK part : part = SubSeq(octets, 1, k)
    OBVIOUS
  <2>5. part \in Seq(Byte) /\ Len(part) = k
    <3>1. 1 \in Nat \ {0} /\ k \in Int
      BY <2>3
    <3> QED BY <2>3, <2>4, <3>1, PartOfSeq
  <2>6. PICK out : out = w.out \o part
    OBVIOUS
  <2>7. out \in Seq(Byte) /\ Len(out) = Len(w.out) + k
    BY <2>5, <2>6, ConcatProperties DEF Moves, Ranged
  <2>8. PICK v : v = [w EXCEPT !.out = out]
    OBVIOUS
  <2>9. Moves(old, v)
    <3>1. Len(w.out) <= Len(out) /\ Len(out) <= call.room
      BY <2>2, <2>3, <2>7
    <3> QED BY <2>7, <2>8, <3>1, OutMoves
  <2>10. Emit(w, octets) = [v EXCEPT !.overrun = Len(octets) > Room(w)]
    BY <1>2, <2>1, <2>4, <2>6, <2>8 DEF Emit
  <2>11. \A x : Moves(old, [v EXCEPT !.overrun = x])
    BY <2>9, StopMoves
  <2> QED BY <2>10, <2>11, Zenon
<1> QED BY <1>1, <1>2

\* A context that is not at the start of an octet fails.
LEMMA AlignedMoves ==
  ASSUME NEW old, NEW w, Moves(old, w)
  PROVE  Moves(old, Aligned(w)) /\ (Aligned(w).overrun \/ (Aligned(w) = w /\ w.bits = 0))
BY FailMoves DEF Aligned

LEMMA AlignedUnlessOverMoves ==
  ASSUME NEW old, NEW w, Moves(old, w)
  PROVE  /\ Moves(old, AlignedUnlessOver(w))
         /\ \/ AlignedUnlessOver(w).overrun
            \/ AlignedUnlessOver(w) = w /\ w.bits = 0
BY AlignedMoves DEF AlignedUnlessOver

\* The bits that an encoder has pending.
LEMMA PendingMoves ==
  ASSUME ~call.decode, NEW old, NEW w, Moves(old, w), NEW bits \in 0 .. 7,
         NEW acc \in 0 .. 2^bits - 1
  PROVE  Moves(old, [w EXCEPT !.bits = bits, !.acc = acc])
BY DEF Moves, Ranged, SamePlace, Reached, ContextFields

LEMMA BytesAreSeq ==
  ASSUME NEW k \in Nat, NEW s \in [1 .. k -> Byte]
  PROVE  s \in Seq(Byte) /\ Len(s) = k
<1>1. s \in Seq(Byte) /\ DOMAIN s = 1 .. k
  OBVIOUS
<1> QED BY <1>1

\* record_bits() of an encoder
LEMMA EmitBitsMoves ==
  ASSUME CallRanged(call), ~call.decode, NEW old, NEW w, Moves(old, w), NEW value \in Nat,
         NEW width \in Nat
  PROVE  Moves(old, EmitBits(w, value, width))
<1>1. CASE w.overrun
  BY <1>1 DEF EmitBits
<1>2. CASE ~w.overrun /\ (width > WordBits \/ (width < WordBits /\ value >= 2 ^ width))
  <2>1. EmitBits(w, value, width) = Fail(w, "range")
    BY <1>2 DEF EmitBits
  <2> QED BY <2>1, FailMoves
<1>3. CASE ~w.overrun /\ ~(width > WordBits \/ (width < WordBits /\ value >= 2 ^ width))
  <2>1. /\ WordBits \in Nat /\ WordBits = WORD_BYTES * 8 /\ BYTE_BITS = 8 /\ WORD_BYTES \in Nat
        /\ width <= WordBits
    BY <1>3, ByteWidth
  <2>2. PICK before \in 0 .. 7, acc \in Nat : before = w.bits /\ acc = w.acc
    <3>1. w.bits \in 0 .. 7 /\ w.acc \in Nat
      BY DEF Moves, Ranged
    <3> QED BY <3>1
  <2>3. PICK bits \in Nat : bits = before + width
    OBVIOUS
  <2>4. PICK k \in Nat, left \in 0 .. 7 : bits = 8 * k + left /\ bits \div 8 = k /\ bits % 8 = left
    <3>1. PICK d \in Nat \ {0} : d = 8
      OBVIOUS
    <3>0. PICK q \in Nat : \E r \in 0 .. d - 1 : bits = d * q + r
      BY DivModNat
    <3>2. PICK r \in 0 .. 7 : bits = 8 * q + r
      BY <3>0, <3>1
    <3>3. bits \div 8 = q /\ bits % 8 = r
      BY <3>2
    <3> QED BY <3>2, <3>3
  <2>5. k \in 0 .. WORD_BYTES
    BY <2>1, <2>2, <2>3, <2>4
  <2>6. PICK up \in Nat \ {0} : up = 2 ^ width
    BY <2>1, PowersFit
  <2>7. PICK down \in Nat \ {0} : down = 2 ^ left
    <3>1. left \in 0 .. WordBits
      BY <2>1, ByteWidth
    <3> QED BY <3>1, PowersFit
  <2>8. PICK all \in Nat : all = acc * up + value
    <3>1. acc * up \in Nat
      BY SMT
    <3> QED BY <3>1
  <2>9. PICK q \in Int : \E r \in 0 .. down - 1 : all = down * q + r /\ all \div down = q
                                                /\ all % down = r
    <3>1. all \in Int
      OBVIOUS
    <3> QED BY <3>1, DivMod
  <2>10. PICK r \in 0 .. down - 1 : all \div down = q /\ all % down = r
    BY <2>9
  <2>11. PICK octets : octets = BigEndian(q, k)
    OBVIOUS
  <2>12. octets \in Seq(Byte)
    <3>1. octets \in [1 .. k -> Byte]
      BY <2>5, <2>11, BigEndianBytes
    <3> QED BY <3>1, BytesAreSeq
  <2>13. PICK v : v = Emit(w, octets)
    OBVIOUS
  <2>14. Moves(old, v)
    BY <2>12, <2>13, EmitMoves
  <2>15. EmitBits(w, value, width) = [v EXCEPT !.bits = left, !.acc = r]
    <3>1. EmitBits(w, value, width) =
            [Emit(w, BigEndian((w.acc * 2 ^ width + value) \div 2 ^ ((w.bits + width) % BYTE_BITS),
                               (w.bits + width) \div BYTE_BITS)) EXCEPT
               !.bits = (w.bits + width) % BYTE_BITS,
               !.acc = (w.acc * 2 ^ width + value) % 2 ^ ((w.bits + width) % BYTE_BITS)]
      BY <1>3 DEF EmitBits
    <3>2. w.acc * 2 ^ width + value = all /\ w.bits + width = bits /\ BYTE_BITS = 8
      BY <2>1, <2>2, <2>3, <2>6, <2>8
    <3>3. bits \div 8 = k /\ bits % 8 = left /\ down = 2 ^ left
      BY <2>4, <2>7
    <3>4. all \div down = q /\ all % down = r
      BY <2>10
    <3> QED BY <2>11, <2>13, <3>1, <3>2, <3>3, <3>4, Zenon
  <2>16. left \in 0 .. 7 /\ r \in 0 .. 2^left - 1
    BY <2>7
  <2>17. Moves(old, [v EXCEPT !.bits = left, !.acc = r])
    BY <2>14, <2>16, PendingMoves
  <2> QED BY <2>15, <2>17
<1> QED BY <1>1, <1>2, <1>3

\* What a decoder has read and not yet used.
LEMMA LoadedMoves ==
  ASSUME NEW old, NEW w, Moves(old, w), NEW pos \in w.pos .. Len(call.input), NEW bits \in 0 .. 7,
         NEW acc \in 0 .. 2^bits - 1, pos = w.pos => (w.bits = 0 => bits = 0)
  PROVE  Moves(old, [w EXCEPT !.pos = pos, !.bits = bits, !.acc = acc])
<1>1. PICK v : v = [w EXCEPT !.pos = pos, !.bits = bits, !.acc = acc]
  OBVIOUS
<1>2. SamePlace(old, v) /\ ContextFields \subseteq DOMAIN v
  BY <1>1 DEF Moves, Ranged, SamePlace, ContextFields
<1>3. w.pos \in Nat /\ pos \in 0 .. Len(call.input) /\ w.pos <= pos
  BY DEF Moves, Ranged
<1>4. w.base \in Nat /\ w.base <= Reached(call, v)
  BY <1>1, <1>3 DEF Moves, Ranged, Reached, ContextFields, Bool
<1> QED BY <1>1, <1>2, <1>3, <1>4 DEF Moves, Ranged, ContextFields

\* The octets that a field of width bits needs behind those that are loaded.
Needed(before, width) ==
  IF width <= before THEN 0 ELSE (width - before + BYTE_BITS - 1) \div BYTE_BITS

LEMMA NeededFits ==
  ASSUME NEW before \in 0 .. 7, NEW width \in 0 .. WordBits
  PROVE  /\ Needed(before, width) \in 0 .. WORD_BYTES
         /\ before + Needed(before, width) * BYTE_BITS - width \in 0 .. 7
         /\ Needed(before, width) = 0 => width <= before
<1>1. WordBits \in Nat /\ WordBits = WORD_BYTES * 8 /\ BYTE_BITS = 8 /\ WORD_BYTES \in Nat
  BY ByteWidth
<1>2. CASE width <= before
  BY <1>1, <1>2 DEF Needed
<1>3. CASE width > before
  <2>1. PICK n \in Nat : n = width - before + 7
    BY <1>1, <1>3
  <2>2. PICK d \in Nat \ {0} : d = 8
    OBVIOUS
  <2>8. PICK q \in Nat : \E r \in 0 .. d - 1 : n = d * q + r
    BY DivModNat
  <2>3. PICK r \in 0 .. 7 : n = 8 * q + r
    BY <2>2, <2>8
  <2>4. n \div 8 = q
    BY <2>3
  <2>5. Needed(before, width) = q
    <3>1. (width - before + BYTE_BITS - 1) = n
      BY <1>1, <2>1
    <3> QED BY <1>1, <1>3, <2>4, <3>1 DEF Needed
  <2>6. q <= WORD_BYTES /\ q >= 1
    BY <1>1, <1>3, <2>1, <2>3
  <2>7. before + q * 8 - width \in 0 .. 7
    BY <1>1, <1>3, <2>1, <2>3
  <2> QED BY <1>1, <2>5, <2>6, <2>7
<1> QED BY <1>1, <1>2, <1>3

\* record_bits() of a decoder: the value is a word, and fits its width.
LEMMA ReadBitsMoves ==
  ASSUME CallRanged(call), NEW old, NEW w, Moves(old, w), NEW width \in Nat
  PROVE  /\ Moves(old, ReadBits(w, width).w)
         /\ ReadBits(w, width).value \in UWord
         /\ ReadBits(w, width).w.overrun \/ ReadBits(w, width).value < 2^width
<1>0. 0 \in UWord /\ Modulus \in Nat \ {0} /\ UWord = 0 .. Modulus - 1
  BY SmallWords DEF UWord
<1>1. CASE w.overrun
  <2>1. ReadBits(w, width) = [w |-> w, value |-> 0]
    BY <1>1 DEF ReadBits
  <2> QED BY <1>0, <1>1, <2>1
<1>2. CASE ~w.overrun /\ width > WordBits
  <2>1. ReadBits(w, width) = [w |-> Fail(w, "range"), value |-> 0]
    BY <1>2 DEF ReadBits
  <2> QED BY <1>0, <2>1, FailMoves
<1>3. CASE ~w.overrun /\ ~(width > WordBits)
  <2>1. /\ WordBits \in Nat /\ WordBits = WORD_BYTES * 8 /\ BYTE_BITS = 8 /\ WORD_BYTES \in Nat
        /\ width \in 0 .. WordBits
    BY <1>3, ByteWidth
  <2>2. PICK before \in 0 .. 7, acc \in 0 .. 2^w.bits - 1 : before = w.bits /\ acc = w.acc
    <3>1. w.bits \in 0 .. 7 /\ w.acc \in 0 .. 2^w.bits - 1
      BY DEF Moves, Ranged
    <3> QED BY <3>1
  <2>3. PICK octets \in 0 .. WORD_BYTES : octets = Needed(before, width)
    BY <2>1, NeededFits
  <2>4. PICK unread \in Nat, pos \in Nat :
          unread = Unread(w) /\ pos = w.pos /\ pos + unread = Len(call.input)
    <3>1. /\ Unread(w) \in UWord /\ w.pos \in Nat /\ w.pos + Unread(w) = Len(call.input)
      BY RoomLeft DEF Moves
    <3> QED BY <3>1 DEF UWord
  <2>5. PICK loaded : loaded = Min({octets, Unread(w)})
    OBVIOUS
  <2>6. loaded \in {octets, unread} /\ loaded <= octets /\ loaded <= unread
    <3>1. octets \in Int /\ unread \in Int
      OBVIOUS
    <3>2. loaded = Min({octets, unread})
      BY <2>4, <2>5
    <3> QED BY <3>1, <3>2, MinOfTwo, Zenon
  <2>7. loaded \in 0 .. WORD_BYTES /\ pos + loaded \in pos .. Len(call.input)
    BY <2>1, <2>4, <2>6
  <2>8. PICK part : part = SubSeq(call.input, pos + 1, pos + loaded)
    OBVIOUS
  <2>9. part \in [1 .. loaded -> Byte]
    <3>1. call.input \in Seq(Byte)
      BY DEF CallRanged
    <3>2. pos + 1 \in Nat \ {0} /\ pos + loaded \in Int /\ pos + loaded <= Len(call.input)
      BY <2>4, <2>6, <2>7
    <3>3. part \in Seq(Byte) /\ Len(part) = IF pos + 1 <= pos + loaded
                                            THEN (pos + loaded) - (pos + 1) + 1 ELSE 0
      BY <2>8, <3>1, <3>2, PartOfSeq
    <3>4. Len(part) = loaded
      BY <2>7, <3>3
    <3> QED BY <3>3, <3>4
  <2>10. PICK number \in 0 .. Base^loaded - 1 : number = Number(part)
    BY <2>7, <2>9, NumberFits
  <2>11. PICK power \in Nat \ {0} : power = Base^loaded
    BY <2>7, BasePowersGrow
  <2>12. PICK all \in Nat : all = acc * power + number
    <3>1. acc \in Nat /\ number \in Nat
      OBVIOUS
    <3>2. acc * power \in Nat
      BY <3>1, SMT
    <3> QED BY <3>1, <3>2
  <2>13. PICK left : left = w.bits + loaded * BYTE_BITS - width
    OBVIOUS
  <2>14. ReadBits(w, width) =
           IF loaded < octets
           THEN [w |-> [w EXCEPT !.pos = @ + loaded, !.overrun = TRUE], value |-> (all * 2) % Modulus]
           ELSE [w |-> [w EXCEPT !.pos = @ + loaded, !.bits = left, !.acc = all % 2 ^ left],
                 value |-> all \div 2 ^ left]
    BY <1>3, <2>2, <2>3, <2>4, <2>5, <2>8, <2>10, <2>11, <2>12, <2>13 DEF ReadBits, Needed
  <2>15. CASE loaded < octets
    <3>1. PICK v : v = [w EXCEPT !.pos = pos + loaded]
      OBVIOUS
    <3>2. Moves(old, v)
      BY <2>4, <2>7, <3>1, ReadMoves
    <3>3. PICK u : u = [v EXCEPT !.overrun = TRUE]
      OBVIOUS
    <3>4. Moves(old, u) /\ u.overrun
      <4>1. "overrun" \in DOMAIN v
        BY <3>2 DEF Moves, Ranged, ContextFields
      <4> QED BY <3>2, <3>3, <4>1, StopMoves
    <3>5. ReadBits(w, width) = [w |-> u, value |-> (all * 2) % Modulus]
      BY <2>4, <2>14, <2>15, <3>1, <3>3
    <3>6. (all * 2) % Modulus \in UWord
      <4>1. all * 2 \in Int
        OBVIOUS
      <4> QED BY <1>0, <4>1, DivMod
    <3> QED BY <3>4, <3>5, <3>6
  <2>16. CASE ~(loaded < octets)
    <3>1. loaded = octets
      BY <2>6, <2>16
    <3>2. left \in 0 .. 7 /\ left + width = before + loaded * BYTE_BITS
          /\ (octets = 0 => width <= before)
      <4>1. before + octets * BYTE_BITS - width \in 0 .. 7 /\ (octets = 0 => width <= before)
        BY <2>1, <2>3, NeededFits
      <4> QED BY <2>1, <2>2, <2>13, <3>1, <4>1
    <3>3. PICK value : value = all \div 2 ^ left
      OBVIOUS
    <3>4. PICK rest : rest = all % 2 ^ left
      OBVIOUS
    <3>5. value \in 0 .. 2^width - 1 /\ rest \in 0 .. 2^left - 1
      <4>1. /\ before \in 0 .. BYTE_BITS - 1 /\ acc \in 0 .. 2^before - 1
            /\ left \in 0 .. BYTE_BITS - 1 /\ all = acc * Base^loaded + number
        BY <2>1, <2>2, <2>11, <2>12, <3>2
      <4> QED BY <2>1, <2>7, <3>2, <3>3, <3>4, <4>1, FieldFits
    <3>6. PICK u : u = [w EXCEPT !.pos = pos + loaded, !.bits = left, !.acc = rest]
      OBVIOUS
    <3>7. pos + loaded = pos => (before = 0 => left = 0)
      BY <2>1, <2>7, <3>1, <3>2
    <3>8. Moves(old, u)
      BY <2>2, <2>4, <2>7, <3>2, <3>5, <3>6, <3>7, LoadedMoves
    <3>9. ReadBits(w, width) = [w |-> u, value |-> value]
      BY <2>4, <2>14, <2>16, <3>3, <3>4, <3>6
    <3>10. 2^width \in Nat \ {0} /\ 2^width <= Modulus
      BY <2>1, PowersFit
    <3>11. value \in UWord /\ value < 2^width
      BY <1>0, <3>5, <3>10
    <3> QED BY <3>8, <3>9, <3>11
  <2> QED BY <2>15, <2>16
<1> QED BY <1>1, <1>2, <1>3


-----------------------------------------------------------------------------
(* Numbers on the wire                                                       *)

LEMMA SmallPowers ==
  /\ 2^0 = 1 /\ 2^1 = 2
  /\ 2^15 \in Nat \ {0} /\ 2^16 \in Nat \ {0} /\ 2^16 = 2 * 2^15 /\ 2^16 <= Modulus
<1>1. /\ BYTE_BITS = 8 /\ WordBits \in Nat /\ WordBits >= 16
  BY ByteWidth
<1>2. 2^0 = 1 /\ \A b \in 0 .. WordBits + BYTE_BITS : 2^b \in Nat \ {0} /\ 2^(b + 1) = 2 * 2^b
  BY PowersAssumption
<1>3. 2^(0 + 1) = 2 * 2^0 /\ 2^(15 + 1) = 2 * 2^15 /\ 2^15 \in Nat \ {0} /\ 2^16 \in Nat \ {0}
  BY <1>1, <1>2
<1>4. 2^16 <= Modulus
  <2>1. 16 \in 0 .. WordBits
    BY <1>1
  <2> QED BY <2>1, PowersFit
<1> QED BY <1>2, <1>3, <1>4

\* Two octets.
Short == 0 .. 2^16 - 1

LEMMA ShortsFit == \A n \in Short : n \in Nat /\ n \in UWord
<1>1. PICK p \in Nat \ {0} : p = 2^16 /\ p <= MaxWord + 1
  BY SmallPowers, SmallWords
<1>2. ASSUME NEW n \in Short PROVE n \in Nat /\ n \in UWord
  BY <1>1, SmallWords DEF Short, UWord
<1> QED BY <1>2

\* record_cbor() of an encoder
LEMMA EmitCborMoves ==
  ASSUME CallRanged(call), ~call.decode, NEW old, NEW w, Moves(old, w), NEW major \in 0 .. 4,
         NEW value \in UWord
  PROVE  Moves(old, EmitCbor(w, major, value))
<1>1. PICK code : code = CborCode(value)
  OBVIOUS
<1>2. code \in 0 .. 25 /\ (code >= 24 => code \in {24, 25})
  <2>1. value \in Nat /\ Base = 256
    BY SmallWords DEF UWord
  <2> QED BY <1>1, <2>1 DEF CborCode
<1>3. PICK head : head = Emit(w, <<major * 32 + code>>)
  OBVIOUS
<1>4. Moves(old, head)
  <2>1. major * 32 + code \in 0 .. 255
    BY <1>2
  <2>2. <<major * 32 + code>> \in Seq(Byte)
    BY <2>1, ByteWidth
  <2> QED BY <1>3, <2>2, EmitMoves
<1>5. Moves(old, Emit(w, <<4 * 32 + Indefinite>>))
  <2>1. 4 * 32 + Indefinite \in 0 .. 255
    BY DEF Indefinite
  <2>2. <<4 * 32 + Indefinite>> \in Seq(Byte)
    BY <2>1, ByteWidth
  <2> QED BY <2>2, EmitMoves
<1>6. ASSUME code >= 24 PROVE Moves(old, EmitBits(head, value, CborWidth(code)))
  <2>1. code \in {24, 25}
    BY <1>2, <1>6
  <2>2. CborWidth(code) \in Nat
    <3>1. CborWidth(24) = 8 /\ CborWidth(25) = 16
      BY SmallPowers, ByteWidth DEF CborWidth
    <3> QED BY <2>1, <3>1
  <2>3. value \in Nat
    BY SmallWords DEF UWord
  <2> QED BY <1>4, <2>2, <2>3, EmitBitsMoves
<1>7. EmitCbor(w, major, value) =
        IF major = 4 /\ value = MaxWord THEN Emit(w, <<4 * 32 + Indefinite>>)
        ELSE IF code >= 24 THEN EmitBits(head, value, CborWidth(code)) ELSE head
  BY <1>1, <1>3, Zenon DEF EmitCbor
<1> QED BY <1>4, <1>5, <1>6, <1>7

\* record_cbor() of a decoder
LEMMA ReadCborMoves ==
  ASSUME CallRanged(call), NEW old, NEW w, Moves(old, w), NEW major
  PROVE  Moves(old, ReadCbor(w, major).w) /\ ReadCbor(w, major).value \in UWord
<1>1. PICK head : head = ReadBits(w, BYTE_BITS)
  OBVIOUS
<1>2. Moves(old, head.w) /\ head.value \in UWord
  BY <1>1, ByteWidth, ReadBitsMoves
<1>3. PICK octet \in Nat : octet = IF head.w.overrun THEN 0 ELSE head.value
  BY <1>2, SmallWords DEF UWord
<1>4. PICK code \in 0 .. 31 : code = octet % 32
  BY <1>3
<1>5. PICK tail : tail = ReadBits(head.w, CborWidth(code))
  OBVIOUS
<1>6. code \in {24, 25} => Moves(old, tail.w) /\ tail.value \in UWord
  <2>1. code \in {24, 25} => CborWidth(code) \in Nat
    <3>1. CborWidth(24) = 8 /\ CborWidth(25) = 16
      BY SmallPowers, ByteWidth DEF CborWidth
    <3> QED BY <3>1
  <2> QED BY <1>2, <1>5, <2>1, ReadBitsMoves
<1>7. 0 \in UWord /\ MaxWord \in UWord /\ code \in UWord
  BY SmallWords DEF UWord
<1>8. PICK minimal : minimal = (/\ tail.value >= 24
                                /\ code > 24 => tail.value >= 2 ^ (CborWidth(code) \div 2))
  OBVIOUS
<1>9. ReadCbor(w, major) =
        IF octet \div 32 # major THEN [w |-> Fail(head.w, "constant"), value |-> 0]
        ELSE IF major = 4 /\ code = Indefinite THEN [w |-> head.w, value |-> MaxWord]
        ELSE IF code < 24 THEN [w |-> head.w, value |-> code]
        ELSE IF code > 25 THEN [w |-> Fail(head.w, "range"), value |-> 0]
        ELSE [tail EXCEPT !.w = IF minimal THEN @ ELSE Fail(@, "range")]
  BY <1>1, <1>3, <1>4, <1>5, <1>8, Zenon DEF ReadCbor
<1>10. /\ Moves(old, Fail(head.w, "constant")) /\ Moves(old, Fail(head.w, "range"))
       /\ code \in {24, 25} => Moves(old, Fail(tail.w, "range"))
  BY <1>2, <1>6, FailMoves
<1>11. "w" \in DOMAIN tail /\ "value" \in DOMAIN tail
  BY <1>5 DEF ReadBits
<1>12. \/ ReadCbor(w, major) = [w |-> Fail(head.w, "constant"), value |-> 0]
       \/ ReadCbor(w, major) = [w |-> head.w, value |-> MaxWord]
       \/ ReadCbor(w, major) = [w |-> head.w, value |-> code]
       \/ ReadCbor(w, major) = [w |-> Fail(head.w, "range"), value |-> 0]
       \/ code \in {24, 25} /\ ReadCbor(w, major) = [tail EXCEPT !.w = tail.w]
       \/ code \in {24, 25} /\ ReadCbor(w, major) = [tail EXCEPT !.w = Fail(tail.w, "range")]
  <2>1. ~(code < 24) /\ ~(code > 25) => code \in {24, 25}
    BY <1>4
  <2> QED BY <1>9, <2>1
<1> QED BY <1>2, <1>6, <1>7, <1>10, <1>11, <1>12

\* record_cbor(): the value it returns is the one it was given or one that it has read.
LEMMA CborMoves ==
  ASSUME CallRanged(call), NEW old, NEW w, Moves(old, w), NEW major, NEW value \in UWord,
         major \in 0 .. 4
  PROVE  Moves(old, Cbor(w, major, value).w) /\ Cbor(w, major, value).value \in UWord
<1>1. PICK aligned : aligned = Aligned(w)
  OBVIOUS
<1>2. Moves(old, aligned) /\ (aligned.overrun \/ aligned = w)
  BY <1>1, AlignedMoves
<1>3. 0 \in UWord
  BY SmallWords DEF UWord
<1>4. CASE aligned.overrun
  <2>1. Cbor(w, major, value) = [w |-> aligned, value |-> 0]
    BY <1>1, <1>4 DEF Cbor
  <2> QED BY <1>2, <1>3, <2>1
<1>5. CASE ~aligned.overrun /\ Encoding
  <2>1. Cbor(w, major, value) = [w |-> EmitCbor(w, major, value), value |-> value]
    BY <1>1, <1>5 DEF Cbor
  <2>2. ~call.decode
    BY <1>5 DEF Encoding
  <2>3. Moves(old, EmitCbor(w, major, value))
    BY <2>2, EmitCborMoves
  <2> QED BY <2>1, <2>3
<1>6. CASE ~aligned.overrun /\ ~Encoding
  <2>1. Cbor(w, major, value) = ReadCbor(w, major)
    BY <1>1, <1>6 DEF Cbor
  <2> QED BY <2>1, ReadCborMoves
<1> QED BY <1>4, <1>5, <1>6

\* Powers of ten up to the most digits.
LEMMA TensFit ==
  /\ MaxDigits \in 1 .. WordBits /\ MaxDigits \in Nat /\ 10^0 = 1
  /\ \A k \in 0 .. MaxDigits - 1 : 10^(k + 1) = 10 * 10^k
  /\ \A k \in 0 .. MaxDigits : 10^k \in Nat \ {0} /\ 10^k <= Modulus
<1>1. /\ MaxDigits \in 1 .. WordBits /\ 10^MaxDigits <= Modulus
  <2>1. \E d \in 1 .. WordBits : 10^d <= Modulus /\ Modulus < 10^(d + 1)
    BY DigitsAssumption
  <2> QED BY <2>1, Zenon DEF MaxDigits
<1>2. MaxDigits \in Nat /\ MaxDigits >= 1
  BY <1>1, ByteWidth
<1>3. 10^0 = 1 /\ \A k \in 0 .. MaxDigits - 1 : 10^k \in Nat \ {0} /\ 10^(k + 1) = 10 * 10^k
  BY DigitsAssumption
<1>4. ASSUME NEW k \in 0 .. MaxDigits PROVE 10^k \in Nat \ {0}
  <2>1. CASE k = MaxDigits
    <3>1. PICK j \in 0 .. MaxDigits - 1 : j + 1 = k
      <4>1. k - 1 \in 0 .. MaxDigits - 1 /\ (k - 1) + 1 = k
        BY <1>2, <2>1
      <4> QED BY <4>1
    <3>2. 10^j \in Nat \ {0} /\ 10^(j + 1) = 10 * 10^j
      BY <1>3
    <3> QED BY <3>1, <3>2
  <2>2. CASE k # MaxDigits
    <3>1. k \in 0 .. MaxDigits - 1
      BY <1>2, <2>2
    <3> QED BY <1>3, <3>1
  <2> QED BY <2>1, <2>2
<1>5. ASSUME NEW k \in 0 .. MaxDigits PROVE 10^k <= Modulus
  <2> DEFINE T == {j \in Nat : j <= MaxDigits => 10^(MaxDigits - j) <= Modulus}
  <2>1. 0 \in T
    <3>1. MaxDigits - 0 = MaxDigits
      BY <1>2
    <3> QED BY <1>1, <3>1
  <2>2. ASSUME NEW j \in T PROVE j + 1 \in T
    <3> SUFFICES ASSUME j + 1 <= MaxDigits PROVE 10^(MaxDigits - (j + 1)) <= Modulus
      BY <2>2
    <3>1. PICK m \in 0 .. MaxDigits - 1 : m = MaxDigits - (j + 1) /\ m + 1 = MaxDigits - j
      <4>1. MaxDigits - (j + 1) \in 0 .. MaxDigits - 1
            /\ (MaxDigits - (j + 1)) + 1 = MaxDigits - j
        BY <1>2
      <4> QED BY <4>1
    <3>2. 10^(m + 1) <= Modulus
      BY <1>2, <3>1
    <3>3. 10^m \in Nat /\ 10^(m + 1) = 10 * 10^m
      BY <1>3
    <3>4. 10^m <= Modulus
      BY <3>2, <3>3, SmallWords
    <3> QED BY <3>1, <3>4
  <2> HIDE DEF T
  <2>3. T = Nat
    <3>1. T \in SUBSET Nat
      BY DEF T
    <3> QED BY <2>1, <2>2, <3>1, SetInduction
  <2>4. PICK j \in Nat : j = MaxDigits - k
    BY <1>2
  <2>5. j <= MaxDigits /\ MaxDigits - j = k
    BY <1>2, <2>4
  <2> QED BY <2>3, <2>4, <2>5 DEF T
<1> QED BY <1>1, <1>2, <1>3, <1>4, <1>5

LEMMA DigitFits ==
  ASSUME NEW mode
  PROVE  DigitWidth(mode) \in Nat /\ DigitBase(mode) \in Nat
BY DEF DigitWidth, DigitBase

\* record_decimal() of an encoder
LEMMA EmitDigitsMoves ==
  ASSUME CallRanged(call), ~call.decode, NEW old, NEW w, Moves(old, w), NEW value \in UWord,
         NEW width \in 1 .. MaxDigits, NEW mode
  PROVE  Moves(old, EmitDigits(w, value, width, mode))
<1>0. width \in Nat
  BY TensFit
<1>1. PICK f : AreEmitted(f, w, value, width, mode) /\ EmitDigits(w, value, width, mode) = f[width]
  BY <1>0, EmittedDigits
<1> DEFINE T == {j \in Nat : j <= width => Moves(old, f[j])}
<1>2. 0 \in T
  BY <1>1 DEF AreEmitted
<1>3. ASSUME NEW j \in T PROVE j + 1 \in T
  <2>1. CASE j + 1 <= width
    <3>1. j + 1 \in 1..width /\ (j + 1) - 1 = j /\ Moves(old, f[j])
      BY <1>0, <2>1
    <3>2. f[j + 1] = DigitEmitted(f[j], j + 1, value, width, mode)
      BY <1>1, <3>1 DEF AreEmitted
    <3>3. PICK power \in Nat \ {0} : power = 10 ^ (width - (j + 1))
      <4>1. width - (j + 1) \in 0 .. MaxDigits
        BY <1>0, <3>1, TensFit
      <4> QED BY <4>1, TensFit
    <3>4. DigitBase(mode) + ((value \div power) % 10) \in Nat
      <4>1. value \in Int
        BY SmallWords DEF UWord
      <4>2. value \div power \in Int
        BY <4>1, DivMod
      <4>3. (value \div power) % 10 \in Nat
        BY <4>2
      <4> QED BY <4>3, DigitFits
    <3>5. Moves(old, f[j + 1])
      BY <3>1, <3>2, <3>3, <3>4, DigitFits, EmitBitsMoves DEF DigitEmitted
    <3> QED BY <3>5
  <2> QED BY <2>1
<1> HIDE DEF T
<1>4. width \in T
  <2>1. T \in SUBSET Nat
    BY DEF T
  <2> QED BY <1>0, <1>2, <1>3, <2>1, SetInduction
<1> QED BY <1>1, <1>4 DEF T

\* record_decimal() of a decoder: so many digits are less than that power of ten.
LEMMA ReadDigitsMoves ==
  ASSUME CallRanged(call), NEW old, NEW w, Moves(old, w), NEW width \in 1 .. MaxDigits, NEW mode
  PROVE  /\ Moves(old, ReadDigits(w, width, mode).w)
         /\ \/ ReadDigits(w, width, mode).w.overrun
            \/ ReadDigits(w, width, mode).value \in UWord
<1>0. width \in Nat /\ width <= MaxDigits
  BY TensFit
<1>1. PICK f : AreDigitsRead(f, w, width, mode) /\ ReadDigits(w, width, mode) = f[width]
  BY <1>0, DigitsRead
<1> DEFINE T == {j \in Nat : j <= width => /\ Moves(old, f[j].w)
                                           /\ f[j].w.overrun \/ f[j].value \in 0 .. 10^j - 1}
<1>2. 0 \in T
  <2>1. f[0] = [w |-> w, value |-> 0]
    BY <1>1 DEF AreDigitsRead
  <2>2. f[0].value \in 0 .. 10^0 - 1
    BY <2>1, TensFit
  <2> QED BY <2>1, <2>2
<1>3. ASSUME NEW j \in T PROVE j + 1 \in T
  <2>1. CASE j + 1 <= width
    <3>1. /\ j + 1 \in 1..width /\ (j + 1) - 1 = j /\ Moves(old, f[j].w)
          /\ f[j].w.overrun \/ f[j].value \in 0 .. 10^j - 1
      BY <1>0, <2>1
    <3>2. PICK before : before = f[j]
      OBVIOUS
    <3>3. PICK read : read = ReadBits(before.w, DigitWidth(mode))
      OBVIOUS
    <3>4. PICK digit : digit = read.value - DigitBase(mode)
      OBVIOUS
    <3>5. f[j + 1] = DigitRead(before, mode)
      BY <1>1, <3>1, <3>2 DEF AreDigitsRead
    <3>6. Moves(old, read.w) /\ Moves(old, Fail(read.w, "range"))
          /\ Fail(read.w, "range").overrun
      BY <3>1, <3>2, <3>3, DigitFits, ReadBitsMoves, FailMoves
    <3>7. CASE before.w.overrun
      <4>1. f[j + 1] = before
        BY <3>5, <3>7 DEF DigitRead
      <4> QED BY <3>1, <3>2, <3>7, <4>1
    <3>8. CASE ~before.w.overrun /\ digit \notin 0..9
      <4>1. f[j + 1] = [w |-> Fail(read.w, "range"), value |-> before.value * 10 + digit]
        BY <3>3, <3>4, <3>5, <3>8 DEF DigitRead
      <4> QED BY <3>6, <4>1
    <3>9. CASE ~before.w.overrun /\ digit \in 0..9
      <4>1. f[j + 1] = [w |-> read.w, value |-> before.value * 10 + digit]
        BY <3>3, <3>4, <3>5, <3>9 DEF DigitRead
      <4>2. j \in 0 .. MaxDigits - 1 /\ j \in 0 .. MaxDigits
        BY <1>0, <2>1, TensFit
      <4>3. 10^j \in Nat \ {0} /\ 10^(j + 1) = 10 * 10^j
        BY <4>2, TensFit
      <4>4. before.value \in 0 .. 10^j - 1
        BY <3>1, <3>2, <3>9
      <4>5. before.value * 10 + digit \in 0 .. 10^(j + 1) - 1
        BY <3>9, <4>3, <4>4
      <4> QED BY <3>6, <4>1, <4>5
    <3> QED BY <3>7, <3>8, <3>9
  <2> QED BY <2>1
<1> HIDE DEF T
<1>4. width \in T
  <2>1. T \in SUBSET Nat
    BY DEF T
  <2> QED BY <1>0, <1>2, <1>3, <2>1, SetInduction
<1>5. /\ Moves(old, f[width].w)
      /\ f[width].w.overrun \/ f[width].value \in 0 .. 10^width - 1
  BY <1>0, <1>4 DEF T
<1>6. 10^width \in Nat /\ 10^width <= MaxWord + 1
  BY <1>0, TensFit, SmallWords
<1>7. f[width].value \in 0 .. 10^width - 1 => f[width].value \in UWord
  BY <1>6, SmallWords DEF UWord
<1> QED BY <1>1, <1>5, <1>7

\* record_terminated() of an encoder
LEMMA EmitTerminatedMoves ==
  ASSUME CallRanged(call), NEW old, NEW w, Moves(old, w), NEW value \in UWord,
         NEW n \in 0 .. WORD_BYTES, NEW mask, NEW stop
  PROVE  Moves(old, EmitTerminated(w, value, n, mask, stop))
<1>1. PICK octets : octets = BigEndian(value, n)
  OBVIOUS
<1>2. octets \in Seq(Byte)
  <2>1. n \in Nat /\ value \in Int
    BY ByteWidth, SmallWords DEF UWord
  <2>2. octets \in [1 .. n -> Byte]
    BY <1>1, <2>1, BigEndianBytes
  <2> QED BY <2>1, <2>2, BytesAreSeq
<1>3. EmitTerminated(w, value, n, mask, stop) \in {Fail(w, "range"), Emit(w, octets)}
  BY <1>1 DEF EmitTerminated
<1> QED BY <1>2, <1>3, FailMoves, EmitMoves

\* record_terminated() of a decoder: so many octets are a word.
LEMMA ReadTerminatedMoves ==
  ASSUME CallRanged(call), NEW old, NEW w, Moves(old, w), NEW mask, NEW stop
  PROVE  /\ Moves(old, ReadTerminated(w, mask, stop).w)
         /\ \/ ReadTerminated(w, mask, stop).w.overrun
            \/ ReadTerminated(w, mask, stop).value \in UWord
<1>0. WORD_BYTES \in Nat /\ Base = 256 /\ 2^BYTE_BITS = Base /\ BYTE_BITS \in Nat
  BY ByteWidth, SmallWords DEF Base
<1>1. PICK f : /\ AreOctetsRead(f, w, mask, stop)
               /\ ReadTerminated(w, mask, stop) =
                    IF \/ f[WORD_BYTES - 1].ended \/ f[WORD_BYTES - 1].w.overrun
                         \/ f[WORD_BYTES].ended
                    THEN f[WORD_BYTES] ELSE [f[WORD_BYTES] EXCEPT !.w = Fail(@, "range")]
  BY OctetsRead
<1> DEFINE T == {j \in Nat : j <= WORD_BYTES =>
                   /\ {"w", "value"} \subseteq DOMAIN f[j] /\ Moves(old, f[j].w)
                   /\ f[j].w.overrun \/ f[j].value \in 0 .. Base^j - 1}
<1>2. 0 \in T
  <2>1. f[0] = [w |-> w, value |-> 0, ended |-> FALSE]
    BY <1>1 DEF AreOctetsRead
  <2>2. f[0].value \in 0 .. Base^0 - 1
    BY <2>1, PowersAssumption
  <2> QED BY <2>1, <2>2
<1>3. ASSUME NEW j \in T PROVE j + 1 \in T
  <2>1. CASE j + 1 <= WORD_BYTES
    <3>1. /\ j + 1 \in 1..WORD_BYTES /\ (j + 1) - 1 = j
          /\ {"w", "value"} \subseteq DOMAIN f[j] /\ Moves(old, f[j].w)
          /\ f[j].w.overrun \/ f[j].value \in 0 .. Base^j - 1
      BY <1>0, <2>1
    <3>2. PICK before : before = f[j]
      OBVIOUS
    <3>3. PICK read : read = ReadBits(before.w, BYTE_BITS)
      OBVIOUS
    <3>4. f[j + 1] = OctetRead(before, mask, stop)
      BY <1>1, <3>1, <3>2 DEF AreOctetsRead
    <3>5. /\ Moves(old, read.w) /\ read.value \in UWord
          /\ read.w.overrun \/ read.value < 2^BYTE_BITS
      BY <1>0, <3>1, <3>2, <3>3, ReadBitsMoves
    <3>6. j \in 0 .. WORD_BYTES /\ Base^j \in Nat \ {0} /\ Base^(j + 1) = Base * Base^j
      <4>1. j \in 0 .. WORD_BYTES
        BY <1>0, <2>1
      <4> QED BY <4>1, PowersAssumption
    <3>7. CASE before.ended \/ before.w.overrun
      <4>1. f[j + 1] = before
        BY <3>4, <3>7 DEF OctetRead
      <4>2. before.value \in 0 .. Base^j - 1 => before.value \in 0 .. Base^(j + 1) - 1
        BY <1>0, <3>6
      <4> QED BY <3>1, <3>2, <4>1, <4>2
    <3>8. CASE ~(before.ended \/ before.w.overrun)
      <4>1. f[j + 1] = [w |-> read.w, value |-> before.value * Base + read.value,
                        ended |-> Masked(read.value, mask) = stop]
        BY <3>3, <3>4, <3>8 DEF OctetRead
      <4>2. before.value \in 0 .. Base^j - 1
        BY <3>1, <3>2, <3>8
      <4>3. read.w.overrun \/ read.value \in 0 .. 255
        BY <1>0, <3>5, SmallWords DEF UWord
      <4>4. read.value \in 0 .. 255 =>
              before.value * Base + read.value \in 0 .. Base^(j + 1) - 1
        BY <1>0, <3>6, <4>2
      <4> QED BY <3>5, <4>1, <4>3, <4>4
    <3> QED BY <3>7, <3>8
  <2> QED BY <2>1
<1> HIDE DEF T
<1>4. WORD_BYTES \in T
  <2>1. T \in SUBSET Nat
    BY DEF T
  <2> QED BY <1>0, <1>2, <1>3, <2>1, SetInduction
<1>5. PICK last : last = f[WORD_BYTES]
  OBVIOUS
<1>6. /\ {"w", "value"} \subseteq DOMAIN last /\ Moves(old, last.w)
      /\ last.w.overrun \/ last.value \in 0 .. Base^WORD_BYTES - 1
  BY <1>0, <1>4, <1>5 DEF T
<1>7. last.value \in 0 .. Base^WORD_BYTES - 1 => last.value \in UWord
  <2>1. WORD_BYTES \in 0 .. WORD_BYTES
    BY <1>0
  <2>2. Base^WORD_BYTES \in Nat /\ Base^WORD_BYTES <= MaxWord + 1
    BY <2>1, BasePowersGrow, SmallWords
  <2> QED BY <2>2, SmallWords DEF UWord
<1>8. Moves(old, Fail(last.w, "range")) /\ Fail(last.w, "range").overrun
  BY <1>6, FailMoves
<1>9. ReadTerminated(w, mask, stop) \in {last, [last EXCEPT !.w = Fail(last.w, "range")]}
  BY <1>1, <1>5
<1> QED BY <1>6, <1>7, <1>8, <1>9

-----------------------------------------------------------------------------
(* Checksums                                                                 *)

LEMMA XorFits ==
  ASSUME NEW a, NEW b
  PROVE  Xor(a, b) \in Short
<1>1. 16 \in 0 .. WordBits + BYTE_BITS
  BY ByteWidth
<1>2. \A bits : OfBits(bits, 16) \in Short
  BY <1>1, OfBitsFits DEF Short
<1> QED BY <1>2, Zenon DEF Xor

LEMMA CrcBitFits ==
  ASSUME NEW crc \in Short, NEW algorithm
  PROVE  CrcBit(crc, algorithm) \in Short
<1>1. /\ Xor((crc * 2) % 2^16, 4129) \in Short
      /\ Xor(crc \div 2, 33800) \in Short
  BY XorFits
<1>2. /\ ~(crc >= 2^15) => crc * 2 \in Short
      /\ crc \div 2 \in Short
  <2>1. PICK p \in Nat \ {0} : p = 2^15 /\ 2^16 = 2 * p
    BY SmallPowers
  <2>2. crc \in 0 .. 2 * p - 1
    BY <2>1 DEF Short
  <2>3. ~(crc >= p) => crc * 2 \in 0 .. 2 * p - 1
    BY <2>2
  <2>4. crc \div 2 \in 0 .. 2 * p - 1
    BY <2>2
  <2> QED BY <2>1, <2>3, <2>4 DEF Short
<1>3. CrcBit(crc, algorithm) \in {Xor((crc * 2) % 2^16, 4129), Xor(crc \div 2, 33800), crc \div 2}
      \/ (~(crc >= 2^15) /\ CrcBit(crc, algorithm) = crc * 2)
  BY SMT DEF CrcBit
<1> QED BY <1>1, <1>2, <1>3, SMTT(20)

LEMMA CrcOctetFits ==
  ASSUME NEW crc, NEW octet, NEW algorithm
  PROVE  CrcOctet(crc, octet, algorithm) \in Short
<1> DEFINE S == Short
           first == Xor(crc, IF algorithm = 1 THEN octet * 2^8 ELSE octet)
           IsAfter(f) == f = [j \in 0..8 |-> IF j = 0 THEN first ELSE CrcBit(f[j - 1], algorithm)]
           step == [j \in 1..8 |-> [c \in S |-> CrcBit(c, algorithm)]]
<1>1. first \in S
  BY XorFits
<1>2. IsStep(step, 8, S) /\ \A j \in 1..8, c \in S : step[j][c] = CrcBit(c, algorithm)
  BY CrcBitFits DEF IsStep
<1>h. CrcOctet(crc, octet, algorithm) = (CHOOSE f : IsAfter(f))[8]
  BY DEF CrcOctet
<1> HIDE DEF first, step, S
<1>3. PICK g : Recursive(g, 8, S, first, step)
  BY <1>1, <1>2, Recursion
<1>4. IsAfter(g)
  <2>1. g \in [0..8 -> S] /\ g[0] = first /\ \A j \in 1..8 : g[j] = step[j][g[j - 1]]
    BY <1>3 DEF Recursive
  <2>2. ASSUME NEW j \in 0..8
        PROVE  g[j] = IF j = 0 THEN first ELSE CrcBit(g[j - 1], algorithm)
    <3>1. CASE j # 0
      <4>1. j \in 1..8 /\ j - 1 \in 0..8
        BY <3>1
      <4>2. g[j] = step[j][g[j - 1]] /\ g[j - 1] \in S
        BY <2>1, <4>1
      <4> QED BY <1>2, <3>1, <4>1, <4>2
    <3> QED BY <2>1, <3>1
  <2> QED BY <2>1, <2>2
<1>5. PICK f : f = CHOOSE h : IsAfter(h)
  OBVIOUS
<1>6. IsAfter(f)
  <2> HIDE DEF IsAfter
  <2> QED BY <1>4, <1>5
<1>7. f[0] = first /\ \A j \in 1..8 : f[j] = CrcBit(f[j - 1], algorithm)
  BY <1>6
<1>8. f[8] \in S
  <2>0. \A c \in S : CrcBit(c, algorithm) \in S
    BY CrcBitFits DEF S
  <2>1. f[0] \in S
    BY <1>1, <1>7
  <2>2. ASSUME NEW j \in 1..8, f[j - 1] \in S PROVE f[j] \in S
    BY <1>7, <2>0, <2>2
  <2>3. f[1] \in S
    <3>1. 1 - 1 = 0 /\ 1 \in 1..8
      OBVIOUS
    <3> QED BY <2>1, <2>2, <3>1
  <2>4. f[2] \in S
    <3>1. 2 - 1 = 1 /\ 2 \in 1..8
      OBVIOUS
    <3> QED BY <2>2, <2>3, <3>1
  <2>5. f[3] \in S
    <3>1. 3 - 1 = 2 /\ 3 \in 1..8
      OBVIOUS
    <3> QED BY <2>2, <2>4, <3>1
  <2>6. f[4] \in S
    <3>1. 4 - 1 = 3 /\ 4 \in 1..8
      OBVIOUS
    <3> QED BY <2>2, <2>5, <3>1
  <2>7. f[5] \in S
    <3>1. 5 - 1 = 4 /\ 5 \in 1..8
      OBVIOUS
    <3> QED BY <2>2, <2>6, <3>1
  <2>8. f[6] \in S
    <3>1. 6 - 1 = 5 /\ 6 \in 1..8
      OBVIOUS
    <3> QED BY <2>2, <2>7, <3>1
  <2>9. f[7] \in S
    <3>1. 7 - 1 = 6 /\ 7 \in 1..8
      OBVIOUS
    <3> QED BY <2>2, <2>8, <3>1
  <2>10. 8 - 1 = 7 /\ 8 \in 1..8
    OBVIOUS
  <2> QED BY <2>2, <2>9, <2>10
<1> QED BY <1>h, <1>5, <1>8 DEF S

\* record_checksum(): sixteen bits, whatever it covers.
LEMMA ChecksumFits ==
  ASSUME NEW data, NEW from \in Nat, NEW end \in Nat, NEW zero, NEW algorithm
  PROVE  Checksum(data, from, end, zero, algorithm) \in Short
<1> DEFINE S == Short
           octet(i) == IF i - 1 \in zero .. zero + 1 THEN 0 ELSE data[i]
           IsAfter(f) == f = [i \in from .. end |->
                                IF i = from THEN 2^16 - 1 ELSE CrcOctet(f[i - 1], octet(i), algorithm)]
<1>0. 2^16 - 1 \in S /\ \A n \in S : 2^16 - 1 - n \in S
  <2>1. PICK p \in Nat \ {0} : p = 2^16
    BY SmallPowers
  <2>2. Short = 0 .. p - 1
    BY <2>1 DEF Short
  <2>3. p - 1 \in 0 .. p - 1
    OBVIOUS
  <2>4. ASSUME NEW n \in 0 .. p - 1 PROVE p - 1 - n \in 0 .. p - 1
    OBVIOUS
  <2> QED BY <2>1, <2>2, <2>3, <2>4
<1>1. PICK after : after = CHOOSE f : IsAfter(f)
  OBVIOUS
<1>2. PICK crc : crc = IF end < from THEN 2^16 - 1 ELSE after[end]
  OBVIOUS
<1>3. Checksum(data, from, end, zero, algorithm) = IF algorithm = 1 THEN crc ELSE 2^16 - 1 - crc
  BY <1>1, <1>2 DEF Checksum
<1>4. CASE end < from
  BY <1>0, <1>2, <1>3, <1>4
<1>5. CASE from <= end
  <2> DEFINE step == [k \in 1 .. end - from |-> [c \in S |-> CrcOctet(c, octet(k + from), algorithm)]]
  <2>1. PICK n \in Nat : n = end - from
    BY <1>5
  <2>2. IsStep(step, n, S)
        /\ \A k \in 1..n, c \in S : step[k][c] = CrcOctet(c, octet(k + from), algorithm)
    <3>1. \A k \in 1..n, c \in S : CrcOctet(c, octet(k + from), algorithm) \in S
      BY CrcOctetFits
    <3> HIDE DEF octet, S
    <3> QED BY <2>1, <3>1 DEF IsStep
  <2> HIDE DEF step, S, octet
  <2>3. PICK g : Recursive(g, n, S, 2^16 - 1, step)
    BY <1>0, <2>2, Recursion
  <2>4. g \in [0..n -> S] /\ g[0] = 2^16 - 1
        /\ \A k \in 1..n : g[k] = CrcOctet(g[k - 1], octet(k + from), algorithm)
    <3>1. g \in [0..n -> S] /\ g[0] = 2^16 - 1 /\ \A k \in 1..n : g[k] = step[k][g[k - 1]]
      BY <2>3 DEF Recursive
    <3>2. ASSUME NEW k \in 1..n PROVE g[k] = CrcOctet(g[k - 1], octet(k + from), algorithm)
      <4>1. k - 1 \in 0..n
        OBVIOUS
      <4> QED BY <2>2, <3>1, <4>1
    <3> QED BY <3>1, <3>2
  <2>5. PICK shifted : shifted = [i \in from .. end |-> g[i - from]]
    OBVIOUS
  <2>6. IsAfter(shifted)
    <3>1. ASSUME NEW i \in from .. end
          PROVE  shifted[i] = IF i = from THEN 2^16 - 1
                              ELSE CrcOctet(shifted[i - 1], octet(i), algorithm)
      <4>1. CASE i = from
        <5>1. i - from = 0
          BY <4>1
        <5> QED BY <1>0, <2>4, <2>5, <4>1, <5>1
      <4>2. CASE i # from
        <5>1. PICK k \in 1..n : k = i - from
          BY <2>1, <4>2
        <5>2. k + from = i /\ i - 1 \in from .. end /\ (i - 1) - from = k - 1
          BY <4>2, <5>1
        <5>3. shifted[i] = g[k] /\ shifted[i - 1] = g[k - 1]
          BY <2>5, <5>1, <5>2
        <5> QED BY <2>4, <4>2, <5>2, <5>3
      <4> QED BY <4>1, <4>2
    <3> QED BY <2>5, <3>1
  <2>7. IsAfter(after)
    <3> HIDE DEF IsAfter
    <3> QED BY <1>1, <2>6
  <2>8. after[end] \in S
    <3>1. end \in from .. end
      BY <1>5
    <3>2. after[end] = IF end = from THEN 2^16 - 1
                       ELSE CrcOctet(after[end - 1], octet(end), algorithm)
      BY <2>7, <3>1
    <3>3. CrcOctet(after[end - 1], octet(end), algorithm) \in S
      BY CrcOctetFits DEF S
    <3> QED BY <1>0, <3>2, <3>3
  <2>9. crc \in Short /\ S = Short
    <3>1. crc = after[end]
      BY <1>2, <1>5
    <3> QED BY <2>8, <3>1 DEF S
  <2> QED BY <1>0, <1>3, <2>9
<1> QED BY <1>4, <1>5

LEMMA PatchedFits ==
  ASSUME NEW data \in Seq(Byte), NEW at \in Nat, NEW value \in Nat
  PROVE  Patched(data, at, value) \in Seq(Byte) /\ Len(Patched(data, at, value)) = Len(data)
<1>1. PICK octets : octets = BigEndian(value, 2)
  OBVIOUS
<1>2. octets \in [1..2 -> Byte]
  <2>1. 2 \in 0 .. WORD_BYTES /\ value \in Int
    BY ByteWidth
  <2> QED BY <1>1, <2>1, BigEndianBytes
<1>3. PICK k \in Nat : k = Len(data) /\ DOMAIN data = 1 .. k /\ data \in [1 .. k -> Byte]
  BY LenProperties
<1>4. Patched(data, at, value) = [i \in 1 .. k |-> IF i \in at + 1 .. at + 2 THEN octets[i - at]
                                                    ELSE data[i]]
  BY <1>1, <1>3 DEF Patched
<1>5. ASSUME NEW i \in 1 .. k
      PROVE  (IF i \in at + 1 .. at + 2 THEN octets[i - at] ELSE data[i]) \in Byte
  <2>1. i \in at + 1 .. at + 2 => i - at \in 1..2
    OBVIOUS
  <2> QED BY <1>2, <1>3, <2>1
<1>6. Patched(data, at, value) \in [1 .. k -> Byte]
  BY <1>4, <1>5
<1> QED BY <1>3, <1>6, BytesAreSeq

\* record_crc_finish()
LEMMA FinishMoves ==
  ASSUME CallRanged(call), NEW old, NEW w, Moves(old, w), NEW end \in Nat, NEW number
  PROVE  /\ Moves(old, Finish(w, end, number).w)
         /\ number \in UWord => Finish(w, end, number).number \in UWord
<1> DEFINE data == IF Encoding THEN w.out ELSE call.input
<1>1. PICK actual : actual = Checksum(data, w.crc.from, end, w.crc.at, w.crc.algorithm)
  OBVIOUS
<1>2. w.crc.at \in Nat /\ w.crc.from \in Nat
  BY DEF Moves, Ranged
<1>3. actual \in Short
  <2> HIDE DEF data
  <2> QED BY <1>1, <1>2, ChecksumFits
<1>4. PICK done : done = [w EXCEPT !.crc = NoCrc]
  OBVIOUS
<1>5. Moves(old, done) /\ done.out = w.out
  <2>1. NoCrc.at \in Nat /\ NoCrc.from \in Nat
    BY DEF NoCrc
  <2>2. Moves(old, done)
    BY <1>4, <2>1, CrcMoves
  <2> QED BY <1>4, <2>2
<1>6. PICK out : out = Patched(done.out, w.crc.at, actual)
  OBVIOUS
<1>7. Moves(old, [done EXCEPT !.out = out]) /\ Moves(old, Fail(done, "checksum"))
  <2>1. done.out \in Seq(Byte) /\ Len(done.out) <= call.room
    BY <1>5 DEF Moves, Ranged
  <2>2. out \in Seq(Byte) /\ Len(out) = Len(done.out)
    <3>1. actual \in Nat
      BY <1>3, ShortsFit
    <3> QED BY <1>2, <1>6, <2>1, <3>1, PatchedFits
  <2>3. Len(done.out) \in Nat
    BY <2>1, LenProperties
  <2>4. Len(done.out) <= Len(out) /\ Len(out) <= call.room
    BY <2>1, <2>2, <2>3
  <2> QED BY <1>5, <2>2, <2>4, OutMoves, FailMoves
<1>8. Finish(w, end, number)
        \in {[w |-> [done EXCEPT !.out = out], number |-> actual],
             [w |-> done, number |-> number], [w |-> Fail(done, "checksum"), number |-> number]}
  BY <1>1, <1>4, <1>6 DEF Finish
<1>9. actual \in UWord
  BY <1>3, ShortsFit
<1> QED BY <1>5, <1>7, <1>8, <1>9

-----------------------------------------------------------------------------
(* The records of the caller                                                 *)

Values(records) ==
  [number : UWord, bytes : Seq(Byte), count : UWord, records : Seq(DOMAIN records)]

\* What a value of the field f of the record r may be.
IsValueOf(records, r, f, v) ==
  v \in Values(records) /\ Len(v.bytes) <= MaxWord /\ v.records = records[r][f].records

\* Records as the caller has set them up, whatever their fields hold.
HeapRanged(records, h) ==
  /\ DOMAIN h = DOMAIN records
  /\ \A r \in DOMAIN records :
       /\ h[r] = [f \in 1 .. Len(records[r]) |-> h[r][f]]
       /\ \A f \in 1 .. Len(records[r]) : IsValueOf(records, r, f, h[r][f])

LEMMA FieldUpdated ==
  ASSUME NEW records, NEW h, HeapRanged(records, h), NEW r, NEW f, NEW v,
         r \in DOMAIN records /\ f \in 1 .. Len(records[r]) => IsValueOf(records, r, f, v)
  PROVE  HeapRanged(records, [h EXCEPT ![r][f] = v])
<1>1. PICK k : k = [h EXCEPT ![r][f] = v]
  OBVIOUS
<1>2. DOMAIN k = DOMAIN records
  BY <1>1 DEF HeapRanged
<1>3. ASSUME NEW x \in DOMAIN records
      PROVE  /\ k[x] = [y \in 1 .. Len(records[x]) |-> k[x][y]]
             /\ \A y \in 1 .. Len(records[x]) : IsValueOf(records, x, y, k[x][y])
  <2>1. h[x] = [y \in 1 .. Len(records[x]) |-> h[x][y]]
    BY DEF HeapRanged
  <2>2. \A y \in 1 .. Len(records[x]) : IsValueOf(records, x, y, h[x][y])
    BY DEF HeapRanged
  <2>3. CASE x # r
    <3>1. k[x] = h[x]
      BY <1>1, <2>3 DEF HeapRanged
    <3> QED BY <2>1, <2>2, <3>1
  <2>4. CASE x = r
    <3>1. k[x] = [h[x] EXCEPT ![f] = v]
      BY <1>1, <2>4 DEF HeapRanged
    <3>2. k[x] = [y \in 1 .. Len(records[x]) |-> IF y = f THEN v ELSE h[x][y]]
      BY <2>1, <3>1
    <3> QED BY <2>2, <2>4, <3>2
  <2> QED BY <2>3, <2>4
<1> QED BY <1>1, <1>2, <1>3 DEF HeapRanged

\* What the handlers store in a value.
LEMMA ValueUpdated ==
  ASSUME NEW records, NEW h, HeapRanged(records, h), NEW r, NEW f
  PROVE  /\ \A n \in UWord : HeapRanged(records, [h EXCEPT ![r][f]["number"] = n])
         /\ \A n \in UWord : HeapRanged(records, [h EXCEPT ![r][f].number = n])
         /\ \A n \in UWord : HeapRanged(records, [h EXCEPT ![r][f].count = n])
         /\ \A b \in Seq(Byte) : Len(b) <= MaxWord =>
               HeapRanged(records, [h EXCEPT ![r][f]["bytes"] = b])
         /\ HeapRanged(records, [h EXCEPT ![r][f] = [NoValue EXCEPT !.records = h[r][f].records]])
<1>1. r \in DOMAIN records /\ f \in 1 .. Len(records[r]) => IsValueOf(records, r, f, h[r][f])
  BY DEF HeapRanged
<1>2. ASSUME NEW n \in UWord
      PROVE  /\ HeapRanged(records, [h EXCEPT ![r][f]["number"] = n])
             /\ HeapRanged(records, [h EXCEPT ![r][f].number = n])
             /\ HeapRanged(records, [h EXCEPT ![r][f].count = n])
  <2>1. PICK u, v : u = [h[r][f] EXCEPT !.number = n] /\ v = [h[r][f] EXCEPT !.count = n]
    OBVIOUS
  <2>2. r \in DOMAIN records /\ f \in 1 .. Len(records[r]) =>
          IsValueOf(records, r, f, u) /\ IsValueOf(records, r, f, v)
    BY <1>1, <2>1 DEF IsValueOf, Values
  <2>3. HeapRanged(records, [h EXCEPT ![r][f] = u]) /\ HeapRanged(records, [h EXCEPT ![r][f] = v])
    BY <2>2, FieldUpdated
  <2> QED BY <2>1, <2>3
<1>3. ASSUME NEW b \in Seq(Byte), Len(b) <= MaxWord
      PROVE  HeapRanged(records, [h EXCEPT ![r][f]["bytes"] = b])
  <2>1. PICK u : u = [h[r][f] EXCEPT !.bytes = b]
    OBVIOUS
  <2>2. r \in DOMAIN records /\ f \in 1 .. Len(records[r]) => IsValueOf(records, r, f, u)
    BY <1>1, <1>3, <2>1 DEF IsValueOf, Values
  <2>3. HeapRanged(records, [h EXCEPT ![r][f] = u])
    BY <2>2, FieldUpdated
  <2> QED BY <2>1, <2>3
<1>4. HeapRanged(records, [h EXCEPT ![r][f] = [NoValue EXCEPT !.records = h[r][f].records]])
  <2>1. PICK u : u = [NoValue EXCEPT !.records = h[r][f].records]
    OBVIOUS
  <2>2. 0 \in UWord /\ <<>> \in Seq(Byte) /\ Len(<<>>) <= MaxWord
    BY SmallWords DEF UWord
  <2>3. r \in DOMAIN records /\ f \in 1 .. Len(records[r]) => IsValueOf(records, r, f, u)
    BY <1>1, <2>1, <2>2 DEF IsValueOf, Values, NoValue
  <2>4. HeapRanged(records, [h EXCEPT ![r][f] = u])
    BY <2>3, FieldUpdated
  <2> QED BY <2>1, <2>4
<1> QED BY <1>2, <1>3, <1>4

\* The records of an exchange.
LEMMA RecordsThere ==
  ASSUME CatalogInv
  PROVE  /\ exchange.room \in UWord /\ 1 \in DOMAIN exchange.records
         /\ HeapRanged(exchange.records, exchange.records)
         /\ \A r \in DOMAIN exchange.records :
              /\ Len(exchange.records[r]) \in Nat
              /\ \A f \in 1 .. Len(exchange.records[r]) :
                   /\ exchange.records[r][f].records \in Seq(DOMAIN exchange.records)
                   /\ Len(exchange.records[r][f].records) \in UWord
<1>1. PICK records : records = exchange.records
  OBVIOUS
<1>2. /\ exchange.room \in 0 .. MaxWord /\ 1 \in DOMAIN records
      /\ \A r \in DOMAIN records :
           /\ IsArray(records[r])
           /\ \A f \in DOMAIN records[r] : IsTyped(records[r][f], records)
  BY <1>1, RecordsAssumption DEF CatalogInv
<1>3. ASSUME NEW r \in DOMAIN records
      PROVE  /\ Len(records[r]) \in Nat
             /\ records[r] = [f \in 1 .. Len(records[r]) |-> records[r][f]]
             /\ \A f \in 1 .. Len(records[r]) : IsTyped(records[r][f], records)
  BY <1>2 DEF IsArray
<1>4. ASSUME NEW r \in DOMAIN records, NEW f \in 1 .. Len(records[r])
      PROVE  /\ IsValueOf(records, r, f, records[r][f])
             /\ records[r][f].records \in Seq(DOMAIN records)
             /\ Len(records[r][f].records) \in UWord
  <2>1. PICK v : v = records[r][f]
    OBVIOUS
  <2>2. IsTyped(v, records)
    BY <1>3, <2>1
  <2>3. v \in Values(records) /\ Len(v.bytes) <= MaxWord /\ Len(v.records) <= MaxWord
    BY <2>2 DEF IsTyped, Values, UWord
  <2>4. v.records \in Seq(DOMAIN records)
    BY <2>3 DEF Values
  <2>5. Len(v.records) \in UWord
    BY <2>3, <2>4, SmallWords DEF UWord
  <2> QED BY <2>1, <2>3, <2>4, <2>5 DEF IsValueOf
<1>5. HeapRanged(records, records)
  BY <1>3, <1>4 DEF HeapRanged
<1> QED BY <1>1, <1>2, <1>3, <1>4, <1>5 DEF UWord

\* One value, and the length of its record.
LEMMA ValueThere ==
  ASSUME NEW records, NEW h, HeapRanged(records, h), NEW r \in DOMAIN records
  PROVE  /\ Len(records[r]) \in Nat => Len(h[r]) = Len(records[r])
         /\ \A f \in 1 .. Len(records[r]) :
              /\ h[r][f].number \in UWord /\ h[r][f].count \in UWord
              /\ h[r][f].bytes \in Seq(Byte) /\ Len(h[r][f].bytes) \in UWord
              /\ h[r][f].records = records[r][f].records
<1>1. ASSUME Len(records[r]) \in Nat
      PROVE  Len(h[r]) = Len(records[r])
  <2>1. PICK n \in Nat : n = Len(records[r])
    BY <1>1
  <2>2. h[r] = [f \in 1 .. n |-> h[r][f]]
    BY <2>1 DEF HeapRanged
  <2>3. h[r] \in Seq({h[r][f] : f \in 1 .. n})
    BY <2>2
  <2>4. DOMAIN h[r] = 1 .. n
    BY <2>2
  <2> QED BY <2>1, <2>3, <2>4
<1>2. ASSUME NEW f \in 1 .. Len(records[r])
      PROVE  /\ h[r][f].number \in UWord /\ h[r][f].count \in UWord
             /\ h[r][f].bytes \in Seq(Byte) /\ Len(h[r][f].bytes) \in UWord
             /\ h[r][f].records = records[r][f].records
  <2>1. PICK v : v = h[r][f]
    OBVIOUS
  <2>2. v \in Values(records) /\ Len(v.bytes) <= MaxWord /\ v.records = records[r][f].records
    BY <2>1 DEF HeapRanged, IsValueOf
  <2>3. v.bytes \in Seq(Byte) /\ v.number \in UWord /\ v.count \in UWord
    BY <2>2 DEF Values
  <2>4. Len(v.bytes) \in UWord
    BY <2>2, <2>3, SmallWords DEF UWord
  <2> QED BY <2>1, <2>2, <2>3, <2>4
<1> QED BY <1>1, <1>2

-----------------------------------------------------------------------------
(* Names                                                                     *)

\* The record of a message has a value for each of its fields.
HasRecord(w) ==
  /\ w.record \in DOMAIN exchange.records
  /\ FieldCount(db, w.message) \in 0 .. Len(exchange.records[w.record])

\* wire_info_field()
LEMMA FieldOfFits ==
  ASSUME NEW m, NEW name, FieldOf(db, m, name) # 0
  PROVE  FieldOf(db, m, name) \in Nat \ {0} /\ FieldOf(db, m, name) \in 1 .. FieldCount(db, m)
<1>1. PICK named : named = {i \in 1 .. FieldCount(db, m) : FieldName(db, m, i) = name}
  OBVIOUS
<1>2. FieldOf(db, m, name) = IF named = {} THEN 0 ELSE Min(named)
  BY <1>1 DEF FieldOf
<1>3. named # {} /\ FieldOf(db, m, name) = Min(named)
  BY <1>2
<1>4. named \in SUBSET Nat
  BY <1>1
<1>5. \E i \in named : \A j \in named : i <= j
  BY <1>3, <1>4, LeastElement
<1>6. Min(named) \in named
  BY <1>5 DEF Min
<1> QED BY <1>1, <1>3, <1>6

\* record_lookup()
LEMMA NamedField ==
  ASSUME \E S : suspended \in Seq(S), \A k \in 1 .. Len(Scopes) : HasRecord(Scopes[k]),
         \A r \in DOMAIN exchange.records : Len(exchange.records[r]) \in Nat,
         Current.up \in Nat, Here.scope # 0
  PROVE  /\ Here.scope \in 1 .. Len(Scopes)
         /\ Owner \in DOMAIN exchange.records
         /\ Here.field \in 1 .. Len(exchange.records[Owner])
<1>0. PICK up \in Nat : up = Current.up
  OBVIOUS
<1>1. PICK name : name = Current.name /\ up = Current.up
  BY <1>0
<1>2. PICK n \in Nat : n = Len(Scopes)
  BY DEF Scopes
<1>3. PICK having : having = {k \in 1 .. n - up : FieldOf(db, Scopes[k].message, name) # 0}
  OBVIOUS
<1>4. Here = IF having = {} THEN [scope |-> 0, field |-> 0]
             ELSE [scope |-> Max(having), field |-> FieldOf(db, Scopes[Max(having)].message, name)]
  BY <1>1, <1>2, <1>3 DEF Here, Found
<1>5. having # {}
  BY <1>4
<1>6. Max(having) \in having
  <2>1. PICK T : T = {d \in Nat : n - d \in having}
    OBVIOUS
  <2>2. T \in SUBSET Nat /\ T # {}
    <3>1. PICK k \in having : TRUE
      BY <1>5
    <3>2. n - k \in Nat /\ n - (n - k) = k
      BY <1>3, <3>1
    <3> QED BY <2>1, <3>2
  <2>3. PICK d \in T : \A e \in T : d <= e
    BY <2>2, LeastElement
  <2>4. n - d \in having
    BY <2>1, <2>3
  <2>5. ASSUME NEW k \in having PROVE n - d >= k
    <3>1. n - k \in Nat /\ n - (n - k) = k /\ k \in Int
      BY <1>3, <2>5
    <3>2. n - k \in T
      BY <2>1, <3>1
    <3>3. d <= n - k /\ d \in Nat
      BY <2>1, <2>3, <3>2
    <3> QED BY <3>1, <3>3
  <2> QED BY <2>4, <2>5 DEF Max
<1>7. PICK k \in 1 .. n : k = Max(having) /\ FieldOf(db, Scopes[k].message, name) # 0
  <2>1. PICK k : k = Max(having)
    OBVIOUS
  <2>2. k \in 1 .. n - up /\ FieldOf(db, Scopes[k].message, name) # 0
    BY <1>3, <1>6, <2>1
  <2>3. k \in 1 .. n
    BY <2>2
  <2> QED BY <2>1, <2>2, <2>3
<1>8. Here.scope = k /\ Here.field = FieldOf(db, Scopes[k].message, name)
  BY <1>4, <1>5, <1>7
<1>9. HasRecord(Scopes[k]) /\ Owner = Scopes[k].record
  BY <1>2, <1>8 DEF Owner
<1>10. Owner \in DOMAIN exchange.records
       /\ FieldCount(db, Scopes[k].message) \in 0 .. Len(exchange.records[Owner])
  BY <1>9 DEF HasRecord
<1>11. Here.field \in 1 .. FieldCount(db, Scopes[k].message)
  BY <1>7, <1>8, FieldOfFits
<1>12. Len(exchange.records[Owner]) \in Nat
  BY <1>10
<1> QED BY <1>2, <1>8, <1>10, <1>11, <1>12

\* The token of a context that goes on.
LEMMA CurrentGood ==
  ASSUME InProgram(db, call.decode, wi), ~wi.overrun, ~AtEnd
  PROVE  GoodToken(Current, wi.message)
<1>1. PICK p : p = Format(db, wi.message, call.decode)
  OBVIOUS
<1>2. Placed(p, wi)
  BY <1>1 DEF InProgram
<1>3. PICK f : Along(f, p, Standing(-1, 0), Standing(-1, 0), wi.message)
  BY <1>2 DEF Placed
<1>4. PICK n \in Nat : n = Len(p)
  BY <1>2 DEF Placed, IsArray
<1>5. wi.pc \in 1 .. n /\ Current = p[wi.pc]
  BY <1>1, <1>2, <1>4 DEF Placed, AtEnd, Current
<1>6. Follows(f[wi.pc - 1], Current, f[wi.pc], wi.message)
  BY <1>3, <1>4, <1>5 DEF Along
<1> QED BY <1>6 DEF Follows

\* What a handler finds.
Prepared ==
  /\ CatalogInv /\ CallRanged(call) /\ Ranged(call, wi) /\ HeapRanged(exchange.records, heap)
  /\ (\E S : suspended \in Seq(S)) /\ \A k \in 1 .. Len(Scopes) : HasRecord(Scopes[k])
  /\ GoodToken(Current, wi.message)

\* The value behind a name.
LEMMA NamedValue ==
  ASSUME Prepared, Current.op \in Named, Here.scope # 0
  PROVE  /\ Here.scope \in 1 .. Len(Scopes)
         /\ Owner \in DOMAIN exchange.records
         /\ Here.field \in 1 .. Len(exchange.records[Owner])
         /\ Value.number \in UWord /\ Value.count \in UWord
         /\ Value.bytes \in Seq(Byte) /\ Len(Value.bytes) \in UWord
         /\ Value.records = exchange.records[Owner][Here.field].records
         /\ Value.records \in Seq(DOMAIN exchange.records) /\ Len(Value.records) \in UWord
<1>1. CatalogInv /\ HeapRanged(exchange.records, heap)
  BY DEF Prepared
<1>2. \A r \in DOMAIN exchange.records :
        /\ Len(exchange.records[r]) \in Nat
        /\ \A f \in 1 .. Len(exchange.records[r]) :
             /\ exchange.records[r][f].records \in Seq(DOMAIN exchange.records)
             /\ Len(exchange.records[r][f].records) \in UWord
  BY <1>1, RecordsThere
<1>3. Current.up \in Nat
  BY DEF Prepared, GoodToken
<1>4. /\ Here.scope \in 1 .. Len(Scopes)
      /\ Owner \in DOMAIN exchange.records
      /\ Here.field \in 1 .. Len(exchange.records[Owner])
  BY <1>2, <1>3, NamedField DEF Prepared
<1>5. PICK r, f : r = Owner /\ f = Here.field /\ r \in DOMAIN exchange.records
  BY <1>4
<1>6. f \in 1 .. Len(exchange.records[r]) /\ Value = heap[r][f]
  BY <1>4, <1>5 DEF Value
<1>7. /\ heap[r][f].number \in UWord /\ heap[r][f].count \in UWord
      /\ heap[r][f].bytes \in Seq(Byte) /\ Len(heap[r][f].bytes) \in UWord
      /\ heap[r][f].records = exchange.records[r][f].records
  <2>1. \A y \in 1 .. Len(exchange.records[r]) :
          /\ heap[r][y].number \in UWord /\ heap[r][y].count \in UWord
          /\ heap[r][y].bytes \in Seq(Byte) /\ Len(heap[r][y].bytes) \in UWord
          /\ heap[r][y].records = exchange.records[r][y].records
    <3>1. PICK records, h : records = exchange.records /\ h = heap
      OBVIOUS
    <3>2. HeapRanged(records, h) /\ r \in DOMAIN records
      BY <1>1, <1>5, <3>1
    <3>3. \A y \in 1 .. Len(records[r]) :
            /\ h[r][y].number \in UWord /\ h[r][y].count \in UWord
            /\ h[r][y].bytes \in Seq(Byte) /\ Len(h[r][y].bytes) \in UWord
            /\ h[r][y].records = records[r][y].records
      BY <3>2, ValueThere, ZenonT(60)
    <3> QED BY <3>1, <3>3
  <2> QED BY <1>6, <2>1
<1>8. /\ exchange.records[r][f].records \in Seq(DOMAIN exchange.records)
      /\ Len(exchange.records[r][f].records) \in UWord
  BY <1>2, <1>5, <1>6
<1> QED BY <1>4, <1>5, <1>6, <1>7, <1>8

-----------------------------------------------------------------------------
(* Handlers                                                                  *)

\* What a handler leaves behind.
Worked ==
  /\ \E w, pc : Moves(wi, w) /\ wi' = [w EXCEPT !.pc = pc]
  /\ HeapRanged(exchange.records, heap')

LEMMA PreparedMoves ==
  ASSUME Prepared
  PROVE  Moves(wi, wi) /\ CallRanged(call) /\ \A i \in 1 .. 4 : Operand(wi, i) \in UWord
<1>1. Moves(wi, wi) /\ CallRanged(call)
  BY DEF Prepared, Moves, SamePlace
<1>2. ASSUME NEW i \in 1 .. 4 PROVE Operand(wi, i) \in UWord
  BY OperandRanged DEF Prepared
<1> QED BY <1>1, <1>2

LEMMA DoWorks ==
  ASSUME Prepared, NEW w, Moves(wi, w), Do(w) \/ \E pc : Jump(w, pc)
  PROVE  Worked
<1>1. heap' = heap /\ \E pc : wi' = [w EXCEPT !.pc = pc]
  BY DEF Do, Jump
<1>2. HeapRanged(exchange.records, heap)
  BY DEF Prepared
<1> QED BY <1>1, <1>2 DEF Worked

LEMMA DoAndSetWorks ==
  ASSUME Prepared, NEW w, Moves(wi, w), NEW x,
         \/ DoAndSet(w, "number", x) /\ x \in UWord
         \/ DoAndSet(w, "bytes", x) /\ x \in Seq(Byte) /\ Len(x) <= MaxWord
  PROVE  Worked
<1>1. \E pc : wi' = [w EXCEPT !.pc = pc]
  BY DEF DoAndSet
<1>2. HeapRanged(exchange.records, heap)
  BY DEF Prepared
<1>3. HeapRanged(exchange.records, heap')
  <2>1. CASE DoAndSet(w, "number", x) /\ x \in UWord
    <3>1. heap' = [heap EXCEPT ![Owner][Here.field]["number"] = x]
      BY <2>1 DEF DoAndSet
    <3> QED BY <1>2, <2>1, <3>1, ValueUpdated
  <2>2. CASE DoAndSet(w, "bytes", x) /\ x \in Seq(Byte) /\ Len(x) <= MaxWord
    <3>1. heap' = [heap EXCEPT ![Owner][Here.field]["bytes"] = x]
      BY <2>2 DEF DoAndSet
    <3> QED BY <1>2, <2>2, <3>1, ValueUpdated
  <2> QED BY <2>1, <2>2
<1> QED BY <1>1, <1>3 DEF Worked

\* Names, literals, fields and conditionals.
LEMMA FieldsWork ==
  ASSUME Prepared,
         \/ NameUnknown \/ PushLiteral \/ LoadField \/ StoreField \/ MeasureField \/ ClearField
         \/ NoBranch \/ TestCondition \/ SkipElse
  PROVE  Worked
<1>0. Moves(wi, wi) /\ \A i \in 1 .. 4 : Operand(wi, i) \in UWord
  BY PreparedMoves
<1>p. \A k \in Nat : Moves(wi, Popped(wi, k))
  BY <1>0, PoppedMoves
<1>u. \A n \in UWord : Moves(wi, Push(wi, n))
  BY <1>0, PushMoves
<1>1. CASE NameUnknown
  <2>1. Do(Fail(wi, "schema"))
    BY <1>1 DEF NameUnknown
  <2> QED BY <1>0, <2>1, FailMoves, DoWorks
<1>2. CASE PushLiteral
  <2>1. Current.op = "{" /\ Do(Push(wi, Current.n))
    BY <1>2 DEF PushLiteral, Doing
  <2>2. Current.n \in UWord
    BY <2>1 DEF Prepared, GoodToken, UWord
  <2> QED BY <1>u, <2>1, <2>2, DoWorks
<1>3. CASE LoadField
  <2>1. Current.op = "g" /\ Here.scope # 0 /\ Do(Push(wi, Value.number))
    BY <1>3 DEF LoadField, DoingNamed, Doing
  <2>2. Value.number \in UWord
    BY <2>1, NamedValue DEF Named
  <2> QED BY <1>u, <2>1, <2>2, DoWorks
<1>4. CASE StoreField
  <2>1. Do(Popped(wi, 1)) \/ DoAndSet(Popped(wi, 1), "number", Operand(wi, 1))
    BY <1>4 DEF StoreField
  <2> QED BY <1>0, <1>p, <2>1, DoWorks, DoAndSetWorks
<1>5. CASE MeasureField
  <2>1. /\ Current.op \in {"z", "k"} /\ Here.scope # 0
        /\ Do(Push(wi, Len(Value.bytes))) \/ Do(Push(wi, Value.count))
    BY <1>5 DEF MeasureField, DoingNamed, Doing
  <2>2. Value.count \in UWord /\ Len(Value.bytes) \in UWord
    BY <2>1, NamedValue DEF Named
  <2> QED BY <1>u, <2>1, <2>2, DoWorks
<1>6. CASE ClearField
  <2>1. PICK r, f : r = Owner /\ f = Here.field
    OBVIOUS
  <2>2. /\ wi' = [wi EXCEPT !.pc = wi.pc + 1]
        /\ heap' = [heap EXCEPT ![r][f] = [NoValue EXCEPT !.records = heap[r][f].records]]
    BY <1>6, <2>1 DEF ClearField, Value
  <2>3. HeapRanged(exchange.records, heap)
    BY DEF Prepared
  <2>4. HeapRanged(exchange.records, [heap EXCEPT ![r][f] = [NoValue EXCEPT !.records = heap[r][f].records]])
    BY <2>3, ValueUpdated
  <2> QED BY <1>0, <2>2, <2>4 DEF Worked
<1>7. CASE NoBranch
  <2>1. Do(wi)
    BY <1>7 DEF NoBranch
  <2> QED BY <1>0, <2>1, DoWorks
<1>8. CASE TestCondition
  <2>1. Do(Popped(wi, 1)) \/ \E pc : Jump(Popped(wi, 1), pc)
    BY <1>8 DEF TestCondition
  <2> QED BY <1>p, <2>1, DoWorks
<1>9. CASE SkipElse
  <2>1. \E pc : Jump(wi, pc)
    BY <1>9 DEF SkipElse
  <2> QED BY <1>0, <2>1, DoWorks
<1> QED BY <1>1, <1>2, <1>3, <1>4, <1>5, <1>6, <1>7, <1>8, <1>9

\* The result of an operator is a word, unless its handler refuses the operands.
LEMMA CombinedFits ==
  ASSUME NEW a \in UWord, NEW b \in UWord,
         NEW op \in {"u+", "u-", "u*", "u/", "um", "u&", "u|", "u^", "u[", "u]", "u=", "u~",
                     "u<", "ul", "u>", "ug", "uA", "uO"},
         ~OutOfRange(op, a, b)
  PROVE  Combined(op, a, b) \in UWord
<1>1. /\ Modulus \in Nat \ {0} /\ MaxWord = Modulus - 1 /\ UWord = 0 .. Modulus - 1
      /\ a \in Nat /\ b \in Nat /\ WordBits \in Nat
  BY SmallWords, ByteWidth DEF UWord
<1>2. \A x : Bool(x) \in UWord
  BY SmallWords DEF Bool, UWord
<1>3. \A bits : OfBits(bits, WordBits) \in UWord
  <2> TAKE bits
  <2>1. WordBits \in 0 .. WordBits + BYTE_BITS
    BY ByteWidth
  <2>2. OfBits(bits, WordBits) \in 0 .. 2^WordBits - 1
    BY <2>1, OfBitsFits
  <2> QED BY <1>1, <2>2 DEF Modulus
<1>4. CASE op \in {"u=", "u~", "u<", "ul", "u>", "ug", "uA", "uO"}
  BY <1>2, <1>4 DEF Combined
<1>5. CASE op \in {"u&", "u|", "u^"}
  BY <1>3, <1>5, Zenon DEF Combined
<1>6. CASE op = "u+"
  BY <1>1, <1>6 DEF Combined, OutOfRange
<1>7. CASE op = "u-"
  BY <1>1, <1>7 DEF Combined, OutOfRange
<1>8. CASE op = "u*"
  <2>1. Combined(op, a, b) = a * b /\ (b = 0 \/ ~(a > (Modulus - 1) \div b))
    BY <1>8 DEF Combined, OutOfRange
  <2>2. CASE b = 0
    BY <1>1, <2>1, <2>2
  <2>3. CASE b # 0
    <3>1. PICK q \in Int, r \in 0 .. b - 1 : Modulus - 1 = b * q + r /\ (Modulus - 1) \div b = q
      <4>1. Modulus - 1 \in Int /\ b \in Nat \ {0}
        BY <1>1, <2>3
      <4> QED BY <4>1, DivMod
    <3>2. a <= q
      BY <1>1, <2>1, <2>3, <3>1
    <3>3. PICK t \in Nat : q = a + t
      <4>1. q - a \in Nat /\ q = a + (q - a)
        BY <1>1, <3>2
      <4> QED BY <4>1
    <3>4. b * q = b * a + b * t /\ b * t \in Nat /\ b * a = a * b /\ a * b \in Nat
      BY <1>1, <3>3
    <3> QED BY <1>1, <2>1, <3>1, <3>4
  <2> QED BY <2>2, <2>3
<1>9. CASE op \in {"u/", "um"}
  <2>1. b # 0 /\ Combined(op, a, b) \in {a \div b, a % b}
    BY <1>9 DEF Combined, OutOfRange
  <2>2. a \div b \in 0 .. a /\ a % b \in 0 .. a
    <3>1. b \in Nat \ {0}
      BY <1>1, <2>1
    <3> QED BY <1>1, <3>1, DivModSmaller
  <2> QED BY <1>1, <2>1, <2>2
<1>10. CASE op \in {"u[", "u]"}
  <2>1. b < WordBits
    BY <1>1, <1>10 DEF OutOfRange
  <2>2. PICK p \in Nat \ {0}, q \in Nat \ {0} : p = 2^(WordBits - b) /\ q = 2^b /\ Modulus = p * q
    <3>1. WordBits - b \in Nat /\ b \in 0 .. WordBits /\ WordBits - b \in 0 .. WordBits
          /\ (WordBits - b) + b = WordBits
      BY <1>1, <2>1
    <3>2. (WordBits - b) + b <= WordBits + BYTE_BITS
      BY <1>1, <3>1, ByteWidth
    <3>3. 2^((WordBits - b) + b) = 2^(WordBits - b) * 2^b
      BY <1>1, <3>1, <3>2, PowersAdd
    <3>4. 2^(WordBits - b) \in Nat \ {0} /\ 2^b \in Nat \ {0}
      BY <3>1, PowersFit
    <3> QED BY <3>1, <3>3, <3>4 DEF Modulus
  <2>3. CASE op = "u["
    <3>1. PICK x \in 0 .. p - 1 : x = a % p
      <4>1. a \in Int
        BY <1>1
      <4> QED BY <4>1, DivMod
    <3>2. Combined(op, a, b) = x * q
      BY <2>2, <2>3, <3>1 DEF Combined
    <3>3. PICK t \in Nat \ {0} : p = x + t
      <4>1. p - x \in Nat \ {0} /\ p = x + (p - x)
        OBVIOUS
      <4> QED BY <4>1
    <3>4. Modulus = x * q + t * q /\ t * q \in Nat /\ t * q >= 1 /\ x * q \in Nat
      BY <2>2, <3>3
    <3> QED BY <1>1, <3>2, <3>4
  <2>4. CASE op = "u]"
    <3>1. Combined(op, a, b) = a \div q
      BY <2>2, <2>4 DEF Combined
    <3>2. a \div q \in 0 .. a
      BY <1>1, DivModSmaller
    <3> QED BY <1>1, <3>1, <3>2
  <2> QED BY <1>10, <2>3, <2>4
<1> QED BY <1>4, <1>5, <1>6, <1>7, <1>8, <1>9, <1>10

\* %us: as many octets in the other order are a word as well.
LEMMA SwappedFits ==
  ASSUME NEW value \in UWord, NEW width \in UWord, width # 0, ~(width > WordBits),
         width % BYTE_BITS = 0
  PROVE  Number(LittleEndian(value, width \div BYTE_BITS)) \in UWord
<1>1. /\ BYTE_BITS = 8 /\ WORD_BYTES \in Nat /\ WordBits = WORD_BYTES * 8
      /\ Modulus \in Nat \ {0} /\ UWord = 0 .. Modulus - 1
  BY SmallWords, ByteWidth DEF UWord
<1>2. width \in Nat /\ value \in Nat /\ width <= WordBits
  BY <1>1
<1>3. PICK k \in 0 .. WORD_BYTES : k = width \div BYTE_BITS
  <2>1. PICK d \in Nat \ {0} : d = 8
    OBVIOUS
  <2>2. PICK q \in Int, r \in 0 .. d - 1 : width = d * q + r /\ width \div d = q /\ width % d = r
    <3>1. width \in Int
      BY <1>2
    <3> QED BY <3>1, DivMod
  <2>3. q \in 0 .. WORD_BYTES
    BY <1>1, <1>2, <2>1, <2>2
  <2> QED BY <1>1, <2>1, <2>2, <2>3
<1>4. LittleEndian(value, k) \in [1 .. k -> Byte]
  <2>1. value \in Int
    BY <1>2
  <2> QED BY <2>1, LittleEndianBytes
<1>5. Number(LittleEndian(value, k)) \in 0 .. Base^k - 1
  BY <1>4, NumberFits
<1>6. Base^k \in Nat \ {0} /\ Base^k <= Modulus
  BY BasePowersGrow
<1> QED BY <1>1, <1>3, <1>5, <1>6

\* Operators, queries and requirements.
LEMMA ArithmeticWorks ==
  ASSUME Prepared, Combine \/ Negate \/ Select \/ Query \/ Require \/ Swap
  PROVE  Worked
<1>0. Moves(wi, wi) /\ CallRanged(call) /\ \A i \in 1 .. 4 : Operand(wi, i) \in UWord
  BY PreparedMoves
<1>p. \A k \in Nat : Moves(wi, Popped(wi, k))
  BY <1>0, PoppedMoves
<1>b. \A x : Bool(x) \in UWord
  BY SmallWords DEF Bool, UWord
<1>1. CASE Combine
  <2>1. PICK op, a, b : op = Current.op /\ a = Operand(wi, 2) /\ b = Operand(wi, 1)
    OBVIOUS
  <2>2. op \in {"u+", "u-", "u*", "u/", "um", "u&", "u|", "u^", "u[", "u]", "u=", "u~",
                "u<", "ul", "u>", "ug", "uA", "uO"}
    <3>1. op \in {Binaries[b_1] : b_1 \in DOMAIN Binaries}
      BY <1>1, <2>1 DEF Combine, Doing
    <3> QED BY <3>1, BinaryOperators
  <2>3. PICK w : w = Popped(wi, 2)
    OBVIOUS
  <2>4. Moves(wi, w)
    BY <1>p, <2>3
  <2>5. PICK v : /\ Do(v)
                 /\ \/ v = w
                    \/ v = Fail(w, "range")
                    \/ v = Push(w, Combined(op, a, b)) /\ ~OutOfRange(op, a, b)
    BY <1>1, <2>1, <2>3 DEF Combine
  <2>6. a \in UWord /\ b \in UWord
    BY <1>0, <2>1
  <2>7. Moves(wi, v)
    <3>1. ~OutOfRange(op, a, b) => Combined(op, a, b) \in UWord
      BY <2>2, <2>6, CombinedFits
    <3> QED BY <2>4, <2>5, <3>1, FailMoves, PushMoves
  <2> QED BY <2>5, <2>7, DoWorks
<1>2. CASE Negate
  <2>1. PICK n : n = Bool(Operand(wi, 1) = 0)
    OBVIOUS
  <2>2. Do(Push(Popped(wi, 1), n))
    BY <1>2, <2>1 DEF Negate
  <2>3. Moves(wi, Push(Popped(wi, 1), n))
    BY <1>p, <1>b, <2>1, PushMoves
  <2> QED BY <2>2, <2>3, DoWorks
<1>3. CASE Select
  <2>1. PICK n : n = IF Operand(wi, 3) # 0 THEN Operand(wi, 2) ELSE Operand(wi, 1)
    OBVIOUS
  <2>2. Do(Push(Popped(wi, 3), n)) /\ n \in UWord
    BY <1>0, <1>3, <2>1 DEF Select
  <2>3. Moves(wi, Push(Popped(wi, 3), n))
    BY <1>p, <2>2, PushMoves
  <2> QED BY <2>2, <2>3, DoWorks
<1>4. CASE Query
  <2>1. Current.op \in {"ur", "up", "uo", "un", "uk"}
    BY <1>4 DEF Query, Doing
  <2>2. PICK v : /\ Do(v)
                 /\ \/ v = Fail(wi, "truncated")
                    \/ \E n \in {Room(wi), Unread(wi), Position(wi), wi.base, wi.index} : v = Push(wi, n)
                    \/ Unread(wi) # 0 /\ v = Push(wi, call.input[wi.pos + 1])
    BY <1>4, <2>1 DEF Query
  <2>3. Ranged(call, wi)
    BY DEF Prepared
  <2>4. /\ Room(wi) \in UWord /\ Unread(wi) \in UWord /\ wi.pos \in Nat
        /\ wi.pos + Unread(wi) = Len(call.input)
    BY <1>0, <2>3, RoomLeft
  <2>5. Position(wi) \in UWord
    BY <1>0, <2>3, ReachedFits, PlaceIsReached
  <2>6. wi.index \in UWord /\ wi.base \in UWord
    <3>1. wi.base \in Nat /\ wi.base <= Position(wi) /\ wi.index \in UWord
      BY <2>3, PlaceIsReached DEF Ranged
    <3> QED BY <2>5, <3>1, SmallWords DEF UWord
  <2>7. Unread(wi) # 0 => call.input[wi.pos + 1] \in UWord
    <3> SUFFICES ASSUME Unread(wi) # 0 PROVE call.input[wi.pos + 1] \in UWord
      OBVIOUS
    <3>1. call.input \in Seq(Byte) /\ wi.pos + 1 \in 1 .. Len(call.input)
      BY <1>0, <2>4, SMTT(30) DEF CallRanged, UWord
    <3> QED BY <3>1, ByteWidth, ElementOfSeq
  <2>8. Moves(wi, v)
    BY <1>0, <2>2, <2>4, <2>5, <2>6, <2>7, FailMoves, PushMoves
  <2> QED BY <2>2, <2>8, DoWorks
<1>5. CASE Require
  <2>1. PICK w : w = Popped(wi, 2)
    OBVIOUS
  <2>2. PICK v : Do(v) /\ (v = w \/ \E s : v = Fail(w, s))
    BY <1>5, <2>1 DEF Require
  <2>3. Moves(wi, v)
    BY <1>p, <2>1, <2>2, FailMoves
  <2> QED BY <2>2, <2>3, DoWorks
<1>6. CASE Swap
  <2>1. PICK width, value, w :
          width = Operand(wi, 1) /\ value = Operand(wi, 2) /\ w = Popped(wi, 2)
    OBVIOUS
  <2>2. PICK n : n = Number(LittleEndian(value, width \div BYTE_BITS))
    OBVIOUS
  <2>3. \/ Do(Fail(w, "range"))
        \/ Do(Push(w, n)) /\ width # 0 /\ ~(width > WordBits) /\ width % BYTE_BITS = 0
    BY <1>6, <2>1, <2>2 DEF Swap
  <2>4. width \in UWord /\ value \in UWord /\ Moves(wi, w)
    BY <1>0, <1>p, <2>1
  <2>5. CASE Do(Fail(w, "range"))
    BY <2>4, <2>5, FailMoves, DoWorks
  <2>6. CASE Do(Push(w, n)) /\ width # 0 /\ ~(width > WordBits) /\ width % BYTE_BITS = 0
    <3>1. n \in UWord
      BY <2>2, <2>4, <2>6, SwappedFits
    <3>2. Moves(wi, Push(w, n))
      BY <2>4, <3>1, PushMoves
    <3> QED BY <2>6, <3>2, DoWorks
  <2> QED BY <2>3, <2>5, <2>6
<1> QED BY <1>1, <1>2, <1>3, <1>4, <1>5, <1>6

\* The number behind the octets of a SDNV that %D accepts.
LEMMA SdnvFits ==
  ASSUME NEW limit \in Nat, NEW bytes \in [1 .. limit -> Byte], NEW k \in 1 .. limit,
         ~SdnvOverflows(bytes, k)
  PROVE  SdnvValue(bytes, k) \in UWord
<1>1. Group \in Nat \ {0} /\ UWord = 0 .. Modulus - 1
  BY Widths, SmallWords DEF UWord
<1>2. PICK m \in Nat \ {0} : Modulus = Group * m /\ (Modulus - 1) \div Group = m - 1
  BY ModulusOfGroups
<1>g. PICK g \in Nat \ {0} : g = Group
  BY <1>1
<1>3. \A i \in 1 .. limit : bytes[i] \in Nat
  <2>1. \A x \in Byte : x \in Nat
    BY ByteWidth
  <2>2. \A i \in 1 .. limit : bytes[i] \in Byte
    OBVIOUS
  <2> QED BY <2>1, <2>2
<1>4. PICK v \in [0 .. limit -> Nat] :
        /\ Accumulates(v, GroupsOf(bytes, limit), Group, limit)
        /\ \A i \in 0 .. limit : SdnvValue(bytes, i) = v[i]
  <2>1. bytes \in [1 .. limit -> Nat]
    BY <1>3
  <2> QED BY <2>1, SdnvAccumulates
<1>5. PICK before \in Nat, x \in 0 .. g - 1 :
        before = SdnvValue(bytes, k - 1) /\ SdnvValue(bytes, k) = before * g + x
  <2>1. k - 1 \in 0 .. limit /\ k \in 0 .. limit
    OBVIOUS
  <2>2. bytes[k] % Group \in 0 .. Group - 1
    <3>1. bytes[k] \in Int
      BY <1>3
    <3> QED BY <1>1, <3>1, DivMod
  <2>3. v[k] = v[k - 1] * Group + (bytes[k] % Group)
    BY <1>4 DEF Accumulates, GroupsOf
  <2> QED BY <1>4, <1>g, <2>1, <2>2, <2>3
<1>6. before <= m - 1
  BY <1>1, <1>2, <1>5 DEF SdnvOverflows
<1>7. PICK t \in Nat : m = before + 1 + t
  <2>1. m - 1 - before \in Nat /\ m = before + 1 + (m - 1 - before)
    BY <1>6
  <2> QED BY <2>1
<1>8. Modulus = before * g + g + t * g /\ t * g \in Nat /\ before * g \in Nat
  <2>2. t * g \in Nat /\ before * g \in Nat /\ g * (before + 1 + t) = before * g + g + t * g
    OBVIOUS
  <2>3. Modulus = g * (before + 1 + t)
    BY <1>2, <1>7, <1>g
  <2>4. Modulus = before * g + g + t * g
    BY <2>2, <2>3
  <2> QED BY <2>2, <2>4
<1>9. PICK u \in Nat, y \in Nat : u = before * g /\ y = t * g
  BY <1>8
<1>10. Modulus = u + g + y /\ SdnvValue(bytes, k) = u + x
  BY <1>5, <1>8, <1>9
<1> QED BY <1>1, <1>10

\* What %D does with the input.
LEMMA ReadSdnvWorks ==
  ASSUME Prepared, ReadSdnv
  PROVE  Worked
<1>0. Moves(wi, wi) /\ CallRanged(call) /\ Ranged(call, wi)
  BY PreparedMoves DEF Prepared
<1>1. PICK unread \in Nat, pos \in Nat, max \in Nat \ {0} :
        unread = Unread(wi) /\ pos = wi.pos /\ max = SdnvMax /\ pos + unread = Len(call.input)
  BY <1>0, RoomLeft, Sizes DEF UWord
<1>2. PICK limit \in 0 .. unread : limit = Min({Unread(wi), SdnvMax})
  <2>1. unread \in Int /\ max \in Int
    OBVIOUS
  <2>2. Min({unread, max}) \in {unread, max} /\ Min({unread, max}) <= unread
    BY <2>1, MinOfTwo, Zenon
  <2>3. Min({unread, max}) \in 0 .. unread
    BY <2>2
  <2> QED BY <1>1, <2>3
<1>3. PICK bytes : bytes = SubSeq(call.input, wi.pos + 1, wi.pos + limit)
  OBVIOUS
<1>4. bytes \in [1 .. limit -> Byte]
  <2>1. call.input \in Seq(Byte) /\ pos + 1 \in Nat \ {0} /\ pos + limit \in Int
        /\ pos + limit <= Len(call.input)
    BY <1>0, <1>1 DEF CallRanged
  <2>2. PICK a \in Nat \ {0}, b \in Int : a = pos + 1 /\ b = pos + limit
    BY <2>1
  <2>4. bytes \in Seq(Byte) /\ Len(bytes) = IF a <= b THEN b - a + 1 ELSE 0
    <3>1. bytes = SubSeq(call.input, a, b)
      BY <1>1, <1>3, <2>2
    <3>2. b <= Len(call.input)
      BY <2>1, <2>2
    <3>3. PICK input \in Seq(Byte) : input = call.input
      BY <2>1
    <3>4. SubSeq(input, a, b) \in Seq(Byte)
          /\ Len(SubSeq(input, a, b)) = IF a <= b THEN b - a + 1 ELSE 0
      BY <3>2, <3>3, PartOfSeq
    <3> QED BY <3>1, <3>3, <3>4
  <2>3. Len(bytes) = limit
    BY <2>2, <2>4
  <2> QED BY <2>3, <2>4
<1>5. PICK ends : ends = {i \in 1 .. limit : SdnvOverflows(bytes, i) \/ SdnvEnds(bytes, i)}
  OBVIOUS
<1>6. PICK k \in 1 .. limit + 1 : k = Min(ends \cup {limit + 1})
  <2>1. PICK T : T = ends \cup {limit + 1}
    OBVIOUS
  <2>2. T \in SUBSET (1 .. limit + 1) /\ T # {}
    BY <1>5, <2>1
  <2>3. T \in SUBSET Nat
    BY <2>2
  <2>4. \E i \in T : \A j \in T : i <= j
    BY <2>2, <2>3, LeastElement
  <2>5. Min(T) \in T
    BY <2>4 DEF Min
  <2> QED BY <2>1, <2>2, <2>5
<1>7. PICK n \in 0 .. limit : n = Min({k, limit})
  <2>1. k \in Int /\ limit \in Int
    OBVIOUS
  <2>2. Min({k, limit}) \in {k, limit} /\ Min({k, limit}) <= limit
    BY <2>1, MinOfTwo, Zenon
  <2>3. Min({k, limit}) \in 0 .. limit
    BY <2>2
  <2> QED BY <2>3
<1>8. PICK w : w = [wi EXCEPT !.pos = wi.pos + n]
  OBVIOUS
<1>9. Moves(wi, w)
  <2>1. wi.pos + n \in wi.pos .. Len(call.input)
    BY <1>1
  <2> QED BY <1>0, <1>8, <2>1, ReadMoves
<1>10. Do(IF k > limit \/ SdnvOverflows(bytes, k) THEN [w EXCEPT !.overrun = TRUE]
          ELSE Push(w, SdnvValue(bytes, k)))
  BY <1>2, <1>3, <1>5, <1>6, <1>7, <1>8, ZenonT(60) DEF ReadSdnv
<1>11. CASE k > limit \/ SdnvOverflows(bytes, k)
  <2>1. Do([w EXCEPT !.overrun = TRUE])
    BY <1>10, <1>11
  <2> QED BY <1>0, <1>9, <2>1, StopMoves, DoWorks
<1>12. CASE ~(k > limit) /\ ~SdnvOverflows(bytes, k)
  <2>1. Do(Push(w, SdnvValue(bytes, k)))
    BY <1>10, <1>12
  <2>2. SdnvValue(bytes, k) \in UWord
    <3>1. k \in 1 .. limit
      BY <1>12
    <3> QED BY <1>4, <1>12, <3>1, SdnvFits
  <2>3. Moves(wi, Push(w, SdnvValue(bytes, k)))
    BY <1>9, <2>2, PushMoves
  <2> QED BY <2>1, <2>3, DoWorks
<1> QED BY <1>11, <1>12

\* Numbers on the wire.
LEMMA NumbersWork ==
  ASSUME Prepared, RequireAligned \/ EmitField \/ ReadField \/ EmitSdnv \/ ReadSdnv \/ CborHead
  PROVE  Worked
<1>0. Moves(wi, wi) /\ CallRanged(call) /\ \A i \in 1 .. 4 : Operand(wi, i) \in UWord
  BY PreparedMoves
<1>p. \A k \in Nat : Moves(wi, Popped(wi, k))
  BY <1>0, PoppedMoves
<1>n. \A n \in UWord : n \in Nat /\ n \in Int
  BY DEF UWord
<1>1. CASE RequireAligned
  <2>1. Do(Aligned(wi))
    BY <1>1 DEF RequireAligned
  <2> QED BY <1>0, <2>1, AlignedMoves, DoWorks
<1>2. CASE EmitField
  <2>1. PICK w, value, width :
          w = Popped(wi, 2) /\ value = Operand(wi, 2) /\ width = Operand(wi, 1)
    OBVIOUS
  <2>2. \/ Do(EmitBits(w, value, width)) /\ ~call.decode
        \/ Do(Fail(w, "schema"))
    BY <1>2, <2>1 DEF EmitField, Encoding
  <2>3. Moves(wi, w) /\ value \in Nat /\ width \in Nat
    BY <1>0, <1>p, <1>n, <2>1
  <2>4. ~call.decode => Moves(wi, EmitBits(w, value, width))
    BY <1>0, <2>3, EmitBitsMoves
  <2> QED BY <2>2, <2>3, <2>4, FailMoves, DoWorks
<1>3. CASE ReadField
  <2>1. PICK w, width, read :
          w = Popped(wi, 1) /\ width = Operand(wi, 1) /\ read = ReadBits(w, width)
    OBVIOUS
  <2>2. Do(Fail(w, "schema")) \/ Do(Push(read.w, read.value))
    BY <1>3, <2>1 DEF ReadField
  <2>3. Moves(wi, w) /\ width \in Nat
    BY <1>0, <1>p, <1>n, <2>1
  <2>4. Moves(wi, read.w) /\ read.value \in UWord
    BY <1>0, <2>1, <2>3, ReadBitsMoves
  <2> QED BY <2>2, <2>3, <2>4, FailMoves, PushMoves, DoWorks
<1>4. CASE EmitSdnv
  <2>1. PICK k \in 1 .. SdnvMax : Do(Emit(Popped(wi, 1), Sdnv(Operand(wi, 1), k)))
    BY <1>4 DEF EmitSdnv
  <2>2. Sdnv(Operand(wi, 1), k) \in [1 .. k -> Byte]
    <3>1. Operand(wi, 1) \in Int
      BY <1>0, <1>n
    <3> QED BY <3>1, SdnvOctets
  <2>3. Sdnv(Operand(wi, 1), k) \in Seq(Byte)
    <3>1. k \in Nat
      BY Sizes
    <3> QED BY <2>2, <3>1, BytesAreSeq
  <2>4. Moves(wi, Emit(Popped(wi, 1), Sdnv(Operand(wi, 1), k)))
    BY <1>0, <1>p, <2>3, EmitMoves
  <2> QED BY <2>1, <2>4, DoWorks
<1>5. CASE ReadSdnv
  BY <1>5, ReadSdnvWorks
<1>6. CASE CborHead
  <2>1. PICK w, major, value :
          w = Popped(wi, 2) /\ major = Operand(wi, 1) /\ value = Operand(wi, 2)
    OBVIOUS
  <2>2. PICK head : head = Cbor(w, major, value)
    OBVIOUS
  <2>3. \/ Do(Fail(w, "schema"))
        \/ Do(Push(head.w, head.value)) /\ ~(major > 4)
    BY <1>6, <2>1, <2>2 DEF CborHead
  <2>4. Moves(wi, w) /\ major \in Nat /\ value \in UWord
    BY <1>0, <1>p, <1>n, <2>1
  <2>5. CASE Do(Fail(w, "schema"))
    BY <2>4, <2>5, FailMoves, DoWorks
  <2>6. CASE Do(Push(head.w, head.value)) /\ ~(major > 4)
    <3>1. major \in 0 .. 4
      BY <2>4, <2>6
    <3>2. Moves(wi, head.w) /\ head.value \in UWord
      BY <1>0, <2>2, <2>4, <3>1, CborMoves
    <3> QED BY <2>6, <3>2, PushMoves, DoWorks
  <2> QED BY <2>3, <2>5, <2>6
<1> QED BY <1>1, <1>2, <1>3, <1>4, <1>5, <1>6

\* Digits, and octets with a terminator.
LEMMA TextWorks ==
  ASSUME Prepared, Decimal \/ Terminated
  PROVE  Worked
<1>0. Moves(wi, wi) /\ CallRanged(call) /\ \A i \in 1 .. 4 : Operand(wi, i) \in UWord
  BY PreparedMoves
<1>p. \A k \in Nat : Moves(wi, Popped(wi, k))
  BY <1>0, PoppedMoves
<1>1. CASE Decimal
  <2>1. PICK w, mode, width, value :
          /\ w = Popped(wi, 3) /\ mode = Operand(wi, 1) /\ width = Operand(wi, 2)
          /\ value = Operand(wi, 3)
    OBVIOUS
  <2>2. PICK read, emitted : read = ReadDigits(w, width, mode) /\ emitted = EmitDigits(w, value, width, mode)
    OBVIOUS
  <2>3. \/ Do(Fail(w, "range"))
        \/ Do(Push(read.w, read.value)) /\ width \in 1 .. MaxDigits
        \/ Do(Push(emitted, value)) /\ width \in 1 .. MaxDigits /\ ~call.decode
    BY <1>1, <2>1, <2>2 DEF Decimal, Encoding
  <2>4. Moves(wi, w) /\ value \in UWord
    BY <1>0, <1>p, <2>1
  <2>5. CASE Do(Fail(w, "range"))
    BY <2>4, <2>5, FailMoves, DoWorks
  <2>6. CASE Do(Push(read.w, read.value)) /\ width \in 1 .. MaxDigits
    <3>1. Moves(wi, read.w) /\ (read.w.overrun \/ read.value \in UWord)
      BY <1>0, <2>2, <2>4, <2>6, ReadDigitsMoves
    <3> QED BY <2>6, <3>1, PushMoves, DoWorks
  <2>7. CASE Do(Push(emitted, value)) /\ width \in 1 .. MaxDigits /\ ~call.decode
    <3>1. Moves(wi, emitted)
      BY <1>0, <2>2, <2>4, <2>7, EmitDigitsMoves
    <3> QED BY <2>4, <2>7, <3>1, PushMoves, DoWorks
  <2> QED BY <2>3, <2>5, <2>6, <2>7
<1>2. CASE Terminated
  <2>1. PICK w, stop, mask, value :
          /\ w = Popped(wi, 4) /\ stop = Operand(wi, 1) /\ mask = Operand(wi, 2)
          /\ value = Operand(wi, 4)
    OBVIOUS
  <2>2. PICK asked, read : asked = Operand(wi, 3) /\ read = ReadTerminated(w, mask, stop)
    OBVIOUS
  <2>3. PICK n : n = IF asked > 0 THEN asked ELSE Min({k \in 1 .. WORD_BYTES : value < Base ^ k})
    OBVIOUS
  <2>4. \/ Do(Fail(w, "schema")) \/ Do(Fail(w, "range"))
        \/ Do(Push(read.w, read.value))
        \/ Do(Push(EmitTerminated(w, value, n, mask, stop), value)) /\ ~(n > WORD_BYTES)
    BY <1>2, <2>1, <2>2, <2>3 DEF Terminated
  <2>5. Moves(wi, w) /\ value \in UWord /\ asked \in UWord
    BY <1>0, <1>p, <2>1, <2>2
  <2>6. CASE Do(Fail(w, "schema")) \/ Do(Fail(w, "range"))
    BY <2>5, <2>6, FailMoves, DoWorks
  <2>7. CASE Do(Push(read.w, read.value))
    <3>1. Moves(wi, read.w) /\ (read.w.overrun \/ read.value \in UWord)
      BY <1>0, <2>2, <2>5, ReadTerminatedMoves
    <3> QED BY <2>7, <3>1, PushMoves, DoWorks
  <2>8. CASE Do(Push(EmitTerminated(w, value, n, mask, stop), value)) /\ ~(n > WORD_BYTES)
    <3>1. n \in Nat
      <4>1. CASE asked > 0
        BY <2>3, <2>5, <4>1 DEF UWord
      <4>2. CASE ~(asked > 0)
        <5>1. PICK T : T = {k \in 1 .. WORD_BYTES : value < Base ^ k}
          OBVIOUS
        <5>2. T # {}
          <6>1. WORD_BYTES \in 1 .. WORD_BYTES
            BY ByteWidth
          <6>2. value < Base ^ WORD_BYTES
            BY <2>5, WordFits, SmallWords DEF UWord
          <6> QED BY <5>1, <6>1, <6>2
        <5>3. T \in SUBSET Nat
          BY <5>1
        <5>4. \E i \in T : \A j \in T : i <= j
          BY <5>2, <5>3, LeastElement
        <5>5. Min(T) \in T
          BY <5>4 DEF Min
        <5> QED BY <2>3, <4>2, <5>1, <5>3, <5>5
      <4> QED BY <4>1, <4>2
    <3>2. n \in 0 .. WORD_BYTES
      BY <2>8, <3>1, ByteWidth
    <3>3. Moves(wi, EmitTerminated(w, value, n, mask, stop))
      BY <1>0, <2>5, <3>2, EmitTerminatedMoves
    <3> QED BY <2>5, <2>8, <3>3, PushMoves, DoWorks
  <2> QED BY <2>4, <2>6, <2>7, <2>8
<1> QED BY <1>1, <1>2

\* Byte fields.
LEMMA BytesWork ==
  ASSUME Prepared, ByteAt \/ SliceField
  PROVE  Worked
<1>0. Moves(wi, wi) /\ CallRanged(call) /\ \A i \in 1 .. 4 : Operand(wi, i) \in UWord
  BY PreparedMoves
<1>p. \A k \in Nat : Moves(wi, Popped(wi, k))
  BY <1>0, PoppedMoves
<1>n. Current.op \in Named /\ Here.scope # 0
  BY DEF ByteAt, SliceField, DoingNamed, Doing, Named
<1>v. PICK octets \in Seq(Byte) : octets = Value.bytes /\ Len(octets) \in UWord
  BY <1>n, NamedValue
<1>1. CASE ByteAt
  <2>1. PICK i, w : i = Operand(wi, 1) /\ w = Popped(wi, 1)
    OBVIOUS
  <2>2. Do(Fail(w, "range")) \/ (Do(Push(w, octets[i + 1])) /\ ~(i >= Len(octets)))
    BY <1>1, <1>v, <2>1 DEF ByteAt
  <2>3. Moves(wi, w) /\ i \in Nat
    BY <1>0, <1>p, <2>1 DEF UWord
  <2>4. CASE Do(Fail(w, "range"))
    BY <2>3, <2>4, FailMoves, DoWorks
  <2>5. CASE Do(Push(w, octets[i + 1])) /\ ~(i >= Len(octets))
    <3>1. Len(octets) \in Nat /\ i + 1 \in 1 .. Len(octets)
      BY <2>3, <2>5, LenProperties
    <3>2. octets[i + 1] \in UWord
      BY <3>1, ElementOfSeq, ByteWidth
    <3>3. Moves(wi, Push(w, octets[i + 1]))
      BY <2>3, <3>2, PushMoves
    <3> QED BY <2>5, <3>3, DoWorks
  <2> QED BY <2>2, <2>4, <2>5
<1>2. CASE SliceField
  <2>1. PICK u : u = IF Current.op \in {"V", "N"} THEN Popped(wi, 1) ELSE wi
    OBVIOUS
  <2>2. PICK w : w = AlignedUnlessOver(u)
    OBVIOUS
  <2>3. PICK length : length = IF Current.op \in {"V", "N"} THEN Operand(wi, 1)
                               ELSE IF Encoding THEN Len(octets) ELSE Unread(wi)
    OBVIOUS
  <2>4. Moves(wi, w)
    BY <1>0, <1>p, <2>1, <2>2, AlignedUnlessOverMoves
  <2>5. length \in Nat
    <3>1. Ranged(call, wi)
      BY <1>0 DEF Moves
    <3>2. Unread(wi) \in UWord
      BY <1>0, <3>1, RoomLeft
    <3> QED BY <1>0, <1>v, <2>3, <3>2 DEF UWord
  <2>6. \/ \E v : Do(v) /\ (v = w \/ (\E s : v = Fail(w, s)) \/ v = Emit(w, octets))
        \/ /\ ~(length > Unread(w))
           /\ DoAndSet([w EXCEPT !.pos = w.pos + length], "bytes",
                       SubSeq(call.input, w.pos + 1, w.pos + length))
    BY <1>2, <1>v, <2>1, <2>2, <2>3, ZenonT(60) DEF SliceField
  <2>7. CASE \E v : Do(v) /\ (v = w \/ (\E s : v = Fail(w, s)) \/ v = Emit(w, octets))
    BY <1>0, <2>4, <2>7, FailMoves, EmitMoves, DoWorks
  <2>8. CASE /\ ~(length > Unread(w))
             /\ DoAndSet([w EXCEPT !.pos = w.pos + length], "bytes",
                         SubSeq(call.input, w.pos + 1, w.pos + length))
    <3>1. PICK pos \in Nat, unread \in Nat, total \in Nat :
            /\ pos = w.pos /\ unread = Unread(w) /\ total = Len(call.input)
            /\ pos + unread = total /\ total <= MaxWord
      <4>1. Ranged(call, w)
        BY <2>4 DEF Moves
      <4>2. Unread(w) \in UWord /\ w.pos \in Nat /\ w.pos + Unread(w) = Len(call.input)
        BY <1>0, <4>1, RoomLeft
      <4> QED BY <1>0, <4>2 DEF UWord, CallRanged
    <3>2. length <= unread
      BY <2>5, <2>8, <3>1
    <3>3. PICK x : x = SubSeq(call.input, w.pos + 1, w.pos + length)
      OBVIOUS
    <3>4. x \in Seq(Byte) /\ Len(x) <= MaxWord
      <4>1. PICK input \in Seq(Byte) : input = call.input
        BY <1>0 DEF CallRanged
      <4>2. PICK a \in Nat \ {0}, b \in Int : a = pos + 1 /\ b = pos + length
        BY <2>5
      <4>3. b <= Len(input)
        BY <2>5, <3>1, <3>2, <4>1, <4>2
      <4>4. SubSeq(input, a, b) \in Seq(Byte)
            /\ Len(SubSeq(input, a, b)) = IF a <= b THEN b - a + 1 ELSE 0
        BY <4>3, PartOfSeq
      <4>5. x = SubSeq(input, a, b)
        BY <3>1, <3>3, <4>1, <4>2
      <4>6. Len(x) <= length
        BY <2>5, <4>2, <4>4, <4>5
      <4>7. Len(x) \in Int /\ MaxWord \in Nat
        BY <2>5, <4>2, <4>4, <4>5, SmallWords
      <4> QED BY <2>5, <3>1, <3>2, <4>4, <4>5, <4>6, <4>7
    <3>5. Moves(wi, [w EXCEPT !.pos = w.pos + length])
      <4>1. w.pos + length \in w.pos .. Len(call.input)
        BY <2>5, <3>1, <3>2
      <4> QED BY <2>4, <4>1, ReadMoves
    <3>6. DoAndSet([w EXCEPT !.pos = w.pos + length], "bytes", x)
      BY <2>8, <3>3
    <3> QED BY <3>4, <3>5, <3>6, DoAndSetWorks
  <2> QED BY <2>6, <2>7, <2>8
<1> QED BY <1>1, <1>2

\* Record lists: the queries.
LEMMA QueryListWorks ==
  ASSUME Prepared, QueryList
  PROVE  Worked
<1>0. Moves(wi, wi) /\ CallRanged(call) /\ \A i \in 1 .. 4 : Operand(wi, i) \in UWord
  BY PreparedMoves
<1>1. Current.op \in {"uI", "uU", "uC"} /\ Current.op \in Named /\ Here.scope # 0
  BY DEF QueryList, DoingNamed, Doing, Named
<1> DEFINE w      == IF Current.op = "uU" THEN wi ELSE Popped(wi, 1)
           arg    == Operand(wi, 1)
           child  == Child(db, Scopes[Here.scope].message, Here.field)
           member == IF child = NONE THEN 0 ELSE FieldOf(db, child, Current.member)
           list   == Value.records
           count  == Value.count
           numbers == [i \in 1 .. count |-> heap[list[i]][member].number]
<1>2. w = wi \/ w = Popped(wi, 1)
  OBVIOUS
<1>3. arg = Operand(wi, 1)
  OBVIOUS
<1>4. member # 0 => member = FieldOf(db, child, Current.member)
  OBVIOUS
<1>5. list = Value.records
  OBVIOUS
<1>6. count \in Nat /\ count \in UWord
  BY <1>1, NamedValue DEF UWord
<1>7. DOMAIN numbers = 1 .. count
      /\ \A i \in 1 .. count : numbers[i] = heap[list[i]][member].number
  OBVIOUS
<1>8. PICK v :
        /\ Do(v)
        /\ \/ v = w
           \/ \E s : v = Fail(w, s)
           \/ /\ member # 0 /\ ~(count > Len(list))
              /\ \A i \in 1 .. count : ~(member > Len(heap[list[i]]))
              /\ \/ v = Push(w, numbers[arg + 1]) /\ ~(arg >= count)
                 \/ v = Push(w, Bool(IsInjective(numbers)))
                 \/ v = Push(w, Cardinality({i \in DOMAIN numbers : numbers[i] = arg}))
  <2>1. Do(IF w.overrun THEN w
           ELSE IF member = 0 THEN Fail(w, "schema")
           ELSE IF count > Len(list) \/ \E i \in 1 .. count : member > Len(heap[list[i]])
             THEN Fail(w, "capacity")
           ELSE CASE Current.op = "uI" -> IF arg >= count THEN Fail(w, "range")
                                          ELSE Push(w, numbers[arg + 1])
                  [] Current.op = "uU" -> Push(w, Bool(IsInjective(numbers)))
                  [] Current.op = "uC" ->
                       Push(w, Cardinality({i \in DOMAIN numbers : numbers[i] = arg})))
    BY Zenon DEF QueryList
  <2> HIDE DEF w, arg, child, member, list, count, numbers
  <2> QED BY <1>1, <2>1
<1> HIDE DEF w, arg, child, member, list, count, numbers
<1>9. Moves(wi, w)
  BY <1>0, <1>2, PoppedMoves
<1>10. arg \in Nat
  BY <1>0, <1>3 DEF UWord
\* The members are there.
<1>11. ASSUME member # 0, ~(count > Len(list)), \A i \in 1 .. count : ~(member > Len(heap[list[i]])),
              NEW i \in 1 .. count
       PROVE  numbers[i] \in UWord
  <2>1. list \in Seq(DOMAIN exchange.records)
    BY <1>1, <1>5, NamedValue
  <2>2. Len(list) \in Nat /\ i \in 1 .. Len(list)
    BY <1>6, <1>11, <2>1, LenProperties
  <2>3. PICK r \in DOMAIN exchange.records : r = list[i]
    BY <2>1, <2>2, ElementOfSeq
  <2>4. member \in Nat \ {0}
    BY <1>4, <1>11, FieldOfFits
  <2>5. CatalogInv /\ HeapRanged(exchange.records, heap)
    BY DEF Prepared
  <2>6. Len(exchange.records[r]) \in Nat
    BY <2>5, RecordsThere
  <2>7. PICK records, h : records = exchange.records /\ h = heap
    OBVIOUS
  <2>8. HeapRanged(records, h) /\ r \in DOMAIN records /\ Len(records[r]) \in Nat
    BY <2>3, <2>5, <2>6, <2>7
  <2>9. Len(h[r]) = Len(records[r]) /\ \A f \in 1 .. Len(records[r]) : h[r][f].number \in UWord
    BY <2>8, ValueThere
  <2>10. ~(member > Len(h[r]))
    BY <1>11, <2>3, <2>7
  <2>11. member \in 1 .. Len(records[r])
    BY <2>4, <2>8, <2>9, <2>10
  <2> QED BY <1>7, <1>11, <2>3, <2>7, <2>9, <2>11
<1>12. Bool(IsInjective(numbers)) \in UWord
  BY SmallWords DEF Bool, UWord
<1>13. Cardinality({i \in DOMAIN numbers : numbers[i] = arg}) \in UWord
  <2>1. PICK T : T = {i \in DOMAIN numbers : numbers[i] = arg}
    OBVIOUS
  <2>2. DOMAIN numbers = 1 .. count /\ T \in SUBSET (1 .. count)
    BY <1>7, <2>1
  <2>3. PICK S : S = 1 .. count /\ IsFiniteSet(S) /\ Cardinality(S) = count
    <3>1. 1 \in Int /\ count \in Int
      BY <1>6
    <3>2. IsFiniteSet(1 .. count) /\ Cardinality(1 .. count) = IF 1 > count THEN 0 ELSE count - 1 + 1
      BY <3>1, FS_Interval
    <3> QED BY <1>6, <3>2
  <2>4. IsFiniteSet(T) /\ Cardinality(T) <= count
    <3>1. T \in SUBSET S
      BY <2>2, <2>3
    <3> QED BY <2>3, <3>1, FS_Subset
  <2>5. Cardinality(T) \in Nat
    BY <2>4, FS_CardinalityType
  <2>6. Cardinality(T) \in UWord
    BY <1>6, <2>4, <2>5, SmallWords DEF UWord
  <2> QED BY <2>1, <2>6
<1>14. Moves(wi, v)
  <2>1. CASE v = w \/ \E s : v = Fail(w, s)
    BY <1>9, <2>1, FailMoves
  <2>2. CASE /\ member # 0 /\ ~(count > Len(list))
             /\ \A i \in 1 .. count : ~(member > Len(heap[list[i]]))
             /\ v = Push(w, numbers[arg + 1]) /\ ~(arg >= count)
    <3>1. arg + 1 \in 1 .. count
      BY <1>6, <1>10, <2>2
    <3>2. numbers[arg + 1] \in UWord
      BY <1>11, <2>2, <3>1
    <3> QED BY <1>9, <2>2, <3>2, PushMoves
  <2>3. CASE v = Push(w, Bool(IsInjective(numbers)))
    BY <1>9, <1>12, <2>3, PushMoves
  <2>4. CASE v = Push(w, Cardinality({i \in DOMAIN numbers : numbers[i] = arg}))
    <3>1. PICK n : n = Cardinality({i \in DOMAIN numbers : numbers[i] = arg})
      OBVIOUS
    <3>2. n \in UWord /\ v = Push(w, n)
      BY <1>13, <2>4, <3>1
    <3> QED BY <1>9, <3>2, PushMoves
  <2> QED BY <1>8, <2>1, <2>2, <2>3, <2>4
<1> QED BY <1>8, <1>14, DoWorks

\* Checksums.
LEMMA PlaceCrcWorks ==
  ASSUME Prepared, PlaceCrc
  PROVE  Worked
<1>0. Moves(wi, wi) /\ CallRanged(call) /\ \A i \in 1 .. 4 : Operand(wi, i) \in UWord
  BY PreparedMoves
<1>1. PICK flags, from, algorithm :
        flags = Operand(wi, 1) /\ from = Operand(wi, 2) /\ algorithm = Operand(wi, 3)
  OBVIOUS
<1>2. PICK aligned : aligned = AlignedUnlessOver(Popped(wi, 3))
  OBVIOUS
<1>3. PICK head : head = IF flags % 2 = 1 THEN Cbor(aligned, 2, 2)
                                          ELSE [w |-> aligned, value |-> 2]
  OBVIOUS
<1>4. PICK field : field = IF Encoding THEN [w |-> EmitBits(head.w, 0, 16), value |-> 0]
                                      ELSE ReadBits(head.w, 16)
  OBVIOUS
<1>5. PICK at : at = Position(head.w)
  OBVIOUS
<1>6. PICK crc : crc = [record |-> Owner, field |-> Here.field, at |-> at, from |-> from,
                        algorithm |-> algorithm]
  OBVIOUS
<1>7. PICK pending : pending = [field.w EXCEPT !.crc = crc]
  OBVIOUS
<1>8. PICK end : end = IF flags % 2 = 1 THEN Position(pending) ELSE at
  OBVIOUS
<1>9. PICK finished : finished = Finish(pending, end, field.value)
  OBVIOUS
<1>w. 0 \in UWord /\ 2 \in UWord /\ 16 \in Nat /\ 0 \in Nat /\ 2 \in 0 .. 4
  BY SmallWords DEF UWord
<1>10. Moves(wi, aligned)
  <2>1. Moves(wi, Popped(wi, 3))
    BY <1>0, PoppedMoves
  <2> QED BY <1>2, <2>1, AlignedUnlessOverMoves
<1>11. Moves(wi, head.w)
  <2>1. Moves(wi, Cbor(aligned, 2, 2).w)
    BY <1>0, <1>10, <1>w, CborMoves
  <2> QED BY <1>3, <1>10, <2>1
<1>12. Moves(wi, field.w) /\ field.value \in UWord
  <2>1. CASE Encoding
    <3>1. Moves(wi, EmitBits(head.w, 0, 16))
      BY <1>0, <1>11, <1>w, <2>1, EmitBitsMoves DEF Encoding
    <3> QED BY <1>4, <1>w, <2>1, <3>1
  <2>2. CASE ~Encoding
    <3>1. Moves(wi, ReadBits(head.w, 16).w) /\ ReadBits(head.w, 16).value \in UWord
      BY <1>0, <1>11, <1>w, ReadBitsMoves
    <3> QED BY <1>4, <2>2, <3>1
  <2> QED BY <2>1, <2>2
<1>13. ASSUME NEW w, Moves(wi, w) PROVE Position(w) \in Nat
  <2>1. Ranged(call, w)
    BY <1>13 DEF Moves
  <2>2. Reached(call, w) \in UWord
    BY <1>0, <2>1, ReachedFits
  <2> QED BY <2>2, PlaceIsReached DEF UWord
<1>14. Moves(wi, pending)
  <2>1. crc.at \in Nat /\ crc.from \in Nat
    <3>1. at \in Nat
      BY <1>5, <1>11, <1>13
    <3>2. from \in Nat
      BY <1>0, <1>1 DEF UWord
    <3> QED BY <1>6, <3>1, <3>2
  <2> QED BY <1>7, <1>12, <2>1, CrcMoves
<1>15. Moves(wi, finished.w) /\ finished.number \in UWord
  <2>1. end \in Nat
    BY <1>5, <1>8, <1>11, <1>13, <1>14
  <2> QED BY <1>0, <1>9, <1>12, <1>14, <2>1, FinishMoves
<1>16. \/ Do(aligned) \/ Do(Fail(aligned, "schema")) \/ Do(Fail(head.w, "checksum"))
       \/ \E v \in {field.w, Fail(field.w, "range"), pending} : DoAndSet(v, "number", field.value)
       \/ DoAndSet(finished.w, "number", finished.number)
  <2>1. IF aligned.overrun THEN Do(aligned)
        ELSE IF algorithm \notin 1..2 \/ flags > 3 \/ aligned.crc # NoCrc
          THEN Do(Fail(aligned, "schema"))
        ELSE IF head.value # 2 THEN Do(Fail(head.w, "checksum"))
        ELSE IF field.w.overrun \/ from > at \/ flags >= 2
          THEN DoAndSet(IF field.w.overrun THEN field.w
                        ELSE IF from > at THEN Fail(field.w, "range") ELSE pending,
                        "number", field.value)
        ELSE DoAndSet(finished.w, "number", finished.number)
    BY <1>1, <1>2, <1>3, <1>4, <1>5, <1>6, <1>7, <1>8, <1>9, ZenonT(60) DEF PlaceCrc
  <2>2. PICK failed : failed = IF field.w.overrun THEN field.w
                               ELSE IF from > at THEN Fail(field.w, "range") ELSE pending
    OBVIOUS
  <2>3. failed \in {field.w, Fail(field.w, "range"), pending}
    BY <2>2
  <2>4. \/ Do(aligned) \/ Do(Fail(aligned, "schema")) \/ Do(Fail(head.w, "checksum"))
        \/ DoAndSet(failed, "number", field.value)
        \/ DoAndSet(finished.w, "number", finished.number)
    BY <2>1, <2>2, Zenon
  <2> QED BY <2>3, <2>4
<1>17. /\ Moves(wi, Fail(aligned, "schema")) /\ Moves(wi, Fail(head.w, "checksum"))
       /\ \A v \in {field.w, Fail(field.w, "range"), pending} : Moves(wi, v)
  BY <1>10, <1>11, <1>12, <1>14, FailMoves
<1> QED BY <1>10, <1>12, <1>15, <1>16, <1>17, DoWorks, DoAndSetWorks

LEMMA FinishCrcWorks ==
  ASSUME Prepared, FinishCrc
  PROVE  Worked
<1>0. Moves(wi, wi) /\ CallRanged(call) /\ HeapRanged(exchange.records, heap)
  BY PreparedMoves DEF Prepared
<1>1. PICK w : w = Aligned(wi)
  OBVIOUS
<1>2. Moves(wi, w)
  BY <1>0, <1>1, AlignedMoves
<1>3. PICK r, f : r = w.crc.record /\ f = w.crc.field
  OBVIOUS
<1>4. PICK number : number = heap[r][f].number
  OBVIOUS
<1>5. PICK finished : finished = Finish(w, Position(w), number)
  OBVIOUS
<1>6. /\ Moves(wi, finished.w)
      /\ number \in UWord => finished.number \in UWord
  <2>1. Ranged(call, w)
    BY <1>2 DEF Moves
  <2>2. Position(w) \in Nat
    BY <1>0, <2>1, ReachedFits, PlaceIsReached DEF UWord
  <2> QED BY <1>0, <1>2, <1>5, <2>2, FinishMoves
<1>7. \/ Do(w)
      \/ /\ wi' = [finished.w EXCEPT !.pc = finished.w.pc + 1]
         /\ heap' = [heap EXCEPT ![r][f].number = finished.number]
  BY <1>1, <1>3, <1>4, <1>5 DEF FinishCrc, WithNumber
<1>8. CASE Do(w)
  BY <1>2, <1>8, DoWorks
<1>9. CASE /\ wi' = [finished.w EXCEPT !.pc = finished.w.pc + 1]
           /\ heap' = [heap EXCEPT ![r][f].number = finished.number]
  <2>1. PICK records, v : records = exchange.records /\ v = [heap[r][f] EXCEPT !.number = finished.number]
    OBVIOUS
  <2>2. ASSUME r \in DOMAIN records /\ f \in 1 .. Len(records[r])
        PROVE  IsValueOf(records, r, f, v)
    <3>1. IsValueOf(records, r, f, heap[r][f])
      BY <1>0, <2>1, <2>2 DEF HeapRanged
    <3>2. number \in UWord
      BY <1>4, <3>1 DEF IsValueOf, Values
    <3>3. finished.number \in UWord
      BY <1>6, <3>2
    <3> QED BY <2>1, <3>1, <3>3 DEF IsValueOf, Values
  <2>3. HeapRanged(records, heap)
    BY <1>0, <2>1
  <2>4. HeapRanged(records, [heap EXCEPT ![r][f] = v])
    BY <2>2, <2>3, FieldUpdated
  <2>5. heap' = [heap EXCEPT ![r][f] = v]
    BY <1>9, <2>1
  <2> QED BY <1>6, <1>9, <2>1, <2>4, <2>5 DEF Worked
<1> QED BY <1>7, <1>8, <1>9

-----------------------------------------------------------------------------
(* Rows                                                                      *)

RowsIn(records, rows) == records[rows.owner][rows.list].records

\* The rows of a list that is there.
RowsTyped(records, rows) ==
  /\ {"owner", "list", "count", "index"} \subseteq DOMAIN rows
  /\ rows.owner \in DOMAIN records /\ rows.list \in 1 .. Len(records[rows.owner])
  /\ rows.index \in Nat /\ rows.index <= Len(RowsIn(records, rows))
  /\ rows.count \in UWord

\* A decoder has consumed an octet for each row of an unbounded sequence.
Consumes(c, w) == c.decode /\ Unbounded(w.rows) => w.rows.index <= w.pos - w.base

RowsRanged(records, c, w) ==
  w.rows # NoRows => RowsTyped(records, w.rows) /\ w.bits = 0 /\ Consumes(c, w)

\* The token that begins a sequence.
RowsBegun ==
  \E w, pc, rows :
    /\ Moves(wi, w) /\ w.bits = 0
    /\ RowsTyped(exchange.records, rows) /\ rows.index = 0
    /\ wi' = [[w EXCEPT !.rows = rows] EXCEPT !.pc = pc]
    /\ heap' = heap

LEMMA BeginRowsWork ==
  ASSUME Prepared, BeginRows
  PROVE  Worked \/ RowsBegun
<1>0. Moves(wi, wi) /\ CallRanged(call) /\ \A i \in 1 .. 4 : Operand(wi, i) \in UWord
  BY PreparedMoves
<1>1. Current.op \in Named /\ Here.scope # 0
  BY DEF BeginRows, DoingNamed, Doing, Named
<1>2. PICK w : w = AlignedUnlessOver(Popped(wi, 2))
  OBVIOUS
<1>3. Moves(wi, w) /\ (w.overrun \/ w.bits = 0)
  <2>1. Moves(wi, Popped(wi, 2))
    BY <1>0, PoppedMoves
  <2> QED BY <1>2, <2>1, AlignedUnlessOverMoves
<1>4. PICK owner, list, count :
        /\ owner = Owner /\ list = Here.field
        /\ count = IF Encoding /\ Operand(wi, 2) = MaxWord THEN Value.count ELSE Operand(wi, 2)
  OBVIOUS
<1>5. PICK rows : rows = [list |-> list, owner |-> owner, message |-> Current.n, count |-> count,
                          until |-> Operand(wi, 1), index |-> 0]
  OBVIOUS
<1>6. \/ Do(w) \/ \E s : Do(Fail(w, s))
      \/ ~w.overrun /\ Do([w EXCEPT !.rows = rows])
  BY <1>2, <1>4, <1>5, ZenonT(60) DEF BeginRows
<1>7. CASE Do(w) \/ \E s : Do(Fail(w, s))
  BY <1>3, <1>7, FailMoves, DoWorks
<1>8. CASE ~w.overrun /\ Do([w EXCEPT !.rows = rows])
  <2>1. RowsTyped(exchange.records, rows)
    <3>1. PICK records : records = exchange.records
      OBVIOUS
    <3>2. /\ owner \in DOMAIN records /\ list \in 1 .. Len(records[owner])
          /\ Value.count \in UWord
          /\ records[owner][list].records \in Seq(DOMAIN records)
      BY <1>1, <1>4, <3>1, NamedValue
    <3>3. count \in UWord
      BY <1>0, <1>4, <3>2
    <3>4. RowsIn(records, rows) \in Seq(DOMAIN records)
      BY <1>5, <3>2 DEF RowsIn
    <3>5. Len(RowsIn(records, rows)) \in Nat
      BY <3>4
    <3> QED BY <1>5, <3>1, <3>2, <3>3, <3>5 DEF RowsTyped
  <2>2. rows.index = 0
    BY <1>5
  <2>3. PICK v : v = [w EXCEPT !.rows = rows]
    OBVIOUS
  <2>4. heap' = heap /\ wi' = [v EXCEPT !.pc = v.pc + 1]
    BY <1>8, <2>3 DEF Do
  <2>5. \E pc : wi' = [[w EXCEPT !.rows = rows] EXCEPT !.pc = pc]
    BY <2>3, <2>4
  <2> QED BY <1>3, <1>8, <2>1, <2>2, <2>4, <2>5 DEF RowsBegun
<1> QED BY <1>6, <1>7, <1>8

LEMMA HandlingWorks ==
  ASSUME Prepared, Handling
  PROVE  Worked \/ RowsBegun
BY FieldsWork, ArithmeticWorks, NumbersWork, TextWorks, BytesWork, QueryListWorks, PlaceCrcWorks,
   FinishCrcWorks, BeginRowsWork DEF Handling, Plainly

-----------------------------------------------------------------------------
(* The contexts of a call                                                    *)

\* The running one.
Runs(records, catalog, c, w) ==
  /\ Ranged(c, w)
  /\ w.record \in DOMAIN records /\ FieldCount(catalog, w.message) \in 0 .. Len(records[w.record])
  /\ RowsRanged(records, c, w)

\* One that waits for a row which began at base.
Stands(records, catalog, c, w, base) ==
  /\ Runs(records, catalog, c, w)
  /\ w.rows # NoRows /\ w.rows.index < Len(RowsIn(records, w.rows))
  /\ base = Reached(c, w)

Stacked(records, catalog, c, s, base) ==
  \A k \in 1 .. Len(s) :
    Stands(records, catalog, c, s[k], IF k = Len(s) THEN base ELSE s[k + 1].base)

LEMMA RunsOn ==
  ASSUME NEW records, NEW catalog, NEW w, Runs(records, catalog, call, w), NEW u, Moves(w, u),
         u.rows = NoRows \/ (u.bits = 0 /\ (call.decode => w.pos <= u.pos))
  PROVE  Runs(records, catalog, call, u) /\ u.base = w.base
<1>1. /\ u.message = w.message /\ u.record = w.record /\ u.rows = w.rows /\ u.base = w.base
      /\ Ranged(call, u)
  BY DEF Moves, SamePlace
<1>2. u.pos \in Int /\ u.base \in Int /\ w.pos \in Int
  <2>1. Ranged(call, w)
    BY DEF Runs
  <2> QED BY <1>1, <2>1, SMTT(30) DEF Ranged
<1>3. RowsRanged(records, call, u)
  <2> SUFFICES ASSUME u.rows # NoRows
               PROVE  RowsTyped(records, u.rows) /\ u.bits = 0 /\ Consumes(call, u)
    BY DEF RowsRanged
  <2>1. RowsTyped(records, w.rows) /\ Consumes(call, w)
    BY <1>1 DEF Runs, RowsRanged
  <2>2. w.rows.index \in Int
    BY <2>1 DEF RowsTyped
  <2> QED BY <1>1, <1>2, <2>1, <2>2 DEF Consumes
<1> QED BY <1>1, <1>3 DEF Runs

\* A token has been executed.
LEMMA HandlingStays ==
  ASSUME Runs(exchange.records, db, call, wi), wi.rows = NoRows, Worked \/ RowsBegun,
         CallRanged(call), HeapRanged(exchange.records, heap)
  PROVE  /\ Runs(exchange.records, db, call, wi') /\ wi'.base = wi.base
         /\ HeapRanged(exchange.records, heap')
<1>1. PICK records, catalog : records = exchange.records /\ catalog = db
  OBVIOUS
<1>2. Runs(records, catalog, call, wi)
  BY <1>1
<1>3. CASE Worked
  <2>1. PICK w, pc : Moves(wi, w) /\ wi' = [w EXCEPT !.pc = pc]
    BY <1>3 DEF Worked
  <2>2. PICK u : u = [w EXCEPT !.pc = pc]
    OBVIOUS
  <2>3. Moves(wi, u) /\ u.rows = NoRows
    BY <2>1, <2>2 DEF Moves, Ranged, SamePlace, Reached, ContextFields
  <2>4. Runs(records, catalog, call, u) /\ u.base = wi.base
    BY <1>2, <2>3, RunsOn
  <2> QED BY <1>1, <1>3, <2>1, <2>2, <2>4 DEF Worked
<1>4. CASE RowsBegun
  <2>1. PICK w, pc, rows :
          /\ Moves(wi, w) /\ w.bits = 0
          /\ RowsTyped(records, rows) /\ rows.index = 0
          /\ wi' = [[w EXCEPT !.rows = rows] EXCEPT !.pc = pc] /\ heap' = heap
    BY <1>1, <1>4 DEF RowsBegun
  <2>2. PICK u : u = [[w EXCEPT !.rows = rows] EXCEPT !.pc = pc]
    OBVIOUS
  <2>3. /\ Ranged(call, u) /\ u.rows = rows /\ u.bits = 0 /\ u.base = wi.base
        /\ u.message = wi.message /\ u.record = wi.record
    BY <2>1, <2>2 DEF Moves, Ranged, SamePlace, Reached, ContextFields
  <2>4. Consumes(call, u)
    <3>1. CASE call.decode
      <4>1. Reached(call, u) = u.pos
        BY <2>3, <3>1 DEF Reached, Bool, Ranged
      <4>2. u.base \in Nat /\ u.base <= u.pos /\ u.pos \in Nat
        BY <2>3, <4>1 DEF Ranged
      <4> QED BY <2>1, <2>3, <4>2 DEF Consumes
    <3> QED BY <3>1 DEF Consumes
  <2>5. Runs(records, catalog, call, u)
    BY <1>2, <2>1, <2>3, <2>4 DEF Runs, RowsRanged
  <2> QED BY <1>1, <2>1, <2>2, <2>3, <2>5
<1> QED BY <1>3, <1>4

\* The records that rows are made of.
LEMMA RowsCounted ==
  ASSUME CatalogInv, NEW rows, RowsTyped(exchange.records, rows)
  PROVE  /\ RowsIn(exchange.records, rows) \in Seq(DOMAIN exchange.records)
         /\ rows.index \in UWord
<1>1. PICK records : records = exchange.records
  OBVIOUS
<1>2. \A r \in DOMAIN records : \A f \in 1 .. Len(records[r]) :
        records[r][f].records \in Seq(DOMAIN records) /\ Len(records[r][f].records) \in UWord
  BY <1>1, RecordsThere
<1>3. /\ rows.owner \in DOMAIN records /\ rows.list \in 1 .. Len(records[rows.owner])
      /\ rows.index \in Nat /\ rows.index <= Len(RowsIn(records, rows))
  BY <1>1 DEF RowsTyped
<1>4. RowsIn(records, rows) \in Seq(DOMAIN records) /\ Len(RowsIn(records, rows)) \in UWord
  BY <1>2, <1>3 DEF RowsIn
<1>5. rows.index \in UWord
  BY <1>3, <1>4, SmallWords DEF UWord
<1> QED BY <1>1, <1>4, <1>5

\* A decoder counts its rows in the list.
LEMMA CountsRange ==
  ASSUME NEW records, HeapRanged(records, heap), NEW n \in UWord, CountRows(n)
  PROVE  HeapRanged(records, heap')
<1>1. PICK r, f : r = wi.rows.owner /\ f = wi.rows.list
  OBVIOUS
<1>2. heap' = heap \/ heap' = [heap EXCEPT ![r][f].count = n]
  BY <1>1 DEF CountRows
<1>3. PICK h : h = heap
  OBVIOUS
<1>4. HeapRanged(records, [h EXCEPT ![r][f].count = n])
  BY <1>3, ValueUpdated
<1> QED BY <1>2, <1>3, <1>4

\* A list ends.
LEMMA EndRowsStays ==
  ASSUME CatalogInv, CallRanged(call), HeapRanged(exchange.records, heap),
         Runs(exchange.records, db, call, wi), EndRows
  PROVE  /\ Runs(exchange.records, db, call, wi') /\ wi'.base = wi.base
         /\ HeapRanged(exchange.records, heap')
<1>1. PICK records, catalog : records = exchange.records /\ catalog = db
  OBVIOUS
<1>2. Runs(records, catalog, call, wi) /\ HeapRanged(records, heap)
  BY <1>1
<1>3. Moves(wi, wi)
  BY <1>2 DEF Runs, Moves, SamePlace
<1>4. PICK v : Moves(wi, v) /\ wi' = [v EXCEPT !.rows = NoRows]
  <2>1. Moves(wi, Fail(wi, "truncated"))
    BY <1>3, FailMoves
  <2>2. wi' = [wi EXCEPT !.rows = NoRows] \/ wi' = [Fail(wi, "truncated") EXCEPT !.rows = NoRows]
    BY DEF EndRows
  <2> QED BY <1>3, <2>1, <2>2
<1>5. PICK u : u = [v EXCEPT !.rows = NoRows]
  OBVIOUS
<1>6. /\ Ranged(call, u) /\ u.rows = NoRows /\ u.base = wi.base
      /\ u.message = wi.message /\ u.record = wi.record
  BY <1>4, <1>5 DEF Moves, Ranged, SamePlace, Reached, ContextFields
<1>7. Runs(records, catalog, call, u)
  BY <1>2, <1>6 DEF Runs, RowsRanged
<1>8. HeapRanged(records, heap')
  <2>1. RowsTyped(records, wi.rows)
    BY <1>2 DEF EndRows, InRows, Runs, RowsRanged
  <2>2. wi.rows.index \in UWord
    BY <1>1, <2>1, RowsCounted
  <2> QED BY <1>2, <2>2, CountsRange DEF EndRows
<1> QED BY <1>1, <1>4, <1>5, <1>6, <1>7, <1>8

\* The list has no record for its next row.
LEMMA RowsOverflowStays ==
  ASSUME HeapRanged(exchange.records, heap), Runs(exchange.records, db, call, wi), RowsOverflow
  PROVE  /\ Runs(exchange.records, db, call, wi') /\ wi'.base = wi.base
         /\ HeapRanged(exchange.records, heap')
<1>1. PICK records, catalog : records = exchange.records /\ catalog = db
  OBVIOUS
<1>2. Runs(records, catalog, call, wi) /\ wi.rows # NoRows
  BY <1>1 DEF RowsOverflow, InRows
<1>3. Moves(wi, wi)
  BY <1>2 DEF Runs, Moves, SamePlace
<1>4. PICK u : u = Fail(wi, "capacity")
  OBVIOUS
<1>5. Moves(wi, u)
  BY <1>3, <1>4, FailMoves
<1>6. u.bits = wi.bits /\ u.pos = wi.pos
  BY <1>2, <1>4 DEF Fail, Runs, Ranged, ContextFields
<1>7. wi.bits = 0 /\ wi.pos \in Int
  BY <1>2 DEF Runs, RowsRanged, Ranged
<1>8. Runs(records, catalog, call, u) /\ u.base = wi.base
  BY <1>2, <1>5, <1>6, <1>7, RunsOn
<1> QED BY <1>1, <1>4, <1>8 DEF RowsOverflow

\* A row begins.
LEMMA EnterRowStays ==
  ASSUME CatalogInv, CallRanged(call), HeapRanged(exchange.records, heap),
         Runs(exchange.records, db, call, wi), \E S : suspended \in Seq(S),
         Stacked(exchange.records, db, call, suspended, wi.base),
         FieldCount(db, wi.rows.message) \in Nat, EnterRow
  PROVE  /\ Runs(exchange.records, db, call, wi')
         /\ Stacked(exchange.records, db, call, suspended', wi'.base)
         /\ HeapRanged(exchange.records, heap')
<1>1. PICK records, catalog : records = exchange.records /\ catalog = db
  OBVIOUS
<1>2. Runs(records, catalog, call, wi) /\ HeapRanged(records, heap) /\ wi.rows # NoRows
  BY <1>1 DEF EnterRow, InRows
<1>3. RowsTyped(records, wi.rows) /\ wi.bits = 0 /\ wi.rows.index \in UWord
  <2>1. RowsTyped(records, wi.rows) /\ wi.bits = 0
    BY <1>2 DEF Runs, RowsRanged
  <2> QED BY <1>1, <2>1, RowsCounted
<1>4. PICK rows : rows = wi.rows
  OBVIOUS
<1>5. PICK next : next = NextRow
  OBVIOUS
<1>6. /\ rows.index < Len(RowsIn(records, rows))
      /\ next \in DOMAIN records
      /\ FieldCount(catalog, rows.message) \in 0 .. Len(records[next])
  <2>1. List.records = RowsIn(records, rows)
    <3>1. PICK h : h = heap
      OBVIOUS
    <3>2. PICK owner, list : owner = rows.owner /\ list = rows.list
      OBVIOUS
    <3>3. owner \in DOMAIN records /\ list \in 1 .. Len(records[owner])
      BY <1>3, <1>4, <3>2 DEF RowsTyped
    <3>4. \A f \in 1 .. Len(records[owner]) : h[owner][f].records = records[owner][f].records
      BY <1>2, <3>1, <3>3, ValueThere, ZenonT(60)
    <3>5. h[owner][list].records = records[owner][list].records
      BY <3>3, <3>4
    <3> QED BY <1>4, <3>1, <3>2, <3>5 DEF List, RowsIn
  <2>2. RowsIn(records, rows) \in Seq(DOMAIN records)
    BY <1>1, <1>3, <1>4, RowsCounted
  <2>3. rows.index \in Nat
    BY <1>3, <1>4 DEF UWord
  <2>4. rows.index < Len(List.records) /\ FieldCount(db, rows.message) <= Len(heap[NextRow])
    BY <1>4 DEF EnterRow, RowFits
  <2>5. next = RowsIn(records, rows)[rows.index + 1]
    BY <1>4, <1>5, <2>1 DEF NextRow
  <2>6. rows.index < Len(RowsIn(records, rows))
    BY <2>1, <2>4
  <2>7. Len(RowsIn(records, rows)) \in Nat
    BY <2>2
  <2>8. rows.index + 1 \in 1 .. Len(RowsIn(records, rows))
    BY <2>3, <2>6, <2>7
  <2>9. next \in DOMAIN records
    BY <2>2, <2>5, <2>8, ElementOfSeq
  <2>10. Len(records[next]) \in Nat /\ Len(heap[next]) = Len(records[next])
    <3>1. Len(records[next]) \in Nat
      BY <1>1, <2>9, RecordsThere
    <3>2. PICK h : h = heap
      OBVIOUS
    <3> QED BY <1>2, <2>9, <3>1, <3>2, ValueThere
  <2>11. FieldCount(db, rows.message) \in Nat
    BY <1>4
  <2> QED BY <1>1, <1>5, <2>4, <2>6, <2>9, <2>10, <2>11
<1>7. PICK u : u = wi'
  OBVIOUS
<1>8. u = Context(rows.message, next, wi.depth + 1, rows.index, Position(wi), wi.out, wi.pos)
  BY <1>4, <1>5, <1>7 DEF EnterRow
<1>9. Ranged(call, wi)
  BY <1>2 DEF Runs
<1>10. Runs(records, catalog, call, u) /\ u.base = Reached(call, wi)
  <2>1. Reached(call, wi) \in Nat /\ u.base = Reached(call, wi)
    BY <1>8, <1>9, ReachedFits, PlaceIsReached DEF UWord, Context
  <2>2. Reached(call, u) = Reached(call, wi)
    BY <1>3, <1>8, <1>9 DEF Reached, Context, Bool, Ranged
  <2>3. <<>> \in Seq(UWord) /\ 0 \in 0 .. 7 /\ 0 \in 0 .. 2^0 - 1
    BY SmallPowers
  <2>4. Ranged(call, u)
    <3>1. u.base <= Reached(call, u)
      BY <2>1, <2>2
    <3>2. rows.index \in UWord
      BY <1>3, <1>4
    <3> QED BY <1>8, <1>9, <2>1, <2>3, <3>1, <3>2 DEF Ranged, Context, ContextFields, NoCrc
  <2>5. u.record = next /\ u.message = rows.message /\ u.rows = NoRows
    BY <1>8 DEF Context
  <2> QED BY <1>6, <2>1, <2>4, <2>5 DEF Runs, RowsRanged
<1>11. PICK s : s = suspended
  OBVIOUS
<1>12. Stacked(records, catalog, call, Append(s, wi), u.base)
  <2>1. PICK S : s \in Seq(S)
    BY <1>11
  <2>2. PICK n \in Nat : n = Len(s)
    BY <2>1
  <2>3. s \in Seq(S \cup {wi})
    BY <2>1
  <2>4. PICK t : t = Append(s, wi)
    OBVIOUS
  <2>5. Len(t) = n + 1 /\ \A i \in 1 .. n + 1 : t[i] = IF i = n + 1 THEN wi ELSE s[i]
    BY <2>2, <2>3, <2>4
  <2>6. Stacked(records, catalog, call, s, wi.base)
    BY <1>1, <1>11
  <2>7. Stands(records, catalog, call, wi, u.base)
    BY <1>2, <1>4, <1>6, <1>10 DEF Stands
  <2>8. ASSUME NEW k \in 1 .. n + 1
        PROVE  Stands(records, catalog, call, t[k], IF k = n + 1 THEN u.base ELSE t[k + 1].base)
    <3>1. CASE k = n + 1
      BY <2>5, <2>7, <3>1
    <3>2. CASE k # n + 1
      <4>1. k \in 1 .. n /\ k + 1 \in 1 .. n + 1 /\ t[k] = s[k]
        BY <2>5, <3>2
      <4>2. Stands(records, catalog, call, s[k], IF k = n THEN wi.base ELSE s[k + 1].base)
        BY <2>2, <2>6, <4>1 DEF Stacked
      <4>3. t[k + 1].base = IF k = n THEN wi.base ELSE s[k + 1].base
        BY <2>5, <4>1
      <4> QED BY <3>2, <4>1, <4>2, <4>3
    <3> QED BY <3>1, <3>2
  <2> QED BY <2>4, <2>5, <2>8 DEF Stacked
<1>13. suspended' = Append(s, wi)
  BY <1>11 DEF EnterRow
<1>14. HeapRanged(records, heap')
  BY <1>2, <1>3, CountsRange DEF EnterRow
<1> QED BY <1>1, <1>7, <1>10, <1>12, <1>13, <1>14

\* A row ends: what is left goes on where the row has come to.
Returned(parent) == [parent EXCEPT !.out = wi.out, !.pos = wi.pos]

LEMMA ParentMoves ==
  ASSUME NEW records, NEW catalog, NEW parent, CallRanged(call),
         Ranged(call, wi), wi.bits = 0, Stands(records, catalog, call, parent, wi.base)
  PROVE  /\ Moves(parent, Returned(parent)) /\ Returned(parent).bits = 0
         /\ call.decode => parent.pos <= Returned(parent).pos
         /\ Reached(call, Returned(parent)) = Reached(call, wi)
<1>0. PICK v : v = Returned(parent)
  OBVIOUS
<1>1. Runs(records, catalog, call, parent) /\ parent.rows # NoRows /\ wi.base = Reached(call, parent)
  BY DEF Stands
<1>2. Ranged(call, parent) /\ parent.bits = 0
  BY <1>1 DEF Runs, RowsRanged
<1>3. /\ v.bits = 0 /\ v.out = wi.out /\ v.pos = wi.pos /\ v.base = parent.base
      /\ SamePlace(parent, v) /\ ContextFields \subseteq DOMAIN v
  BY <1>0, <1>2 DEF Ranged, ContextFields, SamePlace, Returned
<1>4. Reached(call, v) = Reached(call, wi)
  BY <1>3 DEF Reached
<1>5. Reached(call, wi) \in Nat /\ Reached(call, parent) \in Nat
  BY <1>2, ReachedFits DEF UWord
<1>6. wi.base <= Reached(call, wi) /\ parent.base <= Reached(call, parent)
      /\ wi.base \in Nat /\ parent.base \in Nat
  BY <1>2 DEF Ranged
<1>7. v.base <= Reached(call, v)
  BY <1>1, <1>3, <1>4, <1>5, <1>6
<1>8. Ranged(call, v)
  <2>1. /\ v.fstack = parent.fstack /\ v.acc = parent.acc /\ parent.bits = 0
        /\ v.index = parent.index /\ v.crc = parent.crc
    BY <1>0, <1>2 DEF Ranged, ContextFields, Returned
  <2>2. v.acc \in 0 .. 2^v.bits - 1 /\ v.bits \in 0 .. 7
    BY <1>2, <1>3, <2>1 DEF Ranged
  <2>3. /\ v.fstack \in Seq(UWord) /\ v.index \in UWord
        /\ v.crc.at \in Nat /\ v.crc.from \in Nat
    BY <1>2, <2>1 DEF Ranged
  <2>4. v.out \in Seq(Byte) /\ Len(v.out) <= call.room /\ v.pos \in 0 .. Len(call.input)
    BY <1>3 DEF Ranged
  <2> QED BY <1>3, <1>6, <1>7, <2>2, <2>3, <2>4 DEF Ranged
<1>9. ASSUME call.decode PROVE parent.pos <= v.pos
  <2>1. Reached(call, parent) = parent.pos /\ Reached(call, wi) = wi.pos
    BY <1>2, <1>9 DEF Reached, Bool, Ranged
  <2> QED BY <1>1, <1>3, <1>6, <2>1
<1> QED BY <1>0, <1>3, <1>4, <1>8, <1>9 DEF Moves

LEMMA AdvancedStays ==
  ASSUME CatalogInv, CallRanged(call), NEW parent, Ranged(call, wi), wi.bits = 0,
         Stands(exchange.records, db, call, parent, wi.base)
  PROVE  /\ Runs(exchange.records, db, call, AdvancedTo(Returned(parent)))
         /\ AdvancedTo(Returned(parent)).base = parent.base
<1>a. PICK records, catalog : records = exchange.records /\ catalog = db
  OBVIOUS
<1>b. PICK v : v = Returned(parent)
  OBVIOUS
<1>c. Stands(records, catalog, call, parent, wi.base)
  BY <1>a
<1>1. /\ Runs(records, catalog, call, parent) /\ parent.rows # NoRows
      /\ parent.rows.index < Len(RowsIn(records, parent.rows))
      /\ wi.base = Reached(call, parent)
  BY <1>c DEF Stands
<1>2. /\ Moves(parent, v) /\ v.bits = 0 /\ (call.decode => parent.pos <= v.pos)
      /\ Reached(call, v) = Reached(call, wi)
  BY <1>b, <1>c, ParentMoves
<1>3. Runs(records, catalog, call, v) /\ v.base = parent.base
  <2>1. v.rows = NoRows \/ (v.bits = 0 /\ (call.decode => parent.pos <= v.pos))
    BY <1>2
  <2> QED BY <1>1, <1>2, <2>1, RunsOn
<1>4. v.rows = parent.rows
  BY <1>2 DEF Moves, SamePlace
<1>5. ASSUME AdvancedTo(v) = Fail(v, "schema")
      PROVE  Runs(records, catalog, call, AdvancedTo(v)) /\ AdvancedTo(v).base = parent.base
  <2>1. PICK u : u = Fail(v, "schema")
    OBVIOUS
  <2>2. Moves(v, v)
    BY <1>3 DEF Moves, SamePlace, Runs
  <2>3. Moves(v, u)
    BY <2>1, <2>2, FailMoves
  <2>4. u.bits = v.bits /\ u.pos = v.pos /\ v.pos \in Int
    BY <1>3, <2>1 DEF Fail, Runs, Ranged, ContextFields
  <2>5. Runs(records, catalog, call, u) /\ u.base = v.base
    <3>1. u.rows = NoRows \/ (u.bits = 0 /\ (call.decode => v.pos <= u.pos))
      BY <1>2, <2>4
    <3> QED BY <1>3, <2>3, <3>1, RunsOn
  <2> QED BY <1>3, <1>5, <2>1, <2>5
<1>6. ASSUME /\ ~(Position(v) = wi.base /\ Unbounded(v.rows))
             /\ AdvancedTo(v) = [v EXCEPT !.rows.index = v.rows.index + 1]
      PROVE  Runs(records, catalog, call, AdvancedTo(v)) /\ AdvancedTo(v).base = parent.base
  <2>1. PICK rows : rows = [v.rows EXCEPT !.index = v.rows.index + 1]
    OBVIOUS
  <2>2. PICK u : u = [v EXCEPT !.rows = rows]
    OBVIOUS
  <2>3. AdvancedTo(v) = u
    BY <1>6, <2>1, <2>2
  <2>4. RowsTyped(records, v.rows) /\ Consumes(call, parent)
    BY <1>1, <1>4 DEF Runs, RowsRanged
  <2>5. /\ rows.owner = v.rows.owner /\ rows.list = v.rows.list /\ rows.count = v.rows.count
        /\ rows.index = v.rows.index + 1
        /\ {"owner", "list", "count", "index"} \subseteq DOMAIN rows
    BY <2>1, <2>4 DEF RowsTyped
  <2>6. PICK l : l = Len(RowsIn(records, v.rows)) /\ l = Len(RowsIn(records, rows))
    BY <2>5 DEF RowsIn
  <2>7. PICK index \in Nat : index = v.rows.index /\ index < l
    BY <1>1, <1>4, <2>4, <2>6 DEF RowsTyped
  <2>8. l \in Nat
    <3>1. RowsIn(exchange.records, v.rows) \in Seq(DOMAIN exchange.records)
      BY <1>a, <2>4, RowsCounted
    <3> QED BY <1>a, <2>6, <3>1
  <2>9. RowsTyped(records, rows)
    BY <2>4, <2>5, <2>6, <2>7, <2>8 DEF RowsTyped
  <2>10. /\ Ranged(call, u) /\ u.bits = 0 /\ u.rows = rows /\ u.base = v.base /\ u.pos = v.pos
         /\ u.message = v.message /\ u.record = v.record
    BY <1>2, <1>3, <2>2 DEF Runs, Ranged, Reached, ContextFields
  <2>11. Consumes(call, u)
    <3> SUFFICES ASSUME call.decode, Unbounded(rows) PROVE rows.index <= v.pos - v.base
      BY <2>10 DEF Consumes
    <3>1. Unbounded(parent.rows) /\ Unbounded(v.rows)
      BY <1>4, <2>5 DEF Unbounded
    <3>2. index <= parent.pos - parent.base
      BY <1>4, <2>4, <2>7, <3>1 DEF Consumes
    <3>3. Position(v) # wi.base /\ Position(v) = v.pos
      <4>1. Reached(call, v) = v.pos
        BY <1>2, <1>3 DEF Reached, Bool, Runs, Ranged
      <4> QED BY <1>6, <3>1, <4>1, PlaceIsReached
    <3>4. wi.base = parent.pos
      BY <1>1 DEF Reached, Bool, Runs, RowsRanged, Ranged
    <3>5. v.pos \in Int /\ parent.pos \in Int /\ parent.base \in Int /\ parent.pos <= v.pos
      <4>1. Ranged(call, v) /\ Ranged(call, parent) /\ (call.decode => parent.pos <= v.pos)
        BY <1>1, <1>2, <1>3 DEF Runs
      <4> QED BY <4>1, SMTT(30) DEF Ranged
    <3> QED BY <1>3, <2>5, <2>7, <3>2, <3>3, <3>4, <3>5
  <2>12. Runs(records, catalog, call, u)
    BY <1>3, <2>9, <2>10, <2>11 DEF Runs, RowsRanged
  <2> QED BY <1>3, <2>3, <2>10, <2>12
<1>7. Runs(records, catalog, call, AdvancedTo(v)) /\ AdvancedTo(v).base = parent.base
  BY <1>5, <1>6 DEF AdvancedTo
<1> QED BY <1>a, <1>b, <1>7

LEMMA LeaveRowStays ==
  ASSUME CatalogInv, CallRanged(call), Runs(exchange.records, db, call, wi),
         \E S : suspended \in Seq(S),
         Stacked(exchange.records, db, call, suspended, wi.base), LeaveRow
  PROVE  /\ Runs(exchange.records, db, call, wi')
         /\ Stacked(exchange.records, db, call, suspended', wi'.base)
<1>1. PICK records, catalog : records = exchange.records /\ catalog = db
  OBVIOUS
<1>2. PICK S : suspended \in Seq(S)
  OBVIOUS
<1>3. PICK s : s = suspended
  OBVIOUS
<1>4. s \in Seq(S) /\ s # <<>>
  BY <1>2, <1>3 DEF LeaveRow
<1>5. PICK n \in Nat \ {0} : n = Len(s)
  BY <1>4
<1>6. PICK t : t = SubSeq(s, 1, n - 1)
  OBVIOUS
<1>7. Len(t) = n - 1 /\ \A i \in 1 .. n - 1 : t[i] = s[i]
  BY <1>4, <1>5, <1>6, ButLast
<1>8. suspended' = t
  BY <1>3, <1>5, <1>6 DEF LeaveRow, Front
<1>9. PICK parent : parent = s[n]
  OBVIOUS
<1>10. Stacked(records, catalog, call, s, wi.base)
  BY <1>1, <1>3
<1>11. Stands(records, catalog, call, parent, wi.base)
  <2>1. n \in 1 .. n
    OBVIOUS
  <2> QED BY <1>5, <1>9, <1>10, <2>1 DEF Stacked
<1>12. Runs(records, catalog, call, parent)
  BY <1>11 DEF Stands
<1>13. PICK v : v = Returned(parent)
  OBVIOUS
<1>14. wi' = IF Cause(wi) # "ok" THEN Fail(parent, Cause(wi)) ELSE AdvancedTo(v)
  <2>1. Last(suspended) = parent
    BY <1>3, <1>5, <1>9 DEF Last
  <2> QED BY <1>13, <2>1 DEF LeaveRow, Returned
<1>15. PICK u : u = wi'
  OBVIOUS
<1>16. Runs(records, catalog, call, u) /\ u.base = parent.base
  <2>1. CASE Cause(wi) # "ok"
    <3>1. u = Fail(parent, Cause(wi))
      BY <1>14, <1>15, <2>1
    <3>2. Moves(parent, parent)
      BY <1>12 DEF Runs, Moves, SamePlace
    <3>3. Moves(parent, u)
      BY <3>1, <3>2, FailMoves
    <3>4. parent.bits = 0 /\ parent.pos \in Int
      BY <1>11, <1>12 DEF Stands, Runs, RowsRanged, Ranged
    <3>5. u.bits = parent.bits /\ u.pos = parent.pos
      BY <1>12, <3>1 DEF Fail, Runs, Ranged, ContextFields
    <3> QED BY <1>12, <3>3, <3>4, <3>5, RunsOn
  <2>2. CASE Cause(wi) = "ok"
    <3>1. wi.bits = 0
      BY <2>2 DEF Cause, Exhausted
    <3>2. Ranged(call, wi)
      BY DEF Runs
    <3>3. u = AdvancedTo(v)
      BY <1>14, <1>15, <2>2
    <3>4. Runs(records, catalog, call, AdvancedTo(v)) /\ AdvancedTo(v).base = parent.base
      BY <1>1, <1>11, <1>13, <3>1, <3>2, AdvancedStays
    <3> QED BY <3>3, <3>4
  <2> QED BY <2>1, <2>2
<1>17. Stacked(records, catalog, call, t, u.base)
  <2>1. ASSUME NEW k \in 1 .. n - 1
        PROVE  Stands(records, catalog, call, t[k], IF k = n - 1 THEN u.base ELSE t[k + 1].base)
    <3>1. k \in 1 .. n /\ k # n /\ t[k] = s[k]
      BY <1>7
    <3>2. Stands(records, catalog, call, s[k], s[k + 1].base)
      BY <1>5, <1>10, <3>1 DEF Stacked
    <3>3. s[k + 1].base = IF k = n - 1 THEN u.base ELSE t[k + 1].base
      BY <1>7, <1>9, <1>16
    <3> QED BY <3>1, <3>2, <3>3
  <2> QED BY <1>7, <2>1 DEF Stacked
<1> QED BY <1>1, <1>8, <1>15, <1>16, <1>17

-----------------------------------------------------------------------------
(* The calls of an exchange                                                  *)

\* The sender's records and octets, from when there are any.
SentRanged ==
  stage \in {"sent", "receiving", "rejected", "delivered"} =>
    /\ sent.octets \in Seq(Byte) /\ Len(sent.octets) <= MaxWord
    /\ HeapRanged(exchange.records, sent.records)

BoundsInv ==
  /\ CallRanged(call) /\ Ranged(call, wi)
  /\ HeapRanged(exchange.records, heap) /\ SentRanged
  /\ IF Running
       THEN /\ Runs(exchange.records, db, call, wi)
            /\ Stacked(exchange.records, db, call, suspended, wi.base)
       ELSE suspended = <<>>

\* The fields of the messages of a catalog in use.
LEMMA FieldsCounted ==
  ASSUME CatalogInv, stage \notin {"source", "invalid"}, NEW m \in 0 .. db.messages - 1
  PROVE  FieldCount(db, m) \in Nat
<1>1. PICK source : source = exchange.source
  OBVIOUS
<1>2. IsSource(source)
  BY <1>1, SourcesAssumption DEF CatalogInv
<1>3. Compiles(source) /\ db = Image(source)
  BY <1>1 DEF CatalogInv, Compiled
<1>4. PICK n \in Nat : DOMAIN source = 0 .. n - 1
  BY <1>2, MessagesNumbered
<1>5. LaidOut(db, source, n)
  BY <1>3, <1>4, ImageLayout
<1>6. m \in 0 .. n - 1
  BY <1>5 DEF LaidOut
<1>7. Catalogued(db, source, m)
  BY <1>2, <1>3, <1>4, <1>5, <1>6, CatalogOf DEF Compiles
<1>8. Len(source[m].fields) \in Nat
  BY <1>2, <1>4, <1>6, RowsEnd
<1> QED BY <1>7, <1>8 DEF Catalogued

\* A context as wi_init() and wi_decode_init() make it.
LEMMA ContextRanged ==
  ASSUME NEW c, NEW message, NEW record, c.decode \in BOOLEAN, c.room \in Nat,
         c.input \in Seq(Byte)
  PROVE  Ranged(c, Context(message, record, 0, 0, 0, <<>>, 0))
<1>1. PICK w : w = Context(message, record, 0, 0, 0, <<>>, 0)
  OBVIOUS
<1>2. 0 \in UWord /\ 0 \in 0 .. 2^0 - 1 /\ <<>> \in Seq(UWord) /\ <<>> \in Seq(Byte)
      /\ Len(<<>>) = 0
  BY SmallWords, SmallPowers DEF UWord
<1>3. Reached(c, w) = 0
  BY <1>1, <1>2 DEF Reached, Context, Bool
<1>4. Len(c.input) \in Nat
  OBVIOUS
<1> QED BY <1>1, <1>2, <1>3, <1>4 DEF Ranged, Context, ContextFields, NoCrc

\* wire_info_encode() and wire_info_decode() up to the first token.
LEMMA BeginStays ==
  ASSUME CatalogInv, stage \notin {"source", "invalid"}, HeapRanged(exchange.records, heap),
         NEW decode \in BOOLEAN, NEW room \in UWord, NEW input \in Seq(Byte), Len(input) <= MaxWord,
         NEW records, Begin(exchange.message, 1, decode, room, input, records), db' = db
  PROVE  /\ CallRanged(call') /\ Ranged(call', wi') /\ heap' = records /\ suspended' = <<>>
         /\ Running' => /\ Runs(exchange.records, db, call', wi')
                        /\ Stacked(exchange.records, db, call', suspended', wi'.base)
<1>1. PICK c, w : c = call' /\ w = wi'
  OBVIOUS
<1>2. /\ c.decode = decode /\ c.room = room /\ c.input = input
      /\ w = Context(exchange.message, 1, 0, 0, 0, <<>>, 0)
      /\ heap' = records /\ suspended' = <<>> /\ result' = Refusal(exchange.message, 1, decode)
  BY <1>1 DEF Begin
<1>3. CallRanged(c)
  BY <1>2 DEF CallRanged
<1>4. Ranged(c, w)
  <2>1. c.room \in Nat
    BY <1>2 DEF UWord
  <2> QED BY <1>2, <2>1, ContextRanged
<1>5. ASSUME result' = "running"
      PROVE  Runs(exchange.records, db, c, w)
  <2>1. ~(Len(heap[1]) < FieldCount(db, exchange.message))
    BY <1>2, <1>5 DEF Refusal
  <2>2. FieldCount(db, exchange.message) \in Nat
    <3>1. exchange.message \in 0 .. db.messages - 1
      BY CatalogLeads
    <3> QED BY <3>1, FieldsCounted
  <2>3. PICK rs, h : rs = exchange.records /\ h = heap
    OBVIOUS
  <2>4. 1 \in DOMAIN rs /\ Len(rs[1]) \in Nat
    BY <2>3, RecordsThere
  <2>5. Len(h[1]) = Len(rs[1])
    BY <2>3, <2>4, ValueThere
  <2>6. FieldCount(db, exchange.message) \in 0 .. Len(rs[1])
    BY <2>1, <2>2, <2>3, <2>4, <2>5
  <2>7. w.record = 1 /\ w.message = exchange.message /\ w.rows = NoRows
    BY <1>2 DEF Context
  <2> QED BY <1>4, <2>3, <2>4, <2>6, <2>7 DEF Runs, RowsRanged
<1>6. Stacked(exchange.records, db, c, <<>>, w.base)
  <2>1. Len(<<>>) = 0
    OBVIOUS
  <2> QED BY <2>1 DEF Stacked
<1> QED BY <1>1, <1>2, <1>3, <1>4, <1>5, <1>6 DEF Running

\* The receiver's records.
LEMMA ZeroedRanged ==
  ASSUME NEW records, NEW h, HeapRanged(records, h)
  PROVE  HeapRanged(records, Zeroed(h))
<1>1. PICK k : k = Zeroed(h)
  OBVIOUS
<1>2. DOMAIN k = DOMAIN records
  BY <1>1 DEF Zeroed, HeapRanged
<1>3. ASSUME NEW r \in DOMAIN records
      PROVE  /\ k[r] = [f \in 1 .. Len(records[r]) |-> k[r][f]]
             /\ \A f \in 1 .. Len(records[r]) : IsValueOf(records, r, f, k[r][f])
  <2>1. h[r] = [f \in 1 .. Len(records[r]) |-> h[r][f]] /\ r \in DOMAIN h
    BY DEF HeapRanged
  <2>2. DOMAIN h[r] = 1 .. Len(records[r])
    BY <2>1
  <2>3. k[r] = [f \in 1 .. Len(records[r]) |-> [NoValue EXCEPT !.records = h[r][f].records]]
    BY <1>1, <2>1, <2>2 DEF Zeroed
  <2>4. ASSUME NEW f \in 1 .. Len(records[r])
        PROVE  IsValueOf(records, r, f, [NoValue EXCEPT !.records = h[r][f].records])
    <3>1. IsValueOf(records, r, f, h[r][f])
      BY DEF HeapRanged
    <3>2. 0 \in UWord /\ <<>> \in Seq(Byte) /\ Len(<<>>) <= MaxWord
      BY SmallWords DEF UWord
    <3> QED BY <3>1, <3>2 DEF IsValueOf, Values, NoValue
  <2> QED BY <2>3, <2>4
<1> QED BY <1>1, <1>2, <1>3 DEF HeapRanged

LEMMA ParametersRanged ==
  ASSUME NEW records, NEW h, HeapRanged(records, h), HeapRanged(records, sent.records)
  PROVE  HeapRanged(records, WithParameters(h))
<1>1. PICK k : k = WithParameters(h)
  OBVIOUS
<1>2. DOMAIN k = DOMAIN records
  BY <1>1 DEF WithParameters, HeapRanged
<1>3. ASSUME NEW r \in DOMAIN records
      PROVE  /\ k[r] = [f \in 1 .. Len(records[r]) |-> k[r][f]]
             /\ \A f \in 1 .. Len(records[r]) : IsValueOf(records, r, f, k[r][f])
  <2>1. h[r] = [f \in 1 .. Len(records[r]) |-> h[r][f]] /\ r \in DOMAIN h
    BY DEF HeapRanged
  <2>2. DOMAIN h[r] = 1 .. Len(records[r])
    BY <2>1
  <2> DEFINE v(f) == [h[r][f] EXCEPT !.number = IF IsParameter(r, f) THEN sent.records[r][f].number
                                                ELSE h[r][f].number]
  <2>3. k[r] = [f \in 1 .. Len(records[r]) |-> v(f)]
    BY <1>1, <2>1, <2>2 DEF WithParameters
  <2>4. ASSUME NEW f \in 1 .. Len(records[r])
        PROVE  IsValueOf(records, r, f, v(f))
    <3>1. IsValueOf(records, r, f, h[r][f]) /\ IsValueOf(records, r, f, sent.records[r][f])
      BY DEF HeapRanged
    <3>2. PICK n : n = IF IsParameter(r, f) THEN sent.records[r][f].number ELSE h[r][f].number
      OBVIOUS
    <3>3. n \in UWord
      BY <3>1, <3>2 DEF IsValueOf, Values
    <3>4. v(f) = [h[r][f] EXCEPT !.number = n]
      BY <3>2
    <3> QED BY <3>1, <3>3, <3>4 DEF IsValueOf, Values
  <2> QED BY <2>3, <2>4
<1> QED BY <1>1, <1>2, <1>3 DEF HeapRanged

\* The octets that arrive.
LEMMA HarmedOctets ==
  ASSUME NEW octets \in Seq(Byte), Len(octets) <= MaxWord
  PROVE  /\ \A n \in 0 .. Len(octets) - 1 :
              SubSeq(octets, 1, n) \in Seq(Byte) /\ Len(SubSeq(octets, 1, n)) <= MaxWord
         /\ \A i \in DOMAIN octets : \A x :
              /\ [octets EXCEPT ![i] = Flipped(octets[i], x)] \in Seq(Byte)
              /\ Len([octets EXCEPT ![i] = Flipped(octets[i], x)]) <= MaxWord
<1>1. ASSUME NEW n \in 0 .. Len(octets) - 1
      PROVE  SubSeq(octets, 1, n) \in Seq(Byte) /\ Len(SubSeq(octets, 1, n)) <= MaxWord
  <2>1. PICK l \in Nat : l = Len(octets) /\ l <= MaxWord /\ n \in 0 .. l - 1
    OBVIOUS
  <2>2. SubSeq(octets, 1, n) \in Seq(Byte)
        /\ Len(SubSeq(octets, 1, n)) = IF 1 <= n THEN n - 1 + 1 ELSE 0
    BY <2>1, PartOfSeq
  <2> QED BY <2>1, <2>2, SmallWords
<1>2. \A octet, x : Flipped(octet, x) \in Byte
  <2>1. BYTE_BITS \in 0 .. WordBits + BYTE_BITS /\ Byte = 0 .. 2^BYTE_BITS - 1
    BY ByteWidth, SmallWords DEF Byte, Base
  <2>2. \A bits : OfBits(bits, BYTE_BITS) \in Byte
    BY <2>1, OfBitsFits
  <2> QED BY <2>2, Zenon DEF Flipped
<1>3. ASSUME NEW i \in DOMAIN octets, NEW x
      PROVE  /\ [octets EXCEPT ![i] = Flipped(octets[i], x)] \in Seq(Byte)
             /\ Len([octets EXCEPT ![i] = Flipped(octets[i], x)]) <= MaxWord
  <2>1. PICK b \in Byte : b = Flipped(octets[i], x)
    BY <1>2
  <2>2. [octets EXCEPT ![i] = b] \in Seq(Byte) /\ Len([octets EXCEPT ![i] = b]) = Len(octets)
    OBVIOUS
  <2> QED BY <2>1, <2>2
<1> QED BY <1>1, <1>3

-----------------------------------------------------------------------------
(* Steps                                                                     *)

\* A handler runs outside of the rows of its message.
LEMMA HandlingOutside ==
  ASSUME Handling
  PROVE  wi.rows = NoRows
BY DEF Handling, Plainly, NameUnknown, PushLiteral, LoadField, StoreField, MeasureField, ClearField,
   NoBranch, TestCondition, SkipElse, Combine, Negate, Select, Query, Require, Swap,
   RequireAligned, EmitField, ReadField, EmitSdnv, ReadSdnv, CborHead, Decimal, Terminated,
   ByteAt, SliceField, QueryList, BeginRows, PlaceCrc, FinishCrc, DoingNamed, Doing

\* All contexts, from the outermost to the running one.
LEMMA AllContexts ==
  ASSUME BoundsInv, CauseInv
  PROVE  /\ DOMAIN Scopes = 1 .. Len(Scopes)
         /\ \A k \in 1 .. Len(Scopes) :
              /\ Ranged(call, Scopes[k])
              /\ Running => /\ Runs(exchange.records, db, call, Scopes[k])
                            /\ k > 1 => Scopes[k].base = Position(Scopes[k - 1])
<1>1. PICK S : suspended \in Seq(S)
  BY DEF CauseInv
<1>2. PICK n \in Nat : n = Len(suspended)
  BY <1>1
<1>3. suspended \in Seq(S \cup {wi})
  BY <1>1
<1>4. /\ DOMAIN Scopes = 1 .. n + 1 /\ Len(Scopes) = n + 1
      /\ \A k \in 1 .. n + 1 : Scopes[k] = IF k = n + 1 THEN wi ELSE suspended[k]
  BY <1>2, <1>3 DEF Scopes
<1>5. ASSUME Running, NEW k \in 1 .. n + 1
      PROVE  /\ Runs(exchange.records, db, call, Scopes[k])
             /\ k > 1 => Scopes[k].base = Position(Scopes[k - 1])
  <2>1. ASSUME NEW i \in 1 .. n
        PROVE  /\ Runs(exchange.records, db, call, suspended[i])
               /\ Scopes[i + 1].base = Reached(call, suspended[i])
    <3>1. Stands(exchange.records, db, call, suspended[i],
                 IF i = n THEN wi.base ELSE suspended[i + 1].base)
      BY <1>2, <1>5 DEF BoundsInv, Stacked
    <3>2. Scopes[i + 1].base = IF i = n THEN wi.base ELSE suspended[i + 1].base
      BY <1>4
    <3> QED BY <3>1, <3>2 DEF Stands
  <2>2. Runs(exchange.records, db, call, Scopes[k])
    <3>1. CASE k = n + 1
      BY <1>4, <1>5, <3>1 DEF BoundsInv
    <3>2. CASE k # n + 1
      <4>1. k \in 1 .. n /\ Scopes[k] = suspended[k]
        BY <1>4, <3>2
      <4> QED BY <2>1, <4>1
    <3> QED BY <3>1, <3>2
  <2>3. ASSUME k > 1 PROVE Scopes[k].base = Position(Scopes[k - 1])
    <3>1. k - 1 \in 1 .. n /\ (k - 1) + 1 = k /\ Scopes[k - 1] = suspended[k - 1]
      BY <1>4, <2>3
    <3>2. Scopes[k].base = Reached(call, suspended[k - 1])
      BY <2>1, <3>1
    <3> QED BY <3>1, <3>2, PlaceIsReached
  <2> QED BY <2>2, <2>3
<1>6. ASSUME NEW k \in 1 .. n + 1 PROVE Ranged(call, Scopes[k])
  <2>1. CASE Running
    BY <1>5, <2>1 DEF Runs
  <2>2. CASE ~Running
    <3>1. suspended = <<>> /\ Len(<<>>) = 0
      BY <2>2 DEF BoundsInv
    <3>2. k = n + 1
      BY <1>2, <3>1
    <3> QED BY <1>4, <3>2 DEF BoundsInv
  <2> QED BY <2>1, <2>2
<1> QED BY <1>4, <1>5, <1>6

\* A handler finds what it needs.
LEMMA HandlingPrepared ==
  ASSUME CauseInv, CatalogInv, BalanceInv, BoundsInv, Handling
  PROVE  Prepared
<1>1. Running /\ ~wi.overrun /\ ~AtEnd
  BY HandlingRuns
<1>2. GoodToken(Current, wi.message)
  BY <1>1, CurrentGood DEF BalanceInv
<1>3. \A k \in 1 .. Len(Scopes) : HasRecord(Scopes[k])
  BY <1>1, AllContexts DEF Runs, HasRecord
<1>4. \E S : suspended \in Seq(S)
  BY DEF CauseInv
<1> QED BY <1>2, <1>3, <1>4 DEF BoundsInv, Prepared

\* One step of a call.
LEMMA CallingStays ==
  ASSUME CauseInv, CatalogInv, BalanceInv, BoundsInv, Calling
  PROVE  BoundsInv'
<1>1. /\ UNCHANGED <<exchange, stage, sent, db, call>>
  BY StepKeepsCatalog DEF Calling
<1>2. /\ CallRanged(call) /\ HeapRanged(exchange.records, heap) /\ SentRanged
      /\ \E S : suspended \in Seq(S)
  BY DEF BoundsInv, CauseInv
<1>3. Running => /\ Runs(exchange.records, db, call, wi)
                 /\ Stacked(exchange.records, db, call, suspended, wi.base)
  BY DEF BoundsInv
<1>4. ASSUME Running, result' = result, Runs(exchange.records, db, call, wi'),
             Stacked(exchange.records, db, call, suspended', wi'.base),
             HeapRanged(exchange.records, heap')
      PROVE  BoundsInv'
  <2>1. Ranged(call, wi')
    BY <1>4 DEF Runs
  <2>2. Running'
    BY <1>4 DEF Running
  <2>3. SentRanged'
    BY <1>1, <1>2 DEF SentRanged
  <2> QED BY <1>1, <1>2, <1>4, <2>1, <2>2, <2>3 DEF BoundsInv
<1>5. CASE Handling
  <2>1. Running /\ result' = result /\ suspended' = suspended /\ wi.rows = NoRows
    BY <1>5, HandlingRuns, HandlingOutside
  <2>2. Worked \/ RowsBegun
    BY <1>5, HandlingPrepared, HandlingWorks
  <2>3. /\ Runs(exchange.records, db, call, wi') /\ wi'.base = wi.base
        /\ HeapRanged(exchange.records, heap')
    BY <1>2, <1>3, <2>1, <2>2, HandlingStays
  <2> QED BY <1>3, <1>4, <2>1, <2>3
<1>6. CASE EndRows \/ RowsOverflow
  <2>1. Running /\ UNCHANGED <<result, suspended>>
    BY <1>6 DEF EndRows, RowsOverflow, InRows
  <2>2. /\ Runs(exchange.records, db, call, wi') /\ wi'.base = wi.base
        /\ HeapRanged(exchange.records, heap')
    BY <1>2, <1>3, <1>6, <2>1, EndRowsStays, RowsOverflowStays
  <2> QED BY <1>3, <1>4, <2>1, <2>2
<1>7. CASE EnterRow
  <2>1. Running /\ result' = result
    BY <1>7 DEF EnterRow, InRows
  <2>2. FieldCount(db, wi.rows.message) \in Nat
    <3>1. wi.rows.message \in 0 .. db.messages - 1 /\ stage \notin {"source", "invalid"}
      BY <2>1 DEF BalanceInv, InProgram, CauseInv
    <3> QED BY <3>1, FieldsCounted
  <2> QED BY <1>2, <1>3, <1>4, <1>7, <2>1, <2>2, EnterRowStays
<1>8. CASE LeaveRow
  <2>1. Running /\ UNCHANGED <<result, heap>>
    BY <1>8 DEF LeaveRow, ProgramOver
  <2> QED BY <1>2, <1>3, <1>4, <1>8, <2>1, LeaveRowStays
<1>9. CASE EndCall
  <2>1. Running /\ UNCHANGED <<wi, suspended, heap>> /\ suspended = <<>>
    BY <1>9 DEF EndCall, ProgramOver
  <2>2. SentRanged'
    BY <1>1, <1>2 DEF SentRanged
  <2>3. Ranged(call, wi)
    BY DEF BoundsInv
  <2> QED BY <1>1, <1>2, <1>3, <2>1, <2>2, <2>3 DEF BoundsInv
<1> QED
  BY <1>5, <1>6, <1>7, <1>8, <1>9 DEF Calling, Step, Handling, Plainly

\* The beginning of a call.
LEMMA CallBegins ==
  ASSUME CatalogInv, BoundsInv, ~Running,
         Send \/ ReceiveIntact \/ ReceiveCut \/ ReceiveFlipped \/ ReceiveAgain
  PROVE  BoundsInv'
<1>1. /\ stage \notin {"source", "invalid"}
      /\ UNCHANGED <<db, exchange, sent>> /\ HeapRanged(exchange.records, heap)
  BY DEF Send, ReceiveIntact, ReceiveCut, ReceiveFlipped, ReceiveAgain, Receive, BoundsInv
<1>2. ASSUME CallRanged(call'), Ranged(call', wi'), suspended' = <<>>, SentRanged',
             HeapRanged(exchange.records, heap'),
             Running' => /\ Runs(exchange.records, db, call', wi')
                         /\ Stacked(exchange.records, db, call', suspended', wi'.base)
      PROVE  BoundsInv'
  BY <1>1, <1>2 DEF BoundsInv
<1>3. CASE Send
  <2>1. exchange.room \in UWord /\ <<>> \in Seq(Byte) /\ Len(<<>>) <= MaxWord
    BY RecordsThere, SmallWords
  <2>2. Begin(exchange.message, 1, FALSE, exchange.room, <<>>, heap)
    BY <1>3 DEF Send
  <2>3. PICK room, octets, records :
          room = exchange.room /\ octets = <<>> /\ records = heap
    OBVIOUS
  <2>4. /\ CallRanged(call') /\ Ranged(call', wi') /\ heap' = records /\ suspended' = <<>>
        /\ Running' => /\ Runs(exchange.records, db, call', wi')
                       /\ Stacked(exchange.records, db, call', suspended', wi'.base)
    <3>1. room \in UWord /\ octets \in Seq(Byte) /\ Len(octets) <= MaxWord
          /\ Begin(exchange.message, 1, FALSE, room, octets, records)
      BY <2>1, <2>2, <2>3
    <3> QED BY <1>1, <3>1, BeginStays
  <2>5. SentRanged'
    BY <1>3 DEF Send, SentRanged
  <2> QED BY <1>1, <1>2, <2>3, <2>4, <2>5
<1>4. CASE ReceiveIntact \/ ReceiveCut \/ ReceiveFlipped \/ ReceiveAgain
  <2>1. /\ stage \in {"sent", "rejected"} /\ sent.octets \in Seq(Byte) /\ Len(sent.octets) <= MaxWord
        /\ HeapRanged(exchange.records, sent.records)
    BY <1>4 DEF ReceiveIntact, ReceiveCut, ReceiveFlipped, ReceiveAgain, BoundsInv, SentRanged
  <2>2. PICK octets, records :
          /\ octets \in Seq(Byte) /\ Len(octets) <= MaxWord
          /\ HeapRanged(exchange.records, records) /\ Receive(octets, records)
    <3>1. PICK wire, rs, h : wire = sent.octets /\ rs = exchange.records /\ h = heap
      OBVIOUS
    <3>2. HeapRanged(rs, h) /\ HeapRanged(rs, Zeroed(h))
      BY <1>1, <3>1, ZeroedRanged
    <3>3. wire \in Seq(Byte) /\ Len(wire) <= MaxWord
      BY <2>1, <3>1
    <3>4. CASE ReceiveIntact
      <4>1. Receive(wire, Zeroed(h))
        BY <3>1, <3>4 DEF ReceiveIntact
      <4> QED BY <3>1, <3>2, <3>3, <4>1
    <3>5. CASE ReceiveCut
      <4>1. PICK n \in 0 .. Len(wire) - 1 : Receive(SubSeq(wire, 1, n), Zeroed(h))
        BY <3>1, <3>5 DEF ReceiveCut
      <4>2. SubSeq(wire, 1, n) \in Seq(Byte) /\ Len(SubSeq(wire, 1, n)) <= MaxWord
        BY <3>3, HarmedOctets
      <4> QED BY <3>1, <3>2, <4>1, <4>2
    <3>6. CASE ReceiveFlipped
      <4>1. PICK i \in DOMAIN wire, x \in Flips :
              Receive([wire EXCEPT ![i] = Flipped(wire[i], x)], Zeroed(h))
        BY <3>1, <3>6 DEF ReceiveFlipped
      <4>2. PICK t : t = [wire EXCEPT ![i] = Flipped(wire[i], x)]
        OBVIOUS
      <4>3. t \in Seq(Byte) /\ Len(t) <= MaxWord
        BY <3>3, <4>2, HarmedOctets
      <4> QED BY <3>1, <3>2, <4>1, <4>2, <4>3
    <3>7. CASE ReceiveAgain
      <4>1. Receive(wire, h)
        BY <3>1, <3>7 DEF ReceiveAgain
      <4> QED BY <3>1, <3>2, <3>3, <4>1
    <3> QED BY <1>4, <3>4, <3>5, <3>6, <3>7
  <2>3. HeapRanged(exchange.records, WithParameters(records))
    <3>1. PICK rs : rs = exchange.records
      OBVIOUS
    <3> QED BY <2>1, <2>2, <3>1, ParametersRanged
  <2>4. PICK h : h = WithParameters(records)
    OBVIOUS
  <2>5. Begin(exchange.message, 1, TRUE, 0, octets, h)
    BY <2>2, <2>4 DEF Receive
  <2>6. /\ CallRanged(call') /\ Ranged(call', wi') /\ heap' = h /\ suspended' = <<>>
        /\ Running' => /\ Runs(exchange.records, db, call', wi')
                       /\ Stacked(exchange.records, db, call', suspended', wi'.base)
    <3>1. 0 \in UWord
      BY SmallWords DEF UWord
    <3> QED BY <1>1, <2>2, <2>5, <3>1, BeginStays
  <2>7. SentRanged'
    BY <1>1, <2>1 DEF SentRanged
  <2> QED BY <1>1, <1>2, <2>3, <2>4, <2>6, <2>7
<1> QED BY <1>3, <1>4

LEMMA BoundsStep ==
  ASSUME CauseInv, CatalogInv, BalanceInv, BoundsInv, [Next]_vars
  PROVE  BoundsInv'
<1>1. CASE Compile \/ Open \/ Sent \/ Received
  <2>1. ~Running /\ UNCHANGED <<call, wi, suspended, heap, result, exchange>>
    BY <1>1 DEF Compile, Open, Sent, Received, callVars, Running, CauseInv
  <2>2. SentRanged'
    <3>1. CASE Sent
      <4>1. HeapRanged(exchange.records, heap)
        BY DEF BoundsInv
      <4>2. wi.out \in Seq(Byte) /\ Len(wi.out) <= MaxWord
        <5>1. Len(wi.out) <= call.room /\ wi.out \in Seq(Byte) /\ call.room \in UWord
          BY DEF BoundsInv, Ranged, CallRanged
        <5>2. Len(wi.out) \in Nat
          BY <5>1
        <5> QED BY <5>1, <5>2, SmallWords DEF UWord
      <4>3. \/ stage' = "refused"
            \/ sent' = [records |-> heap, octets |-> wi.out] /\ exchange' = exchange
        BY <2>1, <3>1 DEF Sent
      <4> QED BY <4>1, <4>2, <4>3 DEF SentRanged
    <3>2. CASE Compile \/ Open
      BY <3>2 DEF Compile, Open, SentRanged
    <3>3. CASE Received
      BY <3>3 DEF Received, SentRanged, BoundsInv
    <3> QED BY <1>1, <3>1, <3>2, <3>3
  <2> QED BY <2>1, <2>2 DEF BoundsInv, Running
<1>2. CASE Send \/ ReceiveIntact \/ ReceiveCut \/ ReceiveFlipped \/ ReceiveAgain
  <2>1. ~Running
    BY <1>2 DEF Send, ReceiveIntact, ReceiveCut, ReceiveFlipped, ReceiveAgain, Receive, CauseInv
  <2> QED BY <1>2, <2>1, CallBegins
<1>3. CASE Calling
  BY <1>3, CallingStays
<1>4. CASE Over \/ UNCHANGED vars
  BY <1>4 DEF Over, vars, callVars, BoundsInv, SentRanged, Running
<1> QED BY <1>1, <1>2, <1>3, <1>4 DEF Next

LEMMA BoundsInit ==
  ASSUME Init, CatalogInv
  PROVE  BoundsInv
<1>1. CallRanged(call)
  BY SmallWords DEF Init, NoCall, CallRanged, UWord
<1>2. Ranged(call, wi)
  <2>1. call.decode \in BOOLEAN /\ call.room \in Nat /\ call.input \in Seq(Byte)
    BY DEF Init, NoCall
  <2>2. wi = Context(0, 0, 0, 0, 0, <<>>, 0)
    BY DEF Init
  <2> QED BY <2>1, <2>2, ContextRanged
<1>3. HeapRanged(exchange.records, heap)
  BY RecordsThere DEF Init
<1>4. ~Running /\ suspended = <<>> /\ SentRanged
  BY DEF Init, Running, SentRanged
<1> QED BY <1>1, <1>2, <1>3, <1>4 DEF BoundsInv

\* The invariant behind the next theorems: the octets, operands and bits of every context
\* and the values of every record are in range, the records of the contexts are there
\* with all fields, lists have not run over, and each message begins where the one around
\* it stands.  (b_emit, fs_push, record_bits, record_sequence)
THEOREM BoundsKept == Spec => []BoundsInv
<1>1. CauseInv /\ CatalogInv /\ BalanceInv /\ BoundsInv /\ [Next]_vars => BoundsInv'
  BY BoundsStep
<1>2. Init => BalanceInv
  BY DEF Init, BalanceInv, Running
<1>3. CauseInv /\ CatalogInv /\ BalanceInv /\ [Next]_vars => BalanceInv'
  BY BalanceStep
<1>4. CauseInv /\ UNCHANGED vars => CauseInv'
  BY DEF CauseInv, AllWaiting, Waiting, Sound, Keeps, IsStack, vars, callVars, Running
<1>5. CauseInv /\ [Next]_vars => CauseInv'
  BY <1>4, CauseStep
<1>6. CatalogInv /\ [Next]_vars => CatalogInv'
  BY NextCatalog
<1>7. Init => BoundsInv
  BY InitCatalog, BoundsInit
<1> QED BY <1>1, <1>2, <1>3, <1>5, <1>6, <1>7, CauseInit, InitCatalog, PTL DEF Spec

\* Every context and every value of a record, in words.
LEMMA BoundsAreWords ==
  ASSUME CauseInv, CatalogInv, BoundsInv
  PROVE  WordsStayWords
<1>1. ASSUME NEW w \in Contexts, NEW i \in DOMAIN w.fstack
      PROVE  w.fstack[i] \in 0 .. MaxWord
  <2>1. Ranged(call, w)
    BY <1>1, AllContexts DEF Contexts
  <2>2. PICK s \in Seq(UWord) : s = w.fstack
    BY <2>1 DEF Ranged
  <2>3. i \in 1 .. Len(s)
    BY <1>1, <2>2
  <2>4. s[i] \in UWord
    BY <2>3, ElementOfSeq
  <2> QED BY <2>2, <2>4 DEF UWord
<1>2. ASSUME NEW r \in DOMAIN heap, NEW f \in DOMAIN heap[r]
      PROVE  heap[r][f].number \in 0 .. MaxWord /\ heap[r][f].count \in 0 .. MaxWord
  <2>1. PICK records, h : records = exchange.records /\ h = heap
    OBVIOUS
  <2>2. HeapRanged(records, h)
    BY <2>1 DEF BoundsInv
  <2>3. r \in DOMAIN records
    BY <1>2, <2>1, <2>2 DEF HeapRanged
  <2>4. h[r] = [y \in 1 .. Len(records[r]) |-> h[r][y]]
    BY <2>2, <2>3 DEF HeapRanged
  <2>5. f \in 1 .. Len(records[r])
    BY <1>2, <2>1, <2>4
  <2>6. \A y \in 1 .. Len(records[r]) : h[r][y].number \in UWord /\ h[r][y].count \in UWord
    BY <2>2, <2>3, ValueThere
  <2> QED BY <2>1, <2>5, <2>6 DEF UWord
<1> QED BY <1>1, <1>2 DEF WordsStayWords

LEMMA BoundsAreWindows ==
  ASSUME CauseInv, BoundsInv
  PROVE  InsideWindows
<1>1. ASSUME Running, NEW k \in DOMAIN Scopes
      PROVE  /\ Len(Scopes[k].out) <= call.room /\ Scopes[k].pos \in 0 .. Len(call.input)
             /\ Scopes[k].base <= Position(Scopes[k])
             /\ k > 1 => Scopes[k].base = Position(Scopes[k - 1])
  <2>1. /\ Ranged(call, Scopes[k])
        /\ k > 1 => Scopes[k].base = Position(Scopes[k - 1])
    BY <1>1, AllContexts
  <2> QED BY <2>1, PlaceIsReached DEF Ranged
<1> QED BY <1>1 DEF InsideWindows

LEMMA BoundsAreRecords ==
  ASSUME CauseInv, CatalogInv, BoundsInv
  PROVE  RecordsFit
<1>1. ASSUME Running, NEW w \in Contexts
      PROVE  FieldCount(db, w.message) <= Len(heap[w.record])
  <2>1. Runs(exchange.records, db, call, w)
    BY <1>1, AllContexts DEF Contexts
  <2>2. PICK records, h : records = exchange.records /\ h = heap
    OBVIOUS
  <2>3. PICK r : r = w.record
    OBVIOUS
  <2>4. r \in DOMAIN records /\ FieldCount(db, w.message) \in 0 .. Len(records[r])
    BY <2>1, <2>2, <2>3 DEF Runs
  <2>5. Len(records[r]) \in Nat
    BY <2>2, <2>4, RecordsThere
  <2>6. HeapRanged(records, h)
    BY <2>2 DEF BoundsInv
  <2>7. Len(h[r]) = Len(records[r])
    BY <2>4, <2>5, <2>6, ValueThere
  <2> QED BY <2>2, <2>3, <2>4, <2>5, <2>7
<1> QED BY <1>1 DEF RecordsFit

LEMMA BoundsAreProgress ==
  ASSUME CauseInv, BoundsInv
  PROVE  RowsConsume
<1>1. ASSUME Running, ~Encoding, NEW w \in Contexts, w.rows # NoRows, Unbounded(w.rows)
      PROVE  w.rows.index <= w.pos - w.base
  <2>1. Runs(exchange.records, db, call, w)
    BY <1>1, AllContexts DEF Contexts
  <2> QED BY <1>1, <2>1 DEF Runs, RowsRanged, Consumes, Encoding
<1> QED BY <1>1 DEF RowsConsume

\* Whatever the programs of a schema compute from whatever was read: operands, numbers
\* and counts are words, and a sum, product or difference that is none has been an error.  (fs_push, record_binary)
THEOREM Words == Spec => []WordsStayWords
<1>1. CauseInv /\ CatalogInv /\ BoundsInv => WordsStayWords
  BY BoundsAreWords
<1>2. CatalogInv /\ [Next]_vars => CatalogInv'
  BY NextCatalog
<1> QED BY <1>1, <1>2, InitCatalog, CausesKept, BoundsKept, PTL DEF Spec

\* No message at any depth writes behind the buffer, reads behind the input or names a
\* value that its record does not have, for every size of each.  (b_emit, b_get,
\* record_sequence, execute)
THEOREM Inside == Spec => []StaysInside
<1>1. CauseInv /\ CatalogInv /\ BoundsInv => StaysInside
  BY BoundsAreWindows, BoundsAreRecords DEF StaysInside
<1>2. CatalogInv /\ [Next]_vars => CatalogInv'
  BY NextCatalog
<1> QED BY <1>1, <1>2, InitCatalog, CausesKept, BoundsKept, PTL DEF Spec

\* A decoder's unbounded sequence consumes an octet with each row.  (record_sequence)
THEOREM Progress == Spec => []RowsConsume
<1>1. CauseInv /\ BoundsInv => RowsConsume
  BY BoundsAreProgress
<1> QED BY <1>1, CausesKept, BoundsKept, PTL
=============================================================================
