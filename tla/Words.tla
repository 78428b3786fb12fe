------------------------------- MODULE Words -------------------------------
(***************************************************************************)
(* The integers of the interpreter.  A byte has BYTE_BITS bits (8 in the   *)
(* code) and a stack cell is a signed word of WORD_BYTES bytes (int64_t, 8 *)
(* in the code), an int one of half as many.  TLC runs with narrower ones: *)
(* every carry, mask, shift and overflow of the code still happens, at the *)
(* corresponding place of a shorter word.                                  *)
(***************************************************************************)
EXTENDS Integers, Sequences, FiniteSetsExt

CONSTANTS BYTE_BITS, WORD_BYTES

ASSUME ByteBitsAssumption  == BYTE_BITS \in Nat /\ BYTE_BITS >= 2
ASSUME WordBytesAssumption == WORD_BYTES \in Nat \ {0}

WordBits == WORD_BYTES * BYTE_BITS
IntBits  == WordBits \div 2
Base     == 2 ^ BYTE_BITS
Modulus  == 2 ^ WordBits
Byte     == 0 .. Base - 1
Word     == -(2 ^ (WordBits - 1)) .. 2 ^ (WordBits - 1) - 1

\* The conversion to int64_t.  No integer reaches the ELSE: it makes Int64(n) a
\* word by definition, where n comes out of a sum over a set.
Int64(n) ==
  LET w == ((n + 2 ^ (WordBits - 1)) % Modulus) - 2 ^ (WordBits - 1)
  IN  IF w \in Word THEN w ELSE 0

Unsigned(n) == n % Modulus

\* The conversion to int, half a word.
ToInt(n) == ((n + 2 ^ (IntBits - 1)) % 2 ^ IntBits) - 2 ^ (IntBits - 1)

\* Two's complement bits, of negative numbers too (\div rounds down).
BitsOf(n, width) == {i \in 0..width-1 : (n \div 2^i) % 2 = 1}

\* The number of width bits that has these.
OfBits(bits, width) ==
  LET value[i \in 0..width] ==
        IF i = 0 THEN 0 ELSE value[i-1] + (IF i - 1 \in bits THEN 2^(i-1) ELSE 0)
  IN  value[width]

Bool(b) == IF b THEN 1 ELSE 0
Magnitude(n) == IF n < 0 THEN -n ELSE n

\* C's division truncates toward zero and its remainder follows the dividend.
Quotient(b, a) ==
  LET q == Magnitude(b) \div Magnitude(a) IN IF (b < 0) = (a < 0) THEN q ELSE -q
\* Mutant: a remainder that is never negative.
RemainderMagnitude(b, a) == Magnitude(b) % Magnitude(a)

Remainder(b, a) == b - a * Quotient(b, a)

\* b op a, as the binary handlers compute it: division by zero gives zero, an
\* overflow of + - * wraps.
Binary(op, b, a) ==
  LET B == BitsOf(b, WordBits)
      A == BitsOf(a, WordBits)
  IN CASE op = "&" -> OfBits(B \cap A, WordBits)
       [] op = "|" -> OfBits(B \cup A, WordBits)
       [] op = "^" -> OfBits((B \ A) \cup (A \ B), WordBits)
       [] op = "A" -> Bool(b # 0 /\ a # 0)
       [] op = "O" -> Bool(b # 0 \/ a # 0)
       [] op = "+" -> b + a
       [] op = "-" -> b - a
       [] op = "*" -> b * a
       [] op = "/" -> IF a = 0 THEN 0 ELSE Quotient(b, a)
       [] op = "m" -> IF a = 0 THEN 0 ELSE Remainder(b, a)
       [] op = "=" -> Bool(b = a)
       [] op = ">" -> Bool(b > a)
       [] op = "<" -> Bool(b < a)

BinaryOps == {"&", "|", "^", "A", "O", "+", "-", "*", "/", "m", "=", ">", "<"}

Unary(op, a) == IF op = "~" THEN -a - 1 ELSE Bool(a = 0)

\* n as k bytes, least significant first; in %w %W %q, a mutant.
LittleEndian(n, k) == [i \in 1..k |-> (n \div Base ^ (i - 1)) % Base]

\* n as k bytes, most significant first, and back.
BigEndian(n, k) == [i \in 1..k |-> (n \div Base ^ (k - i)) % Base]

Number(bytes) ==
  LET value[i \in 0..Len(bytes)] == IF i = 0 THEN 0 ELSE value[i-1] * Base + bytes[i]
  IN  value[Len(bytes)]

(***************************************************************************)
(* SDNV: groups of BYTE_BITS - 1 bits, most significant first, each but    *)
(* the last marked by the byte's top bit.  SdnvMax is the code's 10.       *)
(***************************************************************************)
Group   == 2 ^ (BYTE_BITS - 1)
SdnvMax == (WordBits + BYTE_BITS - 2) \div (BYTE_BITS - 1)

IsSdnvLength(value, k) == value < Group ^ k /\ (k = 1 \/ value >= Group ^ (k - 1))

Sdnv(value, k) ==
  [i \in 1..k |-> ((value \div Group ^ (k - i)) % Group) + (IF i = k THEN 0 ELSE Group)]

\* The accumulator of %D after the first i bytes.
SdnvValue(bytes, i) ==
  LET value[j \in 0..i] == IF j = 0 THEN 0 ELSE value[j-1] * Group + (bytes[j] % Group)
  IN  value[i]

\* Mutant: the bound is off by one group.
SdnvOverflowsLate(bytes, i) == SdnvValue(bytes, i - 1) > Modulus \div Group

\* %D stops at its i-th byte: the value so far has no room for another group, or
\* the byte is the last of its number, or it is the last byte the loop reads.
SdnvOverflows(bytes, i) == SdnvValue(bytes, i - 1) > (Modulus - 1) \div Group
SdnvEnds(bytes, i)      == bytes[i] < Group

\* The powers above begin at 1 and are multiplied by what they are powers of.  This
\* is what ^ means; the proofs take it from here, because the provers know of ^ only
\* that it is an operator.
ASSUME PowersAssumption ==
  /\ 2^0 = 1 /\ Base^0 = 1 /\ Group^0 = 1
  /\ \A b \in 0..WordBits + BYTE_BITS : 2^b \in Nat \ {0} /\ 2^(b + 1) = 2 * 2^b
  /\ \A k \in 0..WORD_BYTES : Base^k \in Nat \ {0} /\ Base^(k + 1) = Base * Base^k
  /\ \A k \in 0..SdnvMax : Group^k \in Nat \ {0} /\ Group^(k + 1) = Group * Group^k
=============================================================================
