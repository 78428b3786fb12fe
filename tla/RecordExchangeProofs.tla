------------------------ MODULE RecordExchangeProofs ------------------------
(***************************************************************************)
(* What runs the programs of a schema keeps the stack as they promise, and *)
(* reports the first cause it meets.                                       *)
(*                                                                         *)
(* Keeps says what an operation does to a context: it stays in its place,  *)
(* stops if it records a cause, and otherwise has so many operands.  Every *)
(* operation has a lemma about that (...Keeps), and every handler is a     *)
(* chain of them.                                                          *)
(***************************************************************************)
EXTENDS RecordImageProofs

-----------------------------------------------------------------------------
(* Operations                                                                *)

IsStack(s) == \E S : s \in Seq(S)

\* What an operation has made of the context old: the same place in the same program,
\* stopped if it has a cause, and if it has not stopped, with h operands.
Keeps(old, w, h) ==
  /\ {"status", "overrun", "fstack", "pc", "message", "rows"} \subseteq DOMAIN w
  /\ w.pc = old.pc /\ w.message = old.message /\ w.rows = old.rows
  /\ w.status # "ok" => w.overrun
  /\ ~w.overrun => IsStack(w.fstack) /\ Len(w.fstack) = h

\* A failure stops, and records its cause if it is the first.  Of what has stopped
\* the number of operands does not matter.
LEMMA FailKeeps ==
  ASSUME NEW old, NEW h, NEW w, Keeps(old, w, h), NEW status
  PROVE  /\ Fail(w, status).overrun
         /\ \A k : Keeps(old, Fail(w, status), k)
BY DEF Keeps, Fail

LEMMA StoppedKeeps ==
  ASSUME NEW old, NEW h, NEW w, Keeps(old, w, h), w.overrun
  PROVE  \A k : Keeps(old, w, k)
BY DEF Keeps

\* What touches none of that.
LEMMA UpdateKeeps ==
  ASSUME NEW old, NEW h, NEW w, Keeps(old, w, h), NEW x
  PROVE  /\ Keeps(old, [w EXCEPT !.pos = x], h) /\ Keeps(old, [w EXCEPT !.crc = x], h)
         /\ Keeps(old, [w EXCEPT !.out = x], h)
         /\ \A k : Keeps(old, [w EXCEPT !.overrun = TRUE], k)
BY DEF Keeps

\* fs_pop() and fs_push()
LEMMA PoppedKeeps ==
  ASSUME NEW old, NEW h \in Nat, NEW w, Keeps(old, w, h), NEW k \in Nat, NEW g, g = h - k
  PROVE  Keeps(old, Popped(w, k), g)
<1>1. CASE w.overrun
  BY <1>1, StoppedKeeps DEF Popped
<1>2. CASE ~w.overrun /\ k <= Len(w.fstack)
  <2>1. PICK S : w.fstack \in Seq(S)
    BY <1>2 DEF Keeps, IsStack
  <2>2. PICK s : s = SubSeq(w.fstack, 1, h - k)
    OBVIOUS
  <2>3. s \in Seq(S) /\ Len(s) = h - k
    <3>1. Len(w.fstack) = h /\ 1 \in Int /\ h - k \in Int /\ h - k >= 0
      BY <1>2 DEF Keeps
    <3>2. \A i \in 1 .. h - k : w.fstack[i] \in S
      BY <2>1, <3>1
    <3>3. s \in Seq(S) /\ Len(s) = IF 1 <= h - k THEN (h - k) - 1 + 1 ELSE 0
      BY <2>2, <3>1, <3>2, SubSeqProperties
    <3>4. (IF 1 <= h - k THEN (h - k) - 1 + 1 ELSE 0) = h - k
      BY <3>1
    <3> QED BY <3>3, <3>4
  <2>4. Popped(w, k) = [w EXCEPT !.fstack = s]
    BY <1>2, <2>2 DEF Popped, Keeps
  <2> QED BY <1>2, <2>3, <2>4 DEF Keeps, IsStack
<1>3. CASE ~w.overrun /\ ~(k <= Len(w.fstack))
  BY <1>3 DEF Popped, Keeps
<1> QED BY <1>1, <1>2, <1>3

LEMMA PushKeeps ==
  ASSUME NEW old, NEW h \in Int, NEW w, Keeps(old, w, h), NEW n, NEW g, g = h + 1
  PROVE  Keeps(old, Push(w, n), g)
<1>1. CASE w.overrun
  BY <1>1, StoppedKeeps DEF Push
<1>2. CASE ~w.overrun /\ Len(w.fstack) < STACK_DEPTH
  <2>1. PICK S : w.fstack \in Seq(S)
    BY <1>2 DEF Keeps, IsStack
  <2>2. PICK s : s = Append(w.fstack, n)
    OBVIOUS
  <2>3. s \in Seq(S \cup {n}) /\ Len(s) = Len(w.fstack) + 1
    <3>1. w.fstack \in Seq(S \cup {n}) /\ n \in S \cup {n}
      BY <2>1
    <3> QED BY <2>2, <3>1
  <2>4. Push(w, n) = [w EXCEPT !.fstack = s]
    BY <1>2, <2>2 DEF Push
  <2> QED BY <1>2, <2>3, <2>4 DEF Keeps, IsStack
<1>3. CASE ~w.overrun /\ ~(Len(w.fstack) < STACK_DEPTH)
  BY <1>3 DEF Push, Keeps
<1> QED BY <1>1, <1>2, <1>3

\* b_emit()
LEMMA EmitKeeps ==
  ASSUME NEW old, NEW h, NEW w, Keeps(old, w, h), NEW octets
  PROVE  Keeps(old, Emit(w, octets), h)
<1>1. CASE w.overrun
  BY <1>1 DEF Emit
<1>2. CASE ~w.overrun
  <2>1. PICK out : out = w.out \o SubSeq(octets, 1, Min({Room(w), Len(octets)}))
    OBVIOUS
  <2>2. PICK over : over = (Len(octets) > Room(w))
    OBVIOUS
  <2>3. Emit(w, octets) = [w EXCEPT !.out = out, !.overrun = over]
    BY <1>2, <2>1, <2>2 DEF Emit
  <2> QED BY <1>2, <2>3 DEF Keeps
<1> QED BY <1>1, <1>2

\* A context that is not at the start of an octet fails.
LEMMA AlignedKeeps ==
  ASSUME NEW old, NEW h, NEW w, Keeps(old, w, h)
  PROVE  Keeps(old, Aligned(w), h)
BY FailKeeps DEF Aligned

LEMMA AlignedUnlessOverKeeps ==
  ASSUME NEW old, NEW h, NEW w, Keeps(old, w, h)
  PROVE  Keeps(old, AlignedUnlessOver(w), h)
BY AlignedKeeps DEF AlignedUnlessOver

\* record_bits(), in either direction
LEMMA EmitBitsKeeps ==
  ASSUME NEW old, NEW h, NEW w, Keeps(old, w, h), NEW value, NEW width
  PROVE  Keeps(old, EmitBits(w, value, width), h)
<1> DEFINE octets == BigEndian((w.acc * 2 ^ width + value) \div 2 ^ ((w.bits + width) % BYTE_BITS),
                               (w.bits + width) \div BYTE_BITS)
<1>1. PICK e : e = Emit(w, octets)
  OBVIOUS
<1>2. Keeps(old, e, h)
  BY <1>1, EmitKeeps
<1>3. PICK bits, acc : bits = (w.bits + width) % BYTE_BITS
                       /\ acc = (w.acc * 2 ^ width + value) % 2 ^ ((w.bits + width) % BYTE_BITS)
  OBVIOUS
<1>4. PICK v : v = [e EXCEPT !.bits = bits, !.acc = acc]
  OBVIOUS
<1>5. Keeps(old, v, h)
  BY <1>2, <1>4 DEF Keeps
<1>6. EmitBits(w, value, width) \in {w, Fail(w, "range"), v}
  BY <1>1, <1>3, <1>4 DEF EmitBits
<1> QED BY <1>5, <1>6, FailKeeps

LEMMA ReadBitsKeeps ==
  ASSUME NEW old, NEW h, NEW w, Keeps(old, w, h), NEW width
  PROVE  Keeps(old, ReadBits(w, width).w, h)
<1> DEFINE octets == IF width <= w.bits THEN 0
                     ELSE (width - w.bits + BYTE_BITS - 1) \div BYTE_BITS
           loaded == Min({octets, Unread(w)})
           left   == w.bits + loaded * BYTE_BITS - width
           all    == w.acc * Base ^ loaded + Number(SubSeq(call.input, w.pos + 1, w.pos + loaded))
<1>1. PICK pos, acc, bits : pos = w.pos + loaded /\ acc = all % 2 ^ left /\ bits = left
  OBVIOUS
<1>2. PICK u : u = [w EXCEPT !.pos = pos, !.overrun = TRUE]
  OBVIOUS
<1>3. PICK v : v = [w EXCEPT !.pos = pos, !.bits = bits, !.acc = acc]
  OBVIOUS
<1>4. Keeps(old, u, h) /\ Keeps(old, v, h)
  BY <1>2, <1>3 DEF Keeps
<1>5. ReadBits(w, width).w \in {w, Fail(w, "range"), u, v}
  <2>1. u = [w EXCEPT !.pos = @ + loaded, !.overrun = TRUE]
        /\ v = [w EXCEPT !.pos = @ + loaded, !.bits = left, !.acc = all % 2 ^ left]
    BY <1>1, <1>2, <1>3
  <2> HIDE DEF octets, loaded, left, all
  <2>2. PICK p, q : /\ p = [w |-> u, value |-> (all * 2) % Modulus]
                    /\ q = [w |-> v, value |-> all \div 2 ^ left]
    OBVIOUS
  <2>3. ReadBits(w, width) = IF w.overrun THEN [w |-> w, value |-> 0]
                             ELSE IF width > WordBits THEN [w |-> Fail(w, "range"), value |-> 0]
                             ELSE IF loaded < octets THEN p ELSE q
    BY <2>1, <2>2, Zenon DEF ReadBits, octets, loaded, left, all
  <2> QED BY <2>2, <2>3
<1> QED BY <1>4, <1>5, FailKeeps

\* record_cbor()
LEMMA CborKeeps ==
  ASSUME NEW old, NEW h, NEW w, Keeps(old, w, h), NEW major, NEW value
  PROVE  Keeps(old, Cbor(w, major, value).w, h)
<1>0. PICK aligned : aligned = Aligned(w)
  OBVIOUS
<1>1. Keeps(old, aligned, h)
  BY <1>0, AlignedKeeps
<1>2. Keeps(old, EmitCbor(w, major, value), h)
  <2>1. PICK a : a = Emit(w, <<4 * 32 + Indefinite>>)
    OBVIOUS
  <2>2. PICK head : head = Emit(w, <<major * 32 + CborCode(value)>>)
    OBVIOUS
  <2>3. PICK b : b = EmitBits(head, value, CborWidth(CborCode(value)))
    OBVIOUS
  <2>4. Keeps(old, a, h) /\ Keeps(old, head, h) /\ Keeps(old, b, h)
    BY <2>1, <2>2, <2>3, EmitKeeps, EmitBitsKeeps
  <2>5. EmitCbor(w, major, value) \in {a, head, b}
    BY <2>1, <2>2, <2>3 DEF EmitCbor
  <2> QED BY <2>4, <2>5
<1>3. Keeps(old, ReadCbor(w, major).w, h)
  <2>1. PICK head : head = ReadBits(w, BYTE_BITS)
    OBVIOUS
  <2>2. PICK code : code = (IF head.w.overrun THEN 0 ELSE head.value) % 32
    OBVIOUS
  <2>3. PICK tail : tail = ReadBits(head.w, CborWidth(code))
    OBVIOUS
  <2>4. Keeps(old, head.w, h) /\ Keeps(old, tail.w, h)
    BY <2>1, <2>3, ReadBitsKeeps
  <2>5. Keeps(old, Fail(head.w, "constant"), h) /\ Keeps(old, Fail(head.w, "range"), h)
        /\ Keeps(old, Fail(tail.w, "range"), h)
    BY <2>4, FailKeeps
  <2>6. "w" \in DOMAIN tail
    BY <2>3 DEF ReadBits
  <2>7. ReadCbor(w, major).w
          \in {head.w, tail.w, Fail(head.w, "constant"), Fail(head.w, "range"),
               Fail(tail.w, "range")}
    BY <2>1, <2>2, <2>3, <2>6, SMTT(30) DEF ReadCbor
  <2> QED BY <2>4, <2>5, <2>7
<1>4. PICK read : read = ReadCbor(w, major)
  OBVIOUS
<1>5. PICK written : written = EmitCbor(w, major, value)
  OBVIOUS
<1>6. Cbor(w, major, value).w \in {aligned, written, read.w}
  <2>1. CASE aligned.overrun
    BY <1>0, <2>1 DEF Cbor
  <2>2. CASE ~aligned.overrun /\ Encoding
    <3>1. Cbor(w, major, value) = [w |-> written, value |-> value]
      BY <1>0, <1>5, <2>2 DEF Cbor
    <3> QED BY <3>1
  <2>3. CASE ~aligned.overrun /\ ~Encoding
    <3>1. Cbor(w, major, value) = read
      BY <1>0, <1>4, <2>3 DEF Cbor
    <3> QED BY <3>1
  <2> QED BY <2>1, <2>2, <2>3
<1> QED BY <1>1, <1>2, <1>3, <1>4, <1>5, <1>6

\* One turn of the loop that writes the digits of %ud.
DigitEmitted(before, j, value, width, mode) ==
  EmitBits(before, DigitBase(mode) + ((value \div 10 ^ (width - j)) % 10), DigitWidth(mode))

\* The contexts between the digits that %ud writes.
AreEmitted(f, w, value, width, mode) ==
  f[0] = w /\ \A j \in 1..width : f[j] = DigitEmitted(f[j - 1], j, value, width, mode)

LEMMA EmittedDigits ==
  ASSUME NEW w, NEW value, NEW width \in Nat, NEW mode
  PROVE  \E f : AreEmitted(f, w, value, width, mode) /\ EmitDigits(w, value, width, mode) = f[width]
<1> DEFINE Turn(f, j) == DigitEmitted(f[j - 1], j, value, width, mode)
           Whole(f, m) == f = [j \in 0..m |-> IF j = 0 THEN w ELSE Turn(f, j)]
           T == {m \in Nat : \E f : Whole(f, m)}
<1>1. 0 \in T
  <2>1. PICK f : f = [j \in 0..0 |-> w]
    OBVIOUS
  <2>2. f = [j \in 0..0 |-> IF j = 0 THEN w ELSE Turn(f, j)]
    BY <2>1
  <2> QED BY <2>2
<1>2. ASSUME NEW m \in T PROVE m + 1 \in T
  <2>1. PICK f : Whole(f, m)
    BY <1>2
  <2>2. PICK g : g = [j \in 0..m + 1 |-> IF j = 0 THEN w ELSE Turn(f, j)]
    OBVIOUS
  <2>3. m \in Nat /\ \A j \in 0..m : g[j] = f[j]
    <3> HIDE DEF Turn
    <3>1. m \in Nat
      OBVIOUS
    <3>2. ASSUME NEW j \in 0..m PROVE g[j] = f[j]
      <4>1. j \in 0..m + 1
        BY <3>1
      <4>2. PICK t : t = Turn(f, j)
        OBVIOUS
      <4>3. f[j] = IF j = 0 THEN w ELSE t
        BY <2>1, <4>2
      <4>4. g[j] = IF j = 0 THEN w ELSE t
        BY <2>2, <4>1, <4>2
      <4> QED BY <4>3, <4>4
    <3> QED BY <3>1, <3>2
  <2>4. ASSUME NEW j \in 1..m + 1 PROVE Turn(g, j) = Turn(f, j)
    <3>1. j - 1 \in 0..m
      BY <2>3
    <3>2. g[j - 1] = f[j - 1]
      BY <2>3, <3>1
    <3> QED BY <3>2
  <2>5. Whole(g, m + 1)
    <3>1. \A j \in 0..m + 1 : j = 0 \/ j \in 1..m + 1
      BY <2>3
    <3> HIDE DEF Turn
    <3> QED BY <2>2, <2>4, <3>1
  <2> HIDE DEF Whole
  <2> QED BY <2>3, <2>5
<1> HIDE DEF T
<1>3. T = Nat
  <2>1. T \in SUBSET Nat
    BY DEF T
  <2> QED BY <1>1, <1>2, <2>1, SetInduction
<1>s. width \in Nat
  BY Sizes
<1>4. PICK after : after = CHOOSE f : Whole(f, width)
  OBVIOUS
<1>5. Whole(after, width)
  <2>1. \E f : Whole(f, width)
    BY <1>s, <1>3 DEF T
  <2> HIDE DEF Whole
  <2> QED BY <1>4, <2>1
<1>6. AreEmitted(after, w, value, width, mode)
  <2>1. after[0] = w
    BY <1>5, <1>s
  <2>2. ASSUME NEW j \in 1..width PROVE after[j] = Turn(after, j)
    <3>1. j \in 0..width /\ j # 0
      BY <1>s
    <3> HIDE DEF Turn
    <3> QED BY <1>5, <3>1
  <2> QED BY <2>1, <2>2 DEF AreEmitted
<1>7. EmitDigits(w, value, width, mode) = after[width]
  BY <1>4 DEF EmitDigits, DigitEmitted
<1> QED BY <1>6, <1>7

\* One turn of the loop that reads the digits of %ud, and one of %uT's.
DigitRead(before, mode) ==
  LET read  == ReadBits(before.w, DigitWidth(mode))
      digit == read.value - DigitBase(mode)
  IN IF before.w.overrun THEN before
     ELSE [w |-> IF digit \in 0..9 THEN read.w ELSE Fail(read.w, "range"),
           value |-> before.value * 10 + digit]

OctetRead(before, mask, stop) ==
  LET read == ReadBits(before.w, BYTE_BITS)
  IN IF before.ended \/ before.w.overrun THEN before
     ELSE [w |-> read.w, value |-> before.value * Base + read.value,
           ended |-> Masked(read.value, mask) = stop]

\* The contexts and values between the digits that %ud reads.
AreDigitsRead(f, w, width, mode) ==
  /\ f[0] = [w |-> w, value |-> 0]
  /\ \A j \in 1..width : f[j] = DigitRead(f[j - 1], mode)

LEMMA DigitsRead ==
  ASSUME NEW w, NEW width \in Nat, NEW mode
  PROVE  \E f : AreDigitsRead(f, w, width, mode) /\ ReadDigits(w, width, mode) = f[width]
<1> DEFINE Turn(f, j) == DigitRead(f[j - 1], mode)
           Whole(f, m) ==
             f = [j \in 0..m |-> IF j = 0 THEN [w |-> w, value |-> 0] ELSE Turn(f, j)]
           T == {m \in Nat : \E f : Whole(f, m)}
<1>1. 0 \in T
  <2>1. PICK f : f = [j \in 0..0 |-> [w |-> w, value |-> 0]]
    OBVIOUS
  <2>2. f = [j \in 0..0 |-> IF j = 0 THEN [w |-> w, value |-> 0] ELSE Turn(f, j)]
    BY <2>1
  <2> QED BY <2>2
<1>2. ASSUME NEW m \in T PROVE m + 1 \in T
  <2>1. PICK f : Whole(f, m)
    BY <1>2
  <2>2. PICK g :
          g = [j \in 0..m + 1 |-> IF j = 0 THEN [w |-> w, value |-> 0] ELSE Turn(f, j)]
    OBVIOUS
  <2>3. m \in Nat /\ \A j \in 0..m : g[j] = f[j]
    <3> HIDE DEF Turn
    <3>1. m \in Nat
      OBVIOUS
    <3>2. ASSUME NEW j \in 0..m PROVE g[j] = f[j]
      <4>1. j \in 0..m + 1
        BY <3>1
      <4>2. PICK t : t = Turn(f, j)
        OBVIOUS
      <4>3. f[j] = IF j = 0 THEN [w |-> w, value |-> 0] ELSE t
        BY <2>1, <4>2
      <4>4. g[j] = IF j = 0 THEN [w |-> w, value |-> 0] ELSE t
        BY <2>2, <4>1, <4>2
      <4> QED BY <4>3, <4>4
    <3> QED BY <3>1, <3>2
  <2>4. ASSUME NEW j \in 1..m + 1 PROVE Turn(g, j) = Turn(f, j)
    <3>1. j - 1 \in 0..m
      BY <2>3
    <3>2. g[j - 1] = f[j - 1]
      BY <2>3, <3>1
    <3> QED BY <3>2
  <2>5. Whole(g, m + 1)
    <3>1. \A j \in 0..m + 1 : j = 0 \/ j \in 1..m + 1
      BY <2>3
    <3> HIDE DEF Turn
    <3> QED BY <2>2, <2>4, <3>1
  <2> HIDE DEF Whole
  <2> QED BY <2>3, <2>5
<1> HIDE DEF T
<1>3. T = Nat
  <2>1. T \in SUBSET Nat
    BY DEF T
  <2> QED BY <1>1, <1>2, <2>1, SetInduction
<1>s. width \in Nat
  BY Sizes
<1>4. PICK after : after = CHOOSE f : Whole(f, width)
  OBVIOUS
<1>5. Whole(after, width)
  <2>1. \E f : Whole(f, width)
    BY <1>s, <1>3 DEF T
  <2> HIDE DEF Whole
  <2> QED BY <1>4, <2>1
<1>6. AreDigitsRead(after, w, width, mode)
  <2>1. after[0] = [w |-> w, value |-> 0]
    BY <1>5, <1>s
  <2>2. ASSUME NEW j \in 1..width PROVE after[j] = Turn(after, j)
    <3>1. j \in 0..width /\ j # 0
      BY <1>s
    <3> HIDE DEF Turn
    <3> QED BY <1>5, <3>1
  <2> QED BY <2>1, <2>2 DEF AreDigitsRead
<1>7. ReadDigits(w, width, mode) = after[width]
  BY <1>4 DEF ReadDigits, DigitRead
<1> QED BY <1>6, <1>7

\* The contexts and values between the octets that %uT reads.
AreOctetsRead(f, w, mask, stop) ==
  /\ f[0] = [w |-> w, value |-> 0, ended |-> FALSE]
  /\ \A j \in 1..WORD_BYTES : f[j] = OctetRead(f[j - 1], mask, stop)

LEMMA OctetsRead ==
  ASSUME NEW w, NEW mask, NEW stop
  PROVE  \E f : AreOctetsRead(f, w, mask, stop) /\ ReadTerminated(w, mask, stop) =
                      IF \/ f[WORD_BYTES - 1].ended \/ f[WORD_BYTES - 1].w.overrun
                         \/ f[WORD_BYTES].ended
                      THEN f[WORD_BYTES] ELSE [f[WORD_BYTES] EXCEPT !.w = Fail(@, "range")]
<1> DEFINE Turn(f, j) == OctetRead(f[j - 1], mask, stop)
           Whole(f, m) ==
             f = [j \in 0..m |-> IF j = 0 THEN [w |-> w, value |-> 0, ended |-> FALSE]
                              ELSE Turn(f, j)]
           T == {m \in Nat : \E f : Whole(f, m)}
<1>1. 0 \in T
  <2>1. PICK f : f = [j \in 0..0 |-> [w |-> w, value |-> 0, ended |-> FALSE]]
    OBVIOUS
  <2>2. f = [j \in 0..0 |-> IF j = 0 THEN [w |-> w, value |-> 0, ended |-> FALSE]
                              ELSE Turn(f, j)]
    BY <2>1
  <2> QED BY <2>2
<1>2. ASSUME NEW m \in T PROVE m + 1 \in T
  <2>1. PICK f : Whole(f, m)
    BY <1>2
  <2>2. PICK g :
          g = [j \in 0..m + 1 |-> IF j = 0 THEN [w |-> w, value |-> 0, ended |-> FALSE]
                              ELSE Turn(f, j)]
    OBVIOUS
  <2>3. m \in Nat /\ \A j \in 0..m : g[j] = f[j]
    <3> HIDE DEF Turn
    <3>1. m \in Nat
      OBVIOUS
    <3>2. ASSUME NEW j \in 0..m PROVE g[j] = f[j]
      <4>1. j \in 0..m + 1
        BY <3>1
      <4>2. PICK t : t = Turn(f, j)
        OBVIOUS
      <4>3. f[j] = IF j = 0 THEN [w |-> w, value |-> 0, ended |-> FALSE] ELSE t
        BY <2>1, <4>2
      <4>4. g[j] = IF j = 0 THEN [w |-> w, value |-> 0, ended |-> FALSE] ELSE t
        BY <2>2, <4>1, <4>2
      <4> QED BY <4>3, <4>4
    <3> QED BY <3>1, <3>2
  <2>4. ASSUME NEW j \in 1..m + 1 PROVE Turn(g, j) = Turn(f, j)
    <3>1. j - 1 \in 0..m
      BY <2>3
    <3>2. g[j - 1] = f[j - 1]
      BY <2>3, <3>1
    <3> QED BY <3>2
  <2>5. Whole(g, m + 1)
    <3>1. \A j \in 0..m + 1 : j = 0 \/ j \in 1..m + 1
      BY <2>3
    <3> HIDE DEF Turn
    <3> QED BY <2>2, <2>4, <3>1
  <2> HIDE DEF Whole
  <2> QED BY <2>3, <2>5
<1> HIDE DEF T
<1>3. T = Nat
  <2>1. T \in SUBSET Nat
    BY DEF T
  <2> QED BY <1>1, <1>2, <2>1, SetInduction
<1>s. WORD_BYTES \in Nat
  BY Sizes
<1>4. PICK after : after = CHOOSE f : Whole(f, WORD_BYTES)
  OBVIOUS
<1>5. Whole(after, WORD_BYTES)
  <2>1. \E f : Whole(f, WORD_BYTES)
    BY <1>s, <1>3 DEF T
  <2> HIDE DEF Whole
  <2> QED BY <1>4, <2>1
<1>6. AreOctetsRead(after, w, mask, stop)
  <2>1. after[0] = [w |-> w, value |-> 0, ended |-> FALSE]
    BY <1>5, <1>s
  <2>2. ASSUME NEW j \in 1..WORD_BYTES PROVE after[j] = Turn(after, j)
    <3>1. j \in 0..WORD_BYTES /\ j # 0
      BY <1>s
    <3> HIDE DEF Turn
    <3> QED BY <1>5, <3>1
  <2> QED BY <2>1, <2>2 DEF AreOctetsRead
<1>7. ReadTerminated(w, mask, stop) =
                      IF \/ after[WORD_BYTES - 1].ended \/ after[WORD_BYTES - 1].w.overrun
                         \/ after[WORD_BYTES].ended
                      THEN after[WORD_BYTES] ELSE [after[WORD_BYTES] EXCEPT !.w = Fail(@, "range")]
  BY <1>4 DEF ReadTerminated, OctetRead
<1> QED BY <1>6, <1>7

\* record_decimal()
LEMMA EmitDigitsKeeps ==
  ASSUME NEW old, NEW h, NEW w, Keeps(old, w, h), NEW value, NEW width \in Nat, NEW mode
  PROVE  Keeps(old, EmitDigits(w, value, width, mode), h)
<1>1. PICK f : AreEmitted(f, w, value, width, mode) /\ EmitDigits(w, value, width, mode) = f[width]
  BY EmittedDigits
<1> DEFINE T == {j \in Nat : j <= width => Keeps(old, f[j], h)}
<1>2. 0 \in T
  BY <1>1 DEF AreEmitted
<1>3. ASSUME NEW j \in T PROVE j + 1 \in T
  <2>1. CASE j + 1 <= width
    <3>1. j + 1 \in 1..width /\ (j + 1) - 1 = j /\ Keeps(old, f[j], h)
      BY <2>1
    <3>2. f[j + 1] = DigitEmitted(f[j], j + 1, value, width, mode)
      BY <1>1, <3>1 DEF AreEmitted
    <3>3. Keeps(old, f[j + 1], h)
      BY <3>1, <3>2, EmitBitsKeeps DEF DigitEmitted
    <3> QED BY <3>3
  <2> QED BY <2>1
<1> HIDE DEF T
<1>4. width \in T
  <2>1. T \in SUBSET Nat
    BY DEF T
  <2> QED BY <1>2, <1>3, <2>1, SetInduction
<1> QED BY <1>1, <1>4 DEF T

LEMMA ReadDigitsKeeps ==
  ASSUME NEW old, NEW h, NEW w, Keeps(old, w, h), NEW width \in Nat, NEW mode
  PROVE  Keeps(old, ReadDigits(w, width, mode).w, h)
<1>1. PICK f : AreDigitsRead(f, w, width, mode) /\ ReadDigits(w, width, mode) = f[width]
  BY DigitsRead
<1> DEFINE T == {j \in Nat : j <= width => Keeps(old, f[j].w, h)}
<1>2. 0 \in T
  <2>1. f[0].w = w
    BY <1>1 DEF AreDigitsRead
  <2> QED BY <2>1
<1>3. ASSUME NEW j \in T PROVE j + 1 \in T
  <2>1. CASE j + 1 <= width
    <3>1. j + 1 \in 1..width /\ (j + 1) - 1 = j /\ Keeps(old, f[j].w, h)
      BY <2>1
    <3>2. PICK before : before = f[j]
      OBVIOUS
    <3>3. PICK read : read = ReadBits(before.w, DigitWidth(mode))
      OBVIOUS
    <3>4. f[j + 1] = DigitRead(before, mode)
      BY <1>1, <3>1, <3>2 DEF AreDigitsRead
    <3>5. DigitRead(before, mode).w \in {before.w, read.w, Fail(read.w, "range")}
      BY <3>3 DEF DigitRead
    <3>6. Keeps(old, before.w, h) /\ Keeps(old, read.w, h) /\ Keeps(old, Fail(read.w, "range"), h)
      BY <3>1, <3>2, <3>3, ReadBitsKeeps, FailKeeps
    <3>7. Keeps(old, f[j + 1].w, h)
      BY <3>4, <3>5, <3>6
    <3> QED BY <3>7
  <2> QED BY <2>1
<1> HIDE DEF T
<1>4. width \in T
  <2>1. T \in SUBSET Nat
    BY DEF T
  <2> QED BY <1>2, <1>3, <2>1, SetInduction
<1> QED BY <1>1, <1>4 DEF T

\* record_terminated()
LEMMA EmitTerminatedKeeps ==
  ASSUME NEW old, NEW h, NEW w, Keeps(old, w, h), NEW value, NEW n, NEW mask, NEW stop
  PROVE  Keeps(old, EmitTerminated(w, value, n, mask, stop), h)
BY FailKeeps, EmitKeeps DEF EmitTerminated

LEMMA ReadTerminatedKeeps ==
  ASSUME NEW old, NEW h, NEW w, Keeps(old, w, h), NEW mask, NEW stop
  PROVE  Keeps(old, ReadTerminated(w, mask, stop).w, h)
<1>1. PICK f : /\ AreOctetsRead(f, w, mask, stop)
               /\ ReadTerminated(w, mask, stop) =
                    IF \/ f[WORD_BYTES - 1].ended \/ f[WORD_BYTES - 1].w.overrun
                         \/ f[WORD_BYTES].ended
                    THEN f[WORD_BYTES] ELSE [f[WORD_BYTES] EXCEPT !.w = Fail(@, "range")]
  BY OctetsRead
<1> DEFINE T == {j \in Nat : j <= WORD_BYTES => "w" \in DOMAIN f[j] /\ Keeps(old, f[j].w, h)}
<1>2. 0 \in T
  <2>1. f[0] = [w |-> w, value |-> 0, ended |-> FALSE]
    BY <1>1 DEF AreOctetsRead
  <2> QED BY <2>1
<1>3. ASSUME NEW j \in T PROVE j + 1 \in T
  <2>1. CASE j + 1 <= WORD_BYTES
    <3>1. j + 1 \in 1..WORD_BYTES /\ (j + 1) - 1 = j /\ "w" \in DOMAIN f[j] /\ Keeps(old, f[j].w, h)
      BY <2>1, Sizes
    <3>2. PICK before : before = f[j]
      OBVIOUS
    <3>3. PICK read : read = ReadBits(before.w, BYTE_BITS)
      OBVIOUS
    <3>4. f[j + 1] = OctetRead(before, mask, stop)
      BY <1>1, <3>1, <3>2 DEF AreOctetsRead
    <3>5. OctetRead(before, mask, stop).w \in {before.w, read.w}
      BY <3>3 DEF OctetRead
    <3>6. Keeps(old, before.w, h) /\ Keeps(old, read.w, h)
      BY <3>1, <3>2, <3>3, ReadBitsKeeps
    <3>7. "w" \in DOMAIN OctetRead(before, mask, stop)
      BY <3>1, <3>2 DEF OctetRead
    <3>8. Keeps(old, f[j + 1].w, h) /\ "w" \in DOMAIN f[j + 1]
      BY <3>4, <3>5, <3>6, <3>7
    <3> QED BY <3>8
  <2> QED BY <2>1
<1> HIDE DEF T
<1>4. WORD_BYTES \in T
  <2>1. T \in SUBSET Nat
    BY DEF T
  <2> QED BY <1>2, <1>3, <2>1, SetInduction, Sizes
<1>5. "w" \in DOMAIN f[WORD_BYTES] /\ Keeps(old, f[WORD_BYTES].w, h)
  BY <1>4, Sizes DEF T
<1>6. PICK last : last = f[WORD_BYTES]
  OBVIOUS
<1>7. ReadTerminated(w, mask, stop).w \in {last.w, Fail(last.w, "range")}
  BY <1>1, <1>5, <1>6
<1> QED BY <1>5, <1>6, <1>7, FailKeeps

\* record_crc_finish()
LEMMA FinishKeeps ==
  ASSUME NEW old, NEW h, NEW w, Keeps(old, w, h), NEW end, NEW number
  PROVE  Keeps(old, Finish(w, end, number).w, h)
<1> DEFINE data == IF Encoding THEN w.out ELSE call.input
<1>1. PICK actual : actual = Checksum(data, w.crc.from, end, w.crc.at, w.crc.algorithm)
  OBVIOUS
<1>2. PICK done : done = [w EXCEPT !.crc = NoCrc]
  OBVIOUS
<1>3. PICK out : out = Patched(done.out, w.crc.at, actual)
  OBVIOUS
<1>4. /\ Keeps(old, done, h) /\ Keeps(old, [done EXCEPT !.out = out], h)
      /\ Keeps(old, Fail(done, "checksum"), h)
  BY <1>2, UpdateKeeps, FailKeeps
<1>5. Finish(w, end, number).w \in {done, [done EXCEPT !.out = out], Fail(done, "checksum")}
  BY <1>1, <1>2, <1>3 DEF Finish
<1> QED BY <1>4, <1>5

-----------------------------------------------------------------------------
(* Handlers                                                                  *)

\* The steps of the interpreter that execute a token: those that go on to the next,
\* those of a conditional, and the one that begins a sequence.
Plainly ==
  \/ NameUnknown \/ PushLiteral \/ LoadField \/ StoreField \/ MeasureField \/ ClearField
  \/ NoBranch
  \/ Combine \/ Negate \/ Select \/ Query \/ Require \/ Swap
  \/ RequireAligned \/ EmitField \/ ReadField \/ EmitSdnv \/ ReadSdnv \/ CborHead
  \/ Decimal \/ Terminated \/ ByteAt \/ SliceField
  \/ QueryList \/ PlaceCrc \/ FinishCrc
Handling == Plainly \/ TestCondition \/ SkipElse \/ BeginRows

\* A token has been executed, and h operands are on the stack.
Executed(h) == \E w : Keeps(wi, w, h) /\ wi' = [w EXCEPT !.pc = w.pc + 1]

\* The operands behind a token before which there are h.
Balance(op, h, g) == h \in Nat /\ g = h - Takes(op) + Puts(op)

\* By what the operation takes and puts.
LEMMA Balances ==
  ASSUME NEW op, NEW h, NEW g, Balance(op, h, g)
  PROVE  /\ h \in Nat /\ h \in Int /\ h - 1 \in Int /\ h - 2 \in Int /\ h - 3 \in Int /\ h - 4 \in Int
         /\ Takes(op) = 0 /\ Puts(op) = 0 => g = h
         /\ Takes(op) = 0 /\ Puts(op) = 1 => g = h + 1
         /\ Takes(op) = 1 /\ Puts(op) = 0 => g = h - 1
         /\ Takes(op) = 1 /\ Puts(op) = 1 => g = (h - 1) + 1
         /\ Takes(op) = 2 /\ Puts(op) = 0 => g = h - 2
         /\ Takes(op) = 2 /\ Puts(op) = 1 => g = (h - 2) + 1
         /\ Takes(op) = 3 /\ Puts(op) = 0 => g = h - 3
         /\ Takes(op) = 3 /\ Puts(op) = 1 => g = (h - 3) + 1
         /\ Takes(op) = 4 /\ Puts(op) = 1 => g = (h - 4) + 1
<1>1. PICK takes, puts : takes = Takes(op) /\ puts = Puts(op)
  OBVIOUS
<1>2. h \in Nat /\ g = h - takes + puts
  BY <1>1 DEF Balance
<1>3. takes = 0 /\ puts = 0 => g = h
  BY <1>2
<1>4. takes = 0 /\ puts = 1 => g = h + 1
  BY <1>2
<1>5. takes = 1 /\ puts = 0 => g = h - 1
  BY <1>2
<1>6. takes = 1 /\ puts = 1 => g = (h - 1) + 1
  BY <1>2
<1>7. takes = 2 /\ puts = 0 => g = h - 2
  BY <1>2
<1>8. takes = 2 /\ puts = 1 => g = (h - 2) + 1
  BY <1>2
<1>9. takes = 3 /\ puts = 0 => g = h - 3
  BY <1>2
<1>10. takes = 3 /\ puts = 1 => g = (h - 3) + 1
  BY <1>2
<1>11. takes = 4 /\ puts = 1 => g = (h - 4) + 1
  BY <1>2
<1>12. h \in Nat /\ h \in Int /\ h - 1 \in Int /\ h - 2 \in Int /\ h - 3 \in Int /\ h - 4 \in Int
  BY <1>2
<1> HIDE <1>2
<1> QED BY <1>1, <1>3, <1>4, <1>5, <1>6, <1>7, <1>8, <1>9, <1>10, <1>11, <1>12

LEMMA DoExecutes ==
  ASSUME NEW h, NEW w, Keeps(wi, w, h), Do(w)
  PROVE  Executed(h)
BY DEF Do, Executed

LEMMA DoAndSetExecutes ==
  ASSUME NEW h, NEW w, Keeps(wi, w, h), NEW field, NEW value, DoAndSet(w, field, value)
  PROVE  Executed(h)
BY DEF DoAndSet, Executed

\* Names, literals, fields and conditionals.
LEMMA FieldsExecute ==
  ASSUME NEW h, NEW g, Balance(Current.op, h, g), Keeps(wi, wi, h),
         \/ NameUnknown \/ PushLiteral \/ LoadField \/ StoreField \/ MeasureField \/ ClearField
         \/ NoBranch
  PROVE  Executed(g)
<1>1. CASE NameUnknown
  BY <1>1, FailKeeps, DoExecutes DEF NameUnknown
<1>2. CASE PushLiteral
  <2>1. Current.op = "{" /\ Do(Push(wi, Current.n))
    BY <1>2 DEF PushLiteral, Doing
  <2>2. h \in Int /\ g = h + 1
    <3>1. Takes(Current.op) = 0 /\ Puts(Current.op) = 1
      BY <2>1 DEF Takes, Puts
    <3> QED BY <3>1, Balances
  <2> QED BY <2>1, <2>2, PushKeeps, DoExecutes
<1>3. CASE LoadField
  <2>1. Current.op = "g" /\ Do(Push(wi, Value.number))
    BY <1>3 DEF LoadField, DoingNamed, Doing
  <2>2. h \in Int /\ g = h + 1
    <3>1. Takes(Current.op) = 0 /\ Puts(Current.op) = 1
      BY <2>1 DEF Takes, Puts
    <3> QED BY <3>1, Balances
  <2> QED BY <2>1, <2>2, PushKeeps, DoExecutes
<1>4. CASE StoreField
  <2>1. Current.op = "P"
    BY <1>4 DEF StoreField, DoingNamed, Doing
  <2>2. h \in Nat /\ g = h - 1
    <3>1. Takes(Current.op) = 1 /\ Puts(Current.op) = 0
      BY <2>1 DEF Takes, Puts
    <3> QED BY <3>1, Balances
  <2>3. Keeps(wi, Popped(wi, 1), g)
    BY <2>2, PoppedKeeps
  <2>4. Do(Popped(wi, 1)) \/ DoAndSet(Popped(wi, 1), "number", Operand(wi, 1))
    BY <1>4 DEF StoreField
  <2> QED BY <2>3, <2>4, DoExecutes, DoAndSetExecutes
<1>5. CASE MeasureField
  <2>1. Current.op \in {"z", "k"} /\ \E n : Do(Push(wi, n))
    BY <1>5 DEF MeasureField, DoingNamed, Doing
  <2>2. h \in Int /\ g = h + 1
    <3>1. Takes(Current.op) = 0 /\ Puts(Current.op) = 1
      BY <2>1 DEF Takes, Puts
    <3> QED BY <3>1, Balances
  <2> QED BY <2>1, <2>2, PushKeeps, DoExecutes
<1>6. CASE ClearField
  <2>1. Current.op = "uZ" /\ wi' = [wi EXCEPT !.pc = wi.pc + 1]
    BY <1>6 DEF ClearField, DoingNamed, Doing
  <2>2. g = h
    <3>1. Takes(Current.op) = 0 /\ Puts(Current.op) = 0
      BY <2>1 DEF Takes, Puts
    <3> QED BY <3>1, Balances
  <2> QED BY <2>1, <2>2 DEF Executed
<1>7. CASE NoBranch
  <2>1. Current.op \in {"?", ";"} /\ Do(wi)
    BY <1>7 DEF NoBranch, Doing
  <2>2. g = h
    <3>1. Takes(Current.op) = 0 /\ Puts(Current.op) = 0
      BY <2>1 DEF Takes, Puts
    <3> QED BY <3>1, Balances
  <2> QED BY <2>1, <2>2, DoExecutes
<1> QED BY <1>1, <1>2, <1>3, <1>4, <1>5, <1>6, <1>7

\* Operators, queries and requirements.
LEMMA ArithmeticExecutes ==
  ASSUME NEW h, NEW g, Balance(Current.op, h, g), Keeps(wi, wi, h),
         Combine \/ Negate \/ Select \/ Query \/ Require \/ Swap
  PROVE  Executed(g)
<1>1. CASE Combine
  <2>1. Current.op \in {Binaries[b] : b \in DOMAIN Binaries}
    BY <1>1 DEF Combine, Doing
  <2>2. Current.op \in {"u+", "u-", "u*", "u/", "um", "u&", "u|", "u^", "u[", "u]", "u=", "u~",
                        "u<", "ul", "u>", "ug", "uA", "uO"}
    BY <2>1, BinaryOperators
  <2>3. h \in Nat /\ h - 2 \in Int /\ g = (h - 2) + 1
    <3>1. Takes(Current.op) = 2 /\ Puts(Current.op) = 1
      BY <2>2 DEF Takes, Puts
    <3> QED BY <3>1, Balances
  <2>4. PICK w : w = Popped(wi, 2)
    OBVIOUS
  <2>5. Keeps(wi, w, h - 2)
    BY <2>3, <2>4, PoppedKeeps
  <2>6. PICK v : /\ Do(v)
                 /\ \/ v = w /\ w.overrun
                    \/ v = Fail(w, "range")
                    \/ v = Push(w, Combined(Current.op, Operand(wi, 2), Operand(wi, 1)))
    BY <1>1, <2>4 DEF Combine
  <2>7. Keeps(wi, v, g)
    BY <2>3, <2>5, <2>6, FailKeeps, PushKeeps, StoppedKeeps
  <2> QED BY <2>6, <2>7, DoExecutes
<1>2. CASE Negate
  <2>1. Current.op = "u!" /\ Do(Push(Popped(wi, 1), Bool(Operand(wi, 1) = 0)))
    BY <1>2 DEF Negate, Doing
  <2>2. h \in Nat /\ h - 1 \in Int /\ g = (h - 1) + 1
    <3>1. Takes(Current.op) = 1 /\ Puts(Current.op) = 1
      BY <2>1 DEF Takes, Puts
    <3> QED BY <3>1, Balances
  <2>3. Keeps(wi, Popped(wi, 1), h - 1)
    BY <2>2, PoppedKeeps
  <2> QED BY <2>1, <2>2, <2>3, PushKeeps, DoExecutes
<1>3. CASE Select
  <2>1. Current.op = "u?" /\ \E n : Do(Push(Popped(wi, 3), n))
    BY <1>3 DEF Select, Doing
  <2>2. h \in Nat /\ h - 3 \in Int /\ g = (h - 3) + 1
    <3>1. Takes(Current.op) = 3 /\ Puts(Current.op) = 1
      BY <2>1 DEF Takes, Puts
    <3> QED BY <3>1, Balances
  <2>3. Keeps(wi, Popped(wi, 3), h - 3)
    BY <2>2, PoppedKeeps
  <2> QED BY <2>1, <2>2, <2>3, PushKeeps, DoExecutes
<1>4. CASE Query
  <2>1. Current.op \in {"ur", "up", "uo", "un", "uk"}
    BY <1>4 DEF Query, Doing
  <2>2. h \in Int /\ g = h + 1
    <3>1. Takes(Current.op) = 0 /\ Puts(Current.op) = 1
      BY <2>1 DEF Takes, Puts
    <3> QED BY <3>1, Balances
  <2>3. PICK v : Do(v) /\ (v = Fail(wi, "truncated") \/ \E n : v = Push(wi, n))
    BY <1>4, <2>1 DEF Query
  <2>4. Keeps(wi, v, g)
    BY <2>2, <2>3, FailKeeps, PushKeeps
  <2> QED BY <2>3, <2>4, DoExecutes
<1>5. CASE Require
  <2>1. Current.op = "ua"
    BY <1>5 DEF Require, Doing
  <2>2. h \in Nat /\ g = h - 2
    <3>1. Takes(Current.op) = 2 /\ Puts(Current.op) = 0
      BY <2>1 DEF Takes, Puts
    <3> QED BY <3>1, Balances
  <2>3. PICK w : w = Popped(wi, 2)
    OBVIOUS
  <2>4. Keeps(wi, w, g)
    BY <2>2, <2>3, PoppedKeeps
  <2>5. PICK v : Do(v) /\ (v = w \/ \E s : v = Fail(w, s))
    BY <1>5, <2>3 DEF Require
  <2> QED BY <2>4, <2>5, FailKeeps, DoExecutes
<1>6. CASE Swap
  <2>1. Current.op = "us"
    BY <1>6 DEF Swap, Doing
  <2>2. h \in Nat /\ h - 2 \in Int /\ g = (h - 2) + 1
    <3>1. Takes(Current.op) = 2 /\ Puts(Current.op) = 1
      BY <2>1 DEF Takes, Puts
    <3> QED BY <3>1, Balances
  <2>3. PICK w : w = Popped(wi, 2)
    OBVIOUS
  <2>4. Keeps(wi, w, h - 2)
    BY <2>2, <2>3, PoppedKeeps
  <2>5. PICK v : Do(v) /\ (v = Fail(w, "range") \/ \E n : v = Push(w, n))
    BY <1>6, <2>3 DEF Swap
  <2>6. Keeps(wi, v, g)
    BY <2>2, <2>4, <2>5, FailKeeps, PushKeeps
  <2> QED BY <2>5, <2>6, DoExecutes
<1> QED BY <1>1, <1>2, <1>3, <1>4, <1>5, <1>6

\* Numbers on the wire.
LEMMA NumbersExecute ==
  ASSUME NEW h, NEW g, Balance(Current.op, h, g), Keeps(wi, wi, h),
         RequireAligned \/ EmitField \/ ReadField \/ EmitSdnv \/ ReadSdnv \/ CborHead
  PROVE  Executed(g)
<1>1. CASE RequireAligned
  <2>1. Current.op = "uf" /\ Do(Aligned(wi))
    BY <1>1 DEF RequireAligned, Doing
  <2>2. g = h
    <3>1. Takes(Current.op) = 0 /\ Puts(Current.op) = 0
      BY <2>1 DEF Takes, Puts
    <3> QED BY <3>1, Balances
  <2> QED BY <2>1, <2>2, AlignedKeeps, DoExecutes
<1>2. CASE EmitField
  <2>1. Current.op = "i"
    BY <1>2 DEF EmitField, Doing
  <2>2. h \in Nat /\ g = h - 2
    <3>1. Takes(Current.op) = 2 /\ Puts(Current.op) = 0
      BY <2>1 DEF Takes, Puts
    <3> QED BY <3>1, Balances
  <2>3. PICK w : w = Popped(wi, 2)
    OBVIOUS
  <2>4. Keeps(wi, w, g)
    BY <2>2, <2>3, PoppedKeeps
  <2>5. Do(EmitBits(w, Operand(wi, 2), Operand(wi, 1))) \/ Do(Fail(w, "schema"))
    BY <1>2, <2>3 DEF EmitField
  <2> QED BY <2>4, <2>5, EmitBitsKeeps, FailKeeps, DoExecutes
<1>3. CASE ReadField
  <2>1. Current.op = "j"
    BY <1>3 DEF ReadField, Doing
  <2>2. h \in Nat /\ h - 1 \in Int /\ g = (h - 1) + 1
    <3>1. Takes(Current.op) = 1 /\ Puts(Current.op) = 1
      BY <2>1 DEF Takes, Puts
    <3> QED BY <3>1, Balances
  <2>3. PICK w : w = Popped(wi, 1)
    OBVIOUS
  <2>4. PICK read : read = ReadBits(w, Operand(wi, 1))
    OBVIOUS
  <2>5. Keeps(wi, w, h - 1) /\ Keeps(wi, read.w, h - 1)
    BY <2>2, <2>3, <2>4, PoppedKeeps, ReadBitsKeeps
  <2>6. PICK v : Do(v) /\ v \in {Fail(w, "schema"), Push(read.w, read.value)}
    BY <1>3, <2>3, <2>4 DEF ReadField
  <2>7. Keeps(wi, v, g)
    BY <2>2, <2>5, <2>6, FailKeeps, PushKeeps
  <2> QED BY <2>6, <2>7, DoExecutes
<1>4. CASE EmitSdnv
  <2>1. Current.op = "d"
    BY <1>4 DEF EmitSdnv, Doing
  <2>2. h \in Nat /\ g = h - 1
    <3>1. Takes(Current.op) = 1 /\ Puts(Current.op) = 0
      BY <2>1 DEF Takes, Puts
    <3> QED BY <3>1, Balances
  <2>3. \E octets : Do(Emit(Popped(wi, 1), octets))
    BY <1>4 DEF EmitSdnv
  <2> QED BY <2>2, <2>3, PoppedKeeps, EmitKeeps, DoExecutes
<1>5. CASE ReadSdnv
  <2>1. Current.op = "D"
    BY <1>5 DEF ReadSdnv, Doing
  <2>2. h \in Int /\ g = h + 1
    <3>1. Takes(Current.op) = 0 /\ Puts(Current.op) = 1
      BY <2>1 DEF Takes, Puts
    <3> QED BY <3>1, Balances
  <2>3. PICK pos, v : /\ Do(v)
                      /\ \/ v = [[wi EXCEPT !.pos = pos] EXCEPT !.overrun = TRUE]
                         \/ \E n : v = Push([wi EXCEPT !.pos = pos], n)
    BY <1>5 DEF ReadSdnv
  <2>4. PICK w : w = [wi EXCEPT !.pos = pos]
    OBVIOUS
  <2>5. Keeps(wi, w, h)
    BY <2>4, UpdateKeeps
  <2>6. Keeps(wi, v, g)
    <3>1. Keeps(wi, [w EXCEPT !.overrun = TRUE], g)
      BY <2>5, UpdateKeeps
    <3>2. \A n : Keeps(wi, Push(w, n), g)
      BY <2>2, <2>5, PushKeeps
    <3> QED BY <2>3, <2>4, <3>1, <3>2
  <2> QED BY <2>3, <2>6, DoExecutes
<1>6. CASE CborHead
  <2>1. Current.op = "ub"
    BY <1>6 DEF CborHead, Doing
  <2>2. h \in Nat /\ h - 2 \in Int /\ g = (h - 2) + 1
    <3>1. Takes(Current.op) = 2 /\ Puts(Current.op) = 1
      BY <2>1 DEF Takes, Puts
    <3> QED BY <3>1, Balances
  <2>3. PICK w : w = Popped(wi, 2)
    OBVIOUS
  <2>4. PICK head : head = Cbor(w, Operand(wi, 1), Operand(wi, 2))
    OBVIOUS
  <2>5. Keeps(wi, w, h - 2) /\ Keeps(wi, head.w, h - 2)
    BY <2>2, <2>3, <2>4, PoppedKeeps, CborKeeps
  <2>6. PICK v : Do(v) /\ v \in {Fail(w, "schema"), Push(head.w, head.value)}
    BY <1>6, <2>3, <2>4 DEF CborHead
  <2>7. Keeps(wi, v, g)
    BY <2>2, <2>5, <2>6, FailKeeps, PushKeeps
  <2> QED BY <2>6, <2>7, DoExecutes
<1> QED BY <1>1, <1>2, <1>3, <1>4, <1>5, <1>6

\* The most digits are a number: a word has room for one.
LEMMA DigitsCounted == MaxDigits \in Nat
BY DigitsAssumption, Widths DEF MaxDigits

\* Digits, and octets with a terminator.
LEMMA TextExecutes ==
  ASSUME NEW h, NEW g, Balance(Current.op, h, g), Keeps(wi, wi, h), Decimal \/ Terminated
  PROVE  Executed(g)
<1>1. CASE Decimal
  <2>a. Current.op = "ud"
    BY <1>1 DEF Decimal, Doing
  <2>b. h \in Nat /\ h - 3 \in Int /\ g = (h - 3) + 1
    <3>1. Takes(Current.op) = 3 /\ Puts(Current.op) = 1
      BY <2>a DEF Takes, Puts
    <3> QED BY <3>1, Balances
  <2>1. PICK w : w = Popped(wi, 3)
    OBVIOUS
  <2>2. PICK mode, width, value :
          mode = Operand(wi, 1) /\ width = Operand(wi, 2) /\ value = Operand(wi, 3)
    OBVIOUS
  <2>3. PICK read : read = ReadDigits(w, width, mode)
    OBVIOUS
  <2>4. Keeps(wi, w, h - 3)
    BY <2>b, <2>1, PoppedKeeps
  <2>5. CASE width \in 1 .. MaxDigits
    <3>1. width \in Nat
      BY <2>5, DigitsCounted
    <3>2. PICK emitted : emitted = EmitDigits(w, value, width, mode)
      OBVIOUS
    <3>3. Keeps(wi, read.w, h - 3) /\ Keeps(wi, emitted, h - 3)
      BY <2>3, <2>4, <3>1, <3>2, ReadDigitsKeeps, EmitDigitsKeeps
    <3>4. PICK v : Do(v) /\ v \in {Fail(w, "range"), Push(read.w, read.value), Push(emitted, value)}
      BY <1>1, <2>1, <2>2, <2>3, <3>2 DEF Decimal
    <3>5. Keeps(wi, v, g)
      BY <2>b, <2>4, <3>3, <3>4, FailKeeps, PushKeeps
    <3> QED BY <3>4, <3>5, DoExecutes
  <2>6. CASE width \notin 1 .. MaxDigits
    <3>1. Do(Fail(w, "range"))
      BY <1>1, <2>1, <2>2, <2>6 DEF Decimal
    <3> QED BY <2>4, <3>1, FailKeeps, DoExecutes
  <2> QED BY <2>5, <2>6
<1>2. CASE Terminated
  <2>a. Current.op = "uT"
    BY <1>2 DEF Terminated, Doing
  <2>b. h \in Nat /\ h - 4 \in Int /\ g = (h - 4) + 1
    <3>1. Takes(Current.op) = 4 /\ Puts(Current.op) = 1
      BY <2>a DEF Takes, Puts
    <3> QED BY <3>1, Balances
  <2>1. PICK w : w = Popped(wi, 4)
    OBVIOUS
  <2>2. PICK stop, mask, value :
          stop = Operand(wi, 1) /\ mask = Operand(wi, 2) /\ value = Operand(wi, 4)
    OBVIOUS
  <2>3. PICK read : read = ReadTerminated(w, mask, stop)
    OBVIOUS
  <2>4. Keeps(wi, w, h - 4) /\ Keeps(wi, read.w, h - 4)
    BY <2>b, <2>1, <2>3, PoppedKeeps, ReadTerminatedKeeps
  <2>5. PICK v : Do(v) /\ \/ v \in {Fail(w, "schema"), Fail(w, "range"), Push(read.w, read.value)}
                          \/ \E n : v = Push(EmitTerminated(w, value, n, mask, stop), value)
    BY <1>2, <2>1, <2>2, <2>3 DEF Terminated
  <2>6. Keeps(wi, v, g)
    BY <2>b, <2>4, <2>5, FailKeeps, PushKeeps, EmitTerminatedKeeps
  <2> QED BY <2>5, <2>6, DoExecutes
<1> QED BY <1>1, <1>2

\* Byte fields.
LEMMA BytesExecute ==
  ASSUME NEW h, NEW g, Balance(Current.op, h, g), Keeps(wi, wi, h), ByteAt \/ SliceField
  PROVE  Executed(g)
<1>1. CASE ByteAt
  <2>a. Current.op = "uh"
    BY <1>1 DEF ByteAt, DoingNamed, Doing
  <2>b. h \in Nat /\ h - 1 \in Int /\ g = (h - 1) + 1
    <3>1. Takes(Current.op) = 1 /\ Puts(Current.op) = 1
      BY <2>a DEF Takes, Puts
    <3> QED BY <3>1, Balances
  <2>1. PICK w : w = Popped(wi, 1)
    OBVIOUS
  <2>2. PICK v : Do(v) /\ (v = Fail(w, "range") \/ \E n : v = Push(w, n))
    BY <1>1, <2>1 DEF ByteAt
  <2>3. Keeps(wi, w, h - 1)
    BY <2>b, <2>1, PoppedKeeps
  <2>4. Keeps(wi, v, g)
    BY <2>b, <2>2, <2>3, FailKeeps, PushKeeps
  <2> QED BY <2>2, <2>4, DoExecutes
<1>2. CASE SliceField
  <2>a. Current.op \in {"v", "V", "R", "N"}
    BY <1>2 DEF SliceField, DoingNamed, Doing
  <2>1. PICK u : u = IF Current.op \in {"V", "N"} THEN Popped(wi, 1) ELSE wi
    OBVIOUS
  <2>2. PICK w : w = AlignedUnlessOver(u)
    OBVIOUS
  <2>3. Keeps(wi, u, g)
    <3>1. CASE Current.op \in {"V", "N"}
      <4>1. h \in Nat /\ g = h - 1
        <5>1. Takes(Current.op) = 1 /\ Puts(Current.op) = 0
          BY <3>1 DEF Takes, Puts
        <5> QED BY <5>1, Balances
      <4> QED BY <2>1, <3>1, <4>1, PoppedKeeps
    <3>2. CASE Current.op \in {"v", "R"}
      <4>1. g = h
        <5>1. Takes(Current.op) = 0 /\ Puts(Current.op) = 0
          BY <3>2 DEF Takes, Puts
        <5> QED BY <5>1, Balances
      <4> QED BY <2>1, <3>2, <4>1
    <3> QED BY <2>a, <3>1, <3>2
  <2>4. Keeps(wi, w, g)
    BY <2>2, <2>3, AlignedUnlessOverKeeps
  <2>5. \/ \E v : Do(v) /\ (v = w \/ (\E s : v = Fail(w, s)) \/ (\E b : v = Emit(w, b)))
        \/ \E pos, b : DoAndSet([w EXCEPT !.pos = pos], "bytes", b)
    BY <1>2, <2>1, <2>2 DEF SliceField
  <2>6. CASE \E v : Do(v) /\ (v = w \/ (\E s : v = Fail(w, s)) \/ (\E b : v = Emit(w, b)))
    BY <2>4, <2>6, FailKeeps, EmitKeeps, DoExecutes
  <2>7. CASE \E pos, b : DoAndSet([w EXCEPT !.pos = pos], "bytes", b)
    BY <2>4, <2>7, UpdateKeeps, DoAndSetExecutes
  <2> QED BY <2>5, <2>6, <2>7
<1> QED BY <1>1, <1>2

\* Record lists: the queries.
LEMMA QueryListExecutes ==
  ASSUME NEW h, NEW g, Balance(Current.op, h, g), Keeps(wi, wi, h), QueryList
  PROVE  Executed(g)
<1>1. PICK w : w = IF Current.op = "uU" THEN wi ELSE Popped(wi, 1)
  OBVIOUS
<1>2. Current.op \in {"uI", "uU", "uC"}
  BY DEF QueryList, DoingNamed, Doing
<1>3. PICK v : /\ Do(v)
               /\ \/ v = w /\ w.overrun
                  \/ \E s : v = Fail(w, s)
                  \/ \E n : v = Push(w, n)
  BY <1>1, <1>2 DEF QueryList
<1>4. CASE Current.op = "uU"
  <2>1. h \in Int /\ g = h + 1
    <3>1. Takes(Current.op) = 0 /\ Puts(Current.op) = 1
      BY <1>4 DEF Takes, Puts
    <3> QED BY <3>1, Balances
  <2>2. Keeps(wi, v, g)
    BY <1>1, <1>3, <1>4, <2>1, FailKeeps, PushKeeps, StoppedKeeps
  <2> QED BY <1>3, <2>2, DoExecutes
<1>5. CASE Current.op \in {"uI", "uC"}
  <2>1. h \in Nat /\ h - 1 \in Int /\ g = (h - 1) + 1
    <3>1. Takes(Current.op) = 1 /\ Puts(Current.op) = 1
      BY <1>5 DEF Takes, Puts
    <3> QED BY <3>1, Balances
  <2>2. Keeps(wi, w, h - 1)
    BY <1>1, <1>5, <2>1, PoppedKeeps
  <2>3. Keeps(wi, v, g)
    BY <1>3, <2>1, <2>2, FailKeeps, PushKeeps, StoppedKeeps
  <2> QED BY <1>3, <2>3, DoExecutes
<1> QED BY <1>2, <1>4, <1>5

\* Checksums.
LEMMA ChecksumsExecute ==
  ASSUME NEW h, NEW g, Balance(Current.op, h, g), Keeps(wi, wi, h), PlaceCrc \/ FinishCrc
  PROVE  Executed(g)
<1>1. CASE PlaceCrc
  <2>a. Current.op = "uK"
    BY <1>1 DEF PlaceCrc, DoingNamed, Doing
  <2>b. h \in Nat /\ g = h - 3
    <3>1. Takes(Current.op) = 3 /\ Puts(Current.op) = 0
      BY <2>a DEF Takes, Puts
    <3> QED BY <3>1, Balances
  <2>1. PICK flags, from, algorithm :
          flags = Operand(wi, 1) /\ from = Operand(wi, 2) /\ algorithm = Operand(wi, 3)
    OBVIOUS
  <2>2. PICK w : w = Popped(wi, 3)
    OBVIOUS
  <2>3. PICK aligned : aligned = AlignedUnlessOver(w)
    OBVIOUS
  <2>4. PICK head : head = IF flags % 2 = 1 THEN Cbor(aligned, 2, 2)
                                            ELSE [w |-> aligned, value |-> 2]
    OBVIOUS
  <2>5. PICK field : field = IF Encoding THEN [w |-> EmitBits(head.w, 0, 16), value |-> 0]
                                        ELSE ReadBits(head.w, 16)
    OBVIOUS
  <2>6. PICK crc : crc = [record |-> Owner, field |-> Here.field, at |-> Position(head.w),
                          from |-> from, algorithm |-> algorithm]
    OBVIOUS
  <2>7. PICK pending : pending = [field.w EXCEPT !.crc = crc]
    OBVIOUS
  <2>8. Keeps(wi, aligned, g)
    BY <2>b, <2>2, <2>3, PoppedKeeps, AlignedUnlessOverKeeps
  <2>9. Keeps(wi, head.w, g)
    <3>1. CASE flags % 2 = 1
      BY <2>4, <2>8, <3>1, CborKeeps
    <3>2. CASE flags % 2 # 1
      BY <2>4, <2>8, <3>2
    <3> QED BY <3>1, <3>2
  <2>10. Keeps(wi, field.w, g)
    <3>1. CASE Encoding
      BY <2>5, <2>9, <3>1, EmitBitsKeeps
    <3>2. CASE ~Encoding
      BY <2>5, <2>9, <3>2, ReadBitsKeeps
    <3> QED BY <3>1, <3>2
  <2>11. Keeps(wi, pending, g)
    BY <2>7, <2>10, UpdateKeeps
  <2>12. PICK finished : finished = Finish(pending, IF flags % 2 = 1 THEN Position(pending)
                                                   ELSE Position(head.w), field.value)
    OBVIOUS
  <2>13. Keeps(wi, finished.w, g)
    BY <2>11, <2>12, FinishKeeps
  <2>14. \/ Do(aligned) \/ Do(Fail(aligned, "schema")) \/ Do(Fail(head.w, "checksum"))
         \/ \E v, n : /\ DoAndSet(v, "number", n)
                      /\ v \in {field.w, Fail(field.w, "range"), pending, finished.w}
    <3>1. PICK at : at = Position(head.w)
      OBVIOUS
    <3>2. IF aligned.overrun THEN Do(aligned)
          ELSE IF algorithm \notin 1..2 \/ flags > 3 \/ aligned.crc # NoCrc
            THEN Do(Fail(aligned, "schema"))
          ELSE IF head.value # 2 THEN Do(Fail(head.w, "checksum"))
          ELSE IF field.w.overrun \/ from > at \/ flags >= 2
            THEN DoAndSet(IF field.w.overrun THEN field.w
                          ELSE IF from > at THEN Fail(field.w, "range") ELSE pending,
                          "number", field.value)
          ELSE DoAndSet(finished.w, "number", finished.number)
      BY <1>1, <2>1, <2>2, <2>3, <2>4, <2>5, <2>6, <2>7, <2>12, <3>1, ZenonT(60) DEF PlaceCrc
    <3>3. PICK failed : failed = IF field.w.overrun THEN field.w
                                 ELSE IF from > at THEN Fail(field.w, "range") ELSE pending
      OBVIOUS
    <3>4. failed \in {field.w, Fail(field.w, "range"), pending}
      BY <3>3
    <3>5. \/ Do(aligned) \/ Do(Fail(aligned, "schema")) \/ Do(Fail(head.w, "checksum"))
          \/ DoAndSet(failed, "number", field.value)
          \/ DoAndSet(finished.w, "number", finished.number)
      BY <3>2, <3>3, Zenon
    <3> QED BY <3>4, <3>5
  <2> QED BY <2>8, <2>9, <2>10, <2>11, <2>13, <2>14, FailKeeps, DoExecutes, DoAndSetExecutes
<1>2. CASE FinishCrc
  <2>a. Current.op = "uF"
    BY <1>2 DEF FinishCrc, Doing
  <2>b. g = h
    <3>1. Takes(Current.op) = 0 /\ Puts(Current.op) = 0
      BY <2>a DEF Takes, Puts
    <3> QED BY <3>1, Balances
  <2>1. PICK w : w = Aligned(wi)
    OBVIOUS
  <2>2. PICK finished : finished = Finish(w, Position(w), heap[w.crc.record][w.crc.field].number)
    OBVIOUS
  <2>3. Keeps(wi, w, g) /\ Keeps(wi, finished.w, g)
    BY <2>b, <2>1, <2>2, AlignedKeeps, FinishKeeps
  <2>4. Do(w) \/ wi' = [finished.w EXCEPT !.pc = finished.w.pc + 1]
    BY <1>2, <2>1, <2>2 DEF FinishCrc
  <2> QED BY <2>b, <2>3, <2>4, DoExecutes DEF Executed
<1> QED BY <1>1, <1>2

\* The tokens of a conditional, which may jump.
Jumped(h, ops) == \E w : Keeps(wi, w, h) /\ wi' = [w EXCEPT !.pc = Behind(ops) + 1]

LEMMA BranchesExecute ==
  ASSUME NEW h, NEW g, Balance(Current.op, h, g), Keeps(wi, wi, h), TestCondition \/ SkipElse
  PROVE  Executed(g) \/ (Current.op = "t" /\ Jumped(g, {"e", ";"}))
                     \/ (Current.op = "e" /\ Jumped(g, {";"}))
<1>1. CASE TestCondition
  <2>1. Current.op = "t"
    BY <1>1 DEF TestCondition, Doing
  <2>2. h \in Nat /\ g = h - 1
    <3>1. Takes(Current.op) = 1 /\ Puts(Current.op) = 0
      BY <2>1 DEF Takes, Puts
    <3> QED BY <3>1, Balances
  <2>3. PICK w : w = Popped(wi, 1)
    OBVIOUS
  <2>4. Keeps(wi, w, g)
    BY <2>2, <2>3, PoppedKeeps
  <2>5. Do(w) \/ Jump(w, Behind({"e", ";"}) + 1)
    BY <1>1, <2>3 DEF TestCondition
  <2>6. CASE Do(w)
    BY <2>4, <2>6, DoExecutes
  <2>7. CASE Jump(w, Behind({"e", ";"}) + 1)
    BY <2>1, <2>4, <2>7 DEF Jump, Jumped
  <2> QED BY <2>5, <2>6, <2>7
<1>2. CASE SkipElse
  <2>1. Current.op = "e" /\ Jump(wi, Behind({";"}) + 1)
    BY <1>2 DEF SkipElse, Doing
  <2>2. g = h
    <3>1. Takes(Current.op) = 0 /\ Puts(Current.op) = 0
      BY <2>1 DEF Takes, Puts
    <3> QED BY <3>1, Balances
  <2> QED BY <2>1, <2>2 DEF Jump, Jumped
<1> QED BY <1>1, <1>2

\* The token that begins a sequence.
Began(h) ==
  \E w, rows : /\ Keeps(wi, w, h) /\ "message" \in DOMAIN rows /\ rows.message = Current.n
               /\ wi' = [[w EXCEPT !.rows = rows] EXCEPT !.pc = w.pc + 1]

LEMMA BeginRowsExecutes ==
  ASSUME NEW h, NEW g, Balance(Current.op, h, g), Keeps(wi, wi, h), BeginRows
  PROVE  Executed(g) \/ (Current.op = "J" /\ Began(g))
<1>1. Current.op = "J"
  BY DEF BeginRows, DoingNamed, Doing
<1>2. h \in Nat /\ g = h - 2
  <2>1. Takes(Current.op) = 2 /\ Puts(Current.op) = 0
    BY <1>1 DEF Takes, Puts
  <2> QED BY <2>1, Balances
<1>3. PICK u : u = Popped(wi, 2)
  OBVIOUS
<1>4. PICK w : w = AlignedUnlessOver(u)
  OBVIOUS
<1>5. Keeps(wi, w, g)
  BY <1>2, <1>3, <1>4, PoppedKeeps, AlignedUnlessOverKeeps
<1>6. \/ Do(w) \/ \E s : Do(Fail(w, s))
      \/ \E rows : "message" \in DOMAIN rows /\ rows.message = Current.n /\ Do([w EXCEPT !.rows = rows])
  BY <1>3, <1>4 DEF BeginRows
<1>7. CASE Do(w) \/ \E s : Do(Fail(w, s))
  BY <1>5, <1>7, FailKeeps, DoExecutes
<1>8. CASE \E rows : "message" \in DOMAIN rows /\ rows.message = Current.n /\ Do([w EXCEPT !.rows = rows])
  <2>1. PICK rows : "message" \in DOMAIN rows /\ rows.message = Current.n /\ Do([w EXCEPT !.rows = rows])
    BY <1>8
  <2>2. PICK v : v = [w EXCEPT !.rows = rows]
    OBVIOUS
  <2>3. v.pc = w.pc
    BY <2>2
  <2>4. wi' = [v EXCEPT !.pc = w.pc + 1]
    BY <2>1, <2>2, <2>3 DEF Do
  <2>5. Began(g)
    BY <1>5, <2>1, <2>2, <2>4 DEF Began
  <2> QED BY <1>1, <2>5
<1> QED BY <1>6, <1>7, <1>8

\* Every handler that goes on to the next token.
LEMMA PlainlyExecutes ==
  ASSUME NEW h, NEW g, Balance(Current.op, h, g), Keeps(wi, wi, h), Plainly
  PROVE  Executed(g)
BY FieldsExecute, ArithmeticExecutes, NumbersExecute, TextExecutes, BytesExecute,
   QueryListExecutes, ChecksumsExecute DEF Plainly

-----------------------------------------------------------------------------
(* Causes                                                                    *)

\* Every handler belongs to the machine that has not stopped, and to a call that runs;
\* none ends the call or enters or leaves a row.
LEMMA HandlingRuns ==
  ASSUME Handling
  PROVE  Running /\ ~wi.overrun /\ ~AtEnd /\ result' = result /\ suspended' = suspended
<1>1. Running /\ ~wi.overrun /\ ~AtEnd
  BY DEF Handling, Plainly, NameUnknown, PushLiteral, LoadField, StoreField, MeasureField, ClearField,
     NoBranch, TestCondition, SkipElse, Combine, Negate, Select, Query, Require, Swap,
     RequireAligned, EmitField, ReadField, EmitSdnv, ReadSdnv, CborHead, Decimal, Terminated,
     ByteAt, SliceField, QueryList, BeginRows, PlaceCrc, FinishCrc, DoingNamed, Doing
<1>2. \A w, f, v, pc : Do(w) \/ DoAndSet(w, f, v) \/ Jump(w, pc) =>
                         result' = result /\ suspended' = suspended
  BY DEF Do, DoAndSet, Jump
<1>3. NameUnknown \/ PushLiteral \/ LoadField \/ StoreField \/ MeasureField \/ ClearField
      \/ NoBranch \/ TestCondition \/ SkipElse => result' = result /\ suspended' = suspended
  BY <1>2 DEF NameUnknown, PushLiteral, LoadField, StoreField, MeasureField, ClearField,
     NoBranch, TestCondition, SkipElse
<1>4. Combine \/ Negate \/ Select \/ Query \/ Require \/ Swap =>
        result' = result /\ suspended' = suspended
  BY <1>2 DEF Combine, Negate, Select, Query, Require, Swap
<1>5. RequireAligned \/ EmitField \/ ReadField \/ EmitSdnv \/ ReadSdnv \/ CborHead
      \/ Decimal \/ Terminated \/ ByteAt => result' = result /\ suspended' = suspended
  BY <1>2 DEF RequireAligned, EmitField, ReadField, EmitSdnv, ReadSdnv, CborHead, Decimal,
     Terminated, ByteAt
<1>6. SliceField => result' = result /\ suspended' = suspended
  BY <1>2 DEF SliceField
<1>7. QueryList \/ BeginRows => result' = result /\ suspended' = suspended
  BY <1>2 DEF QueryList, BeginRows
<1>8. PlaceCrc => result' = result /\ suspended' = suspended
  BY <1>2, SMTT(30) DEF PlaceCrc
<1>9. FinishCrc => result' = result /\ suspended' = suspended
  BY <1>2, Zenon DEF FinishCrc
<1> QED BY <1>1, <1>3, <1>4, <1>5, <1>6, <1>7, <1>8, <1>9 DEF Handling, Plainly

\* What each leaves behind is sound: it stops if it has a cause.
Sound(w) == Keeps(w, w, Len(w.fstack))

LEMMA KeepsSound ==
  ASSUME NEW old, NEW h, NEW w, Keeps(old, w, h)
  PROVE  Sound(w)
BY DEF Keeps, Sound

\* What keeps it sound.
LEMMA FailSound ==
  ASSUME NEW w, Sound(w), NEW status
  PROVE  Sound(Fail(w, status))
BY FailKeeps, KeepsSound DEF Sound

LEMMA UpdateSound ==
  ASSUME NEW w, Sound(w), NEW x, NEW y
  PROVE  Sound([w EXCEPT !.rows = x]) /\ Sound([w EXCEPT !.out = x, !.pos = y])
BY DEF Sound, Keeps

LEMMA ExecutedSound ==
  ASSUME NEW h, \/ Executed(h) \/ Began(h)
                \/ \E ops : Jumped(h, ops)
  PROVE  Sound(wi')
<1>1. CASE Executed(h)
  <2>1. PICK w : Keeps(wi, w, h) /\ wi' = [w EXCEPT !.pc = w.pc + 1]
    BY <1>1 DEF Executed
  <2> QED BY <2>1 DEF Keeps, Sound
<1>2. CASE \E ops : Jumped(h, ops)
  <2>1. PICK w, pc : Keeps(wi, w, h) /\ wi' = [w EXCEPT !.pc = pc]
    BY <1>2 DEF Jumped
  <2> QED BY <2>1 DEF Keeps, Sound
<1>3. CASE Began(h)
  <2>1. PICK w, rows, pc : Keeps(wi, w, h) /\ wi' = [[w EXCEPT !.rows = rows] EXCEPT !.pc = pc]
    BY <1>3 DEF Began
  <2> QED BY <2>1 DEF Keeps, Sound
<1> QED BY <1>1, <1>2, <1>3

\* Where a handler goes from a context with h operands.
LEMMA HandlingExecutes ==
  ASSUME NEW h, NEW g, Balance(Current.op, h, g), Keeps(wi, wi, h), Handling
  PROVE  \/ Executed(g)
         \/ (Current.op = "t" /\ Jumped(g, {"e", ";"}))
         \/ (Current.op = "e" /\ Jumped(g, {";"}))
         \/ (Current.op = "J" /\ Began(g))
BY PlainlyExecutes, BranchesExecute, BeginRowsExecutes DEF Handling

LEMMA HandlingSound ==
  ASSUME Sound(wi), Handling
  PROVE  Sound(wi')
<1>1. PICK h : h = Len(wi.fstack)
  OBVIOUS
<1>2. PICK g : g = h - Takes(Current.op) + Puts(Current.op)
  OBVIOUS
<1>3. Keeps(wi, wi, h)
  BY <1>1 DEF Sound
<1>4. h \in Nat
  BY <1>1, <1>3, HandlingRuns DEF Keeps, IsStack
<1>5. Balance(Current.op, h, g)
  BY <1>2, <1>4 DEF Balance
<1> QED BY <1>3, <1>5, HandlingExecutes, ExecutedSound

\* A context that waits for its row has no cause yet.
Waiting(w) == Sound(w) /\ w.status = "ok"

AllWaiting == \A i \in 1..Len(suspended) : Waiting(suspended[i])

CauseInv ==
  /\ Sound(wi)
  /\ \E S : suspended \in Seq(S)
  /\ AllWaiting
  /\ Running => stage \in {"sending", "receiving"}

\* No context has failed when the exchange begins.
LEMMA CauseInit == Init => CauseInv
<1> SUFFICES ASSUME Init PROVE CauseInv
  OBVIOUS
<1>1. Sound(wi)
  BY DEF Init, Context, Sound, Keeps, IsStack
<1>2. suspended = <<>> /\ ~Running
  BY DEF Init, Running
<1>3. suspended \in Seq({}) /\ AllWaiting
  BY <1>2 DEF AllWaiting
<1> QED BY <1>1, <1>2, <1>3 DEF CauseInv

\* A row is entered from a context without a cause.
LEMMA EnterRowWaits ==
  ASSUME Sound(wi), \E S : suspended \in Seq(S), AllWaiting, EnterRow
  PROVE  Sound(wi') /\ (\E S : suspended' \in Seq(S)) /\ AllWaiting'
<1>1. Waiting(wi)
  BY DEF EnterRow, InRows, Sound, Keeps, IsStack, Waiting
<1>2. Sound(wi')
  BY DEF EnterRow, Context, Sound, Keeps, IsStack
<1>3. PICK S : suspended \in Seq(S)
  OBVIOUS
<1>4. suspended' = Append(suspended, wi)
  BY DEF EnterRow
<1>5. suspended \in Seq(S \cup {wi}) /\ wi \in S \cup {wi}
  BY <1>3
<1>6. suspended' \in Seq(S \cup {wi})
  BY <1>4, <1>5
<1>7. Len(suspended') = Len(suspended) + 1 /\ Len(suspended) \in Nat
      /\ \A i \in 1..Len(suspended') :
           suspended'[i] = IF i = Len(suspended) + 1 THEN wi ELSE suspended[i]
  BY <1>4, <1>5
<1>8. AllWaiting'
  <2>1. ASSUME NEW i \in 1..Len(suspended') PROVE Waiting(suspended'[i])
    <3>1. i = Len(suspended) + 1 \/ i \in 1..Len(suspended)
      BY <1>7
    <3> QED BY <1>1, <1>7, <3>1 DEF AllWaiting
  <2>2. AllWaiting' <=> \A i \in 1..Len(suspended') : Waiting(suspended'[i])
    BY DEF AllWaiting, Waiting, Sound, Keeps, IsStack
  <2> QED BY <2>1, <2>2
<1> QED BY <1>2, <1>6, <1>8

\* What is left of a sequence without its last element.
LEMMA ButLast ==
  ASSUME NEW S, NEW s \in Seq(S), s # <<>>
  PROVE  /\ SubSeq(s, 1, Len(s) - 1) \in Seq(S)
         /\ Len(SubSeq(s, 1, Len(s) - 1)) = Len(s) - 1
         /\ \A i \in 1 .. Len(s) - 1 : SubSeq(s, 1, Len(s) - 1)[i] = s[i]
<1>1. PICK x \in Nat \ {0} : x = Len(s)
  OBVIOUS
<1>2. 1 \in Int /\ x - 1 \in Int /\ \A i \in 1 .. x - 1 : s[i] \in S
  BY <1>1
<1>3. /\ SubSeq(s, 1, x - 1) \in Seq(S)
      /\ Len(SubSeq(s, 1, x - 1)) = IF 1 <= x - 1 THEN (x - 1) - 1 + 1 ELSE 0
      /\ \A i \in 1 .. (x - 1) - 1 + 1 : SubSeq(s, 1, x - 1)[i] = s[1 + i - 1]
  BY <1>2, SubSeqProperties
<1>4. (IF 1 <= x - 1 THEN (x - 1) - 1 + 1 ELSE 0) = x - 1 /\ (x - 1) - 1 + 1 = x - 1
  BY <1>1
<1>5. \A i \in 1 .. x - 1 : 1 + i - 1 = i
  BY <1>1
<1> QED BY <1>1, <1>3, <1>4, <1>5, Zenon

\* The parent a row returns to, and the cause that it takes over.
LEMMA LeaveRowReturns ==
  ASSUME Sound(wi), \E S : suspended \in Seq(S), AllWaiting, LeaveRow
  PROVE  /\ Sound(wi') /\ (\E S : suspended' \in Seq(S)) /\ AllWaiting'
         /\ wi.status # "ok" => wi'.status = wi.status
<1>1. PICK S : suspended \in Seq(S)
  OBVIOUS
<1>2. Len(suspended) \in Nat \ {0} /\ suspended' = SubSeq(suspended, 1, Len(suspended) - 1)
  BY <1>1 DEF LeaveRow, Front
<1>3. PICK parent : parent = suspended[Len(suspended)]
  OBVIOUS
<1>4. Waiting(parent)
  BY <1>2, <1>3 DEF AllWaiting
<1>5. suspended' \in Seq(S) /\ Len(suspended') = Len(suspended) - 1
      /\ \A i \in 1..Len(suspended') : suspended'[i] = suspended[i]
  <2>1. suspended # <<>>
    BY DEF LeaveRow
  <2> QED BY <1>1, <1>2, <2>1, ButLast
<1>6. AllWaiting'
  <2>1. ASSUME NEW i \in 1..Len(suspended') PROVE Waiting(suspended'[i])
    <3>1. i \in 1..Len(suspended)
      BY <1>2, <1>5
    <3> QED BY <1>5, <3>1 DEF AllWaiting
  <2>2. AllWaiting' <=> \A i \in 1..Len(suspended') : Waiting(suspended'[i])
    BY DEF AllWaiting, Waiting, Sound, Keeps, IsStack
  <2> QED BY <2>1, <2>2
<1>7. Last(suspended) = parent
  BY <1>3 DEF Last
<1>8. CASE Cause(wi) # "ok"
  <2>1. wi' = Fail(parent, Cause(wi))
    BY <1>7, <1>8 DEF LeaveRow
  <2>2. Sound(wi')
    BY <1>4, <2>1, FailSound DEF Waiting
  <2>3. wi'.status = Cause(wi)
    BY <1>4, <2>1 DEF Waiting, Sound, Keeps, IsStack, Fail
  <2>4. wi.status # "ok" => Cause(wi) = wi.status
    BY DEF Cause
  <2> QED BY <1>5, <1>6, <2>2, <2>3, <2>4
<1>9. CASE Cause(wi) = "ok"
  <2>1. PICK v : v = [parent EXCEPT !.out = wi.out, !.pos = wi.pos]
    OBVIOUS
  <2>2. wi' = AdvancedTo(v)
    BY <1>7, <1>9, <2>1 DEF LeaveRow
  <2>3. Sound(v)
    BY <1>4, <2>1 DEF Waiting, Sound, Keeps, IsStack
  <2>4. Sound([v EXCEPT !.rows.index = v.rows.index + 1])
    BY <2>3 DEF Sound, Keeps, IsStack
  <2>5. wi' \in {Fail(v, "schema"), [v EXCEPT !.rows.index = v.rows.index + 1]}
    BY <2>2 DEF AdvancedTo
  <2>6. Sound(wi')
    BY <2>3, <2>4, <2>5, FailSound
  <2>7. wi.status = "ok"
    BY <1>9 DEF Cause
  <2> QED BY <1>5, <1>6, <2>6, <2>7
<1> QED BY <1>8, <1>9

\* Each step keeps the invariant, and the cause.
LEMMA CauseStep ==
  ASSUME CauseInv, Next
  PROVE  /\ CauseInv'
         /\ Running /\ wi.status # "ok" =>
              IF result' = "running" THEN wi'.status = wi.status ELSE result' = wi.status
<1> USE DEF CauseInv
<1>1. CASE Compile \/ Open
  <2>1. UNCHANGED <<wi, suspended, result>> /\ ~Running /\ ~Running'
    BY <1>1 DEF Compile, Open, callVars, Running
  <2>2. Sound(wi') /\ (\E S : suspended' \in Seq(S)) /\ AllWaiting'
    BY <2>1 DEF AllWaiting, Waiting, Sound, Keeps, IsStack
  <2> QED BY <2>1, <2>2
<1>2. CASE Send \/ ReceiveIntact \/ ReceiveCut \/ ReceiveFlipped \/ ReceiveAgain
  <2>1. PICK m, r, d, n, o, h : Begin(m, r, d, n, o, h)
    BY <1>2 DEF Send, ReceiveIntact, ReceiveCut, ReceiveFlipped, ReceiveAgain, Receive
  <2>2. stage' \in {"sending", "receiving"} /\ ~Running
    BY <1>2 DEF Send, ReceiveIntact, ReceiveCut, ReceiveFlipped, ReceiveAgain, Receive, Running
  <2>3. Sound(wi') /\ suspended' = <<>>
    BY <2>1 DEF Begin, Context, Sound, Keeps, IsStack
  <2>4. suspended' \in Seq({}) /\ AllWaiting'
    BY <2>3 DEF AllWaiting
  <2> QED BY <2>2, <2>3, <2>4
<1>3. CASE Sent \/ Received \/ Over
  <2>1. UNCHANGED <<wi, suspended, result>> /\ ~Running
    BY <1>3 DEF Sent, Received, Over, vars, callVars, Running, Outcomes
  <2>2. Sound(wi') /\ (\E S : suspended' \in Seq(S)) /\ AllWaiting' /\ ~Running'
    BY <2>1 DEF AllWaiting, Waiting, Sound, Keeps, IsStack, Running
  <2> QED BY <2>1, <2>2
<1>4. CASE Calling
  <2>1. UNCHANGED stage
    BY <1>4 DEF Calling
  <2>2. CASE Handling
    <3>1. Sound(wi')
      BY <2>2, HandlingSound
    <3>2. ~wi.overrun /\ result' = result /\ suspended' = suspended
      BY <2>2, HandlingRuns
    <3>3. AllWaiting' /\ \E S : suspended' \in Seq(S)
      BY <3>2 DEF AllWaiting, Waiting, Sound, Keeps, IsStack
    <3> QED BY <2>1, <3>1, <3>2, <3>3 DEF Sound, Keeps, IsStack, Running
  <2>3. CASE EndRows \/ RowsOverflow
    <3>1. UNCHANGED <<suspended, result>> /\ ~wi.overrun
      BY <2>3 DEF EndRows, RowsOverflow, InRows
    <3>2. \/ wi' = Fail(wi, "capacity") \/ wi' = [Fail(wi, "truncated") EXCEPT !.rows = NoRows]
          \/ wi' = [wi EXCEPT !.rows = NoRows]
      BY <2>3 DEF EndRows, RowsOverflow
    <3>3. Sound(wi')
      <4>1. PICK u : u = Fail(wi, "truncated")
        OBVIOUS
      <4>2. Sound(wi) /\ Sound(u) /\ Sound(Fail(wi, "capacity"))
        BY <4>1, FailSound
      <4>3. Sound([u EXCEPT !.rows = NoRows]) /\ Sound([wi EXCEPT !.rows = NoRows])
        BY <4>2, UpdateSound
      <4> QED BY <3>2, <4>1, <4>2, <4>3
    <3>4. AllWaiting' /\ \E S : suspended' \in Seq(S)
      BY <3>1 DEF AllWaiting, Waiting, Sound, Keeps, IsStack
    <3> QED BY <2>1, <3>1, <3>3, <3>4 DEF Sound, Keeps, IsStack, Running
  <2>4. CASE EnterRow
    <3>1. ~wi.overrun /\ result' = result
      BY <2>4 DEF EnterRow, InRows
    <3> QED BY <2>1, <2>4, <3>1, EnterRowWaits DEF Sound, Keeps, IsStack, Running
  <2>5. CASE LeaveRow
    <3>1. result' = result
      BY <2>5 DEF LeaveRow
    <3> QED BY <2>1, <2>5, <3>1, LeaveRowReturns DEF Running
  <2>6. CASE EndCall
    <3>1. UNCHANGED <<wi, suspended>> /\ result' = Cause(wi) /\ Running
      BY <2>6 DEF EndCall, ProgramOver
    <3>2. wi.status # "ok" => Cause(wi) = wi.status
      BY DEF Cause
    <3>3. AllWaiting' /\ (\E S : suspended' \in Seq(S)) /\ Sound(wi')
      BY <3>1 DEF AllWaiting, Waiting, Sound, Keeps, IsStack
    <3> QED BY <2>1, <3>1, <3>2, <3>3 DEF Running
  <2> QED BY <1>4, <2>2, <2>3, <2>4, <2>5, <2>6 DEF Calling, Step, Handling, Plainly
<1> QED BY <1>1, <1>2, <1>3, <1>4 DEF Next

\* The invariant behind the next theorem: whatever the programs and the octets, a
\* context that has recorded a cause has stopped, and those that wait for its end have
\* not recorded one.  (record_fail, record_sequence)
THEOREM CausesKept == Spec => []CauseInv
<1>1. CauseInv /\ UNCHANGED vars => CauseInv'
  BY DEF CauseInv, AllWaiting, Waiting, Sound, Keeps, IsStack, vars, callVars, Running
<1>2. CauseInv /\ [Next]_vars => CauseInv'
  BY <1>1, CauseStep
<1> QED BY <1>2, CauseInit, PTL DEF Spec

\* The cause that a context recorded first is the status of the call, through every
\* row it was recorded in: nothing that runs later, in it or in the messages around it,
\* replaces or forgets it, for every schema, record, room and harm.  (record_fail,
\* record_sequence, execute)
THEOREM CauseReported == Spec => FirstCauseIsReported
<1> DEFINE Reported == (Running /\ wi.status # "ok") =>
                          IF result' = "running" THEN wi'.status = wi.status
                                                 ELSE result' = wi.status
<1>1. CauseInv /\ [Next]_vars => [Reported]_vars
  BY CauseStep
<1> QED BY <1>1, CausesKept, PTL DEF Spec, FirstCauseIsReported


-----------------------------------------------------------------------------
(* Balance                                                                   *)

\* The place of a context in its program: behind as many operands as the program has
\* put there.
Placed(p, w) ==
  /\ IsArray(p) /\ w.pc \in 1 .. Len(p) + 1
  /\ \E f : /\ Along(f, p, Standing(-1, 0), Standing(-1, 0), w.message)
            /\ Keeps(w, w, f[w.pc - 1].height)

\* A context of a catalog has a place until it stops, and is in rows of its messages.
InProgram(catalog, decode, w) ==
  /\ w.message \in 0 .. catalog.messages - 1
  /\ "message" \in DOMAIN w.rows /\ w.rows.message \in 0 .. catalog.messages - 1
  /\ ~w.overrun => Placed(Format(catalog, w.message, decode), w)

AllInProgram(catalog, decode, s) == \A i \in 1 .. Len(s) : InProgram(catalog, decode, s[i])

\* The tokens behind which a branch goes on that the token op leaves out.
Skips(op, ops) ==
  \/ op = "t" /\ ops = {"e", ";"}
  \/ op = "e" /\ ops = {";"}

\* Where a branch that is not taken ends, the stack is empty.
LEMMA JumpLands ==
  ASSUME NEW p, NEW f, NEW rank, IsArray(p),
         Along(f, p, Standing(-1, 0), Standing(-1, 0), rank),
         p = Format(db, wi.message, call.decode), wi.pc \in 1 .. Len(p), NEW ops,
         Skips(p[wi.pc].op, ops)
  PROVE  Behind(ops) \in wi.pc + 1 .. Len(p) /\ f[Behind(ops)].height = 0
<1>1. PICK n \in Nat, pc \in Nat : n = Len(p) /\ pc = wi.pc /\ pc \in 1 .. n
  BY DEF IsArray
<1> DEFINE Between(op, i) == {j \in pc + 1 .. i - 1 : p[j].op = op}
           Depth(i) == Cardinality(Between("?", i)) - Cardinality(Between(";", i))
           ends == {i \in pc + 1 .. n : p[i].op \in ops /\ Depth(i) = 0}
           T == {i \in pc + 1 .. n : f[i].part # f[pc].part}
<1>2. Behind(ops) = Min(ends)
  BY <1>1 DEF Behind
<1>3. ASSUME NEW i \in 1 .. n
      PROVE  /\ Turns(f[i - 1].part, p[i].op, f[i].part)
             /\ p[i].op \in Branch => f[i].height = 0
  BY <1>1 DEF Along, Follows
<1>4. Turns(f[pc - 1].part, p[pc].op, f[pc].part) /\ Skips(p[pc].op, ops)
  BY <1>1, <1>3
<1>a. f[pc].part \in {1, 2}
  BY <1>4 DEF Turns, Skips, Branch
<1>b. f[pc].part # -1 /\ f[pc].part # 0 /\ 1 # 2
  BY <1>a
<1>5. f[n].part = -1
  BY <1>1 DEF Along, Standing
<1>6. n \in T
  <2>1. n # pc
    BY <1>a, <1>5
  <2> QED BY <1>1, <1>a, <1>5, <2>1
<1>7. PICK j \in T : \A k \in T : j <= k
  <2>1. T \in SUBSET Nat
    BY <1>1
  <2> HIDE DEF T
  <2> QED BY <1>6, <2>1, LeastElement
<1>8. j \in pc + 1 .. n /\ f[j].part # f[pc].part
  OBVIOUS
<1>9. ASSUME NEW i \in pc .. j - 1 PROVE f[i].part = f[pc].part
  <2>1. CASE i = pc
    BY <2>1
  <2>2. CASE i # pc
    <3>1. i \in pc + 1 .. n /\ ~(j <= i)
      BY <1>1, <1>8, <2>2
    <3> QED BY <1>7, <3>1
  <2> QED BY <2>1, <2>2
<1> HIDE DEF T, Between, Depth
<1>10. j \in ends
  <2>1. p[j].op \in ops
    <3>1. j \in 1 .. n /\ j - 1 \in pc .. j - 1
      BY <1>1, <1>8
    <3>2. Turns(f[pc].part, p[j].op, f[j].part)
      BY <1>3, <1>9, <3>1
    <3>3. f[j].part # f[pc].part
      BY <1>8
    <3>5. p[j].op = ";" \/ (p[j].op = "e" /\ f[pc].part = 1)
      BY <1>b, <3>2, <3>3, Zenon DEF Turns, Branch
    <3>6. ops = {"e", ";"} \/ (ops = {";"} /\ f[pc].part = 2)
      BY <1>4, Zenon DEF Turns, Skips, Branch
    <3> QED BY <1>b, <3>5, <3>6, Zenon
  <2>2. ASSUME NEW i \in pc + 1 .. j - 1 PROVE p[i].op \notin {"?", ";"}
    <3>1. i \in 1 .. n /\ i - 1 \in pc .. j - 1 /\ i \in pc .. j - 1
      BY <1>1, <1>8
    <3>2. Turns(f[pc].part, p[i].op, f[pc].part)
      BY <1>3, <1>9, <3>1
    <3> QED BY <1>b, <3>2, Zenon DEF Turns, Branch
  <2>3. Between("?", j) = {} /\ Between(";", j) = {}
    BY <2>2 DEF Between
  <2>4. PICK a, b : a = Cardinality(Between("?", j)) /\ b = Cardinality(Between(";", j))
    OBVIOUS
  <2>5. a = 0 /\ b = 0
    BY <2>3, <2>4, FS_EmptySet
  <2>6. a - b = 0
    BY <2>5
  <2>7. Depth(j) = 0
    BY <2>4, <2>6 DEF Depth
  <2> QED BY <1>8, <2>1, <2>7
<1>11. ASSUME NEW i \in ends PROVE i \in pc + 1 .. n /\ f[i].height = 0
  <2>1. i \in pc + 1 .. n /\ i \in 1 .. n /\ p[i].op \in ops
    BY <1>1
  <2>2. p[i].op \in Branch
    BY <1>4, <2>1 DEF Branch, Skips
  <2> QED BY <1>3, <2>1, <2>2
<1>12. ends \in SUBSET Nat
  BY <1>1
<1> HIDE DEF ends
<1>13. \E m \in ends : \A k \in ends : m <= k
  BY <1>10, <1>12, LeastElement
<1>14. Min(ends) \in ends
  BY <1>13 DEF Min
<1> QED BY <1>1, <1>2, <1>11, <1>14

\* A message begins at its place.
LEMMA ContextPlaced ==
  ASSUME NEW catalog, catalog.messages \in Nat, NEW decode, NEW m \in 0 .. catalog.messages - 1,
         Leads(Format(catalog, m, decode), Standing(-1, 0), Standing(-1, 0), m),
         NEW record, NEW depth, NEW index, NEW base, NEW out, NEW pos
  PROVE  InProgram(catalog, decode, Context(m, record, depth, index, base, out, pos))
<1>1. PICK w : w = Context(m, record, depth, index, base, out, pos)
  OBVIOUS
<1>2. PICK p : p = Format(catalog, m, decode)
  OBVIOUS
<1>3. w.message = m /\ w.pc = 1 /\ w.rows = NoRows /\ ~w.overrun
  BY <1>1 DEF Context
<1>4. 0 \in 0 .. catalog.messages - 1 /\ "message" \in DOMAIN NoRows /\ NoRows.message = 0
  BY DEF NoRows
<1>5. PICK f : Along(f, p, Standing(-1, 0), Standing(-1, 0), m)
  BY <1>2 DEF Leads
<1>6. f[0].height = 0
  BY <1>5 DEF Along, Standing
<1>7. Keeps(w, w, 0)
  <2>1. <<>> \in Seq({}) /\ Len(<<>>) = 0
    OBVIOUS
  <2>2. w.fstack = <<>> /\ w.status = "ok"
        /\ {"status", "overrun", "fstack", "pc", "message", "rows"} \subseteq DOMAIN w
    BY <1>1 DEF Context
  <2> QED BY <2>1, <2>2 DEF Keeps, IsStack
<1>8. IsArray(p) /\ 1 \in 1 .. Len(p) + 1
  BY <1>2 DEF Leads, IsArray
<1>9. Placed(p, w)
  BY <1>3, <1>5, <1>6, <1>7, <1>8 DEF Placed
<1> QED BY <1>1, <1>2, <1>3, <1>4, <1>9 DEF InProgram

\* Every handler goes to a place of the program.
LEMMA HandlingPlaced ==
  ASSUME db.messages \in Nat, InProgram(db, call.decode, wi), Handling
  PROVE  InProgram(db, call.decode, wi')
<1>1. ~wi.overrun /\ ~AtEnd
  BY HandlingRuns
<1>2. PICK p : p = Format(db, wi.message, call.decode)
  OBVIOUS
<1>3. Placed(p, wi)
  BY <1>1, <1>2 DEF InProgram
<1>4. PICK f : /\ Along(f, p, Standing(-1, 0), Standing(-1, 0), wi.message)
               /\ Keeps(wi, wi, f[wi.pc - 1].height)
  BY <1>3 DEF Placed
<1>5. PICK n \in Nat : n = Len(p)
  BY <1>3 DEF Placed, IsArray
<1>6. IsArray(p) /\ wi.pc \in 1 .. n /\ Current = p[wi.pc]
  BY <1>1, <1>2, <1>3, <1>5 DEF Placed, AtEnd, Current
<1>7. Follows(f[wi.pc - 1], Current, f[wi.pc], wi.message)
  BY <1>4, <1>5, <1>6 DEF Along
<1>8. PICK h, g : h = f[wi.pc - 1].height /\ g = f[wi.pc].height
  OBVIOUS
<1>9. Balance(Current.op, h, g) /\ Keeps(wi, wi, h)
  BY <1>4, <1>7, <1>8 DEF Follows, Balance
\* What is left to show: the place, and the message of the rows.
<1>10. ASSUME NEW w, Keeps(wi, w, g), NEW pc \in 1 .. n + 1, f[pc - 1].height = g, NEW rows,
              "message" \in DOMAIN rows, rows.message \in 0 .. db.messages - 1,
              \/ wi' = [w EXCEPT !.pc = pc] /\ rows = wi.rows
              \/ wi' = [[w EXCEPT !.rows = rows] EXCEPT !.pc = pc]
       PROVE  InProgram(db, call.decode, wi')
  <2>1. PICK v : v = wi'
    OBVIOUS
  <2>2. v.message = wi.message /\ v.pc = pc /\ v.rows = rows /\ Keeps(v, v, g)
    BY <1>10, <2>1 DEF Keeps
  <2>3. Placed(p, v)
    BY <1>4, <1>5, <1>6, <1>10, <2>2 DEF Placed
  <2>4. InProgram(db, call.decode, v)
    BY <1>2, <1>10, <2>2, <2>3 DEF InProgram
  <2> QED BY <2>1, <2>4
<1>11. "message" \in DOMAIN wi.rows /\ wi.rows.message \in 0 .. db.messages - 1
       /\ wi.message \in 0 .. db.messages - 1
  BY DEF InProgram
<1>12. CASE Executed(g)
  <2>1. PICK w : Keeps(wi, w, g) /\ wi' = [w EXCEPT !.pc = w.pc + 1]
    BY <1>12 DEF Executed
  <2>2. w.pc + 1 \in 1 .. n + 1 /\ (w.pc + 1) - 1 = wi.pc
    BY <1>5, <1>6, <2>1 DEF Keeps
  <2> QED BY <1>8, <1>10, <1>11, <2>1, <2>2
<1>13. ASSUME NEW ops, Jumped(g, ops), Skips(Current.op, ops)
       PROVE  InProgram(db, call.decode, wi')
  <2>1. PICK w, k : Keeps(wi, w, g) /\ k = Behind(ops) /\ wi' = [w EXCEPT !.pc = k + 1]
    BY <1>13 DEF Jumped
  <2>2. k \in wi.pc + 1 .. n /\ f[k].height = 0
    BY <1>2, <1>4, <1>5, <1>6, <1>13, <2>1, JumpLands
  <2>3. g = 0
    <3>1. Current.op \in Branch
      BY <1>13 DEF Skips, Branch
    <3> QED BY <1>7, <1>8, <3>1 DEF Follows
  <2>4. k + 1 \in 1 .. n + 1 /\ (k + 1) - 1 = k
    BY <1>5, <1>6, <2>2
  <2> QED BY <1>10, <1>11, <2>1, <2>2, <2>3, <2>4
<1>14. CASE Current.op = "J" /\ Began(g)
  <2>1. PICK w, rows : /\ Keeps(wi, w, g) /\ "message" \in DOMAIN rows /\ rows.message = Current.n
                       /\ wi' = [[w EXCEPT !.rows = rows] EXCEPT !.pc = w.pc + 1]
    BY <1>14 DEF Began
  <2>2. w.pc + 1 \in 1 .. n + 1 /\ (w.pc + 1) - 1 = wi.pc
    BY <1>5, <1>6, <2>1 DEF Keeps
  <2>3. Current.n \in Nat /\ Current.n < wi.message
    BY <1>7, <1>14 DEF Follows, GoodToken
  <2>4. rows.message \in 0 .. db.messages - 1
    BY <1>11, <2>1, <2>3
  <2> QED BY <1>8, <1>10, <2>1, <2>2, <2>4
<1> QED BY <1>9, <1>12, <1>13, <1>14, HandlingExecutes DEF Skips

\* The contexts of a call that runs are in programs of the catalog, those of its direction.
BalanceInv ==
  Running => /\ call.decode \in BOOLEAN
             /\ InProgram(db, call.decode, wi)
             /\ AllInProgram(db, call.decode, suspended)

\* The programs of a catalog that is in use.
LEMMA CatalogLeads ==
  ASSUME CatalogInv, stage \notin {"source", "invalid"}
  PROVE  /\ db.messages \in Nat
         /\ exchange.message \in 0 .. db.messages - 1
         /\ \A m \in 0 .. db.messages - 1, decode \in BOOLEAN :
              Leads(Format(db, m, decode), Standing(-1, 0), Standing(-1, 0), m)
<1>1. PICK source : source = exchange.source
  OBVIOUS
<1>2. IsSource(source) /\ exchange.message \in Messages(source)
  BY <1>1, SourcesAssumption DEF CatalogInv
<1>3. Compiles(source) /\ db = Image(source)
  BY <1>1 DEF CatalogInv, Compiled
<1>4. PICK n \in Nat : DOMAIN source = 0 .. n - 1
  BY <1>2, MessagesNumbered
<1>5. LaidOut(db, source, n)
  BY <1>3, <1>4, ImageLayout
<1>6. db.messages = n
  BY <1>5 DEF LaidOut
<1>7. exchange.message \in 0 .. n - 1
  BY <1>2, <1>4 DEF Messages
<1>8. ASSUME NEW m \in 0 .. n - 1, NEW decode \in BOOLEAN
      PROVE  Leads(Format(db, m, decode), Standing(-1, 0), Standing(-1, 0), m)
  <2>1. Catalogued(db, source, m)
    BY <1>2, <1>3, <1>4, <1>5, CatalogOf DEF Compiles
  <2>2. Format(db, m, decode) = Program(source, m, decode)
    BY <2>1 DEF Catalogued
  <2> QED BY <1>2, <1>3, <1>4, <2>2, ProgramLeads
<1> QED BY <1>6, <1>7, <1>8

\* What leaves a context in its place.
LEMMA PlaceKept ==
  ASSUME NEW catalog, NEW decode, NEW w, Sound(w), InProgram(catalog, decode, w), NEW x, NEW y
  PROVE  /\ InProgram(catalog, decode, Fail(w, x))
         /\ InProgram(catalog, decode, [w EXCEPT !.out = x, !.pos = y])
         /\ "message" \in DOMAIN x /\ x.message \in 0 .. catalog.messages - 1
              => InProgram(catalog, decode, [w EXCEPT !.rows = x])
<1>1. PICK fields : fields = {"status", "overrun", "fstack", "pc", "message", "rows"}
  OBVIOUS
<1>2. fields \subseteq DOMAIN w
  BY <1>1 DEF Sound, Keeps
<1>3. PICK range : range = 0 .. catalog.messages - 1
  OBVIOUS
<1>4. w.message \in range /\ "message" \in DOMAIN w.rows /\ w.rows.message \in range
  BY <1>3 DEF InProgram
<1>5. InProgram(catalog, decode, Fail(w, x))
  <2>1. PICK v : v = Fail(w, x)
    OBVIOUS
  <2>2. v.message = w.message /\ v.rows = w.rows /\ v.overrun
    BY <1>1, <1>2, <2>1 DEF Fail
  <2> QED BY <1>3, <1>4, <2>1, <2>2 DEF InProgram
<1>6. ASSUME NEW v, NEW rows, "message" \in DOMAIN rows, rows.message \in range, v.rows = rows,
             v.message = w.message, v.pc = w.pc, v.overrun = w.overrun,
             \A h : Keeps(w, w, h) => Keeps(v, v, h)
      PROVE  InProgram(catalog, decode, v)
  <2>1. ASSUME ~w.overrun PROVE Placed(Format(catalog, w.message, decode), v)
    <3>1. Placed(Format(catalog, w.message, decode), w)
      BY <2>1 DEF InProgram
    <3> QED BY <1>6, <3>1, Zenon DEF Placed
  <2> QED BY <1>3, <1>4, <1>6, <2>1 DEF InProgram
<1>7. InProgram(catalog, decode, [w EXCEPT !.out = x, !.pos = y])
  <2>1. PICK v : v = [w EXCEPT !.out = x, !.pos = y]
    OBVIOUS
  <2>2. v.rows = w.rows /\ v.message = w.message /\ v.pc = w.pc /\ v.overrun = w.overrun
    BY <1>1, <1>2, <2>1
  <2>3. \A h : Keeps(w, w, h) => Keeps(v, v, h)
    BY <2>1 DEF Keeps
  <2> QED BY <1>4, <1>6, <2>1, <2>2, <2>3
<1>8. ASSUME "message" \in DOMAIN x, x.message \in range
      PROVE  InProgram(catalog, decode, [w EXCEPT !.rows = x])
  <2>1. PICK v : v = [w EXCEPT !.rows = x]
    OBVIOUS
  <2>2. v.rows = x /\ v.message = w.message /\ v.pc = w.pc /\ v.overrun = w.overrun
    BY <1>1, <1>2, <2>1
  <2>3. \A h : Keeps(w, w, h) => Keeps(v, v, h)
    BY <2>1 DEF Keeps
  <2> QED BY <1>6, <1>8, <2>1, <2>2, <2>3
<1> QED BY <1>3, <1>5, <1>7, <1>8

\* A list ends, or has no record for its next row.
LEMMA RowsPlaced ==
  ASSUME Sound(wi), db.messages \in Nat, NEW decode, InProgram(db, decode, wi),
         EndRows \/ RowsOverflow
  PROVE  InProgram(db, decode, wi')
<1>1. "message" \in DOMAIN NoRows /\ NoRows.message \in 0 .. db.messages - 1
  <2>1. wi.message \in 0 .. db.messages - 1
    BY DEF InProgram
  <2> QED BY <2>1 DEF NoRows
<1>2. PICK u : /\ u = wi \/ \E s : u = Fail(wi, s)
               /\ wi' = [u EXCEPT !.rows = NoRows] \/ wi' = u
  BY DEF EndRows, RowsOverflow
<1>3. \A s : Sound(Fail(wi, s)) /\ InProgram(db, decode, Fail(wi, s))
  <2> TAKE s
  <2> QED BY FailSound, PlaceKept
<1>4. Sound(u) /\ InProgram(db, decode, u)
  BY <1>2, <1>3
<1>5. InProgram(db, decode, [u EXCEPT !.rows = NoRows])
  BY <1>1, <1>4, PlaceKept
<1> QED BY <1>2, <1>4, <1>5

\* A row begins.
LEMMA EnterRowPlaced ==
  ASSUME db.messages \in Nat, NEW decode, InProgram(db, decode, wi),
         \E S : suspended \in Seq(S), AllInProgram(db, decode, suspended), EnterRow,
         \A m \in 0 .. db.messages - 1 :
           Leads(Format(db, m, decode), Standing(-1, 0), Standing(-1, 0), m)
  PROVE  InProgram(db, decode, wi') /\ AllInProgram(db, decode, suspended')
<1>1. InProgram(db, decode, wi')
  <2>1. wi.rows.message \in 0 .. db.messages - 1
    BY DEF InProgram
  <2>2. \E r, d, i, b, o, q : wi' = Context(wi.rows.message, r, d, i, b, o, q)
    BY DEF EnterRow
  <2> QED BY <2>1, <2>2, ContextPlaced
<1>2. PICK S : suspended \in Seq(S)
  OBVIOUS
<1>3. suspended' = Append(suspended, wi)
  BY DEF EnterRow
<1>4. suspended \in Seq(S \cup {wi}) /\ wi \in S \cup {wi}
  BY <1>2
<1>5. Len(suspended') = Len(suspended) + 1 /\ Len(suspended) \in Nat
      /\ \A i \in 1 .. Len(suspended') :
           suspended'[i] = IF i = Len(suspended) + 1 THEN wi ELSE suspended[i]
  BY <1>3, <1>4
<1>6. ASSUME NEW i \in 1 .. Len(suspended') PROVE InProgram(db, decode, suspended'[i])
  <2>1. i = Len(suspended) + 1 \/ (i # Len(suspended) + 1 /\ i \in 1 .. Len(suspended))
    BY <1>5
  <2> QED BY <1>5, <2>1 DEF AllInProgram
<1> QED BY <1>1, <1>6 DEF AllInProgram

\* A row ends.
LEMMA LeaveRowPlaced ==
  ASSUME NEW decode, \E S : suspended \in Seq(S), AllWaiting, AllInProgram(db, decode, suspended),
         LeaveRow
  PROVE  InProgram(db, decode, wi') /\ AllInProgram(db, decode, suspended')
<1>1. PICK S : suspended \in Seq(S)
  OBVIOUS
<1>2. suspended # <<>> /\ suspended' = SubSeq(suspended, 1, Len(suspended) - 1)
  BY DEF LeaveRow, Front
<1>3. Len(suspended) \in Nat \ {0}
  BY <1>1, <1>2
<1>4. Len(suspended') = Len(suspended) - 1
      /\ \A i \in 1 .. Len(suspended') : suspended'[i] = suspended[i]
  BY <1>1, <1>2, ButLast
<1>5. ASSUME NEW i \in 1 .. Len(suspended') PROVE InProgram(db, decode, suspended'[i])
  <2>1. i \in 1 .. Len(suspended)
    BY <1>3, <1>4
  <2> QED BY <1>4, <2>1 DEF AllInProgram
<1>6. PICK parent : parent = suspended[Len(suspended)]
  OBVIOUS
<1>7. Sound(parent) /\ InProgram(db, decode, parent)
  <2>1. Len(suspended) \in 1 .. Len(suspended)
    BY <1>3
  <2> QED BY <1>6, <2>1 DEF AllWaiting, Waiting, AllInProgram
<1>8. PICK v : v = [parent EXCEPT !.out = wi.out, !.pos = wi.pos]
  OBVIOUS
<1>9. Sound(v) /\ InProgram(db, decode, v)
  BY <1>7, <1>8, UpdateSound, PlaceKept
<1>10. PICK rows : rows = [v.rows EXCEPT !.index = v.rows.index + 1]
  OBVIOUS
<1>11. "message" \in DOMAIN rows /\ rows.message \in 0 .. db.messages - 1
  <2>1. "message" \in DOMAIN v.rows /\ v.rows.message \in 0 .. db.messages - 1
    BY <1>9 DEF InProgram
  <2> QED BY <1>10, <2>1
<1>12. (\E s : wi' = Fail(parent, s)) \/ (\E s : wi' = Fail(v, s)) \/ wi' = [v EXCEPT !.rows = rows]
  <2>1. Last(suspended) = parent
    BY <1>6 DEF Last
  <2>2. wi' = IF Cause(wi) # "ok" THEN Fail(parent, Cause(wi)) ELSE AdvancedTo(v)
    BY <1>8, <2>1 DEF LeaveRow
  <2>3. AdvancedTo(v) = Fail(v, "schema") \/ AdvancedTo(v) = [v EXCEPT !.rows = rows]
    BY <1>10 DEF AdvancedTo
  <2> QED BY <2>2, <2>3
<1>13. InProgram(db, decode, wi')
  <2>1. \A s : InProgram(db, decode, Fail(parent, s)) /\ InProgram(db, decode, Fail(v, s))
    <3> TAKE s
    <3> QED BY <1>7, <1>9, PlaceKept
  <2>2. InProgram(db, decode, [v EXCEPT !.rows = rows])
    BY <1>9, <1>11, PlaceKept
  <2> QED BY <1>12, <2>1, <2>2
<1> QED BY <1>5, <1>13 DEF AllInProgram

LEMMA BalanceStep ==
  ASSUME CauseInv, CatalogInv, BalanceInv, [Next]_vars
  PROVE  BalanceInv'
<1>1. CASE Compile \/ Open
  <2>1. ~Running /\ result' = result
    BY <1>1 DEF Compile, Open, callVars, CauseInv
  <2> QED BY <2>1 DEF BalanceInv, Running
<1>2. CASE Send \/ ReceiveIntact \/ ReceiveCut \/ ReceiveFlipped \/ ReceiveAgain
  <2>1. /\ call'.decode \in BOOLEAN /\ suspended' = <<>>
        /\ wi' = Context(exchange.message, 1, 0, 0, 0, <<>>, 0)
    <3>1. CASE Send
      BY <3>1 DEF Send, Begin
    <3>2. ASSUME NEW octets, NEW records, Receive(octets, records)
          PROVE  /\ call'.decode \in BOOLEAN /\ suspended' = <<>>
                 /\ wi' = Context(exchange.message, 1, 0, 0, 0, <<>>, 0)
      BY <3>2 DEF Receive, Begin
    <3> QED BY <1>2, <3>1, <3>2 DEF ReceiveIntact, ReceiveCut, ReceiveFlipped, ReceiveAgain
  <2>2. stage \notin {"source", "invalid"} /\ db' = db
    BY <1>2 DEF Send, ReceiveIntact, ReceiveCut, ReceiveFlipped, ReceiveAgain, Receive
  <2>4. InProgram(db', call'.decode, wi')
    BY <2>1, <2>2, CatalogLeads, ContextPlaced
  <2>5. AllInProgram(db', call'.decode, suspended')
    <3>1. Len(<<>>) = 0
      OBVIOUS
    <3> QED BY <2>1, <3>1 DEF AllInProgram
  <2> QED BY <2>1, <2>4, <2>5 DEF BalanceInv
<1>3. CASE Sent \/ Received \/ Over
  <2>1. ~Running /\ result' = result
    BY <1>3 DEF Sent, Received, Over, vars, callVars, Running, CauseInv, Outcomes
  <2> QED BY <2>1 DEF BalanceInv, Running
<1>4. CASE Calling
  <2>1. db' = db /\ call' = call
    BY <1>4, StepKeepsCatalog DEF Calling
  <2>2. ASSUME Running
        PROVE  /\ db.messages \in Nat
               /\ \A m \in 0 .. db.messages - 1 :
                    Leads(Format(db, m, call.decode), Standing(-1, 0), Standing(-1, 0), m)
               /\ InProgram(db, call.decode, wi) /\ AllInProgram(db, call.decode, suspended)
               /\ call'.decode \in BOOLEAN
    BY <2>1, <2>2, CatalogLeads DEF BalanceInv, CauseInv
  <2>3. CASE Handling
    <3>1. Running /\ suspended' = suspended
      BY <2>3, HandlingRuns
    <3>2. InProgram(db, call.decode, wi')
      BY <2>2, <2>3, <3>1, HandlingPlaced
    <3> QED BY <2>1, <2>2, <3>1, <3>2 DEF BalanceInv
  <2>4. CASE EndRows \/ RowsOverflow
    <3>1. Running /\ suspended' = suspended
      BY <2>4 DEF EndRows, RowsOverflow, InRows
    <3>2. InProgram(db, call.decode, wi')
      BY <2>2, <2>4, <3>1, RowsPlaced DEF CauseInv
    <3> QED BY <2>1, <2>2, <3>1, <3>2 DEF BalanceInv
  <2>5. CASE EnterRow
    <3>1. Running
      BY <2>5 DEF EnterRow, InRows
    <3>2. InProgram(db, call.decode, wi') /\ AllInProgram(db, call.decode, suspended')
      BY <2>2, <2>5, <3>1, EnterRowPlaced DEF CauseInv
    <3> QED BY <2>1, <2>2, <3>1, <3>2 DEF BalanceInv
  <2>6. CASE LeaveRow
    <3>1. Running
      BY <2>6 DEF LeaveRow, ProgramOver
    <3>2. InProgram(db, call.decode, wi') /\ AllInProgram(db, call.decode, suspended')
      BY <2>2, <2>6, <3>1, LeaveRowPlaced DEF CauseInv
    <3> QED BY <2>1, <2>2, <3>1, <3>2 DEF BalanceInv
  <2>7. CASE EndCall
    <3>1. UNCHANGED <<wi, suspended>> /\ Running
      BY <2>7 DEF EndCall, ProgramOver
    <3> QED BY <2>1, <2>2, <3>1 DEF BalanceInv
  <2> QED
    BY <1>4, <2>3, <2>4, <2>5, <2>6, <2>7 DEF Calling, Step, Handling, Plainly
<1>5. CASE UNCHANGED vars
  BY <1>5 DEF vars, callVars, BalanceInv, Running
<1> QED BY <1>1, <1>2, <1>3, <1>4, <1>5 DEF Next

\* Whatever wfc has compiled and in whichever direction it runs, with whatever records
\* and octets: no operation finds fewer operands than it takes, in any branch, and a
\* program that ends leaves none.  (generate(), execute(), skip_branch)
THEOREM Balanced == Spec => []ProgramsBalanced
<1>1. CauseInv /\ CatalogInv /\ BalanceInv => ProgramsBalanced
  <2> SUFFICES ASSUME BalanceInv, Running, ~wi.overrun
               PROVE  IF AtEnd THEN wi.fstack = <<>>
                      ELSE wi.rows = NoRows => Len(wi.fstack) >= Takes(Current.op)
    BY DEF ProgramsBalanced
  <2>1. PICK p : p = Format(db, wi.message, call.decode)
    OBVIOUS
  <2>2. Placed(p, wi)
    BY <2>1 DEF BalanceInv, InProgram
  <2>3. PICK f : /\ Along(f, p, Standing(-1, 0), Standing(-1, 0), wi.message)
                 /\ Keeps(wi, wi, f[wi.pc - 1].height)
    BY <2>2 DEF Placed
  <2>4. PICK n \in Nat : n = Len(p)
    BY <2>2 DEF Placed, IsArray
  <2>5. wi.pc \in 1 .. n + 1
    BY <2>2, <2>4 DEF Placed
  <2>6. Len(wi.fstack) = f[wi.pc - 1].height /\ IsStack(wi.fstack)
    BY <2>3 DEF Keeps
  <2>7. CASE AtEnd
    <3>1. wi.pc - 1 = n
      BY <2>1, <2>4, <2>5, <2>7 DEF AtEnd
    <3>2. f[n].height = 0
      BY <2>3, <2>4 DEF Along, Standing
    <3>3. Len(wi.fstack) = 0
      BY <2>6, <3>1, <3>2
    <3>4. wi.fstack = <<>>
      BY <2>6, <3>3 DEF IsStack
    <3> QED BY <2>7, <3>4
  <2>8. CASE ~AtEnd
    <3>1. wi.pc \in 1 .. n /\ Current = p[wi.pc]
      BY <2>1, <2>4, <2>5, <2>8 DEF AtEnd, Current
    <3>2. Follows(f[wi.pc - 1], Current, f[wi.pc], wi.message)
      BY <2>3, <2>4, <3>1 DEF Along
    <3>3. Takes(Current.op) <= f[wi.pc - 1].height /\ f[wi.pc - 1].height \in Nat
      BY <3>2 DEF Follows
    <3>4. PICK takes, height : takes = Takes(Current.op) /\ height = f[wi.pc - 1].height
      OBVIOUS
    <3>5. takes \in Nat
      BY <3>4, TakesAndPuts
    <3>6. height >= takes
      BY <3>3, <3>4, <3>5
    <3> QED BY <2>6, <2>8, <3>4, <3>6
  <2> QED BY <2>7, <2>8
<1>2. Init => BalanceInv
  BY DEF Init, BalanceInv, Running
<1>3. CauseInv /\ CatalogInv /\ BalanceInv /\ [Next]_vars => BalanceInv'
  BY BalanceStep
<1>4. CauseInv /\ UNCHANGED vars => CauseInv'
  BY DEF CauseInv, AllWaiting, Waiting, Sound, Keeps, IsStack, vars, callVars, Running
<1>5. CauseInv /\ [Next]_vars => CauseInv'
  BY <1>4, CauseStep
<1>6. CatalogInv /\ [Next]_vars => CatalogInv'
  BY NextCatalog
<1> QED BY <1>1, <1>2, <1>3, <1>5, <1>6, CauseInit, InitCatalog, PTL DEF Spec
=============================================================================
