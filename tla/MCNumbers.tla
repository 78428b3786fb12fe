----------------------------- MODULE MCNumbers -----------------------------
(***************************************************************************)
(* Arithmetic and the numbers on the wire, on words of four four-bit       *)
(* bytes: small enough to try every shape of number, wide enough that SDNV *)
(* has room for a value that no longer fits a word.  Together with the     *)
(* record sequences: every handler that is not about control.              *)
(***************************************************************************)
EXTENDS MCRecords

P1 == N("p", 1)
P2 == N("p", 2)

Minimum == -(2 ^ (WordBits - 1))
Values ==
  {0, 1, 2, 3, 7, 8, 15, 16, 255, 256, -Minimum - 1,
   -1, -2, -3, -8, -16, -255, Minimum + 1, Minimum}

\* Programs that leave 1 on the stack whatever p1 and p2 are.
Identities ==
  {\* quotient and remainder make up the dividend, and the remainder has its sign
   P1 \o P2 \o T("/") \o P2 \o T("*") \o P1 \o P2 \o T("m") \o T("+") \o P1 \o T("=")
     \o P2 \o T("!") \o T("O"),
   \* and dividing by zero gives zero
   P1 \o Num(0) \o T("/") \o P1 \o Num(0) \o T("m") \o T("O") \o T("!"),
   P1 \o P2 \o T("m") \o Num(0) \o T("<") \o P1 \o Num(0) \o T("<") \o T("!") \o T("A") \o T("!"),
   P1 \o P2 \o T("+") \o P2 \o T("-") \o P1 \o T("="),
   P1 \o Num(2) \o T("*") \o P1 \o P1 \o T("+") \o T("="),
   P1 \o T("~") \o Num(1) \o T("+") \o Num(0) \o P1 \o T("-") \o T("="),
   \* exactly one of less, greater and equal
   P1 \o P2 \o T("<") \o P1 \o P2 \o T(">") \o T("+") \o P1 \o P2 \o T("=") \o T("+")
     \o Num(1) \o T("="),
   P1 \o T("~") \o P2 \o T("~") \o T("&") \o T("~") \o P1 \o P2 \o T("|") \o T("="),
   P1 \o P2 \o T("^") \o P1 \o P2 \o T("|") \o P1 \o P2 \o T("&") \o T("-") \o T("="),
   P1 \o T("!") \o P2 \o T("!") \o T("O") \o T("!") \o P1 \o P2 \o T("A") \o T("=")}

IdentityJobs ==
  {EncodeJob(NoTable, <<program>>, <<a, b>>, <<>>, <<>>, <<>>, <<>>, 0, {}) :
     program \in Identities, a \in Values, b \in Values}

WriterOps == {"b", "w", "W", "q", "d"}
ReaderOps == {"B", "S", "L", "Q", "D"}

WriteJobs ==
  {EncodeJob(NoTable, <<P1 \o T(op)>>, <<a>>, <<>>, <<>>, <<>>, <<>>, size, {}) :
     op \in WriterOps, a \in Values, size \in 0..SdnvMax}

\* Runs of continued groups between a first and a last byte, up to two bytes more
\* than %D reads, and every cut of them.
Wire == {<<first>> \o [i \in 1..m |-> middle] \o last :
           first \in {0, 5, Base - 1} \cup Group .. Group + 3, middle \in {Group, Base - 1},
           last \in {<<>>, <<0>>, <<Group - 1>>, <<Group>>}, m \in 0..SdnvMax}

ReadJobs ==
  {DecodeJob(NoTable, <<T(op) \o N("P", 0)>>, input, <<>>, <<>>, {}) :
     op \in ReaderOps, input \in Wire \cup {<<>>}}

\* Two fields that share a byte: width and position of the upper, then the lower.
Layouts == {<<1, 3, 3, 0>>, <<2, 2, 2, 0>>, <<3, 1, 1, 0>>, <<1, 2, 2, 0>>}
Field(width, pos, op) == Num(width) \o Num(pos) \o T(op)

PackText(layout) ==
  P1 \o Field(layout[1], layout[2], "x") \o P2 \o Field(layout[3], layout[4], "x")
  \o T("f") \o P2 \o Field(layout[3], layout[4], "x") \o T("f")
UnpackText(layout) ==
  Field(layout[1], layout[2], "X") \o N("P", 0) \o Field(layout[3], layout[4], "X")
  \o N("P", 1) \o T("f") \o Field(layout[3], layout[4], "X") \o N("P", 2)

PackJobs ==
  {EncodeJob(NoTable, <<PackText(layout)>>, <<a, b>>, <<>>, <<>>, <<>>, <<>>, 2, {}) :
     layout \in Layouts, a \in -2..8, b \in -2..8}
UnpackJobs ==
  {DecodeJob(NoTable, <<UnpackText(layout)>>, <<a, b>>, <<>>, <<>>, {}) :
     layout \in Layouts, a \in Byte, b \in {0, 5, Base - 1}}

ArrayJobs ==
  {EncodeJob(NoTable, <<P1 \o P2 \o N("r", size)>>, <<ptr, count>>, <<>>, <<>>, <<>>,
             <<1, 2, 3, 4, 5, 6, 7, 8>>, room, {}) :
     size \in 1..4, ptr \in {0, 1}, count \in -1..2, room \in {0, 3, 8}}

\* Shifts C does not define, %P with a bad name, malformed specifiers, numbers and
\* slices of the wrong direction, parameters and variables out of range, and an
\* operand stack that is empty or full.
Oddities ==
  {Num(1) \o Num(IntBits) \o Num(0) \o T("x") \o T("f"), Num(1) \o Num(1) \o Num(-1) \o T("x"),
   Num(1) \o Num(IntBits) \o T("X"), Num(1) \o N("P", MAX_VARS), N("g", MAX_VARS),
   N("p", MAX_PARAMS + 1), T("bad"), T("B"), Num(0) \o T("R"), Num(9) \o T("R"),
   Num(1) \o Num(9) \o T("N"), Num(1) \o Num(0) \o T("N"), Num(9) \o T("z"), Num(0) \o T("v"),
   Num(9) \o T("v"), Num(1) \o T("v"), Num(1) \o Num(1) \o T("V"), Num(0) \o Num(9) \o T("V"),
   Num(0) \o Num(1) \o T("V"), Num(2) \o Num(0) \o T("V"), T("+"), T("E"), Num(-1) \o T("E"),
   T("d"), T("x"), T("r"), Num(0) \o Num(1) \o Num(2) \o Num(3) \o Num(0), T("t") \o T(";"),
   T(":"), Lit(1) \o T("f"), T("J"), N("[", 0), Num(1) \o T("k"), T("N"), T("f")}

OddJobs ==
  {IF encode
   THEN EncodeJob(NoTable, <<odd, T("f")>>, <<>>,
                  <<[data |-> 1, length |-> 2]>>, <<>>, <<>>,
                  <<1, 2, 3>>, 3, {0})
   ELSE DecodeJob(NoTable, <<odd, T("B")>>, <<1, 2, 3>>, <<>>, <<>>, {0}) :
     encode \in BOOLEAN, odd \in Oddities}

DataJobs ==
  {j[2] : j \in ({1} \X RecordJobs) \cup ({2} \X IdentityJobs) \cup ({3} \X OddJobs)
              \cup ({4} \X WriteJobs) \cup ({5} \X ReadJobs) \cup ({6} \X PackJobs)
              \cup ({7} \X UnpackJobs) \cup ({8} \X ArrayJobs)}
-----------------------------------------------------------------------------
Returned == status = "returned"
Clean    == Returned /\ ~wi.overrun

\* The number the bytes spell in the given base, each taken modulo the base.
Spelled(bytes, base) ==
  MapThenSumSet(LAMBDA i : (bytes[i] % base) * base ^ (Len(bytes) - i), DOMAIN bytes)

\* The arithmetic specifiers obey the laws the programs above state, for every sign
\* and at the ends of the range: truncating division with a remainder that makes it
\* whole, wrapping + - *, consistent comparisons, bitwise duals.
IdentitiesHold ==
  Returned /\ job.tops[1] \in Identities => ~wi.overrun /\ wi.fstack = <<1>>

\* %b %w %W %q write exactly the low bytes of the value, most significant first; %d
\* writes the shortest SDNV of its 64-bit pattern; and they overrun if and only if
\* the encoding does not fit the buffer.
NumbersWriteExactly ==
  Returned /\ Len(job.tops[1]) = 2 /\ job.tops[1][2].op \in WriterOps =>
    LET op     == job.tops[1][2].op
        value  == Unsigned(job.params[0])
        width  == EmitSize(op)
        groups == Len(wi.out)
    IN IF op = "d"
       THEN /\ wi.overrun <=> value >= Group ^ job.out_size \/ job.out_size = 0
            /\ ~wi.overrun =>
                 /\ Spelled(wi.out, Group) = value
                 /\ \A i \in 1..groups : wi.out[i] >= Group <=> i < groups
                 /\ groups > 1 => wi.out[1] # Group
       ELSE /\ wi.overrun <=> width > job.out_size
            /\ ~wi.overrun => groups = width /\ Spelled(wi.out, Base) = value % Base ^ width

\* %B %S %L %Q read exactly their width.  %D accepts an SDNV if and only if it ends
\* within SdnvMax bytes and its value fits the 64-bit word, leading zero groups
\* included: the overflow test before the shift loses nothing and lets nothing by.
NumbersReadExactly ==
  Returned /\ Len(job.tops[1]) = 2 /\ job.tops[1][1].op \in ReaderOps =>
    LET op    == job.tops[1][1].op
        width == ReadSize(op)
        Ends(k) == job.mem[k] < Group /\ \A i \in 1..k-1 : job.mem[i] >= Group
        Number_(k) == Spelled(SubSeq(job.mem, 1, k), IF op = "D" THEN Group ELSE Base)
        Accepted(k) == IF op = "D" THEN k <= SdnvMax /\ Ends(k) /\ Number_(k) < Modulus
                                   ELSE k = width
    IN /\ ~wi.overrun <=> \E k \in 1..job.in_size : Accepted(k)
       /\ ~wi.overrun => Accepted(wi.in_pos) /\ Unsigned(wi.vars[0]) = Number_(wi.in_pos)

\* Bit fields that do not overlap share a byte without disturbing each other, and
\* %f separates one byte's fields from the next one's, in both directions.
FieldsDoNotMix ==
  Clean =>
    \A layout \in Layouts :
      LET Upper(n) == n % 2 ^ layout[1]
          Lower(n) == n % 2 ^ layout[3]
      IN /\ job.tops[1] = PackText(layout) =>
              wi.out = <<Upper(job.params[0]) * 2 ^ layout[2] + Lower(job.params[1]),
                         Lower(job.params[1])>>
         /\ job.tops[1] = UnpackText(layout) =>
              /\ wi.vars[0] = Upper(job.mem[1] \div 2 ^ layout[2])
              /\ wi.vars[1] = Lower(job.mem[1])
              /\ wi.vars[2] = Lower(job.mem[2])

\* %rN writes the elements of a host array in network order, and refuses a missing
\* array and an element size that is none.
ArraysInNetworkOrder ==
  Returned /\ Len(job.tops[1]) = 3 /\ job.tops[1][3].op = "r" =>
    LET size  == job.tops[1][3].n
        count == job.params[1]
        Element(e) == MapThenSumSet(LAMBDA i : job.mem[e * size + i] * Base ^ (i - 1), 1..size)
        Emitted(e) == Spelled(SubSeq(wi.out, e * size + 1, (e + 1) * size), Base)
    IN /\ wi.overrun <=> \/ size = 3
                         \/ count # 0 /\ job.params[0] = NULL
                         \/ count > 0 /\ count * size > job.out_size
       /\ ~wi.overrun => /\ Len(wi.out) = count * size
                         /\ \A e \in 0..count-1 : Emitted(e) = Element(e)
=============================================================================
