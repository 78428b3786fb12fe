----------------------------- MODULE WireRecord -----------------------------
(***************************************************************************)
(* Named records: wire_info_encode() and wire_info_decode() running the    *)
(* programs of a loaded catalog with the operations that                   *)
(* wire_format_record.inc adds to the interpreter.                         *)
(*                                                                         *)
(* One step executes one token, one turn of record_sequence()'s loop, or   *)
(* the end of a program.  wi is the running wi_vars_t with its             *)
(* wi_record_scope_t; the contexts of the enclosing messages wait in       *)
(* suspended.  A child reads and writes the window its parent has left, so *)
(* out and pos count from the beginning of the caller's buffer in all of   *)
(* them.  Numbers are unsigned words; bits is write_bits or read_bits, and *)
(* acc the bits pending or not yet read.                                   *)
(***************************************************************************)
EXTENDS RecordImage, Formats

CONSTANTS STACK_DEPTH, CALL_DEPTH

VARIABLES
  db,         \* the catalog
  call,       \* [decode, message, root, room, input], or what is left of the last one
  wi,         \* the running context
  suspended,  \* those waiting in record_sequence(), outermost first
  heap,       \* the caller's records: record |-> field |-> value
  result      \* "running", and then the status of the call

callVars == <<db, call, wi, suspended, heap, result>>

\* A wire_info_value_t; records are heap numbers and their number is the capacity.
NoValue == [number |-> 0, bytes |-> <<>>, count |-> 0, records |-> <<>>]

NoCrc  == [record |-> 0, field |-> 0, at |-> 0, from |-> 0, algorithm |-> 0]
NoRows == [list |-> 0, owner |-> 0, message |-> 0, count |-> 0, until |-> 0, index |-> 0]

\* wi_init(), wi_decode_init() and the scope of a message.
Context(message, record, depth, index, base, out, pos) ==
  [message |-> message, record |-> record, depth |-> depth, index |-> index, base |-> base,
   pc |-> 1, fstack |-> <<>>, out |-> out, pos |-> pos, bits |-> 0, acc |-> 0,
   overrun |-> FALSE, status |-> "ok", crc |-> NoCrc, rows |-> NoRows]

Encoding == ~call.decode

-----------------------------------------------------------------------------
(* record_fail(), the stack, octets and bits                                 *)

\* The first cause is kept.
Fail(w, status) ==
  [w EXCEPT !.status = IF @ = "ok" THEN status ELSE @, !.overrun = TRUE]

Operand(w, i) ==
  IF ~w.overrun /\ i <= Len(w.fstack) THEN w.fstack[Len(w.fstack) - i + 1] ELSE 0

Popped(w, k) ==
  IF w.overrun THEN w
  ELSE IF k <= Len(w.fstack)
    THEN [w EXCEPT !.fstack = SubSeq(@, 1, Len(@) - k)]
    ELSE [w EXCEPT !.fstack = <<>>, !.overrun = TRUE]

Push(w, n) ==
  IF w.overrun THEN w
  ELSE IF Len(w.fstack) < STACK_DEPTH THEN [w EXCEPT !.fstack = Append(@, n)]
  ELSE [w EXCEPT !.overrun = TRUE]

Unread(w) == Len(call.input) - w.pos
Room(w)   == call.room - Len(w.out)

\* Mutant: what does not fit is written before it is noticed.
EmitBeyond(w, octets) ==
  IF w.overrun THEN w
  ELSE [w EXCEPT !.out = @ \o octets, !.overrun = Len(octets) > Room(w)]

\* b_emit() for each octet.
Emit(w, octets) ==
  IF w.overrun THEN w
  ELSE [w EXCEPT !.out = @ \o SubSeq(octets, 1, Min({Room(w), Len(octets)})),
                 !.overrun = Len(octets) > Room(w)]

\* record_position(): the octet the next bit belongs to.
Position(w) == IF Encoding THEN Len(w.out) ELSE w.pos - Bool(w.bits # 0)

Aligned(w) == IF w.bits # 0 THEN Fail(w, "schema") ELSE w

\* A pop that overran is noticed before the alignment is looked at.
AlignedUnlessOver(w) == IF w.overrun THEN w ELSE Aligned(w)

\* record_bits() of an encoder.
EmitBits(w, value, width) ==
  IF w.overrun THEN w
  ELSE IF width > WordBits \/ (width < WordBits /\ value >= 2 ^ width) THEN Fail(w, "range")
  ELSE LET bits == w.bits + width
           all  == w.acc * 2 ^ width + value
       IN [Emit(w, BigEndian(all \div 2 ^ (bits % BYTE_BITS), bits \div BYTE_BITS)) EXCEPT
             !.bits = bits % BYTE_BITS, !.acc = all % 2 ^ (bits % BYTE_BITS)]

\* record_bits() of a decoder: the context behind it and the value.  At the end of
\* the input a zero bit stands for the one that is missing.
ReadBits(w, width) ==
  LET octets == IF width <= w.bits THEN 0
                ELSE (width - w.bits + BYTE_BITS - 1) \div BYTE_BITS
      loaded == Min({octets, Unread(w)})
      all    == w.acc * Base ^ loaded + Number(SubSeq(call.input, w.pos + 1, w.pos + loaded))
      left   == w.bits + loaded * BYTE_BITS - width
  IN IF w.overrun THEN [w |-> w, value |-> 0]
     ELSE IF width > WordBits THEN [w |-> Fail(w, "range"), value |-> 0]
     ELSE IF loaded < octets
       THEN [w |-> [w EXCEPT !.pos = @ + loaded, !.overrun = TRUE], value |-> (all * 2) % Modulus]
     ELSE [w |-> [w EXCEPT !.pos = @ + loaded, !.bits = left, !.acc = all % 2 ^ left],
           value |-> all \div 2 ^ left]

-----------------------------------------------------------------------------
(* Names: record_lookup()                                                    *)

\* The contexts from the outermost to the running one.
Scopes == Append(suspended, wi)

\* The innermost message that has the name, up messages further out at least.
Found(name, up) ==
  LET having == {k \in 1 .. Len(Scopes) - up : FieldOf(db, Scopes[k].message, name) # 0}
  IN IF having = {} THEN [scope |-> 0, field |-> 0]
     ELSE [scope |-> Max(having), field |-> FieldOf(db, Scopes[Max(having)].message, name)]

Running == result = "running"
AtEnd   == wi.pc > Len(Format(db, wi.message, call.decode))
Current == Format(db, wi.message, call.decode)[wi.pc]
Doing(ops) ==
  Running /\ wi.rows = NoRows /\ ~wi.overrun /\ ~AtEnd /\ Current.op \in ops

Here  == Found(Current.name, Current.up)
Owner == Scopes[Here.scope].record
Value == heap[Owner][Here.field]

\* A handler leaves the context w behind.
Do(w) == wi' = [w EXCEPT !.pc = @ + 1] /\ UNCHANGED <<db, call, suspended, heap, result>>

\* A handler that writes a field too.
DoAndSet(w, field, value) ==
  /\ wi' = [w EXCEPT !.pc = @ + 1]
  /\ heap' = [heap EXCEPT ![Owner][Here.field][field] = value]
  /\ UNCHANGED <<db, call, suspended, result>>

\* record_operand(): a handler that needs its name starts like this.
DoingNamed(ops) == Doing(ops) /\ Here.scope # 0

NameUnknown ==
  /\ Doing(Named) /\ Here.scope = 0
  /\ Do(Fail(wi, "schema"))

-----------------------------------------------------------------------------
(* Literals, fields, conditionals                                            *)

PushLiteral == Doing({"{"}) /\ Do(Push(wi, Current.n))

LoadField == DoingNamed({"g"}) /\ Do(Push(wi, Value.number))

StoreField ==
  /\ DoingNamed({"P"})
  /\ IF wi.fstack = <<>> THEN Do(Popped(wi, 1))
                         ELSE DoAndSet(Popped(wi, 1), "number", Operand(wi, 1))

MeasureField ==
  /\ DoingNamed({"z", "k"})
  /\ Do(Push(wi, IF Current.op = "z" THEN Len(Value.bytes) ELSE Value.count))

ClearField ==
  /\ DoingNamed({"uZ"})
  /\ wi' = [wi EXCEPT !.pc = @ + 1]
  /\ heap' = [heap EXCEPT ![Owner][Here.field] = [NoValue EXCEPT !.records = Value.records]]
  /\ UNCHANGED <<db, call, suspended, result>>

NoBranch == Doing({"?", ";"}) /\ Do(wi)

\* skip_branch(): past the first %; of this conditional, or its %e if allowed.
Behind(ops) ==
  LET program == Format(db, wi.message, call.decode)
      Depth(i) == Cardinality({j \in wi.pc + 1 .. i - 1 : program[j].op = "?"})
                  - Cardinality({j \in wi.pc + 1 .. i - 1 : program[j].op = ";"})
      ends == {i \in wi.pc + 1 .. Len(program) : program[i].op \in ops /\ Depth(i) = 0}
  IN Min(ends)

Jump(w, pc) == wi' = [w EXCEPT !.pc = pc] /\ UNCHANGED <<db, call, suspended, heap, result>>

TestCondition ==
  /\ Doing({"t"})
  /\ IF Operand(wi, 1) = 0 THEN Jump(Popped(wi, 1), Behind({"e", ";"}) + 1)
                           ELSE Do(Popped(wi, 1))

SkipElse == Doing({"e"}) /\ Jump(wi, Behind({";"}) + 1)

-----------------------------------------------------------------------------
(* Arithmetic: every overflow is an error                                    *)

\* Mutant: the sum may be one more than a word holds.
OutOfRangeLate(op, a, b) ==
  CASE op = "u+" -> a + b > Modulus
    [] op = "u-" -> a < b
    [] op = "u*" -> b # 0 /\ a > (Modulus - 1) \div b
    [] op \in {"u/", "um"} -> b = 0
    [] op \in {"u[", "u]"} -> b >= WordBits
    [] OTHER -> FALSE

OutOfRange(op, a, b) ==
  CASE op = "u+" -> a + b >= Modulus
    [] op = "u-" -> a < b
    [] op = "u*" -> b # 0 /\ a > (Modulus - 1) \div b
    [] op \in {"u/", "um"} -> b = 0
    [] op \in {"u[", "u]"} -> b >= WordBits
    [] OTHER -> FALSE

Combined(op, a, b) ==
  LET A == BitsOf(a, WordBits)
      B == BitsOf(b, WordBits)
  IN CASE op = "u+" -> a + b              [] op = "u-" -> a - b
       [] op = "u*" -> a * b              [] op = "u/" -> a \div b
       [] op = "um" -> a % b              [] op = "u&" -> OfBits(A \cap B, WordBits)
       [] op = "u|" -> OfBits(A \cup B, WordBits)
       [] op = "u^" -> OfBits((A \ B) \cup (B \ A), WordBits)
       [] op = "u[" -> (a % 2 ^ (WordBits - b)) * 2 ^ b
       [] op = "u]" -> a \div 2 ^ b       [] op = "u=" -> Bool(a = b)
       [] op = "u~" -> Bool(a # b)        [] op = "u<" -> Bool(a < b)
       [] op = "ul" -> Bool(a <= b)       [] op = "u>" -> Bool(a > b)
       [] op = "ug" -> Bool(a >= b)       [] op = "uA" -> Bool(a # 0 /\ b # 0)
       [] op = "uO" -> Bool(a # 0 \/ b # 0)

Combine ==
  /\ Doing({Binaries[b] : b \in DOMAIN Binaries})
  /\ LET a == Operand(wi, 2)
         b == Operand(wi, 1)
         w == Popped(wi, 2)
     IN Do(IF w.overrun THEN w
           ELSE IF OutOfRange(Current.op, a, b) THEN Fail(w, "range")
           ELSE Push(w, Combined(Current.op, a, b)))

Negate == Doing({"u!"}) /\ Do(Push(Popped(wi, 1), Bool(Operand(wi, 1) = 0)))

\* Both values have been computed already.
Select ==
  /\ Doing({"u?"})
  /\ Do(Push(Popped(wi, 3), IF Operand(wi, 3) # 0 THEN Operand(wi, 2) ELSE Operand(wi, 1)))

\* %uk; an encoder has no input.
Query ==
  /\ Doing({"ur", "up", "uo", "un", "uk"})
  /\ Do(CASE Current.op = "ur" -> Push(wi, IF Encoding THEN Room(wi) ELSE Unread(wi))
          [] Current.op = "up" -> Push(wi, Position(wi))
          [] Current.op = "uo" -> Push(wi, wi.base)
          [] Current.op = "un" -> Push(wi, wi.index)
          [] Current.op = "uk" -> IF Encoding \/ Unread(wi) = 0 THEN Fail(wi, "truncated")
                                  ELSE Push(wi, call.input[wi.pos + 1]))

\* WIRE_INFO_ARGUMENT, WIRE_INFO_SCHEMA, ...
Statuses == <<"argument", "schema", "range", "truncated", "capacity", "constant", "checksum",
              "constraint">>

Require ==
  /\ Doing({"ua"})
  /\ LET code == Operand(wi, 1)
         w    == Popped(wi, 2)
     IN Do(IF code \notin DOMAIN Statuses THEN Fail(w, "schema")
           ELSE IF Operand(wi, 2) = 0 THEN Fail(w, Statuses[code]) ELSE w)

\* %us: the octets of a number in the opposite order.
Swap ==
  /\ Doing({"us"})
  /\ LET width == Operand(wi, 1)
         value == Operand(wi, 2)
         w     == Popped(wi, 2)
     IN Do(IF width = 0 \/ width > WordBits \/ width % BYTE_BITS # 0
              \/ (width < WordBits /\ value >= 2 ^ width)
           THEN Fail(w, "range")
           ELSE Push(w, Number(LittleEndian(value, width \div BYTE_BITS))))

-----------------------------------------------------------------------------
(* Numbers on the wire                                                       *)

RequireAligned == Doing({"uf"}) /\ Do(Aligned(wi))

\* %i and %j, each refused in the other direction.
EmitField ==
  /\ Doing({"i"})
  /\ LET w == Popped(wi, 2)
     IN Do(IF Encoding THEN EmitBits(w, Operand(wi, 2), Operand(wi, 1)) ELSE Fail(w, "schema"))

ReadField ==
  /\ Doing({"j"})
  /\ LET read == ReadBits(Popped(wi, 1), Operand(wi, 1))
     IN Do(IF Encoding THEN Fail(Popped(wi, 1), "schema") ELSE Push(read.w, read.value))

\* %d and %D (module WireFormat).
EmitSdnv ==
  /\ Doing({"d"})
  /\ \E k \in 1..SdnvMax :
        IsSdnvLength(Operand(wi, 1), k) /\ Do(Emit(Popped(wi, 1), Sdnv(Operand(wi, 1), k)))

ReadSdnv ==
  /\ Doing({"D"})
  /\ LET limit == Min({Unread(wi), SdnvMax})
         bytes == SubSeq(call.input, wi.pos + 1, wi.pos + limit)
         ends  == {i \in 1..limit : SdnvOverflows(bytes, i) \/ SdnvEnds(bytes, i)}
         k     == Min(ends \cup {limit + 1})
         w     == [wi EXCEPT !.pos = @ + Min({k, limit})]
     IN Do(IF k > limit \/ SdnvOverflows(bytes, k) THEN [w EXCEPT !.overrun = TRUE]
           ELSE Push(w, SdnvValue(bytes, k)))

\* record_cbor(): the widths of the codes 24 and 25; a word has no room for more.
CborCode(value) == IF value < 24 THEN value ELSE IF value < Base THEN 24 ELSE 25
CborWidth(code) == BYTE_BITS * 2 ^ (code - 24)
Indefinite == 31

EmitCbor(w, major, value) ==
  LET code == CborCode(value)
      head == Emit(w, <<major * 32 + code>>)
  IN IF major = 4 /\ value = MaxWord THEN Emit(w, <<4 * 32 + Indefinite>>)
     ELSE IF code >= 24 THEN EmitBits(head, value, CborWidth(code)) ELSE head

\* The head octet that is missing is read as zero, so that a cut can also look like
\* the wrong type or like a number that would have needed fewer octets.
ReadCbor(w, major) ==
  LET head == ReadBits(w, BYTE_BITS)
      octet == IF head.w.overrun THEN 0 ELSE head.value
      code == octet % 32
      tail == ReadBits(head.w, CborWidth(code))
      minimal == tail.value >= 24 /\ (code > 24 => tail.value >= 2 ^ (CborWidth(code) \div 2))
  IN IF octet \div 32 # major THEN [w |-> Fail(head.w, "constant"), value |-> 0]
     ELSE IF major = 4 /\ code = Indefinite THEN [w |-> head.w, value |-> MaxWord]
     ELSE IF code < 24 THEN [w |-> head.w, value |-> code]
     ELSE IF code > 25 THEN [w |-> Fail(head.w, "range"), value |-> 0]
     ELSE [tail EXCEPT !.w = IF minimal THEN @ ELSE Fail(@, "range")]

\* record_cbor() in the direction of the call.
Cbor(w, major, value) ==
  LET aligned == Aligned(w)
  IN IF aligned.overrun THEN [w |-> aligned, value |-> 0]
     ELSE IF Encoding THEN [w |-> EmitCbor(w, major, value), value |-> value]
     ELSE ReadCbor(w, major)

CborHead ==
  /\ Doing({"ub"})
  /\ LET major == Operand(wi, 1)
         w     == Popped(wi, 2)
         head  == Cbor(w, major, Operand(wi, 2))
     IN Do(IF major > 4 THEN Fail(w, "schema") ELSE Push(head.w, head.value))

\* The most digits of which every number fits a word.
MaxDigits == CHOOSE d \in 1 .. WordBits : 10 ^ d <= Modulus /\ Modulus < 10 ^ (d + 1)

\* There is such a number, because a word has room for a digit; and ^ means powers of
\* ten (compare PowersAssumption).
ASSUME DigitsAssumption ==
  /\ \E d \in 1 .. WordBits : 10 ^ d <= Modulus /\ Modulus < 10 ^ (d + 1)
  /\ 10 ^ 0 = 1
  /\ \A k \in 0 .. MaxDigits - 1 : 10 ^ k \in Nat \ {0} /\ 10 ^ (k + 1) = 10 * 10 ^ k

\* A digit is an ASCII octet, or half an octet of packed BCD.
DigitWidth(mode) == IF mode = 0 THEN 8 ELSE 4
DigitBase(mode)  == IF mode = 0 THEN 48 ELSE 0

EmitDigits(w, value, width, mode) ==
  LET after[j \in 0 .. width] ==
        IF j = 0 THEN w
        ELSE EmitBits(after[j - 1], DigitBase(mode) + ((value \div 10 ^ (width - j)) % 10),
                      DigitWidth(mode))
  IN after[width]

\* What is no digit is refused at once, the end of the input after the loop.
ReadDigits(w, width, mode) ==
  LET after[j \in 0 .. width] ==
        IF j = 0 THEN [w |-> w, value |-> 0]
        ELSE LET before == after[j - 1]
                 read   == ReadBits(before.w, DigitWidth(mode))
                 digit  == read.value - DigitBase(mode)
             IN IF before.w.overrun THEN before
                ELSE [w |-> IF digit \in 0..9 THEN read.w ELSE Fail(read.w, "range"),
                      value |-> before.value * 10 + digit]
  IN after[width]

Decimal ==
  /\ Doing({"ud"})
  /\ LET mode  == Operand(wi, 1)
         width == Operand(wi, 2)
         value == Operand(wi, 3)
         w     == Popped(wi, 3)
         read  == ReadDigits(w, width, mode)
     IN Do(IF width \notin 1 .. MaxDigits \/ mode > 1 THEN Fail(w, "range")
           ELSE IF ~Encoding THEN Push(read.w, read.value)
           ELSE IF value \div 10 ^ (width - 1) > 9 THEN Fail(w, "range")
           ELSE Push(EmitDigits(w, value, width, mode), value))

Masked(octet, mask) ==
  OfBits(BitsOf(octet, BYTE_BITS) \cap BitsOf(mask, BYTE_BITS), BYTE_BITS)

\* Exactly the last octet must look like an end.
EmitTerminated(w, value, n, mask, stop) ==
  LET octets == BigEndian(value, n)
  IN IF \E j \in 1..n : (Masked(octets[j], mask) = stop) # (j = n) THEN Fail(w, "range")
     ELSE Emit(w, octets)

ReadTerminated(w, mask, stop) ==
  LET after[j \in 0 .. WORD_BYTES] ==
        IF j = 0 THEN [w |-> w, value |-> 0, ended |-> FALSE]
        ELSE LET before == after[j - 1]
                 read   == ReadBits(before.w, BYTE_BITS)
             IN IF before.ended \/ before.w.overrun THEN before
                ELSE [w |-> read.w, value |-> before.value * Base + read.value,
                      ended |-> Masked(read.value, mask) = stop]
      last == after[WORD_BYTES - 1]
      all  == after[WORD_BYTES]
  IN IF last.ended \/ last.w.overrun \/ all.ended THEN all
     ELSE [all EXCEPT !.w = Fail(@, "range")]

Terminated ==
  /\ Doing({"uT"})
  /\ LET stop  == Operand(wi, 1)
         mask  == Operand(wi, 2)
         value == Operand(wi, 4)
         n     == IF Operand(wi, 3) > 0 THEN Operand(wi, 3)
                  ELSE Min({k \in 1 .. WORD_BYTES : value < Base ^ k})
         w     == Popped(wi, 4)
         read  == ReadTerminated(w, mask, stop)
     IN Do(IF mask \notin 1 .. Base - 1 \/ stop >= Base \/ Masked(stop, mask) # stop
           THEN Fail(w, "schema")
           ELSE IF ~Encoding THEN Push(read.w, read.value)
           ELSE IF n > WORD_BYTES \/ value >= Base ^ n THEN Fail(w, "range")
           ELSE Push(EmitTerminated(w, value, n, mask, stop), value))

-----------------------------------------------------------------------------
(* Byte fields                                                               *)

ByteAt ==
  /\ DoingNamed({"uh"})
  /\ LET i == Operand(wi, 1)
         w == Popped(wi, 1)
     IN Do(IF i >= Len(Value.bytes) THEN Fail(w, "range") ELSE Push(w, Value.bytes[i + 1]))

\* record_slice(): the operand of %V and %N, all of the field or of the input for
\* %v and %R.
SliceField ==
  /\ DoingNamed({"v", "V", "R", "N"})
  /\ LET exact  == Current.op \in {"V", "N"}
         w      == AlignedUnlessOver(IF exact THEN Popped(wi, 1) ELSE wi)
         length == IF exact THEN Operand(wi, 1)
                   ELSE IF Encoding THEN Len(Value.bytes) ELSE Unread(wi)
     IN IF w.overrun THEN Do(w)
        ELSE IF Encoding
          THEN Do(IF length # Len(Value.bytes) THEN Fail(w, "range")
                  ELSE IF length > Room(w) THEN Fail(w, "capacity")
                  ELSE Emit(w, Value.bytes))
        ELSE IF length > Unread(w) THEN Do(Fail(w, "truncated"))
        ELSE DoAndSet([w EXCEPT !.pos = @ + length], "bytes",
                      SubSeq(call.input, w.pos + 1, w.pos + length))

-----------------------------------------------------------------------------
(* Record lists                                                              *)

\* %uI, %uU, %uC
QueryList ==
  /\ DoingNamed({"uI", "uU", "uC"})
  /\ LET w      == IF Current.op = "uU" THEN wi ELSE Popped(wi, 1)
         arg    == Operand(wi, 1)
         child  == Child(db, Scopes[Here.scope].message, Here.field)
         member == IF child = NONE THEN 0 ELSE FieldOf(db, child, Current.member)
         numbers == [i \in 1 .. Value.count |-> heap[Value.records[i]][member].number]
     IN Do(IF w.overrun THEN w
           ELSE IF member = 0 THEN Fail(w, "schema")
           ELSE IF \/ Value.count > Len(Value.records)
                   \/ \E i \in 1 .. Value.count : member > Len(heap[Value.records[i]])
             THEN Fail(w, "capacity")
           ELSE CASE Current.op = "uI" -> IF arg >= Value.count THEN Fail(w, "range")
                                          ELSE Push(w, numbers[arg + 1])
                  [] Current.op = "uU" -> Push(w, Bool(IsInjective(numbers)))
                  [] Current.op = "uC" ->
                       Push(w, Cardinality({i \in DOMAIN numbers : numbers[i] = arg})))

Rank == IF wi.depth = 0 THEN db.messages ELSE wi.message
Unbounded(rows) == rows.count = MaxWord

\* record_sequence() up to its loop.
BeginRows ==
  /\ DoingNamed({"J"})
  /\ LET until == Operand(wi, 1)
         asked == Operand(wi, 2)
         count == IF Encoding /\ asked = MaxWord THEN Value.count ELSE asked
         w     == AlignedUnlessOver(Popped(wi, 2))
     IN Do(IF w.overrun THEN w
           ELSE IF Current.n >= Rank \/ Current.n >= db.messages \/ w.depth + 1 >= CALL_DEPTH
             THEN Fail(w, "schema")
           ELSE IF (Encoding /\ count # Value.count)
                   \/ (count # MaxWord /\ count > Len(Value.records))
             THEN Fail(w, "capacity")
           ELSE [w EXCEPT !.rows = [list |-> Here.field, owner |-> Owner, message |-> Current.n,
                                    count |-> count, until |-> until, index |-> 0]])

InRows == Running /\ wi.rows # NoRows /\ ~wi.overrun
List   == heap[wi.rows.owner][wi.rows.list]
CountRows(n) == heap' = IF Encoding THEN heap
                        ELSE [heap EXCEPT ![wi.rows.owner][wi.rows.list].count = n]

\* A decoder of an unbounded sequence stands before its end.
Delimited == Unbounded(wi.rows) /\ (Unread(wi) > 0 => call.input[wi.pos + 1] = wi.rows.until)
RowsDone  == wi.rows.index >= wi.rows.count \/ (~Encoding /\ Delimited)

EndRows ==
  /\ InRows /\ RowsDone
  /\ wi' = LET cut == wi.rows.index < wi.rows.count /\ Unread(wi) = 0
                      /\ wi.rows.until # EndOfInput
           IN [(IF cut THEN Fail(wi, "truncated") ELSE wi) EXCEPT !.rows = NoRows]
  /\ CountRows(wi.rows.index)
  /\ UNCHANGED <<db, call, suspended, result>>

\* Mutant: only the number of records is looked at.
RowThere == wi.rows.index < Len(List.records)

\* The record for the next row, if the list has one with all the fields of its message.
NextRow == List.records[wi.rows.index + 1]
RowFits == /\ wi.rows.index < Len(List.records)
           /\ FieldCount(db, wi.rows.message) <= Len(heap[NextRow])

RowsOverflow ==
  /\ InRows /\ ~RowsDone /\ ~RowFits
  /\ wi' = Fail(wi, "capacity")
  /\ UNCHANGED <<db, call, suspended, heap, result>>

EnterRow ==
  /\ InRows /\ ~RowsDone /\ RowFits
  /\ suspended' = Append(suspended, wi)
  /\ wi' = Context(wi.rows.message, NextRow, wi.depth + 1,
                   wi.rows.index, Position(wi), wi.out, wi.pos)
  /\ CountRows(wi.rows.index)
  /\ UNCHANGED <<db, call, result>>

\* Mutant: a row that consumed nothing counts like any other.
AdvancedFreely(parent) == [parent EXCEPT !.rows.index = @ + 1]

\* The parent behind a row that went well.
AdvancedTo(parent) ==
  IF Position(parent) = wi.base /\ Unbounded(parent.rows) THEN Fail(parent, "schema")
  ELSE [parent EXCEPT !.rows.index = @ + 1]

\* What the end of the buffer means to a context without a cause of its own.
Exhausted == IF Encoding THEN "capacity" ELSE "truncated"

\* Mutant: the flag is looked at before the cause.
CauseUnread(w) == IF w.overrun THEN Exhausted
                  ELSE IF w.bits # 0 \/ w.fstack # <<>> THEN "schema" ELSE "ok"

\* The status of a context that is over.
Cause(w) == IF w.status # "ok" THEN w.status
            ELSE IF w.overrun THEN Exhausted
            ELSE IF w.bits # 0 \/ w.fstack # <<>> THEN "schema" ELSE "ok"

ProgramOver == Running /\ (wi.overrun \/ (AtEnd /\ wi.rows = NoRows))

LeaveRow ==
  /\ ProgramOver /\ suspended # <<>>
  /\ LET parent == Last(suspended)
     IN wi' = IF Cause(wi) # "ok" THEN Fail(parent, Cause(wi))
              ELSE AdvancedTo([parent EXCEPT !.out = wi.out, !.pos = wi.pos])
  /\ suspended' = Front(suspended)
  /\ UNCHANGED <<db, call, heap, result>>

-----------------------------------------------------------------------------
(* Checksums: the two algorithms of 16 bits                                  *)

Xor(a, b) ==
  LET A == BitsOf(a, 16)
      B == BitsOf(b, 16)
  IN OfBits((A \ B) \cup (B \ A), 16)

CrcBit(crc, algorithm) ==
  IF algorithm = 1
  THEN IF crc >= 2^15 THEN Xor((crc * 2) % 2^16, 4129) ELSE crc * 2
  ELSE IF crc % 2 = 1 THEN Xor(crc \div 2, 33800) ELSE crc \div 2

CrcOctet(crc, octet, algorithm) ==
  LET after[j \in 0..8] ==
        IF j = 0 THEN Xor(crc, IF algorithm = 1 THEN octet * 2^8 ELSE octet)
                 ELSE CrcBit(after[j - 1], algorithm)
  IN after[8]

\* record_checksum(): octets from .. end-1, zero in place of the two at zero.
Checksum(data, from, end, zero, algorithm) ==
  LET after[i \in from .. end] ==
        IF i = from THEN 2^16 - 1
        ELSE CrcOctet(after[i - 1],
                      IF i - 1 \in zero .. zero + 1 THEN 0 ELSE data[i], algorithm)
      crc == IF end < from THEN 2^16 - 1 ELSE after[end]
  IN IF algorithm = 1 THEN crc ELSE 2^16 - 1 - crc

Patched(data, at, value) ==
  [i \in DOMAIN data |-> IF i \in at + 1 .. at + 2 THEN BigEndian(value, 2)[i - at] ELSE data[i]]

\* record_crc_finish() on a context with a pending CRC whose field holds number; the
\* octets up to end are covered.
Finish(w, end, number) ==
  LET data   == IF Encoding THEN w.out ELSE call.input
      actual == Checksum(data, w.crc.from, end, w.crc.at, w.crc.algorithm)
      done   == [w EXCEPT !.crc = NoCrc]
  IN IF Encoding THEN [w |-> [done EXCEPT !.out = Patched(@, w.crc.at, actual)], number |-> actual]
     ELSE [w |-> IF number # actual THEN Fail(done, "checksum") ELSE done, number |-> number]

WithNumber(h, crc, number) ==
  [h EXCEPT ![crc.record][crc.field].number = number]

\* %uK: the checksum's place, and the checksum unless it is deferred (flag 2).  A CBOR
\* byte string of two octets (flag 1) is covered with its header.
PlaceCrc ==
  /\ DoingNamed({"uK"})
  /\ LET flags     == Operand(wi, 1)
         from      == Operand(wi, 2)
         algorithm == Operand(wi, 3)
         framed    == flags % 2 = 1
         aligned   == AlignedUnlessOver(Popped(wi, 3))
         head      == IF framed THEN Cbor(aligned, 2, 2) ELSE [w |-> aligned, value |-> 2]
         at        == Position(head.w)
         field     == IF Encoding THEN [w |-> EmitBits(head.w, 0, 16), value |-> 0]
                                  ELSE ReadBits(head.w, 16)
         crc       == [record |-> Owner, field |-> Here.field, at |-> at, from |-> from,
                       algorithm |-> algorithm]
         pending   == [field.w EXCEPT !.crc = crc]
         finished  == Finish(pending, IF framed THEN Position(pending) ELSE at, field.value)
     IN IF aligned.overrun THEN Do(aligned)
        ELSE IF algorithm \notin 1..2 \/ flags > 3 \/ aligned.crc # NoCrc
          THEN Do(Fail(aligned, "schema"))
        ELSE IF head.value # 2 THEN Do(Fail(head.w, "checksum"))
        ELSE IF field.w.overrun \/ from > at \/ flags >= 2
          THEN DoAndSet(IF field.w.overrun THEN field.w
                        ELSE IF from > at THEN Fail(field.w, "range") ELSE pending,
                        "number", field.value)
        ELSE DoAndSet(finished.w, "number", finished.number)

\* %uF at the end of a record.
FinishCrc ==
  /\ Doing({"uF"})
  /\ LET w == Aligned(wi)
         finished == Finish(w, Position(w), heap[w.crc.record][w.crc.field].number)
     IN IF w.overrun \/ w.crc = NoCrc THEN Do(w)
        ELSE /\ wi' = [finished.w EXCEPT !.pc = @ + 1]
             /\ heap' = WithNumber(heap, w.crc, finished.number)
             /\ UNCHANGED <<db, call, suspended, result>>

-----------------------------------------------------------------------------
(* execute()                                                                 *)

\* The depth table_depth() finds for a program (module FormatTable).
FormatDepth(decode) ==
  LET depth[m \in 0 .. db.messages - 1] ==
        LET program == Format(db, m, decode)
            called  == {program[i].n : i \in {j \in DOMAIN program : program[j].op = "J"}}
        IN IF called = {} THEN 1 ELSE Max({depth[k] : k \in called}) + 1
  IN Max({depth[m] : m \in 0 .. db.messages - 1})

Refusal(message, root, decode) ==
  IF Len(heap[root]) < FieldCount(db, message) THEN "capacity"
  ELSE IF FormatDepth(decode) + 1 > CALL_DEPTH THEN "schema" ELSE "running"

Begin(message, root, decode, room, input, records) ==
  /\ call' = [decode |-> decode, message |-> message, root |-> root, room |-> room,
              input |-> input]
  /\ wi' = Context(message, root, 0, 0, 0, <<>>, 0)
  /\ suspended' = <<>>
  /\ heap' = records
  /\ result' = Refusal(message, root, decode)

EndCall ==
  /\ ProgramOver /\ suspended = <<>>
  /\ result' = Cause(wi)
  /\ UNCHANGED <<db, call, wi, suspended, heap>>

Step ==
  \/ NameUnknown \/ PushLiteral \/ LoadField \/ StoreField \/ MeasureField \/ ClearField
  \/ NoBranch \/ TestCondition \/ SkipElse
  \/ Combine \/ Negate \/ Select \/ Query \/ Require \/ Swap
  \/ RequireAligned \/ EmitField \/ ReadField \/ EmitSdnv \/ ReadSdnv \/ CborHead
  \/ Decimal \/ Terminated \/ ByteAt \/ SliceField
  \/ QueryList \/ BeginRows \/ EndRows \/ RowsOverflow \/ EnterRow \/ LeaveRow
  \/ PlaceCrc \/ FinishCrc
  \/ EndCall

\* The octets a call has produced or consumed, if it succeeded.
Used == IF result # "ok" THEN 0 ELSE IF Encoding THEN Len(wi.out) ELSE wi.pos
=============================================================================
