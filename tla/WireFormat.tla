----------------------------- MODULE WireFormat -----------------------------
(***************************************************************************)
(* The positional interpreter of wire_format.c: wi_parse() running a       *)
(* format string over a wi_vars_t, with the calls %[n], their repeats %:,  *)
(* the conditionals and the record sequences %J[n].                        *)
(*                                                                         *)
(* One step executes one specifier, one end of a string, or one of the     *)
(* caller's own operations.  A wi_vars_t is split in two: the machine wi   *)
(* (stack, parameters, buffers, accumulators, faults) and the control part *)
(* (position, call stack, pending repeat count).  %J runs each row in a    *)
(* wi_vars_t of its own; the one that executes %J waits in suspended.      *)
(***************************************************************************)
EXTENDS Formats, Words

CONSTANTS
  Jobs,           \* what a caller may ask for, see IsJob
  STACK_DEPTH,    \* WI_STACK_DEPTH
  MAX_PARAMS,     \* WI_MAX_PARAMS
  MAX_VARS,       \* WI_MAX_VARS
  CALL_DEPTH,     \* WI_CALL_DEPTH
  MAX_FORMATS     \* WI_MAX_FORMATS

ASSUME LimitsAssumption ==
  /\ STACK_DEPTH \in Nat \ {0} /\ CALL_DEPTH \in Nat \ {0} /\ MAX_FORMATS \in Nat \ {0}
  /\ MAX_PARAMS \in Nat \ {0}  /\ MAX_VARS \in Nat /\ MAX_VARS >= MAX_PARAMS

\* There are specifiers for a quarter and for half of a word.
ASSUME QuartersAssumption == WORD_BYTES % 4 = 0

Slots == 0 .. MAX_PARAMS - 1
Vars  == 0 .. MAX_VARS - 1

\* A pointer is an index of the caller's memory, 0 is NULL.  A list pointer is
\* an index of the caller's record lists, 0 is NULL.
NULL     == 0
Slice    == [data : Nat, length : Nat]
NoSlice  == [data |-> NULL, length |-> 0]
Row      == [values : [Slots -> Word], slices : [Slots -> Slice], lists : [Slots -> Nat]]
FaultBits == 0 .. IntBits - 1

(***************************************************************************)
(* What the caller brings: a table, the strings of its successive calls of *)
(* wi_parse() on one wi_vars_t, its memory, the direction and the window   *)
(* in memory or the capacity, the arguments, the record lists, the faults  *)
(* that abort.  A decoding context begins without slices.  A list is       *)
(* [rows, backed, count, fields]: backed says that                         *)
(* records is not NULL, capacity is Len(rows), fields is field_count.      *)
(***************************************************************************)
RecordList == [rows : Seq(Row), backed : BOOLEAN, count : Nat, fields : 0..MAX_PARAMS]

IsList(list) ==
  /\ list \in RecordList
  /\ list.count <= Len(list.rows)
  /\ list.rows # <<>> => list.backed

\* What %v may read: the caller's memory, or nothing.
InMemory(slice, mem) == slice.data = NULL \/ slice.data + slice.length <= Len(mem) + 1

\* The literal bytes of a string are bytes.
IsText(string) == \A i \in DOMAIN string : string[i].op = "lit" => string[i].n \in Byte

IsJob(j) ==
  /\ IsTable(j.table)
  /\ j.tops \in Seq(Seq(Token)) /\ j.tops # <<>>
  /\ \A k \in DOMAIN j.table.fmts : IsText(j.table.fmts[k])
  /\ \A i \in DOMAIN j.tops : IsText(j.tops[i])
  /\ j.mem \in Seq(Byte)
  /\ j.encode \in BOOLEAN /\ j.out_size \in Nat /\ j.in \in Nat /\ j.in_size \in Nat
  /\ IF j.encode THEN j.in = NULL /\ j.in_size = 0
                 ELSE j.out_size = 0 /\ j.in # NULL /\ j.in + j.in_size <= Len(j.mem) + 1
  /\ j.params \in [Slots -> Word] /\ j.slices \in [Slots -> Slice]
  /\ \A x \in Slots : IF j.encode THEN InMemory(j.slices[x], j.mem) ELSE j.slices[x] = NoSlice
  /\ j.heap \in Seq(RecordList) /\ j.lists \in [Slots -> 0..Len(j.heap)]
  /\ \A i \in 1..Len(j.heap) :
        /\ IsList(j.heap[i])
        /\ \A r \in 1..Len(j.heap[i].rows) :
              /\ j.heap[i].rows[r].lists \in [Slots -> 0..Len(j.heap)]
              /\ j.encode => \A x \in Slots : InMemory(j.heap[i].rows[r].slices[x], j.mem)
  /\ j.abort_mask \subseteq FaultBits

ASSUME JobsAssumption == \A j \in Jobs : IsJob(j)

VARIABLES
  job,        \* the caller's request
  status,     \* "setup", "refused", "parsing", "returned" or "trapped"
  turn,       \* which of job.tops is being parsed
  table,      \* fmts and nfmts of the context, as wi_set_formats() left them
  depths,     \* its scratch array, kept to state properties
  wi,         \* the machine part of the running wi_vars_t
  at,         \* cur_fmt and f_str: the position in a format string
  frames,     \* rstack, rfmt, rleft, rsp
  pending,    \* the repeat count %: armed
  suspended,  \* the contexts waiting in %J, outermost first
  heap        \* the caller's record lists

vars    == <<job, status, turn, table, depths, wi, at, frames, pending, suspended, heap>>
control == <<job, status, turn, table, depths>>

-----------------------------------------------------------------------------
(* The stack and the two byte streams.  Overrun is sticky: once it is set    *)
(* every helper leaves the machine alone and a pop yields zero.              *)

Operand(w, i) ==
  IF ~w.overrun /\ i <= Len(w.fstack) THEN w.fstack[Len(w.fstack) - i + 1] ELSE 0

\* The machine after k calls of fs_pop.
Popped(w, k) ==
  IF w.overrun THEN w
  ELSE IF k <= Len(w.fstack)
    THEN [w EXCEPT !.fstack = SubSeq(@, 1, Len(@) - k)]
    ELSE [w EXCEPT !.fstack = <<>>, !.overrun = TRUE]

Overrun(w) == [w EXCEPT !.overrun = TRUE]

\* Mutant: one push too many.
PushPastEnd(w, n) ==
  IF w.overrun THEN w
  ELSE IF Len(w.fstack) <= STACK_DEPTH
    THEN [w EXCEPT !.fstack = Append(@, Int64(n))]
    ELSE Overrun(w)

Push(w, n) ==
  IF w.overrun THEN w
  ELSE IF Len(w.fstack) < STACK_DEPTH
    THEN [w EXCEPT !.fstack = Append(@, Int64(n))]
    ELSE Overrun(w)

\* b_emit for each byte in turn: what fits is written, then the overrun.
Emit(w, bytes) ==
  LET room == w.out_size - Len(w.out)
  IN IF w.overrun THEN w
     ELSE IF Len(bytes) <= room
       THEN [w EXCEPT !.out = @ \o bytes]
       ELSE [w EXCEPT !.out = @ \o SubSeq(bytes, 1, room), !.overrun = TRUE]

Unread(w) == IF w.overrun THEN 0 ELSE w.in_size - w.in_pos

\* The next k bytes of the input window.
Ahead(w, k) == [i \in 1..k |-> job.mem[w.in + w.in_pos + i - 1]]

Skip(w, k) == [w EXCEPT !.in_pos = @ + k]

\* k calls of b_read that do not all succeed.
Exhausted(w) == Overrun(Skip(w, Unread(w)))

InSlots(n) == n \in Slots

Bytes(slice) == [i \in 1..slice.length |-> job.mem[slice.data + i - 1]]

-----------------------------------------------------------------------------
(* wi_init(), wi_decode_init(), wi_parse_rank()                              *)

Machine(encode, out_size, in, in_size, params, slices, lists) ==
  [encode |-> encode, fstack |-> <<>>, params |-> params, vars |-> [x \in Vars |-> 0],
   slices |-> slices, lists |-> lists, out |-> <<>>, out_size |-> out_size,
   in |-> in, in_size |-> in_size, in_pos |-> 0, bit_acc |-> 0, in_acc |-> 0,
   in_loaded |-> FALSE, faults |-> {}, overrun |-> FALSE]

\* Mutant: every parse starts at the beginning of the input.
RestartedAtZero(w) == [w EXCEPT !.out = <<>>, !.faults = {}, !.overrun = FALSE, !.in_pos = 0]

\* Mutant: the faults of the last parse are those of the next one, too.
RestartedFaulty(w) == [w EXCEPT !.out = <<>>, !.overrun = FALSE]

\* The fields wi_parse_rank() resets; the stack, the variables, the input position
\* and the bit accumulators are what the last parse left.
Restarted(w) == [w EXCEPT !.out = <<>>, !.faults = {}, !.overrun = FALSE]

Start(string_index, w) ==
  /\ wi' = w /\ at' = [fmt |-> string_index, pc |-> 1]
  /\ frames' = <<>> /\ pending' = 1

Init ==
  /\ job \in Jobs
  /\ status = "setup" /\ turn = 1
  /\ table = [nfmts |-> 0, fmts |-> <<>>] /\ depths = <<>>
  /\ wi = Machine(job.encode, job.out_size, job.in, job.in_size,
                  job.params, job.slices, job.lists)
  /\ at = [fmt |-> 0, pc |-> 1] /\ frames = <<>> /\ pending = 0
  /\ suspended = <<>>
  /\ heap = job.heap

\* wi_set_formats() with the depths table_depth() computes (module FormatTable),
\* then the first wi_parse().  A caller whose table is refused gives up.
SetFormats ==
  /\ status = "setup"
  /\ \E d \in [0..job.table.nfmts-1 -> 1..CALL_DEPTH] :
        Accepts(job.table, d, CALL_DEPTH, MAX_FORMATS) /\ depths' = d
  /\ table' = job.table
  /\ status' = "parsing"
  /\ Start(job.table.nfmts, Restarted(wi))
  /\ UNCHANGED <<job, turn, suspended, heap>>

RefuseFormats ==
  /\ status = "setup"
  /\ ~\E d \in [0..job.table.nfmts-1 -> 1..CALL_DEPTH] :
        Accepts(job.table, d, CALL_DEPTH, MAX_FORMATS)
  /\ status' = "refused"
  /\ UNCHANGED <<job, turn, table, depths, wi, at, frames, pending, suspended, heap>>

-----------------------------------------------------------------------------
(* The loop of wi_parse_rank()                                               *)

Text(p) == IF p.fmt = table.nfmts THEN job.tops[turn] ELSE table.fmts[p.fmt]

Stopped(w) == w.overrun \/ w.faults \cap job.abort_mask # {}
AtEnd      == at.pc > Len(Text(at))
Running    == status = "parsing" /\ ~Stopped(wi)
Current    == Text(at)[at.pc]

Op(letters) == Running /\ ~AtEnd /\ Current.op \in letters

Advanced == [at EXCEPT !.pc = @ + 1]

\* A handler that computes on the machine alone.
Do(w) == /\ wi' = w /\ at' = Advanced
         /\ UNCHANGED <<control, frames, pending, suspended, heap>>

-----------------------------------------------------------------------------
(* Literals, arguments, variables, arithmetic, faults                        *)

\* A byte outside any specifier, and %%.
EmitLiteral == Op({"lit"}) /\ Do(Emit(wi, <<Current.n>>))

\* %{n} and %'x'.
PushLiteral == Op({"{"}) /\ Do(Push(wi, Current.n))

PushParam ==
  /\ Op({"p"})
  /\ Do(IF Current.n - 1 \in Slots THEN Push(wi, wi.params[Current.n - 1]) ELSE Overrun(wi))

LoadVar ==
  /\ Op({"g"})
  /\ Do(IF Current.n \in Vars THEN Push(wi, wi.vars[Current.n]) ELSE Overrun(wi))

\* %P with a bad name aims at vars[0]; whether fs_pop runs before get_var_addr
\* raises the overrun, and so yields the operand or zero, C leaves open.
StoreVar ==
  /\ Op({"P"})
  /\ \/ /\ Current.n \in Vars
        /\ Do([Popped(wi, 1) EXCEPT !.vars[Current.n] = Operand(wi, 1)])
     \/ /\ Current.n \notin Vars
        /\ \/ Do([Overrun(wi) EXCEPT !.vars[0] = 0])
           \/ Do([Overrun(Popped(wi, 1)) EXCEPT !.vars[0] = Operand(wi, 1)])

RaiseFault ==
  /\ Op({"E"})
  /\ Do([Popped(wi, 1) EXCEPT !.faults = @ \cup BitsOf(Operand(wi, 1), IntBits)])

BinaryOp ==
  /\ Op(BinaryOps)
  /\ Do(Push(Popped(wi, 2), Binary(Current.op, Operand(wi, 2), Operand(wi, 1))))

\* INT64_MIN / -1 overflows: the machine may also kill the process.
DivisionTraps ==
  /\ Op({"/", "m"})
  /\ Operand(wi, 1) = -1 /\ Operand(wi, 2) = -(2 ^ (WordBits - 1))
  /\ status' = "trapped"
  /\ UNCHANGED <<job, turn, table, depths, wi, at, frames, pending, suspended, heap>>

UnaryOp == Op({"~", "!"}) /\ Do(Push(Popped(wi, 1), Unary(Current.op, Operand(wi, 1))))

\* A specifier that is not in the table of operations, or a malformed one.
BadSpecifier == Op({"bad"}) /\ Do(Overrun(wi))

-----------------------------------------------------------------------------
(* Numbers on the wire                                                       *)

\* 1 byte, and 2, 4 and 8 bytes of an eight-byte word.
EmitSize(op) == CASE op = "b" -> 1                  [] op = "w" -> WORD_BYTES \div 4
                  [] op = "W" -> WORD_BYTES \div 2 [] op = "q" -> WORD_BYTES
ReadSize(op) == CASE op = "B" -> 1                  [] op = "S" -> WORD_BYTES \div 4
                  [] op = "L" -> WORD_BYTES \div 2 [] op = "Q" -> WORD_BYTES

\* %b (and %c), %w, %W, %q.
EmitNumber ==
  /\ Op({"b", "w", "W", "q"})
  /\ Do(Emit(Popped(wi, 1), BigEndian(Operand(wi, 1), EmitSize(Current.op))))

\* %B, %S, %L, %Q.
ReadNumber ==
  /\ Op({"B", "S", "L", "Q"})
  /\ LET k == ReadSize(Current.op)
     IN Do(IF k <= Unread(wi) THEN Push(Skip(wi, k), Number(Ahead(wi, k))) ELSE Exhausted(wi))

EmitSdnv ==
  /\ Op({"d"})
  /\ LET value == Unsigned(Operand(wi, 1))
     IN \E k \in 1..SdnvMax :
           IsSdnvLength(value, k) /\ Do(Emit(Popped(wi, 1), Sdnv(value, k)))

\* %D reads k bytes, the last of them the first that ends the loop.
ReadSdnv ==
  /\ Op({"D"})
  /\ LET limit == IF Unread(wi) < SdnvMax THEN Unread(wi) ELSE SdnvMax
         bytes == Ahead(wi, limit)
         Ends(i) == SdnvOverflows(bytes, i) \/ SdnvEnds(bytes, i)
     IN \/ \E k \in 1..limit :
              /\ Ends(k) /\ \A i \in 1..k-1 : ~Ends(i)
              /\ Do(IF SdnvOverflows(bytes, k) THEN Overrun(Skip(wi, k))
                                               ELSE Push(Skip(wi, k), SdnvValue(bytes, k)))
        \/ /\ \A i \in 1..limit : ~Ends(i)
           /\ Do(Overrun(Skip(wi, limit)))

-----------------------------------------------------------------------------
(* Bit fields.  Shifting an int by its width or more, or by a negative       *)
(* amount, is undefined: any field results.                                  *)

Shiftable(width, pos) == width \in 0..IntBits-1 /\ pos \in 0..IntBits-1

Low(value, width) == value % 2 ^ (IF width < BYTE_BITS THEN width ELSE BYTE_BITS)

\* %x: bit_acc |= (value & mask) << pos
PackBits ==
  /\ Op({"x"})
  /\ LET pos == ToInt(Operand(wi, 1))
         width == ToInt(Operand(wi, 2))
         fields == IF Shiftable(width, pos)
                     THEN {(Low(Operand(wi, 3), width) * 2 ^ pos) % Base} ELSE Byte
     IN \E field \in fields, acc \in Byte :
           /\ BitsOf(acc, BYTE_BITS) = BitsOf(wi.bit_acc, BYTE_BITS) \cup BitsOf(field, BYTE_BITS)
           /\ Do([Popped(wi, 3) EXCEPT !.bit_acc = acc])

\* %X: (in_acc >> pos) & mask, after loading a byte if none is loaded.
UnpackBits ==
  /\ Op({"X"})
  /\ LET pos == ToInt(Operand(wi, 1))
         width == ToInt(Operand(wi, 2))
         p == Popped(wi, 2)
         loaded == IF p.in_loaded THEN p
                   ELSE IF Unread(p) > 0
                     THEN [Skip(p, 1) EXCEPT !.in_acc = Ahead(p, 1)[1], !.in_loaded = TRUE]
                     ELSE [Overrun(p) EXCEPT !.in_acc = 0, !.in_loaded = TRUE]
         fields == IF Shiftable(width, pos)
                     THEN {Low(loaded.in_acc \div 2 ^ pos, width)} ELSE Byte
     IN \E field \in fields : Do(Push(loaded, field))

\* Mutant: the accumulator is not cleared.
FlushBitsKept ==
  /\ Op({"f"})
  /\ Do(IF wi.encode THEN Emit(wi, <<wi.bit_acc>>) ELSE [wi EXCEPT !.in_loaded = FALSE])

\* %f
FlushBits ==
  /\ Op({"f"})
  /\ Do(IF wi.encode THEN [Emit(wi, <<wi.bit_acc>>) EXCEPT !.bit_acc = 0]
                     ELSE [wi EXCEPT !.in_loaded = FALSE])

-----------------------------------------------------------------------------
(* Byte slices and arrays                                                    *)

\* Mutant: the elements in the order of the host.
EmitArrayHostOrder ==
  /\ Op({"r"})
  /\ LET size  == Current.n
         count == Operand(wi, 1)
         ptr   == Operand(wi, 2)
         bytes == [i \in 1..count * size |-> job.mem[ptr + i - 1]]
     IN \/ size \notin {1, 2, 4} /\ Do(Overrun(wi))
        \/ size \in {1, 2, 4} /\ ptr = NULL /\ count # 0 /\ Do(Overrun(Popped(wi, 2)))
        \/ size \in {1, 2, 4} /\ ptr # NULL /\ count > 0 /\ Do(Emit(Popped(wi, 2), bytes))
        \/ size \in {1, 2, 4} /\ count = 0 /\ Do(Popped(wi, 2))

WithinMemory(ptr, length) == ptr > 0 /\ ptr + length <= Len(job.mem) + 1

\* %r, %r1, %r2, %r4: an array of the caller's memory, elements of the host's
\* (little endian) order emitted most significant byte first.
EmitArray ==
  /\ Op({"r"})
  /\ LET size  == Current.n
         count == Operand(wi, 1)
         ptr   == Operand(wi, 2)
         bytes == [i \in 1..count * size |->
                     job.mem[ptr + size * ((i - 1) \div size) + size - 1 - ((i - 1) % size)]]
     IN \/ size \notin {1, 2, 4} /\ Do(Overrun(wi))
        \/ size \in {1, 2, 4} /\ ptr = NULL /\ count # 0 /\ Do(Overrun(Popped(wi, 2)))
        \/ /\ size \in {1, 2, 4} /\ ptr # NULL /\ count > 0 /\ WithinMemory(ptr, count * size)
           /\ Do(Emit(Popped(wi, 2), bytes))
        \/ size \in {1, 2, 4} /\ count = 0 /\ Do(Popped(wi, 2))

\* A negative count is a size_t beyond any array: the loop leaves memory.  So it does
\* where the array is shorter than its count.
ArrayTraps ==
  /\ Op({"r"}) /\ Current.n \in {1, 2, 4} /\ Operand(wi, 2) # NULL
  /\ \/ Operand(wi, 1) < 0
     \/ Operand(wi, 1) > 0 /\ ~WithinMemory(Operand(wi, 2), Operand(wi, 1) * Current.n)
  /\ status' = "trapped"
  /\ UNCHANGED <<job, turn, table, depths, wi, at, frames, pending, suspended, heap>>

Captured(w, slot, length) ==
  Skip([w EXCEPT !.slices[slot] = [data |-> w.in + w.in_pos, length |-> length]], length)

\* %R: the rest of the input.
CaptureRest ==
  /\ Op({"R"})
  /\ LET slot == Operand(wi, 1)
         w == Popped(wi, 1)
     IN Do(IF w.encode \/ ~InSlots(slot) THEN Overrun(w)
           ELSE Captured(w, slot, w.in_size - w.in_pos))

\* Mutant: the length is compared with the whole window, not with what is left.
CaptureExactWindow ==
  /\ Op({"N"})
  /\ LET slot == Operand(wi, 1)
         length == Operand(wi, 2)
         w == Popped(wi, 2)
     IN Do(IF w.encode \/ ~InSlots(slot) \/ length \notin 0 .. w.in_size
           THEN Overrun(w)
           ELSE Captured(w, slot, length))

\* %N: exactly as many bytes as the stack says.
CaptureExact ==
  /\ Op({"N"})
  /\ LET slot == Operand(wi, 1)
         length == Operand(wi, 2)
         w == Popped(wi, 2)
     IN Do(IF w.encode \/ ~InSlots(slot) \/ length \notin 0 .. w.in_size - w.in_pos
           THEN Overrun(w)
           ELSE Captured(w, slot, length))

\* %z
SliceLength ==
  /\ Op({"z"})
  /\ LET slot == Operand(wi, 1)
         w == Popped(wi, 1)
     IN Do(IF ~InSlots(slot) THEN Overrun(w) ELSE Push(w, w.slices[slot].length))

Readable(slice) == slice.data # NULL \/ slice.length = 0

\* %v
EmitSlice ==
  /\ Op({"v"})
  /\ LET slot == Operand(wi, 1)
         w == Popped(wi, 1)
     IN Do(IF ~w.encode \/ ~InSlots(slot) \/ ~Readable(w.slices[slot]) THEN Overrun(w)
           ELSE Emit(w, Bytes(w.slices[slot])))

\* %V
EmitExact ==
  /\ Op({"V"})
  /\ LET slot == Operand(wi, 1)
         length == Operand(wi, 2)
         w == Popped(wi, 2)
     IN Do(IF ~w.encode \/ ~InSlots(slot) \/ w.slices[slot].length # length
              \/ ~Readable(w.slices[slot])
           THEN Overrun(w)
           ELSE Emit(w, Bytes(w.slices[slot])))

\* %k
ListCount ==
  /\ Op({"k"})
  /\ LET slot == Operand(wi, 1)
         w == Popped(wi, 1)
     IN Do(IF ~InSlots(slot) \/ w.lists[slot] = NULL THEN Overrun(w)
           ELSE Push(w, heap[w.lists[slot]].count))

-----------------------------------------------------------------------------
(* Conditionals                                                              *)

\* %? and %; have no handler.
Mark == Op({"?", ";"}) /\ Do(wi)

\* skip_branch() resumes after the first of these that closes the branch it is
\* in: a %; or, looking for it, a %e, outside any conditional nested in between.
Nesting(text, from, to) ==
  Cardinality({i \in from..to-1 : text[i].op = "?"}) -
  Cardinality({i \in from..to-1 : text[i].op = ";"})

Closes(text, from, i, letters) == text[i].op \in letters /\ Nesting(text, from, i) = 0

SkipBranch(w, letters) ==
  LET text == Text(at)
      from == at.pc + 1
  IN /\ \/ \E i \in from..Len(text) :
              /\ Closes(text, from, i, letters)
              /\ \A h \in from..i-1 : ~Closes(text, from, h, letters)
              /\ at' = [at EXCEPT !.pc = i + 1]
              /\ wi' = w
        \/ /\ \A i \in from..Len(text) : ~Closes(text, from, i, letters)
           /\ at' = [at EXCEPT !.pc = Len(text) + 1]
           /\ wi' = Overrun(w)
     /\ UNCHANGED <<control, frames, pending, suspended, heap>>

\* %t
ThenTaken   == Op({"t"}) /\ Operand(wi, 1) # 0 /\ Do(Popped(wi, 1))
ThenSkipped == Op({"t"}) /\ Operand(wi, 1) = 0 /\ SkipBranch(Popped(wi, 1), {";", "e"})

\* %e, reached at the end of the branch that ran.
ElseSkipped == Op({"e"}) /\ SkipBranch(wi, {";"})

-----------------------------------------------------------------------------
(* %: and %[n]                                                               *)

ArmRepeat ==
  /\ Op({":"})
  /\ pending' = Operand(wi, 1)
  /\ wi' = Popped(wi, 1) /\ at' = Advanced
  /\ UNCHANGED <<control, frames, suspended, heap>>

\* Mutant: a format may call itself.
CallableSelf(n) == n \in DOMAIN table.fmts /\ n <= at.fmt

\* What both kinds of call look up: digits, a table entry, a lower index.
Callable(n) == n \in DOMAIN table.fmts /\ n < at.fmt

\* A call takes the repeat count, also when it is refused.
RefuseCall ==
  /\ Op({"["}) /\ (~Callable(Current.n) \/ (Len(frames) < CALL_DEPTH /\ pending <= 0))
  /\ pending' = 1 /\ at' = Advanced
  /\ UNCHANGED <<control, wi, frames, suspended, heap>>

CallTooDeep ==
  /\ Op({"["}) /\ Callable(Current.n) /\ Len(frames) >= CALL_DEPTH
  /\ pending' = 1 /\ at' = Advanced /\ wi' = Overrun(wi)
  /\ UNCHANGED <<control, frames, suspended, heap>>

\* Mutant: the repeats still owed include the one that starts.
CallOwesOneMore ==
  /\ Op({"["}) /\ Callable(Current.n) /\ Len(frames) < CALL_DEPTH /\ pending > 0
  /\ frames' = Append(frames, [fmt |-> at.fmt, pc |-> at.pc + 1, left |-> pending])
  /\ at' = [fmt |-> Current.n, pc |-> 1]
  /\ pending' = 1
  /\ UNCHANGED <<control, wi, suspended, heap>>

\* Mutant: only a count of zero skips the call.
CallUnlessZero ==
  /\ Op({"["}) /\ Callable(Current.n) /\ Len(frames) < CALL_DEPTH /\ pending # 0
  /\ frames' = Append(frames, [fmt |-> at.fmt, pc |-> at.pc + 1, left |-> pending - 1])
  /\ at' = [fmt |-> Current.n, pc |-> 1]
  /\ pending' = 1
  /\ UNCHANGED <<control, wi, suspended, heap>>

Call ==
  /\ Op({"["}) /\ Callable(Current.n) /\ Len(frames) < CALL_DEPTH /\ pending > 0
  /\ frames' = Append(frames, [fmt |-> at.fmt, pc |-> at.pc + 1, left |-> pending - 1])
  /\ at' = [fmt |-> Current.n, pc |-> 1]
  /\ pending' = 1
  /\ UNCHANGED <<control, wi, suspended, heap>>

Frame == frames[Len(frames)]

\* Mutant: a repeat is not counted down.
RepeatForever ==
  /\ Running /\ AtEnd /\ frames # <<>> /\ Frame.left > 0
  /\ at' = [at EXCEPT !.pc = 1]
  /\ UNCHANGED <<control, frames, wi, pending, suspended, heap>>

\* "Repeat before return."
RepeatFormat ==
  /\ Running /\ AtEnd /\ frames # <<>> /\ Frame.left > 0
  /\ frames' = [frames EXCEPT ![Len(frames)].left = @ - 1]
  /\ at' = [at EXCEPT !.pc = 1]
  /\ UNCHANGED <<control, wi, pending, suspended, heap>>

ReturnFormat ==
  /\ Running /\ AtEnd /\ frames # <<>> /\ Frame.left <= 0
  /\ at' = [fmt |-> Frame.fmt, pc |-> Frame.pc]
  /\ frames' = SubSeq(frames, 1, Len(frames) - 1)
  /\ UNCHANGED <<control, wi, pending, suspended, heap>>

-----------------------------------------------------------------------------
(* %J[n]                                                                     *)

\* Mutant: every row gets the whole capacity of its parent.
ChildWholeWindow(w, list, r) ==
  LET row == heap[list].rows[r]
      Own(f, zero) == [x \in Slots |-> IF x < heap[list].fields THEN f[x] ELSE zero]
  IN IF w.encode
     THEN Machine(TRUE, w.out_size, NULL, 0,
                  Own(row.values, 0), Own(row.slices, NoSlice), Own(row.lists, NULL))
     ELSE Machine(FALSE, 0, w.in, w.in_size,
                  [x \in Slots |-> 0], [x \in Slots |-> NoSlice], Own(row.lists, NULL))

\* A row's own context: its window is what is left of the parent's.
Child(w, list, r) ==
  LET row == heap[list].rows[r]
      Own(f, zero) == [x \in Slots |-> IF x < heap[list].fields THEN f[x] ELSE zero]
  IN IF w.encode
     THEN Machine(TRUE, w.out_size - Len(w.out), NULL, 0,
                  Own(row.values, 0), Own(row.slices, NoSlice), Own(row.lists, NULL))
     ELSE Machine(FALSE, 0, w.in + w.in_pos, w.in_size - w.in_pos,
                  [x \in Slots |-> 0], [x \in Slots |-> NoSlice], Own(row.lists, NULL))

\* The operands are the count, the list's slot and the number of fields.
SequenceFits ==
  LET fields == Operand(wi, 1)
      slot   == Operand(wi, 2)
      count  == Operand(wi, 3)
      list   == heap[wi.lists[slot]]
  IN /\ Callable(Current.n)
     /\ fields \in 0..MAX_PARAMS /\ InSlots(slot) /\ count >= 0
     /\ Len(suspended) < CALL_DEPTH
     /\ wi.lists[slot] # NULL /\ list.backed
     /\ fields = list.fields /\ count <= Len(list.rows)
     /\ wi.encode => count = list.count

RefuseSequence ==
  /\ Op({"J[", "J"}) /\ ~SequenceFits
  /\ Do(Overrun(Popped(wi, 3)))

\* Decoding announces the rows before it reads the first one.
Announced(list, count) == IF wi.encode THEN heap ELSE [heap EXCEPT ![list].count = count]

EmptySequence ==
  /\ Op({"J[", "J"}) /\ SequenceFits /\ Operand(wi, 3) = 0
  /\ heap' = Announced(wi.lists[Operand(wi, 2)], 0)
  /\ wi' = Popped(wi, 3) /\ at' = Advanced
  /\ UNCHANGED <<control, frames, pending, suspended>>

BeginSequence ==
  /\ Op({"J[", "J"}) /\ SequenceFits /\ Operand(wi, 3) > 0
  /\ LET list == wi.lists[Operand(wi, 2)]
         w    == Popped(wi, 3)
     IN /\ heap' = Announced(list, Operand(wi, 3))
        /\ suspended' = Append(suspended,
             [wi |-> w, at |-> Advanced, frames |-> frames, pending |-> pending,
              list |-> list, count |-> Operand(wi, 3), row |-> 1, callee |-> Current.n])
        /\ Start(Current.n, Child(w, list, 1))
  /\ UNCHANGED control

\* The child's parse is over: its loop broke off or ran out of strings.
ParseOver == status = "parsing" /\ (Stopped(wi) \/ (AtEnd /\ frames = <<>>))

Parent == suspended[Len(suspended)]

\* Mutant: a row's overrun is not handed on.
MergedForgiving ==
  LET w == [Parent.wi EXCEPT !.faults = @ \cup wi.faults]
  IN IF wi.overrun THEN w
     ELSE IF w.encode THEN [w EXCEPT !.out = @ \o wi.out]
     ELSE Skip(w, wi.in_pos)

\* Mutant: the faults of a row that overran are lost.
MergedFaultless ==
  LET w == [Parent.wi EXCEPT !.faults = @ \cup wi.faults]
  IN IF wi.overrun THEN Overrun(Parent.wi)
     ELSE IF w.encode THEN [w EXCEPT !.out = @ \o wi.out]
     ELSE Skip(w, wi.in_pos)

\* Mutant: a row's faults replace those of its parent and of the rows before.
MergedOverwriting ==
  LET w == [Parent.wi EXCEPT !.faults = wi.faults]
  IN IF wi.overrun THEN Overrun(w)
     ELSE IF w.encode THEN [w EXCEPT !.out = @ \o wi.out]
     ELSE Skip(w, wi.in_pos)

\* Mutant: the parent's cursor stays where the rows began.
MergedInPlace ==
  LET w == [Parent.wi EXCEPT !.faults = @ \cup wi.faults]
  IN IF wi.overrun THEN Overrun(w)
     ELSE IF w.encode THEN [w EXCEPT !.out = @ \o wi.out]
     ELSE w

\* What %J takes from a finished row: the faults always, the bytes and the fields
\* only if the row did not overrun.
Merged ==
  LET w == [Parent.wi EXCEPT !.faults = @ \cup wi.faults]
  IN IF wi.overrun THEN Overrun(w)
     ELSE IF w.encode THEN [w EXCEPT !.out = @ \o wi.out]
     ELSE Skip(w, wi.in_pos)

StoredRow(row) ==
  LET fields == heap[Parent.list].fields
  IN [row EXCEPT !.values = [x \in Slots |-> IF x < fields THEN wi.vars[x] ELSE @[x]],
                 !.slices = [x \in Slots |-> IF x < fields THEN wi.slices[x] ELSE @[x]]]

\* Mutant: every row is stored over the first one.
HarvestFirst ==
  heap' = IF wi.encode \/ wi.overrun THEN heap
          ELSE [heap EXCEPT ![Parent.list].rows[1] = StoredRow(@)]

Harvest ==
  heap' = IF wi.encode \/ wi.overrun THEN heap
          ELSE [heap EXCEPT ![Parent.list].rows[Parent.row] = StoredRow(@)]

\* More rows follow a row that did not stop the parse.
NextRow ==
  /\ ParseOver /\ suspended # <<>> /\ ~Stopped(Merged) /\ Parent.row < Parent.count
  /\ Harvest
  /\ suspended' = [suspended EXCEPT ![Len(suspended)].wi = Merged,
                                    ![Len(suspended)].row = @ + 1]
  /\ Start(Parent.callee, Child(Merged, Parent.list, Parent.row + 1))
  /\ UNCHANGED control

EndSequence ==
  /\ ParseOver /\ suspended # <<>> /\ (Stopped(Merged) \/ Parent.row = Parent.count)
  /\ Harvest
  /\ wi' = Merged /\ at' = Parent.at /\ frames' = Parent.frames /\ pending' = Parent.pending
  /\ suspended' = SubSeq(suspended, 1, Len(suspended) - 1)
  /\ UNCHANGED control

-----------------------------------------------------------------------------
EndParse ==
  /\ ParseOver /\ suspended = <<>>
  /\ status' = "returned"
  /\ UNCHANGED <<job, turn, table, depths, wi, at, frames, pending, suspended, heap>>

\* The caller parses its next string with the same wi_vars_t.
NextParse ==
  /\ status = "returned" /\ turn < Len(job.tops)
  /\ turn' = turn + 1 /\ status' = "parsing"
  /\ Start(table.nfmts, Restarted(wi))
  /\ UNCHANGED <<job, table, depths, suspended, heap>>

Finished == \/ status \in {"refused", "trapped"}
            \/ status = "returned" /\ turn = Len(job.tops)

Done == Finished /\ UNCHANGED vars

Next ==
  \/ SetFormats \/ RefuseFormats
  \/ EmitLiteral \/ PushLiteral \/ PushParam \/ LoadVar \/ StoreVar \/ RaiseFault
  \/ BinaryOp \/ DivisionTraps \/ UnaryOp \/ BadSpecifier
  \/ EmitNumber \/ ReadNumber \/ EmitSdnv \/ ReadSdnv
  \/ PackBits \/ UnpackBits \/ FlushBits
  \/ EmitArray \/ ArrayTraps \/ CaptureRest \/ CaptureExact
  \/ SliceLength \/ EmitSlice \/ EmitExact \/ ListCount
  \/ Mark \/ ThenTaken \/ ThenSkipped \/ ElseSkipped
  \/ ArmRepeat \/ RefuseCall \/ CallTooDeep \/ Call \/ RepeatFormat \/ ReturnFormat
  \/ RefuseSequence \/ EmptySequence \/ BeginSequence \/ NextRow \/ EndSequence
  \/ EndParse \/ NextParse
  \/ Done

\* wi_parse() is one thread that nothing preempts.
Spec == Init /\ [][Next]_vars /\ WF_vars(Next)

-----------------------------------------------------------------------------
(* Types                                                                     *)

IsMachine(w) ==
  /\ w.encode \in BOOLEAN /\ w.overrun \in BOOLEAN /\ w.in_loaded \in BOOLEAN
  /\ w.fstack \in Seq(Word) /\ Len(w.fstack) <= STACK_DEPTH
  /\ w.params \in [Slots -> Word] /\ w.vars \in [Vars -> Word]
  /\ w.slices \in [Slots -> Slice] /\ w.lists \in [Slots -> 0..Len(heap)]
  /\ w.out \in Seq(Byte) /\ w.out_size \in Nat /\ Len(w.out) <= w.out_size
  /\ w.in \in Nat /\ w.in_size \in Nat /\ w.in_pos \in 0..w.in_size
  /\ w.bit_acc \in Byte /\ w.in_acc \in Byte
  /\ w.faults \subseteq FaultBits

Position(fmt, pc) == fmt \in DOMAIN table.fmts \cup {table.nfmts} /\ pc \in Nat \ {0}

IsFrames(fr) ==
  /\ fr \in Seq([fmt : Nat, pc : Nat, left : Word])
  /\ \A i \in 1..Len(fr) : Position(fr[i].fmt, fr[i].pc)

\* Every context is a wi_vars_t the code can hold: array indexes within their
\* arrays, cursors within their windows, positions within the installed table.
TypeOK ==
  /\ status \in {"setup", "refused", "parsing", "returned", "trapped"}
  /\ turn \in 1..Len(job.tops)
  /\ IsMachine(wi) /\ Position(at.fmt, at.pc) /\ IsFrames(frames) /\ pending \in Word
  /\ \A i \in 1..Len(suspended) :
        LET s == suspended[i]
        IN /\ IsMachine(s.wi) /\ Position(s.at.fmt, s.at.pc) /\ IsFrames(s.frames)
           /\ s.pending \in Word
           /\ s.list \in 1..Len(heap) /\ s.row \in 1..s.count
           /\ s.count <= Len(heap[s.list].rows)
           /\ s.callee \in DOMAIN table.fmts
  /\ \A i \in 1..Len(heap) : IsList(heap[i])

-----------------------------------------------------------------------------
(* The calls                                                                 *)

\* Contexts from the outermost to the running one.
Depth == Len(suspended) + 1
ContextFrames(c) == IF c = Depth THEN frames ELSE suspended[c].frames
ContextAt(c)     == IF c = Depth THEN at ELSE suspended[c].at

\* The formats that are active in a context, outermost first.
Active(c, i) ==
  IF i <= Len(ContextFrames(c)) THEN ContextFrames(c)[i].fmt ELSE ContextAt(c).fmt

\* "Every call strictly decreases cur_fmt": along the call stack of every context,
\* and from a %J into its rows.  What a context returns to is never below what it
\* runs, so no cycle of a table can ever be entered.
CallsDescend ==
  /\ \A c \in 1..Depth : \A i \in 1..Len(ContextFrames(c)) : Active(c, i+1) < Active(c, i)
  /\ \A c \in 1..Depth-1 : Active(c + 1, 1) < ContextAt(c).fmt

\* Every call the interpreter could honour is one that table_depth counted.
AllCounted ==
  \A k \in DOMAIN table.fmts : Callees(table, table.fmts[k], k) = Counted(table, k)

\* The depth a format was found to need; the top string may use the whole stack.
Need(fmt) == IF fmt = table.nfmts THEN CALL_DEPTH ELSE depths[fmt]

\* Every active format still has the frames that its calls may need, counting the
\* levels of %J above it as well as the frames below it.
BudgetKept ==
  AllCounted =>
    \A c \in 1..Depth : \A i \in 1 .. Len(ContextFrames(c)) + 1 :
       Need(Active(c, i)) + (i - 1) + (c - 1) <= CALL_DEPTH

\* wi_set_formats() protects the call stack: with every call counted, neither the
\* guard of %[n] ("reaching it is a bug") nor the one of %J[n] ever refuses a call.
CallDepthSufficient ==
  AllCounted =>
    /\ Op({"["}) /\ Callable(Current.n) => Len(frames) < CALL_DEPTH
    /\ Op({"J[", "J"}) /\ Callable(Current.n) => Len(suspended) < CALL_DEPTH

\* The same for every table that wi_set_formats() accepts, as the comment in _call
\* puts it: "wi_set_formats() should have caught this, so reaching it is a bug".
GuardNeverReached ==
  ~(Op({"["}) /\ Callable(Current.n) /\ Len(frames) >= CALL_DEPTH)

\* The comment above _call says: "every failure here is silent BY DESIGN - a bad index,
\* a forward reference, no table, or nesting past WI_CALL_DEPTH skips the call and
\* carries on".
RefusedCallsAreSilent ==
  [][Op({"["}) /\ at' = Advanced => UNCHANGED wi]_vars

-----------------------------------------------------------------------------
(* Stopping                                                                  *)

\* An overrun or a fatal fault, in whatever row of whatever sequence, ends the
\* whole parse: from then on contexts are only unwound, each of them stopped as
\* well, and no specifier runs.
StopPropagates ==
  [][status = "parsing" /\ Stopped(wi) =>
       \/ status' = "returned" /\ UNCHANGED wi
       \/ Stopped(wi') /\ Len(suspended') = Len(suspended) - 1]_vars

ContextMachine(c) == IF c = Depth THEN wi ELSE suspended[c].wi

\* What any context holds, the running one and those that wait for their rows.
Raised == UNION {ContextMachine(c).faults : c \in 1..Depth}

\* A fault bit that any string of a parse raised, at the top, in a row at any depth or
\* between two rows, is never lost: not when a row starts with no faults, not when
\* its parent takes over from it, whether or not it overran; and when the parse
\* returns, all of them are in the caller's v->faults.
FaultsReachTheCaller ==
  [][turn' = turn =>
       /\ Raised \subseteq Raised'
       /\ status # "returned" /\ status' = "returned" => Raised \subseteq wi'.faults]_vars

-----------------------------------------------------------------------------
(* Memory                                                                    *)

\* The windows of nested rows never leave the caller's buffers: a row writes where its
\* parent's output ends and reads where its parent's cursor stands, each within what
\* is left there.
InsideBuffers ==
  \A c \in 1..Depth :
    LET w == ContextMachine(c)
        p == ContextMachine(c - 1)
    IN /\ Len(w.out) <= w.out_size
       /\ job.in <= w.in /\ w.in + w.in_size = job.in + job.in_size /\ w.in_pos <= w.in_size
       /\ IF c = 1 THEN w.out_size = job.out_size /\ w.in = job.in
          ELSE w.out_size = p.out_size - Len(p.out) /\ w.in = p.in + p.in_pos

\* A captured slice points into the caller's input, in every context and in every
\* stored row; after a clean parse it points at bytes the parse has consumed.  (After
\* the first one of a caller whose rows held no slices: a row that overruns may leave
\* rows of its nested lists beyond the cursor the next parse starts from.)
SlicesInsideInput ==
  LET end == IF status = "returned" /\ turn = 1 /\ ~Stopped(wi) THEN wi.in + wi.in_pos
                                                               ELSE job.in + job.in_size
      Inside(s) == s.data = NULL \/ (job.in <= s.data /\ s.data + s.length <= end)
      RowsOf(lists) == UNION {{lists[l].rows[r] : r \in 1..Len(lists[l].rows)} : l \in 1..Len(lists)}
  IN ~job.encode =>
       /\ \A c \in 1..Depth : \A x \in Slots : Inside(ContextMachine(c).slices[x])
       /\ (\A row \in RowsOf(job.heap) : \A x \in Slots : row.slices[x].data = NULL) =>
            \A row \in RowsOf(heap) : \A x \in Slots : Inside(row.slices[x])

-----------------------------------------------------------------------------
(* Rows                                                                      *)

Filled(l, r) == heap[l].rows[r] # job.heap[l].rows[r]

\* count is announced before the rows are read.  Rows are filled in order and only
\* below the announced count; and a parse that returns without overrun or fatal
\* fault has filled all of them, in nested lists too.  (For callers whose lists are
\* empty and whose rows do not already hold what the rows on the wire say.)
RowsMatchCount ==
  ~job.encode /\ turn = 1 =>
    \A l \in {x \in 1..Len(heap) : job.heap[x].count = 0} :
       /\ \A r \in 1..Len(heap[l].rows) :
             Filled(l, r) => r <= heap[l].count /\ \A q \in 1..r : Filled(l, q)
       /\ status = "returned" /\ ~Stopped(wi) =>
             \A r \in 1..heap[l].count : Filled(l, r)

\* Every parse ends, whatever the table and the repeat counts.
Terminates == <>Finished
=============================================================================
