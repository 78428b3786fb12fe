----------------------------- MODULE MCCompiled -----------------------------
(***************************************************************************)
(* From a protocol source to bytes and back: what the schema reader        *)
(* accepts and the code generator compiles, run by the interpreter, against *)
(* the reference encoder and decoder that check the source's vectors.      *)
(*                                                                         *)
(* Words are of eight two-bit bytes, so that u8, u16, u32 and u64 are one, *)
(* two, four and eight octets as in the code, of 2, 4, 8 and 16 bits.      *)
(***************************************************************************)
EXTENDS MCWireFormat, WiCompile, VectorCheck

CONSTANT MaxFields   \* longest message of AnySources

-----------------------------------------------------------------------------
(* Sources                                                                   *)

Scalar(name, type)    == [name |-> name, type |-> type]
BitField(name, width) == [name |-> name, type |-> "bits", width |-> width]
Fixed(field, value)   == field @@ [constant |-> value]
With(field, relation, name) == field @@ (relation :> name)
ByteField(name)       == Scalar(name, "bytes")
Message(name, fields) == [name |-> name, fields |-> fields]

Source_(byteOrder, bitOrder, messages) ==
  [version |-> 3, byte_order |-> byteOrder, bit_order |-> bitOrder, messages |-> messages]

ByteOrders == {"big-endian", "little-endian"}
BitOrders  == {"msb-first", "lsb-first"}
Network(messages) == Source_("big-endian", "msb-first", messages)

\* The octets 3, 2, 1, 0, 3, ... from the least significant one.
Uneven == 6939
Pattern(field, k) == LET most == 2 ^ (IF field.type = "sdnv" THEN WordBits ELSE Width(field))
                     IN <<0, most - 1, Uneven % most>>[k]

\* Three bit fields, the middle one a constant or not, that straddle octets.
BitSources ==
  {Source_("big-endian", order,
     <<Message("m", <<BitField("a", a),
                      IF constant THEN Fixed(BitField("b", b), Uneven % 2^b) ELSE BitField("b", b),
                      BitField("c", c)>>)>>) :
     order \in BitOrders, constant \in BOOLEAN, a \in {1, 2, 3, 5}, b \in {1, 4, 7}, c \in {1, 2, 3}}

NumberSources ==
  {Source_(order, "lsb-first",
     <<Message("m", <<IF constant THEN Fixed(Scalar("a", a), Pattern(Scalar("a", a), 3)) ELSE Scalar("a", a),
                      BitField("b", 3), Fixed(BitField("c", 1), 1), Scalar("d", d)>>)>>) :
     order \in ByteOrders, constant \in BOOLEAN, a \in OctetNumbers, d \in OctetNumbers}

\* A slice of derived length between two numbers, and a tail.
SliceSources ==
  {Network(<<Message("m", <<With(Scalar("length", type), "length_of", "data"), Scalar("a", "u8"),
                            With(ByteField("data"), "length_from", "length"),
                            Scalar("b", "u16")>> \o tail)>>) :
     type \in OctetNumbers, tail \in {<<>>, <<ByteField("rest")>>}}

\* Rows of a child with a slice of its own, counted by a number or by bits.
RowMessage == Message("row", <<Scalar("x", "u8"), With(Scalar("length", "u8"), "length_of", "data"),
                               With(ByteField("data"), "length_from", "length")>>)
ListSources ==
  {Source_("big-endian", order,
     <<RowMessage,
       Message("m", <<With(count, "count_of", "rows"), BitField("a", 1), Scalar("b", "u8"),
                      [name |-> "rows", type |-> "records", message |-> "row", count_from |-> "count"],
                      Scalar("c", "u8")>>)>>) :
     order \in BitOrders, count \in {BitField("count", 3), BitField("count", 1), BitField("count", 5)}}
  \cup
  {Network(<<RowMessage,
       Message("m", <<With(Scalar("count", type), "count_of", "rows"), Scalar("a", "u8"),
                      [name |-> "rows", type |-> "records", message |-> "row", count_from |-> "count"]>>)>>) :
     type \in OctetNumbers}

\* Two alternatives of different shapes, three of the selector's values unmatched.
ChoiceSources ==
  {Network(<<Message("one", <<Scalar("x", "u8")>>), Message("two", <<Scalar("x", "u8"), Scalar("y", "u16")>>),
       Message("m", <<Scalar("kind", kind), Scalar("a", "u8"),
                      [name |-> "content", type |-> "choice", select_from |-> "kind",
                       cases |-> <<[value |-> 2, message |-> "two"], [value |-> 0, message |-> "one"]>>],
                      Scalar("b", "u8")>>)>>) :
     kind \in OctetNumbers}

\* Every message a list of the one before: as deep as the call stack, and deeper.
ChainMessage(k) ==
  IF k = 1 THEN Message("m1", <<Scalar("x", "u8")>>)
  ELSE Message(<<"m1", "m2", "m3", "m4">>[k],
         <<With(Scalar("count", "u8"), "count_of", "rows"),
           [name |-> "rows", type |-> "records", message |-> <<"m1", "m2", "m3">>[k-1],
            count_from |-> "count"]>>)
ChainSources == {Network([k \in 1..n |-> ChainMessage(k)]) : n \in 1..4}

\* Messages side by side: as many as a table may have, and one more.
WideSources ==
  {Network([k \in 1..n |-> Message(<<"m1", "m2", "m3", "m4", "m5">>[k], <<Scalar("x", "u8")>>)]) :
     n \in {MAX_FORMATS, MAX_FORMATS + 1}}

\* Every message of up to MaxFields of these fields, in every order: which of them
\* the reader accepts is the reader's business.
SomeFields(last) ==
  {Scalar("a", "u8"), BitField("b", 1), Fixed(BitField("c", 3), 5),
   With(Scalar("n", "sdnv"), "length_of", "data"), With(ByteField("data"), "length_from", "n"),
   ByteField("rest")} \cup last
SomeRows ==
  {With(BitField("k", 2), "count_of", "rows"),
   [name |-> "rows", type |-> "records", message |-> "row", count_from |-> "k"]}
SomeChoice ==
  {[name |-> "content", type |-> "choice", select_from |-> "a",
    cases |-> <<[value |-> 3, message |-> "row"]>>]}
AnySources ==
  {Network(<<RowMessage, Message("m", fields)>>) :
     fields \in UNION {[1..n -> SomeFields(last)] : n \in 1..MaxFields, last \in {SomeRows, SomeChoice}}}
-----------------------------------------------------------------------------
(* Values, the rows of a message: what the caller of an encoder attaches.    *)

\* Every slice is the beginning of this memory.
Memory == <<3, 1, 2, 0, 3>>
Prefix(n) == SubSeq(Memory, 1, n)

\* Values for the caller fields: numbers by the pattern, slices of n octets, these rows.
Values(message, pattern, n, rows) ==
  [name \in SuppliedNames(message) |->
     LET field == message.fields[FieldIndex(message, name)]
     IN CASE field.type = "bytes" -> Prefix(n)
          [] field.type \in {"records", "choice"} -> rows
          [] OTHER -> Pattern(field, pattern[((FieldIndex(message, name) - 1) % Len(pattern)) + 1])]

Patterns == {<<p, q>> : p \in 1..3, q \in 1..3}

\* The octets of a message whose fields hold these values, rows included.
RECURSIVE WireStream(_, _, _)
WireStream(protocol, message, values) ==
  LET Rows(child, rows) ==
        FlattenSeq([r \in DOMAIN rows |->
          WireStream(protocol, protocol.messages[MessageIndex(protocol, child) + 1], rows[r])])
      Field_(field) ==
        CASE field.type = "records" -> Rows(field.message, values[field.name])
          [] field.type = "choice" ->
               LET matched == {k \in DOMAIN field.cases : field.cases[k].value = values[field.select_from]}
               IN FlattenSeq([k \in 1..Len(field.cases) |->
                    IF k \in matched THEN Rows(field.cases[k].message, values[field.name]) ELSE <<>>])
          [] Has(field, "count_of") /\ ~Has(field, "length_of") ->
               FieldStream(protocol, field, Len(values[field.count_of]))
          [] OTHER -> FieldStream(protocol, field, FieldValue(field, values))
  IN FlattenSeq([i \in DOMAIN message.fields |-> Field_(message.fields[i])])

Wire(protocol, message, values) == Octets(protocol, WireStream(protocol, message, values))

\* The value of a caller field as the interpreter's parameter or variable.
Swapped(protocol, field, n) ==
  LET k == Swap(protocol, field) IN IF k = 0 THEN n ELSE Number(LittleEndian(n, k))

\* What the caller sets up for a message: values, slices and lists at the ordinals of
\* its caller fields; the list of a records or choice field is the first of the heap.
Attached(protocol, message, values) ==
  LET caller == SelectSeq(message.fields, Supplied)
      At(x)  == caller[x + 1]
      Inside_(x) == x < Len(caller)
      IsNumber(x) == Inside_(x) /\ At(x).type \in Scalars
  IN [values |-> [x \in Slots |-> IF IsNumber(x) THEN Int64(Swapped(protocol, At(x), values[At(x).name])) ELSE 0],
      slices |-> [x \in Slots |-> IF Inside_(x) /\ At(x).type = "bytes"
                    THEN [data |-> 1, length |-> Len(values[At(x).name])] ELSE NoSlice],
      lists  |-> [x \in Slots |-> IF Inside_(x) /\ At(x).type \in {"records", "choice"} THEN 1 ELSE NULL]]

Top(protocol) == protocol.messages[Len(protocol.messages)]

\* The child message whose rows a list holds: the only one, or the one selected.
Listed(protocol, values) ==
  LET lists == SelectSeq(Top(protocol).fields, LAMBDA f : f.type \in {"records", "choice"})
      Selected(field) ==
        {field.cases[k].message : k \in {h \in DOMAIN field.cases : field.cases[h].value = values[field.select_from]}}
      names == IF lists = <<>> THEN {}
               ELSE IF lists[1].type = "records" THEN {lists[1].message} ELSE Selected(lists[1])
  IN {protocol.messages[MessageIndex(protocol, name) + 1] : name \in names}

ListName(protocol) ==
  LET lists == SelectSeq(Top(protocol).fields, LAMBDA f : f.type \in {"records", "choice"})
  IN IF lists = <<>> THEN "" ELSE lists[1].name

BlankRow == RowOf(<<>>, <<>>, <<>>)
Capacity == 5

\* The caller's one list: filled to encode, with room to decode.  A choice that is
\* not going to select anything is given rows of the first message.
Heap(protocol, values, encode) ==
  LET name == ListName(protocol)
      child == Listed(protocol, values)
      message == IF child = {} THEN protocol.messages[1] ELSE CHOOSE m \in child : TRUE
      fields == CallerFieldCount(message)
      rows == IF name = "" THEN <<>> ELSE values[name]
  IN IF name = "" THEN <<>>
     ELSE IF encode
       THEN <<ListOf([r \in DOMAIN rows |-> Attached(protocol, message, rows[r])], Len(rows), fields)>>
       ELSE <<ListOf([r \in 1..Capacity |-> BlankRow], 0, fields)>>

Origin(protocol, values) == [protocol |-> protocol, values |-> values]

EncoderJob(protocol, values) ==
  LET own == Attached(protocol, Top(protocol), values)
  IN [EncodeJob(EncodeTable(protocol),
                <<EncodeText(protocol, Top(protocol))>>, <<>>, <<>>, <<>>,
                Heap(protocol, values, TRUE), Memory, 40, {})
        EXCEPT !.params = own.values, !.slices = own.slices, !.lists = own.lists]
     @@ Origin(protocol, values)

DecoderJob(protocol, values, wire) ==
  LET own == Attached(protocol, Top(protocol), values)
  IN [DecodeJob(DecodeTable(protocol),
                <<DecodeText(protocol, Top(protocol))>>, wire, <<>>,
                Heap(protocol, values, FALSE), {})
        EXCEPT !.lists = own.lists]
     @@ Origin(protocol, values)
-----------------------------------------------------------------------------
(* Jobs                                                                      *)

\* What wfc compiles of a set of sources.
Compiled(protocols) ==
  {p \in protocols :
     /\ ProtocolAccepted(p)
     /\ \A m \in DOMAIN p.messages :
           Aligned(p.messages[m]) /\ Compilable(p.messages[m], MAX_PARAMS, MAX_VARS)}

\* Pairs of a source and the values of its last message.
FlatCases ==
  {<<p, Values(Top(p), pattern, 0, <<>>)>> :
     p \in Compiled(BitSources \cup NumberSources), pattern \in Patterns}
SliceCases ==
  {<<p, Values(Top(p), <<3, 2>>, n, <<>>)>> : p \in Compiled(SliceSources), n \in 0..4}

RowValues(r) == Values(RowMessage, <<r>>, r, <<>>)
ListCases ==
  {<<p, Values(Top(p), <<3, 2>>, 0, [r \in 1..n |-> RowValues((r % 3) + 1)])>> :
     p \in Compiled(ListSources), n \in 0..4}

\* Selectors 0 and 2 are matched, 3 is not; with the row selected, or with a row or
\* none attached to no avail.
Chosen(top, kind, n) ==
  [Values(top, <<3, 2>>, 0, [r \in 1..n |-> IF kind = 2 THEN [x |-> r, y |-> 6] ELSE [x |-> r]])
     EXCEPT !.kind = kind]
ChoiceCases ==
  {<<p, Chosen(Top(p), c[1], c[2])>> :
     p \in Compiled(ChoiceSources), c \in {<<0, 1>>, <<2, 1>>, <<3, 0>>, <<3, 1>>}}

ChainCases == {<<p, Values(Top(p), <<3>>, 0, <<>>)>> : p \in Compiled(ChainSources)}
WideCases  == {<<p, Values(Top(p), <<3>>, 0, <<>>)>> : p \in Compiled(WideSources)}
AnyCases   == {<<p, Values(Top(p), <<3>>, 2, <<RowValues(1)>>)>> : p \in Compiled(AnySources)}

\* Messages that check constants, to be read from every string of up to four octets.
CheckingSources ==
  LET message == Message("m", <<BitField("a", 1), Fixed(BitField("b", 2), 2), BitField("c", 1),
                                Fixed(Scalar("d", "u8"), 1)>>)
      sliced == Message("m", <<With(Scalar("length", "u8"), "length_of", "data"),
                               With(ByteField("data"), "length_from", "length"), Fixed(Scalar("d", "sdnv"), 1)>>)
  IN Compiled({Source_("big-endian", order, <<m>>) : order \in BitOrders, m \in {message, sliced}})

Reading(p, wire) == DecoderJob(p, Values(Top(p), <<1>>, 0, <<>>), wire)
Encoding(p, values) == EncoderJob(p, values)
Decoding(p, values) == DecoderJob(p, values, Wire(p, Top(p), values))

\* Both ways, and every octet string.  (Numbering the kinds of jobs keeps TLC from
\* comparing whole sources.)
CompiledJobs ==
  {IF c[1] = 0 THEN Reading(c[3][1], c[3][2])
   ELSE IF c[2] THEN Encoding(c[3][1], c[3][2]) ELSE Decoding(c[3][1], c[3][2]) :
     c \in ({0} \X {FALSE} \X (CheckingSources \X UNION {[1..n -> Byte] : n \in 0..4}))
       \cup ({1} \X BOOLEAN \X FlatCases)   \cup ({2} \X BOOLEAN \X SliceCases)
       \cup ({3} \X BOOLEAN \X ListCases)   \cup ({4} \X BOOLEAN \X ChoiceCases)
       \cup ({5} \X BOOLEAN \X ChainCases)  \cup ({6} \X BOOLEAN \X AnyCases)
       \cup ({7} \X BOOLEAN \X WideCases)}

\* Derived lengths in a little-endian protocol, kept apart: see EncodesLikeReference's violation.
LittleEndianSources ==
  {Source_("little-endian", "msb-first",
     <<Message("m", <<With(Scalar("length", type), "length_of", "data"),
                      With(ByteField("data"), "length_from", "length")>>)>>) : type \in OctetNumbers}
LittleEndianJobs ==
  {Encoding(p, Values(Top(p), <<1>>, n, <<>>)) : p \in Compiled(LittleEndianSources), n \in 0..4}

\* Length fields that also claim to count something: nothing at all, a byte field, or
\* a record field that names them as well.
DoubleSources ==
  {Network(<<Message("row", <<Scalar("x", "u8")>>),
             Message("m", <<With(With(Scalar("n", "u8"), "length_of", "data"), "count_of", counted),
                            With(ByteField("data"), "length_from", "n")>>
                          \o (IF counted # "rows" THEN <<>>
                              ELSE <<[name |-> "rows", type |-> "records", message |-> "row",
                                      count_from |-> "n"]>>))>>) :
     counted \in {"none", "data", "rows"}}

\* The reader alone: a job that runs nothing.
ReaderJobs ==
  {EncodeJob(NoTable, <<<<>>>>, <<>>, <<>>, <<>>, <<>>, <<>>, 0, {}) @@ Origin(p, <<>>) :
     p \in {q \in DoubleSources \cup SliceSources \cup ListSources : ProtocolAccepted(q)}}
-----------------------------------------------------------------------------
(* Properties                                                                *)

Protocol == job.protocol
Sent     == Top(Protocol)
Over     == status = "returned"
Flat     == \A i \in DOMAIN Sent.fields : Sent.fields[i].type \notin {"records", "choice"}

\* The caller field at an ordinal.
CallerField(message, x) == SelectSeq(message.fields, Supplied)[x + 1]

\* Whether what a derived field counts can be written in it.
LengthsFit ==
  \A i \in DOMAIN Sent.fields :
     LET field == Sent.fields[i]
     IN /\ Has(field, "length_of") => Fits(Len(job.values[field.length_of]), field)
        /\ Has(field, "count_of")  => Fits(Len(job.values[field.count_of]), field)

\* The compiled encode program writes what the reference encoder of `wfc check`
\* writes for the same values: in either bit and byte order, at every alignment,
\* with constants, slices, tails, and the rows of lists and choices one after another.
EncodesLikeReference ==
  Over /\ job.encode => ~wi.overrun /\ wi.out = Wire(Protocol, Sent, job.values)

\* The compiled decode program reads what the reference decoder reads, of any octets
\* at all: it overruns if and only if they are too few, raises the fixed-field fault
\* if and only if a constant differs, and otherwise leaves each caller field's value,
\* or its slice of the input, at the field's ordinal.
DecodesLikeReference ==
  Over /\ ~job.encode /\ Flat =>
    LET back == Decoded(Protocol, Sent, job.mem)
        Mismatch(i) == Has(Sent.fields[i], "constant") /\ back.values[i] # Sent.fields[i].constant
    IN /\ wi.overrun <=> ~back.ok
       /\ back.ok =>
            /\ wi.in_pos * BYTE_BITS = back.position
            /\ wi.faults = IF \E i \in DOMAIN Sent.fields : Mismatch(i) THEN {0} ELSE {}
            /\ \A i \in DOMAIN Sent.fields :
                  LET field == Sent.fields[i]
                      x == Ordinal(Sent, i)
                  IN Supplied(field) =>
                       IF field.type = "bytes" THEN Bytes(wi.slices[x]) = back.values[i]
                       ELSE Swapped(Protocol, field, Unsigned(wi.vars[x])) = back.values[i]

\* Rows come back: decoding what was encoded fills the list with as many rows as were
\* sent, each with the values and slices of its row, and consumes the whole input.
RowsComeBack ==
  Over /\ ~job.encode /\ ~Flat /\ LengthsFit =>
    LET sent == job.values[ListName(Protocol)]
        child == CHOOSE m \in Listed(Protocol, job.values) : TRUE
    IN /\ ~wi.overrun /\ wi.in_pos = job.in_size
       /\ Listed(Protocol, job.values) # {} =>
            /\ heap[1].count = Len(sent)
            /\ \A r \in 1..Len(sent) : \A x \in 0..CallerFieldCount(child)-1 :
                  LET field == CallerField(child, x)
                      row == heap[1].rows[r]
                  IN IF field.type = "bytes" THEN Bytes(row.slices[x]) = sent[r][field.name]
                     ELSE Unsigned(row.values[x]) = sent[r][field.name]

\* A choice whose selector matches no case writes and reads nothing, and leaves the
\* attached list as it was: its count is no evidence of a row.
UnmatchedChoiceLeavesList ==
  Over /\ ~Flat /\ Listed(Protocol, job.values) = {} =>
    ~wi.overrun /\ heap = job.heap

\* A length that does not fit its field is written truncated, without a word from the
\* program; the vector check refuses such a wire, and only such a one.
TruncationIsCaught ==
  Over /\ job.encode /\ Flat =>
    (VectorAccepted(Protocol, Sent, [values |-> job.values, wire |-> wi.out]) <=> LengthsFit)

\* A message ends with an empty operand stack and no bits pending, so that the next
\* message can be parsed with the same wi_vars_t.
MessagesEndClean ==
  Over /\ ~wi.overrun =>
    wi.fstack = <<>> /\ wi.bit_acc = 0 /\ ~wi.in_loaded /\ pending = 1

\* The levels of lists and choices below a message.
Levels(protocol) ==
  LET level[m \in DOMAIN protocol.messages] ==
        LET message == protocol.messages[m]
            children == {k \in 1..m-1 : \E i \in DOMAIN message.fields :
                           protocol.messages[k].name \in Children(message.fields[i])}
        IN 1 + FoldFunction(Larger, 0, [k \in children |-> level[k]])
  IN FoldFunction(Larger, 0, level)

\* What a caller can tell of a source: no more messages than a table may have formats,
\* and lists and choices that nest no deeper than the call stack.
Installable ==
  /\ Len(Protocol.messages) <= MAX_FORMATS
  /\ Levels(Protocol) + 1 <= CALL_DEPTH

\* wi_set_formats() takes the compiled tables of a protocol if and only if the number
\* and the nesting of its messages allow it: the compiler, which limits neither, neither
\* adds a format or a level of its own nor hides a call from table_depth().
InstalledIfItFits ==
  /\ status = "refused" => ~Installable
  /\ status = "parsing" => Installable /\ AllCounted

\* "Both references are required" (README.md): in an accepted source every relation
\* of a field is answered by the field it names.
ReferencesAreMutual ==
  \A m \in DOMAIN Protocol.messages : \A i \in DOMAIN Protocol.messages[m].fields :
     \A relation \in DOMAIN Protocol.messages[m].fields[i] \cap ToSet(Relations) :
        RelationKept(Protocol.messages[m], i, relation)
=============================================================================
