----------------------------- MODULE WiCompile -----------------------------
(***************************************************************************)
(* wfc's code generator for format versions 1 to 3 (wi.c): the encode and  *)
(* decode program of each message, as token strings of module Formats.     *)
(* Message m's programs are entry m-1 of the tables, where %J[m-1] finds   *)
(* them.                                                                   *)
(***************************************************************************)
EXTENDS Schema, Formats

Code(op)      == <<[op |-> op, n |-> 0]>>
CodeN(op, n)  == <<[op |-> op, n |-> n]>>
PushNumber(n) == CodeN("{", n)

\* Names on the wire of a fixed-width number: its %-letters to write and to read.
Letter == [u8  |-> [write |-> "b", read |-> "B"], u16  |-> [write |-> "w", read |-> "S"],
           u32 |-> [write |-> "W", read |-> "L"], u64  |-> [write |-> "q", read |-> "Q"],
           sdnv |-> [write |-> "d", read |-> "D"]]

\* WI_FIXED_FIELD_FAULT, bit 0.
FixedFieldFault == 1

CheckConstant(expected) ==
  PushNumber(expected) \o Code("=") \o Code("!") \o Code("?") \o Code("t")
  \o PushNumber(FixedFieldFault) \o Code("E") \o Code(";")

-----------------------------------------------------------------------------
(* Ordinals and variables                                                    *)

SuppliedBefore(message, i) == {k \in 1..i-1 : Supplied(message.fields[k])}

\* A caller field's index among the caller fields, from 0: its parameter, slice or
\* list slot, and its decode variable.
Ordinal(message, i)        == Cardinality(SuppliedBefore(message, i))
CallerFieldCount(message)  == Ordinal(message, Len(message.fields) + 1)
Slot(message, name)        == Ordinal(message, FieldIndex(message, name))

Derived(field) == Has(field, "length_of") \/ Has(field, "count_of")

\* Mutant: derived fields share the variables of the caller fields.
VariableShared(message, i) ==
  IF Derived(message.fields[i])
  THEN Cardinality({k \in 1..i-1 : Derived(message.fields[k])})
  ELSE Ordinal(message, i)

\* Derived fields are decoded into the variables behind those of the caller fields.
Variable(message, i) ==
  IF Derived(message.fields[i])
  THEN CallerFieldCount(message) + Cardinality({k \in 1..i-1 : Derived(message.fields[k])})
  ELSE Ordinal(message, i)

VariableOf(message, name) == Variable(message, FieldIndex(message, name))

\* What compile_message() refuses of an accepted source.
Compilable(message, callerFields, variables) ==
  LET Derived_(i) == Derived(message.fields[i])
  IN /\ CallerFieldCount(message) <= callerFields
     /\ CallerFieldCount(message) + Cardinality({i \in DOMAIN message.fields : Derived_(i)})
          <= variables \/ ~\E i \in DOMAIN message.fields : Derived_(i)
     /\ \A i \in DOMAIN message.fields :
           message.fields[i].type = "bits" /\ Supplied(message.fields[i])
             => message.fields[i].width < WordBits

-----------------------------------------------------------------------------
(* Bit fields: one fragment for each octet the field touches.                *)

Smaller(a, b) == IF a < b THEN a ELSE b
Larger(a, b)  == IF a < b THEN b ELSE a

\* The fragments of a field of this width at this bit: how much of the field precedes
\* it, where in its octet it begins, its size, whether it fills its octet up.
Fragments(offset, width) ==
  [j \in 1 .. ((offset + width - 1) \div BYTE_BITS) - (offset \div BYTE_BITS) + 1 |->
     LET octet == offset \div BYTE_BITS + j - 1
         first == Larger(offset, octet * BYTE_BITS)
         end   == Smaller(offset + width, (octet + 1) * BYTE_BITS)
     IN [consumed |-> first - offset, within |-> first % BYTE_BITS, chunk |-> end - first,
         flush |-> end % BYTE_BITS = 0]]

\* Mutant: least significant fragment first in both orders.
ShiftAlwaysLsb(protocol, width, f) == f.consumed

\* The field's bits below the fragment, and the bits of the octet below it.
Shift(protocol, width, f) ==
  IF protocol.bit_order = "msb-first" THEN width - f.consumed - f.chunk ELSE f.consumed
BitPlace(protocol, f) ==
  IF protocol.bit_order = "msb-first" THEN BYTE_BITS - f.within - f.chunk ELSE f.within

AtBits(protocol, f, op) ==
  PushNumber(f.chunk) \o PushNumber(BitPlace(protocol, f)) \o Code(op)

\* Mutant: a fragment that is a whole octet is not flushed.
FlushedAtSeams(f) == IF f.flush /\ f.within > 0 THEN Code("f") ELSE <<>>

Flushed(f) == IF f.flush THEN Code("f") ELSE <<>>

\* source pushes the number the field holds.
PackedFrom(protocol, source, offset, width) ==
  LET Piece(f) ==
        LET shift == Shift(protocol, width, f)
        IN source
           \o (IF shift = 0 THEN <<>> ELSE PushNumber(2 ^ shift) \o Code("/"))
           \o PushNumber(2 ^ f.chunk - 1) \o Code("&") \o AtBits(protocol, f, "x") \o Flushed(f)
      fragments == Fragments(offset, width)
  IN FlattenSeq([j \in DOMAIN fragments |-> Piece(fragments[j])])

\* The fragments put together on the stack: in msb-first order each makes room for
\* the next, in lsb-first order each is moved above the ones before.
UnpackedTo(protocol, variable, offset, width) ==
  LET msb == protocol.bit_order = "msb-first"
      Piece(f) ==
        (IF msb /\ f.consumed > 0 THEN PushNumber(2 ^ f.chunk) \o Code("*") ELSE <<>>)
        \o AtBits(protocol, f, "X")
        \o (IF ~msb /\ f.consumed > 0 THEN PushNumber(2 ^ f.consumed) \o Code("*") ELSE <<>>)
        \o (IF f.consumed > 0 THEN Code("+") ELSE <<>>) \o Flushed(f)
      fragments == Fragments(offset, width)
  IN FlattenSeq([j \in DOMAIN fragments |-> Piece(fragments[j])]) \o CodeN("P", variable)

ConstantBits(protocol, constant, offset, width, writes) ==
  LET Piece(f) ==
        LET part == (constant \div 2 ^ Shift(protocol, width, f)) % 2 ^ f.chunk
        IN (IF writes THEN PushNumber(part) \o AtBits(protocol, f, "x")
                      ELSE AtBits(protocol, f, "X") \o CheckConstant(part)) \o Flushed(f)
      fragments == Fragments(offset, width)
  IN FlattenSeq([j \in DOMAIN fragments |-> Piece(fragments[j])])

-----------------------------------------------------------------------------
(* One field's piece of the two programs                                     *)

\* A constant, octet by octet in the byte order of the protocol.
ConstantScalar(protocol, field, writes) ==
  LET size   == Width(field) \div BYTE_BITS
      octets == IF protocol.byte_order = "big-endian" THEN BigEndian(field.constant, size)
                                                      ELSE LittleEndian(field.constant, size)
      Piece(octet) == IF writes THEN PushNumber(octet) \o Code("b")
                                ELSE Code("B") \o CheckConstant(octet)
  IN IF field.type = "sdnv"
     THEN IF writes THEN PushNumber(field.constant) \o Code("d")
                    ELSE Code("D") \o CheckConstant(field.constant)
     ELSE FlattenSeq([k \in 1..size |-> Piece(octets[k])])

\* The number that a field which is no constant writes: the caller's parameter, the
\* length of a slice or the count of a list; a count takes precedence.  Little-endian
\* parameters are swapped by the caller, see Swap; lengths and counts are not.
Source(message, i) ==
  LET field == message.fields[i]
  IN IF Has(field, "count_of") THEN PushNumber(Slot(message, field.count_of)) \o Code("k")
     ELSE IF Has(field, "length_of") THEN PushNumber(Slot(message, field.length_of)) \o Code("z")
     ELSE CodeN("p", Ordinal(message, i) + 1)

\* The index of a message in the tables.
MessageIndex(protocol, name) ==
  (CHOOSE m \in DOMAIN protocol.messages : protocol.messages[m].name = name) - 1

\* Mutant: the number of the parent's own fields.
RowsOfParent(protocol, message, i, child) ==
  PushNumber(Ordinal(message, i)) \o PushNumber(CallerFieldCount(message))
  \o CodeN("J[", MessageIndex(protocol, child))

\* %{slot}%{fields}%J[child], behind the count.
RowsOf(protocol, message, i, child) ==
  LET index == MessageIndex(protocol, child)
  IN PushNumber(Ordinal(message, i))
     \o PushNumber(CallerFieldCount(protocol.messages[index + 1])) \o CodeN("J[", index)

\* Mutant: the last case is taken without a look at the selector.
CasesWithDefault(protocol, message, i, selector) ==
  LET field == message.fields[i]
      n == Len(field.cases)
      Row_(k) == PushNumber(1) \o RowsOf(protocol, message, i, field.cases[k].message)
      Case(k) == Code("?") \o selector \o PushNumber(field.cases[k].value) \o Code("=")
                 \o Code("t") \o Row_(k) \o Code("e")
  IN FlattenSeq([k \in 1..n-1 |-> Case(k)]) \o Row_(n) \o FlattenSeq([k \in 1..n-1 |-> Code(";")])

\* Each case on its own: the selector's number, a comparison, one row.
Cases(protocol, message, i, selector) ==
  LET field == message.fields[i]
      Case(k) == Code("?") \o selector \o PushNumber(field.cases[k].value) \o Code("=")
                 \o Code("t") \o PushNumber(1)
                 \o RowsOf(protocol, message, i, field.cases[k].message) \o Code(";")
  IN FlattenSeq([k \in DOMAIN field.cases |-> Case(k)])

EncodeField(protocol, message, i) ==
  LET field == message.fields[i]
      slot  == PushNumber(Ordinal(message, i))
  IN CASE field.type = "bits" ->
            IF Has(field, "constant")
            THEN ConstantBits(protocol, field.constant, Offset(message, i), field.width, TRUE)
            ELSE PackedFrom(protocol, Source(message, i), Offset(message, i), field.width)
       [] field.type = "bytes" ->
            IF Has(field, "length_from") THEN slot \o Code("z") \o slot \o Code("V")
                                         ELSE slot \o Code("v")
       [] field.type = "records" ->
            slot \o Code("k") \o RowsOf(protocol, message, i, field.message)
       [] field.type = "choice" ->
            Cases(protocol, message, i, CodeN("p", Slot(message, field.select_from) + 1))
       [] field.type \in OctetNumbers ->
            IF Has(field, "constant") THEN ConstantScalar(protocol, field, TRUE)
            ELSE Source(message, i) \o Code(Letter[field.type].write)

DecodeField(protocol, message, i) ==
  LET field == message.fields[i]
      slot  == PushNumber(Ordinal(message, i))
      From(property) == CodeN("g", VariableOf(message, field[property]))
  IN CASE field.type = "bits" ->
            IF Has(field, "constant")
            THEN ConstantBits(protocol, field.constant, Offset(message, i), field.width, FALSE)
            ELSE UnpackedTo(protocol, Variable(message, i), Offset(message, i), field.width)
       [] field.type = "bytes" ->
            IF Has(field, "length_from") THEN From("length_from") \o slot \o Code("N")
                                         ELSE slot \o Code("R")
       [] field.type = "records" ->
            From("count_from") \o RowsOf(protocol, message, i, field.message)
       [] field.type = "choice" -> Cases(protocol, message, i, From("select_from"))
       [] field.type \in OctetNumbers ->
            IF Has(field, "constant") THEN ConstantScalar(protocol, field, FALSE)
            ELSE Code(Letter[field.type].read) \o CodeN("P", Variable(message, i))

EncodeText(protocol, message) ==
  FlattenSeq([i \in DOMAIN message.fields |-> EncodeField(protocol, message, i)])
DecodeText(protocol, message) ==
  FlattenSeq([i \in DOMAIN message.fields |-> DecodeField(protocol, message, i)])

\* The octets a caller swaps before encoding and after decoding: 2, 4 or 8 for the
\* little-endian caller scalars of that size, 0 for everything else.
Swap(protocol, field) ==
  IF protocol.byte_order = "little-endian" /\ field.type \in {"u16", "u32", "u64"}
  THEN Width(field) \div BYTE_BITS ELSE 0

\* The strings of the image that a reader installs with wi_set_formats().
ProgramTable(texts) == [nfmts |-> Len(texts), fmts |-> [k \in 0..Len(texts)-1 |-> texts[k + 1]]]
EncodeTable(protocol) ==
  ProgramTable([k \in DOMAIN protocol.messages |-> EncodeText(protocol, protocol.messages[k])])
DecodeTable(protocol) ==
  ProgramTable([k \in DOMAIN protocol.messages |-> DecodeText(protocol, protocol.messages[k])])
=============================================================================
