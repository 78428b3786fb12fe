--------------------------- MODULE RecordCompile ---------------------------
(***************************************************************************)
(* records.c: which version 4 sources wfc accepts, and the two programs it *)
(* compiles each message to.                                               *)
(*                                                                         *)
(* A source is a function from message numbers 0..n-1 to [name, fields]; a *)
(* field is a function from its JSON5 properties to their values, so that  *)
(* get(f, "when") # NULL is Has(f, "when").  An expression is the JSON5    *)
(* array as a tuple, with <<"number", n>> for a literal and <<"ref", up,   *)
(* name>> for a field name behind up prefixes "parent.".                   *)
(*                                                                         *)
(* A program is a sequence of tokens [op, n, up, name, member]: op is the  *)
(* specifier's letter, or u and the letter behind %u; n a literal or the   *)
(* format %J calls; up, name, member its operands in braces.               *)
(***************************************************************************)
EXTENDS Words, SequencesExt

CONSTANTS MAX_MESSAGES, MAX_FIELDS, MAX_NESTING, MAX_EXPRESSION

ASSUME ExpressionAssumption == MAX_EXPRESSION \in Nat

Has(field, property) == property \in DOMAIN field

Kinds == <<"uint", "bytes", "sdnv", "records", "parameter", "computed", "assert", "mark",
           "crc", "cbor-uint", "cbor-bytes", "cbor-text", "cbor-array", "decimal", "bcd",
           "terminated-uint">>
Kind(field) == CHOOSE i \in DOMAIN Kinds : Kinds[i] = field.type

MaxWord == Modulus - 1          \* UINT64_MAX
EndOfInput == 2 ^ BYTE_BITS     \* the marker 256

\* Octets, and words that have room for the marker.
ASSUME OctetsAssumption == BYTE_BITS = 8 /\ WORD_BYTES >= 2

\* What the JSON5 reader returns for an array, and for an array of messages.
IsArray(e) == Len(e) \in Nat /\ e = [i \in 1 .. Len(e) |-> e[i]]
IsSource(source) ==
  /\ IsFiniteSet(DOMAIN source) /\ DOMAIN source = 0 .. Cardinality(DOMAIN source) - 1
  /\ \A m \in DOMAIN source : IsArray(source[m].fields)

Messages(source) == DOMAIN source
FieldNames(message) == {message.fields[i].name : i \in DOMAIN message.fields}

\* message_id(), local_field(), parents()
Identified(source, name) == {m \in Messages(source) : source[m].name = name}
Parents(source, scopes) ==
  {m \in Messages(source) :
     \E i \in DOMAIN source[m].fields :
       LET f == source[m].fields[i]
       IN Has(f, "message") /\ Identified(source, f.message) \cap scopes # {}}

\* reference(): each prefix goes one message up, then the first enclosing message
\* that has the field is searched for upwards.
Resolves(source, message, up, name) ==
  LET level[k \in 0 .. up + MAX_NESTING] ==
        IF k = 0 THEN {message} ELSE Parents(source, level[k - 1])
  IN \E k \in up .. up + MAX_NESTING : \E m \in level[k] : name \in FieldNames(source[m])

-----------------------------------------------------------------------------
(* validate()                                                                *)

\* The properties that only some types of field may have.
Applicability ==
  [width |-> {"uint", "decimal", "bcd"}, length |-> {"bytes", "terminated-uint"},
   decode_length |-> {"bytes"}, decode_value |-> {"computed"}, algorithm |-> {"crc"},
   from |-> {"crc"}, cbor |-> {"crc"}, to_end |-> {"crc"}, until |-> {"records"},
   count |-> {"records"}, message |-> {"records"}, byte_order |-> {"uint"},
   termination_mask |-> {"terminated-uint"}, termination_value |-> {"terminated-uint"}]

Properties == DOMAIN Applicability
              \cup {"name", "type", "description", "value", "constant", "when", "min", "max"}

Or(field, property, default) == IF Has(field, property) THEN field[property] ELSE default

\* until, the termination mask and value are numbers, not expressions.
FieldAccepted(source, m, field) ==
  /\ {"name", "type"} \subseteq DOMAIN field /\ DOMAIN field \subseteq Properties
  /\ field.name # ""
  /\ field.type \in ToSet(Kinds)
  /\ ~({"constant", "value"} \subseteq DOMAIN field)
  /\ ~({"length", "decode_length"} \subseteq DOMAIN field)
  /\ field.type \in {"uint", "decimal", "bcd"} => Has(field, "width")
  /\ field.type \in {"computed", "assert"} => Has(field, "value")
  /\ \A p \in DOMAIN field \cap Properties :
        p \in DOMAIN Applicability => field.type \in Applicability[p]
  /\ Has(field, "byte_order") => field.byte_order \in {"big-endian", "little-endian"}
  /\ Has(field, "until") => field.until \in 0 .. EndOfInput
  /\ field.type = "terminated-uint" =>
       LET mask == Or(field, "termination_mask", 1)
           stop == Or(field, "termination_value", 1)
       IN /\ mask \in 1 .. Base - 1 /\ stop \in 0 .. MaxWord
          /\ BitsOf(stop, WordBits) \subseteq BitsOf(mask, WordBits)
  /\ field.type = "records" =>
       Has(field, "message") /\ \E child \in Identified(source, field.message) : child < m

\* depths[]: the levels of records below and including a message.
Levels(source) ==
  LET level[m \in Nat] ==
        LET below == {c \in 0 .. m - 1 : m \in Parents(source, {c})}
        IN IF below = {} THEN 1 ELSE Max({level[c] : c \in below}) + 1
  IN [m \in Messages(source) |-> level[m]]

Valid(source) ==
  /\ Cardinality(Messages(source)) \in 1 .. MAX_MESSAGES
  /\ \A m, k \in Messages(source) : m # k => source[m].name # source[k].name
  /\ \A m \in Messages(source) : source[m].name # ""
  /\ \A m \in Messages(source) :
       LET fields == source[m].fields
       IN /\ Len(fields) <= MAX_FIELDS
          /\ \A i \in DOMAIN fields : FieldAccepted(source, m, fields[i])
          /\ \A i, j \in DOMAIN fields : i # j => fields[i].name # fields[j].name
  /\ \A m \in Messages(source) : Levels(source)[m] <= MAX_NESTING

-----------------------------------------------------------------------------
(* expression()                                                              *)

Op(op) == <<[op |-> op, n |-> 0, up |-> 0, name |-> "", member |-> ""]>>
OpN(op, n) == <<[Op(op)[1] EXCEPT !.n = n]>>
On(op, name) == <<[Op(op)[1] EXCEPT !.name = name]>>
OnRef(op, ref, member) ==
  <<[Op(op)[1] EXCEPT !.up = ref[2], !.name = ref[3], !.member = member]>>
Literal(n) == OpN("{", n)

Queries ==
  [q \in {"remaining", "position", "start", "peek", "index"} |->
     CASE q = "remaining" -> "ur" [] q = "position" -> "up" [] q = "start" -> "uo"
       [] q = "peek" -> "uk" [] q = "index" -> "un"]
Lists ==
  [l \in {"item", "unique", "count-equal"} |->
     CASE l = "item" -> "uI" [] l = "unique" -> "uU" [] l = "count-equal" -> "uC"]
Binaries ==
  [b \in {"+", "-", "*", "/", "%", "&", "|", "^", "<<", ">>", "==", "!=", "<", "<=", ">", ">=",
          "and", "or"} |->
     CASE b = "+" -> "u+" [] b = "-" -> "u-" [] b = "*" -> "u*" [] b = "/" -> "u/"
       [] b = "%" -> "um" [] b = "&" -> "u&" [] b = "|" -> "u|" [] b = "^" -> "u^"
       [] b = "<<" -> "u[" [] b = ">>" -> "u]" [] b = "==" -> "u=" [] b = "!=" -> "u~"
       [] b = "<" -> "u<" [] b = "<=" -> "ul" [] b = ">" -> "u>" [] b = ">=" -> "ug"
       [] b = "and" -> "uA" [] b = "or" -> "uO"]

\* What expression() accepts: an array of an operator that wfc knows and as many
\* arguments as it takes.
IsRef(e) == IsArray(e) /\ Len(e) = 3 /\ e[1] = "ref" /\ e[2] \in Nat /\ e[3] # ""
IsOperation(e) ==
  /\ IsArray(e)
  /\ LET head == e[1]
         arguments == Len(e) - 1
     IN \/ head = "number" /\ arguments = 1 /\ e[2] \in 0 .. MaxWord
        \/ IsRef(e)
        \/ head \in {"len", "count"} /\ arguments = 1 /\ IsRef(e[2])
        \/ head = "byte" /\ arguments = 2 /\ IsRef(e[2])
        \/ head = "unique" /\ arguments = 2 /\ IsRef(e[2]) /\ e[3] # ""
        \/ head \in {"item", "count-equal"} /\ arguments = 3 /\ IsRef(e[2]) /\ e[3] # ""
        \/ head \in DOMAIN Queries /\ arguments = 0
        \/ head \in DOMAIN Binaries /\ arguments = 2
        \/ head = "select" /\ arguments = 3
        \/ head = "not" /\ arguments = 1

\* The expressions that e begins with, in the order of their code, and the operation
\* behind them.
Operands(e) ==
  LET head == e[1]
  IN CASE head = "byte" -> <<e[3]>>
       [] head \in {"item", "count-equal"} -> <<e[4]>>
       [] head \in DOMAIN Binaries \cup {"select", "not"} -> Tail(e)
       [] OTHER -> <<>>

Operation(e) ==
  LET head == e[1]
  IN CASE head = "number" -> Literal(e[2])
       [] head = "ref"    -> OnRef("g", e, "")
       [] head = "len"    -> OnRef("z", e[2], "")
       [] head = "count"  -> OnRef("k", e[2], "")
       [] head = "byte"   -> OnRef("uh", e[2], "")
       [] head \in DOMAIN Lists    -> OnRef(Lists[head], e[2], e[3])
       [] head \in DOMAIN Queries  -> Op(Queries[head])
       [] head \in DOMAIN Binaries -> Op(Binaries[head])
       [] head = "select" -> Op("u?")
       [] head = "not"    -> Op("u!")

\* The expressions depth levels inside e.
Subexpressions(e, depth) ==
  LET at[k \in 0 .. depth] ==
        IF k = 0 THEN {e} ELSE UNION {ToSet(Operands(x)) : x \in at[k - 1]}
  IN at[depth]

Refused(e) ==
  \/ Subexpressions(e, MAX_EXPRESSION + 1) # {}
  \/ \E depth \in 0 .. MAX_EXPRESSION : \E x \in Subexpressions(e, depth) : ~IsOperation(x)

\* The code of an expression that is not refused, from the innermost level outwards.
Expression(e) ==
  LET code[k \in 0 .. MAX_EXPRESSION] ==
        [x \in Subexpressions(e, MAX_EXPRESSION - k) |->
           FlattenSeq([i \in DOMAIN Operands(x) |-> code[k - 1][Operands(x)[i]]]) \o Operation(x)]
  IN code[MAX_EXPRESSION][e]

Expressions(field) ==
  {field[p] : p \in DOMAIN field
     \cap {"width", "length", "decode_length", "value", "constant", "when", "min", "max",
           "count", "algorithm", "from", "decode_value"}}

-----------------------------------------------------------------------------
(* field_program()                                                           *)

ExpressionOr(field, property, default) ==
  IF Has(field, property) THEN Expression(field[property]) ELSE Literal(default)

\* The codes of wire_info_status_t that programs name.
RangeCode == 3
ConstantCode == 6
ConstraintCode == 8

Checked(field, bound, relation, code) ==
  IF Has(field, bound)
  THEN On("g", field.name) \o Expression(field[bound]) \o Op(relation) \o Literal(code) \o Op("ua")
  ELSE <<>>

BytesProgram(f, decode) ==
  LET length == IF decode /\ ~Has(f, "length") THEN "decode_length" ELSE "length"
  IN IF Has(f, length)
       THEN Expression(f[length]) \o On(IF decode THEN "N" ELSE "V", f.name)
       ELSE On(IF decode THEN "R" ELSE "v", f.name)

CborBytesProgram(f, decode) ==
  (IF decode THEN Literal(0) ELSE On("z", f.name))
  \o Literal(IF f.type = "cbor-bytes" THEN 2 ELSE 3) \o Op("ub")
  \o On(IF decode THEN "N" ELSE "V", f.name)

RecordsProgram(source, f) ==
  ExpressionOr(f, "count", IF Has(f, "until") THEN MaxWord ELSE 1)
  \o Literal(Or(f, "until", EndOfInput))
  \o <<[On("J", f.name)[1] EXCEPT !.n = CHOOSE m \in Identified(source, f.message) : TRUE]>>

\* Mutant: an algorithm that was not given is not written.
CrcProgramShort(f) ==
  (IF Has(f, "algorithm") THEN Expression(f.algorithm) ELSE <<>>)
  \o (IF Has(f, "from") THEN Expression(f["from"]) ELSE Op("uo"))
  \o Literal((IF Or(f, "cbor", FALSE) THEN 1 ELSE 0) + (IF Or(f, "to_end", FALSE) THEN 2 ELSE 0))
  \o On("uK", f.name)

\* The algorithm, the first octet covered, and the flags: 1 for a CBOR byte string, 2 for
\* a checksum that the end of the record finishes.
CrcProgram(f) ==
  ExpressionOr(f, "algorithm", 1)
  \o (IF Has(f, "from") THEN Expression(f["from"]) ELSE Op("uo"))
  \o Literal((IF Or(f, "cbor", FALSE) THEN 1 ELSE 0) + (IF Or(f, "to_end", FALSE) THEN 2 ELSE 0))
  \o On("uK", f.name)

\* The value a numeric field begins with: what the encoder derives, or what the
\* caller put there.
Initial(f, decode) ==
  LET derived == IF Has(f, "constant") THEN "constant"
                 ELSE IF decode THEN "decode_value" ELSE "value"
  IN IF f.type = "mark" THEN Op("up")
     ELSE IF f.type \in {"computed", "assert"}
       THEN Expression(IF Has(f, derived) THEN f[derived] ELSE f.value)
     ELSE IF decode /\ f.type # "parameter" THEN Literal(0)
     ELSE IF Has(f, derived) THEN Expression(f[derived]) ELSE On("g", f.name)

\* The conversion behind it.
Codec(f, decode) ==
  LET Load == On("g", f.name)
      Save == On("P", f.name)
      swap == IF Or(f, "byte_order", "") = "little-endian"
                THEN Expression(f.width) \o Op("us") ELSE <<>>
  IN CASE f.type = "uint" /\ ~decode -> Load \o swap \o Expression(f.width) \o Op("i")
       [] f.type = "uint" /\ decode  -> Expression(f.width) \o Op("j") \o swap \o Save
       [] f.type = "sdnv" -> IF decode THEN Op("D") \o Save ELSE Load \o Op("d")
       [] f.type \in {"cbor-uint", "cbor-array"} ->
            Load \o Literal(IF f.type = "cbor-uint" THEN 0 ELSE 4) \o Op("ub") \o Save
       [] f.type \in {"decimal", "bcd"} ->
            Load \o Expression(f.width) \o Literal(IF f.type = "bcd" THEN 1 ELSE 0)
            \o Op("ud") \o Save
       [] f.type = "terminated-uint" ->
            Load \o ExpressionOr(f, "length", 0) \o Literal(Or(f, "termination_mask", 1))
            \o Literal(Or(f, "termination_value", 1)) \o Op("uT") \o Save
       [] f.type = "assert" -> Load \o Literal(ConstraintCode) \o Op("ua")
       [] OTHER -> <<>>

\* Mutant: an absent field keeps what the caller's record held.
ConditionalKept(f, decode, body) ==
  IF Has(f, "when") THEN Op("?") \o Expression(f.when) \o Op("t") \o body \o Op(";") ELSE body

\* A field with "when" consumes nothing where that is zero; the decoder clears it.
Conditional(f, decode, body) ==
  IF Has(f, "when")
  THEN Op("?") \o Expression(f.when) \o Op("t") \o body
       \o (IF decode THEN Op("e") \o On("uZ", f.name) ELSE <<>>) \o Op(";")
  ELSE body

FieldProgram(source, f, decode) ==
  Conditional(f, decode,
    (IF f.type \in {"uint", "parameter", "computed", "assert"} THEN <<>> ELSE Op("uf"))
    \o (CASE f.type = "bytes" -> BytesProgram(f, decode)
          [] f.type \in {"cbor-bytes", "cbor-text"} -> CborBytesProgram(f, decode)
          [] f.type = "records" -> RecordsProgram(source, f)
          [] f.type = "crc" -> CrcProgram(f)
          [] OTHER -> Initial(f, decode) \o On("P", f.name) \o Codec(f, decode))
    \o (IF decode THEN Checked(f, "constant", "u=", ConstantCode) ELSE <<>>)
    \o Checked(f, "min", "ug", RangeCode) \o Checked(f, "max", "ul", RangeCode))

\* The program of a message in one direction, as wfc_records_generate() puts it
\* together.
Program(source, m, decode) ==
  FlattenSeq([i \in DOMAIN source[m].fields |->
                FieldProgram(source, source[m].fields[i], decode)]) \o Op("uF")

\* Every name in it that an expression wrote.
ReferencesResolve(source, m) ==
  \A decode \in BOOLEAN :
    LET program == Program(source, m, decode)
    IN \A i \in DOMAIN program :
         program[i].name # "" => Resolves(source, m, program[i].up, program[i].name)

Compiles(source) ==
  /\ Valid(source)
  /\ \A m \in Messages(source) :
       /\ \A i \in DOMAIN source[m].fields :
             \A e \in Expressions(source[m].fields[i]) : ~Refused(e)
       /\ ReferencesResolve(source, m)
=============================================================================
