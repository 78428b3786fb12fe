------------------------------- MODULE Schema -------------------------------
(***************************************************************************)
(* The protocol sources of format versions 1 to 3 and what wfc's schema    *)
(* reader (source.c) accepts of them.                                      *)
(*                                                                         *)
(* A field is what its JSON5 object says: a function from its property     *)
(* names to their values, so that wfc_field_t.length_of # NULL is          *)
(* "length_of" \in DOMAIN field.  A message is [name, fields], a protocol  *)
(* [version, byte_order, bit_order, messages].  Malformed stands for every *)
(* value that the reader of its property refuses on its own: the wrong     *)
(* JSON type, an invalid identifier, a number of more than 64 bits.  The   *)
(* limits of 64 bits and 8, 16, 32, 64 are those of Words.                 *)
(***************************************************************************)
EXTENDS Words, SequencesExt

CONSTANT Malformed

Has(field, property) == property \in DOMAIN field

OctetNumbers == {"u8", "u16", "u32", "u64", "sdnv"}
Scalars   == OctetNumbers \cup {"bits"}
Types     == Scalars \cup {"bytes", "records", "choice"}

\* The version a type needs.
Since(type) == CASE type \in {"sdnv", "records", "choice"} -> 3
                 [] type = "bytes" -> 2
                 [] OTHER -> 1

\* The relations in the order in which parse_message() looks for one, each with the
\* property by which the field it names must answer.
Relations == <<"length_of", "length_from", "count_of", "count_from", "select_from">>
Answer    == [length_of |-> "length_from", length_from |-> "length_of",
              count_of |-> "count_from",   count_from |-> "count_of"]

FieldProperties ==
  {"name", "type", "width", "constant", "message", "cases"} \cup ToSet(Relations)

\* Bits of a field in the fixed layout; an SDNV counts for one octet, variable
\* fields for nothing.
Width(field) ==
  CASE field.type = "bits" -> field.width
    [] field.type \in {"u8", "sdnv"} -> BYTE_BITS
    [] field.type = "u16" -> (WORD_BYTES \div 4) * BYTE_BITS
    [] field.type = "u32" -> (WORD_BYTES \div 2) * BYTE_BITS
    [] field.type = "u64" -> WordBits
    [] OTHER -> 0

Fits(value, field) == field.type = "sdnv" \/ value < 2 ^ Width(field)

CasesAccepted(cases) ==
  /\ cases # <<>>
  /\ \A i, j \in DOMAIN cases : i # j => cases[i].value # cases[j].value

\* parse_field()
FieldAccepted(field, version) ==
  LET Only(property, types) == Has(field, property) => field.type \in types
  IN /\ {"name", "type"} \subseteq DOMAIN field /\ DOMAIN field \subseteq FieldProperties
     /\ \A property \in DOMAIN field : field[property] # Malformed
     /\ field.type \in Types /\ version >= Since(field.type)
     /\ DOMAIN field \cap ToSet(Relations) # {} => version >= 3
     /\ Has(field, "width") <=> field.type = "bits"
     /\ Has(field, "width") => field.width \in 1..WordBits
     /\ Only("length_from", {"bytes"})
     /\ Only("length_of", OctetNumbers)
     /\ Only("count_of", Scalars)
     /\ Only("constant", Scalars)
     /\ Has(field, "constant") => ~Has(field, "length_of") /\ ~Has(field, "count_of")
     /\ \A property \in {"count_from", "message"} : Has(field, property) <=> field.type = "records"
     /\ \A property \in {"select_from", "cases"}  : Has(field, property) <=> field.type = "choice"
     /\ Has(field, "cases") => CasesAccepted(field.cases)
     /\ Has(field, "constant") => Fits(field.constant, field)

Supplied(field) == ~Has(field, "constant") /\ ~Has(field, "length_of") /\ ~Has(field, "count_of")

FieldIndex(message, name) == CHOOSE i \in DOMAIN message.fields : message.fields[i].name = name

\* The field named by a relation is there, on the right side, and answers it.  (Its
\* type needs no test: parse_field() saw that only the right types can answer.)
RelationKept(message, i, relation) ==
  LET field == message.fields[i]
  IN \E t \in DOMAIN message.fields :
       LET target == message.fields[t]
       IN /\ target.name = field[relation]
          /\ IF relation \in {"length_of", "count_of"} THEN t > i ELSE t < i
          /\ IF relation = "select_from"
             THEN /\ target.type \in Scalars /\ Supplied(target)
                  /\ \A k \in DOMAIN field.cases : Fits(field.cases[k].value, target)
             ELSE Has(target, Answer[relation]) /\ target[Answer[relation]] = field.name

\* Of the relations of a field only the first is looked at.
FirstRelation(field) == SelectSeq(Relations, LAMBDA r : Has(field, r))

\* Bytes without a length field are the last field.
TailLast(message) ==
  \A i \in DOMAIN message.fields :
     message.fields[i].type = "bytes" /\ ~Has(message.fields[i], "length_from")
       => i = Len(message.fields)

Distinct(named) == \A i, j \in DOMAIN named : i # j => named[i].name # named[j].name

\* parse_message()
MessageAccepted(message, version) ==
  /\ message.fields # <<>>
  /\ \A i \in DOMAIN message.fields : FieldAccepted(message.fields[i], version)
  /\ TailLast(message)
  /\ Distinct(message.fields)
  /\ version >= 3 =>
       \A i \in DOMAIN message.fields :
          LET relations == FirstRelation(message.fields[i])
          IN relations # <<>> => RelationKept(message, i, relations[1])

\* The messages a records or choice field reads and writes.
Children(field) ==
  (IF Has(field, "message") THEN {field.message} ELSE {}) \cup
  (IF Has(field, "cases") THEN {field.cases[k].message : k \in DOMAIN field.cases} ELSE {})

\* parse_protocol()
ProtocolAccepted(protocol) ==
  LET messages == protocol.messages
  IN /\ protocol.version \in 1..3
     /\ protocol.byte_order \in {"big-endian", "little-endian"}
     /\ protocol.bit_order \in {"msb-first", "lsb-first"}
     /\ messages # <<>> /\ Distinct(messages)
     /\ \A m \in DOMAIN messages :
           /\ MessageAccepted(messages[m], protocol.version)
           /\ \A i \in DOMAIN messages[m].fields :
                 \A child \in Children(messages[m].fields[i]) :
                    \E earlier \in 1..m-1 : messages[earlier].name = child

-----------------------------------------------------------------------------
(* message_layout() of check.c: where fields begin when every SDNV takes an  *)
(* octet and variable fields nothing.                                        *)

Offset(message, i) == MapThenSumSet(LAMBDA k : Width(message.fields[k]), 1..i-1)

Aligned(message) ==
  /\ \A i \in DOMAIN message.fields :
        message.fields[i].type # "bits" => Offset(message, i) % BYTE_BITS = 0
  /\ Offset(message, Len(message.fields) + 1) % BYTE_BITS = 0
=============================================================================
