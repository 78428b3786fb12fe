---------------------------- MODULE RecordImage ----------------------------
(***************************************************************************)
(* The .wi file of a version 4 protocol: how wfc_records_generate() lays   *)
(* it out, and what wire_info_open() and the accessors make of it.         *)
(*                                                                         *)
(* Addresses and sizes are those of the file up to the string table.  A    *)
(* string of the table occupies one unit, and its offset is its number;    *)
(* the file's CRC is the one wfc wrote.  A slot holds [name, program], one *)
(* of them empty.                                                          *)
(***************************************************************************)
EXTENDS RecordCompile

HEADER == 64
ROW    == 32
NONE   == -1        \* the offset or the child 0xffffffff

Name(text)    == [name |-> text, program |-> <<>>]
Text(program) == [name |-> "", program |-> program]

\* The fields of the messages before m.
FieldsBefore(source, m) ==
  LET before[k \in 0 .. m] ==
        IF k = 0 THEN 0 ELSE before[k - 1] + Len(source[k - 1].fields)
  IN before[m]

\* The strings wfc adds for a message: name, no description, the two programs, the
\* names of its fields.
Strings(source, m) ==
  <<Name(source[m].name), Text(Program(source, m, FALSE)), Text(Program(source, m, TRUE))>>
  \o [i \in DOMAIN source[m].fields |-> Name(source[m].fields[i].name)]

\* Mutant: the absent description takes no slot.
OffsetsDense(source, m) ==
  LET first == 1 + 3 * m + FieldsBefore(source, m)
  IN [i \in 1 .. 3 + Len(source[m].fields) |-> first + i - 1]

\* Their offsets; the first string of the table is the protocol's name.
Offsets(source, m) ==
  LET first == 1 + 3 * m + FieldsBefore(source, m)
  IN [i \in 1 .. 4 + Len(source[m].fields) |->
        IF i = 1 THEN first ELSE IF i = 2 THEN NONE ELSE first + i - 2]

Metadata(source, m) ==
  [i \in DOMAIN source[m].fields |->
     LET f == source[m].fields[i]
     IN [type |-> Kind(f),
         child |-> IF f.type = "records"
                     THEN CHOOSE c \in Identified(source, f.message) : TRUE ELSE NONE]]

\* The three tables: what the messages add to each, one after another.
MetaTable(source) ==
  FlattenSeq([k \in 1 .. Cardinality(Messages(source)) |-> Metadata(source, k - 1)])
OffsetTable(source) ==
  <<0, NONE, NONE, NONE>>
  \o FlattenSeq([k \in 1 .. Cardinality(Messages(source)) |-> Offsets(source, k - 1)])
StringTable(source) ==
  <<Name("protocol")>>
  \o FlattenSeq([k \in 1 .. Cardinality(Messages(source)) |-> Strings(source, k - 1)])

Image(source) ==
  LET count    == Cardinality(Messages(source))
      meta     == MetaTable(source)
      offsets  == OffsetTable(source)
      strings  == StringTable(source)
      meta_at  == HEADER + ROW * count
      offs_at  == meta_at + 8 * Len(meta)
  IN [messages |-> count, meta_at |-> meta_at, meta |-> meta,
      offs_at |-> offs_at, offsets |-> offsets,
      strs_at |-> offs_at + 4 * Len(offsets), strings |-> strings,
      rows |-> [m \in Messages(source) |->
        [section |-> offs_at + 16 + 4 * (4 * m + FieldsBefore(source, m)),
         slots   |-> Len(source[m].fields) + 4, fields |-> Len(source[m].fields),
         meta    |-> meta_at + 8 * FieldsBefore(source, m)]]]

-----------------------------------------------------------------------------
(* The accessors of wire_info.c                                              *)

Missing == [name |-> "", program |-> <<>>, missing |-> TRUE]

Slot(db, m, index) ==
  LET row    == db.rows[m]
      offset == db.offsets[(row.section - db.offs_at) \div 4 + index + 1]
  IN IF index >= row.slots \/ offset = NONE THEN Missing ELSE db.strings[offset + 1]

Format(db, m, decode) == Slot(db, m, IF decode THEN 3 ELSE 2).program
MessageName(db, m)    == Slot(db, m, 0).name
FieldCount(db, m)     == db.rows[m].fields
FieldName(db, m, i)   == Slot(db, m, i + 3).name
Meta(db, m, i)        == db.meta[(db.rows[m].meta - db.meta_at) \div 8 + i]
FieldType(db, m, i)   == Meta(db, m, i).type
Child(db, m, i)       == Meta(db, m, i).child

\* wire_info_field(): the first field of that name, from 1; 0 if there is none.
FieldOf(db, m, name) ==
  LET named == {i \in 1 .. FieldCount(db, m) : FieldName(db, m, i) = name}
  IN IF named = {} THEN 0 ELSE Min(named)

-----------------------------------------------------------------------------
(* program_valid() and wire_info_open()                                      *)

Named  == {"g", "P", "z", "k", "v", "V", "N", "R", "J", "uZ", "uK", "uh", "uI", "uU", "uC"}
Plain  == {"{", "i", "j", "d", "D", "ua", "uf", "uF", "ub", "us", "ud", "uT", "ur", "up", "uo",
           "un", "uk", "u?", "u!"} \cup {Binaries[b] : b \in DOMAIN Binaries}
Branch == {"?", "t", "e", ";"}

\* Conditionals open in the first i tokens of a program, each with the parts it has
\* had: 0 the condition, 1 the branch taken, 2 the other.  Bad: an order that the
\* loader refuses.
Bad == <<-1>>
Opened(program) ==
  LET open[i \in 0 .. Len(program)] ==
        IF i = 0 THEN <<>>
        ELSE LET before == open[i - 1]
                 op     == program[i].op
                 stage  == IF before = <<>> THEN -1 ELSE Last(before)
             IN IF before = Bad \/ op \notin Branch THEN before
                ELSE CASE op = "?" -> IF Len(before) = 64 THEN Bad ELSE Append(before, 0)
                       [] op = "t" -> IF stage = 0 THEN Append(Front(before), 1) ELSE Bad
                       [] op = "e" -> IF stage = 1 THEN Append(Front(before), 2) ELSE Bad
                       [] op = ";" -> IF stage \in {1, 2} THEN Front(before) ELSE Bad
  IN open[Len(program)]

ProgramValid(program, rank) ==
  /\ \A i \in DOMAIN program :
        LET token == program[i]
        IN /\ token.op \in Named \cup Plain \cup Branch
           /\ token.op \in Named => token.name # ""
           /\ token.op \in {"uI", "uU", "uC"} => token.member # ""
           /\ token.op = "J" => token.n < rank
  /\ Opened(program) = <<>>

Opens(db) ==
  LET rows == db.rows
      SectionAfter(m) == rows[m].section + rows[m].slots * 4
      MetaAfter(m)    == rows[m].meta + rows[m].fields * 8
      last == db.messages - 1
  IN /\ db.messages \in 1 .. MAX_MESSAGES
     /\ db.meta_at = HEADER + ROW * db.messages
     /\ db.offs_at = db.meta_at + 8 * Len(db.meta)
     /\ Len(db.offsets) >= 4 /\ db.strs_at = db.offs_at + 4 * Len(db.offsets)
     /\ \A i \in DOMAIN db.offsets : db.offsets[i] \in {NONE} \cup 0 .. Len(db.strings) - 1
     /\ \A m \in 0 .. last :
          /\ rows[m].fields <= MAX_FIELDS /\ rows[m].slots = rows[m].fields + 4
          /\ rows[m].section = IF m = 0 THEN db.offs_at + 16 ELSE SectionAfter(m - 1)
          /\ rows[m].meta = IF m = 0 THEN db.meta_at ELSE MetaAfter(m - 1)
          /\ SectionAfter(m) <= db.strs_at /\ MetaAfter(m) <= db.offs_at
          /\ MessageName(db, m) # ""
          /\ \A decode \in BOOLEAN :
               Slot(db, m, IF decode THEN 3 ELSE 2) # Missing
               /\ ProgramValid(Format(db, m, decode), m)
          /\ \A i \in 1 .. FieldCount(db, m) :
               /\ FieldName(db, m, i) # ""
               /\ FieldType(db, m, i) \in DOMAIN Kinds
               /\ IF FieldType(db, m, i) = 4 THEN Child(db, m, i) < m
                                             ELSE Child(db, m, i) = NONE
               /\ \A j \in 1 .. i - 1 : FieldName(db, m, i) # FieldName(db, m, j)
          /\ \A k \in 0 .. m - 1 : MessageName(db, k) # MessageName(db, m)
     /\ SectionAfter(last) = db.strs_at /\ MetaAfter(last) = db.offs_at
=============================================================================
