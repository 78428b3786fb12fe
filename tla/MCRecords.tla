----------------------------- MODULE MCRecords -----------------------------
(***************************************************************************)
(* Record sequences: rows decoded from every short input and encoded into  *)
(* every small buffer, with a list in each row, a slice in each row, row   *)
(* counts that the input dictates, faults that a row raises and rows that  *)
(* run out of room.                                                        *)
(***************************************************************************)
EXTENDS WireFormatMeaning

CONSTANTS MaxInput,   \* longest input
          MaxOutput   \* largest output buffer

Byte2 == 0..2
Inputs == UNION {[1..k -> Byte2] : k \in 0..MaxInput}

\* %{count}%{slot}%{fields}%J[n]
Sequence(count, slot, fields, n) == count \o Num(slot) \o Num(fields) \o N("J[", n)

Get == T("B") \o N("P", 0)

\* Fault 0 (fatal) if the field is 0, fault 1 (tolerated) otherwise.
Judge == T("?") \o N("g", 0) \o T("t") \o Num(2) \o T("e") \o Num(1) \o T(";") \o T("E")

RowReaders ==
  {Get,
   Get \o Judge,
   Get \o N("g", 0) \o Num(0) \o T("N"),
   Get \o Num(0) \o T("R"),
   \* every field of the row is announced, one is not on the wire
   Num(1) \o N("P", 0) \o N("g", 0) \o T(":") \o N("[", 0)}

\* Formats 0: nothing but a byte; 1: a row; 2: a row that holds a list of rows.
DecodeTables ==
  {TableOf(<<T("B"), row, Get \o Sequence(N("g", 0), 0, 1, 1)>>, {}) : row \in RowReaders}

DecodeTops ==
  {Sequence(Num(2), 0, 1, 1) \o Get,
   Sequence(Num(1), 0, 1, 2) \o Sequence(Num(1), 0, 1, 1),
   Sequence(T("B"), 0, 1, 2),
   Sequence(T("B"), 0, 1, 1) \o Num(0) \o T("k") \o N("P", 0)}

\* A value no byte decodes to: the row has not been filled.
Unfilled == -1
EmptyRow(lists) == RowOf(<<Unfilled>>, <<>>, lists)

\* List 1 is the caller's, its two rows hold lists 2 and 3.
DecodeHeap ==
  <<ListOf(<<EmptyRow(<<2>>), EmptyRow(<<3>>)>>, 0, 1),
    ListOf(<<EmptyRow(<<>>), EmptyRow(<<>>)>>, 0, 1),
    ListOf(<<EmptyRow(<<>>)>>, 0, 1)>>

DecodeJobs ==
  {DecodeJob(t, <<top>>, input, <<1>>, DecodeHeap, {0}) :
     t \in DecodeTables, top \in DecodeTops, input \in Inputs}

RowWriters ==
  {N("p", 1) \o T("b"),
   N("p", 1) \o T("b") \o Num(0) \o T("v"),
   Num(0) \o T("z") \o T("b") \o N("p", 1) \o Num(0) \o T("V"),
   N("p", 1) \o T("E") \o N("p", 1) \o T("b"),
   N("p", 1) \o T(":") \o N("[", 0)}

Count(slot) == Num(slot) \o T("k")

EncodeTables ==
  {TableOf(<<Lit(3), row,
             Count(0) \o T("b") \o Sequence(Count(0), 0, 1, 1)>>, {}) : row \in RowWriters}

EncodeTops ==
  {Num(1) \o T("E") \o Sequence(Count(0), 0, 1, 1) \o Lit(3),
   Sequence(Count(0), 0, 1, 2) \o Sequence(Count(0), 0, 1, 1),
   Sequence(Num(1), 0, 1, 1)}

Value(v, slice, lists) == RowOf(<<v>>, <<slice>>, lists)

EncodeHeaps ==
  {<<ListOf(<<Value(a, [data |-> 1, length |-> 1], <<2>>),
              Value(b, [data |-> 1, length |-> 2], <<2>>)>>, count, 1),
     ListOf(<<Value(b, [data |-> NULL, length |-> b \div 2], <<>>), Value(2, [data |-> 2, length |-> 2], <<>>)>>, inner, 1)>> :
     a \in 0..2, b \in 0..2, count \in 0..2, inner \in 0..2}

EncodeJobs ==
  {EncodeJob(t, <<top>>, <<>>, <<>>, <<1>>, heap0, <<1, 2, 3>>, size, {0}) :
     t \in EncodeTables, top \in EncodeTops, heap0 \in EncodeHeaps, size \in 0..MaxOutput}

\* Sequences that %J refuses, one reason each, and one that runs on an empty stack.
Refusable ==
  {Sequence(Num(1), 0, 1, 1), Sequence(Num(1), 0, 2, 1), Sequence(Num(1), 1, 1, 1), Sequence(Num(0), 0, 0, 1),
   Sequence(Num(3), 0, 1, 1), Sequence(Num(-1), 0, 1, 1), Sequence(Num(1), 0, 1, 3),
   Sequence(Num(1), 0, 1, NoDigits), Sequence(Num(1), -1, 1, 1), N("J[", 1),
   Count(0), Count(1), Count(2) }

RefusalJobs ==
  {DecodeJob(TableOf(<<T("B"), Get>>, {}), <<top>>, <<1, 2>>, lists, heap0, {0}) :
     top \in Refusable, lists \in {<<>>, <<1>>},
     heap0 \in {<<ListOf(<<EmptyRow(<<>>)>>, 0, 1)>>,
                <<[rows |-> <<>>, backed |-> FALSE, count |-> 0, fields |-> 0]>>,
                <<ListOf(<<EmptyRow(<<>>)>>, 1, 0)>>}}

\* (Numbering the kinds of jobs keeps TLC from comparing whole jobs.)
RecordJobs ==
  {j[2] : j \in ({1} \X DecodeJobs) \cup ({2} \X EncodeJobs) \cup ({3} \X RefusalJobs)}
=============================================================================
