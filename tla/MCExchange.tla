----------------------------- MODULE MCExchange -----------------------------
(***************************************************************************)
(* Schemas that use every type of field and every operator, records of     *)
(* boundary values, buffers that are too small, each beginning of the      *)
(* octets, and each octet changed by each of Flips.                        *)
(***************************************************************************)
EXTENDS RecordExchange

N(n) == <<"number", n>>
R(name) == <<"ref", 0, name>>
Up(name) == <<"ref", 1, name>>

V(n) == [NoValue EXCEPT !.number = n]
B(bytes) == [NoValue EXCEPT !.bytes = bytes]
Rows(n, records) == [NoValue EXCEPT !.count = n, !.records = records]

U(name, width) == [name |-> name, type |-> "uint", width |-> N(width)]
Crc(name) == [name |-> name, type |-> "crc"]
Message(name, fields) == [name |-> name, fields |-> fields]

One(fields) == [m \in {0} |-> Message("only", fields)]
Two(row, fields) == [m \in 0..1 |-> IF m = 0 THEN Message("row", row) ELSE Message("top", fields)]

\* The exchange of a message with one record, or with the rows behind it.
Flat(fields, values, rooms, harms) ==
  {[source |-> One(fields), message |-> 0, kinds |-> <<0>>, records |-> <<values>>,
    room |-> room, harms |-> harms] : room \in rooms}
Listed(row, fields, values, rows, rooms, harms) ==
  {[source |-> Two(row, fields), message |-> 1, kinds |-> <<1>> \o [i \in DOMAIN rows |-> 0],
    records |-> <<values>> \o rows, room |-> room, harms |-> harms] : room \in rooms}

Both == {"cut", "flip"}

-----------------------------------------------------------------------------
(* The example of the guide, with payloads of no, one and two octets; a kind  *)
(* that is too wide; a checksum of either algorithm.                          *)
Frame(algorithm) ==
  <<U("version", 3) @@ ("constant" :> N(1)), U("kind", 5),
    U("size", 16) @@ ("value" :> <<"len", R("payload")>>),
    [name |-> "payload", type |-> "bytes", length |-> R("size")],
    Crc("check") @@ ("algorithm" :> N(algorithm))>>
FrameOf(kind, payload) == <<V(0), V(kind), V(0), B(payload), V(0)>>

Frames ==
  Flat(Frame(1), FrameOf(21, <<7, 255>>), {7}, Both)
  \cup Flat(Frame(1), FrameOf(0, <<>>), 0..5, {})
  \cup Flat(Frame(2), FrameOf(31, <<0>>), {9}, Both)
  \cup Flat(Frame(1), FrameOf(32, <<>>), {9}, {}) \cup Flat(Frame(0), FrameOf(1, <<>>), {9}, {})

\* Bits that do not end on an octet, and bytes behind them.
Misaligned ==
  Flat(<<U("flag", 1), [name |-> "rest", type |-> "bytes"]>>, <<V(1), B(<<1>>)>>, {4}, {})
  \cup Flat(<<U("flag", 7)>>, <<V(1)>>, {4}, {})
  \cup Flat(<<U("flag", 7), U("low", 9), [name |-> "rest", type |-> "bytes"]>>,
            <<V(65), V(257), B(<<9, 8>>)>>, {4}, {})

-----------------------------------------------------------------------------
(* CBOR: a head of each size, strings, arrays with a count and without.       *)
CborRow == <<[name |-> "x", type |-> "cbor-uint"]>>
Cbors(count, until) ==
  <<[name |-> "id", type |-> "cbor-uint", max |-> N(40000)],
    [name |-> "data", type |-> "cbor-bytes"], [name |-> "text", type |-> "cbor-text"],
    [name |-> "n", type |-> "cbor-array", value |-> count],
    [name |-> "rows", type |-> "records", message |-> "row"] @@ until>>
CborValues == <<V(300), B(<<1, 2>>), B(<<97>>), V(0), Rows(2, <<2, 3>>)>>
CborRows   == <<<<V(23)>>, <<V(24)>>>>

Cborred ==
  Listed(CborRow, Cbors(<<"count", R("rows")>>, "count" :> R("n")), CborValues, CborRows,
         {12, 30}, {"cut"})
  \cup Listed(CborRow, Cbors(N(65535), "until" :> 255)
              \o <<U("break", 8) @@ ("constant" :> N(255)),
                   Crc("check") @@ ("cbor" :> TRUE) @@ ("algorithm" :> N(2))>>,
              CborValues \o <<V(0), V(0)>>, CborRows, {30}, Both)
  \cup Listed(CborRow, Cbors(<<"count", R("rows")>>, "count" :> R("n")),
              <<V(40001)>> \o Tail(CborValues), CborRows, {30}, {})

-----------------------------------------------------------------------------
(* Rows: a checksum each and one over the message, placed before the rows and *)
(* finished behind them; a marker; the end of the input.                      *)
CheckedRow == <<U("tag", 8), Crc("sum") @@ ("to_end" :> TRUE), [name |-> "value", type |-> "sdnv"]>>
CheckedTop ==
  <<Crc("all") @@ ("to_end" :> TRUE),
    [name |-> "rows", type |-> "records", message |-> "row", until |-> 0],
    U("end", 8) @@ ("constant" :> N(0))>>
\* A checksum from a mark on, one from behind itself, and one that follows a deferred one.
Marked(from) ==
  <<U("first", 8), [name |-> "here", type |-> "mark"], U("x", 8),
    Crc("sum") @@ ("from" :> from), U("last", 8) @@ ("constant" :> N(7))>>
Deferred == <<Crc("all") @@ ("to_end" :> TRUE), U("x", 8), Crc("sum")>>
EndRow == <<U("x", 8) @@ ("when" :> <<">", <<"remaining">>, N(0)>>)>>
ShyRow == <<U("x", 8) @@ ("when" :> <<">", <<"remaining">>, N(1)>>)>>

Sequences ==
  Listed(CheckedRow, CheckedTop, <<V(0), Rows(2, <<2, 3>>), V(0)>>,
         <<<<V(1), V(0), V(127)>>, <<V(2), V(0), V(128)>>>>, {14}, Both)
  \cup Listed(EndRow, <<[name |-> "rows", type |-> "records", message |-> "row", until |-> 256]>>,
              <<Rows(2, <<2, 3>>)>>, <<<<V(4)>>, <<V(5)>>>>, {4}, {})
  \cup Listed(ShyRow, <<[name |-> "rows", type |-> "records", message |-> "row", until |-> 255],
                        U("end", 8) @@ ("constant" :> N(255))>>,
              <<Rows(2, <<2, 3, 4>>), V(0)>>, <<<<V(4)>>, <<V(5)>>, <<V(0)>>>>, {6}, {"cut"})
  \cup Listed(<<U("x", 8)>>, <<[name |-> "rows", type |-> "records", message |-> "row",
                                count |-> N(2)]>>,
              <<Rows(1, <<2, 3>>)>>, <<<<V(4)>>, <<V(5)>>>>, {6}, {})
  \cup Listed(<<U("x", 8), U("y", 8)>>, <<[name |-> "rows", type |-> "records", message |-> "row",
                                           count |-> N(2)]>>,
              <<Rows(2, <<2, 3>>)>>, <<<<V(4), V(6)>>, <<V(5)>>>>, {6}, {})
  \cup Flat(Marked(R("here")), <<V(1), V(0), V(2), V(0), V(0)>>, {5}, {"cut"})
  \cup Flat(Marked(N(9)), <<V(1), V(0), V(2), V(0), V(0)>>, {5}, {})
  \cup Flat(Deferred, <<V(0), V(1), V(0)>>, {9}, {})

-----------------------------------------------------------------------------
(* Lists looked into, enclosing fields, the index of a row, nested twice.     *)
Queried ==
  <<U("n", 8) @@ ("value" :> <<"count", R("rows")>>),
    [name |-> "limit", type |-> "parameter"],
    [name |-> "rows", type |-> "records", message |-> "row", count |-> R("n")],
    [name |-> "first", type |-> "computed", value |-> <<"item", R("rows"), "id", N(0)>>],
    [name |-> "distinct", type |-> "assert", value |-> <<"unique", R("rows"), "id">>],
    [name |-> "once", type |-> "assert",
     value |-> <<"==", <<"count-equal", R("rows"), "id", R("first")>>, N(1)>>]>>
QueriedRow ==
  <<[name |-> "place", type |-> "computed", value |-> <<"index">>],
    U("id", 8) @@ ("max" :> R("limit")),
    U("n", 8) @@ ("value" :> <<"+", Up("n"), R("place")>>)>>
QueriedValues(limit) == <<V(0), V(limit), Rows(2, <<2, 3>>), V(0), V(0), V(0)>>
Pair(a, b) == <<<<V(0), V(a), V(0)>>, <<V(0), V(b), V(0)>>>>

Lookups ==
  Listed(QueriedRow, Queried, QueriedValues(9), Pair(8, 9), {8}, {"cut"})
  \cup Listed(QueriedRow, Queried, QueriedValues(9), Pair(8, 8), {8}, {})
  \cup Listed(QueriedRow, Queried, QueriedValues(9), Pair(8, 10), {8}, {})
  \cup Listed(QueriedRow, <<Queried[1], Queried[2], Queried[5], Queried[3]>>,
              <<V(0), V(9), V(0), Rows(2, <<2, 3>>)>>, <<<<V(0), V(8), V(0)>>, <<V(0)>>>>, {8}, {})
  \cup {[source |-> Two(QueriedRow, Queried), message |-> 0, kinds |-> <<0>>,
         records |-> <<<<V(0), V(1), V(0)>>>>, room |-> 9, harms |-> {}]}

\* Levels of one row each around a leaf; the innermost names the outermost.
Level(name, below) ==
  Message(name, <<[name |-> "of", type |-> "records", message |-> below], U("own", 8)>>)
Tower ==
  [m \in 0..2 |-> <<Message("leaf", <<U("x", 8) @@ ("min" :> <<"ref", 1, "own">>),
                                      U("y", 8) @@ ("value" :> <<"ref", 2, "z">>)>>),
                    Message("mid", <<U("own", 8),
                                     [name |-> "of", type |-> "records", message |-> "leaf"]>>),
                    Message("top", <<U("z", 8), U("own", 8), [name |-> "of", type |-> "records",
                                                            message |-> "mid"]>>)>>[m + 1]]
TowerRecords(x) == <<<<V(3), V(9), Rows(1, <<2>>)>>, <<V(4), Rows(1, <<3>>)>>, <<V(x), V(0)>>>>
TooDeep == [m \in 0..3 |-> IF m < 3 THEN Tower[m] ELSE Level("over", "top")]

Nested ==
  {[source |-> Tower, message |-> 2, kinds |-> <<2, 1, 0>>, records |-> TowerRecords(x),
    room |-> room, harms |-> {"cut"}] : x \in {3, 4}, room \in {4, 5}}
  \cup {[source |-> TooDeep, message |-> 2, kinds |-> <<2, 1, 0>>, records |-> TowerRecords(4),
         room |-> 5, harms |-> {}]}

-----------------------------------------------------------------------------
(* Digits, terminated numbers, octets in the other order, positions, values   *)
(* derived in both directions, conditional fields.                            *)
Digits ==
  <<[name |-> "year", type |-> "decimal", width |-> N(2)], [name |-> "code", type |-> "bcd", width |-> N(2)],
    [name |-> "key", type |-> "terminated-uint"], U("low", 16) @@ ("byte_order" :> "little-endian"),
    [name |-> "here", type |-> "mark"],
    [name |-> "fixed", type |-> "terminated-uint", length |-> N(2), termination_mask |-> 128,
     termination_value |-> 0]>>
Derived ==
  <<[name |-> "ahead", type |-> "computed", value |-> R("kind"), decode_value |-> <<"peek">>],
    U("kind", 8),
    U("extra", 8) @@ ("when" :> <<"not", <<"%", R("kind"), N(2)>>>>) @@ ("min" :> N(1)),
    U("sum", 8) @@ ("value" :> <<"select", <<">", <<"len", R("data")>>, N(0)>>,
                                  <<"&", R("kind"), N(15)>>, <<">>", R("kind"), N(1)>>>>),
    [name |-> "data", type |-> "bytes", decode_length |-> <<"-", <<"remaining">>, N(1)>>],
    U("last", 8) @@ ("value" :> <<"byte", R("data"), N(0)>>) @@ ("when" :> <<"len", R("data")>>)>>
\* Sums, products, differences and shifts at the end of a word.
Limits(e) == <<U("x", 16), U("y", 16) @@ ("value" :> e)>>
Increased == {<<"+", R("x"), N(1)>>, <<"*", R("x"), N(2)>>, <<"<<", R("x"), R("x")>>,
              <<"-", N(65534), R("x")>>, <<"^", R("x"), N(1)>>, <<"|", R("x"), N(65280)>>}
\* A field and a list that are there for some kinds only.
Optional ==
  <<U("kind", 8), U("extra", 8) @@ ("when" :> <<"&", R("kind"), N(1)>>),
    [name |-> "rows", type |-> "records", message |-> "row", when |-> <<"&", R("kind"), N(2)>>],
    Crc("sum")>>

Conversions ==
  Flat(Digits, <<V(70), V(45), V(772), V(513), V(0), V(32769)>>, {3, 11}, {})
  \cup Flat(Digits, <<V(99), V(0), V(1), V(1), V(0), V(33024)>>, {11}, {"cut"})
  \cup Flat(Digits, <<V(100), V(0), V(1), V(1), V(0), V(33024)>>, {11}, {})
  \cup Flat(Digits, <<V(1), V(1), V(2), V(1), V(0), V(33024)>>, {11}, {})
  \cup Flat(Derived, <<V(0), V(3), V(0), V(0), B(<<6>>), V(0)>>, {9}, {})
  \cup Flat(Derived, <<V(0), V(4), V(9), V(0), B(<<6, 7>>), V(0)>>, {9}, {})
  \cup Flat(Derived, <<V(0), V(4), V(0), V(0), B(<<6>>), V(0)>>, {9}, {})
  \cup UNION {Flat(Limits(e), <<V(x), V(0)>>, {4}, {}) :
                 e \in Increased, x \in {1, 15, 16, 32767, 32768, 65535}}
  \cup UNION {Listed(<<U("x", 8)>>, Optional, <<V(kind), V(8 * (kind % 2)),
                     Rows(kind \div 2, <<2>>), V(0)>>, <<<<V(5)>>>>, {6}, Both) : kind \in 0..3}

\* Sources that wfc refuses: a name nobody has, a child that comes later, a property
\* of another type, the same name twice, no name, too few operands, a number in place
\* of a name, an unknown operator.
Invalid ==
  Flat(<<U("x", 8) @@ ("value" :> R("y"))>>, <<V(0)>>, {1}, {})
  \cup Flat(<<U("x", 8) @@ ("value" :> Up("x"))>>, <<V(0)>>, {1}, {})
  \cup Flat(<<[name |-> "of", type |-> "records", message |-> "only"]>>, <<V(0)>>, {1}, {})
  \cup Flat(<<U("x", 8) @@ ("until" :> 3)>>, <<V(0)>>, {1}, {})
  \cup Flat(<<U("x", 8), U("x", 8)>>, <<V(0), V(0)>>, {1}, {})
  \cup Flat(<<U("", 8)>>, <<V(0)>>, {1}, {})
  \cup UNION {Flat(<<U("x", 8) @@ ("min" :> e)>>, <<V(0)>>, {1}, {}) :
                e \in {<<"+", N(1)>>, <<"len", N(1)>>, <<"nor", N(1), N(2)>>}}

MCExchanges ==
  Frames \cup Misaligned \cup Cborred \cup Sequences \cup Lookups \cup Nested
  \cup Conversions \cup Invalid
=============================================================================
