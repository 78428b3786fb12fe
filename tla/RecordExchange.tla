--------------------------- MODULE RecordExchange ---------------------------
(***************************************************************************)
(* A version 4 schema in use: wfc compiles it, both sides open the image,  *)
(* the sender encodes a record, the octets travel, the receiver decodes    *)
(* them into a record of its own.  The applications are those of the       *)
(* guide: zeroed records with room for every row, the same parameters on   *)
(* both sides, used compared with the length of the input.  A receiver     *)
(* that rejects what it got is sent the octets again, and decodes them     *)
(* into the records the first attempt has left.                            *)
(***************************************************************************)
EXTENDS WireRecord

CONSTANTS
  Exchanges,   \* what may be sent, see below
  Flips        \* what an octet may be changed by

(***************************************************************************)
(* An exchange is [source, message, kinds, records, room, harms]: a        *)
(* schema, the message, the message of each of the sender's records with   *)
(* number 1 the one to send, the records, the octets the sender's buffer   *)
(* holds, and the ways in which the octets may be harmed: "cut" where the  *)
(* schema tells a message from its beginnings, "flip" where its checksums  *)
(* cover all of it.                                                        *)
(***************************************************************************)
ASSUME SourcesAssumption ==
  \A x \in Exchanges : IsSource(x.source) /\ x.message \in Messages(x.source)

\* What C's types say of a value: numbers and sizes are words, octets are octets, and
\* the records of a list are there.
IsTyped(v, records) ==
  /\ v \in [number : 0 .. MaxWord, bytes : Seq(Byte), count : 0 .. MaxWord,
            records : Seq(DOMAIN records)]
  /\ Len(v.bytes) <= MaxWord /\ Len(v.records) <= MaxWord

ASSUME RecordsAssumption ==
  \A x \in Exchanges :
    /\ x.room \in 0 .. MaxWord
    /\ 1 \in DOMAIN x.records
    /\ \A r \in DOMAIN x.records :
         /\ IsArray(x.records[r])
         /\ \A f \in DOMAIN x.records[r] : IsTyped(x.records[r][f], x.records)

VARIABLES
  exchange,
  stage,      \* "source", "compiled", "open", "sending", "sent", "receiving", "rejected",
              \* or an outcome
  sent,       \* the sender's [records, octets] when it had encoded them
  harmed

vars == <<callVars, exchange, stage, sent, harmed>>

NotSent == [records |-> <<>>, octets |-> <<>>]
NoDb   == [messages |-> 0]
NoCall == [decode |-> FALSE, message |-> 0, root |-> 0, room |-> 0, input |-> <<>>]

Init ==
  /\ exchange \in Exchanges
  /\ stage = "source" /\ sent = NotSent /\ harmed = FALSE
  /\ db = NoDb /\ call = NoCall /\ suspended = <<>> /\ result = "idle"
  /\ wi = Context(0, 0, 0, 0, 0, <<>>, 0)
  /\ heap = exchange.records

\* wfc_records_generate()
Compile ==
  /\ stage = "source"
  /\ IF Compiles(exchange.source) THEN stage' = "compiled" /\ db' = Image(exchange.source)
                                  ELSE stage' = "invalid" /\ UNCHANGED db
  /\ UNCHANGED <<call, wi, suspended, heap, result, exchange, sent, harmed>>

\* wire_info_open()
Open ==
  /\ stage = "compiled"
  /\ stage' = IF Opens(db) THEN "open" ELSE "unusable"
  /\ UNCHANGED <<callVars, exchange, sent, harmed>>

\* wire_info_encode()
Send ==
  /\ stage = "open" /\ stage' = "sending"
  /\ Begin(exchange.message, 1, FALSE, exchange.room, <<>>, heap)
  /\ UNCHANGED <<db, exchange, sent, harmed>>

Sent ==
  /\ stage = "sending" /\ result # "running"
  /\ IF result = "ok" THEN stage' = "sent" /\ sent' = [records |-> heap, octets |-> wi.out]
                      ELSE stage' = "refused" /\ UNCHANGED sent
  /\ UNCHANGED <<callVars, exchange, harmed>>

IsParameter(r, f) == Kinds[FieldType(db, exchange.kinds[r], f)] = "parameter"

\* The receiver's records: zeroed, and with the parameters both sides know.
Zeroed(records) ==
  [r \in DOMAIN records |-> [f \in DOMAIN records[r] |->
     [NoValue EXCEPT !.records = records[r][f].records]]]
WithParameters(records) ==
  [r \in DOMAIN records |-> [f \in DOMAIN records[r] |->
     [records[r][f] EXCEPT !.number = IF IsParameter(r, f) THEN sent.records[r][f].number ELSE @]]]

\* wire_info_decode() of these octets into these records.
Receive(octets, records) ==
  /\ stage' = "receiving"
  /\ Begin(exchange.message, 1, TRUE, 0, octets, WithParameters(records))
  /\ UNCHANGED <<db, exchange, sent>>

ReceiveIntact ==
  /\ stage = "sent"
  /\ Receive(sent.octets, Zeroed(heap))
  /\ UNCHANGED harmed

ReceiveCut ==
  /\ stage = "sent" /\ "cut" \in exchange.harms
  /\ \E n \in 0 .. Len(sent.octets) - 1 : Receive(SubSeq(sent.octets, 1, n), Zeroed(heap))
  /\ harmed' = TRUE

\* An octet with the bits of x changed.
Flipped(octet, x) ==
  LET A == BitsOf(octet, BYTE_BITS)
      B == BitsOf(x, BYTE_BITS)
  IN OfBits((A \ B) \cup (B \ A), BYTE_BITS)

ReceiveFlipped ==
  /\ stage = "sent" /\ "flip" \in exchange.harms
  /\ \E i \in DOMAIN sent.octets, x \in Flips :
        Receive([sent.octets EXCEPT ![i] = Flipped(@, x)], Zeroed(heap))
  /\ harmed' = TRUE

ReceiveAgain ==
  /\ stage = "rejected"
  /\ Receive(sent.octets, heap)
  /\ harmed' = FALSE

Received ==
  /\ stage = "receiving" /\ result # "running"
  /\ stage' = IF result = "ok" /\ Used = Len(call.input) THEN "delivered" ELSE "rejected"
  /\ UNCHANGED <<callVars, exchange, sent, harmed>>

Calling == Step /\ UNCHANGED <<exchange, stage, sent, harmed>>

Outcomes == {"invalid", "unusable", "refused", "delivered"}
Over == stage \in Outcomes /\ UNCHANGED vars

Next ==
  \/ Compile \/ Open \/ Send \/ Sent
  \/ ReceiveIntact \/ ReceiveCut \/ ReceiveFlipped \/ Received \/ ReceiveAgain
  \/ Calling \/ Over

\* Nobody waits in a call: a transfer goes on until it is over.  This is WF_vars(Next),
\* with the stages in place of ENABLED (the runs look for deadlocks in the others).
Fairness == []<><<Next>>_vars \/ []<>(stage \in Outcomes)

Spec == Init /\ [][Next]_vars /\ Fairness
-----------------------------------------------------------------------------
\* The records that count: the first one and the rows of the lists of these.
Live(records) ==
  LET live[r \in DOMAIN records] ==
        r = 1 \/ \E p \in 1 .. r - 1 : live[p] /\ \E f \in DOMAIN records[p] :
                    \E i \in 1 .. records[p][f].count : records[p][f].records[i] = r
  IN {r \in DOMAIN records : live[r]}

Contents(records) ==
  [r \in Live(records) |-> [f \in DOMAIN records[r] |->
     [number |-> records[r][f].number, bytes |-> records[r][f].bytes,
      count |-> records[r][f].count]]]

\* A schema in use keeps what the abstract transfer promises: whatever the compiled
\* programs, the interpreter and the checksums do on the way, an intact message
\* arrives as it was sent, in new records or in those of an attempt that failed, a
\* harmed one is never accepted, and every call ends.
Transfer == INSTANCE RecordTransfer WITH
  Nothing  <- <<>>,
  state    <- CASE stage \in {"source", "compiled", "open", "sending"} -> "ready"
                [] stage \in {"invalid", "unusable", "refused"} -> "refused"
                [] stage \in {"sent", "receiving"} -> "sent"
                [] OTHER -> stage,
  message  <- Contents(sent.records),
  received <- IF stage = "delivered" THEN Contents(heap) ELSE <<>>,
  damaged  <- harmed

DeliversWhatWasSent == Transfer!Spec

\* wire_info_open() opens every image wfc writes, and the catalog describes the
\* schema: names, types, children and programs under the numbers of the generated
\* header.
CatalogDescribesSource ==
  /\ stage # "unusable"
  /\ stage = "open" =>
       \A m \in Messages(exchange.source) :
         LET message == exchange.source[m]
         IN /\ MessageName(db, m) = message.name /\ FieldCount(db, m) = Len(message.fields)
            /\ \A decode \in BOOLEAN :
                  Format(db, m, decode) = Program(exchange.source, m, decode)
            /\ \A i \in DOMAIN message.fields :
                  /\ FieldOf(db, m, message.fields[i].name) = i
                  /\ Kinds[FieldType(db, m, i)] = message.fields[i].type
                  /\ message.fields[i].type = "records" =>
                       MessageName(db, Child(db, m, i)) = message.fields[i].message

\* The operands an operation takes off the stack.
Takes(op) ==
  CASE op \in {"{", "g", "z", "k", "?", "e", ";", "uZ", "uf", "uF", "uU", "ur", "up", "uo", "un",
               "uk", "v", "R", "D"} -> 0
    [] op \in {"P", "V", "N", "t", "j", "d", "uI", "uC", "uh", "u!"} -> 1
    [] op \in {"u?", "ud", "uK"} -> 3
    [] op = "uT" -> 4
    [] OTHER -> 2

\* A program that wfc compiled never pops an empty stack, and leaves the stack as it
\* found it: a schema it accepts does not fail for that at run time.
ProgramsBalanced ==
  Running /\ ~wi.overrun =>
    IF AtEnd THEN wi.fstack = <<>>
    ELSE wi.rows = NoRows => Len(wi.fstack) >= Takes(Current.op)

\* The cause that a context recorded first is the status of the call, through every
\* row it was recorded in.  (A row that merely ends with unfinished bits records its
\* cause in its parent: LeaveRow.)
FirstCauseIsReported ==
  [][(Running /\ wi.status # "ok") =>
       IF result' = "running" THEN wi'.status = wi.status ELSE result' = wi.status]_vars

Contexts == {Scopes[k] : k \in DOMAIN Scopes}

\* A sum, product or difference that is no word is an error (a left shift drops the bits
\* it loses): whatever the programs compute from whatever was read, the operands of every
\* context and the numbers and counts of every record are words.
WordsStayWords ==
  /\ \A w \in Contexts : \A i \in DOMAIN w.fstack : w.fstack[i] \in 0 .. MaxWord
  /\ \A r \in DOMAIN heap : \A f \in DOMAIN heap[r] :
        heap[r][f].number \in 0 .. MaxWord /\ heap[r][f].count \in 0 .. MaxWord

\* Nothing is written behind the caller's buffer or read behind the input, and a message
\* begins where the one around it has come to and does not go back behind that.
InsideWindows ==
  Running =>
    \A k \in DOMAIN Scopes :
      LET w == Scopes[k]
      IN /\ Len(w.out) <= call.room /\ w.pos \in 0 .. Len(call.input)
         /\ w.base <= Position(w)
         /\ k > 1 => w.base = Position(Scopes[k - 1])

\* The record of every message that runs has a value for each of its fields, so that
\* record_lookup() finds one wherever it finds the name.
RecordsFit ==
  Running => \A w \in Contexts : FieldCount(db, w.message) <= Len(heap[w.record])

\* Whatever the sizes of the caller's buffer, input and records, and whatever was read,
\* no message at any depth leaves them.
StaysInside == InsideWindows /\ RecordsFit

\* A decoder's unbounded sequence consumes at least one octet with each row.
RowsConsume ==
  Running /\ ~Encoding =>
    \A w \in Contexts :
      w.rows # NoRows /\ Unbounded(w.rows) => w.rows.index <= w.pos - w.base
=============================================================================
