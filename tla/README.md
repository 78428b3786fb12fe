# wire_format: a verification project

TLA+ modules for the wire_format libraries and the `wfc` compiler, the TLC
configurations that check them on small instances, and TLAPS proofs of what must
hold for every instance. `PROJECT.json` lists the components, the runs, the source
lines behind every definition, the hazards of the code and the theorems.

## 1. The system

A *format string* such as `%p1%w%{3}%:%[0]` describes how a message is written or
read. The *interpreter* executes such strings; the *compiler* `wfc` turns a schema
(`.wf`, JSON5) into a `.wi` database of them and a header of ordinals.

| component | source | state | operations | hard behaviours | correct when |
|---|---|---|---|---|---|
| format tables | `wire_format.c` 1068-1187 | the table; a scratch array of depths | `wi_set_formats` | the scan must see exactly the calls the interpreter would execute | a table is accepted iff its longest chain of calls fits the call stack |
| positional interpreter | `wire_format.c` | `wi_vars_t`: operand stack, parameters, variables, slices, record lists, one output or one input window, bit accumulators, call stack, pending repeat count, faults, sticky overrun | `wi_init`, `wi_decode_init`, `wi_set_slice`, `wi_set_record_list`, `wi_set_formats`, `wi_parse` and about 50 specifiers | repeats armed far ahead of their call, returns, nested sequences with a context per row, stopping through all of them, row counts dictated by the input | every parse ends, stays inside all buffers and arrays, and leaves what the strings mean |
| named-record dialect (v4) | `wire_format_record.inc`, `wire_record.h` | a scope per record level, bit cursors, pending checksum, status | `%i %j %u`, `{name}` operands, `record_sequence` | CRC patched in after later bytes, sequences to a delimiter, status of the first cause, enclosing records | encode and decode are inverse; every failure has its first cause |
| `wire_info` loader | `wire_info.c` | none beyond the blob | open, accessors, encode, decode | the offsets of two programs must agree | the catalog describes the schema; a record comes back as it was sent |
| wfc JSON5 reader | `compiler/json5.c` | the tree | parse | limits of nesting and numbers | the tree is the text |
| wfc schema reader | `compiler/source.c` | the protocol | resolve, validate | relations between fields, each a rule with exceptions | only layouts the generator supports pass |
| wfc reference encoder | `compiler/check.c` | a bit cursor | encode and decode of test vectors | derived lengths, bit orders | agrees with the generated programs |
| wfc generator | `compiler/wi.c` | growing strings | message to programs, image, header | derived fields, choices, bit fields that straddle octets | round trip through the interpreter |
| wfc v4 records | `compiler/records.c` | the same | validation, expressions, one program per direction, image | the pushes and pops of each field, names of enclosing records | every accepted schema can be used |
| output files | `compiler/main.c` 87-223; `rust/wfc/src/output.rs` | two output paths, temporaries, backups on disk | `write_outputs`, `write_pair` | partial failure and its undo, kills, two compilers at once | both outputs are replaced or neither |
| Rust runtime | `rust/src` | as the interpreter | `parse` | errors instead of sticky overrun | same bytes as C |
| Rust wfc | `rust/wfc/src` | as the C compiler, without v4 | | | same images as C |

How they interact. `wi_set_formats` measures the table that `%[n]` and `%J[n]` later
index. `%J[n]` calls the loop of the interpreter again, on a fresh `wi_vars_t` whose
window is the rest of its parent's, and merges what the row leaves. The v4 dialect
runs in the same loop, with `%u` operations and a `wi_record_scope_t` per level. wfc's
two generators produce the programs that the interpreter, or the loader and then the
interpreter, run; the vector check compares test vectors with an encoder of its
own and never runs a program. The only shared mutable state between processes are
wfc's output files. Nothing in the libraries is concurrent: the hard part is
sequences of steps, not their interleaving.

The named hazards, each at its line and with the properties that would catch it, are
in `PROJECT.json`.

## 2. Modules

| module | models | correspondence |
|---|---|---|
| `Words` | octets, `int64_t` cells and `int`, two's complement, C division, big- and little-endian numbers, SDNV | `BYTE_BITS` and `WORD_BYTES` are 8 and 8 in the code; smaller in the runs, so overflow, masks and carries are reached. `%w %W %q` are a quarter, a half and all of a word. |
| `Formats` | format strings as tokens, tables, the acceptance rule as a recurrence | a token is a literal byte or a specifier with its operand; a NULL table entry is missing from the function's domain |
| `FormatTable` | `wi_set_formats`, `table_depth`, `next_call` | one action per loop iteration; `depths` is the scratch array |
| `TableOracle` | what `wi_set_formats` promises | one step, decided by the chains of calls of the table; `FormatTable` is shown to implement it |
| `WireFormat` | the loop of `wi_parse_rank` and every handler of the positional dialect | one action per specifier, per end of string, per `%J` row and per call of the caller; `wi` holds the data of the running `wi_vars_t`, `at`/`frames`/`pending` its `cur_fmt`, `f_str`, `rstack`/`rstart`/`rleft`/`rfmt` and `pending`; `suspended` holds the contexts that wait in `_J` with the locals of that C frame |
| `WireFormatMeaning` | a direct recursive reading of format strings, no call stack | the abstract meaning the interpreter is compared with. It shares the data operators of `Words`, none of the control |
| `Schema` | `parse_field`, `parse_message`, `parse_protocol` of `source.c` | which sources of versions 1 to 3 the reader accepts. A field is the function from its JSON5 properties to their values |
| `WiCompile` | `compile_message` of `wi.c` and all it calls | a message's encode and decode program, as the token strings of `Formats` |
| `VectorCheck` | `check.c` | the reference encoder and decoder of test vectors, on streams of bits |
| `RecordCompile` | `records.c`: `validate`, `expression`, `field_program` | which v4 schemas compile, and to which two programs |
| `RecordImage` | the `.wi` layout of `wfc_records_generate`; `wire_info_open` with `program_valid`, and the accessors | sizes and addresses are those of the file up to its string table |
| `WireRecord` | `wire_format_record.inc`; `wire_info_encode`, `wire_info_decode` | one step per token, per turn of `record_sequence`'s loop and per end of a program. `wi` is the running `wi_vars_t` with its scope, `suspended` the enclosing ones, `heap` the caller's records |
| `RecordTransfer` | what two programs that share a v4 schema expect of it | a record arrives as it was sent, or nothing is accepted |
| `RecordExchange` | wfc, the loader on both sides, sender, octets on their way, receiver | composes the four modules above; octets are cut or changed, and the receiver that rejects them decodes them again into the records the first attempt has left. Shown to implement `RecordTransfer` |
| `OutputWriter` | `write_outputs` and `write_pair` | one action per system call; the two ports are the values of `port`. The error paths are lists of best-effort calls, executed one by one |
| `MCFormatTable`, `MCControl`, `MCRecords`, `MCNumbers`, `MCCompiled`, `MCExchange`, `MCOutputs`; `MCWireFormat` | instances for TLC; what those of `WireFormat` share | `MCCompiled` also composes `Schema`, `WiCompile`, `WireFormat` and `VectorCheck` |
| `FormatTableProofs`; `WireFormatProofs` (control), `WireFormatDataProofs` (data); `OutputWriterProofs`; `WordsProofs` (numbers); `RecordImageProofs` (v4 programs, image and catalog), `RecordExchangeProofs` (v4 causes and stack), `RecordBoundsProofs` (v4 words, windows and records) | theorems | |

`WireFormat` uses the *result* of `wi_set_formats` (the depths of the recurrence,
`Accepts`); `FormatTable` shows that the loops compute that result.

Modelling choices a reader should know:

- A string is a sequence of tokens, so the characters inside a specifier do not
  exist; a malformed specifier is the token `bad`. The scanners that must skip over
  characters (`skip_branch`, `next_call`) are modelled by what they do to tokens, with
  the two differences between them that matter kept: a call without digits ends the
  scan of `next_call`, and `%Jn` without brackets is a call that it does not see.
- Undefined C is a choice over outcomes: a shift by a negative amount or by the
  width yields any field; `INT64_MIN / -1` yields the wrapped quotient or kills the
  process; a negative count in `%r` runs off the caller's memory (status `trapped`).
- Memory is one array per job, pointers are indexes, 0 is NULL. An output buffer does
  not overlap the input. The format strings, the table, the lists and their rows stay
  where they are for the parse.
- `WireFormat` is the positional dialect alone; the v4 forms (`%i %j %u`, `{name}`
  operands) are in `WireRecord`, which repeats of the positional handlers those that
  `records.c` emits, on unsigned words.
- `Schema`, `WiCompile` and `VectorCheck` abstract text: names are values, `Malformed`
  stands for every value that is wrong on its own. The image's octets and the header's
  text do not exist in v1 to 3.
- In the v4 modules a string of the string table occupies one unit, and its offset
  is its number. A word has two octets instead of eight: CBOR heads of four and eight
  octets and CRC-32C, which needs four, are scaled out; the 16-bit checksums are
  the real ones, bit by bit.
  Spelling, and names that collide in the generated header only, are not modelled.
- In `RecordExchange` the applications do what the guide tells them to: the receiver's
  records are zeroed and have the sender's sizes, both sides set the same parameters, and a
  receiver compares `used` with the length of its input. Sizes may be wrong for the
  message: too few records for the rows, or records with fewer values than fields.
  The `values` pointer of a record is never NULL.
- In `OutputWriter` the four `unlink` calls at the start of the C port are one step
  (nobody else uses these names), and a kill is the death of the process, not of the
  machine: directory operations are not reordered.

## 3. Runs

Each set of jobs is every combination of the pieces named.

| run | question | instance |
|---|---|---|
| `format_table` | does `wi_set_formats` always answer, by the longest chain, with the exact depths? | four formats of up to two calls (all indexes, self and forward references, NULL entries, calls without digits), a call stack of 3, a table one entry too large |
| `control` | does the loop with its call stack mean what a recursive reading means, and end? do accepted tables keep their depth? does a second `wi_parse` carry on as `wire_format.h` says, without the faults and the repeat count of the first? | words of four 2-bit bytes. Every top string of up to three control tokens on seven tables: repeats armed by a callee, of zero, twice or a negative number of times, conditionals opened in one format and closed in another, fatal and tolerated faults; four formats each calling or sequencing any lower one or itself, hidden from the scan or not, stack of 3; pairs of strings of up to two pieces on four inputs |
| `data` | rows, slices, faults and position for nested lists; laws of arithmetic; exact integers, SDNVs, bit fields, arrays; does anything odd leave the buffers or push an index out of its array? | words of four 4-bit bytes. Decoding: every input of up to four bytes over 0..2, five row formats, four top strings, row counts from the input. Encoding: all row values, counts of outer and inner list, buffers of 0 to 4. Twelve strings on six settings of the lists, so that each reason for refusing `%J` occurs alone. Ten programs that must leave 1, all pairs of 19 values with both ends of the range; runs of SDNV groups up to two bytes beyond what `%D` reads, cut at every byte; undefined shifts, malformed specifiers, wrong direction, empty and full stacks, each followed by a second parse |
| `compiled` | do the programs of `wi.c` write and read what the vector check writes and reads? do rows and choices come back, does a message leave no bits behind, is truncation noticed? does `wi_set_formats` take the tables, and which not? | words of eight 2-bit bytes, so that u8 to u64 are 1 to 8 octets. Bit fields of all widths and alignments in both orders, numbers of every type with boundary values, slices with derived lengths at and past their width, lists, choices with and without a match, chains of messages up to the call stack and one beyond, as many messages side by side as a table may have and one more, and every message of up to four fields of a small alphabet, most of which `Schema` refuses |
| `named` | from a v4 schema to the receiver: is what arrives what was sent, and nothing accepted that was not? do the computed numbers stay words, the messages in their buffers and inputs, and the rows in their records? | 92 exchanges of 38 schemas that use every type of field and every operator: deferred and nested checksums, marks, CBOR heads of each size, sequences by count, to an octet and to the end, optional fields and lists, three levels of records, sums, products, differences and shifts at the end of a word, buffers and records that are too small, values that are refused, schemas that are refused (empty names, unknown fields and operators, wrong numbers of operands among the reasons). Every beginning of the octets, and every octet changed by each single bit or all; then decoded again |
| `outputs_in_turn` | both outputs or neither, after any failure; nothing lost by a kill | two compilations, one after another, either port, any forward call failing, outputs missing, old or not regular |
| `outputs_at_once` | what survives two compilers at once | the same two overlapping, the undo failing too: no output is half a file |
| `depth_guard_reached` | *violation*, see 6 | the depth tables of `control` |
| `refusal_not_silent` | *violation*, see 6 | the depth tables of `control` |
| `compiled_byte_order` | *violation*, see 6 | little-endian sources with a derived length of every type |
| `double_relation` | *violation*, see 6 | fields that derive their value from two others |
| `mixture` | *violation*, see 6 | two C compilations at once, no failing call |

Why these bounds are enough to be interesting: three frames and four formats give
accepted chains, the longest accepted one and the first refused one; two levels of
lists with two and one rows give a row that stops an inner and an outer sequence, in
the first, a middle and the last row; with 2-bit bytes four-byte words are reached by
SDNV groups of one bit, with 4-bit bytes by groups of three that do not divide the
word, as 7 does not divide 64. In `compiled` a one-octet length overflows at four
octets. In `named` the exchanges end in every way there is: delivered, refused with
each status of an encoder, rejected with each status of a decoder, not compiled. Cuts are
tried where a schema's messages cannot be beginnings of each other, changes where a
checksum covers every octet: elsewhere no decoder could notice.

Each property has a mutant or more in the module it is about (the definitions marked
"Mutant"), a plausible bug under which the run fails.

Bounds in the models: `MAX_FORMATS`, `CALL_DEPTH`, `STACK_DEPTH`, `MAX_PARAMS`,
`MAX_VARS`, `MAX_MESSAGES`, `MAX_FIELDS`, `MAX_NESTING`, `MAX_EXPRESSION` are constants
of the code; `MaxTop`, `MaxTurn`, `MaxInput`, `MaxOutput`, `MaxFields`, `MAX_LIVE`,
`Flips`, the job sets and the exchanges are the instance's. No counter had to be cut
off: every counter of the code is bounded by its arrays.

Fairness. One thread runs a loop without waiting for anything, so as long as it can
take a step it takes one: `Spec` of `FormatTable` and `WireFormat` has `WF_vars(Next)`.
`RecordExchange` says the same of its transfer, with the stages in place of `ENABLED`:
infinitely many steps, or an outcome. Three properties need it: `Terminates`;
`AnswersLikeTheOracle`, whose abstract specification promises an answer; and
`DeliversWhatWasSent`, whose abstract specification promises that a
transfer ends refused or delivered. `OutputWriter` has no liveness property and no
fairness: a process may be killed.

## 4. What is proved

For all tables, format strings, jobs and limits, with TLAPS, from the ASSUMEs on the
constants and on what a caller sets up. These need a word:

- `PowersAssumption` says what `^` means at the sizes of octet and word (powers begin at
  1 and multiply), which the provers do not know; `DigitsAssumption` says the same of the
  powers of ten, and that a word has room for a digit.
- `OctetsAssumption`: the v4 dialect has octets of eight bits and words of at least two of them,
  so that the marker 256 is a word.
- `IsJob` is what `wi_init`, `wi_decode_init`, `wi_set_slice` and `wi_set_record_list` let a
  caller set up, with slices and an input that lie in its memory, which no C program can check.
- `SourcesAssumption`: what the JSON5 reader returns for arrays are arrays, and the caller asks
  for a message of the schema. `RecordsAssumption` says what the C types of `wire_record.h` say of
  the caller's records: numbers, counts and sizes are words, octets are octets, a list's
  records exist. It says nothing of how many there are or what they hold.

The theorems, by module:

- `FormatTableProofs`: `TypeCorrect`, `LoopInvariant` (`Progress`), `Exact`
  (`AcceptanceIsExact`). `Progress` is the inductive invariant: the formats below
  `k` have their final depth, format `k` has the depth of its prefix.
  The second half proves `ImplementsTheOracle`, the safety part of `AnswersLikeTheOracle`:
  each step of the loops is a step of `TableOracle` or a stutter. The recurrence of the
  depths speaks of single calls, the abstract answer of whole chains. The invariant
  `Chains` (`DepthsMeasureChains`) connects them: each format
  below `k` starts a chain of as many calls as its depth and no longer one. It is
  carried by the loop itself, one format at a time, so that no induction over
  the table is needed: a call of format `k` goes to a lower one, whose chains are known.
- `WireFormatProofs`: `ControlSound`, and from it `Descends` (`CallsDescend`),
  `Budget` (`BudgetKept`) and `Sufficient` (`CallDepthSufficient`).
  None of the three is inductive: a return, and the end of a row, restore a position that
  a frame or a waiting context has carried since the call. The invariant `ControlInv`
  therefore states for *every* context, running or waiting in `%J`, that the formats along its call
  stack are ranks of the installed table, descend, and each leave as many frames as
  they need above the frames and sequence levels that lie below them; and that each
  context begins below the format its parent is at. `ControlInv` says
  nothing about data: frames and contexts hold "some set L" of values, which a step may
  enlarge. Twenty-odd handlers are covered by one lemma about `Do`; the real work is
  `%[n]`, `%J[n]`, returns and the end of a row.
- `WireFormatDataProofs`: `DataSound`, and from it `Typed` (`TypeOK`), `StaysInside`
  (`InsideBuffers`), `SlicesSound` (`SlicesInsideInput`), `Stops` (`StopPropagates`) and
  `FaultsReported` (`FaultsReachTheCaller`). The inductive invariant `DataInv` says that
  each context is `Sound` (a `wi_vars_t` in range whose window ends where the caller's
  ends and whose slices lie in what it has consumed), how each waiting context hangs on
  its parent (its window is what the parent had left, its row one of the parent's list, the
  parent neither stopped nor moved meanwhile), and what
  the caller's lists hold. `Evolves(job, w, w')` is all that a handler may do to
  its machine: consume or write more, never less, inside the window; keep a stop and a
  fault. It is transitive, so each handler is a chain of small lemmas (`PopThen`,
  `EmitEvolves`, `SkipEvolves`, ...), and the only steps that need a proof of their own
  are those that make, merge or restore a context. `InsideBuffers` and
  `SlicesInsideInput` had to be stated more exactly for this: a second parse on the same
  `wi_vars_t` does not begin at the window's first octet, and after
  a parse that overran, rows of nested lists may point beyond the cursor the next one
  starts from, so that "consumed" is meant of the first. `FaultsReported` is about the
  union of the faults of all contexts (`Raised`): a row starts with none and its parent
  waits with what it has, so no single context can be followed. No step shrinks the union
  (`SequenceKeepsFaults` for the three that make, replace or leave a row), and a parse
  returns only from its own string (`ReturnsAll`), when the union is the caller's.
- `OutputWriterProofs`: `TypeCorrect` (`TypeOK`) and `StagedOnly` (`OutputsComplete`): for any number of
  overlapping compilations, of either port, with any call failing and any kill, what
  is at an output path is never half a file. The inductive invariant `Inv` adds that live
  runs have different process numbers, so that their temporaries have different names, that a run which has passed its
  staging has complete temporaries of its own, and that backups are complete. One
  lemma, `StepOfOne`, says what a step may touch; then there is one lemma per step.
  The second half is about runs one after another (`MAX_LIVE = 1`; for runs at once the
  properties are false, see 6.3): `SuccessKeepsBoth` (`SuccessInstallsBoth`), and where
  the calls of the error paths themselves do not fail (`"undo" \notin FaultySteps`),
  `FailureRestores` (`FailureLeavesOutputs`), `LeavesNothing` (`NothingLeftBehind`) and
  `LosesNothing` (`NothingLost`). `InTurn` says for each step forward where both
  files are; `Undone` says of a run in its error path that the calls still on
  its list, executed from here, put back what the run found; `StillKept` that what
  killed runs found is kept. Trying to prove
  `NothingLost` showed that it was false as stated first: a C run with the process number of
  a killed one removes the backups of that one before it looks, and TLC had been
  given too few runs to see it. `NumberReused` is the exception.
- `WordsProofs`, for every width of octet and word: `FixedNumbersComeBack` (what `%b %w %W
  %q` write is read as the number modulo the width, negative numbers included) with
  `FixedNumbersRoundTrip` and `WordsRoundTrip`; `SdnvRoundTrip`, `SdnvOverflowIsExact` and
  `SdnvLengthExists` for `%d` and `%D`; `RemainderFollowsDividend` for `%m`. `Number`
  and `SdnvValue` are recursive functions; their values are found by induction over
  sets of numbers (`SetInduction`, from the least element of a set), which needs no
  operator as a parameter. `DigitsAddUp` is the argument the
  fixed numbers and the SDNV share.
- `RecordImageProofs`: `CatalogDescribed` (`CatalogDescribesSource`). Every v4 schema that
  compiles gives an image that `wire_info_open` accepts, `program_valid` included, and
  whose accessors return the names, types, numbers, children and programs of the
  schema. Two arguments meet in it. The *layout* (`LaidOut`, `ImageOpens`): the three
  tables are what the messages add, one after another, so that the part of message `m`
  begins at the sum of the lengths before it (`FieldsBefore`), and sections end where
  the next begins. The *programs* (`Leads`, `ProgramsAreValid`): the
  code of an expression leads from stack height `h` to `h + 1`, whatever part of a
  conditional it stands in, that of a field from 0 to 0, and a whole program from
  outside every conditional to outside every conditional; each token is one that
  `program_valid` accepts and takes no more than the height before it. Expressions are
  compiled to a nesting of `MAX_EXPRESSION` by a recursive function over depth,
  so the proof is an induction over depths. It rests on `SourcesAssumption` and `ExpressionAssumption`. The
  proof showed that the model of `records.c` did not say that `expression()` refuses
  what is no operation, nor that names are not empty; it does now.
- `RecordExchangeProofs`: `Balanced` (`ProgramsBalanced`) and `CauseReported`
  (`FirstCauseIsReported`). Both come from one lemma for each operation (`Keeps`: the place,
  a cause only in a context that stops, so many operands unless it stops) and one for
  each handler, a chain of them, with the operands the code of the token takes and puts.
  `BalanceInv` says that a context that runs is at a place of its program and
  holds as many operands as `RecordImageProofs` counts there (`Placed`), and that those
  which wait are too. The tokens of a conditional jump: `JumpLands` finds that the end of
  the branch that `skip_branch` looks for exists, and that the stack is empty there,
  from the order in which the parts of a conditional turn (`Turns`). Rows begin at
  the start of a program of the catalog, by the number below its own that `%J` carries.
  `CauseInv` (`CausesKept`) says that a context with a cause has stopped, and that none of those
  that wait for a row has one; two kinds of step only, the end of a row and the end of
  the call, act in a context that has stopped, and both hand the cause on. The loops
  of `%ud` (decimal digits) and `%uT` (terminated octets) are unfolded by induction over
  the octets that are left.
- `RecordBoundsProofs`: `Words` (`WordsStayWords`), `Inside` (`StaysInside`) and
  `Progress` (`RowsConsume`), all from `BoundsKept`. None of the three is inductive.
  That a sum is a word needs that its operands are, and an operand may come from a record, an octet, a bit accumulator, a position, a checksum or the length
  of bytes: so `Ranged` states the range of everything a context holds, `HeapRanged` of
  every value of every record. That a row goes back to where its
  parent stands needs that the parent has not moved meanwhile: `Stands` says of *each* context that waits that
  the row above it began at its position (`Stacked`), that it has no unfinished bits, and that the
  list has a record for the row. `Runs` adds that the record of a context has the fields of its
  message, and that a decoder's unbounded sequence has consumed an octet for each row, for the
  waiting contexts too, because the end of a row restores them.
  The argument has the shape of the modules before it: one lemma for each operation of
  `WireRecord` (`Moves`: the same place, `Ranged` again), one for each handler
  (`Worked`), and real work at the beginning and end of a row and of a call.
  `BoundsInv` leans on three invariants proved before it: `CatalogInv` (numbers of messages and fields
  are those of the image), `CauseInv` (who waits has not stopped) and `BalanceInv` (a row is entered and left at a
  place of a program, with an empty stack). Bits and bytes meet in a few lemmas
  about `OfBits`, which `WordsProofs` proves bounded for every width.
  The proof corrected the model, too: it had not said that `until` and a terminator are
  natural numbers, nor that a record may be too small for its message.

`TypeOK` of `FormatTable` and of `OutputWriter` is proved for every instance, and therefore in no
run.

Only model-checked, and why:

- `AgreesWithMeaning`, the properties of `MCNumbers` (programs around the numbers that
  `WordsProofs` is about) and `ParsesContinue` speak of particular programs or of a recursive reading of programs, and the module of a theorem may
  not reach a RECURSIVE operator; `RowsMatchCount` is about callers whose rows
  do not already hold what the wire brings, which is no assumption on a job.
- what wfc compiles for versions 1 to 3 (`compiled`), and that a v4 record arrives
  (`named`: `DeliversWhatWasSent`): both are about what whole
  programs, of any schema, compute.
- liveness: `Terminates`, and the liveness in `AnswersLikeTheOracle` and `DeliversWhatWasSent`.

## 5. Not modelled, and plan

Not yet: the JSON5 reader; the Rust runtime and the Rust wfc (but for its output
files); the characters of format strings; the `.wi` image and the C header of
versions 1 to 3; v4 images that wfc has not written, with the damage `wire_info_open`
must notice; CBOR heads of more than two octets and CRC-32C. Left out for good: command lines, file reading, wording of diagnostics,
the helpers in `util.c`, tests, vectors and examples.

In this order:

1. `FormatScan`: characters; `skip_branch`, `next_call` and `_call` agree where an
   operand's `{` or a quoted `%` could confuse one of them.
2. Images with other offsets than wfc's, and that accepted ones never lead an accessor
   out of the blob.
3. The Rust runtime compared with `WireFormat` where it differs (errors, no
   `wi_set_slice`), the Rust wfc with `WiCompile`.
4. `json5.c`: nesting and number limits.

## 6. Where the code and its texts disagree

1. *A hidden call* (`depth_guard_reached`). `next_call` answers -1 both at the end of the
   string and at a call without digits; `table_depth` stops at either, so calls behind a `%[]` are
   not counted, while the interpreter steps over `%[]` and executes them. `wi_set_formats`
   then accepts a table that reaches the guard of which `_call` says "reaching
   it is a bug". The parse ends with overrun; nothing is written out of bounds.
   `%Jn` without brackets is not counted either. `AllCounted`
   is the premise under which `BudgetKept` and `CallDepthSufficient` hold and are proved.
2. *A loud refusal* (`refusal_not_silent`). The comment above `_call` lists
   nesting past `WI_CALL_DEPTH` among the failures that skip the call and carry on; the
   code sets overrun.
3. *A mixture* (`mixture`). The documentation promises that a failed compilation does not
   leave a mixture of old and new outputs. Two C compilations of one stem at once do: the
   one whose rename finds the file gone puts its old header over the new one.
4. *Byte order of derived fields* (`compiled_byte_order`). A derived length or count is
   written and read big-endian (`%w %W %q`), although the documentation gives every
   `u16`, `u32` and `u64` the protocol's byte order and the vector check demands it.
   A caller's own numbers can be swapped by the caller; a derived number has no caller.
5. *Two relations in one field* (`double_relation`). The documentation requires both
   references of a pair. The reader checks the answer of a field's first relation
   only; a `count_of` beside an answered `length_of` may name any list, and the
   generator compiles the `count_of`.

Met while modelling, without a text that says otherwise:

- `restore()` in C unlinks the path also when it has nothing to put back, so that
  overlapping runs may lose the old file altogether; a C run removes the backups of a
  killed run with the same process number; the Rust port leaves its header's temporary
  behind when writing or renaming it fails.
- wfc limits the messages of a source to 64 for version 4 only (`records.c` 322). A source
  of versions 1 to 3 with more of them, or with lists nested deeper than the call stack
  (`README.md` 468 documents both limits, for the library), compiles, and `wi_set_formats`
  refuses the table: `InstalledIfItFits` says that it is refused for nothing else.
- `%J` on a short operand stack may announce an empty list before the overrun is noticed.
- A v4 row whose checksum starts before the row may cover the place of an enclosing
  message's deferred checksum: the encoder sums zeroes that are patched later, the
  decoder the patched octets, so the message cannot be read back. The exchanges leave
  such schemas out.
- A plain checksum behind a deferred one in the same v4 message compiles, and is refused
  with SCHEMA by every call.
- A v4 expression of 32 nested selects passes the compiler and the loader and needs
  65 operands of a stack of 64; every call fails as if the buffer were too small.
- v4 input cut in the middle of a CBOR head or of decimal digits is reported as
  CONSTANT or RANGE rather than TRUNCATED, because missing octets read as zero.
- The `member` of `item`, `unique` and `count-equal`, and a name that only some of
  a message's parents have, are looked up when a program runs, not by the compiler.
