---------------------------- MODULE FormatTable ----------------------------
(***************************************************************************)
(* wi_set_formats() and the loops of table_depth() and next_call(), one    *)
(* iteration per step: the only thing that stands between a caller's table *)
(* and the fixed arrays of the interpreter's call stack.                   *)
(***************************************************************************)
EXTENDS Formats, FiniteSets

CONSTANTS Tables,       \* the tables a caller may offer
          CALL_DEPTH,   \* WI_CALL_DEPTH
          MAX_FORMATS   \* WI_MAX_FORMATS

ASSUME CallDepthAssumption  == CALL_DEPTH \in Nat \ {0}
ASSUME MaxFormatsAssumption == MAX_FORMATS \in Nat \ {0}
ASSUME TablesAssumption     == \A t \in Tables : IsTable(t)

VARIABLES table,        \* the arguments fmts and nfmts
          pc,           \* where the code is
          k, p,         \* table_depth's k and its scanning pointer
          depths,       \* the scratch array (0: not written yet)
          deepest,
          verdict       \* what wi_set_formats() answers

vars == <<table, pc, k, p, depths, deepest, verdict>>

Init ==
  /\ table \in Tables
  /\ pc = "entry"
  /\ k = 0 /\ p = 1
  /\ depths = [j \in 0..table.nfmts-1 |-> 0]
  /\ deepest = 0
  /\ verdict = "none"

Return(answer) == pc' = "returned" /\ verdict' = answer

\* wi_set_formats() before and around the call of table_depth().
RefuseCount ==
  /\ pc = "entry" /\ table.nfmts \notin 0..MAX_FORMATS
  /\ Return("refused")
  /\ UNCHANGED <<table, k, p, depths, deepest>>

AcceptEmpty ==
  /\ pc = "entry" /\ table.nfmts = 0
  /\ Return("accepted")
  /\ UNCHANGED <<table, k, p, depths, deepest>>

EnterTableDepth ==
  /\ pc = "entry" /\ table.nfmts \in 1..MAX_FORMATS
  /\ pc' = "format"
  /\ UNCHANGED <<table, k, p, depths, deepest, verdict>>

\* The head of table_depth's for loop; a NULL entry is passed over.
OpenFormat ==
  /\ pc = "format" /\ k < table.nfmts
  /\ depths' = [depths EXCEPT ![k] = 1]
  /\ IF k \in DOMAIN table.fmts THEN pc' = "scan" /\ p' = 1 /\ UNCHANGED k
                                ELSE k' = k + 1 /\ UNCHANGED <<pc, p>>
  /\ UNCHANGED <<table, deepest, verdict>>

Scanning    == pc = "scan" /\ p <= Len(table.fmts[k])
Current     == table.fmts[k][p]
Runnable(j) == j < k /\ j \in DOMAIN table.fmts

\* next_call steps over a token that is no call; table_depth ignores a forward,
\* self or NULL reference.
PassToken ==
  /\ Scanning /\ ~EndsScan(Current)
  /\ Current.op \in CountedOps => ~Runnable(Current.n)
  /\ p' = p + 1
  /\ UNCHANGED <<table, pc, k, depths, deepest, verdict>>

\* Mutant: a caller as deep as its deepest callee.
CountCallLevel ==
  /\ Scanning /\ Current.op \in CountedOps /\ Runnable(Current.n)
  /\ depths' = IF depths[Current.n] > depths[k]
                 THEN [depths EXCEPT ![k] = depths[Current.n]] ELSE depths
  /\ p' = p + 1
  /\ UNCHANGED <<table, pc, k, deepest, verdict>>

\* Mutant: the last call decides, not the deepest.
CountLastCall ==
  /\ Scanning /\ Current.op \in CountedOps /\ Runnable(Current.n)
  /\ depths' = [depths EXCEPT ![k] = depths[Current.n] + 1]
  /\ p' = p + 1
  /\ UNCHANGED <<table, pc, k, deepest, verdict>>

\* A call that can run raises the depth of its caller.
CountCall ==
  /\ Scanning /\ Current.op \in CountedOps /\ Runnable(Current.n)
  /\ depths' = IF depths[Current.n] + 1 > depths[k]
                 THEN [depths EXCEPT ![k] = depths[Current.n] + 1] ELSE depths
  /\ p' = p + 1
  /\ UNCHANGED <<table, pc, k, deepest, verdict>>

\* Mutant: the depth of the last format is taken for the deepest.
CloseFormatLast ==
  /\ pc = "scan"
  /\ Scanning => EndsScan(Current)
  /\ deepest' = depths[k]
  /\ k' = k + 1
  /\ pc' = "format"
  /\ UNCHANGED <<table, p, depths, verdict>>

\* next_call returns -1, at the end of the string or at a call without digits.
CloseFormat ==
  /\ pc = "scan"
  /\ Scanning => EndsScan(Current)
  /\ deepest' = IF depths[k] > deepest THEN depths[k] ELSE deepest
  /\ k' = k + 1
  /\ pc' = "format"
  /\ UNCHANGED <<table, p, depths, verdict>>

LeaveTableDepth ==
  /\ pc = "format" /\ k = table.nfmts
  /\ Return(IF deepest + 1 > CALL_DEPTH THEN "refused" ELSE "accepted")
  /\ UNCHANGED <<table, k, p, depths, deepest>>

\* The call has returned.
Returned == pc = "returned" /\ UNCHANGED vars

Next ==
  \/ RefuseCount \/ AcceptEmpty \/ EnterTableDepth
  \/ OpenFormat \/ PassToken \/ CountCall \/ CloseFormat
  \/ LeaveTableDepth
  \/ Returned

Spec == Init /\ [][Next]_vars /\ WF_vars(Next)
-----------------------------------------------------------------------------
\* Every variable stays in its type, the scanning pointer within the string it
\* scans, and table_depth's k within the caller's table.
TypeOK ==
  /\ IsTable(table)
  /\ pc \in {"entry", "format", "scan", "returned"}
  /\ k \in Nat /\ p \in Nat \ {0}
  /\ pc = "entry" => k = 0
  /\ pc \in {"format", "scan"} => k <= table.nfmts
  /\ pc = "scan" => k \in DOMAIN table.fmts /\ p <= Len(table.fmts[k]) + 1
  /\ depths \in [0..table.nfmts-1 -> Nat]
  /\ deepest \in Nat
  /\ verdict \in {"none", "accepted", "refused"}

\* What the loops have established so far: the formats below k are finished, and
\* the depth of format k is right for the part of the string already scanned.
\* Nothing reads an entry of the uninitialised scratch array.
Progress ==
  /\ \A j \in 0..k-1 : j < table.nfmts => IsDepth(table, depths, j)
  /\ \A j \in DOMAIN table.fmts : j < k => depths[j] <= deepest
  /\ pc \in {"entry", "format", "scan"} => verdict = "none"
  /\ pc \in {"format", "scan"} => table.nfmts \in 1..MAX_FORMATS
  /\ verdict = "accepted" /\ table.nfmts > 0 =>
       table.nfmts <= MAX_FORMATS /\ k = table.nfmts /\ deepest + 1 <= CALL_DEPTH
  /\ pc = "scan" =>
       /\ depths[k] \in Nat \ {0}
       /\ \A h \in 1..p-1 : ~EndsScan(table.fmts[k][h])
       /\ \A j \in CountedBefore(table, k, p) : depths[j] < depths[k]
       /\ \/ depths[k] = 1
          \/ \E j \in CountedBefore(table, k, p) : depths[k] = depths[j] + 1

\* The one-pass table_depth() is exact: a table is accepted only with the depths
\* of the recurrence in its comment, every one of them with a frame to spare.
AcceptanceIsExact ==
  verdict = "accepted" /\ table.nfmts > 0 =>
    Accepts(table, depths, CALL_DEPTH, MAX_FORMATS)

\* The loops answer as the oracle does: wi_set_formats() always answers, once, and
\* accepts a table exactly if no chain of the calls its scan sees, with a frame for
\* the top string, is longer than WI_CALL_DEPTH.
Oracle == INSTANCE TableOracle WITH answer <- verdict
AnswersLikeTheOracle == Oracle!Spec
=============================================================================
