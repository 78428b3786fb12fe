------------------------- MODULE FormatTableProofs -------------------------
(***************************************************************************)
(* The one-pass table_depth() is exact for every table: the invariant      *)
(* Progress says what the two nested loops have established, and the       *)
(* answer of wi_set_formats() follows from it when the outer loop ends.    *)
(* The second half shows that the loops implement TableOracle.             *)
(***************************************************************************)
EXTENDS FormatTable, FiniteSetTheorems, WellFoundedInduction, TLAPS

\* What one more scanned token adds to the calls counted so far: its callee if
\* it is a call that can run, and nothing otherwise.  (next_call, table_depth)
LEMMA CountedStep ==
  ASSUME NEW t, IsTable(t), NEW i \in DOMAIN t.fmts, NEW m \in 1..Len(t.fmts[i]),
         \A h \in 1..m : ~EndsScan(t.fmts[i][h])
  PROVE  CountedBefore(t, i, m + 1) =
           IF /\ t.fmts[i][m].op \in CountedOps
              /\ t.fmts[i][m].n \in DOMAIN t.fmts /\ t.fmts[i][m].n < i
             THEN CountedBefore(t, i, m) \cup {t.fmts[i][m].n}
             ELSE CountedBefore(t, i, m)
<1>1. t.fmts[i] \in Seq(Token) /\ DOMAIN t.fmts \subseteq Int
  BY DEF IsTable
<1>2. Len(t.fmts[i]) \in Nat /\ m \in Int
  BY <1>1
<1>3. 1..(m + 1) - 1 = (1..m-1) \cup {m}
  BY <1>2
<1>4. \A h \in 1..m : 1..h \subseteq 1..m
  BY <1>2
<1>5. \A j \in DOMAIN t.fmts :
        j \in CountedBefore(t, i, m + 1) <=>
          \/ j \in CountedBefore(t, i, m)
          \/ j = t.fmts[i][m].n /\ j < i /\ t.fmts[i][m].op \in CountedOps
  <2> TAKE j \in DOMAIN t.fmts
  <2> DEFINE Hit(h) == /\ t.fmts[i][h].op \in CountedOps
                       /\ t.fmts[i][h].n = j
                       /\ \A g \in 1..h : ~EndsScan(t.fmts[i][g])
  <2>1. j \in CountedBefore(t, i, m) <=> j < i /\ \E h \in 1..m-1 : Hit(h)
    BY DEF CountedBefore
  <2>2. j \in CountedBefore(t, i, m + 1) <=> j < i /\ \E h \in 1..(m+1)-1 : Hit(h)
    BY DEF CountedBefore
  <2>3. Hit(m) <=> t.fmts[i][m].op \in CountedOps /\ t.fmts[i][m].n = j
    BY <1>4
  <2> HIDE DEF Hit
  <2> QED
    BY <2>1, <2>2, <2>3, <1>3
<1>6. CountedBefore(t, i, m + 1) \subseteq DOMAIN t.fmts
      /\ CountedBefore(t, i, m) \subseteq DOMAIN t.fmts
  BY DEF CountedBefore
<1> QED
  BY <1>5, <1>6

\* A call without digits hides the rest of its string from the count.
LEMMA CountedEnd ==
  ASSUME NEW t, IsTable(t), NEW i \in DOMAIN t.fmts, NEW m \in 1..Len(t.fmts[i]) + 1,
         m <= Len(t.fmts[i]) => EndsScan(t.fmts[i][m])
  PROVE  Counted(t, i) = CountedBefore(t, i, m)
<1>1. Len(t.fmts[i]) \in Nat
  BY DEF IsTable
<1>2. \A h \in 1..Len(t.fmts[i]) : (\A g \in 1..h : ~EndsScan(t.fmts[i][g])) => h \in 1..m-1
  BY <1>1
<1>3. 1..m-1 \subseteq 1..Len(t.fmts[i]) /\ 1..(Len(t.fmts[i]) + 1) - 1 = 1..Len(t.fmts[i])
  BY <1>1
<1> QED
  BY <1>2, <1>3 DEF Counted, CountedBefore

\* The depth of a format depends on the entries up to its own only.
LEMMA DepthFrame ==
  ASSUME NEW t, IsTable(t), NEW d, NEW e, NEW i \in Nat, IsDepth(t, d, i),
         \A j \in 0..i : e[j] = d[j]
  PROVE  IsDepth(t, e, i)
<1>1. \A j \in Counted(t, i) : j \in 0..i
  BY DEF Counted, CountedBefore, IsTable
<1> QED
  BY <1>1 DEF IsDepth

-----------------------------------------------------------------------------
\* The loops of wi_set_formats() and table_depth() keep to their types: k never
\* leaves the caller's table, the scanning pointer never passes the terminator.
THEOREM TypeCorrect == Spec => []TypeOK
<1>1. Init => TypeOK
  <2> SUFFICES ASSUME Init PROVE TypeOK
    OBVIOUS
  <2>1. IsTable(table)
    BY TablesAssumption DEF Init
  <2>2. depths \in [0..table.nfmts-1 -> Nat]
    BY DEF Init
  <2> QED
    BY <2>1, <2>2 DEF Init, TypeOK
<1>2. TypeOK /\ [Next]_vars => TypeOK'
  <2> SUFFICES ASSUME TypeOK, [Next]_vars PROVE TypeOK'
    OBVIOUS
  <2> USE DEF TypeOK
  <2>0. table.nfmts \in Int /\ DOMAIN table.fmts \subseteq 0..table.nfmts-1
        /\ \A i \in DOMAIN table.fmts : Len(table.fmts[i]) \in Nat
    BY DEF IsTable
  <2>1. CASE RefuseCount
    BY <2>1 DEF RefuseCount, Return
  <2>2. CASE AcceptEmpty
    BY <2>2 DEF AcceptEmpty, Return
  <2>3. CASE EnterTableDepth
    BY <2>3, <2>0, MaxFormatsAssumption DEF EnterTableDepth
  <2>4. CASE OpenFormat
    BY <2>4, <2>0 DEF OpenFormat
  <2>5. CASE PassToken
    BY <2>5, <2>0 DEF PassToken, Scanning
  <2>6. CASE CountCall
    <3>1. Current.n \in 0..table.nfmts-1
      BY <2>6, <2>0 DEF CountCall, Runnable
    <3>2. depths[Current.n] + 1 \in Nat
      BY <3>1
    <3>3. depths' \in [0..table.nfmts-1 -> Nat]
      BY <2>6, <3>2 DEF CountCall
    <3> QED
      BY <2>6, <2>0, <3>3 DEF CountCall, Scanning
  <2>7. CASE CloseFormat
    BY <2>7, <2>0 DEF CloseFormat
  <2>8. CASE LeaveTableDepth
    BY <2>8 DEF LeaveTableDepth, Return
  <2>9. CASE UNCHANGED vars
    BY <2>9 DEF vars
  <2> QED
    BY <2>1, <2>2, <2>3, <2>4, <2>5, <2>6, <2>7, <2>8, <2>9 DEF Next, Returned
<1> QED
  BY <1>1, <1>2, PTL DEF Spec

\* table_depth() computes the depth of every format exactly, in one pass from
\* the lowest index: its entries never have to be revisited, and no entry of
\* the uninitialised scratch array is read.
THEOREM LoopInvariant == Spec => []Progress
<1>1. Init => Progress
  BY TablesAssumption DEF Init, Progress, IsTable
<1>2. TypeOK /\ Progress /\ [Next]_vars => Progress'
  <2> SUFFICES ASSUME TypeOK, Progress, [Next]_vars PROVE Progress'
    OBVIOUS
  <2> USE DEF TypeOK
  <2>0. table.nfmts \in Int /\ DOMAIN table.fmts \subseteq 0..table.nfmts-1
        /\ \A i \in DOMAIN table.fmts : Len(table.fmts[i]) \in Nat
    BY DEF IsTable
  <2>1. CASE RefuseCount
    BY <2>1 DEF RefuseCount, Return, Progress
  <2>2. CASE AcceptEmpty
    BY <2>2 DEF AcceptEmpty, Return, Progress
  <2>3. CASE EnterTableDepth
    BY <2>3 DEF EnterTableDepth, Progress
  <2>4. CASE OpenFormat
    <3>1. \A j \in 0..k-1 : depths'[j] = depths[j]
      BY <2>4 DEF OpenFormat
    <3>2. \A j \in 0..k-1 : IsDepth(table, depths', j)
      <4>1. ASSUME NEW j \in 0..k-1 PROVE IsDepth(table, depths', j)
        <5>1. j \in Nat /\ IsDepth(table, depths, j)
          BY <2>4 DEF Progress, OpenFormat
        <5>2. \A i \in 0..j : depths'[i] = depths[i]
          BY <3>1, <5>1
        <5> QED
          BY <5>1, <5>2, DepthFrame
      <4> QED
        BY <4>1
    <3>3. depths'[k] = 1
      BY <2>4, <2>0 DEF OpenFormat
    <3>4. CASE k \in DOMAIN table.fmts
      <4>1. CountedBefore(table, k, 1) = {}
        BY DEF CountedBefore
      <4>2. pc' = "scan" /\ p' = 1 /\ k' = k /\ table' = table /\ deepest' = deepest
            /\ verdict' = verdict /\ pc = "format"
        BY <2>4, <3>4 DEF OpenFormat
      <4>3. \A j \in DOMAIN table.fmts : j < k => depths'[j] <= deepest
        BY <3>1, <2>0 DEF Progress
      <4> QED
        BY <3>2, <3>3, <4>1, <4>2, <4>3 DEF Progress
    <3>5. CASE k \notin DOMAIN table.fmts
      <4>1. IsDepth(table, depths', k)
        BY <3>3, <3>5 DEF IsDepth
      <4>2. pc' = "format" /\ k' = k + 1 /\ table' = table /\ deepest' = deepest
            /\ verdict' = verdict /\ pc = "format"
        BY <2>4, <3>5 DEF OpenFormat
      <4>3. \A j \in DOMAIN table.fmts : j < k + 1 => depths'[j] <= deepest
        BY <3>1, <3>5, <2>0 DEF Progress
      <4>4. \A j \in 0..(k+1)-1 : IsDepth(table, depths', j)
        BY <3>2, <4>1
      <4> QED
        BY <4>2, <4>3, <4>4 DEF Progress
    <3> QED
      BY <3>4, <3>5
  <2>5. CASE PassToken
    <3>1. k \in DOMAIN table.fmts /\ p \in 1..Len(table.fmts[k])
      BY <2>5, <2>0 DEF PassToken, Scanning
    <3>2. \A h \in 1..p : ~EndsScan(table.fmts[k][h])
      BY <2>5, <3>1 DEF PassToken, Scanning, Current, Progress
    <3>3. CountedBefore(table, k, p + 1) = CountedBefore(table, k, p)
      <4>1. ~(/\ table.fmts[k][p].op \in CountedOps
               /\ table.fmts[k][p].n \in DOMAIN table.fmts /\ table.fmts[k][p].n < k)
        BY <2>5 DEF PassToken, Runnable, Current
      <4> QED
        BY <3>1, <3>2, <4>1, CountedStep
    <3> QED
      BY <2>5, <3>1, <3>2, <3>3 DEF PassToken, Scanning, Progress
  <2>6. CASE CountCall
    <3>1. k \in DOMAIN table.fmts /\ p \in 1..Len(table.fmts[k])
      BY <2>6, <2>0 DEF CountCall, Scanning
    <3>2. \A h \in 1..p : ~EndsScan(table.fmts[k][h])
      <4>1. ~EndsScan(table.fmts[k][p])
        <5>1. table.fmts[k][p].n \in 0..table.nfmts-1
          BY <2>6, <2>0 DEF CountCall, Runnable, Current
        <5> QED
          BY <5>1, <2>0 DEF EndsScan, NoDigits
      <4>2. \A h \in 1..p-1 : ~EndsScan(table.fmts[k][h])
        BY <2>6 DEF CountCall, Scanning, Progress
      <4>3. 1..p = (1..p-1) \cup {p}
        BY <3>1
      <4> QED
        BY <4>1, <4>2, <4>3
    <3> DEFINE n == Current.n
    <3>3. /\ CountedBefore(table, k, p + 1) = CountedBefore(table, k, p) \cup {n}
          /\ n \in DOMAIN table.fmts /\ n < k /\ n \in 0..k-1
      <4>1. /\ n \in DOMAIN table.fmts /\ n < k
            /\ n = table.fmts[k][p].n /\ table.fmts[k][p].op \in CountedOps
        BY <2>6 DEF CountCall, Runnable, Current
      <4>2. n \in 0..k-1
        BY <4>1, <2>0
      <4>3. CountedBefore(table, k, p + 1) = CountedBefore(table, k, p) \cup {table.fmts[k][p].n}
        <5> HIDE DEF n
        <5> QED
          BY <3>1, <3>2, <4>1, CountedStep
      <4> QED
        BY <4>1, <4>2, <4>3
    <3>4. \A j \in CountedBefore(table, k, p) : j \in 0..k-1
      BY <2>0 DEF CountedBefore
    <3>5. /\ depths'[k] = IF depths[n] + 1 > depths[k] THEN depths[n] + 1 ELSE depths[k]
          /\ \A j \in 0..k-1 : depths'[j] = depths[j] /\ depths[j] \in Nat
          /\ depths[k] \in Nat \ {0}
      <4>1. k \in 0..table.nfmts-1 /\ depths \in [0..table.nfmts-1 -> Nat] /\ depths[n] + 1 \in Nat
        <5> HIDE DEF n
        <5>1. k \in 0..table.nfmts-1
          BY <2>0, <3>1
        <5>2. n \in 0..table.nfmts-1
          BY <2>0, <3>3
        <5> QED
          BY <5>1, <5>2
      <4>2. depths' = IF depths[n] + 1 > depths[k]
                        THEN [depths EXCEPT ![k] = depths[n] + 1] ELSE depths
        BY <2>6 DEF CountCall
      <4>3. depths[k] \in Nat \ {0}
        BY <2>6 DEF CountCall, Scanning, Progress
      <4> HIDE DEF n
      <4>4. depths'[k] = IF depths[n] + 1 > depths[k] THEN depths[n] + 1 ELSE depths[k]
        BY <4>1, <4>2
      <4>5. \A j \in 0..k-1 : depths'[j] = depths[j] /\ depths[j] \in Nat
        <5>1. \A j \in 0..k-1 : j \in 0..table.nfmts-1 /\ j # k
          BY <2>0, <4>1
        <5> QED
          BY <4>1, <4>2, <5>1
      <4> QED
        BY <4>3, <4>4, <4>5
    <3>6. \A j \in 0..k-1 : IsDepth(table, depths', j)
      <4>1. ASSUME NEW j \in 0..k-1 PROVE IsDepth(table, depths', j)
        <5>1. j \in Nat /\ j < table.nfmts /\ IsTable(table)
          BY <2>0, <3>1
        <5>2. IsDepth(table, depths, j)
          BY <5>1 DEF Progress
        <5>3. \A i \in 0..j : depths'[i] = depths[i]
          BY <3>5, <5>1
        <5> QED
          BY <5>1, <5>2, <5>3, DepthFrame
      <4> QED
        BY <4>1
    <3>7. /\ depths'[k] \in Nat \ {0}
          /\ \A j \in CountedBefore(table, k, p + 1) : depths'[j] < depths'[k]
          /\ \/ depths'[k] = 1
             \/ \E j \in CountedBefore(table, k, p + 1) : depths'[k] = depths'[j] + 1
      <4> HIDE DEF n
      <4>1. /\ \A j \in CountedBefore(table, k, p) : depths[j] < depths[k]
            /\ \/ depths[k] = 1
               \/ \E j \in CountedBefore(table, k, p) : depths[k] = depths[j] + 1
        BY <2>6 DEF CountCall, Scanning, Progress
      <4>2. CASE depths[n] + 1 > depths[k]
        <5>1. depths'[k] = depths[n] + 1 /\ depths'[n] = depths[n] /\ depths[n] \in Nat
          BY <3>3, <3>5, <4>2
        <5>2. \A j \in CountedBefore(table, k, p) : depths'[j] < depths'[k]
          BY <3>4, <3>5, <4>1, <4>2, <5>1
        <5> QED
          BY <3>3, <5>1, <5>2
      <4>3. CASE ~(depths[n] + 1 > depths[k])
        <5>1. depths'[k] = depths[k] /\ depths'[n] < depths[k] /\ depths[n] \in Nat
          BY <3>3, <3>5, <4>3
        <5>2. \A j \in CountedBefore(table, k, p) : depths'[j] = depths[j]
          BY <3>4, <3>5
        <5> QED
          BY <3>3, <3>5, <4>1, <5>1, <5>2
      <4> QED
        BY <4>2, <4>3
    <3>8. \A j \in DOMAIN table.fmts : j < k => depths'[j] <= deepest
      BY <3>5, <2>0 DEF Progress
    <3>9. table' = table /\ pc' = pc /\ k' = k /\ p' = p + 1 /\ (p + 1) - 1 = p
          /\ deepest' = deepest /\ verdict' = verdict /\ pc = "scan"
      BY <2>6 DEF CountCall, Scanning
    <3> QED
      BY <3>2, <3>6, <3>7, <3>8, <3>9 DEF Progress
  <2>7. CASE CloseFormat
    <3>1. Counted(table, k) = CountedBefore(table, k, p) /\ k \in DOMAIN table.fmts
      <4>1. /\ IsTable(table) /\ k \in DOMAIN table.fmts
            /\ p \in 1..Len(table.fmts[k]) + 1
            /\ p <= Len(table.fmts[k]) => EndsScan(table.fmts[k][p])
        BY <2>7, <2>0 DEF CloseFormat, Scanning, Current
      <4> QED
        BY <4>1, CountedEnd
    <3>2. IsDepth(table, depths, k)
      BY <2>7, <3>1 DEF CloseFormat, Progress, IsDepth
    <3>3. /\ table' = table /\ depths' = depths /\ verdict' = verdict /\ pc = "scan"
          /\ pc' = "format" /\ k' = k + 1
          /\ deepest' = IF depths[k] > deepest THEN depths[k] ELSE deepest
      BY <2>7 DEF CloseFormat
    <3>4. \A j \in 0..(k+1)-1 : j < table.nfmts => IsDepth(table, depths, j)
      <4>1. \A j \in 0..(k+1)-1 : j = k \/ j \in 0..k-1
        OBVIOUS
      <4> QED
        BY <3>2, <4>1 DEF Progress
    <3>5. \A j \in DOMAIN table.fmts : j < k + 1 => depths[j] <= deepest'
      <4>1. depths[k] \in Nat /\ \A j \in DOMAIN table.fmts : depths[j] \in Nat
        BY <2>0, <3>1
      <4>2. \A j \in DOMAIN table.fmts : j < k + 1 => j = k \/ j < k
        BY <2>0
      <4>3. deepest <= deepest' /\ depths[k] <= deepest' /\ deepest' \in Nat
        BY <3>3, <4>1
      <4>4. \A j \in DOMAIN table.fmts : j < k => depths[j] <= deepest
        BY DEF Progress
      <4> QED
        BY <4>1, <4>2, <4>3, <4>4
    <3>6. verdict = "none" /\ table.nfmts \in 1..MAX_FORMATS
      BY <3>3 DEF Progress
    <3> QED
      BY <3>3, <3>4, <3>5, <3>6 DEF Progress
  <2>8. CASE LeaveTableDepth
    BY <2>8, CallDepthAssumption DEF LeaveTableDepth, Return, Progress
  <2>9. CASE UNCHANGED vars
    BY <2>9 DEF vars, Progress
  <2> QED
    BY <2>1, <2>2, <2>3, <2>4, <2>5, <2>6, <2>7, <2>8, <2>9 DEF Next, Returned
<1> QED
  BY <1>1, <1>2, TypeCorrect, PTL DEF Spec

\* A table that wi_set_formats() accepts has the depths of the recurrence in the
\* comment above table_depth(), each with a frame of the call stack to spare.
THEOREM Exact == Spec => []AcceptanceIsExact
<1>1. TypeOK /\ Progress => AcceptanceIsExact
  <2> SUFFICES ASSUME TypeOK, Progress, verdict = "accepted", table.nfmts > 0
               PROVE  Accepts(table, depths, CALL_DEPTH, MAX_FORMATS)
    BY DEF AcceptanceIsExact
  <2>1. /\ table.nfmts \in Int /\ k = table.nfmts /\ table.nfmts <= MAX_FORMATS
        /\ deepest + 1 <= CALL_DEPTH
        /\ DOMAIN table.fmts \subseteq 0..table.nfmts-1
    BY DEF TypeOK, IsTable, Progress
  <2>2. \A j \in DOMAIN table.fmts : depths[j] <= deepest /\ depths[j] \in Nat
    BY <2>1 DEF Progress, TypeOK
  <2>3. IsDepths(table, depths)
    BY <2>1 DEF Progress, IsDepths
  <2> QED
    BY <2>1, <2>2, <2>3, CallDepthAssumption, MaxFormatsAssumption DEF Accepts, TypeOK
<1> QED
  BY <1>1, TypeCorrect, LoopInvariant, PTL

-----------------------------------------------------------------------------
(* wi_set_formats() answers as the oracle does: the loops of table_depth() *)
(* implement the one step of TableOracle, which knows nothing of depths    *)
(* and looks at the chains of calls of the table.  The invariant Chains    *)
(* says what a finished depth means: the format can head a chain of that   *)
(* many calls, and none that is longer.                                    *)

\* A chain of calls that starts at format j.
ChainFrom(t, j, C) ==
  /\ C \in SUBSET DOMAIN t.fmts /\ Oracle!IsChain(t, C)
  /\ j \in C /\ \A i \in C : i <= j

LongestChain(t, j, n) ==
  /\ \A C : ChainFrom(t, j, C) => Cardinality(C) <= n
  /\ \E C : ChainFrom(t, j, C) /\ Cardinality(C) = n

\* deepest is the depth of some finished format, or still zero.
Chains ==
  /\ \A j \in DOMAIN table.fmts : j < k => LongestChain(table, j, depths[j])
  /\ deepest = 0 \/ \E j \in DOMAIN table.fmts : j < k /\ deepest = depths[j]

-----------------------------------------------------------------------------
(* Chains                                                                    *)

\* A nonempty set of naturals that has a bound has a largest member.
LEMMA Largest ==
  ASSUME NEW S \in SUBSET Nat, S # {}, NEW b \in Nat, \A s \in S : s <= b
  PROVE  \E s \in S : \A r \in S : r <= s
<1> DEFINE Bounds == {n \in Nat : \A s \in S : s <= n}
<1>1. PICK n \in Bounds : \A m \in Bounds : ~(<<m, n>> \in OpToRel(<, Nat))
  BY NatLessThanWellFounded, WFMin
<1>2. \A m \in Bounds : ~(m < n)
  BY <1>1 DEF OpToRel
<1>3. CASE n \in S
  BY <1>3
<1>4. CASE n \notin S
  <2>1. \A s \in S : s \in Nat /\ s <= n /\ s # n
    BY <1>4
  <2>2. PICK s \in S : s <= n /\ s # n
    BY <2>1
  <2>3. n - 1 \in Nat /\ n - 1 < n
    BY <2>2
  <2>4. \A r \in S : r <= n - 1
    BY <2>1
  <2>5. n - 1 \in Bounds
    BY <2>3, <2>4
  <2> HIDE DEF Bounds
  <2> QED BY <1>2, <2>3, <2>5
<1> QED BY <1>3, <1>4

\* A chain, with the calls spelled out as Formats counts them.
LEMMA ChainMeans ==
  ASSUME NEW t, NEW C
  PROVE  Oracle!IsChain(t, C) <=>
           \A i, j \in C : i > j /\ (\A h \in C : ~(j < h /\ h < i)) => j \in Counted(t, i)
BY DEF Oracle!IsChain, Oracle!Counted, Oracle!CountedBefore, Oracle!CountedOps,
       Oracle!EndsScan, Oracle!NoDigits, Counted, CountedBefore, CountedOps, EndsScan, NoDigits

\* The oracle counts as this module does.
LEMMA SameCardinality ==
  ASSUME NEW C
  PROVE  Oracle!Cardinality(C) = Cardinality(C)
BY DEF Oracle!Cardinality, Cardinality, Oracle!IsFiniteSet, IsFiniteSet

\* A chain has finitely many calls.
LEMMA ChainsFinite ==
  ASSUME NEW t, IsTable(t), NEW C \in SUBSET DOMAIN t.fmts
  PROVE  IsFiniteSet(C) /\ Cardinality(C) \in Nat /\ C \subseteq Nat
<1>1. C \in SUBSET (0..t.nfmts-1) /\ t.nfmts \in Int
  BY DEF IsTable
<1>2. IsFiniteSet(0..t.nfmts-1)
  BY <1>1, FS_Interval
<1>3. IsFiniteSet(C)
  BY <1>1, <1>2, FS_Subset
<1> QED
  BY <1>1, <1>3, FS_CardinalityType

\* A call put on top of a chain makes a chain of one call more.
LEMMA ChainGrows ==
  ASSUME NEW t, IsTable(t), NEW i \in DOMAIN t.fmts, NEW j \in Counted(t, i),
         NEW C, ChainFrom(t, j, C)
  PROVE  ChainFrom(t, i, C \cup {i}) /\ Cardinality(C \cup {i}) = Cardinality(C) + 1
<1>1. j < i /\ j \in Int /\ i \in Int /\ C \subseteq Int
  BY ChainsFinite DEF Counted, CountedBefore, IsTable, ChainFrom
<1>2. \A h \in C : h <= j /\ h # i
  BY <1>1 DEF ChainFrom
<1>3. Cardinality(C \cup {i}) = Cardinality(C) + 1
  BY <1>2, ChainsFinite, FS_AddElement DEF ChainFrom
<1>4. Oracle!IsChain(t, C \cup {i})
  <2> SUFFICES ASSUME NEW a \in C \cup {i}, NEW b \in C \cup {i}, a > b,
                      \A h \in C \cup {i} : ~(b < h /\ h < a)
               PROVE  b \in Counted(t, a)
    BY ChainMeans
  <2>1. CASE a = i
    <3>1. b \in C /\ b = j
      BY <1>1, <1>2, <2>1 DEF ChainFrom
    <3> QED
      BY <2>1, <3>1
  <2>2. CASE a # i
    <3>1. a \in C /\ b \in C
      BY <1>1, <1>2, <2>2
    <3> QED
      BY <3>1, ChainMeans DEF ChainFrom
  <2> QED
    BY <2>1, <2>2
<1> QED
  BY <1>1, <1>2, <1>3, <1>4 DEF ChainFrom

\* What is left of a chain without its first call is a chain that the first one
\* calls into.
LEMMA ChainShrinks ==
  ASSUME NEW t, IsTable(t), NEW i \in DOMAIN t.fmts, NEW C, ChainFrom(t, i, C), C # {i}
  PROVE  /\ \E j \in Counted(t, i) : ChainFrom(t, j, C \ {i})
         /\ Cardinality(C) = Cardinality(C \ {i}) + 1
<1> DEFINE D == C \ {i}
<1>1. C \in SUBSET DOMAIN t.fmts /\ i \in C /\ (\A h \in C : h <= i) /\ Oracle!IsChain(t, C)
  BY DEF ChainFrom
<1>2. D \in SUBSET Nat /\ D # {} /\ i \in Nat /\ C \subseteq Nat
  BY <1>1, ChainsFinite
<1>3. \A h \in D : h <= i /\ h # i
  BY <1>1
<1>4. PICK j \in D : \A h \in D : h <= j
  <2> HIDE DEF D
  <2> QED
    BY <1>2, <1>3, Largest
<1>5. j \in Counted(t, i)
  <2>1. i > j /\ \A h \in C : ~(j < h /\ h < i)
    BY <1>2, <1>3, <1>4
  <2> QED
    BY <1>1, <1>4, <2>1, ChainMeans
<1>6. Oracle!IsChain(t, D)
  <2> SUFFICES ASSUME NEW a \in D, NEW b \in D, a > b, \A h \in D : ~(b < h /\ h < a)
               PROVE  b \in Counted(t, a)
    BY ChainMeans
  <2>1. \A h \in C : ~(b < h /\ h < a)
    BY <1>2, <1>3
  <2> QED
    BY <1>1, <2>1, ChainMeans
<1>7. Cardinality(C) = Cardinality(D) + 1
  <2>1. IsFiniteSet(C) /\ Cardinality(C) \in Nat
    BY <1>1, ChainsFinite
  <2>2. Cardinality(D) = Cardinality(C) - 1
    BY <1>1, <2>1, FS_RemoveElement
  <2> QED
    BY <2>1, <2>2
<1> QED
  BY <1>1, <1>4, <1>5, <1>6, <1>7 DEF ChainFrom

\* The recurrence in table_depth's comment computes the length of the longest
\* chain, if it did for every callee.
LEMMA DepthIsLongest ==
  ASSUME NEW t, IsTable(t), NEW d, NEW i \in DOMAIN t.fmts, IsDepth(t, d, i),
         \A j \in Counted(t, i) : d[j] \in Nat /\ LongestChain(t, j, d[j])
  PROVE  LongestChain(t, i, d[i])
<1>1. /\ d[i] \in Nat \ {0}
      /\ \A j \in Counted(t, i) : d[j] < d[i]
      /\ d[i] = 1 \/ \E j \in Counted(t, i) : d[i] = d[j] + 1
  BY DEF IsDepth
<1>2. ChainFrom(t, i, {i}) /\ Cardinality({i}) = 1
  <2>1. i \in Int
    BY DEF IsTable
  <2>2. Oracle!IsChain(t, {i})
    BY <2>1, ChainMeans
  <2> QED
    BY <2>1, <2>2, FS_Singleton, SMTT(30) DEF ChainFrom
<1>3. ASSUME NEW C, ChainFrom(t, i, C)
      PROVE  Cardinality(C) <= d[i]
  <2>1. CASE C = {i}
    BY <1>1, <1>2, <2>1
  <2>2. CASE C # {i}
    <3>1. PICK j \in Counted(t, i) : ChainFrom(t, j, C \ {i})
      BY <1>3, <2>2, ChainShrinks
    <3>2. Cardinality(C) = Cardinality(C \ {i}) + 1
      BY <1>3, <2>2, ChainShrinks
    <3>3. Cardinality(C \ {i}) <= d[j] /\ Cardinality(C \ {i}) \in Nat
      BY <3>1, ChainsFinite DEF LongestChain, ChainFrom
    <3> QED
      BY <1>1, <3>1, <3>2, <3>3
  <2> QED
    BY <2>1, <2>2
<1>4. \E C : ChainFrom(t, i, C) /\ Cardinality(C) = d[i]
  <2>1. CASE d[i] = 1
    BY <1>2, <2>1
  <2>2. CASE \E j \in Counted(t, i) : d[i] = d[j] + 1
    <3>1. PICK j \in Counted(t, i) : d[i] = d[j] + 1
      BY <2>2
    <3>2. PICK C : ChainFrom(t, j, C) /\ Cardinality(C) = d[j]
      BY <3>1 DEF LongestChain
    <3>3. ChainFrom(t, i, C \cup {i}) /\ Cardinality(C \cup {i}) = d[i]
      BY <3>1, <3>2, ChainGrows
    <3> QED
      BY <3>3
  <2> QED
    BY <1>1, <2>1, <2>2
<1> QED
  BY <1>3, <1>4 DEF LongestChain

-----------------------------------------------------------------------------
(* The loops                                                                 *)

\* What table_depth() leaves in its scratch array: the length of the longest chain
\* of calls from each format it has finished.
THEOREM DepthsMeasureChains == Spec => []Chains
<1>1. Init => Chains
  BY TablesAssumption DEF Init, Chains, IsTable
<1>2. TypeOK /\ Progress /\ Progress' /\ Chains /\ [Next]_vars => Chains'
  <2> SUFFICES ASSUME TypeOK, Progress, Progress', Chains, [Next]_vars PROVE Chains'
    OBVIOUS
  <2>0. /\ IsTable(table) /\ table.nfmts \in Int /\ DOMAIN table.fmts \subseteq 0..table.nfmts-1
        /\ k \in Nat /\ depths \in [0..table.nfmts-1 -> Nat] /\ deepest \in Nat
    BY DEF TypeOK, IsTable
  <2>1. CASE UNCHANGED <<table, k, depths, deepest>>
    BY <2>1 DEF Chains
  <2>2. CASE OpenFormat
    <3>1. table' = table /\ deepest' = deepest
      BY <2>2 DEF OpenFormat
    <3>2. \A j \in DOMAIN table.fmts : j < k => depths'[j] = depths[j]
      BY <2>0, <2>2 DEF OpenFormat
    <3>3. \A j \in DOMAIN table.fmts : j < k' <=> j < k
      BY <2>0, <2>2 DEF OpenFormat
    <3> QED
      BY <3>1, <3>2, <3>3 DEF Chains
  <2>3. CASE CountCall
    <3>1. table' = table /\ deepest' = deepest /\ k' = k
      BY <2>3 DEF CountCall
    <3>2. \A j \in DOMAIN table.fmts : j < k => depths'[j] = depths[j]
      BY <2>0, <2>3 DEF CountCall
    <3> QED
      BY <3>1, <3>2 DEF Chains
  <2>4. CASE CloseFormat
    <3>1. /\ table' = table /\ depths' = depths /\ k' = k + 1 /\ k \in DOMAIN table.fmts
          /\ deepest' = IF depths[k] > deepest THEN depths[k] ELSE deepest
      BY <2>4 DEF CloseFormat, TypeOK
    <3>2. IsDepth(table, depths, k)
      BY <2>0, <3>1 DEF Progress
    <3>3. \A j \in Counted(table, k) : j \in DOMAIN table.fmts /\ j < k /\ depths[j] \in Nat
      BY <2>0 DEF Counted, CountedBefore
    <3>4. \A j \in Counted(table, k) : LongestChain(table, j, depths[j])
      BY <3>3 DEF Chains
    <3>5. LongestChain(table, k, depths[k])
      BY <2>0, <3>1, <3>2, <3>3, <3>4, DepthIsLongest
    <3>6. \A j \in DOMAIN table.fmts : j < k + 1 <=> j < k \/ j = k
      BY <2>0
    <3>7. \A j \in DOMAIN table.fmts : j < k + 1 => LongestChain(table, j, depths[j])
      BY <3>5, <3>6 DEF Chains
    <3>8. deepest' = 0 \/ \E j \in DOMAIN table.fmts : j < k + 1 /\ deepest' = depths[j]
      BY <3>1, <3>6 DEF Chains
    <3> QED
      BY <3>1, <3>7, <3>8 DEF Chains
  <2> QED
    BY <2>1, <2>2, <2>3, <2>4
    DEF Next, vars, Returned, RefuseCount, AcceptEmpty, EnterTableDepth, PassToken, LeaveTableDepth
<1> QED
  BY <1>1, <1>2, TypeCorrect, LoopInvariant, PTL DEF Spec

\* Where the loop ends, the deepest format heads the longest chain of the table.
LEMMA DeepestIsLongest ==
  ASSUME TypeOK, Progress, Chains, pc = "format", k = table.nfmts
  PROVE  deepest + 1 <= CALL_DEPTH <=> Oracle!Safe(table)
<1>1. /\ IsTable(table) /\ table.nfmts \in Int /\ DOMAIN table.fmts \subseteq 0..table.nfmts-1
      /\ depths \in [0..table.nfmts-1 -> Nat] /\ deepest \in Nat
      /\ table.nfmts \in 1..MAX_FORMATS
  BY DEF TypeOK, IsTable, Progress
<1>2. \A j \in DOMAIN table.fmts :
        j < k /\ depths[j] \in Nat /\ depths[j] <= deepest /\ LongestChain(table, j, depths[j])
  BY <1>1 DEF Progress, Chains
<1>3. ASSUME NEW C \in SUBSET DOMAIN table.fmts, Oracle!IsChain(table, C)
      PROVE  Cardinality(C) <= deepest
  <2>1. CASE C = {}
    BY <1>1, <2>1, FS_EmptySet
  <2>2. CASE C # {}
    <3>1. C \in SUBSET Nat /\ Cardinality(C) \in Nat /\ \A j \in C : j <= table.nfmts /\ table.nfmts \in Nat
      BY <1>1, ChainsFinite
    <3>2. PICK j \in C : \A i \in C : i <= j
      BY <2>2, <3>1, <1>1, Largest
    <3>3. ChainFrom(table, j, C)
      BY <1>3, <3>2 DEF ChainFrom
    <3> QED
      BY <1>1, <1>2, <3>1, <3>2, <3>3 DEF LongestChain
  <2> QED
    BY <2>1, <2>2
<1>4. \E C \in SUBSET DOMAIN table.fmts : Oracle!IsChain(table, C) /\ Cardinality(C) = deepest
  <2>1. CASE deepest = 0
    <3>1. Oracle!IsChain(table, {}) /\ Cardinality({}) = 0
      BY ChainMeans, FS_EmptySet
    <3> QED
      BY <2>1, <3>1
  <2>2. CASE deepest # 0
    <3>1. PICK j \in DOMAIN table.fmts : deepest = depths[j]
      BY <2>2 DEF Chains
    <3> QED
      BY <1>2, <3>1 DEF LongestChain, ChainFrom
  <2> QED
    BY <2>1, <2>2
<1>5. \A C \in SUBSET DOMAIN table.fmts : Cardinality(C) \in Nat
  BY <1>1, ChainsFinite
<1>6. Oracle!Safe(table) <=>
        \A C \in SUBSET DOMAIN table.fmts : Oracle!IsChain(table, C) => Cardinality(C) < CALL_DEPTH
  BY <1>1, SameCardinality DEF Oracle!Safe
<1> QED
  BY <1>1, <1>3, <1>4, <1>5, <1>6, CallDepthAssumption

\* wi_set_formats() implements the oracle, step by step: it starts with no answer,
\* its loops are invisible, and the answer it returns is the one decided by the
\* chains of calls: it accepts a table exactly if none of them overruns the call
\* stack.  (That it does answer is left to the runs.)
THEOREM ImplementsTheOracle ==
  Spec => Oracle!Init /\ [][Oracle!Answer]_<<table, verdict>>
<1>1. Init => Oracle!Init
  BY TablesAssumption DEF Init, Oracle!Init, Oracle!IsTable, IsTable, Oracle!Token, Token
<1>2. TypeOK /\ Progress /\ Chains /\ [Next]_vars => [Oracle!Answer]_<<table, verdict>>
  <2> SUFFICES ASSUME TypeOK, Progress, Chains, [Next]_vars
               PROVE  Oracle!Answer \/ UNCHANGED <<table, verdict>>
    OBVIOUS
  <2>1. CASE RefuseCount
    <3>1. ~Oracle!Safe(table)
      BY <2>1 DEF RefuseCount, Oracle!Safe
    <3> QED
      BY <2>1, <3>1 DEF RefuseCount, Return, Oracle!Answer, Progress
  <2>2. CASE AcceptEmpty
    <3>1. DOMAIN table.fmts = {} /\ table.nfmts \in 0..MAX_FORMATS
      BY <2>2, MaxFormatsAssumption DEF AcceptEmpty, TypeOK, IsTable
    <3>2. \A C \in SUBSET DOMAIN table.fmts : Cardinality(C) < CALL_DEPTH
      BY <3>1, FS_EmptySet, CallDepthAssumption
    <3>3. Oracle!Safe(table)
      BY <3>1, <3>2, SameCardinality DEF Oracle!Safe
    <3> QED
      BY <2>2, <3>3 DEF AcceptEmpty, Return, Oracle!Answer, Progress
  <2>3. CASE LeaveTableDepth
    <3>1. deepest + 1 > CALL_DEPTH <=> ~Oracle!Safe(table)
      BY <2>3, DeepestIsLongest, CallDepthAssumption DEF LeaveTableDepth, TypeOK
    <3> QED
      BY <2>3, <3>1 DEF LeaveTableDepth, Return, Oracle!Answer, Progress
  <2> QED
    BY <2>1, <2>2, <2>3
    DEF Next, vars, Returned, EnterTableDepth, OpenFormat, PassToken, CountCall, CloseFormat
<1> QED
  BY <1>1, <1>2, TypeCorrect, LoopInvariant, DepthsMeasureChains, PTL DEF Spec
=============================================================================
