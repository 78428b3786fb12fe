------------------------- MODULE RecordImageProofs -------------------------
(***************************************************************************)
(* The image that wfc writes for a version 4 schema opens, and its catalog *)
(* describes the schema.                                                   *)
(***************************************************************************)
EXTENDS RecordExchange, WordsProofs, SequenceTheorems, FiniteSetTheorems

-----------------------------------------------------------------------------
(* Sequences                                                                 *)

Entries(p) == {p[i] : i \in 1 .. Len(p)}

LEMMA ArrayIsSeq ==
  ASSUME NEW p, IsArray(p), NEW S, Entries(p) \subseteq S
  PROVE  p \in Seq(S) /\ DOMAIN p = 1 .. Len(p)
<1> DEFINE n == Len(p)
<1>1. n \in Nat /\ p = [i \in 1 .. n |-> p[i]]
  BY DEF IsArray
<1>2. \A i \in 1 .. n : p[i] \in S
  BY DEF Entries
<1> HIDE DEF n
<1>3. p \in [1 .. n -> S]
  BY <1>1, <1>2
<1> QED BY <1>1, <1>3 DEF n

LEMMA SeqIsArray ==
  ASSUME NEW S, NEW p \in Seq(S)
  PROVE  IsArray(p)
BY DEF IsArray

LEMMA FunctionIsArray ==
  ASSUME NEW n \in Nat, NEW p, p = [i \in 1 .. n |-> p[i]]
  PROVE  IsArray(p) /\ Len(p) = n /\ DOMAIN p = 1 .. n
<1> DEFINE S == {p[i] : i \in 1 .. n}
<1>1. p \in [1 .. n -> S]
  OBVIOUS
<1> HIDE DEF S
<1>2. p \in Seq(S) /\ Len(p) = n
  BY <1>1
<1> QED BY <1>1, <1>2, SeqIsArray

LEMMA ConcatArrays ==
  ASSUME NEW p, NEW q, IsArray(p), IsArray(q)
  PROVE  /\ IsArray(p \o q) /\ Len(p \o q) = Len(p) + Len(q)
         /\ \A i \in 1 .. Len(p) : (p \o q)[i] = p[i]
         /\ \A i \in 1 .. Len(q) : (p \o q)[Len(p) + i] = q[i]
<1> DEFINE S == Entries(p) \cup Entries(q)
<1>1. p \in Seq(S) /\ q \in Seq(S)
  BY ArrayIsSeq
<1> HIDE DEF S
<1>2. p \o q \in Seq(S)
  BY <1>1
<1>3. IsArray(p \o q)
  BY <1>2, SeqIsArray
<1> QED BY <1>1, <1>3, ConcatProperties

\* The sequences that FlattenSeq() has joined after each part.
Joins(f, s, n) ==
  /\ f = [i \in 0 .. n |-> f[i]] /\ f[0] = <<>>
  /\ \A i \in 0 .. n : IsArray(f[i])
  /\ \A i \in 1 .. n : f[i] = f[i - 1] \o s[i]

LEMMA FlattenJoins ==
  ASSUME NEW n \in Nat, NEW s, s = [i \in 1 .. n |-> s[i]], \A i \in 1 .. n : IsArray(s[i])
  PROVE  \E f : /\ Joins(f, s, n) /\ FlattenSeq(s) = f[n]
                /\ f[n] \in Seq(UNION {Entries(s[i]) : i \in 1 .. n})
<1> DEFINE T == UNION {Entries(s[i]) : i \in 1 .. n}
<1>1. ASSUME NEW i \in 1 .. n PROVE s[i] \in Seq(T)
  <2>1. Entries(s[i]) \subseteq T
    OBVIOUS
  <2> HIDE DEF T
  <2> QED BY <2>1, ArrayIsSeq
<1> HIDE DEF T
<1> DEFINE step == [i \in 1 .. n |-> [x \in Seq(T) |-> x \o s[i]]]
<1>2. IsStep(step, n, Seq(T))
  <2>1. \A i \in 1 .. n : \A x \in Seq(T) : x \o s[i] \in Seq(T)
    BY <1>1
  <2> QED BY <2>1 DEF IsStep
<1>3. \A i \in 1 .. n : \A x \in Seq(T) : step[i][x] = x \o s[i]
  OBVIOUS
<1> HIDE DEF step
<1>4. PICK f : Recursive(f, n, Seq(T), <<>>, step)
  <2>1. <<>> \in Seq(T)
    OBVIOUS
  <2> QED BY <1>2, <2>1, Recursion
<1>5. f \in [0 .. n -> Seq(T)] /\ f[0] = <<>> /\ \A i \in 1 .. n : f[i] = step[i][f[i - 1]]
  BY <1>4 DEF Recursive
<1>6. ASSUME NEW i \in 1 .. n PROVE f[i - 1] \in Seq(T) /\ f[i] = f[i - 1] \o s[i]
  <2>1. i - 1 \in 0 .. n
    OBVIOUS
  <2>2. f[i - 1] \in Seq(T)
    BY <1>5, <2>1
  <2> QED BY <1>3, <1>5, <2>2
<1>7. \A i \in 0 .. n : IsArray(f[i])
  BY <1>5, SeqIsArray
<1>8. Joins(f, s, n)
  BY <1>5, <1>6, <1>7 DEF Joins
<1>9. s \in Seq(Seq(T)) /\ Len(s) = n
  <2>1. s \in [1 .. n -> Seq(T)]
    BY <1>1
  <2> QED BY <2>1
<1>10. CASE n = 0
  <2>1. s = <<>>
    BY <1>9, <1>10
  <2> QED BY <1>5, <1>8, <1>9, <1>10, <2>1 DEF FlattenSeq, T
<1>11. CASE n # 0
  <2> DEFINE Flattens(h) == h = [i \in 1 .. n |-> IF i = 1 THEN s[i] ELSE h[i - 1] \o s[i]]
  <2>1. Flattens([i \in 1 .. n |-> f[i]])
    <3> DEFINE h == [i \in 1 .. n |-> f[i]]
    <3>1. ASSUME NEW i \in 1 .. n PROVE f[i] = IF i = 1 THEN s[i] ELSE h[i - 1] \o s[i]
      <4>1. CASE i = 1
        <5>1. f[i] = f[i - 1] \o s[i] /\ f[i - 1] \in Seq(T)
          BY <1>6
        <5>2. i - 1 = 0 /\ f[i - 1] = <<>>
          BY <1>5, <4>1
        <5>3. <<>> \o s[i] = s[i]
          BY <1>1, ConcatEmptySeq
        <5> QED BY <4>1, <5>1, <5>2, <5>3
      <4>2. CASE i # 1
        <5>1. i - 1 \in 1 .. n
          BY <4>2
        <5>2. h[i - 1] = f[i - 1]
          BY <5>1
        <5> QED BY <1>6, <4>2, <5>2
      <4> QED BY <4>1, <4>2
    <3> QED BY <3>1
  <2>2. PICK h : h = CHOOSE g : Flattens(g)
    OBVIOUS
  <2>3. Flattens(h)
    BY <2>1, <2>2
  <2>4. FlattenSeq(s) = h[n]
    BY <1>9, <1>11, <2>2 DEF FlattenSeq
  <2>5. h[1] = s[1] /\ \A i \in 2 .. n : h[i] = h[i - 1] \o s[i]
    <3>1. \A i \in 1 .. n : h[i] = IF i = 1 THEN s[i] ELSE h[i - 1] \o s[i]
      BY <2>3
    <3>2. 1 \in 1 .. n
      BY <1>11
    <3>3. h[1] = s[1]
      BY <3>1, <3>2
    <3>4. ASSUME NEW i \in 2 .. n PROVE h[i] = h[i - 1] \o s[i]
      <4>1. i \in 1 .. n /\ i # 1
        OBVIOUS
      <4> QED BY <3>1, <4>1
    <3> QED BY <3>3, <3>4
  <2> HIDE DEF Flattens
  <2> DEFINE I == {i \in Nat : i + 1 <= n => h[i + 1] = f[i + 1]}
  <2>6. 0 \in I
    <3>1. 1 \in 1 .. n /\ 1 - 1 = 0
      BY <1>11
    <3>2. f[1] = f[1 - 1] \o s[1] /\ s[1] \in Seq(T)
      BY <1>1, <1>6, <3>1
    <3>3. <<>> \o s[1] = s[1]
      BY <3>2, ConcatEmptySeq
    <3>4. f[1] = h[1]
      BY <1>5, <2>5, <3>1, <3>2, <3>3
    <3> QED BY <3>4
  <2>7. ASSUME NEW i \in I PROVE i + 1 \in I
    <3> SUFFICES ASSUME i + 2 <= n PROVE h[i + 2] = f[i + 2]
      OBVIOUS
    <3>1. h[i + 1] = f[i + 1] /\ i + 2 \in 2 .. n /\ i + 2 \in 1 .. n /\ (i + 2) - 1 = i + 1
      OBVIOUS
    <3>2. h[i + 2] = h[i + 1] \o s[i + 2]
      BY <2>5, <3>1
    <3>3. f[i + 2] = f[i + 1] \o s[i + 2]
      BY <1>6, <3>1
    <3> QED BY <3>1, <3>2, <3>3
  <2> HIDE DEF I
  <2>8. I = Nat
    <3>1. I \in SUBSET Nat
      BY DEF I
    <3> QED BY <2>6, <2>7, <3>1, SetInduction
  <2>9. n - 1 \in I
    BY <1>11, <2>8
  <2>10. h[n] = f[n]
    BY <2>9 DEF I
  <2>11. f[n] \in Seq(T)
    BY <1>5
  <2> QED BY <1>8, <2>4, <2>10, <2>11 DEF T
<1> QED BY <1>10, <1>11

\* The places where the parts of s end.
Ends(off, s, n) ==
  /\ off \in [0 .. n -> Nat] /\ off[0] = 0
  /\ \A i \in 1 .. n : off[i] = off[i - 1] + Len(s[i])

\* p holds the first i parts, each where the one before it ends.
Holds(p, off, s, i) ==
  /\ Len(p) = off[i]
  /\ \A k \in 1 .. i : \A j \in 1 .. Len(s[k]) :
        off[k - 1] + j \in 1 .. off[i] /\ p[off[k - 1] + j] = s[k][j]

\* One more part.
LEMMA HoldsNext ==
  ASSUME NEW n \in Nat, NEW s, NEW off, Ends(off, s, n), NEW i \in 0 .. n - 1,
         NEW p, IsArray(p), NEW q, q = s[i + 1], IsArray(q), Holds(p, off, s, i)
  PROVE  Holds(p \o q, off, s, i + 1)
<1>1. i + 1 \in 1 .. n /\ (i + 1) - 1 = i /\ i \in 0 .. n /\ i + 1 \in 0 .. n
  OBVIOUS
<1>2. off[i + 1] = off[i] + Len(q) /\ off[i] \in Nat /\ Len(q) \in Nat
  BY <1>1 DEF Ends, IsArray
<1>3. /\ Len(p) = off[i]
      /\ \A k \in 1 .. i : \A j \in 1 .. Len(s[k]) :
           off[k - 1] + j \in 1 .. off[i] /\ p[off[k - 1] + j] = s[k][j]
  BY DEF Holds
<1>4. PICK r : r = p \o q
  OBVIOUS
<1>a. /\ Len(r) = Len(p) + Len(q)
      /\ \A j \in 1 .. Len(p) : r[j] = p[j]
      /\ \A j \in 1 .. Len(q) : r[Len(p) + j] = q[j]
  BY <1>4, ConcatArrays
<1>5. /\ Len(r) = off[i] + Len(q)
      /\ \A j \in 1 .. off[i] : r[j] = p[j]
      /\ \A j \in 1 .. Len(q) : r[off[i] + j] = q[j]
  BY <1>3, <1>a
<1>6. ASSUME NEW k \in 1 .. i + 1, NEW j \in 1 .. Len(s[k])
      PROVE  off[k - 1] + j \in 1 .. off[i + 1] /\ r[off[k - 1] + j] = s[k][j]
  <2>1. CASE k = i + 1
    <3>1. j \in 1 .. Len(q) /\ off[k - 1] = off[i] /\ s[k] = q
      BY <1>1, <2>1
    <3>2. off[i] + j \in 1 .. off[i + 1]
      BY <1>2, <3>1
    <3>3. r[off[i] + j] = q[j]
      BY <1>5, <3>1
    <3> QED BY <3>1, <3>2, <3>3
  <2>2. CASE k # i + 1
    <3>1. k \in 1 .. i
      BY <1>1, <2>2
    <3>2. off[k - 1] + j \in 1 .. off[i] /\ p[off[k - 1] + j] = s[k][j]
      BY <1>3, <3>1
    <3> QED BY <1>2, <1>5, <3>2
  <2> QED BY <2>1, <2>2
<1> QED BY <1>2, <1>4, <1>5, <1>6 DEF Holds

\* Each part stands where the one before it ends.
LEMMA FlattenAt ==
  ASSUME NEW n \in Nat, NEW s, s = [i \in 1 .. n |-> s[i]], \A i \in 1 .. n : IsArray(s[i]),
         NEW off, Ends(off, s, n)
  PROVE  IsArray(FlattenSeq(s)) /\ Holds(FlattenSeq(s), off, s, n)
<1>1. PICK f : Joins(f, s, n) /\ FlattenSeq(s) = f[n]
  BY FlattenJoins
<1>2. /\ \A i \in 0 .. n : IsArray(f[i])
      /\ \A i \in 1 .. n : f[i] = f[i - 1] \o s[i]
      /\ f[0] = <<>>
  BY <1>1 DEF Joins
<1> DEFINE I == {i \in Nat : i <= n => Holds(f[i], off, s, i)}
<1>3. 0 \in I
  BY <1>2 DEF Holds, Ends
<1>4. ASSUME NEW i \in I PROVE i + 1 \in I
  <2>1. CASE i + 1 <= n
    <3>1. i \in 0 .. n - 1 /\ i \in 0 .. n /\ i + 1 \in 1 .. n /\ (i + 1) - 1 = i
      BY <2>1
    <3>2. Holds(f[i], off, s, i)
      BY <3>1
    <3>3. IsArray(f[i]) /\ IsArray(s[i + 1]) /\ f[i + 1] = f[i] \o s[i + 1]
      BY <1>2, <3>1
    <3>4. Holds(f[i + 1], off, s, i + 1)
      BY <3>1, <3>2, <3>3, HoldsNext
    <3> QED BY <3>4
  <2>2. CASE ~ (i + 1 <= n)
    BY <2>2
  <2> QED BY <2>1, <2>2
<1>5. n \in I
  <2>1. I \in SUBSET Nat
    OBVIOUS
  <2> HIDE DEF I
  <2> QED BY <1>3, <1>4, <2>1, SetInduction
<1>6. n \in 0 .. n /\ Holds(f[n], off, s, n)
  BY <1>5
<1> QED BY <1>1, <1>2, <1>6

\* Each of its entries is an entry of a part.
LEMMA FlattenEntries ==
  ASSUME NEW n \in Nat, NEW s, s = [i \in 1 .. n |-> s[i]], \A i \in 1 .. n : IsArray(s[i])
  PROVE  /\ IsArray(FlattenSeq(s))
         /\ \A j \in 1 .. Len(FlattenSeq(s)) :
              \E i \in 1 .. n : FlattenSeq(s)[j] \in Entries(s[i])
<1>1. FlattenSeq(s) \in Seq(UNION {Entries(s[i]) : i \in 1 .. n})
  BY FlattenJoins
<1> DEFINE T == UNION {Entries(s[i]) : i \in 1 .. n}
           p == FlattenSeq(s)
<1>2. \A x \in T : \E i \in 1 .. n : x \in Entries(s[i])
  OBVIOUS
<1>3. p \in Seq(T)
  BY <1>1
<1> HIDE DEF T, p
<1>4. IsArray(p) /\ \A j \in 1 .. Len(p) : p[j] \in T
  BY <1>3, SeqIsArray
<1> QED BY <1>2, <1>4 DEF p

-----------------------------------------------------------------------------
(* The three tables of the image                                             *)

LEMMA MessageCount ==
  ASSUME NEW source, NEW n \in Nat, DOMAIN source = 0 .. n - 1
  PROVE  Cardinality(Messages(source)) = n
BY FS_Interval DEF Messages

\* The fields of the messages before each message.
LEMMA FieldsBeforeSums ==
  ASSUME NEW source, NEW n \in Nat, DOMAIN source = 0 .. n - 1, IsSource(source)
  PROVE  /\ FieldsBefore(source, 0) = 0
         /\ \A m \in 0 .. n : FieldsBefore(source, m) \in Nat
         /\ \A m \in 1 .. n :
              FieldsBefore(source, m) = FieldsBefore(source, m - 1) + Len(source[m - 1].fields)
<1> DEFINE c == [i \in 1 .. n |-> Len(source[i - 1].fields)]
           Sums(h, m) == h = [k \in 0 .. m |-> IF k = 0 THEN 0
                                               ELSE h[k - 1] + Len(source[k - 1].fields)]
<1>1. ASSUME NEW i \in 1 .. n PROVE c[i] \in Nat /\ c[i] = Len(source[i - 1].fields)
  <2>1. i - 1 \in DOMAIN source
    OBVIOUS
  <2> QED BY <2>1 DEF IsSource, IsArray
<1>2. c \in [1 .. n -> Nat]
  BY <1>1
<1> HIDE DEF c
<1>3. PICK v \in [0 .. n -> Nat] : Accumulates(v, c, 1, n)
  BY <1>2, AccumulatorExists
<1>4. v[0] = 0 /\ \A k \in 1 .. n : v[k] = v[k - 1] + c[k]
  <2>1. ASSUME NEW k \in 1 .. n PROVE v[k - 1] * 1 = v[k - 1]
    <3>1. k - 1 \in 0 .. n
      OBVIOUS
    <3>2. v[k - 1] \in Nat
      BY <3>1
    <3> QED BY <3>2
  <2> QED BY <1>3, <2>1 DEF Accumulates
<1>5. ASSUME NEW m \in 0 .. n PROVE FieldsBefore(source, m) = v[m]
  <2>1. Sums([k \in 0 .. m |-> v[k]], m)
    <3> DEFINE h == [k \in 0 .. m |-> v[k]]
    <3>1. ASSUME NEW k \in 0 .. m
          PROVE  v[k] = IF k = 0 THEN 0 ELSE h[k - 1] + Len(source[k - 1].fields)
      <4>1. CASE k = 0
        BY <1>4, <4>1
      <4>2. CASE k # 0
        <5>1. k \in 1 .. n /\ k - 1 \in 0 .. m
          BY <4>2
        <5>2. h[k - 1] = v[k - 1]
          BY <5>1
        <5> QED BY <1>1, <1>4, <4>2, <5>1, <5>2
      <4> QED BY <4>1, <4>2
    <3> QED BY <3>1
  <2>2. PICK h : h = CHOOSE g : Sums(g, m)
    OBVIOUS
  <2>3. Sums(h, m)
    BY <2>1, <2>2
  <2>4. FieldsBefore(source, m) = h[m]
    BY <2>2 DEF FieldsBefore
  <2>5. \A k \in 0 .. m : h[k] = IF k = 0 THEN 0 ELSE h[k - 1] + Len(source[k - 1].fields)
    BY <2>3
  <2> HIDE DEF Sums
  <2> DEFINE I == {k \in Nat : k <= m => h[k] = v[k]}
  <2>6. 0 \in I
    BY <1>4, <2>5
  <2>7. ASSUME NEW k \in I PROVE k + 1 \in I
    <3> SUFFICES ASSUME k + 1 <= m PROVE h[k + 1] = v[k + 1]
      OBVIOUS
    <3>1. h[k] = v[k] /\ k + 1 \in 0 .. m /\ k + 1 \in 1 .. n /\ (k + 1) - 1 = k /\ k + 1 # 0
      OBVIOUS
    <3>2. h[k + 1] = h[k] + Len(source[k].fields)
      BY <2>5, <3>1
    <3>3. v[k + 1] = v[k] + Len(source[k].fields)
      BY <1>1, <1>4, <3>1
    <3> QED BY <3>1, <3>2, <3>3
  <2>8. m \in I
    <3>1. I \in SUBSET Nat
      OBVIOUS
    <3>2. m \in Nat
      OBVIOUS
    <3> HIDE DEF I
    <3> QED BY <2>6, <2>7, <3>1, <3>2, SetInduction
  <2> QED BY <2>4, <2>8
<1>6. ASSUME NEW m \in 1 .. n
      PROVE  FieldsBefore(source, m) = FieldsBefore(source, m - 1) + Len(source[m - 1].fields)
  <2>1. m \in 0 .. n /\ m - 1 \in 0 .. n
    OBVIOUS
  <2> QED BY <1>1, <1>4, <1>5, <2>1
<1>7. 0 \in 0 .. n
  OBVIOUS
<1> QED BY <1>4, <1>5, <1>6, <1>7

\* What each message adds to a table: extra entries, and one for each field.
Parts(s, extra, source, n) ==
  /\ s = [k \in 1 .. n |-> s[k]]
  /\ \A k \in 1 .. n : IsArray(s[k]) /\ Len(s[k]) = extra + Len(source[k - 1].fields)

\* Where message m's entries begin in a table with a head.
At(head, extra, source, n) ==
  [m \in 0 .. n |-> head + (extra * m + FieldsBefore(source, m))]

\* p holds what each message adds, message m's entries behind the place at[m].
TableOf(p, at, s, n) ==
  /\ IsArray(p) /\ Len(p) = at[n]
  /\ \A m \in 0 .. n - 1 : \A j \in 1 .. Len(s[m + 1]) :
       at[m] + j \in 1 .. Len(p) /\ p[at[m] + j] = s[m + 1][j]

LEMMA TableAt ==
  ASSUME NEW source, NEW n \in Nat, DOMAIN source = 0 .. n - 1, IsSource(source),
         NEW extra \in Nat, NEW s, Parts(s, extra, source, n),
         NEW off, off = At(0, extra, source, n)
  PROVE  off \in [0 .. n -> Nat] /\ TableOf(FlattenSeq(s), off, s, n)
<1>1. ASSUME NEW m \in 0 .. n
      PROVE  extra * m \in Nat /\ FieldsBefore(source, m) \in Nat
             /\ off[m] = extra * m + FieldsBefore(source, m)
  <2>1. extra * m \in Nat /\ FieldsBefore(source, m) \in Nat
    BY FieldsBeforeSums
  <2>2. off[m] = 0 + (extra * m + FieldsBefore(source, m))
    BY DEF At
  <2> QED BY <2>1, <2>2
<1>2. off \in [0 .. n -> Nat]
  <2>1. off = [m \in 0 .. n |-> off[m]]
    BY DEF At
  <2>2. ASSUME NEW m \in 0 .. n PROVE off[m] \in Nat
    <3>1. PICK a \in Nat, b \in Nat : a = extra * m /\ b = FieldsBefore(source, m)
      BY <1>1
    <3>2. off[m] = a + b
      BY <1>1, <3>1
    <3> QED BY <3>2
  <2> QED BY <2>1, <2>2
<1>3. Ends(off, s, n)
  <2>1. off[0] = 0
    <3>1. 0 \in 0 .. n
      OBVIOUS
    <3>2. extra * 0 = 0
      OBVIOUS
    <3>3. off[0] = extra * 0 + FieldsBefore(source, 0)
      BY <1>1, <3>1
    <3> QED BY <3>2, <3>3, FieldsBeforeSums
  <2>2. ASSUME NEW i \in 1 .. n PROVE off[i] = off[i - 1] + Len(s[i])
    <3>1. i - 1 \in 0 .. n /\ i \in 0 .. n /\ i - 1 \in Nat
      OBVIOUS
    <3>2. off[i] = extra * i + FieldsBefore(source, i)
          /\ off[i - 1] = extra * (i - 1) + FieldsBefore(source, i - 1)
      BY <1>1, <3>1
    <3>3. FieldsBefore(source, i) = FieldsBefore(source, i - 1) + Len(source[i - 1].fields)
          /\ FieldsBefore(source, i - 1) \in Nat
      BY <3>1, FieldsBeforeSums
    <3>4. Len(source[i - 1].fields) \in Nat
      <4>1. i - 1 \in DOMAIN source
        OBVIOUS
      <4> QED BY <4>1 DEF IsSource, IsArray
    <3>5. PICK a \in Nat : a = extra * (i - 1)
      BY <3>1
    <3>6. extra * i = a + extra
      BY <3>1, <3>5
    <3>7. Len(s[i]) = extra + Len(source[i - 1].fields)
      BY DEF Parts
    <3> QED BY <3>2, <3>3, <3>4, <3>5, <3>6, <3>7
  <2> QED BY <1>2, <2>1, <2>2 DEF Ends
<1>4. IsArray(FlattenSeq(s)) /\ Holds(FlattenSeq(s), off, s, n)
  <2>1. s = [k \in 1 .. n |-> s[k]] /\ \A k \in 1 .. n : IsArray(s[k])
    BY DEF Parts
  <2> QED BY <1>3, <2>1, FlattenAt
<1>5. PICK p : p = FlattenSeq(s)
  OBVIOUS
<1>6. ASSUME NEW m \in 0 .. n - 1, NEW j \in 1 .. Len(s[m + 1])
      PROVE  off[m] + j \in 1 .. Len(p) /\ p[off[m] + j] = s[m + 1][j]
  <2>1. m + 1 \in 1 .. n /\ (m + 1) - 1 = m
    OBVIOUS
  <2> QED BY <1>4, <1>5, <2>1 DEF Holds
<1>7. Len(p) = off[n]
  BY <1>4, <1>5 DEF Holds
<1> QED BY <1>2, <1>4, <1>5, <1>6, <1>7 DEF TableOf

\* The same behind a head.
Headed(p, h, s, extra, source, n) ==
  Parts(s, extra, source, n) /\ IsArray(h) /\ p = h \o FlattenSeq(s)

LEMMA HeadedTable ==
  ASSUME NEW source, NEW n \in Nat, DOMAIN source = 0 .. n - 1, IsSource(source),
         NEW extra \in Nat, NEW s, NEW h, NEW p, Headed(p, h, s, extra, source, n)
  PROVE  /\ TableOf(p, At(Len(h), extra, source, n), s, n)
         /\ \A i \in 1 .. Len(h) : p[i] = h[i]
<1>b. Parts(s, extra, source, n) /\ IsArray(h) /\ p = h \o FlattenSeq(s)
  BY DEF Headed
<1>1. PICK q : q = FlattenSeq(s)
  OBVIOUS
<1>2. PICK off : off = At(0, extra, source, n)
  OBVIOUS
<1>3. off \in [0 .. n -> Nat] /\ TableOf(q, off, s, n)
  BY <1>1, <1>2, <1>b, TableAt
<1>4. /\ IsArray(q) /\ Len(q) = off[n]
      /\ \A m \in 0 .. n - 1 : \A j \in 1 .. Len(s[m + 1]) :
           off[m] + j \in 1 .. Len(q) /\ q[off[m] + j] = s[m + 1][j]
  BY <1>3 DEF TableOf
<1>a. IsArray(q)
  BY <1>4
<1>5. /\ IsArray(p) /\ Len(p) = Len(h) + Len(q)
      /\ \A i \in 1 .. Len(h) : p[i] = h[i]
      /\ \A i \in 1 .. Len(q) : p[Len(h) + i] = q[i]
  BY <1>1, <1>a, <1>b, ConcatArrays
<1>6. PICK b \in Nat : b = Len(h)
  BY <1>b DEF IsArray
<1>7. PICK at : at = At(b, extra, source, n)
  OBVIOUS
<1>8. ASSUME NEW m \in 0 .. n PROVE at[m] = b + off[m] /\ off[m] \in Nat
  <2>1. PICK x \in Nat : x = extra * m + FieldsBefore(source, m)
    <3>1. extra * m \in Nat /\ FieldsBefore(source, m) \in Nat
      BY FieldsBeforeSums
    <3>2. PICK a \in Nat, c \in Nat : a = extra * m /\ c = FieldsBefore(source, m)
      BY <3>1
    <3>3. PICK x \in Nat : x = a + c
      OBVIOUS
    <3> QED BY <3>2, <3>3
  <2>2. at[m] = b + x /\ off[m] = 0 + x
    BY <1>2, <1>7, <2>1 DEF At
  <2> QED BY <2>1, <2>2
<1>9. ASSUME NEW m \in 0 .. n - 1, NEW j \in 1 .. Len(s[m + 1])
      PROVE  at[m] + j \in 1 .. Len(p) /\ p[at[m] + j] = s[m + 1][j]
  <2>1. m \in 0 .. n
    OBVIOUS
  <2>2. PICK x \in Nat : x = off[m] /\ at[m] = b + x
    BY <1>8, <2>1
  <2>3. x + j \in 1 .. Len(q) /\ q[x + j] = s[m + 1][j]
    BY <1>4, <2>2
  <2>4. p[b + (x + j)] = s[m + 1][j]
    BY <1>5, <1>6, <2>3
  <2>5. j \in Int /\ Len(q) \in Nat
    BY <1>a DEF IsArray
  <2>6. b + (x + j) = (b + x) + j /\ (b + x) + j \in 1 .. b + Len(q)
    BY <2>3, <2>5
  <2> QED BY <1>5, <1>6, <2>2, <2>4, <2>6
<1>10. Len(p) = at[n]
  <2>1. n \in 0 .. n
    OBVIOUS
  <2> QED BY <1>4, <1>5, <1>6, <1>8, <2>1
<1>11. TableOf(p, at, s, n)
  BY <1>5, <1>9, <1>10 DEF TableOf
<1> QED BY <1>5, <1>6, <1>7, <1>11

LEMMA NamesAreArray ==
  ASSUME NEW fields, IsArray(fields), NEW q, q = [i \in DOMAIN fields |-> Name(fields[i].name)]
  PROVE  /\ IsArray(q) /\ Len(q) = Len(fields)
         /\ \A i \in 1 .. Len(fields) : q[i] = Name(fields[i].name)
<1>1. DOMAIN fields = 1 .. Len(fields) /\ Len(fields) \in Nat
  BY DEF IsArray
<1>2. q = [i \in 1 .. Len(fields) |-> q[i]]
  BY <1>1
<1> QED BY <1>1, <1>2, FunctionIsArray

StringsAre(p, source, m) ==
  /\ IsArray(p) /\ Len(p) = 3 + Len(source[m].fields)
  /\ p[1] = Name(source[m].name)
  /\ p[2] = Text(Program(source, m, FALSE)) /\ p[3] = Text(Program(source, m, TRUE))
  /\ \A j \in 4 .. 3 + Len(source[m].fields) : p[j] = Name(source[m].fields[j - 3].name)

LEMMA StringsOf ==
  ASSUME NEW source, NEW m, IsArray(source[m].fields)
  PROVE  StringsAre(Strings(source, m), source, m)
<1>1. PICK a, b, c : /\ a = Name(source[m].name)
                     /\ b = Text(Program(source, m, FALSE)) /\ c = Text(Program(source, m, TRUE))
  OBVIOUS
<1>2. PICK q : q = [i \in DOMAIN source[m].fields |-> Name(source[m].fields[i].name)]
  OBVIOUS
<1>3. PICK h : h = <<a, b, c>>
  OBVIOUS
<1>4. IsArray(h) /\ Len(h) = 3 /\ h[1] = a /\ h[2] = b /\ h[3] = c
  BY <1>3 DEF IsArray
<1>5. /\ IsArray(q) /\ Len(q) = Len(source[m].fields)
      /\ \A i \in 1 .. Len(source[m].fields) : q[i] = Name(source[m].fields[i].name)
  BY <1>2, NamesAreArray
<1>6. PICK p : p = h \o q
  OBVIOUS
<1>7. Strings(source, m) = p
  BY <1>1, <1>2, <1>3, <1>6 DEF Strings
<1>8. /\ IsArray(p) /\ Len(p) = Len(h) + Len(q)
      /\ \A i \in 1 .. Len(h) : p[i] = h[i]
      /\ \A i \in 1 .. Len(q) : p[Len(h) + i] = q[i]
  <2>1. IsArray(h) /\ IsArray(q)
    BY <1>4, <1>5
  <2> QED BY <1>6, <2>1, ConcatArrays
<1>9. p[1] = a /\ p[2] = b /\ p[3] = c
  BY <1>4, <1>8
<1>10. ASSUME NEW j \in 4 .. 3 + Len(source[m].fields)
       PROVE  p[j] = Name(source[m].fields[j - 3].name)
  <2>1. Len(source[m].fields) \in Nat
    BY DEF IsArray
  <2>2. j - 3 \in 1 .. Len(q) /\ 3 + (j - 3) = j
    BY <1>5, <2>1
  <2>3. p[Len(h) + (j - 3)] = q[j - 3]
    BY <1>8, <2>2
  <2> QED BY <1>4, <1>5, <2>2, <2>3
<1> QED BY <1>1, <1>4, <1>5, <1>7, <1>8, <1>9, <1>10 DEF StringsAre

LEMMA StringParts ==
  ASSUME NEW source, NEW n \in Nat, DOMAIN source = 0 .. n - 1, IsSource(source)
  PROVE  Parts([k \in 1 .. n |-> Strings(source, k - 1)], 3, source, n)
<1> DEFINE s == [k \in 1 .. n |-> Strings(source, k - 1)]
<1>1. ASSUME NEW k \in 1 .. n
      PROVE  IsArray(s[k]) /\ Len(s[k]) = 3 + Len(source[k - 1].fields)
  <2>1. IsArray(source[k - 1].fields)
    <3>1. k - 1 \in DOMAIN source
      OBVIOUS
    <3> QED BY <3>1 DEF IsSource
  <2> QED BY <2>1, StringsOf DEF StringsAre
<1>2. s = [k \in 1 .. n |-> s[k]]
  OBVIOUS
<1> HIDE DEF s
<1>3. Parts(s, 3, source, n)
  BY <1>1, <1>2 DEF Parts
<1> QED BY <1>3 DEF s

LEMMA OffsetsOf ==
  ASSUME NEW source, NEW m, IsArray(source[m].fields)
  PROVE  LET p == Offsets(source, m)
             first == 1 + 3 * m + FieldsBefore(source, m)
         IN /\ IsArray(p) /\ Len(p) = 4 + Len(source[m].fields)
            /\ p[1] = first /\ p[2] = NONE
            /\ \A j \in 3 .. 4 + Len(source[m].fields) : p[j] = first + j - 2
<1>1. PICK first : first = 1 + 3 * m + FieldsBefore(source, m)
  OBVIOUS
<1>2. PICK l \in Nat : l = 4 + Len(source[m].fields)
  BY DEF IsArray
<1>3. PICK p : p = Offsets(source, m)
  OBVIOUS
<1>4. p = [i \in 1 .. l |-> IF i = 1 THEN first ELSE IF i = 2 THEN NONE ELSE first + i - 2]
  BY <1>1, <1>2, <1>3 DEF Offsets
<1>5. p = [i \in 1 .. l |-> p[i]]
  BY <1>4
<1>6. IsArray(p) /\ Len(p) = l
  BY <1>5, FunctionIsArray
<1>7. 1 \in 1 .. l /\ 2 \in 1 .. l
  BY <1>2 DEF IsArray
<1>8. p[1] = first /\ p[2] = NONE
  BY <1>4, <1>7
<1>9. ASSUME NEW j \in 3 .. l PROVE p[j] = first + j - 2
  BY <1>4
<1> QED BY <1>1, <1>2, <1>3, <1>6, <1>8, <1>9

LEMMA OffsetParts ==
  ASSUME NEW source, NEW n \in Nat, DOMAIN source = 0 .. n - 1, IsSource(source)
  PROVE  Parts([k \in 1 .. n |-> Offsets(source, k - 1)], 4, source, n)
<1> DEFINE s == [k \in 1 .. n |-> Offsets(source, k - 1)]
<1>1. ASSUME NEW k \in 1 .. n
      PROVE  IsArray(s[k]) /\ Len(s[k]) = 4 + Len(source[k - 1].fields)
  <2>1. IsArray(source[k - 1].fields)
    <3>1. k - 1 \in DOMAIN source
      OBVIOUS
    <3> QED BY <3>1 DEF IsSource
  <2> QED BY <2>1, OffsetsOf
<1>2. s = [k \in 1 .. n |-> s[k]]
  OBVIOUS
<1> HIDE DEF s
<1>3. Parts(s, 4, source, n)
  BY <1>1, <1>2 DEF Parts
<1> QED BY <1>3 DEF s

LEMMA MetadataOf ==
  ASSUME NEW source, NEW m, IsArray(source[m].fields)
  PROVE  LET p == Metadata(source, m)
         IN /\ IsArray(p) /\ Len(p) = Len(source[m].fields)
            /\ \A i \in 1 .. Len(source[m].fields) :
                 /\ p[i].type = Kind(source[m].fields[i])
                 /\ p[i].child = IF source[m].fields[i].type = "records"
                                 THEN CHOOSE c \in Identified(source, source[m].fields[i].message) : TRUE
                                 ELSE NONE
<1>1. PICK fields : fields = source[m].fields
  OBVIOUS
<1>2. DOMAIN fields = 1 .. Len(fields) /\ Len(fields) \in Nat
  BY <1>1 DEF IsArray
<1>3. PICK p : p = Metadata(source, m)
  OBVIOUS
<1>4. p = [i \in 1 .. Len(fields) |->
             [type |-> Kind(fields[i]),
              child |-> IF fields[i].type = "records"
                        THEN CHOOSE c \in Identified(source, fields[i].message) : TRUE ELSE NONE]]
  BY <1>1, <1>2, <1>3 DEF Metadata
<1>5. p = [i \in 1 .. Len(fields) |-> p[i]]
  BY <1>4
<1>6. IsArray(p) /\ Len(p) = Len(fields)
  BY <1>2, <1>5, FunctionIsArray
<1>7. ASSUME NEW i \in 1 .. Len(fields)
      PROVE  /\ p[i].type = Kind(fields[i])
             /\ p[i].child = IF fields[i].type = "records"
                             THEN CHOOSE c \in Identified(source, fields[i].message) : TRUE ELSE NONE
  BY <1>4
<1> QED BY <1>1, <1>3, <1>6, <1>7

LEMMA MetadataParts ==
  ASSUME NEW source, NEW n \in Nat, DOMAIN source = 0 .. n - 1, IsSource(source)
  PROVE  Parts([k \in 1 .. n |-> Metadata(source, k - 1)], 0, source, n)
<1> DEFINE s == [k \in 1 .. n |-> Metadata(source, k - 1)]
<1>1. ASSUME NEW k \in 1 .. n
      PROVE  IsArray(s[k]) /\ Len(s[k]) = 0 + Len(source[k - 1].fields)
  <2>1. IsArray(source[k - 1].fields)
    <3>1. k - 1 \in DOMAIN source
      OBVIOUS
    <3> QED BY <3>1 DEF IsSource
  <2>2. Len(source[k - 1].fields) \in Nat
    BY <2>1 DEF IsArray
  <2> QED BY <2>1, <2>2, MetadataOf
<1>2. s = [k \in 1 .. n |-> s[k]]
  OBVIOUS
<1> HIDE DEF s
<1>3. Parts(s, 0, source, n)
  BY <1>1, <1>2 DEF Parts
<1> QED BY <1>3 DEF s

\* The image of a source with n messages.
Tabled(source, n) ==
  /\ TableOf(StringTable(source), At(1, 3, source, n),
             [k \in 1 .. n |-> Strings(source, k - 1)], n)
  /\ TableOf(OffsetTable(source), At(4, 4, source, n),
             [k \in 1 .. n |-> Offsets(source, k - 1)], n)
  /\ TableOf(MetaTable(source), At(0, 0, source, n),
             [k \in 1 .. n |-> Metadata(source, k - 1)], n)

LEMMA ImageTabled ==
  ASSUME NEW source, NEW n \in Nat, DOMAIN source = 0 .. n - 1, IsSource(source)
  PROVE  /\ Tabled(source, n)
         /\ StringTable(source)[1] = Name("protocol")
         /\ OffsetTable(source)[1] = 0 /\ \A i \in 2 .. 4 : OffsetTable(source)[i] = NONE
<1>1. Cardinality(Messages(source)) = n
  BY MessageCount
<1>2. PICK h : h = <<Name("protocol")>>
  OBVIOUS
<1>3. IsArray(h) /\ Len(h) = 1 /\ h[1] = Name("protocol")
  BY <1>2 DEF IsArray
<1>a. IsArray(h)
  BY <1>3
<1>4. PICK s : s = [k \in 1 .. n |-> Strings(source, k - 1)]
  OBVIOUS
<1>5. StringTable(source) = h \o FlattenSeq(s)
  BY <1>1, <1>2, <1>4 DEF StringTable
<1>6. Parts(s, 3, source, n)
  BY <1>4, StringParts
<1>7. /\ TableOf(StringTable(source), At(1, 3, source, n), s, n)
      /\ StringTable(source)[1] = Name("protocol")
  <2>1. PICK p : p = StringTable(source)
    OBVIOUS
  <2>2. /\ TableOf(p, At(Len(h), 3, source, n), s, n)
        /\ \A i \in 1 .. Len(h) : p[i] = h[i]
    <3>1. Headed(p, h, s, 3, source, n) /\ 3 \in Nat
      BY <1>a, <1>5, <1>6, <2>1 DEF Headed
    <3> QED BY <3>1, HeadedTable
  <2> QED BY <1>3, <2>1, <2>2
<1>8. PICK g : g = <<0, NONE, NONE, NONE>>
  OBVIOUS
<1>9. Len(g) = 4 /\ g[1] = 0 /\ g[2] = NONE /\ g[3] = NONE /\ g[4] = NONE
  BY <1>8
<1>b. IsArray(g)
  BY <1>8 DEF IsArray
<1>10. PICK o : o = [k \in 1 .. n |-> Offsets(source, k - 1)]
  OBVIOUS
<1>11. OffsetTable(source) = g \o FlattenSeq(o)
  BY <1>1, <1>8, <1>10 DEF OffsetTable
<1>12. Parts(o, 4, source, n)
  BY <1>10, OffsetParts
<1>13. /\ TableOf(OffsetTable(source), At(4, 4, source, n), o, n)
       /\ OffsetTable(source)[1] = 0 /\ \A i \in 2 .. 4 : OffsetTable(source)[i] = NONE
  <2>1. PICK p : p = OffsetTable(source)
    OBVIOUS
  <2>2. /\ TableOf(p, At(Len(g), 4, source, n), o, n)
        /\ \A i \in 1 .. Len(g) : p[i] = g[i]
    <3>1. Headed(p, g, o, 4, source, n) /\ 4 \in Nat
      BY <1>b, <1>11, <1>12, <2>1 DEF Headed
    <3> QED BY <3>1, HeadedTable
  <2>3. p[1] = 0 /\ p[2] = NONE /\ p[3] = NONE /\ p[4] = NONE
    BY <1>9, <2>2
  <2>4. \A i \in 2 .. 4 : i = 2 \/ i = 3 \/ i = 4
    OBVIOUS
  <2> QED BY <1>9, <2>1, <2>2, <2>3, <2>4
<1>14. PICK t : t = [k \in 1 .. n |-> Metadata(source, k - 1)]
  OBVIOUS
<1>15. MetaTable(source) = FlattenSeq(t)
  BY <1>1, <1>14 DEF MetaTable
<1>16. Parts(t, 0, source, n)
  BY <1>14, MetadataParts
<1>17. TableOf(MetaTable(source), At(0, 0, source, n), t, n)
  BY <1>15, <1>16, TableAt
<1> QED BY <1>4, <1>7, <1>10, <1>13, <1>14, <1>17 DEF Tabled

-----------------------------------------------------------------------------
(* What the accessors find                                                   *)

\* The image, and message m's row.
LaidOut(image, source, n) ==
  /\ image.messages = n /\ image.meta_at = HEADER + ROW * n
  /\ image.meta = MetaTable(source) /\ image.offsets = OffsetTable(source)
  /\ image.strings = StringTable(source)
  /\ image.offs_at = image.meta_at + 8 * Len(image.meta)
  /\ image.strs_at = image.offs_at + 4 * Len(image.offsets)
  /\ \A m \in 0 .. n - 1 :
       /\ image.rows[m].section = image.offs_at + 16 + 4 * (4 * m + FieldsBefore(source, m))
       /\ image.rows[m].slots = Len(source[m].fields) + 4
       /\ image.rows[m].fields = Len(source[m].fields)
       /\ image.rows[m].meta = image.meta_at + 8 * FieldsBefore(source, m)

LEMMA ImageLayout ==
  ASSUME NEW source, NEW n \in Nat, DOMAIN source = 0 .. n - 1
  PROVE  LaidOut(Image(source), source, n)
<1>1. Cardinality(Messages(source)) = n
  BY MessageCount
<1>2. PICK meta, offsets, strings : /\ meta = MetaTable(source) /\ offsets = OffsetTable(source)
                                    /\ strings = StringTable(source)
  OBVIOUS
<1>3. PICK meta_at : meta_at = HEADER + ROW * n
  OBVIOUS
<1>4. PICK offs_at : offs_at = meta_at + 8 * Len(meta)
  OBVIOUS
<1>a. PICK image : image = Image(source)
  OBVIOUS
<1>5. image = [messages |-> n, meta_at |-> meta_at, meta |-> meta,
            offs_at |-> offs_at, offsets |-> offsets,
            strs_at |-> offs_at + 4 * Len(offsets), strings |-> strings,
            rows |-> [m \in Messages(source) |->
              [section |-> offs_at + 16 + 4 * (4 * m + FieldsBefore(source, m)),
               slots   |-> Len(source[m].fields) + 4, fields |-> Len(source[m].fields),
               meta    |-> meta_at + 8 * FieldsBefore(source, m)]]]
  BY <1>1, <1>2, <1>3, <1>4, <1>a DEF Image
<1>6. Messages(source) = 0 .. n - 1
  BY DEF Messages
<1>7. LaidOut(image, source, n)
  BY <1>2, <1>3, <1>4, <1>5, <1>6 DEF LaidOut
<1> QED BY <1>7, <1>a

\* Where the offsets begin is a number.
LEMMA OffsetsAt ==
  ASSUME NEW source, NEW n \in Nat, DOMAIN source = 0 .. n - 1, IsSource(source),
         NEW image, LaidOut(image, source, n)
  PROVE  /\ image.offs_at = 64 + 32 * n + 8 * FieldsBefore(source, n)
         /\ image.meta_at = 64 + 32 * n
         /\ Len(image.meta) = FieldsBefore(source, n)
         /\ Len(image.offsets) = 4 + (4 * n + FieldsBefore(source, n))
         /\ Len(image.strings) = 1 + (3 * n + FieldsBefore(source, n))
         /\ FieldsBefore(source, n) \in Nat
<1>1. PICK F \in Nat : F = FieldsBefore(source, n)
  <2>1. n \in 0 .. n
    OBVIOUS
  <2> QED BY <2>1, FieldsBeforeSums
<1>2. /\ image.meta_at = 64 + 32 * n /\ image.meta = MetaTable(source)
      /\ image.offsets = OffsetTable(source) /\ image.strings = StringTable(source)
      /\ image.offs_at = image.meta_at + 8 * Len(image.meta)
  BY DEF LaidOut, HEADER, ROW
<1>3. Tabled(source, n)
  BY ImageTabled
<1>4. n \in 0 .. n
  OBVIOUS
<1>5. Len(MetaTable(source)) = F
  <2>1. Len(MetaTable(source)) = At(0, 0, source, n)[n]
    BY <1>3 DEF Tabled, TableOf
  <2>2. At(0, 0, source, n)[n] = 0 + (0 * n + F)
    BY <1>1, <1>4 DEF At
  <2> QED BY <2>1, <2>2
<1>6. Len(OffsetTable(source)) = 4 + (4 * n + F)
  <2>1. Len(OffsetTable(source)) = At(4, 4, source, n)[n]
    BY <1>3 DEF Tabled, TableOf
  <2>2. At(4, 4, source, n)[n] = 4 + (4 * n + F)
    BY <1>1, <1>4 DEF At
  <2> QED BY <2>1, <2>2
<1>7. Len(StringTable(source)) = 1 + (3 * n + F)
  <2>1. Len(StringTable(source)) = At(1, 3, source, n)[n]
    BY <1>3 DEF Tabled, TableOf
  <2>2. At(1, 3, source, n)[n] = 1 + (3 * n + F)
    BY <1>1, <1>4 DEF At
  <2> QED BY <2>1, <2>2
<1> QED BY <1>1, <1>2, <1>5, <1>6, <1>7

\* The number of the string behind each slot that is not the missing description.
LEMMA SlotAt ==
  ASSUME NEW source, NEW n \in Nat, DOMAIN source = 0 .. n - 1, IsSource(source),
         NEW image, LaidOut(image, source, n), NEW m \in 0 .. n - 1,
         NEW index \in 0 .. Len(source[m].fields) + 3, index # 1
  PROVE  Slot(image, m, index) = Strings(source, m)[IF index = 0 THEN 1 ELSE index]
<1>1. PICK l \in Nat : l = Len(source[m].fields)
  <2>1. m \in DOMAIN source
    OBVIOUS
  <2> QED BY <2>1 DEF IsSource, IsArray
<1>a. IsArray(source[m].fields)
  BY DEF IsSource
<1>2. PICK F \in Nat : F = FieldsBefore(source, m)
  <2>1. m \in 0 .. n
    OBVIOUS
  <2> QED BY <2>1, FieldsBeforeSums
<1>3. PICK row, o, t : row = image.rows[m] /\ o = OffsetTable(source) /\ t = StringTable(source)
  OBVIOUS
<1>4. PICK at : at = image.offs_at
  OBVIOUS
<1>5. /\ row.section = at + 16 + 4 * (4 * m + F) /\ row.slots = l + 4
      /\ image.offsets = o /\ image.strings = t
  BY <1>1, <1>2, <1>3, <1>4 DEF LaidOut
<1>6. at \in Int
  <2>1. PICK f \in Nat : f = FieldsBefore(source, n)
    BY OffsetsAt
  <2>2. at = 64 + 32 * n + 8 * f
    BY <1>4, <2>1, OffsetsAt
  <2> QED BY <2>1, <2>2
<1>7. (row.section - at) \div 4 = 4 + (4 * m + F)
  <2>1. row.section - at = 4 * (4 + (4 * m + F)) + 0
    BY <1>5, <1>6
  <2>2. PICK z \in Int : z = 4 + (4 * m + F)
    OBVIOUS
  <2>3. PICK y \in Int : y = row.section - at
    BY <2>1
  <2>4. y = z * 4
    BY <2>1, <2>2, <2>3
  <2>5. y \div 4 = z
    BY <2>4
  <2> QED BY <2>2, <2>3, <2>5
<1>8. (row.section - at) \div 4 + index + 1 = 4 + (4 * m + F) + (index + 1)
  BY <1>7
<1>9. PICK q : q = Offsets(source, m)
  OBVIOUS
<1>10. /\ IsArray(q) /\ Len(q) = 4 + l
       /\ q[1] = 1 + 3 * m + F /\ \A j \in 3 .. 4 + l : q[j] = 1 + 3 * m + F + j - 2
  BY <1>1, <1>2, <1>9, <1>a, OffsetsOf
<1>11. o[4 + (4 * m + F) + (index + 1)] = q[index + 1]
  <2>1. TableOf(o, At(4, 4, source, n), [k \in 1 .. n |-> Offsets(source, k - 1)], n)
    BY <1>3, ImageTabled DEF Tabled
  <2>2. PICK s : s = [k \in 1 .. n |-> Offsets(source, k - 1)]
    OBVIOUS
  <2>3. m + 1 \in 1 .. n /\ (m + 1) - 1 = m /\ m \in 0 .. n
    OBVIOUS
  <2>4. s[m + 1] = q
    BY <1>9, <2>2, <2>3
  <2>5. PICK p : p = At(4, 4, source, n)
    OBVIOUS
  <2>6. p[m] = 4 + (4 * m + F)
    BY <1>2, <2>3, <2>5 DEF At
  <2>7. \A j \in 1 .. Len(s[m + 1]) : o[p[m] + j] = s[m + 1][j]
    BY <2>1, <2>2, <2>5 DEF TableOf
  <2>8. index + 1 \in 1 .. Len(q)
    BY <1>1, <1>10
  <2> QED BY <2>4, <2>6, <2>7, <2>8
<1>12. PICK x : x = IF index = 0 THEN 1 ELSE index
  OBVIOUS
<1>13. x \in 1 .. 3 + l /\ q[index + 1] = 3 * m + F + x
  <2>1. CASE index = 0
    BY <1>10, <1>12, <2>1
  <2>2. CASE index # 0
    <3>1. index \in 2 .. 3 + l /\ index + 1 \in 3 .. 4 + l /\ x = index
      BY <1>1, <1>12, <2>2
    <3>2. q[index + 1] = 1 + 3 * m + F + (index + 1) - 2
      BY <1>10, <3>1
    <3> QED BY <3>1, <3>2
  <2> QED BY <2>1, <2>2
<1>14. t[1 + (3 * m + F) + x] = Strings(source, m)[x]
  <2>1. TableOf(t, At(1, 3, source, n), [k \in 1 .. n |-> Strings(source, k - 1)], n)
    BY <1>3, ImageTabled DEF Tabled
  <2>2. PICK s : s = [k \in 1 .. n |-> Strings(source, k - 1)]
    OBVIOUS
  <2>3. m + 1 \in 1 .. n /\ (m + 1) - 1 = m /\ m \in 0 .. n
    OBVIOUS
  <2>4. PICK r : r = Strings(source, m)
    OBVIOUS
  <2>5. s[m + 1] = r
    BY <2>2, <2>3, <2>4
  <2>6. PICK p : p = At(1, 3, source, n)
    OBVIOUS
  <2>7. p[m] = 1 + (3 * m + F)
    BY <1>2, <2>3, <2>6 DEF At
  <2>8. \A j \in 1 .. Len(s[m + 1]) : t[p[m] + j] = s[m + 1][j]
    BY <2>1, <2>2, <2>6 DEF TableOf
  <2>9. Len(r) = 3 + l
    BY <1>1, <1>a, <2>4, StringsOf DEF StringsAre
  <2> QED BY <1>13, <2>4, <2>5, <2>7, <2>8, <2>9
<1>15. PICK offset : offset = o[(row.section - at) \div 4 + index + 1]
  OBVIOUS
<1>16. offset = 3 * m + F + x /\ offset # NONE /\ offset + 1 = 1 + (3 * m + F) + x
  BY <1>8, <1>11, <1>13, <1>15 DEF NONE
<1>17. ~ (index >= row.slots)
  BY <1>1, <1>5
<1>18. Slot(image, m, index) = t[offset + 1]
  BY <1>3, <1>4, <1>5, <1>15, <1>16, <1>17 DEF Slot
<1> QED BY <1>12, <1>14, <1>16, <1>18

\* Message m under the accessors.
Described(image, source, m) ==
  /\ MessageName(image, m) = source[m].name /\ FieldCount(image, m) = Len(source[m].fields)
  /\ \A decode \in BOOLEAN :
       /\ Format(image, m, decode) = Program(source, m, decode)
       /\ Slot(image, m, IF decode THEN 3 ELSE 2) # Missing
  /\ \A i \in 1 .. Len(source[m].fields) :
       /\ FieldName(image, m, i) = source[m].fields[i].name
       /\ FieldType(image, m, i) = Kind(source[m].fields[i])
       /\ Child(image, m, i) = IF source[m].fields[i].type = "records"
                               THEN CHOOSE c \in Identified(source, source[m].fields[i].message) : TRUE
                               ELSE NONE

LEMMA AccessorsDescribe ==
  ASSUME NEW source, NEW n \in Nat, DOMAIN source = 0 .. n - 1, IsSource(source),
         NEW image, LaidOut(image, source, n), NEW m \in 0 .. n - 1
  PROVE  Described(image, source, m)
<1>1. IsArray(source[m].fields)
  BY DEF IsSource
<1>2. PICK l \in Nat : l = Len(source[m].fields)
  BY <1>1 DEF IsArray
<1>3. PICK p : p = Strings(source, m)
  OBVIOUS
<1>4. /\ p[1] = Name(source[m].name)
      /\ p[2] = Text(Program(source, m, FALSE)) /\ p[3] = Text(Program(source, m, TRUE))
      /\ \A i \in 1 .. l : p[3 + i] = Name(source[m].fields[i].name)
  <2>1. StringsAre(p, source, m)
    BY <1>1, <1>3, StringsOf
  <2>2. ASSUME NEW i \in 1 .. l PROVE p[3 + i] = Name(source[m].fields[i].name)
    <3>1. 3 + i \in 4 .. 3 + l /\ (3 + i) - 3 = i
      OBVIOUS
    <3>2. \A j \in 4 .. 3 + l : p[j] = Name(source[m].fields[j - 3].name)
      BY <1>2, <2>1 DEF StringsAre
    <3> QED BY <3>1, <3>2
  <2> QED BY <2>1, <2>2 DEF StringsAre
<1>5. ASSUME NEW index \in 0 .. l + 3, index # 1
      PROVE  Slot(image, m, index) = p[IF index = 0 THEN 1 ELSE index]
  BY <1>2, <1>3, <1>5, SlotAt
<1>6. Slot(image, m, 0) = p[1]
  <2>1. 0 \in 0 .. l + 3 /\ 0 # 1
    OBVIOUS
  <2> QED BY <1>5, <2>1
<1>7. Slot(image, m, 2) = p[2]
  <2>1. 2 \in 0 .. l + 3 /\ 2 # 1 /\ 2 # 0
    OBVIOUS
  <2> QED BY <1>5, <2>1
<1>8. Slot(image, m, 3) = p[3]
  <2>1. 3 \in 0 .. l + 3 /\ 3 # 1 /\ 3 # 0
    OBVIOUS
  <2> QED BY <1>5, <2>1
<1>9. ASSUME NEW i \in 1 .. l PROVE FieldName(image, m, i) = source[m].fields[i].name
  <2>1. i + 3 \in 0 .. l + 3 /\ i + 3 # 1 /\ i + 3 # 0 /\ i + 3 = 3 + i
    OBVIOUS
  <2>2. Slot(image, m, i + 3) = p[i + 3]
    BY <1>5, <2>1
  <2>3. p[i + 3] = Name(source[m].fields[i].name)
    BY <1>4, <2>1
  <2> QED BY <2>2, <2>3 DEF FieldName, Name
<1>10. MessageName(image, m) = source[m].name
  BY <1>4, <1>6 DEF MessageName, Name
<1>11. ASSUME NEW decode \in BOOLEAN
       PROVE  /\ Format(image, m, decode) = Program(source, m, decode)
              /\ Slot(image, m, IF decode THEN 3 ELSE 2) # Missing
  <2>1. PICK q : q = Program(source, m, decode)
    OBVIOUS
  <2>2. Slot(image, m, IF decode THEN 3 ELSE 2) = Text(q)
    <3>1. CASE decode
      BY <1>4, <1>8, <2>1, <3>1
    <3>2. CASE ~decode
      BY <1>4, <1>7, <2>1, <3>2
    <3> QED BY <3>1, <3>2
  <2>3. Text(q).program = q
    BY DEF Text
  <2>4. Text(q) # Missing
    <3>1. "missing" \in DOMAIN Missing /\ "missing" \notin DOMAIN Text(q)
      BY DEF Missing, Text
    <3> QED BY <3>1
  <2> QED BY <2>1, <2>2, <2>3, <2>4 DEF Format
<1>12. FieldCount(image, m) = l
  BY <1>2 DEF FieldCount, LaidOut
<1>13. ASSUME NEW i \in 1 .. l PROVE Meta(image, m, i) = Metadata(source, m)[i]
  <2>1. PICK F \in Nat : F = FieldsBefore(source, m)
    <3>1. m \in 0 .. n
      OBVIOUS
    <3> QED BY <3>1, FieldsBeforeSums
  <2>2. PICK a \in Nat : a = image.meta_at
    <3>1. 64 + 32 * n \in Nat
      OBVIOUS
    <3>2. image.meta_at = 64 + 32 * n
      BY OffsetsAt
    <3> QED BY <3>1, <3>2
  <2>3. PICK b : b = image.rows[m].meta
    OBVIOUS
  <2>4. b = a + 8 * F
    BY <2>1, <2>2, <2>3 DEF LaidOut
  <2>5. (b - a) \div 8 = F
    <3>1. b - a = F * 8
      BY <2>4
    <3>2. (F * 8) \div 8 = F
      OBVIOUS
    <3> QED BY <3>1, <3>2
  <2>6. PICK t : t = MetaTable(source)
    OBVIOUS
  <2>7. image.meta = t
    BY <2>6 DEF LaidOut
  <2>8. Meta(image, m, i) = t[F + i]
    BY <2>2, <2>3, <2>5, <2>7 DEF Meta
  <2>9. TableOf(t, At(0, 0, source, n), [k \in 1 .. n |-> Metadata(source, k - 1)], n)
    BY <2>6, ImageTabled DEF Tabled
  <2>10. PICK s : s = [k \in 1 .. n |-> Metadata(source, k - 1)]
    OBVIOUS
  <2>11. m + 1 \in 1 .. n /\ (m + 1) - 1 = m /\ m \in 0 .. n
    OBVIOUS
  <2>12. PICK r : r = Metadata(source, m)
    OBVIOUS
  <2>13. s[m + 1] = r
    BY <2>10, <2>11, <2>12
  <2>14. PICK p0 : p0 = At(0, 0, source, n)
    OBVIOUS
  <2>15. p0[m] = 0 + (0 * m + F)
    BY <2>1, <2>11, <2>14 DEF At
  <2>16. p0[m] = F
    BY <2>15
  <2>17. \A j \in 1 .. Len(s[m + 1]) : t[p0[m] + j] = s[m + 1][j]
    BY <2>9, <2>10, <2>14 DEF TableOf
  <2>18. Len(r) = l
    BY <1>1, <1>2, <2>12, MetadataOf
  <2> QED BY <2>8, <2>12, <2>13, <2>16, <2>17, <2>18
<1>14. ASSUME NEW i \in 1 .. l
       PROVE  /\ FieldType(image, m, i) = Kind(source[m].fields[i])
              /\ Child(image, m, i) =
                   IF source[m].fields[i].type = "records"
                   THEN CHOOSE c \in Identified(source, source[m].fields[i].message) : TRUE ELSE NONE
  <2>1. PICK r : r = Metadata(source, m)
    OBVIOUS
  <2>2. /\ r[i].type = Kind(source[m].fields[i])
        /\ r[i].child = IF source[m].fields[i].type = "records"
                        THEN CHOOSE c \in Identified(source, source[m].fields[i].message) : TRUE
                        ELSE NONE
    <3>1. IsArray(source[m].fields) /\ i \in 1 .. Len(source[m].fields)
      BY <1>1, <1>2
    <3> QED BY <2>1, <3>1, MetadataOf, ZenonT(60)
  <2>3. Meta(image, m, i) = r[i]
    BY <1>13, <2>1
  <2>4. FieldType(image, m, i) = r[i].type
    BY <2>3, Zenon DEF FieldType
  <2>5. Child(image, m, i) = r[i].child
    BY <2>3, Zenon DEF Child
  <2> QED BY <2>2, <2>4, <2>5, Zenon
<1> QED BY <1>2, <1>9, <1>10, <1>11, <1>12, <1>14 DEF Described

-----------------------------------------------------------------------------
(* wire_info_open() accepts the image                                        *)

LEMMA FieldsBeforeGrows ==
  ASSUME NEW source, NEW n \in Nat, DOMAIN source = 0 .. n - 1, IsSource(source),
         NEW m \in 0 .. n
  PROVE  FieldsBefore(source, m) <= FieldsBefore(source, n)
<1> DEFINE I == {d \in Nat : d <= n => FieldsBefore(source, n - d) <= FieldsBefore(source, n)}
<1>1. ASSUME NEW k \in 0 .. n PROVE FieldsBefore(source, k) \in Nat
  BY FieldsBeforeSums
<1>2. 0 \in I
  <2>1. n - 0 = n /\ n \in 0 .. n
    OBVIOUS
  <2> QED BY <1>1, <2>1
<1>3. ASSUME NEW d \in I PROVE d + 1 \in I
  <2> SUFFICES ASSUME d + 1 <= n
               PROVE  FieldsBefore(source, n - (d + 1)) <= FieldsBefore(source, n)
    OBVIOUS
  <2>1. PICK k \in 1 .. n : k = n - d
    OBVIOUS
  <2>2. FieldsBefore(source, k) <= FieldsBefore(source, n) /\ n - (d + 1) = k - 1
    BY <2>1
  <2>3. FieldsBefore(source, k) = FieldsBefore(source, k - 1) + Len(source[k - 1].fields)
    BY FieldsBeforeSums
  <2>4. Len(source[k - 1].fields) \in Nat
    <3>1. k - 1 \in DOMAIN source
      OBVIOUS
    <3> QED BY <3>1 DEF IsSource, IsArray
  <2>5. k - 1 \in 0 .. n /\ k \in 0 .. n /\ n \in 0 .. n
    OBVIOUS
  <2>6. FieldsBefore(source, k - 1) \in Nat /\ FieldsBefore(source, n) \in Nat
    BY <1>1, <2>5
  <2> QED BY <2>2, <2>3, <2>4, <2>6
<1>4. I \in SUBSET Nat
  OBVIOUS
<1>5. n - m \in Nat /\ n - m <= n /\ n - (n - m) = m
  OBVIOUS
<1>6. n - m \in I
  <2> HIDE DEF I
  <2> QED BY <1>2, <1>3, <1>4, <1>5, SetInduction
<1> QED BY <1>5, <1>6

\* Where message m's rows in the tables end.
LEMMA RowsEnd ==
  ASSUME NEW source, NEW n \in Nat, DOMAIN source = 0 .. n - 1, IsSource(source),
         NEW m \in 0 .. n - 1
  PROVE  /\ Len(source[m].fields) \in Nat
         /\ FieldsBefore(source, m) \in Nat /\ FieldsBefore(source, m + 1) \in Nat
         /\ FieldsBefore(source, m + 1) = FieldsBefore(source, m) + Len(source[m].fields)
         /\ FieldsBefore(source, m + 1) <= FieldsBefore(source, n)
         /\ m = n - 1 => FieldsBefore(source, m + 1) = FieldsBefore(source, n)
<1>1. m + 1 \in 0 .. n /\ m + 1 \in 1 .. n /\ (m + 1) - 1 = m /\ m \in 0 .. n
  OBVIOUS
<1>2. Len(source[m].fields) \in Nat
  BY DEF IsSource, IsArray
<1>3. FieldsBefore(source, m) \in Nat /\ FieldsBefore(source, m + 1) \in Nat
  BY <1>1, FieldsBeforeSums
<1>4. FieldsBefore(source, m + 1) = FieldsBefore(source, m) + Len(source[m].fields)
  BY <1>1, FieldsBeforeSums
<1>5. FieldsBefore(source, m + 1) <= FieldsBefore(source, n)
  BY <1>1, FieldsBeforeGrows
<1>6. m = n - 1 => m + 1 = n
  OBVIOUS
<1> QED BY <1>2, <1>3, <1>4, <1>5, <1>6

\* Every offset is that of a string.
LEMMA OffsetsInTable ==
  ASSUME NEW source, NEW n \in Nat, DOMAIN source = 0 .. n - 1, IsSource(source),
         NEW image, LaidOut(image, source, n)
  PROVE  /\ DOMAIN image.offsets = 1 .. Len(image.offsets)
         /\ \A i \in DOMAIN image.offsets :
              image.offsets[i] \in {NONE} \cup 0 .. Len(image.strings) - 1
<1>1. PICK last : last = 3 * n + FieldsBefore(source, n)
  OBVIOUS
<1>2. Len(image.strings) - 1 = last /\ last \in Nat
  <2>1. PICK F : F = FieldsBefore(source, n)
    OBVIOUS
  <2>2. PICK l : l = Len(image.strings)
    OBVIOUS
  <2>3. l = 1 + (3 * n + F) /\ F \in Nat
    BY <2>1, <2>2, OffsetsAt
  <2>4. l - 1 = 3 * n + F /\ 3 * n + F \in Nat
    BY <2>3
  <2> QED BY <1>1, <2>1, <2>2, <2>4
<1>3. PICK g : g = <<0, NONE, NONE, NONE>>
  OBVIOUS
<1>4. PICK o : o = [k \in 1 .. n |-> Offsets(source, k - 1)]
  OBVIOUS
<1>5. Parts(o, 4, source, n)
  BY <1>4, OffsetParts
<1>6. o = [k \in 1 .. n |-> o[k]] /\ \A k \in 1 .. n : IsArray(o[k])
  BY <1>5 DEF Parts
<1>7. PICK q : q = FlattenSeq(o)
  OBVIOUS
<1>8. /\ IsArray(q)
      /\ \A j \in 1 .. Len(q) : \E k \in 1 .. n : q[j] \in Entries(o[k])
  BY <1>6, <1>7, FlattenEntries
<1>9. ASSUME NEW k \in 1 .. n, NEW x \in Entries(o[k])
      PROVE  x \in {NONE} \cup 0 .. last
  <2>1. PICK m \in 0 .. n - 1 : m = k - 1
    OBVIOUS
  <2>2. o[k] = Offsets(source, m)
    BY <1>4, <2>1
  <2>3. IsArray(source[m].fields)
    BY DEF IsSource
  <2>4. PICK p : p = Offsets(source, m)
    OBVIOUS
  <2>5. PICK l \in Nat, F \in Nat : l = Len(source[m].fields) /\ F = FieldsBefore(source, m)
    BY RowsEnd
  <2>6. 3 * m + F + 3 + l <= last
    <3>1. F + l <= FieldsBefore(source, n) /\ FieldsBefore(source, n) \in Nat
      <4>1. PICK G : G = FieldsBefore(source, m + 1)
        OBVIOUS
      <4>2. G = F + l /\ G <= FieldsBefore(source, n)
        BY <2>5, <4>1, RowsEnd
      <4>3. FieldsBefore(source, n) \in Nat
        BY OffsetsAt
      <4> QED BY <4>2, <4>3
    <3>2. m + 1 <= n
      OBVIOUS
    <3> QED BY <1>1, <3>1, <3>2
  <2>7. /\ Len(p) = 4 + l /\ p[1] = 1 + 3 * m + F /\ p[2] = NONE
        /\ \A j \in 3 .. 4 + l : p[j] = 1 + 3 * m + F + j - 2
    BY <2>3, <2>4, <2>5, OffsetsOf
  <2>8. PICK j \in 1 .. 4 + l : x = p[j]
    BY <2>2, <2>4, <2>7 DEF Entries
  <2>9. CASE j = 1
    BY <1>2, <2>6, <2>7, <2>8, <2>9
  <2>10. CASE j = 2
    BY <2>7, <2>8, <2>10
  <2>11. CASE j \in 3 .. 4 + l
    <3>1. x = 1 + 3 * m + F + j - 2
      BY <2>7, <2>8, <2>11
    <3> QED BY <1>2, <2>6, <2>11, <3>1
  <2> QED BY <2>9, <2>10, <2>11
<1>10. PICK p : p = g \o q
  OBVIOUS
<1>11. p = image.offsets
  <2>1. image.offsets = OffsetTable(source) /\ Cardinality(Messages(source)) = n
    BY MessageCount DEF LaidOut
  <2> QED BY <1>3, <1>4, <1>7, <1>10, <2>1 DEF OffsetTable
<1>12. /\ IsArray(g) /\ Len(g) = 4
       /\ g[1] = 0 /\ g[2] = NONE /\ g[3] = NONE /\ g[4] = NONE
  BY <1>3 DEF IsArray
<1>13. /\ IsArray(p) /\ Len(p) = 4 + Len(q) /\ Len(q) \in Nat
       /\ \A i \in 1 .. 4 : p[i] = g[i]
       /\ \A i \in 1 .. Len(q) : p[4 + i] = q[i]
  <2>1. IsArray(g) /\ IsArray(q)
    BY <1>8, <1>12
  <2>2. /\ IsArray(p) /\ Len(p) = Len(g) + Len(q)
        /\ \A i \in 1 .. Len(g) : p[i] = g[i]
        /\ \A i \in 1 .. Len(q) : p[Len(g) + i] = q[i]
    BY <1>10, <2>1, ConcatArrays
  <2> QED BY <1>12, <2>1, <2>2 DEF IsArray
<1>14. DOMAIN p = 1 .. Len(p)
  BY <1>13 DEF IsArray
<1>15. ASSUME NEW i \in 1 .. Len(p) PROVE p[i] \in {NONE} \cup 0 .. last
  <2>1. CASE i \in 1 .. 4
    <3>1. i = 1 \/ i = 2 \/ i = 3 \/ i = 4
      BY <2>1
    <3> QED BY <1>2, <1>12, <1>13, <2>1, <3>1
  <2>2. CASE i \notin 1 .. 4
    <3>1. i - 4 \in 1 .. Len(q) /\ 4 + (i - 4) = i
      BY <1>13, <2>2
    <3>2. p[i] = q[i - 4]
      BY <1>13, <3>1
    <3> QED BY <1>8, <1>9, <3>1, <3>2
  <2> QED BY <2>1, <2>2
<1> QED BY <1>2, <1>11, <1>14, <1>15

\* The types of field have their numbers.
LEMMA KindNumbers ==
  ASSUME NEW f, f.type \in ToSet(Kinds)
  PROVE  Kind(f) \in DOMAIN Kinds /\ Kinds[Kind(f)] = f.type /\ (Kind(f) = 4 <=> f.type = "records")
<1>1. \E i \in DOMAIN Kinds : Kinds[i] = f.type
  BY DEF ToSet
<1>2. PICK k \in DOMAIN Kinds : k = Kind(f) /\ Kinds[k] = f.type
  BY <1>1 DEF Kind
<1>3. Kinds[k] = "records" <=> k = 4
  <2>1. DOMAIN Kinds = 1 .. 16
    BY DEF Kinds
  <2>2. k \in 1 .. 16
    BY <2>1
  <2>3. /\ Kinds[1] = "uint" /\ Kinds[2] = "bytes" /\ Kinds[3] = "sdnv" /\ Kinds[4] = "records"
        /\ Kinds[5] = "parameter" /\ Kinds[6] = "computed" /\ Kinds[7] = "assert"
        /\ Kinds[8] = "mark" /\ Kinds[9] = "crc" /\ Kinds[10] = "cbor-uint"
        /\ Kinds[11] = "cbor-bytes" /\ Kinds[12] = "cbor-text" /\ Kinds[13] = "cbor-array"
        /\ Kinds[14] = "decimal" /\ Kinds[15] = "bcd" /\ Kinds[16] = "terminated-uint"
    BY DEF Kinds
  <2> HIDE DEF Kinds
  <2>4. \/ k = 1 \/ k = 2 \/ k = 3 \/ k = 4 \/ k = 5 \/ k = 6 \/ k = 7 \/ k = 8 \/ k = 9
        \/ k = 10 \/ k = 11 \/ k = 12 \/ k = 13 \/ k = 14 \/ k = 15 \/ k = 16
    BY <2>2
  <2> QED BY <2>3, <2>4
<1> QED BY <1>2, <1>3

\* A field that names a message, and messages that come before the one with the field.
NamesMessage(source, n, m, f) ==
  /\ n \in Nat /\ DOMAIN source = 0 .. n - 1 /\ Valid(source)
  /\ m \in 0 .. n - 1 /\ FieldAccepted(source, m, f) /\ f.type = "records"

ComeBefore(source, m, f, ids) ==
  ids # {} /\ \A c \in ids : c \in 0 .. m - 1 /\ source[c].name = f.message

LEMMA IdentifiedBelow ==
  ASSUME NEW source, NEW n, NEW m, NEW f, NamesMessage(source, n, m, f)
  PROVE  ComeBefore(source, m, f, Identified(source, f.message))
<1> USE DEF NamesMessage, ComeBefore
<1>1. PICK c \in Identified(source, f.message) : c < m
  BY DEF FieldAccepted
<1>2. ASSUME NEW child \in Identified(source, f.message)
      PROVE  child \in 0 .. m - 1 /\ source[child].name = f.message
  <2>1. /\ c \in 0 .. n - 1 /\ child \in 0 .. n - 1
        /\ source[c].name = f.message /\ source[child].name = f.message
    BY <1>1, <1>2 DEF Identified, Messages
  <2>2. c = child
    BY <2>1 DEF Valid, Messages
  <2> QED BY <1>1, <2>1, <2>2
<1> QED BY <1>1, <1>2

\* The message of a list comes before the message that has it.
LEMMA ChildBelow ==
  ASSUME NEW source, NEW n \in Nat, DOMAIN source = 0 .. n - 1, Valid(source),
         NEW m \in 0 .. n - 1, NEW f, FieldAccepted(source, m, f), f.type = "records",
         NEW child, child = CHOOSE c \in Identified(source, f.message) : TRUE
  PROVE  child \in 0 .. m - 1 /\ source[child].name = f.message
<1>1. PICK ids : ids = Identified(source, f.message)
  OBVIOUS
<1>2. ids # {} /\ \A c \in ids : c \in 0 .. m - 1 /\ source[c].name = f.message
  <2>1. NamesMessage(source, n, m, f)
    BY DEF NamesMessage
  <2>2. ComeBefore(source, m, f, ids)
    BY <1>1, <2>1, IdentifiedBelow
  <2> QED BY <2>2 DEF ComeBefore
<1>3. child = CHOOSE c \in ids : TRUE
  BY <1>1
<1> QED BY <1>2, <1>3

\* Each program is one that the loader takes.
ProgramsValid(source) ==
  \A m \in Messages(source) : \A decode \in BOOLEAN : ProgramValid(Program(source, m, decode), m)

\* What wire_info_open() asks of message m.
RowOpens(image, m) ==
  LET rows == image.rows
      SectionAfter(k) == rows[k].section + rows[k].slots * 4
      MetaAfter(k)    == rows[k].meta + rows[k].fields * 8
  IN /\ rows[m].fields <= MAX_FIELDS /\ rows[m].slots = rows[m].fields + 4
     /\ rows[m].section = IF m = 0 THEN image.offs_at + 16 ELSE SectionAfter(m - 1)
     /\ rows[m].meta = IF m = 0 THEN image.meta_at ELSE MetaAfter(m - 1)
     /\ SectionAfter(m) <= image.strs_at /\ MetaAfter(m) <= image.offs_at
     /\ MessageName(image, m) # ""
     /\ \A decode \in BOOLEAN :
          Slot(image, m, IF decode THEN 3 ELSE 2) # Missing
          /\ ProgramValid(Format(image, m, decode), m)
     /\ \A i \in 1 .. FieldCount(image, m) :
          /\ FieldName(image, m, i) # ""
          /\ FieldType(image, m, i) \in DOMAIN Kinds
          /\ IF FieldType(image, m, i) = 4 THEN Child(image, m, i) < m
                                           ELSE Child(image, m, i) = NONE
          /\ \A j \in 1 .. i - 1 : FieldName(image, m, i) # FieldName(image, m, j)
     /\ \A k \in 0 .. m - 1 : MessageName(image, k) # MessageName(image, m)

\* Its rows end where the next message's begin, and the last ones where their tables do.
LEMMA SectionArithmetic ==
  ASSUME NEW n \in Nat, NEW m \in Nat, m + 1 <= n, NEW F \in Nat, NEW l \in Nat, NEW G \in Nat,
         NEW N \in Nat, G = F + l, G <= N, m = n - 1 => G = N,
         NEW offs \in Int, NEW strs \in Int, NEW at \in Int,
         at = 64 + 32 * n, offs = at + 8 * N, strs = offs + 4 * (4 + (4 * n + N))
  PROVE  /\ (offs + 16 + 4 * (4 * m + F)) + (l + 4) * 4 = offs + 16 + 4 * (4 * (m + 1) + G)
         /\ (at + 8 * F) + l * 8 = at + 8 * G
         /\ offs + 16 + 4 * (4 * (m + 1) + G) <= strs
         /\ at + 8 * G <= offs
         /\ m = n - 1 => offs + 16 + 4 * (4 * (m + 1) + G) = strs /\ at + 8 * G = offs
OBVIOUS

LEMMA SectionsFit ==
  ASSUME NEW source, NEW n \in Nat, DOMAIN source = 0 .. n - 1, IsSource(source),
         NEW image, LaidOut(image, source, n), NEW m \in 0 .. n - 1
  PROVE  LET section == image.rows[m].section + image.rows[m].slots * 4
             meta    == image.rows[m].meta + image.rows[m].fields * 8
         IN /\ section = image.offs_at + 16 + 4 * (4 * (m + 1) + FieldsBefore(source, m + 1))
            /\ meta = image.meta_at + 8 * FieldsBefore(source, m + 1)
            /\ section <= image.strs_at /\ meta <= image.offs_at
            /\ m = n - 1 => section = image.strs_at /\ meta = image.offs_at
<1>1. /\ Len(source[m].fields) \in Nat /\ FieldsBefore(source, m) \in Nat
      /\ FieldsBefore(source, m + 1) \in Nat
      /\ FieldsBefore(source, m + 1) = FieldsBefore(source, m) + Len(source[m].fields)
      /\ FieldsBefore(source, m + 1) <= FieldsBefore(source, n)
      /\ m = n - 1 => FieldsBefore(source, m + 1) = FieldsBefore(source, n)
  BY RowsEnd
<1>2. PICK F \in Nat : F = FieldsBefore(source, m)
  BY <1>1
<1>3. PICK l \in Nat : l = Len(source[m].fields)
  BY <1>1
<1>4. PICK G \in Nat : G = FieldsBefore(source, m + 1)
  BY <1>1
<1>5. PICK N \in Nat : N = FieldsBefore(source, n)
  BY OffsetsAt
<1>6. G = F + l /\ G <= N /\ (m = n - 1 => G = N)
  BY <1>1, <1>2, <1>3, <1>4, <1>5
<1>7. /\ image.offs_at = 64 + 32 * n + 8 * N /\ image.meta_at = 64 + 32 * n
      /\ Len(image.offsets) = 4 + (4 * n + N)
  BY <1>5, OffsetsAt
<1>8. PICK at \in Int : at = image.meta_at
  BY <1>7
<1>9. PICK offs \in Int : offs = image.offs_at
  BY <1>7
<1>10. image.strs_at = offs + 4 * (4 + (4 * n + N))
  BY <1>7, <1>9 DEF LaidOut
<1>11. PICK strs \in Int : strs = image.strs_at
  BY <1>10
<1>12. at = 64 + 32 * n /\ offs = at + 8 * N /\ strs = offs + 4 * (4 + (4 * n + N))
  BY <1>7, <1>8, <1>9, <1>10, <1>11
<1>13. m \in Nat /\ m + 1 <= n
  OBVIOUS
<1>14. /\ (offs + 16 + 4 * (4 * m + F)) + (l + 4) * 4 = offs + 16 + 4 * (4 * (m + 1) + G)
       /\ (at + 8 * F) + l * 8 = at + 8 * G
       /\ offs + 16 + 4 * (4 * (m + 1) + G) <= strs
       /\ at + 8 * G <= offs
       /\ m = n - 1 => offs + 16 + 4 * (4 * (m + 1) + G) = strs /\ at + 8 * G = offs
  BY <1>6, <1>12, <1>13, SectionArithmetic
<1>15. /\ image.rows[m].section = offs + 16 + 4 * (4 * m + F) /\ image.rows[m].slots = l + 4
       /\ image.rows[m].fields = l /\ image.rows[m].meta = at + 8 * F
  BY <1>2, <1>3, <1>8, <1>9 DEF LaidOut
<1>16. /\ image.rows[m].section + image.rows[m].slots * 4 = offs + 16 + 4 * (4 * (m + 1) + G)
       /\ image.rows[m].meta + image.rows[m].fields * 8 = at + 8 * G
  BY <1>14, <1>15
<1> QED BY <1>4, <1>8, <1>9, <1>11, <1>14, <1>16

LEMMA EachRowOpens ==
  ASSUME NEW source, NEW n \in Nat, DOMAIN source = 0 .. n - 1, IsSource(source),
         Valid(source), ProgramsValid(source),
         NEW image, LaidOut(image, source, n), NEW m \in 0 .. n - 1
  PROVE  RowOpens(image, m)
<1>1. Described(image, source, m)
  BY AccessorsDescribe
<1>2. PICK l \in Nat : l = Len(source[m].fields)
  BY RowsEnd
<1>3. PICK row : row = image.rows[m]
  OBVIOUS
<1>4. /\ row.section = image.offs_at + 16 + 4 * (4 * m + FieldsBefore(source, m))
      /\ row.slots = l + 4 /\ row.fields = l
      /\ row.meta = image.meta_at + 8 * FieldsBefore(source, m)
  BY <1>2, <1>3 DEF LaidOut
<1>5. row.fields <= MAX_FIELDS /\ row.slots = row.fields + 4
  BY <1>2, <1>4 DEF Valid, Messages
<1>6. /\ row.section = IF m = 0 THEN image.offs_at + 16
                       ELSE image.rows[m - 1].section + image.rows[m - 1].slots * 4
      /\ row.meta = IF m = 0 THEN image.meta_at
                    ELSE image.rows[m - 1].meta + image.rows[m - 1].fields * 8
  <2>1. CASE m = 0
    <3>1. FieldsBefore(source, 0) = 0
      BY FieldsBeforeSums
    <3>2. image.offs_at \in Int /\ image.meta_at \in Int
      BY OffsetsAt
    <3> QED BY <1>4, <2>1, <3>1, <3>2
  <2>2. CASE m # 0
    <3>1. PICK k \in 0 .. n - 1 : k = m - 1 /\ k + 1 = m
      BY <2>2
    <3>2. /\ image.rows[k].section + image.rows[k].slots * 4
             = image.offs_at + 16 + 4 * (4 * (k + 1) + FieldsBefore(source, k + 1))
          /\ image.rows[k].meta + image.rows[k].fields * 8
             = image.meta_at + 8 * FieldsBefore(source, k + 1)
      BY SectionsFit
    <3> QED BY <1>4, <2>2, <3>1, <3>2
  <2> QED BY <2>1, <2>2
<1>7. row.section + row.slots * 4 <= image.strs_at /\ row.meta + row.fields * 8 <= image.offs_at
  BY <1>3, SectionsFit
<1>8. MessageName(image, m) # ""
  BY <1>1 DEF Described, Valid, Messages
<1>9. \A decode \in BOOLEAN : /\ Slot(image, m, IF decode THEN 3 ELSE 2) # Missing
                             /\ ProgramValid(Format(image, m, decode), m)
  <2>1. m \in Messages(source)
    BY DEF Messages
  <2> QED BY <1>1, <2>1 DEF Described, ProgramsValid
<1>10. ASSUME NEW i \in 1 .. l
       PROVE  /\ FieldName(image, m, i) # ""
              /\ FieldType(image, m, i) \in DOMAIN Kinds
              /\ IF FieldType(image, m, i) = 4 THEN Child(image, m, i) < m
                                               ELSE Child(image, m, i) = NONE
              /\ \A j \in 1 .. i - 1 : FieldName(image, m, i) # FieldName(image, m, j)
  <2>1. PICK f : f = source[m].fields[i]
    OBVIOUS
  <2>2. DOMAIN source[m].fields = 1 .. l
    BY <1>2 DEF IsSource, IsArray
  <2>3. FieldAccepted(source, m, f)
    BY <2>1, <2>2 DEF Valid, Messages
  <2>4. f.name # "" /\ f.type \in ToSet(Kinds)
    BY <2>3 DEF FieldAccepted
  <2>5. /\ FieldName(image, m, i) = f.name /\ FieldType(image, m, i) = Kind(f)
        /\ Child(image, m, i) = IF f.type = "records"
                                THEN CHOOSE c \in Identified(source, f.message) : TRUE ELSE NONE
    BY <1>1, <1>2, <2>1 DEF Described
  <2>6. Kind(f) \in DOMAIN Kinds /\ (Kind(f) = 4 <=> f.type = "records")
    BY <2>4, KindNumbers
  <2>7. f.type = "records" => Child(image, m, i) < m
    <3>1. SUFFICES ASSUME f.type = "records" PROVE Child(image, m, i) < m
      OBVIOUS
    <3>2. PICK child : child = CHOOSE c \in Identified(source, f.message) : TRUE
      OBVIOUS
    <3>3. child \in 0 .. m - 1
      BY <2>3, <3>1, <3>2, ChildBelow
    <3> QED BY <2>5, <3>1, <3>2, <3>3
  <2>8. ASSUME NEW j \in 1 .. i - 1 PROVE FieldName(image, m, i) # FieldName(image, m, j)
    <3>1. j \in 1 .. l /\ i # j
      OBVIOUS
    <3>2. source[m].fields[i].name # source[m].fields[j].name
      BY <2>2, <3>1 DEF Valid, Messages
    <3> QED BY <1>1, <1>2, <3>1, <3>2 DEF Described
  <2> QED BY <2>4, <2>5, <2>6, <2>7, <2>8
<1>11. ASSUME NEW k \in 0 .. m - 1 PROVE MessageName(image, k) # MessageName(image, m)
  <2>1. k \in 0 .. n - 1 /\ k # m
    OBVIOUS
  <2>2. Described(image, source, k)
    BY <2>1, AccessorsDescribe
  <2>3. source[k].name # source[m].name
    BY <2>1 DEF Valid, Messages
  <2> QED BY <1>1, <2>2, <2>3 DEF Described
<1>12. FieldCount(image, m) = l
  BY <1>1, <1>2 DEF Described
<1> QED BY <1>3, <1>5, <1>6, <1>7, <1>8, <1>9, <1>10, <1>11, <1>12 DEF RowOpens

\* The messages of a schema are numbered from zero.
LEMMA MessagesNumbered ==
  ASSUME NEW source, IsSource(source)
  PROVE  \E n \in Nat : DOMAIN source = 0 .. n - 1
BY FS_CardinalityType DEF IsSource

\* wire_info_open() accepts every image of a source that is valid and whose programs are.
LEMMA ImageOpens ==
  ASSUME NEW source, IsSource(source), Valid(source), ProgramsValid(source)
  PROVE  Opens(Image(source))
<1>1. PICK n \in Nat : DOMAIN source = 0 .. n - 1
  BY MessagesNumbered
<1>2. PICK image : image = Image(source)
  OBVIOUS
<1>3. LaidOut(image, source, n)
  BY <1>1, <1>2, ImageLayout
<1>4. n \in 1 .. MAX_MESSAGES
  BY <1>1, MessageCount DEF Valid
<1>5. PICK last \in 0 .. n - 1 : last = n - 1
  BY <1>4
<1>6. \A m \in 0 .. last : RowOpens(image, m)
  BY <1>1, <1>3, <1>5, EachRowOpens
<1>7. /\ image.messages = n /\ image.meta_at = HEADER + ROW * image.messages
      /\ image.offs_at = image.meta_at + 8 * Len(image.meta)
      /\ image.strs_at = image.offs_at + 4 * Len(image.offsets)
  BY <1>3 DEF LaidOut
<1>8. Len(image.offsets) >= 4
  <2>1. PICK F \in Nat : F = FieldsBefore(source, n)
    BY <1>1, <1>3, OffsetsAt
  <2>2. Len(image.offsets) = 4 + (4 * n + F)
    BY <1>1, <1>3, <2>1, OffsetsAt
  <2> QED BY <2>1, <2>2
<1>9. \A i \in DOMAIN image.offsets :
        image.offsets[i] \in {NONE} \cup 0 .. Len(image.strings) - 1
  BY <1>1, <1>3, OffsetsInTable
<1>10. /\ image.rows[last].section + image.rows[last].slots * 4 = image.strs_at
       /\ image.rows[last].meta + image.rows[last].fields * 8 = image.offs_at
  BY <1>1, <1>3, <1>5, SectionsFit
<1>11. image.messages \in 1 .. MAX_MESSAGES /\ image.messages - 1 = last
  BY <1>4, <1>5, <1>7
<1>12. Opens(image)
  BY <1>6, <1>7, <1>8, <1>9, <1>10, <1>11 DEF Opens, RowOpens
<1> QED BY <1>2, <1>12

\* What CatalogDescribesSource says of one message.
Catalogued(image, source, m) ==
  LET message == source[m]
  IN /\ MessageName(image, m) = message.name /\ FieldCount(image, m) = Len(message.fields)
     /\ \A decode \in BOOLEAN : Format(image, m, decode) = Program(source, m, decode)
     /\ \A i \in DOMAIN message.fields :
           /\ FieldOf(image, m, message.fields[i].name) = i
           /\ Kinds[FieldType(image, m, i)] = message.fields[i].type
           /\ message.fields[i].type = "records" =>
                MessageName(image, Child(image, m, i)) = message.fields[i].message

\* The only field of its name is found under its own number.
LEMMA FieldFound ==
  ASSUME NEW image, NEW m, NEW l \in Nat, FieldCount(image, m) = l, NEW i \in 1 .. l, NEW name,
         \A j \in 1 .. l : FieldName(image, m, j) = name <=> j = i
  PROVE  FieldOf(image, m, name) = i
<1>1. PICK named : named = {j \in 1 .. FieldCount(image, m) : FieldName(image, m, j) = name}
  OBVIOUS
<1>2. named = {i}
  BY <1>1
<1>3. Min(named) = i
  BY <1>2 DEF Min
<1> QED BY <1>1, <1>2, <1>3 DEF FieldOf

LEMMA CatalogOf ==
  ASSUME NEW source, NEW n \in Nat, DOMAIN source = 0 .. n - 1, IsSource(source), Valid(source),
         NEW image, LaidOut(image, source, n), NEW m \in 0 .. n - 1
  PROVE  Catalogued(image, source, m)
<1>1. Described(image, source, m)
  BY AccessorsDescribe
<1>2. PICK l \in Nat : l = Len(source[m].fields)
  BY RowsEnd
<1>3. DOMAIN source[m].fields = 1 .. l
  BY <1>2 DEF IsSource, IsArray
<1>4. ASSUME NEW i \in 1 .. l
      PROVE  /\ FieldOf(image, m, source[m].fields[i].name) = i
             /\ Kinds[FieldType(image, m, i)] = source[m].fields[i].type
             /\ source[m].fields[i].type = "records" =>
                  MessageName(image, Child(image, m, i)) = source[m].fields[i].message
  <2>1. PICK f : f = source[m].fields[i]
    OBVIOUS
  <2>2. FieldAccepted(source, m, f)
    BY <1>3, <2>1 DEF Valid, Messages
  <2>3. f.type \in ToSet(Kinds)
    BY <2>2 DEF FieldAccepted
  <2>4. /\ FieldName(image, m, i) = f.name /\ FieldType(image, m, i) = Kind(f)
        /\ Child(image, m, i) = IF f.type = "records"
                                THEN CHOOSE c \in Identified(source, f.message) : TRUE ELSE NONE
    BY <1>1, <1>2, <2>1 DEF Described
  <2>5. \A j \in 1 .. l : FieldName(image, m, j) = f.name <=> j = i
    <3>1. ASSUME NEW j \in 1 .. l, j # i PROVE FieldName(image, m, j) # f.name
      <4>1. source[m].fields[j].name # source[m].fields[i].name
        BY <1>3, <3>1 DEF Valid, Messages
      <4> QED BY <1>1, <1>2, <2>1, <4>1 DEF Described
    <3> QED BY <2>4, <3>1
  <2>6. FieldCount(image, m) = l
    BY <1>1, <1>2 DEF Described
  <2>7. FieldOf(image, m, f.name) = i
    BY <2>5, <2>6, FieldFound
  <2>8. ASSUME f.type = "records" PROVE MessageName(image, Child(image, m, i)) = f.message
    <3>1. PICK child : child = CHOOSE c \in Identified(source, f.message) : TRUE
      OBVIOUS
    <3>2. child \in 0 .. m - 1 /\ source[child].name = f.message
      <4>1. PICK ids : ids = Identified(source, f.message)
        OBVIOUS
      <4>2. ids # {} /\ \A c \in ids : c \in 0 .. m - 1 /\ source[c].name = f.message
        <5>1. NamesMessage(source, n, m, f)
          BY <2>2, <2>8 DEF NamesMessage
        <5>2. ComeBefore(source, m, f, ids)
          BY <4>1, <5>1, IdentifiedBelow
        <5> QED BY <5>2 DEF ComeBefore
      <4>3. child = CHOOSE c \in ids : TRUE
        BY <3>1, <4>1
      <4> QED BY <4>2, <4>3
    <3>3. child \in 0 .. n - 1
      BY <3>2
    <3>4. MessageName(image, child) = source[child].name
      BY <3>3, AccessorsDescribe DEF Described
    <3> QED BY <2>4, <2>8, <3>1, <3>2, <3>4
  <2> QED BY <2>1, <2>3, <2>4, <2>7, <2>8, KindNumbers
<1> QED BY <1>1, <1>2, <1>3, <1>4 DEF Catalogued, Described

-----------------------------------------------------------------------------
(* The programs of wfc                                                       *)

\* The operands an operation leaves on the stack (module WireRecord).
Puts(op) ==
  IF op \in {"P", "V", "N", "v", "R", "J", "t", "i", "d", "?", "e", ";", "uZ", "uf", "uF", "ua", "uK"}
  THEN 0 ELSE 1

\* What program_valid() asks of one token, and what C's types say of its operands.
GoodToken(token, rank) ==
  /\ token.op \in Named \cup Plain \cup Branch
  /\ token.op \in Named => token.name # "" /\ token.up \in Nat
  /\ token.op = "{" => token.n \in 0 .. MaxWord
  /\ token.op \in {"uI", "uU", "uC"} => token.member # ""
  /\ token.op = "J" => token.n \in Nat /\ token.n < rank

\* The part of a conditional before and behind a token: -1 outside of any, 0 in the
\* condition, 1 in the branch taken, 2 in the other.
Turns(p, op, q) ==
  \/ op \notin Branch /\ q = p
  \/ op = "?" /\ p = -1 /\ q = 0
  \/ op = "t" /\ p = 0 /\ q = 1
  \/ op = "e" /\ p = 1 /\ q = 2
  \/ op = ";" /\ p \in {1, 2} /\ q = -1

Standing(part, height) == [part |-> part, height |-> height]

\* The part and the height of the stack before and behind a token.  A conditional
\* turns where the stack is empty.
Follows(a, token, b, rank) ==
  /\ GoodToken(token, rank)
  /\ a.part \in -1 .. 2 /\ a.height \in Nat /\ Takes(token.op) <= a.height
  /\ b.height = a.height - Takes(token.op) + Puts(token.op)
  /\ Turns(a.part, token.op, b.part)
  /\ token.op \in Branch => b.height = 0

Along(f, p, a, b, rank) ==
  /\ f[0] = a /\ f[Len(p)] = b
  /\ \A i \in 1 .. Len(p) : Follows(f[i - 1], p[i], f[i], rank)

Leads(p, a, b, rank) == IsArray(p) /\ \E f : Along(f, p, a, b, rank)

LEMMA TakesAndPuts ==
  ASSUME NEW op
  PROVE  Takes(op) \in Nat /\ Puts(op) \in Nat
BY DEF Takes, Puts

LEMMA LeadsNothing ==
  ASSUME NEW a, NEW rank
  PROVE  Leads(<<>>, a, a, rank)
<1> DEFINE f == [i \in 0 .. 0 |-> a]
<1>1. Len(<<>>) = 0 /\ IsArray(<<>>)
  BY DEF IsArray
<1>2. Along(f, <<>>, a, a, rank)
  BY <1>1 DEF Along
<1> HIDE DEF f
<1> QED BY <1>1, <1>2 DEF Leads

LEMMA LeadsToken ==
  ASSUME NEW p, NEW token, p = <<token>>, NEW a, NEW b, NEW rank, Follows(a, token, b, rank)
  PROVE  Leads(p, a, b, rank)
<1> DEFINE f == [i \in 0 .. 1 |-> IF i = 0 THEN a ELSE b]
<1>1. IsArray(p) /\ Len(p) = 1 /\ p[1] = token
  BY DEF IsArray
<1>2. f[0] = a /\ f[1] = b
  OBVIOUS
<1> HIDE DEF f
<1>3. ASSUME NEW i \in 1 .. 1 PROVE Follows(f[i - 1], p[i], f[i], rank)
  <2>1. i = 1 /\ i - 1 = 0
    OBVIOUS
  <2> QED BY <1>1, <1>2, <2>1
<1>4. Along(f, p, a, b, rank)
  BY <1>1, <1>2, <1>3 DEF Along
<1> QED BY <1>1, <1>4 DEF Leads

LEMMA LeadsJoin ==
  ASSUME NEW p, NEW q, NEW a, NEW b, NEW c, NEW rank, Leads(p, a, b, rank), Leads(q, b, c, rank)
  PROVE  Leads(p \o q, a, c, rank)
<1>1. PICK f : Along(f, p, a, b, rank)
  BY DEF Leads
<1>2. PICK g : Along(g, q, b, c, rank)
  BY DEF Leads
<1>3. PICK l \in Nat : l = Len(p)
  BY DEF Leads, IsArray
<1>4. PICK k \in Nat : k = Len(q)
  BY DEF Leads, IsArray
<1>5. PICK r : r = p \o q
  OBVIOUS
<1>6. /\ IsArray(r) /\ Len(r) = l + k
      /\ \A i \in 1 .. l : r[i] = p[i]
      /\ \A i \in 1 .. k : r[l + i] = q[i]
  BY <1>3, <1>4, <1>5, ConcatArrays DEF Leads
<1> DEFINE h == [i \in 0 .. l + k |-> IF i <= l THEN f[i] ELSE g[i - l]]
<1>7. /\ f[0] = a /\ f[l] = b /\ g[0] = b /\ g[k] = c
      /\ \A i \in 1 .. l : Follows(f[i - 1], p[i], f[i], rank)
      /\ \A i \in 1 .. k : Follows(g[i - 1], q[i], g[i], rank)
  BY <1>1, <1>2, <1>3, <1>4 DEF Along
<1>8. \A i \in 0 .. l : h[i] = f[i]
  OBVIOUS
<1>9. ASSUME NEW i \in 0 .. k PROVE h[l + i] = g[i]
  <2>1. CASE i = 0
    BY <1>7, <2>1
  <2>2. CASE i # 0
    <3>1. l + i \in 0 .. l + k /\ ~(l + i <= l) /\ (l + i) - l = i
      BY <2>2
    <3> QED BY <3>1
  <2> QED BY <2>1, <2>2
<1> HIDE DEF h
<1>10. ASSUME NEW i \in 1 .. l + k PROVE Follows(h[i - 1], r[i], h[i], rank)
  <2>1. CASE i <= l
    <3>1. i \in 1 .. l /\ i \in 0 .. l /\ i - 1 \in 0 .. l
      BY <2>1
    <3> QED BY <1>6, <1>7, <1>8, <3>1
  <2>2. CASE ~(i <= l)
    <3>1. PICK j \in 1 .. k : i = l + j
      <4>1. i - l \in 1 .. k /\ i = l + (i - l)
        BY <2>2
      <4> QED BY <4>1
    <3>2. j - 1 \in 0 .. k /\ j \in 0 .. k /\ i - 1 = l + (j - 1)
      BY <3>1
    <3>3. h[i - 1] = g[j - 1] /\ h[i] = g[j] /\ r[i] = q[j]
      BY <1>6, <1>9, <3>1, <3>2
    <3> QED BY <1>7, <3>3
  <2> QED BY <2>1, <2>2
<1>11. h[0] = a /\ h[l + k] = c
  <2>1. 0 \in 0 .. l /\ k \in 0 .. k
    OBVIOUS
  <2> QED BY <1>7, <1>8, <1>9, <2>1
<1>12. Along(h, r, a, c, rank)
  BY <1>6, <1>10, <1>11 DEF Along
<1> QED BY <1>5, <1>6, <1>12 DEF Leads

\* The three tables of operators.
LEMMA QueryOperators ==
  /\ DOMAIN Queries = {"remaining", "position", "start", "peek", "index"}
  /\ \A q \in DOMAIN Queries : Queries[q] \in {"ur", "up", "uo", "uk", "un"}
BY DEF Queries

LEMMA ListOperators ==
  /\ DOMAIN Lists = {"item", "unique", "count-equal"}
  /\ Lists["item"] = "uI" /\ Lists["unique"] = "uU" /\ Lists["count-equal"] = "uC"
BY DEF Lists

LEMMA BinaryOperators ==
  /\ DOMAIN Binaries = {"+", "-", "*", "/", "%", "&", "|", "^", "<<", ">>", "==", "!=", "<",
                        "<=", ">", ">=", "and", "or"}
  /\ \A b \in DOMAIN Binaries :
        Binaries[b] \in {"u+", "u-", "u*", "u/", "um", "u&", "u|", "u^", "u[", "u]", "u=", "u~",
                         "u<", "ul", "u>", "ug", "uA", "uO"}
BY DEF Binaries

\* The literals that the code writes on its own.
LEMMA SmallWords ==
  /\ MaxWord \in Nat /\ Modulus = MaxWord + 1
  /\ Base = 256 /\ EndOfInput = 256 /\ MaxWord >= 65535
  /\ \A n \in 0 .. 256 : n \in 0 .. MaxWord
<1>1. BYTE_BITS = 8 /\ WORD_BYTES \in Nat /\ WORD_BYTES >= 2
  BY OctetsAssumption, WordBytesAssumption
<1>2. WordBits \in Nat /\ WordBits >= 16 /\ WordBits = WORD_BYTES * 8
  BY <1>1 DEF WordBits
<1>3. 2^0 = 1 /\ \A b \in 0 .. WordBits + 8 : 2^b \in Nat \ {0} /\ 2^(b + 1) = 2 * 2^b
  BY <1>1, PowersAssumption
<1>4. 2^8 = 256 /\ 2^16 = 65536
  <2>1. /\ 2^(0 + 1) = 2 * 2^0 /\ 2^(1 + 1) = 2 * 2^1 /\ 2^(2 + 1) = 2 * 2^2
        /\ 2^(3 + 1) = 2 * 2^3 /\ 2^(4 + 1) = 2 * 2^4 /\ 2^(5 + 1) = 2 * 2^5
        /\ 2^(6 + 1) = 2 * 2^6 /\ 2^(7 + 1) = 2 * 2^7
    BY <1>2, <1>3
  <2>2. 2^8 = 256
    BY <1>3, <2>1
  <2>3. 2^(8 + 8) = 2^8 * 2^8
    <3>1. 8 \in Nat /\ 8 + 8 <= WordBits + BYTE_BITS
      BY <1>1, <1>2
    <3> QED BY <3>1, PowersAdd
  <2> QED BY <2>2, <2>3
<1>5. Modulus = 2^(WordBits - 16) * 2^16
  <2>1. PICK rest \in Nat : rest = WordBits - 16
    BY <1>2
  <2>2. 2^(rest + 16) = 2^rest * 2^16
    <3>1. 16 \in Nat /\ rest + 16 <= WordBits + BYTE_BITS
      BY <1>1, <1>2, <2>1
    <3> QED BY <3>1, PowersAdd
  <2>3. rest + 16 = WordBits
    BY <1>2, <2>1
  <2> QED BY <2>1, <2>2, <2>3 DEF Modulus
<1>6. PICK factor \in Nat \ {0} : factor = 2^(WordBits - 16)
  <2>1. WordBits - 16 \in 0 .. WordBits + 8
    BY <1>2
  <2> QED BY <1>3, <2>1
<1>7. Modulus \in Nat /\ Modulus >= 65536
  BY <1>4, <1>5, <1>6
<1> QED BY <1>1, <1>4, <1>7 DEF MaxWord, Base, EndOfInput

\* One-token codes.
LEMMA OpLeads ==
  ASSUME NEW op \in Plain, NEW part \in -1 .. 2, NEW h \in Nat, Takes(op) <= h, NEW rank,
         NEW top, top = h - Takes(op) + Puts(op)
  PROVE  Leads(Op(op), Standing(part, h), Standing(part, top), rank)
<1> DEFINE token == [op |-> op, n |-> 0, up |-> 0, name |-> "", member |-> ""]
<1>1. op \notin Named /\ op \notin Branch /\ op # "J"
  BY BinaryOperators DEF Plain, Named, Branch
<1>2. GoodToken(token, rank)
  <2>1. token.op = op /\ token.n = 0
    OBVIOUS
  <2>2. 0 \in 0 .. MaxWord /\ op \in Named \cup Plain \cup Branch
    BY SmallWords
  <2>3. op \notin {"uI", "uU", "uC"}
    BY <1>1 DEF Named
  <2> HIDE DEF token
  <2> QED BY <1>1, <2>1, <2>2, <2>3 DEF GoodToken
<1>3. Follows(Standing(part, h), token, Standing(part, top), rank)
  BY <1>1, <1>2, TakesAndPuts DEF Follows, Standing, Turns
<1>4. Op(op) = <<token>>
  BY DEF Op
<1> QED BY <1>3, <1>4, LeadsToken

LEMMA LiteralLeads ==
  ASSUME NEW n \in 0 .. MaxWord, NEW part \in -1 .. 2, NEW h \in Nat, NEW rank
  PROVE  Leads(Literal(n), Standing(part, h), Standing(part, h + 1), rank)
<1> DEFINE token == [op |-> "{", n |-> n, up |-> 0, name |-> "", member |-> ""]
<1>1. GoodToken(token, rank)
  BY DEF GoodToken, Named, Plain
<1>2. Takes("{") = 0 /\ Puts("{") = 1
  BY DEF Takes, Puts
<1>3. Follows(Standing(part, h), token, Standing(part, h + 1), rank)
  <2>1. PICK a, b : a = Standing(part, h) /\ b = Standing(part, h + 1)
    OBVIOUS
  <2>2. a.part = part /\ a.height = h /\ b.part = part /\ b.height = h + 1
    BY <2>1 DEF Standing
  <2>3. Takes(token.op) = 0 /\ Puts(token.op) = 1 /\ token.op \notin Branch
    BY <1>2 DEF Branch
  <2>4. Turns(a.part, token.op, b.part)
    BY <2>2, <2>3 DEF Turns
  <2> HIDE DEF token
  <2> QED BY <1>1, <2>1, <2>2, <2>3, <2>4 DEF Follows
<1>4. Literal(n) = <<token>>
  <2>1. PICK base : base = Op("{")[1]
    OBVIOUS
  <2>2. base = [op |-> "{", n |-> 0, up |-> 0, name |-> "", member |-> ""]
    BY <2>1 DEF Op
  <2>3. PICK made : made = [base EXCEPT !.n = n]
    OBVIOUS
  <2>4. made = token
    BY <2>2, <2>3
  <2>5. [Op("{")[1] EXCEPT !.n = n] = token
    BY <2>1, <2>3, <2>4
  <2> QED BY <2>5 DEF Literal, OpN
<1> QED BY <1>3, <1>4, LeadsToken

LEMMA OnLeads ==
  ASSUME NEW op \in Named \ {"J", "uI", "uU", "uC"}, NEW name, name # "",
         NEW part \in -1 .. 2, NEW h \in Nat, Takes(op) <= h, NEW rank,
         NEW top, top = h - Takes(op) + Puts(op)
  PROVE  Leads(On(op, name), Standing(part, h), Standing(part, top), rank)
<1> DEFINE token == [op |-> op, n |-> 0, up |-> 0, name |-> name, member |-> ""]
<1>1. op \notin Branch /\ op # "{"
  BY DEF Named, Branch
<1>2. GoodToken(token, rank)
  BY <1>1 DEF GoodToken
<1>3. Follows(Standing(part, h), token, Standing(part, top), rank)
  BY <1>1, <1>2, TakesAndPuts DEF Follows, Standing, Turns
<1>4. On(op, name) = <<token>>
  <2>1. PICK base : base = Op(op)[1]
    OBVIOUS
  <2>2. base = [op |-> op, n |-> 0, up |-> 0, name |-> "", member |-> ""]
    BY <2>1 DEF Op
  <2>3. PICK made : made = [base EXCEPT !.name = name]
    OBVIOUS
  <2>4. made = token
    BY <2>2, <2>3
  <2>5. [Op(op)[1] EXCEPT !.name = name] = token
    BY <2>1, <2>3, <2>4
  <2> QED BY <2>5 DEF On
<1> QED BY <1>3, <1>4, LeadsToken

LEMMA OnRefLeads ==
  ASSUME NEW op \in Named \ {"J"}, NEW ref, ref[3] # "", NEW member,
         op \in {"uI", "uU", "uC"} => member # "",
         ref[2] \in Nat, NEW part \in -1 .. 2, NEW h \in Nat, Takes(op) <= h, NEW rank,
         NEW top, top = h - Takes(op) + Puts(op)
  PROVE  Leads(OnRef(op, ref, member), Standing(part, h), Standing(part, top), rank)
<1> DEFINE token == [op |-> op, n |-> 0, up |-> ref[2], name |-> ref[3], member |-> member]
<1>1. op \notin Branch /\ op # "{"
  BY DEF Named, Branch
<1>2. GoodToken(token, rank)
  BY <1>1 DEF GoodToken
<1>3. Follows(Standing(part, h), token, Standing(part, top), rank)
  BY <1>1, <1>2, TakesAndPuts DEF Follows, Standing, Turns
<1>4. OnRef(op, ref, member) = <<token>>
  <2>1. PICK base : base = Op(op)[1]
    OBVIOUS
  <2>2. base = [op |-> op, n |-> 0, up |-> 0, name |-> "", member |-> ""]
    BY <2>1 DEF Op
  <2>3. PICK made : made = [base EXCEPT !.up = ref[2], !.name = ref[3], !.member = member]
    OBVIOUS
  <2>4. made = token
    BY <2>2, <2>3
  <2>5. [Op(op)[1] EXCEPT !.up = ref[2], !.name = ref[3], !.member = member] = token
    BY <2>1, <2>3, <2>4
  <2> QED BY <2>5 DEF OnRef
<1> QED BY <1>3, <1>4, LeadsToken

\* Expressions have as many operands as their operation takes.
OperandsGive(e, c) == IsArray(Operands(e)) /\ Len(Operands(e)) = c

LEMMA TailGives ==
  ASSUME NEW e, IsArray(e), NEW c \in Nat, Len(e) = c + 1
  PROVE  IsArray(Tail(e)) /\ Len(Tail(e)) = c
<1>1. PICK S : S = Entries(e)
  OBVIOUS
<1>2. e \in Seq(S)
  BY <1>1, ArrayIsSeq
<1>3. e # <<>>
  <2>1. Len(<<>>) = 0
    OBVIOUS
  <2> QED BY <2>1
<1>4. Tail(e) \in Seq(S) /\ Len(Tail(e)) = Len(e) - 1
  BY <1>2, <1>3, HeadTailProperties
<1>5. Len(Tail(e)) = c
  BY <1>4
<1> QED BY <1>4, <1>5, SeqIsArray

LEMMA SinglesAreArrays ==
  /\ IsArray(<<>>) /\ Len(<<>>) = 0
  /\ \A x : IsArray(<<x>>) /\ Len(<<x>>) = 1
BY DEF IsArray

LEMMA OperationLeads ==
  ASSUME NEW e, IsOperation(e), NEW part \in -1 .. 2, NEW h \in Nat, NEW rank
  PROVE  \E c \in Nat :
           /\ OperandsGive(e, c)
           /\ Leads(Operation(e), Standing(part, h + c), Standing(part, h + 1), rank)
<1> DEFINE head == e[1]
<1>a. h + 0 = h
  OBVIOUS
<1>1. IsArray(e) /\ Len(e) \in Nat
  BY DEF IsOperation, IsArray
<1>2. PICK arguments \in Int : arguments = Len(e) - 1
  BY <1>1
<1>3. CASE head = "number"
  <2>1. Operands(e) = <<>> /\ Operation(e) = Literal(e[2])
    BY <1>3, QueryOperators, BinaryOperators, ListOperators DEF Operands, Operation
  <2>4. e[2] \in 0 .. MaxWord
    BY <1>3, QueryOperators, BinaryOperators DEF IsOperation, IsRef
  <2>2. OperandsGive(e, 0)
    BY <2>1, SinglesAreArrays DEF OperandsGive
  <2>3. Leads(Operation(e), Standing(part, h), Standing(part, h + 1), rank)
    BY <2>1, <2>4, LiteralLeads
  <2> QED BY <1>a, <2>2, <2>3
<1>4. CASE head = "ref"
  <2>1. Operands(e) = <<>> /\ Operation(e) = OnRef("g", e, "")
    BY <1>4, QueryOperators, BinaryOperators, ListOperators DEF Operands, Operation
  <2>2. OperandsGive(e, 0)
    BY <2>1, SinglesAreArrays DEF OperandsGive
  <2>3. e[3] # "" /\ e[2] \in Nat
    BY <1>4, QueryOperators, BinaryOperators DEF IsOperation, IsRef
  <2>4. Takes("g") = 0 /\ Puts("g") = 1 /\ "g" \in Named \ {"J"}
    BY DEF Takes, Puts, Named
  <2>5. Leads(OnRef("g", e, ""), Standing(part, h), Standing(part, h + 1), rank)
    <3>1. Takes("g") <= h /\ h + 1 = h - Takes("g") + Puts("g")
      BY <2>4
    <3> QED BY <2>3, <2>4, <3>1, OnRefLeads
  <2> QED BY <1>a, <2>1, <2>2, <2>5
<1>5. CASE head \in {"len", "count"}
  <2>1. PICK op \in {"z", "k"} : Operands(e) = <<>> /\ Operation(e) = OnRef(op, e[2], "")
    BY <1>5, QueryOperators, BinaryOperators, ListOperators DEF Operands, Operation
  <2>2. OperandsGive(e, 0)
    BY <2>1, SinglesAreArrays DEF OperandsGive
  <2>3. e[2][3] # "" /\ e[2][2] \in Nat
    BY <1>5, QueryOperators, BinaryOperators DEF IsOperation, IsRef
  <2>4. Takes(op) = 0 /\ Puts(op) = 1 /\ op \in Named \ {"J"} /\ op \notin {"uI", "uU", "uC"}
    BY DEF Takes, Puts, Named
  <2>5. Leads(OnRef(op, e[2], ""), Standing(part, h), Standing(part, h + 1), rank)
    <3>1. Takes(op) <= h /\ h + 1 = h - Takes(op) + Puts(op)
      BY <2>4
    <3> QED BY <2>3, <2>4, <3>1, OnRefLeads
  <2> QED BY <1>a, <2>1, <2>2, <2>5
<1>6. CASE head = "byte"
  <2>1. Operands(e) = <<e[3]>> /\ Operation(e) = OnRef("uh", e[2], "")
    BY <1>6, QueryOperators, BinaryOperators, ListOperators DEF Operands, Operation
  <2>2. OperandsGive(e, 1)
    BY <2>1, SinglesAreArrays DEF OperandsGive
  <2>3. e[2][3] # "" /\ e[2][2] \in Nat
    BY <1>6, QueryOperators, BinaryOperators DEF IsOperation, IsRef
  <2>4. Takes("uh") = 1 /\ Puts("uh") = 1 /\ "uh" \in Named \ {"J"}
    BY DEF Takes, Puts, Named
  <2>5. Leads(OnRef("uh", e[2], ""), Standing(part, h + 1), Standing(part, h + 1), rank)
    <3>1. Takes("uh") <= h + 1 /\ h + 1 = (h + 1) - Takes("uh") + Puts("uh") /\ h + 1 \in Nat
      BY <2>4
    <3> QED BY <2>3, <2>4, <3>1, OnRefLeads
  <2> QED BY <1>a, <2>1, <2>2, <2>5
<1>7. CASE head = "unique"
  <2>1. Operands(e) = <<>> /\ Operation(e) = OnRef("uU", e[2], e[3])
    BY <1>7, QueryOperators, BinaryOperators, ListOperators DEF Operands, Operation
  <2>2. OperandsGive(e, 0)
    BY <2>1, SinglesAreArrays DEF OperandsGive
  <2>3. e[2][3] # "" /\ e[2][2] \in Nat /\ e[3] # ""
    BY <1>7, QueryOperators, BinaryOperators DEF IsOperation, IsRef
  <2>4. Takes("uU") = 0 /\ Puts("uU") = 1 /\ "uU" \in Named \ {"J"}
    BY DEF Takes, Puts, Named
  <2>5. Leads(OnRef("uU", e[2], e[3]), Standing(part, h), Standing(part, h + 1), rank)
    <3>1. Takes("uU") <= h /\ h + 1 = h - Takes("uU") + Puts("uU")
      BY <2>4
    <3> QED BY <2>3, <2>4, <3>1, OnRefLeads
  <2> QED BY <1>a, <2>1, <2>2, <2>5
<1>8. CASE head \in {"item", "count-equal"}
  <2>1. PICK op \in {"uI", "uC"} : Operands(e) = <<e[4]>> /\ Operation(e) = OnRef(op, e[2], e[3])
    BY <1>8, QueryOperators, BinaryOperators, ListOperators DEF Operands, Operation
  <2>2. OperandsGive(e, 1)
    BY <2>1, SinglesAreArrays DEF OperandsGive
  <2>3. e[2][3] # "" /\ e[2][2] \in Nat /\ e[3] # ""
    BY <1>8, QueryOperators, BinaryOperators DEF IsOperation, IsRef
  <2>4. Takes(op) = 1 /\ Puts(op) = 1 /\ op \in Named \ {"J"}
    BY DEF Takes, Puts, Named
  <2>5. Leads(OnRef(op, e[2], e[3]), Standing(part, h + 1), Standing(part, h + 1), rank)
    <3>1. Takes(op) <= h + 1 /\ h + 1 = (h + 1) - Takes(op) + Puts(op) /\ h + 1 \in Nat
      BY <2>4
    <3> QED BY <2>3, <2>4, <3>1, OnRefLeads
  <2> QED BY <1>a, <2>1, <2>2, <2>5
<1>9. CASE head \in DOMAIN Queries
  <2>1. Operands(e) = <<>> /\ Operation(e) = Op(Queries[head])
    BY <1>9, QueryOperators, BinaryOperators, ListOperators DEF Operands, Operation
  <2>2. OperandsGive(e, 0)
    BY <2>1, SinglesAreArrays DEF OperandsGive
  <2>3. PICK op \in {"ur", "up", "uo", "uk", "un"} : op = Queries[head]
    BY <1>9, QueryOperators
  <2>4. Takes(op) = 0 /\ Puts(op) = 1 /\ op \in Plain
    BY DEF Takes, Puts, Plain
  <2>5. Leads(Op(op), Standing(part, h), Standing(part, h + 1), rank)
    <3>1. Takes(op) <= h /\ h + 1 = h - Takes(op) + Puts(op)
      BY <2>4
    <3> QED BY <2>4, <3>1, OpLeads
  <2> QED BY <1>a, <2>1, <2>2, <2>3, <2>5
<1>10. CASE head \in DOMAIN Binaries
  <2>1. Operands(e) = Tail(e) /\ Operation(e) = Op(Binaries[head])
    BY <1>10, QueryOperators, BinaryOperators, ListOperators DEF Operands, Operation
  <2>2. Len(e) = 2 + 1
    <3>1. head \notin {"number", "ref", "len", "count", "byte", "unique", "item", "count-equal",
                      "select", "not"} /\ head \notin DOMAIN Queries
      BY <1>10, QueryOperators, BinaryOperators
    <3>2. Len(e) - 1 = 2
      BY <3>1 DEF IsOperation, IsRef
    <3> QED BY <1>1, <3>2
  <2>3. OperandsGive(e, 2)
    BY <1>1, <2>1, <2>2, TailGives DEF OperandsGive
  <2>4. PICK op : op = Binaries[head]
    OBVIOUS
  <2>5. op \in {"u+", "u-", "u*", "u/", "um", "u&", "u|", "u^", "u[", "u]", "u=", "u~",
                "u<", "ul", "u>", "ug", "uA", "uO"} /\ op \in Plain
    BY <1>10, <2>4, BinaryOperators DEF Plain
  <2>6. Takes(op) = 2 /\ Puts(op) = 1
    BY <2>5 DEF Takes, Puts
  <2>7. Leads(Op(op), Standing(part, h + 2), Standing(part, h + 1), rank)
    <3>1. Takes(op) <= h + 2 /\ h + 1 = (h + 2) - Takes(op) + Puts(op) /\ h + 2 \in Nat
      BY <2>6
    <3> QED BY <2>5, <3>1, OpLeads
  <2> QED BY <2>1, <2>3, <2>4, <2>7
<1>11. CASE head = "select"
  <2>1. Operands(e) = Tail(e) /\ Operation(e) = Op("u?")
    BY <1>11, QueryOperators, BinaryOperators, ListOperators DEF Operands, Operation
  <2>2. Len(e) = 3 + 1
    BY <1>1, <1>11, QueryOperators, BinaryOperators DEF IsOperation, IsRef
  <2>3. OperandsGive(e, 3)
    BY <1>1, <2>1, <2>2, TailGives DEF OperandsGive
  <2>4. Takes("u?") = 3 /\ Puts("u?") = 1 /\ "u?" \in Plain
    BY DEF Takes, Puts, Plain
  <2>5. Leads(Op("u?"), Standing(part, h + 3), Standing(part, h + 1), rank)
    <3>1. Takes("u?") <= h + 3 /\ h + 1 = (h + 3) - Takes("u?") + Puts("u?") /\ h + 3 \in Nat
      BY <2>4
    <3> QED BY <2>4, <3>1, OpLeads
  <2> QED BY <2>1, <2>3, <2>5
<1>12. CASE head = "not"
  <2>1. Operands(e) = Tail(e) /\ Operation(e) = Op("u!")
    BY <1>12, QueryOperators, BinaryOperators, ListOperators DEF Operands, Operation
  <2>2. Len(e) = 1 + 1
    BY <1>1, <1>12, QueryOperators, BinaryOperators DEF IsOperation, IsRef
  <2>3. OperandsGive(e, 1)
    BY <1>1, <2>1, <2>2, TailGives DEF OperandsGive
  <2>4. Takes("u!") = 1 /\ Puts("u!") = 1 /\ "u!" \in Plain
    BY DEF Takes, Puts, Plain
  <2>5. Leads(Op("u!"), Standing(part, h + 1), Standing(part, h + 1), rank)
    <3>1. Takes("u!") <= h + 1 /\ h + 1 = (h + 1) - Takes("u!") + Puts("u!") /\ h + 1 \in Nat
      BY <2>4
    <3> QED BY <2>4, <3>1, OpLeads
  <2> QED BY <2>1, <2>3, <2>5
<1> QED
  BY <1>3, <1>4, <1>5, <1>6, <1>7, <1>8, <1>9, <1>10, <1>11, <1>12 DEF IsOperation, IsRef

\* Codes joined one after another.
LEMMA FlattenLeads ==
  ASSUME NEW n \in Nat, NEW s, s = [i \in 1 .. n |-> s[i]], NEW st, NEW rank,
         \A i \in 1 .. n : Leads(s[i], st[i - 1], st[i], rank)
  PROVE  Leads(FlattenSeq(s), st[0], st[n], rank)
<1>1. \A i \in 1 .. n : IsArray(s[i])
  BY DEF Leads
<1>2. PICK f : Joins(f, s, n) /\ FlattenSeq(s) = f[n]
  BY <1>1, FlattenJoins
<1> DEFINE I == {i \in Nat : i <= n => Leads(f[i], st[0], st[i], rank)}
<1>3. 0 \in I
  BY <1>2, LeadsNothing DEF Joins
<1>4. ASSUME NEW i \in I PROVE i + 1 \in I
  <2> SUFFICES ASSUME i + 1 <= n PROVE Leads(f[i + 1], st[0], st[i + 1], rank)
    OBVIOUS
  <2>1. i + 1 \in 1 .. n /\ (i + 1) - 1 = i /\ i <= n
    OBVIOUS
  <2>2. Leads(f[i], st[0], st[i], rank) /\ Leads(s[i + 1], st[i], st[i + 1], rank)
    BY <2>1
  <2>3. f[i + 1] = f[i] \o s[i + 1]
    BY <1>2, <2>1 DEF Joins
  <2> QED BY <2>2, <2>3, LeadsJoin
<1> HIDE DEF I
<1>5. I \in SUBSET Nat
  BY DEF I
<1>6. n \in I
  BY <1>3, <1>4, <1>5, SetInduction
<1> QED BY <1>2, <1>6 DEF I

\* The operands of the expressions in S.
Inner(S) == UNION {ToSet(Operands(x)) : x \in S}
Unfolds(f, e, n) == f = [k \in 0 .. n |-> IF k = 0 THEN {e} ELSE Inner(f[k - 1])]

LEMMA UnfoldsExists ==
  ASSUME NEW e, NEW n \in Nat
  PROVE  \E f : Unfolds(f, e, n)
<1> DEFINE T == {k \in Nat : \E f : Unfolds(f, e, k)}
<1>1. 0 \in T
  <2>1. Unfolds([k \in 0 .. 0 |-> {e}], e, 0)
    BY DEF Unfolds
  <2> QED BY <2>1
<1>2. ASSUME NEW k \in T PROVE k + 1 \in T
  <2>1. PICK f : Unfolds(f, e, k)
    OBVIOUS
  <2> DEFINE g == [i \in 0 .. k + 1 |-> IF i = k + 1 THEN Inner(f[k]) ELSE f[i]]
  <2>2. ASSUME NEW i \in 0 .. k + 1 PROVE g[i] = IF i = 0 THEN {e} ELSE Inner(g[i - 1])
    <3>1. CASE i = 0
      BY <2>1, <3>1 DEF Unfolds
    <3>2. CASE i = k + 1
      <4>1. k \in 0 .. k + 1 /\ k # k + 1 /\ i - 1 = k
        BY <3>2
      <4>2. g[k] = f[k]
        BY <4>1
      <4> QED BY <3>2, <4>1, <4>2
    <3>3. CASE i # 0 /\ i # k + 1
      <4>1. i \in 0 .. k /\ i - 1 \in 0 .. k + 1 /\ i - 1 # k + 1
        BY <3>3
      <4>2. g[i] = f[i] /\ g[i - 1] = f[i - 1]
        BY <3>3, <4>1
      <4>3. f[i] = Inner(f[i - 1])
        BY <2>1, <3>3, <4>1 DEF Unfolds
      <4> QED BY <3>3, <4>2, <4>3
    <3> QED BY <3>1, <3>2, <3>3
  <2>3. Unfolds(g, e, k + 1)
    <3>1. g = [i \in 0 .. k + 1 |-> g[i]]
      OBVIOUS
    <3> HIDE DEF g
    <3> QED BY <2>2, <3>1 DEF Unfolds
  <2> HIDE DEF g
  <2> QED BY <2>3
<1> HIDE DEF T
<1>3. T \in SUBSET Nat
  BY DEF T
<1>4. n \in T
  BY <1>1, <1>2, <1>3, SetInduction
<1> QED BY <1>4 DEF T

LEMMA UnfoldsOnce ==
  ASSUME NEW e, NEW n \in Nat, NEW m \in Nat, NEW f, NEW g, Unfolds(f, e, n), Unfolds(g, e, m),
         NEW k \in Nat, k <= n, k <= m
  PROVE  f[k] = g[k]
<1> DEFINE T == {i \in Nat : i <= n /\ i <= m => f[i] = g[i]}
<1>1. 0 \in T
  BY DEF Unfolds
<1>2. ASSUME NEW i \in T PROVE i + 1 \in T
  <2> SUFFICES ASSUME i + 1 <= n, i + 1 <= m PROVE f[i + 1] = g[i + 1]
    OBVIOUS
  <2>1. i + 1 \in 0 .. n /\ i + 1 \in 0 .. m /\ i + 1 # 0 /\ (i + 1) - 1 = i /\ f[i] = g[i]
    OBVIOUS
  <2>2. f[i + 1] = Inner(f[i]) /\ g[i + 1] = Inner(g[i])
    BY <2>1 DEF Unfolds
  <2> QED BY <2>1, <2>2
<1> HIDE DEF T
<1>3. T \in SUBSET Nat
  BY DEF T
<1>4. k \in T
  BY <1>1, <1>2, <1>3, SetInduction
<1> QED BY <1>4 DEF T

\* The expressions one level further inside are the operands of those.
LEMMA SubexpressionsOf ==
  ASSUME NEW e, NEW d \in Nat
  PROVE  /\ Subexpressions(e, 0) = {e}
         /\ Subexpressions(e, d + 1) = Inner(Subexpressions(e, d))
<1>1. ASSUME NEW n \in Nat
      PROVE  \E f : Unfolds(f, e, n) /\ Subexpressions(e, n) = f[n]
  <2>1. PICK f : f = CHOOSE g : Unfolds(g, e, n)
    OBVIOUS
  <2>2. Unfolds(f, e, n)
    BY <2>1, UnfoldsExists
  <2>3. Subexpressions(e, n) = f[n]
    BY <2>1 DEF Subexpressions, Unfolds, Inner
  <2> QED BY <2>2, <2>3
<1>2. PICK f : Unfolds(f, e, d) /\ Subexpressions(e, d) = f[d]
  BY <1>1
<1>3. PICK g : Unfolds(g, e, d + 1) /\ Subexpressions(e, d + 1) = g[d + 1]
  BY <1>1
<1>4. PICK z : Unfolds(z, e, 0) /\ Subexpressions(e, 0) = z[0]
  BY <1>1
<1>5. f[d] = g[d]
  BY <1>2, <1>3, UnfoldsOnce
<1>6. g[d + 1] = Inner(g[d])
  <2>1. d + 1 \in 0 .. d + 1 /\ d + 1 # 0 /\ (d + 1) - 1 = d
    OBVIOUS
  <2> QED BY <1>3, <2>1 DEF Unfolds
<1>7. z[0] = {e}
  BY <1>4 DEF Unfolds
<1> QED BY <1>2, <1>3, <1>4, <1>5, <1>6, <1>7

\* The codes of the expressions on one level, from those of the level inside.
Level(e, k, below) ==
  [x \in Subexpressions(e, MAX_EXPRESSION - k) |->
     FlattenSeq([i \in DOMAIN Operands(x) |-> below[Operands(x)[i]]]) \o Operation(x)]
Codes(code, e, n) == code = [k \in 0 .. n |-> Level(e, k, code[k - 1])]

\* The innermost expressions of one that is accepted have no operands.
LEMMA Innermost ==
  ASSUME NEW e, ~Refused(e), NEW x \in Subexpressions(e, MAX_EXPRESSION), NEW c \in Nat,
         OperandsGive(x, c)
  PROVE  c = 0 /\ DOMAIN Operands(x) = {}
<1>1. Inner(Subexpressions(e, MAX_EXPRESSION)) = {}
  BY SubexpressionsOf, ExpressionAssumption DEF Refused
<1>2. ToSet(Operands(x)) = {}
  BY <1>1 DEF Inner
<1>3. DOMAIN Operands(x) = 1 .. c
  BY DEF OperandsGive, IsArray
<1>4. DOMAIN Operands(x) = {}
  BY <1>2 DEF ToSet
<1>5. c = 0
  <2> SUFFICES ASSUME c # 0 PROVE FALSE
    OBVIOUS
  <2>1. 1 \in 1 .. c
    OBVIOUS
  <2> QED BY <1>3, <1>4, <2>1
<1> QED BY <1>4, <1>5

LEMMA CodesExist ==
  ASSUME NEW e, ~Refused(e), NEW n \in Nat, n <= MAX_EXPRESSION
  PROVE  \E code : Codes(code, e, n)
<1> DEFINE T == {k \in Nat : k <= MAX_EXPRESSION => \E code : Codes(code, e, k)}
<1>a. MAX_EXPRESSION \in Nat
  BY ExpressionAssumption
<1>b. ASSUME NEW x \in Subexpressions(e, MAX_EXPRESSION) PROVE DOMAIN Operands(x) = {}
  <2>1. IsOperation(x)
    BY <1>a DEF Refused
  <2>2. PICK c \in Nat : OperandsGive(x, c)
    <3>1. 0 \in -1 .. 2 /\ 0 \in Nat
      OBVIOUS
    <3> QED BY <2>1, <3>1, OperationLeads
  <2> QED BY <2>2, Innermost
<1>c. ASSUME NEW b1, NEW b2 PROVE Level(e, 0, b1) = Level(e, 0, b2)
  <2>1. MAX_EXPRESSION - 0 = MAX_EXPRESSION
    BY <1>a
  <2>2. ASSUME NEW x \in Subexpressions(e, MAX_EXPRESSION)
        PROVE  [i \in DOMAIN Operands(x) |-> b1[Operands(x)[i]]]
               = [i \in DOMAIN Operands(x) |-> b2[Operands(x)[i]]]
    BY <1>b
  <2> QED BY <2>1, <2>2 DEF Level
<1>1. 0 \in T
  <2> DEFINE code == [k \in 0 .. 0 |-> Level(e, 0, <<>>)]
  <2>1. ASSUME NEW k \in 0 .. 0 PROVE code[k] = Level(e, k, code[k - 1])
    <3>1. k = 0
      OBVIOUS
    <3>2. code[k] = Level(e, 0, <<>>)
      OBVIOUS
    <3> HIDE DEF code
    <3> QED BY <1>c, <3>1, <3>2
  <2>2. code = [k \in 0 .. 0 |-> code[k]]
    OBVIOUS
  <2> HIDE DEF code
  <2>3. Codes(code, e, 0)
    BY <2>1, <2>2 DEF Codes
  <2> QED BY <2>3
<1>2. ASSUME NEW k \in T PROVE k + 1 \in T
  <2> SUFFICES ASSUME k + 1 <= MAX_EXPRESSION PROVE \E code : Codes(code, e, k + 1)
    OBVIOUS
  <2>1. PICK f : Codes(f, e, k)
    BY <1>a
  <2> DEFINE g == [i \in 0 .. k + 1 |-> IF i = k + 1 THEN Level(e, k + 1, f[k]) ELSE f[i]]
  <2>2. ASSUME NEW i \in 0 .. k + 1 PROVE g[i] = Level(e, i, g[i - 1])
    <3>1. CASE i = 0
      <4>1. g[i] = f[i] /\ i \in 0 .. k
        BY <3>1
      <4>2. f[i] = Level(e, i, f[i - 1])
        BY <2>1, <4>1 DEF Codes
      <4> HIDE DEF g
      <4> QED BY <1>c, <3>1, <4>1, <4>2
    <3>2. CASE i = k + 1
      <4>1. k \in 0 .. k + 1 /\ k # k + 1 /\ i - 1 = k
        BY <3>2
      <4>2. g[k] = f[k]
        BY <4>1
      <4> QED BY <3>2, <4>1, <4>2
    <3>3. CASE i # 0 /\ i # k + 1
      <4>1. i \in 0 .. k /\ i - 1 \in 0 .. k + 1 /\ i - 1 # k + 1
        BY <3>3
      <4>2. g[i] = f[i] /\ g[i - 1] = f[i - 1]
        BY <3>3, <4>1
      <4>3. f[i] = Level(e, i, f[i - 1])
        BY <2>1, <4>1 DEF Codes
      <4> QED BY <4>2, <4>3
    <3> QED BY <3>1, <3>2, <3>3
  <2>3. g = [i \in 0 .. k + 1 |-> g[i]]
    OBVIOUS
  <2> HIDE DEF g
  <2>4. Codes(g, e, k + 1)
    BY <2>2, <2>3 DEF Codes
  <2> QED BY <2>4
<1> HIDE DEF T
<1>3. T \in SUBSET Nat
  BY DEF T
<1>4. n \in T
  BY <1>1, <1>2, <1>3, SetInduction
<1> QED BY <1>4 DEF T

\* The code of an expression leaves one operand more.
OneMore(p, rank) ==
  \A part \in -1 .. 2 : \A h \in Nat : Leads(p, Standing(part, h), Standing(part, h + 1), rank)

LEMMA OneMoreEach ==
  ASSUME NEW n \in Nat, NEW s, s = [i \in 1 .. n |-> s[i]], NEW rank,
         \A i \in 1 .. n : OneMore(s[i], rank), NEW part \in -1 .. 2, NEW h \in Nat
  PROVE  Leads(FlattenSeq(s), Standing(part, h), Standing(part, h + n), rank)
<1> DEFINE st == [i \in 0 .. n |-> Standing(part, h + i)]
<1>1. ASSUME NEW i \in 1 .. n PROVE Leads(s[i], st[i - 1], st[i], rank)
  <2>1. i - 1 \in 0 .. n /\ h + (i - 1) \in Nat /\ (h + (i - 1)) + 1 = h + i
    OBVIOUS
  <2>2. st[i - 1] = Standing(part, h + (i - 1)) /\ st[i] = Standing(part, h + i)
    BY <2>1
  <2>3. Leads(s[i], Standing(part, h + (i - 1)), Standing(part, (h + (i - 1)) + 1), rank)
    BY <2>1 DEF OneMore
  <2> QED BY <2>1, <2>2, <2>3
<1>2. st[0] = Standing(part, h) /\ st[n] = Standing(part, h + n)
  <2>1. h + 0 = h
    OBVIOUS
  <2> QED BY <2>1
<1> HIDE DEF st
<1>3. Leads(FlattenSeq(s), st[0], st[n], rank)
  BY <1>1, FlattenLeads
<1> QED BY <1>2, <1>3

LEMMA ExpressionLeads ==
  ASSUME NEW e, ~Refused(e), NEW rank
  PROVE  OneMore(Expression(e), rank)
<1> DEFINE M == MAX_EXPRESSION
<1>a. M \in Nat
  BY ExpressionAssumption
<1>1. PICK code : code = CHOOSE f : Codes(f, e, M)
  OBVIOUS
<1>2. Codes(code, e, M)
  BY <1>1, <1>a, CodesExist
<1>3. Expression(e) = code[M][e]
  BY <1>1 DEF Expression, Codes, Level
<1> HIDE DEF M
<1>4. ASSUME NEW k \in 0 .. M PROVE code[k] = Level(e, k, code[k - 1])
  BY <1>2 DEF Codes
<1> DEFINE I == {k \in Nat : k <= M => \A x \in Subexpressions(e, M - k) : OneMore(code[k][x], rank)}
\* One level, from the one inside it.
<1>5. ASSUME NEW k \in 0 .. M, NEW x \in Subexpressions(e, M - k),
             k # 0 => \A y \in Subexpressions(e, M - (k - 1)) : OneMore(code[k - 1][y], rank)
      PROVE  OneMore(code[k][x], rank)
  <2>1. IsOperation(x)
    <3>1. M - k \in 0 .. M
      BY <1>a
    <3> QED BY <3>1 DEF Refused, M
  <2>2. SUFFICES ASSUME NEW part \in -1 .. 2, NEW h \in Nat
                 PROVE  Leads(code[k][x], Standing(part, h), Standing(part, h + 1), rank)
    BY DEF OneMore
  <2>3. PICK c \in Nat : /\ OperandsGive(x, c)
                         /\ Leads(Operation(x), Standing(part, h + c), Standing(part, h + 1), rank)
    BY <2>1, OperationLeads
  <2>4. DOMAIN Operands(x) = 1 .. c
    BY <2>3 DEF OperandsGive, IsArray
  <2> DEFINE s == [i \in 1 .. c |-> code[k - 1][Operands(x)[i]]]
  <2>5. code[k][x] = FlattenSeq(s) \o Operation(x)
    <3>1. PICK c1 : c1 = code[k] /\ c1 = Level(e, k, code[k - 1])
      BY <1>4
    <3>2. PICK o, d : o = Operands(x) /\ d = DOMAIN o /\ d = 1 .. c
      BY <2>4
    <3>3. c1[x] = FlattenSeq([i \in d |-> code[k - 1][o[i]]]) \o Operation(x)
      BY <3>1, <3>2, Zenon DEF Level, M
    <3>4. s = [i \in d |-> code[k - 1][o[i]]]
      BY <3>2
    <3> QED BY <3>1, <3>3, <3>4
  <2>6. ASSUME NEW i \in 1 .. c PROVE OneMore(s[i], rank)
    <3>1. k # 0
      <4> SUFFICES ASSUME k = 0 PROVE FALSE
        OBVIOUS
      <4>1. M - k = M
        BY <1>a
      <4>2. c = 0
        BY <2>3, <4>1, Innermost DEF M
      <4> QED BY <4>2
    <3>2. Operands(x)[i] \in Inner(Subexpressions(e, M - k))
      BY <2>4 DEF Inner, ToSet
    <3>3. M - k \in Nat /\ (M - k) + 1 = M - (k - 1)
      BY <1>a
    <3>4. Subexpressions(e, M - (k - 1)) = Inner(Subexpressions(e, M - k))
      BY <3>3, SubexpressionsOf
    <3>5. OneMore(code[k - 1][Operands(x)[i]], rank)
      BY <1>5, <3>1, <3>2, <3>4
    <3> QED BY <3>5
  <2>7. s = [i \in 1 .. c |-> s[i]]
    OBVIOUS
  <2> HIDE DEF s
  <2>8. Leads(FlattenSeq(s), Standing(part, h), Standing(part, h + c), rank)
    BY <2>6, <2>7, OneMoreEach
  <2> QED BY <2>3, <2>5, <2>8, LeadsJoin
<1>6. 0 \in I
  <2>1. 0 \in 0 .. M
    BY <1>a
  <2> QED BY <1>5, <2>1
<1>7. ASSUME NEW k \in I PROVE k + 1 \in I
  <2> SUFFICES ASSUME k + 1 <= M, NEW x \in Subexpressions(e, M - (k + 1))
               PROVE  OneMore(code[k + 1][x], rank)
    OBVIOUS
  <2>1. k + 1 \in 0 .. M /\ (k + 1) - 1 = k /\ k <= M
    BY <1>a
  <2>2. \A y \in Subexpressions(e, M - k) : OneMore(code[k][y], rank)
    BY <2>1
  <2> HIDE DEF I
  <2> QED BY <1>5, <2>1, <2>2
<1> HIDE DEF I
<1>8. I \in SUBSET Nat
  BY DEF I
<1>9. M \in I
  BY <1>a, <1>6, <1>7, <1>8, SetInduction
<1>10. M - M = 0 /\ e \in Subexpressions(e, 0)
  BY <1>a, SubexpressionsOf
<1> QED BY <1>3, <1>9, <1>10, <1>a DEF I

\* Where the codes of one operation lead.
LEMMA OpMoves ==
  ASSUME NEW part \in -1 .. 2, NEW rank
  PROVE  /\ Leads(Op("uf"), Standing(part, 0), Standing(part, 0), rank)
         /\ Leads(Op("uF"), Standing(part, 0), Standing(part, 0), rank)
         /\ Leads(Op("ua"), Standing(part, 2), Standing(part, 0), rank)
         /\ Leads(Op("u="), Standing(part, 2), Standing(part, 1), rank)
         /\ Leads(Op("ug"), Standing(part, 2), Standing(part, 1), rank)
         /\ Leads(Op("ul"), Standing(part, 2), Standing(part, 1), rank)
         /\ Leads(Op("ub"), Standing(part, 2), Standing(part, 1), rank)
         /\ Leads(Op("us"), Standing(part, 2), Standing(part, 1), rank)
         /\ Leads(Op("ud"), Standing(part, 3), Standing(part, 1), rank)
         /\ Leads(Op("uT"), Standing(part, 4), Standing(part, 1), rank)
         /\ Leads(Op("up"), Standing(part, 0), Standing(part, 1), rank)
         /\ Leads(Op("uo"), Standing(part, 1), Standing(part, 2), rank)
         /\ Leads(Op("i"), Standing(part, 2), Standing(part, 0), rank)
         /\ Leads(Op("j"), Standing(part, 1), Standing(part, 1), rank)
         /\ Leads(Op("d"), Standing(part, 1), Standing(part, 0), rank)
         /\ Leads(Op("D"), Standing(part, 0), Standing(part, 1), rank)
<1>1. Leads(Op("uf"), Standing(part, 0), Standing(part, 0), rank)
  <2>1. Takes("uf") = 0 /\ Puts("uf") = 0
    BY DEF Takes, Puts
  <2>3. "uf" \in Plain
    BY DEF Plain
  <2>2. 0 \in Nat /\ Takes("uf") <= 0 /\ 0 = 0 - Takes("uf") + Puts("uf")
    BY <2>1
  <2> QED BY <2>2, <2>3, OpLeads
<1>2. Leads(Op("uF"), Standing(part, 0), Standing(part, 0), rank)
  <2>1. Takes("uF") = 0 /\ Puts("uF") = 0
    BY DEF Takes, Puts
  <2>3. "uF" \in Plain
    BY DEF Plain
  <2>2. 0 \in Nat /\ Takes("uF") <= 0 /\ 0 = 0 - Takes("uF") + Puts("uF")
    BY <2>1
  <2> QED BY <2>2, <2>3, OpLeads
<1>3. Leads(Op("ua"), Standing(part, 2), Standing(part, 0), rank)
  <2>1. Takes("ua") = 2 /\ Puts("ua") = 0
    BY DEF Takes, Puts
  <2>3. "ua" \in Plain
    BY DEF Plain
  <2>2. 2 \in Nat /\ Takes("ua") <= 2 /\ 0 = 2 - Takes("ua") + Puts("ua")
    BY <2>1
  <2> QED BY <2>2, <2>3, OpLeads
<1>4. Leads(Op("u="), Standing(part, 2), Standing(part, 1), rank)
  <2>1. Takes("u=") = 2 /\ Puts("u=") = 1
    BY DEF Takes, Puts
  <2>3. "u=" \in Plain
    <3>1. "==" \in DOMAIN Binaries /\ Binaries["=="] = "u="
      BY DEF Binaries
    <3> QED BY <3>1 DEF Plain
  <2>2. 2 \in Nat /\ Takes("u=") <= 2 /\ 1 = 2 - Takes("u=") + Puts("u=")
    BY <2>1
  <2> QED BY <2>2, <2>3, OpLeads
<1>5. Leads(Op("ug"), Standing(part, 2), Standing(part, 1), rank)
  <2>1. Takes("ug") = 2 /\ Puts("ug") = 1
    BY DEF Takes, Puts
  <2>3. "ug" \in Plain
    <3>1. ">=" \in DOMAIN Binaries /\ Binaries[">="] = "ug"
      BY DEF Binaries
    <3> QED BY <3>1 DEF Plain
  <2>2. 2 \in Nat /\ Takes("ug") <= 2 /\ 1 = 2 - Takes("ug") + Puts("ug")
    BY <2>1
  <2> QED BY <2>2, <2>3, OpLeads
<1>6. Leads(Op("ul"), Standing(part, 2), Standing(part, 1), rank)
  <2>1. Takes("ul") = 2 /\ Puts("ul") = 1
    BY DEF Takes, Puts
  <2>3. "ul" \in Plain
    <3>1. "<=" \in DOMAIN Binaries /\ Binaries["<="] = "ul"
      BY DEF Binaries
    <3> QED BY <3>1 DEF Plain
  <2>2. 2 \in Nat /\ Takes("ul") <= 2 /\ 1 = 2 - Takes("ul") + Puts("ul")
    BY <2>1
  <2> QED BY <2>2, <2>3, OpLeads
<1>7. Leads(Op("ub"), Standing(part, 2), Standing(part, 1), rank)
  <2>1. Takes("ub") = 2 /\ Puts("ub") = 1
    BY DEF Takes, Puts
  <2>3. "ub" \in Plain
    BY DEF Plain
  <2>2. 2 \in Nat /\ Takes("ub") <= 2 /\ 1 = 2 - Takes("ub") + Puts("ub")
    BY <2>1
  <2> QED BY <2>2, <2>3, OpLeads
<1>8. Leads(Op("us"), Standing(part, 2), Standing(part, 1), rank)
  <2>1. Takes("us") = 2 /\ Puts("us") = 1
    BY DEF Takes, Puts
  <2>3. "us" \in Plain
    BY DEF Plain
  <2>2. 2 \in Nat /\ Takes("us") <= 2 /\ 1 = 2 - Takes("us") + Puts("us")
    BY <2>1
  <2> QED BY <2>2, <2>3, OpLeads
<1>9. Leads(Op("ud"), Standing(part, 3), Standing(part, 1), rank)
  <2>1. Takes("ud") = 3 /\ Puts("ud") = 1
    BY DEF Takes, Puts
  <2>3. "ud" \in Plain
    BY DEF Plain
  <2>2. 3 \in Nat /\ Takes("ud") <= 3 /\ 1 = 3 - Takes("ud") + Puts("ud")
    BY <2>1
  <2> QED BY <2>2, <2>3, OpLeads
<1>10. Leads(Op("uT"), Standing(part, 4), Standing(part, 1), rank)
  <2>1. Takes("uT") = 4 /\ Puts("uT") = 1
    BY DEF Takes, Puts
  <2>3. "uT" \in Plain
    BY DEF Plain
  <2>2. 4 \in Nat /\ Takes("uT") <= 4 /\ 1 = 4 - Takes("uT") + Puts("uT")
    BY <2>1
  <2> QED BY <2>2, <2>3, OpLeads
<1>11. Leads(Op("up"), Standing(part, 0), Standing(part, 1), rank)
  <2>1. Takes("up") = 0 /\ Puts("up") = 1
    BY DEF Takes, Puts
  <2>3. "up" \in Plain
    BY DEF Plain
  <2>2. 0 \in Nat /\ Takes("up") <= 0 /\ 1 = 0 - Takes("up") + Puts("up")
    BY <2>1
  <2> QED BY <2>2, <2>3, OpLeads
<1>12. Leads(Op("uo"), Standing(part, 1), Standing(part, 2), rank)
  <2>1. Takes("uo") = 0 /\ Puts("uo") = 1
    BY DEF Takes, Puts
  <2>3. "uo" \in Plain
    BY DEF Plain
  <2>2. 1 \in Nat /\ Takes("uo") <= 1 /\ 2 = 1 - Takes("uo") + Puts("uo")
    BY <2>1
  <2> QED BY <2>2, <2>3, OpLeads
<1>13. Leads(Op("i"), Standing(part, 2), Standing(part, 0), rank)
  <2>1. Takes("i") = 2 /\ Puts("i") = 0
    BY DEF Takes, Puts
  <2>3. "i" \in Plain
    BY DEF Plain
  <2>2. 2 \in Nat /\ Takes("i") <= 2 /\ 0 = 2 - Takes("i") + Puts("i")
    BY <2>1
  <2> QED BY <2>2, <2>3, OpLeads
<1>14. Leads(Op("j"), Standing(part, 1), Standing(part, 1), rank)
  <2>1. Takes("j") = 1 /\ Puts("j") = 1
    BY DEF Takes, Puts
  <2>3. "j" \in Plain
    BY DEF Plain
  <2>2. 1 \in Nat /\ Takes("j") <= 1 /\ 1 = 1 - Takes("j") + Puts("j")
    BY <2>1
  <2> QED BY <2>2, <2>3, OpLeads
<1>15. Leads(Op("d"), Standing(part, 1), Standing(part, 0), rank)
  <2>1. Takes("d") = 1 /\ Puts("d") = 0
    BY DEF Takes, Puts
  <2>3. "d" \in Plain
    BY DEF Plain
  <2>2. 1 \in Nat /\ Takes("d") <= 1 /\ 0 = 1 - Takes("d") + Puts("d")
    BY <2>1
  <2> QED BY <2>2, <2>3, OpLeads
<1>16. Leads(Op("D"), Standing(part, 0), Standing(part, 1), rank)
  <2>1. Takes("D") = 0 /\ Puts("D") = 1
    BY DEF Takes, Puts
  <2>3. "D" \in Plain
    BY DEF Plain
  <2>2. 0 \in Nat /\ Takes("D") <= 0 /\ 1 = 0 - Takes("D") + Puts("D")
    BY <2>1
  <2> QED BY <2>2, <2>3, OpLeads
<1> QED
  BY <1>1, <1>2, <1>3, <1>4, <1>5, <1>6, <1>7, <1>8, <1>9, <1>10, <1>11, <1>12, <1>13, <1>14, <1>15, <1>16

\* Where a token may stand, and what it leaves.
Fits(op, h, top) == h \in Nat /\ Takes(op) <= h /\ top = h - Takes(op) + Puts(op)

LEMMA NamedFit ==
  /\ Fits("g", 0, 1)
  /\ Fits("P", 1, 0)
  /\ Fits("z", 0, 1)
  /\ Fits("V", 1, 0)
  /\ Fits("N", 1, 0)
  /\ Fits("v", 0, 0)
  /\ Fits("R", 0, 0)
  /\ Fits("uZ", 0, 0)
  /\ Fits("uK", 3, 0)
BY DEF Fits, Takes, Puts

LEMMA OnMoves ==
  ASSUME NEW name, name # "", NEW part \in -1 .. 2, NEW rank
  PROVE  /\ Leads(On("g", name), Standing(part, 0), Standing(part, 1), rank)
         /\ Leads(On("P", name), Standing(part, 1), Standing(part, 0), rank)
         /\ Leads(On("z", name), Standing(part, 0), Standing(part, 1), rank)
         /\ Leads(On("V", name), Standing(part, 1), Standing(part, 0), rank)
         /\ Leads(On("N", name), Standing(part, 1), Standing(part, 0), rank)
         /\ Leads(On("v", name), Standing(part, 0), Standing(part, 0), rank)
         /\ Leads(On("R", name), Standing(part, 0), Standing(part, 0), rank)
         /\ Leads(On("uZ", name), Standing(part, 0), Standing(part, 0), rank)
         /\ Leads(On("uK", name), Standing(part, 3), Standing(part, 0), rank)
<1>a. ASSUME NEW op \in Named \ {"J", "uI", "uU", "uC"}, NEW h, NEW top, Fits(op, h, top)
      PROVE  Leads(On(op, name), Standing(part, h), Standing(part, top), rank)
  BY <1>a, OnLeads DEF Fits
<1>1. Leads(On("g", name), Standing(part, 0), Standing(part, 1), rank)
  <2>1. "g" \in Named \ {"J", "uI", "uU", "uC"}
    BY DEF Named
  <2> QED BY <1>a, <2>1, NamedFit
<1>2. Leads(On("P", name), Standing(part, 1), Standing(part, 0), rank)
  <2>1. "P" \in Named \ {"J", "uI", "uU", "uC"}
    BY DEF Named
  <2> QED BY <1>a, <2>1, NamedFit
<1>3. Leads(On("z", name), Standing(part, 0), Standing(part, 1), rank)
  <2>1. "z" \in Named \ {"J", "uI", "uU", "uC"}
    BY DEF Named
  <2> QED BY <1>a, <2>1, NamedFit
<1>4. Leads(On("V", name), Standing(part, 1), Standing(part, 0), rank)
  <2>1. "V" \in Named \ {"J", "uI", "uU", "uC"}
    BY DEF Named
  <2> QED BY <1>a, <2>1, NamedFit
<1>5. Leads(On("N", name), Standing(part, 1), Standing(part, 0), rank)
  <2>1. "N" \in Named \ {"J", "uI", "uU", "uC"}
    BY DEF Named
  <2> QED BY <1>a, <2>1, NamedFit
<1>6. Leads(On("v", name), Standing(part, 0), Standing(part, 0), rank)
  <2>1. "v" \in Named \ {"J", "uI", "uU", "uC"}
    BY DEF Named
  <2> QED BY <1>a, <2>1, NamedFit
<1>7. Leads(On("R", name), Standing(part, 0), Standing(part, 0), rank)
  <2>1. "R" \in Named \ {"J", "uI", "uU", "uC"}
    BY DEF Named
  <2> QED BY <1>a, <2>1, NamedFit
<1>8. Leads(On("uZ", name), Standing(part, 0), Standing(part, 0), rank)
  <2>1. "uZ" \in Named \ {"J", "uI", "uU", "uC"}
    BY DEF Named
  <2> QED BY <1>a, <2>1, NamedFit
<1>9. Leads(On("uK", name), Standing(part, 3), Standing(part, 0), rank)
  <2>1. "uK" \in Named \ {"J", "uI", "uU", "uC"}
    BY DEF Named
  <2> QED BY <1>a, <2>1, NamedFit
<1> QED
  BY <1>1, <1>2, <1>3, <1>4, <1>5, <1>6, <1>7, <1>8, <1>9

\* Several codes, one behind the other.
LEMMA LeadsThree ==
  ASSUME NEW p, NEW q, NEW r, NEW a, NEW b, NEW c, NEW d, NEW rank,
         Leads(p, a, b, rank), Leads(q, b, c, rank), Leads(r, c, d, rank)
  PROVE  Leads(p \o q \o r, a, d, rank)
<1>1. Leads(p \o q, a, c, rank)
  BY LeadsJoin
<1> QED BY <1>1, LeadsJoin

LEMMA LeadsFour ==
  ASSUME NEW p, NEW q, NEW r, NEW s, NEW a, NEW b, NEW c, NEW d, NEW e, NEW rank,
         Leads(p, a, b, rank), Leads(q, b, c, rank), Leads(r, c, d, rank), Leads(s, d, e, rank)
  PROVE  Leads(p \o q \o r \o s, a, e, rank)
<1>1. Leads(p \o q \o r, a, d, rank)
  BY LeadsThree
<1> QED BY <1>1, LeadsJoin

LEMMA LeadsFive ==
  ASSUME NEW p, NEW q, NEW r, NEW s, NEW t,
         NEW a, NEW b, NEW c, NEW d, NEW e, NEW f, NEW rank,
         Leads(p, a, b, rank), Leads(q, b, c, rank), Leads(r, c, d, rank), Leads(s, d, e, rank),
         Leads(t, e, f, rank)
  PROVE  Leads(p \o q \o r \o s \o t, a, f, rank)
<1>1. Leads(p \o q \o r \o s, a, e, rank)
  BY LeadsFour
<1> QED BY <1>1, LeadsJoin

\* The conditional tokens, each where it belongs.
LEMMA BranchMoves ==
  ASSUME NEW rank
  PROVE  /\ Leads(Op("?"), Standing(-1, 0), Standing(0, 0), rank)
         /\ Leads(Op("t"), Standing(0, 1), Standing(1, 0), rank)
         /\ Leads(Op("e"), Standing(1, 0), Standing(2, 0), rank)
         /\ \A part \in 1 .. 2 : Leads(Op(";"), Standing(part, 0), Standing(-1, 0), rank)
<1>1. ASSUME NEW op \in Branch, NEW p \in -1 .. 2, NEW q \in -1 .. 2, Turns(p, op, q), NEW h \in Nat,
             Takes(op) = h, Puts(op) = 0
      PROVE  Leads(Op(op), Standing(p, h), Standing(q, 0), rank)
  <2> DEFINE token == [op |-> op, n |-> 0, up |-> 0, name |-> "", member |-> ""]
  <2>1. op \notin Named /\ op # "J" /\ op # "{"
    BY DEF Named, Branch
  <2>2. GoodToken(token, rank)
    BY <2>1 DEF GoodToken, Named
  <2>3. Follows(Standing(p, h), token, Standing(q, 0), rank)
    <3>1. PICK a, b : a = Standing(p, h) /\ b = Standing(q, 0)
      OBVIOUS
    <3>2. a.part = p /\ a.height = h /\ b.part = q /\ b.height = 0
      BY <3>1 DEF Standing
    <3>3. Takes(token.op) = h /\ Puts(token.op) = 0 /\ Turns(a.part, token.op, b.part)
      BY <1>1, <3>2
    <3>4. b.height = a.height - h + 0 /\ h <= a.height
      BY <1>1, <3>2
    <3> HIDE DEF token
    <3> QED BY <1>1, <2>2, <3>1, <3>2, <3>3, <3>4 DEF Follows
  <2>4. Op(op) = <<token>>
    BY DEF Op
  <2> QED BY <2>3, <2>4, LeadsToken
<1>2. /\ Takes("?") = 0 /\ Puts("?") = 0 /\ Takes("t") = 1 /\ Puts("t") = 0
      /\ Takes("e") = 0 /\ Puts("e") = 0 /\ Takes(";") = 0 /\ Puts(";") = 0
  BY DEF Takes, Puts
<1>3. /\ Turns(-1, "?", 0) /\ Turns(0, "t", 1) /\ Turns(1, "e", 2)
      /\ \A part \in 1 .. 2 : Turns(part, ";", -1)
  BY DEF Turns
<1>4. /\ "?" \in Branch /\ "t" \in Branch /\ "e" \in Branch /\ ";" \in Branch
      /\ -1 \in -1 .. 2 /\ 0 \in -1 .. 2 /\ 1 \in -1 .. 2 /\ 2 \in -1 .. 2
      /\ 0 \in Nat /\ 1 \in Nat
  BY DEF Branch
<1>5. Leads(Op("?"), Standing(-1, 0), Standing(0, 0), rank)
  BY <1>1, <1>2, <1>3, <1>4
<1>6. Leads(Op("t"), Standing(0, 1), Standing(1, 0), rank)
  BY <1>1, <1>2, <1>3, <1>4
<1>7. Leads(Op("e"), Standing(1, 0), Standing(2, 0), rank)
  BY <1>1, <1>2, <1>3, <1>4
<1>8. ASSUME NEW part \in 1 .. 2 PROVE Leads(Op(";"), Standing(part, 0), Standing(-1, 0), rank)
  <2>1. part \in -1 .. 2
    OBVIOUS
  <2>2. Turns(part, ";", -1)
    BY <1>3
  <2> QED BY <1>1, <1>2, <1>4, <2>1, <2>2
<1> QED BY <1>5, <1>6, <1>7, <1>8

\* What the code of a field may rely on.
Usable(f) == f.name # "" /\ \A e \in Expressions(f) : ~Refused(e)

LEMMA PropertyLeads ==
  ASSUME NEW f, Usable(f), NEW rank,
         NEW p \in {"width", "length", "decode_length", "value", "constant", "when", "min", "max",
                    "count", "algorithm", "from", "decode_value"}, Has(f, p)
  PROVE  OneMore(Expression(f[p]), rank)
<1>1. f[p] \in Expressions(f)
  BY DEF Has, Expressions
<1> QED BY <1>1, ExpressionLeads DEF Usable

LEMMA LiteralOneMore ==
  ASSUME NEW n \in 0 .. MaxWord, NEW rank
  PROVE  OneMore(Literal(n), rank)
BY LiteralLeads DEF OneMore

LEMMA DefaultLeads ==
  ASSUME NEW f, Usable(f), NEW rank, NEW default \in 0 .. MaxWord,
         NEW p \in {"width", "length", "decode_length", "value", "constant", "when", "min", "max",
                    "count", "algorithm", "from", "decode_value"}
  PROVE  OneMore(ExpressionOr(f, p, default), rank)
<1>1. CASE Has(f, p)
  BY <1>1, PropertyLeads DEF ExpressionOr
<1>2. CASE ~Has(f, p)
  BY <1>2, LiteralOneMore DEF ExpressionOr
<1> QED BY <1>1, <1>2

LEMMA OneMoreAt ==
  ASSUME NEW p, NEW rank, OneMore(p, rank), NEW part \in -1 .. 2
  PROVE  /\ Leads(p, Standing(part, 0), Standing(part, 1), rank)
         /\ Leads(p, Standing(part, 1), Standing(part, 2), rank)
         /\ Leads(p, Standing(part, 2), Standing(part, 3), rank)
         /\ Leads(p, Standing(part, 3), Standing(part, 4), rank)
<1>1. \A h \in Nat : Leads(p, Standing(part, h), Standing(part, h + 1), rank)
  BY DEF OneMore
<1>2. 0 \in Nat /\ 1 \in Nat /\ 2 \in Nat /\ 3 \in Nat /\ 0 + 1 = 1 /\ 1 + 1 = 2 /\ 2 + 1 = 3 /\ 3 + 1 = 4
  OBVIOUS
<1>3. Leads(p, Standing(part, 0), Standing(part, 0 + 1), rank)
  BY <1>1, <1>2
<1>4. Leads(p, Standing(part, 1), Standing(part, 1 + 1), rank)
  BY <1>1, <1>2
<1>5. Leads(p, Standing(part, 2), Standing(part, 2 + 1), rank)
  BY <1>1, <1>2
<1>6. Leads(p, Standing(part, 3), Standing(part, 3 + 1), rank)
  BY <1>1, <1>2
<1> QED BY <1>2, <1>3, <1>4, <1>5, <1>6

LEMMA CheckedLeads ==
  ASSUME NEW f, Usable(f), NEW part \in -1 .. 2, NEW rank,
         NEW bound \in {"constant", "min", "max"}, NEW relation \in {"u=", "ug", "ul"},
         NEW code \in 0 .. 8
  PROVE  Leads(Checked(f, bound, relation, code), Standing(part, 0), Standing(part, 0), rank)
<1>1. CASE Has(f, bound)
  <2>1. PICK name : name = f.name /\ name # ""
    BY DEF Usable
  <2>2. Leads(On("g", name), Standing(part, 0), Standing(part, 1), rank)
    BY <2>1, OnMoves
  <2>3. Leads(Expression(f[bound]), Standing(part, 1), Standing(part, 2), rank)
    BY <1>1, PropertyLeads, OneMoreAt
  <2>4. Leads(Op(relation), Standing(part, 2), Standing(part, 1), rank)
    BY OpMoves
  <2>5. Leads(Literal(code), Standing(part, 1), Standing(part, 2), rank)
    <3>1. code \in 0 .. MaxWord
      BY SmallWords
    <3> QED BY <3>1, LiteralOneMore, OneMoreAt
  <2>6. Leads(Op("ua"), Standing(part, 2), Standing(part, 0), rank)
    BY OpMoves
  <2> QED BY <1>1, <2>1, <2>2, <2>3, <2>4, <2>5, <2>6, LeadsFive DEF Checked
<1>2. CASE ~Has(f, bound)
  BY <1>2, LeadsNothing DEF Checked
<1> QED BY <1>1, <1>2

LEMMA BytesLeads ==
  ASSUME NEW f, Usable(f), NEW part \in -1 .. 2, NEW rank, NEW decode \in BOOLEAN
  PROVE  Leads(BytesProgram(f, decode), Standing(part, 0), Standing(part, 0), rank)
<1>1. PICK name : name = f.name /\ name # ""
  BY DEF Usable
<1>2. PICK p \in {"length", "decode_length"} :
        p = IF decode /\ ~Has(f, "length") THEN "decode_length" ELSE "length"
  OBVIOUS
<1>3. CASE Has(f, p)
  <2>1. Leads(Expression(f[p]), Standing(part, 0), Standing(part, 1), rank)
    BY <1>3, PropertyLeads, OneMoreAt
  <2>2. PICK op \in {"N", "V"} : op = IF decode THEN "N" ELSE "V"
    OBVIOUS
  <2>3. Leads(On(op, name), Standing(part, 1), Standing(part, 0), rank)
    BY <1>1, OnMoves
  <2>4. BytesProgram(f, decode) = Expression(f[p]) \o On(op, name)
    BY <1>1, <1>2, <1>3, <2>2 DEF BytesProgram
  <2> QED BY <2>1, <2>3, <2>4, LeadsJoin
<1>4. CASE ~Has(f, p)
  <2>1. PICK op \in {"R", "v"} : op = IF decode THEN "R" ELSE "v"
    OBVIOUS
  <2>2. BytesProgram(f, decode) = On(op, name)
    BY <1>1, <1>2, <1>4, <2>1 DEF BytesProgram
  <2> QED BY <1>1, <2>1, <2>2, OnMoves
<1> QED BY <1>3, <1>4

LEMMA CborBytesLeads ==
  ASSUME NEW f, Usable(f), NEW part \in -1 .. 2, NEW rank, NEW decode \in BOOLEAN
  PROVE  Leads(CborBytesProgram(f, decode), Standing(part, 0), Standing(part, 0), rank)
<1>1. PICK name : name = f.name /\ name # ""
  BY DEF Usable
<1>2. PICK first, major, op :
        /\ first = IF decode THEN Literal(0) ELSE On("z", f.name)
        /\ major = IF f.type = "cbor-bytes" THEN 2 ELSE 3
        /\ op = IF decode THEN "N" ELSE "V"
  OBVIOUS
<1>3. Leads(first, Standing(part, 0), Standing(part, 1), rank)
  <2>1. Leads(Literal(0), Standing(part, 0), Standing(part, 1), rank)
    BY SmallWords, LiteralOneMore, OneMoreAt
  <2>2. Leads(On("z", name), Standing(part, 0), Standing(part, 1), rank)
    BY <1>1, OnMoves
  <2> QED BY <1>1, <1>2, <2>1, <2>2
<1>4. Leads(Literal(major), Standing(part, 1), Standing(part, 2), rank)
  <2>1. major \in 0 .. MaxWord
    BY <1>2, SmallWords
  <2> QED BY <2>1, LiteralOneMore, OneMoreAt
<1>5. Leads(Op("ub"), Standing(part, 2), Standing(part, 1), rank)
  BY OpMoves
<1>6. Leads(On(op, name), Standing(part, 1), Standing(part, 0), rank)
  BY <1>1, <1>2, OnMoves
<1>7. CborBytesProgram(f, decode) = first \o Literal(major) \o Op("ub") \o On(op, name)
  BY <1>1, <1>2 DEF CborBytesProgram
<1> QED BY <1>3, <1>4, <1>5, <1>6, <1>7, LeadsFour

LEMMA RecordsLeads ==
  ASSUME NEW source, NEW n \in Nat, DOMAIN source = 0 .. n - 1, Valid(source), NEW m \in 0 .. n - 1,
         NEW f, FieldAccepted(source, m, f), f.type = "records", Usable(f), NEW part \in -1 .. 2
  PROVE  Leads(RecordsProgram(source, f), Standing(part, 0), Standing(part, 0), m)
<1>1. PICK child : child = CHOOSE c \in Identified(source, f.message) : TRUE
  OBVIOUS
<1>2. child \in Nat /\ child < m
  <2>1. child \in 0 .. m - 1
    BY <1>1, ChildBelow
  <2> QED BY <2>1
<1>3. PICK count, until : /\ count = ExpressionOr(f, "count", IF Has(f, "until") THEN MaxWord ELSE 1)
                          /\ until = Or(f, "until", EndOfInput)
  OBVIOUS
<1>4. Leads(count, Standing(part, 0), Standing(part, 1), m)
  <2>1. PICK default \in 0 .. MaxWord : default = IF Has(f, "until") THEN MaxWord ELSE 1
    BY SmallWords
  <2> QED BY <1>3, <2>1, DefaultLeads, OneMoreAt
<1>5. Leads(Literal(until), Standing(part, 1), Standing(part, 2), m)
  <2>1. until \in 0 .. EndOfInput
    <3>1. CASE Has(f, "until")
      <4>1. f["until"] \in 0 .. EndOfInput
        BY <3>1 DEF FieldAccepted
      <4> QED BY <1>3, <3>1, <4>1 DEF Or
    <3>2. CASE ~Has(f, "until")
      BY <1>3, <3>2, SmallWords DEF Or
    <3> QED BY <3>1, <3>2
  <2>2. until \in 0 .. MaxWord
    BY <2>1, SmallWords
  <2> QED BY <2>2, LiteralOneMore, OneMoreAt
<1>6. PICK call1 : call1 = <<[On("J", f.name)[1] EXCEPT !.n = child]>>
  OBVIOUS
<1>7. Leads(call1, Standing(part, 2), Standing(part, 0), m)
  <2> DEFINE token == [op |-> "J", n |-> child, up |-> 0, name |-> f.name, member |-> ""]
  <2>1. On("J", f.name)[1] = [op |-> "J", n |-> 0, up |-> 0, name |-> f.name, member |-> ""]
    <3>1. PICK base : base = Op("J")[1]
      OBVIOUS
    <3>2. base = [op |-> "J", n |-> 0, up |-> 0, name |-> "", member |-> ""]
      BY <3>1 DEF Op
    <3>3. PICK made : made = [base EXCEPT !.name = f.name]
      OBVIOUS
    <3>4. made = [op |-> "J", n |-> 0, up |-> 0, name |-> f.name, member |-> ""]
      BY <3>2, <3>3
    <3> QED BY <3>1, <3>3, <3>4 DEF On
  <2>2. PICK base : base = On("J", f.name)[1]
    OBVIOUS
  <2>3. PICK made : made = [base EXCEPT !.n = child]
    OBVIOUS
  <2>a. base = [op |-> "J", n |-> 0, up |-> 0, name |-> f.name, member |-> ""]
    BY <2>1, <2>2
  <2>4. made = token
    BY <2>3, <2>a
  <2>5. call1 = <<token>>
    BY <1>6, <2>2, <2>3, <2>4
  <2>6. GoodToken(token, m)
    BY <1>2 DEF GoodToken, Named, Usable
  <2>7. Takes("J") = 2 /\ Puts("J") = 0 /\ "J" \notin Branch
    BY DEF Takes, Puts, Branch
  <2>8. Follows(Standing(part, 2), token, Standing(part, 0), m)
    <3>1. PICK a, b : a = Standing(part, 2) /\ b = Standing(part, 0)
      OBVIOUS
    <3>2. a.part = part /\ a.height = 2 /\ b.part = part /\ b.height = 0
      BY <3>1 DEF Standing
    <3>3. token.op = "J"
      OBVIOUS
    <3>4. Turns(a.part, token.op, b.part)
      BY <2>7, <3>2, <3>3 DEF Turns
    <3> HIDE DEF token
    <3> QED BY <2>6, <2>7, <3>1, <3>2, <3>3, <3>4 DEF Follows
  <2> HIDE DEF token
  <2> QED BY <2>5, <2>8, LeadsToken
<1>8. RecordsProgram(source, f) = count \o Literal(until) \o call1
  BY <1>1, <1>3, <1>6 DEF RecordsProgram
<1> QED BY <1>4, <1>5, <1>7, <1>8, LeadsThree

LEMMA CrcLeads ==
  ASSUME NEW f, Usable(f), NEW part \in -1 .. 2, NEW rank
  PROVE  Leads(CrcProgram(f), Standing(part, 0), Standing(part, 0), rank)
<1>1. PICK name : name = f.name /\ name # ""
  BY DEF Usable
<1>2. PICK algorithm, from, flags :
        /\ algorithm = ExpressionOr(f, "algorithm", 1)
        /\ from = IF Has(f, "from") THEN Expression(f["from"]) ELSE Op("uo")
        /\ flags = (IF Or(f, "cbor", FALSE) THEN 1 ELSE 0) + (IF Or(f, "to_end", FALSE) THEN 2 ELSE 0)
  OBVIOUS
<1>3. Leads(algorithm, Standing(part, 0), Standing(part, 1), rank)
  <2>1. 1 \in 0 .. MaxWord
    BY SmallWords
  <2> QED BY <1>2, <2>1, DefaultLeads, OneMoreAt
<1>4. Leads(from, Standing(part, 1), Standing(part, 2), rank)
  <2>1. CASE Has(f, "from")
    BY <1>2, <2>1, PropertyLeads, OneMoreAt
  <2>2. CASE ~Has(f, "from")
    BY <1>2, <2>2, OpMoves
  <2> QED BY <2>1, <2>2
<1>5. Leads(Literal(flags), Standing(part, 2), Standing(part, 3), rank)
  <2>1. PICK framed \in {0, 1} : framed = IF Or(f, "cbor", FALSE) THEN 1 ELSE 0
    OBVIOUS
  <2>2. PICK last \in {0, 2} : last = IF Or(f, "to_end", FALSE) THEN 2 ELSE 0
    OBVIOUS
  <2>3. flags = framed + last
    BY <1>2, <2>1, <2>2
  <2>4. flags \in 0 .. 256
    BY <2>3
  <2>5. flags \in 0 .. MaxWord
    BY <2>4, SmallWords
  <2> QED BY <2>5, LiteralOneMore, OneMoreAt
<1>6. Leads(On("uK", name), Standing(part, 3), Standing(part, 0), rank)
  BY <1>1, OnMoves
<1>7. CrcProgram(f) = algorithm \o from \o Literal(flags) \o On("uK", name)
  BY <1>1, <1>2 DEF CrcProgram
<1> QED BY <1>3, <1>4, <1>5, <1>6, <1>7, LeadsFour

\* The value a numeric field begins with.
LEMMA InitialLeads ==
  ASSUME NEW source, NEW m, NEW f, FieldAccepted(source, m, f), Usable(f),
         NEW part \in -1 .. 2, NEW rank, NEW decode \in BOOLEAN
  PROVE  Leads(Initial(f, decode), Standing(part, 0), Standing(part, 1), rank)
<1>1. PICK derived \in {"constant", "decode_value", "value"} :
        derived = IF Has(f, "constant") THEN "constant"
                  ELSE IF decode THEN "decode_value" ELSE "value"
  OBVIOUS
<1>2. PICK name : name = f.name /\ name # ""
  BY DEF Usable
<1>3. Has(f, derived) => Leads(Expression(f[derived]), Standing(part, 0), Standing(part, 1), rank)
  BY PropertyLeads, OneMoreAt
<1>4. CASE f.type = "mark"
  <2>1. Initial(f, decode) = Op("up")
    BY <1>4 DEF Initial
  <2> QED BY <2>1, OpMoves
<1>5. CASE f.type \in {"computed", "assert"}
  <2>1. Initial(f, decode) = Expression(IF Has(f, derived) THEN f[derived] ELSE f.value)
    BY <1>1, <1>5 DEF Initial
  <2>2. CASE Has(f, derived)
    BY <1>3, <2>1, <2>2
  <2>3. CASE ~Has(f, derived)
    <3>1. Has(f, "value")
      BY <1>5 DEF FieldAccepted
    <3>2. Leads(Expression(f["value"]), Standing(part, 0), Standing(part, 1), rank)
      BY <3>1, PropertyLeads, OneMoreAt
    <3> QED BY <2>1, <2>3, <3>2
  <2> QED BY <2>2, <2>3
<1>6. CASE f.type # "mark" /\ f.type \notin {"computed", "assert"} /\ decode /\ f.type # "parameter"
  <2>1. Initial(f, decode) = Literal(0)
    BY <1>6 DEF Initial
  <2> QED BY <2>1, SmallWords, LiteralOneMore, OneMoreAt
<1>7. CASE f.type # "mark" /\ f.type \notin {"computed", "assert"} /\ ~(decode /\ f.type # "parameter")
  <2>1. Initial(f, decode) = IF Has(f, derived) THEN Expression(f[derived]) ELSE On("g", name)
    BY <1>1, <1>2, <1>7 DEF Initial
  <2>2. Leads(On("g", name), Standing(part, 0), Standing(part, 1), rank)
    BY <1>2, OnMoves
  <2> QED BY <1>3, <2>1, <2>2
<1> QED BY <1>4, <1>5, <1>6, <1>7

LEMMA CodecLeads ==
  ASSUME NEW source, NEW m, NEW f, FieldAccepted(source, m, f), Usable(f),
         NEW part \in -1 .. 2, NEW rank, NEW decode \in BOOLEAN
  PROVE  Leads(Codec(f, decode), Standing(part, 0), Standing(part, 0), rank)
<1>1. PICK load, save : load = On("g", f.name) /\ save = On("P", f.name)
  OBVIOUS
<1>2. /\ Leads(load, Standing(part, 0), Standing(part, 1), rank)
      /\ Leads(save, Standing(part, 1), Standing(part, 0), rank)
  <2>1. f.name # ""
    BY DEF Usable
  <2> QED BY <1>1, <2>1, OnMoves
<1>3. PICK width : width = Expression(f.width)
  OBVIOUS
<1>4. f.type \in {"uint", "decimal", "bcd"} => OneMore(width, rank)
  <2>1. f.type \in {"uint", "decimal", "bcd"} => Has(f, "width")
    BY DEF FieldAccepted
  <2>2. Has(f, "width") => OneMore(Expression(f["width"]), rank)
    BY PropertyLeads
  <2> QED BY <1>3, <2>1, <2>2
<1>5. PICK swap : swap = IF Or(f, "byte_order", "") = "little-endian"
                           THEN Expression(f.width) \o Op("us") ELSE <<>>
  OBVIOUS
<1>6. f.type = "uint" => Leads(swap, Standing(part, 1), Standing(part, 1), rank)
  <2>1. SUFFICES ASSUME f.type = "uint"
                 PROVE  Leads(swap, Standing(part, 1), Standing(part, 1), rank)
    OBVIOUS
  <2>2. CASE swap = <<>>
    BY <2>2, LeadsNothing
  <2>3. CASE swap = width \o Op("us")
    <3>1. Leads(width, Standing(part, 1), Standing(part, 2), rank)
      BY <1>4, <2>1, OneMoreAt
    <3>2. Leads(Op("us"), Standing(part, 2), Standing(part, 1), rank)
      BY OpMoves
    <3> QED BY <2>3, <3>1, <3>2, LeadsJoin
  <2> QED BY <1>3, <1>5, <2>2, <2>3
<1>7. CASE f.type = "uint" /\ ~decode
  <2>1. Codec(f, decode) = load \o swap \o width \o Op("i")
    BY <1>1, <1>3, <1>5, <1>7 DEF Codec
  <2>2. Leads(width, Standing(part, 1), Standing(part, 2), rank)
    BY <1>4, <1>7, OneMoreAt
  <2>3. Leads(Op("i"), Standing(part, 2), Standing(part, 0), rank)
    BY OpMoves
  <2> QED BY <1>2, <1>6, <1>7, <2>1, <2>2, <2>3, LeadsFour
<1>8. CASE f.type = "uint" /\ decode
  <2>1. Codec(f, decode) = width \o Op("j") \o swap \o save
    BY <1>1, <1>3, <1>5, <1>8 DEF Codec
  <2>2. Leads(width, Standing(part, 0), Standing(part, 1), rank)
    BY <1>4, <1>8, OneMoreAt
  <2>3. Leads(Op("j"), Standing(part, 1), Standing(part, 1), rank)
    BY OpMoves
  <2> QED BY <1>2, <1>6, <1>8, <2>1, <2>2, <2>3, LeadsFour
<1>9. CASE f.type = "sdnv"
  <2>1. Codec(f, decode) = IF decode THEN Op("D") \o save ELSE load \o Op("d")
    BY <1>1, <1>9 DEF Codec
  <2>2. /\ Leads(Op("D"), Standing(part, 0), Standing(part, 1), rank)
        /\ Leads(Op("d"), Standing(part, 1), Standing(part, 0), rank)
    BY OpMoves
  <2>3. /\ Leads(Op("D") \o save, Standing(part, 0), Standing(part, 0), rank)
        /\ Leads(load \o Op("d"), Standing(part, 0), Standing(part, 0), rank)
    BY <1>2, <2>2, LeadsJoin
  <2> QED BY <2>1, <2>3
<1>10. CASE f.type \in {"cbor-uint", "cbor-array"}
  <2>1. PICK major \in {0, 4} : Codec(f, decode) = load \o Literal(major) \o Op("ub") \o save
    BY <1>1, <1>10 DEF Codec
  <2>2. Leads(Literal(major), Standing(part, 1), Standing(part, 2), rank)
    BY SmallWords, LiteralOneMore, OneMoreAt
  <2>3. Leads(Op("ub"), Standing(part, 2), Standing(part, 1), rank)
    BY OpMoves
  <2> QED BY <1>2, <2>1, <2>2, <2>3, LeadsFour
<1>11. CASE f.type \in {"decimal", "bcd"}
  <2>1. PICK mode \in {0, 1} : Codec(f, decode) = load \o width \o Literal(mode) \o Op("ud") \o save
    BY <1>1, <1>3, <1>11 DEF Codec
  <2>2. Leads(width, Standing(part, 1), Standing(part, 2), rank)
    BY <1>4, <1>11, OneMoreAt
  <2>3. Leads(Literal(mode), Standing(part, 2), Standing(part, 3), rank)
    BY SmallWords, LiteralOneMore, OneMoreAt
  <2>4. Leads(Op("ud"), Standing(part, 3), Standing(part, 1), rank)
    BY OpMoves
  <2> QED BY <1>2, <2>1, <2>2, <2>3, <2>4, LeadsFive
<1>12. CASE f.type = "terminated-uint"
  <2>1. PICK length, mask, stop :
          /\ length = ExpressionOr(f, "length", 0)
          /\ mask = Literal(Or(f, "termination_mask", 1))
          /\ stop = Literal(Or(f, "termination_value", 1))
    OBVIOUS
  <2>2. Codec(f, decode) = load \o length \o mask \o stop \o Op("uT") \o save
    BY <1>1, <1>12, <2>1 DEF Codec
  <2>8. 0 \in 0 .. MaxWord /\ \A n \in 1 .. Base - 1 : n \in 0 .. MaxWord
    BY SmallWords
  <2>3. Leads(length, Standing(part, 1), Standing(part, 2), rank)
    BY <2>1, <2>8, DefaultLeads, OneMoreAt
  <2>9. /\ Or(f, "termination_mask", 1) \in 0 .. MaxWord
        /\ Or(f, "termination_value", 1) \in 0 .. MaxWord
    BY <1>12, <2>8 DEF FieldAccepted
  <2>4. Leads(mask, Standing(part, 2), Standing(part, 3), rank)
    BY <2>1, <2>9, LiteralOneMore, OneMoreAt
  <2>5. Leads(stop, Standing(part, 3), Standing(part, 4), rank)
    BY <2>1, <2>9, LiteralOneMore, OneMoreAt
  <2>6. Leads(Op("uT"), Standing(part, 4), Standing(part, 1), rank)
    BY OpMoves
  <2>7. Leads(load \o length \o mask \o stop \o Op("uT"), Standing(part, 0), Standing(part, 1), rank)
    BY <1>2, <2>3, <2>4, <2>5, <2>6, LeadsFive
  <2> QED BY <1>2, <2>2, <2>7, LeadsJoin
<1>13. CASE f.type = "assert"
  <2>1. Codec(f, decode) = load \o Literal(ConstraintCode) \o Op("ua")
    BY <1>1, <1>13 DEF Codec
  <2>2. Leads(Literal(ConstraintCode), Standing(part, 1), Standing(part, 2), rank)
    BY SmallWords, LiteralOneMore, OneMoreAt DEF ConstraintCode
  <2>3. Leads(Op("ua"), Standing(part, 2), Standing(part, 0), rank)
    BY OpMoves
  <2> QED BY <1>2, <2>1, <2>2, <2>3, LeadsThree
<1>14. CASE f.type \notin {"uint", "sdnv", "cbor-uint", "cbor-array", "decimal", "bcd",
                           "terminated-uint", "assert"}
  <2>1. Codec(f, decode) = <<>>
    BY <1>14 DEF Codec
  <2> QED BY <2>1, LeadsNothing
<1> QED BY <1>7, <1>8, <1>9, <1>10, <1>11, <1>12, <1>13, <1>14

\* A conditional around a body that may stand anywhere.
LEMMA ConditionalLeads ==
  ASSUME NEW f, Usable(f), NEW decode \in BOOLEAN, NEW rank, NEW body,
         \A part \in -1 .. 2 : Leads(body, Standing(part, 0), Standing(part, 0), rank)
  PROVE  Leads(Conditional(f, decode, body), Standing(-1, 0), Standing(-1, 0), rank)
<1>a. -1 \in -1 .. 2 /\ 0 \in -1 .. 2 /\ 1 \in -1 .. 2 /\ 2 \in -1 .. 2 /\ 1 \in 1 .. 2 /\ 2 \in 1 .. 2
  OBVIOUS
<1>1. CASE Has(f, "when")
  <2>1. PICK when : when = Expression(f.when)
    OBVIOUS
  <2>2. Leads(when, Standing(0, 0), Standing(0, 1), rank)
    <3>1. OneMore(Expression(f["when"]), rank)
      BY <1>1, PropertyLeads
    <3> QED BY <1>a, <2>1, <3>1, OneMoreAt
  <2>3. Leads(Op("?") \o when \o Op("t") \o body, Standing(-1, 0), Standing(1, 0), rank)
    <3>1. /\ Leads(Op("?"), Standing(-1, 0), Standing(0, 0), rank)
          /\ Leads(Op("t"), Standing(0, 1), Standing(1, 0), rank)
      BY BranchMoves
    <3>2. Leads(body, Standing(1, 0), Standing(1, 0), rank)
      BY <1>a
    <3> QED BY <2>2, <3>1, <3>2, LeadsFour
  <2>4. PICK other : other = IF decode THEN Op("e") \o On("uZ", f.name) ELSE <<>>
    OBVIOUS
  <2>5. Conditional(f, decode, body) = Op("?") \o when \o Op("t") \o body \o other \o Op(";")
    BY <1>1, <2>1, <2>4 DEF Conditional
  <2>6. CASE decode
    <3>1. Leads(Op("e"), Standing(1, 0), Standing(2, 0), rank)
      BY BranchMoves
    <3>2. Leads(On("uZ", f.name), Standing(2, 0), Standing(2, 0), rank)
      BY <1>a, OnMoves DEF Usable
    <3>3. Leads(other, Standing(1, 0), Standing(2, 0), rank)
      BY <2>4, <2>6, <3>1, <3>2, LeadsJoin
    <3>4. Leads(Op(";"), Standing(2, 0), Standing(-1, 0), rank)
      BY <1>a, BranchMoves
    <3> QED BY <2>3, <2>5, <3>3, <3>4, LeadsThree
  <2>7. CASE ~decode
    <3>1. Leads(other, Standing(1, 0), Standing(1, 0), rank)
      BY <2>4, <2>7, LeadsNothing
    <3>2. Leads(Op(";"), Standing(1, 0), Standing(-1, 0), rank)
      BY <1>a, BranchMoves
    <3> QED BY <2>3, <2>5, <3>1, <3>2, LeadsThree
  <2> QED BY <2>6, <2>7
<1>2. CASE ~Has(f, "when")
  BY <1>2, <1>a DEF Conditional
<1> QED BY <1>1, <1>2

LEMMA FieldLeads ==
  ASSUME NEW source, NEW n \in Nat, DOMAIN source = 0 .. n - 1, Valid(source), NEW m \in 0 .. n - 1,
         NEW f, FieldAccepted(source, m, f), Usable(f), NEW decode \in BOOLEAN
  PROVE  Leads(FieldProgram(source, f, decode), Standing(-1, 0), Standing(-1, 0), m)
<1>1. PICK before, middle, constant, minimum, maximum :
        /\ before = IF f.type \in {"uint", "parameter", "computed", "assert"} THEN <<>> ELSE Op("uf")
        /\ middle = CASE f.type = "bytes" -> BytesProgram(f, decode)
                      [] f.type \in {"cbor-bytes", "cbor-text"} -> CborBytesProgram(f, decode)
                      [] f.type = "records" -> RecordsProgram(source, f)
                      [] f.type = "crc" -> CrcProgram(f)
                      [] OTHER -> Initial(f, decode) \o On("P", f.name) \o Codec(f, decode)
        /\ constant = IF decode THEN Checked(f, "constant", "u=", ConstantCode) ELSE <<>>
        /\ minimum = Checked(f, "min", "ug", RangeCode)
        /\ maximum = Checked(f, "max", "ul", RangeCode)
  OBVIOUS
<1>2. PICK body : body = before \o middle \o constant \o minimum \o maximum
  OBVIOUS
<1>3. FieldProgram(source, f, decode) = Conditional(f, decode, body)
  BY <1>1, <1>2 DEF FieldProgram
<1>4. ASSUME NEW part \in -1 .. 2
      PROVE  Leads(body, Standing(part, 0), Standing(part, 0), m)
  <2>1. Leads(before, Standing(part, 0), Standing(part, 0), m)
    <3>1. before = <<>> \/ before = Op("uf")
      BY <1>1
    <3> QED BY <3>1, LeadsNothing, OpMoves
  <2>2. Leads(middle, Standing(part, 0), Standing(part, 0), m)
    <3>1. CASE f.type = "bytes"
      <4>1. middle = BytesProgram(f, decode)
        BY <1>1, <3>1
      <4> QED BY <4>1, BytesLeads
    <3>2. CASE f.type \in {"cbor-bytes", "cbor-text"}
      <4>1. middle = CborBytesProgram(f, decode)
        BY <1>1, <3>2
      <4> QED BY <4>1, CborBytesLeads
    <3>3. CASE f.type = "records"
      <4>1. middle = RecordsProgram(source, f)
        BY <1>1, <3>3
      <4> QED BY <3>3, <4>1, RecordsLeads
    <3>4. CASE f.type = "crc"
      <4>1. middle = CrcProgram(f)
        BY <1>1, <3>4
      <4> QED BY <4>1, CrcLeads
    <3>5. CASE f.type \notin {"bytes", "cbor-bytes", "cbor-text", "records", "crc"}
      <4>1. middle = Initial(f, decode) \o On("P", f.name) \o Codec(f, decode)
        BY <1>1, <3>5
      <4>2. Leads(Initial(f, decode), Standing(part, 0), Standing(part, 1), m)
        BY InitialLeads
      <4>3. Leads(On("P", f.name), Standing(part, 1), Standing(part, 0), m)
        BY OnMoves DEF Usable
      <4>4. Leads(Codec(f, decode), Standing(part, 0), Standing(part, 0), m)
        BY CodecLeads
      <4> QED BY <4>1, <4>2, <4>3, <4>4, LeadsThree
    <3> QED BY <3>1, <3>2, <3>3, <3>4, <3>5
  <2>3. Leads(constant, Standing(part, 0), Standing(part, 0), m)
    <3>1. Leads(Checked(f, "constant", "u=", ConstantCode), Standing(part, 0), Standing(part, 0), m)
      BY CheckedLeads DEF ConstantCode
    <3> QED BY <1>1, <3>1, LeadsNothing
  <2>4. Leads(minimum, Standing(part, 0), Standing(part, 0), m)
    BY <1>1, CheckedLeads DEF RangeCode
  <2>5. Leads(maximum, Standing(part, 0), Standing(part, 0), m)
    BY <1>1, CheckedLeads DEF RangeCode
  <2> QED BY <1>2, <2>1, <2>2, <2>3, <2>4, <2>5, LeadsFive
<1> QED BY <1>3, <1>4, ConditionalLeads

\* A message's program begins and ends outside of conditionals, with an empty stack.
LEMMA ProgramLeads ==
  ASSUME NEW source, NEW n \in Nat, DOMAIN source = 0 .. n - 1, IsSource(source), Compiles(source),
         NEW m \in 0 .. n - 1, NEW decode \in BOOLEAN
  PROVE  Leads(Program(source, m, decode), Standing(-1, 0), Standing(-1, 0), m)
<1>1. PICK l \in Nat : l = Len(source[m].fields)
  BY RowsEnd
<1>2. DOMAIN source[m].fields = 1 .. l
  BY <1>1 DEF IsSource, IsArray
<1>a. Valid(source)
  BY DEF Compiles
<1> DEFINE s == [i \in 1 .. l |-> FieldProgram(source, source[m].fields[i], decode)]
           st == [i \in 0 .. l |-> Standing(-1, 0)]
<1>3. ASSUME NEW i \in 1 .. l PROVE Leads(s[i], st[i - 1], st[i], m)
  <2>1. PICK f : f = source[m].fields[i]
    OBVIOUS
  <2>2. FieldAccepted(source, m, f)
    BY <1>2, <1>a, <2>1 DEF Valid, Messages
  <2>3. f.name # ""
    BY <2>2 DEF FieldAccepted
  <2>4. \A e \in Expressions(f) : ~Refused(e)
    BY <1>2, <2>1 DEF Compiles, Messages
  <2>5. Leads(FieldProgram(source, f, decode), Standing(-1, 0), Standing(-1, 0), m)
    BY <1>a, <2>2, <2>3, <2>4, FieldLeads DEF Usable
  <2>6. i - 1 \in 0 .. l /\ i \in 0 .. l
    OBVIOUS
  <2> QED BY <2>1, <2>5, <2>6
<1>4. s = [i \in 1 .. l |-> s[i]] /\ st[0] = Standing(-1, 0) /\ st[l] = Standing(-1, 0)
  OBVIOUS
<1>5. Program(source, m, decode) = FlattenSeq(s) \o Op("uF")
  BY <1>2 DEF Program
<1> HIDE DEF s, st
<1>6. Leads(FlattenSeq(s), Standing(-1, 0), Standing(-1, 0), m)
  BY <1>3, <1>4, FlattenLeads
<1>7. Leads(Op("uF"), Standing(-1, 0), Standing(-1, 0), m)
  <2>1. -1 \in -1 .. 2
    OBVIOUS
  <2> QED BY <2>1, OpMoves
<1> QED BY <1>5, <1>6, <1>7, LeadsJoin

\* The conditionals that are open, for the loader.
PartOpen(p) == IF p = -1 THEN <<>> ELSE <<p>>
NextOpen(before, op) ==
  LET part == IF before = <<>> THEN -1 ELSE Last(before)
  IN IF before = Bad \/ op \notin Branch THEN before
     ELSE CASE op = "?" -> IF Len(before) = 64 THEN Bad ELSE Append(before, 0)
            [] op = "t" -> IF part = 0 THEN Append(Front(before), 1) ELSE Bad
            [] op = "e" -> IF part = 1 THEN Append(Front(before), 2) ELSE Bad
            [] op = ";" -> IF part \in {1, 2} THEN Front(before) ELSE Bad

LEMMA NextOpened ==
  ASSUME NEW p \in -1 .. 2, NEW op, NEW q, Turns(p, op, q)
  PROVE  NextOpen(PartOpen(p), op) = PartOpen(q)
<1>1. PICK before : before = PartOpen(p)
  OBVIOUS
<1>2. before # Bad
  <2>1. CASE p = -1
    <3>1. Len(before) = 0 /\ Len(Bad) = 1
      BY <1>1, <2>1 DEF PartOpen, Bad
    <3> QED BY <3>1
  <2>2. CASE p # -1
    <3>1. before[1] = p /\ Bad[1] = -1
      BY <1>1, <2>2 DEF PartOpen, Bad
    <3> QED BY <2>2, <3>1
  <2> QED BY <2>1, <2>2
<1>3. p # -1 => /\ before = <<p>> /\ before # <<>> /\ Last(before) = p /\ Front(before) = <<>>
  <2> SUFFICES ASSUME p # -1
               PROVE  /\ before = <<p>> /\ before # <<>> /\ Last(before) = p /\ Front(before) = <<>>
    OBVIOUS
  <2>1. before = <<p>>
    BY <1>1 DEF PartOpen
  <2>2. Len(before) = 1 /\ before[1] = p /\ before # <<>>
    BY <2>1
  <2>3. Last(before) = p
    BY <2>2 DEF Last
  <2>4. Front(before) = <<>>
    BY <2>1 DEF Front
  <2> QED BY <2>1, <2>2, <2>3, <2>4
<1>4. p = -1 => before = <<>> /\ Len(before) = 0
  BY <1>1 DEF PartOpen
<1>5. Append(<<>>, 0) = <<0>> /\ Append(<<>>, 1) = <<1>> /\ Append(<<>>, 2) = <<2>>
  OBVIOUS
<1>6. CASE op \notin Branch
  BY <1>1, <1>6 DEF Turns, NextOpen, Branch
<1>7. CASE op = "?"
  <2>1. p = -1 /\ q = 0 /\ op \in Branch
    BY <1>7 DEF Turns, Branch
  <2>2. NextOpen(before, op) = Append(before, 0)
    BY <1>2, <1>4, <1>7, <2>1 DEF NextOpen
  <2> QED BY <1>1, <1>4, <1>5, <2>1, <2>2 DEF PartOpen
<1>8. CASE op = "t"
  <2>1. p = 0 /\ q = 1 /\ op \in Branch
    BY <1>8 DEF Turns, Branch
  <2>2. NextOpen(before, op) = Append(Front(before), 1)
    BY <1>2, <1>3, <1>8, <2>1 DEF NextOpen
  <2> QED BY <1>1, <1>3, <1>5, <2>1, <2>2 DEF PartOpen
<1>9. CASE op = "e"
  <2>1. p = 1 /\ q = 2 /\ op \in Branch
    BY <1>9 DEF Turns, Branch
  <2>2. NextOpen(before, op) = Append(Front(before), 2)
    BY <1>2, <1>3, <1>9, <2>1 DEF NextOpen
  <2> QED BY <1>1, <1>3, <1>5, <2>1, <2>2 DEF PartOpen
<1>10. CASE op = ";"
  <2>1. p \in {1, 2} /\ q = -1 /\ op \in Branch
    BY <1>10 DEF Turns, Branch
  <2>a. p \in {1, 2} /\ before # <<>> /\ Last(before) = p
    BY <1>3, <2>1
  <2>b. PICK part : part = IF before = <<>> THEN -1 ELSE Last(before)
    OBVIOUS
  <2>c. part \in {1, 2}
    BY <2>a, <2>b
  <2>2. NextOpen(before, op) = Front(before)
    BY <1>2, <1>10, <2>1, <2>b, <2>c DEF NextOpen
  <2> QED BY <1>1, <1>3, <2>1, <2>2 DEF PartOpen
<1> QED BY <1>6, <1>7, <1>8, <1>9, <1>10 DEF Branch

LEMMA LeadsOpened ==
  ASSUME NEW p, NEW rank, Leads(p, Standing(-1, 0), Standing(-1, 0), rank)
  PROVE  Opened(p) = <<>>
<1>1. PICK f : Along(f, p, Standing(-1, 0), Standing(-1, 0), rank)
  BY DEF Leads
<1>2. PICK n \in Nat : n = Len(p)
  BY DEF Leads, IsArray
<1> DEFINE Opens1(h) == h = [i \in 0 .. n |-> IF i = 0 THEN <<>> ELSE NextOpen(h[i - 1], p[i].op)]
           g == [i \in 0 .. n |-> PartOpen(f[i].part)]
<1>3. f[0].part = -1 /\ f[n].part = -1
  BY <1>1, <1>2 DEF Along, Standing
<1>4. ASSUME NEW i \in 1 .. n PROVE PartOpen(f[i].part) = NextOpen(PartOpen(f[i - 1].part), p[i].op)
  <2>1. Follows(f[i - 1], p[i], f[i], rank)
    BY <1>1, <1>2 DEF Along
  <2>2. f[i - 1].part \in -1 .. 2 /\ Turns(f[i - 1].part, p[i].op, f[i].part)
    BY <2>1 DEF Follows
  <2> QED BY <2>2, NextOpened
<1>5. Opens1(g)
  <2>1. ASSUME NEW i \in 0 .. n PROVE g[i] = IF i = 0 THEN <<>> ELSE NextOpen(g[i - 1], p[i].op)
    <3>1. CASE i = 0
      BY <1>3, <3>1 DEF PartOpen
    <3>2. CASE i # 0
      <4>1. i \in 1 .. n /\ i - 1 \in 0 .. n
        BY <3>2
      <4>2. g[i] = PartOpen(f[i].part) /\ g[i - 1] = PartOpen(f[i - 1].part)
        BY <4>1
      <4> QED BY <1>4, <3>2, <4>1, <4>2
    <3> QED BY <3>1, <3>2
  <2>2. g = [i \in 0 .. n |-> g[i]]
    OBVIOUS
  <2> HIDE DEF g
  <2> QED BY <2>1, <2>2
<1>6. PICK h : h = CHOOSE z : Opens1(z)
  OBVIOUS
<1>7. Opens1(h)
  BY <1>5, <1>6
<1>8. Opened(p) = h[n]
  BY <1>2, <1>6 DEF Opened, NextOpen
<1>9. h[0] = <<>> /\ \A i \in 1 .. n : h[i] = NextOpen(h[i - 1], p[i].op)
  <2>1. \A i \in 0 .. n : h[i] = IF i = 0 THEN <<>> ELSE NextOpen(h[i - 1], p[i].op)
    BY <1>7
  <2>2. 0 \in 0 .. n
    OBVIOUS
  <2> QED BY <2>1, <2>2
<1> HIDE DEF Opens1, g
<1> DEFINE I == {i \in Nat : i <= n => h[i] = PartOpen(f[i].part)}
<1>10. 0 \in I
  BY <1>3, <1>9 DEF PartOpen
<1>11. ASSUME NEW i \in I PROVE i + 1 \in I
  <2> SUFFICES ASSUME i + 1 <= n PROVE h[i + 1] = PartOpen(f[i + 1].part)
    OBVIOUS
  <2>1. i + 1 \in 1 .. n /\ (i + 1) - 1 = i /\ h[i] = PartOpen(f[i].part)
    OBVIOUS
  <2>2. h[i + 1] = NextOpen(h[i], p[i + 1].op)
    BY <1>9, <2>1
  <2> QED BY <1>4, <2>1, <2>2
<1> HIDE DEF I
<1>12. I \in SUBSET Nat
  BY DEF I
<1>13. n \in I
  BY <1>10, <1>11, <1>12, SetInduction
<1> QED BY <1>3, <1>8, <1>13 DEF I, PartOpen

LEMMA ProgramsAreValid ==
  ASSUME NEW source, IsSource(source), Compiles(source)
  PROVE  ProgramsValid(source)
<1>1. PICK n \in Nat : DOMAIN source = 0 .. n - 1
  BY MessagesNumbered
<1>2. SUFFICES ASSUME NEW m \in 0 .. n - 1, NEW decode \in BOOLEAN
               PROVE  ProgramValid(Program(source, m, decode), m)
  BY <1>1 DEF ProgramsValid, Messages
<1>3. PICK p : p = Program(source, m, decode)
  OBVIOUS
<1>4. Leads(p, Standing(-1, 0), Standing(-1, 0), m)
  BY <1>1, <1>3, ProgramLeads
<1>5. Opened(p) = <<>>
  BY <1>4, LeadsOpened
<1>6. ASSUME NEW i \in DOMAIN p PROVE GoodToken(p[i], m)
  <2>1. i \in 1 .. Len(p)
    BY <1>4 DEF Leads, IsArray
  <2> QED BY <1>4, <2>1 DEF Leads, Along, Follows
<1> QED BY <1>3, <1>5, <1>6 DEF ProgramValid, GoodToken

-----------------------------------------------------------------------------
(* The catalog of an exchange                                                *)

LEMMA StepKeepsCatalog ==
  ASSUME Step
  PROVE  db' = db /\ call' = call
<1>1. CASE NameUnknown
  BY <1>1 DEF NameUnknown, Do, DoAndSet, Jump
<1>2. CASE PushLiteral
  BY <1>2 DEF PushLiteral, Do, DoAndSet, Jump
<1>3. CASE LoadField
  BY <1>3 DEF LoadField, Do, DoAndSet, Jump
<1>4. CASE StoreField
  BY <1>4 DEF StoreField, Do, DoAndSet, Jump
<1>5. CASE MeasureField
  BY <1>5 DEF MeasureField, Do, DoAndSet, Jump
<1>6. CASE ClearField
  BY <1>6 DEF ClearField, Do, DoAndSet, Jump
<1>7. CASE NoBranch
  BY <1>7 DEF NoBranch, Do, DoAndSet, Jump
<1>8. CASE TestCondition
  BY <1>8 DEF TestCondition, Do, DoAndSet, Jump
<1>9. CASE SkipElse
  BY <1>9 DEF SkipElse, Do, DoAndSet, Jump
<1>10. CASE Combine
  BY <1>10 DEF Combine, Do, DoAndSet, Jump
<1>11. CASE Negate
  BY <1>11 DEF Negate, Do, DoAndSet, Jump
<1>12. CASE Select
  BY <1>12 DEF Select, Do, DoAndSet, Jump
<1>13. CASE Query
  BY <1>13 DEF Query, Do, DoAndSet, Jump
<1>14. CASE Require
  BY <1>14 DEF Require, Do, DoAndSet, Jump
<1>15. CASE Swap
  BY <1>15 DEF Swap, Do, DoAndSet, Jump
<1>16. CASE RequireAligned
  BY <1>16 DEF RequireAligned, Do, DoAndSet, Jump
<1>17. CASE EmitField
  BY <1>17 DEF EmitField, Do, DoAndSet, Jump
<1>18. CASE ReadField
  BY <1>18 DEF ReadField, Do, DoAndSet, Jump
<1>19. CASE EmitSdnv
  BY <1>19 DEF EmitSdnv, Do, DoAndSet, Jump
<1>20. CASE ReadSdnv
  BY <1>20 DEF ReadSdnv, Do, DoAndSet, Jump
<1>21. CASE CborHead
  BY <1>21 DEF CborHead, Do, DoAndSet, Jump
<1>22. CASE Decimal
  BY <1>22 DEF Decimal, Do, DoAndSet, Jump
<1>23. CASE Terminated
  BY <1>23 DEF Terminated, Do, DoAndSet, Jump
<1>24. CASE ByteAt
  BY <1>24 DEF ByteAt, Do, DoAndSet, Jump
<1>25. CASE SliceField
  BY <1>25 DEF SliceField, Do, DoAndSet, Jump
<1>26. CASE QueryList
  BY <1>26 DEF QueryList, Do, DoAndSet, Jump
<1>27. CASE BeginRows
  BY <1>27 DEF BeginRows, Do, DoAndSet, Jump
<1>28. CASE EndRows
  BY <1>28 DEF EndRows, Do, DoAndSet, Jump
<1>29. CASE RowsOverflow
  BY <1>29 DEF RowsOverflow, Do, DoAndSet, Jump
<1>30. CASE EnterRow
  BY <1>30 DEF EnterRow, Do, DoAndSet, Jump
<1>31. CASE LeaveRow
  BY <1>31 DEF LeaveRow, Do, DoAndSet, Jump
<1>32. CASE PlaceCrc
  BY <1>32 DEF PlaceCrc, Do, DoAndSet, Jump
<1>33. CASE FinishCrc
  BY <1>33 DEF FinishCrc, Do, DoAndSet, Jump
<1>34. CASE EndCall
  BY <1>34 DEF EndCall, Do, DoAndSet, Jump
<1> QED
  BY <1>1, <1>2, <1>3, <1>4, <1>5, <1>6, <1>7, <1>8, <1>9, <1>10, <1>11, <1>12, <1>13, <1>14, <1>15, <1>16,
     <1>17, <1>18, <1>19, <1>20, <1>21, <1>22, <1>23, <1>24, <1>25, <1>26, <1>27, <1>28, <1>29, <1>30, <1>31, <1>32,
     <1>33, <1>34 DEF Step

\* What is open has been compiled, and is the image of its source.
Compiled ==
  stage \notin {"source", "invalid"} =>
    Compiles(exchange.source) /\ db = Image(exchange.source)
CatalogInv == exchange \in Exchanges /\ stage # "unusable" /\ Compiled

LEMMA InitCatalog == Init => CatalogInv
BY DEF Init, CatalogInv, Compiled

LEMMA NextCatalog ==
  ASSUME CatalogInv, [Next]_vars
  PROVE  CatalogInv'
<1>1. exchange' = exchange
  BY DEF Next, vars, Compile, Open, Send, Sent, ReceiveIntact, ReceiveCut, ReceiveFlipped, ReceiveAgain,
         Receive, Received, Calling, Over
<1>2. IsSource(exchange.source)
  BY SourcesAssumption DEF CatalogInv
<1>3. CASE Compile
  BY <1>1, <1>3 DEF Compile, CatalogInv, Compiled
<1>4. CASE Open
  <2>1. Compiles(exchange.source) /\ db = Image(exchange.source)
    BY <1>4 DEF Open, CatalogInv, Compiled
  <2>2. Opens(db)
    BY <1>2, <2>1, ProgramsAreValid, ImageOpens DEF Compiles
  <2>3. stage' = "open" /\ db' = db
    BY <1>4, <2>2 DEF Open, callVars
  <2> QED BY <1>1, <2>1, <2>3 DEF CatalogInv, Compiled
<1>5. ASSUME db' = db, stage \notin {"source", "invalid"}, stage' # "unusable"
      PROVE  CatalogInv'
  BY <1>1, <1>5 DEF CatalogInv, Compiled
<1>6. CASE Send
  BY <1>5, <1>6 DEF Send
<1>7. CASE Sent
  BY <1>5, <1>7 DEF Sent, callVars
<1>8. CASE ReceiveIntact \/ ReceiveCut \/ ReceiveFlipped \/ ReceiveAgain
  BY <1>5, <1>8 DEF ReceiveIntact, ReceiveCut, ReceiveFlipped, ReceiveAgain, Receive
<1>9. CASE Received
  BY <1>5, <1>9 DEF Received, callVars
<1>10. CASE Calling
  BY <1>1, <1>10, StepKeepsCatalog DEF Calling, CatalogInv, Compiled
<1>11. CASE Over \/ UNCHANGED vars
  BY <1>1, <1>11 DEF Over, vars, callVars, CatalogInv, Compiled
<1> QED
  BY <1>3, <1>4, <1>6, <1>7, <1>8, <1>9, <1>10, <1>11 DEF Next

\* The loader opens every image wfc writes, and under the numbers of the generated
\* header the catalog has the names, types, children and programs of the schema.
THEOREM CatalogDescribed == Spec => []CatalogDescribesSource
<1>1. CatalogInv => CatalogDescribesSource
  <2> SUFFICES ASSUME CatalogInv PROVE CatalogDescribesSource
    OBVIOUS
  <2>1. SUFFICES ASSUME stage = "open", NEW m \in Messages(exchange.source)
                 PROVE  Catalogued(db, exchange.source, m)
    BY DEF CatalogInv, CatalogDescribesSource, Catalogued
  <2>2. PICK source : source = exchange.source
    OBVIOUS
  <2>3. IsSource(source) /\ Compiles(source) /\ db = Image(source)
    BY <2>1, <2>2, SourcesAssumption DEF CatalogInv, Compiled
  <2>4. PICK n \in Nat : DOMAIN source = 0 .. n - 1
    BY <2>3, MessagesNumbered
  <2>5. LaidOut(db, source, n)
    BY <2>3, <2>4, ImageLayout
  <2>6. m \in 0 .. n - 1
    BY <2>1, <2>2, <2>4 DEF Messages
  <2>7. Catalogued(db, source, m)
    BY <2>3, <2>4, <2>5, <2>6, CatalogOf DEF Compiles
  <2> QED BY <2>2, <2>7
<1>2. CatalogInv /\ [Next]_vars => CatalogInv'
  BY NextCatalog
<1> QED BY <1>1, <1>2, InitCatalog, PTL DEF Spec
=============================================================================
