-------------------------- MODULE WireFormatProofs --------------------------
(***************************************************************************)
(* The call stack of the interpreter is safe for every table that          *)
(* wi_set_formats() accepts, every format string and every input.          *)
(*                                                                         *)
(* CallsDescend, BudgetKept and CallDepthSufficient speak of the formats   *)
(* that are active in the running context and in every context waiting in  *)
(* %J.  ControlInv states per context (ContextOK) what they need, and      *)
(* nothing about the data: whatever a handler computes, only %[n], %J[n],  *)
(* the end of a string and the end of a row move the control part.         *)
(***************************************************************************)
EXTENDS WireFormat, SequenceTheorems, TLAPS

At == [fmt : Int, pc : Nat \ {0}]

\* The data that frames and waiting contexts carry along is left untyped: L is
\* any set that holds it.
FrameOf(L)  == [fmt : Int, pc : Nat \ {0}, left : L]
Frames(L)   == Seq(FrameOf(L))
Context(L)  == [wi : L, at : At, frames : Frames(L), pending : L, list : L, count : L,
                row : L, callee : L]
Contexts(L) == Seq(Context(L))

Shape ==
  /\ at \in At
  /\ \E L : frames \in Frames(L) /\ suspended \in Contexts(L)

\* What a context may execute: a format of the table, or the string above them all.
Ranks(t) == DOMAIN t.fmts \cup {t.nfmts}

AllCountedIn(t)  == \A k \in DOMAIN t.fmts : Callees(t, t.fmts[k], k) = Counted(t, k)
NeedIn(t, d, f)  == IF f = t.nfmts THEN CALL_DEPTH ELSE d[f]

\* The active formats of one context, outermost first.
ActiveIn(fr, a, i) == IF i <= Len(fr) THEN fr[i].fmt ELSE a.fmt

ContextOK(t, d, fr, a, level) ==
  /\ \A i \in 1 .. Len(fr) + 1 : ActiveIn(fr, a, i) \in Ranks(t)
  /\ \A i \in 1 .. Len(fr) : ActiveIn(fr, a, i + 1) < ActiveIn(fr, a, i)
  /\ AllCountedIn(t) => \A i \in 1 .. Len(fr) + 1 :
                          NeedIn(t, d, ActiveIn(fr, a, i)) + (i - 1) + level <= CALL_DEPTH

\* The c-th context, waiting in %J for the rows that its callee reads or writes.
Waiting(t, d, s, c) ==
  /\ ContextOK(t, d, s.frames, s.at, c - 1)
  /\ s.callee \in DOMAIN t.fmts /\ s.callee < s.at.fmt
  /\ AllCountedIn(t) => NeedIn(t, d, s.callee) + c <= CALL_DEPTH

Installed ==
  IF status \in {"setup", "refused"}
    THEN table = [nfmts |-> 0, fmts |-> <<>>]
    ELSE /\ table = job.table
         /\ depths \in [0..table.nfmts-1 -> 1..CALL_DEPTH]
         /\ Accepts(table, depths, CALL_DEPTH, MAX_FORMATS)

ControlInv ==
  /\ job \in Jobs /\ turn \in 1..Len(job.tops)
  /\ status # "parsing" => suspended = <<>> \/ status = "trapped"
  /\ Installed
  /\ Shape
  /\ ContextOK(table, depths, frames, at, Len(suspended))
  /\ \A c \in 1..Len(suspended) : Waiting(table, depths, suspended[c], c)
  /\ \A c \in 1..Len(suspended)-1 :
        ActiveIn(suspended[c+1].frames, suspended[c+1].at, 1) < suspended[c].at.fmt
  /\ suspended # <<>> =>
        ActiveIn(frames, at, 1) < suspended[Len(suspended)].at.fmt

-----------------------------------------------------------------------------
(* Typing                                                                    *)

\* A larger set of data still types the same frames and contexts.
LEMMA Grow ==
  ASSUME NEW L, NEW M, L \subseteq M
  PROVE  Frames(L) \subseteq Frames(M) /\ Contexts(L) \subseteq Contexts(M)
<1>1. \A S, U : S \subseteq U => Seq(S) \subseteq Seq(U)
  OBVIOUS
<1>2. FrameOf(L) \subseteq FrameOf(M) /\ Frames(L) \subseteq Frames(M)
  BY <1>1 DEF Frames, FrameOf
<1>3. Context(L) \subseteq Context(M)
  BY <1>2 DEF Context
<1>4. Contexts(L) \subseteq Contexts(M)
  BY <1>1, <1>3 DEF Contexts
<1> QED BY <1>2, <1>4

\* The table and the strings of every accepted state are well typed, and the table
\* is the caller's.  (wi_set_formats)
LEMMA TableTyped ==
  ASSUME ControlInv
  PROVE  /\ IsTable(table) /\ table.nfmts \in Nat
         /\ DOMAIN table.fmts \subseteq 0..table.nfmts-1
         /\ Ranks(table) \subseteq Nat
<1>1. IsJob(job)
  BY JobsAssumption DEF ControlInv
<1>2. CASE status \in {"setup", "refused"}
  BY <1>2 DEF ControlInv, Installed, IsTable, Ranks
<1>3. CASE status \notin {"setup", "refused"}
  BY <1>1, <1>3 DEF ControlInv, Installed, IsJob, IsTable, Ranks, Accepts
<1> QED BY <1>2, <1>3

\* The format being executed has a rank of the table, and frames are a sequence.
LEMMA ActiveTop ==
  ASSUME ControlInv
  PROVE  at.fmt \in Ranks(table) /\ Len(frames) \in Nat /\ Len(suspended) \in Nat
<1>1. PICK L : frames \in Frames(L) /\ suspended \in Contexts(L)
  BY DEF ControlInv, Shape
<1>2. Len(frames) \in Nat /\ Len(suspended) \in Nat
  BY <1>1 DEF Frames, Contexts
<1>3. ActiveIn(frames, at, Len(frames) + 1) = at.fmt
  BY <1>2 DEF ActiveIn
<1>4. Len(frames) + 1 \in 1 .. Len(frames) + 1
  BY <1>2
<1> QED BY <1>2, <1>3, <1>4 DEF ControlInv, ContextOK

\* The string being executed is a sequence of tokens.
LEMMA TextTyped ==
  ASSUME ControlInv, status = "parsing"
  PROVE  Text(at) \in Seq(Token)
<1>1. IsJob(job) /\ IsTable(table)
  BY JobsAssumption, TableTyped DEF ControlInv
<1>2. at.fmt \in Ranks(table)
  BY ActiveTop
<1>3. job.tops[turn] \in Seq(Token)
  BY <1>1 DEF IsJob, ControlInv
<1>4. CASE at.fmt = table.nfmts
  BY <1>3, <1>4 DEF Text
<1>5. CASE at.fmt # table.nfmts
  BY <1>1, <1>2, <1>5 DEF Text, Ranks, IsTable
<1> QED BY <1>4, <1>5

\* Every format that may be active has a depth.
LEMMA NeedTyped ==
  ASSUME ControlInv, status = "parsing", NEW f \in Ranks(table)
  PROVE  NeedIn(table, depths, f) \in 1..CALL_DEPTH
<1>1. DOMAIN table.fmts \subseteq 0..table.nfmts-1
  BY TableTyped
<1>2. depths \in [0..table.nfmts-1 -> 1..CALL_DEPTH] /\ CALL_DEPTH \in Nat \ {0}
  BY LimitsAssumption DEF ControlInv, Installed
<1> QED BY <1>1, <1>2 DEF Ranks, NeedIn

\* An accepted table gives every call the interpreter honours a depth below the one
\* of its caller, if it was counted at all.  (table_depth)
LEMMA CalleeNeedsLess ==
  ASSUME ControlInv, status = "parsing", AllCountedIn(table),
         ~AtEnd, Current.op \in CallOps, Callable(Current.n)
  PROVE  /\ NeedIn(table, depths, Current.n) \in 1..CALL_DEPTH
         /\ NeedIn(table, depths, at.fmt) \in 1..CALL_DEPTH
         /\ NeedIn(table, depths, Current.n) < NeedIn(table, depths, at.fmt)
<1> DEFINE n == Current.n
<1>1. /\ IsTable(table) /\ table.nfmts \in Nat
      /\ DOMAIN table.fmts \subseteq 0..table.nfmts-1
  BY TableTyped
<1>2. n \in DOMAIN table.fmts /\ n < at.fmt
  BY DEF Callable
<1>3. at.pc \in DOMAIN Text(at)
  BY TextTyped DEF AtEnd, ControlInv, Shape, At
<1>4. /\ depths \in [0..table.nfmts-1 -> 1..CALL_DEPTH]
      /\ Accepts(table, depths, CALL_DEPTH, MAX_FORMATS)
  BY DEF ControlInv, Installed
<1>5. at.fmt \in Ranks(table)
  BY ActiveTop
<1>6. CALL_DEPTH \in Nat \ {0}
  BY LimitsAssumption
<1>7. n \in 0..table.nfmts-1 /\ n # table.nfmts
  BY <1>1, <1>2
<1>8. CASE at.fmt = table.nfmts
  <2>1. depths[n] + 1 <= CALL_DEPTH
    BY <1>2, <1>4 DEF Accepts
  <2> QED BY <2>1, <1>4, <1>6, <1>7, <1>8 DEF NeedIn
<1>9. CASE at.fmt # table.nfmts
  <2>1. at.fmt \in DOMAIN table.fmts /\ Text(at) = table.fmts[at.fmt]
    BY <1>5, <1>9 DEF Ranks, Text
  <2>2. n \in Callees(table, table.fmts[at.fmt], at.fmt)
    BY <2>1, <1>2, <1>3 DEF Callees, Current
  <2>3. n \in Counted(table, at.fmt)
    BY <2>1, <2>2 DEF AllCountedIn
  <2>4. IsDepth(table, depths, at.fmt)
    BY <2>1, <1>1, <1>4 DEF Accepts, IsDepths
  <2>5. depths[n] < depths[at.fmt]
    BY <2>1, <2>3, <2>4 DEF IsDepth
  <2>6. at.fmt \in 0..table.nfmts-1
    BY <2>1, <1>1
  <2> QED BY <2>5, <2>6, <1>4, <1>7, <1>9 DEF NeedIn
<1> QED BY <1>8, <1>9

-----------------------------------------------------------------------------
(* How the control part moves                                                *)

\* Moving on within a format changes no active format.
LEMMA SameRank ==
  ASSUME NEW t, NEW d, NEW fr, NEW a, NEW b, NEW level, a.fmt = b.fmt,
         ContextOK(t, d, fr, a, level)
  PROVE  ContextOK(t, d, fr, b, level) /\ ActiveIn(fr, b, 1) = ActiveIn(fr, a, 1)
BY DEF ContextOK, ActiveIn

\* Every handler but those of %[n] and %J[n]: the position moves, the parse goes on
\* or ends, the frames stay.
LEMMA Sideways ==
  ASSUME ControlInv, status = "parsing",
         UNCHANGED <<job, turn, table, depths, frames, suspended>>,
         at' \in At, at'.fmt = at.fmt,
         status' \in {"parsing", "trapped", "returned"},
         status' = "returned" => suspended = <<>>
  PROVE  ControlInv'
<1>1. Installed'
  BY DEF ControlInv, Installed
<1>2. Shape'
  BY DEF ControlInv, Shape
<1>3. /\ ContextOK(table, depths, frames, at', Len(suspended))
      /\ ActiveIn(frames, at', 1) = ActiveIn(frames, at, 1)
  <2>1. ContextOK(table, depths, frames, at, Len(suspended))
    BY DEF ControlInv
  <2> QED BY <2>1, SameRank
<1> QED BY <1>1, <1>2, <1>3 DEF ControlInv

\* A new frame: the caller is remembered, the callee runs from its start.
LEMMA Entered ==
  ASSUME NEW t, NEW d, NEW L, NEW fr \in Frames(L), NEW a \in At, NEW level \in Nat,
         NEW f \in FrameOf(L), f.fmt = a.fmt, NEW b \in At,
         ContextOK(t, d, fr, a, level), b.fmt \in Ranks(t), b.fmt < a.fmt,
         CALL_DEPTH \in Int, NeedIn(t, d, a.fmt) \in Int, NeedIn(t, d, b.fmt) \in Int,
         AllCountedIn(t) => NeedIn(t, d, b.fmt) < NeedIn(t, d, a.fmt)
  PROVE  /\ Append(fr, f) \in Frames(L)
         /\ ContextOK(t, d, Append(fr, f), b, level)
<1> DEFINE fr1 == Append(fr, f)
           n   == b.fmt
<1>1. fr1 \in Frames(L) /\ Len(fr) \in Nat /\ Len(fr1) = Len(fr) + 1
  BY DEF Frames
<1>2. \A i \in 1 .. Len(fr) : fr1[i] = fr[i]
  BY DEF Frames
<1>3. fr1[Len(fr) + 1].fmt = a.fmt
  BY DEF Frames
<1>4. \A i \in 1 .. Len(fr) + 1 : ActiveIn(fr1, b, i) = ActiveIn(fr, a, i)
  BY <1>1, <1>2, <1>3 DEF ActiveIn
<1>5. ActiveIn(fr1, b, Len(fr) + 2) = n /\ ActiveIn(fr, a, Len(fr) + 1) = a.fmt
  BY <1>1 DEF ActiveIn
<1>6. 1 .. Len(fr1) + 1 = (1 .. Len(fr) + 1) \cup {Len(fr) + 2}
  BY <1>1
<1>7. \A i \in 1 .. Len(fr1) + 1 : ActiveIn(fr1, b, i) \in Ranks(t)
  BY <1>4, <1>5, <1>6 DEF ContextOK
<1>8. \A i \in 1 .. Len(fr1) : ActiveIn(fr1, b, i + 1) < ActiveIn(fr1, b, i)
  <2>1. 1 .. Len(fr1) = (1 .. Len(fr)) \cup {Len(fr) + 1}
    BY <1>1
  <2>2. CASE \A i \in 1 .. Len(fr) : ActiveIn(fr1, b, i + 1) < ActiveIn(fr1, b, i)
    <3>1. ActiveIn(fr1, b, (Len(fr) + 1) + 1) < ActiveIn(fr1, b, Len(fr) + 1)
      BY <1>1, <1>4, <1>5
    <3> QED BY <2>1, <2>2, <3>1
  <2>3. \A i \in 1 .. Len(fr) : i \in 1 .. Len(fr) + 1 /\ i + 1 \in 1 .. Len(fr) + 1
    BY <1>1
  <2> QED BY <2>2, <2>3, <1>4 DEF ContextOK
<1>9. ASSUME AllCountedIn(t), NEW i \in 1 .. Len(fr1) + 1
      PROVE  NeedIn(t, d, ActiveIn(fr1, b, i)) + (i - 1) + level <= CALL_DEPTH
  <2>1. CASE i \in 1 .. Len(fr) + 1
    BY <1>4, <1>9, <2>1 DEF ContextOK
  <2>2. CASE i = Len(fr) + 2
    <3>1. NeedIn(t, d, a.fmt) + Len(fr) + level <= CALL_DEPTH
      <4>1. Len(fr) + 1 \in 1 .. Len(fr) + 1 /\ (Len(fr) + 1) - 1 = Len(fr)
        BY <1>1
      <4> QED BY <1>5, <1>9, <4>1 DEF ContextOK
    <3>2. NeedIn(t, d, n) + (Len(fr) + 1) + level <= CALL_DEPTH
      BY <3>1, <1>1, <1>9
    <3> QED BY <3>2, <2>2, <1>1, <1>5
  <2> QED BY <2>1, <2>2, <1>6
<1> QED BY <1>1, <1>7, <1>8, <1>9 DEF ContextOK

\* A call leaves the outermost active format of its context what it was.
LEMMA EnteredBottom ==
  ASSUME NEW L, NEW fr \in Frames(L), NEW f, NEW a, NEW b, f.fmt = a.fmt, f \in FrameOf(L)
  PROVE  ActiveIn(Append(fr, f), b, 1) = ActiveIn(fr, a, 1)
<1>1. Len(fr) \in Nat /\ Len(Append(fr, f)) = Len(fr) + 1
  BY DEF Frames
<1>2. CASE Len(fr) = 0
  BY <1>1, <1>2 DEF ActiveIn, Frames
<1>3. CASE Len(fr) > 0
  BY <1>1, <1>3 DEF ActiveIn, Frames
<1> QED BY <1>1, <1>2, <1>3

\* What is left of a sequence without its last element.
LEMMA ButLast ==
  ASSUME NEW S, NEW s \in Seq(S), s # <<>>
  PROVE  /\ SubSeq(s, 1, Len(s) - 1) \in Seq(S)
         /\ Len(SubSeq(s, 1, Len(s) - 1)) = Len(s) - 1
         /\ \A i \in 1 .. Len(s) - 1 : SubSeq(s, 1, Len(s) - 1)[i] = s[i]
<1> DEFINE x == Len(s)
<1>1. x \in Nat \ {0}
  OBVIOUS
<1>2. 1 \in Int /\ x - 1 \in Int /\ \A i \in 1 .. x - 1 : s[i] \in S
  BY <1>1
<1>3. /\ SubSeq(s, 1, x - 1) \in Seq(S)
      /\ Len(SubSeq(s, 1, x - 1)) = IF 1 <= x - 1 THEN (x - 1) - 1 + 1 ELSE 0
      /\ \A i \in 1 .. (x - 1) - 1 + 1 : SubSeq(s, 1, x - 1)[i] = s[1 + i - 1]
  BY <1>2, SubSeqProperties
<1> HIDE DEF x
<1>4. (IF 1 <= x - 1 THEN (x - 1) - 1 + 1 ELSE 0) = x - 1 /\ (x - 1) - 1 + 1 = x - 1
  BY <1>1
<1>5. \A i \in 1 .. x - 1 : 1 + i - 1 = i
  BY <1>1
<1> QED BY <1>3, <1>4, <1>5, Zenon DEF x

\* The last frame popped: its caller runs again.
LEMMA Left ==
  ASSUME NEW t, NEW d, NEW L, NEW fr \in Frames(L), fr # <<>>, NEW a \in At,
         NEW level, ContextOK(t, d, fr, a, level)
  PROVE  /\ SubSeq(fr, 1, Len(fr) - 1) \in Frames(L) /\ [fmt |-> fr[Len(fr)].fmt, pc |-> fr[Len(fr)].pc] \in At
         /\ ContextOK(t, d, SubSeq(fr, 1, Len(fr) - 1), [fmt |-> fr[Len(fr)].fmt, pc |-> fr[Len(fr)].pc], level)
         /\ ActiveIn(SubSeq(fr, 1, Len(fr) - 1), [fmt |-> fr[Len(fr)].fmt, pc |-> fr[Len(fr)].pc], 1) = ActiveIn(fr, a, 1)
<1> DEFINE fr1 == SubSeq(fr, 1, Len(fr) - 1)
           a1  == [fmt |-> fr[Len(fr)].fmt, pc |-> fr[Len(fr)].pc]
<1>1. Len(fr) \in Nat \ {0}
  BY DEF Frames
<1>2. fr1 \in Frames(L) /\ Len(fr1) = Len(fr) - 1
  BY ButLast DEF Frames
<1>3. a1 \in At
  <2>1. fr[Len(fr)] \in FrameOf(L)
    BY <1>1 DEF Frames
  <2> QED BY <2>1 DEF FrameOf, At
<1>4. \A i \in 1 .. Len(fr) - 1 : fr1[i] = fr[i]
  BY <1>1 DEF Frames
<1>5. \A i \in 1 .. Len(fr) : ActiveIn(fr1, a1, i) = ActiveIn(fr, a, i)
  BY <1>1, <1>2, <1>4 DEF ActiveIn
<1>6. Len(fr1) + 1 = Len(fr) /\ 1 \in 1 .. Len(fr)
  BY <1>1, <1>2
<1>7. \A i \in 1 .. Len(fr) : i \in 1 .. Len(fr) + 1
  BY <1>1
<1>8. \A i \in 1 .. Len(fr1) : i \in 1 .. Len(fr) /\ i + 1 \in 1 .. Len(fr)
  BY <1>1, <1>2
<1> QED BY <1>2, <1>3, <1>5, <1>6, <1>7, <1>8 DEF ContextOK

\* A repeat owed by the last frame: the same format runs from its start.
LEMMA Repeated ==
  ASSUME NEW t, NEW d, NEW L, NEW fr \in Frames(L), fr # <<>>, NEW a \in At, NEW level,
         NEW f \in FrameOf(L), f.fmt = fr[Len(fr)].fmt, NEW b \in At, b.fmt = a.fmt,
         ContextOK(t, d, fr, a, level)
  PROVE  /\ [fr EXCEPT ![Len(fr)] = f] \in Frames(L)
         /\ ContextOK(t, d, [fr EXCEPT ![Len(fr)] = f], b, level)
         /\ ActiveIn([fr EXCEPT ![Len(fr)] = f], b, 1) = ActiveIn(fr, a, 1)
<1> DEFINE fr1 == [fr EXCEPT ![Len(fr)] = f]
<1>1. Len(fr) \in Nat \ {0}
  BY DEF Frames
<1>2. fr1 \in Frames(L) /\ Len(fr1) = Len(fr)
  BY <1>1 DEF Frames
<1>4. \A i \in 1 .. Len(fr) : fr1[i].fmt = fr[i].fmt
  BY <1>1 DEF Frames
<1>5. \A i \in 1 .. Len(fr) + 1 : ActiveIn(fr1, b, i) = ActiveIn(fr, a, i)
  <2> HIDE DEF fr1
  <2> QED BY <1>1, <1>2, <1>4 DEF ActiveIn
<1>6. \A i \in 1 .. Len(fr) : i \in 1 .. Len(fr) + 1 /\ i + 1 \in 1 .. Len(fr) + 1
  BY <1>1
<1>7. 1 \in 1 .. Len(fr) + 1
  BY <1>1
<1>8. ContextOK(t, d, fr1, b, level)
  <2> HIDE DEF fr1
  <2>1. \A i \in 1 .. Len(fr1) + 1 : ActiveIn(fr1, b, i) \in Ranks(t)
    BY <1>2, <1>5 DEF ContextOK
  <2>2. \A i \in 1 .. Len(fr1) : ActiveIn(fr1, b, i + 1) < ActiveIn(fr1, b, i)
    BY <1>2, <1>5, <1>6 DEF ContextOK
  <2>3. AllCountedIn(t) => \A i \in 1 .. Len(fr1) + 1 :
           NeedIn(t, d, ActiveIn(fr1, b, i)) + (i - 1) + level <= CALL_DEPTH
    BY <1>2, <1>5 DEF ContextOK
  <2> QED BY <2>1, <2>2, <2>3 DEF ContextOK
<1> QED BY <1>2, <1>5, <1>7, <1>8

\* A fresh context for a row, one level further down.
LEMMA Begun ==
  ASSUME NEW t, NEW d, NEW n \in Int, NEW level \in Nat, n \in Ranks(t),
         AllCountedIn(t) => NeedIn(t, d, n) \in Int /\ NeedIn(t, d, n) + level <= CALL_DEPTH
  PROVE  /\ [fmt |-> n, pc |-> 1] \in At
         /\ ContextOK(t, d, <<>>, [fmt |-> n, pc |-> 1], level)
         /\ ActiveIn(<<>>, [fmt |-> n, pc |-> 1], 1) = n
<1> DEFINE a == [fmt |-> n, pc |-> 1]
<1>1. a \in At /\ Len(<<>>) = 0
  BY DEF At
<1>2. \A i \in 1 .. Len(<<>>) + 1 : i = 1 /\ ActiveIn(<<>>, a, i) = n
  BY <1>1 DEF ActiveIn
<1>3. 1 .. Len(<<>>) = {} /\ 1 \in 1 .. Len(<<>>) + 1
  BY <1>1
<1>4. AllCountedIn(t) => NeedIn(t, d, n) + (1 - 1) + level <= CALL_DEPTH
  OBVIOUS
<1> QED BY <1>1, <1>2, <1>3, <1>4 DEF ContextOK

-----------------------------------------------------------------------------
(* The handlers                                                              *)

\* A handler that works on the machine alone.
Handled == Running /\ \E w : Do(w)

LEMMA DataHandlers ==
  ASSUME \/ EmitLiteral \/ PushLiteral \/ PushParam \/ LoadVar \/ StoreVar \/ RaiseFault
         \/ BinaryOp \/ UnaryOp \/ BadSpecifier \/ EmitNumber \/ ReadNumber \/ EmitSdnv
         \/ ReadSdnv \/ PackBits \/ UnpackBits \/ FlushBits \/ EmitArray \/ CaptureRest
         \/ CaptureExact \/ SliceLength \/ EmitSlice \/ EmitExact \/ ListCount \/ Mark
         \/ ThenTaken \/ RefuseSequence
  PROVE  Handled
<1>1. CASE EmitLiteral BY <1>1 DEF EmitLiteral, Op, Handled
<1>2. CASE PushLiteral BY <1>2 DEF PushLiteral, Op, Handled
<1>3. CASE PushParam BY <1>3 DEF PushParam, Op, Handled
<1>4. CASE LoadVar BY <1>4 DEF LoadVar, Op, Handled
<1>5. CASE StoreVar BY <1>5 DEF StoreVar, Op, Handled
<1>6. CASE RaiseFault BY <1>6 DEF RaiseFault, Op, Handled
<1>7. CASE BinaryOp BY <1>7 DEF BinaryOp, Op, Handled
<1>8. CASE UnaryOp BY <1>8 DEF UnaryOp, Op, Handled
<1>9. CASE BadSpecifier BY <1>9 DEF BadSpecifier, Op, Handled
<1>10. CASE EmitNumber BY <1>10 DEF EmitNumber, Op, Handled
<1>11. CASE ReadNumber BY <1>11 DEF ReadNumber, Op, Handled
<1>12. CASE EmitSdnv BY <1>12 DEF EmitSdnv, Op, Handled
<1>13. CASE ReadSdnv BY <1>13 DEF ReadSdnv, Op, Handled
<1>14. CASE PackBits BY <1>14 DEF PackBits, Op, Handled
<1>15. CASE UnpackBits BY <1>15 DEF UnpackBits, Op, Handled
<1>16. CASE FlushBits BY <1>16 DEF FlushBits, Op, Handled
<1>17. CASE EmitArray BY <1>17 DEF EmitArray, Op, Handled
<1>18. CASE CaptureRest BY <1>18 DEF CaptureRest, Op, Handled
<1>19. CASE CaptureExact BY <1>19 DEF CaptureExact, Op, Handled
<1>20. CASE SliceLength BY <1>20 DEF SliceLength, Op, Handled
<1>21. CASE EmitSlice BY <1>21 DEF EmitSlice, Op, Handled
<1>22. CASE EmitExact BY <1>22 DEF EmitExact, Op, Handled
<1>23. CASE ListCount BY <1>23 DEF ListCount, Op, Handled
<1>24. CASE Mark BY <1>24 DEF Mark, Op, Handled
<1>25. CASE ThenTaken BY <1>25 DEF ThenTaken, Op, Handled
<1>26. CASE RefuseSequence BY <1>26 DEF RefuseSequence, Op, Handled
<1> QED BY <1>1, <1>2, <1>3, <1>4, <1>5, <1>6, <1>7, <1>8, <1>9, <1>10, <1>11, <1>12,
           <1>13, <1>14, <1>15, <1>16, <1>17, <1>18, <1>19, <1>20, <1>21, <1>22, <1>23,
           <1>24, <1>25, <1>26

LEMMA AdvancedTyped ==
  ASSUME ControlInv
  PROVE  Advanced \in At /\ Advanced.fmt = at.fmt
BY DEF ControlInv, Shape, At, Advanced

LEMMA HandledKeeps ==
  ASSUME ControlInv, Handled
  PROVE  ControlInv'
<1>1. /\ status = "parsing" /\ status' = "parsing" /\ at' = Advanced
      /\ UNCHANGED <<job, turn, table, depths, frames, suspended>>
  BY DEF Handled, Running, Do, control
<1> QED BY <1>1, Sideways, AdvancedTyped

\* skip_branch() stays within the string.
LEMMA SkipKeeps ==
  ASSUME ControlInv, status = "parsing", NEW w, NEW letters, SkipBranch(w, letters)
  PROVE  ControlInv'
<1>1. Len(Text(at)) \in Nat
  BY TextTyped
<1>2. at \in At
  BY DEF ControlInv, Shape
<1>3. \E pc \in Nat \ {0} : at' = [at EXCEPT !.pc = pc]
  <2>1. at.pc + 1 \in Nat \ {0}
    BY <1>2 DEF At
  <2>2. \A i \in at.pc + 1 .. Len(Text(at)) : i + 1 \in Nat \ {0}
    BY <1>1, <2>1
  <2>3. Len(Text(at)) + 1 \in Nat \ {0}
    BY <1>1
  <2> QED BY <2>2, <2>3 DEF SkipBranch
<1>4. at' \in At /\ at'.fmt = at.fmt
  BY <1>2, <1>3 DEF At
<1>5. status' = "parsing" /\ UNCHANGED <<job, turn, table, depths, frames, suspended>>
  BY DEF SkipBranch, control
<1> QED BY <1>4, <1>5, Sideways

LEMMA CallKeeps ==
  ASSUME ControlInv, Call
  PROVE  ControlInv'
<1> DEFINE n == Current.n
<1>1. /\ status = "parsing" /\ status' = "parsing" /\ ~AtEnd /\ Current.op \in CallOps
      /\ Callable(n)
      /\ frames' = Append(frames, [fmt |-> at.fmt, pc |-> at.pc + 1, left |-> pending - 1])
      /\ at' = [fmt |-> n, pc |-> 1]
      /\ UNCHANGED <<job, turn, table, depths, suspended>>
  BY DEF Call, Op, Running, CallOps, control
<1>2. n \in DOMAIN table.fmts /\ n < at.fmt /\ n \in Int /\ n \in Ranks(table)
  BY <1>1, TableTyped DEF Callable, Ranks
<1>3. PICK L : frames \in Frames(L) /\ suspended \in Contexts(L)
  BY DEF ControlInv, Shape
<1>4. PICK M : frames \in Frames(M) /\ suspended \in Contexts(M) /\ pending - 1 \in M
  <2>1. L \subseteq L \cup {pending - 1} /\ pending - 1 \in L \cup {pending - 1}
    OBVIOUS
  <2>2. /\ frames \in Frames(L \cup {pending - 1})
        /\ suspended \in Contexts(L \cup {pending - 1})
    BY <1>3, <2>1, Grow
  <2> QED BY <2>1, <2>2
<1>5. at \in At /\ at.pc + 1 \in Nat \ {0}
  BY DEF ControlInv, Shape, At
<1>6. /\ NeedIn(table, depths, n) \in Int /\ NeedIn(table, depths, at.fmt) \in Int
      /\ CALL_DEPTH \in Int /\ Len(suspended) \in Nat
  BY <1>1, <1>2, NeedTyped, ActiveTop, LimitsAssumption
<1>7. AllCountedIn(table) => NeedIn(table, depths, n) < NeedIn(table, depths, at.fmt)
  BY <1>1, CalleeNeedsLess
<1>8. ContextOK(table, depths, frames, at, Len(suspended))
  BY DEF ControlInv
<1> HIDE DEF n
<1>9. /\ frames' \in Frames(M) /\ at' \in At
      /\ ContextOK(table, depths, frames', at', Len(suspended))
      /\ ActiveIn(frames', at', 1) = ActiveIn(frames, at, 1)
  <2>1. PICK f \in FrameOf(M) : f = [fmt |-> at.fmt, pc |-> at.pc + 1, left |-> pending - 1]
    BY <1>4, <1>5 DEF FrameOf, At
  <2>2. PICK b \in At : b = at'
    BY <1>1, <1>2 DEF At
  <2>3. f.fmt = at.fmt /\ b.fmt = n /\ frames' = Append(frames, f)
    BY <1>1, <2>1, <2>2
  <2>4. /\ Append(frames, f) \in Frames(M)
        /\ ContextOK(table, depths, Append(frames, f), b, Len(suspended))
        /\ ActiveIn(Append(frames, f), b, 1) = ActiveIn(frames, at, 1)
    <3>1. frames \in Frames(M) /\ at \in At /\ f.fmt = at.fmt
      BY <1>4, <1>5, <2>3
    <3>2. /\ b.fmt \in Ranks(table) /\ b.fmt < at.fmt /\ NeedIn(table, depths, b.fmt) \in Int
          /\ AllCountedIn(table) =>
               NeedIn(table, depths, b.fmt) < NeedIn(table, depths, at.fmt)
      BY <1>2, <1>6, <1>7, <2>3
    <3>3. /\ CALL_DEPTH \in Int /\ NeedIn(table, depths, at.fmt) \in Int
          /\ Len(suspended) \in Nat
      BY <1>6
    <3>4. Append(frames, f) \in Frames(M)
      BY <3>1 DEF Frames
    <3>5. ContextOK(table, depths, Append(frames, f), b, Len(suspended))
      BY <1>8, <3>1, <3>2, <3>3, Entered
    <3>6. ActiveIn(Append(frames, f), b, 1) = ActiveIn(frames, at, 1)
      BY <3>1, EnteredBottom
    <3> QED BY <3>4, <3>5, <3>6
  <2> QED BY <2>2, <2>3, <2>4
<1>10. Shape'
  BY <1>1, <1>4, <1>9 DEF Shape
<1>11. Installed'
  BY <1>1 DEF ControlInv, Installed
<1> QED BY <1>1, <1>9, <1>10, <1>11 DEF ControlInv

LEMMA RepeatKeeps ==
  ASSUME ControlInv, RepeatFormat
  PROVE  ControlInv'
<1>1. /\ status = "parsing" /\ status' = "parsing" /\ frames # <<>>
      /\ frames' = [frames EXCEPT ![Len(frames)].left = Frame.left - 1]
      /\ at' = [at EXCEPT !.pc = 1]
      /\ UNCHANGED <<job, turn, table, depths, suspended>>
  BY DEF RepeatFormat, Running, control, Frame
<1>2. PICK L : frames \in Frames(L) /\ suspended \in Contexts(L)
  BY DEF ControlInv, Shape
<1>3. PICK M : frames \in Frames(M) /\ suspended \in Contexts(M) /\ Frame.left - 1 \in M
  <2>1. L \subseteq L \cup {Frame.left - 1} /\ Frame.left - 1 \in L \cup {Frame.left - 1}
    OBVIOUS
  <2>2. /\ frames \in Frames(L \cup {Frame.left - 1})
        /\ suspended \in Contexts(L \cup {Frame.left - 1})
    BY <1>2, <2>1, Grow
  <2> QED BY <2>1, <2>2
<1>4. at \in At /\ ContextOK(table, depths, frames, at, Len(suspended))
  BY DEF ControlInv, Shape
<1>5. /\ frames' \in Frames(M) /\ at' \in At
      /\ ContextOK(table, depths, frames', at', Len(suspended))
      /\ ActiveIn(frames', at', 1) = ActiveIn(frames, at, 1)
  <2>1. Len(frames) \in 1..Len(frames) /\ frames[Len(frames)] \in FrameOf(M)
    BY <1>1, <1>3 DEF Frames
  <2>2. PICK f \in FrameOf(M) : f = [frames[Len(frames)] EXCEPT !.left = Frame.left - 1]
    BY <1>3, <2>1 DEF FrameOf
  <2>3. PICK b \in At : b = at' /\ b.fmt = at.fmt
    BY <1>1, <1>4 DEF At
  <2>4. f.fmt = frames[Len(frames)].fmt /\ frames' = [frames EXCEPT ![Len(frames)] = f]
    BY <1>1, <2>1, <2>2 DEF FrameOf
  <2>5. /\ [frames EXCEPT ![Len(frames)] = f] \in Frames(M)
        /\ ContextOK(table, depths, [frames EXCEPT ![Len(frames)] = f], b, Len(suspended))
        /\ ActiveIn([frames EXCEPT ![Len(frames)] = f], b, 1) = ActiveIn(frames, at, 1)
    <3>1. /\ frames \in Frames(M) /\ frames # <<>> /\ b.fmt = at.fmt
          /\ f.fmt = frames[Len(frames)].fmt
      BY <1>1, <1>3, <2>3, <2>4
    <3> QED BY <1>4, <3>1, Repeated
  <2> QED BY <2>3, <2>4, <2>5
<1>6. Shape'
  BY <1>1, <1>3, <1>5 DEF Shape
<1>7. Installed'
  BY <1>1 DEF ControlInv, Installed
<1> QED BY <1>1, <1>5, <1>6, <1>7 DEF ControlInv

LEMMA ReturnKeeps ==
  ASSUME ControlInv, ReturnFormat
  PROVE  ControlInv'
<1>1. /\ status = "parsing" /\ status' = "parsing" /\ frames # <<>>
      /\ frames' = SubSeq(frames, 1, Len(frames) - 1)
      /\ at' = [fmt |-> frames[Len(frames)].fmt, pc |-> frames[Len(frames)].pc]
      /\ UNCHANGED <<job, turn, table, depths, suspended>>
  BY DEF ReturnFormat, Running, control, Frame
<1>2. PICK L : frames \in Frames(L) /\ suspended \in Contexts(L)
  BY DEF ControlInv, Shape
<1>3. at \in At /\ ContextOK(table, depths, frames, at, Len(suspended))
  BY DEF ControlInv, Shape
<1>4. /\ frames' \in Frames(L) /\ at' \in At
      /\ ContextOK(table, depths, frames', at', Len(suspended))
      /\ ActiveIn(frames', at', 1) = ActiveIn(frames, at, 1)
  BY <1>1, <1>2, <1>3, Left
<1>5. Shape'
  BY <1>1, <1>2, <1>4 DEF Shape
<1>6. Installed'
  BY <1>1 DEF ControlInv, Installed
<1> QED BY <1>1, <1>4, <1>5, <1>6 DEF ControlInv

-----------------------------------------------------------------------------
(* %J[n]                                                                     *)

LEMMA BeginKeeps ==
  ASSUME ControlInv, BeginSequence
  PROVE  ControlInv'
<1> DEFINE n == Current.n
           k == Len(suspended)
<1>1. PICK w, list, count, heap1, machine :
        /\ status = "parsing" /\ status' = "parsing" /\ ~AtEnd /\ Current.op \in CallOps
        /\ Callable(n)
        /\ suspended' = Append(suspended,
             [wi |-> w, at |-> Advanced, frames |-> frames, pending |-> pending,
              list |-> list, count |-> count, row |-> 1, callee |-> n])
        /\ at' = [fmt |-> n, pc |-> 1] /\ frames' = <<>>
        /\ UNCHANGED <<job, turn, table, depths>>
  BY DEF BeginSequence, Op, Running, CallOps, control, SequenceFits, Start
<1>2. n \in DOMAIN table.fmts /\ n < at.fmt /\ n \in Int /\ n \in Ranks(table)
  BY <1>1, TableTyped DEF Callable, Ranks
<1>3. /\ k \in Nat /\ CALL_DEPTH \in Int
      /\ NeedIn(table, depths, n) \in Int /\ NeedIn(table, depths, at.fmt) \in Int
  BY <1>1, <1>2, NeedTyped, ActiveTop, LimitsAssumption
<1>4. ContextOK(table, depths, frames, at, k)
  BY DEF ControlInv
<1>5. AllCountedIn(table) => NeedIn(table, depths, n) + (k + 1) <= CALL_DEPTH
  <2> SUFFICES ASSUME AllCountedIn(table)
               PROVE  NeedIn(table, depths, n) + (k + 1) <= CALL_DEPTH
    OBVIOUS
  <2>1. NeedIn(table, depths, n) < NeedIn(table, depths, at.fmt)
    BY <1>1, CalleeNeedsLess
  <2>2. Len(frames) \in Nat
    BY ActiveTop
  <2>3. ActiveIn(frames, at, Len(frames) + 1) = at.fmt /\ Len(frames) + 1 \in 1..Len(frames) + 1
    BY <2>2 DEF ActiveIn
  <2>4. NeedIn(table, depths, at.fmt) + ((Len(frames) + 1) - 1) + k <= CALL_DEPTH
    BY <1>4, <2>3 DEF ContextOK
  <2> QED BY <1>3, <2>1, <2>2, <2>4
<1>6. /\ at' \in At /\ ActiveIn(frames', at', 1) = n
      /\ ContextOK(table, depths, frames', at', k + 1)
  <2>1. k + 1 \in Nat
    BY <1>3
  <2> QED BY <1>1, <1>2, <1>3, <1>5, <2>1, Begun
<1> DEFINE x == [wi |-> w, at |-> Advanced, frames |-> frames, pending |-> pending,
                 list |-> list, count |-> count, row |-> 1, callee |-> n]
<1>7. Waiting(table, depths, x, k + 1) /\ ActiveIn(x.frames, x.at, 1) = ActiveIn(frames, at, 1)
  <2>1. Advanced.fmt = at.fmt
    BY AdvancedTyped
  <2>2. /\ ContextOK(table, depths, frames, Advanced, k)
        /\ ActiveIn(frames, Advanced, 1) = ActiveIn(frames, at, 1)
    BY <1>4, <2>1, SameRank
  <2>3. (k + 1) - 1 = k
    BY <1>3
  <2> QED BY <1>2, <1>5, <2>1, <2>2, <2>3 DEF Waiting
<1>8. \E M : frames' \in Frames(M) /\ suspended' \in Contexts(M)
  <2>1. PICK L : frames \in Frames(L) /\ suspended \in Contexts(L)
    BY DEF ControlInv, Shape
  <2> DEFINE M == L \cup {w, pending, list, count, 1, n}
  <2>2. L \subseteq M
    OBVIOUS
  <2>3. frames \in Frames(M) /\ suspended \in Contexts(M)
    BY <2>1, <2>2, Grow
  <2>4. Advanced \in At
    BY AdvancedTyped
  <2>5. x \in Context(M)
    BY <2>3, <2>4 DEF Context
  <2> HIDE DEF M, x
  <2>6. Append(suspended, x) \in Contexts(M)
    BY <2>3, <2>5 DEF Contexts
  <2>7. <<>> \in Frames(M)
    BY DEF Frames
  <2> QED BY <1>1, <2>6, <2>7 DEF x
<1>9. suspended' = Append(suspended, x) /\ x.at.fmt = at.fmt
  BY <1>1, AdvancedTyped
<1> HIDE DEF x, n
<1>10. /\ Len(suspended') = k + 1 /\ suspended'[k + 1] = x
       /\ \A c \in 1..k : suspended'[c] = suspended[c]
  <2>1. PICK L : suspended \in Contexts(L)
    BY DEF ControlInv, Shape
  <2> QED BY <1>9, <2>1 DEF Contexts
<1>11. \A c \in 1..k + 1 : Waiting(table, depths, suspended'[c], c)
  <2>1. \A c \in 1..k : Waiting(table, depths, suspended[c], c)
    BY DEF ControlInv
  <2>2. \A c \in 1..k + 1 : c \in 1..k \/ c = k + 1
    BY <1>3
  <2> QED BY <1>7, <1>10, <2>1, <2>2
<1>12. \A c \in 1..k :
         ActiveIn(suspended'[c+1].frames, suspended'[c+1].at, 1) < suspended'[c].at.fmt
  <2> TAKE c \in 1..k
  <2>1. CASE c = k
    <3>1. suspended # <<>> /\ k \in 1..k
      BY <1>3, <2>1
    <3>2. ActiveIn(frames, at, 1) < suspended[k].at.fmt
      BY <3>1 DEF ControlInv
    <3> QED BY <1>7, <1>10, <2>1, <3>1, <3>2
  <2>2. CASE c # k
    <3>1. c \in 1..k-1 /\ c + 1 \in 1..k
      BY <1>3, <2>2
    <3> QED BY <1>10, <3>1 DEF ControlInv
  <2> QED BY <2>1, <2>2
<1>13. ActiveIn(frames', at', 1) < suspended'[Len(suspended')].at.fmt
  BY <1>2, <1>6, <1>9, <1>10
<1>14. Shape'
  BY <1>6, <1>8 DEF Shape
<1>15. Installed'
  BY <1>1 DEF ControlInv, Installed
<1>16. Len(suspended')-1 = k
  BY <1>3, <1>10
<1> QED BY <1>1, <1>6, <1>10, <1>11, <1>12, <1>13, <1>14, <1>15, <1>16 DEF ControlInv

LEMMA EndSequenceKeeps ==
  ASSUME ControlInv, EndSequence
  PROVE  ControlInv'
<1> DEFINE k == Len(suspended)
<1>1. /\ status = "parsing" /\ status' = "parsing" /\ suspended # <<>>
      /\ at' = suspended[k].at /\ frames' = suspended[k].frames
      /\ suspended' = SubSeq(suspended, 1, k - 1)
      /\ UNCHANGED <<job, turn, table, depths>>
  BY DEF EndSequence, ParseOver, Parent, control
<1>2. PICK L : frames \in Frames(L) /\ suspended \in Contexts(L)
  BY DEF ControlInv, Shape
<1>3. k \in Nat \ {0} /\ suspended[k] \in Context(L)
  BY <1>1, <1>2 DEF Contexts
<1>4. at' \in At /\ frames' \in Frames(L)
  BY <1>1, <1>3 DEF Context
<1>5. /\ suspended' \in Contexts(L) /\ Len(suspended') = k - 1
      /\ \A c \in 1..k-1 : suspended'[c] = suspended[c]
  BY <1>1, <1>2, ButLast DEF Contexts
<1>6. ContextOK(table, depths, frames', at', k - 1)
  <2>1. k \in 1..k
    BY <1>3
  <2> QED BY <1>1, <2>1 DEF ControlInv, Waiting
<1>7. \A c \in 1..k-1 : Waiting(table, depths, suspended'[c], c)
  <2>1. \A c \in 1..k-1 : c \in 1..k
    BY <1>3
  <2> QED BY <1>5, <2>1 DEF ControlInv
<1>8. \A c \in 1..(k-1)-1 :
        ActiveIn(suspended'[c+1].frames, suspended'[c+1].at, 1) < suspended'[c].at.fmt
  <2>1. \A c \in 1..(k-1)-1 : c \in 1..k-1 /\ c + 1 \in 1..k-1
    BY <1>3
  <2> QED BY <1>5, <2>1 DEF ControlInv
<1>9. suspended' # <<>> =>
        ActiveIn(frames', at', 1) < suspended'[Len(suspended')].at.fmt
  <2> SUFFICES ASSUME suspended' # <<>>
               PROVE  ActiveIn(frames', at', 1) < suspended'[Len(suspended')].at.fmt
    OBVIOUS
  <2>1. k - 1 \in 1..k-1 /\ (k - 1) + 1 = k
    BY <1>3, <1>5 DEF Contexts
  <2> QED BY <1>1, <1>5, <2>1 DEF ControlInv
<1>10. Shape'
  BY <1>4, <1>5 DEF Shape
<1>11. Installed'
  BY <1>1 DEF ControlInv, Installed
<1> QED BY <1>1, <1>5, <1>6, <1>7, <1>8, <1>9, <1>10, <1>11 DEF ControlInv

LEMMA NextRowKeeps ==
  ASSUME ControlInv, NextRow
  PROVE  ControlInv'
<1> DEFINE k == Len(suspended)
           n == suspended[k].callee
<1>1. PICK w, r :
        /\ status = "parsing" /\ status' = "parsing" /\ suspended # <<>>
        /\ suspended' = [suspended EXCEPT ![k].wi = w, ![k].row = r]
        /\ at' = [fmt |-> n, pc |-> 1] /\ frames' = <<>>
        /\ UNCHANGED <<job, turn, table, depths>>
  <2>1. suspended' = [suspended EXCEPT ![k].wi = Merged, ![k].row = suspended[k].row + 1]
    BY DEF NextRow
  <2> QED BY <2>1 DEF NextRow, ParseOver, Parent, control, Start
<1>2. PICK M : frames \in Frames(M) /\ suspended \in Contexts(M) /\ w \in M /\ r \in M
  <2>1. PICK L : frames \in Frames(L) /\ suspended \in Contexts(L)
    BY DEF ControlInv, Shape
  <2>2. L \subseteq L \cup {w, r} /\ w \in L \cup {w, r} /\ r \in L \cup {w, r}
    OBVIOUS
  <2>3. frames \in Frames(L \cup {w, r}) /\ suspended \in Contexts(L \cup {w, r})
    BY <2>1, <2>2, Grow
  <2> QED BY <2>2, <2>3
<1>3. k \in Nat \ {0} /\ k \in 1..k /\ suspended[k] \in Context(M)
  BY <1>1, <1>2 DEF Contexts
<1> DEFINE x == [suspended[k] EXCEPT !.wi = w, !.row = r]
<1>4. /\ x \in Context(M) /\ x.at = suspended[k].at /\ x.frames = suspended[k].frames
      /\ x.callee = n
  BY <1>2, <1>3 DEF Context
<1>5. suspended' = [suspended EXCEPT ![k] = x]
  BY <1>1, <1>2, <1>3 DEF Contexts, Context
<1> HIDE DEF x
<1>6. /\ suspended' \in Contexts(M) /\ Len(suspended') = k
      /\ \A c \in 1..k : suspended'[c] = IF c = k THEN x ELSE suspended[c]
  BY <1>2, <1>3, <1>4, <1>5 DEF Contexts
<1>7. \A c \in 1..k : /\ suspended'[c].at = suspended[c].at
                      /\ suspended'[c].frames = suspended[c].frames
                      /\ suspended'[c].callee = suspended[c].callee
  BY <1>4, <1>6
<1>8. /\ n \in DOMAIN table.fmts /\ n < suspended[k].at.fmt
      /\ AllCountedIn(table) => NeedIn(table, depths, n) + k <= CALL_DEPTH
  BY <1>3 DEF ControlInv, Waiting
<1>9. n \in Int /\ n \in Ranks(table)
  BY <1>8, TableTyped DEF Ranks
<1>10. /\ at' \in At /\ ActiveIn(frames', at', 1) = n
       /\ ContextOK(table, depths, frames', at', k)
  <2>1. AllCountedIn(table) => /\ NeedIn(table, depths, n) \in Int
                               /\ NeedIn(table, depths, n) + k <= CALL_DEPTH
    BY <1>1, <1>8, <1>9, NeedTyped
  <2> QED BY <1>1, <1>3, <1>9, <2>1, Begun
<1> HIDE DEF n
<1>11. \A c \in 1..k : Waiting(table, depths, suspended'[c], c)
  <2>1. \A c \in 1..k : Waiting(table, depths, suspended[c], c)
    BY DEF ControlInv
  <2> QED BY <1>7, <2>1 DEF Waiting
<1>12. \A c \in 1..k-1 :
         ActiveIn(suspended'[c+1].frames, suspended'[c+1].at, 1) < suspended'[c].at.fmt
  <2>1. \A c \in 1..k-1 : c \in 1..k /\ c + 1 \in 1..k
    BY <1>3
  <2> QED BY <1>7, <2>1 DEF ControlInv
<1>13. ActiveIn(frames', at', 1) < suspended'[Len(suspended')].at.fmt
  BY <1>3, <1>6, <1>7, <1>8, <1>10
<1>14. Shape'
  BY <1>1, <1>6, <1>10 DEF Shape, Frames
<1>15. Installed'
  BY <1>1 DEF ControlInv, Installed
<1> QED BY <1>1, <1>6, <1>10, <1>11, <1>12, <1>13, <1>14, <1>15 DEF ControlInv

-----------------------------------------------------------------------------
(* The other steps                                                           *)

\* Handlers that change more than the machine, but neither frames nor contexts.
LEMMA OtherHandlersKeep ==
  ASSUME ControlInv,
         ArmRepeat \/ RefuseCall \/ CallTooDeep \/ EmptySequence \/ DivisionTraps \/ ArrayTraps
  PROVE  ControlInv'
<1>1. /\ status = "parsing" /\ status' \in {"parsing", "trapped"}
      /\ at' = Advanced \/ at' = at
      /\ UNCHANGED <<job, turn, table, depths, frames, suspended>>
  <2>1. CASE ArmRepeat     BY <2>1 DEF ArmRepeat, Op, Running, control
  <2>2. CASE RefuseCall    BY <2>2 DEF RefuseCall, Op, Running, control
  <2>3. CASE CallTooDeep   BY <2>3 DEF CallTooDeep, Op, Running, control
  <2>4. CASE EmptySequence BY <2>4 DEF EmptySequence, Op, Running, control
  <2>5. CASE DivisionTraps BY <2>5 DEF DivisionTraps, Op, Running, control
  <2>6. CASE ArrayTraps    BY <2>6 DEF ArrayTraps, Op, Running, control
  <2> QED BY <2>1, <2>2, <2>3, <2>4, <2>5, <2>6
<1>2. at' \in At /\ at'.fmt = at.fmt
  BY <1>1, AdvancedTyped DEF ControlInv, Shape
<1> QED BY <1>1, <1>2, Sideways

LEMMA EndParseKeeps ==
  ASSUME ControlInv, EndParse
  PROVE  ControlInv'
<1>1. /\ status = "parsing" /\ status' = "returned" /\ suspended = <<>>
      /\ UNCHANGED <<job, turn, table, depths, frames, suspended, at>>
  BY DEF EndParse, ParseOver
<1>2. at' \in At /\ at'.fmt = at.fmt
  BY <1>1 DEF ControlInv, Shape
<1> QED BY <1>1, <1>2, Sideways

\* A parse starts with the string above the table and no frame.
LEMMA Started ==
  ASSUME NEW t, NEW d, t.nfmts \in Nat, at' = [fmt |-> t.nfmts, pc |-> 1],
         frames' = <<>>, suspended' = <<>>
  PROVE  Shape' /\ ContextOK(t, d, frames', at', 0)
<1>1. CALL_DEPTH \in Nat /\ NeedIn(t, d, t.nfmts) = CALL_DEPTH
  BY LimitsAssumption DEF NeedIn
<1>2. t.nfmts \in Int /\ t.nfmts \in Ranks(t) /\ 0 \in Nat
  BY DEF Ranks
<1>3. AllCountedIn(t) => /\ NeedIn(t, d, t.nfmts) \in Int
                         /\ NeedIn(t, d, t.nfmts) + 0 <= CALL_DEPTH
  BY <1>1
<1>4. at' \in At /\ ContextOK(t, d, frames', at', 0)
  BY <1>2, <1>3, Begun
<1>5. frames' \in Frames({}) /\ suspended' \in Contexts({})
  BY DEF Frames, Contexts
<1> QED BY <1>4, <1>5 DEF Shape

LEMMA SetFormatsKeeps ==
  ASSUME ControlInv, SetFormats
  PROVE  ControlInv'
<1>1. /\ status = "setup" /\ status' = "parsing" /\ suspended = <<>>
      /\ UNCHANGED <<job, turn, suspended>>
      /\ table' = job.table
      /\ at' = [fmt |-> job.table.nfmts, pc |-> 1] /\ frames' = <<>>
  BY DEF SetFormats, Start, ControlInv
<1>2. /\ depths' \in [0..job.table.nfmts-1 -> 1..CALL_DEPTH]
      /\ Accepts(job.table, depths', CALL_DEPTH, MAX_FORMATS)
  BY DEF SetFormats
<1>3. IsJob(job) /\ job.table.nfmts \in Nat
  <2>1. IsJob(job)
    BY JobsAssumption DEF ControlInv
  <2>2. IsTable(job.table)
    BY <2>1 DEF IsJob
  <2> QED BY <1>2, <2>1, <2>2 DEF IsTable, Accepts
<1>4. Shape' /\ ContextOK(table', depths', frames', at', 0)
  BY <1>1, <1>3, Started
<1>5. Installed'
  BY <1>1, <1>2 DEF Installed
<1>6. suspended' = <<>> /\ Len(suspended') = 0
  BY <1>1
<1> QED BY <1>1, <1>4, <1>5, <1>6 DEF ControlInv

LEMMA NextParseKeeps ==
  ASSUME ControlInv, NextParse
  PROVE  ControlInv'
<1>1. /\ status = "returned" /\ status' = "parsing" /\ suspended = <<>>
      /\ turn < Len(job.tops) /\ turn' = turn + 1
      /\ UNCHANGED <<job, table, depths, suspended>>
      /\ at' = [fmt |-> table.nfmts, pc |-> 1] /\ frames' = <<>>
  BY DEF NextParse, Start, ControlInv
<1>2. turn' \in 1..Len(job.tops)
  <2>1. IsJob(job) /\ turn \in 1..Len(job.tops)
    BY JobsAssumption DEF ControlInv
  <2>2. Len(job.tops) \in Nat
    BY <2>1 DEF IsJob
  <2> QED BY <1>1, <2>1, <2>2
<1>3. Shape' /\ ContextOK(table, depths, frames', at', 0)
  <2>1. table.nfmts \in Nat
    BY TableTyped
  <2> QED BY <1>1, <2>1, Started
<1>4. Installed'
  BY <1>1 DEF ControlInv, Installed
<1>5. suspended' = <<>> /\ Len(suspended') = 0
  BY <1>1
<1> QED BY <1>1, <1>2, <1>3, <1>4, <1>5 DEF ControlInv

LEMMA Idle ==
  ASSUME ControlInv, RefuseFormats \/ UNCHANGED vars
  PROVE  ControlInv'
<1>1. /\ UNCHANGED <<job, turn, table, depths, at, frames, suspended>>
      /\ status' = status \/ (status = "setup" /\ status' = "refused")
  BY DEF RefuseFormats, vars
<1>2. Installed' /\ Shape'
  BY <1>1 DEF ControlInv, Installed, Shape
<1> QED BY <1>1, <1>2 DEF ControlInv

-----------------------------------------------------------------------------
(* The theorems                                                              *)

LEMMA ControlInit == Init => ControlInv
<1> SUFFICES ASSUME Init PROVE ControlInv
  OBVIOUS
<1>1. IsJob(job) /\ job \in Jobs /\ turn = 1
  BY JobsAssumption DEF Init
<1>2. turn \in 1..Len(job.tops)
  <2>1. Len(job.tops) \in Nat \ {0}
    BY <1>1 DEF IsJob
  <2> QED BY <1>1, <2>1
<1>3. /\ at = [fmt |-> table.nfmts, pc |-> 1] /\ frames = <<>> /\ suspended = <<>>
      /\ table.nfmts \in Nat /\ Len(suspended) = 0
  BY DEF Init
<1>4. at \in At /\ ContextOK(table, depths, frames, at, 0)
  <2>1. CALL_DEPTH \in Nat /\ NeedIn(table, depths, table.nfmts) = CALL_DEPTH
    BY LimitsAssumption DEF NeedIn
  <2>2. table.nfmts \in Int /\ table.nfmts \in Ranks(table) /\ 0 \in Nat
    BY <1>3 DEF Ranks
  <2>3. AllCountedIn(table) => /\ NeedIn(table, depths, table.nfmts) \in Int
                               /\ NeedIn(table, depths, table.nfmts) + 0 <= CALL_DEPTH
    BY <2>1
  <2> QED BY <1>3, <2>2, <2>3, Begun
<1>5. frames \in Frames({}) /\ suspended \in Contexts({})
  BY <1>3 DEF Frames, Contexts
<1>6. Installed
  BY DEF Init, Installed
<1> QED BY <1>1, <1>2, <1>3, <1>4, <1>5, <1>6 DEF ControlInv, Shape

LEMMA ControlNext == ControlInv /\ [Next]_vars => ControlInv'
<1> SUFFICES ASSUME ControlInv, [Next]_vars PROVE ControlInv'
  OBVIOUS
<1>1. CASE SetFormats
  BY <1>1, SetFormatsKeeps
<1>2. CASE RefuseFormats \/ Done \/ UNCHANGED vars
  BY <1>2, Idle DEF Done
<1>3. CASE \/ EmitLiteral \/ PushLiteral \/ PushParam \/ LoadVar \/ StoreVar \/ RaiseFault
           \/ BinaryOp \/ UnaryOp \/ BadSpecifier \/ EmitNumber \/ ReadNumber \/ EmitSdnv
           \/ ReadSdnv \/ PackBits \/ UnpackBits \/ FlushBits \/ EmitArray \/ CaptureRest
           \/ CaptureExact \/ SliceLength \/ EmitSlice \/ EmitExact \/ ListCount \/ Mark
           \/ ThenTaken \/ RefuseSequence
  BY <1>3, DataHandlers, HandledKeeps
<1>4. CASE ThenSkipped
  BY <1>4, SkipKeeps DEF ThenSkipped, Op, Running
<1>5. CASE ElseSkipped
  BY <1>5, SkipKeeps DEF ElseSkipped, Op, Running
<1>6. CASE \/ ArmRepeat \/ RefuseCall \/ CallTooDeep \/ EmptySequence \/ DivisionTraps
           \/ ArrayTraps
  BY <1>6, OtherHandlersKeep
<1>7. CASE Call
  BY <1>7, CallKeeps
<1>8. CASE RepeatFormat
  BY <1>8, RepeatKeeps
<1>9. CASE ReturnFormat
  BY <1>9, ReturnKeeps
<1>10. CASE BeginSequence
  BY <1>10, BeginKeeps
<1>11. CASE NextRow
  BY <1>11, NextRowKeeps
<1>12. CASE EndSequence
  BY <1>12, EndSequenceKeeps
<1>13. CASE EndParse
  BY <1>13, EndParseKeeps
<1>14. CASE NextParse
  BY <1>14, NextParseKeeps
<1> QED BY <1>1, <1>2, <1>3, <1>4, <1>5, <1>6, <1>7, <1>8, <1>9, <1>10, <1>11, <1>12,
           <1>13, <1>14 DEF Next

\* The control part of every reachable state is sound: positions in the installed
\* table, active formats descending, and frames to spare in every context.
THEOREM ControlSound == Spec => []ControlInv
<1> QED BY ControlInit, ControlNext, PTL DEF Spec

LEMMA InvDescends == ControlInv => CallsDescend
<1> SUFFICES ASSUME ControlInv PROVE CallsDescend
  OBVIOUS
<1>1. Len(suspended) \in Nat
  BY ActiveTop
<1>2. ASSUME NEW c \in 1..Depth
      PROVE  \A i \in 1..Len(ContextFrames(c)) : Active(c, i+1) < Active(c, i)
  <2>1. CASE c = Depth
    BY <2>1 DEF ControlInv, ContextOK, ActiveIn, Active, ContextFrames, ContextAt
  <2>2. CASE c # Depth
    <3>1. c \in 1..Len(suspended)
      BY <1>1, <2>2 DEF Depth
    <3> QED BY <2>2, <3>1
            DEF ControlInv, Waiting, ContextOK, ActiveIn, Active, ContextFrames, ContextAt
  <2> QED BY <2>1, <2>2
<1>3. ASSUME NEW c \in 1..Depth-1
      PROVE  Active(c + 1, 1) < ContextAt(c).fmt
  <2>1. c \in 1..Len(suspended) /\ c # Depth
    BY <1>1 DEF Depth
  <2>2. CASE c = Len(suspended)
    <3>1. c + 1 = Depth /\ suspended # <<>>
      BY <1>1, <2>1, <2>2 DEF Depth
    <3> QED BY <2>1, <2>2, <3>1 DEF ControlInv, ActiveIn, Active, ContextFrames, ContextAt
  <2>3. CASE c # Len(suspended)
    <3>1. c \in 1..Len(suspended)-1 /\ c + 1 # Depth
      BY <1>1, <2>1, <2>3 DEF Depth
    <3> QED BY <2>1, <3>1 DEF ControlInv, ActiveIn, Active, ContextFrames, ContextAt
  <2> QED BY <2>2, <2>3
<1> QED BY <1>2, <1>3 DEF CallsDescend

\* Every call strictly decreases cur_fmt, in every context and from a %J into its
\* rows: no table, cyclic or not, makes the interpreter re-enter a format that is
\* active.  (_call, _J)
THEOREM Descends == Spec => []CallsDescend
<1> QED BY ControlSound, InvDescends, PTL

LEMMA InvBudget == ControlInv => BudgetKept
<1> SUFFICES ASSUME ControlInv, AllCounted, NEW c \in 1..Depth,
                    NEW i \in 1 .. Len(ContextFrames(c)) + 1
             PROVE  Need(Active(c, i)) + (i - 1) + (c - 1) <= CALL_DEPTH
  BY DEF BudgetKept
<1>1. Len(suspended) \in Nat
  BY ActiveTop
<1>2. AllCountedIn(table)
  BY DEF AllCounted, AllCountedIn
<1>3. CASE c = Depth
  <2>1. c - 1 = Len(suspended)
    BY <1>1, <1>3 DEF Depth
  <2>2. /\ i \in 1 .. Len(frames) + 1 /\ Active(c, i) = ActiveIn(frames, at, i)
        /\ Need(Active(c, i)) = NeedIn(table, depths, ActiveIn(frames, at, i))
    BY <1>3 DEF Active, ActiveIn, ContextFrames, ContextAt, Need, NeedIn
  <2> QED BY <1>2, <2>1, <2>2 DEF ControlInv, ContextOK
<1>4. CASE c # Depth
  <2>1. c \in 1..Len(suspended)
    BY <1>1, <1>4 DEF Depth
  <2> DEFINE s == suspended[c]
  <2>2. /\ i \in 1 .. Len(s.frames) + 1 /\ Active(c, i) = ActiveIn(s.frames, s.at, i)
        /\ Need(Active(c, i)) = NeedIn(table, depths, ActiveIn(s.frames, s.at, i))
    BY <1>4 DEF Active, ActiveIn, ContextFrames, ContextAt, Need, NeedIn
  <2>3. ContextOK(table, depths, s.frames, s.at, c - 1)
    BY <2>1 DEF ControlInv, Waiting
  <2> QED BY <1>2, <2>2, <2>3 DEF ContextOK
<1> QED BY <1>3, <1>4

\* The depth found by table_depth() is enough: every active format still has the
\* frames its calls may need.  (wi_set_formats, table_depth, _call, _J)
THEOREM Budget == Spec => []BudgetKept
<1> QED BY ControlSound, InvBudget, PTL

LEMMA InvSufficient == ControlInv => CallDepthSufficient
<1> SUFFICES ASSUME ControlInv, AllCounted, status = "parsing", ~AtEnd,
                    Current.op \in CallOps, Callable(Current.n)
             PROVE  Len(frames) < CALL_DEPTH /\ Len(suspended) < CALL_DEPTH
  BY DEF CallDepthSufficient, Op, Running, CallOps
<1>1. AllCountedIn(table)
  BY DEF AllCounted, AllCountedIn
<1>2. /\ NeedIn(table, depths, at.fmt) \in 1..CALL_DEPTH
      /\ NeedIn(table, depths, Current.n) \in 1..CALL_DEPTH
      /\ NeedIn(table, depths, Current.n) < NeedIn(table, depths, at.fmt)
  BY <1>1, CalleeNeedsLess
<1>3. Len(frames) \in Nat /\ Len(suspended) \in Nat /\ CALL_DEPTH \in Nat
  BY ActiveTop, LimitsAssumption
<1>4. ActiveIn(frames, at, Len(frames) + 1) = at.fmt /\ Len(frames) + 1 \in 1 .. Len(frames) + 1
  BY <1>3 DEF ActiveIn
<1>5. NeedIn(table, depths, at.fmt) + ((Len(frames) + 1) - 1) + Len(suspended) <= CALL_DEPTH
  BY <1>1, <1>4 DEF ControlInv, ContextOK
<1> QED BY <1>2, <1>3, <1>5

\* With every call counted, the depth guards of %[n] and %J[n] never refuse a call
\* that wi_set_formats() let through.  (_call, _J, wi_set_formats)
THEOREM Sufficient == Spec => []CallDepthSufficient
<1> QED BY ControlSound, InvSufficient, PTL
=============================================================================
