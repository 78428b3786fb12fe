-------------------------- MODULE WireFormatMeaning --------------------------
(***************************************************************************)
(* What a format means, without a call stack: a call runs the called       *)
(* string to its end as many times as the pending count says and goes on   *)
(* behind the call; %J runs its string once per row on a fresh state and   *)
(* takes over what the row leaves.  The interpreter, which keeps explicit  *)
(* frames with repeat counters and unwinds them one by one, is compared    *)
(* with it.  (TLC only: the definition is recursive.)                      *)
(***************************************************************************)
EXTENDS MCWireFormat

LOCAL INSTANCE SequencesExt

\* The state a string transforms; rank is cur_fmt, level counts the %J above.
Fresh(params, slices, lists, room, pos) ==
  [stack |-> <<>>, params |-> params, vars |-> [x \in Vars |-> 0],
   slices |-> slices, lists |-> lists,
   out |-> <<>>, room |-> room, pos |-> pos, faults |-> {}, over |-> FALSE,
   pending |-> 1, heap |-> job.heap]

Halted(s) == s.over \/ s.faults \cap job.abort_mask # {}
Fail(s)   == [s EXCEPT !.over = TRUE]
Put(s, b) == IF Len(s.out) < s.room THEN [s EXCEPT !.out = Append(@, b % Base)] ELSE Fail(s)
PutAll(s, bytes) == FoldLeft(LAMBDA z, b : IF z.over THEN z ELSE Put(z, b), s, bytes)
Give(s, n) == IF Len(s.stack) < STACK_DEPTH THEN [s EXCEPT !.stack = Append(@, n)] ELSE Fail(s)
Missing(slice) == slice.data = NULL /\ slice.length > 0
Has(s, k) == Len(s.stack) >= k
Top(s, i) == s.stack[Len(s.stack) + 1 - i]
Drop(s, k) == [s EXCEPT !.stack = SubSeq(@, 1, Len(@) - k)]

\* The effect of a specifier that neither branches nor calls.
Effect(s, t) ==
  CASE t.op = "lit" -> Put(s, t.n)
    [] t.op = "{"   -> Give(s, t.n)
    [] t.op = "p"   -> Give(s, s.params[t.n - 1])
    [] t.op = "g"   -> Give(s, s.vars[t.n])
    [] t.op \in {"?", ";"} -> s
    [] t.op = "B"   -> IF job.encode \/ s.pos = job.in_size THEN Fail(s)
                       ELSE Give([s EXCEPT !.pos = @ + 1], job.mem[s.pos + 1])
    [] OTHER -> IF ~Has(s, 1) THEN Fail(s) ELSE
      CASE t.op = ":" -> [Drop(s, 1) EXCEPT !.pending = Top(s, 1)]
        [] t.op = "P" -> [Drop(s, 1) EXCEPT !.vars[t.n] = Top(s, 1)]
        [] t.op = "b" -> Put(Drop(s, 1), Top(s, 1))
        [] t.op = "E" -> [Drop(s, 1) EXCEPT !.faults = @ \cup BitsOf(Top(s, 1), IntBits)]
        [] t.op = "z" -> Give(Drop(s, 1), s.slices[Top(s, 1)].length)
        [] t.op = "v" -> IF Missing(s.slices[Top(s, 1)]) THEN Fail(Drop(s, 1))
                         ELSE PutAll(Drop(s, 1), Bytes(s.slices[Top(s, 1)]))
        [] t.op = "R" -> LET rest == [data |-> job.in + s.pos, length |-> job.in_size - s.pos]
                         IN [Drop(s, 1) EXCEPT !.slices[Top(s, 1)] = rest, !.pos = job.in_size]
        [] t.op = "N" -> IF ~Has(s, 2) THEN Fail(s)
                         ELSE LET d == Drop(s, 2)
                                  part == [data |-> job.in + s.pos, length |-> Top(s, 2)]
                              IN IF Top(s, 2) \notin 0 .. job.in_size - s.pos THEN Fail(d)
                                 ELSE [d EXCEPT !.slices[Top(s, 1)] = part,
                                                !.pos = @ + Top(s, 2)]
        [] t.op = "V" -> IF ~Has(s, 2) THEN Fail(s)
                         ELSE IF s.slices[Top(s, 1)].length # Top(s, 2)
                                 \/ Missing(s.slices[Top(s, 1)]) THEN Fail(Drop(s, 2))
                         ELSE PutAll(Drop(s, 2), Bytes(s.slices[Top(s, 1)]))
        [] t.op = "k" -> IF Top(s, 1) \notin Slots THEN Fail(Drop(s, 1))
                         ELSE IF s.lists[Top(s, 1)] = NULL THEN Fail(Drop(s, 1))
                         ELSE Give(Drop(s, 1), s.heap[s.lists[Top(s, 1)]].count)

\* The position behind the %; or %e that ends the branch starting at i.
RECURSIVE BranchEnd(_, _, _, _)
BranchEnd(string, i, nested, letters) ==
  IF i > Len(string) THEN 0
  ELSE LET op == string[i].op
       IN IF nested = 0 /\ op \in letters THEN i + 1
          ELSE BranchEnd(string, i + 1,
                 nested + (IF op = "?" THEN 1 ELSE IF op = ";" THEN -1 ELSE 0), letters)

RECURSIVE Run(_, _, _, _, _)
RECURSIVE Times(_, _, _, _)
RECURSIVE Rows(_, _, _, _, _, _)

\* %J on an empty stack overruns, and takes what is missing for zeros: a list in
\* slot 0 whose rows have no fields is announced empty all the same.
ShortOfOperands(s, enters) ==
  LET l == s.lists[0]
  IN IF enters /\ ~job.encode /\ Len(s.stack) = 0 /\ l # NULL /\ s.heap[l].backed
        /\ s.heap[l].fields = 0
     THEN [s.heap EXCEPT ![l].count = 0] ELSE s.heap

\* Running the string from position i, as format rank.
Run(s, string, i, rank, level) ==
  IF Halted(s) \/ i > Len(string) THEN s
  ELSE
  LET t == string[i]
      Branch(state, letters) ==
        LET j == BranchEnd(string, i + 1, 0, letters)
        IN IF j = 0 THEN Fail(state) ELSE Run(state, string, j, rank, level)
      Enters(n) == n \in DOMAIN job.table.fmts /\ n < rank
  IN CASE t.op = "t" /\ ~Has(s, 1) -> Fail(s)
       [] t.op = "t" /\ Has(s, 1) /\ Top(s, 1) = 0 -> Branch(Drop(s, 1), {";", "e"})
       [] t.op = "t" /\ Has(s, 1) /\ Top(s, 1) # 0 -> Run(Drop(s, 1), string, i + 1, rank, level)
       [] t.op = "e" -> Branch(s, {";"})
       [] t.op = "[" ->
            LET called == [s EXCEPT !.pending = 1]
            IN Run(IF Enters(t.n) THEN Times(called, t.n, s.pending, level) ELSE called,
                   string, i + 1, rank, level)
       [] t.op = "J[" ->
            IF ~Has(s, 3) THEN [Fail(s) EXCEPT !.heap = ShortOfOperands(s, Enters(t.n))]
            ELSE LET d == Drop(s, 3)
                     l == IF Top(s, 2) \in Slots THEN d.lists[Top(s, 2)] ELSE NULL
                     count == Top(s, 3)
                 IN IF ~Enters(t.n) \/ l = NULL THEN Fail(d)
                    ELSE IF \/ ~s.heap[l].backed \/ Top(s, 1) # s.heap[l].fields
                            \/ count \notin 0..Len(s.heap[l].rows)
                            \/ job.encode /\ count # s.heap[l].count THEN Fail(d)
                    ELSE Run(Rows(IF job.encode THEN d ELSE [d EXCEPT !.heap[l].count = count],
                                  t.n, l, 1, count, level + 1),
                             string, i + 1, rank, level)
       [] OTHER -> Run(Effect(s, t), string, i + 1, rank, level)

\* Format n, as many times as count says.
Times(s, n, count, level) ==
  IF Halted(s) \/ count <= 0 THEN s
  ELSE Times(Run(s, job.table.fmts[n], 1, n, level), n, count - 1, level)

\* A decoded row keeps its own fields of the child's variables and slices.
Kept(row, done, mine) ==
  [row EXCEPT !.values = [x \in Slots |-> IF x \in mine THEN done.vars[x] ELSE @[x]],
              !.slices = [x \in Slots |-> IF x \in mine THEN done.slices[x] ELSE @[x]]]

\* Format n for the rows r to count of list l.
Rows(s, n, l, r, count, level) ==
  IF Halted(s) \/ r > count THEN s
  ELSE
  LET row   == s.heap[l].rows[r]
      mine  == 0 .. s.heap[l].fields - 1
      child == [Fresh([x \in Slots |-> IF job.encode /\ x \in mine THEN row.values[x] ELSE 0],
                      [x \in Slots |-> IF job.encode /\ x \in mine THEN row.slices[x] ELSE NoSlice],
                      [x \in Slots |-> IF x \in mine THEN row.lists[x] ELSE NULL],
                      s.room - Len(s.out), s.pos) EXCEPT !.heap = s.heap]
      done  == Run(child, job.table.fmts[n], 1, n, level)
      after == [s EXCEPT !.faults = @ \cup done.faults, !.heap = done.heap]
  IN IF done.over THEN Fail(after)
     ELSE Rows([after EXCEPT !.out = @ \o done.out, !.pos = done.pos,
                             !.heap[l].rows[r] = IF job.encode THEN @ ELSE Kept(@, done, mine)],
               n, l, r + 1, count, level)

Meaning ==
  Run(Fresh(job.params, job.slices, job.lists, job.out_size, 0), job.tops[1], 1, job.table.nfmts, 0)

\* A parse leaves exactly what its strings mean: the bytes, the faults, the rows
\* and the input position, and, if it did not overrun, the stack and the variables;
\* and what the caller sees of %: is the count left armed.  (For tables of fewer formats than
\* the call stack has frames, so that no call is refused; Effect knows the specifiers
\* that the jobs with a table use.)
AgreesWithMeaning ==
  status = "returned" /\ turn = 1 /\ Cardinality(DOMAIN job.table.fmts) \in 1..CALL_DEPTH-1 =>
    LET m == Meaning
    IN /\ wi.overrun = m.over /\ wi.faults = m.faults
       /\ wi.out = m.out /\ heap = m.heap
       /\ wi.overrun \/ (wi.in_pos = m.pos /\ wi.fstack = m.stack
                         /\ wi.vars = m.vars /\ wi.slices = m.slices /\ pending = m.pending)
=============================================================================
