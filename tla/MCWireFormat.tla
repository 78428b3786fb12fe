---------------------------- MODULE MCWireFormat ----------------------------
(***************************************************************************)
(* What the model-checking modules of the interpreter share: how to write  *)
(* tokens, tables, rows, lists and jobs.                                   *)
(***************************************************************************)
EXTENDS WireFormat

T(op)     == <<[op |-> op, n |-> 0]>>
N(op, n)  == <<[op |-> op, n |-> n]>>
Lit(b)    == N("lit", b)
Num(n)    == N("{", n)

\* A table of all the strings s but those at the indexes in nulls.
TableOf(s, nulls) ==
  [nfmts |-> Len(s), fmts |-> [k \in (0..Len(s)-1) \ nulls |-> s[k+1]]]

NoTable == [nfmts |-> 0, fmts |-> <<>>]

First(values, zero) == [x \in Slots |-> IF x < Len(values) THEN values[x+1] ELSE zero]

RowOf(values, slices, lists) ==
  [values |-> First(values, 0), slices |-> First(slices, NoSlice), lists |-> First(lists, NULL)]

ListOf(rows, count, fields) ==
  [rows |-> rows, backed |-> TRUE, count |-> count, fields |-> fields]

EncodeJob(t, tops, params, slices, lists, heap0, mem, size, mask) ==
  [table |-> t, tops |-> tops, mem |-> mem, encode |-> TRUE, out_size |-> size,
   in |-> NULL, in_size |-> 0, params |-> First(params, 0), slices |-> First(slices, NoSlice),
   lists |-> First(lists, NULL), heap |-> heap0, abort_mask |-> mask]

DecodeJob(t, tops, input, lists, heap0, mask) ==
  [table |-> t, tops |-> tops, mem |-> input, encode |-> FALSE, out_size |-> 0,
   in |-> 1, in_size |-> Len(input), params |-> First(<<>>, 0), slices |-> First(<<>>, NoSlice),
   lists |-> First(lists, NULL), heap |-> heap0, abort_mask |-> mask]
=============================================================================
