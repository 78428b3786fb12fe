------------------------------ MODULE Formats ------------------------------
(***************************************************************************)
(* Format strings and the tables that %[n] and %J[n] call into.            *)
(*                                                                         *)
(* A format string is a sequence of tokens [op, n]: one literal byte, or   *)
(* one % specifier with its operand.  op is the specifier's letter, n the  *)
(* operand (a literal, a parameter number, a variable, an element size, a  *)
(* format index) and 0 where there is none.  %J[n] and the bracket-less    *)
(* %Jn, which the interpreter also accepts, are the ops "J[" and "J".      *)
(*                                                                         *)
(* A table is a record [nfmts, fmts]: fmts is defined on the indexes below *)
(* nfmts whose entry is not NULL.                                          *)
(***************************************************************************)
EXTENDS Integers, Sequences

Token == [op : STRING, n : Int]

IsTable(table) ==
  /\ table.nfmts \in Int
  /\ DOMAIN table.fmts \subseteq 0..table.nfmts-1
  /\ \A k \in DOMAIN table.fmts : table.fmts[k] \in Seq(Token)

\* The operand of %[], %J[] and %J: the call was written without a digit.
NoDigits == -1

\* What _call and _J execute, and what next_call recognises as a call.
CallOps    == {"[", "J[", "J"}
CountedOps == {"[", "J["}

\* Every index that running the string could make _call or _J enter from a
\* format of rank k: digits, a table entry that is not NULL, a lower index.
Callees(table, string, k) ==
  {j \in DOMAIN table.fmts :
      j < k /\ \E i \in DOMAIN string : string[i].op \in CallOps /\ string[i].n = j}

\* Position i ends next_call's scan: a call without digits makes it return -1,
\* which table_depth takes for the end of the string.
EndsScan(token) == token.op \in CountedOps /\ token.n = NoDigits

\* Format k's calls that table_depth sees among its first m - 1 tokens.
CountedBefore(table, k, m) ==
  {j \in DOMAIN table.fmts :
      /\ j < k
      /\ \E i \in 1..m-1 :
            /\ table.fmts[k][i].op \in CountedOps
            /\ table.fmts[k][i].n = j
            /\ \A h \in 1..i : ~EndsScan(table.fmts[k][h])}

Counted(table, k) == CountedBefore(table, k, Len(table.fmts[k]) + 1)

\* Mutant: a call costs no depth.
IsDepthLevel(table, depths, k) ==
  /\ depths[k] \in Nat \ {0}
  /\ k \in DOMAIN table.fmts => \A j \in Counted(table, k) : depths[j] <= depths[k]

\* "depth[k] = 1 + max(depth[j]) over every %[j] in format k", for the calls
\* table_depth counts, without an order of evaluation.
IsDepth(table, depths, k) ==
  /\ depths[k] \in Nat \ {0}
  /\ k \in DOMAIN table.fmts =>
       /\ \A j \in Counted(table, k) : depths[j] < depths[k]
       /\ \/ depths[k] = 1
          \/ \E j \in Counted(table, k) : depths[k] = depths[j] + 1
  /\ k \notin DOMAIN table.fmts => depths[k] = 1

IsDepths(table, depths) ==
  \A k \in 0..table.nfmts-1 : IsDepth(table, depths, k)

\* Mutant: no frame is kept for the top string.
AcceptsFull(table, depths, callDepth, maxFormats) ==
  /\ table.nfmts \in 0..maxFormats
  /\ IsDepths(table, depths)
  /\ \A k \in DOMAIN table.fmts : depths[k] <= callDepth

\* Mutant: one format more than the scratch array of depths holds.
AcceptsOneMore(table, depths, callDepth, maxFormats) ==
  /\ table.nfmts \in 0 .. maxFormats + 1
  /\ IsDepths(table, depths)
  /\ \A k \in DOMAIN table.fmts : depths[k] + 1 <= callDepth

\* The acceptance rule of wi_set_formats, one frame kept for the top string.
Accepts(table, depths, callDepth, maxFormats) ==
  /\ table.nfmts \in 0..maxFormats
  /\ IsDepths(table, depths)
  /\ \A k \in DOMAIN table.fmts : depths[k] + 1 <= callDepth
=============================================================================
