---------------------------- MODULE TableOracle ----------------------------
(***************************************************************************)
(* What wi_set_formats() promises, without its one pass over the table:    *)
(* one question, one answer, decided by the chains of calls.               *)
(***************************************************************************)
EXTENDS Formats, FiniteSets

CONSTANTS CALL_DEPTH, MAX_FORMATS

VARIABLES table, answer

\* A chain of calls: each member but the lowest calls the next lower one.
IsChain(t, chain) ==
  \A i, j \in chain :
    i > j /\ (\A h \in chain : ~(j < h /\ h < i)) => j \in Counted(t, i)

\* Every chain fits the call stack, with a frame left for the top string.
Safe(t) ==
  /\ t.nfmts \in 0..MAX_FORMATS
  /\ \A chain \in SUBSET DOMAIN t.fmts : IsChain(t, chain) => Cardinality(chain) < CALL_DEPTH

Init == IsTable(table) /\ answer = "none"

Answer ==
  /\ answer = "none"
  /\ answer' = IF Safe(table) THEN "accepted" ELSE "refused"
  /\ UNCHANGED table

Spec == Init /\ [][Answer]_<<table, answer>> /\ WF_<<table, answer>>(Answer)
=============================================================================
