--------------------------- MODULE MCFormatTable ---------------------------
(***************************************************************************)
(* Every table of up to four formats of up to two tokens for formats 1 and *)
(* 2, one to three tokens for format 3; NULL entries, forward and self     *)
(* references, calls without digits.                                       *)
(***************************************************************************)
EXTENDS FormatTable

Tok(op, n) == [op |-> op, n |-> n]

Calls   == {Tok("[", n) : n \in -1..3} \cup {Tok("J[", 1), Tok("J", 0), Tok("lit", 1)}
Strings == {<<>>} \cup {<<a>> : a \in Calls} \cup {<<a, b>> : a, b \in Calls}

Short   == {<<>>, <<Tok("[", 0)>>, <<Tok("lit", 0)>>}


MCTables ==
  {[nfmts |-> 0, fmts |-> <<>>], [nfmts |-> -1, fmts |-> <<>>],
   [nfmts |-> 5, fmts |-> [j \in 0..4 |-> <<>>]]}
  \cup {[nfmts |-> 4, fmts |-> [j \in 0..3 |-> <<<<>>, a, b, c>>[j + 1]]] :
          a \in Short, b \in Strings, c \in Strings}
  \cup {[nfmts |-> 3, fmts |-> [j \in {0, 2} |-> IF j = 0 THEN a ELSE b]] :
          a \in Short, b \in Strings}
=============================================================================
