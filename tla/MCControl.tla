----------------------------- MODULE MCControl -----------------------------
(***************************************************************************)
(* The control part of the interpreter.  Three sets of jobs: every top     *)
(* string of up to MaxTop tokens over the control specifiers, on tables    *)
(* with NULL entries, self and forward references, repeats armed inside a  *)
(* called format, and conditionals that a called format opens or closes;   *)
(* tables that call and sequence as deep as the call stack and deeper,     *)
(* some of the calls hidden from table_depth(); and two strings parsed one *)
(* after the other on the same wi_vars_t.                                  *)
(***************************************************************************)
EXTENDS WireFormatMeaning

CONSTANTS MaxTop,   \* longest top string
          MaxTurn   \* longest string of each of two parses

ControlTokens ==
  {[op |-> "lit", n |-> 1], [op |-> "{", n |-> 0], [op |-> "{", n |-> 2],
   [op |-> ":", n |-> 0], [op |-> "[", n |-> 0], [op |-> "[", n |-> 1],
   [op |-> "?", n |-> 0], [op |-> "t", n |-> 0], [op |-> "e", n |-> 0],
   [op |-> ";", n |-> 0]}

ControlTops == UNION {[1..k -> ControlTokens] : k \in 0..MaxTop}

ControlTables ==
  {\* a repeat armed by a called format, for the next call of its caller; a negative
   \* one is the count of no call
   TableOf(<<Num(n) \o T(":"), Lit(2) \o N("[", 0) \o N("[", 0)>>, {}) : n \in {2, -1}}
  \cup
  {\* a chain, with self and forward references that never run
   TableOf(<<Lit(1), Lit(2) \o N("[", 0) \o N("[", 1) \o N("[", 2)>>, {}),
   \* conditionals opened, closed or left in a called format; a NULL entry
   TableOf(<<T("?") \o Num(0) \o T("t"), Num(1) \o T("t") \o Lit(3) \o T("e") \o Lit(2), <<>> >>, {2}),
   TableOf(<<T("e") \o Lit(3) \o T(";"), Num(2) \o T(":") \o N("[", NoDigits) \o N("[", 0)>>, {}),
   \* a fatal and a tolerated fault
   TableOf(<<Num(1) \o T("E") \o Lit(3), Num(2) \o T("E") \o N("[", 0)>>, {}),
   TableOf(<<Lit(1), Lit(2)>>, {0})}

-----------------------------------------------------------------------------
(* Nesting                                                                   *)

\* A list whose only row holds the list itself: sequences can nest at will.
Deep == <<ListOf(<<RowOf(<<1>>, <<>>, <<1>>)>>, 1, 1)>>

Sequenced(op, n) == Num(1) \o Num(0) \o Num(1) \o N(op, n)

\* One use of a lower format, or of format k itself, or none.
Uses(k) ==
  {Lit(1)} \cup {N("[", j) : j \in 0..k-1} \cup {Sequenced("J[", j) : j \in 0..k}
  \cup {Sequenced("J", k-1), N("[", NoDigits) \o N("[", k-1)}

DeepTops == {N("[", 3), Sequenced("J[", 3), Num(2) \o T(":") \o N("[", 3)}

DeepTables ==
  {TableOf(<<Lit(1), a, b, c \o d>>, {}) :
     a \in Uses(1), b \in Uses(2), c \in Uses(3), d \in Uses(3) \cap Uses(1)}

Once(t, top) == EncodeJob(t, <<top>>, <<>>, <<>>, <<1>>, Deep, <<>>, 3, {0})
DepthJobs == {Once(t, top) : t \in DeepTables, top \in DeepTops}
-----------------------------------------------------------------------------
(* Two parses                                                                *)

Pieces == {T("B")[1], N("P", 0)[1], N("g", 0)[1], Num(2)[1], T(":")[1], N("[", 0)[1], T("E")[1]}

Strings == UNION {[1..k -> Pieces] : k \in 0..MaxTurn}

Inputs == {<<>>, <<2>>, <<1, 2, 0, 3>>}

Twice(tops, input) == DecodeJob(TableOf(<<T("B")>>, {}), tops, input, <<>>, <<>>, {0})

\* One set of jobs; numbering their kinds keeps TLC from comparing whole jobs.
MCJobs ==
  {IF c[1] < 3 THEN Once(c[2], c[3]) ELSE Twice(c[2], c[3]) :
     c \in ({1} \X ControlTables \X ControlTops) \cup ({2} \X DeepTables \X DeepTops)
           \cup ({3} \X (Strings \X Strings) \X Inputs)}
-----------------------------------------------------------------------------
Parsed(string) == Run(Fresh(job.params, job.slices, job.lists, 0, 0), string, 1, job.table.nfmts, 0)

\* "in_pos advances with each call; multiple wi_parse() calls continue from where the
\* previous left off.  Results land in v->vars[]." (wire_format.h)
\* After a first call that did not fail, the second call means what its string means
\* from where the first one ended: the same input position, variables and operand
\* stack, but no fault and no repeat count that the first one has left.
ParsesContinue ==
  status = "returned" /\ turn = 2 =>
    LET first == Parsed(job.tops[1])
        second == Run([first EXCEPT !.faults = {}, !.pending = 1], job.tops[2], 1, job.table.nfmts, 0)
    IN ~Halted(first) =>
         /\ wi.overrun = second.over /\ wi.faults = second.faults
         /\ ~wi.overrun => /\ wi.in_pos = second.pos /\ wi.vars = second.vars
                           /\ wi.fstack = second.stack /\ pending = second.pending
=============================================================================
