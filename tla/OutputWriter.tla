---------------------------- MODULE OutputWriter ----------------------------
(***************************************************************************)
(* How wfc replaces a generated header and .wi file together: write_outputs *)
(* of compiler/main.c and write_pair of rust/wfc/src/output.rs, one system  *)
(* call per step.  Both stage two temporaries, move the existing outputs    *)
(* aside, rename the temporaries into place and, when a step fails, undo    *)
(* what was done; the undo itself ignores its errors.                       *)
(***************************************************************************)
EXTENDS Integers, Sequences, FiniteSets

CONSTANTS
  Runs,         \* the compilations of one output stem
  Ports,        \* the implementations that are run: "c", "rust"
  Pids,         \* process numbers
  MAX_LIVE,     \* how many compilations may overlap
  FaultySteps,  \* the steps whose system call may fail
  Found         \* what may be at the two output paths before the first run

Steps == {"parents", "stage", "look", "move", "install", "undo"}
Names == {"header", "binary"}

\* What a path holds: nothing, an incomplete file, something that is not a regular
\* file, the file that was there at first, or the output of a run.
Complete == {"old"} \cup Runs
Contents == {"none", "partial", "odd"} \cup Complete

ASSUME RunsAssumption  == Runs \cap {"none", "partial", "odd", "old"} = {}
ASSUME PortsAssumption == Ports \subseteq {"c", "rust"}
ASSUME NoncesAssumption == Runs \cap Pids = {}
ASSUME LiveAssumption  == MAX_LIVE \in Nat \ {0}
ASSUME FaultsAssumption == FaultySteps \subseteq Steps
ASSUME FoundAssumption == Found \subseteq {"none", "odd", "old"}

VARIABLES
  target,   \* the two output paths
  temp,     \* the temporaries of every nonce
  backup,   \* the files moved aside, by nonce
  port,     \* the implementation of a run
  pid,      \* its process number
  pc, on,   \* the step it is at, and for which of the two files
  had,      \* had_header and had_binary
  todo,     \* the best-effort calls that are left before it returns
  answer,   \* what it will return
  before    \* what it found at the output paths, to state properties

files == <<target, temp, backup>>
vars  == <<target, temp, backup, port, pid, pc, on, had, todo, answer, before>>

\* The C name of a temporary holds the process number alone, the Rust one the
\* time too.
Nonce(r) == IF port[r] = "c" THEN pid[r] ELSE r

Init ==
  /\ target \in [Names -> Found]
  /\ temp = [x \in Pids \cup Runs |-> [n \in Names |-> "none"]]
  /\ backup = temp
  /\ port \in [Runs -> Ports]
  /\ pid \in [Runs -> Pids]
  /\ pc = [r \in Runs |-> "idle"] /\ on = [r \in Runs |-> "header"]
  /\ had = [r \in Runs |-> [n \in Names |-> FALSE]]
  /\ todo = [r \in Runs |-> <<>>]
  /\ answer = [r \in Runs |-> "none"]
  /\ before = [r \in Runs |-> target]

Live(r) == pc[r] \notin {"idle", "returned", "crashed"}

-----------------------------------------------------------------------------
(* The way out.  Every path through the function ends in a list of calls      *)
(* whose errors nobody looks at.                                              *)

Call(op, name) == [op |-> op, name |-> name]

\* restore(): C removes whatever is at the path first.
Restore(r, n) ==
  (IF port[r] = "c" THEN <<Call("unlink", n)>> ELSE <<>>) \o
  (IF had[r][n] THEN <<Call("put_back", n)>> ELSE <<>>)

SweepBoth == <<Call("sweep", "header"), Call("sweep", "binary")>>

\* Mutant: the header stays aside when the .wi cannot be moved.
UndoForgetsHeader(r) ==
  (IF pc[r] = "install" THEN Restore(r, "header") \o Restore(r, "binary") ELSE <<>>) \o SweepBoth

\* What a run still does when the step it is at fails.
Undo(r) ==
  LET restored ==
        CASE pc[r] \in {"look", "move"} /\ on[r] = "binary" -> Restore(r, "header")
          [] pc[r] = "install" -> Restore(r, "header") \o Restore(r, "binary")
          [] OTHER -> <<>>
      removed == IF pc[r] = "install" /\ on[r] = "binary" /\ port[r] = "rust"
                   THEN <<Call("unlink", "header")>> ELSE <<>>
      swept ==
        IF port[r] = "c" \/ pc[r] \in {"look", "move"} THEN SweepBoth
        ELSE CASE pc[r] = "stage" /\ on[r] = "binary" -> <<Call("sweep", "header")>>
               [] pc[r] = "install" -> <<Call("sweep", "binary")>>
               [] OTHER -> <<>>
  IN removed \o restored \o swept

Leave(r, result, calls) ==
  /\ pc' = [pc EXCEPT ![r] = "leaving"]
  /\ todo' = [todo EXCEPT ![r] = calls]
  /\ answer' = [answer EXCEPT ![r] = result]
  /\ UNCHANGED on

Fail(r) == Leave(r, "failure", Undo(r))

\* The step for the header is followed by the same step for the .wi, except that
\* each file is looked at and moved aside before the other.
Proceed(r, step, name) ==
  /\ pc' = [pc EXCEPT ![r] = step] /\ on' = [on EXCEPT ![r] = name]
  /\ UNCHANGED <<todo, answer>>

MayFail(step) == step \in FaultySteps

-----------------------------------------------------------------------------
(* The steps of a run                                                         *)

Begin(r) ==
  /\ pc[r] = "idle" /\ Cardinality({q \in Runs : Live(q)}) < MAX_LIVE
  /\ \A q \in Runs : Live(q) => pid[q] # pid[r]
  /\ before' = [before EXCEPT ![r] = target]
  /\ Proceed(r, "parents", "header")
  /\ UNCHANGED <<files, port, pid, had>>

\* make_parent_directories(); then C removes what an earlier process of the same
\* number may have left behind.
MakeParents(r) ==
  /\ pc[r] = "parents"
  /\ \/ /\ Proceed(r, "stage", "header")
        /\ IF port[r] = "c"
             THEN /\ temp' = [temp EXCEPT ![pid[r]] = [n \in Names |-> "none"]]
                  /\ backup' = [backup EXCEPT ![pid[r]] = [n \in Names |-> "none"]]
             ELSE UNCHANGED <<temp, backup>>
     \/ MayFail("parents") /\ Fail(r) /\ UNCHANGED <<temp, backup>>
  /\ UNCHANGED <<target, port, pid, had, before>>

\* Mutant: a short write goes unnoticed.
StageShort(r) ==
  /\ pc[r] = "stage"
  /\ \E content \in {"partial", r} :
        temp' = [temp EXCEPT ![Nonce(r)][on[r]] = content]
  /\ IF on[r] = "header" THEN Proceed(r, "stage", "binary") ELSE Proceed(r, "look", "header")
  /\ UNCHANGED <<target, backup, port, pid, had, before>>

\* write_new_file() or write_new(); O_EXCL finds no file of that name, see MakeParents
\* and Nonce.  A write that fails leaves an incomplete file.
Stage(r) ==
  /\ pc[r] = "stage" /\ temp[Nonce(r)][on[r]] = "none"
  /\ \/ /\ temp' = [temp EXCEPT ![Nonce(r)][on[r]] = r]
        /\ IF on[r] = "header" THEN Proceed(r, "stage", "binary")
                               ELSE Proceed(r, "look", "header")
     \/ /\ MayFail("stage")
        /\ \E content \in {"none", "partial"} :
              temp' = [temp EXCEPT ![Nonce(r)][on[r]] = content]
        /\ Fail(r)
  /\ UNCHANGED <<target, backup, port, pid, had, before>>

AfterMove(r) == IF on[r] = "header" THEN Proceed(r, "look", "binary")
                                    ELSE Proceed(r, "install", "header")

\* lstat() in move_existing().
Look(r) ==
  /\ pc[r] = "look"
  /\ \/ target[on[r]] = "none" /\ AfterMove(r)
     \/ target[on[r]] \in Complete /\ Proceed(r, "move", on[r])
     \/ target[on[r]] = "odd" /\ Fail(r)
     \/ MayFail("look") /\ Fail(r)
  /\ UNCHANGED <<files, port, pid, had, before>>

\* rename() in move_existing(): the path may have gone since it was looked at.
Move(r) ==
  /\ pc[r] = "move"
  /\ \/ /\ target[on[r]] # "none"
        /\ target' = [target EXCEPT ![on[r]] = "none"]
        /\ backup' = [backup EXCEPT ![Nonce(r)][on[r]] = target[on[r]]]
        /\ had' = [had EXCEPT ![r][on[r]] = TRUE]
        /\ AfterMove(r)
     \/ /\ target[on[r]] = "none" \/ MayFail("move")
        /\ Fail(r)
        /\ UNCHANGED <<target, backup, had>>
  /\ UNCHANGED <<temp, port, pid, before>>

\* Mutant: success is declared with the header alone.
InstallHeaderOnly(r) ==
  /\ pc[r] = "install"
  /\ target' = [target EXCEPT !["header"] = temp[Nonce(r)]["header"]]
  /\ temp' = [temp EXCEPT ![Nonce(r)]["header"] = "none"]
  /\ Leave(r, "success", <<Call("drop", "header"), Call("drop", "binary")>> \o SweepBoth)
  /\ UNCHANGED <<backup, port, pid, had, before>>

\* rename() of a temporary; after the second one the backups go.
Install(r) ==
  /\ pc[r] = "install"
  /\ \/ /\ target' = [target EXCEPT ![on[r]] = temp[Nonce(r)][on[r]]]
        /\ temp' = [temp EXCEPT ![Nonce(r)][on[r]] = "none"]
        /\ IF on[r] = "header" THEN Proceed(r, "install", "binary")
           ELSE Leave(r, "success", <<Call("drop", "header"), Call("drop", "binary")>>
                                    \o IF port[r] = "c" THEN SweepBoth ELSE <<>>)
     \/ MayFail("install") /\ Fail(r) /\ UNCHANGED <<target, temp>>
  /\ UNCHANGED <<backup, port, pid, had, before>>

\* The files after one of the best-effort calls: remove_if_present() and restore() in
\* output.rs, unlink() and the rename() of restore() in main.c.
Apply(r, call) ==
  LET x == Nonce(r)
      n == call.name
  IN CASE call.op = "unlink" ->
            target' = [target EXCEPT ![n] = "none"] /\ UNCHANGED <<temp, backup>>
       [] call.op = "put_back" ->
            /\ target' = [target EXCEPT ![n] = IF backup[x][n] = "none" THEN @ ELSE backup[x][n]]
            /\ backup' = [backup EXCEPT ![x][n] = "none"]
            /\ UNCHANGED temp
       [] call.op = "sweep" ->
            temp' = [temp EXCEPT ![x][n] = "none"] /\ UNCHANGED <<target, backup>>
       [] call.op = "drop" ->
            backup' = [backup EXCEPT ![x][n] = "none"] /\ UNCHANGED <<target, temp>>

\* Mutant: the backups are dropped on the way out of a failure too.
TidyDropsBackups(r) ==
  /\ pc[r] = "leaving" /\ todo[r] # <<>>
  /\ IF Head(todo[r]).op = "put_back"
       THEN backup' = [backup EXCEPT ![Nonce(r)][Head(todo[r]).name] = "none"]
            /\ UNCHANGED <<target, temp>>
       ELSE Apply(r, Head(todo[r]))
  /\ todo' = [todo EXCEPT ![r] = Tail(@)]
  /\ UNCHANGED <<port, pid, pc, on, had, answer, before>>

\* Mutant: no temporary is removed.
TidyLeavesTemporaries(r) ==
  /\ pc[r] = "leaving" /\ todo[r] # <<>>
  /\ IF Head(todo[r]).op = "sweep" THEN UNCHANGED files ELSE Apply(r, Head(todo[r]))
  /\ todo' = [todo EXCEPT ![r] = Tail(@)]
  /\ UNCHANGED <<port, pid, pc, on, had, answer, before>>

Tidy(r) ==
  /\ pc[r] = "leaving" /\ todo[r] # <<>>
  /\ \/ Apply(r, Head(todo[r]))
     \/ MayFail("undo") /\ UNCHANGED files
  /\ todo' = [todo EXCEPT ![r] = Tail(@)]
  /\ UNCHANGED <<port, pid, pc, on, had, answer, before>>

Return(r) ==
  /\ pc[r] = "leaving" /\ todo[r] = <<>>
  /\ pc' = [pc EXCEPT ![r] = "returned"]
  /\ UNCHANGED <<files, port, pid, on, had, todo, answer, before>>

\* The process is killed, between two calls or within a write.
Crash(r) ==
  /\ Live(r)
  /\ pc' = [pc EXCEPT ![r] = "crashed"]
  /\ \/ UNCHANGED temp
     \/ /\ pc[r] = "stage"
        /\ temp' = [temp EXCEPT ![Nonce(r)][on[r]] = "partial"]
  /\ UNCHANGED <<target, backup, port, pid, on, had, todo, answer, before>>

Over == \A r \in Runs : pc[r] \in {"returned", "crashed"}
Done == Over /\ UNCHANGED vars

Next ==
  \/ \E r \in Runs : \/ Begin(r) \/ MakeParents(r) \/ Stage(r) \/ Look(r) \/ Move(r)
                     \/ Install(r) \/ Tidy(r) \/ Return(r) \/ Crash(r)
  \/ Done

Spec == Init /\ [][Next]_vars

-----------------------------------------------------------------------------
\* Every variable stays in its type.  Live processes have numbers of their own, and
\* a run that looks at the outputs has both its temporaries, complete.
TypeOK ==
  /\ target \in [Names -> Contents]
  /\ temp \in [Pids \cup Runs -> [Names -> Contents]]
  /\ backup \in [Pids \cup Runs -> [Names -> Contents]]
  /\ \A r \in Runs :
        /\ pc[r] \in {"idle", "parents", "stage", "look", "move", "install", "leaving",
                      "returned", "crashed"}
        /\ on[r] \in Names /\ had[r] \in [Names -> BOOLEAN]
        /\ answer[r] \in {"none", "success", "failure"}
        /\ pc[r] \in {"look", "move"} =>
             \A n \in Names : temp[Nonce(r)][n] = r

\* The outputs are staged: what is at an output path is never half a file, whatever
\* fails, is killed or runs at the same time.
OutputsComplete == \A n \in Names : target[n] # "partial"

\* A compilation that fails puts both outputs back as it found them: no mixture of
\* old and new, nothing missing.  (One compilation at a time, and an undo that works.)
FailureLeavesOutputs ==
  [][\A r \in Runs : pc[r] = "leaving" /\ pc'[r] = "returned" /\ answer[r] = "failure" =>
        target = before[r]]_vars

\* A compilation that succeeds leaves its own header and its own .wi.
SuccessInstallsBoth ==
  [][\A r \in Runs : pc[r] = "leaving" /\ pc'[r] = "returned" /\ answer[r] = "success" =>
        \A n \in Names : target[n] = r]_vars

Succeeded(r) == answer[r] = "success"

\* A C process has the number of one that was killed: it removes the backups it finds.
NumberReused ==
  \E q, r \in Runs :
     /\ q # r /\ port[q] = "c" /\ port[r] = "c" /\ pid[q] = pid[r]
     /\ pc[q] = "crashed" /\ pc[r] # "idle"

\* What a run found is on disk, at its path or aside, until some run has installed
\* both of its own files; also after a run was killed at any point.  (One at a time:
\* the restore() of a C run whose move failed unlinks a path whatever is there, and
\* may remove what another run has just put back.)
NothingLost ==
  \/ \E q \in Runs : Succeeded(q)
  \/ NumberReused
  \/ \A r \in Runs : pc[r] # "idle" =>
        \A n \in Names :
          before[r][n] \in {"none", target[n]} \cup {backup[x][n] : x \in DOMAIN backup}

\* A run that returned has removed every file of its own: the temporaries and, put
\* back or dropped, the backups.  (Only in C: the Rust port leaves its header's
\* temporary behind when writing or installing the header fails.)
NothingLeftBehind ==
  \A r \in Runs :
     pc[r] = "returned" /\ port[r] = "c" /\ (\A q \in Runs \ {r} : pid[q] # pid[r]) =>
       \A n \in Names : temp[Nonce(r)][n] = "none" /\ backup[Nonce(r)][n] = "none"

\* doc/WF_FILE_FORMAT.md says: "A failed compilation does not leave a mixture of old
\* and new outputs."
NoMixture ==
  (\A r \in Runs : pc[r] = "returned") /\ (\E r \in Runs : answer[r] = "failure") =>
     ~(\E n, m \in Names : target[n] = "old" /\ target[m] \in Runs)
=============================================================================
