------------------------- MODULE OutputWriterProofs -------------------------
(***************************************************************************)
(* OutputWriter keeps its types, and no output path ever holds half a      *)
(* file: for any number of overlapping compilations, of either port, with  *)
(* every call failing at will and every process killed at any point.       *)
(***************************************************************************)
EXTENDS OutputWriter, FiniteSetTheorems, TLAPS

PCs   == {"idle", "parents", "stage", "look", "move", "install", "leaving", "returned", "crashed"}
Files == [Names -> Contents]
Calls == [op : {"unlink", "put_back", "sweep", "drop"}, name : Names]

\* Every variable stays in its type.
Typed ==
  /\ target \in Files
  /\ temp \in [Pids \cup Runs -> Files] /\ backup \in [Pids \cup Runs -> Files]
  /\ port \in [Runs -> Ports] /\ pid \in [Runs -> Pids]
  /\ pc \in [Runs -> PCs] /\ on \in [Runs -> Names]
  /\ had \in [Runs -> [Names -> BOOLEAN]]
  /\ todo \in [Runs -> Seq(Calls)]
  /\ answer \in [Runs -> {"none", "success", "failure"}]

\* Live processes have numbers of their own.
Apart == \A q, r \in Runs : q # r /\ Live(q) /\ Live(r) => pid[q] # pid[r]

\* The temporaries a run has already staged, and not yet installed, are its own and
\* complete.
Staged(r) ==
  /\ pc[r] = "stage" /\ on[r] = "binary" => temp[Nonce(r)]["header"] = r
  /\ pc[r] \in {"look", "move"} => \A n \in Names : temp[Nonce(r)][n] = r
  /\ pc[r] = "install" => temp[Nonce(r)][on[r]] = r /\ temp[Nonce(r)]["binary"] = r

\* Neither the output paths nor the files moved aside hold half a file.
Whole ==
  /\ \A n \in Names : target[n] # "partial"
  /\ \A x \in Pids \cup Runs : \A n \in Names : backup[x][n] # "partial"

Inv == Typed /\ Apart /\ (\A r \in Runs : Staged(r)) /\ Whole

-----------------------------------------------------------------------------
LEMMA RunsAreOutputs == \A r \in Runs : r \in Contents /\ r # "partial"
  BY RunsAssumption DEF Contents, Complete

\* A nonce names temporaries; live runs have different ones.
LEMMA NonceType ==
  ASSUME Typed, NEW r \in Runs
  PROVE  Nonce(r) \in Pids \cup Runs
  BY DEF Typed, Nonce

LEMMA NoncesApart ==
  ASSUME Typed, Apart, NEW q \in Runs, NEW r \in Runs, q # r, Live(q), Live(r)
  PROVE  Nonce(q) # Nonce(r)
  BY NoncesAssumption DEF Typed, Apart, Nonce

\* The best-effort calls are calls.
LEMMA RestoreType ==
  ASSUME NEW r \in Runs, NEW n \in Names
  PROVE  Restore(r, n) \in Seq(Calls)
  <1> DEFINE first == IF port[r] = "c" THEN <<Call("unlink", n)>> ELSE <<>>
             last  == IF had[r][n] THEN <<Call("put_back", n)>> ELSE <<>>
  <1>1. Call("unlink", n) \in Calls /\ Call("put_back", n) \in Calls
    BY DEF Call, Calls
  <1>2. first \in Seq(Calls) /\ last \in Seq(Calls)
    BY <1>1
  <1>3. Restore(r, n) = first \o last
    BY DEF Restore
  <1> HIDE DEF first, last
  <1> QED BY <1>2, <1>3

LEMMA SweepType == SweepBoth \in Seq(Calls)
  <1>1. Call("sweep", "header") \in Calls /\ Call("sweep", "binary") \in Calls
    BY DEF Call, Calls, Names
  <1> QED BY <1>1 DEF SweepBoth

LEMMA UndoType ==
  ASSUME NEW r \in Runs
  PROVE  Undo(r) \in Seq(Calls)
  <1> DEFINE restored ==
               CASE pc[r] \in {"look", "move"} /\ on[r] = "binary" -> Restore(r, "header")
                 [] pc[r] = "install" -> Restore(r, "header") \o Restore(r, "binary")
                 [] OTHER -> <<>>
             removed == IF pc[r] = "install" /\ on[r] = "binary" /\ port[r] = "rust"
                          THEN <<Call("unlink", "header")>> ELSE <<>>
             swept ==
               IF port[r] = "c" \/ pc[r] \in {"look", "move"} THEN SweepBoth
               ELSE CASE pc[r] = "stage" /\ on[r] = "binary" -> <<Call("sweep", "header")>>
                      [] pc[r] = "install" -> <<Call("sweep", "binary")>>
                      [] OTHER -> <<>>
  <1>1. Undo(r) = removed \o restored \o swept
    BY DEF Undo
  <1>2. \A name \in Names : Restore(r, name) \in Seq(Calls)
    BY RestoreType
  <1>3. restored \in Seq(Calls)
    <2>1. Restore(r, "header") \in Seq(Calls) /\ Restore(r, "binary") \in Seq(Calls)
      BY <1>2 DEF Names
    <2>2. Restore(r, "header") \o Restore(r, "binary") \in Seq(Calls)
      BY <2>1
    <2>3. <<>> \in Seq(Calls)
      OBVIOUS
    <2> QED BY <2>1, <2>2, <2>3
  <1>4. removed \in Seq(Calls)
    <2>1. Call("unlink", "header") \in Calls
      BY DEF Call, Calls, Names
    <2>2. <<Call("unlink", "header")>> \in Seq(Calls) /\ <<>> \in Seq(Calls)
      BY <2>1
    <2> QED BY <2>2
  <1>5. swept \in Seq(Calls)
    <2>1. <<Call("sweep", "header")>> \in Seq(Calls) /\ <<Call("sweep", "binary")>> \in Seq(Calls)
      BY DEF Call, Calls, Names
    <2>2. <<>> \in Seq(Calls)
      OBVIOUS
    <2> QED BY <2>1, <2>2, SweepType
  <1> HIDE DEF restored, removed, swept
  <1>6. removed \o restored \in Seq(Calls)
    BY <1>3, <1>4
  <1> QED BY <1>1, <1>5, <1>6

-----------------------------------------------------------------------------
\* What a step of run r must do to keep the invariant: touch no temporaries but its
\* own, and keep its own staged, the rest whole.
LEMMA StepOfOne ==
  ASSUME Inv, NEW r \in Runs,
         Typed', Whole', Staged(r)',
         UNCHANGED <<port, pid>>,
         \A q \in Runs \ {r} : pc'[q] = pc[q] /\ on'[q] = on[q],
         Live(r)' => Live(r) \/ \A q \in Runs : Live(q) => pid[q] # pid[r],
         temp' = temp \/ (Live(r) /\ \A x \in (Pids \cup Runs) \ {Nonce(r)} : temp'[x] = temp[x])
  PROVE  Inv'
  <1>1. Apart'
    <2> SUFFICES ASSUME NEW p \in Runs, NEW q \in Runs, p # q, Live(p)', Live(q)'
                 PROVE  pid[p] # pid[q]
      BY DEF Apart
    <2>1. \A s \in Runs \ {r} : Live(s)' => Live(s)
      BY DEF Live
    <2> QED BY <2>1 DEF Inv, Apart
  <1>2. ASSUME NEW q \in Runs PROVE Staged(q)'
    <2>1. CASE q = r
      BY <2>1
    <2>2. CASE q # r
      <3>1. /\ pc'[q] = pc[q] /\ on'[q] = on[q] /\ Nonce(q)' = Nonce(q)
            /\ Nonce(q) \in Pids \cup Runs /\ Staged(q)
        BY <2>2, NonceType DEF Nonce, Inv
      <3>2. CASE ~Live(q)
        BY <3>1, <3>2 DEF Staged, Live
      <3>3. CASE Live(q) /\ temp' = temp
        BY <3>1, <3>3 DEF Staged
      <3>4. CASE Live(q) /\ temp' # temp
        <4>1. Nonce(q) # Nonce(r)
          BY <2>2, <3>4, NoncesApart DEF Inv
        <4>2. temp'[Nonce(q)] = temp[Nonce(q)]
          BY <3>1, <3>4, <4>1
        <4> QED BY <3>1, <4>2 DEF Staged
      <3> QED BY <3>2, <3>3, <3>4
    <2> QED BY <2>1, <2>2
  <1> QED BY <1>1, <1>2 DEF Inv

\* A failing call leads out of the function, with typed calls to do.
LEMMA FailTyped ==
  ASSUME Typed, NEW r \in Runs, Fail(r)
  PROVE  /\ pc' = [pc EXCEPT ![r] = "leaving"] /\ on' = on
         /\ pc' \in [Runs -> PCs] /\ on' \in [Runs -> Names]
         /\ todo' \in [Runs -> Seq(Calls)]
         /\ answer' \in [Runs -> {"none", "success", "failure"}]
  <1>1. Undo(r) \in Seq(Calls)
    BY UndoType
  <1> QED BY <1>1 DEF Typed, Fail, Leave, PCs

\* A run whose step fails leaves everything but its own temporaries as they are.
LEMMA FailKeeps ==
  ASSUME Inv, NEW r \in Runs, Live(r), Fail(r),
         UNCHANGED <<target, backup, port, pid, had>>,
         temp' \in [Pids \cup Runs -> Files],
         \A x \in (Pids \cup Runs) \ {Nonce(r)} : temp'[x] = temp[x]
  PROVE  Inv'
  <1>1. /\ pc' = [pc EXCEPT ![r] = "leaving"] /\ on' = on
        /\ pc' \in [Runs -> PCs] /\ on' \in [Runs -> Names]
        /\ todo' \in [Runs -> Seq(Calls)]
        /\ answer' \in [Runs -> {"none", "success", "failure"}]
    BY FailTyped DEF Inv
  <1>2. pc'[r] = "leaving" /\ \A q \in Runs \ {r} : pc'[q] = pc[q] /\ on'[q] = on[q]
    BY <1>1 DEF Inv, Typed
  <1>3. Typed' /\ Whole'
    BY <1>1 DEF Inv, Typed, Whole
  <1>4. Staged(r)'
    BY <1>2 DEF Staged
  <1> QED BY <1>2, <1>3, <1>4, StepOfOne

LEMMA ProceedTyped ==
  ASSUME Typed, NEW r \in Runs, NEW step \in PCs, NEW name \in Names, Proceed(r, step, name)
  PROVE  /\ pc' = [pc EXCEPT ![r] = step] /\ on' = [on EXCEPT ![r] = name]
         /\ pc' \in [Runs -> PCs] /\ on' \in [Runs -> Names]
         /\ UNCHANGED <<todo, answer>>
  BY DEF Typed, Proceed

-----------------------------------------------------------------------------
(* One lemma per step of a run                                               *)

LEMMA BeginKeeps ==
  ASSUME Inv, NEW r \in Runs, Begin(r)
  PROVE  Inv'
  <1>1. Proceed(r, "parents", "header") /\ UNCHANGED <<files, port, pid, had>>
    BY DEF Begin
  <1>2. /\ pc' = [pc EXCEPT ![r] = "parents"] /\ on' = [on EXCEPT ![r] = "header"]
        /\ pc' \in [Runs -> PCs] /\ on' \in [Runs -> Names] /\ UNCHANGED <<todo, answer>>
    BY <1>1, ProceedTyped DEF Inv, PCs, Names
  <1>3. Typed' /\ Whole'
    BY <1>1, <1>2 DEF Inv, Typed, Whole, files
  <1>4. pc'[r] = "parents" /\ \A q \in Runs \ {r} : pc'[q] = pc[q] /\ on'[q] = on[q]
    BY <1>2 DEF Inv, Typed
  <1>5. Staged(r)'
    BY <1>4 DEF Staged
  <1>6. \A q \in Runs : Live(q) => pid[q] # pid[r]
    BY DEF Begin
  <1> QED BY <1>1, <1>3, <1>4, <1>5, <1>6, StepOfOne DEF files

LEMMA MakeParentsKeeps ==
  ASSUME Inv, NEW r \in Runs, MakeParents(r)
  PROVE  Inv'
  <1> DEFINE nothing == [n \in Names |-> "none"]
  <1>1. pc[r] = "parents" /\ Live(r) /\ UNCHANGED <<target, port, pid, had>>
    BY DEF MakeParents, Live
  <1>2. nothing \in Files /\ \A n \in Names : nothing[n] = "none"
    BY DEF Files, Contents
  <1>3. CASE Proceed(r, "stage", "header")
             /\ IF port[r] = "c" THEN temp' = [temp EXCEPT ![pid[r]] = nothing]
                                      /\ backup' = [backup EXCEPT ![pid[r]] = nothing]
                                 ELSE UNCHANGED <<temp, backup>>
    <2>1. /\ pc' = [pc EXCEPT ![r] = "stage"] /\ on' = [on EXCEPT ![r] = "header"]
          /\ pc' \in [Runs -> PCs] /\ on' \in [Runs -> Names] /\ UNCHANGED <<todo, answer>>
      BY <1>3, ProceedTyped DEF Inv, PCs, Names
    <2>2. pc'[r] = "stage" /\ on'[r] = "header"
          /\ \A q \in Runs \ {r} : pc'[q] = pc[q] /\ on'[q] = on[q]
      BY <2>1 DEF Inv, Typed
    <2> HIDE DEF nothing
    <2>3. /\ temp' \in [Pids \cup Runs -> Files] /\ backup' \in [Pids \cup Runs -> Files]
          /\ \A x \in (Pids \cup Runs) \ {Nonce(r)} : temp'[x] = temp[x]
          /\ \A x \in Pids \cup Runs : backup'[x] = backup[x] \/ backup'[x] = nothing
      <3>1. CASE port[r] = "c"
        <4>1. Nonce(r) = pid[r] /\ pid[r] \in Pids
          BY <3>1 DEF Nonce, Inv, Typed
        <4>2. /\ temp' = [temp EXCEPT ![pid[r]] = nothing]
              /\ backup' = [backup EXCEPT ![pid[r]] = nothing]
          BY <1>3, <3>1
        <4>3. /\ temp \in [Pids \cup Runs -> Files] /\ backup \in [Pids \cup Runs -> Files]
              /\ nothing \in Files
          BY <1>2 DEF Inv, Typed
        <4> QED BY <4>1, <4>2, <4>3
      <3>2. CASE port[r] # "c"
        BY <1>3, <3>2 DEF Inv, Typed
      <3> QED BY <3>1, <3>2
    <2>4. Typed'
      BY <1>1, <2>1, <2>3 DEF Inv, Typed
    <2>5. Whole'
      BY <1>1, <1>2, <2>3 DEF Inv, Whole
    <2>6. Staged(r)'
      BY <2>2 DEF Staged
    <2> QED BY <1>1, <2>2, <2>3, <2>4, <2>5, <2>6, StepOfOne
  <1>4. CASE Fail(r) /\ UNCHANGED <<temp, backup>>
    BY <1>1, <1>4, FailKeeps DEF Inv, Typed
  <1> QED BY <1>3, <1>4 DEF MakeParents

LEMMA StageKeeps ==
  ASSUME Inv, NEW r \in Runs, Stage(r)
  PROVE  Inv'
  <1>1. pc[r] = "stage" /\ Live(r) /\ UNCHANGED <<target, backup, port, pid, had>>
    BY DEF Stage, Live
  <1>2. Nonce(r) \in Pids \cup Runs /\ r \in Contents /\ on[r] \in Names
    BY NonceType, RunsAreOutputs DEF Inv, Typed
  <1>3. ASSUME NEW content \in Contents, temp' = [temp EXCEPT ![Nonce(r)][on[r]] = content]
        PROVE  /\ temp' \in [Pids \cup Runs -> Files]
               /\ \A x \in (Pids \cup Runs) \ {Nonce(r)} : temp'[x] = temp[x]
               /\ temp'[Nonce(r)][on[r]] = content
               /\ \A n \in Names \ {on[r]} : temp'[Nonce(r)][n] = temp[Nonce(r)][n]
    BY <1>2, <1>3 DEF Inv, Typed, Files
  <1>4. CASE /\ temp' = [temp EXCEPT ![Nonce(r)][on[r]] = r]
             /\ IF on[r] = "header" THEN Proceed(r, "stage", "binary")
                                    ELSE Proceed(r, "look", "header")
    <2>1. PICK step \in PCs, name \in Names :
             /\ Proceed(r, step, name)
             /\ \/ on[r] = "header" /\ step = "stage" /\ name = "binary"
                \/ on[r] = "binary" /\ step = "look" /\ name = "header"
      BY <1>2, <1>4 DEF PCs, Names
    <2>2. /\ pc' = [pc EXCEPT ![r] = step] /\ on' = [on EXCEPT ![r] = name]
          /\ pc' \in [Runs -> PCs] /\ on' \in [Runs -> Names] /\ UNCHANGED <<todo, answer>>
      BY <2>1, ProceedTyped DEF Inv
    <2>3. pc'[r] = step /\ on'[r] = name /\ \A q \in Runs \ {r} : pc'[q] = pc[q] /\ on'[q] = on[q]
      BY <2>2 DEF Inv, Typed
    <2>4. /\ temp' \in [Pids \cup Runs -> Files]
          /\ \A x \in (Pids \cup Runs) \ {Nonce(r)} : temp'[x] = temp[x]
          /\ temp'[Nonce(r)][on[r]] = r
          /\ \A n \in Names \ {on[r]} : temp'[Nonce(r)][n] = temp[Nonce(r)][n]
      BY <1>2, <1>3, <1>4
    <2>5. Typed' /\ Whole'
      BY <1>1, <2>2, <2>4 DEF Inv, Typed, Whole
    <2>6. Staged(r)'
      <3>1. Nonce(r)' = Nonce(r)
        BY <1>1 DEF Nonce
      <3>2. on[r] = "binary" => temp[Nonce(r)]["header"] = r
        BY <1>1 DEF Inv, Staged
      <3> QED BY <2>1, <2>3, <2>4, <3>1, <3>2 DEF Staged, Names
    <2> QED BY <1>1, <2>3, <2>4, <2>5, <2>6, StepOfOne
  <1>5. CASE /\ \E content \in {"none", "partial"} :
                   temp' = [temp EXCEPT ![Nonce(r)][on[r]] = content]
             /\ Fail(r)
    <2>1. /\ temp' \in [Pids \cup Runs -> Files]
          /\ \A x \in (Pids \cup Runs) \ {Nonce(r)} : temp'[x] = temp[x]
      BY <1>3, <1>5 DEF Contents
    <2> QED BY <1>1, <1>5, <2>1, FailKeeps
  <1> QED BY <1>4, <1>5 DEF Stage

\* After a file has been looked at or moved aside, its two temporaries are ready.
LEMMA AfterMoveTyped ==
  ASSUME Inv, NEW r \in Runs, AfterMove(r), pc[r] \in {"look", "move"},
         UNCHANGED <<temp, port, pid>>
  PROVE  /\ pc' \in [Runs -> PCs] /\ on' \in [Runs -> Names] /\ UNCHANGED <<todo, answer>>
         /\ \A q \in Runs \ {r} : pc'[q] = pc[q] /\ on'[q] = on[q]
         /\ Staged(r)'
  <1>1. PICK step \in PCs, name \in Names :
           /\ Proceed(r, step, name)
           /\ step = "look" \/ step = "install"
    BY DEF AfterMove, PCs, Names
  <1>2. /\ pc' = [pc EXCEPT ![r] = step] /\ on' = [on EXCEPT ![r] = name]
        /\ pc' \in [Runs -> PCs] /\ on' \in [Runs -> Names] /\ UNCHANGED <<todo, answer>>
    BY <1>1, ProceedTyped DEF Inv
  <1>3. pc'[r] = step /\ on'[r] = name /\ \A q \in Runs \ {r} : pc'[q] = pc[q] /\ on'[q] = on[q]
    BY <1>2 DEF Inv, Typed
  <1>4. \A n \in Names : temp'[Nonce(r)'][n] = r
    BY DEF Inv, Staged, Nonce
  <1>5. Staged(r)'
    BY <1>1, <1>3, <1>4 DEF Staged, Names
  <1> QED BY <1>2, <1>3, <1>5

LEMMA LookKeeps ==
  ASSUME Inv, NEW r \in Runs, Look(r)
  PROVE  Inv'
  <1>1. /\ pc[r] = "look" /\ Live(r)
        /\ UNCHANGED <<target, temp, backup, port, pid, had>>
    BY DEF Look, Live, files
  <1>2. CASE AfterMove(r)
    <2>1. /\ pc' \in [Runs -> PCs] /\ on' \in [Runs -> Names] /\ UNCHANGED <<todo, answer>>
          /\ \A q \in Runs \ {r} : pc'[q] = pc[q] /\ on'[q] = on[q]
          /\ Staged(r)'
      BY <1>1, <1>2, AfterMoveTyped
    <2>2. Typed' /\ Whole'
      BY <1>1, <2>1 DEF Inv, Typed, Whole
    <2> QED BY <1>1, <2>1, <2>2, StepOfOne
  <1>3. CASE Proceed(r, "move", on[r])
    <2>1. on[r] \in Names /\ "move" \in PCs
      BY DEF Inv, Typed, PCs
    <2>2. /\ pc' = [pc EXCEPT ![r] = "move"] /\ on' = [on EXCEPT ![r] = on[r]]
          /\ pc' \in [Runs -> PCs] /\ on' \in [Runs -> Names] /\ UNCHANGED <<todo, answer>>
      BY <1>3, <2>1, ProceedTyped DEF Inv
    <2>3. pc'[r] = "move" /\ \A q \in Runs \ {r} : pc'[q] = pc[q] /\ on'[q] = on[q]
      BY <2>2 DEF Inv, Typed
    <2>4. Typed' /\ Whole'
      BY <1>1, <2>2 DEF Inv, Typed, Whole
    <2>5. Staged(r)'
      BY <1>1, <2>3 DEF Inv, Staged, Nonce
    <2> QED BY <1>1, <2>3, <2>4, <2>5, StepOfOne
  <1>4. CASE Fail(r)
    BY <1>1, <1>4, FailKeeps DEF Inv, Typed
  <1> QED BY <1>2, <1>3, <1>4 DEF Look

LEMMA MoveKeeps ==
  ASSUME Inv, NEW r \in Runs, Move(r)
  PROVE  Inv'
  <1>1. pc[r] = "move" /\ Live(r) /\ UNCHANGED <<temp, port, pid>>
    BY DEF Move, Live
  <1>2. Nonce(r) \in Pids \cup Runs /\ on[r] \in Names
    BY NonceType DEF Inv, Typed
  <1>3. CASE /\ target' = [target EXCEPT ![on[r]] = "none"]
             /\ backup' = [backup EXCEPT ![Nonce(r)][on[r]] = target[on[r]]]
             /\ had' = [had EXCEPT ![r][on[r]] = TRUE]
             /\ AfterMove(r)
    <2>1. /\ pc' \in [Runs -> PCs] /\ on' \in [Runs -> Names] /\ UNCHANGED <<todo, answer>>
          /\ \A q \in Runs \ {r} : pc'[q] = pc[q] /\ on'[q] = on[q]
          /\ Staged(r)'
      BY <1>1, <1>3, AfterMoveTyped
    <2>2. target[on[r]] \in Contents /\ target[on[r]] # "partial" /\ "none" \in Contents
      BY <1>2 DEF Inv, Typed, Files, Whole, Contents
    <2>3. target' \in Files /\ \A n \in Names : target'[n] = target[n] \/ target'[n] = "none"
      BY <1>2, <1>3, <2>2 DEF Inv, Typed, Files
    <2>4. /\ backup' \in [Pids \cup Runs -> Files]
          /\ \A x \in Pids \cup Runs : \A n \in Names :
                backup'[x][n] = backup[x][n] \/ backup'[x][n] = target[on[r]]
      BY <1>2, <1>3, <2>2 DEF Inv, Typed, Files
    <2>5. had' \in [Runs -> [Names -> BOOLEAN]]
      BY <1>2, <1>3 DEF Inv, Typed
    <2>6. Typed'
      BY <1>1, <2>1, <2>3, <2>4, <2>5 DEF Inv, Typed
    <2>7. Whole'
      BY <2>2, <2>3, <2>4 DEF Inv, Whole
    <2> QED BY <1>1, <2>1, <2>6, <2>7, StepOfOne
  <1>4. CASE Fail(r) /\ UNCHANGED <<target, backup, had>>
    BY <1>1, <1>4, FailKeeps DEF Inv, Typed
  <1> QED BY <1>3, <1>4 DEF Move

LEMMA InstallKeeps ==
  ASSUME Inv, NEW r \in Runs, Install(r)
  PROVE  Inv'
  <1>1. pc[r] = "install" /\ Live(r) /\ UNCHANGED <<backup, port, pid, had>>
    BY DEF Install, Live
  <1>2. /\ Nonce(r) \in Pids \cup Runs /\ r \in Contents /\ r # "partial" /\ on[r] \in Names
        /\ temp[Nonce(r)][on[r]] = r /\ temp[Nonce(r)]["binary"] = r
    BY <1>1, NonceType, RunsAreOutputs DEF Inv, Typed, Staged
  <1>3. CASE /\ target' = [target EXCEPT ![on[r]] = temp[Nonce(r)][on[r]]]
             /\ temp' = [temp EXCEPT ![Nonce(r)][on[r]] = "none"]
             /\ IF on[r] = "header" THEN Proceed(r, "install", "binary")
                ELSE Leave(r, "success", <<Call("drop", "header"), Call("drop", "binary")>>
                                         \o IF port[r] = "c" THEN SweepBoth ELSE <<>>)
    <2>1. target' \in Files /\ \A n \in Names : target'[n] = target[n] \/ target'[n] = r
      BY <1>2, <1>3 DEF Inv, Typed, Files
    <2>2. /\ temp' \in [Pids \cup Runs -> Files]
          /\ \A x \in (Pids \cup Runs) \ {Nonce(r)} : temp'[x] = temp[x]
          /\ \A n \in Names \ {on[r]} : temp'[Nonce(r)][n] = temp[Nonce(r)][n]
      BY <1>2, <1>3 DEF Inv, Typed, Files, Contents
    <2>3. /\ pc' \in [Runs -> PCs] /\ on' \in [Runs -> Names]
          /\ todo' \in [Runs -> Seq(Calls)]
          /\ answer' \in [Runs -> {"none", "success", "failure"}]
          /\ \A q \in Runs \ {r} : pc'[q] = pc[q] /\ on'[q] = on[q]
          /\ \/ on[r] = "header" /\ pc'[r] = "install" /\ on'[r] = "binary"
             \/ pc'[r] = "leaving"
      <3>1. CASE on[r] = "header"
        <4>1. Proceed(r, "install", "binary") /\ "install" \in PCs /\ "binary" \in Names
          BY <1>3, <3>1 DEF PCs, Names
        <4>2. /\ pc' = [pc EXCEPT ![r] = "install"] /\ on' = [on EXCEPT ![r] = "binary"]
              /\ pc' \in [Runs -> PCs] /\ on' \in [Runs -> Names] /\ UNCHANGED <<todo, answer>>
          BY <4>1, ProceedTyped DEF Inv
        <4> QED BY <3>1, <4>2 DEF Inv, Typed
      <3>2. CASE on[r] # "header"
        <4>1. PICK calls : /\ Leave(r, "success", calls)
                           /\ calls = <<Call("drop", "header"), Call("drop", "binary")>>
                                      \o IF port[r] = "c" THEN SweepBoth ELSE <<>>
          BY <1>3, <3>2
        <4>2. calls \in Seq(Calls)
          <5>1. Call("drop", "header") \in Calls /\ Call("drop", "binary") \in Calls
            BY DEF Call, Calls, Names
          <5>2. <<Call("drop", "header"), Call("drop", "binary")>> \in Seq(Calls)
            BY <5>1
          <5>3. (IF port[r] = "c" THEN SweepBoth ELSE <<>>) \in Seq(Calls)
            BY SweepType
          <5> QED BY <4>1, <5>2, <5>3
        <4> QED BY <4>1, <4>2 DEF Leave, Inv, Typed, PCs
      <3> QED BY <3>1, <3>2
    <2>4. Typed' /\ Whole'
      BY <1>1, <1>2, <2>1, <2>2, <2>3 DEF Inv, Typed, Whole
    <2>5. Staged(r)'
      <3>1. Nonce(r)' = Nonce(r)
        BY <1>1 DEF Nonce
      <3> QED BY <1>2, <2>2, <2>3, <3>1 DEF Staged, Names
    <2> QED BY <1>1, <2>2, <2>3, <2>4, <2>5, StepOfOne
  <1>4. CASE Fail(r) /\ UNCHANGED <<target, temp>>
    BY <1>1, <1>4, FailKeeps DEF Inv, Typed
  <1> QED BY <1>3, <1>4 DEF Install

LEMMA TidyKeeps ==
  ASSUME Inv, NEW r \in Runs, Tidy(r)
  PROVE  Inv'
  <1>1. /\ pc[r] = "leaving" /\ Live(r) /\ UNCHANGED <<port, pid, pc, on, had, answer>>
        /\ todo[r] # <<>> /\ todo' = [todo EXCEPT ![r] = Tail(@)]
    BY DEF Tidy, Live
  <1>2. Nonce(r) \in Pids \cup Runs
    BY NonceType DEF Inv
  <1>3. Head(todo[r]) \in Calls /\ todo' \in [Runs -> Seq(Calls)]
    <2>1. todo[r] \in Seq(Calls)
      BY DEF Inv, Typed
    <2>2. Head(todo[r]) \in Calls /\ Tail(todo[r]) \in Seq(Calls)
      BY <1>1, <2>1
    <2> QED BY <1>1, <2>2 DEF Inv, Typed
  <1>4. /\ target' \in Files /\ \A n \in Names : target'[n] # "partial"
        /\ temp' \in [Pids \cup Runs -> Files]
        /\ \A x \in (Pids \cup Runs) \ {Nonce(r)} : temp'[x] = temp[x]
        /\ backup' \in [Pids \cup Runs -> Files]
        /\ \A x \in Pids \cup Runs : \A n \in Names : backup'[x][n] # "partial"
    <2>1. CASE UNCHANGED files
      BY <2>1 DEF Inv, Typed, Whole, files
    <2>2. CASE Apply(r, Head(todo[r]))
      <3>1. PICK call \in Calls : call = Head(todo[r]) /\ Apply(r, call)
        BY <1>3, <2>2
      <3>2. call.name \in Names /\ "none" \in Contents
        BY DEF Calls, Contents
      <3>3. CASE call.op = "unlink"
        <4>1. target' = [target EXCEPT ![call.name] = "none"] /\ UNCHANGED <<temp, backup>>
          BY <3>1, <3>3 DEF Apply
        <4>2. target' \in Files /\ \A n \in Names : target'[n] # "partial"
          BY <3>2, <4>1 DEF Inv, Typed, Whole, Files
        <4> QED BY <4>1, <4>2 DEF Inv, Typed, Whole
      <3>4. CASE call.op = "put_back"
        <4>1. /\ target' = [target EXCEPT ![call.name] =
                              IF backup[Nonce(r)][call.name] = "none" THEN @
                                                                      ELSE backup[Nonce(r)][call.name]]
              /\ backup' = [backup EXCEPT ![Nonce(r)][call.name] = "none"]
              /\ temp' = temp
          BY <3>1, <3>4 DEF Apply
        <4>2. /\ backup[Nonce(r)][call.name] \in Contents
              /\ backup[Nonce(r)][call.name] # "partial"
          BY <1>2, <3>2 DEF Inv, Typed, Whole, Files
        <4>3. target' \in Files /\ \A n \in Names : target'[n] # "partial"
          BY <3>2, <4>1, <4>2 DEF Inv, Typed, Whole, Files
        <4>4. /\ backup' \in [Pids \cup Runs -> Files]
              /\ \A x \in Pids \cup Runs : \A n \in Names : backup'[x][n] # "partial"
          BY <1>2, <3>2, <4>1 DEF Inv, Typed, Whole, Files
        <4> QED BY <4>1, <4>3, <4>4 DEF Inv, Typed
      <3>5. CASE call.op = "sweep"
        <4>1. temp' = [temp EXCEPT ![Nonce(r)][call.name] = "none"] /\ UNCHANGED <<target, backup>>
          BY <3>1, <3>5 DEF Apply
        <4>2. /\ temp' \in [Pids \cup Runs -> Files]
              /\ \A x \in (Pids \cup Runs) \ {Nonce(r)} : temp'[x] = temp[x]
          BY <1>2, <3>2, <4>1 DEF Inv, Typed, Files
        <4> QED BY <4>1, <4>2 DEF Inv, Typed, Whole
      <3>6. CASE call.op = "drop"
        <4>1. /\ backup' = [backup EXCEPT ![Nonce(r)][call.name] = "none"]
              /\ UNCHANGED <<target, temp>>
          BY <3>1, <3>6 DEF Apply
        <4>2. /\ backup' \in [Pids \cup Runs -> Files]
              /\ \A x \in Pids \cup Runs : \A n \in Names : backup'[x][n] # "partial"
          BY <1>2, <3>2, <4>1 DEF Inv, Typed, Whole, Files
        <4> QED BY <4>1, <4>2 DEF Inv, Typed, Whole
      <3> QED BY <3>3, <3>4, <3>5, <3>6 DEF Calls
    <2> QED BY <2>1, <2>2 DEF Tidy
  <1>5. Typed' /\ Whole'
    BY <1>1, <1>3, <1>4 DEF Inv, Typed, Whole
  <1>6. Staged(r)'
    BY <1>1 DEF Staged
  <1> QED BY <1>1, <1>4, <1>5, <1>6, StepOfOne

LEMMA ReturnKeeps ==
  ASSUME Inv, NEW r \in Runs, Return(r)
  PROVE  Inv'
  <1>1. /\ Live(r) /\ pc' = [pc EXCEPT ![r] = "returned"]
        /\ UNCHANGED <<target, temp, backup, port, pid, on, had, todo, answer>>
    BY DEF Return, Live, files
  <1>2. pc'[r] = "returned" /\ \A q \in Runs \ {r} : pc'[q] = pc[q] /\ on'[q] = on[q]
    BY <1>1 DEF Inv, Typed
  <1>3. Typed' /\ Whole'
    BY <1>1 DEF Inv, Typed, Whole, PCs
  <1>4. Staged(r)'
    BY <1>2 DEF Staged
  <1> QED BY <1>1, <1>2, <1>3, <1>4, StepOfOne

LEMMA CrashKeeps ==
  ASSUME Inv, NEW r \in Runs, Crash(r)
  PROVE  Inv'
  <1>1. /\ Live(r) /\ pc' = [pc EXCEPT ![r] = "crashed"]
        /\ UNCHANGED <<target, backup, port, pid, on, had, todo, answer>>
    BY DEF Crash
  <1>2. pc'[r] = "crashed" /\ \A q \in Runs \ {r} : pc'[q] = pc[q] /\ on'[q] = on[q]
    BY <1>1 DEF Inv, Typed
  <1>3. /\ temp' \in [Pids \cup Runs -> Files]
        /\ \A x \in (Pids \cup Runs) \ {Nonce(r)} : temp'[x] = temp[x]
    <2>1. Nonce(r) \in Pids \cup Runs /\ on[r] \in Names /\ "partial" \in Contents
      BY NonceType DEF Inv, Typed, Contents
    <2>2. CASE temp' = temp
      BY <2>2 DEF Inv, Typed
    <2>3. CASE temp' = [temp EXCEPT ![Nonce(r)][on[r]] = "partial"]
      BY <2>1, <2>3 DEF Inv, Typed, Files
    <2> QED BY <2>2, <2>3 DEF Crash
  <1>4. Typed' /\ Whole'
    BY <1>1, <1>3 DEF Inv, Typed, Whole, PCs
  <1>5. Staged(r)'
    BY <1>2 DEF Staged
  <1> QED BY <1>1, <1>2, <1>3, <1>4, <1>5, StepOfOne

-----------------------------------------------------------------------------
LEMMA Initially == Init => Inv
  <1> SUFFICES ASSUME Init PROVE Inv
    OBVIOUS
  <1>1. Found \subseteq Contents \ {"partial"} /\ "none" \in Contents
    BY FoundAssumption DEF Contents, Complete
  <1>2. Typed
    <2>1. [n \in Names |-> "none"] \in Files /\ target \in Files
      BY <1>1 DEF Init, Files
    <2>2. <<>> \in Seq(Calls)
      OBVIOUS
    <2> QED BY <2>1, <2>2 DEF Init, Typed, PCs, Names
  <1>3. Whole
    BY <1>1 DEF Init, Whole
  <1>4. Apart /\ \A r \in Runs : Staged(r)
    BY DEF Init, Apart, Staged, Live
  <1> QED BY <1>2, <1>3, <1>4 DEF Inv

LEMMA Always == Spec => []Inv
  <1>1. Inv /\ [Next]_vars => Inv'
    <2> SUFFICES ASSUME Inv, [Next]_vars PROVE Inv'
      OBVIOUS
    <2>1. CASE UNCHANGED vars
      BY <2>1 DEF vars, Inv, Typed, Apart, Staged, Whole, Live, Nonce
    <2>2. ASSUME NEW r \in Runs,
                 \/ Begin(r) \/ MakeParents(r) \/ Stage(r) \/ Look(r) \/ Move(r)
                 \/ Install(r) \/ Tidy(r) \/ Return(r) \/ Crash(r)
          PROVE  Inv'
      BY <2>2, BeginKeeps, MakeParentsKeeps, StageKeeps, LookKeeps, MoveKeeps,
         InstallKeeps, TidyKeeps, ReturnKeeps, CrashKeeps
    <2> QED BY <2>1, <2>2 DEF Next, Done
  <1> QED BY <1>1, Initially, PTL DEF Spec

\* Every variable of the output writer stays in its type, and a run that looks at
\* the outputs or moves them aside has both its temporaries, complete.
THEOREM TypeCorrect == Spec => []TypeOK
  <1>1. Inv => TypeOK
    BY DEF Inv, Typed, Staged, TypeOK, PCs, Files
  <1> QED BY <1>1, Always, PTL

\* The staging of write_outputs() and write_pair(): what is at an output path is
\* never half a file, whatever fails, is killed or runs at the same time.
THEOREM StagedOnly == Spec => []OutputsComplete
  <1>1. Inv => OutputsComplete
    BY DEF Inv, Whole, OutputsComplete
  <1> QED BY <1>1, Always, PTL
-----------------------------------------------------------------------------
(***************************************************************************)
(* One compilation of a stem at a time: what the undo of write_outputs()   *)
(* and write_pair() promises.  InTurn says where the two files a run found *)
(* are at every step forward; Undone says what the calls that are left to  *)
(* a failing run still have to put right.  Everything holds for any number *)
(* of runs, of either port, with any forward call failing and any process  *)
(* killed at any point.                                                    *)
(***************************************************************************)

\* No two compilations overlap.
Alone == \A q, r \in Runs : Live(q) /\ Live(r) => q = r

Clean(x) == \A n \in Names : backup[x][n] = "none"

\* What the run found at a path is aside, if there was anything.
Saved(r, n) ==
  IF had[r][n] THEN backup[Nonce(r)][n] = before[r][n] /\ before[r][n] # "none"
               ELSE backup[Nonce(r)][n] = "none" /\ before[r][n] = "none"

Untouched(r, n) ==
  target[n] = before[r][n] /\ ~had[r][n] /\ backup[Nonce(r)][n] = "none"
Aside(r, n)    == target[n] = "none" /\ Saved(r, n)
Replaced(r, n) == target[n] = r /\ Saved(r, n)

\* Where the two files are, by the step a run is at.
Position(r) ==
  /\ pc[r] \notin {"leaving", "returned", "crashed"} => answer[r] = "none"
  /\ pc[r] \in {"idle", "parents"} =>
       (\A n \in Names : ~had[r][n]) /\ (port[r] = "rust" => Clean(r))
  /\ pc[r] = "parents" => target = before[r]
  /\ pc[r] \in {"stage", "look", "move"} => Untouched(r, "binary")
  /\ pc[r] = "stage" \/ (pc[r] \in {"look", "move"} /\ on[r] = "header") =>
       Untouched(r, "header")
  /\ pc[r] \in {"look", "move"} /\ on[r] = "binary" => Aside(r, "header")
  /\ pc[r] = "move" => target[on[r]] # "none"
  /\ pc[r] = "install" => Aside(r, "binary")
  /\ pc[r] = "install" /\ on[r] = "header" => Aside(r, "header")
  /\ pc[r] = "install" /\ on[r] = "binary" => Replaced(r, "header")

Elements(s) == {s[i] : i \in DOMAIN s}

\* A run that has succeeded only tidies up.
Installed(r) ==
  pc[r] = "leaving" /\ answer[r] = "success" =>
    /\ \A n \in Names : target[n] = r
    /\ \A call \in Elements(todo[r]) : call.op \in {"drop", "sweep"}

InTurn ==
  /\ before \in [Runs -> Files]
  /\ Alone
  /\ \A r \in Runs : Position(r) /\ Installed(r)

-----------------------------------------------------------------------------
(* Sequences and functions                                                   *)

LEMMA ElementsOfTail ==
  ASSUME NEW S, NEW s \in Seq(S), s # <<>>
  PROVE  /\ Elements(s) = {Head(s)} \cup Elements(Tail(s))
         /\ Tail(s) \in Seq(S) /\ Head(s) \in S
<1>1. Len(s) \in Nat \ {0} /\ DOMAIN s = 1..Len(s) /\ Head(s) = s[1]
  OBVIOUS
<1>2. /\ Tail(s) \in Seq(S) /\ DOMAIN Tail(s) = 1..Len(s)-1
      /\ \A i \in 1..Len(s)-1 : Tail(s)[i] = s[i + 1]
  BY <1>1
<1>3. \A i \in 1..Len(s) : i = 1 \/ (i - 1 \in 1..Len(s)-1 /\ (i - 1) + 1 = i)
  BY <1>1
<1>4. \A i \in 1..Len(s)-1 : i + 1 \in 1..Len(s)
  BY <1>1
<1>5. ASSUME NEW i \in 1..Len(s)
      PROVE  s[i] \in {Head(s)} \cup Elements(Tail(s))
  <2>1. CASE i = 1
    BY <1>1, <2>1
  <2>2. CASE i # 1
    <3>1. i - 1 \in DOMAIN Tail(s) /\ Tail(s)[i - 1] = s[i]
      BY <1>2, <1>3, <2>2
    <3> QED BY <3>1 DEF Elements
  <2> QED BY <2>1, <2>2
<1>6. {Head(s)} \cup Elements(Tail(s)) \subseteq Elements(s)
  BY <1>1, <1>2, <1>4 DEF Elements
<1>7. Elements(s) \subseteq {Head(s)} \cup Elements(Tail(s))
  BY <1>1, <1>5 DEF Elements
<1> QED BY <1>1, <1>2, <1>6, <1>7

LEMMA ElementsOfConcat ==
  ASSUME NEW S, NEW s \in Seq(S), NEW t \in Seq(S)
  PROVE  Elements(s \o t) = Elements(s) \cup Elements(t)
<1>1. /\ Len(s) \in Nat /\ Len(t) \in Nat /\ DOMAIN s = 1..Len(s) /\ DOMAIN t = 1..Len(t)
      /\ DOMAIN (s \o t) = 1..Len(s) + Len(t)
      /\ \A i \in 1..Len(s) + Len(t) : (s \o t)[i] = IF i <= Len(s) THEN s[i] ELSE t[i - Len(s)]
  OBVIOUS
<1>2. \A i \in 1..Len(s) + Len(t) : i \in 1..Len(s) \/ (~(i <= Len(s)) /\ i - Len(s) \in 1..Len(t))
  BY <1>1
<1>3. \A i \in 1..Len(s) : i \in 1..Len(s) + Len(t) /\ i <= Len(s)
  BY <1>1
<1>4. \A i \in 1..Len(t) : /\ i + Len(s) \in 1..Len(s) + Len(t) /\ ~(i + Len(s) <= Len(s))
                           /\ (i + Len(s)) - Len(s) = i
  BY <1>1
<1>5. Elements(s \o t) \subseteq Elements(s) \cup Elements(t)
  BY <1>1, <1>2 DEF Elements
<1>6. Elements(s) \subseteq Elements(s \o t)
  BY <1>1, <1>3 DEF Elements
<1>7. Elements(t) \subseteq Elements(s \o t)
  BY <1>1, <1>4 DEF Elements
<1> QED BY <1>5, <1>6, <1>7

LEMMA ElementsOfFew ==
  /\ Elements(<<>>) = {}
  /\ \A a : Elements(<<a>>) = {a}
  /\ \A a, b : Elements(<<a, b>>) = {a, b}
BY DEF Elements

\* One entry of a function of functions is set.
LEMMA SetEntry ==
  ASSUME NEW S, NEW N, NEW C, NEW f \in [S -> [N -> C]], NEW x \in S, NEW n \in N, NEW c,
         NEW g, g = [f EXCEPT ![x][n] = c]
  PROVE  /\ g[x][n] = c
         /\ \A m \in N \ {n} : g[x][m] = f[x][m]
         /\ \A y \in S \ {x} : g[y] = f[y]
OBVIOUS

-----------------------------------------------------------------------------
(* The steps forward                                                         *)

\* The others are not live: a step of one run leaves what concerns them alone.
LEMMA OthersKeep ==
  ASSUME Inv, InTurn, NEW r \in Runs, NEW q \in Runs \ {r}, ~Live(q),
         pc'[q] = pc[q], had'[q] = had[q], answer'[q] = answer[q],
         UNCHANGED <<port, pid>>,
         \A x \in (Pids \cup Runs) \ {Nonce(r)} : backup'[x] = backup[x]
  PROVE  Position(q)' /\ Installed(q)' /\ ~Live(q)'
<1>1. pc'[q] \notin {"parents", "stage", "look", "move", "install", "leaving"} /\ ~Live(q)'
  BY DEF Live, Inv, Typed, PCs
<1>2. ASSUME pc[q] = "idle", port[q] = "rust" PROVE Clean(q)'
  <2>1. Clean(q)
    BY <1>2 DEF InTurn, Position
  <2>2. q # Nonce(r)
    BY NoncesAssumption DEF Nonce, Inv, Typed
  <2> QED BY <2>1, <2>2 DEF Clean
<1>3. pc[q] = "idle" => (\A n \in Names : ~had[q][n])
  BY DEF InTurn, Position
<1>4. pc[q] \notin {"leaving", "returned", "crashed"} => answer[q] = "none"
  BY DEF InTurn, Position
<1>5. Position(q)'
  BY <1>1, <1>2, <1>3, <1>4 DEF Position
<1>6. Installed(q)'
  BY <1>1 DEF Installed
<1> QED BY <1>1, <1>5, <1>6

LEMMA StepInTurn ==
  ASSUME Inv, InTurn, NEW r \in Runs, \A q \in Runs \ {r} : ~Live(q),
         before' \in [Runs -> Files], Position(r)', Installed(r)',
         \A q \in Runs \ {r} : pc'[q] = pc[q] /\ had'[q] = had[q] /\ answer'[q] = answer[q],
         UNCHANGED <<port, pid>>,
         \A x \in (Pids \cup Runs) \ {Nonce(r)} : backup'[x] = backup[x]
  PROVE  InTurn'
<1>1. \A q \in Runs \ {r} : Position(q)' /\ Installed(q)' /\ ~Live(q)'
  BY OthersKeep
<1>2. Alone'
  BY <1>1 DEF Alone
<1> QED BY <1>1, <1>2 DEF InTurn

\* A live run has the stem for itself.
LEMMA OthersRest ==
  ASSUME InTurn, NEW r \in Runs, Live(r)
  PROVE  \A q \in Runs \ {r} : ~Live(q)
BY DEF InTurn, Alone

\* A failing call leads out of the function.
LEMMA FailInTurn ==
  ASSUME Inv, InTurn, NEW r \in Runs, Live(r), Fail(r),
         UNCHANGED <<backup, port, pid, had, before>>
  PROVE  InTurn'
<1>1. /\ pc'[r] = "leaving" /\ answer'[r] = "failure"
      /\ \A q \in Runs \ {r} : pc'[q] = pc[q] /\ answer'[q] = answer[q]
  BY DEF Inv, Typed, Fail, Leave
<1>2. Position(r)' /\ Installed(r)'
  BY <1>1 DEF Position, Installed
<1> QED BY <1>1, <1>2, OthersRest, StepInTurn DEF InTurn

LEMMA ProceedAt ==
  ASSUME Inv, NEW r \in Runs, NEW step, NEW name, Proceed(r, step, name)
  PROVE  /\ pc'[r] = step /\ on'[r] = name /\ UNCHANGED <<todo, answer>>
         /\ \A q \in Runs \ {r} : pc'[q] = pc[q] /\ on'[q] = on[q]
BY DEF Inv, Typed, Proceed

\* MAX_LIVE keeps the runs apart.
LEMMA NobodyLive ==
  ASSUME MAX_LIVE = 1, Alone, Cardinality({q \in Runs : Live(q)}) < MAX_LIVE
  PROVE  \A q \in Runs : ~Live(q)
<1> SUFFICES ASSUME NEW q \in Runs, Live(q) PROVE FALSE
  OBVIOUS
<1>1. {s \in Runs : Live(s)} = {q}
  BY DEF Alone
<1>2. Cardinality({q}) = 1
  BY FS_Singleton
<1> QED BY <1>1, <1>2

LEMMA BeginInTurn ==
  ASSUME MAX_LIVE = 1, Inv, InTurn, NEW r \in Runs, Begin(r)
  PROVE  InTurn'
<1>1. /\ pc[r] = "idle" /\ before' = [before EXCEPT ![r] = target]
      /\ Proceed(r, "parents", "header") /\ UNCHANGED <<files, port, pid, had>>
  BY DEF Begin
<1>2. \A q \in Runs : ~Live(q)
  BY NobodyLive DEF Begin, InTurn
<1>3. /\ pc'[r] = "parents" /\ UNCHANGED answer
      /\ \A q \in Runs \ {r} : pc'[q] = pc[q]
  BY <1>1, ProceedAt
<1>4. before' \in [Runs -> Files] /\ before'[r] = target
  BY <1>1 DEF InTurn, Inv, Typed
<1>5. (\A n \in Names : ~had[r][n]) /\ (port[r] = "rust" => Clean(r)) /\ answer[r] = "none"
  BY <1>1 DEF InTurn, Position
<1>6. Position(r)'
  BY <1>1, <1>3, <1>4, <1>5 DEF Position, files, Clean
<1>7. Installed(r)'
  BY <1>3 DEF Installed
<1> QED BY <1>1, <1>2, <1>3, <1>4, <1>6, <1>7, StepInTurn DEF files

LEMMA MakeParentsInTurn ==
  ASSUME Inv, InTurn, NEW r \in Runs, MakeParents(r)
  PROVE  InTurn'
<1>1. pc[r] = "parents" /\ Live(r) /\ UNCHANGED <<target, port, pid, had, before>>
  BY DEF MakeParents, Live
<1>2. CASE /\ Proceed(r, "stage", "header")
           /\ IF port[r] = "c"
                THEN backup' = [backup EXCEPT ![pid[r]] = [n \in Names |-> "none"]]
                ELSE UNCHANGED backup
  <2>1. /\ pc'[r] = "stage" /\ UNCHANGED answer
        /\ \A q \in Runs \ {r} : pc'[q] = pc[q]
    BY <1>2, ProceedAt
  <2>2. /\ target = before[r] /\ (\A n \in Names : ~had[r][n]) /\ answer[r] = "none"
        /\ port[r] = "rust" => Clean(r)
    BY <1>1 DEF InTurn, Position
  <2>3. /\ \A n \in Names : backup'[Nonce(r)][n] = "none"
        /\ \A x \in (Pids \cup Runs) \ {Nonce(r)} : backup'[x] = backup[x]
    <3>1. CASE port[r] = "c"
      BY <1>2, <3>1 DEF Nonce, Inv, Typed
    <3>2. CASE port[r] # "c"
      BY <1>2, <2>2, <3>2, PortsAssumption DEF Nonce, Inv, Typed, Clean
    <3> QED BY <3>1, <3>2
  <2>4. Nonce(r)' = Nonce(r)
    BY <1>1 DEF Nonce
  <2>5. \A n \in Names : Untouched(r, n)'
    BY <1>1, <2>2, <2>3, <2>4 DEF Untouched
  <2>6. Position(r)'
    BY <2>1, <2>2, <2>5 DEF Position, Names
  <2>7. Installed(r)'
    BY <2>1 DEF Installed
  <2> QED BY <1>1, <2>1, <2>3, <2>6, <2>7, OthersRest, StepInTurn DEF InTurn
<1>3. CASE Fail(r) /\ UNCHANGED <<temp, backup>>
  BY <1>1, <1>3, FailInTurn
<1> QED BY <1>2, <1>3 DEF MakeParents

LEMMA StageInTurn ==
  ASSUME Inv, InTurn, NEW r \in Runs, Stage(r)
  PROVE  InTurn'
<1>1. pc[r] = "stage" /\ Live(r) /\ UNCHANGED <<target, backup, port, pid, had, before>>
  BY DEF Stage, Live
<1>2. CASE IF on[r] = "header" THEN Proceed(r, "stage", "binary") ELSE Proceed(r, "look", "header")
  <2>1. /\ pc'[r] = "stage" \/ (pc'[r] = "look" /\ on'[r] = "header") 
        /\ UNCHANGED answer /\ \A q \in Runs \ {r} : pc'[q] = pc[q]
    BY <1>2, ProceedAt
  <2>2. Untouched(r, "header") /\ Untouched(r, "binary") /\ answer[r] = "none"
    BY <1>1 DEF InTurn, Position
  <2>3. Untouched(r, "header")' /\ Untouched(r, "binary")'
    BY <1>1, <2>2 DEF Untouched, Nonce
  <2>4. Position(r)' /\ Installed(r)'
    BY <2>1, <2>2, <2>3 DEF Position, Installed
  <2> QED BY <1>1, <2>1, <2>4, OthersRest, StepInTurn DEF InTurn
<1>3. CASE Fail(r)
  BY <1>1, <1>3, FailInTurn
<1> QED BY <1>2, <1>3 DEF Stage

\* Both files have been looked at, or the header only.
LEMMA AfterMoveInTurn ==
  ASSUME Inv, InTurn, NEW r \in Runs, AfterMove(r), Live(r),
         answer[r] = "none", \A n \in Names : n = on[r] => Aside(r, n)',
         on[r] = "header" => Untouched(r, "binary")',
         on[r] = "binary" => Aside(r, "header")',
         UNCHANGED <<port, pid, before>>,
         \A q \in Runs \ {r} : had'[q] = had[q],
         \A x \in (Pids \cup Runs) \ {Nonce(r)} : backup'[x] = backup[x]
  PROVE  InTurn'
<1>1. on[r] \in Names
  BY DEF Inv, Typed
<1>2. /\ UNCHANGED answer /\ \A q \in Runs \ {r} : pc'[q] = pc[q]
      /\ \/ on[r] = "header" /\ pc'[r] = "look" /\ on'[r] = "binary"
         \/ on[r] = "binary" /\ pc'[r] = "install" /\ on'[r] = "header"
  BY <1>1, ProceedAt DEF AfterMove, Names
<1>3. Position(r)' /\ Installed(r)'
  <2>1. answer'[r] = "none"
    BY <1>2
  <2>2. CASE pc'[r] = "look" /\ on'[r] = "binary"
    <3>1. Aside(r, "header")' /\ Untouched(r, "binary")'
      BY <1>2, <2>2 DEF Names
    <3> QED BY <2>1, <2>2, <3>1 DEF Position, Installed
  <2>3. CASE pc'[r] = "install" /\ on'[r] = "header"
    <3>1. Aside(r, "header")' /\ Aside(r, "binary")'
      BY <1>2, <2>3 DEF Names
    <3> QED BY <2>1, <2>3, <3>1 DEF Position, Installed
  <2> QED BY <1>2, <2>2, <2>3
<1> QED BY <1>2, <1>3, OthersRest, StepInTurn DEF InTurn

LEMMA LookInTurn ==
  ASSUME Inv, InTurn, NEW r \in Runs, Look(r)
  PROVE  InTurn'
<1>1. pc[r] = "look" /\ Live(r) /\ UNCHANGED <<target, backup, port, pid, had, before>>
  BY DEF Look, Live, files
<1>2. /\ on[r] \in Names /\ answer[r] = "none"
      /\ Untouched(r, "binary")
      /\ on[r] = "header" => Untouched(r, "header")
      /\ on[r] = "binary" => Aside(r, "header")
  BY <1>1 DEF InTurn, Position, Inv, Typed
<1>3. Untouched(r, on[r])
  BY <1>2 DEF Names
<1>4. /\ \A n \in Names : (Untouched(r, n) => Untouched(r, n)')
      /\ \A n \in Names : (Aside(r, n) => Aside(r, n)')
  BY <1>1 DEF Untouched, Aside, Saved, Nonce
<1>5. CASE target[on[r]] = "none" /\ AfterMove(r)
  <2>1. \A n \in Names : n = on[r] => Aside(r, n)'
    BY <1>3, <1>4, <1>5 DEF Aside, Saved, Untouched
  <2>2. /\ on[r] = "header" => Untouched(r, "binary")'
        /\ on[r] = "binary" => Aside(r, "header")'
    BY <1>2, <1>4 DEF Names
  <2> QED BY <1>1, <1>2, <1>5, <2>1, <2>2, AfterMoveInTurn
<1>6. CASE target[on[r]] \in Complete /\ Proceed(r, "move", on[r])
  <2>1. /\ pc'[r] = "move" /\ on'[r] = on[r] /\ UNCHANGED answer
        /\ \A q \in Runs \ {r} : pc'[q] = pc[q]
    BY <1>6, ProceedAt
  <2>2. target[on[r]] # "none"
    BY <1>6, RunsAssumption DEF Complete
  <2>3. Position(r)' /\ Installed(r)'
    BY <1>1, <1>2, <1>4, <2>1, <2>2 DEF Position, Installed, Names
  <2> QED BY <1>1, <2>1, <2>3, OthersRest, StepInTurn DEF InTurn
<1>7. CASE Fail(r)
  BY <1>1, <1>7, FailInTurn
<1> QED BY <1>5, <1>6, <1>7 DEF Look

LEMMA MoveInTurn ==
  ASSUME Inv, InTurn, NEW r \in Runs, Move(r)
  PROVE  InTurn'
<1>1. pc[r] = "move" /\ Live(r) /\ UNCHANGED <<port, pid, before>>
  BY DEF Move, Live
<1>2. /\ on[r] \in Names /\ answer[r] = "none" /\ Nonce(r) \in Pids \cup Runs
      /\ Untouched(r, "binary")
      /\ on[r] = "header" => Untouched(r, "header")
      /\ on[r] = "binary" => Aside(r, "header")
  BY <1>1, NonceType DEF InTurn, Position, Inv, Typed
<1>3. CASE /\ target[on[r]] # "none"
           /\ target' = [target EXCEPT ![on[r]] = "none"]
           /\ backup' = [backup EXCEPT ![Nonce(r)][on[r]] = target[on[r]]]
           /\ had' = [had EXCEPT ![r][on[r]] = TRUE]
           /\ AfterMove(r)
  <2>1. Untouched(r, on[r]) /\ Nonce(r)' = Nonce(r)
    BY <1>1, <1>2 DEF Names, Nonce
  <2>2. target'[on[r]] = "none" /\ \A n \in Names \ {on[r]} : target'[n] = target[n]
    BY <1>2, <1>3 DEF Inv, Typed, Files
  <2>3. /\ backup'[Nonce(r)][on[r]] = target[on[r]]
        /\ \A n \in Names \ {on[r]} : backup'[Nonce(r)][n] = backup[Nonce(r)][n]
        /\ \A x \in (Pids \cup Runs) \ {Nonce(r)} : backup'[x] = backup[x]
    BY <1>2, <1>3, SetEntry DEF Inv, Typed, Files
  <2>4. /\ had'[r][on[r]] /\ \A n \in Names \ {on[r]} : had'[r][n] = had[r][n]
        /\ \A q \in Runs \ {r} : had'[q] = had[q]
    BY <1>2, <1>3 DEF Inv, Typed
  <2>5. \A n \in Names : n = on[r] => Aside(r, n)'
    <3>1. before'[r][on[r]] = target[on[r]]
      BY <1>1, <2>1 DEF Untouched
    <3>2. target'[on[r]] = "none" /\ had'[r][on[r]] /\ backup'[Nonce(r)'][on[r]] = before'[r][on[r]]
          /\ before'[r][on[r]] # "none"
      BY <1>3, <2>1, <2>2, <2>3, <2>4, <3>1
    <3> QED BY <3>2 DEF Aside, Saved
  <2>6. on[r] = "header" => Untouched(r, "binary")'
    BY <1>1, <1>2, <2>1, <2>2, <2>3, <2>4 DEF Untouched, Names
  <2>7. on[r] = "binary" => Aside(r, "header")'
    BY <1>1, <1>2, <2>1, <2>2, <2>3, <2>4 DEF Aside, Saved, Names
  <2> QED BY <1>1, <1>2, <1>3, <2>3, <2>4, <2>5, <2>6, <2>7, AfterMoveInTurn
<1>4. CASE Fail(r) /\ UNCHANGED <<target, backup, had>>
  BY <1>1, <1>4, FailInTurn
<1> QED BY <1>3, <1>4 DEF Move

LEMMA InstallInTurn ==
  ASSUME Inv, InTurn, NEW r \in Runs, Install(r)
  PROVE  InTurn'
<1>1. pc[r] = "install" /\ Live(r) /\ UNCHANGED <<backup, port, pid, had, before>>
  BY DEF Install, Live
<1>2. /\ on[r] \in Names /\ answer[r] = "none" /\ temp[Nonce(r)][on[r]] = r
      /\ Aside(r, "binary")
      /\ on[r] = "header" => Aside(r, "header")
      /\ on[r] = "binary" => Replaced(r, "header")
  BY <1>1 DEF InTurn, Position, Inv, Typed, Staged
<1>3. ASSUME target' = [target EXCEPT ![on[r]] = temp[Nonce(r)][on[r]]]
      PROVE  target'[on[r]] = r /\ \A n \in Names \ {on[r]} : target'[n] = target[n]
  BY <1>2, <1>3 DEF Inv, Typed, Files
<1>4. Nonce(r)' = Nonce(r)
  BY <1>1 DEF Nonce
<1>5. CASE /\ target' = [target EXCEPT ![on[r]] = temp[Nonce(r)][on[r]]]
           /\ on[r] = "header" /\ Proceed(r, "install", "binary")
  <2>1. /\ pc'[r] = "install" /\ on'[r] = "binary" /\ UNCHANGED answer
        /\ \A q \in Runs \ {r} : pc'[q] = pc[q]
    BY <1>5, ProceedAt
  <2>2. Replaced(r, "header")' /\ Aside(r, "binary")'
    BY <1>1, <1>2, <1>3, <1>4, <1>5 DEF Replaced, Aside, Saved, Names
  <2>3. Position(r)' /\ Installed(r)'
    BY <1>2, <2>1, <2>2 DEF Position, Installed
  <2> QED BY <1>1, <2>1, <2>3, OthersRest, StepInTurn DEF InTurn
<1>6. CASE /\ target' = [target EXCEPT ![on[r]] = temp[Nonce(r)][on[r]]]
           /\ on[r] # "header"
           /\ Leave(r, "success", <<Call("drop", "header"), Call("drop", "binary")>>
                                  \o IF port[r] = "c" THEN SweepBoth ELSE <<>>)
  <2> DEFINE drops == <<Call("drop", "header"), Call("drop", "binary")>>
             rest  == IF port[r] = "c" THEN SweepBoth ELSE <<>>
  <2>1. /\ pc'[r] = "leaving" /\ answer'[r] = "success" /\ todo'[r] = drops \o rest
        /\ \A q \in Runs \ {r} : pc'[q] = pc[q] /\ answer'[q] = answer[q]
    BY <1>6 DEF Leave, Inv, Typed
  <2>2. /\ Call("drop", "header") \in Calls /\ Call("drop", "binary") \in Calls
        /\ Call("sweep", "header") \in Calls /\ Call("sweep", "binary") \in Calls
    BY DEF Call, Calls, Names
  <2>3. drops \in Seq(Calls) /\ rest \in Seq(Calls)
    BY <2>2 DEF SweepBoth
  <2>4. Elements(drops) = {Call("drop", "header"), Call("drop", "binary")}
    BY ElementsOfFew
  <2>5. Elements(rest) \subseteq {Call("sweep", "header"), Call("sweep", "binary")}
    BY ElementsOfFew DEF SweepBoth
  <2> HIDE DEF drops, rest
  <2>6. \A call \in Elements(todo'[r]) : call.op \in {"drop", "sweep"}
    BY <2>1, <2>3, <2>4, <2>5, ElementsOfConcat DEF Call
  <2>7. \A n \in Names : target'[n] = r
    BY <1>2, <1>3, <1>6 DEF Replaced, Names
  <2>8. Position(r)' /\ Installed(r)'
    BY <2>1, <2>6, <2>7 DEF Position, Installed
  <2> QED BY <1>1, <2>1, <2>8, OthersRest, StepInTurn DEF InTurn
<1>7. CASE Fail(r)
  BY <1>1, <1>7, FailInTurn
<1> QED BY <1>5, <1>6, <1>7 DEF Install

LEMMA TidyInTurn ==
  ASSUME Inv, InTurn, NEW r \in Runs, Tidy(r)
  PROVE  InTurn'
<1>1. /\ pc[r] = "leaving" /\ Live(r) /\ UNCHANGED <<port, pid, pc, on, had, answer, before>>
      /\ todo[r] # <<>> /\ todo'[r] = Tail(todo[r])
      /\ Apply(r, Head(todo[r])) \/ UNCHANGED files
  BY DEF Tidy, Live, Inv, Typed
<1>2. /\ Elements(todo[r]) = {Head(todo[r])} \cup Elements(Tail(todo[r]))
      /\ Head(todo[r]) \in Calls
  BY <1>1, ElementsOfTail DEF Inv, Typed
<1>3. \A x \in (Pids \cup Runs) \ {Nonce(r)} : backup'[x] = backup[x]
  <2>1. backup' = backup \/ \E n \in Names : backup' = [backup EXCEPT ![Nonce(r)][n] = "none"]
    BY <1>1, <1>2 DEF Apply, Calls, files
  <2>2. Nonce(r) \in Pids \cup Runs
    BY NonceType DEF Inv
  <2> QED BY <2>1, <2>2 DEF Inv, Typed
<1>4. Head(todo[r]).op \in {"drop", "sweep"} => target' = target
  BY <1>1 DEF Apply, files
<1>5. Position(r)'
  BY <1>1 DEF Position
<1>6. Installed(r)'
  BY <1>1, <1>2, <1>4 DEF Installed, InTurn
<1> QED BY <1>1, <1>3, <1>5, <1>6, OthersRest, StepInTurn DEF InTurn

\* A run that has returned or been killed moves nothing any more.
LEMMA EndInTurn ==
  ASSUME Inv, InTurn, NEW r \in Runs, Return(r) \/ Crash(r)
  PROVE  InTurn'
<1>1. /\ Live(r) /\ UNCHANGED <<target, backup, port, pid, had, answer, before>>
      /\ pc'[r] \in {"returned", "crashed"} /\ \A q \in Runs \ {r} : pc'[q] = pc[q]
  BY DEF Return, Crash, Live, files, Inv, Typed
<1>2. Position(r)' /\ Installed(r)'
  BY <1>1 DEF Position, Installed
<1> QED BY <1>1, <1>2, OthersRest, StepInTurn DEF InTurn

LEMMA InitInTurn == Init => InTurn
<1> SUFFICES ASSUME Init PROVE InTurn
  OBVIOUS
<1>1. before \in [Runs -> Files]
  BY Initially DEF Init, Inv, Typed
<1>2. Alone
  BY DEF Init, Alone, Live
<1>3. \A r \in Runs : Position(r) /\ Installed(r)
  BY DEF Init, Position, Installed, Clean
<1> QED BY <1>1, <1>2, <1>3 DEF InTurn

LEMMA NextInTurn ==
  ASSUME MAX_LIVE = 1, Inv, InTurn, [Next]_vars
  PROVE  InTurn'
<1>1. CASE UNCHANGED vars
  <2>1. \A r \in Runs : (Position(r) <=> Position(r)') /\ (Installed(r) <=> Installed(r)')
    BY <1>1 DEF vars, Position, Installed, Untouched, Aside, Replaced, Saved, Clean, Nonce
  <2> QED BY <1>1, <2>1 DEF vars, InTurn, Alone, Live
<1>2. ASSUME NEW r \in Runs,
             \/ Begin(r) \/ MakeParents(r) \/ Stage(r) \/ Look(r) \/ Move(r)
             \/ Install(r) \/ Tidy(r) \/ Return(r) \/ Crash(r)
      PROVE  InTurn'
  BY <1>2, BeginInTurn, MakeParentsInTurn, StageInTurn, LookInTurn, MoveInTurn,
     InstallInTurn, TidyInTurn, EndInTurn
<1> QED BY <1>1, <1>2 DEF Next, Done

\* One compilation at a time: at every step forward both files it found are where
\* write_outputs() and write_pair() take them to be, untouched, aside or replaced.
THEOREM AlwaysInTurn == ASSUME MAX_LIVE = 1 PROVE Spec => []InTurn
<1>1. Inv /\ InTurn /\ [Next]_vars => InTurn'
  BY NextInTurn
<1> QED BY <1>1, InitInTurn, Always, PTL DEF Spec

\* A compilation that succeeds leaves its own header and its own .wi, also when the
\* calls that tidy up after it fail.
THEOREM SuccessKeepsBoth == ASSUME MAX_LIVE = 1 PROVE Spec => SuccessInstallsBoth
<1>1. InTurn => \A r \in Runs : pc[r] = "leaving" /\ answer[r] = "success" =>
                  \A n \in Names : target[n] = r
  BY DEF InTurn, Installed
<1>2. InTurn /\ [Next]_vars =>
        [\A r \in Runs : pc[r] = "leaving" /\ pc'[r] = "returned" /\ answer[r] = "success" =>
            \A n \in Names : target[n] = r]_vars
  BY <1>1
<1> QED BY <1>2, AlwaysInTurn, PTL DEF Spec, SuccessInstallsBoth

-----------------------------------------------------------------------------
(* What the undo still has to do                                             *)

Left(r, op, n) == Call(op, n) \in Elements(todo[r])

\* Nothing is removed or put back where something has been put back already.
Orderly(s) ==
  \A i, j \in DOMAIN s :
    i < j /\ s[i].op = "put_back" /\ s[j].name = s[i].name => s[j].op \notin {"unlink", "put_back"}

\* A killed C process has left files of the run's own names.
Shared(r) == \E q \in Runs \ {r} : Nonce(q) = Nonce(r) /\ pc[q] = "crashed"

\* The calls left to a failing run put back what it found.
Restoring(r) ==
  pc[r] = "leaving" /\ answer[r] = "failure" =>
    /\ Orderly(todo[r])
    /\ \A n \in Names :
       /\ ~Left(r, "drop", n)
       /\ Left(r, "unlink", n) \/ Left(r, "put_back", n) => target[n] \in {"none", r}
       /\ IF Left(r, "put_back", n)
            THEN backup[Nonce(r)][n] = before[r][n] /\ before[r][n] # "none"
            ELSE /\ backup[Nonce(r)][n] = "none" \/ Shared(r)
                 /\ before[r][n] = IF Left(r, "unlink", n) THEN "none" ELSE target[n]

\* The calls left to a run remove its own files.
Tidying(r) ==
  pc[r] = "leaving" =>
    /\ answer[r] # "none"
    /\ port[r] = "c" => \A n \in Names : temp[Nonce(r)][n] = "none" \/ Left(r, "sweep", n)
    /\ answer[r] = "success" => \A n \in Names : backup[Nonce(r)][n] = "none" \/ Left(r, "drop", n)

\* Files that were moved aside belong to a run under way, or to one that was killed.
Holding(q) == pc[q] \notin {"idle", "parents", "returned"}
Litter ==
  \A x \in Pids \cup Runs : Clean(x) \/ \E q \in Runs : Nonce(q) = x /\ Holding(q)

Undone == Litter /\ \A r \in Runs : Restoring(r) /\ Tidying(r)

-----------------------------------------------------------------------------
(* The calls of Undo                                                         *)

\* No call of t disturbs what a call of s has put back.
LEMMA OrderlyConcat ==
  ASSUME NEW s \in Seq(Calls), NEW t \in Seq(Calls), Orderly(s), Orderly(t),
         \A a \in Elements(s) : \A b \in Elements(t) :
           ~(a.op = "put_back" /\ b.name = a.name /\ b.op \in {"unlink", "put_back"})
  PROVE  Orderly(s \o t)
<1> DEFINE u == s \o t
<1>1. /\ Len(s) \in Nat /\ Len(t) \in Nat /\ DOMAIN s = 1..Len(s) /\ DOMAIN t = 1..Len(t)
      /\ DOMAIN u = 1..Len(s) + Len(t)
      /\ \A i \in 1..Len(s) : u[i] = s[i]
      /\ \A i \in Len(s)+1..Len(s)+Len(t) : u[i] = t[i - Len(s)]
  OBVIOUS
<1> HIDE DEF u
<1> SUFFICES ASSUME NEW i \in DOMAIN u, NEW j \in DOMAIN u,
                    i < j, u[i].op = "put_back", u[j].name = u[i].name
             PROVE  u[j].op \notin {"unlink", "put_back"}
  BY DEF Orderly, u
<1>2. CASE j \in 1..Len(s)
  <2>1. i \in DOMAIN s /\ j \in DOMAIN s /\ u[i] = s[i] /\ u[j] = s[j]
    BY <1>1, <1>2
  <2> QED BY <2>1 DEF Orderly
<1>3. CASE i \in Len(s)+1..Len(s)+Len(t)
  <2>1. /\ i - Len(s) \in DOMAIN t /\ j - Len(s) \in DOMAIN t /\ i - Len(s) < j - Len(s)
        /\ u[i] = t[i - Len(s)] /\ u[j] = t[j - Len(s)]
    BY <1>1, <1>3
  <2> QED BY <2>1 DEF Orderly
<1>4. CASE i \in 1..Len(s) /\ j \in Len(s)+1..Len(s)+Len(t)
  <2>1. i \in DOMAIN s /\ j - Len(s) \in DOMAIN t /\ u[i] = s[i] /\ u[j] = t[j - Len(s)]
    BY <1>1, <1>4
  <2>2. u[i] \in Elements(s) /\ u[j] \in Elements(t)
    BY <2>1 DEF Elements
  <2> QED BY <2>2
<1> QED BY <1>1, <1>2, <1>3, <1>4

LEMMA OrderlyTail ==
  ASSUME NEW s \in Seq(Calls), s # <<>>, Orderly(s)
  PROVE  /\ Orderly(Tail(s))
         /\ Head(s).op = "put_back" =>
              \A b \in Elements(Tail(s)) :
                b.name = Head(s).name => b.op \notin {"unlink", "put_back"}
<1>1. Len(s) \in Nat \ {0} /\ DOMAIN s = 1..Len(s) /\ Head(s) = s[1]
  OBVIOUS
<1>2. /\ DOMAIN Tail(s) = 1..Len(s)-1
      /\ \A i \in 1..Len(s)-1 : Tail(s)[i] = s[i + 1]
  BY <1>1
<1>3. \A i \in 1..Len(s)-1 : i + 1 \in DOMAIN s /\ 1 < i + 1 /\ 1 \in DOMAIN s
  BY <1>1
<1>4. Orderly(Tail(s))
  <2> SUFFICES ASSUME NEW i \in 1..Len(s)-1, NEW j \in 1..Len(s)-1, i < j,
                      Tail(s)[i].op = "put_back", Tail(s)[j].name = Tail(s)[i].name
               PROVE  Tail(s)[j].op \notin {"unlink", "put_back"}
    BY <1>2 DEF Orderly
  <2>1. i + 1 < j + 1 /\ i + 1 \in DOMAIN s /\ j + 1 \in DOMAIN s
    BY <1>1, <1>3
  <2> QED BY <1>2, <2>1 DEF Orderly
<1>5. ASSUME Head(s).op = "put_back", NEW i \in 1..Len(s)-1, s[i + 1].name = Head(s).name
      PROVE  s[i + 1].op \notin {"unlink", "put_back"}
  BY <1>1, <1>3, <1>5 DEF Orderly
<1> QED BY <1>2, <1>4, <1>5 DEF Elements

LEMMA OrderlyFew ==
  ASSUME NEW a, NEW b
  PROVE  /\ Orderly(<<>>) /\ Orderly(<<a>>)
         /\ a.op # "put_back" => Orderly(<<a, b>>)
<1>1. Orderly(<<>>)
  BY DEF Orderly
<1>2. Orderly(<<a>>)
  BY DEF Orderly
<1>3. ASSUME a.op # "put_back" PROVE Orderly(<<a, b>>)
  <2>1. DOMAIN <<a, b>> = {1, 2} /\ <<a, b>>[1] = a
    OBVIOUS
  <2> QED BY <1>3, <2>1 DEF Orderly
<1> QED BY <1>1, <1>2, <1>3

LEMMA CallsAreCalls ==
  /\ \A n \in Names : Call("unlink", n) \in Calls /\ Call("put_back", n) \in Calls
                      /\ Call("sweep", n) \in Calls /\ Call("drop", n) \in Calls
  /\ \A op, n, p, m : Call(op, n) = Call(p, m) <=> op = p /\ n = m
  /\ \A c \in Calls : c = Call(c.op, c.name)
BY DEF Call, Calls

LEMMA FewCalls ==
  /\ <<>> \in Seq(Calls) /\ Orderly(<<>>) /\ Elements(<<>>) = {}
  /\ \A a \in Calls : <<a>> \in Seq(Calls) /\ Orderly(<<a>>) /\ Elements(<<a>>) = {a}
  /\ \A a, b \in Calls : /\ <<a, b>> \in Seq(Calls) /\ Elements(<<a, b>>) = {a, b}
                         /\ a.op # "put_back" => Orderly(<<a, b>>)
<1>1. <<>> \in Seq(Calls)
  OBVIOUS
<1>2. ASSUME NEW a \in Calls PROVE <<a>> \in Seq(Calls)
  OBVIOUS
<1>3. ASSUME NEW a \in Calls, NEW b \in Calls PROVE <<a, b>> \in Seq(Calls)
  OBVIOUS
<1> QED BY <1>1, <1>2, <1>3, OrderlyFew, ElementsOfFew, Zenon

\* restore() removes what is at the path before it puts the old file back.
LEMMA RestoreCalls ==
  ASSUME NEW r \in Runs, NEW n \in Names
  PROVE  /\ Restore(r, n) \in Seq(Calls) /\ Orderly(Restore(r, n))
         /\ Elements(Restore(r, n)) =
              {c \in {Call("unlink", n)} : port[r] = "c"} \cup {c \in {Call("put_back", n)} : had[r][n]}
<1> DEFINE first == IF port[r] = "c" THEN <<Call("unlink", n)>> ELSE <<>>
           last  == IF had[r][n] THEN <<Call("put_back", n)>> ELSE <<>>
<1>1. Call("unlink", n) \in Calls /\ Call("put_back", n) \in Calls
  BY CallsAreCalls
<1>2. first \in Seq(Calls) /\ Orderly(first)
      /\ Elements(first) = {c \in {Call("unlink", n)} : port[r] = "c"}
  BY <1>1, FewCalls
<1>3. last \in Seq(Calls) /\ Orderly(last)
      /\ Elements(last) = {c \in {Call("put_back", n)} : had[r][n]}
  BY <1>1, FewCalls
<1>4. Restore(r, n) = first \o last
  BY DEF Restore
<1> HIDE DEF first, last
<1>5. \A a \in Elements(first) : a.op # "put_back"
  BY <1>2 DEF Call
<1>6. \A a \in Elements(first) : \A b \in Elements(last) :
        ~(a.op = "put_back" /\ b.name = a.name /\ b.op \in {"unlink", "put_back"})
  BY <1>5
<1>7. Elements(first \o last) = Elements(first) \cup Elements(last)
  BY <1>2, <1>3, ElementsOfConcat
<1>8. Orderly(first \o last)
  BY <1>2, <1>3, <1>6, OrderlyConcat
<1>9. first \o last \in Seq(Calls)
  BY <1>2, <1>3
<1> QED BY <1>2, <1>3, <1>4, <1>7, <1>8, <1>9

\* What write_outputs() and write_pair() do when a step fails.
LEMMA UndoCalls ==
  ASSUME Inv, NEW r \in Runs
  PROVE  /\ Undo(r) \in Seq(Calls) /\ Orderly(Undo(r))
         /\ \A n \in Names :
              /\ Call("drop", n) \notin Elements(Undo(r))
              /\ port[r] = "c" => Call("sweep", n) \in Elements(Undo(r))
              /\ Call("put_back", n) \in Elements(Undo(r)) <=>
                   /\ had[r][n]
                   /\ \/ pc[r] = "install"
                      \/ n = "header" /\ pc[r] \in {"look", "move"} /\ on[r] = "binary"
              /\ Call("unlink", n) \in Elements(Undo(r)) <=>
                   \/ pc[r] = "install" /\ port[r] = "c"
                   \/ n = "header" /\ pc[r] = "install" /\ on[r] = "binary"
                   \/ n = "header" /\ pc[r] \in {"look", "move"} /\ on[r] = "binary" /\ port[r] = "c"
<1> DEFINE restored ==
             CASE pc[r] \in {"look", "move"} /\ on[r] = "binary" -> Restore(r, "header")
               [] pc[r] = "install" -> Restore(r, "header") \o Restore(r, "binary")
               [] OTHER -> <<>>
           removed == IF pc[r] = "install" /\ on[r] = "binary" /\ port[r] = "rust"
                        THEN <<Call("unlink", "header")>> ELSE <<>>
           swept ==
             IF port[r] = "c" \/ pc[r] \in {"look", "move"} THEN SweepBoth
             ELSE CASE pc[r] = "stage" /\ on[r] = "binary" -> <<Call("sweep", "header")>>
                    [] pc[r] = "install" -> <<Call("sweep", "binary")>>
                    [] OTHER -> <<>>
<1>0. port[r] \in {"c", "rust"} /\ "header" \in Names /\ "binary" \in Names
  BY PortsAssumption DEF Inv, Typed, Names
<1>1. Undo(r) = removed \o restored \o swept
  BY DEF Undo
<1>2. /\ removed \in Seq(Calls) /\ Orderly(removed)
      /\ Elements(removed) =
           {c \in {Call("unlink", "header")} : pc[r] = "install" /\ on[r] = "binary" /\ port[r] = "rust"}
  <2>1. Call("unlink", "header") \in Calls
    BY <1>0, CallsAreCalls
  <2> QED BY <2>1, FewCalls
<1>3. /\ restored \in Seq(Calls) /\ Orderly(restored)
      /\ Elements(restored) =
           {c \in Elements(Restore(r, "header")) :
              \/ pc[r] \in {"look", "move"} /\ on[r] = "binary"
              \/ pc[r] = "install"}
           \cup {c \in Elements(Restore(r, "binary")) : pc[r] = "install"}
  <2>1. /\ Restore(r, "header") \in Seq(Calls) /\ Orderly(Restore(r, "header"))
        /\ Restore(r, "binary") \in Seq(Calls) /\ Orderly(Restore(r, "binary"))
    BY <1>0, RestoreCalls
  <2>2. /\ \A a \in Elements(Restore(r, "header")) : a.name = "header"
        /\ \A a \in Elements(Restore(r, "binary")) : a.name = "binary"
    BY <1>0, RestoreCalls DEF Call
  <2>3. /\ Restore(r, "header") \o Restore(r, "binary") \in Seq(Calls)
        /\ Orderly(Restore(r, "header") \o Restore(r, "binary"))
        /\ Elements(Restore(r, "header") \o Restore(r, "binary")) =
             Elements(Restore(r, "header")) \cup Elements(Restore(r, "binary"))
    BY <2>1, <2>2, OrderlyConcat, ElementsOfConcat
  <2>4. <<>> \in Seq(Calls) /\ Orderly(<<>>) /\ Elements(<<>>) = {}
    BY FewCalls
  <2>5. CASE pc[r] \in {"look", "move"} /\ on[r] = "binary"
    BY <2>1, <2>5
  <2>6. CASE pc[r] = "install"
    BY <2>3, <2>6
  <2>7. CASE ~(pc[r] \in {"look", "move"} /\ on[r] = "binary") /\ pc[r] # "install"
    BY <2>4, <2>7
  <2> QED BY <2>5, <2>6, <2>7
<1>4. /\ swept \in Seq(Calls) /\ Orderly(swept)
      /\ \A a \in Elements(swept) : a.op = "sweep"
      /\ port[r] = "c" => \A n \in Names : Call("sweep", n) \in Elements(swept)
  <2> DEFINE h == Call("sweep", "header")
             b == Call("sweep", "binary")
  <2>1. h \in Calls /\ b \in Calls /\ h.op = "sweep" /\ b.op = "sweep"
        /\ \A n \in Names : Call("sweep", n) \in {h, b}
    BY <1>0, CallsAreCalls DEF Call, Names
  <2>2. /\ swept = <<h, b>> \/ swept = <<h>> \/ swept = <<b>> \/ swept = <<>>
        /\ port[r] = "c" => swept = <<h, b>>
    <3>1. SweepBoth = <<h, b>>
      BY DEF SweepBoth
    <3>2. CASE port[r] = "c" \/ pc[r] \in {"look", "move"}
      <4>1. swept = SweepBoth
        BY <3>2
      <4> HIDE DEF swept, h, b
      <4> QED BY <3>1, <4>1
    <3>3. CASE ~(port[r] = "c" \/ pc[r] \in {"look", "move"}) /\ pc[r] = "stage" /\ on[r] = "binary"
      BY <3>3
    <3>4. CASE ~(port[r] = "c" \/ pc[r] \in {"look", "move"}) /\ pc[r] = "install"
      BY <3>4
    <3>5. CASE /\ ~(port[r] = "c" \/ pc[r] \in {"look", "move"}) /\ pc[r] # "install"
               /\ ~(pc[r] = "stage" /\ on[r] = "binary")
      BY <3>5
    <3> HIDE DEF swept, h, b
    <3> QED BY <3>2, <3>3, <3>4, <3>5, Zenon
  <2> HIDE DEF h, b, swept
  <2>3. swept \in Seq(Calls) /\ Orderly(swept) /\ Elements(swept) \subseteq {h, b}
    <3>1. CASE swept = <<h, b>>
      BY <2>1, <3>1, FewCalls
    <3>2. CASE swept = <<h>>
      BY <2>1, <3>2, FewCalls
    <3>3. CASE swept = <<b>>
      BY <2>1, <3>3, FewCalls
    <3>4. CASE swept = <<>>
      BY <3>4, FewCalls
    <3> QED BY <2>2, <3>1, <3>2, <3>3, <3>4
  <2>4. swept = <<h, b>> => Elements(swept) = {h, b}
    BY <2>1, FewCalls
  <2> QED BY <2>1, <2>2, <2>3, <2>4
<1> HIDE DEF restored, removed, swept
<1>5. \A a \in Elements(removed) : a.op # "put_back"
  BY <1>2 DEF Call
<1>6. /\ removed \o restored \in Seq(Calls) /\ Orderly(removed \o restored)
      /\ Elements(removed \o restored) = Elements(removed) \cup Elements(restored)
  BY <1>2, <1>3, <1>5, OrderlyConcat, ElementsOfConcat
<1>7. /\ Undo(r) \in Seq(Calls) /\ Orderly(Undo(r))
      /\ Elements(Undo(r)) = Elements(removed) \cup Elements(restored) \cup Elements(swept)
  <2>1. \A a \in Elements(swept) : a.op \notin {"unlink", "put_back"}
    BY <1>4
  <2> DEFINE u == removed \o restored
  <2>2. Undo(r) = u \o swept /\ u \in Seq(Calls) /\ Orderly(u)
        /\ Elements(u) = Elements(removed) \cup Elements(restored)
    BY <1>1, <1>6
  <2> HIDE DEF u
  <2>3. Undo(r) \in Seq(Calls) /\ Elements(Undo(r)) = Elements(u) \cup Elements(swept)
    BY <1>4, <2>2, ElementsOfConcat
  <2>4. Orderly(Undo(r))
    BY <1>4, <2>1, <2>2, OrderlyConcat
  <2> QED BY <2>2, <2>3, <2>4
<1>8. ASSUME NEW n \in Names
      PROVE  /\ Call("drop", n) \notin Elements(Undo(r))
             /\ port[r] = "c" => Call("sweep", n) \in Elements(Undo(r))
             /\ Call("put_back", n) \in Elements(Undo(r)) <=>
                  /\ had[r][n]
                  /\ \/ pc[r] = "install"
                     \/ n = "header" /\ pc[r] \in {"look", "move"} /\ on[r] = "binary"
             /\ Call("unlink", n) \in Elements(Undo(r)) <=>
                  \/ pc[r] = "install" /\ port[r] = "c"
                  \/ n = "header" /\ pc[r] = "install" /\ on[r] = "binary"
                  \/ n = "header" /\ pc[r] \in {"look", "move"} /\ on[r] = "binary" /\ port[r] = "c"
  <2>1. \A op \in {"drop", "put_back", "unlink"} : Call(op, n) \notin Elements(swept)
    BY <1>4 DEF Call
  <2>2. \A m \in Names : Elements(Restore(r, m)) =
          {c \in {Call("unlink", m)} : port[r] = "c"} \cup {c \in {Call("put_back", m)} : had[r][m]}
    BY RestoreCalls
  <2>3. \A op : Call(op, n) \in Elements(restored) <=>
          /\ (op = "unlink" /\ port[r] = "c") \/ (op = "put_back" /\ had[r][n])
          /\ \/ pc[r] = "install"
             \/ n = "header" /\ pc[r] \in {"look", "move"} /\ on[r] = "binary"
    <3>1. \A op : \A m \in Names : Call(op, n) \in Elements(Restore(r, m)) <=>
             n = m /\ ((op = "unlink" /\ port[r] = "c") \/ (op = "put_back" /\ had[r][m]))
      BY <2>2, CallsAreCalls
    <3>2. \A c : c \in Elements(restored) <=>
            \/ /\ c \in Elements(Restore(r, "header"))
               /\ \/ pc[r] \in {"look", "move"} /\ on[r] = "binary"
                  \/ pc[r] = "install"
            \/ c \in Elements(Restore(r, "binary")) /\ pc[r] = "install"
      BY <1>3
    <3>3. n = "header" \/ n = "binary"
      BY DEF Names
    <3> QED BY <1>0, <3>1, <3>2, <3>3
  <2>4. \A op : Call(op, n) \in Elements(removed) <=>
          /\ op = "unlink" /\ n = "header"
          /\ pc[r] = "install" /\ on[r] = "binary" /\ port[r] = "rust"
    BY <1>2, CallsAreCalls
  <2>5. n = "header" \/ n = "binary"
    BY DEF Names
  <2>6. Call("drop", n) \notin Elements(Undo(r))
    BY <1>7, <2>1, <2>3, <2>4
  <2>7. port[r] = "c" => Call("sweep", n) \in Elements(Undo(r))
    BY <1>4, <1>7
  <2>8. Call("put_back", n) \in Elements(Undo(r)) <=>
          /\ had[r][n]
          /\ \/ pc[r] = "install"
             \/ n = "header" /\ pc[r] \in {"look", "move"} /\ on[r] = "binary"
    BY <1>7, <2>1, <2>3, <2>4, <2>5
  <2>9. Call("unlink", n) \in Elements(Undo(r)) <=>
          \/ pc[r] = "install" /\ port[r] = "c"
          \/ n = "header" /\ pc[r] = "install" /\ on[r] = "binary"
          \/ n = "header" /\ pc[r] \in {"look", "move"} /\ on[r] = "binary" /\ port[r] = "c"
    BY <1>0, <1>7, <2>1, <2>3, <2>4, <2>5
  <2> QED BY <2>6, <2>7, <2>8, <2>9
<1> QED BY <1>7, <1>8

-----------------------------------------------------------------------------
(* The steps, and what is left to undo                                       *)

LEMMA HoldingIsLive ==
  ASSUME Inv, NEW q \in Runs, Holding(q)
  PROVE  Live(q) \/ pc[q] = "crashed"
BY DEF Holding, Live, Inv, Typed, PCs

\* What concerns the runs that are not at work stays as it was.
LEMMA StepUndone ==
  ASSUME Inv, InTurn, Undone, NEW r \in Runs, \A q \in Runs \ {r} : ~Live(q),
         \A q \in Runs \ {r} : pc'[q] = pc[q],
         UNCHANGED <<port, pid>>,
         \A x \in (Pids \cup Runs) \ {Nonce(r)} : backup'[x] = backup[x],
         \/ Clean(Nonce(r))'
         \/ Holding(r)'
         \/ UNCHANGED backup /\ ~Holding(r)
         \/ Shared(r),
         Restoring(r)', Tidying(r)'
  PROVE  Undone'
<1>1. \A q \in Runs : Nonce(q)' = Nonce(q)
  BY DEF Nonce
<1>2. \A q \in Runs \ {r} : Holding(q) => Holding(q)'
  BY DEF Holding
<1>3. ASSUME NEW x \in Pids \cup Runs
      PROVE  Clean(x)' \/ \E q \in Runs : Nonce(q)' = x /\ Holding(q)'
  <2>1. Clean(x) \/ \E q \in Runs : Nonce(q) = x /\ Holding(q)
    BY DEF Undone, Litter
  <2>2. CASE x # Nonce(r)
    <3>1. backup'[x] = backup[x]
      BY <2>2
    <3> QED BY <1>1, <1>2, <2>1, <2>2, <3>1 DEF Clean
  <2>3. CASE x = Nonce(r)
    <3>1. CASE Holding(r)'
      BY <1>1, <2>3, <3>1
    <3>2. CASE UNCHANGED backup /\ ~Holding(r)
      BY <1>1, <1>2, <2>1, <3>2 DEF Clean
    <3>3. CASE Shared(r)
      <4>1. PICK q \in Runs \ {r} : Nonce(q) = Nonce(r) /\ pc[q] = "crashed"
        BY <3>3 DEF Shared
      <4>2. Holding(q)'
        BY <4>1 DEF Holding
      <4> QED BY <1>1, <2>3, <4>1, <4>2
    <3>4. CASE Clean(Nonce(r))'
      BY <1>1, <2>3, <3>4 DEF Clean
    <3> QED BY <3>1, <3>2, <3>3, <3>4
  <2> QED BY <2>2, <2>3
<1>4. ASSUME NEW q \in Runs \ {r} PROVE Restoring(q)' /\ Tidying(q)'
  <2>1. pc'[q] # "leaving"
    BY DEF Live
  <2> QED BY <2>1 DEF Restoring, Tidying
<1> QED BY <1>3, <1>4 DEF Undone, Litter

\* A run under way has nothing to restore yet.
LEMMA ForwardUndone ==
  ASSUME Inv, InTurn, Undone, NEW r \in Runs, Live(r),
         \A q \in Runs \ {r} : pc'[q] = pc[q],
         pc'[r] \notin {"idle", "parents", "leaving", "returned"},
         UNCHANGED <<port, pid>>,
         \A x \in (Pids \cup Runs) \ {Nonce(r)} : backup'[x] = backup[x]
  PROVE  Undone'
<1>1. Restoring(r)' /\ Tidying(r)' /\ Holding(r)'
  BY DEF Restoring, Tidying, Holding
<1> QED BY <1>1, OthersRest, StepUndone

\* What the failing step found is what the calls of Undo put back.
LEMMA FailUndone ==
  ASSUME Inv, InTurn, Undone, NEW r \in Runs, Live(r), Fail(r), pc[r] # "leaving",
         UNCHANGED <<target, backup, port, pid, had, before>>
  PROVE  Undone'
<1>1. /\ pc'[r] = "leaving" /\ answer'[r] = "failure" /\ todo'[r] = Undo(r)
      /\ \A q \in Runs \ {r} : pc'[q] = pc[q]
  BY DEF Inv, Typed, Fail, Leave
<1>2. Nonce(r)' = Nonce(r)
  BY DEF Nonce
<1>3. pc[r] \in {"parents", "stage", "look", "move", "install"} /\ on[r] \in Names
      /\ port[r] \in {"c", "rust"}
  BY PortsAssumption DEF Live, Inv, Typed, PCs
<1>4. Shared(r) => Shared(r)'
  BY <1>1, <1>2 DEF Shared, Nonce
<1>5. pc[r] = "parents" => Clean(Nonce(r)) \/ Shared(r)
  <2> SUFFICES ASSUME pc[r] = "parents", ~Clean(Nonce(r)) PROVE Shared(r)
    OBVIOUS
  <2>1. PICK q \in Runs : Nonce(q) = Nonce(r) /\ Holding(q)
    BY NonceType DEF Undone, Litter, Inv
  <2>2. q # r
    BY <2>1 DEF Holding
  <2>3. pc[q] = "crashed"
    BY <2>1, <2>2, HoldingIsLive, OthersRest
  <2> QED BY <2>1, <2>2, <2>3 DEF Shared
<1>6. ASSUME NEW n \in Names
      PROVE  /\ ~Left(r, "drop", n)'
             /\ Left(r, "unlink", n)' \/ Left(r, "put_back", n)' => target[n] \in {"none", r}
             /\ IF Left(r, "put_back", n)'
                  THEN backup[Nonce(r)][n] = before[r][n] /\ before[r][n] # "none"
                  ELSE /\ backup[Nonce(r)][n] = "none" \/ Shared(r)
                       /\ before[r][n] = IF Left(r, "unlink", n)' THEN "none" ELSE target[n]
  <2>1. /\ ~Left(r, "drop", n)'
        /\ Left(r, "put_back", n)' <=>
             /\ had[r][n]
             /\ \/ pc[r] = "install"
                \/ n = "header" /\ pc[r] \in {"look", "move"} /\ on[r] = "binary"
        /\ Left(r, "unlink", n)' <=>
             \/ pc[r] = "install" /\ port[r] = "c"
             \/ n = "header" /\ pc[r] = "install" /\ on[r] = "binary"
             \/ n = "header" /\ pc[r] \in {"look", "move"} /\ on[r] = "binary" /\ port[r] = "c"
    BY <1>1, UndoCalls DEF Left
  <2>2. n = "header" \/ n = "binary"
    BY DEF Names
  <2>3. Position(r)
    BY DEF InTurn
  <2>4. CASE pc[r] = "parents"
    <3>1. target = before[r] /\ ~had[r][n]
      BY <2>3, <2>4 DEF Position
    <3> QED BY <1>5, <2>1, <2>4, <3>1 DEF Clean
  <2>5. CASE Untouched(r, n) /\ pc[r] # "install" /\ ~(n = "header" /\ on[r] = "binary" /\ pc[r] # "stage")
    BY <1>3, <2>1, <2>5 DEF Untouched
  <2>6. CASE Aside(r, n) /\ (pc[r] = "install" \/ (n = "header" /\ pc[r] \in {"look", "move"} /\ on[r] = "binary"))
    BY <2>1, <2>6 DEF Aside, Saved
  <2>7. CASE Replaced(r, n) /\ n = "header" /\ pc[r] = "install" /\ on[r] = "binary"
    BY <2>1, <2>7 DEF Replaced, Saved
  <2>8. CASE pc[r] = "stage"
    BY <2>2, <2>3, <2>5, <2>8 DEF Position
  <2>9. CASE pc[r] \in {"look", "move"}
    BY <1>3, <2>2, <2>3, <2>5, <2>6, <2>9 DEF Position, Names
  <2>10. CASE pc[r] = "install"
    BY <1>3, <2>2, <2>3, <2>6, <2>7, <2>10 DEF Position, Names
  <2> QED BY <1>3, <2>4, <2>8, <2>9, <2>10
<1>7. Orderly(todo'[r])
  BY <1>1, UndoCalls
<1>8. Restoring(r)'
  BY <1>1, <1>2, <1>4, <1>6, <1>7 DEF Restoring
<1>9. Tidying(r)'
  BY <1>1, UndoCalls DEF Tidying, Left
<1>10. Holding(r)'
  BY <1>1 DEF Holding
<1> QED BY <1>1, <1>8, <1>9, <1>10, OthersRest, StepUndone

\* The calls after a successful compilation drop both backups and, in C, sweep.
LEMMA SuccessUndone ==
  ASSUME Inv, InTurn, Undone, NEW r \in Runs, Live(r),
         Leave(r, "success", <<Call("drop", "header"), Call("drop", "binary")>>
                             \o IF port[r] = "c" THEN SweepBoth ELSE <<>>),
         UNCHANGED <<backup, port, pid>>
  PROVE  Undone'
<1> DEFINE h == Call("drop", "header")
           b == Call("drop", "binary")
           drops == <<h, b>>
           rest  == IF port[r] = "c" THEN SweepBoth ELSE <<>>
<1>1. /\ pc'[r] = "leaving" /\ answer'[r] = "success" /\ todo'[r] = drops \o rest
      /\ \A q \in Runs \ {r} : pc'[q] = pc[q]
  BY DEF Leave, Inv, Typed
<1>2. h \in Calls /\ b \in Calls /\ "header" \in Names /\ "binary" \in Names
  BY CallsAreCalls DEF Names
<1>3. SweepBoth \in Seq(Calls)
      /\ Elements(SweepBoth) = {Call("sweep", "header"), Call("sweep", "binary")}
  <2> DEFINE c == Call("sweep", "header")
             d == Call("sweep", "binary")
  <2>1. c \in Calls /\ d \in Calls
    BY <1>2, CallsAreCalls
  <2>2. SweepBoth = <<c, d>>
    BY DEF SweepBoth
  <2> HIDE DEF c, d
  <2>3. SweepBoth \in Seq(Calls) /\ Elements(SweepBoth) = {c, d}
    BY <2>1, <2>2, FewCalls
  <2> QED BY <2>3 DEF c, d
<1>4. rest \in Seq(Calls) /\ (port[r] = "c" => rest = SweepBoth)
  BY <1>3, FewCalls
<1> HIDE DEF h, b, rest
<1>5. drops \in Seq(Calls) /\ Elements(drops) = {h, b}
  BY <1>2, FewCalls
<1> HIDE DEF drops
<1>6. Elements(todo'[r]) = {h, b} \cup Elements(rest)
  BY <1>1, <1>4, <1>5, ElementsOfConcat
<1>7. ASSUME NEW n \in Names
      PROVE  Left(r, "drop", n)' /\ (port[r] = "c" => Left(r, "sweep", n)')
  BY <1>3, <1>4, <1>6 DEF Left, Names, h, b
<1>8. Restoring(r)' /\ Tidying(r)' /\ Holding(r)'
  BY <1>1, <1>7 DEF Restoring, Tidying, Holding
<1> QED BY <1>1, <1>8, OthersRest, StepUndone

LEMMA BeginUndone ==
  ASSUME MAX_LIVE = 1, Inv, InTurn, Undone, NEW r \in Runs, Begin(r)
  PROVE  Undone'
<1>1. /\ pc[r] = "idle" /\ Proceed(r, "parents", "header") /\ UNCHANGED <<backup, port, pid>>
  BY DEF Begin, files
<1>2. \A q \in Runs : ~Live(q)
  BY NobodyLive DEF Begin, InTurn
<1>3. /\ pc'[r] = "parents" /\ \A q \in Runs \ {r} : pc'[q] = pc[q]
  BY <1>1, ProceedAt
<1>4. Restoring(r)' /\ Tidying(r)' /\ ~Holding(r)
  BY <1>1, <1>3 DEF Restoring, Tidying, Holding
<1> QED BY <1>1, <1>2, <1>3, <1>4, StepUndone

LEMMA MakeParentsUndone ==
  ASSUME Inv, InTurn, Undone, NEW r \in Runs, MakeParents(r)
  PROVE  Undone'
<1>1. pc[r] = "parents" /\ Live(r) /\ UNCHANGED <<target, port, pid, had, before>>
  BY DEF MakeParents, Live
<1>2. CASE /\ Proceed(r, "stage", "header")
           /\ IF port[r] = "c"
                THEN backup' = [backup EXCEPT ![pid[r]] = [n \in Names |-> "none"]]
                ELSE UNCHANGED backup
  <2>1. pc'[r] = "stage" /\ \A q \in Runs \ {r} : pc'[q] = pc[q]
    BY <1>2, ProceedAt
  <2>2. \A x \in (Pids \cup Runs) \ {Nonce(r)} : backup'[x] = backup[x]
    BY <1>2 DEF Nonce, Inv, Typed
  <2> QED BY <1>1, <2>1, <2>2, ForwardUndone
<1>3. CASE Fail(r) /\ UNCHANGED <<temp, backup>>
  BY <1>1, <1>3, FailUndone
<1> QED BY <1>2, <1>3 DEF MakeParents

LEMMA StageUndone ==
  ASSUME Inv, InTurn, Undone, NEW r \in Runs, Stage(r)
  PROVE  Undone'
<1>1. pc[r] = "stage" /\ Live(r) /\ UNCHANGED <<target, backup, port, pid, had, before>>
  BY DEF Stage, Live
<1>2. CASE IF on[r] = "header" THEN Proceed(r, "stage", "binary") ELSE Proceed(r, "look", "header")
  <2>1. pc'[r] \in {"stage", "look"} /\ \A q \in Runs \ {r} : pc'[q] = pc[q]
    BY <1>2, ProceedAt
  <2> QED BY <1>1, <2>1, ForwardUndone
<1>3. CASE Fail(r)
  BY <1>1, <1>3, FailUndone
<1> QED BY <1>2, <1>3 DEF Stage

LEMMA AfterMoveUndone ==
  ASSUME Inv, InTurn, Undone, NEW r \in Runs, Live(r), AfterMove(r),
         UNCHANGED <<port, pid>>,
         \A x \in (Pids \cup Runs) \ {Nonce(r)} : backup'[x] = backup[x]
  PROVE  Undone'
<1>1. pc'[r] \in {"look", "install"} /\ \A q \in Runs \ {r} : pc'[q] = pc[q]
  BY ProceedAt DEF AfterMove
<1> QED BY <1>1, ForwardUndone

LEMMA LookUndone ==
  ASSUME Inv, InTurn, Undone, NEW r \in Runs, Look(r)
  PROVE  Undone'
<1>1. pc[r] = "look" /\ Live(r) /\ UNCHANGED <<target, backup, port, pid, had, before>>
  BY DEF Look, Live, files
<1>2. CASE AfterMove(r)
  BY <1>1, <1>2, AfterMoveUndone
<1>3. CASE Proceed(r, "move", on[r])
  <2>1. pc'[r] = "move" /\ \A q \in Runs \ {r} : pc'[q] = pc[q]
    BY <1>3, ProceedAt
  <2> QED BY <1>1, <2>1, ForwardUndone
<1>4. CASE Fail(r)
  BY <1>1, <1>4, FailUndone
<1> QED BY <1>2, <1>3, <1>4 DEF Look

LEMMA MoveUndone ==
  ASSUME Inv, InTurn, Undone, NEW r \in Runs, Move(r)
  PROVE  Undone'
<1>1. pc[r] = "move" /\ Live(r) /\ UNCHANGED <<port, pid, before>>
  BY DEF Move, Live
<1>2. CASE /\ backup' = [backup EXCEPT ![Nonce(r)][on[r]] = target[on[r]]]
           /\ AfterMove(r)
  <2>1. \A x \in (Pids \cup Runs) \ {Nonce(r)} : backup'[x] = backup[x]
    BY <1>2 DEF Inv, Typed
  <2> QED BY <1>1, <1>2, <2>1, AfterMoveUndone
<1>3. CASE Fail(r) /\ UNCHANGED <<target, backup, had>>
  BY <1>1, <1>3, FailUndone
<1> QED BY <1>2, <1>3 DEF Move

LEMMA InstallUndone ==
  ASSUME Inv, InTurn, Undone, NEW r \in Runs, Install(r)
  PROVE  Undone'
<1>1. pc[r] = "install" /\ Live(r) /\ UNCHANGED <<backup, port, pid, had, before>>
  BY DEF Install, Live
<1>2. CASE Proceed(r, "install", "binary")
  <2>1. pc'[r] = "install" /\ \A q \in Runs \ {r} : pc'[q] = pc[q]
    BY <1>2, ProceedAt
  <2> QED BY <1>1, <2>1, ForwardUndone
<1>3. CASE Leave(r, "success", <<Call("drop", "header"), Call("drop", "binary")>>
                               \o IF port[r] = "c" THEN SweepBoth ELSE <<>>)
  BY <1>1, <1>3, SuccessUndone
<1>4. CASE Fail(r) /\ UNCHANGED <<target, temp>>
  BY <1>1, <1>4, FailUndone
<1> QED BY <1>2, <1>3, <1>4 DEF Install

\* What a call does to the files of a run.
Carried(r, c) ==
  LET x == Nonce(r)
      n == c.name
  IN /\ \A y \in (Pids \cup Runs) \ {x} : backup'[y] = backup[y] /\ temp'[y] = temp[y]
     /\ \A m \in Names : m # n =>
          target'[m] = target[m] /\ temp'[x][m] = temp[x][m] /\ backup'[x][m] = backup[x][m]
     /\ target'[n] = IF c.op = "unlink" THEN "none"
                     ELSE IF c.op = "put_back" /\ backup[x][n] # "none"
                            THEN backup[x][n] ELSE target[n]
     /\ backup'[x][n] = IF c.op \in {"put_back", "drop"} THEN "none" ELSE backup[x][n]
     /\ temp'[x][n] = IF c.op = "sweep" THEN "none" ELSE temp[x][n]

LEMMA ApplyCarries ==
  ASSUME Inv, NEW r \in Runs, NEW c \in Calls, Apply(r, c)
  PROVE  Carried(r, c)
<1> DEFINE x == Nonce(r)
           n == c.name
<1>1. /\ c.op \in {"unlink", "put_back", "sweep", "drop"} /\ n \in Names
      /\ x \in Pids \cup Runs
  BY NonceType DEF Calls, Inv
<1>2. /\ target \in [Names -> Contents] /\ temp \in [Pids \cup Runs -> [Names -> Contents]]
      /\ backup \in [Pids \cup Runs -> [Names -> Contents]]
  BY DEF Inv, Typed, Files
<1>3. ASSUME backup' = [backup EXCEPT ![x][n] = "none"]
      PROVE  /\ backup'[x][n] = "none" /\ \A m \in Names \ {n} : backup'[x][m] = backup[x][m]
             /\ \A y \in (Pids \cup Runs) \ {x} : backup'[y] = backup[y]
  BY <1>1, <1>2, <1>3, SetEntry
<1>4. CASE c.op = "unlink"
  <2>1. target' = [target EXCEPT ![n] = "none"] /\ UNCHANGED <<temp, backup>>
    BY <1>4 DEF Apply
  <2>2. target'[n] = "none" /\ \A m \in Names : m # n => target'[m] = target[m]
    BY <1>1, <1>2, <2>1
  <2> QED BY <1>4, <2>1, <2>2 DEF Carried
<1>5. CASE c.op = "put_back"
  <2>1. /\ target' = [target EXCEPT ![n] = IF backup[x][n] = "none" THEN @ ELSE backup[x][n]]
        /\ backup' = [backup EXCEPT ![x][n] = "none"] /\ UNCHANGED temp
    BY <1>5 DEF Apply
  <2>2. /\ target'[n] = IF backup[x][n] # "none" THEN backup[x][n] ELSE target[n]
        /\ \A m \in Names : m # n => target'[m] = target[m]
    BY <1>1, <1>2, <2>1
  <2> QED BY <1>3, <1>5, <2>1, <2>2 DEF Carried
<1>6. CASE c.op = "sweep"
  <2>1. temp' = [temp EXCEPT ![x][n] = "none"] /\ UNCHANGED <<target, backup>>
    BY <1>6 DEF Apply
  <2>2. /\ temp'[x][n] = "none" /\ \A m \in Names \ {n} : temp'[x][m] = temp[x][m]
        /\ \A y \in (Pids \cup Runs) \ {x} : temp'[y] = temp[y]
    BY <1>1, <1>2, <2>1, SetEntry
  <2> QED BY <1>6, <2>1, <2>2 DEF Carried
<1>7. CASE c.op = "drop"
  <2>1. backup' = [backup EXCEPT ![x][n] = "none"] /\ UNCHANGED <<target, temp>>
    BY <1>7 DEF Apply
  <2> QED BY <1>3, <1>7, <2>1 DEF Carried
<1> QED BY <1>1, <1>4, <1>5, <1>6, <1>7

\* A tidying run makes the first of the calls that are left.
LEMMA TidyCall ==
  ASSUME Inv, NEW r \in Runs, Tidy(r)
  PROVE  \E c \in Calls :
           /\ Elements(todo[r]) = {c} \cup Elements(todo'[r])
           /\ Orderly(todo[r]) =>
                /\ Orderly(todo'[r])
                /\ c.op = "put_back" =>
                     \A d \in Elements(todo'[r]) : d.name = c.name => d.op \notin {"unlink", "put_back"}
           /\ Carried(r, c) \/ ("undo" \in FaultySteps /\ UNCHANGED files)
<1>1. todo[r] \in Seq(Calls) /\ todo[r] # <<>> /\ todo'[r] = Tail(todo[r])
  BY DEF Tidy, Inv, Typed
<1>2. PICK c \in Calls : c = Head(todo[r])
  BY <1>1, ElementsOfTail
<1>3. Elements(todo[r]) = {c} \cup Elements(todo'[r])
  BY <1>1, <1>2, ElementsOfTail
<1>4. Orderly(todo[r]) =>
        /\ Orderly(todo'[r])
        /\ c.op = "put_back" =>
             \A d \in Elements(todo'[r]) : d.name = c.name => d.op \notin {"unlink", "put_back"}
  BY <1>1, <1>2, OrderlyTail
<1>5. Carried(r, c) \/ ("undo" \in FaultySteps /\ UNCHANGED files)
  BY <1>2, ApplyCarries DEF Tidy, MayFail
<1> QED BY <1>3, <1>4, <1>5

LEMMA TidyUndone ==
  ASSUME "undo" \notin FaultySteps, Inv, InTurn, Undone, NEW r \in Runs, Tidy(r)
  PROVE  Undone'
<1>1. /\ pc[r] = "leaving" /\ Live(r)
      /\ UNCHANGED <<port, pid, pc, answer, before>>
  BY DEF Tidy, Live
<1>0. PICK c \in Calls :
        /\ Elements(todo[r]) = {c} \cup Elements(todo'[r])
        /\ Orderly(todo[r]) =>
             /\ Orderly(todo'[r])
             /\ c.op = "put_back" =>
                  \A d \in Elements(todo'[r]) : d.name = c.name => d.op \notin {"unlink", "put_back"}
        /\ Carried(r, c)
  BY TidyCall
<1>2. /\ Elements(todo[r]) = {c} \cup Elements(todo'[r])
      /\ Orderly(todo[r]) =>
           /\ Orderly(todo'[r])
           /\ c.op = "put_back" =>
                \A d \in Elements(todo'[r]) : d.name = c.name => d.op \notin {"unlink", "put_back"}
      /\ \A x \in (Pids \cup Runs) \ {Nonce(r)} : backup'[x] = backup[x]
      /\ \A n \in Names : n # c.name =>
           /\ target'[n] = target[n] /\ temp'[Nonce(r)][n] = temp[Nonce(r)][n]
           /\ backup'[Nonce(r)][n] = backup[Nonce(r)][n]
      /\ target'[c.name] =
           IF c.op = "unlink" THEN "none"
           ELSE IF c.op = "put_back" /\ backup[Nonce(r)][c.name] # "none"
                  THEN backup[Nonce(r)][c.name] ELSE target[c.name]
      /\ backup'[Nonce(r)][c.name] =
           IF c.op \in {"put_back", "drop"} THEN "none" ELSE backup[Nonce(r)][c.name]
      /\ temp'[Nonce(r)][c.name] =
           IF c.op = "sweep" THEN "none" ELSE temp[Nonce(r)][c.name]
  BY <1>0 DEF Carried
<1>3. Nonce(r)' = Nonce(r) /\ Shared(r)' = Shared(r)
  BY <1>1 DEF Nonce, Shared
<1>4. /\ c.op \in {"unlink", "put_back", "sweep", "drop"}
      /\ \A op, n : c = Call(op, n) <=> op = c.op /\ n = c.name
  BY CallsAreCalls DEF Calls
<1>5. \A op, n : Left(r, op, n) <=> Left(r, op, n)' \/ (op = c.op /\ n = c.name)
  BY <1>2, <1>4 DEF Left
<1>6. Restoring(r)'
  <2> SUFFICES ASSUME answer[r] = "failure"
               PROVE  /\ Orderly(todo'[r])
                      /\ \A n \in Names :
                         /\ ~Left(r, "drop", n)'
                         /\ Left(r, "unlink", n)' \/ Left(r, "put_back", n)' =>
                              target'[n] \in {"none", r}
                         /\ IF Left(r, "put_back", n)'
                              THEN backup'[Nonce(r)][n] = before[r][n] /\ before[r][n] # "none"
                              ELSE /\ backup'[Nonce(r)][n] = "none" \/ Shared(r)
                                   /\ before[r][n] = IF Left(r, "unlink", n)' THEN "none" ELSE target'[n]
    BY <1>1, <1>3 DEF Restoring
  <2>1. /\ Orderly(todo[r])
        /\ \A n \in Names :
           /\ ~Left(r, "drop", n)
           /\ Left(r, "unlink", n) \/ Left(r, "put_back", n) => target[n] \in {"none", r}
           /\ IF Left(r, "put_back", n)
                THEN backup[Nonce(r)][n] = before[r][n] /\ before[r][n] # "none"
                ELSE /\ backup[Nonce(r)][n] = "none" \/ Shared(r)
                     /\ before[r][n] = IF Left(r, "unlink", n) THEN "none" ELSE target[n]
    BY <1>1 DEF Undone, Restoring
  <2>2. c.op = "put_back" => ~Left(r, "unlink", c.name)' /\ ~Left(r, "put_back", c.name)'
    BY <1>2, <2>1 DEF Left, Call
  <2>3. ASSUME NEW n \in Names
        PROVE  /\ ~Left(r, "drop", n)'
               /\ Left(r, "unlink", n)' \/ Left(r, "put_back", n)' => target'[n] \in {"none", r}
               /\ IF Left(r, "put_back", n)'
                    THEN backup'[Nonce(r)][n] = before[r][n] /\ before[r][n] # "none"
                    ELSE /\ backup'[Nonce(r)][n] = "none" \/ Shared(r)
                         /\ before[r][n] = IF Left(r, "unlink", n)' THEN "none" ELSE target'[n]
    <3>1. CASE n # c.name
      <4>1. /\ Left(r, "drop", n)' <=> Left(r, "drop", n)
            /\ Left(r, "unlink", n)' <=> Left(r, "unlink", n)
            /\ Left(r, "put_back", n)' <=> Left(r, "put_back", n)
        BY <1>5, <3>1
      <4>2. target'[n] = target[n] /\ backup'[Nonce(r)][n] = backup[Nonce(r)][n]
        BY <1>2, <3>1
      <4> QED BY <2>1, <4>1, <4>2
    <3>2. CASE n = c.name /\ c.op = "unlink"
      <4>1. Left(r, "put_back", n)' <=> Left(r, "put_back", n)
        BY <1>5, <3>2
      <4>2. target'[n] = "none" /\ backup'[Nonce(r)][n] = backup[Nonce(r)][n]
        BY <1>2, <3>2
      <4>3. Left(r, "unlink", n) /\ ~Left(r, "drop", n)'
        BY <1>5, <2>1, <3>2
      <4> QED BY <2>1, <4>1, <4>2, <4>3
    <3>3. CASE n = c.name /\ c.op = "put_back"
      <4>1. Left(r, "put_back", n) /\ ~Left(r, "unlink", n)' /\ ~Left(r, "put_back", n)'
            /\ ~Left(r, "drop", n)'
        BY <1>5, <2>1, <2>2, <3>3
      <4>2. backup[Nonce(r)][n] = before[r][n] /\ before[r][n] # "none"
        BY <2>1, <4>1
      <4>3. target'[n] = before[r][n] /\ backup'[Nonce(r)][n] = "none"
        BY <1>2, <3>3, <4>2
      <4> QED BY <4>1, <4>3
    <3>4. CASE n = c.name /\ c.op \in {"sweep", "drop"}
      <4>1. c.op = "sweep"
        BY <1>5, <2>1, <3>4
      <4>2. /\ Left(r, "drop", n)' <=> Left(r, "drop", n)
            /\ Left(r, "unlink", n)' <=> Left(r, "unlink", n)
            /\ Left(r, "put_back", n)' <=> Left(r, "put_back", n)
        BY <1>5, <4>1
      <4>3. target'[n] = target[n] /\ backup'[Nonce(r)][n] = backup[Nonce(r)][n]
        BY <1>2, <3>4, <4>1
      <4> QED BY <2>1, <4>2, <4>3
    <3> QED BY <1>4, <3>1, <3>2, <3>3, <3>4
  <2> QED BY <1>2, <2>1, <2>3
<1>7. Tidying(r)'
  <2>1. /\ answer[r] # "none"
        /\ port[r] = "c" => \A n \in Names : temp[Nonce(r)][n] = "none" \/ Left(r, "sweep", n)
        /\ answer[r] = "success" => \A n \in Names : backup[Nonce(r)][n] = "none" \/ Left(r, "drop", n)
    BY <1>1 DEF Undone, Tidying
  <2>2. ASSUME NEW n \in Names, temp[Nonce(r)][n] = "none" \/ Left(r, "sweep", n)
        PROVE  temp'[Nonce(r)][n] = "none" \/ Left(r, "sweep", n)'
    BY <1>2, <1>5, <2>2
  <2>3. ASSUME NEW n \in Names, backup[Nonce(r)][n] = "none" \/ Left(r, "drop", n)
        PROVE  backup'[Nonce(r)][n] = "none" \/ Left(r, "drop", n)'
    BY <1>2, <1>5, <2>3
  <2> QED BY <1>1, <1>3, <2>1, <2>2, <2>3 DEF Tidying
<1>8. Holding(r)'
  BY <1>1 DEF Holding
<1> QED BY <1>1, <1>2, <1>6, <1>7, <1>8, OthersRest, StepUndone

\* A run returns when nothing is left to do.
LEMMA NothingLeftToDo ==
  ASSUME Inv, InTurn, Undone, NEW r \in Runs, pc[r] = "leaving", todo[r] = <<>>
  PROVE  /\ Clean(Nonce(r)) \/ Shared(r)
         /\ answer[r] = "failure" => target = before[r]
         /\ port[r] = "c" => \A n \in Names : temp[Nonce(r)][n] = "none"
<1>1. \A op, n : ~Left(r, op, n)
  BY ElementsOfFew DEF Left
<1>2. answer[r] \in {"success", "failure"}
  BY DEF Undone, Tidying, Inv, Typed
<1>3. port[r] = "c" => \A n \in Names : temp[Nonce(r)][n] = "none"
  BY <1>1 DEF Undone, Tidying
<1>4. CASE answer[r] = "success"
  BY <1>1, <1>3, <1>4 DEF Undone, Tidying, Clean
<1>5. CASE answer[r] = "failure"
  <2>1. \A n \in Names : /\ backup[Nonce(r)][n] = "none" \/ Shared(r)
                         /\ before[r][n] = target[n]
    BY <1>1, <1>5 DEF Undone, Restoring
  <2>2. target = before[r]
    <3>1. target \in [Names -> Contents] /\ before[r] \in [Names -> Contents]
      BY DEF Inv, Typed, InTurn, Files
    <3> QED BY <2>1, <3>1
  <2> QED BY <1>3, <2>1, <2>2 DEF Clean
<1> QED BY <1>2, <1>4, <1>5

LEMMA ReturnUndone ==
  ASSUME Inv, InTurn, Undone, NEW r \in Runs, Return(r)
  PROVE  Undone'
<1>1. /\ pc[r] = "leaving" /\ Live(r) /\ todo[r] = <<>> /\ UNCHANGED <<backup, port, pid>>
      /\ pc'[r] = "returned" /\ \A q \in Runs \ {r} : pc'[q] = pc[q]
  BY DEF Return, Live, files, Inv, Typed
<1>2. Clean(Nonce(r))' \/ Shared(r)
  BY <1>1, NothingLeftToDo DEF Clean, Nonce
<1>3. Restoring(r)' /\ Tidying(r)'
  BY <1>1 DEF Restoring, Tidying
<1> QED BY <1>1, <1>2, <1>3, OthersRest, StepUndone

LEMMA CrashUndone ==
  ASSUME Inv, InTurn, Undone, NEW r \in Runs, Crash(r)
  PROVE  Undone'
<1>1. /\ Live(r) /\ UNCHANGED <<backup, port, pid>>
      /\ pc'[r] = "crashed" /\ \A q \in Runs \ {r} : pc'[q] = pc[q]
  BY DEF Crash, Inv, Typed
<1> QED BY <1>1, ForwardUndone

LEMMA NextUndone ==
  ASSUME MAX_LIVE = 1, "undo" \notin FaultySteps, Inv, InTurn, Undone, [Next]_vars
  PROVE  Undone'
<1>1. CASE UNCHANGED vars
  <2>1. /\ \A q \in Runs : (Shared(q)' <=> Shared(q)) /\ Nonce(q)' = Nonce(q) /\ (Holding(q)' <=> Holding(q))
        /\ \A q \in Runs : \A op, n : Left(q, op, n)' <=> Left(q, op, n)
    BY <1>1 DEF vars, Shared, Nonce, Holding, Left
  <2>2. ASSUME NEW q \in Runs PROVE Restoring(q)' /\ Tidying(q)'
    BY <1>1, <2>1 DEF vars, Undone, Restoring, Tidying
  <2>3. Litter'
    BY <1>1, <2>1 DEF vars, Undone, Litter, Clean
  <2> QED BY <2>2, <2>3 DEF Undone
<1>2. ASSUME NEW r \in Runs,
             \/ Begin(r) \/ MakeParents(r) \/ Stage(r) \/ Look(r) \/ Move(r)
             \/ Install(r) \/ Tidy(r) \/ Return(r) \/ Crash(r)
      PROVE  Undone'
  BY <1>2, BeginUndone, MakeParentsUndone, StageUndone, LookUndone, MoveUndone,
     InstallUndone, TidyUndone, ReturnUndone, CrashUndone
<1> QED BY <1>1, <1>2 DEF Next, Done

LEMMA InitUndone == Init => Undone
BY DEF Init, Undone, Litter, Clean, Restoring, Tidying

\* At every step of a failing run, what the calls that are left put back is what
\* it found; files that were moved aside belong to a run under way or killed.
THEOREM AlwaysUndone ==
  ASSUME MAX_LIVE = 1, "undo" \notin FaultySteps PROVE Spec => []Undone
<1>1. Inv /\ InTurn /\ Undone /\ [Next]_vars => Undone'
  BY NextUndone
<1> QED BY <1>1, InitUndone, Always, AlwaysInTurn, PTL DEF Spec

\* Only a run that has nothing left to do returns.
LEMMA ReturnsLast ==
  ASSUME Inv, [Next]_vars, NEW r \in Runs, pc[r] # "returned", pc'[r] = "returned"
  PROVE  Return(r)
<1>1. PICK q \in Runs :
        \/ Begin(q) \/ MakeParents(q) \/ Stage(q) \/ Look(q) \/ Move(q)
        \/ Install(q) \/ Tidy(q) \/ Return(q) \/ Crash(q)
  BY DEF Next, Done, vars
<1>2. pc \in [Runs -> PCs]
  BY DEF Inv, Typed
<1>3. ASSUME NEW step, step # "returned", pc' = [pc EXCEPT ![q] = step] PROVE FALSE
  BY <1>2, <1>3
<1>4. ~AfterMove(q)
  BY <1>3 DEF AfterMove, Proceed
<1>5. ~Fail(q)
  BY <1>3 DEF Fail, Leave
<1>6. ~Begin(q) /\ ~MakeParents(q) /\ ~Stage(q) /\ ~Look(q) /\ ~Move(q) /\ ~Install(q) /\ ~Tidy(q)
      /\ ~Crash(q)
  BY <1>3, <1>4, <1>5
     DEF Begin, MakeParents, Stage, Look, Move, Install, Tidy, Crash, Proceed, Leave
<1>7. Return(q) /\ q = r
  BY <1>1, <1>2, <1>6 DEF Return
<1> QED BY <1>7

\* A compilation that fails puts both outputs back as it found them, no mixture of old
\* and new and nothing missing, whichever step failed; when its undo works.
THEOREM FailureRestores ==
  ASSUME MAX_LIVE = 1, "undo" \notin FaultySteps PROVE Spec => FailureLeavesOutputs
<1>1. Inv /\ InTurn /\ Undone /\ [Next]_vars =>
        [\A r \in Runs : pc[r] = "leaving" /\ pc'[r] = "returned" /\ answer[r] = "failure" =>
            target = before[r]]_vars
  <2> SUFFICES ASSUME Inv, InTurn, Undone, [Next]_vars,
                      NEW r \in Runs, pc[r] = "leaving", pc'[r] = "returned", answer[r] = "failure"
               PROVE  target = before[r]
    OBVIOUS
  <2>1. todo[r] = <<>>
    BY ReturnsLast DEF Return
  <2> QED BY <2>1, NothingLeftToDo
<1> QED BY <1>1, Always, AlwaysInTurn, AlwaysUndone, PTL DEF Spec, FailureLeavesOutputs
-----------------------------------------------------------------------------
(* What a run leaves behind                                                  *)

\* One of the steps of a run.
Step(r) ==
  \/ Begin(r) \/ MakeParents(r) \/ Stage(r) \/ Look(r) \/ Move(r)
  \/ Install(r) \/ Tidy(r) \/ Return(r) \/ Crash(r)

\* A step of a run moves that run alone, and files of its own nonce alone.
LEMMA StepOfItsOwn ==
  ASSUME Inv, NEW r \in Runs, Step(r)
  PROVE  /\ UNCHANGED <<port, pid>>
         /\ pc[r] \notin {"returned", "crashed"}
         /\ \A q \in Runs \ {r} : pc'[q] = pc[q] /\ answer'[q] = answer[q]
         /\ pc[r] # "idle" => before' = before
         /\ \A x \in (Pids \cup Runs) \ {Nonce(r)} : temp'[x] = temp[x] /\ backup'[x] = backup[x]
<1> DEFINE Mine == /\ \A q \in Runs \ {r} : pc'[q] = pc[q] /\ answer'[q] = answer[q]
           Files1 == \A x \in (Pids \cup Runs) \ {Nonce(r)} : temp'[x] = temp[x] /\ backup'[x] = backup[x]
<1>1. /\ pc \in [Runs -> PCs] /\ answer \in [Runs -> {"none", "success", "failure"}]
      /\ temp \in [Pids \cup Runs -> Files] /\ backup \in [Pids \cup Runs -> Files]
      /\ Nonce(r) \in Pids \cup Runs
  BY NonceType DEF Inv, Typed
<1>2. ASSUME NEW step, NEW name, Proceed(r, step, name) PROVE Mine
  BY <1>1, <1>2 DEF Proceed
<1>3. ASSUME NEW result, NEW calls, Leave(r, result, calls) PROVE Mine
  BY <1>1, <1>3 DEF Leave
<1>4. ASSUME Fail(r) PROVE Mine
  BY <1>3, <1>4 DEF Fail
<1>5. ASSUME AfterMove(r) PROVE Mine
  BY <1>2, <1>5 DEF AfterMove
<1>6. ASSUME NEW content, NEW n, temp' = [temp EXCEPT ![Nonce(r)][n] = content]
      PROVE  \A x \in (Pids \cup Runs) \ {Nonce(r)} : temp'[x] = temp[x]
  BY <1>1, <1>6
<1>7. ASSUME NEW content, NEW n, backup' = [backup EXCEPT ![Nonce(r)][n] = content]
      PROVE  \A x \in (Pids \cup Runs) \ {Nonce(r)} : backup'[x] = backup[x]
  BY <1>1, <1>7
<1> HIDE DEF Mine
<1>8. CASE Begin(r)
  <2>1. Mine
    BY <1>2, <1>8 DEF Begin
  <2> QED BY <1>8, <2>1 DEF Begin, Mine, files
<1>9. CASE MakeParents(r)
  <2>1. Mine
    BY <1>2, <1>4, <1>9 DEF MakeParents
  <2>2. Files1
    BY <1>1, <1>9 DEF MakeParents, Nonce
  <2> QED BY <1>9, <2>1, <2>2 DEF MakeParents, Mine
<1>10. CASE Stage(r)
  <2>1. Mine
    BY <1>2, <1>4, <1>10 DEF Stage
  <2>2. Files1
    BY <1>6, <1>10 DEF Stage
  <2> QED BY <1>10, <2>1, <2>2 DEF Stage, Mine
<1>11. CASE Look(r)
  <2>1. Mine
    BY <1>2, <1>4, <1>5, <1>11 DEF Look
  <2> QED BY <1>11, <2>1 DEF Look, Mine, files
<1>12. CASE Move(r)
  <2>1. Mine
    BY <1>4, <1>5, <1>12 DEF Move
  <2>2. Files1
    BY <1>7, <1>12 DEF Move
  <2> QED BY <1>12, <2>1, <2>2 DEF Move, Mine
<1>13. CASE Install(r)
  <2>1. Mine
    BY <1>2, <1>3, <1>4, <1>13 DEF Install
  <2>2. Files1
    BY <1>6, <1>13 DEF Install
  <2> QED BY <1>13, <2>1, <2>2 DEF Install, Mine
<1>14. CASE Tidy(r)
  <2>1. Files1
    <3>1. CASE UNCHANGED files
      BY <3>1 DEF files
    <3>2. CASE ~UNCHANGED files
      BY <1>14, <3>2, TidyCall DEF Carried
    <3> QED BY <3>1, <3>2
  <2> QED BY <1>14, <2>1 DEF Tidy
<1>15. CASE Return(r)
  BY <1>1, <1>15 DEF Return, files
<1>16. CASE Crash(r)
  <2>1. Files1
    BY <1>6, <1>16 DEF Crash
  <2> QED BY <1>1, <1>16, <2>1 DEF Crash, Live
<1> QED BY <1>8, <1>9, <1>10, <1>11, <1>12, <1>13, <1>14, <1>15, <1>16 DEF Step

\* No run is idle again.
LEMMA NeverIdleAgain ==
  ASSUME Inv, NEW r \in Runs, Step(r)
  PROVE  pc'[r] # "idle"
<1>1. pc \in [Runs -> PCs]
  BY DEF Inv, Typed
<1>2. ASSUME NEW step, step # "idle", pc' = [pc EXCEPT ![r] = step] PROVE pc'[r] # "idle"
  BY <1>1, <1>2
<1>3. Fail(r) => pc'[r] # "idle"
  BY <1>2 DEF Fail, Leave
<1>4. AfterMove(r) => pc'[r] # "idle"
  BY <1>2 DEF AfterMove, Proceed
<1> QED
  BY <1>2, <1>3, <1>4
     DEF Step, Begin, MakeParents, Stage, Look, Move, Install, Tidy, Return, Crash, Proceed, Leave

\* The nonce of a C run is its process number; no Rust run has it.
LEMMA OwnNumber ==
  ASSUME Inv, NEW r \in Runs, port[r] = "c", \A q \in Runs \ {r} : pid[q] # pid[r],
         NEW q \in Runs \ {r}
  PROVE  Nonce(q) # Nonce(r)
BY NoncesAssumption DEF Nonce, Inv, Typed

\* A C run that has returned has removed its temporaries and put back or dropped
\* the files it moved aside, whatever failed; when its undo works.
THEOREM LeavesNothing ==
  ASSUME MAX_LIVE = 1, "undo" \notin FaultySteps PROVE Spec => []NothingLeftBehind
<1>1. Init => NothingLeftBehind
  BY DEF Init, NothingLeftBehind
<1>2. Inv /\ InTurn /\ Undone /\ NothingLeftBehind /\ [Next]_vars => NothingLeftBehind'
  <2> SUFFICES ASSUME Inv, InTurn, Undone, NothingLeftBehind, [Next]_vars,
                      NEW r \in Runs, pc'[r] = "returned", port'[r] = "c",
                      \A q \in Runs \ {r} : pid'[q] # pid'[r],
                      NEW n \in Names
               PROVE  (temp[Nonce(r)][n] = "none" /\ backup[Nonce(r)][n] = "none")'
    BY DEF NothingLeftBehind
  <2>1. CASE UNCHANGED vars
    BY <2>1 DEF vars, NothingLeftBehind, Nonce
  <2>2. ASSUME NEW q \in Runs, Step(q)
        PROVE  (temp[Nonce(r)][n] = "none" /\ backup[Nonce(r)][n] = "none")'
    <3>1. /\ UNCHANGED <<port, pid>>
          /\ \A x \in (Pids \cup Runs) \ {Nonce(q)} : temp'[x] = temp[x] /\ backup'[x] = backup[x]
          /\ q # r => pc'[r] = pc[r]
          /\ pc[q] # "returned"
      BY <2>2, StepOfItsOwn
    <3>2. Nonce(r)' = Nonce(r) /\ Nonce(r) \in Pids \cup Runs
      BY <3>1, NonceType DEF Nonce, Inv
    <3>3. \A s \in Runs \ {r} : Nonce(s) # Nonce(r)
      BY <3>1, OwnNumber
    <3>4. CASE q # r
      <4>1. temp[Nonce(r)][n] = "none" /\ backup[Nonce(r)][n] = "none"
        BY <3>1, <3>4 DEF NothingLeftBehind
      <4>2. Nonce(r) # Nonce(q)
        BY <3>3, <3>4
      <4> QED BY <3>1, <3>2, <4>1, <4>2
    <3>5. CASE q = r
      <4>1. Return(r)
        BY <3>1, <3>5, ReturnsLast
      <4>2. ~Shared(r)
        BY <3>3 DEF Shared
      <4>3. temp[Nonce(r)][n] = "none" /\ backup[Nonce(r)][n] = "none"
        BY <3>1, <4>1, <4>2, NothingLeftToDo DEF Return, Clean
      <4> QED BY <3>2, <4>1, <4>3 DEF Return, files
    <3> QED BY <3>4, <3>5
  <2> QED BY <2>1, <2>2 DEF Next, Done, Step
<1> QED BY <1>1, <1>2, Always, AlwaysInTurn, AlwaysUndone, PTL DEF Spec
-----------------------------------------------------------------------------
(* Nothing is lost                                                           *)

OnDisk(v, n) == v = target[n] \/ \E x \in Pids \cup Runs : backup[x][n] = v

\* Nobody has found the output of a run that is not over, and it is at no path
\* before the run starts.
Fresh ==
  \A r \in Runs :
    /\ pc[r] = "idle" => \A n \in Names : target[n] # r
    /\ pc[r] = "idle" \/ Live(r) => \A q \in Runs : \A n \in Names : before[q][n] # r

\* What was found is on disk: NothingLost, in the terms of the proof.
Kept == \A q \in Runs : pc[q] # "idle" =>
          \A n \in Names : before[q][n] = "none" \/ OnDisk(before[q][n], n)

LEMMA KeptIsNothingLost ==
  ASSUME Inv
  PROVE  NothingLost <=> (\E q \in Runs : Succeeded(q)) \/ NumberReused \/ Kept
<1>1. DOMAIN backup = Pids \cup Runs
  BY DEF Inv, Typed
<1>2. \A q \in Runs : \A n \in Names :
        before[q][n] \in {"none", target[n]} \cup {backup[x][n] : x \in DOMAIN backup}
          <=> before[q][n] = "none" \/ OnDisk(before[q][n], n)
  BY <1>1 DEF OnDisk
<1> QED BY <1>2 DEF NothingLost, Kept

\* Success is not taken back, nor is the number of a killed process used by none.
LEMMA Monotone ==
  ASSUME Inv, InTurn, NEW r \in Runs, Step(r)
  PROVE  /\ (\E q \in Runs : Succeeded(q)) => (\E q \in Runs : Succeeded(q)')
         /\ NumberReused => NumberReused'
<1>1. /\ UNCHANGED <<port, pid>>
      /\ pc[r] \notin {"returned", "crashed"}
      /\ \A q \in Runs \ {r} : pc'[q] = pc[q] /\ answer'[q] = answer[q]
  BY StepOfItsOwn
<1>2. \A q \in Runs : pc[q] # "idle" => pc'[q] # "idle"
  BY <1>1, NeverIdleAgain
<1>3. answer[r] = "success" => answer'[r] = "success"
  <2>1. answer[r] # "none" => pc[r] = "leaving"
    BY <1>1 DEF InTurn, Position
  <2>2. pc[r] = "leaving" => answer' = answer
    BY DEF Step, Begin, MakeParents, Stage, Look, Move, Install, Tidy, Return, Crash
  <2> QED BY <2>1, <2>2
<1>4. (\E q \in Runs : Succeeded(q)) => (\E q \in Runs : Succeeded(q)')
  BY <1>1, <1>3 DEF Succeeded
<1>5. NumberReused => NumberReused'
  BY <1>1, <1>2 DEF NumberReused
<1> QED BY <1>4, <1>5

\* A step that loses nothing but what the run itself has put there.
LEMMA StillThere ==
  ASSUME Inv, InTurn, Fresh, Kept, NEW r \in Runs, Live(r), Step(r),
         \A n \in Names : \A v : OnDisk(v, n) => v \in {"none", r} \/ OnDisk(v, n)'
  PROVE  Kept'
<1>1. /\ before' = before /\ \A q \in Runs : pc'[q] # "idle" => pc[q] # "idle"
  BY StepOfItsOwn DEF Live
<1>2. \A q \in Runs : \A n \in Names : before[q][n] # r
  BY DEF Fresh
<1>3. ASSUME NEW q \in Runs, pc'[q] # "idle", NEW n \in Names, NEW v, v = before'[q][n]
      PROVE  v = "none" \/ OnDisk(v, n)'
  <2>1. v = "none" \/ OnDisk(v, n)
    BY <1>1, <1>3 DEF Kept
  <2> QED BY <1>1, <1>2, <1>3, <2>1
<1> QED BY <1>3 DEF Kept

\* Fresh stays: target and the notes hold no output of a run that is not over.
LEMMA StepFresh ==
  ASSUME Inv, InTurn, Fresh, NEW r \in Runs, Step(r), pc[r] # "idle",
         \A n \in Names : \A q \in Runs : target'[n] = q => q = r \/ target[n] = q \/ \E p \in Runs : before[p][n] = q
  PROVE  Fresh'
<1>1. /\ before' = before /\ pc'[r] # "idle" /\ Live(r)
      /\ \A q \in Runs \ {r} : pc'[q] = pc[q]
  BY StepOfItsOwn, NeverIdleAgain DEF Live
<1>2. \A q \in Runs : /\ pc'[q] = "idle" => pc[q] = "idle" /\ q # r
                      /\ pc'[q] = "idle" \/ Live(q)' => pc[q] = "idle" \/ Live(q)
  BY <1>1 DEF Live
<1> QED BY <1>1, <1>2 DEF Fresh

LEMMA BeginFresh ==
  ASSUME MAX_LIVE = 1, Inv, InTurn, Fresh, NEW r \in Runs, Begin(r)
  PROVE  Fresh'
<1>1. /\ pc[r] = "idle" /\ before' = [before EXCEPT ![r] = target] /\ target' = target
  BY DEF Begin, files
<1>2. pc'[r] # "idle" /\ \A q \in Runs \ {r} : pc'[q] = pc[q]
  BY StepOfItsOwn, NeverIdleAgain DEF Step
<1>3. \A q \in Runs : ~Live(q)
  BY NobodyLive DEF Begin, InTurn
<1>4. \A q \in Runs : pc'[q] = "idle" \/ Live(q)' => pc[q] = "idle"
  BY <1>1, <1>2, <1>3 DEF Live
<1>5. /\ before'[r] = target /\ \A q \in Runs \ {r} : before'[q] = before[q]
  BY <1>1 DEF InTurn
<1> QED BY <1>1, <1>2, <1>4, <1>5 DEF Fresh

LEMMA BeginKept ==
  ASSUME Inv, InTurn, Kept, NEW r \in Runs, Begin(r)
  PROVE  Kept'
<1>1. /\ before' = [before EXCEPT ![r] = target] /\ UNCHANGED <<target, backup>>
      /\ \A q \in Runs \ {r} : pc'[q] = pc[q]
  BY StepOfItsOwn DEF Begin, files, Step
<1>2. /\ before'[r] = target /\ \A q \in Runs \ {r} : before'[q] = before[q]
  BY <1>1 DEF InTurn
<1>3. ASSUME NEW q \in Runs, pc'[q] # "idle", NEW n \in Names, NEW v, v = before'[q][n]
      PROVE  v = "none" \/ OnDisk(v, n)'
  <2>1. CASE q = r
    BY <1>1, <1>2, <1>3, <2>1 DEF OnDisk
  <2>2. CASE q # r
    <3>1. v = "none" \/ OnDisk(v, n)
      BY <1>1, <1>2, <1>3, <2>2 DEF Kept
    <3> QED BY <1>1, <3>1 DEF OnDisk
  <2> QED BY <2>1, <2>2
<1> QED BY <1>3 DEF Kept

\* What one of the steps takes off the disk, while no run has succeeded and no process
\* number is used again.
Loses(r) == \A n \in Names : \A v : OnDisk(v, n) => v \in {"none", r} \/ OnDisk(v, n)'
Brings(r) == \A n \in Names : \A q \in Runs :
               target'[n] = q => q = r \/ target[n] = q \/ \E p \in Runs : before[p][n] = q

LEMMA SameFiles ==
  ASSUME NEW r \in Runs, UNCHANGED <<target, backup>>
  PROVE  Loses(r) /\ Brings(r)
BY DEF Loses, Brings, OnDisk

LEMMA MakeParentsLoses ==
  ASSUME Inv, InTurn, Undone, NEW r \in Runs, MakeParents(r)
  PROVE  Brings(r) /\ (NumberReused' \/ Loses(r))
<1>1. pc[r] = "parents" /\ Live(r) /\ UNCHANGED <<target, port, pid>>
  BY DEF MakeParents, Live
<1>2. \/ UNCHANGED backup
      \/ port[r] = "c" /\ backup' = [backup EXCEPT ![pid[r]] = [n \in Names |-> "none"]]
  BY DEF MakeParents
<1>3. CASE UNCHANGED backup
  BY <1>1, <1>3, SameFiles
<1>4. CASE port[r] = "c" /\ backup' = [backup EXCEPT ![pid[r]] = [n \in Names |-> "none"]]
  <2>1. Nonce(r) = pid[r] /\ pid[r] \in Pids
    BY <1>4 DEF Nonce, Inv, Typed
  <2>2. \A x \in (Pids \cup Runs) \ {pid[r]} : backup'[x] = backup[x]
    BY <1>4 DEF Inv, Typed
  <2>3. CASE Clean(pid[r])
    BY <1>1, <2>1, <2>2, <2>3 DEF Loses, Brings, OnDisk, Clean
  <2>4. CASE ~Clean(pid[r])
    <3>1. PICK q \in Runs : Nonce(q) = pid[r] /\ Holding(q)
      BY <2>1, <2>4 DEF Undone, Litter
    <3>2. q # r /\ pc[q] = "crashed"
      BY <1>1, <3>1, OthersRest DEF Holding, Live
    <3>3. port[q] = "c" /\ pid[q] = pid[r]
      BY <2>1, <3>1, NoncesAssumption DEF Nonce
    <3>4. pc'[q] = "crashed" /\ pc'[r] # "idle"
      BY <3>2, StepOfItsOwn, NeverIdleAgain DEF Step
    <3>5. NumberReused'
      BY <1>1, <1>4, <3>2, <3>3, <3>4 DEF NumberReused
    <3> QED BY <1>1, <3>5 DEF Brings
  <2> QED BY <2>3, <2>4
<1> QED BY <1>2, <1>3, <1>4

LEMMA MoveLoses ==
  ASSUME Inv, InTurn, NEW r \in Runs, Move(r)
  PROVE  Loses(r) /\ Brings(r)
<1>1. CASE UNCHANGED <<target, backup>>
  BY <1>1, SameFiles
<1>2. CASE /\ target' = [target EXCEPT ![on[r]] = "none"]
           /\ backup' = [backup EXCEPT ![Nonce(r)][on[r]] = target[on[r]]]
  <2>1. /\ on[r] \in Names /\ Nonce(r) \in Pids \cup Runs
        /\ pc[r] = "move"
    BY NonceType DEF Inv, Typed, Move
  <2>2. backup[Nonce(r)][on[r]] = "none"
    BY <2>1 DEF InTurn, Position, Untouched, Names
  <2>3. target'[on[r]] = "none" /\ \A n \in Names \ {on[r]} : target'[n] = target[n]
    BY <1>2, <2>1 DEF Inv, Typed, Files
  <2>4. /\ backup'[Nonce(r)][on[r]] = target[on[r]]
        /\ \A n \in Names \ {on[r]} : backup'[Nonce(r)][n] = backup[Nonce(r)][n]
        /\ \A x \in (Pids \cup Runs) \ {Nonce(r)} : backup'[x] = backup[x]
    BY <1>2, <2>1, SetEntry DEF Inv, Typed, Files
  <2>5. \A n \in Names : \A x \in Pids \cup Runs :
          backup'[x][n] = backup[x][n] \/ (x = Nonce(r) /\ n = on[r])
    BY <2>4
  <2>6. ASSUME NEW n \in Names, NEW v, OnDisk(v, n)
        PROVE  v \in {"none", r} \/ OnDisk(v, n)'
    <3>1. CASE v = target[n]
      BY <2>1, <2>3, <2>4, <3>1 DEF OnDisk
    <3>2. ASSUME NEW x \in Pids \cup Runs, backup[x][n] = v
          PROVE  v \in {"none", r} \/ OnDisk(v, n)'
      BY <2>2, <2>5, <3>2 DEF OnDisk
    <3> QED BY <2>6, <3>1, <3>2 DEF OnDisk
  <2>7. Brings(r)
    BY <2>3, RunsAssumption DEF Brings
  <2> QED BY <2>6, <2>7 DEF Loses
<1> QED BY <1>1, <1>2 DEF Move

LEMMA InstallLoses ==
  ASSUME Inv, InTurn, NEW r \in Runs, Install(r)
  PROVE  Brings(r) /\ (Succeeded(r)' \/ Loses(r))
<1>1. /\ pc[r] = "install" /\ UNCHANGED backup
      /\ on[r] \in Names /\ temp[Nonce(r)][on[r]] = r
  BY DEF Install, Inv, Typed, Staged
<1>2. CASE UNCHANGED target
  BY <1>1, <1>2, SameFiles
<1>3. CASE /\ target' = [target EXCEPT ![on[r]] = temp[Nonce(r)][on[r]]]
           /\ IF on[r] = "header" THEN TRUE
              ELSE Leave(r, "success", <<Call("drop", "header"), Call("drop", "binary")>>
                                       \o IF port[r] = "c" THEN SweepBoth ELSE <<>>)
  <2>1. target'[on[r]] = r /\ \A n \in Names \ {on[r]} : target'[n] = target[n]
    BY <1>1, <1>3 DEF Inv, Typed, Files
  <2>2. Brings(r)
    BY <2>1 DEF Brings
  <2>3. CASE on[r] = "header"
    <3>1. target["header"] = "none"
      BY <1>1, <2>3 DEF InTurn, Position, Aside
    <3>2. Loses(r)
      BY <1>1, <2>1, <2>3, <3>1 DEF Loses, OnDisk
    <3> QED BY <2>2, <3>2
  <2>4. CASE on[r] # "header"
    <3>1. answer'[r] = "success"
      BY <1>3, <2>4 DEF Leave, Inv, Typed
    <3> QED BY <2>2, <3>1 DEF Succeeded
  <2> QED BY <2>3, <2>4
<1> QED BY <1>2, <1>3 DEF Install

LEMMA TidyLoses ==
  ASSUME "undo" \notin FaultySteps, Inv, InTurn, Undone, NEW r \in Runs, Tidy(r)
  PROVE  Succeeded(r) \/ (Loses(r) /\ Brings(r))
<1>1. pc[r] = "leaving" /\ answer[r] \in {"success", "failure"}
  BY DEF Tidy, Undone, Tidying, Inv, Typed
<1>2. PICK c \in Calls : Elements(todo[r]) = {c} \cup Elements(todo'[r]) /\ Carried(r, c)
  BY TidyCall
<1> DEFINE x == Nonce(r)
           n == c.name
<1>3. /\ c.op \in {"unlink", "put_back", "sweep", "drop"} /\ c = Call(c.op, n)
      /\ n \in Names /\ x \in Pids \cup Runs
  BY CallsAreCalls, NonceType DEF Calls, Inv
<1>4. Left(r, c.op, n)
  BY <1>2, <1>3 DEF Left
<1>5. /\ \A y \in (Pids \cup Runs) \ {x} : backup'[y] = backup[y]
      /\ \A m \in Names : m # n => target'[m] = target[m] /\ backup'[x][m] = backup[x][m]
      /\ target'[n] = IF c.op = "unlink" THEN "none"
                      ELSE IF c.op = "put_back" /\ backup[x][n] # "none"
                             THEN backup[x][n] ELSE target[n]
      /\ backup'[x][n] = IF c.op \in {"put_back", "drop"} THEN "none" ELSE backup[x][n]
  BY <1>2 DEF Carried
<1> SUFFICES ASSUME answer[r] = "failure" PROVE Loses(r) /\ Brings(r)
  BY <1>1 DEF Succeeded
<1>6. /\ c.op # "drop"
      /\ c.op \in {"unlink", "put_back"} => target[n] \in {"none", r}
      /\ c.op = "put_back" => backup[x][n] = before[r][n] /\ before[r][n] # "none"
  BY <1>1, <1>3, <1>4 DEF Undone, Restoring
<1> HIDE DEF x, n
<1>7. ASSUME NEW m \in Names, NEW v, OnDisk(v, m)
      PROVE  v \in {"none", r} \/ OnDisk(v, m)'
  <2>1. CASE m # n
    <3>1. target'[m] = target[m] /\ \A y \in Pids \cup Runs : backup'[y][m] = backup[y][m]
      BY <1>5, <2>1
    <3> QED BY <1>7, <3>1 DEF OnDisk
  <2>2. CASE m = n
    <3>1. CASE v = target[m]
      BY <1>3, <1>5, <1>6, <2>2, <3>1 DEF OnDisk
    <3>2. ASSUME NEW y \in Pids \cup Runs, backup[y][m] = v
          PROVE  v \in {"none", r} \/ OnDisk(v, m)'
      BY <1>3, <1>5, <1>6, <2>2, <3>2 DEF OnDisk
    <3> QED BY <1>7, <3>1, <3>2 DEF OnDisk
  <2> QED BY <2>1, <2>2
<1>8. ASSUME NEW m \in Names, NEW q \in Runs, target'[m] = q
      PROVE  q = r \/ target[m] = q \/ \E p \in Runs : before[p][m] = q
  <2>1. q # "none"
    BY RunsAssumption
  <2> QED BY <1>3, <1>5, <1>6, <1>8, <2>1
<1> QED BY <1>7, <1>8 DEF Loses, Brings

\* What a run found stays on disk until a run succeeds.
StillKept == (\E q \in Runs : Succeeded(q)) \/ NumberReused \/ (Fresh /\ Kept)

LEMMA StepKeeps ==
  ASSUME MAX_LIVE = 1, "undo" \notin FaultySteps, Inv, InTurn, Undone, StillKept,
         NEW r \in Runs, Step(r)
  PROVE  StillKept'
<1>1. CASE (\E q \in Runs : Succeeded(q)) \/ NumberReused
  BY <1>1, Monotone DEF StillKept
<1> SUFFICES ASSUME Fresh, Kept, ~\E q \in Runs : Succeeded(q) PROVE StillKept'
  BY <1>1 DEF StillKept
<1>2. CASE Begin(r)
  BY <1>2, BeginFresh, BeginKept DEF StillKept
<1>3. ASSUME ~Begin(r) PROVE (Brings(r) /\ Loses(r)) \/ Succeeded(r)' \/ NumberReused'
  <2>1. CASE MakeParents(r)
    BY <2>1, MakeParentsLoses
  <2>2. CASE Move(r)
    BY <2>2, MoveLoses
  <2>3. CASE Install(r)
    BY <2>3, InstallLoses
  <2>4. CASE Tidy(r)
    BY <2>4, TidyLoses
  <2>5. CASE Stage(r) \/ Look(r) \/ Return(r) \/ Crash(r)
    BY <2>5, SameFiles DEF Stage, Look, Return, Crash, files
  <2> QED BY <1>3, <2>1, <2>2, <2>3, <2>4, <2>5 DEF Step
<1>4. ASSUME ~Begin(r) PROVE pc[r] # "idle" /\ Live(r)
  BY <1>4 DEF Step, MakeParents, Stage, Look, Move, Install, Tidy, Return, Crash, Live
<1>5. CASE ~Begin(r)
  <2>1. CASE Brings(r) /\ Loses(r)
    <3>1. Fresh'
      BY <1>4, <1>5, <2>1, StepFresh DEF Brings
    <3>2. Kept'
      BY <1>4, <1>5, <2>1, StillThere DEF Loses
    <3> QED BY <3>1, <3>2 DEF StillKept
  <2> QED BY <1>3, <1>5, <2>1 DEF StillKept
<1> QED BY <1>2, <1>5

\* What a run found is on disk, at its path or aside, until some run has installed
\* both of its own files: also when any call failed, or the process was killed between
\* any two.
THEOREM LosesNothing ==
  ASSUME MAX_LIVE = 1, "undo" \notin FaultySteps PROVE Spec => []NothingLost
<1>1. Init => StillKept
  <2> SUFFICES ASSUME Init PROVE Fresh /\ Kept
    BY DEF StillKept
  <2>1. \A r \in Runs : r \notin Found
    BY FoundAssumption, RunsAssumption
  <2>2. \A n \in Names : target[n] \in Found
    BY DEF Init
  <2>3. \A q \in Runs : before[q] = target /\ pc[q] = "idle"
    BY DEF Init
  <2> QED BY <2>1, <2>2, <2>3 DEF Fresh, Kept
<1>2. Inv /\ InTurn /\ Undone /\ StillKept /\ [Next]_vars => StillKept'
  <2>1. ASSUME UNCHANGED vars, StillKept PROVE StillKept'
    BY <2>1 DEF vars, StillKept, Succeeded, NumberReused, Fresh, Kept, Live, OnDisk
  <2> QED BY <2>1, StepKeeps DEF Next, Done, Step
<1>3. Inv /\ StillKept => NothingLost
  BY KeptIsNothingLost DEF StillKept
<1> QED BY <1>1, <1>2, <1>3, Always, AlwaysInTurn, AlwaysUndone, PTL DEF Spec
=============================================================================
