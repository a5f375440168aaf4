---------------------------- MODULE Operations_proofs ----------------------------
(* What Operations.tla claims of the record of a submission and of its clicks, *)
(* and, behind it, Candidates.tla of the list of what waits for a person,      *)
(* proved for any number of operations, processes and posts.                   *)
(*                                                                             *)
(* The two claims rest on each other's reason: an operation whose attempt is   *)
(* open or scheduled is the only one of its post (OneOpenAttempt), because a   *)
(* new one may arm only after the journal was read with none such; and a click *)
(* leaves its attempt open or scheduled for ever (ClickIsKept).                *)
EXTENDS Operations, PartCandidates, FiniteSetTheorems, SequenceTheorems, TLAPS

Rows == {"none", "prepared", "ambiguous", "submitted", "scheduled", "failed"}
Stages == {"none", "queued", "approved", "armed", "returned"}
Record == [status : Statuses, worker : Nat, result : BOOLEAN, lost : BOOLEAN,
           row : Rows, clicked : BOOLEAN, remote : BOOLEAN]

Typed ==
    /\ boot \in Nat \ {0} /\ gate \in BOOLEAN /\ torn \in BOOLEAN
    /\ ops \in Seq(Record) /\ stage \in Stages
    /\ task \in 0..Len(ops) /\ (task = 0 <=> stage = "none")
    /\ \A o \in 1..Len(ops) : ops[o].worker \in 1..boot

\* The operation of the task is the last one, runs, and is of this process.
TaskRuns == task # 0 =>
    /\ task = Len(ops)
    /\ ops[task].status = "running" /\ ops[task].worker = boot /\ ~ops[task].lost

\* How far the attempt of the task is.
TaskStage ==
    /\ stage = "queued" => ops[task].row = "none"
    /\ stage = "approved" => ops[task].row \in {"none", "prepared"}
    /\ stage = "armed" => ops[task].row = "ambiguous"

InForce(o) == ops[o].row \in Blocking \/ ops[o].row = "scheduled"

\* At most one attempt of the post is open or scheduled, and none is while the
\* task has read the journal and not written to it.
OneOpenAttempt ==
    /\ \A o, p \in 1..Len(ops) : InForce(o) /\ InForce(p) => o = p
    /\ stage = "approved" /\ ops[task].row = "none" => \A o \in 1..Len(ops) : ~InForce(o)

\* A click stays on record, and what the record says of it was accepted.
ClickIsKept == \A o \in 1..Len(ops) :
    /\ ops[o].clicked => ops[o].row \in {"ambiguous", "submitted", "scheduled"}
    /\ ops[o].row \in {"submitted", "scheduled"} => ops[o].remote

Told == \A o \in 1..Len(ops) :
    /\ ops[o].status = "failed" => ~ops[o].clicked \/ torn
    /\ ops[o].status = "succeeded" => ops[o].row = "scheduled" /\ ops[o].remote
    /\ ops[o].status = "running" /\ ops[o].worker = boot /\ ~ops[o].lost => o = task

IInv == Typed /\ TaskRuns /\ TaskStage /\ OneOpenAttempt /\ ClickIsKept /\ Told
--------------------------------------------------------------------------------
(* What the records are after one of them changed. *)

\* Only record o changed, and it keeps what no action ever changes.
OnlyOne(o) ==
    /\ ops' \in Seq(Record) /\ Len(ops') = Len(ops)
    /\ ops'[o].worker = ops[o].worker
    /\ \A p \in 1..Len(ops) : p # o => ops'[p] = ops[p]

LEMMA OneRecord ==
    ASSUME NEW s \in Seq(Record), NEW o \in 1..Len(s), NEW r \in Record
    PROVE  LET t == [s EXCEPT ![o] = r] IN
           /\ t \in Seq(Record) /\ Len(t) = Len(s) /\ t[o] = r
           /\ \A p \in 1..Len(s) : p # o => t[p] = s[p]
OBVIOUS

LEMMA TaskIsRecord ==
    ASSUME Typed, task # 0
    PROVE  task \in 1..Len(ops) /\ ops[task] \in Record
BY DEF Typed

LEMMA RowStep ==
    ASSUME Typed, task # 0, NEW row \in Rows, Row(row)
    PROVE  /\ OnlyOne(task)
           /\ ops'[task] = [ops[task] EXCEPT !.row = row]
<1> DEFINE r == [ops[task] EXCEPT !.row = row]
<1>1. task \in 1..Len(ops) /\ ops[task] \in Record  BY TaskIsRecord
<1>2. r \in Record /\ r.worker = ops[task].worker  BY <1>1 DEF Record
<1>3. ops' = [ops EXCEPT ![task] = r]  BY DEF Row
<1>4. ops \in Seq(Record)  BY DEF Typed
<1> QED  BY <1>1, <1>2, <1>3, <1>4, OneRecord DEF OnlyOne

\* The end of an operation, written or lost.
LEMMA FinishStep ==
    ASSUME Typed, task # 0, NEW status \in Statuses, NEW result \in BOOLEAN,
           Finishes(status, result)
    PROVE  /\ OnlyOne(task) /\ task' = 0 /\ stage' = "none"
           /\ \/ ops'[task] = [ops[task] EXCEPT !.status = status, !.result = result]
              \/ ops'[task] = [ops[task] EXCEPT !.lost = TRUE]
<1>1. task \in 1..Len(ops) /\ ops[task] \in Record  BY TaskIsRecord
<1>2. ops \in Seq(Record)  BY DEF Typed
<1>3. PICK r \in Record :
        /\ ops' = [ops EXCEPT ![task] = r] /\ r.worker = ops[task].worker
        /\ \/ r = [ops[task] EXCEPT !.status = status, !.result = result]
           \/ r = [ops[task] EXCEPT !.lost = TRUE]
  <2>1. CASE ops' = [ops EXCEPT ![task].status = status, ![task].result = result]
    <3> DEFINE r == [ops[task] EXCEPT !.status = status, !.result = result]
    <3>1. ops' = [ops EXCEPT ![task] = r]  BY <2>1, <1>1
    <3>2. r \in Record /\ r.worker = ops[task].worker  BY <1>1 DEF Record
    <3> QED  BY <3>1, <3>2
  <2>2. CASE ops' = [ops EXCEPT ![task].lost = TRUE]
    <3> DEFINE r == [ops[task] EXCEPT !.lost = TRUE]
    <3>1. ops' = [ops EXCEPT ![task] = r]  BY <2>2, <1>1
    <3>2. r \in Record /\ r.worker = ops[task].worker  BY <1>1 DEF Record
    <3> QED  BY <3>1, <3>2
  <2> QED  BY <2>1, <2>2 DEF Finishes
<1>4. task' = 0 /\ stage' = "none"  BY DEF Finishes
<1>5. OnlyOne(task) /\ ops'[task] = r  BY <1>1, <1>2, <1>3, OneRecord DEF OnlyOne
<1> QED  BY <1>3, <1>4, <1>5

\* The records as they are judged: only what a dead process left running changes.
LEMMA JudgedStep ==
    ASSUME Typed, NEW known \in BOOLEAN
    PROVE  /\ Judged(known) \in Seq(Record) /\ Len(Judged(known)) = Len(ops)
           /\ \A o \in 1..Len(ops) :
                \/ Judged(known)[o] = ops[o]
                \/ /\ ops[o].status = "running" /\ ops[o].worker # boot
                   /\ Judged(known)[o] = [ops[o] EXCEPT !.status = "uncertain"]
<1> DEFINE j == Judged(known)
           entry(o) == IF ops[o].status = "running" /\ Dead(o) /\ known
                       THEN [ops[o] EXCEPT !.status = "uncertain"] ELSE ops[o]
<1>1. ops \in Seq(Record) /\ Records = 1..Len(ops)  BY DEF Typed, Records
<1>2. j = [o \in 1..Len(ops) |-> entry(o)]  BY <1>1 DEF Judged
<1>3. ASSUME NEW o \in 1..Len(ops) PROVE entry(o) \in Record
  <2>1. ops[o] \in Record  BY <1>1
  <2>2. [ops[o] EXCEPT !.status = "uncertain"] \in Record  BY <2>1 DEF Record, Statuses
  <2> QED  BY <2>1, <2>2
<1>4. Len(ops) \in Nat  BY <1>1
<1>5. j \in Seq(Record) /\ Len(j) = Len(ops)
  <2> HIDE DEF entry
  <2>1. [o \in 1..Len(ops) |-> entry(o)] \in [1..Len(ops) -> Record]  BY <1>3
  <2> QED  BY <1>2, <1>4, <2>1
<1>6. ASSUME NEW o \in 1..Len(ops)
      PROVE  \/ j[o] = ops[o]
             \/ /\ ops[o].status = "running" /\ ops[o].worker # boot
                /\ j[o] = [ops[o] EXCEPT !.status = "uncertain"]
  BY <1>2 DEF Dead
<1> QED  BY <1>5, <1>6
--------------------------------------------------------------------------------
(* What leaves all records alone, or changes only the record of the task. *)

LEMMA InitHolds == Init => IInv
<1> SUFFICES ASSUME Init PROVE IInv  OBVIOUS
<1>1. ops = <<>> /\ Len(ops) = 0  BY DEF Init
<1>2. ops \in Seq(Record)  BY <1>1
<1>3. torn \in BOOLEAN  BY Zenon DEF Init
<1>4. Typed  BY <1>1, <1>2, <1>3 DEF Init, Typed, Stages
<1> QED  BY <1>1, <1>4 DEF Init, IInv, TaskRuns, TaskStage, OneOpenAttempt, ClickIsKept, Told

LEMMA ApproveKeeps == ASSUME IInv, Approve PROVE IInv'
<1> USE DEF IInv, Approve
<1>1. Typed'  BY DEF Typed, Stages
<1>2. task # 0 /\ task \in 1..Len(ops)  BY TaskIsRecord DEF Typed
<1>3. \A o \in 1..Len(ops) : ~InForce(o)
  BY DEF MayApprove, Pending, Scheduled, Records, InForce, Typed
<1>4. TaskRuns' /\ TaskStage'  BY DEF TaskRuns, TaskStage
<1>5. OneOpenAttempt'  BY <1>3 DEF OneOpenAttempt, InForce
<1>6. ClickIsKept' /\ Told'  BY DEF ClickIsKept, Told
<1> QED  BY <1>1, <1>4, <1>5, <1>6

LEMMA TearsKeeps == ASSUME IInv, Tears PROVE IInv'
<1> USE DEF IInv, Tears
<1>1. Typed'  BY DEF Typed, Stages
<1>2. TaskRuns' /\ TaskStage'  BY DEF TaskRuns, TaskStage
<1>3. OneOpenAttempt'  BY DEF OneOpenAttempt, InForce
<1>4. ClickIsKept' /\ Told'  BY DEF ClickIsKept, Told
<1> QED  BY <1>1, <1>2, <1>3, <1>4

LEMMA DiesKeeps == ASSUME IInv, Dies PROVE IInv'
<1> USE DEF IInv, Dies
<1>1. Typed'
  <2>1. boot \in Nat /\ boot' = boot + 1  BY DEF Typed
  <2> QED  BY <2>1 DEF Typed, Stages
<1>2. TaskRuns' /\ TaskStage'  BY DEF TaskRuns, TaskStage
<1>3. OneOpenAttempt' /\ ClickIsKept'  BY DEF OneOpenAttempt, ClickIsKept, InForce
<1>4. Told'
  <2>1. \A o \in 1..Len(ops) : ops[o].worker # boot'  BY DEF Typed
  <2> QED  BY <2>1 DEF Told
<1> QED  BY <1>1, <1>2, <1>3, <1>4

LEMMA ReviewKeeps ==
    ASSUME IInv, UNCHANGED <<boot, gate, ops, task, stage, torn>> PROVE IInv'
BY DEF IInv, Typed, TaskRuns, TaskStage, OneOpenAttempt, ClickIsKept, Told, InForce
--------------------------------------------------------------------------------
(* What changes the record of the task. *)

LEMMA FinishKeeps ==
    ASSUME IInv, task # 0, NEW status \in Statuses \ {"running"}, NEW result \in BOOLEAN,
           Finishes(status, result), UNCHANGED <<boot, gate, torn>>,
           status = "failed" => ~ops[task].clicked \/ torn,
           status = "succeeded" => ops[task].row = "scheduled" /\ ops[task].remote
    PROVE  IInv'
<1>1. task \in 1..Len(ops) /\ ops[task] \in Record  BY TaskIsRecord DEF IInv
<1>2. /\ OnlyOne(task) /\ task' = 0 /\ stage' = "none"
      /\ \/ ops'[task] = [ops[task] EXCEPT !.status = status, !.result = result]
         \/ ops'[task] = [ops[task] EXCEPT !.lost = TRUE]
  BY FinishStep DEF IInv
<1>3. /\ ops'[task].row = ops[task].row /\ ops'[task].clicked = ops[task].clicked
      /\ ops'[task].remote = ops[task].remote
      /\ \/ ops'[task].status = status
         \/ ops'[task].status = ops[task].status /\ ops'[task].lost
  BY <1>1, <1>2 DEF Record
<1>4. \A p \in 1..Len(ops) : p # task => ops'[p] = ops[p]  BY <1>2 DEF OnlyOne
<1>5. Typed'  BY <1>1, <1>2 DEF IInv, Typed, OnlyOne, Stages
<1>6. Len(ops') = Len(ops)  BY <1>2 DEF OnlyOne
<1>7. TaskRuns' /\ TaskStage'  BY <1>2 DEF TaskRuns, TaskStage
<1>8. \A p \in 1..Len(ops) : InForce(p)' <=> InForce(p)  BY <1>3, <1>4 DEF InForce
<1>9. OneOpenAttempt'  BY <1>2, <1>6, <1>8 DEF IInv, OneOpenAttempt
<1>10. ClickIsKept'  BY <1>3, <1>4, <1>6 DEF IInv, ClickIsKept
<1>11. Told'
  <2> SUFFICES ASSUME NEW o \in 1..Len(ops)
               PROVE  /\ ops'[o].status = "failed" => ~ops'[o].clicked \/ torn'
                      /\ ops'[o].status = "succeeded" => ops'[o].row = "scheduled" /\ ops'[o].remote
                      /\ ops'[o].status = "running" /\ ops'[o].worker = boot' /\ ~ops'[o].lost => o = task'
    BY <1>6 DEF Told
  <2>1. CASE o = task
    BY <2>1, <1>1, <1>3 DEF IInv, TaskRuns
  <2>2. CASE o # task  BY <2>2, <1>4 DEF IInv, Told
  <2> QED  BY <2>1, <2>2
<1> QED  BY <1>5, <1>7, <1>9, <1>10, <1>11 DEF IInv

LEMMA RowKeeps ==
    ASSUME IInv, NEW row \in Rows \ {"none"}, Row(row), UNCHANGED <<boot, gate, task, torn>>,
           stage \in {"approved", "armed"}, stage' \in {"approved", "armed", "returned"},
           stage' = "approved" => row = "prepared",
           stage' = "armed" => row = "ambiguous",
           row \in {"submitted", "scheduled"} => ops[task].remote,
           ops[task].clicked => row \in {"ambiguous", "submitted", "scheduled"}
    PROVE  IInv'
<1>1. task # 0 /\ task \in 1..Len(ops) /\ ops[task] \in Record  BY TaskIsRecord DEF IInv, Typed
<1>2. OnlyOne(task) /\ ops'[task] = [ops[task] EXCEPT !.row = row]  BY <1>1, RowStep DEF IInv
<1>3. /\ ops'[task].row = row /\ ops'[task].clicked = ops[task].clicked
      /\ ops'[task].remote = ops[task].remote /\ ops'[task].status = ops[task].status
      /\ ops'[task].lost = ops[task].lost /\ ops'[task].worker = ops[task].worker
  BY <1>1, <1>2 DEF Record
<1>4. Len(ops') = Len(ops) /\ \A p \in 1..Len(ops) : p # task => ops'[p] = ops[p]
  BY <1>2 DEF OnlyOne
<1>5. Typed'  BY <1>1, <1>2 DEF IInv, Typed, OnlyOne, Stages
<1>6. TaskRuns' /\ TaskStage'  BY <1>1, <1>3, <1>4 DEF IInv, TaskRuns, TaskStage
<1>7. OneOpenAttempt'
  <2>1. \A p \in 1..Len(ops) : p # task => (InForce(p)' <=> InForce(p))  BY <1>4 DEF InForce
  <2>2. CASE InForce(task)
    BY <2>1, <2>2, <1>1, <1>3, <1>4 DEF IInv, OneOpenAttempt
  <2>3. CASE ~InForce(task)
    <3>1. stage = "approved" /\ ops[task].row = "none"
      BY <2>3 DEF IInv, TaskStage, InForce, Blocking
    <3> QED  BY <3>1, <2>1, <1>1, <1>3, <1>4 DEF IInv, OneOpenAttempt
  <2> QED  BY <2>2, <2>3
<1>8. ClickIsKept'  BY <1>3, <1>4 DEF IInv, ClickIsKept
<1>9. Told'
  <2>1. \A o \in 1..Len(ops) : o # task => ops'[o] = ops[o]  BY <1>4
  <2>2. ops'[task].status = "running"  BY <1>1, <1>3 DEF IInv, TaskRuns
  <2> QED  BY <2>1, <2>2, <1>4 DEF IInv, Told
<1> QED  BY <1>5, <1>6, <1>7, <1>8, <1>9 DEF IInv

LEMMA PrepareKeeps == ASSUME IInv, Prepare PROVE IInv'
<1>1. ~ops[task].clicked
  BY TaskIsRecord DEF Prepare, IInv, Typed, ClickIsKept
<1> QED  BY <1>1, RowKeeps DEF Prepare, Rows

LEMMA ArmKeeps == ASSUME IInv, Arm PROVE IInv'
BY RowKeeps DEF Arm, Rows

LEMMA ClickKeeps == ASSUME IInv, Click PROVE IInv'
<1>1. task # 0 /\ task \in 1..Len(ops) /\ ops[task] \in Record
  BY TaskIsRecord DEF IInv, Typed, Click
<1>2. PICK accepted \in BOOLEAN :
        ops' = [ops EXCEPT ![task].clicked = TRUE, ![task].remote = accepted]
  BY DEF Click
<1> DEFINE r == [ops[task] EXCEPT !.clicked = TRUE, !.remote = accepted]
<1>3. ops \in Seq(Record)  BY DEF IInv, Typed
<1>4. r \in Record  BY <1>1 DEF Record
<1>5. ops' = [ops EXCEPT ![task] = r]  BY <1>1, <1>2, <1>3
<1>6. ops[task].row = "ambiguous" /\ stage = "armed" /\ ~ops[task].clicked
  BY DEF IInv, TaskStage, Click
<1>7. /\ r.row = "ambiguous" /\ r.status = "running" /\ r.worker = ops[task].worker
      /\ r.lost = ops[task].lost
  BY <1>1, <1>6 DEF Record, IInv, TaskRuns
<1> HIDE DEF r
<1>8. /\ ops' \in Seq(Record) /\ Len(ops') = Len(ops) /\ ops'[task] = r
      /\ \A p \in 1..Len(ops) : p # task => ops'[p] = ops[p]
  BY <1>1, <1>3, <1>4, <1>5, OneRecord
<1>9. UNCHANGED <<boot, gate, task, stage, torn>>  BY DEF Click
<1>10. Typed'  BY <1>1, <1>7, <1>8, <1>9 DEF IInv, Typed
<1>11. TaskRuns' /\ TaskStage'  BY <1>1, <1>6, <1>7, <1>8, <1>9 DEF IInv, TaskRuns, TaskStage
<1>12. \A p \in 1..Len(ops) : InForce(p)' <=> InForce(p)  BY <1>6, <1>7, <1>8 DEF InForce
<1>13. OneOpenAttempt'  BY <1>6, <1>8, <1>9, <1>12 DEF IInv, OneOpenAttempt
<1>14. ClickIsKept'  BY <1>7, <1>8 DEF IInv, ClickIsKept
<1>15. Told'
  <2>1. \A o \in 1..Len(ops) : o # task => ops'[o] = ops[o]  BY <1>8
  <2> QED  BY <2>1, <1>7, <1>8, <1>9 DEF IInv, Told
<1> QED  BY <1>10, <1>11, <1>13, <1>14, <1>15 DEF IInv

LEMMA StageKeeps ==
    ASSUME IInv, stage = "armed", stage' = "returned",
           UNCHANGED <<boot, gate, ops, task, torn>>
    PROVE  IInv'
BY DEF IInv, Typed, TaskRuns, TaskStage, OneOpenAttempt, ClickIsKept, Told, InForce, Stages

LEMMA ConfirmsKeeps == ASSUME IInv, Confirms PROVE IInv'
<1>1. CASE UNCHANGED ops  BY <1>1, StageKeeps DEF Confirms
<1>2. ASSUME ops[task].remote, NEW row \in {"submitted", "scheduled"}, Row(row) PROVE IInv'
  BY <1>2, RowKeeps DEF Confirms, Rows
<1> QED  BY <1>1, <1>2 DEF Confirms

LEMMA AttemptFailsKeeps == ASSUME IInv, AttemptFails PROVE IInv'
<1> DEFINE row == TerminalRow(ops[task].row)
<1>1. ops[task].row \in {"none", "prepared", "ambiguous"}
  BY DEF AttemptFails, IInv, TaskStage
<1>2. row \in {"failed", "ambiguous"} /\ (row = "failed" => ops[task].row \in {"none", "prepared"})
  BY <1>1 DEF TerminalRow
<1>3. ops[task].clicked => row = "ambiguous"
  BY <1>2, TaskIsRecord DEF AttemptFails, IInv, Typed, ClickIsKept
<1> HIDE DEF row
<1>4. Row(row)  BY DEF AttemptFails, row
<1> QED  BY <1>2, <1>3, <1>4, RowKeeps DEF AttemptFails, Rows
--------------------------------------------------------------------------------
(* What ends an operation. *)

LEMMA ConflictsKeeps == ASSUME IInv, Conflicts PROVE IInv'
<1>1. task # 0 /\ ops[task].row = "none"  BY DEF IInv, Typed, TaskStage, Conflicts
<1>2. ~ops[task].clicked  BY <1>1, TaskIsRecord DEF IInv, ClickIsKept, Typed
<1>3. PICK status \in {"failed", "uncertain"} : Finishes(status, FALSE)  BY DEF Conflicts
<1> QED  BY <1>1, <1>2, <1>3, FinishKeeps DEF Conflicts, Statuses

LEMMA ExecuteRaisesKeeps == ASSUME IInv, ExecuteRaises PROVE IInv'
<1>1. task # 0 /\ ops[task].row = "none"  BY DEF IInv, Typed, ExecuteRaises
<1>2. ~ops[task].clicked  BY <1>1, TaskIsRecord DEF IInv, ClickIsKept, Typed
<1>3. PICK status \in {"failed", "uncertain"} : Finishes(status, FALSE)
  BY DEF ExecuteRaises
<1> QED  BY <1>1, <1>2, <1>3, FinishKeeps DEF ExecuteRaises, Statuses

LEMMA CancelledKeeps == ASSUME IInv, Cancelled PROVE IInv'
BY FinishKeeps DEF Cancelled, Statuses

LEMMA ReturnKeeps == ASSUME IInv, Return PROVE IInv'
<1>1. task # 0 /\ task \in 1..Len(ops)  BY TaskIsRecord DEF IInv, Typed, Return
<1>2. PICK status \in OperationStatus(task) :
        Finishes(status, ~torn \/ ops[task].row = "scheduled")
  BY DEF Return
<1>3. /\ status \in {"succeeded", "failed", "uncertain"}
      /\ status = "succeeded" => ops[task].row = "scheduled"
      /\ status = "failed" => torn \/ ops[task].row = "failed"
  BY <1>2 DEF OperationStatus
<1>4. ops[task].row = "scheduled" => ops[task].remote  BY <1>1 DEF IInv, ClickIsKept
<1>5. ops[task].row = "failed" => ~ops[task].clicked  BY <1>1 DEF IInv, ClickIsKept
<1> DEFINE result == ~torn \/ ops[task].row = "scheduled"
<1>6. result \in BOOLEAN  OBVIOUS
<1> HIDE DEF result
<1>7. Finishes(status, result)  BY <1>2 DEF result
<1> QED  BY <1>1, <1>3, <1>4, <1>5, <1>6, <1>7, FinishKeeps DEF Return, Statuses
--------------------------------------------------------------------------------
(* What touches the records of other operations. *)

\* A judgement alone: nothing that the task or the journal needs is in it.
LEMMA JudgedKeeps ==
    ASSUME IInv, NEW known \in BOOLEAN, ops' = Judged(known),
           UNCHANGED <<boot, gate, task, stage, torn>>
    PROVE  IInv'
<1>1. /\ ops' \in Seq(Record) /\ Len(ops') = Len(ops)
      /\ \A o \in 1..Len(ops) :
            \/ ops'[o] = ops[o]
            \/ /\ ops[o].status = "running" /\ ops[o].worker # boot
               /\ ops'[o] = [ops[o] EXCEPT !.status = "uncertain"]
  BY JudgedStep DEF IInv
<1>2. ASSUME NEW o \in 1..Len(ops)
      PROVE  /\ ops'[o].worker = ops[o].worker /\ ops'[o].row = ops[o].row
             /\ ops'[o].clicked = ops[o].clicked /\ ops'[o].remote = ops[o].remote
             /\ ops'[o].lost = ops[o].lost
             /\ ops'[o].status = ops[o].status \/ ops'[o].status = "uncertain"
  <2>1. ops[o] \in Record  BY DEF IInv, Typed
  <2> QED  BY <1>1, <2>1 DEF Record
<1>3. Typed'  BY <1>1, <1>2 DEF IInv, Typed
<1>4. task # 0 => ops'[task] = ops[task]
  BY <1>1, TaskIsRecord DEF IInv, TaskRuns, Typed
<1>5. TaskRuns' /\ TaskStage'  BY <1>1, <1>3, <1>4 DEF IInv, TaskRuns, TaskStage, Typed
<1>6. \A p \in 1..Len(ops) : InForce(p)' <=> InForce(p)  BY <1>2 DEF InForce
<1>7. OneOpenAttempt'  BY <1>1, <1>4, <1>5, <1>6 DEF IInv, OneOpenAttempt, Typed
<1>8. ClickIsKept'  BY <1>1, <1>2 DEF IInv, ClickIsKept
<1>9. Told'  BY <1>1, <1>2 DEF IInv, Told
<1> QED  BY <1>3, <1>5, <1>7, <1>8, <1>9 DEF IInv

LEMMA PollKeeps == ASSUME IInv, Poll PROVE IInv'
BY JudgedKeeps DEF Poll

\* A new record, after a judgement that finds no operation running.
LEMMA PostApproveKeeps == ASSUME IInv, PostApprove PROVE IInv'
<1>1. PICK known \in BOOLEAN :
        IF NoneActive(Judged(known))
        THEN /\ ops' = Append(Judged(known), NewRecord(IF gate THEN "running" ELSE "failed"))
             /\ IF gate THEN task' = Len(ops) + 1 /\ stage' = "queued"
                        ELSE UNCHANGED <<task, stage>>
        ELSE ops' = Judged(known) /\ UNCHANGED <<task, stage>>
  BY DEF PostApprove
<1> DEFINE j == Judged(known)
<1>2. CASE ~NoneActive(j)  BY <1>1, <1>2, JudgedKeeps DEF PostApprove
<1>3. CASE NoneActive(j)
  <2>0. PICK n \in Nat : n = Len(ops) + 1  BY DEF IInv, Typed
  <2> DEFINE r == NewRecord(IF gate THEN "running" ELSE "failed")
  <2>1. /\ j \in Seq(Record) /\ Len(j) = Len(ops)
        /\ \A o \in 1..Len(ops) :
              \/ j[o] = ops[o]
              \/ /\ ops[o].status = "running" /\ ops[o].worker # boot
                 /\ j[o] = [ops[o] EXCEPT !.status = "uncertain"]
    BY JudgedStep DEF IInv
  <2>2. ASSUME NEW o \in 1..Len(ops)
        PROVE  /\ j[o].worker = ops[o].worker /\ j[o].row = ops[o].row
               /\ j[o].clicked = ops[o].clicked /\ j[o].remote = ops[o].remote
               /\ j[o].lost = ops[o].lost
               /\ j[o].status = ops[o].status \/ j[o].status = "uncertain"
    <3>1. ops[o] \in Record  BY DEF IInv, Typed
    <3> QED  BY <2>1, <3>1 DEF Record
  <2>3. \A o \in 1..Len(ops) : j[o].status # "running"
    BY <1>3 DEF NoneActive, Records, IInv, Typed
  <2>4. task = 0 /\ stage = "none"
    BY <2>1, <2>3, TaskIsRecord DEF IInv, TaskRuns, Typed
  <2>5. boot \in Nat /\ gate \in BOOLEAN /\ Len(ops) \in Nat  BY DEF IInv, Typed
  <2>6. /\ r \in Record /\ r.worker = boot /\ r.row = "none" /\ ~r.clicked /\ ~r.remote
        /\ r.status = (IF gate THEN "running" ELSE "failed")
    BY <2>5 DEF NewRecord, Record, Statuses, Rows
  <2> HIDE DEF j, r
  <2>7. ops' = Append(j, r)  BY <1>1, <1>3 DEF j, r
  <2>8. /\ ops' \in Seq(Record) /\ Len(ops') = n /\ ops'[n] = r
        /\ \A o \in 1..Len(ops) : ops'[o] = j[o]
        /\ \A o \in 1..n : o \in 1..Len(ops) \/ o = n
    BY <2>0, <2>1, <2>5, <2>6, <2>7
  <2>9. /\ boot' = boot /\ gate' = gate /\ torn' = torn
        /\ gate => task' = n /\ stage' = "queued"
        /\ ~gate => task' = 0 /\ stage' = "none"
    BY <1>1, <1>3, <2>0, <2>4 DEF PostApprove, j
  <2>10. \A o \in 1..Len(ops) : ops[o].worker \in 1..boot  BY DEF IInv, Typed
  <2>11. boot \in 1..boot
    BY DEF IInv, Typed
  <2>12. Typed'  BY <2>0, <2>2, <2>5, <2>6, <2>8, <2>9, <2>10, <2>11 DEF IInv, Typed, Stages
  <2>13. gate => ops'[n].row = "none" /\ ops'[n].status = "running"
                  /\ ops'[n].worker = boot /\ ~ops'[n].lost
    BY <2>0, <2>5, <2>6, <2>8 DEF NewRecord, r
  <2>14. TaskRuns' /\ TaskStage'
    BY <2>0, <2>5, <2>8, <2>9, <2>13 DEF TaskRuns, TaskStage
  <2>15. /\ \A o \in 1..Len(ops) : InForce(o)' <=> InForce(o)
         /\ ~InForce(n)'
    BY <2>2, <2>6, <2>8 DEF InForce, Blocking
  <2>16. OneOpenAttempt'
    <3>1. stage' # "approved"  BY <2>0, <2>5, <2>9
    <3>2. \A o, p \in 1..n : InForce(o)' /\ InForce(p)' => o = p
      BY <2>8, <2>15 DEF IInv, OneOpenAttempt
    <3> QED  BY <2>8, <3>1, <3>2 DEF OneOpenAttempt
  <2>17. ClickIsKept'
    <3>1. ASSUME NEW o \in 1..n
          PROVE  /\ ops'[o].clicked => ops'[o].row \in {"ambiguous", "submitted", "scheduled"}
                 /\ ops'[o].row \in {"submitted", "scheduled"} => ops'[o].remote
      <4>1. CASE o = n  BY <4>1, <2>6, <2>8
      <4>2. CASE o \in 1..Len(ops)  BY <4>2, <2>2, <2>8 DEF IInv, ClickIsKept
      <4> QED  BY <2>8, <4>1, <4>2
    <3> QED  BY <2>8, <3>1 DEF ClickIsKept
  <2>18. Told'
    <3>1. ASSUME NEW o \in 1..n
          PROVE  /\ ops'[o].status = "failed" => ~ops'[o].clicked \/ torn'
                 /\ ops'[o].status = "succeeded" => ops'[o].row = "scheduled" /\ ops'[o].remote
                 /\ ops'[o].status = "running" /\ ops'[o].worker = boot' /\ ~ops'[o].lost => o = task'
      <4>1. CASE o = n  BY <4>1, <2>0, <2>5, <2>6, <2>8, <2>9
      <4>2. CASE o \in 1..Len(ops)
        <5>1. ops'[o].status # "running"  BY <4>2, <2>3, <2>8 DEF j
        <5> QED  BY <4>2, <5>1, <2>2, <2>8, <2>9 DEF IInv, Told
      <4> QED  BY <2>8, <4>1, <4>2
    <3> QED  BY <2>8, <3>1 DEF Told
  <2> QED  BY <2>12, <2>14, <2>16, <2>17, <2>18 DEF IInv
<1> QED  BY <1>2, <1>3

\* The one attempt that is open or scheduled is recorded as scheduled.
LEMMA ReconcileKeeps == ASSUME IInv, Reconcile PROVE IInv'
<1> DEFINE o == CHOOSE p \in Records : p \in Scheduled \/ p \in Pending
<1>1. Records = 1..Len(ops) /\ ops \in Seq(Record)  BY DEF Records, IInv, Typed
<1>2. \A p \in 1..Len(ops) : p \in Scheduled \/ p \in Pending <=> InForce(p)
  BY <1>1 DEF Scheduled, Pending, InForce
<1>3. PICK q \in 1..Len(ops) : InForce(q) /\ ops[q].remote
  <2>1. CASE Scheduled # {}
    <3>1. PICK q \in 1..Len(ops) : ops[q].row = "scheduled"  BY <2>1, <1>1 DEF Scheduled
    <3> QED  BY <3>1 DEF InForce, IInv, ClickIsKept
  <2>2. CASE \E q \in Pending : ops[q].remote /\ Pending = {q} /\ ops[q].row # "prepared"
    BY <2>2, <1>1 DEF Pending, InForce
  <2> QED  BY <2>1, <2>2 DEF Reconcile
<1>4. o \in 1..Len(ops) /\ InForce(o)  BY <1>1, <1>2, <1>3
<1>5. PICK latest \in ForTask(o) :
        ops' = [ops EXCEPT ![o].row = "scheduled",
            ![o].status = IF latest = o /\ ops[o].result THEN "succeeded" ELSE @]
  BY DEF Reconcile
<1> HIDE DEF o
<1>6. o = q  BY <1>3, <1>4 DEF IInv, OneOpenAttempt
<1>7. ops[o].remote /\ ops[o] \in Record  BY <1>1, <1>3, <1>4, <1>6
<1> DEFINE r == [ops[o] EXCEPT !.row = "scheduled",
                     !.status = IF latest = o /\ ops[o].result THEN "succeeded" ELSE @]
<1>8. ops' = [ops EXCEPT ![o] = r]  BY <1>1, <1>4, <1>7, <1>5
<1>9. /\ r \in Record /\ r.row = "scheduled" /\ r.worker = ops[o].worker
      /\ r.lost = ops[o].lost /\ r.clicked = ops[o].clicked /\ r.remote = ops[o].remote
      /\ r.status \in {ops[o].status, "succeeded"}
  BY <1>7 DEF Record, Rows, Statuses
<1> HIDE DEF r
<1>10. /\ ops' \in Seq(Record) /\ Len(ops') = Len(ops) /\ ops'[o] = r
       /\ \A p \in 1..Len(ops) : p # o => ops'[p] = ops[p]
  BY <1>1, <1>4, <1>8, <1>9, OneRecord
<1>11. UNCHANGED <<boot, gate, task, stage, torn>> /\ stage \in {"none", "queued"}
  BY DEF Reconcile, IInv, Typed, Stages
<1>12. o # task  BY <1>4, <1>11 DEF IInv, TaskStage, Typed, InForce, Blocking
<1>13. Typed'  BY <1>4, <1>9, <1>10, <1>11 DEF IInv, Typed
<1>14. TaskRuns' /\ TaskStage'
  <2>1. task # 0 => ops'[task] = ops[task]  BY <1>10, <1>12, TaskIsRecord DEF IInv
  <2> QED  BY <2>1, <1>10, <1>11 DEF IInv, TaskRuns, TaskStage, Typed
<1>15. \A p \in 1..Len(ops) : InForce(p)' <=> InForce(p)  BY <1>4, <1>9, <1>10 DEF InForce
<1>16. OneOpenAttempt'  BY <1>10, <1>11, <1>15 DEF IInv, OneOpenAttempt
<1>17. ClickIsKept'  BY <1>7, <1>9, <1>10 DEF IInv, ClickIsKept
<1>18. Told'
  <2> SUFFICES ASSUME NEW p \in 1..Len(ops)
               PROVE  /\ ops'[p].status = "failed" => ~ops'[p].clicked \/ torn'
                      /\ ops'[p].status = "succeeded" => ops'[p].row = "scheduled" /\ ops'[p].remote
                      /\ ops'[p].status = "running" /\ ops'[p].worker = boot' /\ ~ops'[p].lost => p = task'
    BY <1>10 DEF Told
  <2>1. CASE p = o  BY <2>1, <1>7, <1>9, <1>10, <1>11 DEF IInv, Told
  <2>2. CASE p # o  BY <2>2, <1>10, <1>11 DEF IInv, Told
  <2> QED  BY <2>1, <2>2
<1> QED  BY <1>13, <1>14, <1>16, <1>17, <1>18 DEF IInv
--------------------------------------------------------------------------------
LEMMA StepKeeps == ASSUME IInv, [Next]_vars PROVE IInv'
<1>1. CASE Approve  BY <1>1, ApproveKeeps
<1>2. CASE Tears  BY <1>2, TearsKeeps
<1>3. CASE Dies  BY <1>3, DiesKeeps
<1>4. CASE Recover \/ Refreeze  BY <1>4, ReviewKeeps DEF Recover, Refreeze
<1>5. CASE Prepare  BY <1>5, PrepareKeeps
<1>6. CASE Arm  BY <1>6, ArmKeeps
<1>7. CASE Click  BY <1>7, ClickKeeps
<1>8. CASE Confirms  BY <1>8, ConfirmsKeeps
<1>9. CASE AttemptFails  BY <1>9, AttemptFailsKeeps
<1>10. CASE Conflicts  BY <1>10, ConflictsKeeps
<1>11. CASE ExecuteRaises  BY <1>11, ExecuteRaisesKeeps
<1>12. CASE Cancelled  BY <1>12, CancelledKeeps
<1>13. CASE Return  BY <1>13, ReturnKeeps
<1>14. CASE Poll  BY <1>14, PollKeeps
<1>15. CASE PostApprove  BY <1>15, PostApproveKeeps
<1>16. CASE Reconcile  BY <1>16, ReconcileKeeps
<1>17. CASE UNCHANGED vars  BY <1>17, ReviewKeeps DEF vars
<1> QED
  BY <1>1, <1>2, <1>3, <1>4, <1>5, <1>6, <1>7, <1>8, <1>9, <1>10, <1>11, <1>12, <1>13,
     <1>14, <1>15, <1>16, <1>17 DEF Next

THEOREM Invariance == Spec => []IInv
<1>1. IInv /\ [Next]_vars => IInv'  BY StepKeeps
<1> QED  BY InitHolds, <1>1, PTL DEF Spec

(* Every record keeps the kinds of its values, and the task is one of the      *)
(* records (publish/operations.py 45-70).                                      *)
THEOREM TypeCorrect == Spec => []TypeOK
<1>1. ASSUME IInv PROVE TypeOK
  <2>1. Records = 1..Len(ops) /\ \A o \in 1..Len(ops) : ops[o] \in Record
    BY <1>1 DEF IInv, Typed, Records
  <2> QED  BY <1>1, <2>1 DEF IInv, Typed, TypeOK, Record
<1> QED  BY <1>1, Invariance, PTL

(* An operation that is reported as failed did not click, one that is reported *)
(* as succeeded is scheduled, one that runs is worked on (web/api/approval.py  *)
(* 81-108, pipeline/approval.py 183-188), for any number of submissions and    *)
(* restarts.                                                                   *)
THEOREM ToldTruly == Spec => []OperationsTruthful
<1>1. IInv => OperationsTruthful
  BY DEF IInv, Typed, Told, OperationsTruthful, Records, Dead
<1> QED  BY <1>1, Invariance, PTL

(* However often a post is submitted from the desk, it is clicked once         *)
(* (publish/journal.py 387-417, publish/workflow.py 221-249).                  *)
THEOREM ClickedOnce == Spec => []NoSecondClick
<1>1. IInv => NoSecondClick
  BY DEF IInv, Typed, OneOpenAttempt, ClickIsKept, InForce, Blocking, NoSecondClick, Records
<1> QED  BY <1>1, Invariance, PTL
--------------------------------------------------------------------------------
(******************************************************************************)
(* The list of open items, for any posts, runs, batches and changes beside    *)
(* them: a batch submits nothing behind a post whose outcome is in doubt, a   *)
(* run leaves each post that did not change with the item its state calls     *)
(* for, and a ready item is resolved with a receipt only.                     *)
(*                                                                            *)
(* Why: while a batch is under way only the batch writes to the journal, its  *)
(* rows are of different posts, and none of them had an attempt when it began *)
(* (BatchFits).  Of a post that did not change since the run began, what the  *)
(* run read is still true (AsRead); from its examination to its composition   *)
(* nothing speaks against it (InHand); when the run has left it, its items    *)
(* are those its state calls for, and other posts' turns leave them alone     *)
(* (Answered).                                                                *)
(******************************************************************************)

\* The types, as far as they matter.
Runs == [pc : {"idle", "next", "pay", "paid"}, todo : SUBSET Waiting,
         seen : [Waiting -> Nat], sched : SUBSET Waiting]
Products == [no : Nat, of : Nat, human : BOOLEAN]
BatchSteps == {"idle", "reading", "submit", "armed", "clicked", "done"}

QueueType ==
    /\ posted \in [Waiting -> Nat] /\ flaw \in [Waiting -> Q!Flaws]
    /\ product \in [Waiting -> Products] /\ confirmations \in [Waiting -> Nat]
    /\ reviewed \in [Waiting -> {"pending_review", "snoozed", "approved", "scheduled"}]
    /\ decisive \in [Waiting -> {"none", "pending", "scheduled"}]
    /\ tries \in [Waiting -> Nat]
    /\ \A i \in items : i.post \in Waiting /\ i.kind \in Q!CandidateKinds
    /\ run \in Runs /\ touched \subseteq Waiting
    /\ batch = [pc |-> batch.pc, rows |-> batch.rows, at |-> batch.at, frozen |-> batch.frozen]
    /\ batch.pc \in BatchSteps
    /\ run.pc = "idle" \/ batch.pc = "idle"

\* The rows of a batch are of different posts, and the batch is at one of them.
BatchRows ==
    /\ Len(batch.rows) \in Nat /\ DOMAIN batch.rows = 1 .. Len(batch.rows)
    /\ \A n \in DOMAIN batch.rows : batch.rows[n].post \in Waiting
    /\ \A m, n \in DOMAIN batch.rows : m # n => batch.rows[m].post # batch.rows[n].post
    /\ batch.at \in DOMAIN batch.rows

\* What the journal says of the post the batch is at.
AtHere ==
    /\ batch.pc \in {"reading", "submit", "armed"} => decisive[batch.rows[batch.at].post] = "none"
    /\ batch.pc = "clicked" => decisive[batch.rows[batch.at].post] = "pending"
    /\ batch.pc = "done" => decisive[batch.rows[batch.at].post] = "scheduled"

BatchFits == Q!BatchStops /\ (batch.pc # "idle" => BatchRows /\ AtHere)

\* The items of a post are those its state calls for.
Answered(p) ==
    IF Q!Unreadable(p) THEN Q!BoundaryIssue(p) \in items
    ELSE IF Q!Paused(p) THEN \A i \in Q!OpenOf(p) : i.kind # "ready_to_publish"
    ELSE Q!OpenOf(p) = Q!Wanted(p)

\* What the run read of a post is still true.
AsRead(p) ==
    /\ ~Q!Unreadable(p) /\ run.seen[p] = posted[p]
    /\ p \in run.sched <=> decisive[p] = "scheduled"

\* Nothing speaks against the post the run works on.
InHand(p) ==
    (run.pc \in {"pay", "paid"} /\ \A q \in run.todo : p <= q) =>
        ~Q!Paused(p) /\ decisive[p] = "none" /\ Q!PrepaidIssue(p, posted[p]) = {}

RunFits ==
    run.pc # "idle" =>
        \A p \in Waiting \ touched :
            /\ p \notin run.todo => Answered(p)
            /\ p \in run.todo => AsRead(p) /\ InHand(p)

QueueInv == QueueType /\ BatchFits /\ RunFits
--------------------------------------------------------------------------------
\* What an item is about.
LEMMA ItemFields ==
    \A kind, p, text, detail :
        Q!Item(kind, p, text, detail).post = p /\ Q!Item(kind, p, text, detail).kind = kind
BY DEF Q!Item

LEMMA IssuesOf ==
    ASSUME NEW p, NEW text
    PROVE  \A i \in Q!PrepaidIssue(p, text) : i.post = p /\ i.kind \in Q!CandidateKinds
<1> SUFFICES ASSUME NEW i \in Q!PrepaidIssue(p, text) PROVE i.post = p /\ i.kind \in Q!CandidateKinds
    OBVIOUS
<1>1. \/ i = Q!Item("material_gate", p, text, "unreadable")
      \/ i = Q!Item("human_translation_stale", p, text, "")
      \/ i = Q!Item("material_gate", p, text, "")
      \/ i = Q!Item("unknown_collaborator", p, text, "")
      BY DEF Q!PrepaidIssue
<1>2. \A kind, detail : i = Q!Item(kind, p, text, detail) => i.post = p /\ i.kind = kind
      BY ItemFields
<1>3. i.post = p /\ (i.kind = "material_gate" \/ i.kind = "human_translation_stale"
                      \/ i.kind = "unknown_collaborator")
      BY <1>1, <1>2
<1> QED BY <1>3 DEF Q!CandidateKinds, Q!PrepaidKinds

\* A post, and its items, that a step leaves alone.
PostStays(p) ==
    /\ posted'[p] = posted[p] /\ flaw'[p] = flaw[p] /\ product'[p] = product[p]
    /\ reviewed'[p] = reviewed[p] /\ decisive'[p] = decisive[p] /\ tries'[p] = tries[p]

LEMMA StaysAsItIs ==
    ASSUME NEW p, PostStays(p)
    PROVE  /\ Q!Unreadable(p)' <=> Q!Unreadable(p)
           /\ Q!Paused(p)' <=> Q!Paused(p)
           /\ Q!BoundaryIssue(p)' = Q!BoundaryIssue(p)
           /\ Q!PrepaidIssue(p, posted[p])' = Q!PrepaidIssue(p, posted[p])
           /\ Q!Wanted(p)' = Q!Wanted(p)
<1> USE DEF PostStays
<1>1. Q!Unreadable(p)' <=> Q!Unreadable(p)
      BY DEF Q!Unreadable
<1>2. Q!Paused(p)' <=> Q!Paused(p)
      BY DEF Q!Paused
<1>3. Q!BoundaryIssue(p)' = Q!BoundaryIssue(p)
      BY DEF Q!BoundaryIssue
<1>4. Q!Current(p)' <=> Q!Current(p)
      BY DEF Q!Current
<1>5. Q!PrepaidIssue(p, posted[p])' = Q!PrepaidIssue(p, posted[p])
      BY <1>1, <1>4 DEF Q!PrepaidIssue
<1>6. Q!Composes(p)' <=> Q!Composes(p)
      BY <1>4 DEF Q!Composes
<1>7. /\ Q!Unresolved(p, posted[p])' = Q!Unresolved(p, posted[p])
      /\ Q!Ready(p, posted[p])' = Q!Ready(p, posted[p])
      BY DEF Q!Unresolved, Q!Ready
<1>8. Q!Offline(p, posted[p])' = Q!Offline(p, posted[p])
      BY DEF Q!Offline, Q!Current
<1>9. Q!Wanted(p)' = Q!Wanted(p)
      BY <1>5, <1>6, <1>7, <1>8 DEF Q!Wanted
<1> QED BY <1>1, <1>2, <1>3, <1>5, <1>9

LEMMA AnswerStays ==
    ASSUME NEW p, PostStays(p), Q!OpenOf(p)' = Q!OpenOf(p), Answered(p)
    PROVE  Answered(p)'
<1>1. Q!BoundaryIssue(p).post = p
      BY ItemFields DEF Q!BoundaryIssue
<1>2. Q!BoundaryIssue(p) \in items => Q!BoundaryIssue(p) \in items'
      BY <1>1 DEF Q!OpenOf
<1> QED BY <1>2, StaysAsItIs DEF Answered

\* One post's items are replaced.
LEMMA OnlyOneChanges ==
    ASSUME QueueType, NEW p \in Waiting, NEW active,
           \A i \in active : i.post = p /\ i.kind \in Q!CandidateKinds,
           items' = Q!Only(p, active)
    PROVE  /\ Q!OpenOf(p)' = active
           /\ \A q \in Waiting \ {p} : Q!OpenOf(q)' = Q!OpenOf(q)
           /\ \A i \in items' : i.post \in Waiting /\ i.kind \in Q!CandidateKinds
BY DEF QueueType, Q!Only, Q!Cleared, Q!OpenOf

LEMMA SomeGo ==
    ASSUME QueueType, NEW p \in Waiting, NEW gone \in SUBSET Q!OpenOf(p), items' = items \ gone
    PROVE  /\ Q!OpenOf(p)' = Q!OpenOf(p) \ gone
           /\ \A q \in Waiting \ {p} : Q!OpenOf(q)' = Q!OpenOf(q)
           /\ \A i \in items' : i.post \in Waiting /\ i.kind \in Q!CandidateKinds
BY DEF QueueType, Q!OpenOf
--------------------------------------------------------------------------------
LEMMA QueueStarts == Q!Init => QueueInv
<1> SUFFICES ASSUME Q!Init PROVE QueueInv
    OBVIOUS
<1>1. run = Q!NoRun /\ batch = Q!NoBatch /\ items = {} /\ touched = {}
      BY DEF Q!Init
<1>2. run \in Runs /\ run.pc = "idle" /\ batch.pc = "idle"
      /\ batch = [pc |-> batch.pc, rows |-> batch.rows, at |-> batch.at, frozen |-> batch.frozen]
      BY <1>1 DEF Q!NoRun, Q!NoBatch, Runs
<1>3. posted \in [Waiting -> Nat] /\ flaw \in [Waiting -> Q!Flaws] /\ tries \in [Waiting -> Nat]
      /\ reviewed \in [Waiting -> {"pending_review", "snoozed", "approved", "scheduled"}]
      /\ decisive \in [Waiting -> {"none", "pending", "scheduled"}]
      BY DEF Q!Init, Q!Flaws
<1>4. product \in [Waiting -> Products] /\ confirmations \in [Waiting -> Nat]
  <2>1. product \in [Waiting -> Products]
        BY DEF Q!Init, Q!NoProduct, Products
  <2> QED BY <2>1 DEF Q!Init, Products
<1> QED BY <1>1, <1>2, <1>3, <1>4 DEF QueueInv, QueueType, BatchSteps, BatchFits, Q!BatchStops, RunFits
--------------------------------------------------------------------------------
\* The run takes up what there is.
LEMMA BeginKeeps == ASSUME QueueInv, Q!Begin PROVE QueueInv'
<1> DEFINE boundary == {p \in Waiting : Q!Unreadable(p)}
<1>1. /\ run.pc = "idle" /\ batch.pc = "idle" /\ batch' = batch /\ touched' = {}
      /\ items' = items \cup {Q!BoundaryIssue(p) : p \in boundary}
      /\ run' = [pc |-> "next", todo |-> Waiting \ boundary, seen |-> posted,
                 sched |-> {p \in Waiting : decisive[p] = "scheduled"}]
      /\ UNCHANGED <<posted, flaw, product, confirmations, reviewed, decisive, tries>>
      BY DEF Q!Begin, Q!PipelineFree, Q!desk, Q!ledger
<1>2. QueueType'
  <2>1. \A p \in Waiting : Q!BoundaryIssue(p).post \in Waiting /\ Q!BoundaryIssue(p).kind \in Q!CandidateKinds
        BY ItemFields DEF Q!BoundaryIssue, Q!CandidateKinds, Q!PrepaidKinds
  <2>2. \A i \in items' : i.post \in Waiting /\ i.kind \in Q!CandidateKinds
        BY <1>1, <2>1 DEF QueueInv, QueueType
  <2>3. run' \in Runs
        BY <1>1 DEF QueueInv, QueueType, Runs
  <2> HIDE DEF boundary
  <2> QED BY <1>1, <2>2, <2>3 DEF QueueInv, QueueType
<1>3. BatchFits'
      BY <1>1 DEF BatchFits, Q!BatchStops
<1>4. ASSUME NEW p \in Waiting
      PROVE  (p \notin run'.todo => Answered(p)') /\ (p \in run'.todo => AsRead(p)' /\ InHand(p)')
  <2>1. PostStays(p)
        BY <1>1 DEF PostStays
  <2>2. p \notin run'.todo => Q!Unreadable(p) /\ Q!BoundaryIssue(p) \in items'
        BY <1>1
  <2>3. p \notin run'.todo => Answered(p)'
        BY <2>1, <2>2, StaysAsItIs DEF Answered
  <2>4. p \in run'.todo => AsRead(p)' /\ InHand(p)'
        BY <1>1, <2>1, StaysAsItIs DEF AsRead, InHand
  <2> QED BY <2>3, <2>4
<1>5. RunFits'
      BY <1>4 DEF RunFits
<1> QED BY <1>2, <1>3, <1>5 DEF QueueInv
--------------------------------------------------------------------------------
\* A step of the run for post p: it leaves the others and their items alone.
LEMMA RunGoesOn ==
    ASSUME QueueInv, run.pc # "idle", NEW p \in run.todo, \A q \in run.todo : p <= q,
           QueueType', run'.pc # "idle",
           run'.todo \in {run.todo, run.todo \ {p}}, run'.seen = run.seen, run'.sched = run.sched,
           run'.pc \in {"pay", "paid"} => run'.todo = run.todo,
           touched' = touched,
           \A q \in Waiting \ {p} : PostStays(q) /\ Q!OpenOf(q)' = Q!OpenOf(q),
           p \notin touched => /\ p \notin run'.todo => Answered(p)'
                               /\ p \in run'.todo => AsRead(p)' /\ InHand(p)'
    PROVE  RunFits'
<1>1. ASSUME NEW q \in Waiting \ touched, q # p
      PROVE  (q \notin run'.todo => Answered(q)') /\ (q \in run'.todo => AsRead(q)' /\ InHand(q)')
  <2>1. PostStays(q) /\ Q!OpenOf(q)' = Q!OpenOf(q) /\ (q \in run'.todo <=> q \in run.todo)
        BY <1>1
  <2>2. (q \notin run.todo => Answered(q)) /\ (q \in run.todo => AsRead(q))
        BY <1>1 DEF QueueInv, RunFits
  <2>3. q \notin run'.todo => Answered(q)'
        BY <2>1, <2>2, AnswerStays
  <2>4. posted'[q] = posted[q] /\ decisive'[q] = decisive[q]
        BY <2>1 DEF PostStays
  <2>5. q \in run'.todo => AsRead(q)'
        BY <2>1, <2>2, <2>4, StaysAsItIs DEF AsRead
  <2>6. q \in run.todo => ~(q <= p)
    <3>1. p \in Int /\ q \in Int
          BY <1>1, PostsAreNumbered DEF QueueInv, QueueType, Runs
    <3> QED BY <1>1, <3>1
  <2>7. q \in run'.todo => InHand(q)'
        BY <2>1, <2>6 DEF InHand
  <2> QED BY <2>3, <2>5, <2>7
<1>2. \A q \in Waiting \ touched :
        (q \notin run'.todo => Answered(q)') /\ (q \in run'.todo => AsRead(q)' /\ InHand(q)')
      BY <1>1
<1> QED BY <1>2 DEF RunFits

\* The desk, the journal and the run's end.
Beside == <<posted, flaw, confirmations, reviewed, decisive, tries, batch>>

\* A run that ends leaves nothing to say.
LEMMA RunEnds ==
    ASSUME QueueInv, run' = Q!NoRun, run.pc # "idle", touched' = {}, UNCHANGED <<Beside, product>>,
           \A i \in items' : i.post \in Waiting /\ i.kind \in Q!CandidateKinds
    PROVE  QueueInv'
<1> USE DEF Beside
<1>1. run' \in Runs /\ run'.pc = "idle"
      BY DEF Q!NoRun, Runs
<1>2. QueueType'
      BY <1>1 DEF QueueInv, QueueType
<1>3. batch'.pc = "idle"
      BY DEF QueueInv, QueueType
<1>4. BatchFits' /\ RunFits'
      BY <1>1, <1>3 DEF BatchFits, Q!BatchStops, RunFits
<1> QED BY <1>2, <1>4 DEF QueueInv

\* A step that only moves the run on, or leaves the post, and may touch its items.
LEMMA RunMoves ==
    ASSUME QueueInv, run.pc # "idle", NEW p \in run.todo, \A q \in run.todo : p <= q,
           NEW next \in {"next", "pay", "paid"}, NEW left \in {{}, {p}},
           run' = [run EXCEPT !.pc = next, !.todo = @ \ left],
           next # "next" => left = {},
           touched' = touched, UNCHANGED Beside,
           product' \in [Waiting -> Products], \A q \in Waiting \ {p} : product'[q] = product[q],
           \A q \in Waiting \ {p} : Q!OpenOf(q)' = Q!OpenOf(q),
           \A i \in items' : i.post \in Waiting /\ i.kind \in Q!CandidateKinds,
           p \notin touched => /\ left = {p} => Answered(p)'
                               /\ left = {} => AsRead(p)' /\ InHand(p)'
    PROVE  QueueInv'
<1> USE DEF Beside
<1>1. /\ run' \in Runs /\ run'.pc = next /\ run'.todo = run.todo \ left
      /\ run'.seen = run.seen /\ run'.sched = run.sched
      BY DEF QueueInv, QueueType, Runs
<1>2. batch.pc = "idle"
      BY DEF QueueInv, QueueType
<1>3. QueueType'
      BY <1>1, <1>2 DEF QueueInv, QueueType
<1>4. BatchFits'
      BY <1>2 DEF BatchFits, Q!BatchStops
<1>5. \A q \in Waiting \ {p} : PostStays(q) /\ Q!OpenOf(q)' = Q!OpenOf(q)
      BY DEF PostStays
<1>6. RunFits'
      BY <1>1, <1>3, <1>5, RunGoesOn
<1> QED BY <1>3, <1>4, <1>6 DEF QueueInv
--------------------------------------------------------------------------------
\* What the run knows of the post whose turn it is.
LEMMA AtTurn ==
    ASSUME QueueInv, NEW p \in Waiting, Q!Turn(p) \/ \E pc \in {"pay", "paid"} : Q!Working(p, pc)
    PROVE  /\ run.pc # "idle" /\ p \in run.todo /\ \A q \in run.todo : p <= q
           /\ p \notin touched => AsRead(p) /\ InHand(p)
BY DEF Q!Turn, Q!Working, QueueInv, RunFits

\* The posts that are passed over, or have an issue.
LEMMA SkipsKeep ==
    ASSUME QueueInv, NEW p \in Waiting, UNCHANGED <<Beside, product>>,
           touched' = IF run'.pc = "idle" THEN {} ELSE touched,
           Q!SkipPaused(p) \/ Q!SkipScheduled(p) \/ Q!SkipUnresolved(p)
    PROVE  QueueInv'
<1> USE DEF Beside
<1>1. Q!Turn(p) /\ run' = [run EXCEPT !.pc = "next", !.todo = @ \ {p}]
      BY DEF Q!SkipPaused, Q!SkipScheduled, Q!SkipUnresolved, Q!NextPost
<1>2. /\ run.pc # "idle" /\ p \in run.todo /\ \A q \in run.todo : p <= q
      /\ p \notin touched => AsRead(p)
      BY <1>1, AtTurn
<1>3. run'.pc = "next"
      BY <1>1 DEF QueueInv, QueueType, Runs
<1>4. PostStays(p)
      BY DEF PostStays
<1>5. product' \in [Waiting -> Products] /\ QueueType
      BY DEF QueueInv, QueueType
<1>6. /\ \A q \in Waiting \ {p} : Q!OpenOf(q)' = Q!OpenOf(q)
      /\ \A i \in items' : i.post \in Waiting /\ i.kind \in Q!CandidateKinds
      /\ p \notin touched => Answered(p)'
  <2>1. CASE Q!SkipPaused(p)
    <3>1. items' = items \ Q!Cleared(p, {"ready_to_publish"}, {}) /\ Q!Paused(p)
          BY <2>1 DEF Q!SkipPaused
    <3>2. Q!Cleared(p, {"ready_to_publish"}, {}) \in SUBSET Q!OpenOf(p)
          BY DEF Q!Cleared
    <3>3. /\ Q!OpenOf(p)' = Q!OpenOf(p) \ Q!Cleared(p, {"ready_to_publish"}, {})
          /\ \A q \in Waiting \ {p} : Q!OpenOf(q)' = Q!OpenOf(q)
          /\ \A i \in items' : i.post \in Waiting /\ i.kind \in Q!CandidateKinds
          BY <1>5, <3>1, <3>2, SomeGo
    <3>4. \A i \in Q!OpenOf(p)' : i.kind # "ready_to_publish"
          BY <3>3 DEF Q!Cleared
    <3>5. p \notin touched => Answered(p)'
          BY <1>2, <1>4, <3>1, <3>4, StaysAsItIs DEF Answered, AsRead
    <3> QED BY <3>3, <3>5
  <2>2. CASE Q!SkipScheduled(p)
    <3>1. items' = Q!Only(p, {}) /\ p \in run.sched /\ ~Q!Paused(p)
          BY <2>2 DEF Q!SkipScheduled
    <3>2. /\ Q!OpenOf(p)' = {} /\ \A q \in Waiting \ {p} : Q!OpenOf(q)' = Q!OpenOf(q)
          /\ \A i \in items' : i.post \in Waiting /\ i.kind \in Q!CandidateKinds
          BY <1>5, <3>1, OnlyOneChanges
    <3>3. p \notin touched => Q!Wanted(p) = {}
          BY <1>2, <3>1 DEF Q!Wanted, AsRead
    <3>4. p \notin touched => Answered(p)'
          BY <1>2, <1>4, <3>1, <3>2, <3>3, StaysAsItIs DEF Answered, AsRead
    <3> QED BY <3>2, <3>4
  <2>3. CASE Q!SkipUnresolved(p)
    <3> DEFINE active == {Q!Unresolved(p, run.seen[p])}
    <3>1. items' = Q!Only(p, active) /\ decisive[p] = "pending" /\ ~Q!Paused(p)
          BY <2>3 DEF Q!SkipUnresolved
    <3>2. \A i \in active : i.post = p /\ i.kind \in Q!CandidateKinds
          BY ItemFields DEF Q!Unresolved, Q!CandidateKinds
    <3>4. p \notin touched => Q!Wanted(p) = active
          BY <1>2, <3>1 DEF Q!Wanted, AsRead
    <3> HIDE DEF active
    <3>3. /\ Q!OpenOf(p)' = active
          /\ \A q \in Waiting \ {p} : Q!OpenOf(q)' = Q!OpenOf(q)
          /\ \A i \in items' : i.post \in Waiting /\ i.kind \in Q!CandidateKinds
          BY <1>5, <3>1, <3>2, OnlyOneChanges
    <3>5. p \notin touched => Answered(p)'
          BY <1>2, <1>4, <3>1, <3>3, <3>4, StaysAsItIs DEF Answered, AsRead
    <3> QED BY <3>3, <3>5
  <2> QED BY <2>1, <2>2, <2>3
<1> DEFINE left == {p}
<1>7. run' = [run EXCEPT !.pc = "next", !.todo = @ \ left] /\ left \in {{}, {p}} /\ left = {p} /\ left # {}
      BY <1>1
<1> HIDE DEF left
<1> QED BY <1>2, <1>3, <1>5, <1>6, <1>7, RunMoves

\* The post is examined; nothing is paid while there is an issue.
LEMMA ExamineKeeps ==
    ASSUME QueueInv, NEW p \in Waiting, UNCHANGED <<Beside, product>>,
           touched' = IF run'.pc = "idle" THEN {} ELSE touched, Q!Examine(p)
    PROVE  QueueInv'
<1> USE DEF Beside
<1>1. Q!Turn(p) /\ ~Q!Paused(p) /\ p \notin run.sched /\ decisive[p] # "pending"
      BY DEF Q!Examine
<1>2. /\ run.pc # "idle" /\ p \in run.todo /\ \A q \in run.todo : p <= q
      /\ p \notin touched => AsRead(p)
      BY <1>1, AtTurn
<1>3. PostStays(p)
      BY DEF PostStays
<1>4. product' \in [Waiting -> Products] /\ QueueType
      BY DEF QueueInv, QueueType
<1>5. p \notin touched => decisive[p] = "none"
      BY <1>1, <1>2 DEF AsRead, QueueInv, QueueType
<1> DEFINE issue == Q!PrepaidIssue(p, run.seen[p])
<1>6. p \notin touched => Q!PrepaidIssue(p, posted[p]) = issue
      BY <1>2 DEF AsRead
<1>7. \A i \in issue : i.post = p /\ i.kind \in Q!CandidateKinds
      BY IssuesOf
<1>8. IF issue # {}
      THEN items' = Q!Only(p, issue) /\ run' = [run EXCEPT !.pc = "next", !.todo = @ \ {p}]
      ELSE items' = items \ Q!Cleared(p, Q!PrepaidKinds, {}) /\ run' = [run EXCEPT !.pc = "pay"]
      BY DEF Q!Examine, Q!Goto, Q!NextPost
<1> HIDE DEF issue
<1>9. CASE issue # {}
  <2>1. run' = [run EXCEPT !.pc = "next", !.todo = @ \ {p}] /\ items' = Q!Only(p, issue)
        BY <1>8, <1>9
  <2>2. run'.pc = "next"
        BY <2>1 DEF QueueInv, QueueType, Runs
  <2>3. /\ Q!OpenOf(p)' = issue
        /\ \A q \in Waiting \ {p} : Q!OpenOf(q)' = Q!OpenOf(q)
        /\ \A i \in items' : i.post \in Waiting /\ i.kind \in Q!CandidateKinds
        BY <1>4, <1>7, <2>1, OnlyOneChanges
  <2>4. p \notin touched => Q!Wanted(p) = issue
        BY <1>5, <1>6, <1>9 DEF Q!Wanted
  <2>5. p \notin touched => Answered(p)'
        BY <1>1, <1>2, <1>3, <2>3, <2>4, StaysAsItIs DEF Answered, AsRead
  <2> DEFINE left == {p}
  <2>6. run' = [run EXCEPT !.pc = "next", !.todo = @ \ left] /\ left \in {{}, {p}} /\ left = {p} /\ left # {}
        BY <2>1
  <2> HIDE DEF left
  <2> QED BY <1>2, <1>4, <2>2, <2>3, <2>5, <2>6, RunMoves
<1>10. CASE issue = {}
  <2> DEFINE gone == Q!Cleared(p, Q!PrepaidKinds, {})
             left == {}
  <2>1. run' = [run EXCEPT !.pc = "pay", !.todo = @ \ left] /\ items' = items \ gone
    <3>1. run.todo \ {} = run.todo
          OBVIOUS
    <3>2. run' = [run EXCEPT !.pc = "pay"] /\ items' = items \ gone
          BY <1>8, <1>10
    <3>3. run \in Runs
          BY <1>4 DEF QueueType
    <3>4. [run EXCEPT !.pc = "pay"] = [run EXCEPT !.pc = "pay", !.todo = @ \ left]
          BY <3>1, <3>3 DEF Runs
    <3> QED BY <3>2, <3>4
  <2>2. left \in {{}, {p}} /\ left = {} /\ left # {p} /\ gone \in SUBSET Q!OpenOf(p)
        BY DEF Q!Cleared
  <2> HIDE DEF gone, left
  <2>3. run'.pc = "pay" /\ run'.todo = run.todo /\ run'.seen = run.seen /\ run'.sched = run.sched
        BY <2>1, <2>2 DEF QueueInv, QueueType, Runs
  <2>4. /\ \A q \in Waiting \ {p} : Q!OpenOf(q)' = Q!OpenOf(q)
        /\ \A i \in items' : i.post \in Waiting /\ i.kind \in Q!CandidateKinds
        BY <1>4, <2>1, <2>2, SomeGo
  <2>5. p \notin touched => AsRead(p)'
        BY <1>2, <1>3, <2>3, StaysAsItIs DEF AsRead
  <2>6. p \notin touched => InHand(p)'
        BY <1>1, <1>3, <1>5, <1>6, <1>10, StaysAsItIs DEF InHand, PostStays
  <2> QED BY <1>2, <1>4, <2>1, <2>2, <2>3, <2>4, <2>5, <2>6, RunMoves
<1> QED BY <1>9, <1>10
--------------------------------------------------------------------------------
\* The paid stages: they change what is missing only, or end the run.
LEMMA PaidKeeps ==
    ASSUME QueueInv, NEW p \in Waiting, UNCHANGED Beside,
           touched' = IF run'.pc = "idle" THEN {} ELSE touched,
           Q!Pay(p) \/ Q!NothingToPay(p)
    PROVE  QueueInv'
<1> USE DEF Beside
<1>1. Q!Working(p, "pay") /\ ~Q!Paused(p) /\ items' = items /\ run' = [run EXCEPT !.pc = "paid"]
      BY DEF Q!Pay, Q!NothingToPay, Q!Goto
<1>2. /\ run.pc = "pay" /\ p \in run.todo /\ \A q \in run.todo : p <= q
      /\ p \notin touched => AsRead(p) /\ InHand(p)
      BY <1>1, AtTurn DEF Q!Working
<1>3. QueueType
      BY DEF QueueInv
<1>4. run'.pc = "paid" /\ run'.todo = run.todo /\ run'.seen = run.seen /\ run'.sched = run.sched
      BY <1>1, <1>3 DEF QueueType, Runs
<1>5. /\ product' \in [Waiting -> Products] /\ \A q \in Waiting \ {p} : product'[q] = product[q]
      /\ product'[p] = product[p] \/ (~product[p].human /\ ~product'[p].human)
  <2>1. CASE product' = product
        BY <2>1, <1>3 DEF QueueType
  <2>2. CASE /\ ~product[p].human
             /\ product' = [product EXCEPT ![p] = [no |-> @.no + 1, of |-> posted[p], human |-> FALSE]]
    <3>1. product[p].no \in Nat /\ posted[p] \in Nat
          BY <1>3 DEF QueueType, Products
    <3>2. [no |-> product[p].no + 1, of |-> posted[p], human |-> FALSE] \in Products
          BY <3>1 DEF Products
    <3> QED BY <2>2, <3>2, <1>3 DEF QueueType
  <2> QED BY <2>1, <2>2 DEF Q!Pay, Q!NothingToPay
<1>6. /\ Q!Unreadable(p) => product'[p] = product[p]
      /\ ~Q!Unreadable(p) => ~Q!Unreadable(p)'
      BY <1>5 DEF Q!Unreadable
<1>7. Q!PrepaidIssue(p, posted[p]) = {} => Q!PrepaidIssue(p, posted[p])' = {}
  <2>1. CASE product'[p] = product[p]
    <3>1. PostStays(p)
          BY <2>1 DEF PostStays
    <3> QED BY <3>1, StaysAsItIs
  <2>2. CASE ~product[p].human /\ ~product'[p].human
        BY <2>2, <1>6 DEF Q!PrepaidIssue, Q!Unreadable
  <2> QED BY <1>5, <2>1, <2>2
<1>8. p \notin touched => AsRead(p)'
      BY <1>2, <1>4, <1>6 DEF AsRead
<1>9. p \notin touched => InHand(p)'
      BY <1>1, <1>2, <1>7 DEF InHand, Q!Paused
<1>10. \A q \in Waiting \ {p} : Q!OpenOf(q)' = Q!OpenOf(q)
      BY <1>1 DEF Q!OpenOf
<1>11. \A i \in items' : i.post \in Waiting /\ i.kind \in Q!CandidateKinds
      BY <1>1, <1>3 DEF QueueType
<1> DEFINE left == {}
<1>12. run' = [run EXCEPT !.pc = "paid", !.todo = @ \ left]
  <2>1. run.todo \ {} = run.todo
        OBVIOUS
  <2>2. [run EXCEPT !.pc = "paid"] = [run EXCEPT !.pc = "paid", !.todo = @ \ left]
        BY <1>3, <2>1 DEF QueueType, Runs
  <2> QED BY <1>1, <2>2
<1>13. left \in {{}, {p}} /\ left = {} /\ left # {p}
      OBVIOUS
<1> HIDE DEF left
<1> QED BY <1>2, <1>4, <1>5, <1>8, <1>9, <1>10, <1>11, <1>12, <1>13, RunMoves

LEMMA HeldBackKeeps ==
    ASSUME QueueInv, NEW p \in Waiting, UNCHANGED Beside,
           touched' = IF run'.pc = "idle" THEN {} ELSE touched, Q!HeldBack(p)
    PROVE  QueueInv'
<1> USE DEF Beside
<1>1. /\ \E pc \in {"pay", "paid"} : run.pc = pc /\ Q!Working(p, pc)
      /\ Q!Paused(p) /\ run' = [run EXCEPT !.pc = "next", !.todo = @ \ {p}]
      /\ product' = product /\ items' = items
      BY DEF Q!HeldBack, Q!NextPost
<1>2. /\ run.pc # "idle" /\ p \in run.todo /\ \A q \in run.todo : p <= q
      /\ p \notin touched => InHand(p)
      BY <1>1, AtTurn
<1>3. p \in touched
      BY <1>1, <1>2 DEF InHand
<1>4. run'.pc = "next" /\ product' \in [Waiting -> Products]
      BY <1>1 DEF QueueInv, QueueType, Runs
<1>5. /\ \A q \in Waiting \ {p} : Q!OpenOf(q)' = Q!OpenOf(q)
      /\ \A i \in items' : i.post \in Waiting /\ i.kind \in Q!CandidateKinds
      BY <1>1 DEF Q!OpenOf, QueueInv, QueueType
<1> DEFINE left == {p}
<1>6. run' = [run EXCEPT !.pc = "next", !.todo = @ \ left] /\ left \in {{}, {p}} /\ left = {p} /\ left # {}
      BY <1>1
<1> HIDE DEF left
<1> QED BY <1>1, <1>2, <1>3, <1>4, <1>5, <1>6, RunMoves

\* The post is composed: it is ready, or an item says why not.
LEMMA ComposeKeeps ==
    ASSUME QueueInv, NEW p \in Waiting, UNCHANGED Beside,
           touched' = IF run'.pc = "idle" THEN {} ELSE touched, Q!Compose(p)
    PROVE  QueueInv'
<1> USE DEF Beside
<1> DEFINE active == {IF Q!Composes(p) THEN Q!Ready(p, run.seen[p]) ELSE Q!Offline(p, run.seen[p])}
<1>1. /\ Q!Working(p, "paid") /\ ~Q!Paused(p) /\ items' = Q!Only(p, active)
      /\ run' = [run EXCEPT !.pc = "next", !.todo = @ \ {p}] /\ product' = product
      BY DEF Q!Compose, Q!NextPost
<1>2. /\ run.pc = "paid" /\ p \in run.todo /\ \A q \in run.todo : p <= q
      /\ p \notin touched => AsRead(p) /\ InHand(p)
      BY <1>1, AtTurn DEF Q!Working
<1>3. PostStays(p)
      BY <1>1 DEF PostStays
<1>4. product' \in [Waiting -> Products] /\ QueueType
      BY <1>1 DEF QueueInv, QueueType
<1>5. \A i \in active : i.post = p /\ i.kind \in Q!CandidateKinds
      BY ItemFields DEF Q!Ready, Q!Offline, Q!CandidateKinds
<1>6. p \notin touched => Q!Wanted(p) = active
      BY <1>2 DEF Q!Wanted, AsRead, InHand
<1> HIDE DEF active
<1>7. /\ Q!OpenOf(p)' = active
      /\ \A q \in Waiting \ {p} : Q!OpenOf(q)' = Q!OpenOf(q)
      /\ \A i \in items' : i.post \in Waiting /\ i.kind \in Q!CandidateKinds
      BY <1>1, <1>4, <1>5, OnlyOneChanges
<1>8. p \notin touched => Answered(p)'
      BY <1>1, <1>2, <1>3, <1>6, <1>7, StaysAsItIs DEF Answered, AsRead
<1>9. run'.pc = "next"
      BY <1>1, <1>4 DEF QueueType, Runs
<1> DEFINE left == {p}
<1>10. run' = [run EXCEPT !.pc = "next", !.todo = @ \ left] /\ left \in {{}, {p}} /\ left = {p} /\ left # {}
      BY <1>1
<1> HIDE DEF left
<1> QED BY <1>1, <1>2, <1>4, <1>7, <1>8, <1>9, <1>10, RunMoves

\* The ends of a run.
LEMMA StopsKeep ==
    ASSUME QueueInv, UNCHANGED Beside, touched' = IF run'.pc = "idle" THEN {} ELSE touched,
           \/ \E p \in Waiting : Q!NoSlotLeft(p)
           \/ \E p \in Waiting, kind \in {"budget_stopped", "paid_request_unresolved"} : Q!PayStops(p, kind)
           \/ Q!End \/ (Q!Die /\ product' = product)
    PROVE  QueueInv'
<1>1. run' = Q!NoRun /\ product' = product
      BY DEF Q!NoSlotLeft, Q!PayStops, Q!End, Q!Die, Q!StopRun
<1>2. run.pc # "idle" /\ touched' = {}
      BY <1>1 DEF Q!NoSlotLeft, Q!PayStops, Q!End, Q!Die, Q!Working, Q!NoRun
<1>3. \A i \in items' : i.post \in Waiting /\ i.kind \in Q!CandidateKinds
  <2>1. CASE items' \subseteq items
        BY <2>1 DEF QueueInv, QueueType
  <2>2. ASSUME NEW p \in Waiting, NEW kind \in {"budget_stopped", "paid_request_unresolved"}, Q!PayStops(p, kind)
        PROVE  \A i \in items' : i.post \in Waiting /\ i.kind \in Q!CandidateKinds
    <3> DEFINE active == {Q!Item(kind, p, run.seen[p], "")}
    <3>1. items' = Q!Only(p, active)
          BY <2>2 DEF Q!PayStops
    <3>4. kind \in Q!CandidateKinds
          BY DEF Q!CandidateKinds
    <3>2. \A i \in active : i.post = p /\ i.kind \in Q!CandidateKinds
      <4>1. Q!Item(kind, p, run.seen[p], "").post = p /\ Q!Item(kind, p, run.seen[p], "").kind = kind
            BY DEF Q!Item
      <4> QED BY <3>4, <4>1
    <3>3. QueueType
          BY DEF QueueInv
    <3> HIDE DEF active
    <3> QED BY <3>1, <3>2, <3>3, OnlyOneChanges
  <2>3. ASSUME Q!Die PROVE items' \subseteq items
        BY <2>3 DEF Q!Die
  <2> QED BY <2>1, <2>2, <2>3 DEF Q!NoSlotLeft, Q!End
<1> QED BY <1>1, <1>2, <1>3, RunEnds

LEMMA RunStepKeeps == ASSUME QueueInv, Q!RunStep PROVE QueueInv'
<1>1. UNCHANGED Beside /\ touched' = IF run'.pc = "idle" THEN {} ELSE touched
      BY DEF Q!RunStep, Q!ledger, Beside
<1>2. CASE \E p \in Waiting : \/ (Q!SkipPaused(p) \/ Q!SkipScheduled(p) \/ Q!SkipUnresolved(p) \/ Q!Examine(p))
                                 /\ UNCHANGED product
                              \/ Q!Pay(p) \/ Q!NothingToPay(p) \/ Q!HeldBack(p) \/ Q!Compose(p)
      BY <1>1, <1>2, SkipsKeep, ExamineKeeps, PaidKeeps, HeldBackKeeps, ComposeKeeps
<1>3. CASE \/ \E p \in Waiting : Q!NoSlotLeft(p)
           \/ \E p \in Waiting, kind \in {"budget_stopped", "paid_request_unresolved"} : Q!PayStops(p, kind)
           \/ Q!End \/ (Q!Die /\ product' = product)
      BY <1>1, <1>3, StopsKeep
<1>4. Q!Die => product' = product
      BY DEF Q!Die
<1> QED BY <1>2, <1>3, <1>4 DEF Q!RunStep
--------------------------------------------------------------------------------
\* A batch begins with posts that have no attempt.
LEMMA ApproveBatchKeeps ==
    ASSUME QueueInv, Q!Approve, UNCHANGED <<posted, flaw, product, confirmations, reviewed, decisive, tries, run, touched>>
    PROVE  QueueInv'
<1> DEFINE able == {i \in items : Q!Approvable(i)}
<1>1. PICK rows \in Q!Batches(able) :
          batch' = [pc |-> "reading", rows |-> rows, at |-> 1, frozen |-> 0]
      BY DEF Q!Approve
<1>2. run.pc = "idle" /\ batch.pc = "idle" /\ items' = items
      BY DEF Q!Approve, Q!PipelineFree
<1>3. \A i \in able : i.post \in Waiting /\ decisive[i.post] = "none"
      BY DEF Q!Approvable, QueueInv, QueueType
<1> HIDE DEF able
<1>4. PICK n \in Nat \ {0} : rows \in [1 .. n -> able]
  <2>1. Cardinality(Waiting) \in Nat
        BY PostsAreNumbered, FS_CardinalityType
  <2>2. Q!Cardinality(Waiting) = Cardinality(Waiting)
        BY DEF Q!Cardinality, Cardinality
  <2> QED BY <1>1, <2>1, <2>2 DEF Q!Batches
<1>5. rows \in Seq(able) /\ Len(rows) = n /\ DOMAIN rows = 1 .. n
      BY <1>4
<1>6. \A k, m \in DOMAIN rows : k # m => rows[k].post # rows[m].post
      BY <1>1 DEF Q!Batches
<1>7. \A k \in DOMAIN rows : rows[k].post \in Waiting /\ decisive[rows[k].post] = "none"
      BY <1>3, <1>4
<1>8. /\ batch'.pc = "reading" /\ batch'.rows = rows /\ batch'.at = 1
      /\ batch' = [pc |-> batch'.pc, rows |-> batch'.rows, at |-> batch'.at, frozen |-> batch'.frozen]
      BY <1>1
<1>9. QueueType'
      BY <1>2, <1>8 DEF QueueInv, QueueType, BatchSteps
<1>10. BatchRows' /\ AtHere'
      BY <1>5, <1>6, <1>7, <1>8 DEF BatchRows, AtHere
<1>11. Q!BatchStops'
      BY <1>5, <1>7, <1>8 DEF Q!BatchStops
<1> QED BY <1>2, <1>9, <1>10, <1>11 DEF QueueInv, BatchFits, RunFits

\* A batch that stops leaves nothing to say of it.
LEMMA BatchEnds ==
    ASSUME QueueInv, batch.pc # "idle", Q!StopBatch,
           UNCHANGED <<posted, flaw, product, confirmations, run, touched>>,
           reviewed' \in [Waiting -> {"pending_review", "snoozed", "approved", "scheduled"}],
           decisive' \in [Waiting -> {"none", "pending", "scheduled"}],
           tries' \in [Waiting -> Nat], items' \subseteq items
    PROVE  QueueInv'
<1>1. batch'.pc = "idle" /\ batch' = [pc |-> batch'.pc, rows |-> batch'.rows, at |-> batch'.at, frozen |-> batch'.frozen]
      BY DEF Q!StopBatch, Q!NoBatch
<1>2. run.pc = "idle"
      BY DEF QueueInv, QueueType
<1>3. QueueType'
      BY <1>1, <1>2 DEF QueueInv, QueueType, BatchSteps
<1> QED BY <1>1, <1>2, <1>3 DEF QueueInv, BatchFits, RunFits, Q!BatchStops

\* A batch that goes on, with what it does to the post it is at.
LEMMA BatchGoesOn ==
    ASSUME QueueInv, batch.pc # "idle", NEW next \in BatchSteps \ {"idle"}, NEW frozen, NEW at \in {batch.at, batch.at + 1},
           batch' = [pc |-> next, rows |-> batch.rows, at |-> at, frozen |-> frozen],
           UNCHANGED <<posted, flaw, product, confirmations, run, touched>>, items' \subseteq items,
           reviewed' \in [Waiting -> {"pending_review", "snoozed", "approved", "scheduled"}],
           decisive' \in [Waiting -> {"none", "pending", "scheduled"}],
           tries' \in [Waiting -> Nat],
           \A p \in Waiting \ {Q!Here} : decisive'[p] = decisive[p],
           at # batch.at => /\ batch.pc = "done" /\ next = "submit" /\ decisive' = decisive
                            /\ batch.at # Len(batch.rows),
           at = batch.at => /\ next \in {"reading", "submit", "armed"} => decisive'[Q!Here] = "none"
                            /\ next = "clicked" => decisive'[Q!Here] = "pending"
                            /\ next = "done" => decisive'[Q!Here] = "scheduled"
    PROVE  QueueInv'
<1>1. run.pc = "idle" /\ BatchRows /\ AtHere /\ Q!BatchStops
      BY DEF QueueInv, QueueType, BatchFits
<1>2. batch'.pc = next /\ batch'.rows = batch.rows /\ batch'.at = at
      /\ batch' = [pc |-> batch'.pc, rows |-> batch'.rows, at |-> batch'.at, frozen |-> batch'.frozen]
      OBVIOUS
<1>3. QueueType'
      BY <1>1, <1>2 DEF QueueInv, QueueType
<1>4. Q!Here = batch.rows[batch.at].post
      BY DEF Q!Here, Q!Row
<1>5. at \in DOMAIN batch.rows /\ BatchRows'
  <2>1. batch.at \in 1 .. Len(batch.rows) /\ Len(batch.rows) \in Nat
        BY <1>1 DEF BatchRows
  <2>2. at = batch.at \/ (at = batch.at + 1 /\ batch.at # Len(batch.rows))
        BY <2>1
  <2>3. at \in 1 .. Len(batch.rows)
        BY <2>1, <2>2
  <2>4. batch'.rows = batch.rows /\ batch'.at = at
        BY <1>2
  <2>5. BatchRows'
        BY <1>1, <2>3, <2>4 DEF BatchRows
  <2> QED BY <1>1, <2>3, <2>5 DEF BatchRows
<1>6. \A n \in DOMAIN batch.rows : n # batch.at => decisive'[batch.rows[n].post] = decisive[batch.rows[n].post]
      BY <1>1, <1>4 DEF BatchRows
<1>7. CASE at = batch.at
  <2>1. \A n \in DOMAIN batch.rows :
            /\ n < batch.at => decisive'[batch.rows[n].post] = "scheduled"
            /\ n > batch.at => decisive'[batch.rows[n].post] = "none"
    <3>1. batch.at \in Int /\ \A n \in DOMAIN batch.rows : n \in Int
          BY <1>1 DEF BatchRows
    <3> QED BY <1>1, <1>6, <3>1 DEF Q!BatchStops
  <2>3. Q!BatchStops'
        BY <1>2, <1>7, <2>1 DEF Q!BatchStops
  <2>2. AtHere'
        BY <1>2, <1>4, <1>7 DEF AtHere
  <2> QED BY <1>1, <1>2, <1>3, <1>5, <2>2, <2>3 DEF QueueInv, BatchFits, RunFits
<1>8. CASE at = batch.at + 1 /\ at # batch.at
  <2>1. decisive[batch.rows[batch.at].post] = "scheduled"
        BY <1>1, <1>8 DEF AtHere
  <2>5. \A n \in DOMAIN batch.rows :
            /\ n < at => decisive'[batch.rows[n].post] = "scheduled"
            /\ n > at => decisive'[batch.rows[n].post] = "none"
    <3>1. batch.at \in Int /\ \A n \in DOMAIN batch.rows : n \in Int
          BY <1>1 DEF BatchRows
    <3>2. decisive' = decisive
          BY <1>8
    <3>3. \A n \in DOMAIN batch.rows : n < at => n < batch.at \/ n = batch.at
          BY <1>8, <3>1
    <3>4. \A n \in DOMAIN batch.rows : n > at => n > batch.at
          BY <1>8, <3>1
    <3> QED BY <1>1, <2>1, <3>2, <3>3, <3>4 DEF Q!BatchStops
  <2>2. Q!BatchStops'
        BY <1>2, <2>5 DEF Q!BatchStops
  <2>3. decisive[batch.rows[at].post] = "none"
        BY <1>1, <1>5, <1>8 DEF Q!BatchStops, BatchRows
  <2>4. AtHere'
        BY <1>2, <1>8, <2>3 DEF AtHere
  <2> QED BY <1>1, <1>2, <1>3, <1>5, <2>2, <2>4 DEF QueueInv, BatchFits, RunFits
<1> QED BY <1>7, <1>8

LEMMA BatchStepKeeps == ASSUME QueueInv, Q!BatchStep PROVE QueueInv'
<1>1. /\ UNCHANGED <<posted, flaw, product, confirmations, run, touched>>
      /\ \/ Q!Approve /\ UNCHANGED <<decisive, tries, reviewed>>
         \/ Q!ReadMonth \/ Q!SubmitNext \/ Q!Click \/ Q!Readback \/ Q!Resolve \/ Q!BatchDies
      BY DEF Q!BatchStep, Q!ledger
<1>2. CASE Q!Approve /\ UNCHANGED <<decisive, tries, reviewed>>
      BY <1>1, <1>2, ApproveBatchKeeps
<1>3. batch = [pc |-> batch.pc, rows |-> batch.rows, at |-> batch.at, frozen |-> batch.frozen]
      BY DEF QueueInv, QueueType
<1>4. /\ reviewed \in [Waiting -> {"pending_review", "snoozed", "approved", "scheduled"}]
      /\ decisive \in [Waiting -> {"none", "pending", "scheduled"}] /\ tries \in [Waiting -> Nat]
      BY DEF QueueInv, QueueType
<1>5. batch.pc # "idle" => Q!Here \in Waiting /\ Q!Here = batch.rows[batch.at].post
      BY DEF QueueInv, BatchFits, BatchRows, Q!Here, Q!Row
<1>6. batch.pc # "idle" => AtHere /\ BatchRows
      BY DEF QueueInv, BatchFits
<1>7. CASE Q!ReadMonth
  <2>1. batch.pc = "reading" /\ items' = items /\ UNCHANGED <<decisive, tries, reviewed>>
        BY <1>7 DEF Q!ReadMonth, Q!ledger
  <2>2. CASE Q!StopBatch
        BY <1>1, <1>4, <2>1, <2>2, BatchEnds
  <2>3. CASE batch' = [batch EXCEPT !.pc = "submit"]
    <3>1. batch' = [pc |-> "submit", rows |-> batch.rows, at |-> batch.at, frozen |-> batch.frozen]
          BY <1>3, <2>3
    <3>2. decisive[Q!Here] = "none"
          BY <1>5, <1>6, <2>1 DEF AtHere
    <3> QED BY <1>1, <1>4, <2>1, <3>1, <3>2, BatchGoesOn DEF BatchSteps
  <2> QED BY <1>7, <2>2, <2>3 DEF Q!ReadMonth
<1>8. CASE Q!SubmitNext
  <2>1. batch.pc = "submit" /\ items' = items /\ UNCHANGED <<decisive, tries, reviewed>>
        BY <1>8 DEF Q!SubmitNext, Q!ledger
  <2>2. CASE Q!StopBatch
        BY <1>1, <1>4, <2>1, <2>2, BatchEnds
  <2>3. decisive[Q!Here] = "none"
        BY <1>5, <1>6, <2>1 DEF AtHere
  <2>4. CASE batch' = [batch EXCEPT !.pc = "armed", !.frozen = product[Q!Here].no]
    <3>1. batch' = [pc |-> "armed", rows |-> batch.rows, at |-> batch.at, frozen |-> product[Q!Here].no]
          BY <1>3, <2>4
    <3> QED BY <1>1, <1>4, <2>1, <2>3, <3>1, BatchGoesOn DEF BatchSteps
  <2> QED BY <1>8, <2>2, <2>3, <2>4 DEF Q!SubmitNext
<1>9. CASE Q!Click
  <2>1. batch.pc = "armed" /\ items' = items /\ UNCHANGED reviewed
        /\ tries' = [tries EXCEPT ![Q!Here] = @ + 1]
        BY <1>9 DEF Q!Click
  <2>2. tries' \in [Waiting -> Nat]
        BY <1>4, <1>5, <2>1
  <2>3. CASE decisive' = [decisive EXCEPT ![Q!Here] = "pending"] /\ batch' = [batch EXCEPT !.pc = "clicked"]
    <3>1. batch' = [pc |-> "clicked", rows |-> batch.rows, at |-> batch.at, frozen |-> batch.frozen]
          BY <1>3, <2>3
    <3>2. /\ decisive' \in [Waiting -> {"none", "pending", "scheduled"}]
          /\ decisive'[Q!Here] = "pending" /\ \A p \in Waiting \ {Q!Here} : decisive'[p] = decisive[p]
          BY <1>4, <1>5, <2>1, <2>3
    <3> QED BY <1>1, <1>4, <2>1, <2>2, <3>1, <3>2, BatchGoesOn DEF BatchSteps
  <2>4. CASE Q!StopBatch /\ \E s \in {"none", "pending"} : decisive' = [decisive EXCEPT ![Q!Here] = s]
    <3>1. decisive' \in [Waiting -> {"none", "pending", "scheduled"}]
          BY <1>4, <1>5, <2>1, <2>4
    <3> QED BY <1>1, <1>4, <2>1, <2>2, <2>4, <3>1, BatchEnds
  <2> QED BY <1>9, <2>3, <2>4 DEF Q!Click
<1>10. CASE Q!Readback
  <2>1. batch.pc = "clicked" /\ items' = items /\ UNCHANGED tries
        BY <1>10 DEF Q!Readback
  <2>2. CASE Q!StopBatch /\ UNCHANGED <<decisive, reviewed>>
        BY <1>1, <1>4, <2>1, <2>2, BatchEnds
  <2>3. CASE /\ decisive' = [decisive EXCEPT ![Q!Here] = "scheduled"]
             /\ reviewed' = [reviewed EXCEPT ![Q!Here] = "scheduled"]
             /\ batch' = [batch EXCEPT !.pc = "done"]
    <3>1. batch' = [pc |-> "done", rows |-> batch.rows, at |-> batch.at, frozen |-> batch.frozen]
          BY <1>3, <2>3
    <3>2. /\ decisive' \in [Waiting -> {"none", "pending", "scheduled"}]
          /\ decisive'[Q!Here] = "scheduled" /\ \A p \in Waiting \ {Q!Here} : decisive'[p] = decisive[p]
          /\ reviewed' \in [Waiting -> {"pending_review", "snoozed", "approved", "scheduled"}]
          BY <1>4, <1>5, <2>1, <2>3
    <3> QED BY <1>1, <1>4, <2>1, <3>1, <3>2, BatchGoesOn DEF BatchSteps
  <2> QED BY <1>10, <2>2, <2>3 DEF Q!Readback
<1>11. CASE Q!Resolve
  <2>1. /\ batch.pc = "done" /\ items' \subseteq items /\ UNCHANGED <<decisive, tries, reviewed>>
        /\ IF batch.at = Len(batch.rows) THEN Q!StopBatch
           ELSE batch' = [batch EXCEPT !.pc = "submit", !.at = @ + 1]
        BY <1>11 DEF Q!Resolve, Q!ledger
  <2>2. CASE Q!StopBatch
        BY <1>1, <1>4, <2>1, <2>2, BatchEnds
  <2>3. CASE batch.at # Len(batch.rows) /\ batch' = [batch EXCEPT !.pc = "submit", !.at = @ + 1]
    <3>1. batch' = [pc |-> "submit", rows |-> batch.rows, at |-> batch.at + 1, frozen |-> batch.frozen]
          BY <1>3, <2>3
    <3>2. batch.at + 1 # batch.at
          BY <1>6, <2>1 DEF BatchRows
    <3> QED BY <1>1, <1>4, <2>1, <2>3, <3>1, <3>2, BatchGoesOn DEF BatchSteps
  <2> QED BY <2>1, <2>2, <2>3
<1>12. CASE Q!BatchDies
      BY <1>1, <1>4, <1>12, BatchEnds DEF Q!BatchDies, Q!ledger
<1> QED BY <1>1, <1>2, <1>7, <1>8, <1>9, <1>10, <1>11, <1>12
--------------------------------------------------------------------------------
\* What happens beside the run and the batch counts as a change of its post.
LEMMA BesideKeeps == ASSUME QueueInv, NEW p \in Waiting, Q!Beside(p) PROVE QueueInv'
<1>1. /\ UNCHANGED <<items, run, batch>>
      /\ touched' = IF run.pc = "idle" THEN touched ELSE touched \cup {p}
      BY DEF Q!Beside, Q!Change
<1>2. QueueType
      BY DEF QueueInv
<1>3. /\ posted' \in [Waiting -> Nat] /\ flaw' \in [Waiting -> Q!Flaws]
      /\ product' \in [Waiting -> Products] /\ confirmations' \in [Waiting -> Nat]
      /\ reviewed' \in [Waiting -> {"pending_review", "snoozed", "approved", "scheduled"}]
      /\ decisive' \in [Waiting -> {"none", "pending", "scheduled"}] /\ tries' \in [Waiting -> Nat]
      /\ \A q \in Waiting \ {p} : PostStays(q)
      /\ batch.pc # "idle" => decisive' = decisive
  <2> USE <1>2 DEF QueueType, Q!ledger, PostStays
  <2>1. CASE Q!Capture(p)
        BY <2>1 DEF Q!Capture
  <2>2. CASE Q!Edit(p)
    <3>1. [no |-> product[p].no + 1, of |-> posted[p], human |-> TRUE] \in Products
      <4>1. product[p].no \in Nat /\ posted[p] \in Nat
            BY DEF Products
      <4> QED BY <4>1 DEF Products
    <3> QED BY <2>2, <3>1 DEF Q!Edit
  <2>3. CASE Q!Confirm(p)
    <3>1. product[p].no \in Nat
          BY DEF Products
    <3> QED BY <2>3, <3>1 DEF Q!Confirm
  <2>4. CASE Q!Snooze(p)
        BY <2>4 DEF Q!Snooze
  <2>5. CASE Q!PublishApart(p)
        BY <2>5 DEF Q!PublishApart, Q!PublishFree
  <2>6. CASE Q!Settle(p)
        BY <2>6 DEF Q!Settle, Q!PublishFree
  <2> QED BY <2>1, <2>2, <2>3, <2>4, <2>5, <2>6 DEF Q!Beside
<1>4. QueueType'
      BY <1>1, <1>2, <1>3 DEF QueueType
<1>5. BatchFits'
  <2>1. CASE batch.pc = "idle"
        BY <1>1, <2>1 DEF BatchFits, Q!BatchStops
  <2>2. CASE batch.pc # "idle"
        BY <1>1, <1>3, <2>2 DEF QueueInv, BatchFits, Q!BatchStops, BatchRows, AtHere
  <2> QED BY <2>1, <2>2
<1>6. RunFits'
  <2>1. CASE run.pc = "idle"
        BY <1>1, <2>1 DEF RunFits
  <2>2. CASE run.pc # "idle"
    <3>1. ASSUME NEW q \in Waiting \ touched'
          PROVE  (q \notin run'.todo => Answered(q)') /\ (q \in run'.todo => AsRead(q)' /\ InHand(q)')
      <4>1. q \in Waiting \ touched /\ PostStays(q) /\ Q!OpenOf(q)' = Q!OpenOf(q)
            BY <1>1, <1>3, <2>2, <3>1 DEF Q!OpenOf
      <4>2. (q \notin run.todo => Answered(q)) /\ (q \in run.todo => AsRead(q) /\ InHand(q))
            BY <2>2, <4>1 DEF QueueInv, RunFits
      <4>3. q \notin run'.todo => Answered(q)'
            BY <1>1, <4>1, <4>2, AnswerStays
      <4>4. q \in run'.todo => AsRead(q)'
            BY <1>1, <4>1, <4>2, StaysAsItIs DEF AsRead, PostStays
      <4>5. q \in run'.todo => InHand(q)'
            BY <1>1, <4>1, <4>2, StaysAsItIs DEF InHand, PostStays
      <4> QED BY <4>3, <4>4, <4>5
    <3> QED BY <3>1 DEF RunFits
  <2> QED BY <2>1, <2>2
<1> QED BY <1>4, <1>5, <1>6 DEF QueueInv

\* Every step keeps it.
LEMMA QueueKeeps == QueueInv /\ [Q!Next]_candidates => QueueInv'
<1> SUFFICES ASSUME QueueInv, [Q!Next]_candidates PROVE QueueInv'
    OBVIOUS
<1>1. CASE UNCHANGED candidates
  <2>1. UNCHANGED <<posted, flaw, product, confirmations, reviewed, decisive, tries, items, run, touched, batch>>
        BY <1>1 DEF candidates
  <2>2. \A p : PostStays(p) /\ Q!OpenOf(p)' = Q!OpenOf(p)
        BY <2>1 DEF PostStays, Q!OpenOf
  <2>3. QueueType'
        BY <2>1 DEF QueueInv, QueueType
  <2>4. BatchFits'
        BY <2>1 DEF QueueInv, BatchFits, Q!BatchStops, BatchRows, AtHere
  <2>5. RunFits'
    <3>1. ASSUME run.pc # "idle", NEW q \in Waiting \ touched
          PROVE  (q \notin run'.todo => Answered(q)') /\ (q \in run'.todo => AsRead(q)' /\ InHand(q)')
      <4>1. (q \notin run.todo => Answered(q)) /\ (q \in run.todo => AsRead(q) /\ InHand(q))
            BY <3>1 DEF QueueInv, RunFits
      <4>2. q \notin run'.todo => Answered(q)'
            BY <2>1, <2>2, <4>1, AnswerStays
      <4>3. q \in run'.todo => AsRead(q)'
            BY <2>1, <2>2, <4>1, StaysAsItIs DEF AsRead
      <4>4. q \in run'.todo => InHand(q)'
            BY <2>1, <2>2, <4>1, StaysAsItIs DEF InHand
      <4> QED BY <4>2, <4>3, <4>4
    <3> QED BY <2>1, <3>1 DEF RunFits
  <2> QED BY <2>3, <2>4, <2>5 DEF QueueInv
<1>2. CASE Q!Next
      BY <1>2, BeginKeeps, RunStepKeeps, BatchStepKeeps, BesideKeeps DEF Q!Next
<1> QED BY <1>1, <1>2

\* The invariant holds always.
LEMMA QueueInvariant == Q!Spec => []QueueInv
<1>1. [Q!Next]_(Q!vars) => [Q!Next]_candidates
      BY DEF Q!vars, Q!desk, Q!ledger, candidates
<1> QED BY <1>1, QueueStarts, QueueKeeps, PTL DEF Q!Spec
--------------------------------------------------------------------------------
(* Behind a post whose outcome is not certain nothing of a batch is submitted, *)
(* and what lies before it is scheduled (pipeline/engine.py, approve).         *)
THEOREM BatchesStop == Q!Spec => []ApprovalBatchStops
<1>1. QueueInv => ApprovalBatchStops
  <2>1. QueueInv => Q!TypeOK
        BY DEF QueueInv, QueueType, Runs, BatchSteps, Q!TypeOK
  <2> QED BY <2>1 DEF QueueInv, BatchFits, ApprovalBatchStops
<1> QED BY <1>1, QueueInvariant, PTL

\* What a finished run says, and what a batch resolves.
OneAnswerStep ==
    run.pc # "idle" /\ run.pc' = "idle" /\ run.todo = {} =>
        \A p \in Waiting \ touched :
            IF Q!Unreadable(p) THEN Q!BoundaryIssue(p) \in items
            ELSE IF Q!Paused(p) THEN \A i \in Q!OpenOf(p) : i.kind # "ready_to_publish"
            ELSE Q!OpenOf(p) = Q!Wanted(p)
AnsweredStep == \A i \in items \ items' : batch.pc # "idle" => decisive[i.post] = "scheduled"

LEMMA RunAnswers == ASSUME QueueInv PROVE OneAnswerStep
BY DEF QueueInv, RunFits, Answered, OneAnswerStep

LEMMA BatchAnswers == ASSUME QueueInv, [Q!Next]_candidates PROVE AnsweredStep
<1> SUFFICES ASSUME NEW i \in items \ items', batch.pc # "idle" PROVE decisive[i.post] = "scheduled"
    BY DEF AnsweredStep
<1>1. run.pc = "idle"
      BY DEF QueueInv, QueueType
<1>2. Q!BatchStep
  <2>1. ~Q!Begin /\ ~UNCHANGED candidates /\ \A p \in Waiting : ~Q!Beside(p)
        BY DEF Q!Begin, Q!PipelineFree, Q!Beside, Q!Change, candidates
  <2>2. ~Q!RunStep
        BY <1>1 DEF Q!RunStep, Q!SkipPaused, Q!SkipScheduled, Q!SkipUnresolved, Q!Examine, Q!Pay, Q!NothingToPay,
           Q!HeldBack, Q!Compose, Q!NoSlotLeft, Q!PayStops, Q!End, Q!Die, Q!Turn, Q!Working
  <2> QED BY <2>1, <2>2 DEF Q!Next
<1>3. batch.pc = "done" /\ i = batch.rows[batch.at]
      BY <1>2 DEF Q!BatchStep, Q!Approve, Q!ReadMonth, Q!SubmitNext, Q!Click, Q!Readback, Q!Resolve, Q!BatchDies, Q!Row
<1> QED BY <1>3 DEF QueueInv, BatchFits, AtHere

(* When a run has been through all posts, one that did not change meanwhile    *)
(* has exactly the item its state calls for, whatever earlier runs, crashes    *)
(* and batches left; and a batch resolves an item with the receipt only        *)
(* (pipeline/engine.py, run and approve).                                      *)
THEOREM QueueIsTrue == Q!Spec => QueueAnswers
<1>1. Q!OneAnswer <=> [][OneAnswerStep]_(Q!vars)
      BY DEF Q!OneAnswer, OneAnswerStep
<1>2. Q!AnsweredIsScheduled <=> [][AnsweredStep]_(Q!vars)
      BY DEF Q!AnsweredIsScheduled, AnsweredStep
<1>3. QueueInv /\ [Q!Next]_candidates => [OneAnswerStep]_(Q!vars) /\ [AnsweredStep]_(Q!vars)
      BY RunAnswers, BatchAnswers
<1>4. [Q!Next]_(Q!vars) => [Q!Next]_candidates
      BY DEF Q!vars, Q!desk, Q!ledger, candidates
<1> QED BY <1>1, <1>2, <1>3, <1>4, QueueInvariant, PTL DEF Q!Spec, QueueAnswers
================================================================================
