------------------------------- MODULE Operations -------------------------------
(* The record of each submission that the desk shows (publish/operations.py)   *)
(* beside the journal that decides (publish/journal.py).  A request starts an  *)
(* operation and returns; a task of the same process (web/api/approval._run)   *)
(* approves the post and submits it for minutes; the page polls the record,    *)
(* which is all that it can tell its operator about that click.  The process   *)
(* may die, its record may not be writable, the journal may be torn, and       *)
(* whether the process of a record still lives may be unknown.                 *)
(*                                                                             *)
(* One post.  An attempt in the browser is what Composer.tla describes: it     *)
(* arms before it clicks, and ends with the state that the journal has.        *)
EXTENDS Integers, Sequences

CONSTANTS MaxOps,      \* bound: operations of the post
          MaxBoots,    \* bound: processes of the desk
          Tearing      \* the append to the journal may stop in its middle

VARIABLES
    review,    \* the state of the post in the review ledger
    boot,      \* the number of the process
    gate,      \* the maintenance gate admits new work
    ops,       \* the records, with the attempt each one makes
    task,      \* the operation that the process works on, or 0
    stage,     \* how far it is
    torn       \* the journal has a line that no reader accepts

vars == <<review, boot, gate, ops, task, stage, torn>>

Statuses == {"running", "succeeded", "failed", "uncertain"}
Blocking == {"prepared", "ambiguous", "submitted"}
Records == DOMAIN ops
Pending == {o \in Records : ops[o].row \in Blocking}
Scheduled == {o \in Records : ops[o].row = "scheduled"}

Dead(o) == ops[o].worker # boot
\* worker_alive answers None where the process cannot be inspected.
Judged(known) == [o \in Records |->
    IF ops[o].status = "running" /\ Dead(o) /\ known
    THEN [ops[o] EXCEPT !.status = "uncertain"] ELSE ops[o]]

Init ==
    /\ review = "locked" /\ boot = 1 /\ gate \in BOOLEAN
    /\ ops = <<>> /\ task = 0 /\ stage = "none" /\ torn = FALSE
--------------------------------------------------------------------------------
NewRecord(status) == [status |-> status, worker |-> boot, result |-> FALSE,
                      lost |-> FALSE, row |-> "none", clicked |-> FALSE, remote |-> FALSE]

\* No operation is running, as far as the records can be judged.
NoneActive(judged) == \A o \in Records : judged[o].status # "running"

\* POST /approve: content frozen, nobody busy, a record, and then the task.
PostApprove ==
    /\ Len(ops) < MaxOps /\ review = "locked"
    /\ \E known \in BOOLEAN : LET judged == Judged(known) IN
        IF NoneActive(judged)
        THEN /\ ops' = Append(judged, NewRecord(IF gate THEN "running" ELSE "failed"))
             /\ IF gate THEN task' = Len(ops) + 1 /\ stage' = "queued"
                        ELSE UNCHANGED <<task, stage>>
        ELSE ops' = judged /\ UNCHANGED <<task, stage>>
    /\ UNCHANGED <<review, boot, gate, torn>>

\* finish: the record is overwritten, or cannot be and stays as it is.
Finishes(status, result) ==
    /\ task' = 0 /\ stage' = "none"
    /\ \E written \in BOOLEAN :
        ops' = (IF written THEN [ops EXCEPT ![task].status = status, ![task].result = result]
                ELSE [ops EXCEPT ![task].lost = TRUE])

\* The lock, a receipt that is open or scheduled, the decision, the content, the
\* calendar: an ApprovalConflict, or a lock somebody holds, ends it.
MayApprove == ~torn /\ Pending = {} /\ Scheduled = {} /\ review = "locked"
Conflicts ==
    /\ stage = "queued"
    /\ \/ Finishes("failed", FALSE)                    \* a conflict, a corrupt journal
       \/ MayApprove /\ Finishes("uncertain", FALSE)   \* RuntimeError: the lock is held
    /\ UNCHANGED <<review, boot, gate, torn>>

Approve ==
    /\ stage = "queued" /\ MayApprove
    /\ review' = "approved" /\ stage' = "approved"
    /\ UNCHANGED <<boot, gate, ops, task, torn>>

\* execute raises before its first row: the decision is taken back if that
\* succeeds, and the operation is told apart by what was raised.
ExecuteRaises ==
    /\ stage = "approved" /\ ops[task].row = "none"
    /\ review' \in {"pending", "approved"}
    /\ \E status \in {"failed", "uncertain"} : Finishes(status, FALSE)
    /\ UNCHANGED <<boot, gate, torn>>

\* An append to the journal either is durable, or tears and raises.
Row(row) == ops' = [ops EXCEPT ![task].row = row]
Prepare ==
    /\ stage = "approved" /\ ops[task].row = "none" /\ Row("prepared")
    /\ UNCHANGED <<review, boot, gate, task, stage, torn>>
Arm ==
    /\ stage = "approved" /\ ops[task].row = "prepared"
    /\ Row("ambiguous") /\ stage' = "armed"
    /\ UNCHANGED <<review, boot, gate, task, torn>>
Click ==
    /\ stage = "armed" /\ ~ops[task].clicked
    /\ \E accepted \in BOOLEAN :
        ops' = [ops EXCEPT ![task].clicked = TRUE, ![task].remote = accepted]
    /\ UNCHANGED <<review, boot, gate, task, stage, torn>>
Confirms ==
    /\ stage = "armed" /\ ops[task].clicked
    /\ stage' = "returned"
    /\ \/ ops[task].remote /\ \E row \in {"submitted", "scheduled"} : Row(row)
       \/ UNCHANGED ops
    /\ UNCHANGED <<review, boot, gate, task, torn>>
\* Mutant: an attempt that was armed ends as failed like any other.
TerminalFailed(row) == "failed"

\* Whatever is raised once there is a row ends the attempt with one more row.
TerminalRow(row) == IF row \in {"ambiguous", "submitted"} THEN row ELSE "failed"
AttemptFails ==
    /\ stage \in {"approved", "armed"} /\ Row(TerminalRow(ops[task].row))
    /\ stage' = "returned"
    /\ UNCHANGED <<review, boot, gate, task, torn>>
Tears ==
    /\ Tearing /\ stage \in {"approved", "armed"} /\ ~torn
    /\ torn' = TRUE /\ stage' = "returned"
    /\ UNCHANGED <<review, boot, gate, ops, task>>

\* Mutant: whatever is not scheduled failed.
OperationFailed(o) == IF ops[o].row = "scheduled" THEN {"succeeded"} ELSE {"failed"}

\* _operation_status: what the receipt says.  A torn journal raises, and what is
\* raised decides (_run): a ValueError of its reader, an OSError of its writer.
OperationStatus(o) ==
    IF ops[o].row = "scheduled" THEN {"succeeded"}
    ELSE IF torn THEN {"failed", "uncertain"}
    ELSE IF ops[o].row = "failed" THEN {"failed"}      \* pre_click_failure_closed
    ELSE {"uncertain"}

\* The receipt is projected on the review (records.project) before.
Return ==
    /\ stage = "returned"
    /\ review' \in (CASE ~torn /\ ops[task].row = "scheduled" -> {review, "scheduled"}
                      [] ~torn /\ ops[task].row = "failed" -> {review, "pending"}
                      [] OTHER -> {review})
    /\ \E status \in OperationStatus(task) :
        Finishes(status, ~torn \/ ops[task].row = "scheduled")
    /\ UNCHANGED <<boot, gate, torn>>

\* The task is cancelled with its process's loop.
Cancelled ==
    /\ task # 0 /\ Finishes("uncertain", FALSE)
    /\ UNCHANGED <<review, boot, gate, torn>>

\* The process is gone, whatever it did, and another one serves.
Dies ==
    /\ boot < MaxBoots /\ boot' = boot + 1
    /\ task' = 0 /\ stage' = "none" /\ gate' \in BOOLEAN
    /\ UNCHANGED <<review, ops, torn>>

\* GET /publish-operations: the page polls.
Poll ==
    /\ ops' = Judged(TRUE) /\ ops' # ops
    /\ UNCHANGED <<review, boot, gate, task, stage, torn>>

\* for_task: the latest record of the revision of an operation, which later ones
\* have in common with it or not.
ForTask(o) == {o, Len(ops)}
\* reconcile: one open receipt is looked for in the calendar, and its review and
\* the latest operation are closed with it.
Reconcile ==
    /\ stage \notin {"approved", "armed", "returned"} /\ ~torn /\ ops # <<>>
    /\ Scheduled # {} \/ \E o \in Pending : ops[o].remote /\ Pending = {o} /\ ops[o].row # "prepared"
    /\ LET o == CHOOSE p \in Records : p \in Scheduled \/ p \in Pending
       IN \E latest \in ForTask(o) :
            ops' = [ops EXCEPT ![o].row = "scheduled",
                ![o].status = IF latest = o /\ ops[o].result THEN "succeeded" ELSE @]
    /\ review' = "scheduled"
    /\ UNCHANGED <<boot, gate, task, stage, torn>>

\* records.recover: a receipt that is closed before the click gives the post back;
\* its content is frozen anew.
Recover ==
    /\ review = "approved" /\ task = 0 /\ ~torn /\ Pending = {} /\ Scheduled = {}
    /\ review' = "pending"
    /\ UNCHANGED <<boot, gate, ops, task, stage, torn>>
Refreeze ==
    /\ review = "pending" /\ review' = "locked"
    /\ UNCHANGED <<boot, gate, ops, task, stage, torn>>

Next ==
    \/ PostApprove \/ Conflicts \/ Approve \/ ExecuteRaises \/ Prepare \/ Arm \/ Click
    \/ Confirms \/ AttemptFails \/ Tears \/ Return \/ Cancelled \/ Dies \/ Poll
    \/ Reconcile \/ Recover \/ Refreeze

Spec == Init /\ [][Next]_vars
--------------------------------------------------------------------------------
(* The type invariant of the module. *)
TypeOK ==
    /\ task \in 0..Len(ops) /\ (task = 0 <=> stage = "none")
    /\ \A o \in Records : ops[o].status \in Statuses /\ ops[o].worker \in 1..boot

(* AN OPERATION TELLS THE TRUTH.  One that is reported as failed did not click *)
(* (as long as the journal can be read), one that is reported as succeeded is  *)
(* scheduled, and one that this process has on record as running is worked on, *)
(* unless its end could not be written.                                        *)
OperationsTruthful == \A o \in Records :
    /\ ops[o].status = "failed" => ~ops[o].clicked \/ torn
    /\ ops[o].status = "succeeded" => ops[o].row = "scheduled" /\ ops[o].remote
    /\ ops[o].status = "running" /\ ~Dead(o) /\ ~ops[o].lost => o = task

(* NO SECOND SUBMISSION.  Whatever is polled, restarted, reconciled and frozen *)
(* anew, a post is clicked once.                                               *)
NoSecondClick == \A o, p \in Records : ops[o].clicked /\ ops[p].clicked => o = p
================================================================================
