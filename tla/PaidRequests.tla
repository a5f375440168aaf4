------------------------------ MODULE PaidRequests ------------------------------
(* Paying for model requests: the batches that translate texts and localise   *)
(* images (localize/text.py, localize/images.py, started by the pipeline, by  *)
(* the command line or by the review desk), the controller that writes each   *)
(* request to the ledger around the call, and the operator who closes by hand *)
(* what a crash or an incomplete answer left open (core/paid_requests.py).    *)
(*                                                                            *)
(* Both locks are non-blocking files: who finds one taken gives up, and the   *)
(* death of a process releases what it held.                                  *)
EXTENDS PaidLedger

CONSTANTS
    Workers,          \* processes that run batches
    Jobs,             \* one output each: a text or an image in one version
    NoOne,            \* nobody holds the lock
    NoJob,            \* a batch between two outputs
    Kind,             \* [Workers -> {"text", "image"}]: what a batch produces
    JobsOf,           \* [Workers -> SUBSET Jobs]: what it may be asked for
    RunLock,          \* [Workers -> Locks]: the file that makes a batch single
    Locks,
    DailyLimit, MonthlyLimit,   \* [pipeline] budgets
    DaysPerMonth,
    MaxCost,          \* the most that one request costs
    MaxRequests, MaxDays, MaxManual   \* bounds of the instance

ASSUME PaidAssumption ==
    /\ NoOne \notin Workers /\ NoJob \notin Jobs
    /\ Kind \in [Workers -> {"text", "image"}]
    /\ JobsOf \in [Workers -> SUBSET Jobs]
    /\ RunLock \in [Workers -> Locks]
    /\ DailyLimit \in Nat /\ MonthlyLimit \in Nat
    /\ DaysPerMonth \in Nat \ {0}
    /\ MaxCost \in Nat /\ MaxRequests \in Nat /\ MaxDays \in Nat
    /\ MaxManual \in Nat

Operator == "operator"
ASSUME OperatorAssumption == Operator \notin Workers /\ Operator # NoOne

VARIABLES
    ledger,     \* state/paid_requests.jsonl
    payer,      \* holder of state/paid_requests.lock
    running,    \* [Locks -> holder of the batch lock]
    task,       \* [Workers -> where the batch is]
    outputs,    \* translated.jsonl and images_de.jsonl: {[job, req]}
    billed,     \* what the provider really charged, [requests sent -> amount]
    desk,       \* the operator's --resolve command
    day

vars == <<ledger, payer, running, task, outputs, billed, desk, day>>

Requests == 1 .. MaxRequests
IdleTask == [at |-> "idle", todo |-> {}, job |-> NoJob, req |-> 0, cost |-> 0]
IdleDesk == [at |-> "idle", row |-> <<>>, event |-> ""]

LedgerRow == [event : PaidEvents, req : Requests, job : Jobs,
              cost : 0 .. MaxCost, day : 0 .. MaxDays, manual : BOOLEAN]

Stages == {"idle", "batch", "paying", "cleared", "sent", "raised", "got", "kept", "doubted"}

(* TYPES.  The stores and the processes hold values of their kinds.           *)
TypeOK ==
    /\ ledger \in Seq(LedgerRow)
    /\ payer \in Workers \cup {NoOne, Operator}
    /\ running \in [Locks -> Workers \cup {NoOne}]
    /\ task \in [Workers -> [at : Stages, todo : SUBSET Jobs,
                             job : Jobs \cup {NoJob}, req : 0 .. MaxRequests,
                             cost : 0 .. MaxCost]]
    /\ outputs \subseteq [job : Jobs, req : Requests]
    /\ DOMAIN billed \subseteq Requests
    /\ \A r \in DOMAIN billed : billed[r] \in 0 .. MaxCost
    /\ desk \in [at : {"idle", "read", "locked"}, row : LedgerRow \cup {<<>>},
                 event : {"", "accepted", "output_rejected"}]
    /\ desk.at # "idle" => desk.row \in LedgerRow /\ desk.event # ""
    /\ day \in 0 .. MaxDays

Init ==
    /\ ledger = <<>>
    /\ payer = NoOne
    /\ running = [k \in Locks |-> NoOne]
    /\ task = [w \in Workers |-> IdleTask]
    /\ outputs = {}
    /\ billed = <<>>
    /\ desk = IdleDesk
    /\ day = 0
--------------------------------------------------------------------------------
(* _append: every row carries the clock of its writing.                       *)
Write(event, w) ==
    Append(ledger, [event |-> event, req |-> task[w].req, job |-> task[w].job,
                    cost |-> IF event = "usage_recorded" THEN task[w].cost ELSE 0,
                    day |-> day, manual |-> FALSE])

MonthStart == (day \div DaysPerMonth) * DaysPerMonth

\* Mutant: only the month's budget is looked at.
MonthlyBudgetOpen ==
    /\ CostUnknown(ledger) = {}
    /\ SpentSince(ledger, MonthStart) < MonthlyLimit

(* budget_preflight, evaluated under the paid lock.                           *)
BudgetOpen ==
    /\ CostUnknown(ledger) = {}
    /\ SpentSince(ledger, day) < DailyLimit
    /\ SpentSince(ledger, MonthStart) < MonthlyLimit
    /\ \A o \in outputs : o.req \in Priced(ledger)

Goto(w, at) == task' = [task EXCEPT ![w].at = at]

NextOutput(w) ==
    /\ task' = [task EXCEPT ![w] = [IdleTask EXCEPT !.at = "batch", !.todo = task[w].todo]]
    /\ UNCHANGED running

\* The batch is over: its lock file is released with the process's frame.
Leave(w) ==
    /\ task' = [task EXCEPT ![w] = IdleTask]
    /\ running' = [running EXCEPT ![RunLock[w]] = NoOne]

Pending(w) == {j \in JobsOf[w] : \A o \in outputs : o.job # j}

\* Mutant: the list of work is made before the batch lock is taken.
BatchBeginUnlocked(w) ==
    /\ task[w].at = "idle"
    /\ \E todo \in SUBSET Pending(w) \ {{}} :
          task' = [task EXCEPT ![w] = [IdleTask EXCEPT !.at = "batch", !.todo = todo]]
    /\ UNCHANGED <<ledger, payer, running, outputs, billed, desk, day>>

(* main / execute: take the batch lock, then list what has no current output. *)
BatchBegin(w) ==
    /\ task[w].at = "idle"
    /\ running[RunLock[w]] = NoOne
    /\ \E todo \in SUBSET Pending(w) \ {{}} :
          task' = [task EXCEPT ![w] = [IdleTask EXCEPT !.at = "batch", !.todo = todo]]
    /\ running' = [running EXCEPT ![RunLock[w]] = w]
    /\ UNCHANGED <<ledger, payer, outputs, billed, desk, day>>

BatchEnd(w) ==
    /\ task[w].at = "batch" /\ task[w].todo = {}
    /\ Leave(w)
    /\ UNCHANGED <<ledger, payer, outputs, billed, desk, day>>

\* Mutant: a paid lock that excludes nobody.
PayLockFree(w) ==
    /\ task[w].at = "batch"
    /\ \E j \in task[w].todo :
          task' = [task EXCEPT ![w].at = "paying", ![w].job = j, ![w].todo = @ \ {j}]
    /\ payer' = w
    /\ UNCHANGED <<ledger, running, outputs, billed, desk, day>>

(* RequestController.run takes the paid lock; a busy lock is fatal for the    *)
(* batch.                                                                     *)
PayLock(w) ==
    /\ task[w].at = "batch"
    /\ \E j \in task[w].todo :
          IF payer = NoOne
          THEN /\ payer' = w
               /\ task' = [task EXCEPT ![w].at = "paying", ![w].job = j,
                                       ![w].todo = @ \ {j}]
               /\ UNCHANGED running
          ELSE Leave(w) /\ UNCHANGED payer
    /\ UNCHANGED <<ledger, outputs, billed, desk, day>>

PayRefused(w) ==
    /\ task[w].at = "paying"
    /\ ~(BudgetOpen /\ Startable(ledger, task[w].job))
    /\ payer' = NoOne
    /\ Leave(w)
    /\ UNCHANGED <<ledger, outputs, billed, desk, day>>

PayCleared(w) ==
    /\ task[w].at = "paying"
    /\ BudgetOpen /\ Startable(ledger, task[w].job)
    /\ Goto(w, "cleared")
    /\ UNCHANGED <<ledger, payer, running, outputs, billed, desk, day>>

NextRequest == Cardinality(Known(ledger)) + 1

(* started is durable before the request leaves; what the provider charges is *)
(* settled there, whether or not an answer ever arrives.                      *)
PaySend(w) ==
    /\ task[w].at = "cleared"
    /\ NextRequest <= MaxRequests
    /\ \E cost \in 0 .. MaxCost :
          /\ billed' = [r \in DOMAIN billed \cup {NextRequest} |->
                           IF r = NextRequest THEN cost ELSE billed[r]]
          /\ task' = [task EXCEPT ![w].at = "sent", ![w].req = NextRequest,
                                  ![w].cost = cost]
    /\ ledger' = Append(ledger, [event |-> "started", req |-> NextRequest,
                                 job |-> task[w].job, cost |-> 0, day |-> day,
                                 manual |-> FALSE])
    /\ UNCHANGED <<payer, running, outputs, desk, day>>
--------------------------------------------------------------------------------
(* The answer with its usage is recorded and the paid lock released.          *)
Answered(w) ==
    /\ task[w].at = "sent"
    /\ ledger' = Write("usage_recorded", w)
    /\ payer' = NoOne
    /\ Goto(w, "got")
    /\ UNCHANGED <<running, outputs, billed, desk, day>>

\* Mutant: an error that tells nothing is taken for a request that cost nothing.
UnpricedForgotten(w) ==
    /\ task[w].at = "sent"
    /\ ledger' = Write("output_rejected", w)
    /\ payer' = NoOne
    /\ Leave(w)
    /\ UNCHANGED <<outputs, billed, desk, day>>

(* An answer, or an error, whose cost cannot be computed, and an error that   *)
(* tells nothing: fatal for the batch.                                        *)
Unpriced(w) ==
    /\ task[w].at = "sent"
    /\ \E event \in {"usage_unknown", "uncertain"} : ledger' = Write(event, w)
    /\ payer' = NoOne
    /\ Leave(w)
    /\ UNCHANGED <<outputs, billed, desk, day>>

(* An error after a complete usage (wrong model, empty or truncated answer):  *)
(* _record_failed_response writes two rows one after the other.               *)
RaisedPriced(w) ==
    /\ task[w].at = "sent"
    /\ ledger' = Write("usage_recorded", w)
    /\ Goto(w, "raised")
    /\ UNCHANGED <<payer, running, outputs, billed, desk, day>>

(* The batch goes on with the next output unless the error is one the whole   *)
(* batch shares or the failure budget is used up.                             *)
RaisedRejected(w) ==
    /\ task[w].at = "raised"
    /\ ledger' = Write("output_rejected", w)
    /\ payer' = NoOne
    /\ \/ NextOutput(w)
       \/ Leave(w)
    /\ UNCHANGED <<outputs, billed, desk, day>>

(* finalize: only from usage_recorded, and not under somebody else's lock.    *)
Closable(w) ==
    /\ payer = NoOne
    /\ Stands(ledger, task[w].req, {"usage_recorded"})

(* The output fails its gates (immutable amounts and tags, size, likeness).   *)
Discard(w) ==
    /\ task[w].at = "got"
    /\ IF Closable(w)
       THEN /\ ledger' = Write("output_rejected", w)
            /\ \/ NextOutput(w)
               \/ Leave(w)
       ELSE Leave(w) /\ UNCHANGED ledger
    /\ UNCHANGED <<payer, outputs, billed, desk, day>>

Keep(w) ==
    /\ task[w].at = "got"
    /\ outputs' = outputs \cup {[job |-> task[w].job, req |-> task[w].req]}
    /\ Goto(w, "kept")
    /\ UNCHANGED <<ledger, payer, running, billed, desk, day>>

\* Mutant: a text batch, too, rejects what it could not accept.
AcceptOrReject(w) ==
    /\ task[w].at = "kept"
    /\ IF Closable(w)
       THEN ledger' = Write("accepted", w) /\ NextOutput(w)
       ELSE Goto(w, "doubted") /\ UNCHANGED <<ledger, running>>
    /\ UNCHANGED <<payer, outputs, billed, desk, day>>

(* finalize_paid(True).  A refusal stops a text batch; an image batch handles *)
(* it as a failed output and first tries to reject the request.               *)
Accept(w) ==
    /\ task[w].at = "kept"
    /\ IF Closable(w)
       THEN ledger' = Write("accepted", w) /\ NextOutput(w)
       ELSE /\ IF Kind[w] = "image" THEN Goto(w, "doubted") /\ UNCHANGED running
                                    ELSE Leave(w)
            /\ UNCHANGED ledger
    /\ UNCHANGED <<payer, outputs, billed, desk, day>>

RejectKept(w) ==
    /\ task[w].at = "doubted"
    /\ ledger' = IF Closable(w) THEN Write("output_rejected", w) ELSE ledger
    /\ Leave(w)
    /\ UNCHANGED <<payer, outputs, billed, desk, day>>

(* The process dies: the locks it held are free, the ledger stays.            *)
Crash(w) ==
    /\ task[w].at # "idle"
    /\ payer' = IF payer = w THEN NoOne ELSE payer
    /\ Leave(w)
    /\ UNCHANGED <<ledger, outputs, billed, desk, day>>
--------------------------------------------------------------------------------
ManualRows == {i \in DOMAIN ledger : ledger[i].manual}

\* Mutant: only what is uncertain can be closed by hand.
ResolveUncertain ==
    /\ desk.at = "idle"
    /\ Cardinality(ManualRows) < MaxManual
    /\ \E r \in OpenRequests(ledger), event \in {"accepted", "output_rejected"} :
          \E i \in DOMAIN ledger :
             /\ LatestOf(ledger, r, i)
             /\ ledger[i].event \in {"uncertain", "usage_unknown"}
             /\ desk' = [at |-> "read", row |-> ledger[i], event |-> event]
    /\ UNCHANGED <<ledger, payer, running, task, outputs, billed, day>>

(* python -m core.paid_requests --resolve R --as accepted|rejected: the row   *)
(* is read and judged before the lock is asked for.                           *)
ResolveRead ==
    /\ desk.at = "idle"
    /\ Cardinality(ManualRows) < MaxManual
    /\ \E r \in OpenRequests(ledger), event \in {"accepted", "output_rejected"} :
          \E i \in DOMAIN ledger :
             /\ LatestOf(ledger, r, i)
             /\ desk' = [at |-> "read", row |-> ledger[i], event |-> event]
    /\ UNCHANGED <<ledger, payer, running, task, outputs, billed, day>>

ResolveLock ==
    /\ desk.at = "read"
    /\ IF payer = NoOne
       THEN payer' = Operator /\ desk' = [desk EXCEPT !.at = "locked"]
       ELSE desk' = IdleDesk /\ UNCHANGED payer
    /\ UNCHANGED <<ledger, running, task, outputs, billed, day>>

ResolveWrite ==
    /\ desk.at = "locked"
    /\ ledger' = Append(ledger, [desk.row EXCEPT !.event = desk.event, !.day = day,
                                                 !.manual = TRUE])
    /\ payer' = NoOne
    /\ desk' = IdleDesk
    /\ UNCHANGED <<running, task, outputs, billed, day>>

Midnight ==
    /\ day < MaxDays
    /\ day' = day + 1
    /\ UNCHANGED <<ledger, payer, running, task, outputs, billed, desk>>

Work(w) ==
    \/ BatchBegin(w) \/ BatchEnd(w)
    \/ PayLock(w) \/ PayRefused(w) \/ PayCleared(w) \/ PaySend(w)
    \/ Answered(w) \/ Unpriced(w) \/ RaisedPriced(w) \/ RaisedRejected(w)
    \/ Discard(w) \/ Keep(w) \/ Accept(w) \/ RejectKept(w)

Next ==
    \/ \E w \in Workers : Work(w) \/ Crash(w)
    \/ ResolveRead \/ ResolveLock \/ ResolveWrite
    \/ Midnight

Spec == Init /\ [][Next]_vars

(* Model calls time out and batches run to their end; the operator closes     *)
(* what blocks everybody and repeats a command that met a busy lock.          *)
Proceed(w) == Work(w) /\ ~BatchBegin(w)

Fairness ==
    /\ \A w \in Workers : WF_vars(Proceed(w))
    /\ SF_vars(ResolveRead /\ payer = NoOne) /\ SF_vars(ResolveLock /\ payer = NoOne)
    /\ WF_vars(ResolveLock) /\ WF_vars(ResolveWrite)

LiveSpec == Spec /\ Fairness
--------------------------------------------------------------------------------
(* ONE OPEN REQUEST.  What may have been spent without a receipt is at most   *)
(* one request, whatever crashes and however the operator intervenes: that is *)
(* why a request is only started when none is open (_assert_startable).       *)
OneOpenRequest == Cardinality(OpenRequests(ledger)) <= 1

(* NO SILENT SPENDING.  Every request that the provider charged for is open   *)
(* (and blocks the next), or has its usage in the ledger, or was closed by    *)
(* hand: no error path lets money out of sight.                               *)
NoSilentSpending ==
    \A r \in DOMAIN billed :
        billed[r] > 0 =>
            \/ r \in OpenRequests(ledger) \cup Priced(ledger)
            \/ \E i \in ManualRows : ledger[i].req = r

SpentBetween(first, last) ==
    MapThenSumSet(LAMBDA i : ledger[i].cost,
                  {i \in PricedRows(ledger) : ledger[i].day \in first .. last})

(* THE BUDGET HOLDS.  A day or a month exceeds its budget by less than one    *)
(* request, also when an answer arrives on the day after its request.         *)
BudgetHolds ==
    \A d \in 0 .. MaxDays :
        /\ SpentBetween(d, d) < DailyLimit + MaxCost
        /\ SpentBetween(d * DaysPerMonth, (d + 1) * DaysPerMonth - 1)
             < MonthlyLimit + MaxCost

(* NEVER PAID AGAIN.  Once an output is kept, no further request is sent for  *)
(* the same job, by whichever process: "so that starting it twice never pays  *)
(* twice for the same post" (TranslationRunLock).                             *)
NeverPaidAgain ==
    \A o \in outputs : \A i \in DOMAIN ledger :
        ledger[i].job = o.job => ledger[i].req <= o.req

(* REJECTIONS ARE BOUNDED.  No job collects more than the allowed number of   *)
(* rejected outputs, the operator's rejections included.                      *)
RejectionsBounded ==
    \A j \in Jobs : Cardinality(RejectedOf(ledger, j)) <= RejectedRetryBudget

(* OUTPUTS ARE PAID FOR.  A kept output names a request whose usage is in the *)
(* ledger, so that budget_snapshot never finds a dangling reference, and a    *)
(* request the program itself rejected has no output unless its closing met   *)
(* a busy lock (image batches).                                               *)
OutputsPaid ==
    \A o \in outputs :
        /\ o.req \in Priced(ledger)
        /\ \A i \in DOMAIN ledger :
              (ledger[i].req = o.req /\ ledger[i].event = "output_rejected") =>
                  \/ ledger[i].manual
                  \/ \E w \in Workers : Kind[w] = "image" /\ o.job \in JobsOf[w]

(* OPEN REQUESTS ARE CLOSED.  A request left open by a crash does not block   *)
(* paying for ever if the operator keeps at it.                               *)
OpenIsClosed == OpenRequests(ledger) # {} ~> OpenRequests(ledger) = {}
================================================================================
