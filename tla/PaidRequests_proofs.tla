-------------------------- MODULE PaidRequests_proofs --------------------------
(* For any number of processes, jobs, requests and days: at most one paid     *)
(* request is open, no charge gets out of the ledger's sight, what is kept    *)
(* has its price on record, and, where batches that share a job share a lock  *)
(* file, nothing is paid for again once its output is kept.                   *)
(*                                                                            *)
(* Why: the ledger changes only under the paid lock, so that what a process   *)
(* read there under the lock still holds when it writes (Cleared, InFlight);  *)
(* the outputs of a job change only under its batch lock (Fresh, Newest), and *)
(* what a request is rejected for is known before its output is kept (Clean). *)
EXTENDS PaidRequests, PartComposer, FiniteSetTheorems, TLAPS

--------------------------------------------------------------------------------
\* The inductive invariant.

Paying == {"paying", "cleared", "sent", "raised"}
WithJob == Stages \ {"idle", "batch"}
WithRequest == WithJob \ {"paying", "cleared"}

LockExcludes ==
    /\ \A w \in Workers : task[w].at \in Paying => payer = w
    /\ desk.at = "locked" => payer = Operator

\* A process that has a request has started it for its job.
Tasked ==
    \A w \in Workers :
        /\ task[w].at \in WithJob => task[w].job \in Jobs
        /\ task[w].at \in WithRequest =>
              \E i \in DOMAIN ledger :
                 ledger[i].req = task[w].req /\ ledger[i].job = task[w].job

\* The row an operator holds was read from the ledger.
Copied ==
    desk.at # "idle" =>
        \E i \in DOMAIN ledger :
            ledger[i].req = desk.row.req /\ ledger[i].job = desk.row.job

Dense == \E n \in Nat : Known(ledger) = 1 .. n

Single == \A r, s \in OpenRequests(ledger) : r = s

Cleared == \A w \in Workers : task[w].at = "cleared" => OpenRequests(ledger) = {}

InFlight ==
    \A w \in Workers :
        /\ task[w].at \in {"sent", "raised"} => task[w].req \in OpenRequests(ledger)
        /\ task[w].at = "raised" => task[w].req \in Priced(ledger)

Shape == TypeOK /\ LockExcludes /\ Tasked /\ Copied /\ Dense

Sound == Single /\ Cleared /\ InFlight

IInv == Shape /\ Sound /\ NoSilentSpending
--------------------------------------------------------------------------------
\* Sequences and the ledger.

LEMMA Appended ==
    ASSUME NEW S, NEW l \in Seq(S), NEW r \in S
    PROVE  /\ Append(l, r) \in Seq(S)
           /\ Len(l) \in Nat
           /\ DOMAIN l = 1 .. Len(l)
           /\ DOMAIN Append(l, r) = 1 .. (Len(l) + 1)
           /\ \A i \in 1 .. Len(l) : Append(l, r)[i] = l[i]
           /\ Append(l, r)[Len(l) + 1] = r
  OBVIOUS

\* A new row is the latest one of its request and leaves the others theirs.
LEMMA LatestAppend ==
    ASSUME NEW l \in Seq(LedgerRow), NEW r \in LedgerRow, NEW x, NEW i
    PROVE  LatestOf(Append(l, r), x, i) <=>
               IF x = r.req THEN i = Len(l) + 1 ELSE LatestOf(l, x, i)
<1> DEFINE ll == Append(l, r)
<1>1. /\ Len(l) \in Nat
      /\ DOMAIN l = 1 .. Len(l)
      /\ DOMAIN ll = 1 .. (Len(l) + 1)
      /\ \A k \in 1 .. Len(l) : ll[k] = l[k]
      /\ ll[Len(l) + 1] = r
  BY Appended
<1> HIDE DEF ll
<1>2. LatestOf(ll, x, i) <=> IF x = r.req THEN i = Len(l) + 1 ELSE LatestOf(l, x, i)
  BY <1>1 DEF LatestOf
<1> QED BY <1>2 DEF ll

LEMMA KnownAppend ==
    ASSUME NEW l \in Seq(LedgerRow), NEW r \in LedgerRow
    PROVE  Known(Append(l, r)) = Known(l) \cup {r.req}
<1> DEFINE ll == Append(l, r)
<1>1. /\ Len(l) \in Nat
      /\ DOMAIN l = 1 .. Len(l)
      /\ DOMAIN ll = 1 .. (Len(l) + 1)
      /\ \A k \in 1 .. Len(l) : ll[k] = l[k]
      /\ ll[Len(l) + 1] = r
  BY Appended
<1> HIDE DEF ll
<1>2. Known(ll) = Known(l) \cup {r.req}
  BY <1>1 DEF Known
<1> QED BY <1>2 DEF ll

LEMMA StandsAppend ==
    ASSUME NEW l \in Seq(LedgerRow), NEW r \in LedgerRow, NEW x, NEW events
    PROVE  Stands(Append(l, r), x, events) <=>
               IF x = r.req THEN r.event \in events ELSE Stands(l, x, events)
<1> DEFINE ll == Append(l, r)
<1>1. /\ Len(l) \in Nat
      /\ DOMAIN l = 1 .. Len(l)
      /\ DOMAIN ll = 1 .. (Len(l) + 1)
      /\ \A k \in 1 .. Len(l) : ll[k] = l[k]
      /\ ll[Len(l) + 1] = r
  BY Appended
<1>2. \A i : LatestOf(ll, x, i) <=>
               IF x = r.req THEN i = Len(l) + 1 ELSE LatestOf(l, x, i)
  BY LatestAppend
<1> HIDE DEF ll
<1>3. Stands(ll, x, events) <=>
          IF x = r.req THEN r.event \in events ELSE Stands(l, x, events)
  <2>1. CASE x = r.req
    BY <2>1, <1>1, <1>2 DEF Stands
  <2>2. CASE x # r.req
    BY <2>2, <1>1, <1>2 DEF Stands, LatestOf
  <2> QED BY <2>1, <2>2
<1> QED BY <1>3 DEF ll

\* What opens a request, and what closes it.
LEMMA OpenAppend ==
    ASSUME NEW l \in Seq(LedgerRow), NEW r \in LedgerRow
    PROVE  OpenRequests(Append(l, r)) =
               IF r.event \in OpenEvents THEN OpenRequests(l) \cup {r.req}
                                         ELSE OpenRequests(l) \ {r.req}
<1> DEFINE ll == Append(l, r)
<1>1. Known(ll) = Known(l) \cup {r.req}
  BY KnownAppend
<1>2. \A x : Stands(ll, x, OpenEvents) <=>
               IF x = r.req THEN r.event \in OpenEvents ELSE Stands(l, x, OpenEvents)
  BY StandsAppend
<1> HIDE DEF ll
<1>3. OpenRequests(ll) = IF r.event \in OpenEvents THEN OpenRequests(l) \cup {r.req}
                                                   ELSE OpenRequests(l) \ {r.req}
  BY <1>1, <1>2 DEF OpenRequests
<1> QED BY <1>3 DEF ll

LEMMA PricedAppend ==
    ASSUME NEW l \in Seq(LedgerRow), NEW r \in LedgerRow
    PROVE  Priced(Append(l, r)) =
               IF r.event = "usage_recorded" THEN Priced(l) \cup {r.req} ELSE Priced(l)
<1> DEFINE ll == Append(l, r)
<1>1. /\ Len(l) \in Nat
      /\ DOMAIN l = 1 .. Len(l)
      /\ DOMAIN ll = 1 .. (Len(l) + 1)
      /\ \A k \in 1 .. Len(l) : ll[k] = l[k]
      /\ ll[Len(l) + 1] = r
  BY Appended
<1>2. Known(ll) = Known(l) \cup {r.req}
  BY KnownAppend
<1> HIDE DEF ll
<1>3. \A x \in Known(ll) :
          (\E i \in DOMAIN ll : UsageRow(ll, x, i)) <=>
             \/ \E i \in DOMAIN l : UsageRow(l, x, i)
             \/ x = r.req /\ r.event = "usage_recorded"
  BY <1>1 DEF UsageRow
<1>4. \A x : (\E i \in DOMAIN l : UsageRow(l, x, i)) => x \in Known(l)
  BY DEF UsageRow, Known
<1>5. Priced(ll) = IF r.event = "usage_recorded" THEN Priced(l) \cup {r.req}
                                                 ELSE Priced(l)
  BY <1>2, <1>3, <1>4 DEF Priced
<1> QED BY <1>5 DEF ll

\* A request whose latest row gives its usage is priced.
LEMMA StandingUsage ==
    ASSUME NEW l, NEW r, Stands(l, r, {"usage_recorded"})
    PROVE  r \in Priced(l)
  BY DEF Stands, LatestOf, Priced, Known, UsageRow

\* The identifier of a new request is one more than the greatest so far.
LEMMA NextNew ==
    ASSUME NEW n \in Nat, Known(ledger) = 1 .. n
    PROVE  NextRequest = n + 1
<1>1. Cardinality(1 .. n) = n
  <2>1. Cardinality(1 .. n) = IF 1 > n THEN 0 ELSE n - 1 + 1
    BY FS_Interval
  <2> QED BY <2>1
<1> QED BY <1>1 DEF NextRequest

--------------------------------------------------------------------------------
\* Types and shapes.

LEMMA RowWritten ==
    ASSUME TypeOK, Tasked, NEW w \in Workers, task[w].at \in WithRequest,
           NEW event \in PaidEvents
    PROVE  \E r \in LedgerRow :
              /\ Write(event, w) = Append(ledger, r)
              /\ r.event = event /\ r.req = task[w].req /\ r.job = task[w].job
              /\ ~r.manual
<1> DEFINE r == [event |-> event, req |-> task[w].req, job |-> task[w].job,
                 cost |-> IF event = "usage_recorded" THEN task[w].cost ELSE 0,
                 day |-> day, manual |-> FALSE]
<1>1. PICK i \in DOMAIN ledger : ledger[i].req = task[w].req /\ ledger[i].job = task[w].job
  BY DEF Tasked
<1>2. ledger[i] \in LedgerRow
  <2>1. ledger \in Seq(LedgerRow)
    BY DEF TypeOK
  <2> QED BY <2>1
<1>3. task[w] \in [at : Stages, todo : SUBSET Jobs, job : Jobs \cup {NoJob},
                   req : 0 .. MaxRequests, cost : 0 .. MaxCost]
  BY DEF TypeOK
<1>4. task[w].cost \in 0 .. MaxCost /\ 0 \in 0 .. MaxCost
  BY <1>3, PaidAssumption
<1>5. task[w].req \in Requests /\ task[w].job \in Jobs
  BY <1>1, <1>2 DEF LedgerRow
<1>6. day \in 0 .. MaxDays
  BY DEF TypeOK
<1>7. r \in LedgerRow
  BY <1>4, <1>5, <1>6 DEF LedgerRow
<1>8. r.event = event /\ r.req = task[w].req /\ r.job = task[w].job /\ ~r.manual
  OBVIOUS
<1>9. Write(event, w) = Append(ledger, r)
  BY DEF Write
<1> HIDE DEF r
<1> QED BY <1>7, <1>8, <1>9

\* The rows of the ledger stay where they are.
LEMMA RowsKept ==
    ASSUME NEW l \in Seq(LedgerRow), NEW r \in LedgerRow, NEW i \in DOMAIN l
    PROVE  i \in DOMAIN Append(l, r) /\ Append(l, r)[i] = l[i]
  BY Appended

LEMMA IdleTaskType ==
    /\ IdleTask \in [at : Stages, todo : SUBSET Jobs, job : Jobs \cup {NoJob},
                     req : 0 .. MaxRequests, cost : 0 .. MaxCost]
    /\ IdleTask.at = "idle"
  BY PaidAssumption DEF IdleTask, Stages

LEMMA InitShape == Init => Shape
<1> SUFFICES ASSUME Init PROVE Shape
  OBVIOUS
<1>1. TypeOK
  <2>1. ledger \in Seq(LedgerRow) /\ payer \in Workers \cup {NoOne, Operator}
    BY DEF Init
  <2>2. /\ running \in [Locks -> Workers \cup {NoOne}]
        /\ outputs \subseteq [job : Jobs, req : Requests]
    BY DEF Init
  <2>3. task \in [Workers -> [at : Stages, todo : SUBSET Jobs, job : Jobs \cup {NoJob},
                              req : 0 .. MaxRequests, cost : 0 .. MaxCost]]
    BY IdleTaskType DEF Init
  <2>4. DOMAIN billed = {}
    BY DEF Init
  <2>5. /\ desk \in [at : {"idle", "read", "locked"}, row : LedgerRow \cup {<<>>},
                     event : {"", "accepted", "output_rejected"}]
        /\ desk.at = "idle"
    BY DEF Init, IdleDesk
  <2>6. day \in 0 .. MaxDays
    BY PaidAssumption DEF Init
  <2> QED BY <2>1, <2>2, <2>3, <2>4, <2>5, <2>6 DEF TypeOK
<1>2. LockExcludes /\ Tasked /\ Copied
  BY IdleTaskType DEF Init, LockExcludes, Tasked, Copied, Paying, WithJob, WithRequest, IdleDesk
<1>3. Known(ledger) = 1 .. 0
  BY DEF Init, Known
<1> QED BY <1>1, <1>2, <1>3 DEF Shape, Dense

LEMMA LeaveType ==
    ASSUME TypeOK, NEW w \in Workers, Leave(w)
    PROVE  /\ task' \in [Workers -> [at : Stages, todo : SUBSET Jobs,
                                     job : Jobs \cup {NoJob}, req : 0 .. MaxRequests,
                                     cost : 0 .. MaxCost]]
           /\ running' \in [Locks -> Workers \cup {NoOne}]
           /\ task'[w].at = "idle"
           /\ \A v \in Workers \ {w} : task'[v] = task[v]
  BY IdleTaskType DEF TypeOK, Leave

LEMMA GotoType ==
    ASSUME TypeOK, NEW w \in Workers, NEW stage \in Stages, Goto(w, stage)
    PROVE  /\ task' \in [Workers -> [at : Stages, todo : SUBSET Jobs,
                                     job : Jobs \cup {NoJob}, req : 0 .. MaxRequests,
                                     cost : 0 .. MaxCost]]
           /\ task'[w].at = stage /\ task'[w].job = task[w].job
           /\ task'[w].req = task[w].req /\ task'[w].todo = task[w].todo
           /\ \A v \in Workers \ {w} : task'[v] = task[v]
<1>1. task[w] \in [at : Stages, todo : SUBSET Jobs, job : Jobs \cup {NoJob},
                   req : 0 .. MaxRequests, cost : 0 .. MaxCost]
  BY DEF TypeOK
<1>2. task' = [task EXCEPT ![w] = [task[w] EXCEPT !.at = stage]]
  BY DEF Goto
<1> DEFINE t == [task[w] EXCEPT !.at = stage]
<1>3. /\ t \in [at : Stages, todo : SUBSET Jobs, job : Jobs \cup {NoJob},
                 req : 0 .. MaxRequests, cost : 0 .. MaxCost]
      /\ t.at = stage /\ t.job = task[w].job /\ t.req = task[w].req
      /\ t.todo = task[w].todo
  BY <1>1
<1> HIDE DEF t
<1>4. task' = [task EXCEPT ![w] = t]
  BY <1>2 DEF t
<1> QED BY <1>3, <1>4 DEF TypeOK

LEMMA NextOutputType ==
    ASSUME TypeOK, NEW w \in Workers, NextOutput(w)
    PROVE  /\ task' \in [Workers -> [at : Stages, todo : SUBSET Jobs,
                                     job : Jobs \cup {NoJob}, req : 0 .. MaxRequests,
                                     cost : 0 .. MaxCost]]
           /\ running' = running
           /\ task'[w].at = "batch" /\ task'[w].todo = task[w].todo
           /\ \A v \in Workers \ {w} : task'[v] = task[v]
<1> DEFINE b == [IdleTask EXCEPT !.at = "batch", !.todo = task[w].todo]
<1>1. task[w].todo \in SUBSET Jobs
  BY DEF TypeOK
<1>2. b \in [at : Stages, todo : SUBSET Jobs, job : Jobs \cup {NoJob},
             req : 0 .. MaxRequests, cost : 0 .. MaxCost]
      /\ b.at = "batch" /\ b.todo = task[w].todo
  <2>1. "batch" \in Stages
    BY DEF Stages
  <2> QED BY <1>1, <2>1, IdleTaskType
<1>3. task' = [task EXCEPT ![w] = b]
  BY DEF NextOutput
<1> QED BY ZenonT(60), <1>2, <1>3 DEF TypeOK, NextOutput

\* What a step of process w owes for the shape to survive it.
LEMMA WorkerShape ==
    ASSUME Shape, TypeOK', NEW w \in Workers, desk' = desk,
           \A v \in Workers \ {w} : task'[v] = task[v],
           payer' = payer \/ (payer \in {NoOne, w} /\ payer' \in {NoOne, w}),
           task'[w].at \in Paying => payer' = w,
           task'[w].at \in WithJob => task'[w].job \in Jobs,
           \/ ledger' = ledger
           \/ \E r \in LedgerRow : /\ ledger' = Append(ledger, r)
                                   /\ r.req \in Known(ledger) \cup {NextRequest},
           task'[w].at \in WithRequest =>
              \E i \in DOMAIN ledger' :
                 ledger'[i].req = task'[w].req /\ ledger'[i].job = task'[w].job
    PROVE  Shape'
<1>1. ledger \in Seq(LedgerRow)
  BY DEF Shape, TypeOK
<1>2. \A i \in DOMAIN ledger : i \in DOMAIN ledger' /\ ledger'[i] = ledger[i]
  BY <1>1, RowsKept
<1>3. LockExcludes'
  <2>1. \A v \in Workers : task'[v].at \in Paying => payer' = v
    BY PaidAssumption DEF Shape, LockExcludes
  <2>2. desk'.at = "locked" => payer' = Operator
    BY OperatorAssumption DEF Shape, LockExcludes
  <2> QED BY <2>1, <2>2 DEF LockExcludes
<1>4. Tasked'
  BY <1>2 DEF Shape, Tasked
<1>5. Copied'
  BY <1>2 DEF Shape, Copied
<1>6. Dense'
  <2>1. PICK n \in Nat : Known(ledger) = 1 .. n
    BY DEF Shape, Dense
  <2>2. NextRequest = n + 1
    BY <2>1, NextNew
  <2>3. CASE ledger' = ledger
    BY <2>1, <2>3 DEF Dense
  <2>4. ASSUME NEW r \in LedgerRow, ledger' = Append(ledger, r),
               r.req \in Known(ledger) \cup {NextRequest}
        PROVE  Dense'
    <3>1. Known(ledger') = Known(ledger) \cup {r.req}
      BY <1>1, <2>4, KnownAppend
    <3>2. Known(ledger') = 1 .. n \/ Known(ledger') = 1 .. (n + 1)
      BY <3>1, <2>1, <2>2, <2>4
    <3> QED BY <3>2 DEF Dense
  <2> QED BY <2>3, <2>4
<1> QED BY <1>3, <1>4, <1>5, <1>6 DEF Shape

\* Appending a row of the request that a process holds.
LEMMA WriteShape ==
    ASSUME Shape, NEW w \in Workers, task[w].at \in WithRequest,
           NEW event \in PaidEvents, ledger' = Write(event, w)
    PROVE  /\ ledger' \in Seq(LedgerRow)
           /\ \E r \in LedgerRow : /\ ledger' = Append(ledger, r)
                                   /\ r.event = event /\ r.req = task[w].req
                                   /\ r.req \in Known(ledger) \cup {NextRequest}
           /\ \E i \in DOMAIN ledger' :
                 ledger'[i].req = task[w].req /\ ledger'[i].job = task[w].job
<1>1. ledger \in Seq(LedgerRow)
  BY DEF Shape, TypeOK
<1>2. PICK r \in LedgerRow :
          /\ Write(event, w) = Append(ledger, r)
          /\ r.event = event /\ r.req = task[w].req /\ r.job = task[w].job
  BY RowWritten DEF Shape
<1>3. PICK i \in DOMAIN ledger : ledger[i].req = task[w].req /\ ledger[i].job = task[w].job
  BY DEF Shape, Tasked
<1>4. r.req \in Known(ledger)
  BY <1>2, <1>3 DEF Known
<1>5. i \in DOMAIN ledger' /\ ledger'[i] = ledger[i]
  BY <1>1, <1>2, RowsKept
<1> QED BY <1>1, <1>2, <1>3, <1>4, <1>5, Appended

TaskRec == [at : Stages, todo : SUBSET Jobs, job : Jobs \cup {NoJob},
            req : 0 .. MaxRequests, cost : 0 .. MaxCost]

LEMMA BatchShape ==
    ASSUME Shape, NEW w \in Workers,
           BatchBegin(w) \/ BatchEnd(w) \/ PayLock(w) \/ PayRefused(w) \/ PayCleared(w)
    PROVE  Shape'
<1>0. TypeOK /\ task \in [Workers -> TaskRec]
  BY DEF Shape, TypeOK, TaskRec
<1>1. CASE BatchBegin(w)
  <2>1. PICK todo \in SUBSET Jobs :
            task' = [task EXCEPT ![w] = [IdleTask EXCEPT !.at = "batch", !.todo = todo]]
    BY <1>1, PaidAssumption DEF BatchBegin, Pending
  <2> DEFINE b == [IdleTask EXCEPT !.at = "batch", !.todo = todo]
  <2>2. b \in TaskRec /\ b.at = "batch"
    <3>1. "batch" \in Stages
      BY DEF Stages
    <3> QED BY <3>1, IdleTaskType DEF TaskRec
  <2> HIDE DEF b
  <2>3. task' \in [Workers -> TaskRec] /\ task'[w].at = "batch"
        /\ \A v \in Workers \ {w} : task'[v] = task[v]
    BY <1>0, <2>1, <2>2 DEF b
  <2>4. running' \in [Locks -> Workers \cup {NoOne}]
    BY <1>0, <1>1 DEF BatchBegin, TypeOK
  <2>5. UNCHANGED <<ledger, payer, outputs, billed, desk, day>>
    BY <1>1 DEF BatchBegin
  <2>6. TypeOK'
    BY <1>0, <2>3, <2>4, <2>5 DEF TypeOK, TaskRec
  <2> QED BY <2>3, <2>5, <2>6, WorkerShape DEF Paying, WithJob, WithRequest
<1>2. CASE BatchEnd(w)
  <2>1. Leave(w) /\ UNCHANGED <<ledger, payer, outputs, billed, desk, day>>
    BY <1>2 DEF BatchEnd
  <2>2. TypeOK'
    BY <1>0, <2>1, LeaveType DEF TypeOK
  <2> QED BY <1>0, <2>1, <2>2, LeaveType, WorkerShape DEF Paying, WithJob, WithRequest
<1>3. CASE PayLock(w)
  <2>0. UNCHANGED <<ledger, outputs, billed, desk, day>>
    BY <1>3 DEF PayLock
  <2>1. PICK j \in task[w].todo :
            IF payer = NoOne
            THEN /\ payer' = w
                 /\ task' = [task EXCEPT ![w].at = "paying", ![w].job = j,
                                         ![w].todo = @ \ {j}]
                 /\ UNCHANGED running
            ELSE Leave(w) /\ UNCHANGED payer
    BY <1>3 DEF PayLock
  <2>2. CASE payer = NoOne
    <3> DEFINE t == [task[w] EXCEPT !.at = "paying", !.job = j, !.todo = @ \ {j}]
    <3>1. "paying" \in Stages /\ task[w] \in TaskRec /\ j \in Jobs
      BY <1>0 DEF Stages, TaskRec
    <3>2. t \in TaskRec /\ t.at = "paying" /\ t.job = j
      BY <3>1 DEF TaskRec
    <3>3. task' = [task EXCEPT ![w] = t]
      BY <2>1, <2>2
    <3> HIDE DEF t
    <3>4. task' \in [Workers -> TaskRec] /\ task'[w].at = "paying" /\ task'[w].job = j
          /\ \A v \in Workers \ {w} : task'[v] = task[v]
      BY <1>0, <3>2, <3>3
    <3>5. TypeOK'
      BY <1>0, <2>0, <2>1, <2>2, <3>4 DEF TypeOK, TaskRec
    <3> QED BY <2>0, <2>1, <2>2, <3>1, <3>4, <3>5, WorkerShape
            DEF Paying, WithJob, WithRequest
  <2>3. CASE payer # NoOne
    <3>1. TypeOK'
      BY <1>0, <2>0, <2>1, <2>3, LeaveType DEF TypeOK
    <3> QED BY <1>0, <2>0, <2>1, <2>3, <3>1, LeaveType, WorkerShape
            DEF Paying, WithJob, WithRequest
  <2> QED BY <2>2, <2>3
<1>4. CASE PayRefused(w)
  <2>1. /\ Leave(w) /\ payer' = NoOne
        /\ UNCHANGED <<ledger, outputs, billed, desk, day>>
    BY <1>4 DEF PayRefused
  <2>2. payer = w
    BY <1>4 DEF PayRefused, Shape, LockExcludes, Paying
  <2>3. TypeOK'
    BY <1>0, <2>1, LeaveType DEF TypeOK
  <2> QED BY <1>0, <2>1, <2>2, <2>3, LeaveType, WorkerShape DEF Paying, WithJob, WithRequest
<1>5. CASE PayCleared(w)
  <2>1. /\ Goto(w, "cleared")
        /\ UNCHANGED <<ledger, payer, running, outputs, billed, desk, day>>
    BY <1>5 DEF PayCleared
  <2>2. payer = w /\ task[w].job \in Jobs
    BY <1>5 DEF PayCleared, Shape, LockExcludes, Tasked, Paying, WithJob, Stages
  <2>3. "cleared" \in Stages
    BY DEF Stages
  <2>4. TypeOK'
    BY <1>0, <2>1, <2>3, GotoType DEF TypeOK
  <2> QED BY <1>0, <2>1, <2>2, <2>3, <2>4, GotoType, WorkerShape
          DEF Paying, WithJob, WithRequest
<1> QED BY <1>1, <1>2, <1>3, <1>4, <1>5

LEMMA SentRow ==
    ASSUME Shape, NEW w \in Workers, PaySend(w)
    PROVE  \E r \in LedgerRow :
              /\ ledger' = Append(ledger, r)
              /\ r.event = "started" /\ r.req = NextRequest /\ r.job = task[w].job
<1>1. PICK n \in Nat : Known(ledger) = 1 .. n
  BY DEF Shape, Dense
<1>2. NextRequest \in Requests
  <2>1. NextRequest = n + 1
    BY <1>1, NextNew
  <2>2. NextRequest <= MaxRequests
    BY DEF PaySend
  <2> QED BY <2>1, <2>2, PaidAssumption DEF Requests
<1> DEFINE r == [event |-> "started", req |-> NextRequest, job |-> task[w].job,
                 cost |-> 0, day |-> day, manual |-> FALSE]
<1>3. task[w].job \in Jobs
  BY DEF PaySend, Shape, Tasked, WithJob, Stages
<1>4. day \in 0 .. MaxDays /\ 0 \in 0 .. MaxCost
  <2>1. day \in 0 .. MaxDays
    BY DEF Shape, TypeOK
  <2> QED BY <2>1, PaidAssumption
<1>5. "started" \in PaidEvents
  BY DEF PaidEvents
<1>6. r \in LedgerRow
  BY <1>2, <1>3, <1>4, <1>5 DEF LedgerRow
<1>7. r.event = "started" /\ r.req = NextRequest /\ r.job = task[w].job
  OBVIOUS
<1>8. ledger' = Append(ledger, r)
  BY DEF PaySend
<1> HIDE DEF r
<1> QED BY <1>6, <1>7, <1>8

LEMMA SendShape ==
    ASSUME Shape, NEW w \in Workers, PaySend(w)
    PROVE  Shape' /\ task'[w].at = "sent" /\ task'[w].req = NextRequest
           /\ \A v \in Workers \ {w} : task'[v] = task[v]
<1>0. TypeOK /\ task \in [Workers -> TaskRec] /\ task[w] \in TaskRec
  BY DEF Shape, TypeOK, TaskRec
<1>1. PICK r \in LedgerRow :
          /\ ledger' = Append(ledger, r)
          /\ r.event = "started" /\ r.req = NextRequest /\ r.job = task[w].job
  BY SentRow
<1>2. NextRequest \in Requests
  BY <1>1 DEF LedgerRow
<1>3. PICK cost \in 0 .. MaxCost :
          /\ billed' = [q \in DOMAIN billed \cup {NextRequest} |->
                           IF q = NextRequest THEN cost ELSE billed[q]]
          /\ task' = [task EXCEPT ![w].at = "sent", ![w].req = NextRequest,
                                  ![w].cost = cost]
  BY DEF PaySend
<1> DEFINE t == [task[w] EXCEPT !.at = "sent", !.req = NextRequest, !.cost = cost]
<1>4. "sent" \in Stages /\ NextRequest \in 0 .. MaxRequests
  BY <1>2, PaidAssumption DEF Stages, Requests
<1>5. t \in TaskRec /\ t.at = "sent" /\ t.job = task[w].job /\ t.req = NextRequest
  BY <1>0, <1>4 DEF TaskRec
<1>6. task' = [task EXCEPT ![w] = t]
  BY <1>0, <1>3 DEF TaskRec
<1>7. payer = w /\ task[w].job \in Jobs
  BY DEF PaySend, Shape, LockExcludes, Tasked, Paying, WithJob, Stages
<1>9. UNCHANGED <<payer, running, outputs, desk, day>>
  BY DEF PaySend
<1> HIDE DEF t
<1>10. task' \in [Workers -> TaskRec] /\ task'[w] = t
       /\ \A v \in Workers \ {w} : task'[v] = task[v]
  BY <1>0, <1>5, <1>6
<1>11. /\ DOMAIN billed' \subseteq Requests
       /\ \A q \in DOMAIN billed' : billed'[q] \in 0 .. MaxCost
  BY <1>0, <1>2, <1>3 DEF TypeOK
<1>12. /\ ledger' \in Seq(LedgerRow)
       /\ Len(ledger) + 1 \in DOMAIN ledger' /\ ledger'[Len(ledger) + 1] = r
  <2>1. ledger \in Seq(LedgerRow)
    BY <1>0 DEF TypeOK
  <2> QED BY <1>1, <2>1, Appended
<1>13. TypeOK'
  BY <1>0, <1>9, <1>10, <1>11, <1>12 DEF TypeOK, TaskRec
<1>14. Shape'
  BY <1>1, <1>5, <1>7, <1>9, <1>10, <1>12, <1>13, WorkerShape
<1> QED BY <1>5, <1>10, <1>14

LEMMA AnswerShape ==
    ASSUME Shape, NEW w \in Workers,
           Answered(w) \/ Unpriced(w) \/ RaisedPriced(w) \/ RaisedRejected(w)
    PROVE  Shape'
<1>0. TypeOK /\ payer = w /\ task[w].at \in WithRequest /\ task[w].job \in Jobs
      /\ \A event \in {"usage_recorded", "usage_unknown", "uncertain",
                       "output_rejected"} : event \in PaidEvents
  BY DEF Shape, LockExcludes, Tasked, Paying, WithRequest, WithJob, Stages, PaidEvents,
         Answered, Unpriced, RaisedPriced, RaisedRejected
<1>1. CASE Answered(w)
  <2>1. /\ ledger' = Write("usage_recorded", w) /\ payer' = NoOne /\ Goto(w, "got")
        /\ UNCHANGED <<running, outputs, billed, desk, day>>
    BY <1>1 DEF Answered
  <2>2. "got" \in Stages
    BY DEF Stages
  <2>3. TypeOK'
    BY <1>0, <2>1, <2>2, GotoType, WriteShape DEF TypeOK
  <2> QED BY <1>0, <2>1, <2>2, <2>3, GotoType, WriteShape, WorkerShape
          DEF Paying, WithJob, WithRequest
<1>2. CASE Unpriced(w)
  <2>1. PICK event \in {"usage_unknown", "uncertain"} :
            /\ ledger' = Write(event, w) /\ payer' = NoOne /\ Leave(w)
            /\ UNCHANGED <<outputs, billed, desk, day>>
    BY <1>2 DEF Unpriced
  <2>2. TypeOK'
    BY <1>0, <2>1, LeaveType, WriteShape DEF TypeOK
  <2> QED BY <1>0, <2>1, <2>2, LeaveType, WriteShape, WorkerShape
          DEF Paying, WithJob, WithRequest
<1>3. CASE RaisedPriced(w)
  <2>1. /\ ledger' = Write("usage_recorded", w) /\ Goto(w, "raised")
        /\ UNCHANGED <<payer, running, outputs, billed, desk, day>>
    BY <1>3 DEF RaisedPriced
  <2>2. "raised" \in Stages
    BY DEF Stages
  <2>3. TypeOK'
    BY <1>0, <2>1, <2>2, GotoType, WriteShape DEF TypeOK
  <2> QED BY <1>0, <2>1, <2>2, <2>3, GotoType, WriteShape, WorkerShape
          DEF Paying, WithJob, WithRequest
<1>4. CASE RaisedRejected(w)
  <2>1. /\ ledger' = Write("output_rejected", w) /\ payer' = NoOne
        /\ UNCHANGED <<outputs, billed, desk, day>>
    BY <1>4 DEF RaisedRejected
  <2>2. CASE NextOutput(w)
    <3>1. TypeOK'
      BY <1>0, <2>1, <2>2, NextOutputType, WriteShape DEF TypeOK
    <3> QED BY <1>0, <2>1, <2>2, <3>1, NextOutputType, WriteShape, WorkerShape
            DEF Paying, WithJob, WithRequest
  <2>3. CASE Leave(w)
    <3>1. TypeOK'
      BY <1>0, <2>1, <2>3, LeaveType, WriteShape DEF TypeOK
    <3> QED BY <1>0, <2>1, <2>3, <3>1, LeaveType, WriteShape, WorkerShape
            DEF Paying, WithJob, WithRequest
  <2> QED BY <1>4, <2>2, <2>3 DEF RaisedRejected
<1> QED BY <1>1, <1>2, <1>3, <1>4

LEMMA CloseShape ==
    ASSUME Shape, NEW w \in Workers,
           Discard(w) \/ Keep(w) \/ Accept(w) \/ RejectKept(w) \/ Crash(w)
    PROVE  Shape'
<1>0. TypeOK /\ {"output_rejected", "accepted"} \subseteq PaidEvents
      /\ {"kept", "doubted"} \subseteq Stages
  BY DEF Shape, PaidEvents, Stages
<1>1. CASE Discard(w)
  <2>1. task[w].at \in WithRequest /\ UNCHANGED <<payer, outputs, billed, desk, day>>
    BY <1>1 DEF Discard, WithRequest, WithJob, Stages
  <2>2. CASE ledger' = Write("output_rejected", w) /\ NextOutput(w)
    <3>1. TypeOK'
      BY <1>0, <2>1, <2>2, NextOutputType, WriteShape DEF TypeOK
    <3> QED BY <1>0, <2>1, <2>2, <3>1, NextOutputType, WriteShape, WorkerShape
            DEF Paying, WithJob, WithRequest
  <2>3. CASE ledger' = Write("output_rejected", w) /\ Leave(w)
    <3>1. TypeOK'
      BY <1>0, <2>1, <2>3, LeaveType, WriteShape DEF TypeOK
    <3> QED BY <1>0, <2>1, <2>3, <3>1, LeaveType, WriteShape, WorkerShape
            DEF Paying, WithJob, WithRequest
  <2>4. CASE Leave(w) /\ UNCHANGED ledger
    <3>1. TypeOK'
      BY <1>0, <2>1, <2>4, LeaveType DEF TypeOK
    <3> QED BY <1>0, <2>1, <2>4, <3>1, LeaveType, WorkerShape
            DEF Paying, WithJob, WithRequest
  <2> QED BY <1>1, <2>2, <2>3, <2>4 DEF Discard
<1>2. CASE Keep(w)
  <2>1. /\ outputs' = outputs \cup {[job |-> task[w].job, req |-> task[w].req]}
        /\ Goto(w, "kept") /\ task[w].at \in WithRequest /\ task[w].at \in WithJob
        /\ UNCHANGED <<ledger, payer, running, billed, desk, day>>
    BY <1>2 DEF Keep, WithRequest, WithJob, Stages
  <2>2. PICK i \in DOMAIN ledger :
            ledger[i].req = task[w].req /\ ledger[i].job = task[w].job
    BY <2>1 DEF Shape, Tasked
  <2>3. task[w].req \in Requests /\ task[w].job \in Jobs
    <3>1. ledger \in Seq(LedgerRow)
      BY <1>0 DEF TypeOK
    <3>2. ledger[i] \in LedgerRow
      BY <3>1
    <3> QED BY <2>2, <3>2 DEF LedgerRow
  <2>4. TypeOK'
    <3>1. outputs' \subseteq [job : Jobs, req : Requests]
      <4>1. [job |-> task[w].job, req |-> task[w].req] \in [job : Jobs, req : Requests]
        BY <2>3
      <4>2. outputs \subseteq [job : Jobs, req : Requests]
        BY <1>0 DEF TypeOK
      <4> QED BY <2>1, <4>1, <4>2
    <3>2. /\ task' \in [Workers -> [at : Stages, todo : SUBSET Jobs,
                                   job : Jobs \cup {NoJob}, req : 0 .. MaxRequests,
                                   cost : 0 .. MaxCost]]
          /\ UNCHANGED <<ledger, payer, running, billed, desk, day>>
      BY <1>0, <2>1, GotoType
    <3> QED BY <1>0, <3>1, <3>2 DEF TypeOK
  <2> QED BY <1>0, <2>1, <2>2, <2>3, <2>4, GotoType, WorkerShape
          DEF Paying, WithJob, WithRequest
<1>3. CASE Accept(w)
  <2>1. /\ task[w].at \in WithRequest /\ task[w].at \in WithJob
        /\ UNCHANGED <<payer, outputs, billed, desk, day>>
    BY <1>3 DEF Accept, WithRequest, WithJob, Stages
  <2>2. CASE ledger' = Write("accepted", w) /\ NextOutput(w)
    <3>1. TypeOK'
      BY <1>0, <2>1, <2>2, NextOutputType, WriteShape DEF TypeOK
    <3> QED BY <1>0, <2>1, <2>2, <3>1, NextOutputType, WriteShape, WorkerShape
            DEF Paying, WithJob, WithRequest
  <2>3. CASE Goto(w, "doubted") /\ UNCHANGED <<running, ledger>>
    <3>1. TypeOK'
      BY <1>0, <2>1, <2>3, GotoType DEF TypeOK
    <3>2. PICK i \in DOMAIN ledger :
              ledger[i].req = task[w].req /\ ledger[i].job = task[w].job
      BY <2>1 DEF Shape, Tasked
    <3>3. task[w].job \in Jobs
      BY <2>1 DEF Shape, Tasked
    <3> QED BY <1>0, <2>1, <2>3, <3>1, <3>2, <3>3, GotoType, WorkerShape
            DEF Paying, WithJob, WithRequest
  <2>4. CASE Leave(w) /\ UNCHANGED ledger
    <3>1. TypeOK'
      BY <1>0, <2>1, <2>4, LeaveType DEF TypeOK
    <3> QED BY <1>0, <2>1, <2>4, <3>1, LeaveType, WorkerShape
            DEF Paying, WithJob, WithRequest
  <2> QED BY <1>3, <2>2, <2>3, <2>4 DEF Accept
<1>4. CASE RejectKept(w)
  <2>1. /\ task[w].at \in WithRequest /\ Leave(w)
        /\ ledger' = Write("output_rejected", w) \/ ledger' = ledger
        /\ UNCHANGED <<payer, outputs, billed, desk, day>>
    BY <1>4 DEF RejectKept, WithRequest, WithJob, Stages
  <2>2. TypeOK'
    BY <1>0, <2>1, LeaveType, WriteShape DEF TypeOK
  <2> QED BY <1>0, <2>1, <2>2, LeaveType, WriteShape, WorkerShape
          DEF Paying, WithJob, WithRequest
<1>5. CASE Crash(w)
  <2>1. /\ Leave(w) /\ payer' = IF payer = w THEN NoOne ELSE payer
        /\ UNCHANGED <<ledger, outputs, billed, desk, day>>
    BY <1>5 DEF Crash
  <2>2. TypeOK'
    BY <1>0, <2>1, LeaveType DEF TypeOK
  <2> QED BY <1>0, <2>1, <2>2, LeaveType, WorkerShape DEF Paying, WithJob, WithRequest
<1> QED BY <1>1, <1>2, <1>3, <1>4, <1>5

\* The row that closes a request by hand.
LEMMA ManualRow ==
    ASSUME TypeOK, ResolveWrite
    PROVE  \E r \in LedgerRow :
              /\ ledger' = Append(ledger, r)
              /\ r.event \in {"accepted", "output_rejected"}
              /\ r.req = desk.row.req /\ r.job = desk.row.job /\ r.manual
<1>1. /\ desk.row \in LedgerRow
      /\ desk.event \in {"accepted", "output_rejected"}
      /\ day \in 0 .. MaxDays
  BY DEF TypeOK, ResolveWrite
<1> DEFINE r == [desk.row EXCEPT !.event = desk.event, !.day = day, !.manual = TRUE]
<1>2. /\ r \in LedgerRow
      /\ r.event = desk.event /\ r.manual
      /\ r.req = desk.row.req /\ r.job = desk.row.job
  BY <1>1 DEF LedgerRow, PaidEvents
<1>3. ledger' = Append(ledger, r)
  BY DEF ResolveWrite
<1> HIDE DEF r
<1> QED BY <1>1, <1>2, <1>3

LEMMA DeskShape ==
    ASSUME Shape, ResolveRead \/ ResolveLock \/ ResolveWrite
    PROVE  Shape'
<1>0. TypeOK /\ ledger \in Seq(LedgerRow)
  BY DEF Shape, TypeOK
<1>1. CASE ResolveRead
  <2>1. PICK r \in OpenRequests(ledger), event \in {"accepted", "output_rejected"} :
            \E i \in DOMAIN ledger :
               desk' = [at |-> "read", row |-> ledger[i], event |-> event]
    BY <1>1 DEF ResolveRead
  <2>2. PICK i \in DOMAIN ledger :
            desk' = [at |-> "read", row |-> ledger[i], event |-> event]
    BY <2>1
  <2>3. ledger[i] \in LedgerRow
    BY <1>0
  <2>4. UNCHANGED <<ledger, payer, running, task, outputs, billed, day>>
    BY <1>1 DEF ResolveRead
  <2>5. /\ desk' \in [at : {"idle", "read", "locked"}, row : LedgerRow \cup {<<>>},
                      event : {"", "accepted", "output_rejected"}]
        /\ desk'.row \in LedgerRow /\ desk'.event # ""
    BY <2>1, <2>2, <2>3
  <2>6. TypeOK'
    BY <1>0, <2>4, <2>5 DEF TypeOK
  <2>7. LockExcludes' /\ Tasked' /\ Dense'
    BY <2>2, <2>4 DEF Shape, LockExcludes, Tasked, Dense
  <2>8. Copied'
    BY <2>2, <2>4 DEF Copied
  <2> QED BY <2>6, <2>7, <2>8 DEF Shape
<1>2. CASE ResolveLock
  <2>1. UNCHANGED <<ledger, running, task, outputs, billed, day>>
    BY <1>2 DEF ResolveLock
  <2>2. CASE payer = NoOne /\ payer' = Operator /\ desk' = [desk EXCEPT !.at = "locked"]
    <3>1. desk.at = "read"
      BY <1>2 DEF ResolveLock
    <3>2. /\ desk' \in [at : {"idle", "read", "locked"}, row : LedgerRow \cup {<<>>},
                        event : {"", "accepted", "output_rejected"}]
          /\ desk'.row = desk.row /\ desk'.event = desk.event
      BY <1>0, <2>2 DEF TypeOK
    <3>3. desk'.row \in LedgerRow /\ desk'.event # ""
      BY <1>0, <3>1, <3>2 DEF TypeOK
    <3>4. TypeOK'
      BY <1>0, <2>1, <2>2, <3>2, <3>3 DEF TypeOK
    <3>5. \A w \in Workers : task[w].at \notin Paying
      BY <2>2, PaidAssumption DEF Shape, LockExcludes
    <3>6. LockExcludes'
      BY <2>1, <2>2, <3>5 DEF LockExcludes
    <3>7. Tasked' /\ Dense'
      BY <2>1 DEF Shape, Tasked, Dense
    <3>8. Copied'
      BY <2>1, <3>1, <3>2 DEF Shape, Copied
    <3> QED BY <3>4, <3>6, <3>7, <3>8 DEF Shape
  <2>3. CASE desk' = IdleDesk /\ UNCHANGED payer
    <3>1. /\ desk' \in [at : {"idle", "read", "locked"}, row : LedgerRow \cup {<<>>},
                        event : {"", "accepted", "output_rejected"}]
          /\ desk'.at = "idle"
      BY <2>3 DEF IdleDesk
    <3>2. TypeOK'
      BY <1>0, <2>1, <2>3, <3>1 DEF TypeOK
    <3>3. LockExcludes' /\ Tasked' /\ Dense' /\ Copied'
      BY <2>1, <2>3, <3>1 DEF Shape, LockExcludes, Tasked, Dense, Copied
    <3> QED BY <3>2, <3>3 DEF Shape
  <2> QED BY <1>2, <2>2, <2>3 DEF ResolveLock
<1>3. CASE ResolveWrite
  <2>1. /\ desk.at = "locked" /\ payer' = NoOne /\ desk' = IdleDesk
        /\ UNCHANGED <<running, task, outputs, billed, day>>
    BY <1>3 DEF ResolveWrite
  <2>2. PICK r \in LedgerRow : ledger' = Append(ledger, r) /\ r.req = desk.row.req
    BY <1>0, <1>3, ManualRow
  <2>3. /\ desk' \in [at : {"idle", "read", "locked"}, row : LedgerRow \cup {<<>>},
                      event : {"", "accepted", "output_rejected"}]
        /\ desk'.at = "idle"
    BY <2>1 DEF IdleDesk
  <2>4. ledger' \in Seq(LedgerRow)
    BY <1>0, <2>2, Appended
  <2>5. TypeOK'
    BY <1>0, <2>1, <2>3, <2>4 DEF TypeOK
  <2>6. payer = Operator /\ \A w \in Workers : task[w].at \notin Paying
    BY <2>1, OperatorAssumption DEF Shape, LockExcludes
  <2>7. LockExcludes' /\ Copied'
    BY <2>1, <2>3, <2>6 DEF LockExcludes, Copied
  <2>8. \A i \in DOMAIN ledger : i \in DOMAIN ledger' /\ ledger'[i] = ledger[i]
    BY <1>0, <2>2, RowsKept
  <2>9. Tasked'
    BY <2>1, <2>8 DEF Shape, Tasked
  <2>10. Dense'
    <3>1. desk.row.req \in Known(ledger)
      <4>1. PICK i \in DOMAIN ledger : ledger[i].req = desk.row.req
        BY <2>1 DEF Shape, Copied
      <4> QED BY <4>1 DEF Known
    <3>2. Known(ledger') = Known(ledger)
      <4>1. Known(ledger') = Known(ledger) \cup {desk.row.req}
        BY <1>0, <2>2, KnownAppend
      <4> QED BY <4>1, <3>1
    <3> QED BY <3>2 DEF Shape, Dense
  <2> QED BY <2>5, <2>7, <2>9, <2>10 DEF Shape
<1> QED BY <1>1, <1>2, <1>3

LEMMA ShapeStep == ASSUME Shape, [Next]_vars PROVE Shape'
<1>1. CASE Midnight
  <2>0. day \in 0 .. MaxDays
    BY DEF Shape, TypeOK
  <2>1. /\ day \in 0 .. MaxDays /\ day < MaxDays /\ day' = day + 1
        /\ UNCHANGED <<ledger, payer, running, task, outputs, billed, desk>>
    BY <1>1, <2>0 DEF Midnight
  <2>2. day' \in 0 .. MaxDays
    BY <2>1, PaidAssumption
  <2>3. TypeOK'
    BY <2>1, <2>2 DEF Shape, TypeOK
  <2> QED BY <2>1, <2>3 DEF Shape, LockExcludes, Tasked, Copied, Dense
<1>2. CASE UNCHANGED vars
  <2>1. TypeOK'
    BY <1>2 DEF Shape, TypeOK, vars
  <2> QED BY <1>2, <2>1 DEF Shape, LockExcludes, Tasked, Copied, Dense, vars
<1> QED BY <1>1, <1>2, BatchShape, SendShape, AnswerShape, CloseShape, DeskShape
        DEF Next, Work

--------------------------------------------------------------------------------
\* One open request at a time.

\* Nobody but the holder of the paid lock is in front of a request.
LEMMA OthersWait ==
    ASSUME Shape
    PROVE  /\ \A w, v \in Workers :
                 task[w].at \in Paying /\ task[v].at \in Paying => v = w
           /\ payer \in {NoOne, Operator} => \A v \in Workers : task[v].at \notin Paying
           /\ desk.at = "locked" => \A v \in Workers : task[v].at \notin Paying
<1>1. LockExcludes
  BY DEF Shape
<1> QED BY <1>1, PaidAssumption, OperatorAssumption DEF LockExcludes

\* Steps that open nothing and send nobody on.
LEMMA SoundKept ==
    ASSUME Sound, OpenRequests(ledger') \subseteq OpenRequests(ledger),
           \A v \in Workers :
              task'[v].at \in {"cleared", "sent", "raised"} =>
                 task'[v] = task[v] /\ ledger' = ledger
    PROVE  Sound'
<1>1. Single'
  BY DEF Sound, Single
<1>2. Cleared'
  BY DEF Sound, Cleared
<1>3. InFlight'
  BY DEF Sound, InFlight
<1> QED BY <1>1, <1>2, <1>3 DEF Sound

\* A row that closes its request, written while nobody is in front of one.
LEMMA SoundClosed ==
    ASSUME Shape, Sound, NEW r \in LedgerRow, ledger' = Append(ledger, r),
           r.event \notin OpenEvents,
           \A v \in Workers : task'[v].at \notin {"cleared", "sent", "raised"}
    PROVE  Sound'
<1>1. ledger \in Seq(LedgerRow)
  BY DEF Shape, TypeOK
<1>2. OpenRequests(ledger') \subseteq OpenRequests(ledger)
  BY <1>1, OpenAppend
<1> QED BY <1>2, SoundKept

LEMMA SilentAppend ==
    ASSUME Shape, NoSilentSpending, NEW r \in LedgerRow, ledger' = Append(ledger, r),
           r.event \in OpenEvents \/ r.req \in Priced(ledger) \/ r.manual
    PROVE  \A x \in DOMAIN billed :
              billed[x] > 0 =>
                 \/ x \in OpenRequests(ledger') \cup Priced(ledger')
                 \/ \E i \in ManualRows' : ledger'[i].req = x
<1>1. ledger \in Seq(LedgerRow)
  BY DEF Shape, TypeOK
<1>2. /\ OpenRequests(ledger') = IF r.event \in OpenEvents
                                 THEN OpenRequests(ledger) \cup {r.req}
                                 ELSE OpenRequests(ledger) \ {r.req}
      /\ Priced(ledger) \subseteq Priced(ledger')
  BY <1>1, OpenAppend, PricedAppend
<1>3. \A i \in ManualRows : i \in ManualRows' /\ ledger'[i] = ledger[i]
  <2>1. \A i \in DOMAIN ledger : i \in DOMAIN ledger' /\ ledger'[i] = ledger[i]
    BY <1>1, RowsKept
  <2> QED BY <2>1 DEF ManualRows
<1>4. r.manual => \E i \in ManualRows' : ledger'[i].req = r.req
  <2>1. Len(ledger) + 1 \in DOMAIN ledger' /\ ledger'[Len(ledger) + 1] = r
    BY <1>1, Appended
  <2> QED BY <2>1 DEF ManualRows
<1> TAKE x \in DOMAIN billed
<1> HAVE billed[x] > 0
<1>5. CASE x \in Priced(ledger)
  BY <1>2, <1>5
<1>6. CASE \E i \in ManualRows : ledger[i].req = x
  BY <1>3, <1>6
<1>7. CASE x \in OpenRequests(ledger)
  <2>1. CASE x # r.req \/ r.event \in OpenEvents
    BY <1>2, <1>7, <2>1
  <2>2. CASE x = r.req /\ r.req \in Priced(ledger)
    BY <1>2, <2>2
  <2>3. CASE x = r.req /\ r.manual
    BY <1>4, <2>3
  <2> QED BY <2>1, <2>2, <2>3
<1> QED BY <1>5, <1>6, <1>7 DEF NoSilentSpending

\* A row that process w writes about the request it holds.
LEMMA SilentWrite ==
    ASSUME Shape, NoSilentSpending, NEW w \in Workers, task[w].at \in WithRequest,
           NEW event \in PaidEvents, ledger' = Write(event, w), billed' = billed,
           event \in OpenEvents \/ task[w].req \in Priced(ledger)
    PROVE  NoSilentSpending'
<1>1. PICK r \in LedgerRow : /\ Write(event, w) = Append(ledger, r)
                             /\ r.event = event /\ r.req = task[w].req
  BY RowWritten DEF Shape
<1>2. \A x \in DOMAIN billed :
          billed[x] > 0 =>
             \/ x \in OpenRequests(ledger') \cup Priced(ledger')
             \/ \E i \in ManualRows' : ledger'[i].req = x
  BY <1>1, SilentAppend
<1> QED BY <1>2 DEF NoSilentSpending

LEMMA BatchSound ==
    ASSUME Shape, Sound, NEW w \in Workers,
           BatchBegin(w) \/ BatchEnd(w) \/ PayLock(w) \/ PayRefused(w) \/ Keep(w) \/ Crash(w)
    PROVE  Sound'
<1>0. TypeOK /\ task \in [Workers -> TaskRec]
  BY DEF Shape, TypeOK, TaskRec
<1>1. ledger' = ledger
  BY DEF BatchBegin, BatchEnd, PayLock, PayRefused, Keep, Crash
<1>2. /\ task'[w].at \notin {"cleared", "sent", "raised"}
      /\ \A v \in Workers \ {w} : task'[v] = task[v]
  <2>1. CASE BatchBegin(w)
    <3>1. PICK todo \in SUBSET Pending(w) \ {{}} :
            task' = [task EXCEPT ![w] = [IdleTask EXCEPT !.at = "batch", !.todo = todo]]
      BY <2>1 DEF BatchBegin
    <3>2. task'[w].at = "batch"
      BY <1>0, <3>1 DEF IdleTask
    <3> QED BY <1>0, <3>1, <3>2
  <2>2. CASE PayLock(w)
    <3>1. CASE Leave(w)
      BY <1>0, <3>1, LeaveType
    <3>2. ASSUME NEW j,
                 task' = [task EXCEPT ![w].at = "paying", ![w].job = j, ![w].todo = @ \ {j}]
          PROVE  /\ task'[w].at = "paying"
                 /\ \A v \in Workers \ {w} : task'[v] = task[v]
      <4> DEFINE t == [task[w] EXCEPT !.at = "paying", !.job = j, !.todo = @ \ {j}]
      <4>1. t.at = "paying" /\ task' = [task EXCEPT ![w] = t]
        BY <1>0, <3>2 DEF TaskRec
      <4> HIDE DEF t
      <4> QED BY <1>0, <4>1
    <3>3. \/ Leave(w)
          \/ \E j \in task[w].todo :
               task' = [task EXCEPT ![w].at = "paying", ![w].job = j, ![w].todo = @ \ {j}]
      BY <2>2 DEF PayLock
    <3> QED BY <3>1, <3>2, <3>3
  <2>3. CASE BatchEnd(w) \/ PayRefused(w) \/ Crash(w)
    BY <1>0, <2>3, LeaveType DEF BatchEnd, PayRefused, Crash
  <2>4. CASE Keep(w)
    <3>1. "kept" \in Stages
      BY DEF Stages
    <3> QED BY <1>0, <2>4, <3>1, GotoType DEF Keep
  <2> QED BY <2>1, <2>2, <2>3, <2>4
<1> QED BY <1>1, <1>2, SoundKept

LEMMA ClearedSound ==
    ASSUME Shape, Sound, NEW w \in Workers, PayCleared(w)
    PROVE  Sound'
<1>0. TypeOK /\ "cleared" \in Stages
  BY DEF Shape, Stages
<1>1. ledger' = ledger /\ Goto(w, "cleared") /\ OpenRequests(ledger) = {}
  BY DEF PayCleared, Startable
<1>2. task'[w].at = "cleared" /\ \A v \in Workers \ {w} : task'[v] = task[v]
  BY <1>0, <1>1, GotoType
<1>3. Single' /\ Cleared'
  BY <1>1 DEF Single, Cleared
<1>4. InFlight'
  BY <1>1, <1>2 DEF Sound, InFlight
<1> QED BY <1>3, <1>4 DEF Sound

LEMMA SendSound ==
    ASSUME Shape, Sound, NEW w \in Workers, PaySend(w)
    PROVE  Sound'
<1>1. /\ task'[w].at = "sent" /\ task'[w].req = NextRequest
      /\ \A v \in Workers \ {w} : task'[v] = task[v]
  BY SendShape
<1>2. PICK r \in LedgerRow : /\ ledger' = Append(ledger, r)
                             /\ r.event = "started" /\ r.req = NextRequest
  BY SentRow
<1>3. ledger \in Seq(LedgerRow) /\ task[w].at = "cleared"
  BY DEF Shape, TypeOK, PaySend
<1>4. OpenRequests(ledger) = {}
  BY <1>3 DEF Sound, Cleared
<1>5. OpenRequests(ledger') = {NextRequest}
  <2>1. "started" \in OpenEvents
    BY DEF OpenEvents
  <2> QED BY <1>2, <1>3, <1>4, <2>1, OpenAppend
<1>6. \A v \in Workers \ {w} : task'[v].at \notin Paying
  BY <1>1, <1>3, OthersWait DEF Paying
<1>7. Single'
  BY <1>5 DEF Single
<1>8. Cleared' /\ InFlight'
  BY <1>1, <1>5, <1>6 DEF Cleared, InFlight, Paying
<1> QED BY <1>7, <1>8 DEF Sound

\* Rows written about a request that has just been sent.
LEMMA AnswerSound ==
    ASSUME Shape, Sound, NEW w \in Workers,
           Answered(w) \/ Unpriced(w) \/ RaisedPriced(w) \/ RaisedRejected(w)
    PROVE  Sound'
<1>0. /\ TypeOK /\ ledger \in Seq(LedgerRow)
      /\ task[w].at \in {"sent", "raised"} /\ task[w].at \in Paying
      /\ task[w].at \in WithRequest
      /\ {"got", "raised"} \subseteq Stages
  BY DEF Shape, TypeOK, Answered, Unpriced, RaisedPriced, RaisedRejected, Paying,
         WithRequest, WithJob, Stages
<1>1. task[w].req \in OpenRequests(ledger)
  BY <1>0 DEF Sound, InFlight
<1>2. \A v \in Workers \ {w} : task[v].at \notin Paying
  BY <1>0, OthersWait
<1>3. ASSUME NEW event \in OpenEvents, ledger' = Write(event, w),
             \A v \in Workers \ {w} : task'[v] = task[v],
             task'[w].at \notin {"cleared", "sent"},
             task'[w].at = "raised" =>
                task'[w].req = task[w].req /\ event = "usage_recorded"
      PROVE  Sound'
  <2>1. PICK r \in LedgerRow : /\ ledger' = Append(ledger, r)
                               /\ r.event = event /\ r.req = task[w].req
    BY <1>0, <1>3, RowWritten DEF Shape, OpenEvents, PaidEvents
  <2>2. OpenRequests(ledger') = OpenRequests(ledger)
    <3>1. OpenRequests(ledger') = OpenRequests(ledger) \cup {task[w].req}
      BY <1>0, <1>3, <2>1, OpenAppend
    <3> QED BY <1>1, <3>1
  <2>3. event = "usage_recorded" => task[w].req \in Priced(ledger')
    BY <1>0, <2>1, PricedAppend
  <2>4. Single'
    BY <2>2 DEF Sound, Single
  <2>5. Cleared'
    BY <1>2, <1>3 DEF Cleared, Paying
  <2>6. InFlight'
    BY <1>1, <1>2, <1>3, <2>2, <2>3 DEF InFlight, Paying
  <2> QED BY <2>4, <2>5, <2>6 DEF Sound
<1>4. CASE Answered(w)
  <2>1. "usage_recorded" \in OpenEvents
    BY DEF OpenEvents
  <2>2. ledger' = Write("usage_recorded", w) /\ Goto(w, "got")
    BY <1>4 DEF Answered
  <2>3. task'[w].at = "got" /\ \A v \in Workers \ {w} : task'[v] = task[v]
    BY <1>0, <2>2, GotoType
  <2> QED BY <1>3, <2>1, <2>2, <2>3
<1>5. CASE Unpriced(w)
  <2>1. PICK event \in {"usage_unknown", "uncertain"} : ledger' = Write(event, w)
    BY <1>5 DEF Unpriced
  <2>2. event \in OpenEvents
    BY DEF OpenEvents
  <2>3. task'[w].at = "idle" /\ \A v \in Workers \ {w} : task'[v] = task[v]
    BY <1>0, <1>5, LeaveType DEF Unpriced
  <2> QED BY <1>3, <2>1, <2>2, <2>3
<1>6. CASE RaisedPriced(w)
  <2>1. "usage_recorded" \in OpenEvents
    BY DEF OpenEvents
  <2>2. ledger' = Write("usage_recorded", w) /\ Goto(w, "raised")
    BY <1>6 DEF RaisedPriced
  <2>3. task'[w].at = "raised" /\ task'[w].req = task[w].req
        /\ \A v \in Workers \ {w} : task'[v] = task[v]
    BY <1>0, <2>2, GotoType
  <2> QED BY <1>3, <2>1, <2>2, <2>3
<1>7. CASE RaisedRejected(w)
  <2>1. "output_rejected" \in PaidEvents /\ "output_rejected" \notin OpenEvents
    BY DEF PaidEvents, OpenEvents
  <2>2. ledger' = Write("output_rejected", w) /\ (NextOutput(w) \/ Leave(w))
    BY <1>7 DEF RaisedRejected
  <2>3. PICK r \in LedgerRow : ledger' = Append(ledger, r) /\ r.event = "output_rejected"
    BY <1>0, <2>1, <2>2, RowWritten DEF Shape
  <2>4. task'[w].at \in {"batch", "idle"} /\ \A v \in Workers \ {w} : task'[v] = task[v]
    BY <1>0, <2>2, NextOutputType, LeaveType
  <2>5. \A v \in Workers : task'[v].at \notin {"cleared", "sent", "raised"}
    BY <1>2, <2>4 DEF Paying
  <2> QED BY <2>1, <2>3, <2>5, SoundClosed
<1> QED BY <1>4, <1>5, <1>6, <1>7

LEMMA CloseSound ==
    ASSUME Shape, Sound, NEW w \in Workers, Discard(w) \/ Accept(w) \/ RejectKept(w)
    PROVE  Sound'
<1>0. /\ TypeOK
      /\ task[w].at \in WithRequest
      /\ "doubted" \in Stages
  BY DEF Shape, Discard, Accept, RejectKept, WithRequest, WithJob, Stages
<1>1. /\ task'[w].at \in {"batch", "idle", "doubted"}
      /\ \A v \in Workers \ {w} : task'[v] = task[v]
  <2>1. NextOutput(w) \/ Leave(w) \/ Goto(w, "doubted")
    BY DEF Discard, Accept, RejectKept
  <2> QED BY <1>0, <2>1, NextOutputType, LeaveType, GotoType
<1>2. \/ ledger' = ledger
      \/ \E event \in {"accepted", "output_rejected"} :
            Closable(w) /\ ledger' = Write(event, w)
  BY DEF Discard, Accept, RejectKept
<1>3. CASE ledger' = ledger
  BY <1>1, <1>3, SoundKept
<1>4. ASSUME NEW event \in {"accepted", "output_rejected"}, Closable(w),
             ledger' = Write(event, w)
      PROVE  Sound'
  <2>1. event \in PaidEvents /\ event \notin OpenEvents
    BY DEF PaidEvents, OpenEvents
  <2>2. PICK r \in LedgerRow : ledger' = Append(ledger, r) /\ r.event = event
    BY <1>0, <1>4, <2>1, RowWritten DEF Shape
  <2>3. \A v \in Workers : task[v].at \notin Paying
    BY <1>4, OthersWait DEF Closable
  <2>4. \A v \in Workers : task'[v].at \notin {"cleared", "sent", "raised"}
    BY <1>1, <2>3 DEF Paying
  <2> QED BY <2>1, <2>2, <2>4, SoundClosed
<1> QED BY <1>2, <1>3, <1>4

LEMMA DeskSound ==
    ASSUME Shape, Sound, ResolveRead \/ ResolveLock \/ ResolveWrite \/ Midnight
    PROVE  Sound'
<1>1. CASE ResolveRead \/ ResolveLock \/ Midnight
  <2>1. ledger' = ledger /\ task' = task
    BY <1>1 DEF ResolveRead, ResolveLock, Midnight
  <2> QED BY <2>1, SoundKept
<1>2. CASE ResolveWrite
  <2>1. PICK r \in LedgerRow : /\ ledger' = Append(ledger, r)
                               /\ r.event \in {"accepted", "output_rejected"}
    BY <1>2, ManualRow DEF Shape
  <2>2. r.event \notin OpenEvents
    BY <2>1 DEF OpenEvents
  <2>3. \A v \in Workers : task'[v].at \notin {"cleared", "sent", "raised"}
    BY <1>2, OthersWait DEF ResolveWrite, Paying
  <2> QED BY <2>1, <2>2, <2>3, SoundClosed
<1> QED BY <1>1, <1>2

LEMMA SoundStep == ASSUME Shape, Sound, [Next]_vars PROVE Sound'
<1>1. CASE UNCHANGED vars
  <2>1. ledger' = ledger /\ task' = task
    BY <1>1 DEF vars
  <2> QED BY <2>1, SoundKept
<1> QED BY <1>1, BatchSound, ClearedSound, SendSound, AnswerSound, CloseSound, DeskSound
        DEF Next, Work
--------------------------------------------------------------------------------
\* No charge gets out of sight.

\* A step that neither writes nor is charged.
LEMMA SilentKept ==
    ASSUME NoSilentSpending, ledger' = ledger, billed' = billed
    PROVE  NoSilentSpending'
  BY DEF NoSilentSpending, ManualRows

LEMMA SilentSend ==
    ASSUME Shape, NoSilentSpending, NEW w \in Workers, PaySend(w)
    PROVE  NoSilentSpending'
<1>1. PICK r \in LedgerRow :
          /\ ledger' = Append(ledger, r)
          /\ r.event = "started" /\ r.req = NextRequest /\ r.job = task[w].job
  BY SentRow
<1>2. PICK cost \in 0 .. MaxCost :
          billed' = [q \in DOMAIN billed \cup {NextRequest} |->
                        IF q = NextRequest THEN cost ELSE billed[q]]
  BY DEF PaySend
<1>3. r.event \in OpenEvents
  BY <1>1 DEF OpenEvents
<1>4. NextRequest \in OpenRequests(ledger')
  <2>1. ledger \in Seq(LedgerRow)
    BY DEF Shape, TypeOK
  <2>2. OpenRequests(ledger') = OpenRequests(ledger) \cup {NextRequest}
    BY <1>1, <1>3, <2>1, OpenAppend
  <2> QED BY <2>2
<1>5. \A x \in DOMAIN billed :
          billed[x] > 0 =>
             \/ x \in OpenRequests(ledger') \cup Priced(ledger')
             \/ \E i \in ManualRows' : ledger'[i].req = x
  BY <1>1, <1>3, SilentAppend
<1>6. \A x \in DOMAIN billed' :
          x = NextRequest \/ (x \in DOMAIN billed /\ billed'[x] = billed[x])
  BY <1>2
<1> QED BY <1>4, <1>5, <1>6 DEF NoSilentSpending

\* What a process writes keeps the charge in sight: the row leaves the request
\* open, or its usage is already recorded.
LEMMA SilentWorker ==
    ASSUME Shape, Sound, NoSilentSpending, NEW w \in Workers,
           Work(w) \/ Crash(w), ~PaySend(w)
    PROVE  NoSilentSpending'
<1>1. CASE BatchBegin(w) \/ BatchEnd(w) \/ PayLock(w) \/ PayRefused(w) \/ PayCleared(w)
           \/ Keep(w) \/ Crash(w)
  <2>1. ledger' = ledger /\ billed' = billed
    BY <1>1 DEF BatchBegin, BatchEnd, PayLock, PayRefused, PayCleared, Keep, Crash
  <2> QED BY <2>1, SilentKept
<1>2. CASE Answered(w) \/ Unpriced(w) \/ RaisedPriced(w)
  <2>1. task[w].at \in WithRequest /\ billed' = billed
    BY <1>2 DEF Answered, Unpriced, RaisedPriced, WithRequest, WithJob, Stages
  <2>2. PICK event \in {"usage_recorded", "usage_unknown", "uncertain"} :
            ledger' = Write(event, w)
    BY <1>2 DEF Answered, Unpriced, RaisedPriced
  <2>3. event \in PaidEvents /\ event \in OpenEvents
    BY DEF PaidEvents, OpenEvents
  <2> QED BY <2>1, <2>2, <2>3, SilentWrite
<1>3. CASE RaisedRejected(w)
  <2>1. task[w].at \in WithRequest /\ billed' = billed /\ task[w].at = "raised"
        /\ ledger' = Write("output_rejected", w)
    BY <1>3 DEF RaisedRejected, WithRequest, WithJob, Stages
  <2>2. task[w].req \in Priced(ledger)
    BY <2>1 DEF Sound, InFlight
  <2>3. "output_rejected" \in PaidEvents
    BY DEF PaidEvents
  <2> QED BY <2>1, <2>2, <2>3, SilentWrite
<1>4. CASE Discard(w) \/ Accept(w) \/ RejectKept(w)
  <2>1. task[w].at \in WithRequest /\ billed' = billed
    BY <1>4 DEF Discard, Accept, RejectKept, WithRequest, WithJob, Stages
  <2>2. \/ ledger' = ledger
        \/ \E event \in {"accepted", "output_rejected"} :
              Closable(w) /\ ledger' = Write(event, w)
    BY <1>4 DEF Discard, Accept, RejectKept
  <2>3. CASE ledger' = ledger
    BY <2>1, <2>3, SilentKept
  <2>4. ASSUME NEW event \in {"accepted", "output_rejected"}, Closable(w),
               ledger' = Write(event, w)
        PROVE  NoSilentSpending'
    <3>1. task[w].req \in Priced(ledger)
      BY <2>4, StandingUsage DEF Closable
    <3>2. event \in PaidEvents
      BY DEF PaidEvents
    <3> QED BY <2>1, <2>4, <3>1, <3>2, SilentWrite
  <2> QED BY <2>2, <2>3, <2>4
<1> QED BY <1>1, <1>2, <1>3, <1>4 DEF Work

LEMMA SilentDesk ==
    ASSUME Shape, NoSilentSpending, ResolveRead \/ ResolveLock \/ ResolveWrite \/ Midnight
    PROVE  NoSilentSpending'
<1>1. CASE ResolveRead \/ ResolveLock \/ Midnight
  <2>1. ledger' = ledger /\ billed' = billed
    BY <1>1 DEF ResolveRead, ResolveLock, Midnight
  <2> QED BY <2>1, SilentKept
<1>2. CASE ResolveWrite
  <2>1. PICK r \in LedgerRow : ledger' = Append(ledger, r) /\ r.manual
    BY <1>2, ManualRow DEF Shape
  <2>2. billed' = billed
    BY <1>2 DEF ResolveWrite
  <2>3. \A x \in DOMAIN billed :
            billed[x] > 0 =>
               \/ x \in OpenRequests(ledger') \cup Priced(ledger')
               \/ \E i \in ManualRows' : ledger'[i].req = x
    BY <2>1, SilentAppend
  <2> QED BY <2>2, <2>3 DEF NoSilentSpending
<1> QED BY <1>1, <1>2
--------------------------------------------------------------------------------
\* The theorems.

LEMMA InitIInv == Init => IInv
<1> SUFFICES ASSUME Init PROVE IInv
  OBVIOUS
<1>1. Shape
  BY InitShape
<1>2. OpenRequests(ledger) = {} /\ DOMAIN billed = {}
  BY DEF Init, OpenRequests, Known
<1>3. Sound
  BY <1>2, IdleTaskType DEF Init, Sound, Single, Cleared, InFlight
<1>4. NoSilentSpending
  BY <1>2 DEF NoSilentSpending
<1> QED BY <1>1, <1>3, <1>4 DEF IInv

LEMMA StepIInv == ASSUME IInv, [Next]_vars PROVE IInv'
<1>1. Shape' /\ Sound'
  BY ShapeStep, SoundStep DEF IInv
<1>2. NoSilentSpending'
  <2>1. CASE UNCHANGED vars
    <3>1. ledger' = ledger /\ billed' = billed
      BY <2>1 DEF vars
    <3> QED BY <3>1, SilentKept DEF IInv
  <2> QED BY <2>1, SilentSend, SilentWorker, SilentDesk DEF IInv, Next
<1> QED BY <1>1, <1>2 DEF IInv

\* The inductive invariant holds in every reachable state.
THEOREM Inductive == Spec => []IInv
  BY InitIInv, StepIInv, PTL DEF Spec

(* Type correctness: the ledger, the locks and the batches keep their kinds   *)
(* of values, for every number of processes, jobs and requests.               *)
THEOREM TypeCorrect == Spec => []TypeOK
<1>1. IInv => TypeOK
  BY DEF IInv, Shape
<1> QED BY <1>1, Inductive, PTL

(* At most one paid request is ever open (_assert_startable under the paid    *)
(* lock), whatever crashes and whatever the operator closes by hand.          *)
THEOREM OneOpen == Spec => []OneOpenRequest
<1>1. IInv => OneOpenRequest
  <2> SUFFICES ASSUME IInv PROVE OneOpenRequest
    OBVIOUS
  <2>1. \A r, s \in OpenRequests(ledger) : r = s
    BY DEF IInv, Sound, Single
  <2>2. CASE OpenRequests(ledger) = {}
    BY <2>2, FS_EmptySet DEF OneOpenRequest
  <2>3. ASSUME NEW r \in OpenRequests(ledger) PROVE OneOpenRequest
    <3>1. OpenRequests(ledger) = {r}
      BY <2>1
    <3>2. Cardinality({r}) = 1
      BY FS_Singleton
    <3> QED BY <3>1, <3>2 DEF OneOpenRequest
  <2> QED BY <2>2, <2>3
<1> QED BY <1>1, Inductive, PTL

(* What the provider charged for is open, recorded or closed by hand: no      *)
(* error path of RequestController.run lets a charge out of sight.            *)
THEOREM NothingSilent == Spec => []NoSilentSpending
<1>1. IInv => NoSilentSpending
  BY DEF IInv
<1> QED BY <1>1, Inductive, PTL

--------------------------------------------------------------------------------
\* Nothing is paid for again.

\* Batches that may produce the same output share one lock file.
SharedLocks ==
    \A w, v \in Workers : JobsOf[w] \cap JobsOf[v] # {} => RunLock[w] = RunLock[v]

Held ==
    \A w \in Workers :
        /\ task[w].at # "idle" => /\ running[RunLock[w]] = w
                                  /\ task[w].todo \subseteq JobsOf[w]
        /\ task[w].at \in WithJob => task[w].job \in JobsOf[w] \ task[w].todo

Unkept == {"paying", "cleared", "sent", "raised", "got"}

\* What a batch still has to do has no output yet.
Fresh ==
    \A w \in Workers, o \in outputs :
        /\ task[w].at # "idle" => o.job \notin task[w].todo
        /\ task[w].at \in Unkept => o.job # task[w].job

\* The request that a process holds is the newest one of its job.
Newest ==
    \A w \in Workers : task[w].at \in WithRequest =>
        \A i \in DOMAIN ledger :
            ledger[i].job = task[w].job => ledger[i].req <= task[w].req

Once == Held /\ Fresh /\ Newest /\ NeverPaidAgain

\* Whoever shares a job with a running batch is not running.
LEMMA Alone ==
    ASSUME SharedLocks, Held, NEW w \in Workers, NEW v \in Workers, NEW j,
           task[w].at # "idle", task[v].at # "idle",
           j \in JobsOf[w], j \in JobsOf[v]
    PROVE  v = w
  BY DEF SharedLocks, Held

\* Every row of the ledger names the request and job of an earlier row.
Repeats ==
    \A i \in DOMAIN ledger' : \E k \in DOMAIN ledger :
        ledger'[i].req = ledger[k].req /\ ledger'[i].job = ledger[k].job

LEMMA WriteRepeats ==
    ASSUME Shape, NEW w \in Workers, task[w].at \in WithRequest,
           NEW event \in PaidEvents, ledger' = Write(event, w)
    PROVE  Repeats
<1>1. ledger \in Seq(LedgerRow)
  BY DEF Shape, TypeOK
<1>2. PICK r \in LedgerRow :
          /\ Write(event, w) = Append(ledger, r)
          /\ r.event = event /\ r.req = task[w].req /\ r.job = task[w].job
  BY RowWritten DEF Shape
<1>3. PICK k \in DOMAIN ledger : ledger[k].req = task[w].req /\ ledger[k].job = task[w].job
  BY DEF Shape, Tasked
<1>4. \A i \in DOMAIN ledger' : \/ i \in DOMAIN ledger /\ ledger'[i] = ledger[i]
                                \/ ledger'[i] = r
  BY <1>1, <1>2, Appended
<1> QED BY <1>2, <1>3, <1>4 DEF Repeats

LEMMA ManualRepeats == ASSUME Shape, ResolveWrite PROVE Repeats
<1>1. ledger \in Seq(LedgerRow)
  BY DEF Shape, TypeOK
<1>2. PICK r \in LedgerRow :
          ledger' = Append(ledger, r) /\ r.req = desk.row.req /\ r.job = desk.row.job
  BY ManualRow DEF Shape
<1>3. PICK k \in DOMAIN ledger :
          ledger[k].req = desk.row.req /\ ledger[k].job = desk.row.job
  BY DEF ResolveWrite, Shape, Copied
<1>4. \A i \in DOMAIN ledger' : \/ i \in DOMAIN ledger /\ ledger'[i] = ledger[i]
                                \/ ledger'[i] = r
  BY <1>1, <1>2, Appended
<1> QED BY <1>2, <1>3, <1>4 DEF Repeats

LEMMA SameRepeats == ASSUME ledger' = ledger PROVE Repeats
  BY DEF Repeats

\* Steps that start no request and keep no output.
LEMMA OnceKept ==
    ASSUME Once, Repeats, outputs' = outputs,
           \A v \in Workers :
              \/ task'[v].at = "idle"
              \/ task'[v].at = "batch" /\ task'[v].todo = task[v].todo /\ task[v].at # "idle"
              \/ /\ task'[v].at \in WithJob /\ task[v].at \in WithJob
                 /\ task'[v].job = task[v].job /\ task'[v].todo = task[v].todo
                 /\ task'[v].at \in Unkept => task[v].at \in Unkept
                 /\ task'[v].at \in WithRequest =>
                       task[v].at \in WithRequest /\ task'[v].req = task[v].req,
           \A v \in Workers : task'[v].at # "idle" => running'[RunLock[v]] = v
    PROVE  Once'
<1>1. Held'
  BY DEF Once, Held, WithJob
<1>2. Fresh'
  BY DEF Once, Fresh, WithJob, Unkept
<1>3. Newest'
  BY DEF Once, Newest, Repeats, WithRequest, WithJob
<1>4. NeverPaidAgain'
  BY DEF Once, NeverPaidAgain, Repeats
<1> QED BY <1>1, <1>2, <1>3, <1>4 DEF Once

LEMMA LeaveHeld ==
    ASSUME Shape, Held, NEW w \in Workers, task[w].at # "idle", Leave(w)
    PROVE  \A v \in Workers : task'[v].at # "idle" => running'[RunLock[v]] = v
<1>1. \A v \in Workers \ {w} : task'[v] = task[v]
  BY LeaveType DEF Shape
<1>2. task'[w].at = "idle"
  BY LeaveType DEF Shape
<1>3. running \in [Locks -> Workers \cup {NoOne}]
  BY DEF Shape, TypeOK
<1>4. RunLock \in [Workers -> Locks]
  BY PaidAssumption
<1>5. ASSUME NEW v \in Workers \ {w}, task[v].at # "idle"
      PROVE  running'[RunLock[v]] = v
  <2>1. running[RunLock[v]] = v /\ running[RunLock[w]] = w
    BY <1>5 DEF Held
  <2>2. RunLock[v] # RunLock[w] /\ RunLock[v] \in Locks
    BY <1>4, <1>5, <2>1
  <2> QED BY <1>3, <2>1, <2>2 DEF Leave
<1> QED BY <1>1, <1>2, <1>5

LEMMA OnceLeave ==
    ASSUME Shape, Once, NEW w \in Workers, task[w].at # "idle", Leave(w), Repeats,
           outputs' = outputs
    PROVE  Once'
<1>1. \A v \in Workers : task'[v].at # "idle" => running'[RunLock[v]] = v
  BY LeaveHeld DEF Once
<1>2. task'[w].at = "idle" /\ \A v \in Workers \ {w} : task'[v] = task[v]
  BY LeaveType DEF Shape
<1>3. \A v \in Workers : task[v].at \in Stages
  BY DEF Shape, TypeOK
<1> QED BY <1>1, <1>2, <1>3, OnceKept DEF WithJob

LEMMA OnceNext ==
    ASSUME Shape, Once, NEW w \in Workers, task[w].at # "idle", NextOutput(w), Repeats,
           outputs' = outputs
    PROVE  Once'
<1>1. /\ running' = running /\ task'[w].at = "batch" /\ task'[w].todo = task[w].todo
      /\ \A v \in Workers \ {w} : task'[v] = task[v]
  BY NextOutputType DEF Shape
<1>2. \A v \in Workers : task'[v].at # "idle" => running'[RunLock[v]] = v
  BY <1>1 DEF Once, Held
<1>3. \A v \in Workers : task[v].at \in Stages
  BY DEF Shape, TypeOK
<1> QED BY <1>1, <1>2, <1>3, OnceKept DEF WithJob

LEMMA OnceGoto ==
    ASSUME Shape, Once, NEW w \in Workers, NEW stage \in WithJob, Goto(w, stage), Repeats,
           outputs' = outputs, running' = running,
           task[w].at \in WithJob,
           stage \in Unkept => task[w].at \in Unkept,
           stage \in WithRequest => task[w].at \in WithRequest
    PROVE  Once'
<1>0. stage \in Stages /\ stage # "idle" /\ task[w].at # "idle"
  BY DEF WithJob
<1>1. /\ task'[w].at = stage /\ task'[w].job = task[w].job
      /\ task'[w].req = task[w].req /\ task'[w].todo = task[w].todo
      /\ \A v \in Workers \ {w} : task'[v] = task[v]
  BY <1>0, GotoType DEF Shape
<1>2. \A v \in Workers : task'[v].at # "idle" => running'[RunLock[v]] = v
  BY <1>0, <1>1 DEF Once, Held
<1>3. \A v \in Workers : task[v].at \in Stages
  BY DEF Shape, TypeOK
<1> QED BY <1>1, <1>2, <1>3, OnceKept DEF WithJob

\* The list of work is made under the batch lock, from what has no output.
LEMMA OnceBegin ==
    ASSUME Shape, Once, NEW w \in Workers, BatchBegin(w)
    PROVE  Once'
<1>0. TypeOK /\ task \in [Workers -> TaskRec]
  BY DEF Shape, TypeOK, TaskRec
<1>1. PICK todo \in SUBSET Pending(w) \ {{}} :
          task' = [task EXCEPT ![w] = [IdleTask EXCEPT !.at = "batch", !.todo = todo]]
  BY DEF BatchBegin
<1>2. /\ task'[w].at = "batch" /\ task'[w].todo = todo
      /\ \A v \in Workers \ {w} : task'[v] = task[v]
  BY <1>0, <1>1 DEF IdleTask
<1>3. /\ running[RunLock[w]] = NoOne /\ running' = [running EXCEPT ![RunLock[w]] = w]
      /\ UNCHANGED <<ledger, outputs>>
  BY DEF BatchBegin
<1>4. \A v \in Workers : task'[v].at # "idle" => running'[RunLock[v]] = v
  <2>1. running \in [Locks -> Workers \cup {NoOne}] /\ RunLock \in [Workers -> Locks]
    BY <1>0, PaidAssumption DEF TypeOK
  <2>2. running'[RunLock[w]] = w
    BY <1>3, <2>1
  <2>3. ASSUME NEW v \in Workers \ {w}, task[v].at # "idle"
        PROVE  running'[RunLock[v]] = v
    <3>1. running[RunLock[v]] = v
      BY <2>3 DEF Once, Held
    <3>2. RunLock[v] # RunLock[w]
      BY <1>3, <3>1, PaidAssumption
    <3> QED BY <1>3, <2>1, <3>1, <3>2
  <2> QED BY <1>2, <2>2, <2>3
<1>5. Held'
  BY <1>1, <1>2, <1>4 DEF Once, Held, Pending, WithJob
<1>6. Fresh'
  BY <1>1, <1>2, <1>3 DEF Once, Fresh, Pending, Unkept
<1>7. Newest'
  BY <1>2, <1>3 DEF Once, Newest, WithRequest, WithJob
<1>8. NeverPaidAgain'
  BY <1>3 DEF Once, NeverPaidAgain
<1> QED BY <1>5, <1>6, <1>7, <1>8 DEF Once

LEMMA OncePayLock ==
    ASSUME Shape, Once, NEW w \in Workers, PayLock(w)
    PROVE  Once'
<1>0. task \in [Workers -> TaskRec] /\ task[w].at = "batch"
      /\ ledger' = ledger /\ outputs' = outputs
  BY DEF Shape, TypeOK, TaskRec, PayLock
<1>1. CASE Leave(w)
  BY <1>0, <1>1, SameRepeats, OnceLeave
<1>2. ASSUME NEW j \in task[w].todo, running' = running,
             task' = [task EXCEPT ![w].at = "paying", ![w].job = j, ![w].todo = @ \ {j}]
      PROVE  Once'
  <2> DEFINE t == [task[w] EXCEPT !.at = "paying", !.job = j, !.todo = @ \ {j}]
  <2>1. /\ t.at = "paying" /\ t.job = j /\ t.todo = task[w].todo \ {j}
        /\ task' = [task EXCEPT ![w] = t]
    BY <1>0, <1>2 DEF TaskRec
  <2> HIDE DEF t
  <2>2. /\ task'[w].at = "paying" /\ task'[w].job = j /\ task'[w].todo = task[w].todo \ {j}
        /\ \A v \in Workers \ {w} : task'[v] = task[v]
    BY <1>0, <2>1
  <2>3. Held'
    BY <1>0, <1>2, <2>2 DEF Once, Held, WithJob
  <2>4. Fresh'
    BY <1>0, <1>2, <2>2 DEF Once, Fresh, Unkept
  <2>5. Newest'
    BY <1>0, <2>2 DEF Once, Newest, WithRequest, WithJob
  <2>6. NeverPaidAgain'
    BY <1>0 DEF Once, NeverPaidAgain
  <2> QED BY <2>3, <2>4, <2>5, <2>6 DEF Once
<1>3. \/ Leave(w)
      \/ \E j \in task[w].todo :
            /\ running' = running
            /\ task' = [task EXCEPT ![w].at = "paying", ![w].job = j, ![w].todo = @ \ {j}]
  BY DEF PayLock
<1> QED BY <1>1, <1>2, <1>3

\* A request is sent only for a job without an output.
LEMMA OnceSend ==
    ASSUME SharedLocks, Shape, Once, NEW w \in Workers, PaySend(w)
    PROVE  Once'
<1>0. /\ ledger \in Seq(LedgerRow) /\ outputs \subseteq [job : Jobs, req : Requests]
      /\ task \in [Workers -> TaskRec] /\ task[w] \in TaskRec
      /\ task[w].at = "cleared"
      /\ UNCHANGED <<running, outputs>>
  BY DEF Shape, TypeOK, TaskRec, PaySend
<1>1. PICK r \in LedgerRow :
          /\ ledger' = Append(ledger, r)
          /\ r.event = "started" /\ r.req = NextRequest /\ r.job = task[w].job
  BY SentRow
<1>2. /\ task'[w].at = "sent" /\ task'[w].req = NextRequest
      /\ \A v \in Workers \ {w} : task'[v] = task[v]
  BY SendShape
<1>3. task'[w].job = task[w].job /\ task'[w].todo = task[w].todo
  <2>1. PICK cost \in 0 .. MaxCost :
            task' = [task EXCEPT ![w].at = "sent", ![w].req = NextRequest, ![w].cost = cost]
    BY DEF PaySend
  <2> QED BY <1>0, <2>1 DEF TaskRec
<1>4. \A i \in DOMAIN ledger : ledger[i].req \in Nat /\ ledger[i].req <= NextRequest
  <2>1. PICK n \in Nat : Known(ledger) = 1 .. n
    BY DEF Shape, Dense
  <2>2. NextRequest = n + 1
    BY <2>1, NextNew
  <2>3. \A i \in DOMAIN ledger : ledger[i].req \in 1 .. n
    BY <2>1 DEF Known
  <2> QED BY <2>1, <2>2, <2>3
<1>5. \A i \in DOMAIN ledger' : \/ i \in DOMAIN ledger /\ ledger'[i] = ledger[i]
                                \/ ledger'[i] = r
  BY <1>0, <1>1, Appended
<1>6. NextRequest \in Nat
  BY <1>1 DEF LedgerRow, Requests
<1>7. Held'
  BY <1>0, <1>2, <1>3 DEF Once, Held, WithJob, Stages
<1>8. Fresh'
  BY <1>0, <1>2, <1>3 DEF Once, Fresh, Unkept
<1>9. Newest'
  <2>1. \A i \in DOMAIN ledger' : ledger'[i].req <= NextRequest
    BY <1>1, <1>4, <1>5, <1>6
  <2>2. ASSUME NEW v \in Workers \ {w}, task[v].at \in WithRequest
        PROVE  task[v].job # r.job
    <3>1. task[w].job \in JobsOf[w] /\ task[v].job \in JobsOf[v]
      BY <1>0, <2>2 DEF Once, Held, WithJob, WithRequest, Stages
    <3>2. task[v].at # "idle"
      BY <2>2 DEF WithRequest, WithJob
    <3> QED BY <1>0, <1>1, <3>1, <3>2, Alone DEF Once
  <2> QED BY <1>2, <1>5, <2>1, <2>2 DEF Once, Newest
<1>10. NeverPaidAgain'
  <2>1. \A o \in outputs : o.job # r.job
    BY <1>0, <1>1 DEF Once, Fresh, Unkept
  <2> QED BY <1>0, <1>5, <2>1 DEF Once, NeverPaidAgain
<1> QED BY <1>7, <1>8, <1>9, <1>10 DEF Once

\* The request of a kept output is the newest one of its job.
LEMMA OnceKeep ==
    ASSUME SharedLocks, Shape, Once, NEW w \in Workers, Keep(w)
    PROVE  Once'
<1> DEFINE o == [job |-> task[w].job, req |-> task[w].req]
<1>0. /\ task[w].at = "got" /\ Goto(w, "kept") /\ outputs' = outputs \cup {o}
      /\ ledger' = ledger /\ running' = running /\ "kept" \in Stages
      /\ task[w].at \in WithJob /\ task[w].at \in WithRequest
  BY DEF Keep, Stages, WithJob, WithRequest
<1>1. o.job = task[w].job /\ o.req = task[w].req
  OBVIOUS
<1> HIDE DEF o
<1>2. /\ task'[w].at = "kept" /\ task'[w].job = task[w].job
      /\ task'[w].req = task[w].req /\ task'[w].todo = task[w].todo
      /\ \A v \in Workers \ {w} : task'[v] = task[v]
  BY <1>0, GotoType DEF Shape
<1>3. task[w].job \in JobsOf[w] \ task[w].todo
  BY <1>0 DEF Once, Held
<1>4. \A v \in Workers \ {w} :
          /\ task[v].at # "idle" => o.job \notin task[v].todo
          /\ task[v].at \in Unkept => o.job # task[v].job
  <2>1. ASSUME NEW v \in Workers \ {w}, task[v].at # "idle"
        PROVE  o.job \notin JobsOf[v]
    BY <1>0, <1>1, <1>3, <2>1, Alone DEF Once
  <2> QED BY <2>1 DEF Once, Held, Unkept, WithJob, Stages
<1>5. Held'
  BY <1>0, <1>2 DEF Once, Held, WithJob
<1>6. Fresh'
  BY <1>0, <1>1, <1>2, <1>3, <1>4 DEF Once, Fresh, Unkept
<1>7. Newest'
  BY <1>0, <1>2 DEF Once, Newest
<1>8. NeverPaidAgain'
  BY <1>0, <1>1 DEF Once, NeverPaidAgain, Newest
<1> QED BY <1>5, <1>6, <1>7, <1>8 DEF Once

LEMMA OnceAnswer ==
    ASSUME Shape, Once, NEW w \in Workers,
           Answered(w) \/ Unpriced(w) \/ RaisedPriced(w) \/ RaisedRejected(w)
    PROVE  Once'
<1>0. /\ task[w].at \in {"sent", "raised"} /\ task[w].at \in WithRequest
      /\ task[w].at \in WithJob /\ task[w].at \in Unkept /\ task[w].at # "idle"
      /\ {"got", "raised"} \subseteq WithJob
      /\ outputs' = outputs
  BY DEF Answered, Unpriced, RaisedPriced, RaisedRejected, WithRequest, WithJob, Stages,
         Unkept
<1>1. PICK event \in PaidEvents : ledger' = Write(event, w)
  <2>1. {"usage_recorded", "usage_unknown", "uncertain", "output_rejected"} \subseteq PaidEvents
    BY DEF PaidEvents
  <2> QED BY <2>1 DEF Answered, Unpriced, RaisedPriced, RaisedRejected
<1>2. Repeats
  BY <1>0, <1>1, WriteRepeats
<1>3. \/ Leave(w)
      \/ NextOutput(w)
      \/ Goto(w, "got") /\ running' = running
      \/ Goto(w, "raised") /\ running' = running
  BY DEF Answered, Unpriced, RaisedPriced, RaisedRejected
<1> QED BY <1>0, <1>2, <1>3, OnceLeave, OnceNext, OnceGoto

LEMMA OnceClose ==
    ASSUME Shape, Once, NEW w \in Workers, Discard(w) \/ Accept(w) \/ RejectKept(w)
    PROVE  Once'
<1>0. /\ task[w].at \in WithRequest /\ task[w].at \in WithJob /\ task[w].at # "idle"
      /\ "doubted" \in WithJob /\ "doubted" \notin Unkept
      /\ outputs' = outputs
  BY DEF Discard, Accept, RejectKept, WithRequest, WithJob, Stages, Unkept
<1>1. Repeats
  <2>1. {"accepted", "output_rejected"} \subseteq PaidEvents
    BY DEF PaidEvents
  <2>2. \/ ledger' = ledger
        \/ \E event \in {"accepted", "output_rejected"} : ledger' = Write(event, w)
    BY DEF Discard, Accept, RejectKept
  <2> QED BY <1>0, <2>1, <2>2, SameRepeats, WriteRepeats
<1>2. Leave(w) \/ NextOutput(w) \/ (Goto(w, "doubted") /\ running' = running)
  BY DEF Discard, Accept, RejectKept
<1> QED BY <1>0, <1>1, <1>2, OnceLeave, OnceNext, OnceGoto

LEMMA OnceQuiet ==
    ASSUME Shape, Once, NEW w \in Workers,
           BatchEnd(w) \/ PayRefused(w) \/ PayCleared(w) \/ Crash(w)
    PROVE  Once'
<1>1. Repeats /\ outputs' = outputs /\ task[w].at # "idle"
  BY SameRepeats DEF BatchEnd, PayRefused, PayCleared, Crash
<1>2. CASE BatchEnd(w) \/ PayRefused(w) \/ Crash(w)
  BY <1>1, <1>2, OnceLeave DEF BatchEnd, PayRefused, Crash
<1>3. CASE PayCleared(w)
  <2>1. /\ "cleared" \in WithJob /\ "cleared" \notin WithRequest
        /\ task[w].at \in WithJob /\ task[w].at \in Unkept
        /\ Goto(w, "cleared") /\ running' = running
    BY <1>3 DEF PayCleared, WithJob, WithRequest, Unkept, Stages
  <2> QED BY <1>1, <2>1, OnceGoto
<1> QED BY <1>2, <1>3

LEMMA OnceDesk ==
    ASSUME Shape, Once,
           ResolveRead \/ ResolveLock \/ ResolveWrite \/ Midnight \/ UNCHANGED vars
    PROVE  Once'
<1>1. /\ task' = task /\ running' = running /\ outputs' = outputs
      /\ ledger' = ledger \/ ResolveWrite
  BY DEF ResolveRead, ResolveLock, ResolveWrite, Midnight, vars
<1>2. Repeats
  BY <1>1, SameRepeats, ManualRepeats
<1>3. \A v \in Workers : task[v].at \in Stages
  BY DEF Shape, TypeOK
<1>4. \A v \in Workers : task'[v].at # "idle" => running'[RunLock[v]] = v
  BY <1>1 DEF Once, Held
<1> QED BY <1>1, <1>2, <1>3, <1>4, OnceKept DEF WithJob

LEMMA OnceStep ==
    ASSUME SharedLocks, Shape, Once, [Next]_vars
    PROVE  Once'
  BY OnceBegin, OncePayLock, OnceSend, OnceKeep, OnceAnswer, OnceClose, OnceQuiet, OnceDesk
     DEF Next, Work

(* Nothing is paid for again once its output is kept, provided that batches   *)
(* which may produce the same output share one lock file.  The image batches  *)
(* do (localize.lock); the text batches of the pipeline and of the command    *)
(* line do not, and PaidTwoLocks shows what then happens.                     *)
THEOREM NeverPaidTwice ==
    ASSUME SharedLocks
    PROVE  Spec => []NeverPaidAgain
<1>1. Init => IInv /\ Once
  <2> SUFFICES ASSUME Init PROVE Once
    BY InitIInv
  <2>1. outputs = {} /\ \A w \in Workers : task[w].at = "idle"
    BY IdleTaskType DEF Init
  <2> QED BY <2>1 DEF Once, Held, Fresh, Newest, NeverPaidAgain, WithJob, WithRequest, Unkept
<1>2. (IInv /\ Once) /\ [Next]_vars => (IInv /\ Once)'
  BY StepIInv, OnceStep DEF IInv
<1>3. Once => NeverPaidAgain
  BY DEF Once
<1> QED BY <1>1, <1>2, <1>3, PTL DEF Spec

--------------------------------------------------------------------------------
(* OUTPUTS ARE PAID FOR.  A request belongs to one process from its first row  *)
(* to the last (Owned).  Whoever may still keep or reject its output knows its *)
(* usage recorded (Usage), nothing kept and nothing rejected so far (Clean);   *)
(* what is rejected after it was kept is a picture (Pictures).                 *)

Unsettled == {"sent", "raised", "got"}
Keeping == {"kept", "doubted"}
Answering == {"raised", "got", "kept", "doubted"}

\* The program itself rejected request x.
Rejects(x) ==
    \E i \in DOMAIN ledger :
        ledger[i].req = x /\ ledger[i].event = "output_rejected" /\ ~ledger[i].manual

Picture(job) == \E w \in Workers : Kind[w] = "image" /\ job \in JobsOf[w]

Asked ==
    \A w \in Workers :
        /\ task[w].at # "idle" => task[w].todo \subseteq JobsOf[w]
        /\ task[w].at \in WithJob => task[w].job \in JobsOf[w]

Owned ==
    \A w, v \in Workers :
        w # v /\ task[w].at \in WithRequest /\ task[v].at \in WithRequest =>
            task[w].req # task[v].req

Usage == \A w \in Workers : task[w].at \in Answering => task[w].req \in Priced(ledger)

Clean ==
    \A w \in Workers :
        task[w].at \in Unsettled =>
            ~Rejects(task[w].req) /\ \A o \in outputs : o.req # task[w].req

Pictures ==
    \A w \in Workers :
        /\ task[w].at = "doubted" => Kind[w] = "image"
        /\ task[w].at \in Keeping =>
              \A o \in outputs : o.req = task[w].req => o.job = task[w].job

Backed ==
    \A o \in outputs : o.req \in Priced(ledger) /\ (Rejects(o.req) => Picture(o.job))

Paid == Asked /\ Owned /\ Usage /\ Clean /\ Pictures /\ Backed

\* A new row: it rejects nothing, or what nobody may still keep and only a picture has.
Harmless(r) ==
    r.event = "output_rejected" /\ ~r.manual =>
        /\ \A o \in outputs : o.req = r.req => Picture(o.job)
        /\ \A v \in Workers : task'[v].at \in Unsettled => task'[v].req # r.req

Rows == ledger' = ledger \/ \E r \in LedgerRow : ledger' = Append(ledger, r) /\ Harmless(r)

Onward(v) ==
    \/ task'[v].at = "idle"
    \/ task'[v].at = "batch" /\ task'[v].todo \subseteq JobsOf[v]
    \/ task'[v].at = "paying" /\ task'[v].todo \subseteq JobsOf[v] /\ task'[v].job \in JobsOf[v]
    \/ /\ task'[v].at \in WithJob /\ task[v].at \in WithJob
       /\ task'[v].job = task[v].job /\ task'[v].todo = task[v].todo
       /\ task'[v].at \in WithRequest => task[v].at \in WithRequest /\ task'[v].req = task[v].req
       /\ task'[v].at \in Unsettled => task[v].at \in Unsettled
       /\ task'[v].at \in Keeping => task[v].at \in Keeping
       /\ task'[v].at \in Answering => task[v].at \in Answering \/ task'[v].req \in Priced(ledger')
       /\ task'[v].at = "doubted" => task[v].at = "doubted" \/ Kind[v] = "image"

LEMMA StageNames ==
    /\ Unsettled \subseteq WithRequest /\ Keeping \subseteq WithRequest /\ Answering \subseteq WithRequest
    /\ WithRequest \subseteq WithJob /\ "idle" \notin WithJob /\ "batch" \notin WithJob
    /\ "paying" \in WithJob /\ "paying" \notin WithRequest /\ "cleared" \notin WithRequest
    /\ "batch" \notin WithRequest /\ "idle" \notin WithRequest
  BY DEF Unsettled, Keeping, Answering, WithRequest, WithJob, Stages

\* What the program rejected before, and what the new row rejects.
LEMMA RejectsAppend ==
    ASSUME Shape, NEW r \in LedgerRow, ledger' = Append(ledger, r)
    PROVE  \A x : Rejects(x)' <=> \/ Rejects(x)
                                  \/ x = r.req /\ r.event = "output_rejected" /\ ~r.manual
<1>1. ledger \in Seq(LedgerRow)
  BY DEF Shape, TypeOK
<1>2. PICK led \in Seq(LedgerRow) : led = ledger
  BY <1>1
<1>3. ledger' = Append(led, r)
  BY <1>2
<1>4. /\ Len(led) \in Nat
      /\ DOMAIN led = 1 .. Len(led)
      /\ DOMAIN ledger' = 1 .. (Len(led) + 1)
      /\ \A k \in 1 .. Len(led) : ledger'[k] = led[k]
      /\ ledger'[Len(led) + 1] = r
  BY <1>3, Appended
<1> QED BY <1>2, <1>4 DEF Rejects

LEMMA PricedGrows ==
    ASSUME Shape, NEW r \in LedgerRow, ledger' = Append(ledger, r)
    PROVE  Priced(ledger) \subseteq Priced(ledger')
  BY PricedAppend DEF Shape, TypeOK

\* Steps that start no request and keep no output.
LEMMA PaidKept ==
    ASSUME Shape, Paid, outputs' = outputs, Rows, \A v \in Workers : Onward(v)
    PROVE  Paid'
<1>1. Priced(ledger) \subseteq Priced(ledger')
  BY PricedGrows DEF Rows
<1>2. ASSUME NEW x, Rejects(x)'
      PROVE  \/ Rejects(x)
             \/ /\ \A o \in outputs : o.req = x => Picture(o.job)
                /\ \A v \in Workers : task'[v].at \in Unsettled => task'[v].req # x
  <2>1. CASE ledger' = ledger
    BY <1>2, <2>1 DEF Rejects
  <2>2. ASSUME NEW r \in LedgerRow, ledger' = Append(ledger, r), Harmless(r)
        PROVE  \/ Rejects(x)
               \/ /\ \A o \in outputs : o.req = x => Picture(o.job)
                  /\ \A v \in Workers : task'[v].at \in Unsettled => task'[v].req # x
    BY <1>2, <2>2, RejectsAppend DEF Harmless
  <2> QED BY <2>1, <2>2 DEF Rows
<1>3. Asked'
  BY StageNames DEF Paid, Asked, Onward
<1>4. Owned'
  BY StageNames DEF Paid, Owned, Onward
<1>5. Usage'
  BY <1>1, StageNames DEF Paid, Usage, Onward
<1>6. Clean'
  <2> SUFFICES ASSUME NEW w \in Workers, task'[w].at \in Unsettled
               PROVE  ~Rejects(task[w].req)' /\ \A o \in outputs' : o.req # task'[w].req
    BY DEF Clean
  <2>1. task[w].at \in Unsettled /\ task'[w].req = task[w].req
    BY StageNames DEF Onward
  <2>2. ~Rejects(task[w].req) /\ \A o \in outputs : o.req # task[w].req
    BY <2>1 DEF Paid, Clean
  <2>3. PICK x : x = task[w].req
    OBVIOUS
  <2>4. ~Rejects(x)'
    BY <1>2, <2>1, <2>2, <2>3
  <2> QED BY <2>1, <2>2, <2>3, <2>4 DEF Rejects
<1>7. Pictures'
  BY StageNames DEF Paid, Pictures, Onward
<1>8. Backed'
  <2> SUFFICES ASSUME NEW o \in outputs
               PROVE  o.req \in Priced(ledger') /\ (Rejects(o.req)' => Picture(o.job))
    BY DEF Backed
  <2>1. o.req \in Priced(ledger) /\ (Rejects(o.req) => Picture(o.job))
    BY DEF Paid, Backed
  <2>2. PICK x : x = o.req
    OBVIOUS
  <2>3. Rejects(x)' => Picture(o.job)
    BY <1>2, <2>1, <2>2
  <2> QED BY <1>1, <2>1, <2>2, <2>3 DEF Rejects
<1> QED BY <1>3, <1>4, <1>5, <1>6, <1>7, <1>8 DEF Paid

LEMMA StayOnward ==
    ASSUME Shape, Paid, NEW v \in Workers, task'[v] = task[v]
    PROVE  Onward(v)
<1>1. task[v].at \in Stages
  BY DEF Shape, TypeOK
<1> QED BY <1>1 DEF Onward, Paid, Asked, WithJob, Stages

LEMMA LeaveOnward ==
    ASSUME Shape, Paid, NEW w \in Workers, task[w].at # "idle", Leave(w) \/ NextOutput(w)
    PROVE  \A v \in Workers : Onward(v)
<1>1. \A v \in Workers \ {w} : task'[v] = task[v]
  BY LeaveType, NextOutputType DEF Shape
<1>2. task'[w].at = "idle" \/ (task'[w].at = "batch" /\ task'[w].todo = task[w].todo)
  BY LeaveType, NextOutputType DEF Shape
<1>3. Onward(w)
  BY <1>2 DEF Onward, Paid, Asked
<1> QED BY <1>1, <1>3, StayOnward

\* A process that no longer has its request in hand rejects it.
LEMMA RejectRows ==
    ASSUME Shape, Paid, NEW w \in Workers, task[w].at \in WithRequest,
           ledger' = Write("output_rejected", w), Leave(w) \/ NextOutput(w),
           task[w].at \in Unsettled \/ task[w].at = "doubted"
    PROVE  Rows
<1>1. "output_rejected" \in PaidEvents
  BY DEF PaidEvents
<1>2. PICK r \in LedgerRow : ledger' = Append(ledger, r) /\ r.req = task[w].req
  BY <1>1, RowWritten DEF Shape
<1>3. \A v \in Workers \ {w} : task'[v] = task[v]
  BY LeaveType, NextOutputType DEF Shape
<1>4. task'[w].at \notin Unsettled
  BY LeaveType, NextOutputType, StageNames DEF Shape
<1>5. \A v \in Workers : task'[v].at \in Unsettled => task'[v].req # r.req
  BY <1>2, <1>3, <1>4, StageNames DEF Paid, Owned
<1>6. \A o \in outputs : o.req = r.req => Picture(o.job)
  <2>1. CASE task[w].at \in Unsettled
    BY <1>2, <2>1 DEF Paid, Clean
  <2>2. CASE task[w].at = "doubted"
    <3>1. Kind[w] = "image" /\ task[w].job \in JobsOf[w]
      BY <2>2, StageNames DEF Paid, Pictures, Asked
    <3>2. \A o \in outputs : o.req = task[w].req => o.job = task[w].job
      BY <2>2 DEF Paid, Pictures, Keeping
    <3> QED BY <1>2, <3>1, <3>2 DEF Picture
  <2> QED BY <2>1, <2>2
<1> QED BY <1>2, <1>5, <1>6 DEF Rows, Harmless

\* Every other row rejects nothing.
LEMMA OtherRows ==
    ASSUME Shape, NEW w \in Workers, task[w].at \in WithRequest,
           NEW event \in PaidEvents, event # "output_rejected", ledger' = Write(event, w)
    PROVE  Rows /\ (event = "usage_recorded" => task[w].req \in Priced(ledger'))
<1>1. PICK r \in LedgerRow : ledger' = Append(ledger, r) /\ r.event = event /\ r.req = task[w].req
  BY RowWritten DEF Shape
<1>2. Rows
  BY <1>1 DEF Rows, Harmless
<1>3. event = "usage_recorded" => task[w].req \in Priced(ledger')
  BY <1>1, PricedAppend DEF Shape, TypeOK
<1> QED BY <1>2, <1>3

LEMMA BatchPaid ==
    ASSUME Shape, Paid, NEW w \in Workers,
           BatchBegin(w) \/ BatchEnd(w) \/ PayLock(w) \/ PayRefused(w) \/ PayCleared(w) \/ Crash(w)
    PROVE  Paid'
<1>0. task \in [Workers -> TaskRec] /\ outputs' = outputs /\ Rows /\ "cleared" \in Stages
  BY DEF Shape, TypeOK, TaskRec, Rows, Stages, BatchBegin, BatchEnd, PayLock, PayRefused, PayCleared, Crash
<1>1. CASE BatchBegin(w)
  <2>1. PICK todo \in SUBSET Pending(w) :
            task' = [task EXCEPT ![w] = [IdleTask EXCEPT !.at = "batch", !.todo = todo]]
    BY <1>1 DEF BatchBegin
  <2>2. task'[w].at = "batch" /\ task'[w].todo = todo /\ \A v \in Workers \ {w} : task'[v] = task[v]
    BY <1>0, <2>1 DEF IdleTask
  <2>3. Onward(w)
    BY <2>2 DEF Onward, Pending
  <2> QED BY <1>0, <2>2, <2>3, StayOnward, PaidKept
<1>2. CASE BatchEnd(w) \/ PayRefused(w) \/ Crash(w) \/ (PayLock(w) /\ Leave(w))
  <2>1. Leave(w) /\ task[w].at # "idle"
    BY <1>2 DEF BatchEnd, PayRefused, Crash, PayLock
  <2> QED BY <1>0, <2>1, LeaveOnward, PaidKept
<1>3. CASE PayLock(w) /\ ~Leave(w)
  <2>1. PICK j \in task[w].todo :
            task' = [task EXCEPT ![w].at = "paying", ![w].job = j, ![w].todo = @ \ {j}]
    BY <1>3 DEF PayLock
  <2> DEFINE t == [task[w] EXCEPT !.at = "paying", !.job = j, !.todo = @ \ {j}]
  <2>2. t.at = "paying" /\ t.job = j /\ t.todo = task[w].todo \ {j} /\ task' = [task EXCEPT ![w] = t]
    BY <1>0, <2>1 DEF TaskRec
  <2> HIDE DEF t
  <2>3. task'[w] = t /\ \A v \in Workers \ {w} : task'[v] = task[v]
    BY <1>0, <2>2
  <2>4. task[w].todo \subseteq JobsOf[w]
    BY <1>3 DEF PayLock, Paid, Asked
  <2>5. Onward(w)
    BY <2>2, <2>3, <2>4 DEF Onward
  <2> QED BY <1>0, <2>3, <2>5, StayOnward, PaidKept
<1>4. CASE PayCleared(w)
  <2>1. Goto(w, "cleared") /\ task[w].at = "paying"
    BY <1>4 DEF PayCleared
  <2>2. /\ task'[w].at = "cleared" /\ task'[w].job = task[w].job /\ task'[w].todo = task[w].todo
        /\ \A v \in Workers \ {w} : task'[v] = task[v]
    BY <1>0, <2>1, GotoType DEF Shape
  <2>3. Onward(w)
    BY <2>1, <2>2 DEF Onward, WithJob, WithRequest, Stages, Unsettled, Keeping, Answering
  <2> QED BY <1>0, <2>2, <2>3, StayOnward, PaidKept
<1> QED BY <1>1, <1>2, <1>3, <1>4

\* A request no process, no output and no rejection has named so far.
LEMMA SendPaid ==
    ASSUME Shape, Paid, NEW w \in Workers, PaySend(w)
    PROVE  Paid'
<1>0. task \in [Workers -> TaskRec] /\ task[w] \in TaskRec /\ task[w].at = "cleared" /\ outputs' = outputs
  BY DEF Shape, TypeOK, TaskRec, PaySend
<1>1. PICK r \in LedgerRow :
          ledger' = Append(ledger, r) /\ r.event = "started" /\ r.req = NextRequest
  BY SentRow
<1>2. PICK n : n = NextRequest
  OBVIOUS
<1>3. task'[w].at = "sent" /\ task'[w].req = n /\ \A v \in Workers \ {w} : task'[v] = task[v]
  BY <1>2, SendShape
<1>4. task'[w].job = task[w].job /\ task'[w].todo = task[w].todo
  <2>1. PICK cost \in 0 .. MaxCost :
            task' = [task EXCEPT ![w].at = "sent", ![w].req = NextRequest, ![w].cost = cost]
    BY DEF PaySend
  <2> QED BY <1>0, <2>1 DEF TaskRec
<1>5. n \notin Known(ledger)
  <2>1. PICK m \in Nat : Known(ledger) = 1 .. m
    BY DEF Shape, Dense
  <2>2. n = m + 1
    BY <1>2, <2>1, NextNew
  <2> QED BY <2>1, <2>2
<1>6. \A v \in Workers : task[v].at \in WithRequest => task[v].req # n
  BY <1>5 DEF Shape, Tasked, Known
<1>7. \A o \in outputs : o.req # n
  BY <1>5 DEF Paid, Backed, Priced
<1>8. ~Rejects(n)
  BY <1>5 DEF Rejects, Known
<1>9. \A x : Rejects(x)' <=> Rejects(x)
  BY <1>1, RejectsAppend
<1>10. Priced(ledger) \subseteq Priced(ledger')
  BY <1>1, PricedGrows
<1>11. Asked'
  BY <1>0, <1>3, <1>4 DEF Paid, Asked, WithJob, Stages
<1>12. Owned'
  BY <1>3, <1>6 DEF Paid, Owned
<1>13. Usage'
  BY <1>3, <1>10 DEF Paid, Usage, Answering
<1>14. Clean'
  <2> SUFFICES ASSUME NEW v \in Workers, task'[v].at \in Unsettled
               PROVE  ~Rejects(task[v].req)' /\ \A o \in outputs' : o.req # task'[v].req
    BY DEF Clean
  <2>1. PICK x : x = task'[v].req
    OBVIOUS
  <2>2. ~Rejects(x) /\ \A o \in outputs : o.req # x
    BY <1>3, <1>7, <1>8, <2>1 DEF Paid, Clean
  <2>3. ~Rejects(x)'
    BY <1>9, <2>2
  <2> QED BY <1>0, <2>1, <2>2, <2>3 DEF Rejects
<1>15. Pictures'
  BY <1>0, <1>3 DEF Paid, Pictures, Keeping
<1>16. Backed'
  <2> SUFFICES ASSUME NEW o \in outputs
               PROVE  o.req \in Priced(ledger') /\ (Rejects(o.req)' => Picture(o.job))
    BY <1>0 DEF Backed
  <2>1. PICK x : x = o.req
    OBVIOUS
  <2>2. x \in Priced(ledger) /\ (Rejects(x) => Picture(o.job))
    BY <2>1 DEF Paid, Backed
  <2>3. Rejects(x)' => Picture(o.job)
    BY <1>9, <2>2
  <2> QED BY <1>10, <2>1, <2>2, <2>3 DEF Rejects
<1> QED BY <1>11, <1>12, <1>13, <1>14, <1>15, <1>16 DEF Paid

LEMMA KeepPaid ==
    ASSUME Shape, Paid, NEW w \in Workers, Keep(w)
    PROVE  Paid'
<1>1. PICK o : o = [job |-> task[w].job, req |-> task[w].req]
  OBVIOUS
<1>2. /\ task[w].at = "got" /\ outputs' = outputs \cup {o} /\ ledger' = ledger
      /\ o.job = task[w].job /\ o.req = task[w].req /\ Goto(w, "kept") /\ "kept" \in Stages
  BY <1>1 DEF Keep, Stages
<1>3. /\ task'[w].at = "kept" /\ task'[w].job = task[w].job
      /\ task'[w].req = task[w].req /\ task'[w].todo = task[w].todo
      /\ \A v \in Workers \ {w} : task'[v] = task[v]
  BY <1>2, GotoType DEF Shape
<1>4. \A v \in Workers \ {w} : task[v].at \in WithRequest => task[v].req # o.req
  BY <1>2 DEF Paid, Owned, WithRequest, WithJob, Stages
<1>5. ~Rejects(o.req) /\ \A x \in outputs : x.req # o.req
  BY <1>2 DEF Paid, Clean, Unsettled
<1>6. o.req \in Priced(ledger)
  BY <1>2 DEF Paid, Usage, Answering
<1>7. Asked'
  BY <1>2, <1>3 DEF Paid, Asked, WithJob, Stages
<1>8. Owned'
  BY <1>2, <1>3, <1>4 DEF Paid, Owned
<1>9. Usage'
  BY <1>2, <1>3, <1>6 DEF Paid, Usage
<1>10. Clean'
  <2> SUFFICES ASSUME NEW v \in Workers, task'[v].at \in Unsettled
               PROVE  ~Rejects(task[v].req)' /\ \A x \in outputs' : x.req # task'[v].req
    BY DEF Clean
  <2>1. v # w /\ task'[v] = task[v] /\ task[v].at \in WithRequest
    BY <1>3, StageNames DEF Unsettled
  <2> QED BY <1>2, <1>4, <2>1 DEF Paid, Clean, Rejects
<1>11. Pictures'
  BY <1>2, <1>3, <1>4, <1>5, StageNames DEF Paid, Pictures
<1>12. Backed'
  BY <1>2, <1>5, <1>6 DEF Paid, Backed, Rejects
<1> QED BY <1>7, <1>8, <1>9, <1>10, <1>11, <1>12 DEF Paid

LEMMA AnswerPaid ==
    ASSUME Shape, Paid, NEW w \in Workers,
           Answered(w) \/ Unpriced(w) \/ RaisedPriced(w) \/ RaisedRejected(w)
    PROVE  Paid'
<1>0. /\ task[w].at \in {"sent", "raised"} /\ task[w].at \in WithRequest /\ task[w].at \in Unsettled
      /\ task[w].at # "idle" /\ outputs' = outputs /\ {"got", "raised"} \subseteq Stages
      /\ {"usage_recorded", "usage_unknown", "uncertain"} \subseteq PaidEvents
  BY DEF Answered, Unpriced, RaisedPriced, RaisedRejected, WithRequest, WithJob, Stages, Unsettled, PaidEvents
<1>1. CASE Answered(w) \/ RaisedPriced(w)
  <2>1. ledger' = Write("usage_recorded", w)
    BY <1>1 DEF Answered, RaisedPriced
  <2>2. PICK stage \in {"got", "raised"} : Goto(w, stage)
    BY <1>1 DEF Answered, RaisedPriced
  <2>3. Rows /\ task[w].req \in Priced(ledger')
    BY <1>0, <2>1, OtherRows
  <2>4. /\ task'[w].at = stage /\ task'[w].job = task[w].job
        /\ task'[w].req = task[w].req /\ task'[w].todo = task[w].todo
        /\ \A v \in Workers \ {w} : task'[v] = task[v]
    BY <1>0, <2>2, GotoType DEF Shape
  <2>5. Onward(w)
    BY <1>0, <2>3, <2>4 DEF Onward, WithJob, WithRequest, Stages, Unsettled, Keeping
  <2> QED BY <1>0, <2>3, <2>4, <2>5, StayOnward, PaidKept
<1>2. CASE Unpriced(w)
  <2>1. PICK event \in {"usage_unknown", "uncertain"} : ledger' = Write(event, w) /\ Leave(w)
    BY <1>2 DEF Unpriced
  <2>2. Rows
    BY <1>0, <2>1, OtherRows
  <2> QED BY <1>0, <2>1, <2>2, LeaveOnward, PaidKept
<1>3. CASE RaisedRejected(w)
  <2>1. ledger' = Write("output_rejected", w) /\ (NextOutput(w) \/ Leave(w))
    BY <1>3 DEF RaisedRejected
  <2>2. Rows
    BY <1>0, <2>1, RejectRows
  <2> QED BY <1>0, <2>1, <2>2, LeaveOnward, PaidKept
<1> QED BY <1>1, <1>2, <1>3

LEMMA ClosePaid ==
    ASSUME Shape, Paid, NEW w \in Workers, Discard(w) \/ Accept(w) \/ RejectKept(w)
    PROVE  Paid'
<1>0. /\ task[w].at \in {"got", "kept", "doubted"} /\ task[w].at \in WithRequest
      /\ task[w].at # "idle" /\ outputs' = outputs /\ "doubted" \in Stages /\ "accepted" \in PaidEvents
  BY DEF Discard, Accept, RejectKept, WithRequest, WithJob, Stages, PaidEvents
<1>1. CASE Leave(w) \/ NextOutput(w)
  <2>1. \/ ledger' = ledger
        \/ ledger' = Write("accepted", w)
        \/ ledger' = Write("output_rejected", w) /\ task[w].at \in {"got", "doubted"}
    BY DEF Discard, Accept, RejectKept
  <2>2. Rows
    <3>1. CASE ledger' = ledger
      BY <3>1 DEF Rows
    <3>2. CASE ledger' = Write("accepted", w)
      BY <1>0, <3>2, OtherRows
    <3>3. CASE ledger' = Write("output_rejected", w) /\ task[w].at \in {"got", "doubted"}
      BY <1>0, <1>1, <3>3, RejectRows DEF Unsettled
    <3> QED BY <2>1, <3>1, <3>2, <3>3
  <2> QED BY <1>0, <1>1, <2>2, LeaveOnward, PaidKept
<1>2. CASE ~Leave(w) /\ ~NextOutput(w)
  <2>1. Goto(w, "doubted") /\ Kind[w] = "image" /\ task[w].at = "kept" /\ ledger' = ledger
    BY <1>2 DEF Discard, Accept, RejectKept
  <2>2. /\ task'[w].at = "doubted" /\ task'[w].job = task[w].job
        /\ task'[w].req = task[w].req /\ task'[w].todo = task[w].todo
        /\ \A v \in Workers \ {w} : task'[v] = task[v]
    BY <1>0, <2>1, GotoType DEF Shape
  <2>3. Onward(w)
    BY <2>1, <2>2 DEF Onward, WithJob, WithRequest, Stages, Unsettled, Keeping, Answering
  <2> QED BY <1>0, <2>1, <2>2, <2>3, StayOnward, PaidKept DEF Rows
<1> QED BY <1>1, <1>2

LEMMA DeskPaid ==
    ASSUME Shape, Paid, ResolveRead \/ ResolveLock \/ ResolveWrite \/ Midnight \/ UNCHANGED vars
    PROVE  Paid'
<1>1. task' = task /\ outputs' = outputs /\ (ledger' = ledger \/ ResolveWrite)
  BY DEF ResolveRead, ResolveLock, ResolveWrite, Midnight, vars
<1>2. Rows
  <2>1. ASSUME ResolveWrite PROVE Rows
    <3>1. PICK r \in LedgerRow : ledger' = Append(ledger, r) /\ r.manual
      BY <2>1, ManualRow DEF Shape
    <3> QED BY <3>1 DEF Rows, Harmless
  <2> QED BY <1>1, <2>1 DEF Rows
<1> QED BY <1>1, <1>2, StayOnward, PaidKept

LEMMA PaidStep == ASSUME Shape, Paid, [Next]_vars PROVE Paid'
  BY BatchPaid, SendPaid, KeepPaid, AnswerPaid, ClosePaid, DeskPaid DEF Next, Work

(* Whatever crashes, is refused or is closed by hand, a kept output names a   *)
(* request whose usage is on record, and only a picture can be kept and       *)
(* rejected by the program at once.                                           *)
THEOREM OutputsArePaid == Spec => []OutputsPaid
<1>1. Init => IInv /\ Paid
  <2> SUFFICES ASSUME Init PROVE Paid
    BY InitIInv
  <2>1. outputs = {} /\ \A w \in Workers : task[w].at = "idle"
    BY IdleTaskType DEF Init
  <2> QED BY <2>1 DEF Paid, Asked, Owned, Usage, Clean, Pictures, Backed, WithJob, WithRequest,
                      Answering, Unsettled, Keeping
<1>2. (IInv /\ Paid) /\ [Next]_vars => (IInv /\ Paid)'
  BY StepIInv, PaidStep DEF IInv
<1>3. Paid => OutputsPaid
  BY DEF Paid, Backed, OutputsPaid, Rejects, Picture
<1> QED BY <1>1, <1>2, <1>3, PTL DEF Spec

--------------------------------------------------------------------------------
(******************************************************************************)
(* The submission in the composer, for any channels, images and number of     *)
(* touches: what nothing moved after its last check is clicked as it was      *)
(* frozen, images included where their order can be known, and a click is on  *)
(* record.                                                                    *)
(*                                                                            *)
(* Why: a field that was not touched after its check has the frozen value, at *)
(* every step of the composer (Checked), for a step that types or selects     *)
(* puts its field among the unchecked ones and only its check takes it out    *)
(* (Unchecked); the order that was read is the order of the page as long as   *)
(* the media are not touched (Compared); the record is written before the     *)
(* click and says more only when the page said so (OnRecord).                 *)
(******************************************************************************)

\* A page of the composer, typed; what is clicked is one.
Names == C!Fields \cup {"address", "uploading"}
Page(f) == f = [n \in Names |-> f[n]]

Typed(f) == \A field \in C!Fields \ {"media"} : f[field] \in C!ValuesOf(field)

Pages == \A f \in {form, clicked} \ {C!NoPage} : Page(f) /\ Typed(f)

\* The page is there once the composer is open.
IsOpen ==
    /\ at \in {"baseline", "open"} => form = C!NoPage
    /\ at \notin {"baseline", "open", "raised", "end"} => form # C!NoPage

\* Until its step has been taken a field is not checked.
Opening == {"baseline", "open", "select", "deselect", "selected", "story", "extras", "upload"}
Writing == Opening \cup {"uploaded", "caption"}
Timing == Writing \cup {"switch", "controls", "date", "time"}

Unchecked ==
    /\ at \in Opening => "media" \in after
    /\ at \in Writing => "text" \in after
    /\ at \in Timing => {"date", "time"} \subseteq after

\* What is checked is as frozen.
Checked ==
    /\ after \subseteq C!Fields
    /\ form = C!NoPage => after = C!Fields
    /\ \A field \in C!Fields \ after : C!AsFrozen(form, field)

\* The order that was read is that of the page.
Ordered(f) ==
    (/\ "media" \notin after
     /\ C!Known(keys) /\ keys[1] = f.address /\ C!SameBag(keys[2], f.media))
        => keys[2] = f.media

Compared ==
    /\ form = C!NoPage => ~C!Known(keys)
    /\ form # C!NoPage => Ordered(form) /\ (form.address = "blob" => keys[1] \in {"none", "blob"})

\* What the journal's row says of the click.
OnRecord ==
    /\ row \in {"none", "prepared", "ambiguous", "submitted", "scheduled", "failed"}
    /\ typed \in 0..2
    /\ clicked # C!NoPage => at \in {"signal", "readback", "raised", "end"}
    /\ at \notin {"click", "signal", "readback", "raised", "end"} => row \in {"none", "prepared"}
    /\ at = "click" => row = "ambiguous"
    /\ at = "signal" => /\ row = "ambiguous" /\ clicked # C!NoPage
                        /\ toast # "none" => remote
    /\ at = "readback" => row \in {"ambiguous", "submitted"}
    /\ at = "raised" => row # "scheduled"

SubmissionInv == Pages /\ IsOpen /\ Unchecked /\ Checked /\ Compared /\ OnRecord
        /\ C!ClickedAsFrozen /\ C!OrderIsKept /\ C!ClickIsOnRecord
--------------------------------------------------------------------------------
\* A field is as frozen, or not, by its own value (and, for the media, the upload).
LEMMA FieldAlone ==
    ASSUME NEW f, NEW g, NEW field \in C!Fields, f[field] = g[field],
           field = "media" => f.uploading = g.uploading
    PROVE  C!AsFrozen(f, field) <=> C!AsFrozen(g, field)
<1>1. CASE field = "media"
      BY <1>1 DEF C!AsFrozen
<1>2. CASE field # "media"
      BY <1>2 DEF C!AsFrozen, C!Fields
<1> QED BY <1>1, <1>2

\* What it means for each field.
LEMMA Frozen ==
    ASSUME NEW f
    PROVE  /\ C!AsFrozen(f, "channels") <=> f.channels = {Target}
           /\ C!AsFrozen(f, "media") <=> Len(f.media) = Len(Images) /\ ~f.uploading
           /\ C!AsFrozen(f, "sets") <=> f.sets = 1
           /\ C!AsFrozen(f, "story") <=> ~f.story
           /\ C!AsFrozen(f, "extras") <=> ~f.extras
           /\ C!AsFrozen(f, "context") <=> f.context
           /\ C!AsFrozen(f, "switch") <=> f.switch
           /\ C!AsFrozen(f, "text") <=> f.text = "ours"
           /\ C!AsFrozen(f, "date") <=> f.date = "ours"
           /\ C!AsFrozen(f, "time") <=> f.time = "ours"
BY DEF C!AsFrozen

LEMMA Values ==
    /\ C!ValuesOf("channels") = SUBSET Channels
    /\ C!ValuesOf("text") = {"empty", "old", "ours", "mangled"}
    /\ C!ValuesOf("sets") = 1..2
    /\ C!ValuesOf("date") = {"ours", "other"}
    /\ C!ValuesOf("time") = {"ours", "other"}
    /\ C!ValuesOf("context") = BOOLEAN
    /\ C!ValuesOf("story") = BOOLEAN
    /\ C!ValuesOf("extras") = BOOLEAN
    /\ C!ValuesOf("switch") = BOOLEAN
BY DEF C!ValuesOf, C!Values

\* What stands for no page has no page's fields.
LEMMA NoPageDiffers == DOMAIN C!NoPage # Names
<1>1. DOMAIN C!NoPage = {"text"}
      BY DEF C!NoPage
<1>2. "date" \in Names
      BY DEF Names, C!Fields
<1> QED BY <1>1, <1>2

LEMMA StartHolds == C!Init => SubmissionInv
<1> SUFFICES ASSUME C!Init PROVE SubmissionInv
    OBVIOUS
<1> USE DEF C!Init
<1>1. Pages /\ IsOpen
      BY DEF Pages, IsOpen
<1>2. Unchecked
      BY DEF Unchecked, Opening, Writing, Timing, C!Fields
<1>3. Checked /\ Compared
      BY DEF Checked, Compared, C!Known
<1>4. OnRecord /\ C!ClickedAsFrozen /\ C!OrderIsKept /\ C!ClickIsOnRecord
      BY DEF OnRecord, C!ClickedAsFrozen, C!OrderIsKept, C!ClickIsOnRecord
<1> QED BY <1>1, <1>2, <1>3, <1>4 DEF SubmissionInv
--------------------------------------------------------------------------------
\* Steps that leave the page, what was clicked and what was checked alone.
LEMMA PageAlone ==
    ASSUME SubmissionInv, UNCHANGED <<form, clicked, keys, after>>
    PROVE  Pages' /\ Checked' /\ Compared' /\ C!ClickedAsFrozen' /\ C!OrderIsKept'
<1>1. Pages'
      BY DEF SubmissionInv, Pages, Page, Typed
<1>2. Checked'
      BY DEF SubmissionInv, Checked
<1>3. Compared'
      BY DEF SubmissionInv, Compared, Ordered, C!Known, C!SameBag
<1>4. C!ClickedAsFrozen' /\ C!OrderIsKept'
      BY DEF SubmissionInv, C!ClickedAsFrozen, C!OrderIsKept, C!Known, C!SameBag
<1> QED BY <1>1, <1>2, <1>3, <1>4

\* Before the click nothing was clicked.
LEMMA NotYet ==
    ASSUME SubmissionInv, at \notin {"signal", "readback", "raised", "end"}
    PROVE  clicked = C!NoPage
BY DEF SubmissionInv, OnRecord

\* A step that reads goes on when the fields it checks are as frozen.
Checks(here, there, fields) ==
    /\ at = here
    /\ \/ /\ at' = there /\ after' = after \ fields
          /\ \A field \in fields : C!AsFrozen(form, field)
       \/ at' = "raised" /\ after' = after
    /\ UNCHANGED <<manual, form, lagging, toast, typed, keys, row, clicked, remote, touches>>

\* What it has checked is as frozen.
LEMMA Reads ==
    ASSUME SubmissionInv, NEW here, NEW there, NEW fields \in SUBSET (C!Fields \ {"media"}),
           Checks(here, there, fields),
           here \notin {"click", "signal", "readback", "raised", "end"},
           there \notin {"click", "signal", "readback", "raised", "end"},
           fields # {} => here \notin {"baseline", "open"},
           there \in Opening => here \in Opening,
           there \in Writing => here \in Writing /\ "text" \notin fields,
           there \in Timing => here \in Timing /\ "date" \notin fields /\ "time" \notin fields,
           there = "open" <=> here = "baseline", there # "baseline", here # "open"
    PROVE  SubmissionInv'
<1> USE DEF Checks
<1>0. clicked = C!NoPage /\ clicked' = C!NoPage
      BY NotYet
<1>1. Pages'
      BY DEF SubmissionInv, Pages, Page, Typed
<1>2. Checked'
  <2>1. after' \subseteq C!Fields /\ (form' = C!NoPage => after' = C!Fields)
        BY DEF SubmissionInv, Checked, IsOpen
  <2>2. ASSUME NEW field \in C!Fields \ after' PROVE C!AsFrozen(form', field)
    <3>1. C!AsFrozen(form, field)
          BY <2>2 DEF SubmissionInv, Checked
    <3> QED BY <3>1 DEF C!AsFrozen
  <2> QED BY <2>1, <2>2 DEF Checked
<1>3. Compared'
      BY DEF SubmissionInv, Compared, Ordered, C!Known, C!SameBag
<1>4. C!ClickedAsFrozen' /\ C!OrderIsKept' /\ OnRecord' /\ C!ClickIsOnRecord'
      BY <1>0 DEF SubmissionInv, C!ClickedAsFrozen, C!OrderIsKept, OnRecord, C!ClickIsOnRecord
<1>5. IsOpen'
      BY DEF SubmissionInv, IsOpen
<1>6. Unchecked'
      BY DEF SubmissionInv, Unchecked, Opening, Writing, Timing
<1> QED BY <1>1, <1>2, <1>3, <1>4, <1>5, <1>6 DEF SubmissionInv

\* A page whose fields X were changed: each of them is as frozen, or no longer
\* counts as checked.
Moves(X) ==
    /\ Page(form') /\ form' # C!NoPage /\ X \subseteq Names
    /\ \A n \in Names \ X : form'[n] = form[n]
    /\ \A n \in (X \cap C!Fields) \ {"media"} : form'[n] \in C!ValuesOf(n)
    /\ \A n \in X \cap C!Fields : n \in after' \/ C!AsFrozen(form', n)
    /\ "media" \in X => "media" \in after'
    /\ "uploading" \in X => "media" \in after' \/ ~form'.uploading
    /\ "address" \in X => form.address = "blob" /\ form'.address # "blob"
    /\ after' \in SUBSET C!Fields /\ after \ after' \subseteq X
    /\ clicked' = clicked /\ keys' = keys
    /\ clicked = C!NoPage \/ after \subseteq after'

LEMMA Changes ==
    ASSUME SubmissionInv, form # C!NoPage, NEW X, Moves(X)
    PROVE  Pages' /\ Checked' /\ Compared' /\ C!ClickedAsFrozen' /\ C!OrderIsKept'
<1> USE DEF Moves
<1>0. "media" \in Names /\ "address" \in Names /\ "uploading" \in Names /\ C!Fields \subseteq Names
      BY DEF Names, C!Fields
<1>1. Pages'
  <2>1. Typed(form)
        BY DEF SubmissionInv, Pages
  <2>2. Typed(form)'
        BY <1>0, <2>1 DEF Typed
  <2> QED BY <2>2 DEF SubmissionInv, Pages, Page, Typed
<1>2. Checked'
  <2>1. ASSUME NEW field \in C!Fields \ after', field \notin X
        PROVE  C!AsFrozen(form', field)
    <3>1. field \notin after /\ C!AsFrozen(form, field)
          BY <2>1 DEF SubmissionInv, Checked
    <3>2. form'[field] = form[field]
          BY <2>1, <1>0
    <3>3. CASE field = "media" /\ "uploading" \in X
      <4>1. Len(form.media) = Len(Images) /\ ~form'.uploading
            BY <3>1, <3>3, <2>1, Frozen
      <4> QED BY <4>1, <3>2, <3>3 DEF C!AsFrozen
    <3>4. CASE ~(field = "media" /\ "uploading" \in X)
      <4>1. field = "media" => form'.uploading = form.uploading
            BY <3>4, <1>0
      <4>2. C!AsFrozen(form, field) <=> C!AsFrozen(form', field)
            BY <3>2, <4>1, FieldAlone
      <4> QED BY <4>2, <3>1 DEF C!AsFrozen
    <3> QED BY <3>3, <3>4
  <2> QED BY <2>1 DEF Checked
<1>3. Compared'
  <2>1. Ordered(form) /\ (form.address = "blob" => keys[1] \in {"none", "blob"})
        BY DEF SubmissionInv, Compared
  <2>2. CASE "media" \in after'
        BY <2>1, <2>2, <1>0 DEF Compared, Ordered
  <2>3. CASE "media" \notin after'
    <3>1. "media" \notin after /\ form'.media = form.media
          BY <2>3, <1>0
    <3>2. CASE "address" \in X
          BY <3>1, <3>2, <2>1 DEF Compared, Ordered, C!Known
    <3>3. CASE "address" \notin X
          BY <3>1, <3>3, <2>1, <1>0 DEF Compared, Ordered, C!Known, C!SameBag
    <3> QED BY <3>2, <3>3
  <2> QED BY <2>2, <2>3
<1>4. C!ClickedAsFrozen'
      BY DEF SubmissionInv, C!ClickedAsFrozen
<1>5. C!OrderIsKept'
      BY <1>0 DEF SubmissionInv, C!OrderIsKept, C!Known, C!SameBag
<1> QED BY <1>1, <1>2, <1>3, <1>4, <1>5
--------------------------------------------------------------------------------
\* The steps that read the page or ask, in their order.
LEMMA ReadingSteps ==
    ASSUME SubmissionInv,
           \/ C!BaselineIsEmpty \/ C!SelectionIsRead \/ C!ExtrasAreOff \/ C!ControlsArePaired
           \/ C!VerifyBeforeSubmit("verify", "prepare") \/ C!SlotIsStillFree \/ C!ButtonIsReady
           \/ C!VerifyForm \/ C!VerifyBeforeSubmit("verify again", "last") \/ C!PreSubmitCheck
    PROVE  SubmissionInv'
<1>1. CASE C!BaselineIsEmpty
  <2>1. Checks("baseline", "open", {})
        BY <1>1, Frozen DEF C!BaselineIsEmpty, C!Requires, Checks, C!page, C!record
  <2>2. {} \in SUBSET (C!Fields \ {"media"})
        BY DEF C!Fields
  <2> QED BY <2>1, <2>2, Reads DEF Opening, Writing, Timing
<1>2. CASE C!SelectionIsRead
  <2>1. Checks("selected", "story", {"channels"})
        BY <1>2, Frozen DEF C!SelectionIsRead, C!Requires, Checks, C!page, C!record
  <2>2. {"channels"} \in SUBSET (C!Fields \ {"media"})
        BY DEF C!Fields
  <2> QED BY <2>1, <2>2, Reads DEF Opening, Writing, Timing
<1>3. CASE C!ExtrasAreOff
  <2> DEFINE fields == {"story", "extras", "context"}
  <2>1. Checks("extras", "upload", fields)
        BY <1>3, Frozen DEF C!ExtrasAreOff, C!Requires, Checks, C!page, C!record
  <2>2. fields \in SUBSET (C!Fields \ {"media"})
        BY DEF C!Fields
  <2>3. "text" \notin fields /\ "date" \notin fields /\ "time" \notin fields
        BY DEF Opening, Writing, Timing
  <2> HIDE DEF fields
  <2> QED BY <2>1, <2>2, <2>3, Reads DEF Opening, Writing, Timing
<1>4. CASE C!ControlsArePaired
  <2>1. Checks("controls", "date", {"sets"})
        BY <1>4, Frozen DEF C!ControlsArePaired, C!Requires, Checks, C!page, C!record
  <2>2. {"sets"} \in SUBSET (C!Fields \ {"media"})
        BY DEF C!Fields
  <2>3. /\ "date" \notin Writing /\ "controls" \notin {"baseline", "open"}
        /\ "date" \in Timing => "controls" \in Timing /\ "date" \notin {"sets"} /\ "time" \notin {"sets"}
        BY DEF Opening, Writing, Timing
  <2> QED BY <2>1, <2>2, <2>3, Reads DEF Writing
<1>5. CASE C!VerifyBeforeSubmit("verify", "prepare")
  <2>1. Checks("verify", "prepare", C!LiveFields)
        BY <1>5, Frozen DEF C!VerifyBeforeSubmit, C!LiveForm, C!LiveFields, C!Requires, Checks, C!page, C!record
  <2>2. C!LiveFields \in SUBSET (C!Fields \ {"media"})
        BY DEF C!Fields, C!LiveFields
  <2>3. /\ "prepare" \notin Writing /\ "verify" \notin {"baseline", "open"}
        /\ "prepare" \in Timing => "verify" \in Timing /\ "date" \notin C!LiveFields /\ "time" \notin C!LiveFields
        BY DEF Opening, Writing, Timing, C!LiveFields
  <2> QED BY <2>1, <2>2, <2>3, Reads DEF Writing
<1>6. CASE C!SlotIsStillFree
  <2>1. Checks("live", "ready", {})
        BY <1>6, Frozen DEF C!SlotIsStillFree, C!Requires, Checks, C!page, C!record
  <2>2. {} \in SUBSET (C!Fields \ {"media"})
        BY DEF C!Fields
  <2> QED BY <2>1, <2>2, Reads DEF Opening, Writing, Timing
<1>7. CASE C!ButtonIsReady
  <2>1. Checks("ready", "media again", {})
        BY <1>7, Frozen DEF C!ButtonIsReady, C!Requires, Checks, C!page, C!record
  <2>2. {} \in SUBSET (C!Fields \ {"media"})
        BY DEF C!Fields
  <2> QED BY <2>1, <2>2, Reads DEF Opening, Writing, Timing
<1>8. CASE C!VerifyForm
  <2> DEFINE fields == {"text", "switch", "sets", "date", "time"}
  <2>1. Checks("form", "verify again", fields)
        BY <1>8, Frozen DEF C!VerifyForm, C!FormVerified, C!Requires, Checks, C!page, C!record
  <2>2. fields \in SUBSET (C!Fields \ {"media"})
        BY DEF C!Fields
  <2>3. "verify again" \notin Timing /\ "verify again" \notin Writing
        BY DEF Opening, Writing, Timing
  <2> HIDE DEF fields
  <2> QED BY <2>1, <2>2, <2>3, Reads DEF Opening, Writing, Timing
<1>9. CASE C!VerifyBeforeSubmit("verify again", "last")
  <2>1. Checks("verify again", "last", C!LiveFields)
        BY <1>9, Frozen DEF C!VerifyBeforeSubmit, C!LiveForm, C!LiveFields, C!Requires, Checks, C!page, C!record
  <2>2. C!LiveFields \in SUBSET (C!Fields \ {"media"})
        BY DEF C!Fields, C!LiveFields
  <2>3. /\ "last" \notin Writing /\ "verify again" \notin {"baseline", "open"}
        /\ "last" \in Timing => "verify again" \in Timing /\ "date" \notin C!LiveFields /\ "time" \notin C!LiveFields
        BY DEF Opening, Writing, Timing, C!LiveFields
  <2> QED BY <2>1, <2>2, <2>3, Reads DEF Writing
<1>10. CASE C!PreSubmitCheck
  <2>1. Checks("last", "arm", {})
        BY <1>10, Frozen DEF C!PreSubmitCheck, C!Requires, Checks, C!page, C!record
  <2>2. {} \in SUBSET (C!Fields \ {"media"})
        BY DEF C!Fields
  <2> QED BY <2>1, <2>2, Reads DEF Opening, Writing, Timing
<1> QED BY <1>1, <1>2, <1>3, <1>4, <1>5, <1>6, <1>7, <1>8, <1>9, <1>10
--------------------------------------------------------------------------------
\* The steps of the record, and the ends.
LEMMA RecordSteps ==
    ASSUME SubmissionInv,
           C!Prepare \/ C!Arm \/ C!Signal \/ C!ReadBack \/ C!Raised \/ C!TimesOut \/ C!Dies
           \/ C!OldToastShows
    PROVE  SubmissionInv'
<1>1. UNCHANGED <<form, clicked, keys, after>>
      BY DEF C!Prepare, C!Arm, C!Signal, C!ReadBack, C!Raised, C!TimesOut, C!Dies,
             C!OldToastShows, C!Writes, C!page, C!record
<1>2. Pages' /\ Checked' /\ Compared' /\ C!ClickedAsFrozen' /\ C!OrderIsKept'
      BY <1>1, PageAlone
<1>3. IsOpen' /\ Unchecked' /\ OnRecord' /\ C!ClickIsOnRecord'
  <2> USE DEF SubmissionInv, IsOpen, Unchecked, OnRecord, C!ClickIsOnRecord, Opening, Writing, Timing,
              C!Writes, C!page, C!record
  <2>1. CASE C!Prepare
        BY <2>1 DEF C!Prepare
  <2>2. CASE C!Arm
        BY <2>2 DEF C!Arm
  <2>3. CASE C!Signal
        BY <2>3 DEF C!Signal
  <2>4. CASE C!ReadBack
        BY <2>4 DEF C!ReadBack
  <2>5. CASE C!Raised
        BY <2>5 DEF C!Raised, C!TerminalStatus
  <2>6. CASE C!TimesOut
        BY <2>6 DEF C!TimesOut
  <2>7. CASE C!Dies
        BY <2>7 DEF C!Dies
  <2>8. CASE C!OldToastShows
        BY <2>8 DEF C!OldToastShows
  <2> QED BY <2>1, <2>2, <2>3, <2>4, <2>5, <2>6, <2>7, <2>8
<1> QED BY <1>2, <1>3 DEF SubmissionInv

\* Between the steps.
LEMMA BetweenSteps ==
    ASSUME SubmissionInv, C!PersonTouches \/ C!PageRenders \/ C!SwitchTurns
    PROVE  SubmissionInv'
<1>0. form # C!NoPage /\ Page(form)
      BY DEF C!PersonTouches, C!PageRenders, C!SwitchTurns, C!Open, SubmissionInv, Pages
<1>1. form' # C!NoPage => IsOpen' /\ Unchecked' /\ OnRecord' /\ C!ClickIsOnRecord'
      BY <1>0 DEF SubmissionInv, IsOpen, Unchecked, OnRecord, C!ClickIsOnRecord, C!PersonTouches, C!PageRenders,
             C!SwitchTurns, Opening, Writing, Timing, C!record
<1>2. CASE C!PersonTouches
  <2>1. PICK field \in C!Fields : \E value \in C!ValuesOf(field) \ {form[field]} :
            /\ form' = [form EXCEPT ![field] = value]
            /\ after' = after \cup {field}
        BY <1>2 DEF C!PersonTouches
  <2>2. PICK value \in C!ValuesOf(field) : form' = [form EXCEPT ![field] = value]
        BY <2>1
  <2>3. field \in Names
        BY DEF Names
  <2>4. /\ Page(form') /\ form' # C!NoPage /\ form'[field] = value
        /\ \A n \in Names \ {field} : form'[n] = form[n]
        BY <1>0, <2>2, <2>3, NoPageDiffers DEF Page
  <2>5. /\ after' \in SUBSET C!Fields /\ after \subseteq after'
        /\ clicked' = clicked /\ keys' = keys
        BY <1>2, <2>1 DEF SubmissionInv, Checked, C!PersonTouches, C!record
  <2>6. "uploading" \notin C!Fields /\ "address" \notin C!Fields
        BY DEF C!Fields
  <2>7. Pages' /\ Checked' /\ Compared' /\ C!ClickedAsFrozen' /\ C!OrderIsKept'
    <3>1. "media" \in C!Fields
          BY DEF C!Fields
    <3>2. Moves({field})
          BY <2>1, <2>2, <2>3, <2>4, <2>5, <2>6, <3>1 DEF Moves
    <3> QED BY <1>0, <3>2, Changes
  <2> QED BY <1>1, <2>4, <2>7 DEF SubmissionInv
<1>3. CASE C!PageRenders
  <2>1. PICK n \in {"uploading", "address"}, v \in {FALSE, "cdn", "none"} :
            /\ form' = [form EXCEPT ![n] = v]
            /\ n = "uploading" => v = FALSE
            /\ n = "address" => form.address = "blob" /\ v # "blob"
    <3>1. CASE form.uploading /\ form' = [form EXCEPT !.uploading = FALSE]
          BY <3>1
    <3>2. CASE form.address = "blob" /\ \E a \in {"cdn", "none"} : form' = [form EXCEPT !.address = a]
      <4>1. PICK a \in {"cdn", "none"} : form' = [form EXCEPT !.address = a]
            BY <3>2
      <4> QED BY <3>2, <4>1
    <3> QED BY <1>3, <3>1, <3>2 DEF C!PageRenders
  <2>2. n \in Names /\ n \notin C!Fields
        BY DEF Names, C!Fields
  <2>3. /\ Page(form') /\ form' # C!NoPage /\ form'[n] = v
        /\ \A m \in Names \ {n} : form'[m] = form[m]
        BY <1>0, <2>1, <2>2, NoPageDiffers DEF Page
  <2>4. /\ after' \in SUBSET C!Fields /\ after' = after
        /\ clicked' = clicked /\ keys' = keys
        BY <1>3 DEF SubmissionInv, Checked, C!PageRenders, C!record
  <2>5. Pages' /\ Checked' /\ Compared' /\ C!ClickedAsFrozen' /\ C!OrderIsKept'
    <3>1. "media" \in C!Fields
          BY DEF C!Fields
    <3>2. "uploading" \in {n} => ~form'.uploading
          BY <2>1, <2>3
    <3>3. "address" \in {n} => form.address = "blob" /\ form'.address # "blob"
          BY <2>1, <2>3
    <3>4. Moves({n})
          BY <2>2, <2>3, <2>4, <3>1, <3>2, <3>3 DEF Moves
    <3> QED BY <1>0, <3>4, Changes
  <2> QED BY <1>1, <2>3, <2>5 DEF SubmissionInv
<1>4. CASE C!SwitchTurns
  <2>0. "switch" \in Names /\ "switch" \in C!Fields
        BY DEF Names, C!Fields
  <2>1. form' = [form EXCEPT !["switch"] = ~form.switch] /\ after' = after \cup {"switch"}
        /\ clicked' = clicked /\ keys' = keys
        BY <1>4 DEF C!SwitchTurns, C!record
  <2>2. /\ Page(form') /\ form' # C!NoPage /\ form'["switch"] = ~form.switch
        /\ \A n \in Names \ {"switch"} : form'[n] = form[n]
        BY <1>0, <2>0, <2>1, NoPageDiffers DEF Page
  <2>3. after' \in SUBSET C!Fields
        BY <2>0, <2>1 DEF SubmissionInv, Checked
  <2>4. form'["switch"] \in C!ValuesOf("switch")
        BY <2>2, Values
  <2>5. Pages' /\ Checked' /\ Compared' /\ C!ClickedAsFrozen' /\ C!OrderIsKept'
    <3>1. Moves({"switch"})
          BY <2>0, <2>1, <2>2, <2>3, <2>4 DEF Moves, C!Fields
    <3> QED BY <1>0, <3>1, Changes
  <2> QED BY <1>1, <2>2, <2>5 DEF SubmissionInv
<1> QED BY <1>2, <1>3, <1>4
--------------------------------------------------------------------------------
\* One field is filled in, before the click: it was not yet checked, or it is
\* as frozen.
LEMMA Filled ==
    ASSUME SubmissionInv, form # C!NoPage, clicked = C!NoPage, NEW x \in C!Fields, NEW v,
           form' = [form EXCEPT ![x] = v], x # "media" => v \in C!ValuesOf(x),
           x \in after' \/ C!AsFrozen(form', x),
           x = "media" => "media" \in after',
           after' \in SUBSET C!Fields, after \ after' \subseteq {x},
           clicked' = clicked, keys' = keys
    PROVE  form' # C!NoPage /\ Pages' /\ Checked' /\ Compared' /\ C!ClickedAsFrozen' /\ C!OrderIsKept'
<1>1. x \in Names /\ "uploading" \notin C!Fields /\ "address" \notin C!Fields
      BY DEF Names, C!Fields
<1>2. Page(form)
      BY DEF SubmissionInv, Pages
<1>3. /\ Page(form') /\ form' # C!NoPage /\ form'[x] = v
      /\ \A n \in Names \ {x} : form'[n] = form[n]
      BY <1>1, <1>2, NoPageDiffers DEF Page
<1>4. Moves({x})
      BY <1>1, <1>3 DEF Moves
<1> QED BY <1>3, <1>4, Changes

\* Where the page is, and that nothing was clicked.
LEMMA AtWork ==
    ASSUME SubmissionInv, at \notin {"baseline", "open", "signal", "readback", "raised", "end"}
    PROVE  form # C!NoPage /\ Page(form) /\ Typed(form) /\ clicked = C!NoPage /\ after \in SUBSET C!Fields
BY NotYet DEF SubmissionInv, IsOpen, Pages, Checked

LEMMA Opens == ASSUME SubmissionInv, C!OpenComposer PROVE SubmissionInv'
<1> USE DEF C!OpenComposer, C!record
<1>0. /\ form = C!NoPage /\ clicked = C!NoPage /\ clicked' = C!NoPage /\ after' = after /\ keys' = keys
      /\ form' \in C!Opened
      BY NotYet DEF SubmissionInv, IsOpen
<1>1. /\ Page(form') /\ form' # C!NoPage /\ Typed(form')
  <2>1. DOMAIN form' = Names
        BY <1>0 DEF C!Opened, Names, C!Fields
  <2>2. Page(form')
        BY <1>0, <2>1 DEF C!Opened, Page
  <2>3. form' # C!NoPage
        BY <2>1, NoPageDiffers
  <2>0. PICK f \in C!Opened : form' = f
        BY <1>0
  <2>4. /\ form'.channels \in SUBSET Channels /\ form'.text \in {"empty", "old"} /\ form'.sets \in 1..2
        /\ form'.date = "other" /\ form'.time = "other" /\ form'.context \in BOOLEAN
        /\ form'.story \in BOOLEAN /\ form'.extras \in BOOLEAN /\ form'.switch \in BOOLEAN
    <3> DEFINE Empty == [context : BOOLEAN, channels : SUBSET Channels, story : BOOLEAN, extras : {FALSE},
                         media : {<<>>}, address : {"blob"}, uploading : {FALSE}, text : {"empty"},
                         switch : {FALSE}, sets : {1}, date : {"other"}, time : {"other"}]
               Draft == [context : {TRUE}, channels : {Channels}, story : {FALSE}, extras : BOOLEAN,
                         media : {<<>>, <<Images[1]>>}, address : {"blob"}, uploading : {FALSE}, text : {"old"},
                         switch : BOOLEAN, sets : 1..2, date : {"other"}, time : {"other"}]
    <3>1. f \in Empty \/ f \in Draft
          BY DEF C!Opened
    <3>2. CASE f \in Empty
      <4>1. /\ f.channels \in SUBSET Channels /\ f.text \in {"empty", "old"} /\ f.sets \in 1..2
            /\ f.date = "other" /\ f.time = "other"
            BY <3>2
      <4>2. f.context \in BOOLEAN /\ f.story \in BOOLEAN /\ f.extras \in BOOLEAN /\ f.switch \in BOOLEAN
            BY <3>2
      <4> QED BY <2>0, <4>1, <4>2
    <3>3. CASE f \in Draft
      <4>1. /\ f.channels \in SUBSET Channels /\ f.text \in {"empty", "old"} /\ f.sets \in 1..2
            /\ f.date = "other" /\ f.time = "other"
            BY <3>3
      <4>2. f.context \in BOOLEAN /\ f.story \in BOOLEAN /\ f.extras \in BOOLEAN /\ f.switch \in BOOLEAN
            BY <3>3
      <4> QED BY <2>0, <4>1, <4>2
    <3> QED BY <3>1, <3>2, <3>3
  <2>5. Typed(form')
        BY <2>4, Values DEF Typed, C!Fields
  <2> QED BY <2>2, <2>3, <2>5
<1>2. Pages'
      BY <1>0, <1>1 DEF Pages, Page, Typed
<1>3. after = C!Fields /\ ~C!Known(keys)
      BY <1>0 DEF SubmissionInv, Checked, Compared
<1>4. Checked'
      BY <1>0, <1>1, <1>3 DEF Checked
<1>5. Compared'
      BY <1>0, <1>1, <1>3 DEF Compared, Ordered, C!Known
<1>6. C!ClickedAsFrozen' /\ C!OrderIsKept'
      BY <1>0 DEF C!ClickedAsFrozen, C!OrderIsKept
<1>7. IsOpen' /\ Unchecked' /\ OnRecord' /\ C!ClickIsOnRecord'
      BY <1>0, <1>1 DEF SubmissionInv, IsOpen, Unchecked, OnRecord, C!ClickIsOnRecord, Opening, Writing, Timing
<1> QED BY <1>2, <1>4, <1>5, <1>6, <1>7 DEF SubmissionInv

LEMMA SelectsAccount ==
    ASSUME SubmissionInv, C!SelectTarget \/ C!DeselectOthers
    PROVE  SubmissionInv'
<1> USE DEF C!SelectTarget, C!DeselectOthers, C!Fills, C!record
<1>0. form # C!NoPage /\ Typed(form) /\ Page(form) /\ clicked = C!NoPage /\ after \in SUBSET C!Fields
      BY AtWork
<1>1. CASE form' = form
  <2>1. UNCHANGED <<form, clicked, keys, after>>
        BY <1>1
  <2>2. Pages' /\ Checked' /\ Compared' /\ C!ClickedAsFrozen' /\ C!OrderIsKept'
        BY <2>1, PageAlone
  <2>3. IsOpen' /\ Unchecked' /\ OnRecord' /\ C!ClickIsOnRecord'
        BY <2>1, <1>0 DEF SubmissionInv, IsOpen, Unchecked, OnRecord, C!ClickIsOnRecord, Opening, Writing, Timing
  <2> QED BY <2>2, <2>3 DEF SubmissionInv
<1>2. CASE form' # form
  <2>1. PICK v \in {form.channels \cup {Target}, form.channels \cap {Target}, form.channels} :
            form' = [form EXCEPT !["channels"] = v]
        BY <1>2
  <2>2. form.channels \in SUBSET Channels /\ "channels" \in C!Fields
        BY <1>0, Values DEF Typed, C!Fields
  <2>3. v \in C!ValuesOf("channels")
        BY <2>1, <2>2, TargetIsOffered, Values
  <2>4. form'.channels = v
        BY <1>0, <2>1, NoPageDiffers DEF Page, Names, C!Fields
  <2>5. "channels" \in after \/ form.channels = {Target}
        BY <2>2, Frozen DEF SubmissionInv, Checked
  <2>6. "channels" \in after' \/ C!AsFrozen(form', "channels")
    <3>1. "channels" \in after' \/ form'.channels = {Target}
          BY <2>1, <2>4, <2>5
    <3> QED BY <3>1 DEF C!AsFrozen
  <2>7. form' # C!NoPage /\ Pages' /\ Checked' /\ Compared' /\ C!ClickedAsFrozen' /\ C!OrderIsKept'
        BY <1>0, <2>1, <2>2, <2>3, <2>6, Filled
  <2>8. IsOpen' /\ Unchecked' /\ OnRecord' /\ C!ClickIsOnRecord'
        BY <2>7, <1>0 DEF SubmissionInv, IsOpen, Unchecked, OnRecord, C!ClickIsOnRecord, Opening, Writing, Timing
  <2> QED BY <2>7, <2>8 DEF SubmissionInv
<1> QED BY <1>1, <1>2

LEMMA StopsStory == ASSUME SubmissionInv, C!StopStory PROVE SubmissionInv'
<1> USE DEF C!StopStory, C!record
<1>0. form # C!NoPage /\ Typed(form) /\ Page(form) /\ clicked = C!NoPage /\ after \in SUBSET C!Fields
      BY AtWork
<1>1. CASE form' = form
  <2>1. UNCHANGED <<form, clicked, keys, after>>
        BY <1>1
  <2>2. Pages' /\ Checked' /\ Compared' /\ C!ClickedAsFrozen' /\ C!OrderIsKept'
        BY <2>1, PageAlone
  <2>3. IsOpen' /\ Unchecked' /\ OnRecord' /\ C!ClickIsOnRecord'
        BY <2>1, <1>0 DEF SubmissionInv, IsOpen, Unchecked, OnRecord, C!ClickIsOnRecord, Opening, Writing, Timing
  <2> QED BY <2>2, <2>3 DEF SubmissionInv
<1>2. CASE form' = [form EXCEPT !["story"] = FALSE]
  <2>1. "story" \in C!Fields /\ FALSE \in C!ValuesOf("story")
        BY Values DEF C!Fields
  <2>2. form'.story = FALSE
        BY <1>0, <1>2, NoPageDiffers DEF Page, Names, C!Fields
  <2>3. C!AsFrozen(form', "story")
        BY <2>2 DEF C!AsFrozen
  <2>4. form' # C!NoPage /\ Pages' /\ Checked' /\ Compared' /\ C!ClickedAsFrozen' /\ C!OrderIsKept'
        BY <1>0, <1>2, <2>1, <2>3, Filled
  <2>5. IsOpen' /\ Unchecked' /\ OnRecord' /\ C!ClickIsOnRecord'
        BY <2>4, <1>0 DEF SubmissionInv, IsOpen, Unchecked, OnRecord, C!ClickIsOnRecord, Opening, Writing, Timing
  <2> QED BY <2>4, <2>5 DEF SubmissionInv
<1> QED BY <1>1, <1>2

LEMMA Uploads == ASSUME SubmissionInv, C!UploadImages PROVE SubmissionInv'
<1>1. PICK takes \in BOOLEAN :
        C!Fills("upload", IF takes THEN "uploaded" ELSE "raised",
                IF takes THEN [form EXCEPT !.media = @ \o Images, !.uploading = TRUE] ELSE form)
        /\ UNCHANGED <<lagging, typed>>
      BY DEF C!UploadImages
<1> USE <1>1 DEF C!Fills, C!record
<1>0. /\ form # C!NoPage /\ Typed(form) /\ Page(form) /\ clicked = C!NoPage /\ after \in SUBSET C!Fields
      /\ "media" \in after
      BY AtWork DEF SubmissionInv, Unchecked, Opening
<1>2. Page(form') /\ form' # C!NoPage /\ \A n \in Names \ {"media", "uploading"} : form'[n] = form[n]
  <2>1. CASE takes
    <3>1. DOMAIN form' = Names /\ Page(form')
          BY <1>0, <2>1 DEF Page
    <3>2. form' # C!NoPage
          BY <3>1, NoPageDiffers
    <3>3. \A n \in Names \ {"media", "uploading"} : form'[n] = form[n]
          BY <1>0, <2>1 DEF Page
    <3> QED BY <3>1, <3>2, <3>3
  <2>2. CASE ~takes
        BY <1>0, <2>2
  <2> QED BY <2>1, <2>2
<1>3. Pages' /\ Checked' /\ Compared' /\ C!ClickedAsFrozen' /\ C!OrderIsKept'
  <2>1. {"media", "uploading"} \in SUBSET Names /\ {"media", "uploading"} \cap C!Fields = {"media"}
        BY DEF Names, C!Fields
  <2>2. Moves({"media", "uploading"})
        BY <1>0, <1>2, <2>1 DEF Moves
  <2> QED BY <1>0, <2>2, Changes
<1>4. IsOpen' /\ Unchecked' /\ OnRecord' /\ C!ClickIsOnRecord'
      BY <1>2, <1>0 DEF SubmissionInv, IsOpen, Unchecked, OnRecord, C!ClickIsOnRecord, Opening, Writing, Timing
<1> QED BY <1>3, <1>4 DEF SubmissionInv

\* The upload is read twice; its order counts from the first time on.
LEMMA VerifiesUpload ==
    ASSUME SubmissionInv, C!VerifyUpload("uploaded", "caption") \/ C!VerifyUpload("media again", "form")
    PROVE  SubmissionInv'
<1>1. PICK here \in {"uploaded", "media again"}, there \in {"caption", "form"} :
        /\ C!VerifyUpload(here, there)
        /\ here = "uploaded" <=> there = "caption"
      OBVIOUS
<1> USE <1>1 DEF C!VerifyUpload, C!page, C!record
<1>0. form # C!NoPage /\ clicked = C!NoPage /\ clicked' = C!NoPage /\ form' = form /\ after \in SUBSET C!Fields
      BY AtWork
<1>2. Pages'
      BY <1>0 DEF SubmissionInv, Pages, Page, Typed
<1>3. Checked'
  <2>1. ASSUME NEW field \in C!Fields \ after' PROVE C!AsFrozen(form', field)
    <3>1. CASE field \notin after
      <4>1. C!AsFrozen(form, field)
            BY <2>1, <3>1 DEF SubmissionInv, Checked
      <4> QED BY <1>0, <4>1
    <3>2. CASE field \in after
      <4>1. field = "media" /\ C!UploadVerified(keys)
            BY <2>1, <3>2
      <4> QED BY <1>0, <4>1 DEF C!UploadVerified, C!AsFrozen
    <3> QED BY <3>1, <3>2
  <2> QED BY <1>0, <2>1 DEF Checked
<1>4. Compared'
  <2>1. Ordered(form) /\ (form.address = "blob" => keys[1] \in {"none", "blob"})
        BY <1>0 DEF SubmissionInv, Compared
  <2>2. CASE here = "uploaded"
    <3>1. keys'[1] = form'.address /\ keys'[2] = form'.media
          BY <1>0, <2>2
    <3> QED BY <1>0, <3>1 DEF Compared, Ordered
  <2>3. CASE here = "media again"
    <3>1. keys' = keys
          BY <2>3
    <3>2. C!UploadVerified(keys) \/ after' = after
          OBVIOUS
    <3>3. CASE C!UploadVerified(keys)
          BY <1>0, <2>1, <3>1, <3>3 DEF Compared, Ordered, C!UploadVerified, C!Known, C!SameBag
    <3>4. CASE after' = after
          BY <1>0, <2>1, <3>1, <3>4 DEF Compared, Ordered, C!Known, C!SameBag
    <3> QED BY <3>2, <3>3, <3>4
  <2> QED BY <2>2, <2>3
<1>5. C!ClickedAsFrozen' /\ C!OrderIsKept'
      BY <1>0 DEF C!ClickedAsFrozen, C!OrderIsKept
<1>6. IsOpen' /\ Unchecked' /\ OnRecord' /\ C!ClickIsOnRecord'
      BY <1>0 DEF SubmissionInv, IsOpen, Unchecked, OnRecord, C!ClickIsOnRecord, Opening, Writing, Timing
<1> QED BY <1>2, <1>3, <1>4, <1>5, <1>6 DEF SubmissionInv

LEMMA FillsCaption == ASSUME SubmissionInv, C!FillCaption PROVE SubmissionInv'
<1>1. PICK t \in {"ours", "mangled"} :
        /\ at = "caption"
        /\ form' = [form EXCEPT !["text"] = t]
        /\ at' = (IF t = "ours" THEN "switch" ELSE IF typed = 0 THEN "caption" ELSE "raised")
        /\ typed' = (IF t = "ours" \/ typed = 1 THEN 0 ELSE 1)
        /\ after' = (IF t = "ours" THEN after \ {"text"} ELSE after)
        /\ UNCHANGED <<toast, keys, row, clicked, remote>>
      BY DEF C!FillCaption, C!record
<1> USE <1>1
<1>0. /\ form # C!NoPage /\ Typed(form) /\ Page(form) /\ clicked = C!NoPage /\ after \in SUBSET C!Fields
      /\ "text" \in after
      BY AtWork DEF SubmissionInv, Unchecked, Writing
<1>2. "text" \in C!Fields /\ t \in C!ValuesOf("text")
      BY Values DEF C!Fields
<1>3. form'.text = t
      BY <1>0, NoPageDiffers DEF Page, Names, C!Fields
<1>4. "text" \in after' \/ C!AsFrozen(form', "text")
      BY <1>0, <1>3 DEF C!AsFrozen
<1>5. form' # C!NoPage /\ Pages' /\ Checked' /\ Compared' /\ C!ClickedAsFrozen' /\ C!OrderIsKept'
      BY <1>0, <1>2, <1>4, Filled
<1>6. IsOpen' /\ Unchecked' /\ OnRecord' /\ C!ClickIsOnRecord'
  <2>1. CASE t = "ours"
    <3>1. at = "caption" /\ at' = "switch" /\ typed' = 0 /\ after' = after \ {"text"}
          BY <2>1
    <3>2. IsOpen' /\ Unchecked'
          BY <3>1, <1>0, <1>5 DEF SubmissionInv, IsOpen, Unchecked, Opening, Writing, Timing
    <3>3. OnRecord' /\ C!ClickIsOnRecord'
          BY <3>1, <1>0 DEF SubmissionInv, OnRecord, C!ClickIsOnRecord
    <3> QED BY <3>2, <3>3
  <2>2. CASE t # "ours" /\ typed = 0
        BY <2>2, <1>0, <1>5 DEF SubmissionInv, IsOpen, Unchecked, OnRecord, C!ClickIsOnRecord, Opening, Writing, Timing
  <2>3. CASE t # "ours" /\ typed # 0
        BY <2>3, <1>0, <1>5 DEF SubmissionInv, IsOpen, Unchecked, OnRecord, C!ClickIsOnRecord, Opening, Writing, Timing
  <2> QED BY <2>1, <2>2, <2>3
<1> QED BY <1>5, <1>6 DEF SubmissionInv

LEMMA TurnsSwitch == ASSUME SubmissionInv, C!TurnSwitch PROVE SubmissionInv'
<1> USE DEF C!TurnSwitch, C!record
<1>0. form # C!NoPage /\ Typed(form) /\ Page(form) /\ clicked = C!NoPage /\ after \in SUBSET C!Fields
      BY AtWork
<1>2. "switch" \in C!Fields /\ "switch" \in Names /\ TRUE \in C!ValuesOf("switch")
      /\ form.switch \in C!ValuesOf("switch")
      BY <1>0, Values DEF Typed, C!Fields, Names
<1>3. CASE form.switch /\ UNCHANGED form
  <2>1. C!AsFrozen(form', "switch")
        BY <1>3 DEF C!AsFrozen
  <2>2. after' \in SUBSET C!Fields /\ after \ after' \subseteq {"switch"} /\ clicked' = clicked /\ keys' = keys
        BY <1>0
  <2>3. Pages' /\ Checked' /\ Compared' /\ C!ClickedAsFrozen' /\ C!OrderIsKept'
    <3>1. Moves({"switch"})
          BY <1>0, <1>2, <1>3, <2>1, <2>2 DEF Moves, C!Fields
    <3> QED BY <1>0, <3>1, Changes
  <2>4. IsOpen' /\ Unchecked' /\ OnRecord' /\ C!ClickIsOnRecord'
        BY <1>0, <1>3 DEF SubmissionInv, IsOpen, Unchecked, OnRecord, C!ClickIsOnRecord, Opening, Writing, Timing
  <2> QED BY <2>3, <2>4 DEF SubmissionInv
<1>4. CASE ~form.switch /\ form' = [form EXCEPT !["switch"] = TRUE]
  <2>1. form'.switch
        BY <1>0, <1>2, <1>4, NoPageDiffers DEF Page
  <2>2. C!AsFrozen(form', "switch")
        BY <2>1 DEF C!AsFrozen
  <2>3. form' # C!NoPage /\ Pages' /\ Checked' /\ Compared' /\ C!ClickedAsFrozen' /\ C!OrderIsKept'
        BY <1>0, <1>2, <1>4, <2>2, Filled
  <2>4. IsOpen' /\ Unchecked' /\ OnRecord' /\ C!ClickIsOnRecord'
        BY <1>0, <1>4, <2>3 DEF SubmissionInv, IsOpen, Unchecked, OnRecord, C!ClickIsOnRecord, Opening, Writing, Timing
  <2> QED BY <2>3, <2>4 DEF SubmissionInv
<1>5. CASE ~form.switch /\ UNCHANGED form
  <2>1. UNCHANGED <<form, clicked, keys, after>>
        BY <1>5
  <2>2. Pages' /\ Checked' /\ Compared' /\ C!ClickedAsFrozen' /\ C!OrderIsKept'
        BY <2>1, PageAlone
  <2>3. IsOpen' /\ Unchecked' /\ OnRecord' /\ C!ClickIsOnRecord'
        BY <2>1, <1>0 DEF SubmissionInv, IsOpen, Unchecked, OnRecord, C!ClickIsOnRecord, Opening, Writing, Timing
  <2> QED BY <2>2, <2>3 DEF SubmissionInv
<1> QED BY <1>3, <1>4, <1>5

LEMMA TypesDate == ASSUME SubmissionInv, C!TypeDate PROVE SubmissionInv'
<1>1. PICK d \in C!Values :
        C!Fills("date", IF d = "ours" THEN "time" ELSE "raised", [form EXCEPT !["date"] = d])
        /\ UNCHANGED <<lagging, typed>>
      BY DEF C!TypeDate
<1> USE <1>1 DEF C!Fills, C!record
<1>0. /\ form # C!NoPage /\ Typed(form) /\ Page(form) /\ clicked = C!NoPage /\ after \in SUBSET C!Fields
      /\ "date" \in after
      BY AtWork DEF SubmissionInv, Unchecked, Timing
<1>2. "date" \in C!Fields /\ d \in C!ValuesOf("date")
      BY Values DEF C!Fields, C!Values
<1>3. form' # C!NoPage /\ Pages' /\ Checked' /\ Compared' /\ C!ClickedAsFrozen' /\ C!OrderIsKept'
      BY <1>0, <1>2, Filled
<1>4. IsOpen' /\ Unchecked' /\ OnRecord' /\ C!ClickIsOnRecord'
      BY <1>0, <1>3 DEF SubmissionInv, IsOpen, Unchecked, OnRecord, C!ClickIsOnRecord, Opening, Writing, Timing
<1> QED BY <1>3, <1>4 DEF SubmissionInv

LEMMA TypesTime == ASSUME SubmissionInv, C!TypeTime PROVE SubmissionInv'
<1>1. PICK t \in C!Values, d \in {form.date, "other"} :
        /\ form' = [form EXCEPT !["time"] = t, !["date"] = d]
        /\ at' = (CASE t = "ours" /\ d = "ours" -> "verify"
                    [] t # "ours" /\ typed = 0 -> "time"
                    [] OTHER -> "raised")
        /\ typed' = (IF at' = "time" THEN 1 ELSE 0)
        /\ after' = (IF at' = "verify" THEN after \ {"date", "time"} ELSE after)
      BY DEF C!TypeTime
<1> USE <1>1 DEF C!TypeTime, C!record
<1>0. /\ form # C!NoPage /\ Typed(form) /\ Page(form) /\ clicked = C!NoPage /\ after \in SUBSET C!Fields
      /\ {"date", "time"} \subseteq after /\ {"date", "time"} \subseteq C!Fields /\ {"date", "time"} \subseteq Names
      BY AtWork DEF SubmissionInv, Unchecked, Timing, Names, C!Fields
<1>2. t \in C!ValuesOf("time") /\ d \in C!ValuesOf("date")
      BY <1>0, Values DEF Typed, C!Fields, C!Values
<1>3. /\ Page(form') /\ form' # C!NoPage /\ form'.time = t /\ form'.date = d
      /\ \A n \in Names \ {"date", "time"} : form'[n] = form[n]
  <2>1. Page([form EXCEPT !["time"] = t])
        /\ [form EXCEPT !["time"] = t]["time"] = t
        /\ \A n \in Names \ {"time"} : [form EXCEPT !["time"] = t][n] = form[n]
        BY <1>0, NoPageDiffers DEF Page
  <2> DEFINE g == [form EXCEPT !["time"] = t]
  <2>2. form' = [g EXCEPT !["date"] = d]
        OBVIOUS
  <2>3. Page(g) /\ g["time"] = t /\ \A n \in Names \ {"time"} : g[n] = form[n]
        BY <2>1
  <2> HIDE DEF g
  <2>4. /\ Page(form') /\ form' # C!NoPage /\ form'["date"] = d
        /\ \A n \in Names \ {"date"} : form'[n] = g[n]
        BY <1>0, <2>2, <2>3, NoPageDiffers DEF Page
  <2> QED BY <1>0, <2>3, <2>4
<1>4. at' \in {"verify", "time", "raised"} /\ (at' = "verify" => t = "ours" /\ d = "ours")
      /\ (at' = "time" => after' = after)
      OBVIOUS
<1>5. \A n \in {"date", "time"} : n \in after' \/ C!AsFrozen(form', n)
      BY <1>0, <1>3, <1>4 DEF C!AsFrozen
<1>6. Pages' /\ Checked' /\ Compared' /\ C!ClickedAsFrozen' /\ C!OrderIsKept'
  <2>1. \A n \in {"date", "time"} : form'[n] \in C!ValuesOf(n)
        BY <1>2, <1>3
  <2>2. after' \in SUBSET C!Fields /\ after \ after' \subseteq {"date", "time"}
        BY <1>0
  <2>3. Moves({"date", "time"})
        BY <1>0, <1>3, <1>5, <2>1, <2>2 DEF Moves
  <2> QED BY <1>0, <2>3, Changes
<1>7. IsOpen' /\ Unchecked' /\ OnRecord' /\ C!ClickIsOnRecord'
      BY <1>0, <1>3, <1>4 DEF SubmissionInv, IsOpen, Unchecked, OnRecord, C!ClickIsOnRecord, Opening, Writing, Timing
<1> QED BY <1>6, <1>7 DEF SubmissionInv

LEMMA Clicks == ASSUME SubmissionInv, C!Click PROVE SubmissionInv'
<1> USE DEF C!Click, C!record
<1>0. form # C!NoPage /\ form' = form /\ clicked = C!NoPage /\ row = "ambiguous" /\ row' = row
      BY AtWork DEF SubmissionInv, OnRecord
<1>1. Pages' /\ Checked' /\ Compared'
      BY <1>0 DEF SubmissionInv, Pages, Page, Typed, Checked, Compared, Ordered, C!Known, C!SameBag
<1>2. C!ClickedAsFrozen' /\ C!OrderIsKept'
      BY <1>0 DEF SubmissionInv, Checked, Compared, Ordered, C!ClickedAsFrozen, C!OrderIsKept, C!Known, C!SameBag
<1>3. IsOpen' /\ Unchecked' /\ OnRecord' /\ C!ClickIsOnRecord'
      BY <1>0 DEF SubmissionInv, IsOpen, Unchecked, OnRecord, C!ClickIsOnRecord, Opening, Writing, Timing
<1> QED BY <1>1, <1>2, <1>3 DEF SubmissionInv
--------------------------------------------------------------------------------
\* Every step keeps it.
LEMMA SubmissionKeeps == SubmissionInv /\ [C!Next]_composer => SubmissionInv'
<1> SUFFICES ASSUME SubmissionInv, [C!Next]_composer PROVE SubmissionInv'
    OBVIOUS
<1>1. CASE UNCHANGED composer
  <2>1. UNCHANGED <<form, clicked, keys, after, at, row, remote, toast, typed>>
        BY <1>1 DEF composer
  <2>2. Pages' /\ Checked' /\ Compared' /\ C!ClickedAsFrozen' /\ C!OrderIsKept'
        BY <2>1, PageAlone
  <2>3. IsOpen' /\ Unchecked' /\ OnRecord' /\ C!ClickIsOnRecord'
        BY <2>1 DEF SubmissionInv, IsOpen, Unchecked, OnRecord, C!ClickIsOnRecord
  <2> QED BY <2>2, <2>3 DEF SubmissionInv
<1>2. CASE C!Next
      BY <1>2, ReadingSteps, RecordSteps, BetweenSteps, Opens, SelectsAccount, StopsStory, Uploads,
         VerifiesUpload, FillsCaption, TurnsSwitch, TypesDate, TypesTime, Clicks DEF C!Next
<1> QED BY <1>1, <1>2

\* The invariant holds always.
LEMMA SubmissionInvariant == C!Spec => []SubmissionInv
<1>1. [C!Next]_(C!vars) => [C!Next]_composer
      BY DEF C!vars, C!page, C!record, composer
<1> QED BY <1>1, StartHolds, SubmissionKeeps, PTL DEF C!Spec

(* A post is clicked as it was frozen, save for what moved after its last      *)
(* check; its images are in their order where that can be known, and the       *)
(* journal has a row of the click (business_suite.py).                         *)
THEOREM SubmissionIsTrue == C!Spec => []SubmissionHolds
<1>1. SubmissionInv => SubmissionHolds
  <2>1. SubmissionInv => C!TypeOK
        BY DEF SubmissionInv, Pages, Typed, Checked, OnRecord, C!TypeOK
  <2> QED BY <2>1 DEF SubmissionInv, SubmissionHolds
<1> QED BY <1>1, SubmissionInvariant, PTL
================================================================================
