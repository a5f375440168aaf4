------------------------------- MODULE Processing -------------------------------
(* From an outcome of the capture state to a paid batch and to the cards of    *)
(* the group: pipeline/service.py with core/monitoring.py.  The marker of the  *)
(* one batch (processing_state.json) is read, changed and written under its    *)
(* lock by the service's loop, by its worker thread, by every process that     *)
(* starts and by a person who closes an interrupted batch.  What it has        *)
(* accepted is not lost and not paid for twice, whatever dies in between.      *)
(* The capture state is seen through its items and events only (Capture).      *)
EXTENDS Integers, FiniteSets

CONSTANTS Keys, None, MaxScans, MaxBatches, MaxCrashes

VARIABLES
    items,      \* capture_state.json: the status, outcome and scan of each post
    events,     \* its events: post, outcome, status and scan
    acked,      \* those acknowledged
    proc,       \* processing_state.json
    receipts,   \* capture_event_ids, carried from one batch to the next
    worker,     \* the thread that works on a batch, in a live process
    paid,       \* the paid requests of each batch, in the ledger
    person,     \* what a person has read of the marker is still what it says
    cards,      \* the cards queued for the group
    batches,    \* batches that were claimed, with what they took on
    closed,     \* batches a person has closed
    scans, crashes

vars == <<items, events, acked, proc, receipts, worker, paid, person, cards, batches, closed, scans, crashes>>
capture == <<items, events>>
batch == <<proc, receipts, worker, paid, person, batches, closed>>

NoItem == [status |-> "none", outcome |-> 0, scan |-> 0]
Mark(p) == proc' = p /\ person' = (person /\ p = proc)

Idle == [status |-> "idle", id |-> 0, work |-> {}, next |-> None, ended |-> FALSE]

Init ==
    /\ items = [k \in Keys |-> NoItem] /\ events = {} /\ acked = {} /\ cards = {}
    /\ proc = Idle /\ receipts = {} /\ worker = None /\ paid = [b \in 1 .. MaxBatches |-> "none"]
    /\ person = FALSE /\ batches = {} /\ closed = {} /\ scans = 0 /\ crashes = 0

-------------------------------------------------------------------------------
(* The capture state as Capture describes it: a scan takes some posts, each    *)
(* comes to an outcome; one that was known already makes no event.             *)
Scan ==
    /\ scans < MaxScans /\ scans' = scans + 1
    /\ \A k \in Keys : items[k].status # "pending"
    /\ \E ks \in (SUBSET Keys) \ {{}} :
          items' = [k \in Keys |-> IF k \in ks
                        THEN [status |-> "pending", outcome |-> items[k].outcome, scan |-> scans + 1]
                        ELSE items[k]]
    /\ UNCHANGED <<events, acked, batch, cards, crashes>>

Outcome(k) ==
    /\ items[k].status = "pending"
    /\ \E o \in 1 .. 2 :
          LET status == IF o = 1 THEN "manual" ELSE "complete"
              known == \E e \in events : e.key = k /\ e.outcome = o
          IN /\ items' = [items EXCEPT ![k] = [status |-> status, outcome |-> o, scan |-> @.scan]]
             /\ events' = IF known THEN events
                          ELSE events \cup {[key |-> k, outcome |-> o, status |-> status, scan |-> items[k].scan]}
    /\ UNCHANGED <<acked, batch, cards, scans, crashes>>

Current(e) == items[e.key].status = e.status /\ items[e.key].outcome = e.outcome

-------------------------------------------------------------------------------
(* request: what was accepted already is left out; while a batch is out of     *)
(* reach the work goes to its successor; a closed batch gives way to it.       *)
Open == {"running", "interrupted", "uncertain"}

\* Ids are drawn afresh; here they count.
NewId == proc.id + 1

Accepted(work) ==
    IF proc.status \in Open
    THEN [proc EXCEPT !.next = IF @ = None THEN work ELSE @ \cup work]
    ELSE IF proc.status = "pending" THEN [proc EXCEPT !.work = @ \cup work]
    ELSE [Idle EXCEPT !.status = "pending", !.id = NewId,
                      !.work = work \cup (IF proc.next = None THEN {} ELSE proc.next)]

(* The loop's maintenance accepts every complete outcome that still holds.     *)
RequestCaptured ==
    /\ \E e \in events \ receipts :
          /\ e.status = "complete" /\ Current(e)
          /\ Mark(Accepted({e})) /\ receipts' = receipts \cup {e}
    /\ UNCHANGED <<capture, acked, worker, paid, cards, batches, closed, scans, crashes>>

(* A post that was put aside until now is work too, without a receipt.         *)
RequestAwakened ==
    /\ proc.status \in {"idle", "failed", "ready"} /\ NewId <= MaxBatches
    /\ Mark(Accepted({}))
    /\ UNCHANGED <<capture, acked, receipts, worker, paid, cards, batches, closed, scans, crashes>>

(* start_processing: one thread works, and claims what is pending; when it     *)
(* cannot be started the batch has failed.                                     *)
Finished(status) ==
    LET over == [status |-> status, id |-> proc.id, work |-> proc.work, next |-> proc.next, ended |-> TRUE]
    IN IF status # "uncertain" /\ proc.next # None
       THEN [Idle EXCEPT !.status = "pending", !.id = NewId, !.work = proc.next] ELSE over

StartProcessing ==
    /\ worker = None /\ proc.status = "pending" /\ proc.id <= MaxBatches
    /\ batches' = batches \cup {[id |-> proc.id, work |-> proc.work]}
    /\ \/ Mark([proc EXCEPT !.status = "running"]) /\ worker' = proc.id
       \/ Mark(Finished("failed")) /\ UNCHANGED worker
    /\ UNCHANGED <<capture, acked, receipts, paid, cards, closed, scans, crashes>>

Pay ==
    /\ worker # None
    /\ paid' = [paid EXCEPT ![worker] = IF @ = "open" THEN "settled" ELSE "open"]
    /\ UNCHANGED <<capture, acked, proc, receipts, worker, person, cards, batches, closed, scans, crashes>>

(* The worker's end: a marker that has changed meanwhile is not overwritten.   *)
FinishBatch ==
    /\ worker # None /\ worker' = None
    /\ \E status \in {"ready", "failed", "uncertain"} :
          Mark(IF proc.id = worker /\ proc.status = "running" THEN Finished(status) ELSE proc)
    /\ UNCHANGED <<capture, acked, receipts, paid, cards, batches, closed, scans, crashes>>

(* A process that starts looks at the batch left running.  Its worker's        *)
(* process may be gone, alive, or beyond identification.                       *)
Inspect ==
    /\ proc.status = "running"
    /\ \/ worker = None /\ Mark([proc EXCEPT !.status = "interrupted"])
       \/ Mark([proc EXCEPT !.status = "uncertain"])
    /\ UNCHANGED <<capture, acked, receipts, worker, paid, cards, batches, closed, scans, crashes>>

Crash ==
    /\ worker # None /\ crashes < MaxCrashes
    /\ crashes' = crashes + 1 /\ worker' = None
    /\ UNCHANGED <<capture, acked, proc, receipts, paid, person, cards, batches, closed, scans>>

(* A person reads the marker and closes the batch that was read, once its      *)
(* process is known to have ended and its requests are settled.                *)
Look ==
    /\ proc.status \in Open /\ ~person /\ person' = TRUE
    /\ UNCHANGED <<capture, acked, proc, receipts, worker, paid, cards, batches, closed, scans, crashes>>

Settle ==
    /\ worker = None
    /\ \E b \in 1 .. MaxBatches : paid[b] = "open" /\ paid' = [paid EXCEPT ![b] = "settled"]
    /\ UNCHANGED <<capture, acked, proc, receipts, worker, person, cards, batches, closed, scans, crashes>>

MayRecover ==
    person /\ proc.status \in Open /\ (proc.ended \/ worker = None) /\ paid[proc.id] # "open"

Recover ==
    /\ MayRecover
    /\ Mark([proc EXCEPT !.status = "failed"]) /\ closed' = closed \cup {proc.id}
    /\ UNCHANGED <<capture, acked, receipts, worker, paid, cards, batches, scans, crashes>>

-------------------------------------------------------------------------------
(* enqueue_capture_results: a scan's cards are queued when it has come to an   *)
(* end; its events are acknowledged after their cards.                         *)
Rows(scan) == {e \in events : e.scan = scan}
Unsettled(scan) ==
    \E k \in Keys : items[k].status = "pending" /\ (items[k].scan = scan \/ \E e \in Rows(scan) : e.key = k)

EnqueueCards ==
    /\ \E scan \in {e.scan : e \in events \ acked} :
          LET rows == {e \in Rows(scan) : Current(e)}
              manual == {e \in rows : e.status = "manual"}
          IN IF rows = {}
             THEN /\ ~Unsettled(scan) /\ acked' = acked \cup Rows(scan) /\ UNCHANGED cards
             ELSE /\ cards' = cards \cup {<<"saved", e>> : e \in rows \ manual} \cup
                              (IF Unsettled(scan) THEN {} ELSE {<<"manual", e>> : e \in manual})
                  /\ acked' = IF Unsettled(scan) THEN acked ELSE acked \cup Rows(scan)
    /\ UNCHANGED <<capture, batch, scans, crashes>>

Next ==
    \/ Scan \/ RequestCaptured \/ RequestAwakened \/ StartProcessing \/ Pay \/ FinishBatch \/ Inspect
    \/ Crash \/ Look \/ Settle \/ Recover \/ EnqueueCards
    \/ \E k \in Keys : Outcome(k)

Spec == Init /\ [][Next]_vars

-------------------------------------------------------------------------------
\* The batches other than the present one that have an outcome as their work.
Earlier(e) == {b \in batches : e \in b.work /\ b.id # proc.id}
One(held) == IF held THEN 1 ELSE 0

(* An accepted outcome is work of exactly one batch: of the present one, of its*)
(* successor, or of one that was claimed.  The receipt travels with it through *)
(* failures, interruptions and a person's closing (monitoring.py:284-387).     *)
AcceptedOnce ==
    \A e \in receipts :
        Cardinality(Earlier(e)) + One(e \in proc.work) + One(proc.next # None /\ e \in proc.next) = 1

(* While a worker may still be paying, its batch stays the marker's batch and  *)
(* stays open: no successor starts beside it, and a batch that a person has    *)
(* closed neither works nor owes anything any more (:325, :362-387).           *)
RecoveryExclusive ==
    /\ worker # None => proc.id = worker /\ proc.status \in {"running", "uncertain"} /\ worker \notin closed
    /\ \A b \in closed : paid[b] # "open" /\ (proc.id = b => proc.status = "failed")

(* An exception that stands and is acknowledged was put on a card              *)
(* (service.py:145-187), also when its post was taken up again meanwhile; only *)
(* one that was overtaken by another outcome in between has told that one.     *)
Overtaken(e) == \E f \in events : f.key = e.key /\ f.outcome # e.outcome

AckedIsTold ==
    \A e \in acked : e.status = "manual" /\ Current(e) => <<"manual", e>> \in cards \/ Overtaken(e)
================================================================================
