------------------------------ MODULE BatchJobs_proofs ------------------------------
(******************************************************************************)
(* For any number of posts, scans, batches, jobs, edits, recaptures and       *)
(* crashes: an accepted outcome is the work of exactly one processing batch,  *)
(* nothing starts beside a batch that may still pay, and an acknowledged      *)
(* exception was told; a post has one content job at a time, each change of   *)
(* what a job was accepted for lets at most one of its requests through, and  *)
(* what a recovery says of a dead job is true.                                *)
(*                                                                            *)
(* The argument for the batches.  Numbers of batches only grow, and the batch *)
(* on the marker has the last one; while it is not pending it is one of the   *)
(* claimed (Claimed).  Claimed batches share no work with each other, with a  *)
(* pending marker or with its successor (Apart), and each receipt is carried  *)
(* by one of the three (Carried); together they make the count one.  The      *)
(* batch of a worker gives way to no successor, since a marker that has ended *)
(* is not worked on (Alone).  An exception was on a card when it was          *)
(* acknowledged, or another outcome of its post had come since (Known, Told). *)
(*                                                                            *)
(* The argument for the jobs.  At most one job is open (OneOpen); the thread  *)
(* works on a running job that is alive (Working), so that a recovery, which  *)
(* takes dead jobs only, never closes it.  What the ledger and the products   *)
(* hold while a request is under way is said step by step (Underway): only    *)
(* its own request may be open, hence none is when the job reports.  A        *)
(* request that left unwanted bears the number of the change; as long as      *)
(* nothing changes again its job is unwanted still (Stamped), and no request  *)
(* passes the check (Checked).                                                *)
(******************************************************************************)
EXTENDS PartBatchJobs, FiniteSetTheorems, TLAPS

Outcomes == [key : Keys, outcome : {1, 2}, status : {"manual", "complete"}, scan : 1 .. MaxScans]
Statuses == {"idle", "pending", "running", "ready", "failed", "interrupted", "uncertain"}
Items == [status : {"none", "pending", "manual", "complete"}, outcome : {0, 1, 2}, scan : 0 .. MaxScans]
Markers(rs) == [status : Statuses, id : Nat, work : SUBSET rs, next : {NoWork} \cup SUBSET rs, ended : BOOLEAN]

\* The types, as far as they matter.
BatchType ==
    /\ captured \in [Keys -> Items]
    /\ \A k \in Keys : captured[k].status # "none" => captured[k].scan # 0
    /\ captures \in 0 .. MaxScans
    /\ outcomes \subseteq Outcomes /\ acked \subseteq outcomes /\ receipts \subseteq Outcomes
    /\ proc \in Markers(receipts)
    /\ paid \in [1 .. MaxBatches -> {"none", "open", "settled"}]
    /\ batches \subseteq [id : 1 .. MaxBatches, work : SUBSET receipts]
    /\ closed \subseteq 1 .. MaxBatches

\* A post that has come to an outcome has an event that says so.
Known ==
    /\ \A k \in Keys :
          /\ captured[k].status = "manual" => captured[k].outcome = 1
          /\ captured[k].status = "complete" => captured[k].outcome = 2
          /\ captured[k].status \in {"manual", "complete"} =>
                \E e \in outcomes : e.key = k /\ e.outcome = captured[k].outcome
    /\ \A e \in outcomes :
          /\ e.status = IF e.outcome = 1 THEN "manual" ELSE "complete"
          /\ captured[e.key].status # "none"

\* What was acknowledged as an exception was told, or another outcome came since.
Told == \A e \in acked : e.status = "manual" => <<"manual", e>> \in cards \/ B!Overtaken(e)

\* The batch on the marker is one that was claimed, unless it waits for that.
Claimed ==
    /\ proc.status \in {"running", "ready", "failed", "interrupted", "uncertain"} =>
          [id |-> proc.id, work |-> proc.work] \in batches
    /\ proc.status = "pending" => proc.id >= 1 /\ \A b \in batches : b.id < proc.id
    /\ proc.status = "idle" => proc.id = 0 /\ proc.work = {} /\ batches = {}
    /\ \A b \in batches : b.id <= proc.id
    /\ closed \subseteq {b.id : b \in batches}

\* An outcome is work of one batch.
Apart ==
    /\ \A b, c \in batches : b # c => b.id # c.id /\ b.work \cap c.work = {}
    /\ proc.status = "pending" => \A b \in batches : b.work \cap proc.work = {}
    /\ proc.next # NoWork => proc.next \cap proc.work = {} /\ \A b \in batches : b.work \cap proc.next = {}

\* Whatever has a receipt is the work of some batch.
Carried == \A e \in receipts :
    \/ \E b \in batches : e \in b.work
    \/ e \in proc.work
    \/ proc.next # NoWork /\ e \in proc.next

\* A batch that is worked on, or waits to be, has not come to its end.
Alone == worker # NoWork \/ proc.status = "pending" => ~proc.ended

BInv == BatchType /\ Known /\ Told /\ Claimed /\ Apart /\ Carried /\ Alone /\ B!RecoveryExclusive
--------------------------------------------------------------------------------
\* The invariant holds at the start; each step of the batches keeps it.
LEMMA BatchStarts == B!Init => BInv
<1> SUFFICES ASSUME B!Init PROVE BInv
    OBVIOUS
<1> USE BatchBounds DEF B!Init, B!Idle, B!NoItem
<1>1. BatchType
      BY DEF BatchType, Statuses, Items, Markers
<1>2. Known /\ Told
      BY DEF Known, Told
<1>3. Claimed /\ Apart /\ Carried /\ Alone /\ B!RecoveryExclusive
      BY DEF Claimed, Apart, Carried, Alone, B!RecoveryExclusive
<1> QED BY <1>1, <1>2, <1>3 DEF BInv

\* The marker, the claimed batches and their receipts are left alone.
LEMMA MarkerAlone ==
    ASSUME BInv, UNCHANGED <<proc, receipts, batches, closed>>
    PROVE  Claimed' /\ Apart' /\ Carried'
BY DEF BInv, Claimed, Apart, Carried

\* The capture state and what was told of it are left alone.
LEMMA CaptureAlone ==
    ASSUME BInv, UNCHANGED <<captured, outcomes, acked, cards>>
    PROVE  Known' /\ Told'
BY DEF BInv, Known, Told, B!Overtaken

LEMMA Scans == ASSUME BInv, B!Scan PROVE BInv'
<1> USE BatchBounds DEF B!Scan, B!batch
<1>1. PICK ks \in SUBSET Keys :
        captured' = [k \in Keys |-> IF k \in ks
                        THEN [status |-> "pending", outcome |-> captured[k].outcome, scan |-> captures + 1]
                        ELSE captured[k]]
      OBVIOUS
<1>2. BatchType'
  <2>1. captured \in [Keys -> Items]
        BY DEF BInv, BatchType
  <2>4. captures \in Nat /\ captures < MaxScans /\ MaxScans \in Nat
        BY DEF BInv, BatchType
  <2>5. captures + 1 \in 1 .. MaxScans
        BY <2>4
  <2>2. \A k \in Keys : captured'[k] \in Items /\ (captured'[k].status # "none" => captured'[k].scan # 0)
        BY <1>1, <2>1 DEF BInv, BatchType, Items
  <2>3. captured' \in [Keys -> Items]
        BY <1>1, <2>1, <2>2
  <2> QED BY <2>1, <2>2, <2>3 DEF BInv, BatchType
<1>3. Known' /\ Told'
  <2>1. \A k \in Keys : captured'[k].status \in {"manual", "complete"} => captured'[k] = captured[k]
        BY <1>1 DEF BInv, BatchType, Items
  <2>2. \A k \in Keys : captured[k].status # "none" => captured'[k].status # "none"
        BY <1>1 DEF BInv, BatchType, Items
  <2>3. \A e \in outcomes : e.key \in Keys
        BY DEF BInv, BatchType, Outcomes
  <2>4. Known'
        BY <2>1, <2>2, <2>3 DEF BInv, Known
  <2> QED BY <2>4 DEF BInv, Told, B!Overtaken
<1>4. Claimed' /\ Apart' /\ Carried'
      BY MarkerAlone
<1>5. Alone' /\ B!RecoveryExclusive'
      BY DEF BInv, Alone, B!RecoveryExclusive
<1> QED BY <1>2, <1>3, <1>4, <1>5 DEF BInv

LEMMA ComesToOutcome == ASSUME BInv, NEW k \in Keys, B!Outcome(k) PROVE BInv'
<1> USE BatchBounds DEF B!Outcome, B!batch
<1>1. PICK o \in 1 .. 2 :
        LET status == IF o = 1 THEN "manual" ELSE "complete"
            known == \E e \in outcomes : e.key = k /\ e.outcome = o
        IN /\ captured' = [captured EXCEPT ![k] = [status |-> status, outcome |-> o, scan |-> @.scan]]
           /\ outcomes' = IF known THEN outcomes
                          ELSE outcomes \cup {[key |-> k, outcome |-> o, status |-> status, scan |-> captured[k].scan]}
      OBVIOUS
<1> DEFINE status == IF o = 1 THEN "manual" ELSE "complete"
           event == [key |-> k, outcome |-> o, status |-> status, scan |-> captured[k].scan]
<1>2. captured[k] \in Items /\ captured[k].scan \in 1 .. MaxScans
      BY DEF BInv, BatchType, Items
<1>3. event \in Outcomes /\ event.key = k /\ event.outcome = o /\ event.status = status
      BY <1>2 DEF Outcomes
<1>4. outcomes' = IF \E e \in outcomes : e.key = k /\ e.outcome = o THEN outcomes ELSE outcomes \cup {event}
      BY <1>1
<1>5. captured' = [captured EXCEPT ![k] = [status |-> status, outcome |-> o, scan |-> captured[k].scan]]
      BY <1>1 DEF BInv, BatchType
<1>6. /\ captured'[k] \in Items /\ captured'[k].status = status /\ captured'[k].outcome = o
      /\ captured'[k].scan # 0 /\ \A j \in Keys \ {k} : captured'[j] = captured[j]
      /\ captured' \in [Keys -> Items]
      BY <1>2, <1>5 DEF BInv, BatchType, Items
<1>9. status = (IF o = 1 THEN "manual" ELSE "complete")
      OBVIOUS
<1> HIDE DEF status, event
<1>10. outcomes \subseteq outcomes' /\ outcomes' \subseteq outcomes \cup {event}
      BY <1>4
<1>11. \E e \in outcomes' : e.key = k /\ e.outcome = o
      BY <1>3, <1>4
<1>12. BatchType'
      BY <1>3, <1>6, <1>10 DEF BInv, BatchType
<1>13. Known'
  <2>1. \A e \in outcomes' : e.status = IF e.outcome = 1 THEN "manual" ELSE "complete"
        BY <1>3, <1>9, <1>10 DEF BInv, Known
  <2>2. \A e \in outcomes' : captured'[e.key].status # "none"
    <3> TAKE e \in outcomes'
    <3>1. CASE e.key = k
          BY <3>1, <1>6, <1>9
    <3>2. CASE e.key # k
          BY <3>2, <1>3, <1>6, <1>10 DEF BInv, Known, BatchType, Outcomes
    <3> QED BY <3>1, <3>2
  <2>3. \A j \in Keys :
          /\ captured'[j].status = "manual" => captured'[j].outcome = 1
          /\ captured'[j].status = "complete" => captured'[j].outcome = 2
          /\ captured'[j].status \in {"manual", "complete"} =>
                \E e \in outcomes' : e.key = j /\ e.outcome = captured'[j].outcome
    <3> TAKE j \in Keys
    <3>1. CASE j = k
          BY <3>1, <1>6, <1>9, <1>11
    <3>2. CASE j # k
      <4>1. captured'[j] = captured[j]
            BY <3>2, <1>6
      <4>2. /\ captured[j].status = "manual" => captured[j].outcome = 1
            /\ captured[j].status = "complete" => captured[j].outcome = 2
            /\ captured[j].status \in {"manual", "complete"} =>
                  \E e \in outcomes : e.key = j /\ e.outcome = captured[j].outcome
            BY DEF BInv, Known
      <4> QED BY <4>1, <4>2, <1>10
    <3> QED BY <3>1, <3>2
  <2> QED BY <2>1, <2>2, <2>3 DEF Known
<1>14. Told'
      BY <1>10 DEF BInv, Told, B!Overtaken
<1>15. Claimed' /\ Apart' /\ Carried'
      BY MarkerAlone
<1>16. Alone' /\ B!RecoveryExclusive'
      BY DEF BInv, Alone, B!RecoveryExclusive
<1> QED BY <1>12, <1>13, <1>14, <1>15, <1>16 DEF BInv

\* What is accepted was in nobody's hands.
LEMMA Accepts ==
    ASSUME BInv, NEW work \in SUBSET (Outcomes \ receipts), B!Mark(B!Accepted(work)),
           receipts' = receipts \cup work,
           UNCHANGED <<captured, outcomes, acked, cards, captures, worker, paid, batches, closed>>
    PROVE  BInv'
<1> USE DEF B!Mark, B!Accepted, B!Idle, B!NewId, B!Open
<1>0. proc \in Markers(receipts) /\ proc.id \in Nat /\ work \subseteq Outcomes /\ receipts \subseteq receipts'
      BY DEF BInv, BatchType, Markers
<1>1. BatchType'
  <2>1. proc' \in Markers(receipts')
    <3>1. PICK n \in {NoWork} \cup SUBSET receipts' :
            proc.status \in B!Open => proc' = [proc EXCEPT !.next = n]
          BY <1>0 DEF Markers
    <3>2. CASE proc.status \in B!Open
          BY <1>0, <3>1, <3>2 DEF Markers
    <3>3. CASE proc.status = "pending"
      <4>1. proc' = [proc EXCEPT !.work = proc.work \cup work]
            BY <3>3
      <4> QED BY <1>0, <4>1 DEF Markers
    <3>4. CASE proc.status \notin B!Open \cup {"pending"}
      <4> DEFINE w == work \cup (IF proc.next = NoWork THEN {} ELSE proc.next)
      <4>1. w \in SUBSET receipts'
            BY <1>0 DEF Markers
      <4>2. proc' = [status |-> "pending", id |-> proc.id + 1, work |-> w, next |-> NoWork, ended |-> FALSE]
            BY <3>4
      <4>3. proc.id + 1 \in Nat
            BY <1>0
      <4> HIDE DEF w, B!Mark, B!Accepted
      <4> QED BY <4>1, <4>2, <4>3 DEF Markers, Statuses
    <3> QED BY <3>2, <3>3, <3>4
  <2>2. batches' \subseteq [id : 1 .. MaxBatches, work : SUBSET receipts']
        BY <1>0 DEF BInv, BatchType
  <2> QED BY <1>0, <2>1, <2>2 DEF BInv, BatchType
<1>2. Known' /\ Told'
      BY CaptureAlone
<1>3. \A b \in batches : b.work \subseteq receipts /\ b.id \in Nat /\ b.id <= proc.id
      BY DEF BInv, BatchType, Claimed
<1>4. proc.id \in Nat /\ proc.work \subseteq receipts /\ (proc.next # NoWork => proc.next \subseteq receipts)
      /\ proc \in Markers(receipts)
      BY DEF BInv, BatchType, Markers
<1>5. CASE proc.status \in B!Open
  <2>1. proc' = [proc EXCEPT !.next = IF @ = NoWork THEN work ELSE @ \cup work]
        BY <1>5
  <2>2. proc'.status = proc.status /\ proc'.id = proc.id /\ proc'.work = proc.work /\ proc'.ended = proc.ended
        /\ proc'.next = IF proc.next = NoWork THEN work ELSE proc.next \cup work
        BY <2>1, <1>4 DEF Markers
  <2>3. work # NoWork /\ proc'.next # NoWork
        BY <2>2, <1>4, WorkIsASet DEF Outcomes, BInv, BatchType
  <2>4. Claimed'
        BY <2>2 DEF BInv, Claimed
  <2>5. Apart'
        BY <1>3, <1>4, <1>5, <2>2 DEF BInv, Apart
  <2>6. Carried'
        BY <2>2, <2>3 DEF BInv, Carried
  <2>7. Alone' /\ B!RecoveryExclusive'
        BY <2>2 DEF BInv, Alone, B!RecoveryExclusive
  <2> QED BY <1>1, <1>2, <2>4, <2>5, <2>6, <2>7 DEF BInv
<1>6. CASE proc.status = "pending"
  <2>1. proc' = [proc EXCEPT !.work = @ \cup work]
        BY <1>6
  <2>2. proc'.status = proc.status /\ proc'.id = proc.id /\ proc'.work = proc.work \cup work /\ proc'.ended = proc.ended
        /\ proc'.next = proc.next
        BY <2>1, <1>4 DEF Markers
  <2>4. Claimed'
        BY <1>6, <2>2 DEF BInv, Claimed
  <2>5. Apart'
        BY <1>3, <1>4, <1>6, <2>2 DEF BInv, Apart
  <2>6. Carried'
        BY <2>2 DEF BInv, Carried
  <2>7. Alone' /\ B!RecoveryExclusive'
        BY <2>2 DEF BInv, Alone, B!RecoveryExclusive
  <2> QED BY <1>1, <1>2, <2>4, <2>5, <2>6, <2>7 DEF BInv
<1>7. CASE proc.status \in {"idle", "ready", "failed"}
  <2>1. proc' = [status |-> "pending", id |-> proc.id + 1, next |-> NoWork, ended |-> FALSE,
                 work |-> work \cup (IF proc.next = NoWork THEN {} ELSE proc.next)]
        BY <1>7
  <2>2. worker = NoWork
        BY <1>7 DEF BInv, B!RecoveryExclusive
  <2>3. \A e \in proc.work : \E b \in batches : e \in b.work
        BY <1>7 DEF BInv, Claimed
  <2>4. Claimed'
        BY <1>3, <1>4, <2>1 DEF BInv, Claimed
  <2>5. Apart'
        BY <1>3, <1>4, <2>1 DEF BInv, Apart
  <2>6. Carried'
        BY <2>1, <2>3 DEF BInv, Carried
  <2>7. Alone' /\ B!RecoveryExclusive'
    <3>1. \A b \in closed : b # proc'.id
          BY <1>3, <1>4, <2>1 DEF BInv, Claimed
    <3> QED BY <2>1, <2>2, <3>1 DEF BInv, Alone, B!RecoveryExclusive
  <2> QED BY <1>1, <1>2, <2>4, <2>5, <2>6, <2>7 DEF BInv
<1>8. proc.status \in B!Open \cup {"pending", "idle", "ready", "failed"}
      BY <1>4 DEF Statuses, Markers
<1> QED BY <1>5, <1>6, <1>7, <1>8

LEMMA TakesOn == ASSUME BInv, B!RequestCaptured \/ B!RequestAwakened PROVE BInv'
<1>1. CASE B!RequestCaptured
  <2>1. PICK e \in outcomes \ receipts : B!Mark(B!Accepted({e})) /\ receipts' = receipts \cup {e}
        BY <1>1 DEF B!RequestCaptured
  <2>2. {e} \in SUBSET (Outcomes \ receipts)
        BY <2>1 DEF BInv, BatchType
  <2> QED BY <1>1, <2>1, <2>2, Accepts DEF B!RequestCaptured, B!capture
<1>2. CASE B!RequestAwakened
  <2>1. B!Mark(B!Accepted({})) /\ receipts' = receipts \cup {}
        BY <1>2 DEF B!RequestAwakened
  <2>2. {} \in SUBSET (Outcomes \ receipts)
        OBVIOUS
  <2> QED BY <1>2, <2>1, <2>2, Accepts DEF B!RequestAwakened, B!capture
<1> QED BY <1>1, <1>2

\* The marker's batch was claimed: it can change its status, and give way.
LEMMA StatusChanges ==
    ASSUME BInv, NEW status \in Statuses \ {"idle", "pending"}, NEW ended \in BOOLEAN,
           proc' = [status |-> status, id |-> proc.id, work |-> proc.work, next |-> proc.next, ended |-> ended],
           NEW bs, batches' = batches \cup bs, bs \subseteq {[id |-> proc.id, work |-> proc.work]},
           [id |-> proc.id, work |-> proc.work] \in batches',
           proc.status # "idle", proc.id \in 1 .. MaxBatches,
           receipts' = receipts, closed' \subseteq closed \cup {proc.id}, closed \subseteq closed'
    PROVE  /\ proc' \in Markers(receipts') /\ batches' \subseteq [id : 1 .. MaxBatches, work : SUBSET receipts']
           /\ closed' \subseteq 1 .. MaxBatches
           /\ Claimed' /\ Apart' /\ Carried'
<1>0. proc \in Markers(receipts) /\ batches \subseteq [id : 1 .. MaxBatches, work : SUBSET receipts]
      /\ closed \subseteq 1 .. MaxBatches
      BY DEF BInv, BatchType
<1>1. proc' \in Markers(receipts') /\ batches' \subseteq [id : 1 .. MaxBatches, work : SUBSET receipts']
      /\ closed' \subseteq 1 .. MaxBatches
      BY <1>0 DEF Markers
<1>2. Claimed'
      BY <1>0 DEF BInv, Claimed, Markers, Statuses
<1>3. Apart'
  <2>1. CASE proc.status = "pending"
        BY <1>0, <2>1 DEF BInv, Apart, Claimed, Markers
  <2>2. CASE proc.status # "pending"
    <3>1. [id |-> proc.id, work |-> proc.work] \in batches
          BY <1>0, <2>2 DEF BInv, Claimed, Markers, Statuses
    <3>2. batches' = batches
          BY <3>1
    <3> QED BY <3>1, <3>2 DEF BInv, Apart
  <2> QED BY <2>1, <2>2
<1>4. Carried'
      BY DEF BInv, Carried
<1> QED BY <1>1, <1>2, <1>3, <1>4

LEMMA GivesWay ==
    ASSUME BInv, proc.next # NoWork,
           proc' = [status |-> "pending", id |-> proc.id + 1, work |-> proc.next, next |-> NoWork, ended |-> FALSE],
           NEW bs, batches' = batches \cup bs, bs \subseteq {[id |-> proc.id, work |-> proc.work]},
           [id |-> proc.id, work |-> proc.work] \in batches',
           proc.status # "idle", proc.id \in 1 .. MaxBatches,
           receipts' = receipts, closed' = closed
    PROVE  /\ proc' \in Markers(receipts') /\ batches' \subseteq [id : 1 .. MaxBatches, work : SUBSET receipts']
           /\ Claimed' /\ Apart' /\ Carried'
           /\ \A b \in closed : b # proc'.id
<1>0. proc \in Markers(receipts) /\ batches \subseteq [id : 1 .. MaxBatches, work : SUBSET receipts]
      /\ closed \subseteq 1 .. MaxBatches
      BY DEF BInv, BatchType
<1>1. proc' \in Markers(receipts') /\ batches' \subseteq [id : 1 .. MaxBatches, work : SUBSET receipts']
      BY <1>0 DEF Markers, Statuses
<1>2. Claimed'
      BY <1>0 DEF BInv, Claimed, Markers, Statuses
<1>3. Apart'
  <2>1. CASE proc.status = "pending"
        BY <1>0, <2>1 DEF BInv, Apart, Claimed, Markers
  <2>2. CASE proc.status # "pending"
    <3>1. [id |-> proc.id, work |-> proc.work] \in batches
          BY <1>0, <2>2 DEF BInv, Claimed, Markers, Statuses
    <3>2. batches' = batches
          BY <3>1
    <3> QED BY <3>1, <3>2 DEF BInv, Apart
  <2> QED BY <2>1, <2>2
<1>4. Carried'
      BY DEF BInv, Carried
<1>5. \A b \in closed : b # proc'.id
      BY <1>0 DEF BInv, Claimed, Markers
<1> QED BY <1>1, <1>2, <1>3, <1>4, <1>5

\* What Finished makes of a batch that was claimed.
LEMMA WhatIsFinished ==
    ASSUME BInv, NEW status \in {"ready", "failed", "uncertain"}, proc' = B!Finished(status)
    PROVE  \/ proc' = [status |-> status, id |-> proc.id, work |-> proc.work, next |-> proc.next, ended |-> TRUE]
           \/ /\ proc.next # NoWork
              /\ proc' = [status |-> "pending", id |-> proc.id + 1, work |-> proc.next, next |-> NoWork, ended |-> FALSE]
BY DEF B!Finished, B!Idle, B!NewId

\* A batch that is being worked on comes to an end, or fails before it was.
LEMMA BatchEnds ==
    ASSUME BInv, NEW status \in {"ready", "failed", "uncertain"}, proc' = B!Finished(status),
           NEW bs, batches' = batches \cup bs, bs \subseteq {[id |-> proc.id, work |-> proc.work]},
           [id |-> proc.id, work |-> proc.work] \in batches',
           proc.status # "idle", proc.id \in 1 .. MaxBatches, proc.id \notin closed,
           worker' = NoWork, paid' = paid,
           UNCHANGED <<captured, outcomes, acked, cards, captures, receipts, closed>>
    PROVE  BInv'
<1>1. Known' /\ Told'
      BY CaptureAlone
<1>2. CASE proc' = [status |-> status, id |-> proc.id, work |-> proc.work, next |-> proc.next, ended |-> TRUE]
  <2>1. /\ proc' \in Markers(receipts') /\ batches' \subseteq [id : 1 .. MaxBatches, work : SUBSET receipts']
        /\ Claimed' /\ Apart' /\ Carried'
        BY <1>2, StatusChanges DEF Statuses
  <2>2. BatchType'
        BY <2>1 DEF BInv, BatchType
  <2>3. Alone' /\ B!RecoveryExclusive'
        BY <1>2 DEF BInv, Alone, B!RecoveryExclusive
  <2> QED BY <1>1, <2>1, <2>2, <2>3 DEF BInv
<1>3. CASE /\ proc.next # NoWork
           /\ proc' = [status |-> "pending", id |-> proc.id + 1, work |-> proc.next, next |-> NoWork, ended |-> FALSE]
  <2>1. /\ proc' \in Markers(receipts') /\ batches' \subseteq [id : 1 .. MaxBatches, work : SUBSET receipts']
        /\ Claimed' /\ Apart' /\ Carried' /\ \A b \in closed : b # proc'.id
        BY <1>3, GivesWay
  <2>2. BatchType'
        BY <2>1 DEF BInv, BatchType
  <2>3. Alone' /\ B!RecoveryExclusive'
        BY <1>3, <2>1 DEF BInv, Alone, B!RecoveryExclusive
  <2> QED BY <1>1, <2>1, <2>2, <2>3 DEF BInv
<1> QED BY <1>2, <1>3, WhatIsFinished

LEMMA Begins == ASSUME BInv, B!StartProcessing PROVE BInv'
<1> USE DEF B!StartProcessing, B!capture
<1>0. /\ proc \in Markers(receipts) /\ proc.status = "pending" /\ worker = NoWork /\ proc.id \in 1 .. MaxBatches
      /\ \A b \in closed : b < proc.id /\ b \in 1 .. MaxBatches
      BY BatchBounds DEF BInv, BatchType, Claimed, Markers
<1> DEFINE claimed == [id |-> proc.id, work |-> proc.work]
<1>1. batches' = batches \cup {claimed} /\ claimed \in batches'
      OBVIOUS
<1>2. proc.id \notin closed
      BY <1>0
<1>3. CASE B!Mark([proc EXCEPT !.status = "running"]) /\ worker' = proc.id
  <2>1. proc' = [status |-> "running", id |-> proc.id, work |-> proc.work, next |-> proc.next, ended |-> FALSE]
        BY <1>0, <1>3 DEF B!Mark, Markers, BInv, Alone
  <2>2. /\ proc' \in Markers(receipts') /\ batches' \subseteq [id : 1 .. MaxBatches, work : SUBSET receipts']
        /\ Claimed' /\ Apart' /\ Carried'
        BY <1>0, <1>1, <2>1, StatusChanges DEF Statuses
  <2>3. BatchType'
        BY <2>2 DEF BInv, BatchType
  <2>4. Alone' /\ B!RecoveryExclusive'
        BY <1>0, <1>2, <1>3, <2>1 DEF BInv, Alone, B!RecoveryExclusive
  <2>5. Known' /\ Told'
        BY CaptureAlone
  <2> QED BY <2>2, <2>3, <2>4, <2>5 DEF BInv
<1>4. CASE B!Mark(B!Finished("failed")) /\ UNCHANGED worker
  <2>1. proc' = B!Finished("failed")
        BY <1>4 DEF B!Mark
  <2> QED BY <1>0, <1>1, <1>2, <1>4, <2>1, BatchEnds
<1> QED BY <1>3, <1>4

LEMMA Pays == ASSUME BInv, B!Pay PROVE BInv'
<1> USE DEF B!Pay, B!capture
<1>1. worker \in 1 .. MaxBatches => paid' \in [1 .. MaxBatches -> {"none", "open", "settled"}]
      BY DEF BInv, BatchType
<1>2. worker \notin closed /\ \A b \in closed : paid'[b] = paid[b]
      BY DEF BInv, BatchType, B!RecoveryExclusive
<1>3. worker \in 1 .. MaxBatches
      BY DEF BInv, BatchType, B!RecoveryExclusive, Claimed
<1>4. BatchType'
      BY <1>1, <1>3 DEF BInv, BatchType
<1>5. Known' /\ Told' /\ Claimed' /\ Apart' /\ Carried'
      BY CaptureAlone, MarkerAlone
<1>6. Alone' /\ B!RecoveryExclusive'
      BY <1>2 DEF BInv, Alone, B!RecoveryExclusive
<1> QED BY <1>4, <1>5, <1>6 DEF BInv

LEMMA Finishes == ASSUME BInv, B!FinishBatch PROVE BInv'
<1> USE DEF B!FinishBatch, B!capture
<1>1. PICK status \in {"ready", "failed", "uncertain"} :
        B!Mark(IF proc.id = worker /\ proc.status = "running" THEN B!Finished(status) ELSE proc)
      OBVIOUS
<1>2. CASE proc.id = worker /\ proc.status = "running"
  <2>1. proc' = B!Finished(status)
        BY <1>1, <1>2 DEF B!Mark
  <2>2. [id |-> proc.id, work |-> proc.work] \in batches /\ proc.id \in 1 .. MaxBatches /\ proc.id \notin closed
        BY <1>2 DEF BInv, Claimed, BatchType, B!RecoveryExclusive
  <2> QED BY <1>2, <2>1, <2>2, BatchEnds
<1>3. CASE ~(proc.id = worker /\ proc.status = "running")
  <2>1. proc' = proc
        BY <1>1, <1>3 DEF B!Mark
  <2>2. Known' /\ Told' /\ Claimed' /\ Apart' /\ Carried'
        BY <2>1, CaptureAlone, MarkerAlone
  <2>3. BatchType' /\ Alone' /\ B!RecoveryExclusive'
        BY <2>1 DEF BInv, BatchType, Alone, B!RecoveryExclusive
  <2> QED BY <2>2, <2>3 DEF BInv
<1> QED BY <1>2, <1>3

LEMMA Inspects == ASSUME BInv, B!Inspect PROVE BInv'
<1> USE DEF B!Inspect, B!capture
<1>0. /\ [id |-> proc.id, work |-> proc.work] \in batches /\ proc.id \in 1 .. MaxBatches
      /\ proc \in Markers(receipts)
      BY DEF BInv, Claimed, BatchType
<1>1. PICK status \in {"interrupted", "uncertain"} :
        proc' = [proc EXCEPT !.status = status] /\ (status = "interrupted" => worker = NoWork)
      BY DEF B!Mark
<1>2. proc' = [status |-> status, id |-> proc.id, work |-> proc.work, next |-> proc.next, ended |-> proc.ended]
      BY <1>0, <1>1 DEF Markers
<1>3. proc.ended \in BOOLEAN /\ batches' = batches \cup {} /\ receipts' = receipts
      BY <1>0 DEF Markers
<1>4. /\ proc' \in Markers(receipts')
      /\ Claimed' /\ Apart' /\ Carried'
      BY <1>0, <1>2, <1>3, StatusChanges DEF Statuses
<1>5. BatchType'
      BY <1>4 DEF BInv, BatchType
<1>6. Known' /\ Told'
      BY CaptureAlone
<1>7. Alone' /\ B!RecoveryExclusive'
      BY <1>1, <1>2 DEF BInv, Alone, B!RecoveryExclusive
<1> QED BY <1>4, <1>5, <1>6, <1>7 DEF BInv

LEMMA GoesAway == ASSUME BInv, B!Crash \/ B!Look PROVE BInv'
<1> USE DEF B!Crash, B!Look, B!capture
<1>1. Known' /\ Told' /\ Claimed' /\ Apart' /\ Carried'
      BY CaptureAlone, MarkerAlone
<1>2. BatchType' /\ Alone' /\ B!RecoveryExclusive'
      BY DEF BInv, BatchType, Alone, B!RecoveryExclusive
<1> QED BY <1>1, <1>2 DEF BInv

LEMMA Settles == ASSUME BInv, B!Settle PROVE BInv'
<1> USE DEF B!Settle, B!capture
<1>1. PICK b \in 1 .. MaxBatches : paid[b] = "open" /\ paid' = [paid EXCEPT ![b] = "settled"]
      OBVIOUS
<1>2. Known' /\ Told' /\ Claimed' /\ Apart' /\ Carried'
      BY CaptureAlone, MarkerAlone
<1>3. BatchType' /\ Alone' /\ B!RecoveryExclusive'
      BY <1>1 DEF BInv, BatchType, Alone, B!RecoveryExclusive
<1> QED BY <1>2, <1>3 DEF BInv

LEMMA Recovers == ASSUME BInv, B!Recover PROVE BInv'
<1> USE DEF B!Recover, B!MayRecover, B!Open, B!capture
<1>0. /\ [id |-> proc.id, work |-> proc.work] \in batches /\ proc.id \in 1 .. MaxBatches
      /\ proc \in Markers(receipts) /\ proc.status # "idle"
      BY DEF BInv, Claimed, BatchType
<1>1. worker = NoWork
      BY DEF BInv, Alone
<1>2. proc' = [status |-> "failed", id |-> proc.id, work |-> proc.work, next |-> proc.next, ended |-> proc.ended]
      BY <1>0 DEF Markers, B!Mark
<1>3. proc.ended \in BOOLEAN /\ batches' = batches \cup {} /\ receipts' = receipts /\ closed' = closed \cup {proc.id}
      BY <1>0 DEF Markers
<1>4. proc' \in Markers(receipts') /\ closed' \subseteq 1 .. MaxBatches /\ Claimed' /\ Apart' /\ Carried'
      BY <1>0, <1>2, <1>3, StatusChanges DEF Statuses
<1>5. BatchType'
      BY <1>4 DEF BInv, BatchType
<1>6. Known' /\ Told'
      BY CaptureAlone
<1>7. Alone' /\ B!RecoveryExclusive'
      BY <1>1, <1>2, <1>3 DEF BInv, Alone, B!RecoveryExclusive
<1> QED BY <1>4, <1>5, <1>6, <1>7 DEF BInv

\* What is acknowledged is told, or its post has come to another outcome, or is
\* taken up again: then its own outcome is known, and is that other one.
LEMMA Tells == ASSUME BInv, B!EnqueueCards PROVE BInv'
<1>1. PICK scan \in {e.scan : e \in outcomes \ acked} :
        LET rows == {e \in B!Rows(scan) : B!Current(e)}
            manual == {e \in rows : e.status = "manual"}
        IN IF rows = {}
           THEN /\ ~B!Unsettled(scan) /\ acked' = acked \cup B!Rows(scan) /\ UNCHANGED cards
           ELSE /\ cards' = cards \cup {<<"saved", e>> : e \in rows \ manual} \cup
                            (IF B!Unsettled(scan) THEN {} ELSE {<<"manual", e>> : e \in manual})
                /\ acked' = IF B!Unsettled(scan) THEN acked ELSE acked \cup B!Rows(scan)
      BY DEF B!EnqueueCards
<1>2. UNCHANGED <<captured, outcomes, proc, receipts, worker, paid, batches, closed, captures>>
      BY DEF B!EnqueueCards, B!capture, B!batch
<1>3. cards \subseteq cards' /\ acked \subseteq acked' /\ acked' \subseteq acked \cup B!Rows(scan)
      BY <1>1
<1>4. B!Rows(scan) \subseteq outcomes
      BY DEF B!Rows
<1>5. ASSUME NEW e \in acked', e \notin acked, e.status = "manual"
      PROVE  <<"manual", e>> \in cards' \/ B!Overtaken(e)
  <2>1. e \in B!Rows(scan) /\ ~B!Unsettled(scan)
        BY <1>1, <1>5
  <2>2. e.key \in Keys /\ captured[e.key].status # "pending" /\ captured[e.key].status # "none"
        BY <1>4, <2>1 DEF B!Unsettled, BInv, BatchType, Outcomes, Known
  <2>3. CASE B!Current(e)
        BY <1>1, <1>5, <2>1, <2>3
  <2>4. CASE ~B!Current(e)
    <3>1. e.outcome = 1
          BY <1>4, <1>5, <2>1 DEF BInv, Known, BatchType, Outcomes
    <3>2. captured[e.key].status \in {"manual", "complete"}
          BY <2>2 DEF BInv, BatchType, Items
    <3>3. captured[e.key].outcome # e.outcome
          BY <1>5, <2>2, <2>4, <3>1, <3>2 DEF B!Current, BInv, Known
    <3>4. \E f \in outcomes : f.key = e.key /\ f.outcome = captured[e.key].outcome
          BY <2>2, <3>2 DEF BInv, Known
    <3> QED BY <3>3, <3>4 DEF B!Overtaken
  <2> QED BY <2>3, <2>4
<1>6. Told'
      BY <1>2, <1>3, <1>5 DEF BInv, Told, B!Overtaken
<1>7. BatchType' /\ Known' /\ Alone' /\ B!RecoveryExclusive'
      BY <1>2, <1>3, <1>4 DEF BInv, BatchType, Known, Alone, B!RecoveryExclusive
<1>8. Claimed' /\ Apart' /\ Carried'
      BY <1>2, MarkerAlone
<1> QED BY <1>6, <1>7, <1>8 DEF BInv

LEMMA BatchStep == ASSUME BInv, [B!Next]_batch PROVE BInv'
<1>1. CASE UNCHANGED batch
  <2>1. BatchType' /\ Alone' /\ B!RecoveryExclusive'
        BY <1>1 DEF batch, BInv, BatchType, Alone, B!RecoveryExclusive
  <2> QED BY <1>1, <2>1, MarkerAlone, CaptureAlone DEF BInv, batch
<1>2. CASE B!Next
      BY <1>2, Scans, ComesToOutcome, TakesOn, Begins, Pays, Finishes, Inspects, GoesAway, Settles, Recovers, Tells
      DEF B!Next
<1> QED BY <1>1, <1>2

\* An outcome is the work of one batch: that there is one, and no other.
LEMMA OneBatch == BInv => B!AcceptedOnce
<1> SUFFICES ASSUME BInv
             PROVE  \A e \in receipts : Cardinality(B!Earlier(e)) + B!One(e \in proc.work)
                                        + B!One(proc.next # NoWork /\ e \in proc.next) = 1
      BY DEF B!AcceptedOnce, B!Cardinality, Cardinality, B!IsFiniteSet, IsFiniteSet
<1> TAKE e \in receipts
<1>1. \A b, c \in batches : e \in b.work /\ e \in c.work => b = c
      BY DEF BInv, Apart
<1>2. Cardinality({}) = 0 /\ \A b \in batches : Cardinality({b}) = 1
      BY FS_EmptySet, FS_Singleton
<1>3. proc.status \in Statuses
      BY DEF BInv, BatchType, Markers
<1>4. CASE e \in proc.work
  <2>1. B!Earlier(e) = {}
    <3>1. CASE proc.status = "pending"
          BY <1>4, <3>1 DEF BInv, Apart, B!Earlier
    <3>2. CASE proc.status # "pending"
      <4>1. [id |-> proc.id, work |-> proc.work] \in batches
            BY <1>3, <1>4, <3>2 DEF BInv, Claimed, Statuses
      <4> QED BY <1>1, <1>4, <4>1 DEF B!Earlier
    <3> QED BY <3>1, <3>2
  <2>2. B!One(e \in proc.work) = 1 /\ B!One(proc.next # NoWork /\ e \in proc.next) = 0
        BY <1>4 DEF BInv, Apart, B!One
  <2> QED BY <1>2, <2>1, <2>2
<1>5. CASE e \notin proc.work /\ proc.next # NoWork /\ e \in proc.next
  <2>1. B!Earlier(e) = {}
        BY <1>5 DEF BInv, Apart, B!Earlier
  <2>2. B!One(e \in proc.work) = 0 /\ B!One(proc.next # NoWork /\ e \in proc.next) = 1
        BY <1>5 DEF B!One
  <2> QED BY <1>2, <2>1, <2>2
<1>6. CASE e \notin proc.work /\ ~(proc.next # NoWork /\ e \in proc.next)
  <2>1. PICK b \in batches : e \in b.work
        BY <1>6 DEF BInv, Carried
  <2>2. b.id # proc.id
    <3>1. CASE proc.status = "pending"
          BY <3>1 DEF BInv, Claimed, BatchType
    <3>2. CASE proc.status # "pending"
      <4>1. [id |-> proc.id, work |-> proc.work] \in batches
            BY <1>3, <2>1, <3>2 DEF BInv, Claimed, Statuses
      <4>2. [id |-> proc.id, work |-> proc.work] # b
            BY <1>6, <2>1
      <4> QED BY <2>1, <4>1, <4>2 DEF BInv, Apart
    <3> QED BY <3>1, <3>2
  <2>3. B!Earlier(e) = {b}
        BY <1>1, <2>1, <2>2 DEF B!Earlier
  <2>4. B!One(e \in proc.work) = 0 /\ B!One(proc.next # NoWork /\ e \in proc.next) = 0
        BY <1>6 DEF B!One
  <2> QED BY <1>2, <2>1, <2>3, <2>4
<1> QED BY <1>4, <1>5, <1>6

LEMMA WhatBatchPromises == BInv => B!AcceptedOnce /\ B!RecoveryExclusive /\ B!AckedIsTold
<1>1. BInv => B!AckedIsTold
      BY DEF BInv, Told, B!AckedIsTold
<1> QED BY <1>1, OneBatch DEF BInv

(* An accepted outcome is the work of one batch, a batch that may still pay has *)
(* no other beside it, and what is acknowledged was told, for any number of    *)
(* posts, scans, batches and crashes.                                          *)
THEOREM BatchesHold == B!Spec => [](B!AcceptedOnce /\ B!RecoveryExclusive /\ B!AckedIsTold)
<1>1. B!Init => BInv
      BY BatchStarts
<1>2. BInv /\ [B!Next]_batch => BInv'
      BY BatchStep
<1>3. B!Spec => B!Init /\ [][B!Next]_batch
      BY DEF B!Spec, B!vars, batch
<1> QED BY <1>1, <1>2, <1>3, WhatBatchPromises, PTL
--------------------------------------------------------------------------------

\* At most one job of the post is open; the thread works on it, and it is alive.
OneOpen == \A j, k \in J!Post : jobs[j].status \in J!Open /\ jobs[k].status \in J!Open => j = k

Working ==
    thread # J!Idle =>
        /\ thread.step # "idle" /\ J!Job \in J!Post
        /\ jobs[J!Job].status = "running" /\ jobs[J!Job].alive

\* Requests belong to jobs, products to the jobs and stages that made them.
Belong ==
    /\ \A i \in DOMAIN ledger : ledger[i].job \in J!Post
    /\ \A m \in made : /\ m[1] \in J!Post
                       /\ jobs[m[1]].kind # "initial" => m[2] = jobs[m[1]].kind

\* Where the thread is says what the ledger and the products hold.
Underway ==
    /\ thread.step \in {"lock", "gate", "send", "sent", "answered", "stored", "report"} =>
          (J!Kind # "initial" => thread.stage = J!Kind)
    /\ thread.step = "send" => J!Blocking = {}
    /\ thread.step \in {"sent", "answered", "stored"} =>
          /\ Len(ledger) > 0 /\ ledger[Len(ledger)].job = J!Job
          /\ J!Blocking \subseteq {Len(ledger)}
    /\ thread.step = "stored" => <<J!Job, thread.stage>> \in made
    /\ thread.step = "report" /\ J!Kind # "initial" => J!Blocking = {} /\ <<J!Job, J!Kind>> \in made

\* What changed for a request that left unwanted: nothing is as it was until
\* something changes again; and what has passed its check was wanted then.
Stamped == \A i \in DOMAIN ledger :
    /\ ledger[i].late <= jobEvents
    /\ ledger[i].late # 0 /\ ledger[i].late = jobEvents /\ jobs[ledger[i].job].status \in J!Open =>
          ~J!Fresh(ledger[i].job)

Checked == thread.step = "send" =>
    \A i \in J!Requests(J!Job) : ledger[i].late # 0 => ledger[i].late < jobEvents

\* An error is the end of a job.
Ended == \A j \in J!Post : jobs[j].error # "none" => jobs[j].status = "failed"

IInv ==
    /\ J!TypeOK /\ OneOpen /\ Working /\ Belong /\ Underway /\ Stamped /\ Checked /\ Ended
    /\ J!AtMostOneLate /\ J!RecoveredTruth
--------------------------------------------------------------------------------
\* The jobs are rows; the requests are entries of the ledger.
LEMMA Parts ==
    ASSUME J!TypeOK
    PROVE  /\ Len(jobs) \in Nat /\ Len(ledger) \in Nat
           /\ DOMAIN jobs = J!Post /\ DOMAIN ledger = 1 .. Len(ledger)
           /\ \A j \in J!Post : jobs[j] \in J!Row /\ j \in Nat
           /\ \A i \in DOMAIN ledger : ledger[i] \in J!Request /\ i \in Nat
  BY DEF J!TypeOK, J!Post

\* What a recovery says of one job.
Truth(j) ==
    /\ jobs[j].error = "before_request" => J!Requests(j) = {}
    /\ jobs[j].error = "after_request" => J!Requests(j) # {} /\ J!Requests(j) \cap J!Blocking = {}
    /\ jobs[j].status = "succeeded" =>
          /\ J!Requests(j) \cap J!Blocking = {}
          /\ <<j, IF jobs[j].kind = "initial" THEN "item" ELSE jobs[j].kind>> \in made

\* A job nobody has recovered, and that has not succeeded, promises nothing.
Plain(j) == jobs[j].status # "succeeded" /\ jobs[j].error \notin {"before_request", "after_request"}

\* Nothing false is said of such a job.
LEMMA PlainIsTrue == \A j : (Plain(j) => Truth(j)) /\ (Plain(j)' => Truth(j)')
  BY DEF Plain, Truth

\* The property, job by job.
LEMMA TruthIsAll ==
    /\ J!RecoveredTruth <=> \A j \in J!Post : Truth(j)
    /\ J!RecoveredTruth' <=> \A j \in J!Post' : Truth(j)'
  BY DEF J!RecoveredTruth, Truth

\* A request of a job keeps whose it is, and what it found when it left.
SameRequest(i) ==
    ledger'[i].job = ledger[i].job /\ ledger'[i].late = ledger[i].late

LedgerKept ==
    /\ DOMAIN ledger' = DOMAIN ledger
    /\ \A i \in DOMAIN ledger : SameRequest(i)

\* A job keeps what it was accepted for, and does not open again.
SameJob(j) ==
    /\ jobs'[j].kind = jobs[j].kind /\ jobs'[j].src = jobs[j].src
    /\ jobs'[j].status \in J!Open => jobs[j].status \in J!Open

JobsKept == Len(jobs') = Len(jobs) /\ \A j \in J!Post : SameJob(j)

\* The job and its requests say what they said, or the job promises nothing.
TruthKept(j) ==
    \/ Plain(j)'
    \/ /\ jobs'[j] = jobs[j]
       /\ \A i \in DOMAIN ledger : ledger[i].job = j =>
             (i \in J!Blocking' => i \in J!Blocking)
    \/ Truth(j)'

\* Promises are kept when no request of theirs opens again.
LEMMA TruthsKept ==
    ASSUME J!RecoveredTruth, LedgerKept, Len(jobs') = Len(jobs), made \subseteq made',
           \A j \in J!Post : TruthKept(j)
    PROVE  J!RecoveredTruth'
<1>1. SUFFICES ASSUME NEW j \in J!Post PROVE Truth(j)'
  BY TruthIsAll DEF J!Post
<1>2. Truth(j) /\ TruthKept(j)
  BY TruthIsAll
<1>3. J!Requests(j)' = J!Requests(j)
  BY DEF J!Requests, LedgerKept, SameRequest
<1>4. CASE Plain(j)'
  BY <1>4, PlainIsTrue
<1>5. CASE /\ jobs'[j] = jobs[j]
           /\ \A i \in DOMAIN ledger : ledger[i].job = j => (i \in J!Blocking' => i \in J!Blocking)
  <2>1. J!Requests(j) \cap J!Blocking = {} => J!Requests(j)' \cap J!Blocking' = {}
    BY <1>3, <1>5 DEF J!Requests
  <2> QED BY <1>2, <1>3, <1>5, <2>1 DEF Truth
<1> QED BY <1>2, <1>4, <1>5 DEF TruthKept

\* A job keeps its requests.
LEMMA RequestsKept == ASSUME LedgerKept PROVE \A j : J!Requests(j)' = J!Requests(j)
  BY DEF J!Requests, LedgerKept, SameRequest
\* A step of the thread, of a recovery or of the operator: what it has to establish.
LEMMA Keeps ==
    ASSUME IInv, UNCHANGED <<source, third, consent, review>>, J!TypeOK', JobsKept, LedgerKept,
           Working', Underway', made \subseteq made', jobEvents <= jobEvents',
           \A m \in made' \ made : /\ m[1] \in J!Post
                                   /\ jobs[m[1]].kind # "initial" => m[2] = jobs[m[1]].kind,
           thread'.step = "send" => \/ thread' = thread
                                    \/ J!Fresh(thread'.job) /\ thread'.job \in J!Post
                                       /\ jobs'[thread'.job].status \in J!Open,
           \A j \in J!Post : jobs'[j].error # "none" => jobs'[j].status = "failed",
           \A j \in J!Post : TruthKept(j)
    PROVE  IInv'
<1>1. J!Post' = J!Post /\ \A j \in J!Post : SameJob(j)
  BY DEF JobsKept, J!Post
<1>2. OneOpen'
  BY <1>1 DEF IInv, OneOpen, SameJob
<1>3. Belong'
  <2>1. \A i \in DOMAIN ledger' : ledger'[i].job \in J!Post'
    BY <1>1 DEF IInv, Belong, LedgerKept, SameRequest
  <2>2. ASSUME NEW m \in made' PROVE m[1] \in J!Post' /\ (jobs'[m[1]].kind # "initial" => m[2] = jobs'[m[1]].kind)
    <3>1. m[1] \in J!Post /\ (jobs[m[1]].kind # "initial" => m[2] = jobs[m[1]].kind)
      BY DEF IInv, Belong
    <3> QED BY <1>1, <3>1 DEF SameJob
  <2> QED BY <2>1, <2>2 DEF Belong
<1>4. \A j \in J!Post : J!Fresh(j)' <=> J!Fresh(j)
  BY <1>1 DEF J!Fresh, J!Trusted, SameJob
<1>5. jobEvents \in Nat /\ jobEvents' \in Nat /\ \A i \in DOMAIN ledger : ledger[i].late \in Nat
  BY Parts DEF IInv, J!TypeOK, J!Request
<1>6. Stamped'
  <2>1. ASSUME NEW i \in DOMAIN ledger, NEW j \in J!Post, j = ledger[i].job
        PROVE  /\ ledger'[i].late <= jobEvents'
               /\ ledger'[i].late # 0 /\ ledger'[i].late = jobEvents' /\ jobs'[j].status \in J!Open => ~J!Fresh(j)'
    <3>1. ledger'[i].late = ledger[i].late /\ ledger[i].late <= jobEvents
      BY DEF LedgerKept, SameRequest, IInv, Stamped
    <3>2. ledger[i].late # 0 /\ ledger[i].late = jobEvents /\ jobs[j].status \in J!Open => ~J!Fresh(j)
      BY <2>1 DEF IInv, Stamped
    <3>3. jobs'[j].status \in J!Open => jobs[j].status \in J!Open
      BY <1>1 DEF SameJob
    <3> QED BY <1>4, <1>5, <3>1, <3>2, <3>3
  <2>2. \A i \in DOMAIN ledger' : i \in DOMAIN ledger /\ ledger'[i].job = ledger[i].job /\ ledger[i].job \in J!Post
    BY DEF LedgerKept, SameRequest, IInv, Belong
  <2>3. ASSUME NEW i \in DOMAIN ledger', NEW j, j = ledger'[i].job
        PROVE  /\ ledger'[i].late <= jobEvents'
               /\ ledger'[i].late # 0 /\ ledger'[i].late = jobEvents' /\ jobs'[j].status \in J!Open => ~J!Fresh(j)'
    BY <2>1, <2>2, <2>3
  <2> QED BY <2>3 DEF Stamped
<1>7. Checked'
  <2>1. ASSUME thread'.step = "send", NEW j, j = thread'.job, NEW i \in J!Requests(j), ledger'[i].late # 0
        PROVE  ledger'[i].late < jobEvents'
    <3>1. i \in DOMAIN ledger /\ ledger'[i].late = ledger[i].late /\ ledger[i].job = j
      BY DEF LedgerKept, SameRequest, J!Requests
    <3>2. CASE thread' = thread
      <4>1. ledger[i].late < jobEvents
        BY <2>1, <3>1, <3>2 DEF IInv, Checked, J!Job
      <4> QED BY <1>5, <3>1, <4>1
    <3>3. CASE J!Fresh(thread'.job) /\ thread'.job \in J!Post /\ jobs'[thread'.job].status \in J!Open
      <4>1. j \in J!Post /\ J!Fresh(j) /\ jobs[j].status \in J!Open
        BY <1>1, <2>1, <3>3 DEF SameJob
      <4>2. ledger[i].late # jobEvents /\ ledger[i].late <= jobEvents
        BY <2>1, <3>1, <4>1 DEF IInv, Stamped
      <4> QED BY <1>5, <3>1, <4>2
    <3> QED BY <2>1, <3>2, <3>3
  <2>2. ASSUME thread'.step = "send", NEW i \in DOMAIN ledger', ledger'[i].job = thread'.job, ledger'[i].late # 0
        PROVE  ledger'[i].late < jobEvents'
    <3>1. PICK j : j = thread'.job
      OBVIOUS
    <3>2. i \in J!Requests(j)
      BY <2>2, <3>1 DEF J!Requests, LedgerKept, SameRequest
    <3> QED BY <2>1, <2>2, <3>1, <3>2
  <2> QED BY <2>2 DEF Checked, J!Job, J!Requests
<1>8. Ended'
  BY <1>1 DEF Ended
<1>9. J!AtMostOneLate'
  <2> SUFFICES ASSUME NEW j \in J!Post, NEW i \in J!Requests(j), NEW k \in J!Requests(j), i # k, ledger'[i].late # 0
               PROVE  ledger'[k].late # ledger'[i].late
    BY <1>1, RequestsKept DEF J!AtMostOneLate
  <2>1. SameRequest(i) /\ SameRequest(k)
    BY DEF LedgerKept, J!Requests
  <2> QED BY <2>1 DEF IInv, J!AtMostOneLate, SameRequest
<1>10. J!RecoveredTruth'
  BY TruthsKept DEF IInv, JobsKept
<1> QED BY <1>2, <1>3, <1>6, <1>7, <1>8, <1>9, <1>10 DEF IInv
--------------------------------------------------------------------------------
\* Closing a job.
LEMMA Closed ==
    ASSUME J!TypeOK, NEW j \in J!Post, NEW status \in J!Open \cup {"succeeded", "failed"},
           NEW error \in {"none", "executor", "error", "before_request", "after_request"},
           J!Close(j, status, error)
    PROVE  /\ jobs' \in Seq(J!Row) /\ Len(jobs') = Len(jobs)
           /\ \A k \in J!Post : k # j => jobs'[k] = jobs[k]
           /\ jobs'[j] = [jobs[j] EXCEPT !.status = status, !.error = error]
           /\ jobs'[j].status = status /\ jobs'[j].error = error
           /\ jobs'[j].kind = jobs[j].kind /\ jobs'[j].src = jobs[j].src /\ jobs'[j].alive = jobs[j].alive
<1>1. jobs \in Seq(J!Row) /\ j \in 1 .. Len(jobs) /\ jobs[j] \in J!Row
  BY Parts DEF J!TypeOK, J!Post
<1>2. PICK row : row = [jobs[j] EXCEPT !.status = status, !.error = error]
  OBVIOUS
<1>3. row \in J!Row /\ row.status = status /\ row.error = error /\ row.kind = jobs[j].kind
      /\ row.src = jobs[j].src /\ row.alive = jobs[j].alive
  BY <1>1, <1>2 DEF J!Row
<1>4. jobs' = [jobs EXCEPT ![j] = row]
  BY <1>1, <1>2 DEF J!Close, J!Row
<1>5. jobs' \in Seq(J!Row) /\ Len(jobs') = Len(jobs)
  BY <1>1, <1>3, <1>4
<1>6. jobs'[j] = row /\ \A k \in J!Post : k # j => jobs'[k] = jobs[k]
  BY <1>1, <1>4 DEF J!Post
<1> QED BY <1>2, <1>3, <1>5, <1>6

\* Settling the last request.
LEMMA Settled ==
    ASSUME J!TypeOK, Len(ledger) > 0,
           NEW state \in {"started", "usage", "uncertain", "unpriced", "accepted", "rejected"},
           J!Settle(state)
    PROVE  /\ ledger' \in Seq(J!Request) /\ Len(ledger') = Len(ledger) /\ LedgerKept
           /\ \A i \in DOMAIN ledger : i # Len(ledger) => ledger'[i] = ledger[i]
           /\ ledger'[Len(ledger)].state = state
<1>1. PICK n \in DOMAIN ledger : n = Len(ledger)
  BY Parts
<1>2. PICK row : row = [ledger[n] EXCEPT !.state = state]
  OBVIOUS
<1>3. ledger \in Seq(J!Request) /\ ledger[n] \in J!Request
  BY Parts DEF J!TypeOK
<1>4. row \in J!Request /\ row.state = state /\ row.job = ledger[n].job /\ row.late = ledger[n].late
  BY <1>2, <1>3 DEF J!Request
<1>5. ledger' = [ledger EXCEPT ![n] = row]
  BY <1>1, <1>2, <1>3 DEF J!Settle, J!Request
<1>6. ledger' \in Seq(J!Request) /\ Len(ledger') = Len(ledger) /\ DOMAIN ledger' = DOMAIN ledger
  BY <1>1, <1>3, <1>4, <1>5
<1>7. \A i \in DOMAIN ledger : i # n => ledger'[i] = ledger[i]
  BY <1>5
<1>8. ledger'[n] = row
  BY <1>1, <1>5
<1>9. \A i \in DOMAIN ledger : SameRequest(i)
  BY <1>4, <1>7, <1>8 DEF SameRequest
<1> QED BY <1>1, <1>4, <1>6, <1>7, <1>8, <1>9 DEF LedgerKept

\* Jobs and ledger as they were.
LEMMA Unmoved ==
    /\ jobs' = jobs => JobsKept
    /\ ledger' = ledger => LedgerKept
    /\ jobs' = jobs /\ ledger' = ledger => \A j \in J!Post : TruthKept(j)
    /\ IInv /\ jobs' = jobs => \A j \in J!Post : jobs'[j].error # "none" => jobs'[j].status = "failed"
<1>1. jobs' = jobs => JobsKept
  BY DEF JobsKept, SameJob
<1>2. ledger' = ledger => LedgerKept
  BY DEF LedgerKept, SameRequest
<1>3. jobs' = jobs /\ ledger' = ledger => \A j \in J!Post : TruthKept(j)
  BY DEF TruthKept, J!Blocking
<1> QED BY <1>1, <1>2, <1>3 DEF IInv, Ended

\* A thread that works.
LEMMA AtWork ==
    ASSUME IInv, thread.step # "idle"
    PROVE  /\ J!Job \in J!Post /\ jobs[J!Job] \in J!Row /\ jobs[J!Job].status = "running" /\ jobs[J!Job].alive
           /\ J!Kind \in J!AllKinds /\ jobs[J!Job].error = "none"
           /\ \A j \in J!Post : jobs[j].status \in J!Open => j = J!Job
<1>1. thread # J!Idle
  BY DEF J!Idle
<1>2. J!Job \in J!Post /\ jobs[J!Job].status = "running" /\ jobs[J!Job].alive
  BY <1>1 DEF IInv, Working
<1>3. PICK j \in J!Post : j = J!Job
  BY <1>2
<1>4. jobs[j] \in J!Row /\ jobs[j].status = "running"
  BY <1>2, <1>3, Parts DEF IInv
<1>5. jobs[j].error = "none"
  BY <1>4 DEF IInv, Ended
<1>6. \A k \in J!Post : jobs[k].status \in J!Open => k = j
  BY <1>4 DEF IInv, OneOpen, J!Open
<1> QED BY <1>2, <1>3, <1>4, <1>5, <1>6 DEF J!Row, J!Kind

\* A step of the thread.
LEMMA Stepped ==
    ASSUME J!TypeOK, NEW stage \in J!Stages, NEW step \in J!Steps, J!Step(stage, step)
    PROVE  /\ thread' \in [job : Nat, stage : J!Stages, step : J!Steps]
           /\ thread'.job = thread.job /\ thread'.stage = stage /\ thread'.step = step
  BY DEF J!TypeOK, J!Step

\* Only the thread moves.
LEMMA OnlyThread ==
    ASSUME IInv, UNCHANGED <<source, J!desk, machine, image, made, jobs, ledger, jobEvents>>,
           scanned' \subseteq Nat,
           NEW stage \in J!Stages, NEW step \in J!Steps, J!Step(stage, step), thread.step # "idle",
           step \in {"lock", "gate", "send", "report"},
           J!Kind # "initial" => stage = J!Kind /\ step # "report",
           step = "send" => J!Preflight(J!Job)
    PROVE  IInv'
<1>1. J!TypeOK'
  BY Stepped DEF IInv, J!TypeOK, J!desk
<1>2. thread'.job = J!Job /\ thread'.stage = stage /\ thread'.step = step
  BY Stepped DEF IInv, J!Job
<1>3. PICK j \in J!Post : j = J!Job
  BY AtWork
<1>4. jobs[j].status = "running" /\ jobs[j].alive /\ thread'.job = j /\ J!Kind = jobs[j].kind
  BY <1>2, <1>3, AtWork DEF J!Kind
<1>5. Working'
  BY <1>2, <1>4 DEF Working, J!Job, J!Post
<1>6. Underway'
  <2>1. step = "send" => J!Blocking = {}
    BY DEF J!Preflight, J!Budget
  <2> QED BY <1>2, <1>4, <2>1 DEF Underway, J!Kind, J!Job, J!Blocking
<1>7. step = "send" => J!Fresh(j)
  BY <1>3 DEF J!Preflight, J!Eligible, J!Gate, J!Fresh
<1>8. jobEvents <= jobEvents'
  BY DEF IInv, J!TypeOK
<1> QED BY <1>1, <1>2, <1>4, <1>5, <1>6, <1>7, <1>8, Unmoved, Keeps DEF J!desk, J!Open
--------------------------------------------------------------------------------
\* The job looks at the post before it begins.
LEMMA ReadKeeps == ASSUME IInv, J!Read PROVE IInv'
<1>1. J!Kind \in J!AllKinds /\ thread.step # "idle"
  BY AtWork DEF J!Read
<1>2. scanned' \subseteq Nat
  BY DEF IInv, J!TypeOK, J!Read, J!products
<1>3. CASE J!Kind # "initial" /\ J!Step(J!Kind, "lock")
  <2>1. J!Kind \in J!Stages
    BY <1>1 DEF J!Stages
  <2> QED BY <1>1, <1>2, <1>3, <2>1, OnlyThread DEF J!Read, J!Steps, J!products
<1>4. ASSUME J!Kind = "initial",
             NEW stage \in {"text", "risk", "image"}, NEW step \in {"lock", "gate", "report"},
             J!Step(stage, step)
      PROVE  IInv'
  <2>1. stage \in J!Stages /\ step \in J!Steps
    BY DEF J!Stages, J!AllKinds, J!KINDS, J!Steps
  <2> QED BY <1>1, <1>2, <1>4, <2>1, OnlyThread DEF J!Read, J!products
<1> QED BY <1>3, <1>4 DEF J!Read, J!ImagesNext

\* The lock of the stage.
LEMMA TakeLockKeeps == ASSUME IInv, J!TakeLock PROVE IInv'
<1>1. J!Kind \in J!AllKinds /\ thread.step # "idle" /\ thread.stage \in J!Stages
      /\ (J!Kind # "initial" => thread.stage = J!Kind)
  BY AtWork DEF J!TakeLock, IInv, J!TypeOK, Underway
<1>2. scanned' \subseteq Nat
  BY DEF IInv, J!TypeOK, J!TakeLock, J!products
<1>3. ASSUME NEW stage \in {"image", thread.stage}, NEW step \in {"lock", "gate", "report"},
             J!Step(stage, step), J!Kind # "initial" => stage = J!Kind /\ step # "report"
      PROVE  IInv'
  <2>1. stage \in J!Stages /\ step \in J!Steps
    BY <1>1 DEF J!Stages, J!AllKinds, J!KINDS, J!Steps
  <2> QED BY <1>1, <1>2, <1>3, <2>1, OnlyThread DEF J!TakeLock, J!products
<1>4. \/ J!Kind = "initial" /\ J!Step("image", "lock")
      \/ J!Kind = "initial" /\ J!Step("image", "report")
      \/ J!Step(thread.stage, "gate")
  BY DEF J!TakeLock, J!ImagesNext
<1> QED BY <1>1, <1>3, <1>4

\* The check inside the lock of the ledger.
LEMMA PassGateKeeps == ASSUME IInv, J!PassGate PROVE IInv'
<1>1. J!Kind \in J!AllKinds /\ thread.step # "idle" /\ thread.stage \in J!Stages
      /\ (J!Kind # "initial" => thread.stage = J!Kind)
  BY AtWork DEF J!PassGate, IInv, J!TypeOK, Underway
<1>2. scanned' \subseteq Nat
  BY DEF IInv, J!TypeOK, J!PassGate, J!products
<1> QED BY <1>1, <1>2, OnlyThread DEF J!PassGate, J!products, J!Steps

\* A failed scan lets the job go on.
LEMMA ScanFailsKeeps == ASSUME IInv, J!ScanFails PROVE IInv'
<1>1. J!Kind \in J!AllKinds /\ thread.step # "idle" /\ J!Kind = "initial"
  BY AtWork DEF J!ScanFails, IInv, J!TypeOK, Underway, J!AllKinds, J!KINDS
<1>2. scanned' \subseteq Nat
  BY AtWork DEF IInv, J!TypeOK, J!ScanFails, J!Row, J!Sources
<1> QED BY <1>1, <1>2, OnlyThread DEF J!ScanFails, J!Stages, J!AllKinds, J!KINDS, J!Steps

\* Claiming a job of this process.
LEMMA ClaimKeeps == ASSUME IInv, J!Claim PROVE IInv'
<1>1. PICK j \in J!Post : /\ jobs[j].status = "pending" /\ jobs[j].alive
                        /\ jobs' = [jobs EXCEPT ![j].status = "running"]
                        /\ thread' = [job |-> j, stage |-> "none", step |-> "read"]
  BY DEF J!Claim
<1>2. jobs \in Seq(J!Row) /\ j \in 1 .. Len(jobs) /\ jobs[j] \in J!Row /\ j \in Nat
  BY Parts DEF IInv, J!TypeOK, J!Post
<1>3. PICK row : row = [jobs[j] EXCEPT !.status = "running"]
  OBVIOUS
<1>4. row \in J!Row /\ row.status = "running" /\ row.error = jobs[j].error /\ row.kind = jobs[j].kind
      /\ row.src = jobs[j].src /\ row.alive = jobs[j].alive
  BY <1>2, <1>3 DEF J!Row, J!Open
<1>5. jobs' = [jobs EXCEPT ![j] = row]
  BY <1>1, <1>3
<1>6. jobs' \in Seq(J!Row) /\ Len(jobs') = Len(jobs)
  BY <1>2, <1>4, <1>5
<1>7. jobs'[j] = row /\ \A k \in J!Post : k # j => jobs'[k] = jobs[k]
  BY <1>2, <1>5 DEF J!Post
<1>8. J!TypeOK'
  BY <1>1, <1>2, <1>6 DEF IInv, J!TypeOK, J!Claim, J!desk, J!products, J!Stages, J!Steps
<1>9. JobsKept
  BY <1>1, <1>4, <1>6, <1>7 DEF JobsKept, SameJob, J!Open
<1>10. Working'
  BY <1>1, <1>4, <1>6, <1>7 DEF Working, J!Job, J!Post
<1>11. Underway'
  BY <1>1 DEF Underway
<1>12. \A k \in J!Post : jobs'[k].error # "none" => jobs'[k].status = "failed"
  BY <1>1, <1>4, <1>7 DEF IInv, Ended
<1>13. \A k \in J!Post : TruthKept(k)
  <2>1. jobs[j].error = "none"
    BY <1>1 DEF IInv, Ended
  <2>2. Plain(j)'
    BY <1>4, <1>7, <2>1 DEF Plain
  <2>3. ASSUME NEW k \in J!Post, k # j PROVE TruthKept(k)
    BY <1>7, <2>3 DEF TruthKept, J!Claim, J!Blocking
  <2> QED BY <2>2, <2>3 DEF TruthKept
<1>14. jobEvents <= jobEvents'
  BY DEF IInv, J!TypeOK, J!Claim
<1> QED BY <1>1, <1>8, <1>9, <1>10, <1>11, <1>12, <1>13, <1>14, Unmoved, Keeps DEF J!Claim, J!desk, J!products

\* The job ends; the thread is free.
LEMMA EndsKeep ==
    ASSUME IInv, thread.step # "idle", UNCHANGED <<source, third, consent, review, jobEvents>>, J!TypeOK',
           LedgerKept, made \subseteq made',
           NEW j \in J!Post, j = J!Job,
           \A m \in made' \ made : m[1] = j /\ (jobs[j].kind # "initial" => m[2] = jobs[j].kind),
           \A i \in DOMAIN ledger : ledger[i].job # j /\ i \in J!Blocking' => i \in J!Blocking,
           NEW status \in {"succeeded", "failed"}, NEW error \in {"none", "error"},
           J!Close(j, status, error), thread' = J!Idle,
           error # "none" => status = "failed",
           status = "succeeded" => Truth(j)'
    PROVE  IInv'
<1>2. /\ Len(jobs') = Len(jobs) /\ \A k \in J!Post : k # j => jobs'[k] = jobs[k]
      /\ jobs'[j].status = status /\ jobs'[j].error = error
      /\ jobs'[j].kind = jobs[j].kind /\ jobs'[j].src = jobs[j].src
  BY Closed DEF IInv, J!Open
<1>3. JobsKept
  BY <1>2 DEF JobsKept, SameJob, J!Open
<1>4. Working' /\ Underway'
  BY DEF Working, Underway, J!Idle
<1>5. \A k \in J!Post : jobs'[k].error # "none" => jobs'[k].status = "failed"
  BY <1>2 DEF IInv, Ended
<1>6. \A k \in J!Post : TruthKept(k)
  <2>1. Plain(j)' \/ Truth(j)'
    BY <1>2 DEF Plain
  <2>2. ASSUME NEW k \in J!Post, k # j PROVE TruthKept(k)
    BY <1>2, <2>2 DEF TruthKept
  <2> QED BY <2>1, <2>2 DEF TruthKept
<1>7. jobEvents <= jobEvents'
  BY DEF IInv, J!TypeOK
<1> QED BY <1>3, <1>4, <1>5, <1>6, <1>7, Keeps DEF J!Idle, J!Kind
--------------------------------------------------------------------------------
\* A job fails before it has sent anything.
LEMMA FailKeeps == ASSUME IInv, J!Fail PROVE IInv'
<1>1. PICK j \in J!Post : j = J!Job
  BY AtWork DEF J!Fail
<1>2. thread.step # "idle" /\ J!Close(j, "failed", "error") /\ thread' = J!Idle
  BY <1>1 DEF J!Fail
<1>3. J!TypeOK'
  <2>1. jobs' \in Seq(J!Row)
    BY <1>2, Closed DEF IInv
  <2>2. thread' \in [job : Nat, stage : J!Stages, step : J!Steps]
    BY <1>2 DEF J!Idle, J!Stages, J!Steps
  <2> QED BY <2>1, <2>2 DEF IInv, J!TypeOK, J!Fail, J!desk, J!products
<1> QED BY <1>1, <1>2, <1>3, EndsKeep, Unmoved DEF J!Fail, J!desk, J!products, J!Blocking

\* The last request is settled, or stays as it is.
SettlesLast ==
    \/ ledger' = ledger
    \/ \E state \in {"usage", "uncertain", "rejected", "accepted"} : J!Settle(state)

\* The last request is the one of the job at work; the others stay as they are.
LEMMA LastIsOurs ==
    ASSUME IInv, thread.step \in {"sent", "answered", "stored"}, SettlesLast
    PROVE  /\ ledger' \in Seq(J!Request) /\ LedgerKept /\ Len(ledger') = Len(ledger)
           /\ Len(ledger) > 0 /\ Len(ledger) \in DOMAIN ledger
           /\ ledger[Len(ledger)].job = J!Job /\ ledger'[Len(ledger)].job = J!Job
           /\ \A i \in DOMAIN ledger : ledger[i].job # J!Job => ledger'[i] = ledger[i]
           /\ \A i \in DOMAIN ledger : i \in J!Blocking' => i \in J!Blocking \/ i = Len(ledger)
           /\ J!Blocking' \subseteq {Len(ledger)}
<1>1. /\ Len(ledger) > 0 /\ ledger[Len(ledger)].job = J!Job /\ J!Blocking \subseteq {Len(ledger)}
      /\ Len(ledger) \in DOMAIN ledger
  BY Parts DEF IInv, Underway
<1>2. /\ ledger' \in Seq(J!Request) /\ LedgerKept /\ Len(ledger') = Len(ledger)
      /\ \A i \in DOMAIN ledger : i # Len(ledger) => ledger'[i] = ledger[i]
  <2>1. CASE ledger' = ledger
    BY <2>1, Unmoved DEF IInv, J!TypeOK
  <2>2. ASSUME NEW state \in {"usage", "uncertain", "rejected", "accepted"}, J!Settle(state)
        PROVE  /\ ledger' \in Seq(J!Request) /\ LedgerKept /\ Len(ledger') = Len(ledger)
               /\ \A i \in DOMAIN ledger : i # Len(ledger) => ledger'[i] = ledger[i]
    BY <1>1, <2>2, Settled DEF IInv
  <2> QED BY <2>1, <2>2 DEF SettlesLast
<1>3. \A i \in DOMAIN ledger : i \in J!Blocking' => i \in J!Blocking \/ i = Len(ledger)
  BY <1>2 DEF J!Blocking, LedgerKept
<1>4. J!Blocking' \subseteq {Len(ledger)}
  BY <1>1, <1>3, <1>2 DEF J!Blocking, LedgerKept
<1>5. ledger'[Len(ledger)].job = J!Job
  BY <1>1, <1>2 DEF LedgerKept, SameRequest
<1> QED BY <1>1, <1>2, <1>3, <1>4, <1>5

\* A stage fails: the scan of the risks lets the job go on, the others end it.
LEMMA FailsKeep ==
    ASSUME IInv, thread.step \in {"sent", "answered", "stored"}, SettlesLast, J!StageFails,
           UNCHANGED <<source, J!desk, machine, image, made, jobEvents>>
    PROVE  IInv'
<1>1. PICK j \in J!Post : j = J!Job
  BY AtWork
<1>2. /\ jobs[j] \in J!Row /\ jobs[j].status = "running" /\ jobs[j].alive /\ jobs[j].error = "none"
      /\ jobs[j].src.text \in Nat
  BY <1>1, AtWork DEF J!Row, J!Sources
<1>3. ledger' \in Seq(J!Request) /\ LedgerKept
  BY LastIsOurs
<1>4. \A i \in DOMAIN ledger : ledger[i].job # j => ledger'[i] = ledger[i]
  BY <1>1, LastIsOurs
<1>5. \A i \in DOMAIN ledger : ledger[i].job # j /\ i \in J!Blocking' => i \in J!Blocking
  BY <1>4 DEF J!Blocking
<1>6. CASE thread.stage = "risk"
  <2>1. jobs' = jobs /\ J!Step("text", "lock") /\ scanned' = scanned \cup {jobs[j].src.text}
    BY <1>1, <1>6 DEF J!StageFails
  <2>2. "text" \in J!Stages /\ "lock" \in J!Steps
    BY DEF J!Stages, J!AllKinds, J!KINDS, J!Steps
  <2>3. /\ thread' \in [job : Nat, stage : J!Stages, step : J!Steps]
        /\ thread'.job = j /\ thread'.stage = "text" /\ thread'.step = "lock"
    BY <1>1, <2>1, <2>2, Stepped DEF IInv, J!Job
  <2>4. J!TypeOK'
    BY <1>2, <1>3, <2>1, <2>3 DEF IInv, J!TypeOK, J!desk
  <2>5. J!Kind = "initial"
    BY <1>6, AtWork DEF IInv, Underway, J!AllKinds, J!KINDS
  <2>6. Working'
    BY <1>2, <2>1, <2>3 DEF Working, J!Job, J!Post
  <2>7. Underway'
    BY <1>1, <2>1, <2>3, <2>5 DEF Underway, J!Kind, J!Job
  <2>8. ASSUME NEW k \in J!Post PROVE TruthKept(k)
    <3>1. CASE k = j
      BY <1>2, <2>1, <3>1 DEF TruthKept, Plain
    <3>2. CASE k # j
      BY <1>5, <2>1, <3>2 DEF TruthKept
    <3> QED BY <3>1, <3>2
  <2>9. jobEvents <= jobEvents'
    BY DEF IInv, J!TypeOK
  <2> QED BY <1>3, <2>1, <2>3, <2>4, <2>6, <2>7, <2>8, <2>9, Unmoved, Keeps DEF J!desk
<1>7. CASE thread.stage # "risk"
  <2>1. J!Close(j, "failed", "error") /\ thread' = J!Idle /\ scanned' = scanned
    BY <1>1, <1>7 DEF J!StageFails
  <2>2. J!TypeOK'
    BY <1>3, <2>1, Closed DEF IInv, J!TypeOK, J!desk, J!Idle, J!Stages, J!Steps
  <2> QED BY <1>1, <1>3, <1>5, <2>1, <2>2, EndsKeep DEF J!desk
<1> QED BY <1>6, <1>7

\* A request is answered, its product stored and accepted: the job goes on.
LEMMA GoesOn ==
    ASSUME IInv, thread.step \in {"sent", "answered", "stored"}, SettlesLast, jobs' = jobs,
           UNCHANGED <<source, third, consent, review, jobEvents>>, J!TypeOK', made \subseteq made',
           \A m \in made' \ made : m = <<J!Job, thread.stage>>,
           NEW stage \in J!Stages, NEW step \in J!Steps \ {"send", "idle"}, J!Step(stage, step),
           J!Kind # "initial" => stage = J!Kind,
           step \in {"sent", "answered", "stored"} => stage = thread.stage,
           step = "stored" => <<J!Job, thread.stage>> \in made',
           step = "report" /\ J!Kind # "initial" => J!Blocking' = {} /\ <<J!Job, J!Kind>> \in made'
    PROVE  IInv'
<1>1. PICK j \in J!Post : j = J!Job
  BY AtWork
<1>2. /\ jobs[j] \in J!Row /\ jobs[j].status = "running" /\ jobs[j].alive /\ jobs[j].error = "none"
  BY <1>1, AtWork
<1>3. thread'.job = j /\ thread'.stage = stage /\ thread'.step = step
  BY <1>1, Stepped DEF IInv, J!Job
<1>4. LedgerKept /\ Len(ledger') = Len(ledger)
  BY LastIsOurs
<1>5. \A i \in DOMAIN ledger : ledger[i].job # j /\ i \in J!Blocking' => i \in J!Blocking
  BY <1>1, LastIsOurs DEF J!Blocking
<1>6. Working'
  BY <1>2, <1>3 DEF Working, J!Job, J!Post
<1>7. Underway'
  <2>1. /\ Len(ledger') > 0 /\ ledger'[Len(ledger')].job = j /\ J!Blocking' \subseteq {Len(ledger')}
    BY <1>1, LastIsOurs
  <2>2. /\ step = "stored" => <<j, stage>> \in made'
        /\ step = "report" /\ jobs[j].kind # "initial" => J!Blocking' = {} /\ <<j, jobs[j].kind>> \in made'
        /\ jobs[j].kind # "initial" => stage = jobs[j].kind
    BY <1>1 DEF J!Kind
  <2> QED BY <1>3, <2>1, <2>2 DEF Underway, J!Kind, J!Job
<1>8. ASSUME NEW m \in made' \ made
      PROVE  m[1] \in J!Post /\ (jobs[m[1]].kind # "initial" => m[2] = jobs[m[1]].kind)
  <2>1. m = <<j, thread.stage>>
    BY <1>1
  <2>2. jobs[j].kind # "initial" => thread.stage = jobs[j].kind
    BY <1>1 DEF IInv, Underway, J!Kind
  <2> QED BY <2>1, <2>2
<1>9. ASSUME NEW k \in J!Post PROVE TruthKept(k)
  <2>1. CASE k = j
    BY <1>2, <2>1 DEF TruthKept, Plain
  <2>2. CASE k # j
    BY <1>5, <2>2 DEF TruthKept
  <2> QED BY <2>1, <2>2
<1>10. jobEvents <= jobEvents'
  BY DEF IInv, J!TypeOK
<1> QED BY <1>3, <1>4, <1>6, <1>7, <1>8, <1>9, <1>10, Unmoved, Keeps
--------------------------------------------------------------------------------
\* The answer, or none.
LEMMA AnswerKeeps == ASSUME IInv, J!Answer PROVE IInv'
<1>1. CASE J!Settle("usage") /\ J!Step(thread.stage, "answered") /\ UNCHANGED <<scanned, jobs>>
  <2>1. SettlesLast /\ thread.step = "sent"
    BY <1>1 DEF SettlesLast, J!Answer
  <2>2. thread.stage \in J!Stages /\ "answered" \in J!Steps
    BY DEF IInv, J!TypeOK, J!Steps
  <2>3. J!TypeOK'
    BY <1>1, <2>1, <2>2, LastIsOurs, Stepped DEF IInv, J!TypeOK, J!Answer, J!desk
  <2>4. J!Kind # "initial" => thread.stage = J!Kind
    BY <2>1 DEF IInv, Underway
  <2> QED BY <1>1, <2>1, <2>2, <2>3, <2>4, GoesOn DEF J!Answer, J!desk
<1>2. ASSUME NEW state \in {"rejected", "uncertain"}, J!Settle(state), J!StageFails PROVE IInv'
  <2>1. SettlesLast
    BY <1>2 DEF SettlesLast
  <2> QED BY <1>2, <2>1, FailsKeep DEF J!Answer
<1> QED BY <1>1, <1>2 DEF J!Answer

\* The product is stored, rejected, or its row cannot be written.
LEMMA StoreKeeps == ASSUME IInv, J!Store PROVE IInv'
<1>1. thread.step = "answered"
  BY DEF J!Store
<1>2. CASE J!Product /\ J!Step(thread.stage, "stored") /\ UNCHANGED <<jobs, ledger>>
  <2>1. PICK j \in J!Post : j = J!Job
    BY <1>1, AtWork
  <2>2. thread.stage \in J!Stages /\ "stored" \in J!Steps /\ jobs[j].src \in J!Sources /\ jobs[j].src.text \in Nat
        /\ j \in Nat
    BY <1>1, <2>1, AtWork, Parts DEF IInv, J!TypeOK, J!Steps, J!Row, J!Sources
  <2>3. made' = made \cup {<<j, thread.stage>>} /\ made' \subseteq Nat \X (J!Stages \cup {"item"})
    BY <1>2, <2>1, <2>2 DEF J!Product, IInv, J!TypeOK
  <2>4. scanned' \subseteq Nat
    BY <1>2, <2>1, <2>2 DEF J!Product, IInv, J!TypeOK
  <2>5. machine' \in [text : Nat, job : Nat]
    BY <1>2, <2>1, <2>2 DEF J!Product, IInv, J!TypeOK
  <2>6. image' \in [of : J!Sources, job : Nat \cup {J!Person}]
    BY <1>2, <2>1, <2>2 DEF J!Product, IInv, J!TypeOK
  <2>7. J!TypeOK'
    BY <1>2, <2>2, <2>3, <2>4, <2>5, <2>6, Stepped DEF IInv, J!TypeOK, J!Store, J!desk
  <2>8. J!Kind # "initial" => thread.stage = J!Kind
    BY <1>1 DEF IInv, Underway
  <2>9. SettlesLast
    BY <1>2 DEF SettlesLast
  <2> QED BY <1>1, <1>2, <2>1, <2>2, <2>3, <2>7, <2>8, <2>9, GoesOn DEF J!Store, J!desk
<1>3. CASE /\ ledger[Len(ledger)].state = "usage" /\ J!Settle("rejected") /\ J!StageFails
           /\ UNCHANGED <<machine, image, made>>
  <2>1. SettlesLast
    BY <1>3 DEF SettlesLast
  <2> QED BY <1>1, <1>3, <2>1, FailsKeep DEF J!Store
<1>4. CASE J!StageFails /\ UNCHANGED <<machine, image, made, ledger>>
  <2>1. SettlesLast
    BY <1>4 DEF SettlesLast
  <2> QED BY <1>1, <1>4, <2>1, FailsKeep DEF J!Store
<1> QED BY <1>2, <1>3, <1>4 DEF J!Store

\* The last request is accepted: no request of a job is open then.
LEMMA Accepted ==
    ASSUME IInv, thread.step = "stored", J!Settle("accepted")
    PROVE  J!Blocking' = {}
<1>1. SettlesLast
  BY DEF SettlesLast
<1>2. J!Blocking' \subseteq {Len(ledger)} /\ Len(ledger) > 0
  BY <1>1, LastIsOurs
<1>3. ledger'[Len(ledger)].state = "accepted"
  BY <1>2, Settled DEF IInv
<1> QED BY <1>2, <1>3 DEF J!Blocking

\* The request is accepted, or the operator was faster.
LEMMA FinalizeKeeps == ASSUME IInv, J!Finalize PROVE IInv'
<1>1. thread.step = "stored"
  BY DEF J!Finalize
<1>2. CASE J!StageFails /\ UNCHANGED ledger
  <2>1. SettlesLast
    BY <1>2 DEF SettlesLast
  <2> QED BY <1>1, <1>2, <2>1, FailsKeep DEF J!Finalize
<1>3. CASE /\ ledger[Len(ledger)].state = "usage" /\ J!Settle("accepted")
           /\ IF J!Kind # "initial" THEN J!Step(thread.stage, "report")
              ELSE IF thread.stage = "risk" THEN J!Step("text", "lock")
              ELSE IF thread.stage = "text" THEN J!ImagesNext ELSE J!Step("image", "report")
           /\ UNCHANGED <<scanned, jobs>>
  <2>1. SettlesLast
    BY <1>3 DEF SettlesLast
  <2>2. J!Blocking' = {}
    BY <1>1, <1>3, Accepted
  <2>3. /\ <<J!Job, thread.stage>> \in made /\ (J!Kind # "initial" => thread.stage = J!Kind)
        /\ thread.stage \in J!Stages
    BY <1>1 DEF IInv, Underway, J!TypeOK
  <2>4. ASSUME NEW stage \in {thread.stage, "text", "image"}, NEW step \in {"lock", "report"}, J!Step(stage, step),
               J!Kind # "initial" => stage = thread.stage
        PROVE  IInv'
    <3>1. stage \in J!Stages /\ step \in J!Steps \ {"send", "idle"}
      BY <2>3 DEF J!Stages, J!AllKinds, J!KINDS, J!Steps
    <3>2. ledger' \in Seq(J!Request)
      BY <1>1, <2>1, LastIsOurs
    <3>3. J!TypeOK'
      BY <1>3, <2>4, <3>1, <3>2, Stepped DEF IInv, J!TypeOK, J!Finalize, J!desk
    <3>4. made' = made
      BY DEF J!Finalize
    <3> QED BY <1>1, <1>3, <2>1, <2>2, <2>3, <2>4, <3>1, <3>3, <3>4, GoesOn DEF J!Finalize, J!desk
  <2>5. \/ J!Kind # "initial" /\ J!Step(thread.stage, "report")
        \/ J!Kind = "initial" /\ J!Step("text", "lock")
        \/ J!Kind = "initial" /\ J!Step("image", "lock")
        \/ J!Kind = "initial" /\ J!Step("image", "report")
    BY <1>3 DEF J!ImagesNext
  <2> QED BY <2>4, <2>5
<1> QED BY <1>2, <1>3 DEF J!Finalize

\* The job has succeeded: its requests are closed and its product is there.
LEMMA ReportKeeps == ASSUME IInv, J!Report PROVE IInv'
<1>1. PICK j \in J!Post : j = J!Job
  BY AtWork DEF J!Report
<1>2. jobs[j] \in J!Row /\ j \in Nat
  BY <1>1, Parts DEF IInv
<1>3. J!Close(j, "succeeded", "none") /\ thread' = J!Idle /\ J!Kind = jobs[j].kind
  BY <1>1 DEF J!Report, J!Kind
<1>4. made' = IF jobs[j].kind = "initial" THEN made \cup {<<j, "item">>} ELSE made
  BY <1>1 DEF J!Report, J!Kind
<1>5. J!TypeOK'
  <2>1. jobs' \in Seq(J!Row)
    BY <1>3, Closed DEF IInv
  <2>2. thread' \in [job : Nat, stage : J!Stages, step : J!Steps]
    BY <1>3 DEF J!Idle, J!Stages, J!Steps
  <2>3. made' \subseteq Nat \X (J!Stages \cup {"item"})
    BY <1>2, <1>4 DEF IInv, J!TypeOK
  <2> QED BY <2>1, <2>2, <2>3 DEF IInv, J!TypeOK, J!Report, J!desk
<1>6. /\ jobs'[j].status = "succeeded" /\ jobs'[j].error = "none" /\ jobs'[j].kind = jobs[j].kind
  BY <1>3, Closed DEF IInv
<1>7. J!Blocking = {} /\ J!Blocking' = {}
  <2>1. CASE jobs[j].kind = "initial"
    BY <1>3, <2>1 DEF J!Report, J!Preflight, J!Budget, J!Blocking
  <2>2. CASE jobs[j].kind # "initial"
    BY <1>3, <2>2 DEF J!Report, IInv, Underway, J!Blocking
  <2> QED BY <2>1, <2>2
<1>8. Truth(j)'
  <2>1. <<j, IF jobs[j].kind = "initial" THEN "item" ELSE jobs[j].kind>> \in made'
    BY <1>1, <1>3, <1>4 DEF J!Report, IInv, Underway
  <2> QED BY <1>6, <1>7, <2>1 DEF Truth
<1>9. \A m \in made' \ made : m[1] = j /\ (jobs[j].kind # "initial" => m[2] = jobs[j].kind)
  BY <1>4
<1> QED BY <1>1, <1>3, <1>4, <1>5, <1>7, <1>8, <1>9, EndsKeep, Unmoved DEF J!Report, J!desk
--------------------------------------------------------------------------------
\* A request leaves: what it found is on its row.
LEMMA SendKeeps == ASSUME IInv, J!Send PROVE IInv'
<1>1. PICK j \in J!Post : j = J!Job
  BY AtWork DEF J!Send
<1>2. /\ jobs[j] \in J!Row /\ jobs[j].status = "running" /\ jobs[j].alive /\ jobs[j].error = "none"
      /\ thread.stage \in J!Stages /\ j \in Nat /\ Len(ledger) \in Nat
  BY <1>1, AtWork, Parts DEF J!Send, IInv, J!TypeOK
<1>3. PICK row : row = [job |-> j, stage |-> thread.stage, state |-> "started",
                        late |-> IF J!Fresh(j) THEN 0 ELSE jobEvents]
  OBVIOUS
<1>4. jobEvents \in Nat /\ \A i \in DOMAIN ledger : ledger[i].late \in Nat
  BY Parts DEF IInv, J!TypeOK, J!Request
<1>5. /\ row \in J!Request /\ row.job = j /\ row.state = "started"
      /\ row.late = IF J!Fresh(j) THEN 0 ELSE jobEvents
  BY <1>2, <1>3, <1>4 DEF J!Request
<1>6. PICK n \in Nat : n = Len(ledger)
  BY <1>2
<1>7. ledger' = Append(ledger, row)
  BY <1>1, <1>3 DEF J!Send
<1>8. /\ ledger' \in Seq(J!Request) /\ Len(ledger') = n + 1 /\ DOMAIN ledger' = 1 .. n + 1
      /\ DOMAIN ledger = 1 .. n /\ ledger'[n + 1] = row /\ \A i \in 1 .. n : ledger'[i] = ledger[i]
  BY <1>5, <1>6, <1>7 DEF IInv, J!TypeOK
<1>9. /\ thread' \in [job : Nat, stage : J!Stages, step : J!Steps]
      /\ thread'.job = j /\ thread'.stage = thread.stage /\ thread'.step = "sent"
  BY <1>1, <1>2, Stepped DEF J!Send, IInv, J!Job, J!Steps
<1>10. UNCHANGED <<source, third, consent, review, human, machine, image, scanned, made, jobs, jobEvents>>
  BY DEF J!Send, J!desk, J!products
<1>11. J!TypeOK'
  BY <1>8, <1>9, <1>10 DEF IInv, J!TypeOK
<1>12. OneOpen' /\ Ended'
  BY <1>10 DEF IInv, OneOpen, Ended, J!Post
<1>13. Working'
  BY <1>2, <1>9, <1>10 DEF Working, J!Job, J!Post
<1>14. Belong'
  BY <1>5, <1>8, <1>10 DEF IInv, Belong, J!Post
<1>15. Underway'
  <2>1. J!Blocking' \subseteq {n + 1}
    BY <1>8 DEF J!Send, IInv, Underway, J!Blocking
  <2>2. jobs[j].kind # "initial" => thread.stage = jobs[j].kind
    BY <1>1 DEF J!Send, IInv, Underway, J!Kind
  <2> QED BY <1>5, <1>8, <1>9, <1>10, <2>1, <2>2 DEF Underway, J!Kind, J!Job
<1>17. Stamped'
  <2>1. \A k : J!Fresh(k)' <=> J!Fresh(k)
    BY <1>10 DEF J!Fresh, J!Trusted
  <2>2. ASSUME NEW i \in DOMAIN ledger', NEW k, k = ledger'[i].job
        PROVE  /\ ledger'[i].late <= jobEvents
               /\ ledger'[i].late # 0 /\ ledger'[i].late = jobEvents /\ jobs[k].status \in J!Open => ~J!Fresh(k)
    <3>1. CASE i = n + 1
      BY <1>4, <1>5, <1>8, <2>2, <3>1
    <3>2. CASE i \in 1 .. n
      BY <1>8, <2>2, <3>2 DEF IInv, Stamped
    <3> QED BY <1>8, <3>1, <3>2
  <2>3. ASSUME NEW i \in DOMAIN ledger', NEW k, k = ledger'[i].job
        PROVE  /\ ledger'[i].late <= jobEvents'
               /\ ledger'[i].late # 0 /\ ledger'[i].late = jobEvents' /\ jobs'[k].status \in J!Open => ~J!Fresh(k)'
    BY <1>10, <2>1, <2>2, <2>3
  <2> QED BY <2>3 DEF Stamped
<1>18. Checked'
  BY <1>9 DEF Checked
<1>19. J!AtMostOneLate'
  <2>1. ASSUME NEW i \in 1 .. n, ledger[i].job = j, ledger[i].late # 0
        PROVE  ledger[i].late < jobEvents
    BY <1>1, <1>8, <2>1 DEF J!Send, IInv, Checked, J!Requests
  <2>2. ASSUME NEW i \in 1 .. n + 1, NEW k \in 1 .. n + 1, i # k, ledger'[i].job = ledger'[k].job,
               ledger'[i].late # 0
        PROVE  ledger'[k].late # ledger'[i].late
    <3>1. CASE k = n + 1
      <4>1. i \in 1 .. n /\ ledger'[i] = ledger[i] /\ ledger[i].job = j
        BY <1>5, <1>8, <2>2, <3>1
      <4>2. ledger[i].late < jobEvents /\ ledger[i].late \in Nat
        BY <1>4, <1>8, <2>1, <2>2, <4>1
      <4> QED BY <1>4, <1>5, <1>8, <2>2, <3>1, <4>1, <4>2
    <3>2. CASE i = n + 1
      <4>1. k \in 1 .. n /\ ledger'[k] = ledger[k] /\ ledger[k].job = j
        BY <1>5, <1>8, <2>2, <3>2
      <4>2. ledger[k].late # 0 => ledger[k].late < jobEvents
        BY <2>1, <4>1
      <4> QED BY <1>4, <1>5, <1>8, <2>2, <3>2, <4>1, <4>2
    <3>3. CASE i \in 1 .. n /\ k \in 1 .. n
      <4>1. ledger[k].job \in J!Post /\ i \in J!Requests(ledger[k].job) /\ k \in J!Requests(ledger[k].job)
        BY <1>8, <2>2, <3>3 DEF IInv, Belong, J!Requests
      <4> QED BY <1>8, <2>2, <3>3, <4>1 DEF IInv, J!AtMostOneLate
    <3> QED BY <3>1, <3>2, <3>3
  <2> QED BY <1>8, <2>2 DEF J!AtMostOneLate, J!Requests
<1>20. J!RecoveredTruth'
  <2>1. ASSUME NEW k \in J!Post PROVE Truth(k)'
    <3>1. CASE k = j
      BY <1>2, <1>10, <3>1, PlainIsTrue DEF Plain
    <3>2. CASE k # j
      <4>1. J!Requests(k)' = J!Requests(k)
        BY <1>5, <1>8, <3>2 DEF J!Requests
      <4>2. \A i \in J!Requests(k) : i \in J!Blocking' <=> i \in J!Blocking
        BY <1>8 DEF J!Requests, J!Blocking
      <4>3. J!Requests(k)' \cap J!Blocking' = J!Requests(k) \cap J!Blocking
        BY <4>1, <4>2
      <4>4. Truth(k)
        BY TruthIsAll DEF IInv
      <4> QED BY <1>10, <4>1, <4>3, <4>4 DEF Truth
    <3> QED BY <3>1, <3>2
  <2> QED BY <1>10, <2>1, TruthIsAll DEF J!Post
<1> QED BY <1>11, <1>12, <1>13, <1>14, <1>15, <1>17, <1>18, <1>19, <1>20 DEF IInv
--------------------------------------------------------------------------------
\* A recovered job says what the ledger and the products hold.
LEMMA RecoverKeeps == ASSUME IInv, NEW j \in J!Post, J!Recover(j) PROVE IInv'
<1>1. jobs[j] \in J!Row /\ jobs[j].status \in J!Open /\ ~jobs[j].alive /\ J!Requests(j) \cap J!Blocking = {}
  BY Parts DEF J!Recover, J!Recoverable, IInv
<1>2. UNCHANGED <<source, third, consent, review, human, machine, image, scanned, made, ledger, thread, jobEvents>>
  BY DEF J!Recover, J!desk, J!products
<1>3. ASSUME NEW status \in {"succeeded", "failed"}, NEW error \in {"none", "before_request", "after_request"},
             J!Close(j, status, error), error # "none" => status = "failed",
             error = "before_request" => J!Requests(j) = {},
             error = "after_request" => J!Requests(j) # {},
             status = "succeeded" => J!Found(j)
      PROVE  IInv'
  <2>1. /\ jobs' \in Seq(J!Row) /\ Len(jobs') = Len(jobs) /\ \A k \in J!Post : k # j => jobs'[k] = jobs[k]
        /\ jobs'[j].status = status /\ jobs'[j].error = error
        /\ jobs'[j].kind = jobs[j].kind /\ jobs'[j].src = jobs[j].src
    BY <1>3, Closed DEF IInv
  <2>2. J!TypeOK'
    BY <1>2, <2>1 DEF IInv, J!TypeOK
  <2>3. JobsKept
    BY <1>1, <2>1 DEF JobsKept, SameJob
  <2>4. LedgerKept
    BY <1>2, Unmoved
  <2>5. Working'
    BY <1>1, <1>2, <2>1 DEF IInv, Working, J!Job, J!Post
  <2>6. Underway'
    <3>1. CASE thread = J!Idle
      BY <1>2, <3>1 DEF Underway, J!Idle
    <3>2. CASE thread # J!Idle
      <4>1. J!Job \in J!Post /\ J!Job # j
        BY <1>1, <3>2 DEF IInv, Working
      <4>2. PICK w \in J!Post : w = J!Job
        BY <4>1
      <4>3. jobs'[w].kind = jobs[w].kind
        BY <2>3 DEF JobsKept, SameJob
      <4> QED BY <1>2, <4>2, <4>3 DEF IInv, Underway, J!Kind, J!Job, J!Blocking
    <3> QED BY <3>1, <3>2
  <2>7. Truth(j)'
    <3>1. J!Requests(j)' = J!Requests(j) /\ J!Blocking' = J!Blocking
      BY <1>2 DEF J!Requests, J!Blocking
    <3>2. J!Found(j) => <<j, IF jobs[j].kind = "initial" THEN "item" ELSE jobs[j].kind>> \in made
      <4> SUFFICES ASSUME J!Found(j) PROVE jobs[j].kind # "initial" /\ <<j, jobs[j].kind>> \in made
        OBVIOUS
      <4>1. jobs[j].kind # "initial"
        BY DEF J!Found, J!Ours
      <4>2. PICK stage \in {"text", "image", "suggest"} : <<j, stage>> \in made
        BY DEF J!Found
      <4>3. stage = jobs[j].kind
        BY <4>1, <4>2 DEF IInv, Belong
      <4> QED BY <4>1, <4>2, <4>3
    <3> QED BY <1>1, <1>2, <1>3, <2>1, <3>1, <3>2 DEF Truth
  <2>8. ASSUME NEW k \in J!Post PROVE TruthKept(k)
    <3>1. CASE k = j
      BY <2>7, <3>1 DEF TruthKept
    <3>2. CASE k # j
      BY <1>2, <2>1, <3>2 DEF TruthKept, J!Blocking
    <3> QED BY <3>1, <3>2
  <2>9. \A k \in J!Post : jobs'[k].error # "none" => jobs'[k].status = "failed"
    BY <1>3, <2>1 DEF IInv, Ended
  <2>10. made \subseteq made' /\ made' \ made = {}
    BY <1>2
  <2>11. jobEvents <= jobEvents'
    BY <1>2 DEF IInv, J!TypeOK
  <2> QED BY <1>2, <2>2, <2>3, <2>4, <2>5, <2>6, <2>8, <2>9, <2>10, <2>11, Keeps
<1>4. CASE J!Found(j) /\ J!Close(j, "succeeded", "none")
  BY <1>3, <1>4
<1>5. CASE J!Requests(j) = {} /\ J!Close(j, "failed", "before_request")
  BY <1>3, <1>5
<1>6. CASE J!Requests(j) # {} /\ J!Close(j, "failed", "after_request")
  BY <1>3, <1>6
<1> QED BY <1>4, <1>5, <1>6 DEF J!Recover

\* The operator resolves a request that blocks: it blocks no more.
LEMMA ResolveKeeps == ASSUME IInv, J!Resolve PROVE IInv'
<1>1. PICK i \in J!Blocking, as \in {"accepted", "rejected"} :
        ledger' = [ledger EXCEPT ![i].state = IF as = "accepted" /\ @ # "usage" THEN "unpriced" ELSE as]
  BY DEF J!Resolve
<1>2. i \in DOMAIN ledger /\ ledger \in Seq(J!Request) /\ ledger[i] \in J!Request
  BY Parts DEF IInv, J!TypeOK, J!Blocking
<1>3. PICK state : state = IF as = "accepted" /\ ledger[i].state # "usage" THEN "unpriced" ELSE as
  OBVIOUS
<1>4. PICK row : row = [ledger[i] EXCEPT !.state = state]
  OBVIOUS
<1>5. ledger' = [ledger EXCEPT ![i] = row]
  BY <1>1, <1>2, <1>3, <1>4 DEF J!Request
<1>6. /\ row \in J!Request /\ row.state = state /\ row.job = ledger[i].job /\ row.late = ledger[i].late
      /\ state \in {"unpriced", "accepted", "rejected"}
  BY <1>2, <1>3, <1>4 DEF J!Request
<1>7. ledger' \in Seq(J!Request) /\ Len(ledger') = Len(ledger) /\ DOMAIN ledger' = DOMAIN ledger
  BY <1>2, <1>5, <1>6
<1>8. ledger'[i] = row /\ \A k \in DOMAIN ledger : k # i => ledger'[k] = ledger[k]
  BY <1>2, <1>5
<1>9. LedgerKept
  BY <1>6, <1>7, <1>8 DEF LedgerKept, SameRequest
<1>10. J!Blocking' \subseteq J!Blocking
  BY <1>6, <1>7, <1>8 DEF J!Blocking
<1>11. UNCHANGED <<source, third, consent, review, human, machine, image, scanned, made, jobs, thread, jobEvents>>
  BY DEF J!Resolve, J!desk, J!products
<1>12. J!TypeOK'
  BY <1>7, <1>11 DEF IInv, J!TypeOK
<1>13. Working'
  BY <1>11 DEF IInv, Working, J!Job, J!Post
<1>14. Underway'
  <2>1. PICK w : w = J!Job
    OBVIOUS
  <2>2. thread.step \in {"answered", "stored"} =>
          ledger'[Len(ledger)].job = w /\ Len(ledger) > 0
    <3> SUFFICES ASSUME thread.step \in {"answered", "stored"}
                 PROVE  ledger'[Len(ledger)].job = w /\ Len(ledger) > 0
      OBVIOUS
    <3>1. Len(ledger) > 0 /\ ledger[Len(ledger)].job = w /\ Len(ledger) \in DOMAIN ledger
      BY <2>1, Parts DEF IInv, Underway
    <3> QED BY <1>9, <3>1 DEF LedgerKept, SameRequest
  <2>3. thread.step \notin {"send", "sent"}
    BY DEF J!Resolve
  <2> QED BY <1>7, <1>10, <1>11, <2>1, <2>2, <2>3 DEF IInv, Underway, J!Kind, J!Job
<1>15. \A k \in J!Post : TruthKept(k)
  BY <1>10, <1>11 DEF TruthKept
<1>16. made \subseteq made' /\ made' \ made = {}
  BY <1>11
<1>17. jobEvents <= jobEvents'
  BY <1>11 DEF IInv, J!TypeOK
<1> QED BY <1>9, <1>11, <1>12, <1>13, <1>14, <1>15, <1>16, <1>17, Unmoved, Keeps

\* The process dies: its jobs are dead, and the thread is gone.
LEMMA CrashKeeps == ASSUME IInv, J!Crash PROVE IInv'
<1>1. /\ jobs' = [j \in J!Post |-> [jobs[j] EXCEPT !.alive = FALSE]] /\ thread' = J!Idle
      /\ UNCHANGED <<source, third, consent, review, human, machine, image, scanned, made, ledger>>
  BY DEF J!Crash, J!desk, J!products
<1>2. PICK n \in Nat : n = Len(jobs)
  BY Parts DEF IInv
<1>3. \A j \in 1 .. n : jobs'[j] \in J!Row /\ jobs'[j] = [jobs[j] EXCEPT !.alive = FALSE]
  BY <1>1, <1>2, Parts DEF IInv, J!Post, J!Row
<1>4. DOMAIN jobs' = 1 .. n
  BY <1>1, <1>2 DEF J!Post
<1>5. jobs' \in Seq(J!Row) /\ Len(jobs') = n
  <2>1. jobs' = [j \in 1 .. n |-> jobs'[j]]
    BY <1>1, <1>2 DEF J!Post
  <2>2. jobs' \in [1 .. n -> J!Row]
    BY <1>3, <2>1
  <2> QED BY <2>2
<1>6. \A j \in J!Post : /\ jobs'[j].kind = jobs[j].kind /\ jobs'[j].src = jobs[j].src
                      /\ jobs'[j].status = jobs[j].status /\ jobs'[j].error = jobs[j].error
  <2>1. ASSUME NEW row \in J!Row, NEW dead, dead = [row EXCEPT !.alive = FALSE]
        PROVE  dead.kind = row.kind /\ dead.src = row.src /\ dead.status = row.status /\ dead.error = row.error
    BY <2>1 DEF J!Row
  <2>2. ASSUME NEW j \in J!Post
        PROVE  jobs[j] \in J!Row /\ jobs'[j] = [jobs[j] EXCEPT !.alive = FALSE]
    BY <1>2, <1>3, Parts DEF IInv, J!Post
  <2> QED BY <2>1, <2>2
<1>7. J!TypeOK'
  <2>1. thread' \in [job : Nat, stage : J!Stages, step : J!Steps] /\ jobEvents' \in Nat
    BY <1>1 DEF J!Idle, J!Stages, J!Steps, J!Crash, J!Event, IInv, J!TypeOK
  <2> QED BY <1>1, <1>5, <2>1 DEF IInv, J!TypeOK
<1>8. JobsKept /\ LedgerKept
  BY <1>1, <1>2, <1>5, <1>6, Unmoved DEF JobsKept, SameJob
<1>9. Working' /\ Underway'
  BY <1>1 DEF Working, Underway, J!Idle
<1>10. ASSUME NEW j \in J!Post PROVE TruthKept(j)
  <2>1. Truth(j)
    BY TruthIsAll DEF IInv
  <2>2. J!Requests(j)' = J!Requests(j) /\ J!Blocking' = J!Blocking /\ made' = made
    BY <1>1 DEF J!Requests, J!Blocking
  <2>3. Truth(j)'
    BY <1>6, <2>1, <2>2 DEF Truth
  <2> QED BY <2>3 DEF TruthKept
<1>11. \A j \in J!Post : jobs'[j].error # "none" => jobs'[j].status = "failed"
  BY <1>6 DEF IInv, Ended
<1>12. made \subseteq made' /\ made' \ made = {}
  BY <1>1
<1>13. thread'.step # "send"
  BY <1>1 DEF J!Idle
<1>14. jobEvents <= jobEvents'
  BY DEF J!Crash, J!Event, IInv, J!TypeOK
<1> QED BY <1>1, <1>7, <1>8, <1>9, <1>10, <1>11, <1>12, <1>13, <1>14, Keeps
--------------------------------------------------------------------------------
\* A job is accepted, for the source of today: no other is open.
LEMMA AcceptedKeeps ==
    ASSUME IInv, NEW kind \in J!AllKinds, NEW allowed \in {consent, source}, J!SubmitAs(kind, allowed)
    PROVE  IInv'
<1>1. PICK row : /\ row \in {J!NewJob(kind), [J!NewJob(kind) EXCEPT !.status = "failed", !.error = "executor"]}
                 /\ jobs' = Append(jobs, row)
  BY DEF J!SubmitAs
<1>2. source \in J!Sources /\ review.rev \in Nat
  BY DEF IInv, J!TypeOK
<1>3. /\ row \in J!Row /\ row.src = source /\ row.status \in {"pending", "failed"}
      /\ row.error # "none" => row.status = "failed"
      /\ row.error \in {"none", "executor"}
  <2>1. PICK new : new = J!NewJob(kind)
    OBVIOUS
  <2>2. new \in J!Row /\ new.src = source /\ new.status = "pending" /\ new.error = "none"
    BY <1>2, <2>1 DEF J!NewJob, J!Row, J!Open
  <2>3. CASE row = new
    BY <2>2, <2>3
  <2>4. CASE row = [new EXCEPT !.status = "failed", !.error = "executor"]
    BY <2>2, <2>4 DEF J!Row, J!Open
  <2> QED BY <1>1, <2>1, <2>3, <2>4
<1>4. PICK n \in Nat : n = Len(jobs)
  BY Parts DEF IInv
<1>5. /\ jobs' \in Seq(J!Row) /\ Len(jobs') = n + 1 /\ jobs'[n + 1] = row
      /\ \A j \in 1 .. n : jobs'[j] = jobs[j]
  BY <1>1, <1>3, <1>4 DEF IInv, J!TypeOK
<1>6. J!Post = 1 .. n /\ J!Post' = 1 .. n + 1
  BY <1>4, <1>5 DEF J!Post
<1>7. \A j \in 1 .. n : jobs[j].status \notin J!Open
  BY <1>6 DEF J!SubmitAs, J!MayAccept
<1>8. UNCHANGED <<source, third, review, human, machine, image, scanned, made, ledger, thread, jobEvents>>
      /\ consent' = allowed
  BY DEF J!SubmitAs, J!products
<1>9. thread = J!Idle
  BY <1>6, <1>7 DEF IInv, Working, J!Open
<1>10. J!TypeOK'
  BY <1>5, <1>8 DEF IInv, J!TypeOK
<1>11. OneOpen'
  BY <1>5, <1>6, <1>7 DEF OneOpen
<1>12. Working' /\ Underway' /\ Checked'
  BY <1>8, <1>9 DEF Working, Underway, Checked, J!Idle
<1>13. Belong'
  <2>1. \A i \in DOMAIN ledger : ledger[i].job \in 1 .. n + 1
    BY <1>4, <1>6 DEF IInv, Belong
  <2>2. \A m \in made : m[1] \in 1 .. n /\ (jobs[m[1]].kind # "initial" => m[2] = jobs[m[1]].kind)
    BY <1>6 DEF IInv, Belong
  <2> QED BY <1>4, <1>5, <1>6, <1>8, <2>1, <2>2 DEF Belong
<1>15. Stamped'
  <2>1. \A i \in DOMAIN ledger : ledger[i].job \in 1 .. n /\ ledger[i].late <= jobEvents
    BY <1>6 DEF IInv, Belong, Stamped
  <2>2. \A i \in DOMAIN ledger : jobs'[ledger[i].job].status \notin J!Open
    BY <1>5, <1>7, <2>1
  <2> QED BY <1>8, <2>1, <2>2 DEF Stamped
<1>16. Ended'
  BY <1>3, <1>4, <1>5, <1>6 DEF IInv, Ended
<1>17. J!AtMostOneLate'
  <2>1. ASSUME NEW j \in 1 .. n + 1, NEW i \in J!Requests(j), NEW k \in J!Requests(j), i # k, ledger[i].late # 0
        PROVE  ledger[k].late # ledger[i].late
    <3>1. j \in 1 .. n
      BY <1>6 DEF IInv, Belong, J!Requests
    <3> QED BY <1>6, <2>1, <3>1 DEF IInv, J!AtMostOneLate
  <2> QED BY <1>6, <1>8, <2>1 DEF J!AtMostOneLate, J!Requests
<1>18. J!RecoveredTruth'
  <2>1. ASSUME NEW j \in 1 .. n PROVE Truth(j)'
    <3>1. Truth(j)
      BY <1>6, TruthIsAll DEF IInv
    <3>2. J!Requests(j)' = J!Requests(j) /\ J!Blocking' = J!Blocking
      BY <1>8 DEF J!Requests, J!Blocking
    <3> QED BY <1>5, <1>8, <3>1, <3>2 DEF Truth
  <2>2. Plain(n + 1)'
    BY <1>3, <1>5 DEF Plain
  <2>3. Truth(n + 1)'
    BY <2>2, PlainIsTrue
  <2>4. \A j \in 1 .. n + 1 : Truth(j)'
    <3>1. ASSUME NEW j \in 1 .. n + 1 PROVE Truth(j)'
      <4>1. CASE j = n + 1
        BY <2>3, <4>1
      <4>2. CASE j \in 1 .. n
        BY <2>1, <4>2
      <4> QED BY <1>4, <4>1, <4>2
    <3> QED BY <3>1
  <2> QED BY <1>6, <2>4, TruthIsAll
<1> QED BY <1>10, <1>11, <1>12, <1>13, <1>15, <1>16, <1>17, <1>18 DEF IInv

\* Text, picture and suggestions.
LEMMA SubmitKeeps == ASSUME IInv, J!Submit PROVE IInv'
  BY AcceptedKeeps DEF J!Submit, J!AllKinds

\* A first translation, with the permission of the click.
LEMMA SubmitInitialKeeps == ASSUME IInv, J!SubmitInitial PROVE IInv'
<1>1. PICK allowed : allowed = IF third THEN source ELSE consent
  OBVIOUS
<1>2. "initial" \in J!AllKinds /\ allowed \in {consent, source}
  BY <1>1 DEF J!AllKinds
<1> QED BY <1>1, <1>2, AcceptedKeeps DEF J!SubmitInitial

\* A change of the source or the review: the requests that left before are older.
LEMMA ChangeKeeps ==
    ASSUME IInv, J!TypeOK', jobEvents' = jobEvents + 1,
           UNCHANGED <<scanned, made, jobs, ledger, thread>>
    PROVE  IInv'
<1>1. jobEvents \in Nat /\ \A i \in DOMAIN ledger : ledger[i].late \in Nat /\ ledger[i].late <= jobEvents
  BY Parts DEF IInv, J!TypeOK, J!Request, Stamped
<1>2. \A i \in DOMAIN ledger : ledger[i].late < jobEvents'
  BY <1>1
<1>3. Stamped'
  BY <1>1, <1>2 DEF Stamped
<1>4. Checked'
  BY <1>2 DEF Checked, J!Requests
<1>5. OneOpen' /\ Working' /\ Belong' /\ Underway' /\ Ended'
  BY DEF IInv, OneOpen, Working, Belong, Underway, Ended, J!Post, J!Job, J!Kind, J!Blocking
<1>6. J!AtMostOneLate' /\ J!RecoveredTruth'
  BY DEF IInv, J!AtMostOneLate, J!RecoveredTruth, J!Requests, J!Blocking, J!Post
<1> QED BY <1>3, <1>4, <1>5, <1>6 DEF IInv

\* The source is captured again.
LEMMA RecaptureKeeps == ASSUME IInv, J!Recapture PROVE IInv'
<1>1. source \in J!Sources /\ jobEvents \in Nat /\ \A j \in J!Post : jobs[j].src \in J!Sources
  BY Parts DEF IInv, J!TypeOK, J!Row
<1>2. source' \in J!Sources
  BY <1>1 DEF J!Recapture, J!Sources
<1>3. J!TypeOK'
  BY <1>1, <1>2 DEF IInv, J!TypeOK, J!Recapture, J!Event, J!desk, J!products
<1> QED BY <1>3, ChangeKeeps DEF J!Recapture, J!Event, J!products

\* A person edits, closes or opens the review.
LEMMA EditKeeps == ASSUME IInv, J!Edit PROVE IInv'
<1>1. review \in [status : {"open", "locked"}, rev : Nat] /\ source \in J!Sources /\ source.text \in Nat
  BY DEF IInv, J!TypeOK, J!Sources
<1>2. review' \in [status : {"open", "locked"}, rev : Nat]
  BY <1>1 DEF J!Edit
<1>3. human' \in Nat /\ image' \in [of : J!Sources, job : Nat \cup {J!Person}] /\ jobEvents' \in Nat
  <2>1. human' \in {human, source.text} /\ image' \in {image, [of |-> source, job |-> J!Person]}
    BY DEF J!Edit
  <2> QED BY <1>1, <2>1 DEF IInv, J!TypeOK, J!Edit, J!Event
<1>4. J!TypeOK'
  BY <1>2, <1>3 DEF IInv, J!TypeOK, J!Edit
<1> QED BY <1>4, ChangeKeeps DEF J!Edit, J!Event

\* The pipeline's own run stores products that are no job's.
LEMMA PipelineRunKeeps == ASSUME IInv, J!PipelineRun PROVE IInv'
<1>1. UNCHANGED <<source, third, consent, review, human, scanned, made, jobs, ledger, thread, jobEvents>>
  BY DEF J!PipelineRun, J!desk
<1>2. source \in J!Sources /\ source.text \in Nat
  BY DEF IInv, J!TypeOK, J!Sources
<1>3. /\ machine' \in {machine, [text |-> source.text, job |-> 0]}
      /\ image' \in {image, [of |-> source, job |-> 0]}
  BY DEF J!PipelineRun
<1>4. J!TypeOK'
  BY <1>1, <1>2, <1>3 DEF IInv, J!TypeOK
<1>5. OneOpen' /\ Working' /\ Belong' /\ Underway' /\ Ended'
  BY <1>1 DEF IInv, OneOpen, Working, Belong, Underway, Ended, J!Post, J!Job, J!Kind, J!Blocking
<1>6. Stamped' /\ Checked'
  BY <1>1 DEF IInv, Stamped, Checked, J!Fresh, J!Trusted, J!Requests, J!Job
<1>7. J!AtMostOneLate' /\ J!RecoveredTruth'
  BY <1>1 DEF IInv, J!AtMostOneLate, J!RecoveredTruth, J!Requests, J!Blocking, J!Post
<1> QED BY <1>4, <1>5, <1>6, <1>7 DEF IInv
--------------------------------------------------------------------------------
\* Nothing happens.
LEMMA StutterKeeps == ASSUME IInv, UNCHANGED content PROVE IInv'
<1>1. UNCHANGED <<source, third, consent, review, human, machine, image, scanned, made, jobs, ledger, thread, jobEvents>>
  BY DEF content
<1>2. J!TypeOK'
  BY <1>1 DEF IInv, J!TypeOK
<1>3. OneOpen' /\ Working' /\ Belong' /\ Underway' /\ Ended'
  BY <1>1 DEF IInv, OneOpen, Working, Belong, Underway, Ended, J!Post, J!Job, J!Kind, J!Blocking
<1>4. Stamped' /\ Checked'
  BY <1>1 DEF IInv, Stamped, Checked, J!Fresh, J!Trusted, J!Requests, J!Job
<1>5. J!AtMostOneLate' /\ J!RecoveredTruth'
  BY <1>1 DEF IInv, J!AtMostOneLate, J!RecoveredTruth, J!Requests, J!Blocking, J!Post
<1> QED BY <1>2, <1>3, <1>4, <1>5 DEF IInv

\* The invariant is inductive.
LEMMA StepIInv == ASSUME IInv, [J!Next]_content PROVE IInv'
  BY SubmitKeeps, SubmitInitialKeeps, ClaimKeeps, FailKeeps, ScanFailsKeeps, ReadKeeps, TakeLockKeeps,
     PassGateKeeps, SendKeeps, AnswerKeeps, StoreKeeps, FinalizeKeeps, ReportKeeps, ResolveKeeps,
     CrashKeeps, RecaptureKeeps, EditKeeps, PipelineRunKeeps, RecoverKeeps, StutterKeeps DEF J!Next

\* A post no job has been started for.
LEMMA InitIInv == ASSUME J!Init PROVE IInv
<1>1. J!TypeOK
  <2>1. source \in J!Sources /\ third \in BOOLEAN /\ consent \in J!Sources
    BY DEF J!Init, J!NoSource, J!Sources
  <2>2. review \in [status : {"open", "locked"}, rev : Nat] /\ human \in Nat /\ scanned \subseteq Nat
    BY DEF J!Init
  <2>3. machine \in [text : Nat, job : Nat] /\ image \in [of : J!Sources, job : Nat \cup {J!Person}]
    BY DEF J!Init, J!NoSource, J!Sources
  <2>4. jobs \in Seq(J!Row) /\ ledger \in Seq(J!Request) /\ made = {} /\ jobEvents \in Nat
    BY DEF J!Init
  <2>5. thread \in [job : Nat, stage : J!Stages, step : J!Steps]
    BY DEF J!Init, J!Idle, J!Stages, J!Steps
  <2> QED BY <2>1, <2>2, <2>3, <2>4, <2>5 DEF J!TypeOK
<1>2. J!Post = {} /\ DOMAIN ledger = {} /\ made = {} /\ thread = J!Idle
  BY DEF J!Init, J!Post
<1>3. OneOpen /\ Working /\ Belong /\ Underway /\ Stamped /\ Checked /\ Ended
  BY <1>2 DEF OneOpen, Working, Belong, Underway, Stamped, Checked, Ended, J!Idle
<1>5. J!AtMostOneLate /\ J!RecoveredTruth
  BY <1>2 DEF J!AtMostOneLate, J!RecoveredTruth
<1> QED BY <1>1, <1>3, <1>5 DEF IInv

\* The invariant holds.
LEMMA Invariant == J!Spec => []IInv
<1>1. J!Init => IInv
  BY InitIInv
<1>2. IInv /\ [J!Next]_content => IInv'
  BY StepIInv
<1>3. J!Spec => J!Init /\ [][J!Next]_content
  BY DEF J!Spec, J!vars, content
<1> QED BY <1>1, <1>2, <1>3, PTL
--------------------------------------------------------------------------------
(* A post has one job at a time, and the thread never works on a job that was *)
(* closed under it.                                                           *)
THEOREM OneAtATime == J!Spec => []J!OneJobAtATime
<1>1. IInv => J!OneJobAtATime
  BY DEF IInv, OneOpen, Working, J!OneJobAtATime
<1> QED BY <1>1, Invariant, PTL

(* When the source, the review or the permission of a job changes, at most    *)
(* one request of it still leaves before all is as it was.                    *)
THEOREM LateOnce == J!Spec => []J!AtMostOneLate
<1>1. IInv => J!AtMostOneLate
  BY DEF IInv
<1> QED BY <1>1, Invariant, PTL

(* What a recovery says of a job is true, and stays true.                     *)
THEOREM RecoveryTellsTruth == J!Spec => []J!RecoveredTruth
<1>1. IInv => J!RecoveredTruth
  BY DEF IInv
<1> QED BY <1>1, Invariant, PTL

(* What the run checks of both: no state is shared, so a behaviour in which the *)
(* batches go their way and the jobs go theirs, in any interleaving, is a       *)
(* behaviour of each.                                                           *)
THEOREM OneBatchOneJob == B!Spec /\ J!Spec => []BatchesAndJobsHold
<1>1. /\ B!AcceptedOnce /\ B!RecoveryExclusive /\ B!AckedIsTold
      /\ J!OneJobAtATime /\ J!AtMostOneLate /\ J!RecoveredTruth
      => BatchesAndJobsHold
  BY DEF BatchesAndJobsHold
<1> QED BY <1>1, BatchesHold, OneAtATime, LateOnce, RecoveryTellsTruth, PTL
================================================================================
