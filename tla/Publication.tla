------------------------------ MODULE Publication ------------------------------
(* Single-channel publication of reviewed posts: the review ledger, the       *)
(* frozen snapshots, the publication journal, the executor that clicks        *)
(* "Schedule" in Meta Business Suite, and the operations that settle what the *)
(* executor left behind.                                                      *)
(*                                                                            *)
(* A worker is any process or request that runs a publication operation:      *)
(* approve (review desk), the publish_post CLI, reconcile, unschedule.  Each  *)
(* holds the publish lock from its first read of the journal to its end; the  *)
(* review desk, the capture routes, people in the browser and the remote      *)
(* service act in between its steps.                                          *)
EXTENDS PublishJournal, ReviewRules

CONSTANTS
    Posts,        \* posts, each for its own channel
    Workers,      \* processes that may run a publication operation
    NoWorker,     \* nobody holds the publish lock
    MaxContent,   \* bound: versions of a post's text and images
    MaxEvents,    \* bound: review events after which editors stop acting
    MaxSnaps,     \* bound: frozen snapshots
    MaxAttempts,  \* bound: publication attempts
    MaxRows       \* bound: rows after which no no-news row is repeated

ASSUME WorkerAssumption == NoWorker \notin Workers

ASSUME BoundAssumption ==
    {MaxContent, MaxEvents, MaxSnaps, MaxAttempts, MaxRows} \subseteq Nat

VARIABLES
    source,     \* source[p]: version of the archived source text
    content,    \* content[p]: version of what composing p yields now
    confirmed,  \* confirmed[p]: content version of the latest confirmation, 0 if none
    vouched,    \* vouched[p]: content versions a ledger event ever confirmed
    review,     \* review[p]: latest review event
    snaps,      \* frozen snapshots, by number
    journal,    \* rows of published.jsonl
    attempts,   \* attempts by number, each with its remote card
    projected,  \* <<attempt, status>> whose review projection is recorded done
    lock,       \* holder of publish.lock
    pc,         \* pc[w]: what worker w does next
    job         \* job[w]: the operation of worker w

vars == <<source, content, confirmed, vouched, review, snaps, journal,
          attempts, projected, lock, pc, job>>

desk == <<source, content, confirmed, vouched>>
running == <<lock, pc, job>>

--------------------------------------------------------------------------------
\* Cards in the remote calendar.

CardStates == {"none", "inflight", "landed", "lost", "deleted"}

\* A card that is, or may yet turn up, in the calendar.
Live(a) == attempts[a].card \in {"inflight", "landed"}

SetCard(a, c) == attempts' = [attempts EXCEPT ![a].card = c]

--------------------------------------------------------------------------------
\* Review ledger.

NoEvent == [status |-> "pending_review", action |-> "none", snap |-> 0, src |-> 0, rev |-> 0]

Stale(p) == review[p].rev # 0 /\ review[p].src # source[p]

Display(p, receipt) == Shown(review[p].status, Stale(p), receipt)

\* transaction.change by a caller that just read the current version.
Change(p, action, receipt, snap) ==
    LET previous == Display(p, receipt) IN
    /\ Admits(previous, action, Stale(p), receipt)
    /\ review' = [review EXCEPT ![p] =
          [status |-> Recorded(previous, action),
           action |-> action,
           snap   |-> IF action = "unlocked" THEN 0
                      ELSE IF snap # 0 THEN snap ELSE review[p].snap,
           src    |-> source[p],
           rev    |-> review[p].rev + 1]]

\* What a desk page shows: the ledger overlaid with the publication receipt.
DeskShown(p) == Display(p, HasSchedule(journal, p))

--------------------------------------------------------------------------------
\* Snapshots.

Freeze(p, bound) ==
    snaps' = Append(snaps, [post |-> p, content |-> content[p], src |-> source[p],
                            state |-> "frozen", bound |-> bound])

SameContent(p, s) ==
    /\ snaps[s].post = p
    /\ snaps[s].content = content[p]
    /\ snaps[s].src = source[p]

\* Mutant: any earlier confirmation will do.
ConfirmedOnce(p) == confirmed[p] # 0

\* content_confirmation.require_current
ConfirmedNow(p) == confirmed[p] = content[p]

--------------------------------------------------------------------------------
\* Journal.

Row(a, p, desk_, status, manual) ==
    [att |-> a, post |-> p, desk |-> desk_, status |-> status, manual |-> manual]

AppendRow(a, status, manual) ==
    journal' = Append(journal,
                      Row(a, attempts[a].post, attempts[a].desk, status, manual))

\* journal.transition keeps the manual mark of the row it continues.
Continue(i, status) == AppendRow(journal[i].att, status, journal[i].manual)

(* records.project: bring the review ledger in line with the receipt of       *)
(* attempt a, whose latest status is s.                                       *)
ProjectReview(a, s) ==
    LET p == attempts[a].post IN
    IF s \notin {"scheduled", "failed_pre_submit"} \/ <<a, s>> \in projected
    THEN UNCHANGED <<review, projected>>
    ELSE /\ projected' = projected \cup {<<a, s>>}
         /\ IF s = "scheduled" /\ review[p].status # "scheduled"
            THEN Change(p, "scheduled", TRUE, attempts[a].snap)
            ELSE IF s = "failed_pre_submit" /\ review[p].status = "approved"
            THEN Change(p, "submit_failed", FALSE, 0)
            ELSE UNCHANGED review

\* The projection may fail as well: a busy review lock, a crash before the write.
ProjectOrFail(a, s) == ProjectReview(a, s) \/ UNCHANGED <<review, projected>>

--------------------------------------------------------------------------------
\* Workers.

NoJob == [op |-> "none"]

Steps == {"idle", "decide", "execute", "prepared", "checked", "armed", "clicked",
          "verify", "project", "raised", "recheck", "unread", "unreview"}

Acquire(w, step, j) ==
    /\ lock = NoWorker
    /\ pc[w] = "idle"
    /\ lock' = w
    /\ pc' = [pc EXCEPT ![w] = step]
    /\ job' = [job EXCEPT ![w] = j]

Goto(w, step) == pc' = [pc EXCEPT ![w] = step] /\ UNCHANGED <<lock, job>>

Release(w) ==
    /\ lock' = NoWorker
    /\ pc' = [pc EXCEPT ![w] = "idle"]
    /\ job' = [job EXCEPT ![w] = NoJob]

\* Between operations: lock taken and given back within the step.
Quiet == lock = NoWorker /\ UNCHANGED running

--------------------------------------------------------------------------------
Init ==
    /\ source = [p \in Posts |-> 1]
    /\ content = [p \in Posts |-> 1]
    /\ confirmed = [p \in Posts |-> 0]
    /\ vouched = [p \in Posts |-> {}]
    /\ review = [p \in Posts |-> NoEvent]
    /\ snaps = <<>>
    /\ journal = <<>>
    /\ attempts = <<>>
    /\ projected = {}
    /\ lock = NoWorker
    /\ pc = [w \in Workers |-> "idle"]
    /\ job = [w \in Workers |-> NoJob]

--------------------------------------------------------------------------------
\* The review desk and the capture side.

\* Capture archives a newer source text; the composed post changes with it.
SourceUpdate(p) ==
    /\ content[p] < MaxContent
    /\ source' = [source EXCEPT ![p] = @ + 1]
    /\ content' = [content EXCEPT ![p] = @ + 1]
    /\ UNCHANGED <<confirmed, vouched, review, snaps, journal, attempts, projected>>
    /\ UNCHANGED running

\* Background image work changes what is composed without a review event.
Regenerate(p) ==
    /\ content[p] < MaxContent
    /\ content' = [content EXCEPT ![p] = @ + 1]
    /\ UNCHANGED <<source, confirmed, vouched, review, snaps, journal, attempts, projected>>
    /\ UNCHANGED running

\* A person saves a text, a localization or an image choice.
Edit(p) ==
    /\ review[p].rev < MaxEvents
    /\ content[p] < MaxContent
    /\ DeskShown(p) \notin Terminal \cup Locked
    /\ Change(p, "edited", FALSE, 0)
    /\ content' = [content EXCEPT ![p] = @ + 1]
    /\ UNCHANGED <<source, confirmed, vouched, snaps, journal, attempts, projected>>
    /\ UNCHANGED running

\* A person confirms the text and images on display, or takes that back.
Confirm(p, yes) ==
    /\ review[p].rev < MaxEvents
    /\ confirmed[p] # IF yes THEN content[p] ELSE 0
    /\ DeskShown(p) \notin Terminal \cup Locked
    /\ Change(p, "body_reviewed", FALSE, 0)
    /\ confirmed' = [confirmed EXCEPT ![p] = IF yes THEN content[p] ELSE 0]
    /\ vouched' = IF yes THEN [vouched EXCEPT ![p] = @ \cup {content[p]}] ELSE vouched
    /\ UNCHANGED <<source, content, snaps, journal, attempts, projected>>
    /\ UNCHANGED running

\* approval.lock: freeze the confirmed content; its time is chosen later.
LockContent(p) ==
    /\ review[p].rev < MaxEvents
    /\ Len(snaps) < MaxSnaps
    /\ ConfirmedNow(p)
    /\ Change(p, "content_locked", FALSE, Len(snaps) + 1)
    /\ Freeze(p, FALSE)
    /\ UNCHANGED <<desk, journal, attempts, projected>>
    /\ UNCHANGED running

\* Mutant: an approved post can be unlocked as well.
UnlockApprovedToo(p, crashed) ==
    /\ Display(p, FALSE) \in Locked
    /\ snaps' = [snaps EXCEPT ![review[p].snap].state = "discarded"]
    /\ IF crashed THEN UNCHANGED review ELSE Change(p, "unlocked", FALSE, 0)
    /\ UNCHANGED <<desk, journal, attempts, projected>>
    /\ UNCHANGED running

\* approval.unlock: void the snapshot, then record the event; a crash may fall between.
UnlockContent(p, crashed) ==
    /\ Display(p, FALSE) = "content_locked"
    /\ snaps' = [snaps EXCEPT ![review[p].snap].state = "discarded"]
    /\ IF crashed THEN UNCHANGED review ELSE Change(p, "unlocked", FALSE, 0)
    /\ UNCHANGED <<desk, journal, attempts, projected>>
    /\ UNCHANGED running

\* A person decides against publishing (skipped) or takes over by hand (handed_off).
Retire(p, action) ==
    /\ DeskShown(p) \notin Terminal \cup {"approved"}
    /\ Change(p, action, FALSE, 0)
    /\ UNCHANGED <<desk, snaps, journal, attempts, projected>>
    /\ UNCHANGED running

--------------------------------------------------------------------------------
\* approval.approve

\* Under the publish lock: no receipt stands in the way and the frozen content is current.
ApproveBegin(w, p) ==
    LET s == review[p].snap IN
    /\ ~HasSchedule(journal, p)
    /\ ~HasPending(journal, p)
    /\ Display(p, FALSE) = "content_locked"
    /\ SameContent(p, s)
    /\ ConfirmedNow(p)
    /\ Acquire(w, "decide", [op |-> "approve", post |-> p, snap |-> s, att |-> 0,
                             rev |-> review[p].rev, src |-> source[p]])
    /\ UNCHANGED <<desk, review, snaps, journal, attempts, projected>>

\* The live month refuses the slot, or something moved while it was being read.
ApproveRefuse(w) ==
    /\ pc[w] = "decide"
    /\ Release(w)
    /\ UNCHANGED <<desk, review, snaps, journal, attempts, projected>>

\* Mutant: a snapshot voided by an unlock whose event was lost is accepted.
CanApproveVoided(w) ==
    LET p == job[w].post IN
    /\ pc[w] = "decide"
    /\ review[p].rev = job[w].rev
    /\ source[p] = job[w].src
    /\ Display(p, FALSE) = "content_locked"
    /\ SameContent(p, job[w].snap)
    /\ ConfirmedNow(p)

\* Re-validated under the review lock: bind the time, then record the approval.
CanApprove(w) ==
    LET p == job[w].post IN
    /\ pc[w] = "decide"
    /\ review[p].rev = job[w].rev
    /\ source[p] = job[w].src
    /\ Display(p, FALSE) = "content_locked"
    /\ SameContent(p, job[w].snap)
    /\ ConfirmedNow(p)
    /\ snaps[job[w].snap].state = "frozen"

Approve(w) ==
    /\ CanApprove(w)
    /\ snaps' = [snaps EXCEPT ![job[w].snap].bound = TRUE]
    /\ Change(job[w].post, "approved", FALSE, job[w].snap)
    /\ job' = [job EXCEPT ![w].rev = @ + 1]
    /\ pc' = [pc EXCEPT ![w] = "execute"]
    /\ UNCHANGED <<desk, journal, attempts, projected, lock>>

ApproveCrash(w) ==
    /\ CanApprove(w)
    /\ snaps' = [snaps EXCEPT ![job[w].snap].bound = TRUE]
    /\ Release(w)
    /\ UNCHANGED <<desk, review, journal, attempts, projected>>

(* tools/publish_post.main and the start of workflow.execute: a draft is      *)
(* filled in and left for a person to submit; with --submit the content must  *)
(* be confirmed; --force passes a prepared row only.  A person forces past a  *)
(* draft only if they did not submit it themselves.                           *)
CliBegin(w, p, op) ==
    /\ Len(snaps) < MaxSnaps
    /\ ~HasSchedule(journal, p)
    /\ \A i \in DOMAIN journal : PendingRow(journal, p, i) =>
          journal[i].status = "prepared" /\ ~attempts[journal[i].att].byhand
    /\ op = "submit" => ConfirmedNow(p)
    /\ Freeze(p, TRUE)
    /\ Acquire(w, "execute", [op |-> op, post |-> p, snap |-> Len(snaps) + 1, att |-> 0,
                              rev |-> review[p].rev, src |-> source[p]])
    /\ UNCHANGED <<desk, review, journal, attempts, projected>>

--------------------------------------------------------------------------------
\* workflow.execute and workflow._execute_unlocked

\* Refused before an attempt exists: missing evidence, wrong browser profile.
ExecuteRaise(w) ==
    /\ pc[w] = "execute"
    /\ IF job[w].op = "approve" THEN Goto(w, "raised") ELSE Release(w)
    /\ UNCHANGED <<desk, review, snaps, journal, attempts, projected>>

\* The first durable row of a new attempt; nothing was clicked yet.
OpenAttempt(w, status) ==
    LET p == job[w].post
        a == Len(attempts) + 1
        d == job[w].op = "approve"
    IN
    /\ Len(attempts) < MaxAttempts
    /\ attempts' = Append(attempts, [post |-> p, snap |-> job[w].snap, desk |-> d,
                                     card |-> "none", byhand |-> FALSE])
    /\ journal' = Append(journal, Row(a, p, d, status, FALSE))
    /\ job' = [job EXCEPT ![w].att = a]
    /\ UNCHANGED <<desk, review, snaps, projected, lock>>

\* A matching card in the calendar, or any failure while filling the composer.
ComposeFail(w) ==
    /\ pc[w] = "execute"
    /\ OpenAttempt(w, "failed_pre_submit")
    /\ pc' = [pc EXCEPT ![w] = "project"]

(* The composer is filled; a draft ends here, a submission goes on.  The      *)
(* calendar was compared with the slot, text and media before; a card of the  *)
(* post at another time passes that comparison, so nothing relies on it here. *)
Compose(w) ==
    /\ pc[w] = "execute"
    /\ OpenAttempt(w, "prepared")
    /\ pc' = [pc EXCEPT ![w] = IF job[w].op = "draft" THEN "project" ELSE "prepared"]

\* The last look at the review decision, the content and the confirmations.
FinalCheck(w) ==
    LET p == job[w].post IN
    /\ pc[w] = "prepared"
    /\ job[w].op = "approve" =>
          /\ review[p].rev = job[w].rev
          /\ source[p] = job[w].src
          /\ Display(p, FALSE) = "approved"
    /\ SameContent(p, job[w].snap)
    /\ ConfirmedNow(p)
    /\ Goto(w, "checked")
    /\ UNCHANGED <<desk, review, snaps, journal, attempts, projected>>

PreSubmitFail(w) ==
    /\ pc[w] = "prepared"
    /\ AppendRow(job[w].att, "failed_pre_submit", FALSE)
    /\ Goto(w, "project")
    /\ UNCHANGED <<desk, review, snaps, attempts, projected>>

\* Mutant: the intent is not durable before the click.
ArmInMemory(w) ==
    /\ pc[w] = "checked"
    /\ Goto(w, "armed")
    /\ UNCHANGED <<desk, review, snaps, journal, attempts, projected>>

\* The click intent is durable before the click.
Arm(w) ==
    /\ pc[w] = "checked"
    /\ AppendRow(job[w].att, "submit_ambiguous", FALSE)
    /\ Goto(w, "armed")
    /\ UNCHANGED <<desk, review, snaps, attempts, projected>>

Click(w) ==
    /\ pc[w] = "armed"
    /\ SetCard(job[w].att, "inflight")
    /\ Goto(w, "clicked")
    /\ UNCHANGED <<desk, review, snaps, journal, projected>>

\* An exception around the click: the row keeps its status, whatever the click did.
ClickFail(w) ==
    /\ pc[w] \in {"armed", "clicked"}
    /\ AppendRow(job[w].att, "submit_ambiguous", FALSE)
    /\ Goto(w, "project")
    /\ UNCHANGED <<desk, review, snaps, attempts, projected>>

\* The recorded success signal was seen, or it was not; neither is a receipt.
Submitted(w, status) ==
    /\ pc[w] = "clicked"
    /\ AppendRow(job[w].att, status, FALSE)
    /\ Goto(w, "verify")
    /\ UNCHANGED <<desk, review, snaps, attempts, projected>>

\* The row the operation read or wrote last: the open row of its attempt.
OwnRow(w, i) == Decisive(journal, job[w].post, i) /\ journal[i].att = job[w].att

\* Mutant: the success signal counts as the card.
ReadBackUnseen(w) ==
    /\ pc[w] \in {"verify", "recheck"}
    /\ \E i \in DOMAIN journal : OwnRow(w, i) /\ Continue(i, "scheduled")
    /\ Goto(w, "project")
    /\ UNCHANGED <<desk, review, snaps, attempts, projected>>

\* The month is read back and shows the card.
ReadBack(w) ==
    /\ pc[w] \in {"verify", "recheck"}
    /\ attempts[job[w].att].card = "landed"
    /\ \E i \in DOMAIN journal : OwnRow(w, i) /\ Continue(i, "scheduled")
    /\ Goto(w, "project")
    /\ UNCHANGED <<desk, review, snaps, attempts, projected>>

\* The card is not seen, or the reading fails: not seen is not absent.
ReadBackMiss(w) ==
    /\ pc[w] \in {"verify", "recheck"}
    /\ \E i \in DOMAIN journal : OwnRow(w, i) /\ Continue(i, journal[i].status)
    /\ IF pc[w] = "verify" THEN Goto(w, "project") ELSE Release(w)
    /\ UNCHANGED <<desk, review, snaps, attempts, projected>>

\* Every operation ends by projecting the receipt of its attempt.
Project(w) ==
    /\ pc[w] = "project"
    /\ \E i \in DOMAIN journal :
          OwnRow(w, i) /\ ProjectOrFail(job[w].att, journal[i].status)
    /\ Release(w)
    /\ UNCHANGED <<desk, snaps, journal, attempts>>

\* approve's handler: give the post back unless a result is still open.
Raised(w) ==
    LET p == job[w].post IN
    /\ pc[w] = "raised"
    /\ \/ /\ ~HasPending(journal, p)
          /\ review[p].rev = job[w].rev
          /\ Change(p, "submit_failed", FALSE, 0)
       \/ UNCHANGED review
    /\ Release(w)
    /\ UNCHANGED <<desk, snaps, journal, attempts, projected>>

\* A process dies: the operating system frees its lock, the files stay.
Crash(w) ==
    /\ pc[w] # "idle"
    /\ Release(w)
    /\ UNCHANGED <<desk, review, snaps, journal, attempts, projected>>

--------------------------------------------------------------------------------
\* Settling what an operation left behind.

\* records.reconcile on an unresolved submission: read the calendar again.
ReconcileBegin(w, p) ==
    /\ Len(journal) < MaxRows
    /\ \E i \in DOMAIN journal :
          /\ PendingRow(journal, p, i)
          /\ journal[i].status \in Unresolved
          /\ Cardinality(UnresolvedAttempts(journal, p)) = 1
          /\ Acquire(w, "recheck", [op |-> "reconcile", post |-> p,
                                    snap |-> attempts[journal[i].att].snap,
                                    att |-> journal[i].att, rev |-> 0, src |-> source[p]])
    /\ UNCHANGED <<desk, review, snaps, journal, attempts, projected>>

\* Mutant: only approvals are recovered, a scheduled receipt is not projected.
RecoverApprovedOnly(p) ==
    /\ Quiet
    /\ ~HasPending(journal, p)
    /\ ~HasSchedule(journal, p)
    /\ review[p].status = "approved"
    /\ \E i \in DOMAIN journal :
          /\ attempts[journal[i].att].snap = review[p].snap
          /\ \A k \in DOMAIN journal :
                k > i => attempts[journal[k].att].snap # review[p].snap
          /\ ProjectReview(journal[i].att, journal[i].status)
    /\ UNCHANGED <<desk, snaps, journal, attempts>>

(* records.recover: repeat the projection of a receipt, or give back an       *)
(* approval whose process died before any attempt.                            *)
RecoverReceipt(p) ==
    /\ Quiet
    /\ ~HasPending(journal, p)
    /\ \E i \in DOMAIN journal :
          \/ ScheduledRow(journal, p, i) /\ ProjectReview(journal[i].att, "scheduled")
          \/ /\ ~HasSchedule(journal, p)
             /\ review[p].status = "approved"
             /\ attempts[journal[i].att].snap = review[p].snap
             /\ \A k \in DOMAIN journal :
                   k > i => attempts[journal[k].att].snap # review[p].snap
             /\ ProjectReview(journal[i].att, journal[i].status)
    /\ UNCHANGED <<desk, snaps, journal, attempts>>

\* Mutant: an open attempt of another snapshot is not looked for.
RecoverDespitePending(p) ==
    /\ Quiet
    /\ ~HasSchedule(journal, p)
    /\ review[p].status = "approved"
    /\ \A i \in DOMAIN journal : attempts[journal[i].att].snap # review[p].snap
    /\ Change(p, "submit_failed", FALSE, 0)
    /\ UNCHANGED <<desk, snaps, journal, attempts, projected>>

RecoverOrphan(p) ==
    /\ Quiet
    /\ ~HasPending(journal, p)
    /\ ~HasSchedule(journal, p)
    /\ review[p].status = "approved"
    /\ \A i \in DOMAIN journal : attempts[journal[i].att].snap # review[p].snap
    /\ Change(p, "submit_failed", FALSE, 0)
    /\ UNCHANGED <<desk, snaps, journal, attempts, projected>>

\* records.unschedule: a person deleted the card; the whole live month is read.
UnscheduleBegin(w, p) ==
    /\ \E i \in DOMAIN journal :
          /\ ScheduledRow(journal, p, i)
          /\ Acquire(w, "unread", [op |-> "unschedule", post |-> p,
                                   snap |-> attempts[journal[i].att].snap,
                                   att |-> journal[i].att, rev |-> 0, src |-> source[p]])
    /\ UNCHANGED <<desk, review, snaps, journal, attempts, projected>>

\* The month is incomplete, or still shows the card.
UnscheduleRefuse(w) ==
    /\ pc[w] = "unread"
    /\ Release(w)
    /\ UNCHANGED <<desk, review, snaps, journal, attempts, projected>>

\* Mutant: the person's word is taken without reading the month.
UnscheduleUnread(w) ==
    /\ pc[w] = "unread"
    /\ AppendRow(job[w].att, "cancelled_remote", TRUE)
    /\ Goto(w, "unreview")
    /\ UNCHANGED <<desk, review, snaps, attempts, projected>>

\* The full month is read and no longer shows the card.
UnscheduleAppend(w) ==
    /\ pc[w] = "unread"
    /\ attempts[job[w].att].card # "landed"
    /\ AppendRow(job[w].att, "cancelled_remote", TRUE)
    /\ Goto(w, "unreview")
    /\ UNCHANGED <<desk, review, snaps, attempts, projected>>

\* The review event follows in a second store; a newer source or a busy lock refuses it.
UnscheduleReview(w) ==
    LET p == job[w].post IN
    /\ pc[w] = "unreview"
    /\ \/ source[p] = job[w].src /\ Change(p, "unscheduled", FALSE, 0)
       \/ UNCHANGED review
    /\ Release(w)
    /\ UNCHANGED <<desk, snaps, journal, attempts, projected>>

(* tools/publish_post._manual_resolve: a person looked at the calendar, after *)
(* the outcome of the click had settled, and says what they saw.              *)
ManualResolve(p, seen) ==
    /\ Quiet
    /\ \E i \in DOMAIN journal :
          LET a == journal[i].att
              s == IF seen THEN "scheduled" ELSE "failed_pre_submit"
          IN
          /\ Resolvable(journal, p, i)
          /\ seen => journal[i].status # "failed_pre_submit"
          /\ attempts[a].card # "inflight"
          /\ seen <=> attempts[a].card = "landed"
          /\ AppendRow(a, s, TRUE)
          /\ ProjectOrFail(a, s)
    /\ UNCHANGED <<desk, snaps, attempts>>

\* records.reverify_media: one more look at an attempt whose receipt is scheduled.
Reverify(a) ==
    /\ Quiet
    /\ Len(journal) < MaxRows
    /\ \E i \in DOMAIN journal :
          /\ LatestRow(journal, a, i)
          /\ journal[i].status = "scheduled"
          /\ Continue(i, "scheduled")
    /\ ProjectOrFail(a, "scheduled")
    /\ UNCHANGED <<desk, snaps, attempts>>

--------------------------------------------------------------------------------
\* The remote service and people in the browser (external).

Settle(a, c) ==
    /\ attempts[a].card = "inflight"
    /\ SetCard(a, c)
    /\ UNCHANGED <<desk, review, snaps, journal, projected>>
    /\ UNCHANGED running

DeleteCard(a) ==
    /\ attempts[a].card = "landed"
    /\ SetCard(a, "deleted")
    /\ UNCHANGED <<desk, review, snaps, journal, projected>>
    /\ UNCHANGED running

\* A person submits the newest prepared composer of a post nobody is working on.
HandSubmit(a) ==
    /\ attempts[a].card = "none"
    /\ \A w \in Workers : pc[w] # "idle" => job[w].post # attempts[a].post
    /\ \E i \in DOMAIN journal :
          /\ Decisive(journal, attempts[a].post, i)
          /\ journal[i].att = a
          /\ journal[i].status = "prepared"
    /\ attempts' = [attempts EXCEPT ![a].card = "landed", ![a].byhand = TRUE]
    /\ UNCHANGED <<desk, review, snaps, journal, projected>>
    /\ UNCHANGED running

--------------------------------------------------------------------------------
DeskStep ==
    \E p \in Posts :
        \/ SourceUpdate(p)
        \/ Regenerate(p)
        \/ Edit(p)
        \/ \E yes \in BOOLEAN : Confirm(p, yes)
        \/ LockContent(p)
        \/ \E crashed \in BOOLEAN : UnlockContent(p, crashed)
        \/ \E action \in {"skipped", "handed_off"} : Retire(p, action)

BeginStep(w) ==
    \E p \in Posts :
        \/ ApproveBegin(w, p)
        \/ \E op \in {"draft", "submit"} : CliBegin(w, p, op)
        \/ ReconcileBegin(w, p)
        \/ UnscheduleBegin(w, p)

\* The steps of an operation that has begun.
WorkStep(w) ==
    \/ ApproveRefuse(w)
    \/ Approve(w)
    \/ ExecuteRaise(w)
    \/ ComposeFail(w)
    \/ Compose(w)
    \/ FinalCheck(w)
    \/ PreSubmitFail(w)
    \/ Arm(w)
    \/ Click(w)
    \/ ClickFail(w)
    \/ \E status \in Unresolved : Submitted(w, status)
    \/ ReadBack(w)
    \/ ReadBackMiss(w)
    \/ Project(w)
    \/ Raised(w)
    \/ UnscheduleRefuse(w)
    \/ UnscheduleAppend(w)
    \/ UnscheduleReview(w)

SettleStep ==
    \/ \E p \in Posts :
          \/ RecoverReceipt(p)
          \/ RecoverOrphan(p)
          \/ \E seen \in BOOLEAN : ManualResolve(p, seen)
    \/ \E a \in DOMAIN attempts : Reverify(a)

RemoteStep ==
    \E a \in DOMAIN attempts :
        \/ \E c \in {"landed", "lost"} : Settle(a, c)
        \/ DeleteCard(a)
        \/ HandSubmit(a)

Next ==
    \/ DeskStep
    \/ \E w \in Workers :
          BeginStep(w) \/ WorkStep(w) \/ ApproveCrash(w) \/ Crash(w)
    \/ SettleStep
    \/ RemoteStep

Spec == Init /\ [][Next]_vars

--------------------------------------------------------------------------------
\* Types.

Jobs == [op : {"approve", "draft", "submit", "reconcile", "unschedule"},
         post : Posts, snap : Nat, att : Nat, rev : Nat, src : Nat]

Reviews == [status : ReviewStatuses, action : ReviewActions \cup {"none"}, snap : Nat, src : Nat, rev : Nat]

Snapshots == [post : Posts, content : Nat, src : Nat,
              state : {"frozen", "discarded"}, bound : BOOLEAN]

Rows == [att : Nat \ {0}, post : Posts, desk : BOOLEAN, status : RowStatuses,
         manual : BOOLEAN]

Attempts == [post : Posts, snap : Nat, desk : BOOLEAN, card : CardStates,
             byhand : BOOLEAN]

(* Types: the stores, the remote calendar, the lock and the workers' places.   *)
TypeOK ==
    /\ source \in [Posts -> Nat]
    /\ content \in [Posts -> Nat]
    /\ confirmed \in [Posts -> Nat]
    /\ vouched \in [Posts -> SUBSET Nat]
    /\ review \in [Posts -> Reviews]
    /\ snaps \in Seq(Snapshots)
    /\ journal \in Seq(Rows)
    /\ attempts \in Seq(Attempts)
    /\ projected \subseteq (Nat \X RowStatuses)
    /\ lock \in Workers \cup {NoWorker}
    /\ pc \in [Workers -> Steps]
    /\ job \in [Workers -> Jobs \cup {NoJob}]

--------------------------------------------------------------------------------
\* Safety.

(* publish.lock excludes: every worker inside a publication operation is the  *)
(* holder of the lock (journal.PublishOperationLock).                         *)
LockExcludes == \A w \in Workers : pc[w] # "idle" <=> lock = w

(* No duplicate publication: of one post, at most one card is in the calendar *)
(* or on its way there - whatever crashed, was reconciled, resolved by hand,  *)
(* forced past a draft or cancelled before (workflow.execute).                *)
OneLiveCard ==
    \A a, b \in DOMAIN attempts :
        (Live(a) /\ Live(b) /\ attempts[a].post = attempts[b].post) => a = b

(* Nothing that may be in the calendar is forgotten: as long as a card is     *)
(* there or may turn up, the journal refuses a new attempt for its post.      *)
LiveCardBlocksRetry ==
    \A a \in DOMAIN attempts :
        Live(a) => \/ HasSchedule(journal, attempts[a].post)
                   \/ HasPending(journal, attempts[a].post)

(* A "scheduled" row is never made up: its attempt's card was in the calendar *)
(* (readback, or a person who saw it), and a "cancelled_remote" row says the  *)
(* card is gone.                                                              *)
ReceiptsTruthful ==
    \A i \in DOMAIN journal :
        /\ journal[i].status = "scheduled" =>
              attempts[journal[i].att].card \in {"landed", "deleted"}
        /\ journal[i].status = "cancelled_remote" =>
              attempts[journal[i].att].card = "deleted"

(* What the desk submitted, and what --submit submitted, was confirmed by a   *)
(* person in exactly that version: text and images cannot change between the  *)
(* confirmation and the click (pre_submit_check, snapshots.ensure).           *)
OnlyConfirmedIsSubmitted ==
    \A i \in DOMAIN journal :
        journal[i].status \in Unresolved =>
            LET a == journal[i].att IN
            snaps[attempts[a].snap].content \in vouched[attempts[a].post]

(* The snapshot of an attempt is evidence that can be loaded for good: never  *)
(* voided by a later unlock, always bound to a time (snapshots.load_for_attempt). *)
AttemptSnapshotsUsable ==
    \A i \in DOMAIN journal :
        LET s == snaps[attempts[journal[i].att].snap] IN
        s.state = "frozen" /\ s.bound

(* The two scans for "already scheduled" agree: the backward scan that guards *)
(* execute and the order-blind one behind the desk's lists.                   *)
ScansAgree ==
    \A p \in Posts : HasSchedule(journal, p) <=> p \in ScheduledRefs(journal)

(* An approval whose worker is gone can be recovered: its snapshot is intact, *)
(* and the review is not ahead of the journal: "scheduled" in the review      *)
(* means some attempt of the post was scheduled.                              *)
ReviewBackedByJournal ==
    \A p \in Posts :
        /\ review[p].status = "approved" =>
              snaps[review[p].snap].state = "frozen" /\ snaps[review[p].snap].bound
        /\ review[p].status = "scheduled" =>
              \E i \in DOMAIN journal :
                  journal[i].post = p /\ journal[i].status = "scheduled"

--------------------------------------------------------------------------------
\* Action properties.

(* An approval is given back to the editors only when nothing of the post can *)
(* be in the calendar: no submit_failed event is recorded while an attempt is *)
(* open or a card is live (recover, project, approve's handler).              *)
GivenBackOnlyWhenClear ==
    [][\A p \in Posts :
          (review'[p] # review[p] /\ review'[p].action = "submit_failed") =>
              /\ \A i \in DOMAIN journal' :
                    Decisive(journal', p, i) => journal'[i].status \notin Blocking
              /\ \A a \in DOMAIN attempts : attempts[a].post = p => ~Live(a)]_vars

(* A post stops being counted as scheduled only when its card is gone.        *)
UnscheduledOnlyWhenGone ==
    [][\A p \in Posts :
          (HasSchedule(journal, p) /\ ~HasSchedule(journal', p)) =>
              \A a \in DOMAIN attempts : attempts[a].post = p => ~Live(a)]_vars

(* RECOVERY READS RIGHT.  The scans that several operators make of the journal *)
(* for different questions agree (publish/journal.py), and a post whose worker *)
(* died goes back to the reviewers only when nothing of it was submitted.      *)
RecoveryReadsRight == []ScansAgree /\ GivenBackOnlyWhenClear

--------------------------------------------------------------------------------
\* Liveness.

(* Every step of an operation has a timeout, so a worker that began goes on.  *)
WorkersProceed == \A w \in Workers : WF_vars(WorkStep(w))

(* An operator who keeps at it: the remote outcome settles, and whoever finds *)
(* an open result closes it, repeats a projection or registers a deletion.    *)
OperatorPersists ==
    /\ \A p \in Posts :
          /\ SF_vars(\E seen \in BOOLEAN : ManualResolve(p, seen))
          /\ SF_vars(RecoverReceipt(p))
          /\ SF_vars(RecoverOrphan(p))
    /\ \A a \in 1 .. MaxAttempts :
          WF_vars(a \in DOMAIN attempts /\ \E c \in {"landed", "lost"} : Settle(a, c))

LiveSpec == Spec /\ WorkersProceed /\ OperatorPersists

(* The publish lock is always given back.                                     *)
LockReleased == lock # NoWorker ~> lock = NoWorker

(* No attempt stays open for ever.                                            *)
AttemptsSettle == \A p \in Posts : HasPending(journal, p) ~> ~HasPending(journal, p)

(* A schedule the journal holds reaches the review ledger, whatever crashed   *)
(* between the two stores - or is withdrawn again.                            *)
ScheduleReachesReview ==
    \A p \in Posts :
        HasSchedule(journal, p) ~>
            (review[p].status = "scheduled" \/ ~HasSchedule(journal, p))

(* Registering a deletion ends the dead end: a post whose schedules are all   *)
(* cancelled and that nobody works on does not stay "scheduled" or "approved" *)
(* (records.unschedule).                                                      *)
Stranded(p) ==
    /\ lock = NoWorker
    /\ review[p].status \in {"scheduled", "approved"}
    /\ ~HasSchedule(journal, p)
    /\ \E i \in DOMAIN journal :
          journal[i].post = p /\ journal[i].status = "cancelled_remote"

CancelledReturnsToReview == \A p \in Posts : Stranded(p) ~> ~Stranded(p)
================================================================================
