------------------------------- MODULE Candidates -------------------------------
(* What waits for a person.  The pipeline's run (pipeline/engine.py, run)      *)
(* compares every activated post with its translation, its gates, the publish  *)
(* journal and the review ledger, and keeps one list of open items,            *)
(* needs_human.jsonl.  The pipeline's approve publishes a batch of the items   *)
(* that are ready, one after another.  Both hold pipeline.lock; approve also   *)
(* holds publish.lock.  Captures, editors, the desk's own publication and      *)
(* manual resolutions go on meanwhile.                                         *)
(*                                                                             *)
(* A text is its number; a translation is its number, the source it was made   *)
(* of and whether a person wrote it.  Every source is its own candidate: the   *)
(* pairs of two platforms are history (reconcile, :619).                       *)
EXTENDS Integers, Sequences, FiniteSets

CONSTANTS Posts,        \* the activated posts, numbers in order of creation
          Translated,   \* those the desk's own job translated and a person confirmed
          MaxSource,    \* bound: versions of a source text
          MaxProduct,   \* bound: translations of a post
          MaxAttempt,   \* bound: publication attempts of a post
          MaxChanges    \* bound: what happens beside the run and the batch

VARIABLES
    source,     \* the archive's text of a post
    flaw,       \* what is wrong with its pictures, its authors or its text
    product,    \* its translation and pictures, as latest published files
    confirmed,  \* the product a person confirmed, 0 for none
    review,     \* the review ledger
    journal,    \* the publish journal's decisive status of the post
    attempts,   \* how many attempts it has there
    items,      \* the open items
    run,        \* the run under way
    touched,    \* the posts that changed since it began (history)
    batch,      \* the approve under way
    changes

desk == <<source, flaw, product, confirmed, review>>
ledger == <<journal, attempts>>
vars == <<desk, ledger, items, run, touched, batch, changes>>

(* "material" and "collaborator" are found before anything is paid,            *)
(* "unreadable" is a source whose truth cannot be read, "offline" is refused   *)
(* by the composer only.                                                       *)
Flaws == {"none", "material", "collaborator", "unreadable", "offline"}

NoProduct == [no |-> 0, of |-> 0, human |-> FALSE]
NoRun == [pc |-> "idle", todo |-> {}, seen |-> [p \in Posts |-> 0], sched |-> {}]
NoBatch == [pc |-> "idle", rows |-> <<>>, at |-> 0, frozen |-> 0]

\* An item's id is a digest of its kind, its source with its text and a detail.
Item(kind, p, text, detail) == [kind |-> kind, post |-> p, source |-> text, detail |-> detail]
OpenOf(p) == {i \in items : i.post = p}

-------------------------------------------------------------------------------
Paused(p) == review[p] \in {"snoozed", "approved", "scheduled"}
Current(p) == product[p].of = source[p]
Confirmed(p) == Current(p) /\ product[p].no > 0 /\ confirmed[p] = product[p].no

\* compose_post: a stale translation and what the composer refuses.
Composes(p) == Current(p) /\ flaw[p] \in {"none", "collaborator"}

(* load_sources: with a human translation the source is read afresh, and one   *)
(* that cannot be read is no candidate but an item of its own.                 *)
Unreadable(p) == flaw[p] = "unreadable" /\ product[p].human
BoundaryIssue(p) == Item("material_gate", p, source[p], "unreadable")

(* _prepaid_issue: a human translation of another text comes first, then the   *)
(* pictures, then the authors.                                                 *)
PrepaidIssue(p, text) ==
    IF Unreadable(p) THEN {Item("material_gate", p, text, "unreadable")}
    ELSE IF product[p].human /\ ~Current(p) THEN {Item("human_translation_stale", p, text, "")}
    ELSE IF flaw[p] = "material" THEN {Item("material_gate", p, text, "")}
    ELSE IF flaw[p] = "collaborator" THEN {Item("unknown_collaborator", p, text, "")}
    ELSE {}

PrepaidKinds == {"material_gate", "unknown_collaborator", "human_translation_stale"}
CandidateKinds == PrepaidKinds \cup {"budget_stopped", "offline_gate",
                      "paid_request_unresolved", "publish_unresolved", "ready_to_publish"}

\* Mutant: the others of the post stay open.
OnlyAdds(p, active) == items \cup active

\* resolve_cleared_items, all of a post's items of some kinds but the active ones.
Cleared(p, kinds, active) == {i \in OpenOf(p) : i.kind \in kinds /\ i \notin active}
\* One item stays; the rest is cleared.
Only(p, active) == (items \ Cleared(p, CandidateKinds, active)) \cup active

Ready(p, text) == Item("ready_to_publish", p, text, product[p].no)
Unresolved(p, text) == Item("publish_unresolved", p, text, attempts[p])
Offline(p, text) == Item("offline_gate", p, text, <<flaw[p], Current(p)>>)

-------------------------------------------------------------------------------
Init ==
    /\ source = [p \in Posts |-> 1]
    /\ flaw = [p \in Posts |-> "none"]
    /\ product = [p \in Posts |-> IF p \in Translated
                                   THEN [no |-> 1, of |-> 1, human |-> FALSE] ELSE NoProduct]
    /\ confirmed = [p \in Posts |-> product[p].no]
    /\ review = [p \in Posts |-> "pending_review"]
    /\ journal = [p \in Posts |-> "none"]
    /\ attempts = [p \in Posts |-> 0]
    /\ items = {}
    /\ run = NoRun
    /\ touched = {}
    /\ batch = NoBatch
    /\ changes = 0

PipelineFree == run.pc = "idle" /\ batch.pc = "idle"
PublishFree == batch.pc = "idle"

-------------------------------------------------------------------------------
(* THE RUN.  It works on the rows it read when it began.                       *)

Begin ==
    /\ PipelineFree
    /\ LET boundary == {p \in Posts : Unreadable(p)}
       IN  /\ items' = items \cup {BoundaryIssue(p) : p \in boundary}
           /\ run' = [pc |-> "next", todo |-> Posts \ boundary, seen |-> source,
                      sched |-> {p \in Posts : journal[p] = "scheduled"}]
    /\ touched' = {}
    /\ UNCHANGED <<desk, ledger, batch, changes>>

Turn(p) == run.pc = "next" /\ p \in run.todo /\ \A q \in run.todo : p <= q
Goto(pc) == run' = [run EXCEPT !.pc = pc]
NextPost(p) == run' = [run EXCEPT !.pc = "next", !.todo = @ \ {p}]
StopRun == run' = NoRun

\* Held back, or in the journal: nothing is prepared for the post.
SkipPaused(p) ==
    /\ Turn(p) /\ Paused(p)
    /\ items' = items \ Cleared(p, {"ready_to_publish"}, {})
    /\ NextPost(p)

SkipScheduled(p) ==
    /\ Turn(p) /\ ~Paused(p) /\ p \in run.sched
    /\ items' = Only(p, {})
    /\ NextPost(p)

SkipUnresolved(p) ==
    /\ Turn(p) /\ ~Paused(p) /\ p \notin run.sched /\ journal[p] = "pending"
    /\ items' = Only(p, {Unresolved(p, run.seen[p])})
    /\ NextPost(p)

Examine(p) ==
    /\ Turn(p) /\ ~Paused(p) /\ p \notin run.sched /\ journal[p] # "pending"
    /\ LET issue == PrepaidIssue(p, run.seen[p])
       IN  IF issue # {}
           THEN items' = Only(p, issue) /\ NextPost(p)
           ELSE items' = items \ Cleared(p, PrepaidKinds, {}) /\ Goto("pay")

Working(p, pc) == run.pc = pc /\ p \in run.todo /\ \A q \in run.todo : p <= q

\* translation_needed, by the row that was read and the files there are.
Needed(p) == ~product[p].human /\ product[p].of # run.seen[p]

(* The paid stages: they make what is missing, or stop the whole run with an   *)
(* item that says why.  A translation made by somebody else is left alone.     *)
Pay(p) ==
    /\ Working(p, "pay") /\ ~Paused(p) /\ Needed(p)
    /\ IF Current(p) \/ product[p].human THEN UNCHANGED product
       ELSE /\ product[p].no < MaxProduct
            /\ product' = [product EXCEPT ![p] =
                             [no |-> @.no + 1, of |-> source[p], human |-> FALSE]]
    /\ Goto("paid")
    /\ UNCHANGED items

NothingToPay(p) ==
    /\ Working(p, "pay") /\ ~Paused(p) /\ ~Needed(p)
    /\ Goto("paid")
    /\ UNCHANGED <<product, items>>

PayStops(p, kind) ==
    /\ Working(p, "pay") /\ ~Paused(p)
    /\ items' = Only(p, {Item(kind, p, run.seen[p], "")})
    /\ StopRun
    /\ UNCHANGED product

HeldBack(p) ==
    /\ run.pc \in {"pay", "paid"} /\ Working(p, run.pc) /\ Paused(p)
    /\ NextPost(p)
    /\ UNCHANGED <<product, items>>

Compose(p) ==
    /\ Working(p, "paid") /\ ~Paused(p)
    /\ items' = Only(p, {IF Composes(p) THEN Ready(p, run.seen[p]) ELSE Offline(p, run.seen[p])})
    /\ NextPost(p)
    /\ UNCHANGED product

\* The month has no slot left: the run ends there, and the rest waits.
NoSlotLeft(p) ==
    /\ Working(p, "paid") /\ ~Paused(p)
    /\ StopRun
    /\ UNCHANGED <<product, items>>

End == run.pc = "next" /\ run.todo = {} /\ StopRun /\ UNCHANGED <<product, items>>

(* The process stops: what was being cleared is cleared in part.               *)
Die ==
    /\ run.pc # "idle"
    /\ \E p \in Posts, gone \in SUBSET items :
          /\ gone \subseteq OpenOf(p)
          /\ gone # {} => Turn(p) /\ ~Paused(p)
          /\ items' = items \ gone
    /\ StopRun
    /\ UNCHANGED product

RunStep ==
    /\ \/ \E p \in Posts :
             \/ (SkipPaused(p) \/ SkipScheduled(p) \/ SkipUnresolved(p) \/ Examine(p))
                /\ UNCHANGED product
             \/ Pay(p) \/ NothingToPay(p) \/ HeldBack(p) \/ Compose(p) \/ NoSlotLeft(p)
             \/ \E kind \in {"budget_stopped", "paid_request_unresolved"} : PayStops(p, kind)
       \/ End
       \/ Die
    /\ touched' = IF run'.pc = "idle" THEN {} ELSE touched
    /\ UNCHANGED <<source, flaw, confirmed, review, ledger, batch, changes>>

-------------------------------------------------------------------------------
(* THE BATCH.  Ready items, confirmed together and published one by one.       *)

\* What _approve_unlocked demands of an item before the browser is touched.
Approvable(i) ==
    /\ i \in items /\ i.kind = "ready_to_publish"
    /\ journal[i.post] = "none"
    /\ ~Unreadable(i.post)
    /\ ~Paused(i.post)
    /\ PrepaidIssue(i.post, source[i.post]) = {}
    /\ Composes(i.post) /\ i.detail = product[i.post].no
    /\ Confirmed(i.post)

\* The batches a person may ask for: items of different posts, in some order.
Batches(able) ==
    {rows \in UNION {[1..n -> able] : n \in 1..Cardinality(Posts)} :
        \A m, n \in DOMAIN rows : m # n => rows[m].post # rows[n].post}

Approve ==
    /\ PipelineFree
    /\ \A p \in Posts : ~Unreadable(p)
    /\ \E rows \in Batches({i \in items : Approvable(i)}) :
          batch' = [pc |-> "reading", rows |-> rows, at |-> 1, frozen |-> 0]
    /\ UNCHANGED items

StopBatch == batch' = NoBatch
Row == batch.rows[batch.at]
Here == Row.post

(* The month is read in the browser; then all is looked at once more, and the  *)
(* person is asked.                                                            *)
ReadMonth ==
    /\ batch.pc = "reading"
    /\ \/ /\ \A n \in DOMAIN batch.rows :
                LET i == batch.rows[n]
                IN  /\ ~Paused(i.post) /\ Composes(i.post)
                    /\ i.detail = product[i.post].no /\ Confirmed(i.post)
          /\ batch' = [batch EXCEPT !.pc = "submit"]
       \/ StopBatch
    /\ UNCHANGED <<items, ledger, review>>

\* Mutant: a post that fails does not stop the posts behind it.
SubmitOn ==
    /\ batch.pc = "submit"
    /\ IF Paused(Here) \/ ~Composes(Here) \/ journal[Here] = "pending" \/ ~Confirmed(Here)
       THEN IF batch.at < Len(batch.rows) THEN batch' = [batch EXCEPT !.at = @ + 1] ELSE StopBatch
       ELSE IF journal[Here] = "scheduled" THEN batch' = [batch EXCEPT !.pc = "done"]
       ELSE batch' = [batch EXCEPT !.pc = "armed", !.frozen = product[Here].no]
    /\ UNCHANGED <<items, ledger, review>>

(* publish_post.main composes the post anew and has its own guards; a post     *)
(* that is scheduled already counts as done.                                   *)
SubmitNext ==
    /\ batch.pc = "submit"
    /\ IF Paused(Here) \/ ~Composes(Here) \/ journal[Here] = "pending" \/ ~Confirmed(Here)
       THEN StopBatch
       ELSE IF journal[Here] = "scheduled" THEN batch' = [batch EXCEPT !.pc = "done"]
       ELSE batch' = [batch EXCEPT !.pc = "armed", !.frozen = product[Here].no]
    /\ UNCHANGED <<items, ledger, review>>

(* pre_submit_check, the durable row and the click: the content is the one     *)
(* that was frozen and is confirmed still, or the attempt fails before it.     *)
Click ==
    /\ batch.pc = "armed" /\ attempts[Here] < MaxAttempt
    /\ attempts' = [attempts EXCEPT ![Here] = @ + 1]
    /\ IF Confirmed(Here) /\ Composes(Here) /\ product[Here].no = batch.frozen
       THEN /\ journal' = [journal EXCEPT ![Here] = "pending"]
            /\ batch' = [batch EXCEPT !.pc = "clicked"]
       ELSE \* the row of a failure is closed when the page's end is certain
            /\ \E s \in {"none", "pending"} : journal' = [journal EXCEPT ![Here] = s]
            /\ StopBatch
    /\ UNCHANGED <<items, review>>

\* The calendar shows the post, or nobody knows.
Readback ==
    /\ batch.pc = "clicked"
    /\ \/ /\ journal' = [journal EXCEPT ![Here] = "scheduled"]
          /\ review' = [review EXCEPT ![Here] = "scheduled"]
          /\ batch' = [batch EXCEPT !.pc = "done"]
       \/ StopBatch /\ UNCHANGED <<journal, review>>
    /\ UNCHANGED <<items, attempts>>

\* The item is resolved, and the next post has its turn.
Resolve ==
    /\ batch.pc = "done"
    /\ items' = items \ {Row}
    /\ IF batch.at = Len(batch.rows) THEN StopBatch
       ELSE batch' = [batch EXCEPT !.pc = "submit", !.at = @ + 1]
    /\ UNCHANGED <<ledger, review>>

BatchDies == batch.pc # "idle" /\ StopBatch /\ UNCHANGED <<items, ledger, review>>

BatchStep ==
    /\ \/ Approve /\ UNCHANGED <<ledger, review>>
       \/ ReadMonth \/ SubmitNext \/ Click \/ Readback \/ Resolve \/ BatchDies
    /\ UNCHANGED <<source, flaw, product, confirmed, run, touched, changes>>

-------------------------------------------------------------------------------
(* EVERYONE ELSE.                                                              *)

Change(p) ==
    /\ changes < MaxChanges
    /\ changes' = changes + 1
    /\ touched' = IF run.pc = "idle" THEN touched ELSE touched \cup {p}
    /\ UNCHANGED <<items, run, batch>>

\* A capture stores another text, finds its pictures or loses them.
Capture(p) ==
    /\ \/ /\ source[p] < MaxSource
          /\ source' = [source EXCEPT ![p] = @ + 1]
          /\ UNCHANGED flaw
       \/ \E f \in Flaws \ {flaw[p]} : flaw' = [flaw EXCEPT ![p] = f] /\ UNCHANGED source
    /\ UNCHANGED <<product, confirmed, review, ledger>>

\* The editor writes a translation, or confirms the one there is.
Edit(p) ==
    /\ review[p] \in {"pending_review", "snoozed"} /\ product[p].no < MaxProduct
    /\ product' = [product EXCEPT ![p] = [no |-> @.no + 1, of |-> source[p], human |-> TRUE]]
    /\ UNCHANGED <<source, flaw, confirmed, review, ledger>>

Confirm(p) ==
    /\ review[p] \in {"pending_review", "snoozed"}
    /\ Current(p) /\ product[p].no > 0 /\ ~Confirmed(p)
    /\ confirmed' = [confirmed EXCEPT ![p] = product[p].no]
    /\ UNCHANGED <<source, flaw, product, review, ledger>>

Snooze(p) ==
    /\ review[p] \in {"pending_review", "snoozed"}
    /\ review' = [review EXCEPT ![p] = IF @ = "snoozed" THEN "pending_review" ELSE "snoozed"]
    /\ UNCHANGED <<source, flaw, product, confirmed, ledger>>

(* The desk's own publication, under publish.lock, as far as the run sees it:  *)
(* approved and clicked at once.                                               *)
PublishApart(p) ==
    /\ PublishFree /\ journal[p] = "none" /\ attempts[p] < MaxAttempt
    /\ review[p] = "pending_review" /\ Confirmed(p) /\ Composes(p)
    /\ PrepaidIssue(p, source[p]) = {}
    /\ attempts' = [attempts EXCEPT ![p] = @ + 1]
    /\ \E s \in {"pending", "scheduled"} :
          /\ journal' = [journal EXCEPT ![p] = s]
          /\ review' = [review EXCEPT ![p] = IF s = "pending" THEN "approved" ELSE s]
    /\ UNCHANGED <<source, flaw, product, confirmed>>

\* A person resolves an attempt, or registers that a scheduled post was deleted.
Settle(p) ==
    /\ PublishFree /\ journal[p] # "none"
    /\ \E s \in {"none", "scheduled"} \ {journal[p]} :
          /\ journal' = [journal EXCEPT ![p] = s]
          /\ review' = [review EXCEPT ![p] = IF s = "none" THEN "pending_review" ELSE s]
    /\ UNCHANGED <<source, flaw, product, confirmed, attempts>>

Beside(p) ==
    /\ Capture(p) \/ Edit(p) \/ Confirm(p) \/ Snooze(p) \/ PublishApart(p) \/ Settle(p)
    /\ Change(p)

Next == Begin \/ RunStep \/ BatchStep \/ \E p \in Posts : Beside(p)

Spec == Init /\ [][Next]_vars

-------------------------------------------------------------------------------
TypeOK ==
    /\ \A i \in items : i.post \in Posts /\ i.kind \in CandidateKinds
    /\ run.todo \subseteq Posts /\ touched \subseteq Posts
    /\ run.pc \in {"idle", "next", "pay", "paid"}
    /\ batch.pc \in {"idle", "reading", "submit", "armed", "clicked", "done"}
    /\ run.pc = "idle" \/ batch.pc = "idle"

\* The items a post calls for, by what there is and not by what happened.
Wanted(p) ==
    IF journal[p] = "scheduled" THEN {}
    ELSE IF journal[p] = "pending" THEN {Unresolved(p, source[p])}
    ELSE IF PrepaidIssue(p, source[p]) # {} THEN PrepaidIssue(p, source[p])
    ELSE IF Composes(p) THEN {Ready(p, source[p])}
    ELSE {Offline(p, source[p])}

(* ONE ANSWER PER POST.  When a run went through all its posts, a post that    *)
(* did not change meanwhile has exactly the item its state calls for, whatever *)
(* earlier runs, crashes and batches left; one that is held back has no ready  *)
(* item.  (A source that cannot be read keeps its old items: its new one is    *)
(* added by load_sources, which clears nothing.)                               *)
OneAnswer ==
    [][run.pc # "idle" /\ run.pc' = "idle" /\ run.todo = {} =>
         \A p \in Posts \ touched :
            IF Unreadable(p) THEN BoundaryIssue(p) \in items
            ELSE IF Paused(p) THEN \A i \in OpenOf(p) : i.kind # "ready_to_publish"
            ELSE OpenOf(p) = Wanted(p)]_vars

(* A BATCH STOPS AT THE FIRST DOUBT.  Behind a post of the batch whose outcome *)
(* is not certain nothing is submitted: what lies before the current post is   *)
(* scheduled, and what lies behind it has no attempt that began in this batch. *)
BatchStops ==
    batch.pc # "idle" =>
        \A n \in DOMAIN batch.rows :
            /\ n < batch.at => journal[batch.rows[n].post] = "scheduled"
            /\ n > batch.at => journal[batch.rows[n].post] = "none"

(* ANSWERED MEANS SCHEDULED.  A ready item is resolved by a batch only when    *)
(* the journal has the post's receipt.                                         *)
AnsweredIsScheduled ==
    [][\A i \in items \ items' : batch.pc # "idle" => journal[i.post] = "scheduled"]_vars
================================================================================
