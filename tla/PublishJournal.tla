----------------------------- MODULE PublishJournal -----------------------------
(* The append-only publication journal (publish/journal.py) and the scans the *)
(* program makes over it to decide whether a post may be submitted again.     *)
(*                                                                            *)
(* A row records one transition of one attempt.  An attempt covers exactly    *)
(* one post (workflow._independent_refs), so a source_ref is a post.          *)
EXTENDS Naturals, Sequences, FiniteSets

Unresolved == {"submit_ambiguous", "submitted_unverified"}

\* Mutant: an unverified submission is forgotten.
BlockingForgetsUnverified == {"submit_ambiguous", "prepared"}

Blocking == Unresolved \cup {"prepared"}

RowStatuses ==
    Blocking \cup {"scheduled", "failed_pre_submit", "cancelled_remote"}

\* The receipt of attempt a is row i: nothing later speaks of a.
LatestRow(j, a, i) ==
    /\ i \in DOMAIN j
    /\ j[i].att = a
    /\ \A k \in DOMAIN j : k > i => j[k].att # a

(* A desk attempt that failed before any click intent became durable no       *)
(* longer stands in the way; a chain that ever held an intent always does.    *)
PreClickClosed(j, a) ==
    /\ \E i \in DOMAIN j : j[i].att = a /\ j[i].desk
    /\ \A i \in DOMAIN j : j[i].att = a => j[i].status \notin Unresolved
    /\ \E i \in DOMAIN j : LatestRow(j, a, i) /\ j[i].status = "failed_pre_submit"

(* The newest row about p that a backward scan stops at: only                 *)
(* cancelled_remote rows are stepped over.                                    *)
Decisive(j, p, i) ==
    /\ i \in DOMAIN j
    /\ j[i].post = p
    /\ j[i].status # "cancelled_remote"
    /\ \A k \in DOMAIN j :
          (k > i /\ j[k].post = p) => j[k].status = "cancelled_remote"

(* pending_record_for_refs returns row i.                                     *)
PendingRow(j, p, i) ==
    /\ Decisive(j, p, i)
    /\ \/ j[i].status \in Blocking
       \/ /\ j[i].status = "failed_pre_submit"
          /\ ~j[i].manual
          /\ ~PreClickClosed(j, j[i].att)

HasPending(j, p) == \E i \in DOMAIN j : PendingRow(j, p, i)

\* Mutant: an unverified submission cannot be closed by hand.
ResolvableUnlessUnverified(j, p, i) ==
    /\ Decisive(j, p, i)
    /\ j[i].status \notin {"scheduled", "submitted_unverified"}
    /\ j[i].status = "failed_pre_submit" =>
          ~j[i].manual /\ ~PreClickClosed(j, j[i].att)

(* last_resolvable returns row i: the scan stops at the first row that is     *)
(* already closed, and otherwise at the first that can still be closed.       *)
Resolvable(j, p, i) ==
    /\ Decisive(j, p, i)
    /\ j[i].status # "scheduled"
    /\ j[i].status = "failed_pre_submit" =>
          ~j[i].manual /\ ~PreClickClosed(j, j[i].att)

(* A scheduled row counts until its own attempt is cancelled later on.        *)
CountsAsScheduled(j, p, i) ==
    /\ i \in DOMAIN j
    /\ j[i].post = p
    /\ j[i].status = "scheduled"
    /\ \A k \in DOMAIN j :
          (k > i /\ j[k].att = j[i].att) => j[k].status # "cancelled_remote"

HasSchedule(j, p) == \E i \in DOMAIN j : CountsAsScheduled(j, p, i)

(* scheduled_record_for_refs returns row i, the newest that counts.           *)
ScheduledRow(j, p, i) ==
    /\ CountsAsScheduled(j, p, i)
    /\ \A k \in DOMAIN j : k > i => ~CountsAsScheduled(j, p, k)

(* scheduled_source_refs: the posts that count as scheduled, computed by a    *)
(* second, order-blind scan.                                                  *)
ScheduledRefs(j) ==
    LET cancelled == {j[i].att : i \in {k \in DOMAIN j : j[k].status = "cancelled_remote"}}
    IN {j[i].post : i \in {k \in DOMAIN j : /\ j[k].status = "scheduled"
                                            /\ j[k].att \notin cancelled}}

\* The attempts about p whose receipt is still unresolved (reconcile).
UnresolvedAttempts(j, p) ==
    {j[i].att : i \in {k \in DOMAIN j : /\ j[k].post = p
                                        /\ LatestRow(j, j[k].att, k)
                                        /\ j[k].status \in Unresolved}}
================================================================================
