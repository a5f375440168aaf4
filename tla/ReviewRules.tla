------------------------------ MODULE ReviewRules ------------------------------
(* The decision table of the review ledger (core/review.py): which status a   *)
(* post shows, which action is admitted from it and which status an admitted  *)
(* action records.  Constant-level: the modules that keep the ledger as state *)
(* share it.                                                                  *)

ReviewStatuses == {"pending_review", "edited", "content_locked", "snoozed",
                   "approved", "scheduled", "skipped", "handed_off"}

Terminal == {"skipped", "handed_off", "scheduled"}

\* Content is frozen but not submitted: every editing entrance refuses these.
Locked == {"content_locked", "approved"}

ReviewActions == {"edited", "content_locked", "unlocked", "snoozed", "woke",
                  "skipped", "handed_off", "handoff_link", "approved",
                  "scheduled", "submit_failed", "unscheduled",
                  "image_selected", "body_reviewed", "image_reviewed"}

(* The status a reader derives from the latest event: a caller holding a      *)
(* publication receipt sees "scheduled"; an event about an older source text  *)
(* counts as not reviewed, unless it ended the review.                        *)
Shown(status, stale, receipt) ==
    IF receipt THEN "scheduled"
    ELSE IF stale /\ status \notin Terminal THEN "pending_review"
    ELSE status

(* transaction.change: the guards, in terms of the status shown.              *)
Admits(previous, action, stale, receipt) ==
    /\ previous \in Terminal =>
          \/ previous = "handed_off" /\ action = "handoff_link"
          \/ previous = "scheduled" /\ action = "scheduled" /\ receipt
          \/ previous = "scheduled" /\ action = "unscheduled"
    /\ action = "unscheduled" => previous = "scheduled"
    /\ previous = "approved" => action \in {"scheduled", "submit_failed"}
    /\ previous = "content_locked" =>
          action \in {"approved", "unlocked", "skipped", "handed_off"}
    /\ action = "content_locked" => previous \in {"pending_review", "edited"}
    /\ action = "unlocked" => previous = "content_locked"
    /\ action = "approved" => previous = "content_locked"
    /\ action = "woke" => previous = "snoozed" \/ stale
    /\ action = "handoff_link" => previous = "handed_off"
    /\ action = "scheduled" => receipt

(* The status the new event records.  A snoozed post that is edited or        *)
(* confirmed stays snoozed.                                                   *)
Recorded(previous, action) ==
    CASE action \in {"woke", "submit_failed", "unscheduled"} -> "pending_review"
      [] action = "handoff_link" -> "handed_off"
      [] action \in {"body_reviewed", "image_reviewed"} -> previous
      [] action \in {"edited", "image_selected"} ->
            IF previous = "snoozed" THEN "snoozed" ELSE "edited"
      [] action = "unlocked" -> "edited"
      [] OTHER -> action
================================================================================
