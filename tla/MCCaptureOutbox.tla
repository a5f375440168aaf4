----------------------------- MODULE MCCaptureOutbox -----------------------------
(* The message outbox and the capture of posts for TLC, in one run: they share *)
(* no state, so that an exploration of both is one of each.  The part that is  *)
(* not explored rests in one of its initial states.                            *)
EXTENDS Outbox, PartCapture, TLC

CONSTANTS a, b,                        \* posts, and events of the outbox
          publish, capture, alert      \* roles

VARIABLE part

Pair == {a, b}
OnlyB == {b}
ReadyAndReceipt == (a :> "ready") @@ (b :> "scheduled")
Everyone == {publish, capture, alert}
Before == {alert, publish}
BothRoles == [k \in {"monitor_found", "monitor_saved", "ready", "scheduled", "backlog",
                     "schedule_failed", "morning", "system"} |-> {publish, capture}]

\* Bound: a second round looks at one post at most.
SecondOfOne == scans' = 2 => run'.step # "prepare" \/ Cardinality(run'.seen) <= 1

\* Bound: of two rows in an old file, the one of the group of that time was sent.
OldAlertSent ==
    Cardinality(DOMAIN deliveries) = 2 =>
        \A id \in DOMAIN deliveries : id.to = alert => deliveries[id].status = "sent"

MCInit ==
    /\ Init /\ C!Init /\ OldAlertSent
    /\ part \in {"capture", "outbox"}
    /\ part = "capture" => events = <<>>
    /\ part = "outbox" => items = [p \in Pair |-> None]

MCNext ==
    \/ part = "outbox" /\ UNCHANGED <<part, archive>> /\ Next
    \/ part = "capture" /\ UNCHANGED <<part, vars>> /\ C!Next /\ SecondOfOne

MCSpec == MCInit /\ [][MCNext]_<<part, vars, archive>>
================================================================================
