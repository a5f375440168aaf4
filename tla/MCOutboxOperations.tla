--------------------------- MODULE MCOutboxOperations ---------------------------
(* The records of submissions and the message outbox, whose messages have to   *)
(* arrive in the end, for TLC in one run: they share no state, so that an      *)
(* exploration of both is one of each.  The part that is not explored rests in *)
(* an initial state.                                                           *)
EXTENDS Operations, TLC

CONSTANTS a, b,     \* events
          publish   \* a role

VARIABLES part, events, deliveries, archived, mail, desk, inbox, trouble

Pair == {a, b}
ReadyAndReceipt == (a :> "ready") @@ (b :> "scheduled")
OneRole == {publish}
ToOneRole == [k \in {"monitor_found", "monitor_saved", "ready", "scheduled", "backlog",
                     "schedule_failed", "morning", "system"} |-> OneRole]
Nothing == {}

O == INSTANCE Outbox WITH
        Events <- Pair, Kind <- ReadyAndReceipt, Roles <- OneRole, Route <- ToOneRole,
        Legacy <- Nothing, Retired <- Nothing, LegacyRoles <- Nothing,
        MaxPayload <- 1, MaxTrouble <- 1

outbox == <<events, deliveries, archived, mail, desk, inbox, trouble>>

MCInit ==
    /\ Init /\ O!Init
    /\ part \in {"operations", "outbox"}
    /\ part = "outbox" => gate

MCNext ==
    \/ part = "operations" /\ UNCHANGED <<part, outbox>> /\ Next
    \/ part = "outbox" /\ UNCHANGED <<part, vars>> /\ O!Next

MCSpec == MCInit /\ [][MCNext]_<<part, vars, outbox>> /\ O!Fairness
--------------------------------------------------------------------------------
(* TOLD IN THE END.  Every role an event goes to is told of it.                *)
EventuallyTold == part = "outbox" => O!EventuallyTold
================================================================================
