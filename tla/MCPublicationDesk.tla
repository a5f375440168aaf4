---------------------------- MODULE MCPublicationDesk ----------------------------
(* The publication of a post and the month calendar it is read back from, for  *)
(* TLC in one run: they share no state here, so that an exploration of both is *)
(* one of each.  The part that is not explored rests in an initial state.      *)
EXTENDS MCPublication

VARIABLES part, remote, rendered, reader, month, week, details, stage,
          baseline, signal, found, older, still, calm, changes

Card(at, channel, text) == [at |-> at, channel |-> channel, text |-> text]
\* One that looks like ours at its time, one close to it on the day before,
\* one of the other channel and a recommended time.
Seen == {Card(4, "facebook", "ours"), Card(3, "facebook", "other"),
         Card(4, "instagram", "other"), Card(5, "none", "advice")}
Three == {1, 2, 3}

C == INSTANCE PlannerCalendar WITH
        Ids <- Three, Mine <- 3, Looks <- Seen, LastDay <- 1, Visible <- 1,
        Target <- 4, Channel <- "facebook", Text <- "ours", Advice <- "advice",
        Gap <- 2, MaxChanges <- 1

calendar == <<remote, rendered, reader, month, week, details, stage,
              baseline, signal, found, older, still, calm, changes>>

MCInit ==
    /\ Init /\ C!Init
    /\ part \in {"publication", "calendar"}
    /\ part = "publication" => \A i \in Three : remote[i] = C!Gone
    \* Which of the two is the earlier makes no difference.
    /\ remote[1].at <= remote[2].at

MCNext ==
    \/ part = "publication" /\ UNCHANGED <<part, calendar>> /\ Next
    \/ part = "calendar" /\ UNCHANGED <<part, vars>> /\ C!Next

MCSpec ==
    /\ MCInit /\ [][MCNext]_<<part, vars, calendar>>
    /\ WorkersProceed /\ OperatorPersists
--------------------------------------------------------------------------------
(* WHAT STANDS IN THE CALENDAR IS SEEN, and a slot that is called free is free. *)
CalendarSeen == part = "calendar" => C!TypeOK /\ C!StandingSeen /\ C!FreeIsFree

(* WHAT IS CONCLUDED STANDS.  A submission is confirmed by one card, its own,  *)
(* and a cancellation is accepted when that card is gone.                      *)
CalendarConcludes == C!FoundIsAlone /\ C!CancelledIsGone
================================================================================
