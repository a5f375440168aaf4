------------------------------ MODULE MCPaidAccess ------------------------------
(* Paid requests and the access to the platforms for TLC, in one run: they     *)
(* share no state, so that an exploration of both is one of each.  The part    *)
(* that is not explored rests in one of its initial states.                    *)
EXTENDS MCPaidRequests

CONSTANTS None, ig, x      \* an account, a post of it

VARIABLES part, now, access, reader, jobs, tick, run, trends, scans, events

Accounts == {ig}
Details == {x}
Apart == {3}
Longer == {9}
AtOnce == {0}

\* A day has 96 quarters; the exploration begins before the hours of duty do.
A == INSTANCE MonitorAccess WITH
        Platforms <- Accounts, Sampled <- Accounts, Posts <- Details,
        Day <- 96, Duty <- 32, DutyEnd <- 76, HalfHour <- 2, Floor <- 3,
        OnDuty <- Apart, OffDuty <- Longer, Early <- AtOnce, Waits <- AtOnce,
        PauseAfter <- 2, HomepageQuota <- 2, DetailQuota <- 1, PerScan <- 1,
        Start <- 30, MaxNow <- 32, MaxScans <- 2, MaxEvents <- 1

monitor == <<now, access, reader, jobs, tick, run, trends, scans, events>>

MCInit ==
    /\ Init /\ A!Init
    /\ part \in {"paid", "access"}
    /\ part = "paid" => trends = "open"

MCNext ==
    \/ part = "paid" /\ UNCHANGED <<part, monitor>> /\ Next
    \/ part = "access" /\ UNCHANGED <<part, vars>> /\ A!Next

MCSpec == MCInit /\ [][MCNext]_<<part, vars, monitor>>
--------------------------------------------------------------------------------
(* SPENDING IS BOUNDED.  The budgets are exceeded by less than one request,   *)
(* and a job whose outputs were rejected twice is not paid for again.          *)
SpendingBounded == BudgetHolds /\ RejectionsBounded

================================================================================
