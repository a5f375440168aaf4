----------------------------- MODULE MonitorAccess -----------------------------
(* core/monitor_access.py and its users.  Every entrance that drives the       *)
(* detect browser - the scheduler's rounds (pipeline/scheduler.py), a person's *)
(* rounds (routes/delta.py), the repair of one post, the hashtag sampling and  *)
(* the Trends export - records an intent in one file before it navigates, and  *)
(* all of them share its quotas, its next due time and its stop.  The run lock *)
(* (delta.lock) lets one of them use the browser at a time; only a person's    *)
(* recovery writes the file without it.  Time passes in quarters of an hour.   *)
EXTENDS Integers, FiniteSets, Sequences

CONSTANTS
    Platforms,          \* the accounts that are watched
    Sampled,            \* those whose tag pages the hashtag sampling visits
    Posts,              \* posts whose detail page a round may open
    None,
    Day,                \* quarters of a day
    Duty, DutyEnd,      \* the hours of duty
    HalfHour, Floor,    \* thirty and forty-five minutes
    OnDuty, OffDuty,    \* the drawn distances between two ordinary visits
    Early, Waits,       \* the drawn delays of the day's first and of the morning's visit
    PauseAfter,         \* failures that pause a platform
    HomepageQuota, DetailQuota, PerScan,
    Start, MaxNow, MaxScans, MaxEvents   \* bounds

Reconcile == "reconcile"

VARIABLES
    now,        \* the clock
    access,     \* monitor_access.json: the stop and each platform's entry
    reader,     \* a person's page: the stop it shows; current while nobody has saved since
    jobs,       \* scheduler.json: the morning job of each platform
    tick,       \* the scheduler's walk over the platforms
    run,        \* the holder of the run lock
    trends,     \* trends_export_state.json: blocked or open
    scans, events   \* bounds: scans; crashes and Trends exports

vars == <<now, access, reader, jobs, tick, run, trends, scans, events>>

Date(t) == t \div Day
Local(t) == t % Day
MorningOpens(d) == d * Day + Duty - 3 * HalfHour
MorningCloses(d) == d * Day + Duty - HalfHour
InMorning(t) == MorningOpens(Date(t)) <= t /\ t <= MorningCloses(Date(t))
NearDuty(t) == Duty - HalfHour < Local(t) /\ Local(t) < Duty
Later(s, t) == IF s < t THEN t ELSE s

(* The draw of the next ordinary visit after a moment t.                       *)
NextHomepageDue(t) ==
    LET interval == IF Duty <= Local(t) /\ Local(t) < DutyEnd THEN OnDuty ELSE OffDuty
        start == (IF Local(t) >= Duty THEN Date(t) + 1 ELSE Date(t)) * Day + Duty
        Drawn(next) == IF next > start \/ (start - HalfHour < next /\ next < start)
                       THEN {Later(start + e, t + Floor) : e \in Early} ELSE {next}
    IN UNION {Drawn(t + i) : i \in interval}

(* The window of the first morning that is not over at t.                      *)
ReconcilePlan(t) ==
    LET d == IF t <= MorningCloses(Date(t)) THEN Date(t) ELSE Date(t) + 1
        drawn == {Later(t, MorningOpens(d)) + w : w \in Waits}
    IN {[at |-> a, date |-> d] : a \in {a \in drawn : a <= MorningCloses(d)}}

Visits(a, p) == {i \in a.plat[p].intents : i.kind = "homepage"}
Mornings(a, p) == {i \in Visits(a, p) : i.run = Reconcile}
Closed(a, p) == a.stop # None \/ a.plat[p].paused

Recent(a, p, kind) == {i \in a.plat[p].intents : i.kind = kind /\ i.at > now - Day}

Unread == [current |-> FALSE, stop |-> None]

Save(a) == access' = a /\ reader' = Unread

Home(rk, scan) == [kind |-> "homepage", run |-> rk, scan |-> scan, post |-> None, at |-> now]
Detail(rk, scan, post) == [kind |-> "detail", run |-> rk, scan |-> scan, post |-> post, at |-> now]

HomepageAllowed(a, p, rk, scan) ==
    /\ ~Closed(a, p)
    /\ rk = Reconcile => InMorning(now) /\ a.plat[p].morning # Date(now)
    /\ now >= a.plat[p].due
    /\ Cardinality(Recent(a, p, "homepage")) < HomepageQuota
    /\ \A i \in Visits(a, p) : i.scan # scan

Merged(rk) == rk # Reconcile /\ NearDuty(now)

(* reserve_homepage: a visit just before duty is merged into the first one of  *)
(* the day and refused; any other visit is written down, with the next draw.   *)
MergeVisit(p) ==
    \E e \in Early : Save([access EXCEPT !.plat[p].due = Date(now) * Day + Duty + e])

GrantVisit(p, rk, scan) ==
    \E d \in NextHomepageDue(now) :
        Save([access EXCEPT !.plat[p] =
            [@ EXCEPT !.due = d, !.intents = @ \cup {Home(rk, scan)},
                      !.morning = IF rk = Reconcile THEN Date(now) ELSE @]])

DetailAllowed(p, scan, post, manual) ==
    LET seen == {i \in access.plat[p].intents : i.kind = "detail" /\ i.scan = scan}
    IN /\ ~Closed(access, p)
       /\ Cardinality(Recent(access, p, "detail")) < DetailQuota
       /\ manual \/ \E i \in Visits(access, p) : i.scan = scan
       /\ Cardinality(seen) < PerScan
       /\ \A i \in seen : i.post # post

(* plan_homepage: the scheduler moves the due time, never under the floor.     *)
Planned(p, when) ==
    LET last == {i.at + Floor : i \in Visits(access, p)}
    IN IF \A t \in last : t <= when THEN when
       ELSE CHOOSE t \in last : \A u \in last : u <= t

(* outcome: failures count up to the pause; a failed visit is not due at once. *)
Outcome(a, p, ok, hard, d) ==
    LET e == a.plat[p]
        failures == IF ~ok THEN (IF e.failures < PauseAfter THEN e.failures + 1 ELSE PauseAfter)
                    ELSE IF e.paused THEN e.failures ELSE 0
    IN [a EXCEPT !.stop = IF hard THEN p ELSE @,
                 !.plat[p].due = IF ~ok /\ @ <= now THEN d ELSE @,
                 !.plat[p].failures = failures,
                 !.plat[p].paused = @ \/ (~ok /\ failures = PauseAfter)]

FailedAll(ps) ==
    \E d \in [ps -> NextHomepageDue(now)] :
        Save([access EXCEPT !.plat = [p \in Platforms |->
            IF p \in ps THEN Outcome(access, p, FALSE, FALSE, d[p]).plat[p] ELSE @[p]]])

-------------------------------------------------------------------------------
NoTick == [step |-> "idle", todo |-> {}, p |-> None, regular |-> 0, queue |-> <<>>,
           merge |-> FALSE, attempted |-> FALSE, before |-> 0, rc |-> 0]
NoRun == [who |-> None, kind |-> None, todo |-> <<>>, scan |-> 0, step |-> "none", rc |-> 0]

(* initialize: a person starts the file; an earlier Trends block is its stop.   *)
Init ==
    /\ now = Start /\ trends \in {"open", "blocked"}
    /\ access = [stop |-> IF trends = "blocked" THEN "trends" ELSE None, plat |-> [p \in Platforms |->
                    [failures |-> 0, paused |-> FALSE, due |-> Start, morning |-> None, intents |-> {}]]]
    /\ reader = Unread
    /\ jobs = [p \in Platforms |-> [at |-> None, date |-> None, error |-> FALSE]]
    /\ tick = NoTick /\ run = NoRun /\ scans = 0 /\ events = 0

Pass == now < MaxNow /\ now' = now + 1
        /\ UNCHANGED <<access, reader, jobs, tick, run, trends, scans, events>>

-------------------------------------------------------------------------------
(* The scheduler.  A tick makes sure the jobs exist, then takes the platforms  *)
(* one after the other; the regular visit's time is read from the access file  *)
(* when the tick starts.                                                       *)
TickStart ==
    /\ tick.step = "idle"
    /\ \E plan \in [Platforms -> ReconcilePlan(now)] :
          jobs' = [p \in Platforms |-> IF jobs[p].at # None THEN jobs[p]
                                       ELSE [at |-> plan[p].at, date |-> plan[p].date, error |-> FALSE]]
    /\ \E p \in Platforms :
          tick' = [NoTick EXCEPT !.step = "merge", !.todo = Platforms \ {p}, !.p = p,
                                 !.regular = access.plat[p].due]
    /\ UNCHANGED <<now, access, reader, run, trends, scans, events>>

Deadline(p) == MorningCloses(jobs[p].date)

NextPlatform(t) ==
    IF t.todo = {} THEN NoTick
    ELSE LET q == CHOOSE q \in t.todo : TRUE
         IN [NoTick EXCEPT !.step = "merge", !.todo = t.todo \ {q}, !.p = q, !.regular = access.plat[q].due]

Order(p, regular) == IF jobs[p].at <= regular THEN <<Reconcile, "delta">> ELSE <<"delta", Reconcile>>

(* An ordinary slot near the morning scan is moved onto it, under the run lock.*)
TickMerge ==
    LET p == tick.p
        near == tick.regular - jobs[p].at < Floor /\ jobs[p].at - tick.regular < Floor
    IN /\ tick.step = "merge"
       /\ \/ /\ ~(near /\ now <= Deadline(p))
             /\ tick' = [tick EXCEPT !.step = "job", !.merge = near, !.queue = Order(p, tick.regular)]
             /\ UNCHANGED <<access, reader>>
          \/ /\ near /\ now <= Deadline(p) /\ run # NoRun
             /\ tick' = NextPlatform(tick)
             /\ UNCHANGED <<access, reader>>
          \/ /\ near /\ now <= Deadline(p) /\ run = NoRun
             /\ LET when == Planned(p, jobs[p].at)
                IN /\ IF when = access.plat[p].due THEN UNCHANGED <<access, reader>>
                      ELSE Save([access EXCEPT !.plat[p].due = when])
                   /\ tick' = [tick EXCEPT !.step = "job", !.merge = TRUE, !.regular = when,
                                           !.queue = Order(p, when)]
       /\ UNCHANGED <<now, jobs, run, trends, scans, events>>

Done(t) == IF Len(t.queue) > 1 THEN [t EXCEPT !.step = "job", !.queue = Tail(@)] ELSE NextPlatform(t)

NotNow(t) ==
    \/ Head(t.queue) = "delta" /\ t.regular > now
    \/ Head(t.queue) = Reconcile /\ jobs[t.p].at > now
    \/ Head(t.queue) = "delta" /\ (t.attempted \/ (t.merge /\ now <= Deadline(t.p)))

TickSkip ==
    /\ tick.step = "job" /\ NotNow(tick)
    /\ tick' = Done(tick)
    /\ UNCHANGED <<now, access, reader, jobs, run, trends, scans, events>>

(* A missed morning is written down and never made up for.                     *)
TickExpired ==
    /\ tick.step = "job" /\ ~NotNow(tick)
    /\ Head(tick.queue) = Reconcile /\ now > Deadline(tick.p)
    /\ \E plan \in ReconcilePlan((Date(now) + 1) * Day) :
          jobs' = [jobs EXCEPT ![tick.p] = [at |-> plan.at, date |-> plan.date, error |-> TRUE]]
    /\ tick' = [Done(tick) EXCEPT !.merge = FALSE,
                   !.regular = IF Len(tick.queue) > 1 THEN access.plat[tick.p].due ELSE @]
    /\ UNCHANGED <<now, access, reader, run, trends, scans, events>>

(* The probe of the run lock before a visit: busy puts the job back as it was; *)
(* a closed platform ends it with an error; the morning visit is planned now,  *)
(* or later when the floor says so.                                            *)
TickProbe ==
    LET p == tick.p
        kind == Head(tick.queue)
        when == Planned(p, now)
        call == [tick EXCEPT !.step = "call", !.before = Cardinality(Mornings(access, p))]
    IN /\ tick.step = "job" /\ ~NotNow(tick)
       /\ ~(kind = Reconcile /\ now > Deadline(p))
       /\ \/ run # NoRun /\ tick' = Done(tick) /\ UNCHANGED <<access, reader, jobs>>
          \/ /\ run = NoRun /\ Closed(access, p)
             /\ tick' = [call EXCEPT !.step = "back", !.rc = 1]
             /\ UNCHANGED <<access, reader, jobs>>
          \/ /\ run = NoRun /\ ~Closed(access, p) /\ kind = "delta"
             /\ tick' = call
             /\ UNCHANGED <<access, reader, jobs>>
          \/ /\ run = NoRun /\ ~Closed(access, p) /\ kind = Reconcile
             /\ IF when = access.plat[p].due THEN UNCHANGED <<access, reader>>
                ELSE Save([access EXCEPT !.plat[p].due = when])
             /\ IF when > now
                THEN jobs' = [jobs EXCEPT ![p].at = when] /\ tick' = Done(tick)
                ELSE tick' = call /\ UNCHANGED jobs
       /\ UNCHANGED <<now, run, trends, scans, events>>


(* What came of the visit: a lock lost in between (75) leaves the job as it was;*)
(* otherwise the job moves on, and a morning without a visit carries an error. *)
TickBack ==
    LET p == tick.p
        kind == Head(tick.queue)
        navigated == Cardinality(Mornings(access, p)) > tick.before
    IN /\ tick.step = "back"
       /\ \/ tick.rc = 75 /\ UNCHANGED jobs /\ tick' = [Done(tick) EXCEPT !.rc = 0]
          \/ /\ tick.rc # 75 /\ kind = "delta"
             /\ UNCHANGED jobs
             /\ tick' = [Done(tick) EXCEPT !.rc = 0,
                            !.regular = IF Len(tick.queue) > 1 THEN access.plat[p].due ELSE @]
          \/ /\ tick.rc # 75 /\ kind = Reconcile
             /\ \E plan \in ReconcilePlan((Date(now) + 1) * Day) :
                   jobs' = [jobs EXCEPT ![p] = [at |-> plan.at, date |-> plan.date,
                                                error |-> tick.rc # 0 \/ ~navigated]]
             /\ tick' = [Done(tick) EXCEPT !.rc = 0, !.merge = FALSE,
                            !.attempted = Len(tick.queue) > 1,
                            !.regular = IF Len(tick.queue) > 1 THEN access.plat[p].due ELSE @]
       /\ UNCHANGED <<now, access, reader, run, trends, scans, events>>

-------------------------------------------------------------------------------
(* A round: _run_locked keeps the platforms that are due, _run_due visits them.*)
Ended(who, rc) ==
    /\ run' = NoRun
    /\ tick' = IF who = "scheduler" THEN [tick EXCEPT !.step = "back", !.rc = rc] ELSE tick

Begin(who, kind, ps) ==
    LET open(p) == ~Closed(access, p)
        due == SelectSeq(ps, LAMBDA p : open(p) /\ now >= access.plat[p].due)
        rc == IF \A i \in DOMAIN ps : open(ps[i]) THEN 0 ELSE 2
    IN /\ \/ due = <<>> /\ Ended(who, rc) /\ UNCHANGED <<access, reader>>
          \/ due # <<>> /\ FailedAll({due[i] : i \in DOMAIN due}) /\ Ended(who, 1)   \* no browser
          \/ /\ due # <<>>
             /\ run' = [NoRun EXCEPT !.who = who, !.kind = kind, !.todo = due, !.step = "reserve", !.rc = rc]
             /\ UNCHANGED <<access, reader, tick>>
       /\ UNCHANGED <<now, jobs, trends, scans, events>>

Called ==
    /\ tick.step = "call"
    /\ \/ run = NoRun /\ Begin("scheduler", Head(tick.queue), <<tick.p>>)
       \/ /\ run.who \notin {None, "scheduler"}   \* another entrance took the lock in between
          /\ tick' = [tick EXCEPT !.step = "back", !.rc = 75]
          /\ UNCHANGED <<now, access, reader, jobs, run, trends, scans, events>>

ByHand == \E p \in Platforms : run = NoRun /\ Begin("person", "delta", <<p>>)

NextVisit(r, rc) ==
    IF Len(r.todo) > 1 THEN run' = [r EXCEPT !.todo = Tail(@), !.step = "reserve", !.rc = rc] /\ UNCHANGED tick
    ELSE Ended(r.who, rc)

(* The intent is on disk before the page is opened; an entrance that is        *)
(* refused leaves the page alone.  Sampling gives up at the first refusal.     *)
Reserve ==
    LET p == Head(run.todo)
        refused == IF run.kind = "sampling" THEN Ended(run.who, 2) ELSE NextVisit(run, 2)
        allowed == HomepageAllowed(access, p, run.kind, scans + 1)
    IN /\ run.step = "reserve" /\ scans < MaxScans
       /\ \/ ~Closed(access, p) /\ Merged(run.kind) /\ MergeVisit(p) /\ refused /\ UNCHANGED scans
          \/ /\ ~(Merged(run.kind) /\ ~Closed(access, p)) /\ ~allowed
             /\ refused /\ UNCHANGED <<access, reader, scans>>
          \/ /\ ~Merged(run.kind) /\ allowed
             /\ GrantVisit(p, run.kind, scans + 1)
             /\ scans' = scans + 1
             /\ run' = [run EXCEPT !.step = "page", !.scan = scans + 1]
             /\ UNCHANGED tick
       /\ UNCHANGED <<now, jobs, trends, events>>

(* The page's posts whose facts are incomplete are opened one at a time.       *)
OpenDetail ==
    LET p == Head(run.todo)
    IN /\ run.step = "page" /\ run.kind \in {"delta", Reconcile}
       /\ \E post \in Posts :
             /\ DetailAllowed(p, run.scan, post, FALSE)
             /\ Save([access EXCEPT !.plat[p].intents = @ \cup {Detail("delta", run.scan, post)}])
       /\ UNCHANGED <<now, jobs, tick, run, trends, scans, events>>

PageEnd ==
    LET p == Head(run.todo)
    IN /\ run.step = "page"
       /\ \/ Save(Outcome(access, p, TRUE, FALSE, 0)) /\ NextVisit(run, run.rc)
          \/ /\ \E d \in NextHomepageDue(now) : Save(Outcome(access, p, FALSE, FALSE, d))
             /\ NextVisit(run, 1)
          \/ /\ \E d \in NextHomepageDue(now) : Save(Outcome(access, p, FALSE, TRUE, d))
             /\ Ended(run.who, 1)            \* the page was refused: the whole profile stops
       /\ UNCHANGED <<now, jobs, trends, scans, events>>

(* The sampling of one or more tag pages; the first intent is written before   *)
(* the browser is attached, each further page takes an intent of its own.      *)
Sample ==
    /\ run = NoRun
    /\ \E p \in Sampled, ps \in 1 .. 2 :
          /\ ~Closed(access, p)
          /\ run' = [NoRun EXCEPT !.who = "sampling", !.kind = "sampling", !.step = "reserve",
                                  !.todo = [i \in 1 .. ps |-> p]]
    /\ UNCHANGED <<now, access, reader, jobs, tick, trends, scans, events>>

(* A person's repair of one post: no visit of the homepage; one detail page    *)
(* under a scan of its own, or only its pictures, whose failure counts.        *)
RepairPost ==
    /\ run = NoRun
    /\ \E p \in Platforms :
          /\ ~Closed(access, p)
          /\ \/ FailedAll({p}) /\ UNCHANGED <<run, scans>>
             \/ /\ scans < MaxScans /\ scans' = scans + 1
                /\ \E post \in Posts :
                      /\ DetailAllowed(p, scans + 1, post, TRUE)
                      /\ Save([access EXCEPT !.plat[p].intents = @ \cup {Detail("recovery", scans + 1, post)}])
                /\ run' = [NoRun EXCEPT !.who = "person", !.kind = "recovery", !.todo = <<p>>,
                                        !.step = "page", !.scan = scans + 1]
    /\ UNCHANGED <<now, jobs, tick, trends, events>>

-------------------------------------------------------------------------------
(* The Trends export: its own record stops it, and its stop is the profile's.  *)
ProfileStop == Save([access EXCEPT !.stop = "trends"])

TrendsExport ==
    /\ run = NoRun /\ events < MaxEvents /\ events' = events + 1
    /\ \/ trends = "blocked" /\ ProfileStop /\ UNCHANGED <<run, trends>>
       \/ /\ trends # "blocked" /\ access.stop # None
          /\ trends' = "blocked" /\ UNCHANGED <<access, reader, run>>
       \/ /\ trends # "blocked" /\ access.stop = None
          /\ run' = [NoRun EXCEPT !.who = "trends", !.step = "trends"]
          /\ UNCHANGED <<access, reader, trends>>
    /\ UNCHANGED <<now, jobs, tick, scans>>

TrendsEnd ==
    /\ run.step = "trends" /\ run' = NoRun
    /\ \/ trends' = "open" /\ UNCHANGED <<access, reader>>
       \/ trends' = "blocked" /\ ProfileStop
    /\ UNCHANGED <<now, jobs, tick, scans, events>>

TrendsReset ==
    /\ run = NoRun /\ trends = "blocked" /\ trends' = "open"
    /\ UNCHANGED <<now, access, reader, jobs, tick, run, scans, events>>

-------------------------------------------------------------------------------
(* A person finds the browser closed, reads the state and later recovers what  *)
(* was read: the whole profile, or one platform, which leaves the stop.        *)
Look ==
    /\ ~reader.current /\ \E p \in Platforms : Closed(access, p)
    /\ reader' = [current |-> TRUE, stop |-> access.stop]
    /\ UNCHANGED <<now, access, jobs, tick, run, trends, scans, events>>

Recover ==
    /\ reader.current
    /\ \E ps \in {{p} : p \in Platforms} \cup {Platforms}, all \in BOOLEAN :
          /\ all => ps = Platforms
          /\ Save([stop |-> IF all THEN None ELSE access.stop,
                   plat |-> [p \in Platforms |-> IF p \in ps
                       THEN [access.plat[p] EXCEPT !.failures = 0, !.paused = FALSE] ELSE access.plat[p]]])
    /\ UNCHANGED <<now, jobs, tick, run, trends, scans, events>>

(* A process dies: its lock is free; the scheduler's walk is forgotten.        *)
Crash ==
    /\ events < MaxEvents /\ events' = events + 1
    /\ \/ run.who \notin {None, "scheduler"} /\ run' = NoRun /\ UNCHANGED tick
       \/ /\ tick # NoTick /\ tick' = NoTick
          /\ run' = IF run.who = "scheduler" THEN NoRun ELSE run
    /\ UNCHANGED <<now, access, reader, jobs, trends, scans>>

Next ==
    \/ Pass \/ TickStart \/ TickMerge \/ TickSkip \/ TickExpired \/ TickProbe \/ TickBack
    \/ Called \/ ByHand \/ Reserve \/ OpenDetail \/ PageEnd \/ Sample \/ RepairPost
    \/ TrendsExport \/ TrendsEnd \/ TrendsReset \/ Look \/ Recover \/ Crash

Spec == Init /\ [][Next]_vars

-------------------------------------------------------------------------------
(* status() refuses a file whose parts disagree, and nothing may use the       *)
(* browser until a person repairs it.  No order of the writers (:176-267)      *)
(* produces such a file: a third failure is a pause, the consumed morning is   *)
(* the last morning visit, and there is one a day, in its window (:62-93).     *)
FileStaysReadable ==
    \A p \in Platforms :
        LET e == access.plat[p]
            dates == {Date(i.at) : i \in Mornings(access, p)}
        IN /\ e.failures >= PauseAfter => e.paused
           /\ \A i \in Mornings(access, p) : InMorning(i.at)
           /\ \A i, j \in Mornings(access, p) : Date(i.at) = Date(j.at) => i = j
           /\ e.morning = IF dates = {} THEN None ELSE CHOOSE d \in dates : \A c \in dates : c <= d

(* Between two visits of a homepage lie at least 45 minutes, whoever makes     *)
(* them: the draw (:33-43), the scheduler's plan (:214-227), a round by hand   *)
(* and the repair of a failed visit all move the same due time.  Across the    *)
(* start of duty, where a sampling may be merged (:183-186), it is half an hour.*)
Crosses(i, j) == Date(i.at) = Date(j.at) /\ Local(i.at) < Duty /\ Local(j.at) >= Duty

VisitsSpaced ==
    \A p \in Platforms : \A i, j \in Visits(access, p) :
        i.scan < j.scan => j.at - i.at >= IF Crosses(i, j) THEN HalfHour ELSE Floor

(* The rolling day's quotas of the homepage and of the details hold at every   *)
(* moment, over all entrances, events and recoveries (:195-206).              *)
QuotasHold ==
    \A p \in Platforms : \A j \in access.plat[p].intents :
        Cardinality({i \in access.plat[p].intents : i.kind = j.kind /\ i.at <= j.at /\ i.at > j.at - Day})
            <= IF j.kind = "homepage" THEN HomepageQuota ELSE DetailQuota

(* The scheduler leaves a morning behind only with the visit made or with an   *)
(* error on the job (scheduler.py:176-243): a lock held by somebody else, a    *)
(* refused entrance, a missed window and a crash never lose one silently.      *)
MorningAccounted ==
    [][\A p \in Platforms : jobs[p].date # None /\ jobs'[p].date # jobs[p].date =>
          \/ jobs'[p].error
          \/ \E i \in Mornings(access, p) : Date(i.at) = jobs[p].date]_vars

(* A stop of the profile goes only when a person recovers it who has read that *)
(* stop (:252-267): a stop raised after the reading survives the recovery.     *)
LiftedKnowingly ==
    [][access.stop # None /\ access'.stop = None => reader.current /\ reader.stop = access.stop]_vars
================================================================================
