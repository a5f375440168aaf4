------------------------------- MODULE Maintenance -------------------------------
(* Admission and cooperative maintenance of one managed instance.             *)
(*   core/maintenance.py         the gate: operations, sessions, quiescence   *)
(*   web/api/deployment.py       the admission of requests, session reports   *)
(*   web/ui/.../deployment-store the protocol that an editing tab follows     *)
(*                                                                            *)
(* The gate's file is written under one lock, so each of its operations is a  *)
(* step.  A tab reads the status, reports what it holds and freezes itself;   *)
(* its requests and their answers are delayed, lost or overtaken.             *)
(*                                                                            *)
(* Time advances in units of which a request outstanding sees none.  Ages     *)
(* stand for stamps and stop counting where the code no longer distinguishes  *)
(* them; an epoch is known by whether it is the current one.                  *)
EXTENDS Integers, Sequences, FiniteSets

CONSTANTS
    Tabs,             \* browser tabs
    Jobs,             \* background jobs that requests start
    Fresh,            \* how long a tab trusts a status (15 seconds)
    SessionAge,       \* how long a clean tab is waited for (60 seconds)
    Delay,            \* from the announcement to the earliest quiescence (60 s)
    MaxWire           \* bound: reports of one tab under way

\* A status is trusted for less than the gate waits: 15 seconds and 60.
ASSUME MaintenanceAssumption ==
    /\ Tabs \cap Jobs = {}
    /\ Fresh \in Nat \ {0} /\ SessionAge \in Nat \ {0} /\ Delay \in Nat /\ Fresh < Delay
    /\ MaxWire \in Nat \ {0}

VARIABLES
    gate,         \* maintenance.json: phase, time waited, operations, sessions
    tab,          \* what each tab believes and holds
    wire,         \* [Tabs -> Seq(Message)]: reports the server has not processed
    jobs,         \* background jobs accepted and not ended
    crashed       \* operations whose worker died

vars == <<gate, tab, wire, jobs, crashed>>

Phases == {"open", "announcing", "quiesced"}

\* ack: of the current epoch; late: the session's watermark has passed it; mine: its tab still waits for it.
Message == [dirty : BOOLEAN, busy : BOOLEAN, ack : BOOLEAN, closed : BOOLEAN,
            late : BOOLEAN, mine : BOOLEAN]

Row == [known : BOOLEAN, dirty : BOOLEAN, busy : BOOLEAN, ack : BOOLEAN, closed : BOOLEAN,
        age : 0 .. SessionAge + 1]

NoRow == [known |-> FALSE, dirty |-> FALSE, busy |-> FALSE, ack |-> FALSE,
          closed |-> TRUE, age |-> 0]

\* A status as read: the phase, whether its epoch is current, whether the page fits.
Status == [phase : Phases \cup {"none"}, current : BOOLEAN, fits : BOOLEAN]

NoStatus == [phase |-> "none", current |-> FALSE, fits |-> TRUE]

\* changed, superseded: something was changed, a status was asked for, since the
\* report under way was composed; known: the server confirmed the present draft.
Tab == [life : {"new", "open", "gone"}, page : {"current", "past"},
        seen : Status, age : 0 .. Fresh + 1, asked : Status,
        connected : BOOLEAN, registered : BOOLEAN,
        dirty : BOOLEAN, request : {"none", "sent", "admitted"},
        desired : BOOLEAN, sending : {"no", "sent", "served"},
        changed : BOOLEAN, superseded : BOOLEAN, known : BOOLEAN]

NewTab == [life |-> "new", page |-> "current", seen |-> NoStatus, age |-> 0, asked |-> NoStatus,
           connected |-> FALSE, registered |-> FALSE, dirty |-> FALSE, request |-> "none",
           desired |-> FALSE, sending |-> "no", changed |-> FALSE, superseded |-> FALSE,
           known |-> FALSE]

Gone == [NewTab EXCEPT !.life = "gone"]

(* TYPES.                                                                     *)
TypeOK ==
    /\ gate.phase \in Phases
    /\ gate.waited \in 0 .. Delay
    /\ gate.operations \subseteq Tabs \cup Jobs
    /\ gate.sessions \in [Tabs -> Row]
    /\ tab \in [Tabs -> Tab]
    /\ \A t \in Tabs : wire[t] \in Seq(Message) /\ Len(wire[t]) <= MaxWire
    /\ jobs \subseteq Jobs
    /\ crashed \subseteq gate.operations

Init ==
    /\ gate = [phase |-> "open", waited |-> 0, operations |-> {},
               sessions |-> [t \in Tabs |-> NoRow]]
    /\ tab = [t \in Tabs |-> NewTab]
    /\ wire = [t \in Tabs |-> <<>>]
    /\ jobs = {}
    /\ crashed = {}

Later(n, bound) == IF n = bound THEN n ELSE n + 1
-----------------------------------------------------------------------------
(* THE GATE.                                                                  *)

Live == gate.operations \ crashed

\* A tab that closed with nothing unsaved, and one silent for long, is not waited for.
Expires(row) == row.known /\ ~row.closed /\ ~row.dirty /\ ~row.busy

\* A unit of time without a word from the tab.
Silent(row) == [row EXCEPT !.age = IF Expires(row) THEN Later(@, SessionAge + 1) ELSE @]

BlockedBy(row) ==
    row.dirty \/ row.busy \/ (Expires(row) /\ row.age <= SessionAge /\ ~row.ack)

Blockers == {t \in Tabs : BlockedBy(gate.sessions[t])}

\* Mutant: no time is left for the tabs to learn of it.
AnnounceAtOnce ==
    /\ gate.phase # "quiesced"
    /\ gate' = [gate EXCEPT !.phase = "announcing", !.waited = Delay,
                            !.sessions = [t \in Tabs |-> [@[t] EXCEPT !.ack = FALSE]]]
    /\ tab' = [t \in Tabs |-> [tab[t] EXCEPT !.seen.current = FALSE, !.asked.current = FALSE]]
    /\ wire' = [t \in Tabs |-> [i \in DOMAIN wire[t] |-> [wire[t][i] EXCEPT !.ack = FALSE]]]
    /\ UNCHANGED <<jobs, crashed>>

\* A new epoch: what acknowledged an earlier announcement counts no more.
Announce ==
    /\ gate.phase # "quiesced"
    /\ gate' = [gate EXCEPT !.phase = "announcing", !.waited = 0,
                            !.sessions = [t \in Tabs |-> [@[t] EXCEPT !.ack = FALSE]]]
    /\ tab' = [t \in Tabs |-> [tab[t] EXCEPT !.seen.current = FALSE, !.asked.current = FALSE]]
    /\ wire' = [t \in Tabs |-> [i \in DOMAIN wire[t] |-> [wire[t][i] EXCEPT !.ack = FALSE]]]
    /\ UNCHANGED <<jobs, crashed>>

\* The operations of dead workers are put on record as interrupted.
TryQuiesce ==
    /\ gate.phase = "announcing" /\ gate.waited = Delay
    /\ Live = {} /\ Blockers = {}
    /\ gate' = [gate EXCEPT !.phase = "quiesced", !.operations = {}]
    /\ crashed' = {}
    /\ UNCHANGED <<tab, wire, jobs>>

Reopen ==
    /\ gate.phase # "open"
    /\ gate' = [gate EXCEPT !.phase = "open", !.waited = 0]
    /\ UNCHANGED <<tab, wire, jobs, crashed>>

\* A tab asks for half an hour; when that is over is when Announce is next taken.
Defer ==
    /\ gate.phase = "announcing"
    /\ gate' = [gate EXCEPT !.phase = "open", !.waited = 0]
    /\ UNCHANGED <<tab, wire, jobs, crashed>>

\* Workers are asked to stop, and another version serves the pages from now on.
RequestStop ==
    /\ gate.phase = "quiesced" /\ gate.operations = {} /\ Blockers = {}
    /\ tab' = [t \in Tabs |-> [tab[t] EXCEPT !.page = IF tab[t].life = "open" THEN "past" ELSE @]]
    /\ tab' # tab
    /\ UNCHANGED <<gate, wire, jobs, crashed>>

\* A worker dies with all it does; its operations stay registered.
WorkerDies ==
    /\ Live # {}
    /\ crashed' = gate.operations
    /\ jobs' = {}
    /\ UNCHANGED <<gate, tab, wire>>

\* The operator: the tab is gone.  With the row goes its watermark.
ClearSession(t) ==
    /\ tab[t].life = "gone" /\ gate.sessions[t].known
    /\ gate' = [gate EXCEPT !.sessions[t] = NoRow]
    /\ wire' = [wire EXCEPT ![t] = [i \in DOMAIN @ |-> [@[i] EXCEPT !.late = FALSE]]]
    /\ UNCHANGED <<tab, jobs, crashed>>
-----------------------------------------------------------------------------
(* THE TAB'S VIEW OF THE SERVICE.                                             *)

Conflict(b) == ~b.seen.fits

Frozen(b) ==
    \/ ~b.connected \/ ~b.registered \/ Conflict(b)
    \/ b.seen.phase = "quiesced"
    \/ b.seen.phase = "announcing" /\ ~b.dirty

InteractionsBlocked(b) == Frozen(b) \/ b.age > Fresh

\* Off line a tab is frozen whatever it saw; what changed since, or superseded it,
\* matters to a report under way only.
Unsure(seen) == [NoStatus EXCEPT !.phase = IF seen = NoStatus THEN "none" ELSE "open",
                                 !.fits = seen.fits]

Uncertain(b) == [b EXCEPT !.connected = FALSE, !.registered = FALSE, !.asked = NoStatus,
                          !.age = 0, !.seen = Unsure(@), !.superseded = b.sending # "no"]

Changed(b) == [b EXCEPT !.changed = b.sending # "no", !.desired = b.seen.phase # "none", !.known = FALSE]

Asking(b) == [b EXCEPT !.superseded = b.sending # "no",
                       !.asked = [phase |-> gate.phase, current |-> gate.phase = "announcing",
                                  fits |-> b.page = "current"]]

Open(t) ==
    /\ tab[t].life = "new"
    /\ tab' = [tab EXCEPT ![t].life = "open"]
    /\ UNCHANGED <<gate, wire, jobs, crashed>>

Refresh(t) ==
    /\ tab[t].life = "open" /\ tab[t].asked = NoStatus
    /\ tab' = [tab EXCEPT ![t] = Asking(IF @.age > Fresh THEN Uncertain(@) ELSE @)]
    /\ UNCHANGED <<gate, wire, jobs, crashed>>

Refreshed(t) ==
    /\ tab[t].asked # NoStatus
    /\ tab' = [tab EXCEPT ![t] = [@ EXCEPT !.seen = tab[t].asked, !.asked = NoStatus, !.age = 0,
                                           !.connected = TRUE, !.desired = TRUE]]
    /\ UNCHANGED <<gate, wire, jobs, crashed>>

RefreshFails(t) ==
    /\ tab[t].asked # NoStatus
    /\ tab' = [tab EXCEPT ![t] = Uncertain(@)]
    /\ UNCHANGED <<gate, wire, jobs, crashed>>

Acknowledges(b) ==
    /\ b.connected /\ b.age <= Fresh /\ Frozen(b)
    /\ ~b.dirty /\ b.request = "none" /\ b.seen.phase = "announcing"

Snapshot(b, closing) ==
    [dirty |-> b.dirty, busy |-> b.request # "none",
     closed |-> closing /\ ~b.dirty /\ b.request = "none",
     ack |-> Acknowledges(b) /\ b.seen.current,
     late |-> FALSE, mine |-> ~closing]

Report(t) ==
    /\ tab[t].desired /\ tab[t].sending = "no" /\ Len(wire[t]) < MaxWire
    /\ wire' = [wire EXCEPT ![t] = Append(@, Snapshot(tab[t], FALSE))]
    /\ tab' = [tab EXCEPT ![t] = [@ EXCEPT !.desired = FALSE, !.sending = "sent",
                                           !.changed = FALSE, !.superseded = FALSE]]
    /\ UNCHANGED <<gate, jobs, crashed>>

Dropped(q, i) == SubSeq(q, 1, i - 1) \o SubSeq(q, i + 1, Len(q))

\* Mutant: whatever arrives is the session's state.
ServeAnyOrder(t, i) ==
    LET r == wire[t][i]
    IN /\ gate' = [gate EXCEPT !.sessions[t] =
                      [known |-> TRUE, dirty |-> r.dirty, busy |-> r.busy, ack |-> r.ack,
                       closed |-> r.closed, age |-> 0]]
       /\ wire' = [wire EXCEPT ![t] = Dropped(@, i)]
       /\ tab' = [tab EXCEPT ![t].sending = IF r.mine THEN "served" ELSE @]
       /\ UNCHANGED <<jobs, crashed>>

\* What was sent before a report that is processed is late from now on.
Overtaken(q, i) == [k \in DOMAIN q |-> [q[k] EXCEPT !.late = @ \/ (k < i /\ ~q[i].late)]]

\* Gate.session: a report that the watermark has passed changes nothing.
Serve(t, i) ==
    LET r == wire[t][i]
    IN /\ gate' = [gate EXCEPT !.sessions[t] =
                      IF r.late THEN @
                      ELSE [known |-> TRUE, dirty |-> r.dirty, busy |-> r.busy, ack |-> r.ack,
                            closed |-> r.closed, age |-> 0]]
       /\ wire' = [wire EXCEPT ![t] = Dropped(Overtaken(@, i), i)]
       /\ tab' = [tab EXCEPT ![t].sending = IF r.mine THEN "served" ELSE @]
       /\ UNCHANGED <<jobs, crashed>>

Lose(t, i) ==
    /\ wire' = [wire EXCEPT ![t] = Dropped(@, i)]
    /\ UNCHANGED <<gate, tab, jobs, crashed>>

\* Only an answer to the state that still holds registers the tab.
Heard(b) ==
    [b EXCEPT !.sending = "no", !.desired = @ \/ b.changed, !.changed = FALSE, !.superseded = FALSE,
              !.registered = @ \/ (~b.changed /\ ~b.superseded /\ b.connected),
              !.known = @ \/ ~b.changed]

Reported(t) ==
    /\ tab[t].sending = "served"
    /\ tab' = [tab EXCEPT ![t] = Heard(@)]
    /\ UNCHANGED <<gate, wire, jobs, crashed>>

ReportFails(t) ==
    /\ tab[t].sending # "no"
    /\ tab' = [tab EXCEPT ![t] = [Uncertain(@) EXCEPT
                  !.sending = "no", !.desired = FALSE, !.changed = FALSE, !.superseded = FALSE]]
    /\ wire' = [wire EXCEPT ![t] = [i \in DOMAIN @ |-> [@[i] EXCEPT !.mine = FALSE]]]
    /\ UNCHANGED <<gate, jobs, crashed>>

\* A page of an earlier version reloads itself once nothing can be lost.
Leaves(t) ==
    /\ Len(wire[t]) < MaxWire
    /\ wire' = [wire EXCEPT ![t] = Append([i \in DOMAIN @ |-> [@[i] EXCEPT !.mine = FALSE]],
                                          Snapshot(tab[t], TRUE))]
    /\ tab' = [tab EXCEPT ![t] = Gone]
    /\ UNCHANGED <<gate, jobs, crashed>>

Close(t) == tab[t].life = "open" /\ tab[t].seen # NoStatus /\ Leaves(t)

ReloadIfSafe(t) ==
    LET b == tab[t]
    IN /\ b.life = "open" /\ Conflict(b) /\ b.connected /\ b.registered
       /\ ~b.dirty /\ b.request = "none" /\ b.seen.phase = "open"
       /\ Leaves(t)

TabCrashes(t) ==
    /\ tab[t].life = "open"
    /\ tab' = [tab EXCEPT ![t] = Gone]
    /\ wire' = [wire EXCEPT ![t] = [i \in DOMAIN @ |-> [@[i] EXCEPT !.mine = FALSE]]]
    /\ UNCHANGED <<gate, jobs, crashed>>
-----------------------------------------------------------------------------
(* THE TAB'S WORK.                                                            *)

Edit(t) ==
    /\ tab[t].life = "open" /\ ~InteractionsBlocked(tab[t]) /\ ~tab[t].dirty
    /\ tab' = [tab EXCEPT ![t] = Changed([@ EXCEPT !.dirty = TRUE])]
    /\ UNCHANGED <<gate, wire, jobs, crashed>>

Discard(t) ==
    /\ tab[t].dirty /\ tab[t].request = "none"
    /\ tab' = [tab EXCEPT ![t] = Changed([@ EXCEPT !.dirty = FALSE])]
    /\ UNCHANGED <<gate, wire, jobs, crashed>>

\* beginRequest, behind mutationAllowed.
Submit(t) ==
    /\ tab[t].dirty /\ ~InteractionsBlocked(tab[t])
    /\ tab[t].request = "none" /\ t \notin gate.operations
    /\ tab' = [tab EXCEPT ![t] = Changed([@ EXCEPT !.request = "sent"])]
    /\ UNCHANGED <<gate, wire, jobs, crashed>>

\* The middleware registers the request before anything of it runs.
Admit(t) ==
    /\ tab[t].request = "sent" /\ tab[t].page = "current" /\ gate.phase # "quiesced"
    /\ gate' = [gate EXCEPT !.operations = @ \cup {t}]
    /\ tab' = [tab EXCEPT ![t].request = "admitted"]
    /\ UNCHANGED <<wire, jobs, crashed>>

Refused(b) == Changed([b EXCEPT !.request = "none", !.connected = FALSE, !.age = 0,
                                !.seen = [Unsure(@) EXCEPT !.fits = FALSE]])

Refuse(t) ==
    /\ tab[t].request = "sent" /\ (tab[t].page = "past" \/ gate.phase = "quiesced")
    /\ tab' = [tab EXCEPT ![t] = IF gate.phase = "quiesced"
                                 THEN Uncertain(Changed([@ EXCEPT !.request = "none"]))
                                 ELSE Refused(@)]
    /\ UNCHANGED <<gate, wire, jobs, crashed>>

\* The answer is lost, whatever became of the request.
RequestFails(t) ==
    /\ tab[t].request # "none"
    /\ tab' = [tab EXCEPT ![t] = Changed([@ EXCEPT !.request = "none"])]
    /\ UNCHANGED <<gate, wire, jobs, crashed>>

RequestEnds(t) ==
    /\ t \in Live
    /\ gate' = [gate EXCEPT !.operations = @ \ {t}]
    /\ tab' = [tab EXCEPT ![t] = IF @.request = "admitted"
                                 THEN Changed([@ EXCEPT !.request = "none", !.dirty = FALSE])
                                 ELSE @]
    /\ UNCHANGED <<wire, jobs, crashed>>

\* Mutant: the job counts as part of the request.
QueueInherited(t, j) ==
    /\ t \in Live /\ j \notin jobs \cup gate.operations
    /\ jobs' = jobs \cup {j}
    /\ UNCHANGED <<gate, tab, wire, crashed>>

\* submit, create_task: reserved while the request that asks for it is registered.
Queue(t, j) ==
    /\ t \in Live /\ j \notin jobs \cup gate.operations
    /\ gate' = [gate EXCEPT !.operations = @ \cup {j}]
    /\ jobs' = jobs \cup {j}
    /\ UNCHANGED <<tab, wire, crashed>>

\* Finished, failed, or cancelled before it ran.
JobEnds(j) ==
    /\ j \in jobs
    /\ jobs' = jobs \ {j}
    /\ gate' = [gate EXCEPT !.operations = @ \ {j}]
    /\ UNCHANGED <<tab, wire, crashed>>
-----------------------------------------------------------------------------
(* TIME.  A request outstanding times out before a unit has passed, and a     *)
(* report that is due is sent at once.                                        *)
Tick ==
    /\ \A t \in Tabs : tab[t].asked = NoStatus /\ tab[t].sending = "no" /\ ~tab[t].desired
    /\ tab' = [t \in Tabs |-> [tab[t] EXCEPT !.age = IF tab[t].connected THEN Later(@, Fresh + 1) ELSE @]]
    /\ gate' = [gate EXCEPT !.waited = IF gate.phase = "announcing" THEN Later(@, Delay) ELSE @,
                            !.sessions = [t \in Tabs |-> Silent(@[t])]]
    /\ <<gate, tab>>' # <<gate, tab>>
    /\ UNCHANGED <<wire, jobs, crashed>>

Gating == Announce \/ TryQuiesce \/ Reopen \/ Defer \/ RequestStop \/ WorkerDies

Viewing(t) ==
    \/ Open(t) \/ Refresh(t) \/ Refreshed(t) \/ RefreshFails(t)
    \/ Report(t) \/ Reported(t) \/ ReportFails(t)
    \/ \E i \in DOMAIN wire[t] : Serve(t, i) \/ Lose(t, i)
    \/ Close(t) \/ ReloadIfSafe(t) \/ TabCrashes(t) \/ ClearSession(t)

Working(t) ==
    \/ Edit(t) \/ Discard(t) \/ Submit(t) \/ Admit(t) \/ Refuse(t)
    \/ RequestFails(t) \/ RequestEnds(t)
    \/ \E j \in Jobs : Queue(t, j)

Next ==
    \/ Gating \/ Tick
    \/ \E t \in Tabs : Viewing(t) \/ Working(t)
    \/ \E j \in Jobs : JobEnds(j)

Spec == Init /\ [][Next]_vars
-----------------------------------------------------------------------------
(* PROPERTIES.                                                                *)

(* Work that was accepted is registered until it ends, also when the request  *)
(* that started it was answered long ago: the gate never quiesces over it.    *)
AcceptedIsRegistered ==
    jobs \subseteq Live

(* While the instance is quiesced, nothing runs, and no tab takes input: each *)
(* has seen the announcement, or no longer trusts what it saw.  A tab that    *)
(* was cut off with a draft and came back too late may go on with it, but the *)
(* gate has its draft on record then, and lets no worker be stopped.          *)
QuiescedMeansStill ==
    gate.phase = "quiesced" =>
        /\ gate.operations = {} /\ jobs = {}
        /\ \A t \in Tabs :
              tab[t].life = "open" => InteractionsBlocked(tab[t]) \/ gate.sessions[t].dirty

(* The gate neither quiesces nor asks workers to stop over a draft that the   *)
(* server has confirmed to know, whatever older report arrives after it, and  *)
(* however long the tab has been silent.                                      *)
NoDraftOverlooked ==
    [][(TryQuiesce \/ RequestStop) => \A t \in Tabs : ~(tab[t].dirty /\ tab[t].known)]_vars

(* A tab that believes itself in order holds nothing that the server does not *)
(* know or is not being told.                                                 *)
EditingIsReported ==
    \A t \in Tabs :
        tab[t].life = "open" /\ tab[t].dirty /\ ~Frozen(tab[t])
        => gate.sessions[t].dirty \/ tab[t].desired \/ tab[t].sending # "no"

(* ACCEPTED WORK AND EDITS ARE KNOWN.  What was accepted is registered until  *)
(* it ends, and a tab that believes itself in order holds nothing the server  *)
(* does not know or is not being told.                                        *)
NothingUnregistered == TypeOK /\ AcceptedIsRegistered /\ EditingIsReported
================================================================================
