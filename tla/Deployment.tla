-------------------------------- MODULE Deployment --------------------------------
(* How one version of the managed instance replaces another.                  *)
(*   deployment/controller.py  the durable, tick-driven controller            *)
(*   deployment/host.py        LocalBackend: launching and watching workers   *)
(*   deployment/worker.py      a worker: role lock, heartbeat, orderly exit   *)
(*   core/maintenance.py       the gate, as the controller uses it            *)
(*                                                                            *)
(* The controller may stop at each of its durable writes and starts again     *)
(* from deployment.json; workers live on without it.  Deadlines and dates are *)
(* left to chance: a step that waits for one may be taken at any time.        *)
EXTENDS Integers, Sequences, FiniteSets, Functions

CONSTANTS
    Shas,             \* revisions
    Installed,        \* the one installed first
    Released,         \* the remote head at that time
    Enabled,          \* the modes set at that time: the roles that run
    MaxGeneration,    \* bound: sets of workers that anybody still knows of
    Limit,            \* bound: how often each kind of trouble happens
    MaxTrouble        \* bound: and all kinds together

\* The controller stops; a preparation, a launch or a worker fails; the operator
\* commands; the remote head moves; a draft turns up.
Troubles == {"crashes", "faults", "wishes", "heads", "drafts"}

Roles == {"web", "scheduler"}
Modes == {{"web"}, Roles}

ASSUME DeploymentAssumption ==
    /\ {"none", "retry"} \cap Shas = {}
    /\ Installed \in Shas /\ Released \in Shas /\ Enabled \in Modes
    /\ MaxGeneration \in Nat /\ MaxTrouble \in Nat
    /\ Limit \in [Troubles -> Nat]

VARIABLES
    gate,         \* maintenance.json: phase, workers asked to stop, last heartbeats
    dep,          \* deployment.json
    ctl,          \* the controller's process: where it is, and what it only remembers
    procs,        \* the living worker processes, by launch
    busy,         \* the workers with operations under way
    unsaved,      \* a browser session that blocks
    host,         \* host.json and the remote head
    spent         \* the trouble so far

vars == <<gate, dep, ctl, procs, busy, unsaved, host, spent>>

Versions == [sha : Shas, modes : Modes]
None == [sha |-> "none", modes |-> {}]

Launches == [generation : 1 .. MaxGeneration, role : Roles]
NoLaunch == [generation |-> 0, role |-> "none"]

\* launcher, worker: the identities the controller has on record.
Rows == [launch : Launches, launcher : BOOLEAN, worker : BOOLEAN]

NoJournal == [previous |-> None, target |-> None, failed |-> None,
              old |-> {}, new |-> {}, restored |-> {}]

Switching == {"stopping", "starting", "verifying",
              "rollback_stopping", "rollback_starting", "rollback_verifying"}
Resting == {"booting", "idle", "waiting", "paused", "announcing", "blocked"}

(* TYPES.                                                                     *)
TypeOK ==
    /\ gate.phase \in {"open", "announcing", "quiesced"}
    /\ gate.stop \subseteq Launches
    /\ gate.heard \in [Roles -> Launches \cup {NoLaunch}]
    /\ dep.phase \in Switching \cup Resting
    /\ dep.version \in Versions
    /\ {dep.blocked, dep.announced, dep.failed} \subseteq Versions \cup {None}
    /\ dep.source \in {"automatic", "local"}
    /\ {dep.requested, dep.refused} \subseteq Shas \cup {"none"}
    /\ dep.workers \subseteq Rows /\ dep.exited \in BOOLEAN
    /\ \A i \in DOMAIN dep.history : dep.history[i] \in Shas
    /\ \A k \in {"previous", "target", "failed"} : dep.journal[k] \in Versions \cup {None}
    /\ \A k \in {"old", "new", "restored"} : dep.journal[k] \subseteq Rows
    /\ dep.phase \in Switching => dep.journal # NoJournal
    /\ ctl.at \in {"down", "ready", "begin", "ask", "clear", "launch", "spawn", "spawned", "reopen"}
    /\ ctl.role \in Roles /\ ctl.generation \in 0 .. MaxGeneration
    /\ DOMAIN procs \subseteq Launches
    /\ \A l \in DOMAIN procs : procs[l].sha \in Shas /\ procs[l].life \in {"starting", "up"}
    /\ busy \subseteq DOMAIN procs
    /\ host.modes \in Modes /\ host.head \in Shas

\* Without a process nothing is remembered.
Down == [at |-> "down", recovering |-> FALSE, reconciling |-> FALSE, role |-> "web",
         generation |-> 0]

Init ==
    /\ gate = [phase |-> "quiesced", stop |-> {}, heard |-> [r \in Roles |-> NoLaunch]]
    /\ dep = [phase |-> "booting", version |-> [sha |-> Installed, modes |-> {"web"}],
              blocked |-> None, announced |-> None, settings |-> {}, source |-> "local",
              requested |-> "none", refused |-> "none", failed |-> None, workers |-> {},
              exited |-> FALSE, history |-> <<Installed>>, journal |-> NoJournal]
    /\ host = [modes |-> Enabled, paused |-> FALSE, request |-> "none", head |-> Released]
    /\ ctl = [Down EXCEPT !.at = "ready", !.reconciling = TRUE]
    /\ procs = [l \in {} |-> [sha |-> Installed, life |-> "up"]]
    /\ busy = {} /\ unsaved = FALSE
    /\ spent = [k \in Troubles |-> 0]

InTransit == dep.journal # NoJournal
Alive == DOMAIN procs
Up == {l \in DOMAIN procs : procs[l].life = "up"}

Happens(what) ==
    /\ spent[what] < Limit[what] /\ SumFunction(spent) < MaxTrouble
    /\ spent' = [spent EXCEPT ![what] = @ + 1]

At(place) == ctl.at = place
-----------------------------------------------------------------------------
(* THE GATE AND THE WORKERS AS THE CONTROLLER SEES THEM.                      *)

\* Mutant: operations are not looked at.
IdleSessions == ~unsaved

Idle == busy = {} /\ ~unsaved

\* _refresh: a heartbeat tells who the worker is, and whose launch it was.
Refreshed(rows) ==
    {[row EXCEPT !.launcher = @ \/ gate.heard[row.launch.role] = row.launch,
                 !.worker = @ \/ gate.heard[row.launch.role] = row.launch] : row \in rows}

Owners(rows) == {row.launch : row \in {r \in rows : r.worker}}

\* A launch without a known launcher may or may not have left a process behind.
Uncertain(rows) == \E row \in rows : ~row.launcher

Exited(rows) == ~Uncertain(rows) /\ \A row \in rows : row.launch \notin Alive

Running(rows) == rows # {} /\ \A row \in rows : row.launch \in Up

Ready(rows, modes) ==
    /\ {row.launch.role : row \in rows} = modes
    /\ \A row \in Refreshed(rows) : row.worker /\ row.launch \in Up

Combined(j) == j.old \cup j.new \cup j.restored

Reopened == [gate EXCEPT !.phase = "open", !.stop = {}]

RollingBack(d) ==
    [d EXCEPT !.phase = "rollback_stopping",
              !.blocked = IF d.journal.failed # None THEN d.journal.failed ELSE d.journal.target,
              !.exited = FALSE]
-----------------------------------------------------------------------------
(* A SWITCH.                                                                  *)

\* Mutant: the way back leads where the switch was going.
BegunForward(version) ==
    [dep EXCEPT !.phase = "stopping", !.failed = None,
        !.journal = [NoJournal EXCEPT !.previous = version, !.target = version,
                                      !.failed = dep.failed, !.old = dep.workers]]

\* A version whose workers failed by themselves is nothing to return to.
Begun(version) ==
    [dep EXCEPT !.phase = "stopping", !.failed = None,
        !.journal = [NoJournal EXCEPT
            !.previous = IF dep.failed # None THEN version ELSE dep.version,
            !.target = version, !.failed = dep.failed, !.old = dep.workers]]

\* try_quiesce succeeded; the journal is written before anybody is asked to stop.
Begin ==
    /\ At("begin")
    /\ dep' = [Begun(dep.announced) EXCEPT !.requested = "none"]
    /\ ctl' = [ctl EXCEPT !.at = "ask"]
    /\ UNCHANGED <<gate, procs, busy, unsaved, host, spent>>

\* The first request to stop is refused: nobody was asked, the switch is off.
AskRefused ==
    /\ At("ask") /\ ~Idle
    /\ dep' = [dep EXCEPT !.phase = "waiting", !.journal = NoJournal,
                          !.failed = dep.journal.failed, !.exited = FALSE]
    /\ ctl' = [ctl EXCEPT !.at = "reopen"]
    /\ UNCHANGED <<gate, procs, busy, unsaved, host, spent>>

Ask ==
    /\ At("ask") /\ Idle
    /\ gate' = [gate EXCEPT !.stop = Owners(Refreshed(dep.journal.old))]
    /\ ctl' = [ctl EXCEPT !.at = "ready"]
    /\ UNCHANGED <<dep, procs, busy, unsaved, host, spent>>

\* Mutant: a rollback only waits for those it started.
LeavingNew == IF dep.phase = "stopping" THEN Refreshed(dep.journal.old)
              ELSE Refreshed(dep.journal.new \cup dep.journal.restored)

\* Who goes, and how the record is refreshed.
Leaving == IF dep.phase = "stopping" THEN Refreshed(dep.journal.old)
           ELSE Refreshed(Combined(dep.journal))

Remembered(j) ==
    IF dep.phase = "stopping" THEN [j EXCEPT !.old = Refreshed(@)]
    ELSE [j EXCEPT !.old = Refreshed(@), !.new = Refreshed(@), !.restored = Refreshed(@)]

Stop ==
    /\ At("ready") /\ dep.phase \in {"stopping", "rollback_stopping"} /\ ~ctl.recovering
    /\ Idle /\ gate' = [gate EXCEPT !.stop = Owners(Leaving)]
    /\ IF Exited(Leaving)
       THEN /\ dep' = [dep EXCEPT !.journal = Remembered(@),
                          !.phase = IF @ = "stopping" THEN "starting" ELSE "rollback_starting"]
            /\ ctl' = [ctl EXCEPT !.at = "clear"]
       ELSE dep' = [dep EXCEPT !.journal = Remembered(@)] /\ UNCHANGED ctl
    /\ <<gate, dep>>' # <<gate, dep>>
    /\ UNCHANGED <<procs, busy, unsaved, host, spent>>

\* A session that became unsaved meanwhile ends the controller here.
Clear ==
    /\ At("clear")
    /\ IF Idle THEN /\ gate' = [gate EXCEPT !.stop = {}]
                    /\ ctl' = [ctl EXCEPT !.at = "launch", !.role = "web"]
       ELSE UNCHANGED gate /\ ctl' = Down
    /\ UNCHANGED <<dep, procs, busy, unsaved, host, spent>>

Back == dep.phase \in {"rollback_starting", "rollback_verifying"}
Goal == IF Back THEN dep.journal.previous ELSE dep.journal.target
Fresh == IF Back THEN dep.journal.restored ELSE dep.journal.new
WithFresh(j, rows) == IF Back THEN [j EXCEPT !.restored = rows] ELSE [j EXCEPT !.new = rows]

\* The identifier of a launch is one that nobody knows of.
KnownGenerations ==
    {row.launch.generation : row \in dep.workers \cup Combined(dep.journal)}
    \cup {l.generation : l \in Alive} \cup {gate.heard[r].generation : r \in Roles}

Generation ==
    IF ctl.role = "scheduler" THEN ctl.generation
    ELSE CHOOSE g \in 1 .. MaxGeneration : /\ g \notin KnownGenerations
                                            /\ \A h \in 1 .. g - 1 : h \in KnownGenerations

\* The intent is durable before the child can exist.
Intend ==
    LET row == [launch |-> [generation |-> Generation, role |-> ctl.role],
                launcher |-> FALSE, worker |-> FALSE]
    IN /\ At("launch") /\ Generation \in 1 .. MaxGeneration
       /\ dep' = [dep EXCEPT !.journal =
                     WithFresh(@, IF ctl.role = "web" THEN {row} ELSE Fresh \cup {row})]
       /\ ctl' = [ctl EXCEPT !.at = "spawn", !.generation = Generation]
       /\ UNCHANGED <<gate, procs, busy, unsaved, host, spent>>

Current == [generation |-> ctl.generation, role |-> ctl.role]

Spawn ==
    /\ At("spawn")
    /\ procs' = [l \in DOMAIN procs \cup {Current} |->
                    IF l = Current THEN [sha |-> Goal.sha, life |-> "starting"] ELSE procs[l]]
    /\ ctl' = [ctl EXCEPT !.at = "spawned"]
    /\ UNCHANGED <<gate, dep, busy, unsaved, host, spent>>

LaunchOver == [ctl EXCEPT !.at = "ready", !.role = "web", !.generation = 0]

\* The launcher is put on record; after the last role the versions are verified.
Launched ==
    LET rows == {IF row.launch = Current THEN [row EXCEPT !.launcher = TRUE] ELSE row : row \in Fresh}
        more == Goal.modes \ {row.launch.role : row \in Fresh}
    IN /\ At("spawned")
       /\ dep' = [dep EXCEPT !.journal = WithFresh(@, rows),
                             !.phase = IF more # {} THEN @
                                       ELSE IF Back THEN "rollback_verifying" ELSE "verifying"]
       /\ ctl' = IF more # {} THEN [ctl EXCEPT !.at = "launch", !.role = "scheduler"]
                 ELSE LaunchOver
       /\ UNCHANGED <<gate, procs, busy, unsaved, host, spent>>

Failed(d) == IF Back THEN [d EXCEPT !.phase = "blocked"] ELSE RollingBack(d)

\* The port is taken, the release is damaged, or the child cannot be created.
StartFails ==
    /\ At("launch") \/ At("spawn")
    /\ Happens("faults")
    /\ dep' = Failed(dep)
    /\ ctl' = LaunchOver
    /\ UNCHANGED <<gate, procs, busy, unsaved, host>>

\* A revision is in the history at most once: without it, and it at the end.
Appended(history, sha) ==
    LET found == {i \in DOMAIN history : history[i] = sha}
        place == CHOOSE i \in found : TRUE
    IN IF found = {} THEN Append(history, sha)
       ELSE [i \in DOMAIN history |->
                IF i < place THEN history[i]
                ELSE IF i < Len(history) THEN history[i + 1] ELSE sha]

\* Committed before the gate is opened.
Commit ==
    LET j == dep.journal
    IN /\ At("ready") /\ dep.phase \in {"verifying", "rollback_verifying"} /\ ~ctl.recovering
       /\ Ready(Fresh, Goal.modes)
       /\ dep' = [dep EXCEPT
             !.phase = "idle", !.version = Goal, !.workers = Refreshed(Fresh),
             !.history = IF Back THEN @ ELSE Appended(@, Goal.sha),
             !.journal = NoJournal, !.announced = None,
             !.blocked = IF j.failed # None THEN j.failed ELSE @,
             !.exited = j.failed # None]
       /\ ctl' = [ctl EXCEPT !.at = "reopen"]
       /\ UNCHANGED <<gate, procs, busy, unsaved, host, spent>>

\* The deadline has passed.
Late ==
    /\ At("ready") /\ dep.phase \in {"verifying", "rollback_verifying"} /\ ~ctl.recovering
    /\ ~Ready(Fresh, Goal.modes)
    /\ dep' = Failed(dep)
    /\ UNCHANGED <<gate, ctl, procs, busy, unsaved, host, spent>>

Reopen ==
    /\ At("reopen")
    /\ gate' = Reopened
    /\ ctl' = [ctl EXCEPT !.at = "ready"]
    /\ UNCHANGED <<dep, procs, busy, unsaved, host, spent>>
-----------------------------------------------------------------------------
(* A TICK OUTSIDE A SWITCH, in the order of its tests.                        *)

\* An interrupted switch is undone, whatever it had reached.
Recover ==
    /\ At("ready") /\ ctl.recovering
    /\ dep' = RollingBack(dep)
    /\ ctl' = [ctl EXCEPT !.recovering = FALSE]
    /\ UNCHANGED <<gate, procs, busy, unsaved, host, spent>>

Commanded == host.request # "none"

Cancelled(d) == [d EXCEPT !.phase = "idle", !.announced = None]

\* retry or rollback; with a switch on record only after that is blocked.
Request ==
    LET retry == host.request = "retry"
        d == IF retry
             THEN [dep EXCEPT !.blocked = None, !.exited = FALSE, !.refused = "none",
                              !.requested = IF dep.refused # "none" THEN dep.refused ELSE @]
             ELSE [dep EXCEPT !.requested = host.request, !.failed = None]
    IN /\ At("ready") /\ ~ctl.recovering /\ Commanded
       /\ InTransit => dep.phase = "blocked"
       /\ IF dep.phase = "announcing"
          THEN gate' = Reopened /\ dep' = Cancelled(d)
          ELSE UNCHANGED gate /\ dep' = IF InTransit /\ retry THEN RollingBack(d) ELSE d
       /\ host' = [host EXCEPT !.request = "none"]
       /\ UNCHANGED <<ctl, procs, busy, unsaved, spent>>

Undisturbed == At("ready") /\ ~ctl.recovering /\ ~InTransit /\ ~Commanded

CancelAnnouncement ==
    /\ Undisturbed /\ dep.phase = "announcing" /\ dep.settings # host.modes
    /\ gate' = Reopened /\ dep' = Cancelled(dep)
    /\ UNCHANGED <<ctl, procs, busy, unsaved, host, spent>>

Settled == Undisturbed /\ ~(dep.phase = "announcing" /\ dep.settings # host.modes)

\* Closed without a switch on record: after the installation, or after a stop
\* just before the journal was written or just after it was removed.
Adopt ==
    /\ Settled /\ dep.phase # "booting" /\ gate.phase = "quiesced"
    /\ Ready(dep.workers, dep.version.modes)
    /\ gate' = Reopened
    /\ UNCHANGED <<dep, ctl, procs, busy, unsaved, host, spent>>

BeginClosed ==
    /\ Settled /\ gate.phase = "quiesced"
    /\ dep.phase = "booting" \/ ~Ready(dep.workers, dep.version.modes)
    /\ dep' = Begun([dep.version EXCEPT !.modes = IF dep.phase = "booting" THEN host.modes ELSE @])
    /\ ctl' = [ctl EXCEPT !.at = "ask"]
    /\ UNCHANGED <<gate, procs, busy, unsaved, host, spent>>

Watching == Settled /\ gate.phase # "quiesced"

\* The last revision of the history that is neither current nor blocked, if any.
LastGood ==
    LET good == {i \in DOMAIN dep.history : dep.history[i] \notin {dep.version.sha, dep.blocked.sha}}
    IN {i \in good : \A k \in good : k <= i}

\* A worker is gone: the last other version that worked, or the same one again.
Noticed ==
    LET instead == IF ctl.reconciling \/ host.paused \/ LastGood = {} THEN dep.version.sha
                   ELSE dep.history[CHOOSE i \in LastGood : TRUE]
    IN IF Running(dep.workers) \/ dep.requested # "none" \/ dep.phase = "announcing" THEN dep
       ELSE [dep EXCEPT !.requested = instead, !.exited = TRUE,
                        !.failed = IF instead # dep.version.sha THEN dep.version ELSE @]

\* The modes wanted: a restart under pause, or at start-up, keeps those of before.
Wanted == IF /\ Noticed.requested # "none"
             /\ \/ host.paused /\ Noticed.exited
                \/ dep.requested = "none" /\ ctl.reconciling
          THEN dep.version.modes ELSE host.modes

Checked == [ctl EXCEPT !.reconciling = @ /\ (dep.requested # "none" \/ dep.phase = "announcing")]

Pause ==
    /\ Watching /\ host.paused /\ Noticed.requested = "none"
    /\ gate' = IF gate.phase = "announcing" THEN Reopened ELSE gate
    /\ dep' = [dep EXCEPT !.phase = "paused", !.announced = None]
    /\ ctl' = Checked
    /\ <<gate, dep>>' # <<gate, dep>>
    /\ UNCHANGED <<procs, busy, unsaved, host, spent>>

Going == Watching /\ (host.paused => Noticed.requested # "none")

\* A failed change of modes is not tried again on the same revision.
ModeChange ==
    /\ Noticed.version.modes # host.modes
    /\ Noticed.requested = "none" => Noticed.blocked # [Noticed.version EXCEPT !.modes = host.modes]

Local == Noticed.requested # "none" \/ ModeChange

Candidate ==
    [sha |-> IF Noticed.requested # "none" THEN Noticed.requested
             ELSE IF ModeChange THEN Noticed.version.sha ELSE host.head,
     modes |-> Wanted]

Due == /\ Going /\ dep.phase # "announcing"
       /\ Local \/ host.head \notin {Noticed.version.sha, Noticed.blocked.sha}

PreparationFails ==
    /\ Due /\ Happens("faults")
    /\ dep' = [Noticed EXCEPT !.phase = "idle", !.blocked = Candidate, !.announced = None,
                              !.refused = Noticed.requested, !.requested = "none", !.exited = FALSE]
    /\ ctl' = Checked
    /\ UNCHANGED <<gate, procs, busy, unsaved, host>>

Wait ==
    /\ Due /\ ~Idle
    /\ dep' = [Noticed EXCEPT !.phase = "waiting"] /\ dep' # dep
    /\ ctl' = Checked
    /\ UNCHANGED <<gate, procs, busy, unsaved, host, spent>>

Announce ==
    /\ Due /\ Idle
    /\ gate' = [gate EXCEPT !.phase = "announcing"]
    /\ dep' = [Noticed EXCEPT !.phase = "announcing", !.announced = Candidate,
                              !.settings = host.modes,
                              !.source = IF Local THEN "local" ELSE "automatic"]
    /\ ctl' = Checked
    /\ UNCHANGED <<procs, busy, unsaved, host, spent>>

\* Stopped between the gate's announcement and its own record.
AnnounceCut ==
    /\ Due /\ Idle /\ Happens("crashes")
    /\ gate' = [gate EXCEPT !.phase = "announcing"]
    /\ ctl' = Down
    /\ UNCHANGED <<dep, procs, busy, unsaved, host>>

Announced == Going /\ dep.phase = "announcing"

\* Deferred by a user, or found closed and adopted: it starts over.
Missed ==
    /\ Announced /\ gate.phase # "announcing"
    /\ dep' = [dep EXCEPT !.phase = "waiting", !.announced = None]
    /\ UNCHANGED <<gate, ctl, procs, busy, unsaved, host, spent>>

Outdated == dep.source = "automatic" /\ host.head # dep.announced.sha

Withdraw ==
    /\ Announced /\ gate.phase = "announcing" /\ Outdated
    /\ gate' = Reopened /\ dep' = Cancelled(dep)
    /\ UNCHANGED <<ctl, procs, busy, unsaved, host, spent>>

Quiesce ==
    /\ Announced /\ gate.phase = "announcing" /\ ~Outdated /\ Idle
    /\ gate' = [gate EXCEPT !.phase = "quiesced"]
    /\ ctl' = [ctl EXCEPT !.at = "begin"]
    /\ UNCHANGED <<dep, procs, busy, unsaved, host, spent>>

NotIdle ==
    /\ Announced /\ gate.phase = "announcing" /\ ~Outdated /\ ~Idle
    /\ gate' = Reopened
    /\ dep' = [dep EXCEPT !.phase = "waiting", !.announced = None]
    /\ UNCHANGED <<ctl, procs, busy, unsaved, host, spent>>
-----------------------------------------------------------------------------
(* THE WORKERS AND THEIR USERS.                                               *)

Without(l) == [k \in Alive \ {l} |-> procs[k]]

\* Behind the role's lock; the first heartbeat names the launch.
Boot(l) ==
    LET free == \A k \in Up : k.role # l.role
    IN /\ procs[l].life = "starting"
       /\ procs' = IF free THEN [procs EXCEPT ![l].life = "up"] ELSE Without(l)
       /\ gate' = IF free THEN [gate EXCEPT !.heard[l.role] = l] ELSE gate
       /\ UNCHANGED <<dep, ctl, busy, unsaved, host, spent>>

Dies(l) ==
    /\ Happens("faults")
    /\ procs' = Without(l)
    /\ busy' = busy \ {l}
    /\ UNCHANGED <<gate, dep, ctl, unsaved, host>>

\* Cooperative: what has begun is finished first.
Obey(l) ==
    /\ procs[l].life = "up" /\ l \in gate.stop /\ l \notin busy
    /\ procs' = Without(l)
    /\ UNCHANGED <<gate, dep, ctl, busy, unsaved, host, spent>>

Work(l) ==
    /\ procs[l].life = "up" /\ l \notin busy /\ gate.phase # "quiesced"
    /\ busy' = busy \cup {l}
    /\ UNCHANGED <<gate, dep, ctl, procs, unsaved, host, spent>>

Finish(l) ==
    /\ l \in busy
    /\ busy' = busy \ {l}
    /\ UNCHANGED <<gate, dep, ctl, procs, unsaved, host, spent>>

\* A session may report a draft at any time, also while the gate is closed.
Draft ==
    /\ ~unsaved /\ \E l \in Up : l.role = "web"
    /\ Happens("drafts")
    /\ unsaved' = TRUE
    /\ UNCHANGED <<gate, dep, ctl, procs, busy, host>>

\* Saved or discarded, or the session is cleared by the operator.
Saved ==
    /\ unsaved /\ unsaved' = FALSE
    /\ UNCHANGED <<gate, dep, ctl, procs, busy, host, spent>>

\* Mutant: a user may put off a switch under way.
DeferAlways ==
    /\ gate.phase # "open" /\ Happens("wishes")
    /\ gate' = [gate EXCEPT !.phase = "open"]
    /\ UNCHANGED <<dep, ctl, procs, busy, unsaved, host>>

Defer ==
    /\ gate.phase = "announcing" /\ Happens("wishes")
    /\ gate' = [gate EXCEPT !.phase = "open"]
    /\ UNCHANGED <<dep, ctl, procs, busy, unsaved, host>>

Command ==
    /\ Happens("wishes")
    /\ \/ /\ host.request = "none"
          /\ \E wish \in {"retry"} \cup {dep.history[i] : i \in DOMAIN dep.history} :
                host' = [host EXCEPT !.request = wish]
       \/ \E modes \in Modes \ {host.modes} : host' = [host EXCEPT !.modes = modes]
       \/ host' = [host EXCEPT !.paused = ~@]
    /\ UNCHANGED <<gate, dep, ctl, procs, busy, unsaved>>

HeadMoves ==
    /\ Happens("heads")
    /\ \E sha \in Shas \ {host.head} : host' = [host EXCEPT !.head = sha]
    /\ UNCHANGED <<gate, dep, ctl, procs, busy, unsaved>>

Crash ==
    /\ ctl.at # "down" /\ Happens("crashes")
    /\ ctl' = Down
    /\ UNCHANGED <<gate, dep, procs, busy, unsaved, host>>

\* Mutant: a switch on record is gone on with.
RestartResuming ==
    /\ ctl.at = "down"
    /\ ctl' = [ctl EXCEPT !.at = "ready", !.reconciling = TRUE]
    /\ UNCHANGED <<gate, dep, procs, busy, unsaved, host, spent>>

Restart ==
    /\ ctl.at = "down"
    /\ ctl' = [ctl EXCEPT !.at = "ready", !.recovering = InTransit, !.reconciling = TRUE]
    /\ UNCHANGED <<gate, dep, procs, busy, unsaved, host, spent>>

Transit ==
    \/ Begin \/ AskRefused \/ Ask \/ Stop \/ Clear \/ Intend \/ Spawn \/ Launched
    \/ Commit \/ Late \/ Reopen

Tick ==
    \/ Recover \/ Request \/ CancelAnnouncement \/ Adopt \/ BeginClosed \/ Pause
    \/ Wait \/ Announce \/ Missed \/ Withdraw \/ Quiesce \/ NotIdle

Orderly == Saved \/ \E l \in Alive : Boot(l) \/ Obey(l) \/ Finish(l)

Trouble ==
    \/ StartFails \/ PreparationFails \/ AnnounceCut \/ Crash \/ Draft \/ Defer \/ Command \/ HeadMoves
    \/ \E l \in Alive : Dies(l) \/ Work(l)

Next == Transit \/ Tick \/ Orderly \/ Restart \/ Trouble

Spec == Init /\ [][Next]_vars

(* The supervisor ticks every second and is restarted when it ends; workers   *)
(* come up, finish what they do and heed the stop list; drafts are saved or   *)
(* their sessions cleared.                                                    *)
Fairness ==
    /\ WF_vars(Transit \/ Tick \/ Restart)
    /\ WF_vars(Saved)
    /\ WF_vars(\E l \in Alive : Boot(l) \/ Obey(l))
    /\ WF_vars(\E l \in Alive : Finish(l))

LiveSpec == Spec /\ Fairness
-----------------------------------------------------------------------------
(* PROPERTIES.                                                                *)

(* Workers of two starts never live at the same time, wherever the controller *)
(* was stopped: nothing is started before everything started earlier is gone. *)
OneGeneration ==
    \A k, l \in Alive : k.generation = l.generation

(* Work is admitted only from workers of the committed version: as long as a  *)
(* switch is on record the gate is closed, and what lives when it is open is  *)
(* what deployment.json says.                                                 *)
OpenMeansCommitted ==
    gate.phase # "quiesced" =>
        /\ ~InTransit
        /\ \A l \in Alive : /\ l \in {row.launch : row \in dep.workers}
                            /\ procs[l].sha = dep.version.sha

(* Nobody is asked to exit while work is under way, and no request to exit    *)
(* outlives the closed gate.                                                  *)
StopOnlyWhenIdle ==
    gate.stop # {} => gate.phase = "quiesced" /\ busy = {}

(* What a switch would return to has been seen to work.                       *)
ReturnIsProven ==
    InTransit => \E i \in DOMAIN dep.history : dep.history[i] = dep.journal.previous.sha

(* A version whose workers failed by themselves is no recovery target, also   *)
(* when the switch away from it is interrupted.                               *)
FailedIsNoTarget ==
    dep.journal.failed # None => dep.journal.previous.sha # dep.journal.failed.sha

(* A closed gate opens again, unless the operator has to decide: a switch is  *)
(* blocked, or a launch was cut off so that nobody can tell whether its       *)
(* process exists.                                                            *)
NeedsOperator ==
    \/ dep.phase = "blocked"
    \/ \E row \in Combined(dep.journal) : ~row.launcher /\ row.launch \notin Alive

Reopens == gate.phase = "quiesced" ~> gate.phase # "quiesced" \/ NeedsOperator
================================================================================
