---------------------------- MODULE Deployment_proofs ----------------------------
(* What deployment/controller.py and its workers keep, for any revisions,      *)
(* modes and bounds.  The inductive invariant says, besides what is to be      *)
(* shown, where the controller can be in each phase of its record, who may     *)
(* live in it (the committed workers until the old set is gone, nobody when    *)
(* the first role is launched, then only the fresh set), and which revisions   *)
(* have been seen to work.                                                     *)
EXTENDS Deployment, TLAPS

Gates == [phase : {"open", "announcing", "quiesced"}, stop : SUBSET Launches,
          heard : [Roles -> Launches \cup {NoLaunch}]]
Maybe == Versions \cup {None}
Journals == [previous : Maybe, target : Maybe, failed : Maybe,
             old : SUBSET Rows, new : SUBSET Rows, restored : SUBSET Rows]
Records == [phase : Switching \cup Resting, version : Versions, blocked : Maybe,
            announced : Maybe, settings : SUBSET Roles, source : {"automatic", "local"},
            requested : Shas \cup {"none"}, refused : Shas \cup {"none"}, failed : Maybe,
            workers : SUBSET Rows, exited : BOOLEAN, history : Seq(Shas), journal : Journals]
Places == {"down", "ready", "begin", "ask", "clear", "launch", "spawn", "spawned", "reopen"}
Controllers == [at : Places, recovering : BOOLEAN, reconciling : BOOLEAN, role : Roles,
                generation : 0 .. MaxGeneration]
Processes == [sha : Shas, life : {"starting", "up"}]
Hosts == [modes : Modes, paused : BOOLEAN, request : Shas \cup {"none", "retry"}, head : Shas]

Shapes ==
    /\ gate \in Gates /\ dep \in Records /\ ctl \in Controllers /\ host \in Hosts
    /\ procs \in [DOMAIN procs -> Processes] /\ DOMAIN procs \subseteq Launches

Starting == {"starting", "rollback_starting"}
Verifying == {"verifying", "rollback_verifying"}

\* Where the controller is, and what the record says it is doing.
PlacesFit ==
    /\ InTransit <=> dep.phase \in Switching \cup {"blocked"}
    /\ InTransit => {dep.journal.previous, dep.journal.target} \subseteq Versions
    /\ dep.phase = "announcing" => dep.announced \in Versions
    /\ ctl.recovering => ctl.at = "ready" /\ InTransit
    /\ ctl.at = "begin" => dep.phase = "announcing" /\ gate.phase = "quiesced"
    /\ ctl.at = "ask" => dep.phase = "stopping"
    /\ ctl.at \in {"clear", "launch", "spawn", "spawned"} => dep.phase \in Starting
    /\ ctl.at = "reopen" => ~InTransit

Closed ==
    /\ gate.phase # "quiesced" => ~InTransit /\ gate.stop = {}
    /\ gate.stop # {} => busy = {}

LaunchesOf(rows) == {row.launch : row \in rows}
AsCommitted(l) ==
    /\ l \in LaunchesOf(dep.workers)
    /\ procs[l].sha = dep.version.sha /\ procs[l].life = "up"

\* Before anybody was replaced, the committed workers are all there is.
CommittedLive ==
    ~InTransit \/ dep.phase = "stopping" => \A l \in Alive : AsCommitted(l)

\* In a switch, what lives is on record; while it stops, in the old set.
OnRecord ==
    /\ InTransit => Alive \subseteq LaunchesOf(Combined(dep.journal))
    /\ dep.phase = "stopping" =>
          /\ dep.journal.new = {} /\ dep.journal.restored = {}
          /\ LaunchesOf(dep.journal.old) = LaunchesOf(dep.workers)

\* While it starts, only the fresh set lives, all of it of the version to reach.
FreshLive ==
    dep.phase \in Starting \cup Verifying =>
        \A l \in Alive : l \in LaunchesOf(Fresh) /\ procs[l].sha = Goal.sha

\* Nobody lives when the first role is launched; the second follows the first.
Launching ==
    /\ ctl.at = "clear" \/ (ctl.at \in {"launch", "spawn"} /\ ctl.role = "web") => Alive = {}
    /\ ctl.at \in {"spawn", "spawned"} \/ (ctl.at = "launch" /\ ctl.role = "scheduler") =>
          /\ ctl.generation \in 1 .. MaxGeneration
          /\ \A row \in Fresh : row.launch.generation = ctl.generation
    /\ ctl.at \in {"spawn", "spawned"} => Current \in LaunchesOf(Fresh)

Proven(sha) == \E i \in DOMAIN dep.history : dep.history[i] = sha

\* Revisions that a switch may lead back to have been seen to work.
Returnable ==
    /\ Proven(dep.version.sha)
    /\ \A sha \in {dep.requested, dep.refused, host.request} \cap Shas : Proven(sha)
    /\ InTransit => Proven(dep.journal.previous.sha) /\ dep.failed = None
    /\ dep.phase = "announcing" /\ dep.failed # None => Proven(dep.announced.sha)
    /\ (\/ ~InTransit /\ dep.failed # None
        \/ dep.phase = "stopping" /\ dep.journal.failed # None) => ~Running(dep.workers)

IInv ==
    /\ Shapes /\ PlacesFit /\ Closed /\ CommittedLive /\ OnRecord /\ FreshLive
    /\ Launching /\ OneGeneration /\ Returnable
--------------------------------------------------------------------------------
(* Rows, versions and histories. *)

LEMMA NoneIsNoVersion == None \notin Versions /\ None.sha = "none"
BY DEF None, Versions, Modes, Roles

LEMMA JournalIsOne ==
    ASSUME NEW j \in Journals, j.previous \in Versions PROVE j # NoJournal
BY NoneIsNoVersion DEF NoJournal

LEMMA RefreshedRows ==
    ASSUME Shapes, NEW rows \in SUBSET Rows
    PROVE  Refreshed(rows) \in SUBSET Rows /\ LaunchesOf(Refreshed(rows)) = LaunchesOf(rows)
<1> DEFINE known(row) == gate.heard[row.launch.role] = row.launch
           fresh(row) == [row EXCEPT !.launcher = @ \/ known(row), !.worker = @ \/ known(row)]
<1>1. ASSUME NEW row \in Rows
      PROVE  fresh(row) \in Rows /\ fresh(row).launch = row.launch
  BY DEF Rows
<1>2. Refreshed(rows) = {fresh(row) : row \in rows}  BY DEF Refreshed
<1> HIDE DEF fresh
<1> QED  BY <1>1, <1>2 DEF LaunchesOf

LEMMA CombinedLaunches ==
    ASSUME NEW j
    PROVE  LaunchesOf(Combined(j))
               = LaunchesOf(j.old) \cup LaunchesOf(j.new) \cup LaunchesOf(j.restored)
BY DEF LaunchesOf, Combined

LEMMA AppendedHistory ==
    ASSUME NEW h \in Seq(Shas), NEW sha \in Shas
    PROVE  /\ Appended(h, sha) \in Seq(Shas)
           /\ \E i \in DOMAIN Appended(h, sha) : Appended(h, sha)[i] = sha
           /\ \A k \in DOMAIN h : \E i \in DOMAIN Appended(h, sha) : Appended(h, sha)[i] = h[k]
<1> DEFINE found == {i \in DOMAIN h : h[i] = sha}
           place == CHOOSE i \in found : TRUE
           a == Appended(h, sha)
<1>1. CASE found = {}
  <2>1. a = Append(h, sha)  BY <1>1 DEF Appended
  <2>2. a \in Seq(Shas) /\ Len(a) = Len(h) + 1 /\ a[Len(h) + 1] = sha
        /\ \A k \in 1 .. Len(h) : a[k] = h[k]
    BY <2>1
  <2>3. DOMAIN h = 1 .. Len(h) /\ DOMAIN a = 1 .. Len(h) + 1 /\ Len(h) \in Nat  BY <2>2
  <2> QED  BY <2>2, <2>3
<1>2. CASE found # {}
  <2>1. found \in SUBSET Nat /\ found # {} /\ DOMAIN h = 1 .. Len(h) /\ Len(h) \in Nat  BY <1>2
  <2>3. place \in found  BY <1>2
  <2>4. place \in 1 .. Len(h) /\ h[place] = sha  BY <2>1, <2>3
  <2>5. a = [i \in 1 .. Len(h) |-> IF i < place THEN h[i]
                                  ELSE IF i < Len(h) THEN h[i + 1] ELSE sha]
    BY <1>2, <2>1 DEF Appended
  <2> HIDE DEF a, place
  <2>6. a \in [1 .. Len(h) -> Shas]
    <3>0. \A k \in 1 .. Len(h) : h[k] \in Shas  BY <2>1
    <3>1. ASSUME NEW i \in 1 .. Len(h) PROVE a[i] \in Shas
      <4>1. CASE i < place  BY <3>0, <4>1, <2>5
      <4>2. CASE ~(i < place) /\ i < Len(h)
        <5>1. i + 1 \in 1 .. Len(h)  BY <4>2, <2>1
        <5> QED  BY <3>0, <5>1, <4>2, <2>5
      <4>3. CASE ~(i < place) /\ ~(i < Len(h))  BY <4>3, <2>5
      <4> QED  BY <4>1, <4>2, <4>3
    <3> QED  BY <2>5, <3>1
  <2>7. a \in Seq(Shas) /\ DOMAIN a = 1 .. Len(h)  BY <2>1, <2>6
  <2>8. a[Len(h)] = sha /\ Len(h) \in 1 .. Len(h)  BY <2>1, <2>4, <2>5
  <2>9. ASSUME NEW k \in 1 .. Len(h) PROVE \E i \in 1 .. Len(h) : a[i] = h[k]
    <3>1. CASE k < place  BY <2>1, <2>4, <2>5, <3>1
    <3>2. CASE k = place  BY <2>1, <2>4, <2>8, <3>2
    <3>3. CASE k > place
      <4>1. k - 1 \in 1 .. Len(h) /\ k - 1 < Len(h) /\ ~(k - 1 < place) /\ (k - 1) + 1 = k
        BY <2>1, <2>4, <3>3
      <4> QED  BY <2>5, <4>1
    <3> QED  BY <2>1, <2>4, <3>1, <3>2, <3>3
  <2> QED  BY <2>1, <2>7, <2>8, <2>9 DEF a
<1> QED  BY <1>1, <1>2
--------------------------------------------------------------------------------
(* Steps of one kind. *)

\* Without a switch on record, and without one being put on record.
LEMMA RestingKeeps ==
    ASSUME IInv, ~InTransit,
           gate' \in Gates, dep' \in Records, ctl' \in Controllers, host' \in Hosts,
           UNCHANGED <<procs, busy>>,
           dep'.journal = dep.journal, dep'.version = dep.version,
           dep'.workers = dep.workers, dep'.history = dep.history,
           dep'.phase \in Resting \ {"blocked"},
           dep'.phase = "announcing" =>
               dep'.announced \in Versions /\ (dep'.failed # None => Proven(dep'.announced.sha)),
           dep'.failed # None => ~Running(dep.workers),
           \A sha \in {dep'.requested, dep'.refused, host'.request} \cap Shas : Proven(sha),
           gate'.phase # "quiesced" => gate'.stop = {},
           gate'.stop \in {{}, gate.stop},
           ctl'.at \in {"down", "ready", "begin", "reopen"}, ~ctl'.recovering,
           ctl'.at = "begin" => dep'.phase = "announcing" /\ gate'.phase = "quiesced"
    PROVE  IInv'
<1> USE DEF IInv
<1>1. Shapes'  BY DEF Shapes
<1>2. ~InTransit'  BY DEF InTransit
<1>3. dep'.phase \notin Switching \cup {"blocked"} \cup Starting \cup Verifying
  BY DEF Resting, Switching, Starting, Verifying
<1>4. PlacesFit'  BY <1>2, <1>3 DEF PlacesFit
<1>5. Closed'  BY <1>2 DEF Closed
<1>6. CommittedLive'  BY DEF CommittedLive, AsCommitted, Alive
<1>7. OnRecord' /\ FreshLive'  BY <1>2, <1>3 DEF OnRecord, FreshLive, Switching
<1>8. Launching'  BY DEF Launching
<1>9. OneGeneration'  BY DEF OneGeneration, Alive
<1>10. \A sha : Proven(sha)' <=> Proven(sha)  BY DEF Proven
<1>11. Running(dep.workers)' <=> Running(dep.workers)  BY DEF Running, Up
<1>12. Returnable'
  BY <1>2, <1>3, <1>10, <1>11 DEF Returnable, Switching
<1> QED  BY <1>1, <1>4, <1>5, <1>6, <1>7, <1>8, <1>9, <1>12

\* Only the operator, the remote head and the drafts.
LEMMA HostKeeps ==
    ASSUME IInv, host' \in Hosts, UNCHANGED <<gate, dep, ctl, procs, busy>>,
           host'.request \in Shas => Proven(host'.request)
    PROVE  IInv'
<1> USE DEF IInv
<1>1. Shapes' /\ PlacesFit' /\ Closed' /\ CommittedLive' /\ OnRecord'
  BY DEF Shapes, PlacesFit, Closed, CommittedLive, OnRecord, InTransit, AsCommitted, Alive
<1>2. FreshLive' /\ Launching' /\ OneGeneration'
  BY DEF FreshLive, Launching, OneGeneration, Alive, Fresh, Goal, Back, Current
<1>3. Returnable'
  BY DEF Returnable, Proven, InTransit, Running, Up
<1> QED  BY <1>1, <1>2, <1>3

\* The controller is gone, or starts again.
LEMMA ControllerKeeps ==
    ASSUME IInv, ctl' \in Controllers, ctl'.at \in {"down", "ready"},
           ctl'.recovering => InTransit /\ ctl'.at = "ready",
           UNCHANGED <<gate, dep, procs, busy, host>>
    PROVE  IInv'
<1> USE DEF IInv
<1>1. Shapes' /\ PlacesFit' /\ Closed' /\ CommittedLive' /\ OnRecord'
  BY DEF Shapes, PlacesFit, Closed, CommittedLive, OnRecord, InTransit, AsCommitted, Alive
<1>2. FreshLive' /\ Launching' /\ OneGeneration'
  BY DEF FreshLive, Launching, OneGeneration, Alive, Fresh, Goal, Back
<1>3. Returnable'
  BY DEF Returnable, Proven, InTransit, Running, Up
<1> QED  BY <1>1, <1>2, <1>3

\* A worker comes up, goes, begins or ends an operation.
LEMMA WorkerKeeps ==
    ASSUME IInv, UNCHANGED <<dep, ctl, host>>,
           gate' \in Gates, gate'.phase = gate.phase, gate'.stop = gate.stop,
           procs' \in [DOMAIN procs' -> Processes], DOMAIN procs' \subseteq DOMAIN procs,
           \A l \in DOMAIN procs' : procs'[l].sha = procs[l].sha
               /\ (procs[l].life = "up" => procs'[l].life = "up"),
           busy' \subseteq busy \/ gate.phase # "quiesced",
           ~InTransit \/ dep.phase = "stopping" => Up' \subseteq Up
    PROVE  IInv'
<1> USE DEF IInv
<1>1. Shapes' /\ PlacesFit'  BY DEF Shapes, PlacesFit, InTransit
<1>2. Closed'
  BY DEF Closed, InTransit
<1>3. CommittedLive' /\ OnRecord'
  BY DEF CommittedLive, OnRecord, InTransit, AsCommitted, Alive
<1>4. FreshLive' /\ OneGeneration'
  BY DEF FreshLive, OneGeneration, Alive, Fresh, Goal, Back
<1>5. Launching'
  BY DEF Launching, Alive, Fresh, Back, Current
<1>6. Returnable'
  BY DEF Returnable, Proven, InTransit, Running
<1> QED  BY <1>1, <1>2, <1>3, <1>4, <1>5, <1>6

\* A switch on record is turned back, or stays so until the operator decides.
LEMMA TurningKeeps ==
    ASSUME IInv, InTransit, dep' \in Records, ctl' \in Controllers, host' \in Hosts,
           UNCHANGED <<gate, procs, busy>>,
           dep'.journal = dep.journal, dep'.version = dep.version,
           dep'.workers = dep.workers, dep'.history = dep.history,
           dep'.phase \in {"rollback_stopping", "blocked"}, dep'.failed = None,
           \A sha \in {dep'.requested, dep'.refused, host'.request} \cap Shas : Proven(sha),
           ctl'.at = "ready", ~ctl'.recovering
    PROVE  IInv'
<1> USE DEF IInv
<1>1. Shapes'  BY DEF Shapes
<1>2. InTransit'  BY DEF InTransit
<1>3. PlacesFit'  BY <1>2 DEF PlacesFit, Switching
<1>4. Closed'  BY DEF Closed, InTransit
<1>5. CommittedLive'  BY <1>2 DEF CommittedLive
<1>6. OnRecord'  BY DEF OnRecord, Alive
<1>7. FreshLive' /\ Launching'  BY DEF FreshLive, Launching, Starting, Verifying
<1>8. OneGeneration'  BY DEF OneGeneration, Alive
<1>9. Returnable'
  <2>1. \A sha : Proven(sha)' <=> Proven(sha)  BY DEF Proven
  <2> QED  BY <1>2, <2>1 DEF Returnable
<1> QED  BY <1>1, <1>3, <1>4, <1>5, <1>6, <1>7, <1>8, <1>9
--------------------------------------------------------------------------------
(* Workers, users and the operator. *)

LEMMA DownIsController == Down \in Controllers
BY DeploymentAssumption DEF Controllers, Down, Places, Roles

LEMMA InitHolds == Init => IInv
<1> SUFFICES ASSUME Init PROVE IInv  OBVIOUS
<1> USE DEF Init
<1>1. gate \in Gates  BY DEF Gates
<1>2. None \in Maybe /\ NoJournal \in Journals  BY DEF Maybe, NoJournal, Journals
<1>3. <<Installed>> \in Seq(Shas)  BY DeploymentAssumption
<1>4. dep \in Records
  BY <1>2, <1>3, DeploymentAssumption DEF Records, Resting, Versions, Modes
<1>5. ctl \in Controllers /\ host \in Hosts
  <2>1. ctl \in Controllers  BY DownIsController DEF Controllers, Places
  <2>2. host \in Hosts  BY DeploymentAssumption DEF Hosts
  <2> QED  BY <2>1, <2>2
<1>6. DOMAIN procs = {}  OBVIOUS
<1>7. Shapes  BY <1>1, <1>4, <1>5, <1>6 DEF Shapes
<1>8. ~InTransit /\ dep.phase \notin Switching \cup {"blocked"} \cup Starting \cup Verifying
  BY DEF InTransit, Switching, Starting, Verifying
<1>9. PlacesFit /\ Closed  BY <1>8 DEF PlacesFit, Closed, Down
<1>10. CommittedLive /\ OnRecord /\ FreshLive /\ OneGeneration
  BY <1>6, <1>8 DEF CommittedLive, OnRecord, FreshLive, OneGeneration, Alive, Switching
<1>11. Launching  BY <1>6 DEF Launching, Down, Alive
<1>12. Proven(Installed)  BY DEF Proven
<1>13. Returnable
  BY <1>8, <1>12, DeploymentAssumption DEF Returnable, Switching
<1> QED  BY <1>7, <1>9, <1>10, <1>11, <1>13 DEF IInv

LEMMA WorkersAndUsersKeep ==
    ASSUME IInv,
           \/ Saved \/ Draft \/ Command \/ HeadMoves
           \/ \E l \in Alive : Boot(l) \/ Obey(l) \/ Finish(l) \/ Dies(l) \/ Work(l)
    PROVE  IInv'
<1> USE DEF IInv
<1>1. /\ gate \in Gates /\ procs \in [Alive -> Processes] /\ Alive \subseteq Launches
      /\ host \in Hosts /\ dep.history \in Seq(Shas)
  BY DEF Shapes, Alive, Records
<1>2. CASE Saved \/ Draft
  BY <1>1, <1>2, HostKeeps DEF Saved, Draft, Returnable
<1>3. CASE HeadMoves
  <2>1. PICK sha \in Shas : host' = [host EXCEPT !.head = sha]  BY <1>3 DEF HeadMoves
  <2>2. host' \in Hosts /\ host'.request = host.request  BY <1>1, <2>1 DEF Hosts
  <2> QED  BY <1>3, <2>2, HostKeeps DEF HeadMoves, Returnable
<1>4. CASE Command
  <2>1. /\ host' \in Hosts
        /\ host'.request \in Shas => Proven(host'.request)
    <3>1. CASE \E wish \in {"retry"} \cup {dep.history[i] : i \in DOMAIN dep.history} :
                host' = [host EXCEPT !.request = wish]
      <4>1. PICK wish \in {"retry"} \cup {dep.history[i] : i \in DOMAIN dep.history} :
                host' = [host EXCEPT !.request = wish]
        BY <3>1
      <4>2. wish \in Shas \cup {"retry"} /\ (wish \in Shas => Proven(wish))
        BY <1>1, DeploymentAssumption DEF Proven
      <4> QED  BY <1>1, <4>1, <4>2 DEF Hosts
    <3>2. CASE \E modes \in Modes \ {host.modes} : host' = [host EXCEPT !.modes = modes]
      BY <1>1, <3>2 DEF Hosts, Returnable
    <3>3. CASE host' = [host EXCEPT !.paused = ~@]
      BY <1>1, <3>3 DEF Hosts, Returnable
    <3> QED  BY <1>4, <3>1, <3>2, <3>3 DEF Command
  <2> QED  BY <1>4, <2>1, HostKeeps DEF Command
<1>5. ASSUME NEW l \in Alive, Boot(l) PROVE IInv'
  <2>1. /\ procs[l].life = "starting" /\ UNCHANGED <<dep, ctl, host, busy>>
        /\ procs' = [procs EXCEPT ![l].life = "up"] \/ procs' = Without(l)
        /\ gate' = gate \/ gate' = [gate EXCEPT !.heard[l.role] = l]
    BY <1>5 DEF Boot
  <2>2. gate' \in Gates /\ gate'.phase = gate.phase /\ gate'.stop = gate.stop
    BY <1>1, <2>1 DEF Gates
  <2>3. /\ procs' \in [DOMAIN procs' -> Processes] /\ DOMAIN procs' \subseteq DOMAIN procs
        /\ \A k \in DOMAIN procs' : procs'[k].sha = procs[k].sha
               /\ (procs[k].life = "up" => procs'[k].life = "up")
    <3>1. CASE procs' = [procs EXCEPT ![l].life = "up"]
      BY <1>1, <3>1 DEF Processes, Alive
    <3>2. CASE procs' = Without(l)  BY <1>1, <3>2 DEF Without, Alive
    <3> QED  BY <2>1, <3>1, <3>2
  <2>4. ~(~InTransit \/ dep.phase = "stopping")
    BY <2>1 DEF CommittedLive, AsCommitted
  <2> QED  BY <2>1, <2>2, <2>3, <2>4, WorkerKeeps
<1>6. ASSUME NEW l \in Alive, Obey(l) \/ Dies(l) PROVE IInv'
  <2>1. /\ procs' = Without(l) /\ UNCHANGED <<gate, dep, ctl, host>> /\ busy' \subseteq busy
    BY <1>6 DEF Obey, Dies
  <2>2. /\ procs' \in [DOMAIN procs' -> Processes] /\ DOMAIN procs' \subseteq DOMAIN procs
        /\ \A k \in DOMAIN procs' : procs'[k] = procs[k]
    BY <1>1, <2>1 DEF Without, Alive
  <2>3. Up' \subseteq Up  BY <2>2 DEF Up
  <2> QED  BY <1>1, <2>1, <2>2, <2>3, WorkerKeeps
<1>7. ASSUME NEW l \in Alive, Work(l) \/ Finish(l) PROVE IInv'
  <2>1. UNCHANGED <<gate, dep, ctl, procs, host>> /\ (busy' \subseteq busy \/ gate.phase # "quiesced")
    BY <1>7 DEF Work, Finish
  <2> QED  BY <1>1, <2>1, WorkerKeeps DEF Up, Alive
<1> QED  BY <1>2, <1>3, <1>4, <1>5, <1>6, <1>7

LEMMA ControllerStops ==
    ASSUME IInv, Crash \/ Restart PROVE IInv'
<1>1. ctl \in Controllers /\ Down \in Controllers  BY DownIsController DEF IInv, Shapes
<1>2. CASE Crash  BY <1>1, <1>2, ControllerKeeps DEF Crash, Down
<1>3. CASE Restart
  <2>1. ctl' \in Controllers /\ ctl'.at = "ready" /\ ctl'.recovering = InTransit
    BY <1>1, <1>3 DEF Restart, Controllers, Places, InTransit
  <2> QED  BY <1>3, <2>1, ControllerKeeps DEF Restart
<1> QED  BY <1>2, <1>3
--------------------------------------------------------------------------------
(* A tick outside a switch. *)

\* What holds of all of them, so that each is told by what it changes.
LEMMA Resting0 ==
    ASSUME IInv, ~InTransit
    PROVE  /\ gate \in Gates /\ dep \in Records /\ ctl \in Controllers /\ host \in Hosts
           /\ ~ctl.recovering
           /\ dep.phase \in Resting \ {"blocked"}
           /\ dep.phase = "announcing" =>
                  dep.announced \in Versions /\ (dep.failed # None => Proven(dep.announced.sha))
           /\ dep.failed # None => ~Running(dep.workers)
           /\ \A sha \in {dep.requested, dep.refused, host.request} \cap Shas : Proven(sha)
           /\ gate.phase # "quiesced" => gate.stop = {}
           /\ Reopened \in Gates /\ Reopened.stop = {} /\ Down \in Controllers
<1>1. gate \in Gates /\ dep \in Records /\ ctl \in Controllers /\ host \in Hosts
  BY DEF IInv, Shapes
<1>2. dep.phase \in Resting \ {"blocked"}
  BY <1>1 DEF IInv, PlacesFit, Records
<1>3. Reopened \in Gates /\ Reopened.stop = {}  BY <1>1 DEF Reopened, Gates
<1>4. Down \in Controllers  BY DownIsController
<1>5. ~ctl.recovering  BY DEF IInv, PlacesFit
<1> QED
  BY <1>1, <1>2, <1>3, <1>4, <1>5 DEF IInv, PlacesFit, Returnable, Closed

LEMMA GateOnlyKeeps == ASSUME IInv, Defer \/ Adopt \/ Reopen PROVE IInv'
<1>1. ~InTransit
  BY DEF Defer, Adopt, Reopen, Settled, Undisturbed, At, IInv, Closed, PlacesFit
<1> USE Resting0, <1>1
<1>2. CASE Defer
  <2>1. gate' \in Gates /\ gate'.stop = gate.stop /\ gate'.phase = "open" /\ gate.phase = "announcing"
    BY <1>2 DEF Defer, Gates
  <2>2. ctl.at \in {"down", "ready", "reopen"}
    BY <2>1 DEF IInv, PlacesFit, Controllers, Places, Starting, Switching, Resting
  <2> QED  BY <1>2, <2>1, <2>2, RestingKeeps DEF Defer
<1>3. CASE Adopt
  BY <1>3, RestingKeeps DEF Adopt, Settled, Undisturbed, At
<1>4. CASE Reopen
  <2>1. ctl' \in Controllers /\ ctl'.at = "ready" /\ ~ctl'.recovering
    BY <1>4 DEF Reopen, Controllers, Places
  <2> QED  BY <1>4, <2>1, RestingKeeps DEF Reopen
<1> QED  BY <1>2, <1>3, <1>4

LEMMA CancelledRecord ==
    ASSUME IInv, ~InTransit, NEW d \in Records
    PROVE  /\ Cancelled(d) \in Records
           /\ Cancelled(d) = [d EXCEPT !.phase = "idle", !.announced = None]
BY DEF Cancelled, Records, Resting, Maybe

LEMMA NoticedFacts ==
    ASSUME IInv, Watching
    PROVE  /\ Noticed \in Records
           /\ Noticed.journal = dep.journal /\ Noticed.version = dep.version
           /\ Noticed.workers = dep.workers /\ Noticed.history = dep.history
           /\ Noticed.phase = dep.phase /\ Noticed.refused = dep.refused
           /\ Noticed.announced = dep.announced
           /\ Noticed.requested \in Shas => Proven(Noticed.requested)
           /\ Noticed.failed # None => ~Running(dep.workers)
           /\ dep.phase # "announcing" /\ Noticed.requested = "none" => Noticed.failed = None
<1> DEFINE instead == IF ctl.reconciling \/ host.paused \/ LastGood = {} THEN dep.version.sha
                      ELSE dep.history[CHOOSE i \in LastGood : TRUE]
<1>0. ~InTransit  BY DEF Watching, Settled, Undisturbed
<1>1. dep \in Records  BY <1>0, Resting0
<1>2. CASE Noticed = dep /\ (Running(dep.workers) \/ dep.requested # "none" \/ dep.phase = "announcing")
  BY <1>0, <1>1, <1>2, Resting0
<1>3. CASE /\ ~Running(dep.workers)
           /\ Noticed = [dep EXCEPT !.requested = instead, !.exited = TRUE,
                        !.failed = IF instead # dep.version.sha THEN dep.version ELSE @]
  <2>1. dep.version \in Versions /\ dep.history \in Seq(Shas) /\ dep.version.sha \in Shas
    BY <1>1 DEF Records, Versions
  <2>2. LastGood # {} => (CHOOSE i \in LastGood : TRUE) \in DOMAIN dep.history
    BY DEF LastGood
  <2>3. Proven(dep.version.sha)  BY DEF IInv, Returnable
  <2>4. instead \in Shas /\ Proven(instead)
    <3>1. CASE ctl.reconciling \/ host.paused \/ LastGood = {}  BY <2>1, <2>3, <3>1
    <3>2. CASE ~(ctl.reconciling \/ host.paused \/ LastGood = {})
      <4>1. PICK k \in DOMAIN dep.history : instead = dep.history[k]  BY <2>2, <3>2
      <4> HIDE DEF instead
      <4> QED  BY <2>1, <4>1 DEF Proven
    <3> QED  BY <3>1, <3>2
  <2> HIDE DEF instead
  <2>5. instead # "none"  BY <2>4, DeploymentAssumption
  <2>6. Noticed \in Records  BY ZenonT(60), <1>1, <1>3, <2>1, <2>4 DEF Records, Maybe
  <2>7. Noticed.requested = instead  BY <1>1, <1>3 DEF Records
  <2>8. /\ Noticed.journal = dep.journal /\ Noticed.version = dep.version
        /\ Noticed.workers = dep.workers /\ Noticed.history = dep.history
        /\ Noticed.phase = dep.phase /\ Noticed.refused = dep.refused
        /\ Noticed.announced = dep.announced
    BY <1>1, <1>3 DEF Records
  <2> QED  BY <1>3, <2>4, <2>5, <2>6, <2>7, <2>8
<1>4. \/ Noticed = dep /\ (Running(dep.workers) \/ dep.requested # "none" \/ dep.phase = "announcing")
      \/ /\ ~Running(dep.workers)
         /\ Noticed = [dep EXCEPT !.requested = instead, !.exited = TRUE,
                        !.failed = IF instead # dep.version.sha THEN dep.version ELSE @]
  BY Zenon DEF Noticed
<1> QED  BY <1>2, <1>3, <1>4

LEMMA CheckedController ==
    ASSUME IInv, Watching
    PROVE  Checked \in Controllers /\ Checked.at = "ready" /\ ~Checked.recovering
<1>1. ctl \in Controllers /\ ctl.at = "ready" /\ ~ctl.recovering
  BY DEF IInv, Shapes, Watching, Settled, Undisturbed, At
<1>2. (ctl.reconciling /\ (dep.requested # "none" \/ dep.phase = "announcing")) \in BOOLEAN
  OBVIOUS
<1> QED  BY <1>1, <1>2 DEF Checked, Controllers

LEMMA CandidateFacts ==
    ASSUME IInv, Due
    PROVE  /\ Candidate \in Versions
           /\ Noticed.failed # None => Proven(Candidate.sha)
<1>1. Watching /\ dep.phase # "announcing"  BY DEF Due, Going
<1>2. ~InTransit  BY <1>1 DEF Watching, Settled, Undisturbed
<1>3. Noticed \in Records /\ host \in Hosts /\ dep \in Records  BY <1>1, <1>2, NoticedFacts, Resting0
<1>4. Noticed.requested \in Shas \cup {"none"} /\ Noticed.version.sha \in Shas
      /\ host.head \in Shas /\ host.modes \in Modes /\ dep.version.modes \in Modes
  BY <1>3 DEF Records, Hosts, Versions
<1>5. Wanted \in Modes  BY <1>4 DEF Wanted
<1>6. Candidate.sha \in Shas  BY <1>4 DEF Candidate
<1>7. Candidate \in Versions  BY <1>5, <1>6 DEF Candidate, Versions
<1>8. CASE Noticed.requested # "none"
  <2>1. Candidate.sha = Noticed.requested /\ Noticed.requested \in Shas
    BY <1>4, <1>8 DEF Candidate
  <2> QED  BY <1>1, <1>7, <2>1, NoticedFacts
<1>9. CASE Noticed.requested = "none"  BY <1>1, <1>7, <1>9, NoticedFacts
<1> QED  BY <1>8, <1>9

LEMMA AnnouncementKeeps ==
    ASSUME IInv, CancelAnnouncement \/ Missed \/ Withdraw \/ NotIdle \/ Quiesce
    PROVE  IInv'
<1>1. ~InTransit /\ At("ready")
  BY DEF CancelAnnouncement, Missed, Withdraw, NotIdle, Quiesce, Announced, Going, Watching,
         Settled, Undisturbed
<1> USE Resting0, <1>1
<1>2. CASE CancelAnnouncement \/ Withdraw
  <2>1. /\ gate' = Reopened /\ dep' = [dep EXCEPT !.phase = "idle", !.announced = None]
        /\ dep' \in Records /\ UNCHANGED <<ctl, procs, busy, host>>
    BY <1>2, CancelledRecord DEF CancelAnnouncement, Withdraw
  <2>2. /\ dep'.phase = "idle" /\ dep'.failed = dep.failed /\ dep'.requested = dep.requested
        /\ dep'.refused = dep.refused /\ dep'.journal = dep.journal /\ dep'.version = dep.version
        /\ dep'.workers = dep.workers /\ dep'.history = dep.history
    BY <2>1 DEF Records
  <2> QED  BY <2>1, <2>2, RestingKeeps DEF At, Resting
<1>3. CASE Missed \/ NotIdle
  <2>1. /\ gate' \in {gate, Reopened} /\ dep' = [dep EXCEPT !.phase = "waiting", !.announced = None]
        /\ UNCHANGED <<ctl, procs, busy, host>>
    BY <1>3 DEF Missed, NotIdle
  <2>2. /\ dep' \in Records /\ dep'.phase = "waiting" /\ dep'.failed = dep.failed
        /\ dep'.requested = dep.requested
        /\ dep'.refused = dep.refused /\ dep'.journal = dep.journal /\ dep'.version = dep.version
        /\ dep'.workers = dep.workers /\ dep'.history = dep.history
    BY <2>1 DEF Records, Resting, Maybe
  <2> QED  BY <2>1, <2>2, RestingKeeps DEF At, Resting
<1>4. CASE Quiesce
  <2>1. /\ gate' \in Gates /\ gate'.phase = "quiesced" /\ gate'.stop = gate.stop
        /\ ctl' \in Controllers /\ ctl'.at = "begin" /\ ~ctl'.recovering
        /\ dep.phase = "announcing" /\ UNCHANGED <<dep, procs, busy, host>>
    BY <1>4 DEF Quiesce, Announced, Gates, Controllers, Places
  <2> QED  BY <2>1, RestingKeeps
<1> QED  BY <1>2, <1>3, <1>4

LEMMA WatchingKeeps ==
    ASSUME IInv, Pause \/ Wait \/ Announce \/ AnnounceCut \/ PreparationFails
    PROVE  IInv'
<1>1. Watching  BY DEF Pause, Wait, Announce, AnnounceCut, PreparationFails, Due, Going
<1>2. ~InTransit /\ At("ready") /\ gate.phase # "quiesced"
  BY <1>1 DEF Watching, Settled, Undisturbed
<1> USE Resting0, <1>2
<1>3. /\ [gate EXCEPT !.phase = "announcing"] \in Gates
      /\ [gate EXCEPT !.phase = "announcing"].stop = gate.stop
  BY DEF Gates
<1>4. CASE Pause
  <2>1. /\ gate' \in {gate, Reopened} /\ dep' = [dep EXCEPT !.phase = "paused", !.announced = None]
        /\ ctl' = Checked /\ UNCHANGED <<procs, busy, host>>
    BY <1>4 DEF Pause
  <2>2. /\ dep' \in Records /\ dep'.phase = "paused" /\ dep'.failed = dep.failed
        /\ dep'.requested = dep.requested
        /\ dep'.refused = dep.refused /\ dep'.journal = dep.journal /\ dep'.version = dep.version
        /\ dep'.workers = dep.workers /\ dep'.history = dep.history
    BY <2>1 DEF Records, Resting, Maybe
  <2> QED  BY <1>1, <2>1, <2>2, CheckedController, RestingKeeps DEF Resting
<1>5. CASE Wait
  <2>1. /\ dep' = [Noticed EXCEPT !.phase = "waiting"] /\ ctl' = Checked
        /\ UNCHANGED <<gate, procs, busy, host>>
    BY <1>5 DEF Wait
  <2>2. /\ dep' \in Records /\ dep'.phase = "waiting" /\ dep'.failed = Noticed.failed
        /\ dep'.requested = Noticed.requested
        /\ dep'.refused = dep.refused /\ dep'.journal = dep.journal /\ dep'.version = dep.version
        /\ dep'.workers = dep.workers /\ dep'.history = dep.history
    BY <1>1, <2>1, NoticedFacts DEF Records, Resting
  <2> QED  BY <1>1, <2>1, <2>2, NoticedFacts, CheckedController, RestingKeeps DEF Resting
<1>6. CASE Announce
  <2>1. /\ dep' = [Noticed EXCEPT !.phase = "announcing", !.announced = Candidate,
                              !.settings = host.modes,
                              !.source = IF Local THEN "local" ELSE "automatic"]
        /\ ctl' = Checked /\ gate' = [gate EXCEPT !.phase = "announcing"]
        /\ UNCHANGED <<procs, busy, host>> /\ Due
    BY <1>6 DEF Announce
  <2>2. Candidate \in Versions /\ (Noticed.failed # None => Proven(Candidate.sha))
    BY <2>1, CandidateFacts
  <2>3. host.modes \in SUBSET Roles  BY DEF Hosts, Modes, Roles
  <2>4. Noticed \in Records  BY <1>1, NoticedFacts
  <2>5. PICK source \in {"automatic", "local"} :
          dep' = [Noticed EXCEPT !.phase = "announcing", !.announced = Candidate,
                                 !.settings = host.modes, !.source = source]
    BY <2>1
  <2>6. dep' \in Records
    BY <2>2, <2>3, <2>4, <2>5 DEF Records, Resting, Maybe
  <2>7. /\ dep' \in Records /\ dep'.phase = "announcing" /\ dep'.failed = Noticed.failed
        /\ dep'.announced = Candidate /\ dep'.requested = Noticed.requested
        /\ dep'.refused = dep.refused /\ dep'.journal = dep.journal /\ dep'.version = dep.version
        /\ dep'.workers = dep.workers /\ dep'.history = dep.history
    BY <1>1, <2>4, <2>5, <2>6, NoticedFacts DEF Records
  <2> QED  BY <1>1, <1>3, <2>1, <2>2, <2>7, NoticedFacts, CheckedController, RestingKeeps DEF Resting
<1>7. CASE AnnounceCut
  <2>1. /\ gate' = [gate EXCEPT !.phase = "announcing"] /\ ctl' = Down
        /\ UNCHANGED <<dep, procs, busy, host>>
    BY <1>7 DEF AnnounceCut
  <2> QED  BY <1>3, <2>1, RestingKeeps DEF Down
<1>8. CASE PreparationFails
  <2>1. /\ dep' = [Noticed EXCEPT !.phase = "idle", !.blocked = Candidate, !.announced = None,
                              !.refused = Noticed.requested, !.requested = "none", !.exited = FALSE]
        /\ ctl' = Checked /\ UNCHANGED <<gate, procs, busy, host>> /\ Due
    BY <1>8 DEF PreparationFails
  <2>2. Candidate \in Versions  BY <2>1, CandidateFacts
  <2>3. Noticed.requested \in Shas \cup {"none"}  BY <1>1, NoticedFacts DEF Records
  <2>4. /\ dep' \in Records /\ dep'.phase = "idle" /\ dep'.failed = Noticed.failed
        /\ dep'.requested = "none" /\ dep'.refused = Noticed.requested
        /\ dep'.journal = dep.journal /\ dep'.version = dep.version
        /\ dep'.workers = dep.workers /\ dep'.history = dep.history
    BY ZenonT(60), <1>1, <2>1, <2>2, <2>3, NoticedFacts DEF Records, Resting, Maybe
  <2>5. "none" \notin Shas  BY DeploymentAssumption
  <2> QED  BY <1>1, <2>1, <2>4, <2>5, NoticedFacts, CheckedController, RestingKeeps DEF Resting
<1> QED  BY <1>4, <1>5, <1>6, <1>7, <1>8

LEMMA RequestKeeps == ASSUME IInv, Request PROVE IInv'
<1> DEFINE retry == host.request = "retry"
           d == IF retry
             THEN [dep EXCEPT !.blocked = None, !.exited = FALSE, !.refused = "none",
                              !.requested = IF dep.refused # "none" THEN dep.refused ELSE @]
             ELSE [dep EXCEPT !.requested = host.request, !.failed = None]
<1>1. dep \in Records /\ host \in Hosts /\ ctl \in Controllers /\ gate \in Gates
  BY DEF IInv, Shapes
<1>2. host.request \in Shas \cup {"none", "retry"} /\ host.request # "none"
  BY <1>1 DEF Hosts, Request, Commanded
<1>3. \A sha \in {dep.requested, dep.refused, host.request} \cap Shas : Proven(sha)
  BY DEF IInv, Returnable
<1>4. /\ d \in Records /\ d.journal = dep.journal /\ d.version = dep.version
      /\ d.workers = dep.workers /\ d.history = dep.history /\ d.phase = dep.phase
      /\ d.failed \in {dep.failed, None}
      /\ d.announced = dep.announced
      /\ d.requested \in {dep.requested, dep.refused, host.request}
      /\ d.refused \in {dep.refused, "none"}
  <2>1. CASE retry  BY ZenonT(60), <1>1, <2>1 DEF Records, Maybe
  <2>2. CASE ~retry  BY <1>1, <1>2, <2>2 DEF Records, Maybe
  <2> QED  BY <2>1, <2>2
<1>5. /\ At("ready") /\ ~ctl.recovering /\ (InTransit => dep.phase = "blocked")
      /\ IF dep.phase = "announcing" THEN gate' = Reopened /\ dep' = Cancelled(d)
         ELSE gate' = gate /\ dep' = IF InTransit /\ retry THEN RollingBack(d) ELSE d
      /\ host' = [host EXCEPT !.request = "none"] /\ UNCHANGED <<ctl, procs, busy>>
  BY DEF Request
<1>6. host' \in Hosts /\ host'.request = "none"  BY <1>1, <1>5 DEF Hosts
<1>7. "none" \notin Shas  BY DeploymentAssumption
<1> HIDE DEF d, retry
<1>8. CASE InTransit
  <2>1. dep.phase = "blocked" /\ dep.failed = None  BY <1>5, <1>8 DEF IInv, Returnable
  <2>2. gate' = gate /\ (dep' = RollingBack(d) \/ dep' = d)  BY <1>5, <2>1
  <2>3. d.journal \in Journals /\ d.journal.failed \in Maybe /\ d.journal.target \in Maybe
    BY <1>4 DEF Records, Journals
  <2>4. /\ dep' \in Records /\ dep'.journal = dep.journal /\ dep'.version = dep.version
        /\ dep'.workers = dep.workers /\ dep'.history = dep.history
        /\ dep'.phase \in {"rollback_stopping", "blocked"} /\ dep'.failed = None
        /\ dep'.requested = d.requested /\ dep'.refused = d.refused
    <3>1. CASE dep' = d  BY <1>4, <2>1, <3>1
    <3>2. CASE dep' = RollingBack(d)
      BY <1>4, <2>1, <2>3, <3>2 DEF RollingBack, Records, Switching
    <3> QED  BY <2>2, <3>1, <3>2
  <2> QED  BY <1>1, <1>3, <1>4, <1>5, <1>6, <1>7, <1>8, <2>2, <2>4, TurningKeeps DEF At
<1>9. CASE ~InTransit
  <2> USE Resting0, <1>9
  <2>1. CASE dep.phase = "announcing"
    <3>1. gate' = Reopened /\ dep' = [d EXCEPT !.phase = "idle", !.announced = None]
          /\ dep' \in Records
      BY <1>4, <1>5, <2>1, CancelledRecord
    <3>2. /\ dep'.phase = "idle" /\ dep'.failed = d.failed
          /\ dep'.requested = d.requested /\ dep'.refused = d.refused
          /\ dep'.journal = dep.journal /\ dep'.version = dep.version
          /\ dep'.workers = dep.workers /\ dep'.history = dep.history
      BY <1>4, <3>1 DEF Records
    <3> QED  BY <1>3, <1>4, <1>5, <1>6, <1>7, <3>1, <3>2, RestingKeeps DEF At, Resting
  <2>2. CASE dep.phase # "announcing"
    <3>1. gate' = gate /\ dep' = d  BY <1>5, <2>2
    <3> QED  BY <1>3, <1>4, <1>5, <1>6, <1>7, <2>2, <3>1, RestingKeeps DEF At
  <2> QED  BY <2>1, <2>2
<1> QED  BY <1>8, <1>9
--------------------------------------------------------------------------------
(* A switch. *)

LEMMA SwitchFacts ==
    ASSUME IInv
    PROVE  /\ gate \in Gates /\ dep \in Records /\ ctl \in Controllers /\ host \in Hosts
           /\ dep.journal \in Journals /\ dep.version \in Versions /\ dep.workers \in SUBSET Rows
           /\ dep.history \in Seq(Shas)
BY DEF IInv, Shapes, Records

\* A switch begins: the committed workers live, and the way back is known.
LEMMA BegunKeeps ==
    ASSUME IInv, ~InTransit, gate.phase = "quiesced",
           NEW version \in Versions, dep.failed # None => Proven(version.sha),
           dep' \in Records,
           dep'.phase = "stopping", dep'.failed = None, dep'.version = dep.version,
           dep'.workers = dep.workers, dep'.history = dep.history,
           dep'.requested \in {dep.requested, "none"}, dep'.refused = dep.refused,
           dep'.journal.previous = (IF dep.failed # None THEN version ELSE dep.version),
           dep'.journal.target = version, dep'.journal.failed = dep.failed,
           dep'.journal.old = dep.workers, dep'.journal.new = {}, dep'.journal.restored = {},
           ctl' = [ctl EXCEPT !.at = "ask"],
           UNCHANGED <<gate, procs, busy, host>>
    PROVE  IInv'
<1>1. dep'.journal \in Journals  BY DEF Records
<1>2. dep'.journal.previous \in Versions  BY SwitchFacts
<1>3. InTransit'  BY <1>1, <1>2, JournalIsOne DEF InTransit
<1>4. ctl' \in Controllers /\ ctl'.at = "ask" /\ ~ctl'.recovering
  BY SwitchFacts, Resting0 DEF Controllers, Places
<1>5. Shapes'  BY <1>4 DEF IInv, Shapes
<1>6. PlacesFit'  BY <1>2, <1>3, <1>4 DEF PlacesFit, Switching, Starting
<1>7. Closed'  BY DEF IInv, Closed
<1>8. CommittedLive'  BY DEF IInv, CommittedLive, AsCommitted, Alive
<1>9. OnRecord'
  <2>1. \A l \in Alive : l \in LaunchesOf(dep.workers)  BY DEF IInv, CommittedLive, AsCommitted
  <2> QED  BY <2>1 DEF OnRecord, LaunchesOf, Combined, Alive
<1>10. FreshLive' /\ Launching'
  BY <1>4 DEF FreshLive, Launching, Starting, Verifying
<1>11. OneGeneration'  BY DEF IInv, OneGeneration, Alive
<1>12. Returnable'
  <2>1. \A sha : Proven(sha)' <=> Proven(sha)  BY DEF Proven
  <2>2. "none" \notin Shas  BY DeploymentAssumption
  <2>3. Running(dep.workers)' <=> Running(dep.workers)  BY DEF Running, Up
  <2> QED  BY <1>3, <2>1, <2>2, <2>3 DEF IInv, Returnable
<1> QED  BY <1>5, <1>6, <1>7, <1>8, <1>9, <1>10, <1>11, <1>12 DEF IInv

LEMMA BeginKeeps == ASSUME IInv, Begin \/ BeginClosed PROVE IInv'
<1> USE SwitchFacts
<1>1. CASE Begin
  <2>1. dep.phase = "announcing" /\ gate.phase = "quiesced"
    BY <1>1 DEF Begin, At, IInv, PlacesFit
  <2>2. ~InTransit  BY <2>1 DEF IInv, PlacesFit, Switching
  <2>3. dep.announced \in Versions /\ (dep.failed # None => Proven(dep.announced.sha))
    BY <2>1, <2>2, Resting0
  <2>4. dep' = [Begun(dep.announced) EXCEPT !.requested = "none"]  BY <1>1 DEF Begin
  <2>5. dep' \in Records
    <3>1. PICK j : Begun(dep.announced)
                     = [dep EXCEPT !.phase = "stopping", !.failed = None, !.journal = j]
                   /\ j = [NoJournal EXCEPT
                             !.previous = IF dep.failed # None THEN dep.announced ELSE dep.version,
                             !.target = dep.announced, !.failed = dep.failed, !.old = dep.workers]
      BY DEF Begun
    <3>2. dep.failed \in Maybe  BY DEF Records
    <3>3. j \in Journals  BY <2>3, <3>1, <3>2 DEF NoJournal, Journals, Maybe
    <3>4. PICK begun : begun = Begun(dep.announced)  OBVIOUS
    <3>5. begun = [dep EXCEPT !.phase = "stopping", !.failed = None, !.journal = j]
      BY <3>1, <3>4
    <3>6. begun \in Records  BY <3>3, <3>5 DEF Records, Maybe, Switching
    <3>7. dep' = [begun EXCEPT !.requested = "none"]  BY <2>4, <3>4
    <3> QED  BY <3>6, <3>7 DEF Records
  <2>6. /\ dep'.phase = "stopping" /\ dep'.failed = None /\ dep'.version = dep.version
        /\ dep'.workers = dep.workers /\ dep'.history = dep.history
        /\ dep'.requested = "none" /\ dep'.refused = dep.refused
        /\ dep'.journal.previous = (IF dep.failed # None THEN dep.announced ELSE dep.version)
        /\ dep'.journal.target = dep.announced /\ dep'.journal.failed = dep.failed
        /\ dep'.journal.old = dep.workers /\ dep'.journal.new = {} /\ dep'.journal.restored = {}
    BY <2>4 DEF Begun, NoJournal, Records
  <2> QED  BY <1>1, <2>1, <2>2, <2>3, <2>5, <2>6, BegunKeeps DEF Begin
<1>2. CASE BeginClosed
  <2> DEFINE version == [dep.version EXCEPT !.modes = IF dep.phase = "booting" THEN host.modes ELSE @]
  <2>1. ~InTransit /\ gate.phase = "quiesced"
    BY <1>2 DEF BeginClosed, Settled, Undisturbed
  <2>2. version \in Versions /\ version.sha = dep.version.sha
    <3>1. dep.version \in [sha : Shas, modes : Modes] /\ host.modes \in Modes
      BY SwitchFacts DEF Versions, Hosts
    <3>2. PICK modes \in Modes : version = [dep.version EXCEPT !.modes = modes]
      BY <3>1
    <3> HIDE DEF version
    <3> QED  BY <3>1, <3>2 DEF Versions
  <2>3. Proven(version.sha)  BY <2>2 DEF IInv, Returnable
  <2>4. dep' = Begun(version)  BY <1>2 DEF BeginClosed
  <2> HIDE DEF version
  <2>5. dep' \in Records
    <3>1. PICK j : dep' = [dep EXCEPT !.phase = "stopping", !.failed = None, !.journal = j]
                   /\ j = [NoJournal EXCEPT
                             !.previous = IF dep.failed # None THEN version ELSE dep.version,
                             !.target = version, !.failed = dep.failed, !.old = dep.workers]
      BY <2>4 DEF Begun
    <3>2. dep.failed \in Maybe  BY DEF Records
    <3>3. j \in Journals  BY <2>2, <3>1, <3>2 DEF NoJournal, Journals, Maybe
    <3> QED  BY ZenonT(60), <3>1, <3>3 DEF Records, Maybe, Switching
  <2>6. /\ dep'.phase = "stopping" /\ dep'.failed = None /\ dep'.version = dep.version
        /\ dep'.workers = dep.workers /\ dep'.history = dep.history
        /\ dep'.requested = dep.requested /\ dep'.refused = dep.refused
        /\ dep'.journal.previous = (IF dep.failed # None THEN version ELSE dep.version)
        /\ dep'.journal.target = version /\ dep'.journal.failed = dep.failed
        /\ dep'.journal.old = dep.workers /\ dep'.journal.new = {} /\ dep'.journal.restored = {}
    BY <2>4 DEF Begun, NoJournal, Records
  <2> QED  BY <1>2, <2>1, <2>2, <2>3, <2>5, <2>6, BegunKeeps DEF BeginClosed
<1> QED  BY <1>1, <1>2

LEMMA AskRefusedKeeps == ASSUME IInv, AskRefused PROVE IInv'
<1> USE SwitchFacts DEF AskRefused
<1>1. ctl.at = "ask" /\ dep.phase = "stopping"  BY DEF At, IInv, PlacesFit
<1>2. InTransit /\ gate.phase = "quiesced"  BY <1>1 DEF IInv, PlacesFit, Switching, Closed
<1>3. /\ dep' \in Records /\ dep'.phase = "waiting" /\ dep'.journal = NoJournal
      /\ dep'.failed = dep.journal.failed /\ dep'.version = dep.version
      /\ dep'.workers = dep.workers /\ dep'.history = dep.history
      /\ dep'.requested = dep.requested /\ dep'.refused = dep.refused
  BY DEF Records, Resting, Journals, NoJournal, Maybe
<1>4. ctl' \in Controllers /\ ctl'.at = "reopen" /\ ~ctl'.recovering
  BY <1>1 DEF IInv, PlacesFit, Controllers, Places
<1>5. ~InTransit'  BY <1>3 DEF InTransit
<1>6. Shapes'  BY <1>3, <1>4 DEF IInv, Shapes
<1>7. PlacesFit'  BY <1>3, <1>4, <1>5 DEF PlacesFit, Switching
<1>8. Closed'  BY <1>2, <1>5 DEF IInv, Closed
<1>9. CommittedLive'  BY <1>1, <1>3 DEF IInv, CommittedLive, AsCommitted, Alive
<1>10. OnRecord' /\ FreshLive' /\ Launching'
  BY <1>3, <1>4, <1>5 DEF OnRecord, FreshLive, Launching, Starting, Verifying
<1>11. OneGeneration'  BY DEF IInv, OneGeneration, Alive
<1>12. Returnable'
  <2>1. \A sha : Proven(sha)' <=> Proven(sha)  BY <1>3 DEF Proven
  <2>2. Running(dep.workers)' <=> Running(dep.workers)  BY <1>3 DEF Running, Up
  <2> QED  BY <1>1, <1>3, <1>5, <2>1, <2>2 DEF IInv, Returnable
<1> QED  BY <1>6, <1>7, <1>8, <1>9, <1>10, <1>11, <1>12 DEF IInv

LEMMA AskKeeps == ASSUME IInv, Ask PROVE IInv'
<1> USE SwitchFacts DEF Ask
<1>1. ctl.at = "ask" /\ dep.phase = "stopping" /\ ~ctl.recovering  BY DEF At, IInv, PlacesFit
<1>2. InTransit /\ gate.phase = "quiesced"  BY <1>1 DEF IInv, PlacesFit, Switching, Closed
<1>3. dep.journal.old \in SUBSET Rows  BY DEF Journals
<1>4. Owners(Refreshed(dep.journal.old)) \in SUBSET Launches
  BY <1>3, RefreshedRows DEF IInv, Owners, Rows
<1>5. gate' \in Gates /\ gate'.phase = "quiesced"  BY <1>2, <1>4 DEF Gates
<1>6. ctl' \in Controllers /\ ctl'.at = "ready" /\ ~ctl'.recovering
  BY <1>1 DEF Controllers, Places
<1>7. Shapes'  BY <1>5, <1>6 DEF IInv, Shapes
<1>8. PlacesFit'  BY <1>1, <1>6 DEF IInv, PlacesFit, InTransit
<1>9. Closed'  BY <1>5 DEF Closed, Idle
<1>10. CommittedLive' /\ OnRecord'  BY DEF IInv, CommittedLive, OnRecord, AsCommitted, Alive, InTransit
<1>11. FreshLive' /\ Launching'
  BY <1>1, <1>6 DEF FreshLive, Launching, Starting, Verifying
<1>12. OneGeneration' /\ Returnable'
  BY DEF IInv, OneGeneration, Alive, Returnable, Proven, InTransit, Running, Up
<1> QED  BY <1>7, <1>8, <1>9, <1>10, <1>11, <1>12 DEF IInv

\* Turned back, or left to the operator: only the phase, and what is to blame.
LEMMA TurnedRecord ==
    ASSUME IInv, InTransit, NEW d, d = RollingBack(dep) \/ d = Failed(dep)
    PROVE  /\ d \in Records /\ d.phase \in {"rollback_stopping", "blocked"}
           /\ d.journal = dep.journal /\ d.version = dep.version
           /\ d.workers = dep.workers /\ d.history = dep.history
           /\ d.failed = None /\ d.requested = dep.requested /\ d.refused = dep.refused
<1> USE SwitchFacts
<1>1. dep.failed = None  BY DEF IInv, Returnable
<1>2. dep.journal.failed \in Maybe /\ dep.journal.target \in Maybe  BY DEF Journals
<1>3. CASE d = RollingBack(dep)
  BY <1>1, <1>2, <1>3 DEF RollingBack, Records, Switching
<1>4. CASE d = [dep EXCEPT !.phase = "blocked"]
  BY <1>1, <1>4 DEF Records, Resting
<1> QED  BY <1>3, <1>4 DEF Failed

LEMMA GivenUpKeeps == ASSUME IInv, StartFails \/ Late \/ Recover PROVE IInv'
<1> USE SwitchFacts
<1>1. InTransit
  BY DEF StartFails, Late, Recover, At, IInv, PlacesFit, Starting, Switching
<1>2. \A sha \in {dep.requested, dep.refused, host.request} \cap Shas : Proven(sha)
  BY DEF IInv, Returnable
<1>3. /\ dep' = RollingBack(dep) \/ dep' = Failed(dep)
      /\ UNCHANGED <<gate, procs, busy, host>>
  BY DEF StartFails, Late, Recover
<1>4. ctl' \in Controllers /\ ctl'.at = "ready" /\ ~ctl'.recovering
  <2>1. CASE StartFails
    <3>1. ctl.at # "ready" /\ ctl' = LaunchOver  BY <2>1 DEF StartFails, At
    <3>2. ~ctl.recovering  BY <3>1 DEF IInv, PlacesFit
    <3>3. 0 \in 0 .. MaxGeneration /\ "web" \in Roles /\ "ready" \in Places
      BY DeploymentAssumption DEF Places, Roles
    <3> QED  BY <3>1, <3>2, <3>3 DEF LaunchOver, Controllers
  <2>2. CASE Late  BY <2>2 DEF Late, At
  <2>3. CASE Recover  BY <2>3 DEF Recover, At, Controllers
  <2> QED  BY <2>1, <2>2, <2>3
<1> QED  BY <1>1, <1>2, <1>3, <1>4, TurnedRecord, TurningKeeps

\* Everybody on record is asked; when they are gone, nobody lives.
LEMMA StopKeeps == ASSUME IInv, Stop PROVE IInv'
<1> USE SwitchFacts
<1> DEFINE j == dep.journal
           J == Remembered(j)
<1>1. /\ At("ready") /\ dep.phase \in {"stopping", "rollback_stopping"} /\ ~ctl.recovering
      /\ Idle /\ gate' = [gate EXCEPT !.stop = Owners(Leaving)]
      /\ UNCHANGED <<procs, busy, host>>
  BY DEF Stop
<1>2. InTransit  BY <1>1 DEF IInv, PlacesFit, Switching
<1>3. /\ j.old \in SUBSET Rows /\ j.new \in SUBSET Rows /\ j.restored \in SUBSET Rows
      /\ Combined(j) \in SUBSET Rows
  BY DEF Journals, Combined
<1>4. /\ J \in Journals /\ J.previous = j.previous /\ J.target = j.target /\ J.failed = j.failed
      /\ LaunchesOf(J.old) = LaunchesOf(j.old)
      /\ LaunchesOf(J.new) = LaunchesOf(j.new) /\ LaunchesOf(J.restored) = LaunchesOf(j.restored)
      /\ dep.phase = "stopping" => J.new = j.new /\ J.restored = j.restored
  <2>1. \A rows \in SUBSET Rows :
           Refreshed(rows) \in SUBSET Rows /\ LaunchesOf(Refreshed(rows)) = LaunchesOf(rows)
    BY RefreshedRows DEF IInv
  <2>2. CASE dep.phase = "stopping"
    <3>1. J = [j EXCEPT !.old = Refreshed(j.old)]  BY <2>2 DEF Remembered
    <3> QED  BY <1>3, <2>1, <3>1 DEF Journals
  <2>3. CASE dep.phase # "stopping"
    <3>1. J = [j EXCEPT !.old = Refreshed(j.old), !.new = Refreshed(j.new),
                        !.restored = Refreshed(j.restored)]
      BY <2>3 DEF Remembered
    <3> QED  BY ZenonT(60), <1>3, <2>1, <2>3, <3>1 DEF Journals
  <2> QED  BY <2>2, <2>3
<1>5. LaunchesOf(Combined(J)) = LaunchesOf(Combined(j))
  BY <1>4, CombinedLaunches
<1>6. Alive \subseteq LaunchesOf(Combined(j))  BY <1>2 DEF IInv, OnRecord
<1>7. Leaving \in SUBSET Rows /\ LaunchesOf(Leaving) = LaunchesOf(Combined(j))
  <2>1. CASE dep.phase = "stopping"
    <3>1. Combined(j) = j.old  BY <2>1 DEF IInv, OnRecord, Combined
    <3>2. Leaving = Refreshed(j.old)  BY <2>1 DEF Leaving
    <3> QED  BY <1>3, <3>1, <3>2, RefreshedRows DEF IInv
  <2>2. CASE dep.phase # "stopping"
    <3>1. Leaving = Refreshed(Combined(j))  BY <2>2 DEF Leaving
    <3>2. Shapes  BY DEF IInv
    <3> HIDE DEF j
    <3> QED  BY <1>3, <3>1, <3>2, RefreshedRows
  <2> QED  BY <2>1, <2>2
<1>8. Exited(Leaving) => Alive = {}
  <2>1. ASSUME Exited(Leaving) PROVE \A l \in LaunchesOf(Leaving) : l \notin Alive
    BY <2>1 DEF Exited, LaunchesOf
  <2> QED  BY <1>6, <1>7, <2>1
<1>9. gate' \in Gates /\ gate'.phase = "quiesced" /\ busy = {}
  <2>1. Owners(Leaving) \in SUBSET Launches  BY <1>7 DEF Owners, Rows
  <2>2. gate.phase = "quiesced"  BY <1>2 DEF IInv, Closed
  <2> QED  BY <1>1, <2>1, <2>2 DEF Gates, Idle
<1> HIDE DEF J
<1>10. /\ dep' \in Records /\ dep'.journal = J /\ dep'.failed = dep.failed
       /\ dep'.version = dep.version /\ dep'.workers = dep.workers /\ dep'.history = dep.history
       /\ dep'.requested = dep.requested /\ dep'.refused = dep.refused
       /\ ctl' \in Controllers /\ ~ctl'.recovering
       /\ \/ dep'.phase = dep.phase /\ ctl'.at = "ready"
          \/ dep'.phase \in Starting /\ ctl'.at = "clear" /\ Alive = {}
  <2>1. CASE Exited(Leaving)
    <3>1. PICK phase \in Starting : dep' = [dep EXCEPT !.journal = J, !.phase = phase]
      BY <2>1 DEF Stop, Starting, J
    <3>2. ctl' = [ctl EXCEPT !.at = "clear"]  BY <2>1 DEF Stop
    <3>3. dep' \in Records /\ dep'.phase \in Starting
      BY <1>4, <3>1 DEF Records, Starting, Switching
    <3> QED  BY <1>1, <1>8, <2>1, <3>1, <3>2, <3>3 DEF Records, Controllers, Places
  <2>2. CASE ~Exited(Leaving)
    <3>1. dep' = [dep EXCEPT !.journal = J] /\ ctl' = ctl  BY <2>2 DEF Stop, J
    <3> QED  BY <1>1, <1>4, <3>1 DEF Records, At
  <2> QED  BY <2>1, <2>2
<1>11. J.previous \in Versions /\ J.target \in Versions  BY <1>2, <1>4 DEF IInv, PlacesFit
<1>12. InTransit'  BY <1>4, <1>10, <1>11, JournalIsOne DEF InTransit
<1>13. Shapes'  BY <1>1, <1>9, <1>10 DEF IInv, Shapes
<1>14. PlacesFit'
  BY <1>1, <1>10, <1>11, <1>12 DEF PlacesFit, Switching, Starting
<1>15. Closed'  BY <1>1, <1>9 DEF Closed
<1>16. CommittedLive'
  BY <1>1, <1>10, <1>12 DEF IInv, CommittedLive, AsCommitted, Alive, Starting
<1>17. OnRecord'
  <2>1. Alive' \subseteq LaunchesOf(Combined(dep'.journal))
    BY <1>1, <1>5, <1>6, <1>10 DEF Alive
  <2>2. dep'.phase = "stopping" => dep.phase = "stopping"
    BY <1>10 DEF Starting
  <2> QED  BY <1>4, <1>10, <2>1, <2>2 DEF IInv, OnRecord
<1>18. FreshLive' /\ Launching'
  BY <1>1, <1>10 DEF FreshLive, Launching, Starting, Verifying, Alive
<1>19. OneGeneration'  BY <1>1 DEF IInv, OneGeneration, Alive
<1>20. Returnable'
  <2>1. \A sha : Proven(sha)' <=> Proven(sha)  BY <1>10 DEF Proven
  <2>2. Running(dep.workers)' <=> Running(dep.workers)  BY <1>1, <1>10 DEF Running, Up
  <2> QED  BY <1>1, <1>2, <1>4, <1>10, <1>12, <2>1, <2>2 DEF IInv, Returnable, Starting
<1> QED  BY <1>13, <1>14, <1>15, <1>16, <1>17, <1>18, <1>19, <1>20 DEF IInv

LEMMA ClearKeeps == ASSUME IInv, Clear PROVE IInv'
<1> USE SwitchFacts
<1>1. ctl.at = "clear" /\ dep.phase \in Starting /\ ~ctl.recovering /\ Alive = {}
  BY DEF Clear, At, IInv, PlacesFit, Launching
<1>2. InTransit /\ gate.phase = "quiesced"
  BY <1>1 DEF IInv, PlacesFit, Closed, Starting, Switching
<1>3. CASE ~Idle
  <2>1. ctl' = Down /\ UNCHANGED <<gate, dep, procs, busy, host>>  BY <1>3 DEF Clear
  <2> QED  BY <2>1, DownIsController, ControllerKeeps DEF Down
<1>4. CASE Idle
  <2>1. /\ gate' = [gate EXCEPT !.stop = {}]
        /\ ctl' = [ctl EXCEPT !.at = "launch", !.role = "web"]
        /\ UNCHANGED <<dep, procs, busy, host>>
    BY <1>4 DEF Clear
  <2>2. gate' \in Gates /\ gate'.phase = "quiesced" /\ gate'.stop = {}
    BY <1>2, <2>1 DEF Gates
  <2>3. ctl' \in Controllers /\ ctl'.at = "launch" /\ ctl'.role = "web" /\ ~ctl'.recovering
    BY <1>1, <2>1 DEF Controllers, Places, Roles
  <2>4. Shapes' /\ PlacesFit' /\ Closed'
    BY <1>1, <2>1, <2>2, <2>3 DEF IInv, Shapes, PlacesFit, Closed, InTransit, Starting
  <2>5. CommittedLive' /\ OnRecord' /\ FreshLive'
    BY <2>1 DEF IInv, CommittedLive, OnRecord, FreshLive, AsCommitted, Alive, InTransit,
                Fresh, Goal, Back
  <2>6. Launching' /\ OneGeneration'
    BY <1>1, <2>1, <2>3 DEF IInv, Launching, OneGeneration, Alive
  <2>7. Returnable'  BY <2>1 DEF IInv, Returnable, Proven, InTransit, Running, Up
  <2> QED  BY <2>4, <2>5, <2>6, <2>7 DEF IInv
<1> QED  BY <1>3, <1>4

\* The journal with another set of rows in the place that is being filled.
LEMMA WithFreshRecord ==
    ASSUME IInv, NEW rows \in SUBSET Rows, NEW j, j = WithFresh(dep.journal, rows)
    PROVE  /\ j \in Journals /\ j.previous = dep.journal.previous /\ j.target = dep.journal.target
           /\ j.failed = dep.journal.failed
           /\ (IF Back THEN j.restored ELSE j.new) = rows
           /\ LaunchesOf(rows) \subseteq LaunchesOf(Combined(j))
<1> USE SwitchFacts
<1>1. CASE Back
  <2>1. j = [dep.journal EXCEPT !.restored = rows]  BY <1>1 DEF WithFresh
  <2> QED  BY <1>1, <2>1, CombinedLaunches DEF Journals
<1>2. CASE ~Back
  <2>1. j = [dep.journal EXCEPT !.new = rows]  BY <1>2 DEF WithFresh
  <2> QED  BY <1>2, <2>1, CombinedLaunches DEF Journals
<1> QED  BY <1>1, <1>2

\* A launch is put on record: whoever lives stays on it.
LEMMA RecordingKeeps ==
    ASSUME IInv, dep.phase \in Starting,
           NEW rows \in SUBSET Rows, Alive \subseteq LaunchesOf(rows),
           NEW phase \in Starting \cup Verifying,
           phase \in {"rollback_starting", "rollback_verifying"} <=> Back,
           dep' = [dep EXCEPT !.journal = WithFresh(@, rows), !.phase = phase],
           ctl' \in Controllers, ~ctl'.recovering, ctl'.at \in {"launch", "spawn", "ready"},
           ctl'.at # "ready" => phase = dep.phase,
           ctl'.at \in {"launch", "spawn"} /\ ctl'.role = "web" => Alive = {},
           ctl'.at = "spawn" \/ (ctl'.at = "launch" /\ ctl'.role = "scheduler") =>
               /\ ctl'.generation \in 1 .. MaxGeneration
               /\ \A row \in rows : row.launch.generation = ctl'.generation,
           ctl'.at = "spawn" =>
               [generation |-> ctl'.generation, role |-> ctl'.role] \in LaunchesOf(rows),
           UNCHANGED <<gate, procs, busy, host>>
    PROVE  IInv'
<1> USE SwitchFacts
<1>1. PICK j : j = WithFresh(dep.journal, rows)  OBVIOUS
<1>2. /\ j \in Journals /\ j.previous = dep.journal.previous /\ j.target = dep.journal.target
      /\ (IF Back THEN j.restored ELSE j.new) = rows
      /\ LaunchesOf(rows) \subseteq LaunchesOf(Combined(j))
  BY <1>1, WithFreshRecord
<1>3. dep' = [dep EXCEPT !.journal = j, !.phase = phase]  BY <1>1
<1>4. /\ dep' \in Records /\ dep'.journal = j /\ dep'.phase = phase
      /\ dep'.failed = dep.failed
      /\ dep'.version = dep.version /\ dep'.workers = dep.workers /\ dep'.history = dep.history
      /\ dep'.requested = dep.requested /\ dep'.refused = dep.refused
  BY ZenonT(60), <1>2, <1>3 DEF Records, Starting, Verifying, Switching
<1>5. InTransit  BY DEF IInv, PlacesFit, Starting, Switching
<1>6. j.previous \in Versions /\ j.target \in Versions  BY <1>2, <1>5 DEF IInv, PlacesFit
<1>7. InTransit'  BY <1>2, <1>4, <1>6, JournalIsOne DEF InTransit
<1>8. Back' <=> Back  BY <1>4 DEF Back
<1>9. Fresh' = rows /\ Goal' = Goal  BY <1>2, <1>4, <1>8 DEF Fresh, Goal
<1>10. Shapes'  BY <1>4 DEF IInv, Shapes
<1>11. PlacesFit'  BY <1>4, <1>6, <1>7 DEF PlacesFit, Starting, Verifying, Switching
<1>12. Closed'  BY <1>5, <1>7 DEF IInv, Closed
<1>13. CommittedLive'  BY <1>4, <1>7 DEF CommittedLive, Starting, Verifying
<1>14. OnRecord'
  BY <1>2, <1>4 DEF OnRecord, Alive, Starting, Verifying
<1>15. FreshLive'
  BY <1>9 DEF IInv, FreshLive, Alive
<1>16. Launching'  BY <1>9 DEF Launching, Alive, Current
<1>17. OneGeneration'  BY DEF IInv, OneGeneration, Alive
<1>18. Returnable'
  <2>1. \A sha : Proven(sha)' <=> Proven(sha)  BY <1>4 DEF Proven
  <2>2. dep'.phase # "stopping"  BY <1>4 DEF Starting, Verifying
  <2> QED  BY <1>2, <1>4, <1>5, <1>7, <2>1, <2>2 DEF IInv, Returnable
<1> QED  BY <1>10, <1>11, <1>12, <1>13, <1>14, <1>15, <1>16, <1>17, <1>18 DEF IInv

LEMMA FreshRows ==
    ASSUME IInv, dep.phase \in Starting \cup Verifying
    PROVE  /\ Fresh \in SUBSET Rows /\ Alive \subseteq LaunchesOf(Fresh)
           /\ Fresh \subseteq Combined(dep.journal)
           /\ Goal \in Versions /\ InTransit /\ gate.phase = "quiesced"
           /\ \A l \in Alive : procs[l].sha = Goal.sha
<1> USE SwitchFacts
<1>1. InTransit  BY DEF IInv, PlacesFit, Starting, Verifying, Switching
<1> QED  BY <1>1 DEF IInv, PlacesFit, FreshLive, Fresh, Goal, Journals, Combined, Closed

LEMMA IntendKeeps == ASSUME IInv, Intend PROVE IInv'
<1> USE SwitchFacts
<1>1. ctl.at = "launch" /\ dep.phase \in Starting /\ ~ctl.recovering
  BY DEF Intend, At, IInv, PlacesFit
<1>2. PICK g \in 1 .. MaxGeneration : g = Generation  BY DEF Intend
<1>3. PICK row : row = [launch |-> [generation |-> g, role |-> ctl.role],
                        launcher |-> FALSE, worker |-> FALSE]
  OBVIOUS
<1>4. PICK rows : rows = IF ctl.role = "web" THEN {row} ELSE Fresh \cup {row}  OBVIOUS
<1>5. /\ dep' = [dep EXCEPT !.journal = WithFresh(@, rows)]
      /\ ctl' = [ctl EXCEPT !.at = "spawn", !.generation = g]
      /\ UNCHANGED <<gate, procs, busy, host>>
  BY <1>2, <1>3, <1>4 DEF Intend
<1>6. ctl.role \in Roles  BY DEF Controllers
<1>7. row \in Rows /\ row.launch = [generation |-> g, role |-> ctl.role]
      /\ row.launch.generation = g
  BY <1>3, <1>6 DEF Rows, Launches
<1>8. rows \in SUBSET Rows /\ row \in rows  BY <1>1, <1>4, <1>7, FreshRows
<1>9. ctl' \in Controllers /\ ctl'.at = "spawn" /\ ctl'.role = ctl.role /\ ctl'.generation = g
      /\ ~ctl'.recovering
  <2>1. g \in 0 .. MaxGeneration  BY DeploymentAssumption
  <2> QED  BY <1>1, <1>5, <2>1 DEF Controllers, Places
<1>10. ctl.role = "web" => Alive = {}  BY <1>1 DEF IInv, Launching
<1>11. /\ Alive \subseteq LaunchesOf(rows)
       /\ \A r \in rows : r.launch.generation = g
  <2>1. CASE ctl.role = "web"  BY <1>4, <1>7, <1>10, <2>1
  <2>2. CASE ctl.role # "web"
    <3>1. ctl.role = "scheduler"  BY <1>6, <2>2 DEF Roles
    <3>2. g = ctl.generation  BY <1>2, <3>1 DEF Generation
    <3>3. \A r \in Fresh : r.launch.generation = ctl.generation
      BY <1>1, <3>1 DEF IInv, Launching
    <3>4. rows = Fresh \cup {row}  BY <1>4, <2>2
    <3>5. Alive \subseteq LaunchesOf(Fresh)  BY <1>1, FreshRows
    <3> QED  BY <1>7, <3>2, <3>3, <3>4, <3>5 DEF LaunchesOf
  <2> QED  BY <2>1, <2>2
<1>12. [generation |-> ctl'.generation, role |-> ctl'.role] \in LaunchesOf(rows)
  BY <1>7, <1>8, <1>9 DEF LaunchesOf
<1>13. dep' = [dep EXCEPT !.journal = WithFresh(@, rows), !.phase = dep.phase]
  BY <1>5 DEF Records
<1>14. dep.phase \in {"rollback_starting", "rollback_verifying"} <=> Back  BY DEF Back
<1> QED
  BY <1>1, <1>5, <1>8, <1>9, <1>10, <1>11, <1>12, <1>13, <1>14, RecordingKeeps

LEMMA LaunchedKeeps == ASSUME IInv, Launched PROVE IInv'
<1> USE SwitchFacts
<1>1. ctl.at = "spawned" /\ dep.phase \in Starting /\ ~ctl.recovering
  BY DEF Launched, At, IInv, PlacesFit
<1>2. /\ ctl.generation \in 1 .. MaxGeneration
      /\ \A row \in Fresh : row.launch.generation = ctl.generation
  BY <1>1 DEF IInv, Launching
<1> DEFINE told(row) == IF row.launch = Current THEN [row EXCEPT !.launcher = TRUE] ELSE row
           rows == {told(row) : row \in Fresh}
           more == Goal.modes \ {row.launch.role : row \in Fresh}
<1>3. rows \in SUBSET Rows /\ LaunchesOf(rows) = LaunchesOf(Fresh)
      /\ \A row \in rows : row.launch.generation = ctl.generation
  <2>1. \A row \in Rows : told(row) \in Rows /\ told(row).launch = row.launch
    BY DEF Rows
  <2> HIDE DEF told
  <2> QED  BY <1>1, <1>2, <2>1, FreshRows DEF LaunchesOf
<1>4. Alive \subseteq LaunchesOf(rows)  BY <1>1, <1>3, FreshRows
<1> HIDE DEF told
<1>5. /\ dep' = [dep EXCEPT !.journal = WithFresh(@, rows),
                            !.phase = IF more # {} THEN @
                                      ELSE IF Back THEN "rollback_verifying" ELSE "verifying"]
      /\ ctl' = IF more # {} THEN [ctl EXCEPT !.at = "launch", !.role = "scheduler"]
                ELSE LaunchOver
      /\ UNCHANGED <<gate, procs, busy, host>>
  BY DEF Launched, told
<1> HIDE DEF rows, more
<1>6. CASE more # {}
  <2>1. /\ dep' = [dep EXCEPT !.journal = WithFresh(@, rows), !.phase = dep.phase]
        /\ ctl' = [ctl EXCEPT !.at = "launch", !.role = "scheduler"]
    BY <1>5, <1>6
  <2>2. ctl' \in Controllers /\ ctl'.at = "launch" /\ ctl'.role = "scheduler" /\ ~ctl'.recovering
        /\ ctl'.generation = ctl.generation
    BY <1>1, <2>1 DEF Controllers, Places, Roles
  <2>3. dep.phase \in {"rollback_starting", "rollback_verifying"} <=> Back  BY DEF Back
  <2> QED  BY <1>1, <1>2, <1>3, <1>4, <1>5, <2>1, <2>2, <2>3, RecordingKeeps
<1>7. CASE more = {}
  <2>1. PICK phase \in Verifying :
            /\ dep' = [dep EXCEPT !.journal = WithFresh(@, rows), !.phase = phase]
            /\ phase = "rollback_verifying" <=> Back
    BY <1>5, <1>7 DEF Verifying
  <2>2. phase \in {"rollback_starting", "rollback_verifying"} <=> Back
    BY <2>1 DEF Verifying
  <2>3. ctl' \in Controllers /\ ctl'.at = "ready" /\ ~ctl'.recovering
    <3>1. 0 \in 0 .. MaxGeneration /\ "web" \in Roles /\ "ready" \in Places
      BY DeploymentAssumption DEF Places, Roles
    <3> QED  BY <1>1, <1>5, <1>7, <3>1 DEF LaunchOver, Controllers
  <2> QED  BY <1>1, <1>3, <1>4, <1>5, <2>1, <2>2, <2>3, RecordingKeeps
<1> QED  BY <1>6, <1>7

LEMMA SpawnKeeps == ASSUME IInv, Spawn PROVE IInv'
<1> USE SwitchFacts
<1>1. ctl.at = "spawn" /\ dep.phase \in Starting /\ ~ctl.recovering
  BY DEF Spawn, At, IInv, PlacesFit
<1>2. /\ procs' = [l \in DOMAIN procs \cup {Current} |->
                    IF l = Current THEN [sha |-> Goal.sha, life |-> "starting"] ELSE procs[l]]
      /\ ctl' = [ctl EXCEPT !.at = "spawned"] /\ UNCHANGED <<gate, dep, busy, host>>
  BY DEF Spawn
<1>3. /\ ctl.generation \in 1 .. MaxGeneration
      /\ \A row \in Fresh : row.launch.generation = ctl.generation
      /\ Current \in LaunchesOf(Fresh)
  BY <1>1 DEF IInv, Launching
<1>4. /\ Fresh \in SUBSET Rows /\ Alive \subseteq LaunchesOf(Fresh) /\ Goal \in Versions
      /\ InTransit /\ \A l \in Alive : procs[l].sha = Goal.sha
      /\ Fresh \subseteq Combined(dep.journal)
  BY <1>1, FreshRows
<1>5. ctl' \in Controllers /\ ctl'.at = "spawned" /\ ~ctl'.recovering /\ ctl'.role = ctl.role
      /\ ctl'.generation = ctl.generation
  BY <1>1, <1>2 DEF Controllers, Places
<1>6. LaunchesOf(Fresh) \subseteq Launches  BY <1>4 DEF LaunchesOf, Rows
<1>7. Alive' = Alive \cup {Current} /\ Alive' \subseteq LaunchesOf(Fresh)
  BY <1>2, <1>3, <1>4 DEF Alive
<1>8. \A l \in Alive' : procs'[l] \in Processes /\ procs'[l].sha = Goal.sha
  <2>1. Goal.sha \in Shas  BY <1>4 DEF Versions
  <2>2. \A l \in Alive : procs[l] \in Processes  BY DEF IInv, Shapes, Alive
  <2> QED  BY <1>2, <1>4, <1>7, <2>1, <2>2 DEF Processes, Alive
<1>9. Shapes'
  <2>1. procs' \in [DOMAIN procs' -> Processes]  BY <1>2, <1>8 DEF Alive
  <2> QED  BY <1>2, <1>5, <1>6, <1>7, <2>1 DEF IInv, Shapes, Alive
<1>10. PlacesFit' /\ Closed'
  BY <1>1, <1>2, <1>5 DEF IInv, PlacesFit, Closed, InTransit, Starting
<1>11. InTransit' /\ dep'.phase \in Starting  BY <1>1, <1>2, <1>4 DEF InTransit
<1>12. CommittedLive'  BY <1>11 DEF CommittedLive, Starting
<1>13. Fresh' = Fresh /\ Goal' = Goal  BY <1>2 DEF Fresh, Goal, Back
<1>14. OnRecord'
  <2>1. LaunchesOf(Fresh) \subseteq LaunchesOf(Combined(dep.journal))
    BY <1>4 DEF LaunchesOf
  <2> QED  BY <1>2, <1>7, <1>11, <2>1 DEF OnRecord, Starting
<1>15. FreshLive'  BY <1>7, <1>8, <1>13 DEF FreshLive
<1>16. Launching'  BY <1>3, <1>5, <1>13 DEF Launching, Current
<1>17. OneGeneration'
  <2>1. \A l \in LaunchesOf(Fresh) : l.generation = ctl.generation  BY <1>3 DEF LaunchesOf
  <2> QED  BY <1>7, <2>1 DEF OneGeneration
<1>18. Returnable'
  <2>1. \A sha : Proven(sha)' <=> Proven(sha)  BY <1>2 DEF Proven
  <2> QED  BY <1>2, <1>4, <1>11, <2>1 DEF IInv, Returnable, Starting
<1> QED  BY <1>9, <1>10, <1>12, <1>14, <1>15, <1>16, <1>17, <1>18 DEF IInv

LEMMA CommitKeeps == ASSUME IInv, Commit PROVE IInv'
<1> USE SwitchFacts
<1>1. /\ ctl.at = "ready" /\ dep.phase \in Verifying /\ ~ctl.recovering
      /\ Ready(Fresh, Goal.modes) /\ UNCHANGED <<gate, procs, busy, host>>
  BY DEF Commit, At, Verifying
<1>2. /\ Fresh \in SUBSET Rows /\ Alive \subseteq LaunchesOf(Fresh) /\ Goal \in Versions
      /\ InTransit /\ \A l \in Alive : procs[l].sha = Goal.sha /\ gate.phase = "quiesced"
  BY <1>1, FreshRows
<1>3. Refreshed(Fresh) \in SUBSET Rows /\ LaunchesOf(Refreshed(Fresh)) = LaunchesOf(Fresh)
  BY <1>2, RefreshedRows DEF IInv
<1>4. PICK history \in Seq(Shas) :
          /\ history = IF Back THEN dep.history ELSE Appended(dep.history, Goal.sha)
          /\ \A sha : Proven(sha) => \E i \in DOMAIN history : history[i] = sha
          /\ \E i \in DOMAIN history : history[i] = Goal.sha
  <2>1. CASE Back
    <3>1. Proven(Goal.sha)  BY <1>2, <2>1 DEF Goal, IInv, Returnable
    <3> QED  BY <2>1, <3>1 DEF Proven
  <2>2. CASE ~Back
    <3>1. Goal.sha \in Shas  BY <1>2 DEF Versions
    <3>2. /\ Appended(dep.history, Goal.sha) \in Seq(Shas)
          /\ \E i \in DOMAIN Appended(dep.history, Goal.sha) :
                Appended(dep.history, Goal.sha)[i] = Goal.sha
          /\ \A k \in DOMAIN dep.history : \E i \in DOMAIN Appended(dep.history, Goal.sha) :
                Appended(dep.history, Goal.sha)[i] = dep.history[k]
      BY <3>1, AppendedHistory
    <3> QED  BY <2>2, <3>2 DEF Proven
  <2> QED  BY <2>1, <2>2
<1>5. PICK blocked \in Maybe, exited \in BOOLEAN :
          dep' = [dep EXCEPT !.phase = "idle", !.version = Goal, !.workers = Refreshed(Fresh),
                      !.history = history, !.journal = NoJournal, !.announced = None,
                      !.blocked = blocked, !.exited = exited]
  <2>1. dep.journal.failed \in Maybe /\ dep.blocked \in Maybe  BY DEF Journals, Records
  <2> QED  BY <1>4, <2>1 DEF Commit
<1>6. NoJournal \in Journals /\ None \in Maybe  BY DEF Maybe, NoJournal, Journals
<1>7. /\ dep' \in Records /\ dep'.phase = "idle" /\ dep'.version = Goal
      /\ dep'.workers = Refreshed(Fresh) /\ dep'.history = history /\ dep'.journal = NoJournal
      /\ dep'.failed = dep.failed
      /\ dep'.requested = dep.requested /\ dep'.refused = dep.refused
  BY ZenonT(60), <1>2, <1>3, <1>4, <1>5, <1>6 DEF Records, Resting
<1>8. ctl' \in Controllers /\ ctl'.at = "reopen" /\ ~ctl'.recovering
  BY <1>1 DEF Commit, Controllers, Places
<1>9. ~InTransit'  BY <1>7 DEF InTransit
<1>10. Shapes'  BY <1>1, <1>7, <1>8 DEF IInv, Shapes
<1>11. PlacesFit'  BY <1>7, <1>8, <1>9 DEF PlacesFit, Switching
<1>12. Closed'  BY <1>1, <1>2, <1>9 DEF IInv, Closed
<1>13. CommittedLive'
  <2>1. \A l \in LaunchesOf(Refreshed(Fresh)) : l \in Up  BY <1>1 DEF Ready, LaunchesOf
  <2> QED  BY <1>1, <1>2, <1>3, <1>7, <2>1 DEF CommittedLive, AsCommitted, Alive, Up
<1>14. OnRecord' /\ FreshLive' /\ Launching'
  BY <1>7, <1>8, <1>9 DEF OnRecord, FreshLive, Launching, Starting, Verifying
<1>15. OneGeneration'  BY <1>1 DEF IInv, OneGeneration, Alive
<1>16. Returnable'
  <2>1. \A sha : Proven(sha) => Proven(sha)'  BY <1>4, <1>7 DEF Proven
  <2>2. Proven(dep.version.sha)'  BY <1>4, <1>7 DEF Proven
  <2>3. dep.failed = None  BY <1>2 DEF IInv, Returnable
  <2> QED  BY <1>1, <1>7, <1>9, <2>1, <2>2, <2>3 DEF IInv, Returnable
<1> QED  BY <1>10, <1>11, <1>12, <1>13, <1>14, <1>15, <1>16 DEF IInv
--------------------------------------------------------------------------------
(* THE THEOREMS. *)

LEMMA StepKeeps == IInv /\ [Next]_vars => IInv'
<1> SUFFICES ASSUME IInv, [Next]_vars PROVE IInv'  OBVIOUS
<1>1. CASE UNCHANGED vars
  BY <1>1, HostKeeps DEF vars, IInv, Shapes, Returnable
<1>2. CASE Transit
  BY <1>2, BeginKeeps, AskRefusedKeeps, AskKeeps, StopKeeps, ClearKeeps, IntendKeeps, SpawnKeeps,
     LaunchedKeeps, CommitKeeps, GivenUpKeeps, GateOnlyKeeps DEF Transit
<1>3. CASE Tick
  BY <1>3, GivenUpKeeps, RequestKeeps, AnnouncementKeeps, GateOnlyKeeps, BeginKeeps, WatchingKeeps
     DEF Tick
<1>4. CASE Orderly
  BY <1>4, WorkersAndUsersKeep DEF Orderly
<1>5. CASE Restart  BY <1>5, ControllerStops
<1>6. CASE Trouble
  BY <1>6, GivenUpKeeps, WatchingKeeps, ControllerStops, GateOnlyKeeps, WorkersAndUsersKeep
     DEF Trouble
<1> QED  BY <1>1, <1>2, <1>3, <1>4, <1>5, <1>6 DEF Next

(* The controller, wherever it is stopped, and the workers keep the           *)
(* invariant, whatever the revisions, the modes and the bounds.               *)
THEOREM Invariance == Spec => []IInv
BY InitHolds, StepKeeps, PTL DEF Spec

\* Only the step that finds everybody gone leads into the starting phases.
LEMMA StartingFrom ==
    ASSUME IInv, [Next]_vars, dep'.phase \in Starting \cup Verifying
    PROVE  dep.phase \in Starting \cup Verifying \/ Stop
<1> USE SwitchFacts
<1>1. dep'.phase \notin {"booting", "idle", "waiting", "paused", "announcing", "blocked",
                        "stopping", "rollback_stopping"}
  BY DEF Starting, Verifying
<1>2. ~Begin /\ ~BeginClosed
  BY <1>1 DEF Begin, BeginClosed, Begun, Records
<1>3. ~AskRefused /\ ~Commit /\ ~Pause /\ ~Missed /\ ~NotIdle
  BY <1>1 DEF AskRefused, Commit, Pause, Missed, NotIdle, Records
<1>4. ~(StartFails \/ Late \/ Recover)
  <2>1. SUFFICES ASSUME StartFails \/ Late \/ Recover PROVE FALSE  OBVIOUS
  <2>2. InTransit /\ (dep' = RollingBack(dep) \/ dep' = Failed(dep))
    BY <2>1 DEF StartFails, Late, Recover, At, IInv, PlacesFit, Starting, Switching
  <2> QED  BY <1>1, <2>2, TurnedRecord
<1>5. ~(CancelAnnouncement \/ Withdraw)
  BY <1>1 DEF CancelAnnouncement, Withdraw, Cancelled, Records
<1>6. ~(Wait \/ Announce \/ PreparationFails)
  <2>1. SUFFICES ASSUME Wait \/ Announce \/ PreparationFails PROVE FALSE  OBVIOUS
  <2>2. Noticed \in Records  BY <2>1, NoticedFacts DEF Wait, Announce, PreparationFails, Due, Going
  <2> QED  BY <1>1, <2>1, <2>2 DEF Wait, Announce, PreparationFails, Records
<1>7. ~Request
  <2>1. SUFFICES ASSUME Request PROVE FALSE  OBVIOUS
  <2>2. PICK d : /\ d.phase = dep.phase /\ d \in Records
                 /\ dep' = Cancelled(d) \/ dep' = RollingBack(d) \/ dep' = d
    <3>1. host.request = "retry" \/ host.request \in Shas
      BY <2>1 DEF Request, Commanded, Hosts
    <3>2. CASE host.request = "retry"
      <4>1. PICK d : /\ d = [dep EXCEPT !.blocked = None, !.exited = FALSE, !.refused = "none",
                              !.requested = IF dep.refused # "none" THEN dep.refused ELSE @]
                     /\ dep' = Cancelled(d) \/ dep' = RollingBack(d) \/ dep' = d
        BY <2>1, <3>2 DEF Request
      <4>2. dep.requested \in Shas \cup {"none"} /\ dep.refused \in Shas \cup {"none"}
            /\ None \in Maybe
        BY DEF Records, Maybe
      <4>3. PICK r \in Shas \cup {"none"} :
              d = [dep EXCEPT !.blocked = None, !.exited = FALSE, !.refused = "none", !.requested = r]
        BY <4>1, <4>2
      <4>4. d \in Records  BY <4>2, <4>3 DEF Records
      <4>5. d.phase = dep.phase  BY <4>3 DEF Records
      <4> QED  BY <4>1, <4>4, <4>5
    <3>3. CASE host.request # "retry"
      <4>1. PICK d : /\ d = [dep EXCEPT !.requested = host.request, !.failed = None]
                     /\ dep' = Cancelled(d) \/ dep' = RollingBack(d) \/ dep' = d
        BY <2>1, <3>3 DEF Request
      <4> QED  BY ZenonT(60), <3>1, <3>3, <4>1 DEF Records, Maybe
    <3> QED  BY <3>2, <3>3
  <2>3. InTransit => dep.phase = "blocked"  BY <2>1 DEF Request
  <2>4. dep.phase \in Resting  BY <2>3, Resting0 DEF Resting
  <2> QED  BY <1>1, <2>2, <2>4 DEF Cancelled, RollingBack, Records, Resting
<1>8. CASE UNCHANGED dep  BY <1>8
<1>9. CASE Intend \/ Launched
  BY <1>9 DEF Intend, Launched, At, IInv, PlacesFit
<1> QED
  BY <1>2, <1>3, <1>4, <1>5, <1>6, <1>7, <1>8, <1>9
     DEF Next, vars, Transit, Tick, Orderly, Restart, Trouble, Ask, Clear, Spawn, Reopen, Adopt,
         AnnounceCut, Quiesce, Saved, Boot, Obey, Finish, Crash, Draft, Defer, Command, HeadMoves,
         Dies, Work

\* An operation belongs to a worker that is up; none is under way while one starts.
BusyUp == busy \subseteq Up /\ (dep.phase \in Starting \cup Verifying => busy = {})

LEMMA BusyKept == ASSUME IInv, BusyUp, [Next]_vars PROVE BusyUp'
<1> USE DEF BusyUp
<1>1. busy' \subseteq Up'
  <2>1. CASE UNCHANGED <<procs, busy>>  BY <2>1 DEF Up
  <2>2. ASSUME NEW l \in Alive, Boot(l) \/ Obey(l) \/ Finish(l) \/ Dies(l) \/ Work(l)
        PROVE  busy' \subseteq Up'
    <3>1. procs \in [Alive -> Processes]  BY DEF IInv, Shapes, Alive
    <3>2. CASE Boot(l)
      <4>1. l \notin busy  BY <3>2 DEF Boot, Up
      <4>2. CASE procs' = [procs EXCEPT ![l].life = "up"]
        BY <3>1, <3>2, <4>2 DEF Boot, Up, Processes, Alive
      <4>3. CASE procs' = Without(l)
        BY <3>2, <4>1, <4>3 DEF Boot, Up, Without, Alive
      <4> QED  BY <3>2, <4>2, <4>3 DEF Boot
    <3>3. CASE Obey(l) \/ Dies(l)
      <4>1. procs' = Without(l) /\ busy' \subseteq busy \ {l}  BY <3>3 DEF Obey, Dies
      <4> QED  BY <4>1 DEF Up, Without, Alive
    <3>4. CASE Finish(l) \/ Work(l)
      BY <3>4 DEF Finish, Work, Up, Alive
    <3> QED  BY <2>2, <3>2, <3>3, <3>4
  <2>3. CASE Spawn
    BY <2>3 DEF Spawn, At, IInv, PlacesFit
  <2> QED  BY <2>1, <2>2, <2>3
        DEF Next, vars, Transit, Tick, Orderly, Restart, Trouble, Begin, AskRefused, Ask, Stop,
            Clear, Intend, Launched, Commit, Late, Reopen, Recover, Request, CancelAnnouncement,
            Adopt, BeginClosed, Pause, Wait, Announce, Missed, Withdraw, Quiesce, NotIdle, Saved,
            StartFails, PreparationFails, AnnounceCut, Crash, Draft, Defer, Command, HeadMoves
<1>2. ASSUME dep'.phase \in Starting \cup Verifying PROVE busy' = {}
  <2>1. busy = {} /\ gate.phase = "quiesced"
    <3>1. CASE Stop  BY <3>1 DEF Stop, Idle, IInv, PlacesFit, Closed, Switching
    <3>2. CASE dep.phase \in Starting \cup Verifying  BY <3>2, FreshRows
    <3> QED  BY <1>2, <3>1, <3>2, StartingFrom
  <2> QED  BY <2>1
        DEF Next, vars, Transit, Tick, Orderly, Restart, Trouble, Begin, AskRefused, Ask, Stop,
            Clear, Intend, Launched, Commit, Late, Reopen, Recover, Request, CancelAnnouncement,
            Adopt, BeginClosed, Pause, Wait, Announce, Missed, Withdraw, Quiesce, NotIdle, Saved,
            StartFails, PreparationFails, AnnounceCut, Crash, Draft, Defer, Command, HeadMoves,
            Spawn, Boot, Obey, Finish, Dies, Work
<1> QED  BY <1>1, <1>2

(* Every variable keeps its type, and operations belong to living workers.    *)
THEOREM TypeCorrect == Spec => []TypeOK
<1>1. Init => BusyUp  BY DEF Init, BusyUp, Starting, Verifying
<1>2. IInv /\ BusyUp /\ [Next]_vars => BusyUp'  BY BusyKept
<1>3. IInv /\ BusyUp => TypeOK
  <2> SUFFICES ASSUME IInv, BusyUp PROVE TypeOK  OBVIOUS
  <2> USE SwitchFacts
  <2>1. /\ gate.phase \in {"open", "announcing", "quiesced"} /\ gate.stop \subseteq Launches
        /\ gate.heard \in [Roles -> Launches \cup {NoLaunch}]
    BY DEF Gates
  <2>2. /\ dep.phase \in Switching \cup Resting /\ dep.version \in Versions
        /\ {dep.blocked, dep.announced, dep.failed} \subseteq Versions \cup {None}
        /\ dep.source \in {"automatic", "local"}
        /\ {dep.requested, dep.refused} \subseteq Shas \cup {"none"}
        /\ dep.workers \subseteq Rows /\ dep.exited \in BOOLEAN
        /\ \A i \in DOMAIN dep.history : dep.history[i] \in Shas
    BY DEF Records, Maybe
  <2>3. /\ \A k \in {"previous", "target", "failed"} : dep.journal[k] \in Versions \cup {None}
        /\ \A k \in {"old", "new", "restored"} : dep.journal[k] \subseteq Rows
    BY DEF Journals, Maybe
  <2>4. dep.phase \in Switching => dep.journal # NoJournal
    BY DEF IInv, PlacesFit, InTransit
  <2>5. /\ ctl.at \in Places /\ ctl.role \in Roles /\ ctl.generation \in 0 .. MaxGeneration
        /\ host.modes \in Modes /\ host.head \in Shas
    BY DEF Controllers, Hosts
  <2>6. /\ DOMAIN procs \subseteq Launches
        /\ \A l \in DOMAIN procs : procs[l].sha \in Shas /\ procs[l].life \in {"starting", "up"}
    BY DEF IInv, Shapes, Processes
  <2>7. busy \subseteq DOMAIN procs  BY DEF BusyUp, Up
  <2> QED  BY <2>1, <2>2, <2>3, <2>4, <2>5, <2>6, <2>7 DEF TypeOK, Places
<1> QED  BY <1>1, <1>2, <1>3, Invariance, PTL DEF Spec

(* Workers of two starts never live at the same time: a role is launched      *)
(* after the record was found to hold nobody who lives (controller.tick).     *)
THEOREM OneAtATime == Spec => []OneGeneration
<1>1. IInv => OneGeneration  BY DEF IInv
<1> QED  BY <1>1, Invariance, PTL

(* While the gate is not closed, no switch is on record, and who lives is a   *)
(* worker on record, of the version that is committed.                        *)
THEOREM CommittedBeforeOpen == Spec => []OpenMeansCommitted
<1>1. IInv => OpenMeansCommitted
  BY DEF IInv, OpenMeansCommitted, Closed, CommittedLive, AsCommitted, LaunchesOf
<1> QED  BY <1>1, Invariance, PTL

(* Workers are asked to exit only behind the closed gate and when none of     *)
(* them has an operation under way.                                           *)
THEOREM StopsIdleWorkers == Spec => []StopOnlyWhenIdle
<1>1. IInv => StopOnlyWhenIdle  BY DEF IInv, StopOnlyWhenIdle, Closed
<1> QED  BY <1>1, Invariance, PTL

(* The way back of a switch leads to a revision that has been committed.      *)
THEOREM ReturnsToProven == Spec => []ReturnIsProven
<1>1. IInv => ReturnIsProven  BY DEF IInv, ReturnIsProven, Returnable, Proven
<1> QED  BY <1>1, Invariance, PTL
================================================================================
