--------------------------- MODULE Maintenance_proofs ----------------------------
(* What the maintenance gate keeps, for any number of tabs and jobs, however   *)
(* reports are lost, delayed or overtaken.  The proof is about time: a tab     *)
(* that has not seen an announcement trusts its last status for less than the  *)
(* gate waits, and what it changed before is reported before the next tick.    *)
EXTENDS Maintenance, PartPictures, SequenceTheorems, FiniteSetTheorems, TLAPS

Gates == [phase : Phases, waited : 0 .. Delay, operations : SUBSET (Tabs \cup Jobs),
          sessions : [Tabs -> Row]]

Types ==
    /\ gate \in Gates /\ tab \in [Tabs -> Tab] /\ wire \in [Tabs -> Seq(Message)]
    /\ jobs \subseteq Jobs /\ crashed \subseteq gate.operations

Work ==
    /\ jobs \subseteq Live
    /\ gate.phase = "quiesced" => gate.operations = {}

\* The server has a draft on record, and no report under way takes it back.
Declared(q, row) ==
    /\ row.dirty
    /\ \A i \in 1 .. Len(q) : q[i].late \/ q[i].dirty

\* The report a tab waits for is its last, and tells its state unless that has changed.
Waiting(b, q) ==
    \A i \in 1 .. Len(q) : q[i].mine =>
          /\ i = Len(q) /\ ~q[i].late /\ b.sending = "sent"
          /\ ~b.changed => q[i].dirty = b.dirty

Reports(b, q, row) ==
    /\ Waiting(b, q)
    /\ b.sending = "served" =>
          /\ \A i \in 1 .. Len(q) : q[i].late
          /\ ~b.changed => row.dirty = b.dirty

\* A draft that the server does not know is reported before the gate can quiesce.
Drafts(b, q, row) ==
    /\ b.known /\ b.dirty => Declared(q, row)
    /\ b.registered /\ b.dirty /\ ~Declared(q, row) =>
          /\ b.desired \/ b.sending # "no"
          /\ gate.phase # "quiesced"
          /\ gate.phase = "announcing" => gate.waited < Delay

\* What a tab has seen, and whether it is of the current announcement.
Views(b) ==
    /\ b.life = "gone" => b = Gone
    /\ b.connected \/ b.registered => b.seen.phase # "none"
    /\ b.seen.current => b.seen.phase = "announcing"
    /\ b.asked.current => b.asked.phase = "announcing"
    /\ b.asked # NoStatus => b.asked.phase # "none"

\* A status from before the announcement is as old as the announcement.
Times(b) ==
    /\ gate.phase = "announcing" =>
          /\ b.connected /\ ~b.seen.current => b.age > Fresh \/ b.age >= gate.waited
          /\ b.asked # NoStatus /\ ~b.asked.current => gate.waited = 0
    /\ gate.phase = "quiesced" =>
          /\ b.connected /\ b.seen.phase = "open" => b.age > Fresh
          /\ b.asked # NoStatus => b.asked.phase # "open"

Sound(b, q, row) == Reports(b, q, row) /\ Drafts(b, q, row) /\ Views(b) /\ Times(b)

IInv == Types /\ Work /\ \A t \in Tabs : Sound(tab[t], wire[t], gate.sessions[t])
--------------------------------------------------------------------------------
LEMMA Shaped ==
    ASSUME IInv
    PROVE  /\ gate \in Gates /\ tab \in [Tabs -> Tab] /\ wire \in [Tabs -> Seq(Message)]
           /\ jobs \subseteq Jobs /\ crashed \subseteq gate.operations
           /\ \A t \in Tabs : tab[t] \in Tab /\ wire[t] \in Seq(Message) /\ gate.sessions[t] \in Row
BY DEF IInv, Types, Gates

LEMMA SoundTabs ==
    ASSUME IInv, NEW t \in Tabs
    PROVE  /\ Reports(tab[t], wire[t], gate.sessions[t]) /\ Drafts(tab[t], wire[t], gate.sessions[t])
           /\ Views(tab[t]) /\ Times(tab[t])
BY DEF IInv, Sound

\* A step of one tab disturbs no other.
LEMMA OneTab ==
    ASSUME IInv, NEW t \in Tabs, NEW b \in Tab, NEW q \in Seq(Message), NEW row \in Row,
           tab' = [tab EXCEPT ![t] = b], wire' = [wire EXCEPT ![t] = q],
           gate' \in Gates, gate'.phase = gate.phase, gate'.waited = gate.waited,
           gate'.sessions = [gate.sessions EXCEPT ![t] = row],
           jobs' \subseteq Jobs, crashed' \subseteq gate'.operations, Work',
           Sound(b, q, row)
    PROVE  IInv'
<1> USE Shaped
<1>1. Types'  BY DEF Types
<1>2. \A c, r, s : Sound(c, r, s)' <=> Sound(c, r, s)
  BY DEF Sound, Reports, Drafts, Views, Times
<1>3. ASSUME NEW u \in Tabs PROVE Sound(tab[u], wire[u], gate.sessions[u])'
  <2>1. gate.sessions \in [Tabs -> Row]  BY DEF Gates
  <2>2. Sound(tab'[u], wire'[u], gate'.sessions[u])
    <3>1. CASE u = t
      <4>1. tab'[u] = b /\ wire'[u] = q /\ gate'.sessions[u] = row  BY <2>1, <3>1
      <4> QED  BY <4>1
    <3>2. CASE u # t
      <4>1. tab'[u] = tab[u] /\ wire'[u] = wire[u] /\ gate'.sessions[u] = gate.sessions[u]
        BY <2>1, <3>2
      <4> QED  BY <4>1 DEF IInv
    <3> QED  BY <3>1, <3>2
  <2> QED  BY <1>2, <2>2
<1> QED  BY <1>1, <1>3 DEF IInv

\* What the tab itself may do while no report of it moves: it keeps its draft
\* declared, or it changes it while there is time to report that.
Careful(a, b) ==
    /\ b.sending = a.sending
    /\ ~b.changed /\ b.sending # "no" => ~a.changed /\ b.dirty = a.dirty
    /\ \/ b.dirty => a.dirty
       \/ /\ ~b.known /\ b.desired /\ gate.phase # "quiesced"
          /\ gate.phase = "announcing" => gate.waited < Delay
    /\ b.known => a.known
    /\ b.registered => a.registered
    /\ b.registered /\ a.desired => b.desired

LEMMA TabStep ==
    ASSUME IInv, NEW t \in Tabs, NEW b \in Tab, tab' = [tab EXCEPT ![t] = b], wire' = wire,
           gate' \in Gates, gate'.phase = gate.phase, gate'.waited = gate.waited,
           gate'.sessions = gate.sessions, jobs' \subseteq Jobs, crashed' \subseteq gate'.operations, Work',
           Careful(tab[t], b), Views(b), Times(b)
    PROVE  IInv'
<1> USE Shaped
<1> PICK a : a = tab[t]  OBVIOUS
<1> PICK q : q = wire[t]  OBVIOUS
<1> PICK row : row = gate.sessions[t]  OBVIOUS
<1>1. Reports(a, q, row) /\ Drafts(a, q, row) /\ Careful(a, b)  BY SoundTabs
<1>2. a \in Tab /\ q \in Seq(Message) /\ row \in Row  OBVIOUS
<1>3. Reports(b, q, row)  BY <1>1 DEF Reports, Waiting, Careful
<1>4. Drafts(b, q, row)  BY <1>1 DEF Drafts, Careful
<1>5. wire' = [wire EXCEPT ![t] = q] /\ gate'.sessions = [gate.sessions EXCEPT ![t] = row]
  BY DEF Gates
<1> QED  BY <1>2, <1>3, <1>4, <1>5, OneTab DEF Sound

\* What disturbs no tab at all.
LEMMA GateStep ==
    ASSUME IInv, UNCHANGED <<tab, wire>>, gate' \in Gates, gate'.phase = gate.phase,
           gate'.waited = gate.waited, gate'.sessions = gate.sessions,
           jobs' \subseteq Jobs, crashed' \subseteq gate'.operations, Work'
    PROVE  IInv'
<1> USE Shaped
<1>1. Types'  BY DEF Types
<1>2. \A c, r, s : Sound(c, r, s)' <=> Sound(c, r, s)
  BY DEF Sound, Reports, Drafts, Views, Times
<1> QED  BY <1>1, <1>2 DEF IInv

LEMMA WorkStays ==
    ASSUME IInv, gate'.phase = gate.phase, gate'.operations = gate.operations, UNCHANGED <<jobs, crashed>>
    PROVE  Work' /\ jobs' \subseteq Jobs /\ crashed' \subseteq gate'.operations
BY Shaped DEF IInv, Work, Live

--------------------------------------------------------------------------------
(* The tab's records.                                                          *)

LEMMA ChangedFacts ==
    ASSUME NEW b \in Tab
    PROVE  /\ Changed(b) \in Tab
           /\ Changed(b).life = b.life /\ Changed(b).page = b.page /\ Changed(b).seen = b.seen
           /\ Changed(b).age = b.age /\ Changed(b).asked = b.asked /\ Changed(b).connected = b.connected
           /\ Changed(b).registered = b.registered /\ Changed(b).dirty = b.dirty
           /\ Changed(b).request = b.request /\ Changed(b).sending = b.sending
           /\ Changed(b).changed = (b.sending # "no") /\ Changed(b).desired = (b.seen.phase # "none")
           /\ Changed(b).known = FALSE
BY ZenonT(60) DEF Changed, Tab

LEMMA UnsureFacts ==
    ASSUME NEW s \in Status
    PROVE  Unsure(s) \in Status /\ Unsure(s).phase \in {"none", "open"} /\ Unsure(s).current = FALSE
           /\ (s.phase # "none" => Unsure(s).phase = "open")
<1>1. PICK p \in {"none", "open"} : p = IF s = NoStatus THEN "none" ELSE "open"  OBVIOUS
<1>2. PICK f \in BOOLEAN : f = s.fits  BY DEF Status
<1>3. Unsure(s) = [NoStatus EXCEPT !.phase = p, !.fits = f]  BY <1>1, <1>2 DEF Unsure
<1>4. Unsure(s) = [phase |-> p, current |-> FALSE, fits |-> f]  BY <1>3 DEF NoStatus
<1>5. s.phase # "none" => p = "open"  BY <1>1 DEF NoStatus
<1> HIDE DEF Unsure
<1>6. PICK u : u = Unsure(s)  OBVIOUS
<1>7. u = [phase |-> p, current |-> FALSE, fits |-> f]  BY <1>4, <1>6
<1>8. u \in Status /\ u.phase = p /\ u.current = FALSE  BY <1>7 DEF Status, Phases
<1> QED  BY <1>5, <1>6, <1>8

LEMMA UncertainFacts ==
    ASSUME NEW b \in Tab
    PROVE  /\ Uncertain(b) \in Tab
           /\ Uncertain(b).life = b.life /\ Uncertain(b).dirty = b.dirty /\ Uncertain(b).request = b.request
           /\ Uncertain(b).desired = b.desired /\ Uncertain(b).sending = b.sending
           /\ Uncertain(b).changed = b.changed /\ Uncertain(b).known = b.known
           /\ Uncertain(b).connected = FALSE /\ Uncertain(b).registered = FALSE
           /\ Uncertain(b).asked = NoStatus /\ Uncertain(b).seen = Unsure(b.seen)
<1>1. b.seen \in Status /\ NoStatus \in Status /\ 0 \in 0 .. Fresh + 1
  BY MaintenanceAssumption DEF Tab, Status, NoStatus, Phases
<1>2. PICK s \in Status : s = Unsure(b.seen)  BY <1>1, UnsureFacts
<1>3. PICK n \in Status : n = NoStatus  BY <1>1
<1>4. PICK c : c = Uncertain(b)  OBVIOUS
<1>5. c = [b EXCEPT !.connected = FALSE, !.registered = FALSE, !.asked = n,
                    !.age = 0, !.seen = s, !.superseded = (b.sending # "no")]
  BY <1>2, <1>3, <1>4 DEF Uncertain
<1>6. c \in Tab  BY ZenonT(60), <1>1, <1>2, <1>3, <1>5 DEF Tab
<1>7. /\ c.life = b.life /\ c.dirty = b.dirty /\ c.request = b.request /\ c.desired = b.desired
      /\ c.sending = b.sending /\ c.changed = b.changed /\ c.known = b.known
      /\ c.connected = FALSE /\ c.registered = FALSE /\ c.asked = n /\ c.seen = s
  BY <1>5 DEF Tab
<1> QED  BY <1>2, <1>3, <1>4, <1>6, <1>7

Reading(a, s) ==
    [a EXCEPT !.seen = s, !.asked = NoStatus, !.age = 0, !.connected = TRUE, !.desired = TRUE]

LEMMA ReadingFacts ==
    ASSUME NEW a \in Tab, NEW s \in Status
    PROVE  /\ Reading(a, s) \in Tab
           /\ Reading(a, s).seen = s /\ Reading(a, s).asked = NoStatus
           /\ Reading(a, s).connected = TRUE /\ Reading(a, s).desired = TRUE
           /\ Reading(a, s).life = a.life /\ Reading(a, s).registered = a.registered
           /\ Reading(a, s).dirty = a.dirty /\ Reading(a, s).sending = a.sending
           /\ Reading(a, s).changed = a.changed /\ Reading(a, s).known = a.known
<1> PICK n \in Status : n = NoStatus  BY DEF Status, NoStatus, Phases
<1>1. 0 \in 0 .. Fresh + 1  BY MaintenanceAssumption
<1>2. PICK b : b = Reading(a, s)  OBVIOUS
<1>3. b = [a EXCEPT !.seen = s, !.asked = n, !.age = 0, !.connected = TRUE, !.desired = TRUE]
  BY <1>2 DEF Reading
<1>4. b \in Tab  BY <1>1, <1>3 DEF Tab
<1>5. /\ b.seen = s /\ b.asked = n /\ b.connected = TRUE /\ b.desired = TRUE
      /\ b.life = a.life /\ b.registered = a.registered /\ b.dirty = a.dirty /\ b.sending = a.sending
      /\ b.changed = a.changed /\ b.known = a.known
  BY <1>3 DEF Tab
<1> QED  BY <1>2, <1>4, <1>5

Rejected(a, s) == [a EXCEPT !.request = "none", !.connected = FALSE, !.age = 0, !.seen = s]

LEMMA RejectedFacts ==
    ASSUME NEW a \in Tab, NEW s \in Status
    PROVE  /\ Rejected(a, s) \in Tab
           /\ Rejected(a, s).seen = s /\ Rejected(a, s).asked = a.asked /\ Rejected(a, s).connected = FALSE
           /\ Rejected(a, s).life = a.life /\ Rejected(a, s).registered = a.registered
           /\ Rejected(a, s).dirty = a.dirty /\ Rejected(a, s).sending = a.sending
<1>1. 0 \in 0 .. Fresh + 1  BY MaintenanceAssumption
<1> QED  BY <1>1 DEF Tab, Rejected

\* A tab that is cut off trusts nothing.
LEMMA CutOff ==
    ASSUME NEW b \in Tab, ~b.connected, ~b.registered, b.asked = NoStatus, ~b.seen.current,
           b.life # "gone"
    PROVE  Views(b) /\ Times(b)
BY DEF Views, Times, NoStatus

LEMMA UncertainKeeps ==
    ASSUME NEW b \in Tab, b.life # "gone"
    PROVE  Uncertain(b) \in Tab /\ Careful(b, Uncertain(b)) /\ Views(Uncertain(b)) /\ Times(Uncertain(b))
<1> PICK s : s = b.seen  OBVIOUS
<1> PICK c : c = Uncertain(b)  OBVIOUS
<1>1. s \in Status  BY DEF Tab
<1>2. Unsure(s).current = FALSE  BY <1>1, UnsureFacts
<1>3. /\ c \in Tab /\ c.life = b.life /\ c.dirty = b.dirty /\ c.desired = b.desired
      /\ c.sending = b.sending /\ c.changed = b.changed /\ c.known = b.known
      /\ c.connected = FALSE /\ c.registered = FALSE /\ c.asked = NoStatus /\ c.seen = Unsure(s)
  BY UncertainFacts
<1>4. c.seen.current = FALSE  BY <1>2, <1>3
<1>5. Views(c) /\ Times(c)  BY <1>3, <1>4, CutOff
<1>6. Careful(b, c)  BY <1>3 DEF Careful
<1> QED  BY <1>3, <1>5, <1>6

--------------------------------------------------------------------------------
(* Steps of a tab that leave the gate and the reports alone.                   *)

LEMMA OpenKeeps == ASSUME IInv, NEW t \in Tabs, Open(t) PROVE IInv'
<1> USE Shaped
<1> PICK b : b = [tab[t] EXCEPT !.life = "open"]  OBVIOUS
<1>1. tab' = [tab EXCEPT ![t] = b] /\ tab[t].life = "new" /\ UNCHANGED <<gate, wire, jobs, crashed>>
  BY DEF Open
<1>2. b \in Tab  BY ZenonT(60) DEF Tab
<1>3. Careful(tab[t], b) /\ Views(b) /\ Times(b)  BY <1>1 DEF Careful, Views, Times, IInv, Sound, Tab
<1> QED  BY <1>1, <1>2, <1>3, TabStep, WorkStays

LEMMA RefreshKeeps == ASSUME IInv, NEW t \in Tabs, Refresh(t) PROVE IInv'
<1> USE Shaped
<1> PICK a : a = IF tab[t].age > Fresh THEN Uncertain(tab[t]) ELSE tab[t]  OBVIOUS
<1> PICK b : b = Asking(a)  OBVIOUS
<1>1. tab' = [tab EXCEPT ![t] = b] /\ tab[t].life = "open" /\ UNCHANGED <<gate, wire, jobs, crashed>>
      /\ tab[t].asked = NoStatus
  BY DEF Refresh
<1>2. a \in Tab /\ Careful(tab[t], a) /\ Views(a) /\ Times(a) /\ a.life = "open"
  <2>1. CASE tab[t].age > Fresh
    <3>1. a = Uncertain(tab[t])  BY <2>1
    <3>2. Uncertain(tab[t]).life = tab[t].life  BY UncertainFacts
    <3> QED  BY <1>1, <3>1, <3>2, UncertainKeeps
  <2>2. CASE ~(tab[t].age > Fresh)
    <3>1. a = tab[t]  BY <2>2
    <3> QED  BY <1>1, <3>1, SoundTabs DEF Careful
  <2> QED  BY <2>1, <2>2
<1>3. PICK s : s = [phase |-> gate.phase, current |-> gate.phase = "announcing", fits |-> a.page = "current"]
  OBVIOUS
<1>4. /\ s \in Status /\ s.phase = gate.phase /\ (s.current <=> gate.phase = "announcing") /\ s.phase # "none"
  BY <1>3 DEF Status, Gates, Phases
<1>5. b = [a EXCEPT !.superseded = (a.sending # "no"), !.asked = s]  BY <1>3 DEF Asking
<1>6. b \in Tab  BY ZenonT(60), <1>2, <1>4, <1>5 DEF Tab
<1>7. /\ b.asked = s /\ b.life = a.life /\ b.connected = a.connected /\ b.registered = a.registered
      /\ b.seen = a.seen /\ b.age = a.age /\ b.dirty = a.dirty /\ b.sending = a.sending
      /\ b.changed = a.changed /\ b.desired = a.desired /\ b.known = a.known
  BY <1>2, <1>5 DEF Tab
<1>8. Careful(tab[t], b)  BY <1>2, <1>7 DEF Careful
<1>9. Views(b) /\ Times(b)  BY <1>2, <1>4, <1>7 DEF Views, Times
<1> QED  BY <1>1, <1>6, <1>8, <1>9, TabStep, WorkStays

LEMMA RefreshedKeeps == ASSUME IInv, NEW t \in Tabs, Refreshed(t) PROVE IInv'
<1> PICK a \in Tab : a = tab[t]  BY Shaped
<1> PICK s \in Status : s = a.asked  BY DEF Tab
<1> PICK b : b = Reading(a, s)  OBVIOUS
<1>1. tab' = [tab EXCEPT ![t] = b] /\ UNCHANGED <<gate, wire, jobs, crashed>> /\ s # NoStatus
  BY DEF Refreshed, Reading
<1>2. b \in Tab /\ b.seen = s /\ b.asked = NoStatus /\ b.connected = TRUE /\ b.desired = TRUE
  BY ReadingFacts
<1>10. b.life = a.life /\ b.registered = a.registered /\ b.dirty = a.dirty
  BY ReadingFacts
<1>11. b.sending = a.sending /\ b.changed = a.changed /\ b.known = a.known
  BY ReadingFacts
<1>12. b.age = 0  BY DEF Reading, Tab
<1> USE Shaped, MaintenanceAssumption
<1>3. Views(a) /\ Times(a)  BY SoundTabs
<1>4. a.life # "gone"  BY <1>1, <1>3 DEF Views, Gone, NewTab
<1>5. Careful(tab[t], b)  BY <1>2, <1>10, <1>11 DEF Careful
<1>6. Views(b)  BY <1>1, <1>2, <1>10, <1>3, <1>4 DEF Views, NoStatus
<1>7. Times(b)  BY <1>1, <1>2, <1>12, <1>10, <1>3, <1>4 DEF Times, Views, NoStatus, Gates
<1> QED  BY <1>1, <1>2, <1>5, <1>6, <1>7, TabStep, WorkStays

LEMMA RefreshFailsKeeps == ASSUME IInv, NEW t \in Tabs, RefreshFails(t) PROVE IInv'
<1> USE Shaped
<1> PICK b : b = Uncertain(tab[t])  OBVIOUS
<1>1. tab' = [tab EXCEPT ![t] = b] /\ UNCHANGED <<gate, wire, jobs, crashed>> /\ tab[t].asked # NoStatus
  BY DEF RefreshFails
<1>2. tab[t].life # "gone"  BY <1>1, SoundTabs DEF Views, Gone, NewTab
<1>3. b \in Tab /\ Careful(tab[t], b) /\ Views(b) /\ Times(b)  BY <1>2, UncertainKeeps
<1> QED  BY <1>1, <1>3, TabStep, WorkStays

\* What changes a tab's state without making a draft.
LEMMA ChangeKeeps ==
    ASSUME IInv, NEW t \in Tabs, NEW a \in Tab, tab[t].life # "gone",
           a.life = tab[t].life, a.connected => tab[t].connected, a.registered = tab[t].registered,
           a.seen = tab[t].seen, a.age = tab[t].age, a.asked = tab[t].asked,
           a.sending = tab[t].sending, a.dirty => tab[t].dirty,
           tab' = [tab EXCEPT ![t] = Changed(a)], wire' = wire, gate' \in Gates,
           gate'.phase = gate.phase, gate'.waited = gate.waited, gate'.sessions = gate.sessions,
           jobs' \subseteq Jobs, crashed' \subseteq gate'.operations, Work'
    PROVE  IInv'
<1> USE Shaped
<1> PICK b : b = Changed(a)  OBVIOUS
<1>1. /\ b \in Tab /\ b.sending = a.sending /\ b.changed = (a.sending # "no") /\ b.known = FALSE
      /\ b.registered = a.registered /\ b.dirty = a.dirty /\ b.desired = (a.seen.phase # "none")
      /\ b.life = a.life /\ b.connected = a.connected /\ b.seen = a.seen /\ b.age = a.age /\ b.asked = a.asked
  BY ChangedFacts
<1>2. Views(tab[t]) /\ Times(tab[t])  BY SoundTabs
<1>3. Careful(tab[t], b)  BY <1>1, <1>2 DEF Careful, Views
<1>4. Views(b) /\ Times(b)  BY <1>1, <1>2 DEF Views, Times
<1> QED  BY <1>1, <1>3, <1>4, TabStep

LEMMA EditKeeps == ASSUME IInv, NEW t \in Tabs, Edit(t) PROVE IInv'
<1> USE Shaped, MaintenanceAssumption
<1> PICK a : a = [tab[t] EXCEPT !.dirty = TRUE]  OBVIOUS
<1> PICK b : b = Changed(a)  OBVIOUS
<1>1. tab' = [tab EXCEPT ![t] = b] /\ UNCHANGED <<gate, wire, jobs, crashed>> /\ tab[t].life = "open"
      /\ ~InteractionsBlocked(tab[t]) /\ ~tab[t].dirty
  BY DEF Edit
<1>2. a \in Tab /\ a.dirty /\ a.life = "open" /\ a.sending = tab[t].sending /\ a.seen = tab[t].seen
      /\ a.registered = tab[t].registered /\ a.connected = tab[t].connected /\ a.age = tab[t].age
      /\ a.asked = tab[t].asked
  BY ZenonT(60), <1>1 DEF Tab
<1>3. /\ b \in Tab /\ b.sending = a.sending /\ b.changed = (a.sending # "no") /\ b.known = FALSE
      /\ b.registered = a.registered /\ b.dirty /\ b.desired = (a.seen.phase # "none")
      /\ b.life = a.life /\ b.connected = a.connected /\ b.seen = a.seen /\ b.age = a.age /\ b.asked = a.asked
  BY <1>2, ChangedFacts
<1>4. Views(tab[t]) /\ Times(tab[t])  BY SoundTabs
<1>5. tab[t].connected /\ tab[t].seen.phase = "open" /\ ~tab[t].seen.current /\ ~(tab[t].age > Fresh)
  BY <1>1, <1>4 DEF InteractionsBlocked, Frozen, Views, Tab, Status, Phases
<1>6. gate.phase # "quiesced" /\ (gate.phase = "announcing" => gate.waited < Delay)
  BY <1>4, <1>5 DEF Times, Tab, Gates
<1>7. Careful(tab[t], b)  BY <1>3, <1>2, <1>5, <1>6 DEF Careful
<1>8. Views(b) /\ Times(b)  BY <1>1, <1>2, <1>3, <1>4 DEF Views, Times
<1> QED  BY <1>1, <1>3, <1>7, <1>8, TabStep, WorkStays

LEMMA DiscardKeeps == ASSUME IInv, NEW t \in Tabs, Discard(t) PROVE IInv'
<1> USE Shaped
<1> PICK a : a = [tab[t] EXCEPT !.dirty = FALSE]  OBVIOUS
<1>1. tab' = [tab EXCEPT ![t] = Changed(a)] /\ UNCHANGED <<gate, wire, jobs, crashed>> /\ tab[t].dirty
  BY DEF Discard
<1>2. tab[t].life # "gone"  BY <1>1, SoundTabs DEF Views, Gone, NewTab
<1>3. /\ a \in Tab /\ a.life = tab[t].life /\ a.connected = tab[t].connected /\ a.registered = tab[t].registered
      /\ a.seen = tab[t].seen /\ a.age = tab[t].age /\ a.asked = tab[t].asked /\ a.sending = tab[t].sending
      /\ ~a.dirty
  BY ZenonT(60) DEF Tab
<1> QED  BY <1>1, <1>2, <1>3, ChangeKeeps, WorkStays

LEMMA SubmitKeeps == ASSUME IInv, NEW t \in Tabs, Submit(t) PROVE IInv'
<1> USE Shaped
<1> PICK a : a = [tab[t] EXCEPT !.request = "sent"]  OBVIOUS
<1>1. tab' = [tab EXCEPT ![t] = Changed(a)] /\ UNCHANGED <<gate, wire, jobs, crashed>> /\ tab[t].dirty
  BY DEF Submit
<1>2. tab[t].life # "gone"  BY <1>1, SoundTabs DEF Views, Gone, NewTab
<1>3. /\ a \in Tab /\ a.life = tab[t].life /\ a.connected = tab[t].connected /\ a.registered = tab[t].registered
      /\ a.seen = tab[t].seen /\ a.age = tab[t].age /\ a.asked = tab[t].asked /\ a.sending = tab[t].sending
      /\ a.dirty = tab[t].dirty
  BY ZenonT(60) DEF Tab
<1> QED  BY <1>1, <1>2, <1>3, ChangeKeeps, WorkStays

LEMMA RequestFailsKeeps == ASSUME IInv, NEW t \in Tabs, RequestFails(t) PROVE IInv'
<1> USE Shaped
<1> PICK a : a = [tab[t] EXCEPT !.request = "none"]  OBVIOUS
<1>1. tab' = [tab EXCEPT ![t] = Changed(a)] /\ UNCHANGED <<gate, wire, jobs, crashed>> /\ tab[t].request # "none"
  BY DEF RequestFails
<1>2. tab[t].life # "gone"  BY <1>1, SoundTabs DEF Views, Gone, NewTab
<1>3. /\ a \in Tab /\ a.life = tab[t].life /\ a.connected = tab[t].connected /\ a.registered = tab[t].registered
      /\ a.seen = tab[t].seen /\ a.age = tab[t].age /\ a.asked = tab[t].asked /\ a.sending = tab[t].sending
      /\ a.dirty = tab[t].dirty
  BY ZenonT(60) DEF Tab
<1> QED  BY <1>1, <1>2, <1>3, ChangeKeeps, WorkStays

LEMMA RefuseKeeps == ASSUME IInv, NEW t \in Tabs, Refuse(t) PROVE IInv'
<1> USE Shaped, MaintenanceAssumption
<1>1. tab[t].request = "sent" /\ UNCHANGED <<gate, wire, jobs, crashed>>  BY DEF Refuse
<1>2. tab[t].life # "gone"  BY ZenonT(60), <1>1, SoundTabs DEF Views, Gone, NewTab
<1>3. Views(tab[t]) /\ Times(tab[t])  BY SoundTabs
<1>4. CASE gate.phase = "quiesced"
  <2> PICK a : a = [tab[t] EXCEPT !.request = "none"]  OBVIOUS
  <2>1. a \in Tab /\ a.life = tab[t].life /\ a.sending = tab[t].sending /\ a.dirty = tab[t].dirty
    BY ZenonT(60) DEF Tab
  <2> PICK c : c = Changed(a)  OBVIOUS
  <2>2. c \in Tab /\ c.life = a.life /\ c.sending = a.sending /\ c.dirty = a.dirty /\ c.known = FALSE
        /\ c.changed = (a.sending # "no")
    BY <2>1, ChangedFacts
  <2> PICK b : b = Uncertain(c)  OBVIOUS
  <2>3. b \in Tab /\ Careful(c, b) /\ Views(b) /\ Times(b)  BY <1>2, <2>1, <2>2, UncertainKeeps
  <2>4. b.registered = FALSE /\ b.changed = c.changed /\ b.sending = c.sending /\ b.dirty = c.dirty
        /\ b.known = c.known
    BY <2>2, UncertainFacts
  <2>5. tab' = [tab EXCEPT ![t] = b]  BY <1>4 DEF Refuse
  <2>6. Careful(tab[t], b)  BY <2>1, <2>2, <2>4 DEF Careful
  <2> QED  BY <1>1, <2>3, <2>5, <2>6, TabStep, WorkStays
<1>5. CASE gate.phase # "quiesced"
  <2> PICK u : u = tab[t].seen  OBVIOUS
  <2> PICK v : v = Unsure(u)  OBVIOUS
  <2> PICK s : s = [v EXCEPT !.fits = FALSE]  OBVIOUS
  <2>1. u \in Status  BY DEF Tab
  <2>2. v \in Status /\ v.current = FALSE /\ (u.phase # "none" => v.phase = "open")
    BY <2>1, UnsureFacts
  <2>3. s \in Status /\ s.current = FALSE /\ s.phase = v.phase  BY <2>2 DEF Status
  <2> PICK o \in Tab : o = tab[t]  OBVIOUS
  <2> PICK a : a = Rejected(o, s)  OBVIOUS
  <2>4. tab' = [tab EXCEPT ![t] = Changed(a)]  BY <1>5 DEF Refuse, Refused, Rejected
  <2>5. a \in Tab /\ a.connected = FALSE /\ a.seen = s /\ a.asked = o.asked  BY ZenonT(60), <2>3, RejectedFacts
  <2>12. a.life = o.life /\ a.registered = o.registered  BY ZenonT(60), <2>3, RejectedFacts
  <2>13. a.sending = o.sending /\ a.dirty = o.dirty  BY ZenonT(60), <2>3, RejectedFacts
  <2> PICK b : b = Changed(a)  OBVIOUS
  <2>6. b \in Tab /\ b.life = a.life /\ b.sending = a.sending /\ b.dirty = a.dirty /\ b.known = FALSE
        /\ b.changed = (a.sending # "no") /\ b.registered = a.registered /\ b.connected = a.connected
        /\ b.asked = a.asked /\ b.seen = a.seen /\ b.desired = (a.seen.phase # "none")
    BY <2>5, ChangedFacts
  <2>7. tab' = [tab EXCEPT ![t] = b]  BY <2>4
  <2>8. tab[t].registered => s.phase = "open"  BY <1>3, <2>2, <2>3 DEF Views
  <2>9. Careful(tab[t], b)  BY <2>5, <2>12, <2>13, <2>6, <2>8 DEF Careful
  <2>10. Views(b)
    <3>1. b.life # "gone" /\ ~b.connected /\ ~b.seen.current
      <4>1. b.life = tab[t].life /\ b.connected = FALSE /\ b.seen = s  BY <2>5, <2>12, <2>13, <2>6
      <4> QED  BY <1>2, <2>3, <4>1
    <3>2. b.registered => b.seen.phase # "none"
      <4>1. b.registered = tab[t].registered /\ b.seen = s  BY <2>5, <2>12, <2>6
      <4> QED  BY <2>8, <4>1
    <3>3. b.asked = tab[t].asked  BY <2>5, <2>12, <2>13, <2>6
    <3> QED  BY <1>3, <3>1, <3>2, <3>3 DEF Views
  <2>11. Times(b)
    <3>1. ~b.connected /\ b.asked = tab[t].asked  BY <2>5, <2>12, <2>13, <2>6
    <3> QED  BY <1>3, <3>1 DEF Times
  <2> QED  BY <1>1, <2>6, <2>7, <2>9, <2>10, <2>11, TabStep, WorkStays
<1> QED  BY <1>4, <1>5

--------------------------------------------------------------------------------
(* Steps that change what is registered.                                       *)

LEMMA AdmitKeeps == ASSUME IInv, NEW t \in Tabs, Admit(t) PROVE IInv'
<1> USE Shaped
<1> PICK a \in Tab : a = tab[t]  OBVIOUS
<1> PICK b : b = [a EXCEPT !.request = "admitted"]  OBVIOUS
<1>1. /\ tab' = [tab EXCEPT ![t] = b] /\ a.request = "sent" /\ gate.phase # "quiesced"
      /\ gate' = [gate EXCEPT !.operations = @ \cup {t}] /\ UNCHANGED <<wire, jobs, crashed>>
  BY DEF Admit
<1>2. b \in Tab /\ b.life = a.life /\ b.seen = a.seen /\ b.age = a.age /\ b.asked = a.asked
      /\ b.connected = a.connected /\ b.registered = a.registered
  BY ZenonT(60) DEF Tab
<1>3. b.dirty = a.dirty /\ b.sending = a.sending /\ b.changed = a.changed /\ b.known = a.known
      /\ b.desired = a.desired
  BY DEF Tab
<1>4. Views(a) /\ Times(a)  BY SoundTabs
<1>5. a.life # "gone"  BY <1>1, <1>4 DEF Views, Gone, NewTab
<1>6. Careful(tab[t], b)  BY <1>2, <1>3 DEF Careful
<1>7. Views(b) /\ Times(b)  BY <1>2, <1>4, <1>5 DEF Views, Times
<1>8. gate' \in Gates /\ gate'.phase = gate.phase /\ gate'.waited = gate.waited
      /\ gate'.sessions = gate.sessions /\ gate'.operations = gate.operations \cup {t}
  BY <1>1 DEF Gates
<1>9. Work' /\ jobs' \subseteq Jobs /\ crashed' \subseteq gate'.operations
  BY <1>1, <1>8 DEF IInv, Work, Live
<1> QED  BY <1>1, <1>2, <1>6, <1>7, <1>8, <1>9, TabStep

LEMMA RequestEndsKeeps == ASSUME IInv, NEW t \in Tabs, RequestEnds(t) PROVE IInv'
<1> USE Shaped
<1>1. /\ t \in Live /\ gate' = [gate EXCEPT !.operations = @ \ {t}] /\ UNCHANGED <<wire, jobs, crashed>>
  BY DEF RequestEnds
<1>2. gate' \in Gates /\ gate'.phase = gate.phase /\ gate'.waited = gate.waited
      /\ gate'.sessions = gate.sessions /\ gate'.operations = gate.operations \ {t}
  BY <1>1 DEF Gates
<1>3. t \notin jobs  BY MaintenanceAssumption
<1>4. Work' /\ jobs' \subseteq Jobs /\ crashed' \subseteq gate'.operations
  BY <1>1, <1>2, <1>3 DEF IInv, Work, Live
<1>5. CASE tab[t].request = "admitted"
  <2> PICK o \in Tab : o = tab[t]  OBVIOUS
  <2> PICK a : a = [o EXCEPT !.request = "none", !.dirty = FALSE]  OBVIOUS
  <2>1. tab' = [tab EXCEPT ![t] = Changed(a)]  BY <1>5 DEF RequestEnds
  <2>2. Views(o)  BY SoundTabs
  <2>3. o.life # "gone"  BY <1>5, <2>2 DEF Views, Gone, NewTab
  <2>4. a \in Tab /\ a.life = o.life /\ a.connected = o.connected /\ a.registered = o.registered
        /\ a.seen = o.seen /\ a.age = o.age /\ a.asked = o.asked /\ a.sending = o.sending /\ ~a.dirty
    BY ZenonT(60) DEF Tab
  <2> QED  BY <1>1, <1>2, <1>4, <2>1, <2>3, <2>4, ChangeKeeps
<1>6. CASE tab[t].request # "admitted"
  <2>1. tab' = tab  BY <1>6 DEF RequestEnds
  <2> QED  BY <1>1, <1>2, <1>4, <2>1, GateStep
<1> QED  BY <1>5, <1>6

LEMMA QueueKeeps == ASSUME IInv, NEW t \in Tabs, NEW j \in Jobs, Queue(t, j) PROVE IInv'
<1> USE Shaped
<1>1. /\ t \in Live /\ j \notin gate.operations /\ gate' = [gate EXCEPT !.operations = @ \cup {j}]
      /\ jobs' = jobs \cup {j} /\ UNCHANGED <<tab, wire, crashed>>
  BY DEF Queue
<1>2. gate' \in Gates /\ gate'.phase = gate.phase /\ gate'.waited = gate.waited
      /\ gate'.sessions = gate.sessions /\ gate'.operations = gate.operations \cup {j}
  BY <1>1 DEF Gates
<1>3. Work' /\ jobs' \subseteq Jobs /\ crashed' \subseteq gate'.operations
  BY <1>1, <1>2 DEF IInv, Work, Live
<1> QED  BY <1>1, <1>2, <1>3, GateStep

LEMMA JobEndsKeeps == ASSUME IInv, NEW j \in Jobs, JobEnds(j) PROVE IInv'
<1> USE Shaped
<1>1. /\ j \in jobs /\ gate' = [gate EXCEPT !.operations = @ \ {j}]
      /\ jobs' = jobs \ {j} /\ UNCHANGED <<tab, wire, crashed>>
  BY DEF JobEnds
<1>2. gate' \in Gates /\ gate'.phase = gate.phase /\ gate'.waited = gate.waited
      /\ gate'.sessions = gate.sessions /\ gate'.operations = gate.operations \ {j}
  BY <1>1 DEF Gates
<1>3. Work' /\ jobs' \subseteq Jobs /\ crashed' \subseteq gate'.operations
  BY <1>1, <1>2 DEF IInv, Work, Live
<1> QED  BY <1>1, <1>2, <1>3, GateStep

LEMMA WorkerDiesKeeps == ASSUME IInv, WorkerDies PROVE IInv'
<1> USE Shaped
<1>1. crashed' = gate.operations /\ jobs' = {} /\ UNCHANGED <<gate, tab, wire>>  BY DEF WorkerDies
<1>2. Work' /\ jobs' \subseteq Jobs /\ crashed' \subseteq gate'.operations
  BY <1>1 DEF IInv, Work, Live
<1> QED  BY <1>1, <1>2, GateStep

--------------------------------------------------------------------------------
(* Reports on their way.                                                       *)

\* A queue changed element by element keeps its length.
LEMMA Mapped ==
    ASSUME NEW q \in Seq(Message), NEW r, DOMAIN r = DOMAIN q, r = [i \in DOMAIN r |-> r[i]],
           \A i \in 1 .. Len(q) : r[i] \in Message
    PROVE  r \in Seq(Message) /\ Len(r) = Len(q)
<1>1. Len(q) \in Nat /\ DOMAIN q = 1 .. Len(q)  BY LenProperties
<1>2. r \in [1 .. Len(q) -> Message]  BY <1>1
<1>3. r \in Seq(Message)  BY <1>1, <1>2, SeqDef
<1> QED  BY <1>1, <1>3, LenProperties

Unawaited(q) == [i \in DOMAIN q |-> [q[i] EXCEPT !.mine = FALSE]]

LEMMA UnawaitedFacts ==
    ASSUME NEW q \in Seq(Message)
    PROVE  /\ Unawaited(q) \in Seq(Message) /\ Len(Unawaited(q)) = Len(q)
           /\ \A i \in 1 .. Len(q) : /\ Unawaited(q)[i].mine = FALSE
                                     /\ Unawaited(q)[i].late = q[i].late /\ Unawaited(q)[i].dirty = q[i].dirty
<1> PICK r : r = Unawaited(q)  OBVIOUS
<1>1. DOMAIN q = 1 .. Len(q) /\ \A i \in 1 .. Len(q) : q[i] \in Message  BY LenProperties, ElementOfSeq
<1>2. DOMAIN r = DOMAIN q /\ r = [i \in DOMAIN r |-> r[i]]  BY DEF Unawaited
<1>3. ASSUME NEW i \in 1 .. Len(q)
      PROVE  r[i] \in Message /\ r[i].mine = FALSE /\ r[i].late = q[i].late /\ r[i].dirty = q[i].dirty
  <2>1. q[i] \in Message /\ r[i] = [q[i] EXCEPT !.mine = FALSE]  BY <1>1 DEF Unawaited
  <2> QED  BY <2>1 DEF Message
<1>4. r \in Seq(Message) /\ Len(r) = Len(q)  BY <1>2, <1>3, Mapped
<1> QED  BY <1>3, <1>4

LEMMA SnapshotFacts ==
    ASSUME NEW b \in Tab, NEW closing \in BOOLEAN
    PROVE  /\ Snapshot(b, closing) \in Message
           /\ Snapshot(b, closing).dirty = b.dirty /\ Snapshot(b, closing).late = FALSE
           /\ Snapshot(b, closing).mine = ~closing
<1>1. b.dirty \in BOOLEAN  BY DEF Tab
<1>2. PICK k \in BOOLEAN : k = (Acknowledges(b) /\ b.seen.current)  OBVIOUS
<1>3. PICK c \in BOOLEAN : c = (closing /\ ~b.dirty /\ b.request = "none")  OBVIOUS
<1>4. PICK y \in BOOLEAN : y = (b.request # "none")  OBVIOUS
<1>5. Snapshot(b, closing) = [dirty |-> b.dirty, busy |-> y, closed |-> c, ack |-> k,
                              late |-> FALSE, mine |-> ~closing]
  BY <1>2, <1>3, <1>4 DEF Snapshot
<1> QED  BY <1>1, <1>5 DEF Message

LEMMA DroppedFacts ==
    ASSUME NEW q \in Seq(Message), NEW i \in 1 .. Len(q)
    PROVE  /\ Dropped(q, i) \in Seq(Message) /\ Len(Dropped(q, i)) = Len(q) - 1
           /\ \A k \in 1 .. Len(q) - 1 : Dropped(q, i)[k] = q[IF k < i THEN k ELSE k + 1]
<1>1. Len(q) \in Nat /\ \A k \in 1 .. Len(q) : q[k] \in Message  BY LenProperties, ElementOfSeq
<1>8. PICK one : one = SubSeq(q, 1, i - 1)  OBVIOUS
<1>9. PICK two : two = SubSeq(q, i + 1, Len(q))  OBVIOUS
<1>2. /\ one \in Seq(Message) /\ Len(one) = i - 1 /\ \A k \in 1 .. i - 1 : one[k] = q[k]
  <2>1. 1 \in Int /\ i - 1 \in Int /\ \A k \in 1 .. i - 1 : q[k] \in Message  BY <1>1
  <2>2. /\ one \in Seq(Message) /\ Len(one) = (IF 1 <= i - 1 THEN i - 1 - 1 + 1 ELSE 0)
        /\ \A k \in 1 .. i - 1 - 1 + 1 : one[k] = q[1 + k - 1]
    BY <1>8, <2>1, SubSeqProperties
  <2> QED  BY <1>1, <2>2
<1>3. /\ two \in Seq(Message) /\ Len(two) = Len(q) - i /\ \A k \in 1 .. Len(q) - i : two[k] = q[i + k]
  <2>1. i + 1 \in Int /\ Len(q) \in Int /\ \A k \in i + 1 .. Len(q) : q[k] \in Message  BY <1>1
  <2>2. /\ two \in Seq(Message) /\ Len(two) = (IF i + 1 <= Len(q) THEN Len(q) - (i + 1) + 1 ELSE 0)
        /\ \A k \in 1 .. Len(q) - (i + 1) + 1 : two[k] = q[(i + 1) + k - 1]
    BY <1>9, <2>1, SubSeqProperties
  <2> QED  BY <1>1, <2>2
<1>4. one \in Seq(Message) /\ two \in Seq(Message)  BY <1>2, <1>3
<1>5. PICK r : r = one \o two  OBVIOUS
<1>6. r \in Seq(Message)  BY <1>4, <1>5, ConcatProperties
<1>10. Len(r) = Len(one) + Len(two)  BY <1>4, <1>5, ConcatProperties
<1>11. \A k \in 1 .. Len(one) + Len(two) : r[k] = IF k <= Len(one) THEN one[k] ELSE two[k - Len(one)]
  BY <1>4, <1>5, ConcatProperties
<1>12. Len(one) = i - 1 /\ Len(two) = Len(q) - i /\ Len(r) = Len(q) - 1  BY <1>1, <1>2, <1>3, <1>10
<1>7. ASSUME NEW k \in 1 .. Len(q) - 1 PROVE r[k] = q[IF k < i THEN k ELSE k + 1]
  <2>1. r[k] = IF k <= i - 1 THEN one[k] ELSE two[k - (i - 1)]
    <3>1. k \in 1 .. Len(one) + Len(two)  BY <1>1, <1>12
    <3> QED  BY <1>11, <1>12, <3>1
  <2>2. CASE k < i
    <3>1. k \in 1 .. i - 1  BY <1>1, <2>2
    <3> QED  BY <1>1, <1>2, <2>1, <2>2, <3>1
  <2>3. CASE ~(k < i)
    <3>1. k - (i - 1) \in 1 .. Len(q) - i /\ i + (k - (i - 1)) = k + 1 /\ ~(k <= i - 1)  BY <1>1, <2>3
    <3> QED  BY <1>3, <2>1, <2>3, <3>1
  <2> QED  BY <2>2, <2>3
<1>13. Dropped(q, i) = r  BY <1>5, <1>8, <1>9 DEF Dropped
<1> QED  BY <1>6, <1>7, <1>12, <1>13

\* What a report that is taken from the queue leaves there.
LEMMA DroppedStays ==
    ASSUME NEW q \in Seq(Message), NEW i \in 1 .. Len(q)
    PROVE  \A k \in 1 .. Len(Dropped(q, i)) : \E m \in 1 .. Len(q) :
              /\ m # i /\ Dropped(q, i)[k] = q[m] /\ (m = Len(q) => k = Len(Dropped(q, i)))
<1>1. Len(q) \in Nat  BY LenProperties
<1> SUFFICES ASSUME NEW k \in 1 .. Len(q) - 1
             PROVE  \E m \in 1 .. Len(q) :
                       /\ m # i /\ Dropped(q, i)[k] = q[m] /\ (m = Len(q) => k = Len(q) - 1)
  BY DroppedFacts
<1>2. PICK m : m = IF k < i THEN k ELSE k + 1  OBVIOUS
<1>3. m \in 1 .. Len(q) /\ m # i /\ (m = Len(q) => k = Len(q) - 1)  BY <1>1, <1>2
<1>4. Dropped(q, i)[k] = q[m]  BY <1>2, DroppedFacts
<1> QED  BY <1>3, <1>4

LEMMA OvertakenFacts ==
    ASSUME NEW q \in Seq(Message), NEW i \in 1 .. Len(q)
    PROVE  /\ Overtaken(q, i) \in Seq(Message) /\ Len(Overtaken(q, i)) = Len(q)
           /\ \A k \in 1 .. Len(q) :
                 /\ Overtaken(q, i)[k].mine = q[k].mine /\ Overtaken(q, i)[k].dirty = q[k].dirty
                 /\ Overtaken(q, i)[k].late <=> q[k].late \/ (k < i /\ ~q[i].late)
<1> PICK r : r = Overtaken(q, i)  OBVIOUS
<1>1. DOMAIN q = 1 .. Len(q) /\ \A k \in 1 .. Len(q) : q[k] \in Message  BY LenProperties, ElementOfSeq
<1>2. DOMAIN r = DOMAIN q /\ r = [k \in DOMAIN r |-> r[k]]  BY DEF Overtaken
<1>3. ASSUME NEW k \in 1 .. Len(q)
      PROVE  /\ r[k] \in Message /\ r[k].mine = q[k].mine /\ r[k].dirty = q[k].dirty
             /\ r[k].late <=> q[k].late \/ (k < i /\ ~q[i].late)
  <2>1. PICK f \in BOOLEAN : f = (q[k].late \/ (k < i /\ ~q[i].late))  OBVIOUS
  <2>2. q[k] \in Message /\ r[k] = [q[k] EXCEPT !.late = f]  BY <1>1, <2>1 DEF Overtaken
  <2> QED  BY <2>1, <2>2 DEF Message
<1>4. r \in Seq(Message) /\ Len(r) = Len(q)  BY <1>2, <1>3, Mapped
<1> QED  BY <1>3, <1>4

\* A queue whose reports nobody waits for.
LEMMA NobodyWaits ==
    ASSUME NEW b \in Tab, NEW q \in Seq(Message), NEW row, b.sending # "sent", b.sending # "served",
           \A i \in 1 .. Len(q) : ~q[i].mine
    PROVE  Reports(b, q, row)
BY DEF Reports, Waiting

--------------------------------------------------------------------------------
(* Steps that send, lose and process reports.                                  *)

LEMMA WireStep ==
    ASSUME IInv, NEW t \in Tabs, NEW b \in Tab, NEW q \in Seq(Message),
           tab' = [tab EXCEPT ![t] = b], wire' = [wire EXCEPT ![t] = q],
           UNCHANGED <<gate, jobs, crashed>>, Sound(b, q, gate.sessions[t])
    PROVE  IInv'
<1>1. gate \in Gates /\ gate.sessions[t] \in Row  BY Shaped
<1>2. gate'.sessions = [gate.sessions EXCEPT ![t] = gate.sessions[t]]  BY <1>1 DEF Gates
<1>3. Work' /\ jobs' \subseteq Jobs /\ crashed' \subseteq gate'.operations  BY WorkStays
<1> QED  BY <1>1, <1>2, <1>3, OneTab

LEMMA ReportKeeps == ASSUME IInv, NEW t \in Tabs, Report(t) PROVE IInv'
<1>1. PICK a \in Tab : a = tab[t]  BY Shaped
<1>2. PICK q \in Seq(Message) : q = wire[t]  BY Shaped
<1>3. PICK row : row = gate.sessions[t]  OBVIOUS
<1>4. PICK m : m = Snapshot(a, FALSE)  OBVIOUS
<1>5. PICK b : b = [a EXCEPT !.desired = FALSE, !.sending = "sent", !.changed = FALSE, !.superseded = FALSE]
  OBVIOUS
<1>6. PICK r : r = Append(q, m)  OBVIOUS
<1>7. /\ a.desired /\ a.sending = "no"
      /\ tab' = [tab EXCEPT ![t] = b] /\ wire' = [wire EXCEPT ![t] = r] /\ UNCHANGED <<gate, jobs, crashed>>
  BY <1>1, <1>2, <1>4, <1>5, <1>6, Shaped DEF Report
<1>8. Reports(a, q, row) /\ Drafts(a, q, row) /\ Views(a) /\ Times(a)  BY <1>1, <1>2, <1>3, SoundTabs
<1>9. m \in Message /\ m.dirty = a.dirty /\ m.late = FALSE /\ m.mine = TRUE  BY <1>1, <1>4, SnapshotFacts
<1>10. /\ r \in Seq(Message) /\ Len(r) = Len(q) + 1 /\ Len(q) \in Nat
       /\ \A i \in 1 .. Len(q) : r[i] = q[i]
       /\ r[Len(q) + 1] = m
  BY <1>2, <1>6, <1>9, AppendProperties, LenProperties
<1>11. b \in Tab  BY ZenonT(60), <1>1, <1>5 DEF Tab
<1>12. /\ b.sending = "sent" /\ ~b.changed /\ b.dirty = a.dirty /\ b.known = a.known
       /\ b.registered = a.registered
  BY <1>1, <1>5 DEF Tab
<1>13. /\ b.life = a.life /\ b.seen = a.seen /\ b.age = a.age /\ b.asked = a.asked
       /\ b.connected = a.connected
  BY <1>1, <1>5 DEF Tab
<1>14. \A i \in 1 .. Len(q) : ~q[i].mine  BY <1>7, <1>8 DEF Reports, Waiting
<1>15. Waiting(b, r)
  <2> SUFFICES ASSUME NEW i \in 1 .. Len(r), r[i].mine
               PROVE  i = Len(r) /\ ~r[i].late /\ r[i].dirty = b.dirty
    BY <1>12 DEF Waiting
  <2>1. i = Len(q) + 1  BY <1>10, <1>14
  <2> QED  BY <1>9, <1>10, <1>12, <2>1
<1>16. Reports(b, r, row)  BY <1>12, <1>15 DEF Reports
<1>17. a.dirty /\ Declared(q, row) => Declared(r, row)
  <2> SUFFICES ASSUME a.dirty, Declared(q, row), NEW i \in 1 .. Len(r) PROVE r[i].late \/ r[i].dirty
    BY DEF Declared
  <2>1. CASE i = Len(q) + 1  BY <1>9, <1>10, <2>1
  <2>2. CASE i # Len(q) + 1
    <3>1. i \in 1 .. Len(q)  BY <1>10, <2>2
    <3> QED  BY <1>10, <3>1 DEF Declared
  <2> QED  BY <2>1, <2>2
<1>18. Drafts(b, r, row)  BY <1>8, <1>12, <1>17 DEF Drafts
<1>19. a.life # "gone"  BY <1>7, <1>8 DEF Views, Gone, NewTab
<1>20. Views(b) /\ Times(b)  BY <1>8, <1>13, <1>12, <1>19 DEF Views, Times
<1>21. Sound(b, r, row)  BY <1>16, <1>18, <1>20 DEF Sound
<1> QED  BY <1>3, <1>7, <1>10, <1>11, <1>21, WireStep

LEMMA LoseKeeps == ASSUME IInv, NEW t \in Tabs, NEW i \in DOMAIN wire[t], Lose(t, i) PROVE IInv'
<1>1. PICK a \in Tab : a = tab[t]  BY Shaped
<1>2. PICK q \in Seq(Message) : q = wire[t]  BY Shaped
<1>3. PICK row : row = gate.sessions[t]  OBVIOUS
<1>4. PICK r : r = Dropped(q, i)  OBVIOUS
<1>5. /\ tab' = [tab EXCEPT ![t] = a] /\ wire' = [wire EXCEPT ![t] = r] /\ UNCHANGED <<gate, jobs, crashed>>
  BY <1>1, <1>2, <1>4, Shaped DEF Lose
<1>6. Reports(a, q, row) /\ Drafts(a, q, row) /\ Views(a) /\ Times(a)  BY <1>1, <1>2, <1>3, SoundTabs
<1>7. i \in 1 .. Len(q)  BY <1>2, LenProperties
<1>8. r \in Seq(Message)  BY <1>2, <1>4, <1>7, DroppedFacts
<1>9. \A k \in 1 .. Len(r) : \E m \in 1 .. Len(q) : m # i /\ r[k] = q[m] /\ (m = Len(q) => k = Len(r))
  BY <1>2, <1>4, <1>7, DroppedStays
<1>10. Reports(a, r, row)  BY <1>6, <1>9 DEF Reports, Waiting
<1>11. Declared(q, row) => Declared(r, row)  BY <1>9 DEF Declared
<1>12. Drafts(a, r, row)  BY <1>6, <1>11 DEF Drafts
<1>13. Sound(a, r, row)  BY <1>6, <1>10, <1>12 DEF Sound
<1> QED  BY <1>3, <1>5, <1>8, <1>13, WireStep

LEMMA ServeKeeps == ASSUME IInv, NEW t \in Tabs, NEW i \in DOMAIN wire[t], Serve(t, i) PROVE IInv'
<1>1. PICK a \in Tab : a = tab[t]  BY Shaped
<1>2. PICK q \in Seq(Message) : q = wire[t]  BY Shaped
<1>3. PICK old \in Row : old = gate.sessions[t]  BY Shaped
<1>4. PICK m : m = q[i]  OBVIOUS
<1>5. PICK row : row = IF m.late THEN old
                       ELSE [known |-> TRUE, dirty |-> m.dirty, busy |-> m.busy, ack |-> m.ack,
                             closed |-> m.closed, age |-> 0]
  OBVIOUS
<1>6. PICK o : o = Overtaken(q, i)  OBVIOUS
<1>7. PICK r : r = Dropped(o, i)  OBVIOUS
<1>8. PICK b : b = [a EXCEPT !.sending = IF m.mine THEN "served" ELSE @]  OBVIOUS
<1>9. /\ gate' = [gate EXCEPT !.sessions[t] = row] /\ wire' = [wire EXCEPT ![t] = r]
      /\ tab' = [tab EXCEPT ![t] = b] /\ UNCHANGED <<jobs, crashed>>
  <2>1. wire' = [wire EXCEPT ![t] = r]
    <3>1. wire' = [wire EXCEPT ![t] = Dropped(Overtaken(wire[t], i), i)]
      BY DEF Serve
    <3> QED  BY <1>2, <1>6, <1>7, <3>1
  <2>2. tab' = [tab EXCEPT ![t] = b]  BY <1>1, <1>2, <1>4, <1>8, Shaped DEF Serve
  <2>3. gate' = [gate EXCEPT !.sessions[t] = row]
    <3>1. gate' = [gate EXCEPT !.sessions[t] =
                      IF m.late THEN @
                      ELSE [known |-> TRUE, dirty |-> m.dirty, busy |-> m.busy, ack |-> m.ack,
                            closed |-> m.closed, age |-> 0]]
      BY <1>2, <1>4 DEF Serve
    <3> QED  BY <1>3, <1>5, <3>1
  <2>4. UNCHANGED <<jobs, crashed>>  BY DEF Serve
  <2> QED  BY <2>1, <2>2, <2>3, <2>4
<1>10. Reports(a, q, old) /\ Drafts(a, q, old) /\ Views(a) /\ Times(a)  BY <1>1, <1>2, <1>3, SoundTabs
<1>11. i \in 1 .. Len(q) /\ Len(q) \in Nat /\ m \in Message  BY <1>2, <1>4, LenProperties, ElementOfSeq
<1>12. row \in Row
  <2>1. 0 \in 0 .. SessionAge + 1  BY MaintenanceAssumption
  <2>2. CASE m.late  BY <1>5, <2>2
  <2>3. CASE ~m.late  BY <1>5, <1>11, <2>1, <2>3 DEF Message, Row
  <2> QED  BY <2>2, <2>3
<1>13. /\ o \in Seq(Message) /\ Len(o) = Len(q)
       /\ \A k \in 1 .. Len(q) : /\ o[k].mine = q[k].mine /\ o[k].dirty = q[k].dirty
                                 /\ o[k].late <=> q[k].late \/ (k < i /\ ~m.late)
  <2>1. /\ Overtaken(q, i) \in Seq(Message) /\ Len(Overtaken(q, i)) = Len(q)
        /\ \A k \in 1 .. Len(q) :
              /\ Overtaken(q, i)[k].mine = q[k].mine /\ Overtaken(q, i)[k].dirty = q[k].dirty
              /\ Overtaken(q, i)[k].late <=> q[k].late \/ (k < i /\ ~q[i].late)
    BY <1>11, OvertakenFacts
  <2> QED  BY <1>4, <1>6, <2>1
<1>14. r \in Seq(Message)  BY <1>7, <1>11, <1>13, DroppedFacts
<1>15. \A k \in 1 .. Len(r) : \E n \in 1 .. Len(q) : n # i /\ r[k] = o[n] /\ (n = Len(q) => k = Len(r))
  BY <1>7, <1>11, <1>13, DroppedStays
<1>16. b \in Tab  BY <1>1, <1>8 DEF Tab
<1>17. b.sending = (IF m.mine THEN "served" ELSE a.sending) /\ b.changed = a.changed
       /\ b.dirty = a.dirty /\ b.known = a.known
  BY <1>1, <1>8 DEF Tab
<1>18. b.life = a.life /\ b.registered = a.registered /\ b.desired = a.desired
       /\ b.seen = a.seen /\ b.age = a.age /\ b.asked = a.asked /\ b.connected = a.connected
  BY <1>1, <1>8 DEF Tab
<1>19. ~m.late => row.dirty = m.dirty  BY <1>5
<1>20. Reports(b, r, row)
  <2>1. CASE m.mine
    <3>1. i = Len(q) /\ ~m.late /\ (~a.changed => m.dirty = a.dirty)
      BY <1>4, <1>10, <1>11, <2>1 DEF Reports, Waiting
    <3>2. ASSUME NEW k \in 1 .. Len(r) PROVE r[k].late /\ ~r[k].mine
      <4>1. PICK n \in 1 .. Len(q) : n # i /\ r[k] = o[n]  BY <1>15
      <4>2. n < i  BY <1>11, <3>1, <4>1
      <4>3. o[n].late /\ o[n].mine = q[n].mine  BY <1>13, <3>1, <4>2
      <4>4. ~q[n].mine  BY <1>10, <3>1, <4>1 DEF Reports, Waiting
      <4> QED  BY <4>1, <4>3, <4>4
    <3> QED  BY <1>17, <1>19, <3>1, <3>2 DEF Reports, Waiting
  <2>2. CASE ~m.mine
    <3>1. b.sending = a.sending  BY <1>17, <2>2
    <3>2. Waiting(b, r)
      <4> SUFFICES ASSUME NEW k \in 1 .. Len(r), r[k].mine
                   PROVE  /\ k = Len(r) /\ ~r[k].late /\ b.sending = "sent"
                          /\ ~b.changed => r[k].dirty = b.dirty
        BY DEF Waiting
      <4>1. PICK n \in 1 .. Len(q) : n # i /\ r[k] = o[n] /\ (n = Len(q) => k = Len(r))  BY <1>15
      <4>2. q[n].mine  BY <1>13, <4>1
      <4>3. /\ n = Len(q) /\ ~q[n].late /\ a.sending = "sent"
            /\ ~a.changed => q[n].dirty = a.dirty
        BY <1>10, <4>2 DEF Reports, Waiting
      <4>4. ~o[n].late  BY <1>11, <1>13, <4>3
      <4> QED  BY <1>13, <1>17, <3>1, <4>1, <4>3, <4>4
    <3>3. ASSUME b.sending = "served"
          PROVE  (\A k \in 1 .. Len(r) : r[k].late) /\ (~b.changed => row.dirty = b.dirty)
      <4>1. (\A k \in 1 .. Len(q) : q[k].late) /\ (~a.changed => old.dirty = a.dirty)
        BY <1>10, <3>1, <3>3 DEF Reports
      <4>2. m.late  BY <1>4, <1>11, <4>1
      <4>3. row = old  BY <1>5, <4>2
      <4>4. \A k \in 1 .. Len(q) : o[k].late  BY <1>13, <4>1
      <4> QED  BY <1>15, <1>17, <4>1, <4>3, <4>4
    <3> QED  BY <3>2, <3>3 DEF Reports
  <2> QED  BY <2>1, <2>2
<1>21. Declared(q, old) => Declared(r, row)
  <2> SUFFICES ASSUME Declared(q, old) PROVE Declared(r, row)  OBVIOUS
  <2>1. m.late \/ m.dirty  BY <1>4, <1>11 DEF Declared
  <2>2. row.dirty  BY <1>5, <1>19, <2>1 DEF Declared
  <2>3. \A k \in 1 .. Len(q) : o[k].late \/ o[k].dirty  BY <1>13 DEF Declared
  <2> QED  BY <1>15, <2>2, <2>3 DEF Declared
<1>22. b.sending = "no" => a.sending = "no"  BY <1>17
<1>23. Drafts(b, r, row)  BY <1>10, <1>17, <1>18, <1>21, <1>22 DEF Drafts
<1>24. a.life # "gone" \/ b = a
  <2>1. CASE m.mine
    <3>1. a.sending = "sent"  BY <1>4, <1>10, <1>11, <2>1 DEF Reports, Waiting
    <3> QED  BY <1>10, <3>1 DEF Views, Gone, NewTab
  <2>2. CASE ~m.mine  BY <1>1, <1>8, <2>2 DEF Tab
  <2> QED  BY <2>1, <2>2
<1>25. Views(b)  BY <1>10, <1>18, <1>24 DEF Views
<1>26. Times(b)  BY <1>10, <1>18 DEF Times
<1>27. Sound(b, r, row)  BY <1>20, <1>23, <1>25, <1>26 DEF Sound
<1>28. gate' \in Gates /\ gate'.phase = gate.phase /\ gate'.waited = gate.waited
       /\ gate'.operations = gate.operations /\ gate'.sessions = [gate.sessions EXCEPT ![t] = row]
  BY <1>9, <1>12, Shaped DEF Gates
<1>29. Work' /\ jobs' \subseteq Jobs /\ crashed' \subseteq gate'.operations  BY <1>9, <1>28, WorkStays
<1> QED  BY <1>9, <1>12, <1>14, <1>16, <1>27, <1>28, <1>29, OneTab

LEMMA HeardFacts ==
    ASSUME NEW a \in Tab
    PROVE  /\ Heard(a) \in Tab
           /\ Heard(a).sending = "no" /\ Heard(a).life = a.life /\ Heard(a).dirty = a.dirty
           /\ Heard(a).seen = a.seen /\ Heard(a).age = a.age /\ Heard(a).asked = a.asked
           /\ Heard(a).connected = a.connected
           /\ Heard(a).desired <=> a.desired \/ a.changed
           /\ Heard(a).registered <=> a.registered \/ (~a.changed /\ ~a.superseded /\ a.connected)
           /\ Heard(a).known <=> a.known \/ ~a.changed
<1>1. PICK d \in BOOLEAN : d <=> a.desired \/ a.changed  OBVIOUS
<1>2. PICK g \in BOOLEAN : g <=> a.registered \/ (~a.changed /\ ~a.superseded /\ a.connected)  OBVIOUS
<1>3. PICK k \in BOOLEAN : k <=> a.known \/ ~a.changed  OBVIOUS
<1>4. PICK b : b = Heard(a)  OBVIOUS
<1>5. b = [a EXCEPT !.sending = "no", !.desired = d, !.changed = FALSE, !.superseded = FALSE,
                    !.registered = g, !.known = k]
  BY <1>1, <1>2, <1>3, <1>4 DEF Heard
<1>6. PICK c : c = [a EXCEPT !.sending = "no", !.changed = FALSE, !.superseded = FALSE]  OBVIOUS
<1>7. c \in Tab  BY <1>6 DEF Tab
<1>8. b = [c EXCEPT !.desired = d, !.registered = g, !.known = k]  BY <1>5, <1>6 DEF Tab
<1>9. b \in Tab  BY ZenonT(60), <1>7, <1>8 DEF Tab
<1>10. b.sending = "no" /\ b.desired = d /\ b.registered = g /\ b.known = k  BY <1>5 DEF Tab
<1>11. /\ b.life = a.life /\ b.dirty = a.dirty /\ b.seen = a.seen /\ b.age = a.age /\ b.asked = a.asked
       /\ b.connected = a.connected
  BY <1>5 DEF Tab
<1> QED  BY <1>1, <1>2, <1>3, <1>4, <1>9, <1>10, <1>11

LEMMA ReportedKeeps == ASSUME IInv, NEW t \in Tabs, Reported(t) PROVE IInv'
<1>1. PICK a \in Tab : a = tab[t]  BY Shaped
<1>2. PICK q \in Seq(Message) : q = wire[t]  BY Shaped
<1>3. PICK row : row = gate.sessions[t]  OBVIOUS
<1>4. PICK told \in BOOLEAN : told <=> ~a.changed /\ ~a.superseded /\ a.connected  OBVIOUS
<1>5. PICK b : b = Heard(a)  OBVIOUS
<1>6. /\ tab' = [tab EXCEPT ![t] = b] /\ a.sending = "served" /\ UNCHANGED <<gate, wire, jobs, crashed>>
  BY <1>1, <1>5 DEF Reported
<1>7. wire' = [wire EXCEPT ![t] = q]  BY <1>2, <1>6, Shaped
<1>8. Reports(a, q, row) /\ Drafts(a, q, row) /\ Views(a) /\ Times(a)  BY <1>1, <1>2, <1>3, SoundTabs
<1>9. /\ b.desired <=> a.desired \/ a.changed
      /\ b.registered <=> a.registered \/ told
      /\ b.known <=> a.known \/ ~a.changed
  BY <1>1, <1>4, <1>5, HeardFacts
<1>11. b \in Tab /\ b.sending = "no"  BY <1>1, <1>5, HeardFacts
<1>12. b.life = a.life /\ b.dirty = a.dirty /\ b.seen = a.seen  BY <1>1, <1>5, HeardFacts
<1>13. b.age = a.age /\ b.asked = a.asked /\ b.connected = a.connected  BY <1>1, <1>5, HeardFacts
<1>14. \A i \in 1 .. Len(q) : ~q[i].mine  BY <1>6, <1>8 DEF Reports, Waiting
<1>15. Reports(b, q, row)  BY <1>11, <1>14, NobodyWaits
<1>16. ~a.changed /\ a.dirty => Declared(q, row)  BY <1>6, <1>8 DEF Reports, Declared
<1>17. Drafts(b, q, row)
  <2>1. b.known /\ b.dirty => Declared(q, row)  BY <1>8, <1>9, <1>12, <1>16 DEF Drafts
  <2>2. ASSUME b.registered, b.dirty, ~Declared(q, row)
        PROVE  /\ b.desired /\ gate.phase # "quiesced"
               /\ gate.phase = "announcing" => gate.waited < Delay
    <3>1. a.dirty /\ a.changed  BY <1>12, <1>16, <2>2
    <3>2. a.registered  BY <1>4, <1>9, <2>2, <3>1
    <3> QED  BY <1>8, <1>9, <2>2, <3>1, <3>2 DEF Drafts
  <2> QED  BY <2>1, <2>2 DEF Drafts
<1>18. a.life # "gone"  BY <1>6, <1>8 DEF Views, Gone, NewTab
<1>19. b.registered => a.registered \/ a.connected  BY <1>4, <1>9
<1>20. Views(b) /\ Times(b)  BY <1>8, <1>12, <1>13, <1>18, <1>19 DEF Views, Times
<1>21. Sound(b, q, row)  BY <1>15, <1>17, <1>20 DEF Sound
<1> QED  BY <1>3, <1>6, <1>7, <1>11, <1>21, WireStep

LEMMA ReportFailsKeeps == ASSUME IInv, NEW t \in Tabs, ReportFails(t) PROVE IInv'
<1>1. PICK a \in Tab : a = tab[t]  BY Shaped
<1>2. PICK q \in Seq(Message) : q = wire[t]  BY Shaped
<1>3. PICK row : row = gate.sessions[t]  OBVIOUS
<1>4. PICK r : r = Unawaited(q)  OBVIOUS
<1>5. PICK c : c = Uncertain(a)  OBVIOUS
<1>6. PICK b : b = [c EXCEPT !.sending = "no", !.desired = FALSE, !.changed = FALSE, !.superseded = FALSE]
  OBVIOUS
<1>7. /\ tab' = [tab EXCEPT ![t] = b] /\ a.sending # "no" /\ UNCHANGED <<gate, jobs, crashed>>
  BY <1>1, <1>5, <1>6 DEF ReportFails
<1>8. wire' = [wire EXCEPT ![t] = r]
  <2>1. wire' = [wire EXCEPT ![t] = Unawaited(wire[t])]  BY DEF ReportFails, Unawaited
  <2> QED  BY <1>2, <1>4, <2>1
<1>9. Reports(a, q, row) /\ Drafts(a, q, row) /\ Views(a)  BY <1>1, <1>2, <1>3, SoundTabs
<1>10. a.life # "gone"  BY <1>7, <1>9 DEF Views, Gone, NewTab
<1>11. c \in Tab /\ c.life = a.life /\ c.dirty = a.dirty /\ c.known = a.known
       /\ c.connected = FALSE /\ c.registered = FALSE /\ c.asked = NoStatus
  BY <1>5, UncertainFacts
<1>12. ~c.seen.current
  <2>1. c.seen = Unsure(a.seen) /\ a.seen \in Status  BY <1>5, UncertainFacts DEF Tab
  <2> QED  BY <2>1, UnsureFacts
<1>13. b \in Tab  BY <1>6, <1>11 DEF Tab
<1>14. b.sending = "no" /\ b.life = c.life /\ b.dirty = c.dirty /\ b.known = c.known
       /\ b.connected = c.connected /\ b.registered = c.registered /\ b.asked = c.asked /\ b.seen = c.seen
  BY <1>6, <1>11 DEF Tab
<1>15. /\ r \in Seq(Message) /\ Len(r) = Len(q)
       /\ \A i \in 1 .. Len(q) : r[i].mine = FALSE /\ r[i].late = q[i].late /\ r[i].dirty = q[i].dirty
  BY <1>4, UnawaitedFacts
<1>16. Reports(b, r, row)  BY <1>13, <1>14, <1>15, NobodyWaits
<1>17. Declared(q, row) => Declared(r, row)  BY <1>15 DEF Declared
<1>18. Drafts(b, r, row)  BY <1>9, <1>11, <1>14, <1>17 DEF Drafts
<1>19. Views(b) /\ Times(b)  BY <1>10, <1>11, <1>12, <1>13, <1>14, CutOff
<1>20. Sound(b, r, row)  BY <1>16, <1>18, <1>19 DEF Sound
<1> QED  BY <1>3, <1>7, <1>8, <1>13, <1>15, <1>20, WireStep

\* A tab that is gone waits for nothing and holds nothing.
LEMMA GoneIsSound ==
    ASSUME NEW q \in Seq(Message), NEW row, \A i \in 1 .. Len(q) : ~q[i].mine
    PROVE  Gone \in Tab /\ Sound(Gone, q, row)
<1>1. Gone \in Tab
  <2>1. 0 \in 0 .. Fresh + 1  BY MaintenanceAssumption
  <2>2. NoStatus \in Status  BY DEF NoStatus, Status, Phases
  <2> QED  BY <2>1, <2>2 DEF Gone, NewTab, Tab
<1>2. PICK b : b = Gone  OBVIOUS
<1>3. b.sending = "no" /\ ~b.dirty /\ ~b.connected /\ ~b.registered /\ b.asked = NoStatus
      /\ b.seen = NoStatus
  BY <1>2 DEF Gone, NewTab
<1>4. Reports(b, q, row)  BY <1>1, <1>2, <1>3, NobodyWaits
<1>5. Drafts(b, q, row)  BY <1>3 DEF Drafts
<1>6. Views(b) /\ Times(b)  BY <1>2, <1>3 DEF Views, Times, NoStatus
<1> QED  BY <1>1, <1>2, <1>4, <1>5, <1>6 DEF Sound

LEMMA LeavesKeeps == ASSUME IInv, NEW t \in Tabs, Leaves(t) PROVE IInv'
<1>1. PICK q \in Seq(Message) : q = wire[t]  BY Shaped
<1>2. PICK m : m = Snapshot(tab[t], TRUE)  OBVIOUS
<1>3. PICK u : u = Unawaited(q)  OBVIOUS
<1>4. PICK r : r = Append(u, m)  OBVIOUS
<1>5. wire' = [wire EXCEPT ![t] = r]
  <2>1. wire' = [wire EXCEPT ![t] = Append(Unawaited(wire[t]), Snapshot(tab[t], TRUE))]
    BY DEF Leaves, Unawaited
  <2> QED  BY <1>1, <1>2, <1>3, <1>4, <2>1
<1>6. tab' = [tab EXCEPT ![t] = Gone] /\ UNCHANGED <<gate, jobs, crashed>>  BY DEF Leaves
<1>7. m \in Message /\ m.mine = FALSE  BY <1>2, Shaped, SnapshotFacts
<1>8. u \in Seq(Message) /\ Len(u) = Len(q) /\ \A i \in 1 .. Len(q) : u[i].mine = FALSE
  BY <1>3, UnawaitedFacts
<1>9. /\ r \in Seq(Message) /\ Len(r) = Len(u) + 1 /\ Len(u) \in Nat
      /\ \A i \in 1 .. Len(u) : r[i] = u[i]
      /\ r[Len(u) + 1] = m
  BY <1>4, <1>7, <1>8, AppendProperties, LenProperties
<1>10. ASSUME NEW i \in 1 .. Len(r) PROVE ~r[i].mine
  <2>1. CASE i = Len(u) + 1  BY <1>7, <1>9, <2>1
  <2>2. CASE i # Len(u) + 1
    <3>1. i \in 1 .. Len(u)  BY <1>9, <2>2
    <3> QED  BY <1>8, <1>9, <3>1
  <2> QED  BY <2>1, <2>2
<1>11. Gone \in Tab /\ Sound(Gone, r, gate.sessions[t])  BY <1>9, <1>10, GoneIsSound
<1> QED  BY <1>5, <1>6, <1>9, <1>11, WireStep

LEMMA TabCrashesKeeps == ASSUME IInv, NEW t \in Tabs, TabCrashes(t) PROVE IInv'
<1>1. PICK q \in Seq(Message) : q = wire[t]  BY Shaped
<1>2. PICK r : r = Unawaited(q)  OBVIOUS
<1>3. wire' = [wire EXCEPT ![t] = r]
  <2>1. wire' = [wire EXCEPT ![t] = Unawaited(wire[t])]  BY DEF TabCrashes, Unawaited
  <2> QED  BY <1>1, <1>2, <2>1
<1>4. tab' = [tab EXCEPT ![t] = Gone] /\ UNCHANGED <<gate, jobs, crashed>>  BY DEF TabCrashes
<1>5. r \in Seq(Message) /\ Len(r) = Len(q) /\ \A i \in 1 .. Len(q) : r[i].mine = FALSE
  BY <1>2, UnawaitedFacts
<1>6. \A i \in 1 .. Len(r) : ~r[i].mine  BY <1>5
<1>7. Gone \in Tab /\ Sound(Gone, r, gate.sessions[t])  BY <1>5, <1>6, GoneIsSound
<1> QED  BY <1>3, <1>4, <1>5, <1>7, WireStep

Remembered(q) == [i \in DOMAIN q |-> [q[i] EXCEPT !.late = FALSE]]

LEMMA ClearSessionKeeps == ASSUME IInv, NEW t \in Tabs, ClearSession(t) PROVE IInv'
<1>1. PICK q \in Seq(Message) : q = wire[t]  BY Shaped
<1>2. PICK r : r = Remembered(q)  OBVIOUS
<1>3. wire' = [wire EXCEPT ![t] = r]
  <2>1. wire' = [wire EXCEPT ![t] = Remembered(wire[t])]  BY DEF ClearSession, Remembered
  <2> QED  BY <1>1, <1>2, <2>1
<1>4. /\ tab[t].life = "gone" /\ gate' = [gate EXCEPT !.sessions[t] = NoRow]
      /\ UNCHANGED <<tab, jobs, crashed>>
  BY DEF ClearSession
<1>5. tab[t] = Gone  BY <1>4, SoundTabs DEF Views
<1>6. tab' = [tab EXCEPT ![t] = Gone]  BY <1>4, <1>5, Shaped
<1>7. \A i \in 1 .. Len(q) : ~q[i].mine
  <2>1. Waiting(Gone, q)  BY <1>1, <1>5, SoundTabs DEF Reports
  <2> QED  BY <2>1 DEF Waiting, Gone, NewTab
<1>8. DOMAIN q = 1 .. Len(q) /\ \A i \in 1 .. Len(q) : q[i] \in Message  BY LenProperties, ElementOfSeq
<1>9. DOMAIN r = DOMAIN q /\ r = [i \in DOMAIN r |-> r[i]]  BY <1>2 DEF Remembered
<1>10. ASSUME NEW i \in 1 .. Len(q) PROVE r[i] \in Message /\ r[i].mine = q[i].mine
  <2>1. q[i] \in Message /\ r[i] = [q[i] EXCEPT !.late = FALSE]  BY <1>2, <1>8 DEF Remembered
  <2> QED  BY <2>1 DEF Message
<1>11. r \in Seq(Message) /\ Len(r) = Len(q)  BY <1>9, <1>10, Mapped
<1>12. \A i \in 1 .. Len(r) : ~r[i].mine  BY <1>7, <1>10, <1>11
<1>13. Gone \in Tab /\ Sound(Gone, r, NoRow)  BY <1>11, <1>12, GoneIsSound
<1>14. NoRow \in Row
  <2>1. 0 \in 0 .. SessionAge + 1  BY MaintenanceAssumption
  <2> QED  BY <2>1 DEF NoRow, Row
<1>15. gate' \in Gates /\ gate'.phase = gate.phase /\ gate'.waited = gate.waited
       /\ gate'.operations = gate.operations /\ gate'.sessions = [gate.sessions EXCEPT ![t] = NoRow]
  BY <1>4, <1>14, Shaped DEF Gates
<1>16. Work' /\ jobs' \subseteq Jobs /\ crashed' \subseteq gate'.operations  BY <1>4, <1>15, WorkStays
<1> QED  BY <1>3, <1>6, <1>11, <1>13, <1>14, <1>15, <1>16, OneTab

--------------------------------------------------------------------------------
(* Steps of the whole instance.                                                *)

\* What a report tells is left as it is.
Alike(q, r) ==
    /\ Len(r) = Len(q)
    /\ \A i \in 1 .. Len(q) : r[i].late = q[i].late /\ r[i].dirty = q[i].dirty /\ r[i].mine = q[i].mine

\* So is what a tab holds and what it has still to tell.
Holding(a, b) ==
    /\ b.life = a.life /\ b.connected = a.connected /\ b.registered = a.registered
    /\ b.dirty = a.dirty /\ b.known = a.known
    /\ b.desired = a.desired /\ b.sending = a.sending /\ b.changed = a.changed

LEMMA AlikeDeclared ==
    ASSUME NEW q, NEW r, NEW x, NEW y, Alike(q, r), y.dirty = x.dirty
    PROVE  Declared(r, y) <=> Declared(q, x)
BY DEF Alike, Declared

LEMMA AlikeReports ==
    ASSUME NEW a, NEW b, NEW q, NEW r, NEW x, NEW y, Alike(q, r), Holding(a, b), y.dirty = x.dirty,
           Reports(a, q, x)
    PROVE  Reports(b, r, y)
<1>1. Waiting(b, r)  BY DEF Alike, Holding, Reports, Waiting
<1>2. ASSUME b.sending = "served"
      PROVE  (\A i \in 1 .. Len(r) : r[i].late) /\ (~b.changed => y.dirty = b.dirty)
  BY <1>2 DEF Alike, Holding, Reports
<1> QED  BY <1>1, <1>2 DEF Reports

\* There is still time for a draft that the server does not know.
Due(b, q, row) ==
    b.registered /\ b.dirty /\ ~Declared(q, row) =>
        /\ gate.phase # "quiesced"
        /\ gate.phase = "announcing" => gate.waited < Delay

LEMMA EveryTab ==
    ASSUME IInv, Types', Work',
           \A t \in Tabs : Holding(tab[t], tab'[t]) /\ Alike(wire[t], wire'[t]),
           \A t \in Tabs : gate'.sessions[t].dirty = gate.sessions[t].dirty,
           \A t \in Tabs : Due(tab[t], wire[t], gate.sessions[t])',
           \A t \in Tabs : Views(tab[t])' /\ Times(tab[t])'
    PROVE  IInv'
<1>1. SUFFICES ASSUME NEW t \in Tabs PROVE Sound(tab[t], wire[t], gate.sessions[t])'
  BY DEF IInv
<1> PICK a : a = tab[t]  OBVIOUS
<1> PICK b : b = tab'[t]  OBVIOUS
<1> PICK q : q = wire[t]  OBVIOUS
<1> PICK r : r = wire'[t]  OBVIOUS
<1> PICK x : x = gate.sessions[t]  OBVIOUS
<1> PICK y : y = gate'.sessions[t]  OBVIOUS
<1>2. Holding(a, b) /\ Alike(q, r) /\ y.dirty = x.dirty  OBVIOUS
<1>3. Reports(a, q, x) /\ Drafts(a, q, x)  BY SoundTabs
<1>4. Reports(b, r, y)  BY <1>2, <1>3, AlikeReports
<1>5. Reports(tab[t], wire[t], gate.sessions[t])'
  <2>1. Reports(tab'[t], wire'[t], gate'.sessions[t])  BY <1>4
  <2> QED  BY <2>1 DEF Reports, Waiting
<1>6. Declared(r, y) <=> Declared(q, x)  BY <1>2, AlikeDeclared
<1>7. b.known /\ b.dirty => Declared(r, y)  BY <1>2, <1>3, <1>6 DEF Holding, Drafts
<1>8. b.registered /\ b.dirty /\ ~Declared(r, y) => b.desired \/ b.sending # "no"
  BY <1>2, <1>3, <1>6 DEF Holding, Drafts
<1>9. Due(tab[t], wire[t], gate.sessions[t])'  OBVIOUS
<1>10. Drafts(tab[t], wire[t], gate.sessions[t])'
  <2>1. tab'[t].known /\ tab'[t].dirty => Declared(wire'[t], gate'.sessions[t])  BY <1>7
  <2>2. tab'[t].registered /\ tab'[t].dirty /\ ~Declared(wire'[t], gate'.sessions[t])
        => tab'[t].desired \/ tab'[t].sending # "no"
    BY <1>8
  <2> QED  BY <1>9, <2>1, <2>2 DEF Drafts, Due
<1> QED  BY <1>5, <1>10 DEF Sound

LEMMA SameAlike == ASSUME NEW q PROVE Alike(q, q)
BY DEF Alike

LEMMA SameHolding == ASSUME NEW a PROVE Holding(a, a)
BY DEF Holding

\* The clock of an announcement.
LEMMA NoTimeLeft ==
    ASSUME IInv, NEW t \in Tabs, gate.phase = "announcing", gate.waited = Delay,
           tab[t].connected, tab[t].seen.phase = "open"
    PROVE  tab[t].age > Fresh
<1>1. Views(tab[t]) /\ Times(tab[t]) /\ tab[t].age \in 0 .. Fresh + 1  BY SoundTabs, Shaped DEF Tab
<1> QED  BY <1>1, MaintenanceAssumption DEF Views, Times

LEMMA TryQuiesceKeeps == ASSUME IInv, TryQuiesce PROVE IInv'
<1> USE Shaped, MaintenanceAssumption
<1>1. /\ gate.phase = "announcing" /\ gate.waited = Delay /\ Live = {} /\ crashed' = {}
      /\ gate' = [gate EXCEPT !.phase = "quiesced", !.operations = {}] /\ UNCHANGED <<tab, wire, jobs>>
  BY DEF TryQuiesce
<1>2. /\ gate' \in Gates /\ gate'.phase = "quiesced" /\ gate'.operations = {}
      /\ gate'.sessions = gate.sessions /\ gate'.waited = gate.waited
  BY <1>1 DEF Gates, Phases
<1>3. jobs = {}  BY <1>1 DEF IInv, Work
<1>4. Types'  BY <1>1, <1>2 DEF Types
<1>5. Work'  BY <1>1, <1>2, <1>3 DEF Work, Live
<1>6. ASSUME NEW t \in Tabs PROVE Due(tab[t], wire[t], gate.sessions[t])'
  <2>1. Drafts(tab[t], wire[t], gate.sessions[t])  BY SoundTabs
  <2>2. ~(tab[t].registered /\ tab[t].dirty /\ ~Declared(wire[t], gate.sessions[t]))
    BY <1>1, <2>1 DEF Drafts, Gates
  <2>3. ~(tab'[t].registered /\ tab'[t].dirty /\ ~Declared(wire'[t], gate'.sessions[t]))
    BY <1>1, <1>2, <2>2
  <2> QED  BY <2>3 DEF Due
<1>7. ASSUME NEW t \in Tabs PROVE Views(tab[t])' /\ Times(tab[t])'
  <2>1. Views(tab[t]) /\ Times(tab[t])  BY SoundTabs
  <2>2. Views(tab[t])'  BY <1>1, <2>1 DEF Views
  <2>3. tab[t].connected /\ tab[t].seen.phase = "open" => tab[t].age > Fresh  BY <1>1, NoTimeLeft
  <2>4. tab[t].asked # NoStatus => tab[t].asked.phase # "open"
    BY <1>1, <2>1 DEF Views, Times
  <2> QED  BY <1>1, <1>2, <2>2, <2>3, <2>4 DEF Times
<1>8. \A t \in Tabs : Holding(tab[t], tab'[t]) /\ Alike(wire[t], wire'[t])
  BY <1>1, SameAlike, SameHolding
<1> QED  BY <1>2, <1>4, <1>5, <1>6, <1>7, <1>8, EveryTab

\* The gate opens, for good or for half an hour.
LEMMA OpensKeeps ==
    ASSUME IInv, gate' = [gate EXCEPT !.phase = "open", !.waited = 0], UNCHANGED <<tab, wire, jobs, crashed>>
    PROVE  IInv'
<1> USE Shaped, MaintenanceAssumption
<1>1. /\ gate' \in Gates /\ gate'.phase = "open" /\ gate'.operations = gate.operations
      /\ gate'.sessions = gate.sessions
  <2>1. PICK n \in 0 .. Delay : n = 0  OBVIOUS
  <2>2. gate' = [gate EXCEPT !.phase = "open", !.waited = n]  BY <2>1
  <2> QED  BY <2>2 DEF Gates, Phases
<1>2. Types'  BY <1>1 DEF Types
<1>3. Work'  BY <1>1 DEF IInv, Work, Live
<1>4. ASSUME NEW t \in Tabs PROVE Due(tab[t], wire[t], gate.sessions[t])'  BY <1>1 DEF Due
<1>5. ASSUME NEW t \in Tabs PROVE Views(tab[t])' /\ Times(tab[t])'
  <2>1. Views(tab[t])  BY SoundTabs
  <2> QED  BY <1>1, <2>1 DEF Views, Times
<1>6. \A t \in Tabs : Holding(tab[t], tab'[t]) /\ Alike(wire[t], wire'[t])  BY SameAlike, SameHolding
<1> QED  BY <1>1, <1>2, <1>3, <1>4, <1>5, <1>6, EveryTab

LEMMA RequestStopKeeps == ASSUME IInv, RequestStop PROVE IInv'
<1> USE Shaped
<1>1. /\ gate.phase = "quiesced" /\ UNCHANGED <<gate, wire, jobs, crashed>>
      /\ tab' = [t \in Tabs |-> [tab[t] EXCEPT !.page = IF tab[t].life = "open" THEN "past" ELSE @]]
  BY DEF RequestStop
<1>2. ASSUME NEW t \in Tabs
      PROVE  /\ tab'[t] \in Tab /\ Holding(tab[t], tab'[t])
             /\ tab'[t].seen = tab[t].seen /\ tab'[t].age = tab[t].age /\ tab'[t].asked = tab[t].asked
             /\ tab[t].life = "gone" => tab'[t] = tab[t]
  <2> PICK a \in Tab : a = tab[t]  OBVIOUS
  <2> PICK p \in {"current", "past"} : p = IF a.life = "open" THEN "past" ELSE a.page  BY DEF Tab
  <2> PICK b : b = [a EXCEPT !.page = p]  OBVIOUS
  <2>1. tab'[t] = b  BY <1>1
  <2>2. b \in Tab  BY ZenonT(60) DEF Tab
  <2>3. Holding(a, b) /\ b.seen = a.seen /\ b.age = a.age /\ b.asked = a.asked  BY DEF Tab, Holding
  <2>4. a.life = "gone" => b = a  BY DEF Tab
  <2> QED  BY <2>1, <2>2, <2>3, <2>4
<1>3. tab' \in [Tabs -> Tab]  BY <1>1, <1>2
<1>4. Types'  BY <1>1, <1>3 DEF Types
<1>5. Work'  BY <1>1 DEF IInv, Work, Live
<1>6. ASSUME NEW t \in Tabs PROVE Due(tab[t], wire[t], gate.sessions[t])'
  <2>1. Drafts(tab[t], wire[t], gate.sessions[t])  BY SoundTabs
  <2>2. ~(tab[t].registered /\ tab[t].dirty /\ ~Declared(wire[t], gate.sessions[t]))
    BY <1>1, <2>1 DEF Drafts
  <2>3. ~(tab'[t].registered /\ tab'[t].dirty /\ ~Declared(wire'[t], gate'.sessions[t]))
    BY <1>1, <1>2, <2>2 DEF Holding
  <2> QED  BY <2>3 DEF Due
<1>7. ASSUME NEW t \in Tabs PROVE Views(tab[t])' /\ Times(tab[t])'
  <2>1. Views(tab[t]) /\ Times(tab[t])  BY SoundTabs
  <2>2. Views(tab[t])'  BY <1>2, <2>1 DEF Views, Holding
  <2> QED  BY <1>1, <1>2, <2>1, <2>2 DEF Times, Holding
<1>8. \A t \in Tabs : Holding(tab[t], tab'[t]) /\ Alike(wire[t], wire'[t])  BY <1>1, <1>2, SameAlike
<1> QED  BY <1>1, <1>4, <1>5, <1>6, <1>7, <1>8, EveryTab

\* What a tab knows is no longer of the current announcement.
Outdated(b) == [b EXCEPT !.seen.current = FALSE, !.asked.current = FALSE]

LEMMA OutdatedFacts ==
    ASSUME NEW b \in Tab
    PROVE  /\ Outdated(b) \in Tab /\ Holding(b, Outdated(b))
           /\ Outdated(b).seen = [b.seen EXCEPT !.current = FALSE]
           /\ Outdated(b).asked = [b.asked EXCEPT !.current = FALSE]
           /\ ~b.asked.current => Outdated(b).asked = b.asked
           /\ ~b.seen.current /\ ~b.asked.current => Outdated(b) = b
<1>1. b.seen \in Status /\ b.asked \in Status  BY DEF Tab
<1>2. PICK s : s = [b.seen EXCEPT !.current = FALSE]  OBVIOUS
<1>3. PICK k : k = [b.asked EXCEPT !.current = FALSE]  OBVIOUS
<1>4. s \in Status /\ k \in Status  BY <1>1, <1>2, <1>3 DEF Status
<1>5. ~b.seen.current => s = b.seen  BY <1>1, <1>2 DEF Status
<1>6. ~b.asked.current => k = b.asked  BY <1>1, <1>3 DEF Status
<1>7. PICK c : c = Outdated(b)  OBVIOUS
<1>8. c = [b EXCEPT !.seen = s, !.asked = k]  BY <1>2, <1>3, <1>7 DEF Outdated, Tab
<1>9. c \in Tab  BY <1>4, <1>8 DEF Tab
<1>10. Holding(b, c) /\ c.seen = s /\ c.asked = k  BY <1>8 DEF Tab, Holding
<1>11. s = b.seen /\ k = b.asked => c = b  BY <1>8 DEF Tab
<1> QED  BY <1>2, <1>3, <1>5, <1>6, <1>7, <1>9, <1>10, <1>11

\* An answer on its way, or a row on record, acknowledges nothing.
Unheard(q) == [i \in DOMAIN q |-> [q[i] EXCEPT !.ack = FALSE]]

LEMMA UnheardFacts ==
    ASSUME NEW q \in Seq(Message)
    PROVE  Unheard(q) \in Seq(Message) /\ Alike(q, Unheard(q))
<1>1. DOMAIN q = 1 .. Len(q) /\ \A i \in 1 .. Len(q) : q[i] \in Message  BY LenProperties, ElementOfSeq
<1>2. PICK r : r = Unheard(q)  OBVIOUS
<1>3. DOMAIN r = DOMAIN q /\ r = [i \in DOMAIN r |-> r[i]]  BY <1>2 DEF Unheard
<1>4. ASSUME NEW i \in 1 .. Len(q)
      PROVE  r[i] \in Message /\ r[i].late = q[i].late /\ r[i].dirty = q[i].dirty /\ r[i].mine = q[i].mine
  <2>1. q[i] \in Message /\ r[i] = [q[i] EXCEPT !.ack = FALSE]  BY <1>1, <1>2, <1>4 DEF Unheard
  <2> QED  BY <2>1 DEF Message
<1>5. r \in Seq(Message) /\ Len(r) = Len(q)  BY <1>3, <1>4, Mapped
<1> QED  BY <1>2, <1>4, <1>5 DEF Alike

LEMMA AnnounceKeeps == ASSUME IInv, Announce PROVE IInv'
<1> USE Shaped, MaintenanceAssumption
<1>1. gate.phase # "quiesced" /\ UNCHANGED <<jobs, crashed>>  BY DEF Announce
<1>2. tab' = [t \in Tabs |-> Outdated(tab[t])]  BY DEF Announce, Outdated
<1>3. wire' = [t \in Tabs |-> Unheard(wire[t])]  BY DEF Announce, Unheard
<1>4. PICK rows : rows = [t \in Tabs |-> [gate.sessions[t] EXCEPT !.ack = FALSE]]  OBVIOUS
<1>5. gate' = [gate EXCEPT !.phase = "announcing", !.waited = 0, !.sessions = rows]
  BY <1>4 DEF Announce
<1>6. ASSUME NEW t \in Tabs
      PROVE  rows[t] \in Row /\ rows[t].dirty = gate.sessions[t].dirty
  <2>1. gate.sessions[t] \in Row /\ rows[t] = [gate.sessions[t] EXCEPT !.ack = FALSE]  BY <1>4
  <2> QED  BY <2>1 DEF Row
<1>7. rows \in [Tabs -> Row]  BY <1>4, <1>6
<1>8. /\ gate' \in Gates /\ gate'.phase = "announcing" /\ gate'.waited = 0
      /\ gate'.operations = gate.operations /\ gate'.sessions = rows
  <2>1. PICK n \in 0 .. Delay : n = 0  OBVIOUS
  <2>2. gate' = [gate EXCEPT !.phase = "announcing", !.waited = n, !.sessions = rows]  BY <1>5, <2>1
  <2>3. gate' \in Gates  BY <1>7, <2>2 DEF Gates, Phases
  <2>4. /\ gate'.phase = "announcing" /\ gate'.waited = n
        /\ gate'.operations = gate.operations /\ gate'.sessions = rows
    BY <2>2 DEF Gates
  <2> QED  BY <2>1, <2>3, <2>4
<1>9. ASSUME NEW t \in Tabs
      PROVE  /\ tab'[t] \in Tab /\ Holding(tab[t], tab'[t])
             /\ wire'[t] \in Seq(Message) /\ Alike(wire[t], wire'[t])
  <2>1. PICK a \in Tab : a = tab[t]  OBVIOUS
  <2>2. PICK q \in Seq(Message) : q = wire[t]  OBVIOUS
  <2>3. tab'[t] = Outdated(a)  BY <1>2, <2>1
  <2>4. wire'[t] = Unheard(q)  BY <1>3, <2>2
  <2>5. Outdated(a) \in Tab /\ Holding(a, Outdated(a))  BY OutdatedFacts
  <2>6. Unheard(q) \in Seq(Message) /\ Alike(q, Unheard(q))  BY UnheardFacts
  <2> QED  BY <2>1, <2>2, <2>3, <2>4, <2>5, <2>6
<1>10. tab' \in [Tabs -> Tab] /\ wire' \in [Tabs -> Seq(Message)]  BY <1>2, <1>3, <1>9
<1>11. Types'  BY <1>1, <1>8, <1>10 DEF Types
<1>12. Work'  BY <1>1, <1>8 DEF IInv, Work, Live
<1>13. ASSUME NEW t \in Tabs PROVE Due(tab[t], wire[t], gate.sessions[t])'
  BY <1>8 DEF Due
<1>14. ASSUME NEW t \in Tabs PROVE Views(tab[t])' /\ Times(tab[t])'
  <2> PICK a \in Tab : a = tab[t]  OBVIOUS
  <2> PICK b : b = Outdated(a)  OBVIOUS
  <2>1. tab'[t] = b  BY <1>2
  <2>2. Views(a)  BY SoundTabs
  <2>3. /\ b \in Tab /\ Holding(a, b) /\ b.seen = [a.seen EXCEPT !.current = FALSE]
        /\ b.asked = [a.asked EXCEPT !.current = FALSE]
        /\ ~a.asked.current => b.asked = a.asked
        /\ ~a.seen.current /\ ~a.asked.current => b = a
    BY OutdatedFacts
  <2>4. a.seen \in Status /\ a.asked \in Status /\ b.asked \in Status /\ b.age \in 0 .. Fresh + 1
    BY <2>3 DEF Tab
  <2>5. ~b.seen.current /\ ~b.asked.current /\ b.seen.phase = a.seen.phase /\ b.asked.phase = a.asked.phase
    BY <2>3, <2>4 DEF Status
  <2>6. b.asked # NoStatus => b.asked.phase # "none"
    <3>1. CASE a.asked = NoStatus
      <4>1. ~a.asked.current  BY <3>1 DEF NoStatus
      <4> QED  BY <2>3, <3>1, <4>1
    <3>2. CASE a.asked # NoStatus  BY <2>2, <2>5, <3>2 DEF Views
    <3> QED  BY <3>1, <3>2
  <2>7. b.life = "gone" => b = Gone
    <3>1. SUFFICES ASSUME b.life = "gone" PROVE b = Gone  OBVIOUS
    <3>2. a = Gone  BY <2>2, <2>3, <3>1 DEF Views, Holding
    <3>3. ~a.seen.current /\ ~a.asked.current  BY <3>2 DEF Gone, NewTab, NoStatus
    <3> QED  BY <2>3, <3>2, <3>3
  <2>8. b.connected \/ b.registered => b.seen.phase # "none"
    BY <2>2, <2>3, <2>5 DEF Views, Holding
  <2>9. Views(b)  BY <2>5, <2>6, <2>7, <2>8 DEF Views
  <2>10. Views(tab[t])'  BY <2>1, <2>9 DEF Views
  <2>11. Times(tab[t])'  BY <1>8, <2>1, <2>4 DEF Times
  <2> QED  BY <2>10, <2>11
<1>15. \A t \in Tabs : gate'.sessions[t].dirty = gate.sessions[t].dirty  BY <1>6, <1>8
<1>16. \A t \in Tabs : Holding(tab[t], tab'[t]) /\ Alike(wire[t], wire'[t])  BY <1>9
<1> QED  BY <1>11, <1>12, <1>13, <1>14, <1>15, <1>16, EveryTab

LEMMA TickKeeps == ASSUME IInv, Tick PROVE IInv'
<1> USE Shaped, MaintenanceAssumption
<1>1. /\ \A t \in Tabs : tab[t].asked = NoStatus /\ tab[t].sending = "no" /\ ~tab[t].desired
      /\ tab' = [t \in Tabs |-> [tab[t] EXCEPT !.age = IF tab[t].connected THEN Later(@, Fresh + 1) ELSE @]]
      /\ UNCHANGED <<wire, jobs, crashed>>
  BY DEF Tick
<1>2. PICK rows : rows = [t \in Tabs |-> Silent(gate.sessions[t])]
  OBVIOUS
<1>3. PICK n : n = IF gate.phase = "announcing" THEN Later(gate.waited, Delay) ELSE gate.waited  OBVIOUS
<1>4. gate' = [gate EXCEPT !.waited = n, !.sessions = rows]
  <2>1. gate' = [gate EXCEPT !.waited = IF gate.phase = "announcing" THEN Later(@, Delay) ELSE @,
                             !.sessions = [t \in Tabs |-> Silent(gate.sessions[t])]]
    BY DEF Tick
  <2>2. gate' = [gate EXCEPT !.waited = IF gate.phase = "announcing" THEN Later(@, Delay) ELSE @,
                             !.sessions = rows]
    BY <1>2, <2>1
  <2> QED  BY <1>3, <2>2
<1>5. n \in 0 .. Delay /\ n <= gate.waited + 1  BY <1>3 DEF Later, Gates
<1>6. ASSUME NEW t \in Tabs
      PROVE  rows[t] \in Row /\ rows[t].dirty = gate.sessions[t].dirty
  <2>1. PICK x \in Row : x = gate.sessions[t]  OBVIOUS
  <2>2. PICK m : m = IF Expires(x) THEN Later(x.age, SessionAge + 1) ELSE x.age  OBVIOUS
  <2>3. x.age \in 0 .. SessionAge + 1  BY DEF Row
  <2>4. m \in 0 .. SessionAge + 1  BY <2>2, <2>3 DEF Later
  <2>5. rows[t] = [x EXCEPT !.age = m]  BY <1>2, <2>1, <2>2 DEF Silent
  <2> QED  BY <2>1, <2>4, <2>5 DEF Row
<1>7. rows \in [Tabs -> Row]  BY <1>2, <1>6
<1>8. gate' \in Gates  BY <1>4, <1>5, <1>7 DEF Gates
<1>9. /\ gate'.phase = gate.phase /\ gate'.waited = n
      /\ gate'.operations = gate.operations /\ gate'.sessions = rows
  BY <1>4 DEF Gates
<1>10. ASSUME NEW t \in Tabs
       PROVE  /\ tab'[t] \in Tab /\ Holding(tab[t], tab'[t])
              /\ tab'[t].seen = tab[t].seen /\ tab'[t].asked = tab[t].asked
              /\ tab[t].connected => tab'[t].age = IF tab[t].age = Fresh + 1 THEN Fresh + 1 ELSE tab[t].age + 1
              /\ ~tab[t].connected => tab'[t] = tab[t]
  <2>1. PICK a \in Tab : a = tab[t]  OBVIOUS
  <2>2. PICK m : m = IF a.connected THEN Later(a.age, Fresh + 1) ELSE a.age  OBVIOUS
  <2>3. a.age \in 0 .. Fresh + 1  BY DEF Tab
  <2>4. m \in 0 .. Fresh + 1  BY <2>2, <2>3 DEF Later
  <2>5. PICK b : b = [a EXCEPT !.age = m]  OBVIOUS
  <2>6. tab'[t] = b  BY <1>1, <2>1, <2>2, <2>5
  <2>7. b \in Tab  BY <2>4, <2>5 DEF Tab
  <2>8. Holding(a, b) /\ b.seen = a.seen /\ b.asked = a.asked /\ b.age = m  BY <2>5 DEF Tab, Holding
  <2>9. a.connected => m = IF a.age = Fresh + 1 THEN Fresh + 1 ELSE a.age + 1  BY <2>2 DEF Later
  <2>10. ~a.connected => b = a
    <3>1. ~a.connected => m = a.age  BY <2>2
    <3> QED  BY <2>5, <3>1 DEF Tab
  <2> QED  BY <2>1, <2>6, <2>7, <2>8, <2>9, <2>10
<1>11. tab' \in [Tabs -> Tab]  BY <1>1, <1>10
<1>12. Types'  BY <1>1, <1>8, <1>9, <1>11 DEF Types
<1>13. Work'  BY <1>1, <1>9 DEF IInv, Work, Live
<1>14. ASSUME NEW t \in Tabs PROVE Due(tab[t], wire[t], gate.sessions[t])'
  <2>1. Drafts(tab[t], wire[t], gate.sessions[t])  BY SoundTabs
  <2>2. ~(tab[t].registered /\ tab[t].dirty /\ ~Declared(wire[t], gate.sessions[t]))
    BY <1>1, <2>1 DEF Drafts
  <2>3. tab'[t].registered = tab[t].registered /\ tab'[t].dirty = tab[t].dirty
    BY <1>10 DEF Holding
  <2>4. Declared(wire'[t], gate'.sessions[t]) <=> Declared(wire[t], gate.sessions[t])
    <3>1. Alike(wire[t], wire'[t])  BY <1>1, SameAlike
    <3>2. gate'.sessions[t].dirty = gate.sessions[t].dirty  BY <1>6, <1>9
    <3> QED  BY <3>1, <3>2, AlikeDeclared
  <2>5. ~(tab'[t].registered /\ tab'[t].dirty /\ ~Declared(wire'[t], gate'.sessions[t]))
    BY <2>2, <2>3, <2>4
  <2> QED  BY <2>5 DEF Due
<1>15. ASSUME NEW t \in Tabs PROVE Views(tab[t])' /\ Times(tab[t])'
  <2>1. PICK a \in Tab : a = tab[t]  OBVIOUS
  <2>2. PICK b : b = tab'[t]  OBVIOUS
  <2>3. Views(a) /\ Times(a)  BY <2>1, SoundTabs
  <2>4. /\ Holding(a, b) /\ b.seen = a.seen /\ b.asked = a.asked
        /\ a.connected => b.age = IF a.age = Fresh + 1 THEN Fresh + 1 ELSE a.age + 1
        /\ ~a.connected => b = a
    BY <1>10, <2>1, <2>2
  <2>5. a.age \in 0 .. Fresh + 1 /\ gate.waited \in 0 .. Delay  BY <2>1 DEF Tab, Gates
  <2>6. b.life = "gone" => b = Gone
    <3>1. SUFFICES ASSUME b.life = "gone" PROVE b = Gone  OBVIOUS
    <3>2. a = Gone  BY <2>3, <2>4, <3>1 DEF Views, Holding
    <3>3. ~a.connected  BY <3>2 DEF Gone, NewTab
    <3> QED  BY <2>4, <3>2, <3>3
  <2>7. Views(b)  BY <2>3, <2>4, <2>6 DEF Views, Holding
  <2>8. Views(tab[t])'  BY <2>2, <2>7 DEF Views
  <2>9. b.asked = NoStatus  BY <1>1, <2>1, <2>4
  <2>10. b.connected => a.connected  BY <2>4 DEF Holding
  <2>11. gate.phase = "announcing" /\ b.connected /\ ~b.seen.current => b.age > Fresh \/ b.age >= n
    BY <1>5, <2>3, <2>4, <2>5, <2>10 DEF Times
  <2>12. gate.phase = "quiesced" /\ b.connected /\ b.seen.phase = "open" => b.age > Fresh
    BY <2>3, <2>4, <2>5, <2>10 DEF Times
  <2>13. Times(tab[t])'  BY <1>9, <2>2, <2>9, <2>11, <2>12 DEF Times
  <2> QED  BY <2>8, <2>13
<1>16. \A t \in Tabs : gate'.sessions[t].dirty = gate.sessions[t].dirty  BY <1>6, <1>9
<1>17. \A t \in Tabs : Holding(tab[t], tab'[t]) /\ Alike(wire[t], wire'[t])  BY <1>1, <1>10, SameAlike
<1> QED  BY <1>12, <1>13, <1>14, <1>15, <1>16, <1>17, EveryTab

--------------------------------------------------------------------------------
(* THE INVARIANT.                                                              *)

LEMMA InitHolds == ASSUME Init PROVE IInv
<1> USE MaintenanceAssumption
<1>1. /\ gate = [phase |-> "open", waited |-> 0, operations |-> {},
                 sessions |-> [t \in Tabs |-> NoRow]]
      /\ tab = [t \in Tabs |-> NewTab] /\ wire = [t \in Tabs |-> <<>>] /\ jobs = {} /\ crashed = {}
  BY DEF Init
<1>2. NoRow \in Row
  <2>1. 0 \in 0 .. SessionAge + 1  OBVIOUS
  <2> QED  BY <2>1 DEF NoRow, Row
<1>3. gate \in Gates
  <2>1. 0 \in 0 .. Delay  OBVIOUS
  <2>2. [t \in Tabs |-> NoRow] \in [Tabs -> Row]  BY <1>2
  <2> QED  BY <1>1, <2>1, <2>2 DEF Gates, Phases
<1>4. Gone \in Tab /\ Views(NewTab) /\ Times(NewTab)
  <2>1. Gone \in Tab  BY EmptySeq, GoneIsSound, LenProperties
  <2>2. Views(NewTab)  BY DEF Views, NewTab, NoStatus
  <2>3. Times(NewTab)  BY DEF Times, NewTab, NoStatus
  <2> QED  BY <2>1, <2>2, <2>3
<1>5. NewTab \in Tab
  <2>1. PICK n \in Status : n = NoStatus  BY DEF Status, NoStatus, Phases
  <2>2. 0 \in 0 .. Fresh + 1  OBVIOUS
  <2>3. NewTab = [life |-> "new", page |-> "current", seen |-> n, age |-> 0, asked |-> n,
                  connected |-> FALSE, registered |-> FALSE, dirty |-> FALSE, request |-> "none",
                  desired |-> FALSE, sending |-> "no", changed |-> FALSE, superseded |-> FALSE,
                  known |-> FALSE]
    BY <2>1 DEF NewTab
  <2> QED  BY <2>2, <2>3 DEF Tab
<1>6. Types  BY <1>1, <1>3, <1>5, EmptySeq DEF Types
<1>7. Work  BY <1>1 DEF Work, Live
<1>8. ASSUME NEW t \in Tabs PROVE Sound(tab[t], wire[t], gate.sessions[t])
  <2>1. tab[t] = NewTab /\ wire[t] = <<>>  BY <1>1
  <2>2. Reports(NewTab, <<>>, gate.sessions[t])  BY DEF Reports, Waiting, NewTab
  <2>3. Drafts(NewTab, <<>>, gate.sessions[t])  BY DEF Drafts, NewTab
  <2> QED  BY <1>4, <2>1, <2>2, <2>3 DEF Sound
<1> QED  BY <1>6, <1>7, <1>8 DEF IInv

LEMMA StepKeeps == ASSUME IInv, [Next]_vars PROVE IInv'
<1>1. CASE Gating
  <2>1. CASE Announce  BY <2>1, AnnounceKeeps
  <2>2. CASE TryQuiesce  BY <2>2, TryQuiesceKeeps
  <2>3. CASE Reopen  BY <2>3, OpensKeeps DEF Reopen
  <2>4. CASE Defer  BY <2>4, OpensKeeps DEF Defer
  <2>5. CASE RequestStop  BY <2>5, RequestStopKeeps
  <2>6. CASE WorkerDies  BY <2>6, WorkerDiesKeeps
  <2> QED  BY <1>1, <2>1, <2>2, <2>3, <2>4, <2>5, <2>6 DEF Gating
<1>2. CASE Tick  BY <1>2, TickKeeps
<1>3. ASSUME NEW t \in Tabs, Viewing(t) PROVE IInv'
  <2>1. CASE Open(t) \/ Refresh(t) \/ Refreshed(t) \/ RefreshFails(t)
    BY <2>1, OpenKeeps, RefreshKeeps, RefreshedKeeps, RefreshFailsKeeps
  <2>2. CASE Report(t) \/ Reported(t) \/ ReportFails(t)
    BY <2>2, ReportKeeps, ReportedKeeps, ReportFailsKeeps
  <2>3. ASSUME NEW i \in DOMAIN wire[t], Serve(t, i) \/ Lose(t, i) PROVE IInv'
    BY <2>3, ServeKeeps, LoseKeeps
  <2>4. CASE Close(t)  BY <2>4, LeavesKeeps DEF Close
  <2>5. CASE ReloadIfSafe(t)  BY <2>5, LeavesKeeps DEF ReloadIfSafe
  <2>6. CASE TabCrashes(t) \/ ClearSession(t)  BY <2>6, TabCrashesKeeps, ClearSessionKeeps
  <2> QED  BY <1>3, <2>1, <2>2, <2>3, <2>4, <2>5, <2>6 DEF Viewing
<1>4. ASSUME NEW t \in Tabs, Working(t) PROVE IInv'
  <2>1. CASE Edit(t) \/ Discard(t) \/ Submit(t)  BY <2>1, EditKeeps, DiscardKeeps, SubmitKeeps
  <2>2. CASE Admit(t) \/ Refuse(t)  BY <2>2, AdmitKeeps, RefuseKeeps
  <2>3. CASE RequestFails(t) \/ RequestEnds(t)  BY <2>3, RequestFailsKeeps, RequestEndsKeeps
  <2>4. ASSUME NEW j \in Jobs, Queue(t, j) PROVE IInv'  BY <2>4, QueueKeeps
  <2> QED  BY <1>4, <2>1, <2>2, <2>3, <2>4 DEF Working
<1>5. ASSUME NEW j \in Jobs, JobEnds(j) PROVE IInv'  BY <1>5, JobEndsKeeps
<1>6. CASE UNCHANGED vars
  <2>1. UNCHANGED <<gate, tab, wire, jobs, crashed>>  BY <1>6 DEF vars
  <2>2. Types' /\ Work'  BY <2>1 DEF IInv, Types, Work, Live
  <2>3. gate' \in Gates /\ jobs' \subseteq Jobs /\ crashed' \subseteq gate'.operations  BY <2>1, Shaped
  <2> QED  BY <2>1, <2>2, <2>3, GateStep
<1> QED  BY <1>1, <1>2, <1>3, <1>4, <1>5, <1>6 DEF Next

(* Whatever was reported, lost, delayed or overtaken, a draft that the server  *)
(* does not know is being reported while there is still time, and no tab       *)
(* trusts a status from before an announcement longer than the gate waits      *)
(* (maintenance.py request, deployment-store.ts).                              *)
THEOREM Invariance == Spec => []IInv
BY InitHolds, StepKeeps, PTL DEF Spec
--------------------------------------------------------------------------------
(* WHAT IT MEANS.                                                              *)

LEMMA StillWhenQuiesced == ASSUME IInv PROVE QuiescedMeansStill
<1> USE Shaped
<1>1. SUFFICES ASSUME gate.phase = "quiesced"
               PROVE  /\ gate.operations = {} /\ jobs = {}
                      /\ \A t \in Tabs :
                            tab[t].life = "open" => InteractionsBlocked(tab[t]) \/ gate.sessions[t].dirty
  BY DEF QuiescedMeansStill
<1>2. gate.operations = {} /\ jobs = {}  BY <1>1 DEF IInv, Work, Live
<1>3. ASSUME NEW t \in Tabs, ~InteractionsBlocked(tab[t]) PROVE gate.sessions[t].dirty
  <2> PICK a \in Tab : a = tab[t]  OBVIOUS
  <2> PICK q : q = wire[t]  OBVIOUS
  <2> PICK row : row = gate.sessions[t]  OBVIOUS
  <2>1. Drafts(a, q, row) /\ Views(a) /\ Times(a)  BY SoundTabs
  <2>2. a.connected /\ a.registered /\ a.seen.phase # "quiesced" /\ ~(a.age > Fresh)
    BY <1>3 DEF InteractionsBlocked, Frozen
  <2>3. a.seen.phase = "announcing" => a.dirty  BY <1>3 DEF InteractionsBlocked, Frozen
  <2>4. a.seen.phase # "open" /\ a.seen.phase # "none"  BY <1>1, <2>1, <2>2 DEF Views, Times
  <2>5. a.seen.phase = "announcing"  BY <2>2, <2>4 DEF Tab, Status, Phases
  <2>6. Declared(q, row)  BY <1>1, <2>1, <2>2, <2>3, <2>5 DEF Drafts
  <2> QED  BY <2>6 DEF Declared
<1> QED  BY <1>2, <1>3

(* While the instance is quiesced nothing runs and no tab takes input, save    *)
(* one whose draft the gate has on record (maintenance.py request, worker      *)
(* stops of the controller rest on it).                                        *)
THEOREM Still == Spec => []QuiescedMeansStill
BY Invariance, StillWhenQuiesced, PTL

(* The gate neither quiesces nor stops workers over a draft it was told of,    *)
(* whatever older report arrives after it (Gate.session, Gate.status).         *)
THEOREM DraftsAreSeen == Spec => NoDraftOverlooked
<1>1. ASSUME IInv, TryQuiesce \/ RequestStop, NEW t \in Tabs PROVE ~(tab[t].dirty /\ tab[t].known)
  <2>1. Blockers = {}  BY <1>1 DEF TryQuiesce, RequestStop
  <2>2. ~gate.sessions[t].dirty  BY <2>1 DEF Blockers, BlockedBy
  <2>3. Drafts(tab[t], wire[t], gate.sessions[t])  BY <1>1, SoundTabs
  <2> QED  BY <2>2, <2>3 DEF Drafts, Declared
<1>2. IInv => [(TryQuiesce \/ RequestStop) => \A t \in Tabs : ~(tab[t].dirty /\ tab[t].known)]_vars
  BY <1>1
<1> QED  BY <1>2, Invariance, PTL DEF NoDraftOverlooked

\* The model's bound on the reports under way is kept: nothing is dropped for it.
Bounded == \A t \in Tabs : Len(wire[t]) <= MaxWire

LEMMA OneWire ==
    ASSUME IInv, Bounded, NEW t \in Tabs, NEW q, wire' = [wire EXCEPT ![t] = q], Len(q) <= MaxWire
    PROVE  Bounded'
<1> USE Shaped
<1>1. ASSUME NEW u \in Tabs PROVE Len(wire'[u]) <= MaxWire
  <2>1. CASE u = t
    <3>1. wire'[u] = q  BY <2>1
    <3> QED  BY <3>1
  <2>2. CASE u # t
    <3>1. wire'[u] = wire[u]  BY <2>2
    <3> QED  BY <3>1 DEF Bounded
  <2> QED  BY <2>1, <2>2
<1> QED  BY <1>1 DEF Bounded

LEMMA Lengths ==
    ASSUME NEW q \in Seq(Message), Len(q) <= MaxWire
    PROVE  /\ Len(Unheard(q)) <= MaxWire /\ Len(Unawaited(q)) <= MaxWire /\ Len(Remembered(q)) <= MaxWire
           /\ \A i \in DOMAIN q : Len(Dropped(q, i)) <= MaxWire /\ Len(Dropped(Overtaken(q, i), i)) <= MaxWire
           /\ Len(q) < MaxWire =>
                 \A b \in Tab, closing \in BOOLEAN :
                    /\ Len(Append(q, Snapshot(b, closing))) <= MaxWire
                    /\ Len(Append(Unawaited(q), Snapshot(b, closing))) <= MaxWire
<1>1. DOMAIN q = 1 .. Len(q) /\ Len(q) \in Nat /\ MaxWire \in Nat
      /\ \A i \in 1 .. Len(q) : q[i] \in Message
  BY LenProperties, ElementOfSeq, MaintenanceAssumption
<1>2. Len(Unheard(q)) = Len(q)  BY UnheardFacts DEF Alike
<1>3. Unawaited(q) \in Seq(Message) /\ Len(Unawaited(q)) = Len(q)  BY UnawaitedFacts
<1>4. Len(Remembered(q)) = Len(q)
  <2>1. PICK r : r = Remembered(q)  OBVIOUS
  <2>2. DOMAIN r = DOMAIN q /\ r = [i \in DOMAIN r |-> r[i]]  BY <2>1 DEF Remembered
  <2>3. ASSUME NEW i \in 1 .. Len(q) PROVE r[i] \in Message
    <3>1. q[i] \in Message /\ r[i] = [q[i] EXCEPT !.late = FALSE]  BY <1>1, <2>1 DEF Remembered
    <3> QED  BY <3>1 DEF Message
  <2> QED  BY <2>1, <2>2, <2>3, Mapped
<1>5. ASSUME NEW i \in DOMAIN q
      PROVE  Len(Dropped(q, i)) <= MaxWire /\ Len(Dropped(Overtaken(q, i), i)) <= MaxWire
  <2>1. i \in 1 .. Len(q)  BY <1>1
  <2>2. Overtaken(q, i) \in Seq(Message) /\ Len(Overtaken(q, i)) = Len(q)  BY <2>1, OvertakenFacts
  <2>3. Len(Dropped(q, i)) = Len(q) - 1  BY <2>1, DroppedFacts
  <2>4. Len(Dropped(Overtaken(q, i), i)) = Len(q) - 1  BY <2>1, <2>2, DroppedFacts
  <2> QED  BY <1>1, <2>3, <2>4
<1>6. ASSUME Len(q) < MaxWire, NEW b \in Tab, NEW closing \in BOOLEAN
      PROVE  /\ Len(Append(q, Snapshot(b, closing))) <= MaxWire
             /\ Len(Append(Unawaited(q), Snapshot(b, closing))) <= MaxWire
  <2>1. Snapshot(b, closing) \in Message  BY SnapshotFacts
  <2>2. Len(Append(q, Snapshot(b, closing))) = Len(q) + 1  BY <2>1, AppendProperties
  <2>3. Len(Append(Unawaited(q), Snapshot(b, closing))) = Len(q) + 1  BY <1>3, <2>1, AppendProperties
  <2> QED  BY <1>1, <1>6, <2>2, <2>3
<1> QED  BY <1>2, <1>3, <1>4, <1>5, <1>6

LEMMA BoundedKeeps == ASSUME IInv, Bounded, [Next]_vars PROVE Bounded'
<1> USE Shaped
<1>1. CASE UNCHANGED wire  BY <1>1 DEF Bounded
<1>2. CASE Announce
  <2>1. wire' = [t \in Tabs |-> Unheard(wire[t])]  BY <1>2 DEF Announce, Unheard
  <2>2. ASSUME NEW t \in Tabs PROVE Len(wire'[t]) <= MaxWire
    <3>1. wire[t] \in Seq(Message) /\ Len(wire[t]) <= MaxWire  BY DEF Bounded
    <3>2. Len(Unheard(wire[t])) <= MaxWire  BY <3>1, Lengths
    <3> QED  BY <2>1, <3>2
  <2> QED  BY <2>2 DEF Bounded
<1>3. ASSUME NEW t \in Tabs, Viewing(t), ~UNCHANGED wire PROVE Bounded'
  <2>1. PICK q \in Seq(Message) : q = wire[t]  OBVIOUS
  <2>2. Len(q) <= MaxWire  BY <2>1 DEF Bounded
  <2>3. CASE Report(t)
    <3>1. wire' = [wire EXCEPT ![t] = Append(q, Snapshot(tab[t], FALSE))] /\ Len(q) < MaxWire
      BY <2>1, <2>3 DEF Report
    <3>2. Len(Append(q, Snapshot(tab[t], FALSE))) <= MaxWire  BY <2>2, <3>1, Lengths
    <3> QED  BY <3>1, <3>2, OneWire
  <2>4. CASE ReportFails(t) \/ TabCrashes(t)
    <3>1. wire' = [wire EXCEPT ![t] = Unawaited(q)]  BY <2>1, <2>4 DEF ReportFails, TabCrashes, Unawaited
    <3>2. Len(Unawaited(q)) <= MaxWire  BY <2>2, Lengths
    <3> QED  BY <3>1, <3>2, OneWire
  <2>5. CASE ClearSession(t)
    <3>1. wire' = [wire EXCEPT ![t] = Remembered(q)]  BY <2>1, <2>5 DEF ClearSession, Remembered
    <3>2. Len(Remembered(q)) <= MaxWire  BY <2>2, Lengths
    <3> QED  BY <3>1, <3>2, OneWire
  <2>6. CASE Close(t) \/ ReloadIfSafe(t)
    <3>1. Leaves(t)  BY <2>6 DEF Close, ReloadIfSafe
    <3>2. wire' = [wire EXCEPT ![t] = Append(Unawaited(q), Snapshot(tab[t], TRUE))] /\ Len(q) < MaxWire
      BY <2>1, <3>1 DEF Leaves, Unawaited
    <3>3. Len(Append(Unawaited(q), Snapshot(tab[t], TRUE))) <= MaxWire  BY <2>2, <3>2, Lengths
    <3> QED  BY <3>2, <3>3, OneWire
  <2>7. ASSUME NEW i \in DOMAIN wire[t], Serve(t, i) \/ Lose(t, i) PROVE Bounded'
    <3>1. Len(Dropped(q, i)) <= MaxWire /\ Len(Dropped(Overtaken(q, i), i)) <= MaxWire
      BY <2>1, <2>2, Lengths
    <3>2. CASE Serve(t, i)
      <4>1. wire' = [wire EXCEPT ![t] = Dropped(Overtaken(q, i), i)]  BY <2>1, <3>2 DEF Serve
      <4> QED  BY <3>1, <4>1, OneWire
    <3>3. CASE Lose(t, i)
      <4>1. wire' = [wire EXCEPT ![t] = Dropped(q, i)]  BY <2>1, <3>3 DEF Lose
      <4> QED  BY <3>1, <4>1, OneWire
    <3> QED  BY <2>7, <3>2, <3>3
  <2> QED  BY <1>3, <2>3, <2>4, <2>5, <2>6, <2>7
           DEF Viewing, Open, Refresh, Refreshed, RefreshFails, Reported
<1>4. ASSUME NEW t \in Tabs, Working(t) PROVE UNCHANGED wire
  BY <1>4 DEF Working, Edit, Discard, Submit, Admit, Refuse, RequestFails, RequestEnds, Queue
<1>5. ASSUME NEW j \in Jobs, JobEnds(j) PROVE UNCHANGED wire  BY <1>5 DEF JobEnds
<1>6. Gating => Announce \/ UNCHANGED wire
  BY DEF Gating, TryQuiesce, Reopen, Defer, RequestStop, WorkerDies
<1>7. Tick => UNCHANGED wire  BY DEF Tick
<1>8. UNCHANGED vars => UNCHANGED wire  BY DEF vars
<1> QED  BY <1>1, <1>2, <1>3, <1>4, <1>5, <1>6, <1>7, <1>8 DEF Next

LEMMA KnownOrReported == ASSUME IInv, Bounded PROVE NothingUnregistered
<1> USE Shaped
<1>1. TypeOK  BY DEF TypeOK, Bounded, Gates
<1>2. AcceptedIsRegistered  BY DEF AcceptedIsRegistered, IInv, Work
<1>3. ASSUME NEW t \in Tabs, tab[t].dirty, ~Frozen(tab[t])
      PROVE  gate.sessions[t].dirty \/ tab[t].desired \/ tab[t].sending # "no"
  <2>1. tab[t].registered  BY <1>3 DEF Frozen
  <2>2. Drafts(tab[t], wire[t], gate.sessions[t])  BY SoundTabs
  <2> QED  BY <1>3, <2>1, <2>2 DEF Drafts, Declared
<1> QED  BY <1>1, <1>2, <1>3 DEF NothingUnregistered, EditingIsReported

(* Accepted work is registered until it ends, and what a tab that believes     *)
(* itself in order holds is known to the server or being told to it            *)
(* (Gate.request, Gate.reserve, deployment-store.ts beginRequest).             *)
THEOREM KnownToTheGate == Spec => []NothingUnregistered
<1>1. Init => Bounded
  <2>1. SUFFICES ASSUME Init, NEW t \in Tabs PROVE Len(wire[t]) <= MaxWire  BY DEF Bounded
  <2>2. wire[t] = <<>> /\ MaxWire \in Nat  BY <2>1, MaintenanceAssumption DEF Init
  <2> QED  BY <2>2, EmptySeq
<1>2. IInv /\ Bounded /\ [Next]_vars => Bounded'  BY BoundedKeeps
<1>3. IInv /\ Bounded => NothingUnregistered  BY KnownOrReported
<1> QED  BY <1>1, <1>2, <1>3, Invariance, PTL DEF Spec

--------------------------------------------------------------------------------
(******************************************************************************)
(* The versions of a localised picture, for any number of outputs, uploads,   *)
(* changes of the source and crashes: no bytes of a person and no paid        *)
(* picture are lost, and a generation that fails shows what was shown.        *)
(*                                                                            *)
(* Why: bytes that the program made go by a number of their own (Filed,       *)
(* Counted), so that what replaces a file either is known to be the program's *)
(* own, still in the ledger, or has been copied first (BackedUp); and the     *)
(* record a generation is about to leave is that of the bytes it made and of  *)
(* the file it writes (Aimed).                                                *)
(******************************************************************************)

\* What there is of bytes: a person's, and those the program has made.
Bytes == [by : {"person"}, n : 1 .. hands] \cup [by : {"program"}, n : V!Outputs]
Generation == [step : {"planned", "paid", "recorded"}, refine : BOOLEAN, source : 0 .. MaxChanges,
               previous : {None} \cup Records, text : 1 .. 2, out : 0 .. MaxOutputs,
               bytes : [by : {"program"}, n : 1 .. MaxOutputs]]
Uploading == {"upload", "kept", "removed", "logged"}

\* The types, as far as they matter.
PicType ==
    /\ ledger \in Seq(Records) /\ source \in 0 .. MaxChanges /\ hands \in Nat
    /\ texts \in Seq({1, 2}) /\ Len(texts) <= 2 /\ \A i \in 1 .. Len(texts) : texts[i] = i
    /\ given \subseteq [by : {"person"}, n : 1 .. hands]
    /\ job = V!Idle \/ job \in Generation \/ job.step \in Uploading
    /\ job.step \in Uploading =>
          /\ job = [step |-> job.step, out |-> job.out, bytes |-> job.bytes, moved |-> job.moved]
          /\ job.out \in V!Plain /\ job.bytes \in Bytes
          /\ \A x \in DOMAIN job.moved : x \in V!Plain /\ job.moved[x] \in Bytes

\* A file has bytes that there are; under the number of a version it is the program's.
Filed == \A x \in DOMAIN files :
    files[x] \in Bytes /\ (x \notin V!Plain => files[x].by = "program")

\* The outputs are counted; the next one has not been made yet.
Counted ==
    /\ \E m \in Nat : V!Outputs = 1 .. m
    /\ job.step \in {"planned", "paid"} => job.bytes = V!Program(V!NewOutput)
    /\ job.step = "recorded" => \A x \in DOMAIN files : files[x] # job.bytes

\* Where a picture goes, and what its record says.
Aimed ==
    /\ job \in Generation => job.out = (IF job.refine THEN job.bytes.n ELSE V!Target)
    /\ job.step = "recorded" => job.bytes \in V!Owned(job.out)

\* The program knows its own bytes under a name.
Ours(x, b) == b.by = "program" => b \in V!Owned(x) \/ \E u \in uploads : u[2] = b

\* An upload has backed up what it replaces and logged what it brings.
BackedUp ==
    /\ job.step \in Uploading \ {"upload"} =>
          \A x \in DOMAIN files \cap V!Plain : files[x] \in given => files[x] \in kept
    /\ job.step \in Uploading => \A x \in DOMAIN job.moved : Ours(x, job.moved[x])
    /\ job.step = "logged" => <<job.out, job.bytes>> \in uploads

VInv == PicType /\ Filed /\ Counted /\ Aimed /\ BackedUp /\ V!PicturesKept

--------------------------------------------------------------------------------
\* What the ledger says a name's bytes are, and which outputs there are.
LEMMA OwnedIs ==
    /\ \A x, b : b \in V!Owned(x) <=> \E i \in DOMAIN ledger : ledger[i].out = x /\ ledger[i].bytes = b
    /\ \A x, b : b \in V!Owned(x)' <=> \E i \in DOMAIN ledger' : ledger'[i].out = x /\ ledger'[i].bytes = b
BY DEF V!Owned

LEMMA OutputsAre ==
    /\ \A n : n \in V!Outputs <=> \E i \in DOMAIN ledger : ledger[i].bytes.n = n
    /\ \A n : n \in V!Outputs' <=> \E i \in DOMAIN ledger' : ledger'[i].bytes.n = n
BY DEF V!Outputs

\* A record more.
LEMMA Appended ==
    ASSUME ledger \in Seq(Records), NEW r \in Records, ledger' = Append(ledger, r)
    PROVE  /\ ledger' \in Seq(Records) /\ V!Outputs' = V!Outputs \cup {r.bytes.n}
           /\ \A x : V!Owned(x) \subseteq V!Owned(x)'
           /\ r.bytes \in V!Owned(r.out)'
           /\ V!Latest' = r
<1>1. /\ Len(ledger) \in Nat /\ Len(ledger') = Len(ledger) + 1 /\ DOMAIN ledger = 1 .. Len(ledger)
      /\ DOMAIN ledger' = 1 .. Len(ledger')
      /\ \A i \in DOMAIN ledger : i \in DOMAIN ledger' /\ ledger'[i] = ledger[i]
      /\ ledger'[Len(ledger')] = r /\ ledger' \in Seq(Records) /\ ledger' # <<>>
      OBVIOUS
<1>2. \A i \in DOMAIN ledger' : i \in DOMAIN ledger \/ i = Len(ledger')
      BY <1>1
<1>3. \A n : n \in V!Outputs' <=> n \in V!Outputs \cup {r.bytes.n}
      BY <1>1, <1>2, OutputsAre
<1>4. \A x : V!Owned(x) \subseteq V!Owned(x)'
      BY <1>1, OwnedIs
<1>5. r.bytes \in V!Owned(r.out)'
      BY <1>1, OwnedIs
<1>6. V!Latest' = r
      BY <1>1 DEF V!Latest, V!Last
<1> QED BY <1>1, <1>3, <1>4, <1>5, <1>6

\* The next output is one that has not been made.
LEMMA NextOutput ==
    ASSUME Counted
    PROVE  V!NewOutput \in Nat \ {0} /\ V!NewOutput \notin V!Outputs
           /\ V!Outputs \cup {V!NewOutput} = 1 .. V!NewOutput
<1>1. PICK m \in Nat : V!Outputs = 1 .. m
      BY DEF Counted
<1>2. Cardinality(1 .. m) = m
      BY <1>1, FS_Interval
<1>3. V!Cardinality(V!Outputs) = Cardinality(V!Outputs)
      BY DEF V!Cardinality, Cardinality, V!IsFiniteSet, IsFiniteSet
<1>4. V!NewOutput = m + 1
      BY <1>1, <1>2, <1>3 DEF V!NewOutput
<1> QED BY <1>1, <1>4

LEMMA PicturesStart == V!Init => VInv
<1> SUFFICES ASSUME V!Init PROVE VInv
      OBVIOUS
<1> USE PictureBounds DEF V!Init, V!Idle
<1>1. PicType
      BY DEF PicType, Uploading
<1>2. V!Outputs = 1 .. 0
  <2>1. \A n : n \notin V!Outputs
        BY OutputsAre
  <2> QED BY <2>1
<1>3. Filed /\ Counted /\ Aimed /\ BackedUp
      BY <1>2 DEF Filed, Counted, Aimed, BackedUp, Generation, Uploading
<1>4. V!PicturesKept
      BY DEF V!PicturesKept, V!GivenKept, V!OwnWorkRecognised
<1> QED BY <1>1, <1>3, <1>4 DEF VInv

\* A version that is taken up again is a record, of bytes that there are.
LEMMA TakenUp ==
    ASSUME NEW r \in Records
    PROVE  V!Selected(r) \in Records /\ V!Selected(r).bytes = r.bytes /\ V!Selected(r).out = r.out
           /\ V!Selected(r).source = r.source /\ V!Selected(r).text = r.text /\ V!Selected(r).selected
BY DEF V!Selected, Records

\* The ledger is left alone.
LEMMA LedgerAlone ==
    ASSUME ledger' = ledger
    PROVE  /\ V!Outputs' = V!Outputs /\ V!NewOutput' = V!NewOutput
           /\ \A x : V!Owned(x)' = V!Owned(x)
BY DEF V!Outputs, V!NewOutput, V!Owned

\* The ledger grows: all that was known of bytes is known still.
Grows ==
    /\ hands' \in Nat /\ hands <= hands' /\ V!Outputs \subseteq V!Outputs'
    /\ \A x : V!Owned(x) \subseteq V!Owned(x)'
    /\ uploads \subseteq uploads'

LEMMA KnownStill ==
    ASSUME VInv, Grows
    PROVE  Bytes \subseteq Bytes' /\ \A x, b : Ours(x, b) => Ours(x, b)'
<1>1. hands \in Nat /\ 1 .. hands \subseteq 1 .. hands'
      BY DEF VInv, PicType, Grows
<1>2. Bytes \subseteq Bytes'
      BY <1>1 DEF Bytes, Grows
<1>3. \A x, b : Ours(x, b) => Ours(x, b)'
      BY DEF Ours, Grows
<1> QED BY <1>2, <1>3

LEMMA FilesAlone ==
    ASSUME VInv, Grows, UNCHANGED <<files, kept, given>>
    PROVE  Filed' /\ V!PicturesKept'
<1>1. Filed'
      BY KnownStill DEF VInv, Filed
<1>2. \A x \in DOMAIN files : Ours(x, files[x])
      BY DEF VInv, V!PicturesKept, V!OwnWorkRecognised, Ours
<1>3. V!OwnWorkRecognised'
      BY <1>2, KnownStill DEF V!OwnWorkRecognised, Ours
<1> QED BY <1>1, <1>3 DEF VInv, V!PicturesKept, V!GivenKept

\* What the other steps than those of the ledger leave true of the job.
LEMMA Generations ==
    ASSUME VInv
    PROVE  /\ job.step \in {"planned", "paid", "recorded"} => job \in Generation
           /\ job \in Generation => job.step \in {"planned", "paid", "recorded"} /\ job # V!Idle
           /\ job # V!Idle => job.step # "idle"
BY DEF VInv, PicType, V!Idle, Generation, Uploading

\* The job comes to an end, and nothing else happens.
LEMMA PictureJobEnds ==
    ASSUME VInv, job' = V!Idle, UNCHANGED <<files, ledger, uploads, kept, given, hands>>,
           source' = source, texts' = texts
    PROVE  VInv'
<1>1. Grows
      BY LedgerAlone DEF Grows, VInv, PicType
<1>2. PicType'
      BY DEF VInv, PicType, V!Idle, Uploading
<1>3. Counted' /\ Aimed' /\ BackedUp'
      BY LedgerAlone DEF VInv, Counted, Aimed, BackedUp, V!Idle, Uploading, Generation
<1> QED BY <1>1, <1>2, <1>3, FilesAlone DEF VInv

LEMMA LatestIs == ASSUME VInv PROVE V!Latest \in {None} \cup Records
BY DEF VInv, PicType, V!Latest, V!Last

LEMMA Plans == ASSUME VInv, V!Plan PROVE VInv'
<1> USE PictureBounds
<1>1. PICK refine \in BOOLEAN, human \in BOOLEAN :
        job' = [step |-> "planned", refine |-> refine, source |-> source, previous |-> V!Latest,
                text |-> IF refine THEN V!Last(texts) ELSE V!TextBasis(V!Latest, human),
                out |-> IF refine THEN V!NewOutput ELSE V!Target, bytes |-> V!Program(V!NewOutput)]
      BY DEF V!Plan
<1>2. /\ UNCHANGED <<files, ledger, uploads, kept, source, texts, given, hands>>
      /\ texts # <<>> /\ V!NewOutput <= MaxOutputs
      BY DEF V!Plan, V!disk, V!post
<1>3. V!NewOutput \in 1 .. MaxOutputs
      BY <1>2, NextOutput DEF VInv
<1>4. V!Last(texts) \in 1 .. 2 /\ \A i \in DOMAIN texts : texts[i] \in 1 .. 2
      BY <1>2 DEF VInv, PicType, V!Last
<1>5. V!TextBasis(V!Latest, human) \in 1 .. 2
      BY <1>4 DEF V!TextBasis, V!ToSet
<1>6. job' \in Generation
  <2> DEFINE text == IF refine THEN V!Last(texts) ELSE V!TextBasis(V!Latest, human)
             out == IF refine THEN V!NewOutput ELSE V!Target
  <2>1. text \in 1 .. 2 /\ out \in 0 .. MaxOutputs /\ V!Program(V!NewOutput) \in [by : {"program"}, n : 1 .. MaxOutputs]
        BY <1>3, <1>4, <1>5 DEF V!Target, V!Program
  <2>2. source \in 0 .. MaxChanges /\ V!Latest \in {None} \cup Records
        BY LatestIs DEF VInv, PicType
  <2>3. job' = [step |-> "planned", refine |-> refine, source |-> source, previous |-> V!Latest,
                text |-> text, out |-> out, bytes |-> V!Program(V!NewOutput)]
        BY <1>1
  <2> HIDE DEF text, out
  <2> QED BY <2>1, <2>2, <2>3 DEF Generation
<1>7. Grows
      BY <1>2, LedgerAlone DEF Grows, VInv, PicType
<1>8. PicType'
      BY <1>2, <1>6 DEF VInv, PicType, Generation, Uploading
<1>9. Counted' /\ Aimed' /\ BackedUp'
  <2>1. Counted'
        BY <1>1, <1>2, LedgerAlone DEF VInv, Counted
  <2>2. Aimed'
        BY <1>1, <1>2 DEF Aimed, V!Program
  <2>3. BackedUp'
        BY <1>1 DEF BackedUp, Uploading
  <2> QED BY <2>1, <2>2, <2>3
<1> QED BY <1>2, <1>7, <1>8, <1>9, FilesAlone DEF VInv

LEMMA Requests == ASSUME VInv, V!Skipped \/ V!Request PROVE VInv'
<1>0. /\ UNCHANGED <<files, ledger, uploads, kept, source, texts, given, hands>>
      /\ job.step = "planned" /\ (job' = V!Idle \/ job' = [job EXCEPT !.step = "paid"])
      BY DEF V!Skipped, V!Request, V!disk, V!post
<1>1. CASE job' = V!Idle
      BY <1>0, <1>1, PictureJobEnds
<1>2. CASE job' = [job EXCEPT !.step = "paid"]
  <2>1. job \in Generation /\ job' \in Generation /\ job'.step = "paid" /\ job'.bytes = job.bytes
        /\ job'.out = job.out /\ job'.refine = job.refine
        BY <1>0, <1>2, Generations DEF Generation
  <2>2. Grows
        BY <1>0, LedgerAlone DEF Grows, VInv, PicType
  <2>3. PicType'
        BY <1>0, <2>1 DEF VInv, PicType, Uploading
  <2>4. Counted' /\ Aimed' /\ BackedUp'
        BY <1>0, <2>1, LedgerAlone DEF VInv, Counted, Aimed, BackedUp, Uploading
  <2> QED BY <1>0, <2>2, <2>3, <2>4, FilesAlone DEF VInv
<1> QED BY <1>0, <1>1, <1>2

LEMMA WritesRecord == ASSUME VInv, V!WriteRecord PROVE VInv'
<1>0. /\ UNCHANGED <<files, uploads, kept, source, texts, given, hands>> /\ job.step = "paid"
      /\ IF V!Blocked THEN job' = V!Idle /\ UNCHANGED ledger
         ELSE ledger' = Append(ledger, V!Record(job)) /\ job' = [job EXCEPT !.step = "recorded"]
      BY DEF V!WriteRecord, V!post
<1>1. CASE V!Blocked
      BY <1>0, <1>1, PictureJobEnds
<1>2. CASE ~V!Blocked
  <2>1. job \in Generation /\ job' \in Generation /\ job'.step = "recorded" /\ job'.bytes = job.bytes
        /\ job'.out = job.out /\ job'.refine = job.refine
        BY <1>0, <1>2, Generations DEF Generation
  <2>2. V!Record(job) \in Records /\ V!Record(job).bytes = job.bytes /\ V!Record(job).out = job.out
        BY <2>1 DEF V!Record, Records, Generation
  <2>3. /\ ledger' \in Seq(Records) /\ V!Outputs' = V!Outputs \cup {job.bytes.n}
        /\ \A x : V!Owned(x) \subseteq V!Owned(x)'
        /\ job.bytes \in V!Owned(job.out)'
    <3>1. ledger \in Seq(Records) /\ ledger' = Append(ledger, V!Record(job))
          BY <1>0, <1>2 DEF VInv, PicType
    <3>2. PICK r \in Records : r = V!Record(job)
          BY <2>2
    <3>3. /\ ledger' \in Seq(Records) /\ V!Outputs' = V!Outputs \cup {r.bytes.n}
          /\ \A x : V!Owned(x) \subseteq V!Owned(x)'
          /\ r.bytes \in V!Owned(r.out)'
          BY <3>1, <3>2, Appended
    <3>4. r.bytes = job'.bytes /\ r.out = job'.out
          BY <2>1, <2>2, <3>2
    <3>5. job'.bytes \in V!Owned(job.out)'
          BY <3>3, <3>4, OwnedIs
    <3> QED BY <2>1, <3>3, <3>4, <3>5
  <2>4. job.bytes = V!Program(V!NewOutput) /\ job.bytes.n = V!NewOutput
        BY <1>0 DEF VInv, Counted, V!Program
  <2>5. /\ V!NewOutput \in Nat \ {0} /\ V!NewOutput \notin V!Outputs
        /\ V!Outputs' = 1 .. V!NewOutput
        BY <2>3, <2>4, NextOutput DEF VInv
  <2>6. Grows
        BY <1>0, <2>3 DEF Grows, VInv, PicType
  <2>7. PicType'
        BY <1>0, <2>1, <2>3 DEF VInv, PicType, Uploading
  <2>8. Counted'
    <3>1. \A x \in DOMAIN files : files[x] # job.bytes
          BY <2>4, <2>5 DEF VInv, Filed, Bytes, V!Program
    <3> QED BY <1>0, <2>1, <2>5, <3>1 DEF Counted
  <2>9. Aimed' /\ BackedUp'
        BY <2>1, <2>3 DEF VInv, Aimed, BackedUp, Uploading
  <2> QED BY <1>0, <2>6, <2>7, <2>8, <2>9, FilesAlone DEF VInv
<1> QED BY <1>1, <1>2

LEMMA PlacesFile == ASSUME VInv, V!PlaceFile PROVE VInv'
<1>0. /\ UNCHANGED <<ledger, uploads, kept, source, texts, given, hands>> /\ job.step = "recorded"
      /\ ~V!Blocked /\ files' = V!Put(files, job.out, job.bytes) /\ job' = V!Idle
      BY DEF V!PlaceFile, V!post
<1>1. job \in Generation /\ job.bytes.by = "program" /\ job.bytes \in V!Owned(job.out)
      BY <1>0, Generations DEF Generation, VInv, Aimed
<1>2. /\ DOMAIN files' = DOMAIN files \cup {job.out} /\ files'[job.out] = job.bytes
      /\ \A x \in DOMAIN files' \ {job.out} : x \in DOMAIN files /\ files'[x] = files[x]
      BY <1>0 DEF V!Put
<1>3. Grows
      BY <1>0, LedgerAlone DEF Grows, VInv, PicType
<1>4. job.bytes.n \in V!Outputs /\ job.bytes \in Bytes
  <2>1. PICK i \in DOMAIN ledger : ledger[i].bytes = job.bytes
        BY <1>1, OwnedIs
  <2>2. job.bytes.n \in V!Outputs
        BY <2>1, OutputsAre
  <2> QED BY <1>1, <2>2 DEF Bytes, Generation
<1>5. PicType'
      BY <1>0 DEF VInv, PicType, V!Idle, Uploading
<1>6. Filed'
      BY <1>1, <1>2, <1>3, <1>4, KnownStill DEF VInv, Filed
<1>7. Counted' /\ Aimed' /\ BackedUp'
      BY <1>0, LedgerAlone DEF VInv, Counted, Aimed, BackedUp, V!Idle, Uploading, Generation
<1>8. V!GivenKept'
  <2>1. ASSUME NEW g \in given, job.out \in DOMAIN files, g = files[job.out] PROVE FALSE
    <3>1. g.by = "person" /\ g \notin V!Owned(job.out)
      <4>1. \A r \in Records : r.bytes.by = "program"
            BY DEF Records
      <4>2. \A i \in DOMAIN ledger : ledger[i] \in Records
            BY DEF VInv, PicType
      <4>3. g.by = "person"
            BY DEF VInv, PicType
      <4> QED BY <4>1, <4>2, <4>3, OwnedIs
    <3>2. job.out \in V!Plain
          BY <2>1, <3>1 DEF VInv, Filed
    <3>3. job.out \in V!Manual
          BY <2>1, <3>1, <3>2 DEF V!Manual, V!Has
    <3>4. job.refine
          BY <1>0, <3>3 DEF V!Blocked
    <3>5. job.out \in 1 .. MaxOutputs
          BY <1>1, <3>4 DEF VInv, Aimed, Generation
    <3> QED BY <3>2, <3>5, PictureBounds DEF V!Plain, V!Target, V!Other
  <2> QED BY <1>0, <1>2, <2>1 DEF VInv, V!PicturesKept, V!GivenKept
<1>9. V!OwnWorkRecognised'
  <2>1. \A x \in DOMAIN files' : Ours(x, files'[x])
        BY <1>1, <1>2 DEF VInv, V!PicturesKept, V!OwnWorkRecognised, Ours
  <2>2. \A x \in DOMAIN files' : \A b : b = files'[x] => Ours(x, b)'
        BY <1>3, <2>1, KnownStill
  <2> QED BY <2>2 DEF V!OwnWorkRecognised, Ours
<1> QED BY <1>5, <1>6, <1>7, <1>8, <1>9 DEF VInv, V!PicturesKept

\* A record is written for a version that exists already.
LEMMA WrittenAgain ==
    ASSUME VInv, NEW i \in DOMAIN ledger, ledger' = Append(ledger, V!Selected(ledger[i]))
    PROVE  /\ ledger' \in Seq(Records) /\ V!Outputs' = V!Outputs
           /\ \A x : V!Owned(x) \subseteq V!Owned(x)'
           /\ V!Latest' = V!Selected(ledger[i])
<1>1. ledger \in Seq(Records) /\ ledger[i] \in Records
      BY DEF VInv, PicType
<1>2. V!Selected(ledger[i]) \in Records /\ V!Selected(ledger[i]).bytes = ledger[i].bytes
      BY <1>1, TakenUp
<1>3. ledger[i].bytes.n \in V!Outputs
      BY OutputsAre
<1>4. /\ ledger' \in Seq(Records) /\ V!Outputs' = V!Outputs \cup {V!Selected(ledger[i]).bytes.n}
      /\ \A x : V!Owned(x) \subseteq V!Owned(x)'
      /\ V!Latest' = V!Selected(ledger[i])
      BY <1>1, <1>2, Appended
<1> QED BY <1>2, <1>3, <1>4

LEMMA PlaceFails == ASSUME VInv, V!PlaceFails PROVE VInv'
<1>0. /\ UNCHANGED <<files, uploads, kept, source, texts, given, hands>> /\ job.step = "recorded"
      /\ job' = V!Idle /\ ledger' = V!Reselected
      BY DEF V!PlaceFails, V!post
<1>1. CASE ledger' = ledger
      BY <1>0, <1>1, PictureJobEnds
<1>2. CASE ledger' # ledger
  <2>1. job.previous # None /\ V!OutputExists(job.previous) /\ ledger' = Append(ledger, V!Selected(job.previous))
        BY <1>0, <1>2 DEF V!Reselected
  <2>2. job.previous \in Records
        BY <1>0, <2>1, Generations DEF Generation
  <2>3. PICK r \in Records : r = V!Selected(job.previous) /\ r.bytes = job.previous.bytes
        BY <2>2, TakenUp
  <2>4. r.bytes.n \in V!Outputs
    <3>1. job.previous.bytes \in Bytes /\ r.bytes.by = "program"
          BY <2>1, <2>3 DEF VInv, Filed, V!OutputExists, V!Has, Records
    <3> QED BY <2>3, <3>1 DEF Bytes
  <2>5. /\ ledger' \in Seq(Records) /\ V!Outputs' = V!Outputs \cup {r.bytes.n}
        /\ \A x : V!Owned(x) \subseteq V!Owned(x)'
        BY <2>1, <2>3, Appended DEF VInv, PicType
  <2>6. Grows
        BY <1>0, <2>5 DEF Grows, VInv, PicType
  <2>7. PicType'
        BY <1>0, <2>5 DEF VInv, PicType, V!Idle, Uploading
  <2>8. V!Outputs' = V!Outputs
        BY <2>4, <2>5
  <2>9. Counted' /\ Aimed' /\ BackedUp'
        BY <1>0, <2>8 DEF VInv, Counted, Aimed, BackedUp, V!Idle, Uploading, Generation
  <2> QED BY <1>0, <2>6, <2>7, <2>9, FilesAlone DEF VInv
<1> QED BY <1>1, <1>2

LEMMA Selects == ASSUME VInv, V!SelectVersion PROVE VInv'
<1>0. UNCHANGED <<files, uploads, kept, source, texts, job, given, hands>> /\ job = V!Idle
      BY DEF V!SelectVersion
<1>1. PICK i \in DOMAIN ledger : ledger' = Append(ledger, V!Selected(ledger[i]))
      BY DEF V!SelectVersion
<1>2. /\ ledger' \in Seq(Records) /\ V!Outputs' = V!Outputs /\ \A x : V!Owned(x) \subseteq V!Owned(x)'
      BY <1>1, WrittenAgain
<1>3. Grows
      BY <1>0, <1>2 DEF Grows, VInv, PicType
<1>4. PicType'
      BY <1>0, <1>2 DEF VInv, PicType, V!Idle, Uploading
<1>5. Counted' /\ Aimed' /\ BackedUp'
      BY <1>0, <1>2 DEF VInv, Counted, Aimed, BackedUp, V!Idle, Uploading, Generation
<1> QED BY <1>0, <1>3, <1>4, <1>5, FilesAlone DEF VInv

\* The original or the text changes, or the choice; the pictures do not.
LEMMA Changes == ASSUME VInv, V!SelectOriginal \/ V!Recaptured \/ V!Retranslated PROVE VInv'
<1>0. UNCHANGED <<files, ledger, uploads, kept, job, given, hands>>
      BY DEF V!SelectOriginal, V!Recaptured, V!Retranslated, V!disk
<1>1. source' \in 0 .. MaxChanges
      BY PictureBounds DEF V!SelectOriginal, V!Recaptured, V!Retranslated, V!disk, VInv, PicType
<1>2. texts' \in Seq({1, 2}) /\ Len(texts') <= 2 /\ \A i \in 1 .. Len(texts') : texts'[i] = i
  <2>1. CASE texts' = texts
        BY <2>1 DEF VInv, PicType
  <2>2. CASE texts' = <<>>
        BY <2>2
  <2>3. CASE Len(texts) < 2 /\ texts' = Append(texts, Len(texts) + 1)
        BY <2>3 DEF VInv, PicType
  <2> QED BY <2>1, <2>2, <2>3 DEF V!SelectOriginal, V!Recaptured, V!Retranslated, V!disk
<1>3. Grows
      BY <1>0, LedgerAlone DEF Grows, VInv, PicType
<1>4. PicType'
  <2>1. V!Outputs' = V!Outputs
        BY <1>0, LedgerAlone
  <2> QED BY <1>0, <1>1, <1>2, <2>1 DEF VInv, PicType, Bytes
<1>5. Counted' /\ Aimed' /\ BackedUp'
      BY <1>0, LedgerAlone DEF VInv, Counted, Aimed, BackedUp, Ours
<1> QED BY <1>0, <1>3, <1>4, <1>5, FilesAlone DEF VInv

\* Nobody uploads where a picture is being generated.
LEMMA Uploads ==
    ASSUME VInv, job.step \in Uploading \/ job = V!Idle
    PROVE  job.step \notin {"planned", "paid", "recorded"}
BY DEF Uploading, V!Idle

LEMMA Begins == ASSUME VInv, V!Upload PROVE VInv'
<1>0. /\ UNCHANGED <<files, ledger, uploads, kept, source, texts, given>> /\ job = V!Idle
      /\ hands' = hands + 1
      BY DEF V!Upload, V!disk, V!post
<1>1. PICK name \in V!Plain, bytes \in {files[x] : x \in DOMAIN files} \cup {V!Person(hands + 1)} :
        job' = [step |-> "upload", out |-> name, bytes |-> bytes, moved |-> <<>>]
      BY DEF V!Upload
<1>2. Grows
      BY <1>0, LedgerAlone DEF Grows, VInv, PicType
<1>3. bytes \in Bytes'
  <2>1. hands \in Nat
        BY DEF VInv, PicType
  <2>2. V!Person(hands + 1) \in Bytes'
        BY <1>0, <2>1 DEF V!Person, Bytes
  <2> QED BY <1>2, <2>2, KnownStill DEF VInv, Filed
<1>4. PicType'
  <2>1. given' \subseteq [by : {"person"}, n : 1 .. hands']
        BY <1>0 DEF VInv, PicType
  <2> QED BY <1>0, <1>1, <1>3, <2>1 DEF VInv, PicType, Uploading
<1>5. Counted' /\ Aimed' /\ BackedUp'
      BY <1>0, <1>1, LedgerAlone DEF VInv, Counted, Aimed, BackedUp, Uploading, Generation
<1> QED BY <1>0, <1>2, <1>4, <1>5, FilesAlone DEF VInv

\* An upload goes one step further.
LEMMA UploadMoves ==
    ASSUME VInv, job.step \in Uploading, NEW step \in Uploading,
           UNCHANGED <<ledger, source, texts, given, hands>>, uploads \subseteq uploads',
           job' = [step |-> step, out |-> job.out, bytes |-> job.bytes, moved |-> job'.moved],
           \A x \in DOMAIN job'.moved : x \in V!Plain /\ job'.moved[x] \in Bytes
    PROVE  Grows /\ PicType' /\ Counted' /\ Aimed'
<1>1. Grows
      BY LedgerAlone DEF Grows, VInv, PicType
<1>2. PicType'
      BY <1>1, KnownStill DEF VInv, PicType
<1>3. Counted' /\ Aimed'
      BY LedgerAlone DEF VInv, Counted, Aimed, Uploading, Generation
<1> QED BY <1>1, <1>2, <1>3

LEMMA BacksUp == ASSUME VInv, V!BackUp PROVE VInv'
<1>0. /\ UNCHANGED <<files, ledger, uploads, source, texts, given, hands>> /\ job.step = "upload"
      /\ kept' = kept \cup {files[x] : x \in DOMAIN files \cap V!Plain} /\ job' = [job EXCEPT !.step = "kept"]
      BY DEF V!BackUp, V!post
<1>1. job' = [step |-> "kept", out |-> job.out, bytes |-> job.bytes, moved |-> job.moved]
      BY <1>0 DEF VInv, PicType, Uploading
<1>2. Grows /\ PicType' /\ Counted' /\ Aimed'
  <2>1. job'.moved = job.moved
        BY <1>1
  <2> QED BY <1>0, <1>1, <2>1, UploadMoves DEF VInv, PicType, Uploading
<1>3. Filed' /\ V!OwnWorkRecognised'
  <2>1. \A x \in DOMAIN files : Ours(x, files[x])
        BY DEF VInv, V!PicturesKept, V!OwnWorkRecognised, Ours
  <2> QED BY <1>0, <1>2, <2>1, KnownStill DEF VInv, Filed, V!OwnWorkRecognised, Ours
<1>4. BackedUp'
  <2>1. \A x \in DOMAIN files' \cap V!Plain : files'[x] \in kept'
        BY <1>0
  <2>2. job'.step = "kept" /\ job'.moved = job.moved
        BY <1>1
  <2>3. \A x \in DOMAIN job.moved : \A b : b = job.moved[x] => Ours(x, b)'
        BY <1>0, <1>2, KnownStill DEF VInv, BackedUp, Uploading
  <2> QED BY <2>1, <2>2, <2>3 DEF BackedUp
<1>5. V!GivenKept'
      BY <1>0 DEF VInv, V!PicturesKept, V!GivenKept
<1> QED BY <1>2, <1>3, <1>4, <1>5 DEF VInv, V!PicturesKept

LEMMA RemovesOthers == ASSUME VInv, V!RemoveOthers PROVE VInv'
<1> DEFINE others == {x \in DOMAIN files \cap V!Plain : x # job.out}
<1>0. /\ UNCHANGED <<ledger, uploads, kept, source, texts, given, hands>> /\ job.step = "kept"
      /\ files' = V!Without(files, others)
      /\ job' = [step |-> "removed", out |-> job.out, bytes |-> job.bytes, moved |-> [x \in others |-> files[x]]]
      BY DEF V!RemoveOthers, V!post
<1>1. /\ DOMAIN files' = DOMAIN files \ others
      /\ \A x \in DOMAIN files' : files'[x] = files[x]
      BY <1>0 DEF V!Without
<1>2. job'.moved = [x \in others |-> files[x]] /\ DOMAIN job'.moved = others
      /\ \A x \in others : x \in DOMAIN files /\ x \in V!Plain /\ job'.moved[x] = files[x]
      BY <1>0
<1> HIDE DEF others
<1>3. Grows /\ PicType' /\ Counted' /\ Aimed'
      BY <1>0, <1>2, UploadMoves DEF VInv, Filed, Uploading
<1>4. \A x \in DOMAIN files : \A b : b = files[x] => Ours(x, b)'
      BY <1>3, KnownStill DEF VInv, V!PicturesKept, V!OwnWorkRecognised, Ours
<1>5. Filed' /\ V!OwnWorkRecognised'
      BY <1>1, <1>3, <1>4, KnownStill DEF VInv, Filed, V!OwnWorkRecognised, Ours
<1>6. BackedUp'
      BY <1>0, <1>1, <1>2, <1>4 DEF VInv, BackedUp, Uploading
<1>7. V!GivenKept'
  <2>1. \A x \in others : files[x] \in given => files[x] \in kept
        BY <1>0, <1>2 DEF VInv, BackedUp, Uploading
  <2> QED BY <1>0, <1>1, <2>1 DEF VInv, V!PicturesKept, V!GivenKept
<1> QED BY <1>3, <1>5, <1>6, <1>7 DEF VInv, V!PicturesKept

LEMMA LogsUpload == ASSUME VInv, V!LogUpload PROVE VInv'
<1>0. /\ UNCHANGED <<files, ledger, kept, source, texts, given, hands>> /\ job.step = "removed"
      /\ uploads' = uploads \cup {<<job.out, job.bytes>>} /\ job' = [job EXCEPT !.step = "logged"]
      BY DEF V!LogUpload, V!post
<1>1. job' = [step |-> "logged", out |-> job.out, bytes |-> job.bytes, moved |-> job.moved]
      BY <1>0 DEF VInv, PicType, Uploading
<1>2. Grows /\ PicType' /\ Counted' /\ Aimed'
  <2>1. job'.moved = job.moved
        BY <1>1
  <2> QED BY <1>0, <1>1, <2>1, UploadMoves DEF VInv, PicType, Uploading
<1>3. BackedUp'
  <2>1. \A x \in DOMAIN job.moved : \A b : b = job.moved[x] => Ours(x, b)'
        BY <1>0, <1>2, KnownStill DEF VInv, BackedUp, Uploading
  <2> QED BY <1>0, <1>1, <2>1 DEF VInv, BackedUp, Uploading
<1> QED BY <1>0, <1>2, <1>3, FilesAlone DEF VInv

LEMMA Replaces == ASSUME VInv, V!Replace PROVE VInv'
<1>0. /\ UNCHANGED <<ledger, uploads, kept, source, texts, hands>> /\ job.step = "logged"
      /\ files' = V!Put(files, job.out, job.bytes) /\ job' = V!Idle
      /\ given' = given \cup (IF job.bytes.by = "person" THEN {job.bytes} ELSE {})
      BY DEF V!Replace
<1>1. /\ DOMAIN files' = DOMAIN files \cup {job.out} /\ files'[job.out] = job.bytes
      /\ \A x \in DOMAIN files' \ {job.out} : x \in DOMAIN files /\ files'[x] = files[x]
      BY <1>0 DEF V!Put
<1>2. Grows
      BY <1>0, LedgerAlone DEF Grows, VInv, PicType
<1>3. job.bytes \in Bytes /\ job.out \in V!Plain /\ <<job.out, job.bytes>> \in uploads
      BY <1>0 DEF VInv, PicType, BackedUp, Uploading
<1>4. PicType'
  <2>1. given' \subseteq [by : {"person"}, n : 1 .. hands']
        BY <1>0, <1>3 DEF VInv, PicType, Bytes
  <2> QED BY <1>0, <2>1 DEF VInv, PicType, V!Idle, Uploading
<1>5. Filed'
      BY <1>1, <1>2, <1>3, KnownStill DEF VInv, Filed
<1>6. Counted' /\ Aimed' /\ BackedUp'
      BY <1>0, LedgerAlone DEF VInv, Counted, Aimed, BackedUp, V!Idle, Uploading, Generation
<1>7. V!GivenKept'
  <2>1. job.out \in DOMAIN files /\ files[job.out] \in given => files[job.out] \in kept
        BY <1>0, <1>3 DEF VInv, BackedUp, Uploading
  <2> QED BY <1>0, <1>1, <2>1 DEF VInv, V!PicturesKept, V!GivenKept
<1>8. V!OwnWorkRecognised'
  <2>1. Ours(job.out, job.bytes)
        BY <1>3 DEF Ours
  <2>2. \A x \in DOMAIN files' : Ours(x, files'[x])
        BY <1>1, <2>1 DEF VInv, V!PicturesKept, V!OwnWorkRecognised, Ours
  <2>3. \A x \in DOMAIN files' : \A b : b = files'[x] => Ours(x, b)'
        BY <1>2, <2>2, KnownStill
  <2> QED BY <2>3 DEF V!OwnWorkRecognised, Ours
<1> QED BY <1>4, <1>5, <1>6, <1>7, <1>8 DEF VInv, V!PicturesKept

LEMMA UploadFails == ASSUME VInv, V!UploadFails PROVE VInv'
<1>0. /\ UNCHANGED <<ledger, uploads, kept, source, texts, given, hands>> /\ job.step \in Uploading
      /\ job' = V!Idle
      /\ files' = [x \in DOMAIN files \cup DOMAIN job.moved |-> IF x \in DOMAIN files THEN files[x] ELSE job.moved[x]]
      BY DEF V!UploadFails, V!post, Uploading
<1>1. /\ DOMAIN files' = DOMAIN files \cup DOMAIN job.moved
      /\ \A x \in DOMAIN files : files'[x] = files[x]
      /\ \A x \in DOMAIN job.moved : x \notin DOMAIN files => files'[x] = job.moved[x]
      BY <1>0
<1>2. Grows
      BY <1>0, LedgerAlone DEF Grows, VInv, PicType
<1>3. PicType'
      BY <1>0 DEF VInv, PicType, V!Idle, Uploading
<1>4. Filed'
  <2>1. \A x \in DOMAIN job.moved : x \in V!Plain /\ job.moved[x] \in Bytes
        BY <1>0 DEF VInv, PicType
  <2> QED BY <1>1, <1>2, <2>1, KnownStill DEF VInv, Filed
<1>5. Counted' /\ Aimed' /\ BackedUp'
      BY <1>0, LedgerAlone DEF VInv, Counted, Aimed, BackedUp, V!Idle, Uploading, Generation
<1>6. V!GivenKept'
      BY <1>0, <1>1 DEF VInv, V!PicturesKept, V!GivenKept
<1>7. V!OwnWorkRecognised'
  <2>1. \A x \in DOMAIN job.moved : Ours(x, job.moved[x])
        BY <1>0 DEF VInv, BackedUp
  <2>2. \A x \in DOMAIN files : Ours(x, files[x])
        BY DEF VInv, V!PicturesKept, V!OwnWorkRecognised, Ours
  <2>3. \A x \in DOMAIN files' : Ours(x, files'[x])
        BY <1>1, <2>1, <2>2
  <2>4. \A x \in DOMAIN files' : \A b : b = files'[x] => Ours(x, b)'
        BY <1>2, <2>3, KnownStill
  <2> QED BY <2>4 DEF V!OwnWorkRecognised, Ours
<1> QED BY <1>3, <1>4, <1>5, <1>6, <1>7 DEF VInv, V!PicturesKept

LEMMA Drops == ASSUME VInv, V!Drop PROVE VInv'
<1> DEFINE bytes == V!Person(hands + 1)
<1>0. PICK name \in V!Plain :
        /\ UNCHANGED <<ledger, uploads, kept, source, texts, job>> /\ hands' = hands + 1
        /\ files' = V!Put(files, name, bytes)
        /\ given' = (given \ (IF V!Has(name) THEN {files[name]} ELSE {}))
                    \cup (IF job.step \in {"kept", "removed", "logged"} THEN {} ELSE {bytes})
      BY DEF V!Drop, V!post
<1>1. hands \in Nat /\ bytes.by = "person" /\ bytes.n = hands + 1 /\ bytes \in Bytes' /\ bytes \notin given
      BY <1>0 DEF V!Person, Bytes, VInv, PicType
<1>2. bytes \in [by : {"person"}, n : 1 .. hands'] /\ given \subseteq [by : {"person"}, n : 1 .. hands']
      BY <1>0, <1>1 DEF V!Person, VInv, PicType
<1> HIDE DEF bytes
<1>3. /\ DOMAIN files' = DOMAIN files \cup {name} /\ files'[name] = bytes
      /\ \A x \in DOMAIN files' \ {name} : x \in DOMAIN files /\ files'[x] = files[x]
      BY <1>0 DEF V!Put
<1>4. Grows
      BY <1>0, <1>1, LedgerAlone DEF Grows
<1>5. PicType'
  <2>1. given' \subseteq [by : {"person"}, n : 1 .. hands']
        BY <1>0, <1>2
  <2>2. Bytes \subseteq Bytes' /\ hands' \in Nat
        BY <1>0, <1>1, <1>4, KnownStill
  <2> QED BY <1>0, <2>1, <2>2 DEF VInv, PicType
<1>6. Filed'
      BY <1>0, <1>1, <1>3, <1>4, KnownStill DEF VInv, Filed
<1>7. Counted' /\ Aimed'
  <2>1. job.step = "recorded" => job.bytes # bytes
        BY <1>1, Generations DEF Generation
  <2> QED BY <1>0, <1>3, <2>1, LedgerAlone DEF VInv, Counted, Aimed
<1>8. BackedUp'
  <2>1. \A x \in DOMAIN job.moved : \A b : b = job.moved[x] => (Ours(x, b) => Ours(x, b)')
        BY <1>4, KnownStill
  <2>2. job.step \in Uploading \ {"upload"} => given' \subseteq given
        BY <1>0 DEF Uploading
  <2>3. job.step \in Uploading \ {"upload"} =>
          \A x \in DOMAIN files' \cap V!Plain : files'[x] \in given' => files'[x] \in kept'
        BY <1>0, <1>1, <1>3, <2>2 DEF VInv, BackedUp
  <2> QED BY <1>0, <2>1, <2>3 DEF VInv, BackedUp
<1>9. V!GivenKept'
  <2>1. ASSUME NEW g \in given' PROVE g \in {files'[x] : x \in DOMAIN files'} \cup kept'
    <3>1. CASE g = bytes
          BY <1>3, <3>1
    <3>2. CASE g # bytes
      <4>1. g \in given /\ (V!Has(name) => g # files[name])
            BY <1>0, <3>2
      <4>2. CASE g \in kept
            BY <1>0, <4>2
      <4>3. CASE g \notin kept
        <5>1. PICK x \in DOMAIN files : g = files[x]
              BY <4>1, <4>3 DEF VInv, V!PicturesKept, V!GivenKept
        <5>2. x # name
              BY <4>1, <5>1 DEF V!Has
        <5> QED BY <1>3, <5>1, <5>2
      <4> QED BY <4>2, <4>3
    <3> QED BY <3>1, <3>2
  <2> QED BY <2>1 DEF V!GivenKept
<1>10. V!OwnWorkRecognised'
  <2>1. \A x \in DOMAIN files' : Ours(x, files'[x])
        BY <1>1, <1>3 DEF VInv, V!PicturesKept, V!OwnWorkRecognised, Ours
  <2>2. \A x \in DOMAIN files' : \A b : b = files'[x] => Ours(x, b)'
        BY <1>4, <2>1, KnownStill
  <2> QED BY <2>2 DEF V!OwnWorkRecognised, Ours
<1> QED BY <1>5, <1>6, <1>7, <1>8, <1>9, <1>10 DEF VInv, V!PicturesKept

LEMMA Crashes == ASSUME VInv, V!Crash PROVE VInv'
BY PictureJobEnds DEF V!Crash, V!disk, V!post

LEMMA PicturesRest == ASSUME VInv, UNCHANGED picture PROVE VInv'
<1>0. UNCHANGED <<files, ledger, uploads, kept, source, texts, job, given, hands>>
      BY DEF picture
<1>1. Grows
      BY <1>0, LedgerAlone DEF Grows, VInv, PicType
<1>2. PicType'
  <2>1. V!Outputs' = V!Outputs
        BY <1>0, LedgerAlone
  <2> QED BY <1>0, <2>1 DEF VInv, PicType, Bytes
<1>3. Counted' /\ Aimed' /\ BackedUp'
      BY <1>0, LedgerAlone DEF VInv, Counted, Aimed, BackedUp, Ours
<1> QED BY <1>0, <1>1, <1>2, <1>3, FilesAlone DEF VInv

LEMMA PictureStep == ASSUME VInv, [V!Next]_picture PROVE VInv'
BY Plans, Requests, WritesRecord, PlacesFile, PlaceFails, Begins, BacksUp, RemovesOthers, LogsUpload,
   Replaces, UploadFails, Selects, Changes, Drops, Crashes, PicturesRest DEF V!Next

LEMMA CrashesAreCounted == ASSUME crashes \in Nat, [V!Next]_picture PROVE crashes' \in Nat
BY DEF picture, V!Next, V!Plan, V!Skipped, V!Request, V!WriteRecord, V!PlaceFile, V!PlaceFails, V!Upload,
       V!BackUp, V!RemoveOthers, V!LogUpload, V!Replace, V!UploadFails, V!SelectVersion, V!SelectOriginal,
       V!Drop, V!Recaptured, V!Retranslated, V!Crash

\* What comes back after a failure is what is shown.
LEMMA ShownAgain ==
    ASSUME VInv, crashes \in Nat, job.step = "recorded", job' = V!Idle, UNCHANGED <<files, crashes>>, V!Next,
           choice # source, V!Manual = {}, V!Fits(job.previous)
    PROVE  V!Shown(TRUE)' = job.previous.bytes
<1>1. job \in Generation /\ job.previous \in Records /\ V!OutputExists(job.previous)
      BY Generations DEF Generation, V!Fits
<1>2. ~V!PlaceFile
  <2>1. SUFFICES ASSUME V!PlaceFile PROVE FALSE
        OBVIOUS
  <2>2. files'[job.out] = job.bytes /\ job.out \in DOMAIN files'
        BY <2>1 DEF V!PlaceFile, V!Put
  <2> QED BY <2>2 DEF VInv, Counted
<1>3. V!PlaceFails
  <2>1. job # V!Idle /\ job.step \notin {"planned", "paid", "upload", "kept", "removed", "logged"}
        BY Generations
  <2>2. ~V!Plan /\ ~V!Skipped /\ ~V!Request /\ ~V!WriteRecord /\ ~V!Upload
        /\ ~V!SelectVersion /\ ~V!SelectOriginal
        BY <2>1 DEF V!Plan, V!Skipped, V!Request, V!WriteRecord, V!Upload, V!SelectVersion, V!SelectOriginal
  <2>3. ~V!BackUp /\ ~V!RemoveOthers /\ ~V!LogUpload /\ ~V!Replace /\ ~V!UploadFails
        BY <2>1 DEF V!BackUp, V!RemoveOthers, V!LogUpload, V!Replace, V!UploadFails
  <2>4. ~V!Drop /\ ~V!Recaptured /\ ~V!Retranslated
        BY <2>1 DEF V!Drop, V!Recaptured, V!Retranslated, V!disk
  <2>5. ~V!Crash
    <3>1. V!Crash => crashes' = crashes + 1
          BY DEF V!Crash
    <3> QED BY <3>1
  <2> QED BY <1>2, <2>2, <2>3, <2>4, <2>5 DEF V!Next
<1>4. ledger' = Append(ledger, V!Selected(job.previous)) /\ UNCHANGED <<uploads, choice, source, texts>>
      BY <1>1, <1>3 DEF V!PlaceFails, V!Reselected, V!Fits, V!post
<1>5. PICK r \in Records : /\ r = V!Selected(job.previous) /\ r.bytes = job.previous.bytes /\ r.selected
                           /\ r.out = job.previous.out /\ r.source = job.previous.source
                           /\ r.text = job.previous.text
      BY <1>1, TakenUp
<1>6. V!Latest' = r /\ \A x : V!Owned(x) \subseteq V!Owned(x)'
      BY <1>4, <1>5, Appended DEF VInv, PicType
<1>7. V!Manual' = {}
      BY <1>4, <1>6 DEF V!Manual, V!Has
<1>8. V!Fits(job.previous) /\ r # None /\ r.source = source /\ r.text \in V!ToSet(texts) /\ r.out \in DOMAIN files
      /\ files[r.out] = r.bytes
      BY <1>5, NoneIsNoRecord DEF V!Fits, V!OutputExists, V!Has
<1>9. V!OutputExists(r)' /\ V!TextBasis(r, TRUE)' = r.text /\ V!Matches(r, TRUE)' /\ texts' # <<>>
      BY <1>4, <1>8 DEF V!OutputExists, V!Has, V!TextBasis, V!Matches, V!ToSet
<1>10. V!Matches(V!Latest, TRUE)'
      BY <1>6, <1>9 DEF V!Matches, V!TextBasis, V!OutputExists, V!Has
<1>11. V!Selection(TRUE)' = "generated"
  <2>1. ~(V!Cardinality({}) > 1)
    <3>1. V!Cardinality({}) = Cardinality({})
          BY DEF V!Cardinality, Cardinality, V!IsFiniteSet, IsFiniteSet
    <3> QED BY <3>1, FS_EmptySet
  <2> QED BY <1>4, <1>7, <1>9, <1>10, <2>1 DEF V!Selection
<1>12. V!Shown(TRUE)' = V!Latest'.bytes
      BY <1>11 DEF V!Shown
<1> QED BY <1>5, <1>6, <1>12

\* The invariant, with the type of the bound.
PicturesInv == VInv /\ crashes \in Nat

(* The bytes of people and the paid pictures are kept, whatever replaces them  *)
(* on disk and wherever a process dies, and a failed generation brings back    *)
(* what was shown before it (images.py).                                       *)
THEOREM PicturesAreKept == V!Spec => PicturesStay
<1>1. V!Init => PicturesInv
      BY PicturesStart DEF V!Init, PicturesInv
<1>2. PicturesInv /\ [V!Next]_picture => PicturesInv'
      BY PictureStep, CrashesAreCounted DEF PicturesInv
<1>3. V!Spec => V!Init /\ [][V!Next]_picture
      BY DEF V!Spec, V!vars, picture
<1>4. PicturesInv => V!PicturesKept
      BY DEF VInv, PicturesInv
<1>5. PicturesInv /\ [V!Next]_picture =>
        [job.step = "recorded" /\ job' = V!Idle /\ UNCHANGED <<files, crashes>>
         /\ choice # source /\ V!Manual = {} /\ V!Fits(job.previous)
         => V!Shown(TRUE)' = job.previous.bytes]_picture
      BY ShownAgain DEF PicturesInv
<1>6. V!FailureKeepsShown <=>
        [][job.step = "recorded" /\ job' = V!Idle /\ UNCHANGED <<files, crashes>>
           /\ choice # source /\ V!Manual = {} /\ V!Fits(job.previous)
           => V!Shown(TRUE)' = job.previous.bytes]_picture
      BY DEF V!FailureKeepsShown, V!vars, picture
<1> QED BY <1>1, <1>2, <1>3, <1>4, <1>5, <1>6, PTL DEF PicturesStay
================================================================================
