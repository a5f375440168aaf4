------------------------------ MODULE Outbox_proofs ------------------------------
(******************************************************************************)
(* For any events, roles, routes and old file: a role is told of an event at  *)
(* most once, what the file calls settled was told, nothing withdrawn is sent *)
(* and a card never tried is up to date.                                      *)
(*                                                                            *)
(* The argument.  A row tells what is in the chat (RowTrue) except while it   *)
(* is uncertain, so a row is tried again only when its card is not there.     *)
(* That would not be enough if two rows were about one event: of the rows of  *)
(* a role no two that are not cancelled share an event (Single), and a card   *)
(* that arrived has its row on file or in the archive (OnFile), so that no    *)
(* second row is made for it.  A row under way is uncertain and the rest of   *)
(* the plan unsent (Dispatching).  A person judges a row later than they      *)
(* looked: as long as its attempts are what they saw, what they found in the  *)
(* chat still holds (Judging).                                                *)
(******************************************************************************)
EXTENDS Outbox, PartCapture, FiniteSetTheorems, TLAPS

--------------------------------------------------------------------------------
\* What a row says, against what is in the chat.
RowTrue(id) ==
    LET row == deliveries[id] IN
    /\ row.status = "pending" => row.attempts = 0
    /\ row.attempts = 0 => row.status # "sent" /\ ~Arrived(id)
    /\ row.status = "cancelled" => ~Arrived(id)
    /\ row.status = "sent" => Arrived(id)
    /\ row.status = "retry" /\ (\A e \in id.events : events[e].to # {}) => ~Arrived(id)

RowsTrue == \A id \in DOMAIN deliveries : RowTrue(id)

\* A card that is neither cancelled nor archived is the only one of its role about its events.
Disjoint(c, d) == c # d /\ c.to = d.to => c.events \cap d.events = {}

Alive(id) == id \in DOMAIN deliveries /\ deliveries[id].status # "cancelled"

Single == \A c, d \in DOMAIN deliveries : Alive(c) /\ Alive(d) => Disjoint(c, d)

\* What arrived is on file, once.
OnFile ==
    /\ \A m \in inbox : m.id \in DOMAIN deliveries \/ m.id.events \subseteq DOMAIN archived
    /\ \A m, n \in inbox : m.id = n.id => m = n

Unsent(id) == deliveries[id].status \in {"pending", "retry"} /\ ~Arrived(id)

UnderWay(id) == mail.at \in {"intent", "answered"} /\ mail.id = id

Dispatching ==
    /\ mail.at = "idle" => mail.todo = {}
    /\ \A id \in mail.todo : mail.at # "idle" => Unsent(id)
    /\ mail.at \in {"intent", "answered"} =>
          /\ deliveries[mail.id].status = "uncertain" /\ deliveries[mail.id].attempts > 0
          /\ \A e \in mail.id.events : ~events[e].withdrawn
    /\ mail.at = "intent" => ~Arrived(mail.id)
    /\ mail.at = "answered" =>
          /\ mail.outcome = "sent" => Arrived(mail.id)
          /\ mail.outcome = "retry" => ~Arrived(mail.id)
          /\ mail.outcome # ""

Judging ==
    desk # NoRow =>
        /\ desk.id \in Ids /\ desk.row.attempts \in Nat
        /\ desk.row.attempts = 0 => ~desk.arrived
        /\ desk.id \notin DOMAIN deliveries =>
              desk.row.attempts = 0 \/ desk.id.events \subseteq DOMAIN archived
        /\ desk.id \in DOMAIN deliveries =>
              /\ deliveries[desk.id].attempts >= desk.row.attempts
              /\ deliveries[desk.id].attempts = desk.row.attempts =>
                    (desk.arrived <=> Arrived(desk.id)) /\ ~UnderWay(desk.id)

Current ==
    \A id \in DOMAIN deliveries : \A e \in id.events : deliveries[id].card[e] = events[e].payload

IInv ==
    /\ TypeOK /\ IsFiniteSet(DOMAIN deliveries) /\ RowsTrue /\ Single /\ OnFile /\ Dispatching
    /\ Judging /\ Current /\ WithdrawnNeverSent /\ SettledMeansTold /\ ToldAtMostOnce
--------------------------------------------------------------------------------
(* IDENTIFIERS.  A free one exists: a file of n deliveries cannot hold n + 1.  *)
LEMMA FreshIdFree ==
    ASSUME NEW del, IsFiniteSet(DOMAIN del), NEW r, NEW g
    PROVE  /\ FreshId(del, r, g) \notin DOMAIN del
           /\ \E v \in Nat : FreshId(del, r, g) = [to |-> r, events |-> g, v |-> v]
<1> DEFINE n == Cardinality(DOMAIN del)
           id(v) == [to |-> r, events |-> g, v |-> v]
<1>1. n \in Nat
  BY FS_CardinalityType
<1>2. \E v \in 0 .. n : id(v) \notin DOMAIN del
  <2> SUFFICES ASSUME \A v \in 0 .. n : id(v) \in DOMAIN del PROVE FALSE
    OBVIOUS
  <2> DEFINE f == [v \in 0 .. n |-> id(v)]
  <2>1. f \in [0 .. n -> DOMAIN del]
    OBVIOUS
  <2>2. IsFiniteSet(0 .. n) /\ Cardinality(0 .. n) = n + 1
    BY <1>1, FS_Interval, 0 \in Int, n \in Int, ~(0 > n), n - 0 + 1 = n + 1
  <2>3. PICK x \in 0 .. n, y \in 0 .. n : x # y /\ f[x] = f[y]
    <3> HIDE DEF f
    <3>1. n < n + 1
      BY <1>1
    <3> QED BY <2>1, <2>2, <3>1, FS_PigeonHole
  <2>4. id(x).v = id(y).v
    BY <2>3
  <2> QED BY <2>3, <2>4
<1> DEFINE w == CHOOSE v \in 0 .. n : id(v) \notin DOMAIN del
<1>3. FreshId(del, r, g) = id(w)
  BY DEF FreshId
<1>4. w \in 0 .. n /\ id(w) \notin DOMAIN del
  BY <1>2
<1>5. w \in Nat
  BY <1>1, <1>4
<1> HIDE DEF w
<1> QED BY <1>3, <1>4, <1>5

\* What a free identifier is made of.
LEMMA FreshIdParts ==
    ASSUME NEW del, IsFiniteSet(DOMAIN del), NEW r \in Roles, NEW g \in (SUBSET Events) \ {{}}
    PROVE  /\ FreshId(del, r, g) \in Ids /\ FreshId(del, r, g) \notin DOMAIN del
           /\ FreshId(del, r, g).to = r /\ FreshId(del, r, g).events = g
<1>1. PICK v \in Nat : FreshId(del, r, g) = [to |-> r, events |-> g, v |-> v]
  BY FreshIdFree
<1> QED BY <1>1, FreshIdFree DEF Ids

\* An identifier names a role, at least one event, and a version.
LEMMA IdParts ==
    ASSUME NEW id \in Ids
    PROVE  id.to \in Roles /\ id.events \in SUBSET Events /\ id.events # {} /\ id.v \in Nat
<1>1. id.to \in Roles /\ id.events \in (SUBSET Events) \ {{}} /\ id.v \in Nat
  BY DEF Ids
<1> QED BY <1>1

\* An identifier that is not on file, of live events, is not in the chat either.
LEMMA Unborn ==
    ASSUME IInv, NEW id \in Ids, id \notin DOMAIN deliveries, id.events \subseteq DOMAIN events
    PROVE  ~Arrived(id)
<1>1. id.events # {} /\ DOMAIN archived \cap DOMAIN events = {}
  BY IdParts DEF IInv, TypeOK
<1> QED BY <1>1 DEF IInv, OnFile, Arrived

\* No card is older than its events, and a row is what its type says.
LEMMA RowParts ==
    ASSUME TypeOK, NEW id \in DOMAIN deliveries
    PROVE  /\ id \in Ids /\ id.events \subseteq DOMAIN events
           /\ deliveries[id] \in Rows(id)
           /\ deliveries[id].status \in Statuses /\ deliveries[id].attempts \in Nat
  BY DEF TypeOK, Rows
--------------------------------------------------------------------------------
(* REWRITING THE FILE.  What an operation other than sending must respect: a   *)
(* row keeps its attempts and is not revived, a new one is untried and alone   *)
(* of its role about its events, and only what was not tried goes.             *)
Kept(id) ==
    /\ id \in DOMAIN deliveries
    /\ deliveries'[id].attempts = deliveries[id].attempts
    /\ deliveries'[id].status # "cancelled" => deliveries[id].status # "cancelled"

Added(id) ==
    /\ id \notin DOMAIN deliveries
    /\ deliveries'[id].attempts = 0
    /\ \A d \in DOMAIN deliveries' : deliveries'[d].status # "cancelled" => Disjoint(id, d)

Rewritten ==
    /\ \A id \in DOMAIN deliveries' : Kept(id) \/ Added(id)
    /\ \A id \in DOMAIN deliveries \ DOMAIN deliveries' : deliveries[id].attempts = 0

Quiet == UNCHANGED <<archived, desk, inbox, trouble>>

\* While the chat is the same, so is what has arrived and who was told.
LEMMA ArrivedSame ==
    ASSUME inbox' = inbox
    PROVE  /\ \A id : Arrived(id)' <=> Arrived(id)
           /\ \A e, r : ToldTo(e, r)' <=> ToldTo(e, r)
  BY DEF Arrived, ToldTo

\* Rows that carry old ones on, and new rows about what was missing, stay disjoint.
LEMMA SingleKept ==
    ASSUME Single, Rewritten
    PROVE  Single'
<1> SUFFICES ASSUME NEW c \in DOMAIN deliveries', NEW d \in DOMAIN deliveries',
                    deliveries'[c].status # "cancelled", deliveries'[d].status # "cancelled"
             PROVE  Disjoint(c, d)
  BY DEF Single, Alive, Disjoint
<1>1. CASE Added(c)
  BY <1>1 DEF Added
<1>2. CASE Added(d)
  <2>1. Disjoint(d, c)
    BY <1>2 DEF Added
  <2> QED BY <2>1 DEF Disjoint
<1>3. CASE Kept(c) /\ Kept(d)
  BY <1>3 DEF Kept, Single, Alive
<1> QED BY <1>1, <1>2, <1>3 DEF Rewritten

\* Giving a row up leaves the chat accounted for when its card never came.
LEMMA OnFileKept ==
    ASSUME RowsTrue, OnFile, Rewritten, inbox' = inbox, archived' = archived
    PROVE  OnFile'
<1> SUFFICES ASSUME NEW m \in inbox, m.id \in DOMAIN deliveries, m.id \notin DOMAIN deliveries'
             PROVE  FALSE
  BY DEF OnFile
<1>1. Arrived(m.id)
  BY DEF Arrived
<1>2. deliveries[m.id].attempts = 0
  BY DEF Rewritten
<1> QED BY <1>1, <1>2 DEF RowsTrue, RowTrue

\* What a person found still holds while rows only move forward.
LEMMA JudgingKept ==
    ASSUME RowsTrue, OnFile, Judging, TypeOK, TypeOK', Rewritten, mail.at = "idle",
           mail'.at \in {"idle", "loop"},
           UNCHANGED <<archived, desk, inbox>>
    PROVE  Judging'
<1> SUFFICES ASSUME desk # NoRow PROVE Judging'
  BY DEF Judging
<1> DEFINE id == desk.id
<1>1. \A x : Arrived(x)' <=> Arrived(x)
  BY ArrivedSame
<1>2. /\ id \in Ids /\ desk.row.attempts \in Nat
      /\ desk.row.attempts = 0 => ~desk.arrived
  BY DEF Judging
<1>3. ASSUME id \notin DOMAIN deliveries'
      PROVE  desk.row.attempts = 0 \/ id.events \subseteq DOMAIN archived
  <2>1. CASE id \in DOMAIN deliveries
    <3>1. deliveries[id].attempts = 0 /\ deliveries[id].attempts >= desk.row.attempts
      BY <1>3, <2>1 DEF Judging, Rewritten
    <3> QED BY <1>2, <3>1
  <2> QED BY <2>1 DEF Judging
<1>4. ASSUME id \in DOMAIN deliveries'
      PROVE  /\ deliveries'[id].attempts >= desk.row.attempts
             /\ deliveries'[id].attempts = desk.row.attempts => (desk.arrived <=> Arrived(id))
  <2>1. CASE Kept(id)
    BY <2>1 DEF Kept, Judging
  <2>2. CASE Added(id)
    <3>1. deliveries'[id].attempts = 0 /\ id \notin DOMAIN deliveries
      BY <2>2 DEF Added
    <3>2. desk.row.attempts = 0 \/ id.events \subseteq DOMAIN archived
      BY <3>1 DEF Judging
    <3>3. id.events \subseteq DOMAIN events' /\ DOMAIN archived \cap DOMAIN events' = {} /\ id.events # {}
      BY <1>2, <1>4, IdParts DEF TypeOK
    <3>4. ~Arrived(id) /\ ~desk.arrived
      BY <1>2, <3>1, <3>2, <3>3 DEF OnFile, Arrived
    <3> QED BY <1>2, <3>1, <3>2, <3>3, <3>4
  <2> QED BY <1>4, <2>1, <2>2 DEF Rewritten
<1>5. ~UnderWay(id)'
  BY DEF UnderWay
<1> QED BY <1>1, <1>2, <1>3, <1>4, <1>5 DEF Judging

\* A step of the file alone: which parts of the invariant it has to establish.
LEMMA FileStep ==
    ASSUME IInv, mail.at = "idle", Quiet, Rewritten, mail'.at \in {"idle", "loop"},
           TypeOK', IsFiniteSet(DOMAIN deliveries'), RowsTrue', Current', WithdrawnNeverSent',
           mail'.at = "idle" => mail'.todo = {},
           \A id \in mail'.todo : mail'.at # "idle" => Unsent(id)'
    PROVE  IInv'
<1>1. Single' /\ OnFile' /\ Judging'
  BY SingleKept, OnFileKept, JudgingKept DEF IInv, Quiet
<1>2. Dispatching'
  BY DEF Dispatching
<1>3. SettledMeansTold'
  BY ArrivedSame DEF IInv, Quiet, SettledMeansTold, RowsTrue, RowTrue
<1>4. ToldAtMostOnce'
  BY DEF IInv, Quiet, ToldAtMostOnce
<1> QED BY <1>1, <1>2, <1>3, <1>4 DEF IInv
--------------------------------------------------------------------------------
(* BRINGING THE FILE UP TO DATE (_migrate_routes, _retire_network).            *)
Honest(row, id) ==
    /\ row.status = "pending" => row.attempts = 0
    /\ row.attempts = 0 => row.status # "sent" /\ ~Arrived(id)
    /\ row.status \in {"cancelled", "retry"} => ~Arrived(id)
    /\ row.status = "sent" => Arrived(id)

Moved(row, id) ==
    /\ row \in Rows(id) /\ Honest(row, id)
    /\ row.attempts = deliveries[id].attempts /\ row.card = deliveries[id].card
    /\ \/ row.status = deliveries[id].status
       \/ /\ deliveries[id].status \in {"pending", "retry"}
          /\ row.status \in {"uncertain", "cancelled"}

Same(x, e) ==
    /\ x \in EventEntry /\ x.payload = events[e].payload
    /\ x.withdrawn = events[e].withdrawn

\* Migration gives a route to the events that have none, and changes nothing else.
LEMMA MigratedRoutes ==
    ASSUME TypeOK
    PROVE  /\ DOMAIN Migrated(events, deliveries).ev = DOMAIN events
           /\ \A e \in DOMAIN events : Same(Migrated(events, deliveries).ev[e], e)
<1> DEFINE m == Migrated(events, deliveries)
           tried(e) == \E id \in Covers(deliveries, e) :
                          deliveries[id].attempts > 0 \/ deliveries[id].status = "sent"
           to(e) == IF tried(e) THEN {id.to : id \in Covers(deliveries, e)} ELSE Route[Kind[e]]
<1>1. m.ev = [e \in DOMAIN events |->
                 IF ~(e \in DOMAIN events /\ events[e].to = {}) THEN events[e]
                 ELSE [events[e] EXCEPT !.to = to(e)]]
  BY DEF Migrated
<1>2. ASSUME NEW e \in DOMAIN events PROVE Same(m.ev[e], e)
  <2>1. events[e] \in EventEntry /\ e \in Events
    BY DEF TypeOK
  <2>2. PICK t : t = to(e)
    OBVIOUS
  <2>3. t \subseteq Roles
    <3>1. Route[Kind[e]] \subseteq Roles
      BY <2>1, Routes
    <3>2. \A id \in Covers(deliveries, e) : id.to \in Roles
      BY IdParts DEF TypeOK, Covers
    <3> QED BY <2>2, <3>1, <3>2
  <2>4. m.ev[e] = events[e] \/ m.ev[e] = [events[e] EXCEPT !.to = t]
    BY <1>1, <2>2
  <2>5. PICK x : x = events[e] /\ x \in EventEntry
    BY <2>1
  <2>6. /\ [x EXCEPT !.to = t] \in EventEntry
        /\ [x EXCEPT !.to = t].payload = x.payload
        /\ [x EXCEPT !.to = t].withdrawn = x.withdrawn
    BY <2>3, <2>5 DEF EventEntry
  <2> QED BY <2>1, <2>4, <2>5, <2>6 DEF Same
<1> QED BY <1>1, <1>2

\* A migrated row is an old one, carried on; one that was never tried is moved.
LEMMA MigratedRows ==
    ASSUME TypeOK, RowsTrue
    PROVE  /\ DOMAIN Migrated(events, deliveries).del = DOMAIN deliveries
           /\ \A id \in DOMAIN deliveries : Moved(Migrated(events, deliveries).del[id], id)
<1> DEFINE m == Migrated(events, deliveries)
           tried(e) == \E id \in Covers(deliveries, e) :
                          deliveries[id].attempts > 0 \/ deliveries[id].status = "sent"
           unrouted == {e \in DOMAIN events : events[e].to = {}}
<1>1. m.del = [id \in DOMAIN deliveries |->
                 IF \E e \in id.events \cap unrouted : tried(e)
                 THEN IF deliveries[id].status \in {"pending", "retry"}
                      THEN [deliveries[id] EXCEPT !.status = "uncertain"] ELSE deliveries[id]
                 ELSE IF id.events \cap unrouted # {} /\ deliveries[id].status = "pending"
                      THEN [deliveries[id] EXCEPT !.status = "cancelled", !.old = FALSE]
                      ELSE deliveries[id]]
  BY DEF Migrated
<1>2. ASSUME NEW id \in DOMAIN deliveries PROVE Moved(m.del[id], id)
  <2>1. PICK row \in Rows(id) : row = deliveries[id]
    BY RowParts
  <2>2. RowTrue(id)
    BY DEF RowsTrue
  <2>3. CASE m.del[id] = [row EXCEPT !.status = "uncertain"] /\ row.status \in {"pending", "retry"}
    <3>1. /\ [row EXCEPT !.status = "uncertain"] \in Rows(id)
          /\ [row EXCEPT !.status = "uncertain"].status = "uncertain"
          /\ [row EXCEPT !.status = "uncertain"].attempts = row.attempts
          /\ [row EXCEPT !.status = "uncertain"].card = row.card
      BY DEF Rows, Statuses
    <3> QED BY <2>1, <2>2, <2>3, <3>1 DEF Moved, Honest, RowTrue
  <2>4. CASE /\ m.del[id] = [row EXCEPT !.status = "cancelled", !.old = FALSE]
             /\ row.status = "pending"
    <3>1. /\ [row EXCEPT !.status = "cancelled", !.old = FALSE] \in Rows(id)
          /\ [row EXCEPT !.status = "cancelled", !.old = FALSE].status = "cancelled"
          /\ [row EXCEPT !.status = "cancelled", !.old = FALSE].attempts = row.attempts
          /\ [row EXCEPT !.status = "cancelled", !.old = FALSE].card = row.card
      BY DEF Rows, Statuses
    <3> QED BY <2>1, <2>2, <2>4, <3>1 DEF Moved, Honest, RowTrue
  <2>5. CASE m.del[id] = row /\ row.status \notin {"pending", "retry"}
    BY <2>1, <2>2, <2>5 DEF Moved, Honest, RowTrue
  <2>6. CASE m.del[id] = row /\ ~\E e \in id.events \cap unrouted : tried(e)
    <3>1. row.attempts \in Nat
      BY DEF Rows
    <3>2. ASSUME row.status = "retry" PROVE ~Arrived(id)
      <4>1. CASE row.attempts = 0
        BY <2>1, <2>2, <4>1 DEF RowTrue
      <4>2. CASE row.attempts > 0
        <5>1. \A e \in id.events : e \in DOMAIN events /\ id \in Covers(deliveries, e)
          BY RowParts DEF Covers
        <5>2. \A e \in id.events : tried(e)
          BY <2>1, <4>2, <5>1
        <5>3. \A e \in id.events : events[e].to # {}
          BY <2>6, <5>1, <5>2
        <5> QED BY <2>1, <2>2, <3>2, <5>3 DEF RowTrue
      <4> QED BY <3>1, <4>1, <4>2
    <3> QED BY <2>1, <2>2, <2>6, <3>2 DEF Moved, Honest, RowTrue
  <2> QED BY <1>1, <2>1, <2>3, <2>4, <2>5, <2>6
<1> QED BY <1>1, <1>2
--------------------------------------------------------------------------------
\* Withdrawing an event, spelled out: its entry is marked, its untried rows end.
LEMMA WithdrawnAs ==
    ASSUME NEW ev, NEW S, NEW e \in DOMAIN ev, ev[e] \in EventEntry
    PROVE  /\ DOMAIN Withdraw(ev, S) = DOMAIN ev
           /\ Withdraw(ev, S)[e] \in EventEntry
           /\ Withdraw(ev, S)[e].payload = ev[e].payload
           /\ Withdraw(ev, S)[e].to = ev[e].to
           /\ Withdraw(ev, S)[e].withdrawn <=> e \in S \/ ev[e].withdrawn
<1>1. PICK x \in EventEntry : x = ev[e]
  OBVIOUS
<1>2. /\ [x EXCEPT !.withdrawn = TRUE, !.old = FALSE] \in EventEntry
      /\ [x EXCEPT !.withdrawn = TRUE, !.old = FALSE].payload = x.payload
      /\ [x EXCEPT !.withdrawn = TRUE, !.old = FALSE].to = x.to
      /\ [x EXCEPT !.withdrawn = TRUE, !.old = FALSE].withdrawn
  BY DEF EventEntry
<1>3. Withdraw(ev, S)[e] = IF e \in S /\ ~x.withdrawn
                           THEN [x EXCEPT !.withdrawn = TRUE, !.old = FALSE] ELSE x
  BY <1>1 DEF Withdraw
<1>4. DOMAIN Withdraw(ev, S) = DOMAIN ev
  BY DEF Withdraw
<1>5. CASE e \in S /\ ~x.withdrawn
  BY <1>1, <1>2, <1>3, <1>4, <1>5
<1>6. CASE ~(e \in S /\ ~x.withdrawn)
  BY <1>1, <1>3, <1>4, <1>6
<1> QED BY <1>5, <1>6

\* The events after a save or a load: only retired ones are withdrawn.
LEMMA PreparedEvents ==
    ASSUME TypeOK
    PROVE  /\ DOMAIN Prepared.ev = DOMAIN events
           /\ \A e \in DOMAIN events :
                 /\ Prepared.ev[e] \in EventEntry
                 /\ Prepared.ev[e].payload = events[e].payload
                 /\ Prepared.ev[e].withdrawn => e \in Retired \/ events[e].withdrawn
<1> DEFINE m == Migrated(events, deliveries)
<1>1. Prepared.ev = Withdraw(m.ev, Retired)
  BY DEF Prepared, Pensioned
<1>2. DOMAIN m.ev = DOMAIN events /\ \A e \in DOMAIN events : Same(m.ev[e], e)
  BY MigratedRoutes
<1> HIDE DEF m
<1>3. DOMAIN Prepared.ev = DOMAIN m.ev
  BY <1>1 DEF Withdraw
<1>4. ASSUME NEW e \in DOMAIN events
      PROVE  /\ Prepared.ev[e] \in EventEntry
             /\ Prepared.ev[e].payload = events[e].payload
             /\ Prepared.ev[e].withdrawn => e \in Retired \/ events[e].withdrawn
  BY <1>1, <1>2, WithdrawnAs DEF Same
<1> QED BY <1>2, <1>3, <1>4

\* The rows after a save or a load: what is left unsent has no withdrawn event.
LEMMA PreparedRows ==
    ASSUME TypeOK, RowsTrue, WithdrawnNeverSent
    PROVE  /\ DOMAIN Prepared.del = DOMAIN deliveries
           /\ \A id \in DOMAIN deliveries :
                 /\ Moved(Prepared.del[id], id)
                 /\ Prepared.del[id].status \in {"pending", "retry"} =>
                       \A e \in id.events : ~Prepared.ev[e].withdrawn
<1> DEFINE m == Migrated(events, deliveries)
<1>1. Prepared.del = [id \in DOMAIN m.del |->
          IF id.events \cap Retired # {} /\ m.del[id].status \in {"pending", "retry"}
          THEN [m.del[id] EXCEPT !.status = "cancelled", !.old = FALSE]
          ELSE m.del[id]]
  BY DEF Prepared, Pensioned
<1>2. DOMAIN m.del = DOMAIN deliveries /\ \A id \in DOMAIN deliveries : Moved(m.del[id], id)
  BY MigratedRows
<1> HIDE DEF m
<1>3. ASSUME NEW id \in DOMAIN deliveries
      PROVE  /\ Moved(Prepared.del[id], id)
             /\ Prepared.del[id].status \in {"pending", "retry"} =>
                   \A e \in id.events : ~Prepared.ev[e].withdrawn
  <2>1. PICK row \in Rows(id) : row = m.del[id]
    BY <1>2 DEF Moved
  <2>2. Moved(row, id) /\ row.attempts \in Nat
    BY <1>2, <2>1 DEF Rows
  <2>3. CASE id.events \cap Retired # {} /\ row.status \in {"pending", "retry"}
    <3>1. /\ [row EXCEPT !.status = "cancelled", !.old = FALSE] \in Rows(id)
          /\ [row EXCEPT !.status = "cancelled", !.old = FALSE].status = "cancelled"
          /\ [row EXCEPT !.status = "cancelled", !.old = FALSE].attempts = row.attempts
          /\ [row EXCEPT !.status = "cancelled", !.old = FALSE].card = row.card
      BY DEF Rows, Statuses
    <3>2. Prepared.del[id] = [row EXCEPT !.status = "cancelled", !.old = FALSE]
      BY <1>1, <1>2, <2>1, <2>3
    <3>3. ~Arrived(id) /\ deliveries[id].status \in {"pending", "retry"}
      BY <2>2, <2>3 DEF Moved, Honest
    <3> QED BY <2>2, <3>1, <3>2, <3>3 DEF Moved, Honest
  <2>4. CASE ~(id.events \cap Retired # {} /\ row.status \in {"pending", "retry"})
    <3>1. Prepared.del[id] = row
      BY <1>1, <1>2, <2>1, <2>4
    <3>2. ASSUME row.status \in {"pending", "retry"}, NEW e \in id.events
          PROVE  ~Prepared.ev[e].withdrawn
      <4>1. deliveries[id].status \in {"pending", "retry"}
        BY <2>2, <3>2 DEF Moved
      <4>2. e \in DOMAIN events /\ ~events[e].withdrawn
        BY <4>1, RowParts DEF WithdrawnNeverSent
      <4>3. e \notin Retired
        BY <2>4, <3>2
      <4> QED BY <4>2, <4>3, PreparedEvents
    <3> QED BY <2>2, <3>1, <3>2
  <2> QED BY <2>3, <2>4
<1>4. DOMAIN Prepared.del = DOMAIN m.del
  BY <1>1
<1> QED BY <1>2, <1>3, <1>4
--------------------------------------------------------------------------------
(* A FILE BROUGHT UP TO DATE.  Rows carried over, and new ones.                *)
Carried(id) ==
    /\ deliveries'[id] \in Rows(id) /\ RowTrue(id)'
    /\ deliveries'[id].attempts = deliveries[id].attempts
    /\ deliveries'[id].card = deliveries[id].card
    /\ deliveries'[id].status # "cancelled" => deliveries[id].status # "cancelled"
    /\ deliveries'[id].status \in {"pending", "retry"} => \A e \in id.events : ~events'[e].withdrawn

Fresh(id) ==
    /\ id \in Ids /\ id.events \subseteq DOMAIN events
    /\ deliveries'[id] \in Rows(id)
    /\ deliveries'[id].status = "pending" /\ deliveries'[id].attempts = 0
    /\ \A e \in id.events : ~events'[e].withdrawn /\ deliveries'[id].card[e] = events[e].payload
    /\ \A d \in DOMAIN deliveries' : deliveries'[d].status # "cancelled" => Disjoint(id, d)

UpToDate ==
    /\ DOMAIN events' = DOMAIN events
    /\ \A e \in DOMAIN events :
          events'[e] \in EventEntry /\ events'[e].payload = events[e].payload
    /\ IsFiniteSet(DOMAIN deliveries') /\ DOMAIN deliveries \subseteq DOMAIN deliveries'
    /\ \A id \in DOMAIN deliveries : Carried(id)
    /\ \A id \in DOMAIN deliveries' \ DOMAIN deliveries : Fresh(id)

Ready ==
    /\ mail.at = "idle" /\ mail'.at \in {"idle", "loop"}
    /\ mail'.at = "idle" => mail'.todo = {}
    /\ mail' \in Mails /\ mail'.todo \subseteq DOMAIN deliveries'
    /\ \A id \in mail'.todo : mail'.at # "idle" => Unsent(id)'

\* Every operation of a producer or a person ends in one write of the file.
LEMMA Update ==
    ASSUME IInv, Quiet, UpToDate, Ready
    PROVE  IInv'
<1>1. ASSUME NEW id \in DOMAIN deliveries'
      PROVE  /\ id \in Ids /\ id.events \subseteq DOMAIN events'
             /\ deliveries'[id] \in Rows(id) /\ RowTrue(id)'
             /\ \A e \in id.events : deliveries'[id].card[e] = events'[e].payload
             /\ deliveries'[id].status \in {"pending", "retry"} =>
                   \A e \in id.events : ~events'[e].withdrawn
             /\ Kept(id) \/ Added(id)
  <2>1. CASE id \in DOMAIN deliveries
    <3>1. Carried(id)
      BY <2>1 DEF UpToDate
    <3>2. id \in Ids /\ id.events \subseteq DOMAIN events
      BY <2>1, RowParts DEF IInv
    <3>3. \A e \in id.events : deliveries'[id].card[e] = events'[e].payload
      BY <2>1, <3>1, <3>2 DEF IInv, Current, UpToDate, Carried
    <3> QED BY <2>1, <3>1, <3>2, <3>3 DEF UpToDate, Carried, Kept
  <2>2. CASE id \notin DOMAIN deliveries
    <3>1. Fresh(id)
      BY <2>2 DEF UpToDate
    <3>2. ~Arrived(id)'
      BY <2>2, <3>1, Unborn, ArrivedSame DEF Fresh, Quiet
    <3>3. RowTrue(id)'
      BY <3>1, <3>2 DEF RowTrue, Fresh
    <3> QED BY <2>2, <3>1, <3>3 DEF UpToDate, Fresh, Added
  <2> QED BY <2>1, <2>2
<1>2. TypeOK'
  <2>1. /\ DOMAIN events' \subseteq Events
        /\ \A e \in DOMAIN events' : events'[e] \in EventEntry
        /\ DOMAIN archived' \subseteq Events \ DOMAIN events'
    BY DEF IInv, TypeOK, UpToDate, Quiet
  <2>2. /\ DOMAIN deliveries' \subseteq Ids
        /\ \A id \in DOMAIN deliveries' :
              deliveries'[id] \in Rows(id) /\ id.events \subseteq DOMAIN events'
    BY <1>1
  <2>3. mail' \in Mails /\ mail'.todo \subseteq DOMAIN deliveries' /\ mail'.at \notin {"intent", "answered"}
    BY DEF Ready
  <2>4. desk'.arrived \in BOOLEAN /\ (\A m \in inbox' : m.id \in Ids /\ m.attempt \in Nat)
        /\ trouble' \in 0 .. MaxTrouble
    BY DEF IInv, TypeOK, Quiet
  <2> QED BY <2>1, <2>2, <2>3, <2>4 DEF TypeOK
<1>3. RowsTrue'
  BY <1>1 DEF RowsTrue
<1>4. Current'
  BY <1>1 DEF Current
<1>5. WithdrawnNeverSent'
  BY <1>1 DEF WithdrawnNeverSent
<1>6. Rewritten
  BY <1>1 DEF Rewritten, UpToDate
<1> QED BY <1>2, <1>3, <1>4, <1>5, <1>6, FileStep DEF UpToDate, Ready
--------------------------------------------------------------------------------
\* Time passes: a row becomes due.
LEMMA QuarterHourKeeps == ASSUME IInv, QuarterHour PROVE IInv'
<1>1. Quiet /\ events' = events /\ mail' = mail /\ mail.at = "idle"
  BY DEF QuarterHour, Quiet
<1>2. DOMAIN deliveries' = DOMAIN deliveries
  BY DEF QuarterHour
<1>3. ASSUME NEW id \in DOMAIN deliveries PROVE Carried(id)
  <2>1. PICK row \in Rows(id) : row = deliveries[id]
    BY RowParts DEF IInv
  <2>2. deliveries'[id] = [row EXCEPT !.due = TRUE]
    BY <2>1 DEF QuarterHour
  <2>3. /\ deliveries'[id] \in Rows(id)
        /\ deliveries'[id].status = row.status /\ deliveries'[id].attempts = row.attempts
        /\ deliveries'[id].card = row.card
    BY <2>2 DEF Rows
  <2>4. RowTrue(id)'
    BY <1>1, <2>1, <2>3, ArrivedSame DEF IInv, RowsTrue, RowTrue, Quiet
  <2> QED BY <1>1, <2>1, <2>3, <2>4 DEF Carried, IInv, WithdrawnNeverSent
<1>4. UpToDate
  BY <1>1, <1>2, <1>3 DEF UpToDate, IInv, TypeOK
<1>5. Ready
  BY <1>1, <1>2 DEF Ready, IInv, TypeOK, Dispatching
<1> QED BY <1>1, <1>4, <1>5, Update

\* Time passes: rows and events become old.
LEMMA KeepDaysKeeps == ASSUME IInv, KeepDays PROVE IInv'
<1>1. Quiet /\ mail' = mail /\ mail.at = "idle"
  BY DEF KeepDays, Quiet
<1>2. DOMAIN deliveries' = DOMAIN deliveries /\ DOMAIN events' = DOMAIN events
  BY DEF KeepDays
<1>3. ASSUME NEW e \in DOMAIN events
      PROVE  /\ events'[e] \in EventEntry
             /\ events'[e].payload = events[e].payload /\ events'[e].to = events[e].to
             /\ events'[e].withdrawn = events[e].withdrawn
  <2>1. PICK x \in EventEntry : x = events[e]
    BY DEF IInv, TypeOK
  <2>2. events'[e] = [x EXCEPT !.old = TRUE]
    BY <2>1 DEF KeepDays
  <2> QED BY <2>1, <2>2 DEF EventEntry
<1>4. ASSUME NEW id \in DOMAIN deliveries PROVE Carried(id)
  <2>1. PICK row \in Rows(id) : row = deliveries[id]
    BY RowParts DEF IInv
  <2>2. deliveries'[id] = [row EXCEPT !.old = TRUE, !.due = TRUE]
    BY <2>1 DEF KeepDays
  <2>3. /\ deliveries'[id] \in Rows(id)
        /\ deliveries'[id].status = row.status /\ deliveries'[id].attempts = row.attempts
        /\ deliveries'[id].card = row.card
    BY <2>2 DEF Rows
  <2>4. id.events \subseteq DOMAIN events
    BY RowParts DEF IInv
  <2>5. RowTrue(id)'
    BY <1>1, <1>3, <2>1, <2>3, <2>4, ArrivedSame DEF IInv, RowsTrue, RowTrue, Quiet
  <2> QED BY <1>3, <2>1, <2>3, <2>4, <2>5 DEF Carried, IInv, WithdrawnNeverSent
<1>5. UpToDate
  BY <1>2, <1>3, <1>4 DEF UpToDate, IInv
<1>6. Ready
  BY <1>1, <1>2 DEF Ready, IInv, TypeOK, Dispatching
<1> QED BY <1>1, <1>5, <1>6, Update
--------------------------------------------------------------------------------
\* A source that dropped its events: they are withdrawn and their cards end.
LEMMA RetainKeeps ==
    ASSUME IInv, NEW valid, RetainReady(valid)
    PROVE  IInv'
<1> DEFINE invalid == {e \in DOMAIN events : Kind[e] \in Withdrawable} \ valid
<1>1. Quiet /\ mail' = mail /\ mail.at = "idle"
  BY DEF RetainReady, Quiet
<1>2. DOMAIN deliveries' = DOMAIN deliveries /\ DOMAIN events' = DOMAIN events
  BY DEF RetainReady
<1>3. ASSUME NEW e \in DOMAIN events
      PROVE  /\ events'[e] \in EventEntry
             /\ events'[e].payload = events[e].payload /\ events'[e].to = events[e].to
             /\ events'[e].withdrawn => e \in invalid \/ events[e].withdrawn
  <2>1. PICK x \in EventEntry : x = events[e]
    BY DEF IInv, TypeOK
  <2>2. events'[e] = IF e \in valid THEN [x EXCEPT !.withdrawn = FALSE]
                     ELSE Withdraw(events, invalid)[e]
    BY <2>1 DEF RetainReady
  <2>3. CASE e \in valid
    BY <2>1, <2>2, <2>3 DEF EventEntry
  <2>4. CASE e \notin valid
    BY <2>1, <2>2, <2>4, WithdrawnAs
  <2> QED BY <2>3, <2>4
<1>4. ASSUME NEW id \in DOMAIN deliveries PROVE Carried(id)
  <2>1. PICK row \in Rows(id) : row = deliveries[id]
    BY RowParts DEF IInv
  <2>2. deliveries'[id] = IF row.status \in {"pending", "retry"} /\ id.events \cap invalid # {}
                          THEN [row EXCEPT !.status = IF row.attempts > 0 THEN "uncertain"
                                                                          ELSE "cancelled",
                                           !.old = FALSE]
                          ELSE row
    BY <2>1 DEF RetainReady
  <2>3. id.events \subseteq DOMAIN events /\ row.attempts \in Nat /\ RowTrue(id)
    BY <2>1, RowParts DEF IInv, RowsTrue
  <2>4. CASE row.status \in {"pending", "retry"} /\ id.events \cap invalid # {}
    <3>1. PICK s \in {"uncertain", "cancelled"} :
             s = IF row.attempts > 0 THEN "uncertain" ELSE "cancelled"
      OBVIOUS
    <3>2. deliveries'[id] = [row EXCEPT !.status = s, !.old = FALSE]
      BY <2>2, <2>4, <3>1
    <3>3. /\ deliveries'[id] \in Rows(id) /\ deliveries'[id].status = s
          /\ deliveries'[id].attempts = row.attempts /\ deliveries'[id].card = row.card
      BY <3>2 DEF Rows, Statuses
    <3>4. s = "cancelled" => row.attempts = 0
      BY <2>3, <3>1
    <3>5. RowTrue(id)'
      BY <1>1, <2>1, <2>3, <3>1, <3>3, <3>4, ArrivedSame DEF RowTrue, Quiet
    <3> QED BY <2>1, <2>4, <3>1, <3>3, <3>5 DEF Carried
  <2>5. CASE ~(row.status \in {"pending", "retry"} /\ id.events \cap invalid # {})
    <3>1. deliveries'[id] = row
      BY <2>2, <2>5
    <3>2. RowTrue(id)'
      BY <1>1, <1>3, <2>1, <2>3, <3>1, ArrivedSame DEF RowTrue, Quiet
    <3>3. row.status \in {"pending", "retry"} => \A e \in id.events : ~events'[e].withdrawn
      BY <1>3, <2>1, <2>3, <2>5 DEF IInv, WithdrawnNeverSent
    <3> QED BY <2>1, <3>1, <3>2, <3>3 DEF Carried
  <2> QED BY <2>4, <2>5
<1>5. UpToDate
  BY <1>2, <1>3, <1>4 DEF UpToDate, IInv
<1>6. Ready
  BY <1>1, <1>2 DEF Ready, IInv, TypeOK, Dispatching
<1> QED BY <1>1, <1>5, <1>6, Update

\* New contents of a known event: the cards about it go, and none was tried.
LEMMA CorrectKeeps ==
    ASSUME IInv, NEW e \in DOMAIN events, NEW p \in Payloads, mail.at = "idle",
           \A id \in Covers(deliveries, e) : deliveries[id].attempts = 0,
           events' = [events EXCEPT ![e].payload = p],
           deliveries' = Without(deliveries, Covers(deliveries, e)),
           UNCHANGED <<archived, mail, desk, inbox, trouble>>
    PROVE  IInv'
<1>1. DOMAIN events' = DOMAIN events
  OBVIOUS
<1>2. /\ DOMAIN deliveries' = DOMAIN deliveries \ Covers(deliveries, e)
      /\ \A id \in DOMAIN deliveries' : deliveries'[id] = deliveries[id] /\ e \notin id.events
  BY DEF Without, Covers
<1>3. ASSUME NEW f \in DOMAIN events
      PROVE  /\ events'[f] \in EventEntry
             /\ events'[f].to = events[f].to /\ events'[f].withdrawn = events[f].withdrawn
             /\ f # e => events'[f] = events[f]
  <2>1. PICK x \in EventEntry : x = events[f]
    BY DEF IInv, TypeOK
  <2>2. events'[f] = IF f = e THEN [x EXCEPT !.payload = p] ELSE x
    BY <2>1
  <2> QED BY <2>1, <2>2 DEF EventEntry
<1>4. TypeOK'
  <2>1. DOMAIN events' \subseteq Events /\ \A f \in DOMAIN events' : events'[f] \in EventEntry
    BY <1>1, <1>3 DEF IInv, TypeOK
  <2>2. /\ DOMAIN deliveries' \subseteq Ids
        /\ \A id \in DOMAIN deliveries' :
              deliveries'[id] \in Rows(id) /\ id.events \subseteq DOMAIN events'
    BY <1>1, <1>2, RowParts DEF IInv
  <2>3. mail'.todo = {} /\ mail'.at = "idle" /\ mail' \in Mails
    BY DEF IInv, TypeOK, Dispatching
  <2> QED BY <1>1, <2>1, <2>2, <2>3 DEF IInv, TypeOK
<1>5. IsFiniteSet(DOMAIN deliveries')
  BY <1>2, FS_Subset DEF IInv
<1>6. ASSUME NEW id \in DOMAIN deliveries'
      PROVE  /\ RowTrue(id)'
             /\ \A f \in id.events : deliveries'[id].card[f] = events'[f].payload
             /\ deliveries'[id].status \in {"pending", "retry"} =>
                   \A f \in id.events : ~events'[f].withdrawn
  <2>1. /\ id \in DOMAIN deliveries /\ deliveries'[id] = deliveries[id]
        /\ \A f \in id.events : f \in DOMAIN events /\ f # e
    BY <1>2, RowParts DEF IInv
  <2>2. RowTrue(id)
    BY <2>1 DEF IInv, RowsTrue
  <2>3. RowTrue(id)'
    BY <1>3, <2>1, <2>2, ArrivedSame DEF RowTrue
  <2> QED BY <1>3, <2>1, <2>3 DEF IInv, Current, WithdrawnNeverSent
<1>7. Rewritten
  BY <1>2 DEF Rewritten, Kept
<1> QED BY <1>4, <1>5, <1>6, <1>7, FileStep
        DEF Quiet, RowsTrue, Current, WithdrawnNeverSent, IInv, Dispatching

\* An event the file did not know is entered, without a card.
LEMMA EnlistKeeps ==
    ASSUME IInv, NEW e \in Events \ DOMAIN events, e \notin DOMAIN archived, mail.at = "idle",
           NEW x \in EventEntry, events' = Replace(events, e, x),
           UNCHANGED <<deliveries, archived, mail, desk, inbox, trouble>>
    PROVE  IInv'
<1>1. /\ DOMAIN events' = DOMAIN events \cup {e} /\ events'[e] = x
      /\ \A f \in DOMAIN events : events'[f] = events[f]
  BY DEF Replace
<1>2. \A id \in DOMAIN deliveries : \A f \in id.events : f \in DOMAIN events
  BY RowParts DEF IInv
<1>3. TypeOK'
  BY <1>1 DEF IInv, TypeOK
<1>4. ASSUME NEW id \in DOMAIN deliveries PROVE RowTrue(id)'
  <2>1. RowTrue(id)
    BY DEF IInv, RowsTrue
  <2> QED BY <1>1, <1>2, <2>1, ArrivedSame DEF RowTrue
<1>5. Current' /\ WithdrawnNeverSent'
  BY <1>1, <1>2 DEF IInv, Current, WithdrawnNeverSent
<1>6. Rewritten
  BY DEF Rewritten, Kept
<1> QED BY <1>3, <1>4, <1>5, <1>6, FileStep DEF Quiet, RowsTrue, IInv, Dispatching

\* A producer adds an event or corrects one.
LEMMA EnqueueKeeps ==
    ASSUME IInv, NEW e \in Events, NEW p \in Payloads, NEW o \in BOOLEAN, Enqueue(e, p, o)
    PROVE  IInv'
<1>1. CASE e \in DOMAIN events
  BY <1>1, CorrectKeeps DEF Enqueue
<1>2. CASE e \notin DOMAIN events
  <2>1. PICK x : x = [payload |-> p, to |-> Route[Kind[e]], overnight |-> o,
                      withdrawn |-> FALSE, old |-> FALSE]
    OBVIOUS
  <2>2. x \in EventEntry
    BY <2>1, Routes DEF EventEntry
  <2>3. /\ events' = Replace(events, e, x) /\ e \notin DOMAIN archived /\ mail.at = "idle"
        /\ UNCHANGED <<deliveries, archived, mail, desk, inbox, trouble>>
    BY <1>2, <2>1 DEF Enqueue
  <2> QED BY <1>2, <2>2, <2>3, EnlistKeeps
<1> QED BY <1>1, <1>2
--------------------------------------------------------------------------------
(* COMPOSING.  The groups of a role are disjoint, of live events that no card  *)
(* of that role is about; so are the new identifiers.                          *)
Missing(ev, del, r, g) ==
    /\ g # {} /\ g \subseteq DOMAIN ev /\ g \cap Assigned(del, r) = {}
    /\ \A e \in g : ~ev[e].withdrawn

\* What is grouped for a role has no card of that role.
LEMMA GroupsMissing ==
    ASSUME NEW ev, NEW del, NEW r, NEW scope, NEW onDuty,
           NEW g \in Groups(ev, del, r, scope, onDuty)
    PROVE  Missing(ev, del, r, g)
<1> DEFINE missing == {e \in DOMAIN ev \ Assigned(del, r) :
                         /\ InScope(e, scope, onDuty) /\ e \in scope.only
                         /\ ~ev[e].withdrawn /\ r \in ev[e].to}
           overnight == {e \in missing : Kind[e] = "ready" /\ ev[e].overnight}
<1>1. g \in ({overnight} \ {{}}) \cup {{e} : e \in missing \ overnight}
  BY DEF Groups
<1>2. g # {} /\ g \subseteq missing
  BY <1>1
<1> QED BY <1>2 DEF Missing

\* Two groups of one role share no event.
LEMMA GroupsDisjoint ==
    ASSUME NEW ev, NEW del, NEW r, NEW scope, NEW onDuty,
           NEW g \in Groups(ev, del, r, scope, onDuty), NEW h \in Groups(ev, del, r, scope, onDuty),
           g # h
    PROVE  g \cap h = {}
<1> DEFINE missing == {e \in DOMAIN ev \ Assigned(del, r) :
                         /\ InScope(e, scope, onDuty) /\ e \in scope.only
                         /\ ~ev[e].withdrawn /\ r \in ev[e].to}
           overnight == {e \in missing : Kind[e] = "ready" /\ ev[e].overnight}
<1>1. \A x \in {g, h} : x = overnight \/ \E e \in missing \ overnight : x = {e}
  BY DEF Groups
<1> HIDE DEF missing, overnight
<1> QED BY <1>1

NewIds(ev, del, scope, onDuty) ==
    UNION {{FreshId(del, r, g) : g \in Groups(ev, del, r, scope, onDuty)} : r \in Roles}

NewId(ev, del, id) ==
    id \in Ids /\ id \notin DOMAIN del /\ Missing(ev, del, id.to, id.events)

\* A new identifier is free, and nothing of its events is assigned to its role.
LEMMA NewIdsParts ==
    ASSUME NEW ev, NEW del, IsFiniteSet(DOMAIN del), DOMAIN ev \subseteq Events,
           NEW scope, NEW onDuty
    PROVE  \A id \in NewIds(ev, del, scope, onDuty) :
              /\ NewId(ev, del, id)
              /\ id.events \in Groups(ev, del, id.to, scope, onDuty)
              /\ id = FreshId(del, id.to, id.events)
<1> SUFFICES ASSUME NEW r \in Roles, NEW g \in Groups(ev, del, r, scope, onDuty),
                    NEW id, id = FreshId(del, r, g)
             PROVE  /\ NewId(ev, del, id) /\ id.events = g /\ id.to = r
  BY DEF NewIds
<1>1. Missing(ev, del, r, g)
  BY GroupsMissing
<1>2. g \in (SUBSET Events) \ {{}}
  BY <1>1 DEF Missing
<1>3. id \in Ids /\ id \notin DOMAIN del /\ id.to = r /\ id.events = g
  BY <1>2, FreshIdParts
<1> QED BY <1>1, <1>3 DEF NewId

\* Two new identifiers of one role share no event.
LEMMA NewIdsDisjoint ==
    ASSUME NEW ev, NEW del, IsFiniteSet(DOMAIN del), DOMAIN ev \subseteq Events,
           NEW scope, NEW onDuty,
           NEW c \in NewIds(ev, del, scope, onDuty), NEW d \in NewIds(ev, del, scope, onDuty)
    PROVE  Disjoint(c, d)
<1> SUFFICES ASSUME c # d, c.to = d.to PROVE c.events \cap d.events = {}
  BY DEF Disjoint
<1>1. /\ c.events \in Groups(ev, del, c.to, scope, onDuty)
      /\ d.events \in Groups(ev, del, c.to, scope, onDuty)
      /\ c = FreshId(del, c.to, c.events) /\ d = FreshId(del, c.to, d.events)
  BY NewIdsParts
<1>2. c.events # d.events
  BY <1>1
<1> QED BY <1>1, <1>2, GroupsDisjoint

\* One identifier for a role and its events: no more than there are of these.
LEMMA FinitelyMany ==
    ASSUME NEW new \in SUBSET Ids,
           \A c, d \in new : c.to = d.to /\ c.events = d.events => c = d
    PROVE  IsFiniteSet(new)
<1> DEFINE T == Roles \X SUBSET Events
           f == [id \in new |-> <<id.to, id.events>>]
<1>1. IsFiniteSet(SUBSET Events)
  BY Finitely, FS_SUBSET
<1>2. IsFiniteSet(T)
  BY <1>1, Finitely, FS_Product
<1>3. f \in [new -> T]
  BY IdParts
<1>4. \A c, d \in new : f[c] = f[d] => c = d
  OBVIOUS
<1>5. f \in Injection(new, T)
  <2> HIDE DEF f, T
  <2> QED BY <1>3, <1>4 DEF Injection, IsInjective
<1> HIDE DEF f, T
<1> QED BY <1>2, <1>5, FS_Injection

\* A dispatch makes finitely many new rows.
LEMMA NewIdsFinite ==
    ASSUME NEW ev, NEW del, IsFiniteSet(DOMAIN del), DOMAIN ev \subseteq Events,
           NEW scope, NEW onDuty
    PROVE  IsFiniteSet(NewIds(ev, del, scope, onDuty))
<1> DEFINE new == NewIds(ev, del, scope, onDuty)
<1>1. \A id \in new : id \in Ids /\ id = FreshId(del, id.to, id.events)
  BY NewIdsParts DEF NewId
<1> HIDE DEF new
<1>2. \A c, d \in new : c.to = d.to /\ c.events = d.events => c = d
  BY <1>1
<1>3. IsFiniteSet(new)
  BY <1>1, <1>2, FinitelyMany
<1> QED BY <1>3 DEF new
--------------------------------------------------------------------------------
\* A moved row is carried on: nothing it says became wrong.
LEMMA MovedCarries ==
    ASSUME IInv, Quiet, NEW id \in DOMAIN deliveries, Moved(deliveries'[id], id),
           deliveries'[id].status \in {"pending", "retry"} =>
               \A e \in id.events : ~events'[e].withdrawn
    PROVE  /\ Carried(id)
           /\ deliveries'[id].status \in {"pending", "retry"} => Unsent(id)'
<1>1. RowTrue(id)'
  BY ArrivedSame DEF Moved, Honest, RowTrue, Quiet
<1>2. deliveries'[id].status # "cancelled" => deliveries[id].status # "cancelled"
  BY DEF Moved
<1>3. deliveries'[id].status \in {"pending", "retry"} => ~Arrived(id)'
  BY ArrivedSame DEF Moved, Honest, Quiet
<1> QED BY <1>1, <1>2, <1>3 DEF Moved, Carried, Unsent

\* A new row: never tried, with the contents its events have now.
LEMMA PendingRow ==
    ASSUME NEW id \in Ids, NEW card \in [id.events -> Payloads]
    PROVE  /\ Delivery("pending", 0, card) \in Rows(id)
           /\ Delivery("pending", 0, card).status = "pending"
           /\ Delivery("pending", 0, card).attempts = 0
           /\ Delivery("pending", 0, card).card = card
  BY DEF Delivery, Rows, Statuses

\* What is assigned to a role is not part of a new row of it.
LEMMA AssignedDisjoint ==
    ASSUME NEW del, NEW id, id.events \cap Assigned(del, id.to) = {},
           NEW d \in DOMAIN del, del[d].status # "cancelled"
    PROVE  Disjoint(id, d)
<1>1. d.to = id.to => d.events \subseteq Assigned(del, id.to)
  BY DEF Assigned
<1> QED BY <1>1 DEF Disjoint

\* A new row is unsent.
LEMMA FreshUnsent ==
    ASSUME IInv, Quiet, NEW id, Fresh(id), id \notin DOMAIN deliveries
    PROVE  Unsent(id)'
<1>1. ~Arrived(id)'
  BY Unborn, ArrivedSame DEF Quiet, Fresh
<1> QED BY <1>1 DEF Fresh, Unsent

\* A dispatch begins: it loads the file, groups what is missing and plans its sends.
LEMMA BeginKeeps ==
    ASSUME IInv, NEW scope, NEW onDuty, DispatchBegin(scope, onDuty)
    PROVE  IInv'
<1> DEFINE ev == Prepared.ev
           del == Prepared.del
           new == NewIds(ev, del, scope, onDuty)
<1>1. /\ Quiet /\ mail.at = "idle" /\ events' = ev
      /\ deliveries' = Composed(ev, del, scope, onDuty)
      /\ mail'.at = "loop" /\ mail'.id = <<>> /\ mail'.outcome = ""
      /\ mail'.todo \subseteq {id \in DOMAIN deliveries' :
                                 deliveries'[id].status \in {"pending", "retry"}}
      /\ mail' = [Idle EXCEPT !.at = "loop", !.todo = mail'.todo]
  BY DEF DispatchBegin, Quiet, Idle
<1>2. deliveries' = [id \in DOMAIN del \cup new |->
                        IF id \in new
                        THEN Delivery("pending", 0, [e \in id.events |-> ev[e].payload])
                        ELSE del[id]]
  BY <1>1 DEF Composed, NewIds
<1>3. /\ DOMAIN ev = DOMAIN events
      /\ \A e \in DOMAIN events :
            ev[e] \in EventEntry /\ ev[e].payload = events[e].payload
  BY PreparedEvents DEF IInv
<1>4. /\ DOMAIN del = DOMAIN deliveries
      /\ \A id \in DOMAIN deliveries :
            /\ Moved(del[id], id)
            /\ del[id].status \in {"pending", "retry"} => \A e \in id.events : ~ev[e].withdrawn
  BY PreparedRows DEF IInv
<1>5. IsFiniteSet(DOMAIN del) /\ DOMAIN ev \subseteq Events
  BY <1>3, <1>4 DEF IInv, TypeOK
<1>6. \A id \in new : NewId(ev, del, id)
  BY <1>5, NewIdsParts
<1>7. \A c, d \in new : Disjoint(c, d)
  BY <1>5, NewIdsDisjoint
<1>8. IsFiniteSet(new)
  BY <1>5, NewIdsFinite
<1> HIDE DEF ev, del, new
<1>9. DOMAIN deliveries' = DOMAIN deliveries \cup new /\ new \cap DOMAIN deliveries = {}
  BY <1>2, <1>4, <1>6 DEF NewId
<1>10. ASSUME NEW id \in DOMAIN deliveries
       PROVE  Carried(id) /\ (deliveries'[id].status \in {"pending", "retry"} => Unsent(id)')
  <2>1. deliveries'[id] = del[id]
    BY <1>2, <1>4, <1>9
  <2> QED BY <1>1, <1>4, <2>1, MovedCarries
<1>11. ASSUME NEW id \in new PROVE Fresh(id) /\ Unsent(id)'
  <2>1. NewId(ev, del, id) /\ id.events \subseteq DOMAIN events
    BY <1>3, <1>6 DEF NewId, Missing
  <2>2. PICK card : card = [e \in id.events |-> ev[e].payload]
    OBVIOUS
  <2>3. card \in [id.events -> Payloads] /\ \A e \in id.events : card[e] = events[e].payload
    BY <1>3, <2>1, <2>2 DEF EventEntry
  <2>4. deliveries'[id] = Delivery("pending", 0, card)
    BY <1>2, <2>2
  <2>5. /\ deliveries'[id] \in Rows(id) /\ deliveries'[id].status = "pending"
        /\ deliveries'[id].attempts = 0 /\ deliveries'[id].card = card
    BY <2>1, <2>3, <2>4, PendingRow DEF NewId
  <2>6. ASSUME NEW d \in DOMAIN deliveries', deliveries'[d].status # "cancelled"
        PROVE  Disjoint(id, d)
    <3>1. CASE d \in new
      BY <1>7, <3>1
    <3>2. CASE d \notin new
      <4>1. d \in DOMAIN del /\ deliveries'[d] = del[d]
        BY <1>2, <3>2
      <4>2. id.events \cap Assigned(del, id.to) = {}
        BY <2>1 DEF NewId, Missing
      <4> QED BY <2>6, <4>1, <4>2, AssignedDisjoint
    <3> QED BY <3>1, <3>2
  <2>7. Fresh(id)
    <3>1. \A e \in id.events : ~events'[e].withdrawn
      BY <1>1, <2>1 DEF NewId, Missing
    <3> QED BY <2>1, <2>3, <2>5, <2>6, <3>1 DEF Fresh, NewId
  <2> QED BY <1>1, <1>9, <2>7, FreshUnsent
<1>12. UpToDate
  <2>1. IsFiniteSet(DOMAIN deliveries')
    BY <1>8, <1>9, FS_Union DEF IInv
  <2> QED BY <1>1, <1>3, <1>9, <1>10, <1>11, <2>1 DEF UpToDate
<1>13. Ready
  <2>1. \A id \in mail'.todo : id \in DOMAIN deliveries' /\ Unsent(id)'
    BY <1>1, <1>9, <1>10, <1>11
  <2>2. DOMAIN deliveries' \subseteq Ids
    BY <1>6, <1>9 DEF IInv, TypeOK, NewId
  <2>3. mail' \in Mails
    <3>1. PICK todo : todo = mail'.todo
      OBVIOUS
    <3>2. mail' = [at |-> "loop", todo |-> todo, id |-> <<>>, outcome |-> ""]
      BY <1>1, <3>1 DEF Idle
    <3>3. todo \in SUBSET Ids
      BY <2>1, <2>2, <3>1
    <3> QED BY <3>2, <3>3 DEF Mails
  <2> QED BY <1>1, <2>1, <2>3 DEF Ready
<1> QED BY <1>1, <1>12, <1>13, Update
--------------------------------------------------------------------------------
(* A PERSON'S JUDGEMENT.  The row they found is the one on file, so that no    *)
(* attempt was made since: what they found in the chat still holds.            *)
\* The empty desk names no identifier.
LEMMA NoEmptyId == <<>> \notin Ids
<1> SUFFICES ASSUME <<>> \in Ids PROVE FALSE
  OBVIOUS
<1>1. PICK id \in Ids : id = <<>>
  OBVIOUS
<1>2. id \in [to : Roles, events : (SUBSET Events) \ {{}}, v : Nat]
  BY DEF Ids
<1>3. "to" \in DOMAIN id
  BY <1>2
<1>4. DOMAIN id = {}
  BY <1>1
<1> QED BY <1>3, <1>4

\* A row that still looks as it was found: what was found in the chat stands.
LEMMA SeenStands ==
    ASSUME IInv, Seen
    PROVE  /\ desk.id \in DOMAIN deliveries
           /\ deliveries[desk.id].status \in {"retry", "uncertain"}
           /\ desk.arrived <=> Arrived(desk.id)
<1>1. desk.id \in DOMAIN deliveries /\ deliveries[desk.id] = desk.row
      /\ deliveries[desk.id].status \in {"retry", "uncertain"}
  BY DEF Seen
<1>2. desk # NoRow
  <2>1. desk.id \in Ids
    BY <1>1 DEF IInv, TypeOK
  <2>2. NoRow.id = <<>>
    BY DEF NoRow
  <2> QED BY <2>1, <2>2, NoEmptyId
<1> QED BY <1>1, <1>2 DEF IInv, Judging

\* The judged row, as a row of its identifier.
LEMMA JudgedRows ==
    ASSUME IInv, Seen, NEW s \in {"sent", "retry", "cancelled"}
    PROVE  /\ DOMAIN Judged(s) = DOMAIN deliveries
           /\ \A id \in DOMAIN deliveries \ {desk.id} : Judged(s)[id] = Prepared.del[id]
           /\ Judged(s)[desk.id] \in Rows(desk.id)
           /\ Judged(s)[desk.id].status = s
           /\ Judged(s)[desk.id].attempts = deliveries[desk.id].attempts
           /\ Judged(s)[desk.id].card = deliveries[desk.id].card
<1>1. desk.id \in DOMAIN deliveries
  BY SeenStands
<1>2. DOMAIN Prepared.del = DOMAIN deliveries /\ Moved(Prepared.del[desk.id], desk.id)
  BY <1>1, PreparedRows DEF IInv
<1>3. PICK row \in Rows(desk.id) : row = Prepared.del[desk.id]
  BY <1>2 DEF Moved
<1>4. Judged(s) = [Prepared.del EXCEPT ![desk.id] = [row EXCEPT !.status = s, !.due = TRUE, !.old = FALSE]]
  BY <1>3 DEF Judged
<1>5. /\ [row EXCEPT !.status = s, !.due = TRUE, !.old = FALSE] \in Rows(desk.id)
      /\ [row EXCEPT !.status = s, !.due = TRUE, !.old = FALSE].status = s
      /\ [row EXCEPT !.status = s, !.due = TRUE, !.old = FALSE].attempts = row.attempts
      /\ [row EXCEPT !.status = s, !.due = TRUE, !.old = FALSE].card = row.card
  BY DEF Rows, Statuses
<1>6. Judged(s)[desk.id] = [row EXCEPT !.status = s, !.due = TRUE, !.old = FALSE]
  BY <1>1, <1>2, <1>4
<1>7. row.attempts = deliveries[desk.id].attempts /\ row.card = deliveries[desk.id].card
  BY <1>2, <1>3 DEF Moved
<1>8. DOMAIN Judged(s) = DOMAIN deliveries
  BY <1>2, <1>4
<1>9. \A id \in DOMAIN deliveries \ {desk.id} : Judged(s)[id] = Prepared.del[id]
  BY <1>2, <1>4
<1> QED BY <1>5, <1>6, <1>7, <1>8, <1>9

\* The rows nobody judged.
LEMMA OthersCarried ==
    ASSUME IInv, Quiet, NEW id \in DOMAIN deliveries, deliveries'[id] = Prepared.del[id],
           \A e \in id.events : events'[e].withdrawn => Prepared.ev[e].withdrawn
    PROVE  Carried(id)
<1>1. /\ Moved(Prepared.del[id], id)
      /\ Prepared.del[id].status \in {"pending", "retry"} =>
            \A e \in id.events : ~Prepared.ev[e].withdrawn
  BY PreparedRows DEF IInv
<1> QED BY <1>1, MovedCarries

\* Judged delivered.
LEMMA DeliveredKeeps == ASSUME IInv, ResolveDelivered PROVE IInv'
<1>1. /\ Quiet /\ mail' = mail /\ mail.at = "idle" /\ Seen /\ desk.arrived
      /\ events' = Prepared.ev /\ deliveries' = Judged("sent")
  BY DEF ResolveDelivered, Quiet
<1>2. DOMAIN deliveries' = DOMAIN deliveries
  BY <1>1, JudgedRows
<1>3. ASSUME NEW id \in DOMAIN deliveries PROVE Carried(id)
  <2>1. CASE id # desk.id
    <3>1. deliveries'[id] = Prepared.del[id]
      BY <1>1, <2>1, JudgedRows
    <3> QED BY <1>1, <3>1, OthersCarried
  <2>2. CASE id = desk.id
    <3>1. Arrived(id) /\ deliveries[id].status \in {"retry", "uncertain"}
      BY <1>1, <2>2, SeenStands
    <3>2. /\ deliveries'[id] \in Rows(id) /\ deliveries'[id].status = "sent"
          /\ deliveries'[id].attempts = deliveries[id].attempts
          /\ deliveries'[id].card = deliveries[id].card
      BY <1>1, <2>2, JudgedRows
    <3>3. RowTrue(id) /\ (Arrived(id)' <=> Arrived(id))
      BY <1>1, ArrivedSame DEF IInv, RowsTrue, Quiet
    <3>4. RowTrue(id)'
      BY <3>1, <3>2, <3>3 DEF RowTrue
    <3> QED BY <3>1, <3>2, <3>4 DEF Carried
  <2> QED BY <2>1, <2>2
<1>4. UpToDate
  BY <1>1, <1>2, <1>3, PreparedEvents DEF UpToDate, IInv
<1>5. Ready
  BY <1>1, <1>2 DEF Ready, IInv, TypeOK, Dispatching
<1> QED BY <1>1, <1>4, <1>5, Update

\* Not delivered: sent again under its route, or given up.
LEMMA RetriedKeeps ==
    ASSUME IInv, Quiet, mail' = mail, mail.at = "idle", Seen, ~desk.arrived,
           events' = Prepared.ev,
           deliveries' = Judged(IF Obsolete THEN "cancelled" ELSE "retry")
    PROVE  IInv'
<1>1. PICK s \in {"cancelled", "retry"} : s = IF Obsolete THEN "cancelled" ELSE "retry"
  OBVIOUS
<1>2. deliveries' = Judged(s)
  BY <1>1
<1>3. DOMAIN deliveries' = DOMAIN deliveries
  BY <1>2, JudgedRows
<1>4. ASSUME NEW id \in DOMAIN deliveries PROVE Carried(id)
  <2>1. CASE id # desk.id
    <3>1. deliveries'[id] = Prepared.del[id]
      BY <1>2, <2>1, JudgedRows
    <3> QED BY <3>1, OthersCarried
  <2>2. CASE id = desk.id
    <3>1. ~Arrived(id) /\ deliveries[id].status \in {"retry", "uncertain"}
      BY <2>2, SeenStands
    <3>2. /\ deliveries'[id] \in Rows(id) /\ deliveries'[id].status = s
          /\ deliveries'[id].attempts = deliveries[id].attempts
          /\ deliveries'[id].card = deliveries[id].card
      BY <1>2, <2>2, JudgedRows
    <3>3. RowTrue(id) /\ (Arrived(id)' <=> Arrived(id))
      BY ArrivedSame DEF IInv, RowsTrue, Quiet
    <3>4. RowTrue(id)'
      BY <3>1, <3>2, <3>3 DEF RowTrue
    <3>5. s = "retry" => \A e \in id.events : ~events'[e].withdrawn
      BY <1>1, <2>2 DEF Obsolete
    <3> QED BY <3>1, <3>2, <3>4, <3>5 DEF Carried
  <2> QED BY <2>1, <2>2
<1>5. UpToDate
  BY <1>3, <1>4, PreparedEvents DEF UpToDate, IInv
<1>6. Ready
  BY <1>3 DEF Ready, IInv, TypeOK, Dispatching
<1> QED BY <1>5, <1>6, Update
--------------------------------------------------------------------------------
(* ROUTED ANEW (_rebind_confirmed_delivery).                                   *)
Closed(s) == [Judged(s) EXCEPT ![desk.id].status = "cancelled", ![desk.id].old = FALSE]

RoutesOf(id) == Route[Kind[CHOOSE e \in id.events : TRUE]]

Live(id) == {e \in id.events : ~Prepared.ev[e].withdrawn}

Again(s) ==
    {r \in RoutesOf(desk.id) : Live(desk.id) = desk.id.events /\ Assigned(Closed(s), r) \cap Live(desk.id) = {}}

Rebinds(s) == {FreshId(Closed(s), r, desk.id.events) : r \in Again(s)}

\* Judged not delivered under an old route: the row ends, and its events get new rows.
LEMMA ReboundAs ==
    ASSUME NEW s
    PROVE  /\ Rebound(Prepared.ev, Judged(s), desk.id).ev =
                 [e \in DOMAIN Prepared.ev |->
                    IF e \in Live(desk.id)
                    THEN [Prepared.ev[e] EXCEPT !.to = (@ \ {desk.id.to}) \cup RoutesOf(desk.id)]
                    ELSE Prepared.ev[e]]
           /\ Rebound(Prepared.ev, Judged(s), desk.id).del =
                 [d \in DOMAIN Closed(s) \cup Rebinds(s) |->
                    IF d \in Rebinds(s) THEN Delivery("pending", 0, Judged(s)[desk.id].card)
                    ELSE Closed(s)[d]]
  BY DEF Rebound, Closed, RoutesOf, Live, Again, Rebinds

\* The rows once the judged one is given up.
LEMMA ClosedRows ==
    ASSUME IInv, Seen, NEW s \in {"sent", "retry", "cancelled"}
    PROVE  /\ DOMAIN Closed(s) = DOMAIN deliveries
           /\ \A id \in DOMAIN deliveries \ {desk.id} : Closed(s)[id] = Prepared.del[id]
           /\ Closed(s)[desk.id] \in Rows(desk.id)
           /\ Closed(s)[desk.id].status = "cancelled"
           /\ Closed(s)[desk.id].attempts = deliveries[desk.id].attempts
           /\ Closed(s)[desk.id].card = deliveries[desk.id].card
<1>1. PICK j : j = Judged(s)
  OBVIOUS
<1>2. /\ DOMAIN j = DOMAIN deliveries /\ desk.id \in DOMAIN deliveries
      /\ \A id \in DOMAIN deliveries \ {desk.id} : j[id] = Prepared.del[id]
      /\ j[desk.id] \in Rows(desk.id)
      /\ j[desk.id].attempts = deliveries[desk.id].attempts
      /\ j[desk.id].card = deliveries[desk.id].card
  BY <1>1, JudgedRows, SeenStands
<1>3. PICK row \in Rows(desk.id) : row = j[desk.id]
  BY <1>2
<1>4. Closed(s) = [j EXCEPT ![desk.id] = [row EXCEPT !.status = "cancelled", !.old = FALSE]]
  BY <1>1, <1>3 DEF Closed
<1>5. /\ [row EXCEPT !.status = "cancelled", !.old = FALSE] \in Rows(desk.id)
      /\ [row EXCEPT !.status = "cancelled", !.old = FALSE].status = "cancelled"
      /\ [row EXCEPT !.status = "cancelled", !.old = FALSE].attempts = row.attempts
      /\ [row EXCEPT !.status = "cancelled", !.old = FALSE].card = row.card
  BY DEF Rows, Statuses
<1>6. Closed(s)[desk.id] = [row EXCEPT !.status = "cancelled", !.old = FALSE]
  BY <1>2, <1>4
<1>7. DOMAIN Closed(s) = DOMAIN deliveries
  BY <1>2, <1>4
<1>8. \A id \in DOMAIN deliveries \ {desk.id} : Closed(s)[id] = Prepared.del[id]
  BY <1>2, <1>4
<1> QED BY <1>2, <1>3, <1>5, <1>6, <1>7, <1>8

\* The rows that replace it: free identifiers, of roles not served yet.
LEMMA RebindsParts ==
    ASSUME IInv, Seen, NEW s \in {"sent", "retry", "cancelled"}
    PROVE  /\ Rebinds(s) \subseteq Ids
           /\ \A id \in Rebinds(s) :
                 /\ id \notin DOMAIN deliveries /\ id.events = desk.id.events
                 /\ id.events \cap Assigned(Closed(s), id.to) = {}
                 /\ \A e \in id.events : ~Prepared.ev[e].withdrawn
           /\ \A c, d \in Rebinds(s) : c.to = d.to => c = d
<1>1. /\ DOMAIN Closed(s) = DOMAIN deliveries /\ desk.id \in DOMAIN deliveries
      /\ IsFiniteSet(DOMAIN deliveries)
  BY ClosedRows, SeenStands DEF IInv
<1>2. PICK g : g = desk.id.events
  OBVIOUS
<1>3. g \in (SUBSET Events) \ {{}}
  BY <1>1, <1>2, IdParts DEF IInv, TypeOK
<1>4. Again(s) \subseteq Roles
  <2>1. (CHOOSE e \in g : TRUE) \in g
    BY <1>3
  <2>2. RoutesOf(desk.id) \subseteq Roles
    BY <1>2, <1>3, <2>1, Routes DEF RoutesOf
  <2> QED BY <2>2 DEF Again
<1>5. ASSUME NEW r \in Again(s)
      PROVE  /\ FreshId(Closed(s), r, g) \in Ids /\ FreshId(Closed(s), r, g) \notin DOMAIN deliveries
             /\ FreshId(Closed(s), r, g).to = r /\ FreshId(Closed(s), r, g).events = g
  <2>1. r \in Roles
    BY <1>4
  <2>2. PICK del : del = Closed(s)
    OBVIOUS
  <2> QED BY <1>1, <1>3, <2>1, <2>2, FreshIdParts
<1>6. \A id \in Rebinds(s) : \E r \in Again(s) : id = FreshId(Closed(s), r, g)
  BY <1>2 DEF Rebinds
<1>7. \A r \in Again(s) :
         /\ g \cap Assigned(Closed(s), r) = {}
         /\ \A e \in g : ~Prepared.ev[e].withdrawn
  BY <1>2 DEF Again, Live
<1>8. ASSUME NEW id \in Rebinds(s)
      PROVE  /\ id \in Ids /\ id \notin DOMAIN deliveries /\ id.events = desk.id.events
             /\ id.events \cap Assigned(Closed(s), id.to) = {}
             /\ \A e \in id.events : ~Prepared.ev[e].withdrawn
             /\ id = FreshId(Closed(s), id.to, g)
  <2>1. PICK r \in Again(s) : id = FreshId(Closed(s), r, g)
    BY <1>6
  <2>2. id \in Ids /\ id \notin DOMAIN deliveries /\ id.to = r /\ id.events = g
    BY <1>5, <2>1
  <2> QED BY <1>2, <1>7, <2>1, <2>2
<1>9. ASSUME NEW c \in Rebinds(s), NEW d \in Rebinds(s), c.to = d.to PROVE c = d
  <2>1. c = FreshId(Closed(s), c.to, g) /\ d = FreshId(Closed(s), d.to, g)
    BY <1>8
  <2> QED BY <1>9, <2>1
<1> QED BY <1>8, <1>9

\* Judged not delivered, bound to the route of today.
LEMMA ReboundKeeps ==
    ASSUME IInv, Quiet, mail' = mail, mail.at = "idle", Seen, ~desk.arrived,
           NEW s \in {"sent", "retry", "cancelled"},
           events' = Rebound(Prepared.ev, Judged(s), desk.id).ev,
           deliveries' = Rebound(Prepared.ev, Judged(s), desk.id).del
    PROVE  IInv'
<1>1. PICK new : new = Rebinds(s)
  OBVIOUS
<1>2. PICK closed : closed = Closed(s)
  OBVIOUS
<1>3. PICK card : card = Judged(s)[desk.id].card
  OBVIOUS
<1>4. /\ DOMAIN deliveries' = DOMAIN closed \cup new
      /\ \A d \in DOMAIN deliveries' :
            deliveries'[d] = IF d \in new THEN Delivery("pending", 0, card) ELSE closed[d]
  <2>1. deliveries' = [d \in DOMAIN Closed(s) \cup Rebinds(s) |->
                          IF d \in Rebinds(s) THEN Delivery("pending", 0, Judged(s)[desk.id].card)
                          ELSE Closed(s)[d]]
    BY ReboundAs
  <2> QED BY <1>1, <1>2, <1>3, <2>1
<1>5. /\ new \subseteq Ids
      /\ \A id \in new :
            /\ id \notin DOMAIN deliveries /\ id.events = desk.id.events
            /\ id.events \cap Assigned(closed, id.to) = {}
            /\ \A e \in id.events : ~Prepared.ev[e].withdrawn
      /\ \A c, d \in new : c.to = d.to => c = d
  BY <1>1, <1>2, RebindsParts
<1>6. /\ DOMAIN closed = DOMAIN deliveries /\ desk.id \in DOMAIN deliveries
      /\ \A id \in DOMAIN deliveries \ {desk.id} : closed[id] = Prepared.del[id]
      /\ closed[desk.id] \in Rows(desk.id) /\ closed[desk.id].status = "cancelled"
      /\ closed[desk.id].attempts = deliveries[desk.id].attempts
      /\ closed[desk.id].card = deliveries[desk.id].card
  BY <1>2, ClosedRows, SeenStands
<1>7. DOMAIN deliveries' = DOMAIN deliveries \cup new
  BY <1>4, <1>6
<1>8. /\ DOMAIN events' = DOMAIN events
      /\ \A e \in DOMAIN events :
            /\ events'[e] \in EventEntry /\ events'[e].payload = events[e].payload
            /\ events'[e].withdrawn = Prepared.ev[e].withdrawn
  <2>1. PICK ev : ev = Prepared.ev
    OBVIOUS
  <2>2. /\ DOMAIN ev = DOMAIN events
        /\ \A e \in DOMAIN events : ev[e] \in EventEntry /\ ev[e].payload = events[e].payload
    BY <2>1, PreparedEvents DEF IInv
  <2>3. PICK routes : routes = RoutesOf(desk.id)
    OBVIOUS
  <2>4. routes \subseteq Roles
    <3>1. desk.id.events \in (SUBSET Events) /\ desk.id.events # {}
      BY <1>6, IdParts DEF IInv, TypeOK
    <3>2. (CHOOSE e \in desk.id.events : TRUE) \in Events
      BY <3>1
    <3> QED BY <2>3, <3>2, Routes DEF RoutesOf
  <2>5. events' = [e \in DOMAIN ev |->
                      IF e \in Live(desk.id)
                      THEN [ev[e] EXCEPT !.to = (@ \ {desk.id.to}) \cup routes] ELSE ev[e]]
    BY <2>1, <2>3, ReboundAs
  <2>6. ASSUME NEW e \in DOMAIN events
        PROVE  /\ events'[e] \in EventEntry /\ events'[e].payload = events[e].payload
               /\ events'[e].withdrawn = ev[e].withdrawn
    <3>1. PICK x \in EventEntry : x = ev[e]
      BY <2>2
    <3>2. PICK t : t = (x.to \ {desk.id.to}) \cup routes
      OBVIOUS
    <3>3. t \in SUBSET Roles
      BY <2>4, <3>2 DEF EventEntry
    <3>4. events'[e] = x \/ events'[e] = [x EXCEPT !.to = t]
      BY <2>2, <2>5, <3>1, <3>2
    <3>5. /\ [x EXCEPT !.to = t] \in EventEntry
          /\ [x EXCEPT !.to = t].payload = x.payload
          /\ [x EXCEPT !.to = t].withdrawn = x.withdrawn
      BY <3>3 DEF EventEntry
    <3> QED BY <2>2, <3>1, <3>4, <3>5
  <2> QED BY <2>1, <2>2, <2>5, <2>6
<1>9. ASSUME NEW id \in DOMAIN deliveries PROVE Carried(id)
  <2>1. deliveries'[id] = closed[id]
    BY <1>4, <1>5, <1>6, <1>7
  <2>2. CASE id # desk.id
    <3>1. deliveries'[id] = Prepared.del[id]
      BY <1>6, <2>1, <2>2
    <3>2. \A e \in id.events : events'[e].withdrawn => Prepared.ev[e].withdrawn
      BY <1>8, RowParts DEF IInv
    <3> QED BY <3>1, <3>2, OthersCarried
  <2>3. CASE id = desk.id
    <3>1. ~Arrived(id) /\ deliveries[id].status \in {"retry", "uncertain"}
      BY <2>3, SeenStands
    <3>2. /\ deliveries'[id] \in Rows(id) /\ deliveries'[id].status = "cancelled"
          /\ deliveries'[id].attempts = deliveries[id].attempts
          /\ deliveries'[id].card = deliveries[id].card
      BY <1>6, <2>1, <2>3
    <3>3. ~Arrived(id)'
      BY <3>1, ArrivedSame DEF Quiet
    <3>4. RowTrue(id)'
      BY <3>2, <3>3 DEF RowTrue
    <3> QED BY <3>1, <3>2, <3>4 DEF Carried
  <2> QED BY <2>2, <2>3
<1>10. ASSUME NEW id \in new PROVE Fresh(id)
  <2>1. /\ id \in Ids /\ id.events = desk.id.events /\ id.events \subseteq DOMAIN events
    BY <1>5, <1>6, RowParts DEF IInv
  <2>2. card \in [id.events -> Payloads] /\ \A e \in id.events : card[e] = events[e].payload
    <3>1. card = deliveries[desk.id].card
      BY <1>3, JudgedRows
    <3>2. card \in [id.events -> Payloads]
      BY <1>6, <2>1, <3>1, RowParts DEF IInv, Rows
    <3> QED BY <1>6, <2>1, <3>1, <3>2 DEF IInv, Current
  <2>3. deliveries'[id] = Delivery("pending", 0, card)
    BY <1>4
  <2>4. /\ deliveries'[id] \in Rows(id) /\ deliveries'[id].status = "pending"
        /\ deliveries'[id].attempts = 0 /\ deliveries'[id].card = card
    BY <2>1, <2>2, <2>3, PendingRow
  <2>5. ASSUME NEW d \in DOMAIN deliveries', deliveries'[d].status # "cancelled"
        PROVE  Disjoint(id, d)
    <3>1. CASE d \in new
      BY <1>5, <3>1 DEF Disjoint
    <3>2. CASE d \notin new
      <4>1. d \in DOMAIN closed /\ deliveries'[d] = closed[d]
        BY <1>4, <3>2
      <4> QED BY <1>5, <2>5, <4>1, AssignedDisjoint
    <3> QED BY <3>1, <3>2
  <2>6. \A e \in id.events : ~events'[e].withdrawn
    BY <1>5, <1>8, <2>1
  <2> QED BY <2>1, <2>2, <2>4, <2>5, <2>6 DEF Fresh
<1>11. UpToDate
  <2>1. IsFiniteSet(new)
    BY <1>5, FinitelyMany
  <2>2. IsFiniteSet(DOMAIN deliveries')
    BY <1>7, <2>1, FS_Union DEF IInv
  <2> QED BY <1>7, <1>8, <1>9, <1>10, <2>2 DEF UpToDate
<1>12. Ready
  BY <1>7 DEF Ready, IInv, TypeOK, Dispatching
<1> QED BY <1>11, <1>12, Update

\* Judged not delivered, either way.
LEMMA NotDeliveredKeeps == ASSUME IInv, ResolveNotDelivered PROVE IInv'
<1>1. /\ Quiet /\ mail' = mail /\ mail.at = "idle" /\ Seen /\ ~desk.arrived
  BY DEF ResolveNotDelivered, Quiet
<1>2. CASE Routed(desk.id)
  <2>1. /\ events' = Prepared.ev
        /\ deliveries' = Judged(IF Obsolete THEN "cancelled" ELSE "retry")
    BY <1>2 DEF ResolveNotDelivered
  <2> QED BY <1>1, <2>1, RetriedKeeps
<1>3. CASE ~Routed(desk.id)
  <2>1. PICK s \in {"cancelled", "retry"} : s = IF Obsolete THEN "cancelled" ELSE "retry"
    OBVIOUS
  <2>2. /\ events' = Rebound(Prepared.ev, Judged(s), desk.id).ev
        /\ deliveries' = Rebound(Prepared.ev, Judged(s), desk.id).del
    BY <1>3, <2>1 DEF ResolveNotDelivered
  <2> QED BY <1>1, <2>2, ReboundKeeps
<1> QED BY <1>2, <1>3
--------------------------------------------------------------------------------
(* SENDING.                                                                    *)
\* A dispatcher that does nothing is in a state of its type.
LEMMA MailIsIdle ==
    /\ Idle \in Mails /\ Idle.at = "idle" /\ Idle.todo = {}
  BY DEF Idle, Mails

\* The attempt is counted and written as uncertain before the request leaves.
LEMMA IntendKeeps == ASSUME IInv, Intend PROVE IInv'
<1>1. PICK id \in mail.todo :
         /\ mail' = [mail EXCEPT !.at = "intent", !.id = id, !.todo = @ \ {id}]
         /\ deliveries' = [deliveries EXCEPT ![id].attempts = @ + 1, ![id].due = FALSE,
                                             ![id].status = "uncertain"]
  BY DEF Intend
<1>2. mail.at = "loop" /\ UNCHANGED <<events, archived, desk, inbox, trouble>>
  BY DEF Intend
<1>3. /\ id \in DOMAIN deliveries /\ Unsent(id) /\ id \in Ids /\ id.events \subseteq DOMAIN events
  BY <1>2, RowParts DEF IInv, TypeOK, Dispatching
<1>4. PICK row \in Rows(id) : row = deliveries[id]
  BY <1>3, RowParts DEF IInv
<1>5. /\ DOMAIN deliveries' = DOMAIN deliveries
      /\ deliveries'[id] = [row EXCEPT !.attempts = row.attempts + 1, !.due = FALSE,
                                       !.status = "uncertain"]
      /\ \A d \in DOMAIN deliveries \ {id} : deliveries'[d] = deliveries[d]
  BY <1>1, <1>3, <1>4
<1>6. row.attempts \in Nat
  BY DEF Rows
<1>7. /\ deliveries'[id] \in Rows(id) /\ deliveries'[id].status = "uncertain"
      /\ deliveries'[id].attempts = row.attempts + 1 /\ deliveries'[id].card = row.card
  <2>1. PICK n \in Nat : n = row.attempts + 1
    BY <1>6
  <2>2. deliveries'[id] = [row EXCEPT !.attempts = n, !.due = FALSE, !.status = "uncertain"]
    BY <1>5, <2>1
  <2>3. /\ [row EXCEPT !.attempts = n, !.due = FALSE, !.status = "uncertain"] \in Rows(id)
        /\ [row EXCEPT !.attempts = n, !.due = FALSE, !.status = "uncertain"].status = "uncertain"
        /\ [row EXCEPT !.attempts = n, !.due = FALSE, !.status = "uncertain"].attempts = n
        /\ [row EXCEPT !.attempts = n, !.due = FALSE, !.status = "uncertain"].card = row.card
    BY DEF Rows, Statuses
  <2> QED BY <2>1, <2>2, <2>3
<1>8. /\ mail'.at = "intent" /\ mail'.id = id /\ mail'.todo = mail.todo \ {id} /\ mail' \in Mails
  BY <1>1, <1>3 DEF IInv, TypeOK, Mails
<1>9. /\ \A x : Arrived(x)' <=> Arrived(x)
      /\ \A e, r : ToldTo(e, r)' <=> ToldTo(e, r)
  BY <1>2, ArrivedSame
<1>10. TypeOK'
  <2>1. \A d \in DOMAIN deliveries' :
           deliveries'[d] \in Rows(d) /\ d.events \subseteq DOMAIN events' /\ d \in Ids
    BY <1>2, <1>3, <1>5, <1>7, RowParts DEF IInv
  <2>2. mail' \in Mails /\ mail'.todo \subseteq DOMAIN deliveries' /\ mail'.id \in DOMAIN deliveries'
    BY <1>3, <1>5, <1>8 DEF IInv, TypeOK
  <2> QED BY <1>2, <2>1, <2>2 DEF IInv, TypeOK
<1>11. RowsTrue' /\ IsFiniteSet(DOMAIN deliveries')
  <2>1. ASSUME NEW d \in DOMAIN deliveries' PROVE RowTrue(d)'
    <3>1. CASE d = id
      BY <1>6, <1>7, <3>1 DEF RowTrue
    <3>2. CASE d # id
      <4>1. deliveries'[d] = deliveries[d] /\ RowTrue(d)
        BY <1>5, <3>2 DEF IInv, RowsTrue
      <4> QED BY <1>2, <1>9, <4>1 DEF RowTrue
    <3> QED BY <3>1, <3>2
  <2> QED BY <1>5, <2>1 DEF RowsTrue, IInv
<1>12. Single' /\ OnFile'
  <2>1. \A d : Alive(d)' => Alive(d)
    BY <1>3, <1>5 DEF Alive, Unsent
  <2>2. Single'
    BY <1>5, <2>1 DEF IInv, Single, Disjoint
  <2> QED BY <1>2, <1>5, <2>2 DEF IInv, OnFile
<1>13. Dispatching'
  <2>1. ASSUME NEW d \in mail'.todo PROVE Unsent(d)'
    <3>1. d \in DOMAIN deliveries \ {id} /\ Unsent(d)
      BY <1>2, <1>8 DEF IInv, Dispatching, TypeOK
    <3> QED BY <1>5, <1>9, <3>1 DEF Unsent
  <2>2. \A e \in id.events : ~events'[e].withdrawn
    BY <1>2, <1>3 DEF IInv, WithdrawnNeverSent, Unsent
  <2>3. ~Arrived(id)'
    BY <1>3, <1>9 DEF Unsent
  <2> QED BY <1>6, <1>7, <1>8, <2>1, <2>2, <2>3 DEF Dispatching
<1>14. Judging'
  <2> SUFFICES ASSUME desk # NoRow PROVE Judging'
    BY <1>2 DEF Judging
  <2>1. CASE desk.id = id
    <3>1. /\ desk.id \in Ids /\ desk.row.attempts \in Nat
          /\ desk.row.attempts = 0 => ~desk.arrived
          /\ row.attempts >= desk.row.attempts
      BY <1>3, <1>4, <2>1 DEF IInv, Judging
    <3>2. /\ deliveries'[desk.id].attempts >= desk.row.attempts
          /\ deliveries'[desk.id].attempts # desk.row.attempts
      BY <1>6, <1>7, <2>1, <3>1
    <3> QED BY <1>2, <1>3, <1>5, <2>1, <3>1, <3>2 DEF Judging
  <2>2. CASE desk.id # id
    <3>1. ~UnderWay(desk.id)'
      BY <1>8, <1>2, <2>2 DEF UnderWay
    <3> QED BY <1>2, <1>5, <1>9, <2>2, <3>1 DEF IInv, Judging
  <2> QED BY <2>1, <2>2
<1>15. Current' /\ WithdrawnNeverSent'
  <2>1. ASSUME NEW d \in DOMAIN deliveries'
        PROVE  /\ \A e \in d.events : deliveries'[d].card[e] = events'[e].payload
               /\ deliveries'[d].status \in {"pending", "retry"} =>
                     \A e \in d.events : ~events'[e].withdrawn
    <3>1. CASE d = id
      BY <1>2, <1>3, <1>4, <1>7, <3>1 DEF IInv, Current
    <3>2. CASE d # id
      BY <1>2, <1>5, <3>2 DEF IInv, Current, WithdrawnNeverSent
    <3> QED BY <3>1, <3>2
  <2> QED BY <2>1 DEF Current, WithdrawnNeverSent
<1>16. SettledMeansTold' /\ ToldAtMostOnce'
  <2>1. \A d \in DOMAIN deliveries' : deliveries'[d].status = "sent" => Arrived(d)'
    BY <1>11 DEF RowsTrue, RowTrue
  <2> QED BY <1>2, <1>9, <2>1 DEF IInv, SettledMeansTold, ToldAtMostOnce
<1> QED BY <1>10, <1>11, <1>12, <1>13, <1>14, <1>15, <1>16 DEF IInv

\* A request that left: its card may have arrived.
LEMMA CardArrives ==
    ASSUME IInv, mail.at = "intent", inbox' = inbox \cup {Card},
           UNCHANGED <<events, deliveries, archived, desk>>
    PROVE  /\ \A x : Arrived(x)' <=> Arrived(x) \/ x = mail.id
           /\ \A m \in inbox' : m.id \in Ids /\ m.attempt \in Nat
           /\ OnFile' /\ ToldAtMostOnce'
           /\ \A e, r : ToldTo(e, r) => ToldTo(e, r)'
<1>1. /\ mail.id \in DOMAIN deliveries /\ ~Arrived(mail.id)
      /\ deliveries[mail.id].status = "uncertain" /\ deliveries[mail.id].attempts \in Nat
      /\ mail.id \in Ids /\ mail.id.events \subseteq DOMAIN events
  BY RowParts DEF IInv, TypeOK, Dispatching
<1>2. Card.id = mail.id /\ Card.attempt \in Nat
  BY <1>1 DEF Card
<1>3. PICK c : c = Card
  OBVIOUS
<1>4. inbox' = inbox \cup {c} /\ c.id = mail.id /\ c.attempt \in Nat
  BY <1>2, <1>3
<1>5. \A m \in inbox : m.id # c.id
  BY <1>1, <1>4 DEF Arrived
<1>6. \A x : Arrived(x)' <=> Arrived(x) \/ x = mail.id
  BY <1>4 DEF Arrived
<1>7. \A m \in inbox' : m.id \in Ids /\ m.attempt \in Nat
  BY <1>1, <1>4 DEF IInv, TypeOK
<1>8. OnFile'
  BY <1>1, <1>4, <1>5 DEF IInv, OnFile
<1>9. ASSUME NEW m \in inbox, m.id.to = c.id.to PROVE m.id.events \cap c.id.events = {}
  <2>1. CASE m.id \in DOMAIN deliveries
    <3>1. Arrived(m.id)
      BY DEF Arrived
    <3>2. Alive(m.id) /\ Alive(c.id)
      BY <1>1, <1>4, <2>1, <3>1 DEF IInv, RowsTrue, RowTrue, Alive
    <3>3. Disjoint(m.id, c.id)
      BY <3>2 DEF IInv, Single, Alive
    <3> QED BY <1>5, <1>9, <3>3 DEF Disjoint
  <2>2. CASE m.id.events \subseteq DOMAIN archived
    BY <1>1, <1>4, <2>2 DEF IInv, TypeOK
  <2> QED BY <2>1, <2>2 DEF IInv, OnFile
<1>10. ToldAtMostOnce'
  <2> SUFFICES ASSUME NEW m \in inbox', NEW n \in inbox', m # n, m.id.to = n.id.to
               PROVE  m.id.events \cap n.id.events = {}
    BY DEF ToldAtMostOnce
  <2>1. CASE m \in inbox /\ n \in inbox
    BY <2>1 DEF IInv, ToldAtMostOnce
  <2>2. CASE m = c
    BY <1>4, <1>9, <2>2
  <2>3. CASE n = c
    BY <1>4, <1>9, <2>3
  <2> QED BY <1>4, <2>1, <2>2, <2>3
<1>11. \A e, r : ToldTo(e, r) => ToldTo(e, r)'
  BY <1>4 DEF ToldTo
<1> QED BY <1>6, <1>7, <1>8, <1>10, <1>11

\* Whether a card came or not: what Send and Crash have in common.
LEMMA MayArrive ==
    ASSUME IInv, UNCHANGED <<events, deliveries, archived, desk>>,
           \/ inbox' = inbox
           \/ mail.at = "intent" /\ inbox' = inbox \cup {Card}
    PROVE  /\ \A x : Arrived(x)' <=> Arrived(x) \/ (x = mail.id /\ inbox' # inbox)
           /\ inbox' # inbox => mail.at = "intent"
           /\ \A m \in inbox' : m.id \in Ids /\ m.attempt \in Nat
           /\ RowsTrue' /\ Single' /\ OnFile' /\ Current' /\ WithdrawnNeverSent'
           /\ SettledMeansTold' /\ ToldAtMostOnce'
<1>1. CASE inbox' = inbox
  <2>1. RowsTrue'
    BY <1>1, ArrivedSame DEF IInv, RowsTrue, RowTrue
  <2>2. SettledMeansTold'
    BY <1>1, ArrivedSame DEF IInv, SettledMeansTold
  <2>3. (\A m \in inbox' : m.id \in Ids /\ m.attempt \in Nat) /\ OnFile' /\ ToldAtMostOnce'
    BY <1>1 DEF IInv, TypeOK, OnFile, ToldAtMostOnce
  <2>4. Single' /\ Current' /\ WithdrawnNeverSent'
    BY DEF IInv, Single, Alive, Disjoint, Current, WithdrawnNeverSent
  <2> QED BY <1>1, <2>1, <2>2, <2>3, <2>4, ArrivedSame
<1>2. CASE mail.at = "intent" /\ inbox' = inbox \cup {Card}
  <2>1. /\ \A x : Arrived(x)' <=> Arrived(x) \/ x = mail.id
        /\ \A m \in inbox' : m.id \in Ids /\ m.attempt \in Nat
        /\ OnFile' /\ ToldAtMostOnce' /\ \A e, r : ToldTo(e, r) => ToldTo(e, r)'
    BY <1>2, CardArrives
  <2>2. inbox' # inbox
    <3>1. PICK x : x = mail.id
      OBVIOUS
    <3>2. ~Arrived(x)
      BY <1>2, <3>1 DEF IInv, Dispatching
    <3>3. Arrived(x)'
      BY <2>1, <3>1
    <3> QED BY <3>2, <3>3, ArrivedSame
  <2>3. RowsTrue'
    <3>1. ASSUME NEW d \in DOMAIN deliveries PROVE RowTrue(d)'
      <4>1. RowTrue(d)
        BY DEF IInv, RowsTrue
      <4>2. CASE d # mail.id
        BY <2>1, <4>1, <4>2 DEF RowTrue
      <4>3. CASE d = mail.id
        <5>1. deliveries[d].status = "uncertain" /\ deliveries[d].attempts > 0
              /\ deliveries[d].attempts \in Nat
          BY <1>2, <4>3, RowParts DEF IInv, Dispatching
        <5> QED BY <5>1 DEF RowTrue
      <4> QED BY <4>2, <4>3
    <3> QED BY <3>1 DEF RowsTrue
  <2>4. SettledMeansTold'
    BY <2>1 DEF IInv, SettledMeansTold
  <2>5. Single' /\ Current' /\ WithdrawnNeverSent'
    BY DEF IInv, Single, Alive, Disjoint, Current, WithdrawnNeverSent
  <2> QED BY <1>2, <2>1, <2>2, <2>3, <2>4, <2>5
<1> QED BY <1>1, <1>2
--------------------------------------------------------------------------------
\* The request leaves, and the answer says what it says.
LEMMA SendKeeps == ASSUME IInv, Send PROVE IInv'
<1>1. /\ mail.at = "intent" /\ UNCHANGED <<events, deliveries, archived, desk>>
      /\ trouble' \in {trouble, trouble + 1} /\ trouble' <= MaxTrouble
  BY DEF Send
<1>2. PICK came \in BOOLEAN, known \in BOOLEAN :
         /\ inbox' = IF came THEN inbox \cup {Card} ELSE inbox
         /\ mail' = [mail EXCEPT !.at = "answered",
                        !.outcome = IF ~known THEN "uncertain"
                                    ELSE IF came THEN "sent" ELSE "retry"]
  BY DEF Send
<1>3. PICK o \in {"uncertain", "sent", "retry"} :
         o = IF ~known THEN "uncertain" ELSE IF came THEN "sent" ELSE "retry"
  OBVIOUS
<1>4. /\ mail'.at = "answered" /\ mail'.outcome = o /\ mail'.id = mail.id
      /\ mail'.todo = mail.todo /\ mail' \in Mails
  <2>1. mail' = [mail EXCEPT !.at = "answered", !.outcome = o]
    BY <1>2, <1>3
  <2> QED BY <2>1 DEF IInv, TypeOK, Mails
<1>5. PICK id : id = mail.id
  OBVIOUS
<1>6. /\ id \in DOMAIN deliveries /\ ~Arrived(id) /\ deliveries[id].status = "uncertain"
      /\ deliveries[id].attempts > 0 /\ \A e \in id.events : ~events[e].withdrawn
  BY <1>1, <1>5 DEF IInv, TypeOK, Dispatching
<1>7. inbox' = inbox \/ (mail.at = "intent" /\ inbox' = inbox \cup {Card})
  BY <1>1, <1>2
<1>8. /\ \A x : Arrived(x)' <=> Arrived(x) \/ (x = mail.id /\ inbox' # inbox)
      /\ \A m \in inbox' : m.id \in Ids /\ m.attempt \in Nat
      /\ RowsTrue' /\ Single' /\ OnFile' /\ Current' /\ WithdrawnNeverSent'
      /\ SettledMeansTold' /\ ToldAtMostOnce'
  BY <1>1, <1>7, MayArrive
<1>9. TypeOK'
  <2>1. trouble' \in 0 .. MaxTrouble
    BY <1>1, Bounds DEF IInv, TypeOK
  <2>2. mail' \in Mails /\ mail'.todo \subseteq DOMAIN deliveries' /\ mail'.id \in DOMAIN deliveries'
    BY <1>1, <1>4, <1>5, <1>6 DEF IInv, TypeOK
  <2> QED BY <1>1, <1>8, <2>1, <2>2 DEF IInv, TypeOK
<1>10. Dispatching'
  <2>1. ASSUME NEW d \in mail'.todo PROVE Unsent(d)'
    <3>1. Unsent(d)
      BY <1>1, <1>4 DEF IInv, Dispatching
    <3>2. d # id
      BY <1>6, <3>1 DEF Unsent
    <3> QED BY <1>1, <1>5, <1>8, <3>1, <3>2 DEF Unsent
  <2>2. /\ deliveries'[id].status = "uncertain" /\ deliveries'[id].attempts > 0
        /\ \A e \in id.events : ~events'[e].withdrawn
    BY <1>1, <1>6
  <2>3. o = "sent" => Arrived(id)'
    <3>1. ASSUME o = "sent" PROVE Arrived(id)'
      <4>1. inbox' = inbox \cup {Card}
        BY <1>2, <1>3, <3>1
      <4>2. Card.id = id
        BY <1>5 DEF Card
      <4> QED BY <4>1, <4>2 DEF Arrived
    <3> QED BY <3>1
  <2>4. o = "retry" => ~Arrived(id)'
    <3>1. ASSUME o = "retry" PROVE inbox' = inbox
      BY <1>2, <1>3, <3>1
    <3> QED BY <1>6, <3>1, ArrivedSame
  <2>5. mail'.id = id
    BY <1>4, <1>5
  <2> QED BY <1>4, <2>1, <2>2, <2>3, <2>4, <2>5 DEF Dispatching
<1>11. Judging'
  <2> SUFFICES ASSUME desk # NoRow PROVE Judging'
    BY <1>1 DEF Judging
  <2>1. PICK d : d = desk.id
    OBVIOUS
  <2>2. CASE d = id
    <3>1. d \in DOMAIN deliveries' /\ UnderWay(d)
      BY <1>1, <1>5, <1>6, <2>2 DEF UnderWay
    <3>2. /\ desk.id \in Ids /\ desk.row.attempts \in Nat
          /\ desk.row.attempts = 0 => ~desk.arrived
          /\ deliveries[d].attempts >= desk.row.attempts
          /\ deliveries[d].attempts # desk.row.attempts
      BY <1>1, <2>1, <3>1 DEF IInv, Judging
    <3> QED BY <1>1, <2>1, <3>1, <3>2 DEF Judging
  <2>3. CASE d # id
    <3>1. Arrived(d)' <=> Arrived(d)
      BY <1>5, <1>8, <2>3
    <3>2. ~UnderWay(d)'
      BY <1>4, <1>5, <2>3 DEF UnderWay
    <3>3. desk'.id = d
      BY <1>1, <2>1
    <3> QED BY <1>1, <2>1, <3>1, <3>2, <3>3 DEF IInv, Judging
  <2> QED BY <2>2, <2>3
<1> QED BY <1>1, <1>8, <1>9, <1>10, <1>11 DEF IInv

\* The process dies: a request under way may still arrive.
LEMMA CrashKeeps == ASSUME IInv, Crash PROVE IInv'
<1>1. /\ mail' = Idle /\ UNCHANGED <<events, deliveries, archived, desk>>
      /\ trouble' = trouble + 1 /\ trouble < MaxTrouble
  BY DEF Crash
<1>2. inbox' = inbox \/ (mail.at = "intent" /\ inbox' = inbox \cup {Card})
  BY DEF Crash
<1>3. /\ \A x : Arrived(x)' <=> Arrived(x) \/ (x = mail.id /\ inbox' # inbox)
      /\ inbox' # inbox => mail.at = "intent"
      /\ \A m \in inbox' : m.id \in Ids /\ m.attempt \in Nat
      /\ RowsTrue' /\ Single' /\ OnFile' /\ Current' /\ WithdrawnNeverSent'
      /\ SettledMeansTold' /\ ToldAtMostOnce'
  BY <1>1, <1>2, MayArrive
<1>4. TypeOK'
  <2>1. trouble' \in 0 .. MaxTrouble
    BY <1>1, Bounds DEF IInv, TypeOK
  <2>2. mail' \in Mails /\ mail'.todo = {} /\ mail'.at = "idle"
    BY <1>1, MailIsIdle
  <2> QED BY <1>1, <1>3, <2>1, <2>2 DEF IInv, TypeOK
<1>5. Dispatching'
  BY <1>1, MailIsIdle DEF Dispatching
<1>6. Judging'
  <2> SUFFICES ASSUME desk # NoRow PROVE Judging'
    BY <1>1 DEF Judging
  <2>1. PICK d : d = desk.id
    OBVIOUS
  <2>2. ~UnderWay(d)' /\ desk'.id = d
    BY <1>1, <2>1, MailIsIdle DEF UnderWay
  <2>3. CASE d = mail.id /\ inbox' # inbox
    <3>1. d \in DOMAIN deliveries' /\ UnderWay(d)
      BY <1>1, <1>3, <2>3 DEF UnderWay, IInv, TypeOK
    <3>2. /\ desk.id \in Ids /\ desk.row.attempts \in Nat
          /\ desk.row.attempts = 0 => ~desk.arrived
          /\ deliveries[d].attempts >= desk.row.attempts
          /\ deliveries[d].attempts # desk.row.attempts
      BY <1>1, <2>1, <3>1 DEF IInv, Judging
    <3> QED BY <1>1, <2>1, <3>1, <3>2 DEF Judging
  <2>4. CASE ~(d = mail.id /\ inbox' # inbox)
    <3>1. Arrived(d)' <=> Arrived(d)
      BY <1>3, <2>4
    <3> QED BY <1>1, <2>1, <2>2, <3>1 DEF IInv, Judging
  <2> QED BY <2>3, <2>4
<1> QED BY <1>1, <1>3, <1>4, <1>5, <1>6 DEF IInv

\* The answer is written to the row that was marked uncertain.
LEMMA RecordKeeps == ASSUME IInv, Record PROVE IInv'
<1>1. /\ mail.at = "answered" /\ UNCHANGED <<events, archived, desk, inbox, trouble>>
      /\ mail' = [mail EXCEPT !.at = "loop", !.id = <<>>, !.outcome = ""]
  BY DEF Record
<1>2. PICK id : id = mail.id
  OBVIOUS
<1>3. PICK o : o = mail.outcome
  OBVIOUS
<1>4. /\ id \in DOMAIN deliveries /\ deliveries[id].status = "uncertain"
      /\ deliveries[id].attempts > 0 /\ \A e \in id.events : ~events[e].withdrawn
      /\ o \in {"sent", "retry", "uncertain"}
      /\ o = "sent" => Arrived(id)
      /\ o = "retry" => ~Arrived(id)
  BY <1>1, <1>2, <1>3 DEF IInv, TypeOK, Dispatching, Mails
<1>5. PICK row \in Rows(id) : row = deliveries[id]
  BY <1>4, RowParts DEF IInv
<1>6. /\ DOMAIN deliveries' = DOMAIN deliveries
      /\ deliveries'[id] = [row EXCEPT !.status = o, !.old = FALSE]
      /\ \A d \in DOMAIN deliveries \ {id} : deliveries'[d] = deliveries[d]
  <2>1. deliveries' = [deliveries EXCEPT ![id].status = o, ![id].old = FALSE]
    BY <1>2, <1>3 DEF Record
  <2> QED BY <1>4, <1>5, <2>1
<1>7. /\ deliveries'[id] \in Rows(id) /\ deliveries'[id].status = o
      /\ deliveries'[id].attempts = row.attempts /\ deliveries'[id].card = row.card
  BY <1>4, <1>6 DEF Rows, Statuses
<1>8. /\ mail'.at = "loop" /\ mail'.todo = mail.todo /\ mail' \in Mails
  BY <1>1 DEF IInv, TypeOK, Mails
<1>9. /\ \A x : Arrived(x)' <=> Arrived(x)
      /\ \A e, r : ToldTo(e, r)' <=> ToldTo(e, r)
  BY <1>1, ArrivedSame
<1>10. TypeOK' /\ IsFiniteSet(DOMAIN deliveries')
  <2>1. \A d \in DOMAIN deliveries' :
           deliveries'[d] \in Rows(d) /\ d.events \subseteq DOMAIN events' /\ d \in Ids
    BY <1>1, <1>4, <1>6, <1>7, RowParts DEF IInv
  <2>2. mail' \in Mails /\ mail'.todo \subseteq DOMAIN deliveries' /\ mail'.at = "loop"
    BY <1>6, <1>8 DEF IInv, TypeOK
  <2> QED BY <1>1, <1>6, <2>1, <2>2 DEF IInv, TypeOK
<1>11. ASSUME NEW d \in DOMAIN deliveries'
       PROVE  /\ RowTrue(d)'
              /\ \A e \in d.events : deliveries'[d].card[e] = events'[e].payload
              /\ deliveries'[d].status \in {"pending", "retry"} =>
                    \A e \in d.events : ~events'[e].withdrawn
  <2>1. CASE d = id
    <3>1. RowTrue(d)'
      BY <1>4, <1>5, <1>7, <1>9, <2>1 DEF RowTrue
    <3> QED BY <1>1, <1>4, <1>5, <1>7, <2>1, <3>1 DEF IInv, Current
  <2>2. CASE d # id
    <3>1. deliveries'[d] = deliveries[d] /\ d \in DOMAIN deliveries
      BY <1>6, <2>2
    <3>2. RowTrue(d)'
      BY <1>1, <1>9, <3>1 DEF IInv, RowsTrue, RowTrue
    <3> QED BY <1>1, <3>1, <3>2 DEF IInv, Current, WithdrawnNeverSent
  <2> QED BY <2>1, <2>2
<1>12. RowsTrue' /\ Current' /\ WithdrawnNeverSent'
  BY <1>11 DEF RowsTrue, Current, WithdrawnNeverSent
<1>13. Single' /\ OnFile'
  <2>1. \A d \in DOMAIN deliveries' :
           deliveries'[d].status # "cancelled" => deliveries[d].status # "cancelled"
    BY <1>4, <1>6
  <2> QED BY <1>1, <1>6, <2>1 DEF IInv, Single, Alive, Disjoint, OnFile
<1>14. Dispatching'
  <2>1. ASSUME NEW d \in mail'.todo PROVE Unsent(d)'
    <3>1. d \in DOMAIN deliveries /\ Unsent(d)
      BY <1>1, <1>8 DEF IInv, TypeOK, Dispatching
    <3>2. d # id
      BY <1>4, <3>1 DEF Unsent
    <3> QED BY <1>6, <1>9, <3>1, <3>2 DEF Unsent
  <2> QED BY <1>8, <2>1 DEF Dispatching
<1>15. Judging'
  <2> SUFFICES ASSUME desk # NoRow PROVE Judging'
    BY <1>1 DEF Judging
  <2>1. \A d \in DOMAIN deliveries : deliveries'[d].attempts = deliveries[d].attempts
    BY <1>5, <1>6, <1>7
  <2>2. ~UnderWay(desk.id)'
    BY <1>8 DEF UnderWay
  <2> QED BY <1>1, <1>6, <1>9, <2>1, <2>2 DEF IInv, Judging
<1>16. SettledMeansTold' /\ ToldAtMostOnce'
  <2>1. \A d \in DOMAIN deliveries' : deliveries'[d].status = "sent" => Arrived(d)'
    BY <1>12 DEF RowsTrue, RowTrue
  <2> QED BY <1>1, <1>9, <2>1 DEF IInv, SettledMeansTold, ToldAtMostOnce
<1> QED BY <1>10, <1>12, <1>13, <1>14, <1>15, <1>16 DEF IInv
--------------------------------------------------------------------------------
(* ARCHIVING.  A card goes with all its events or stays with all of them.      *)
\* An archived event takes every row about it along.
LEMMA ArchivedWhole ==
    ASSUME TypeOK
    PROVE  /\ Archivable \subseteq DOMAIN events
           /\ \A id \in DOMAIN deliveries :
                 id.events \cap Archivable # {} => id.events \subseteq Archivable
           /\ \A e \in Archivable : Completed(e)
<1> DEFINE Parts == {S \in SUBSET DOMAIN events :
              /\ Component(S)
              /\ \A e \in S : Completed(e) /\ \A id \in Covers(deliveries, e) : Settled(id)}
<1>1. Archivable = UNION Parts
  BY DEF Archivable
<1>2. ASSUME NEW id \in DOMAIN deliveries, NEW e \in id.events \cap Archivable
      PROVE  id.events \subseteq Archivable
  <2>1. PICK S \in Parts : e \in S
    BY <1>1
  <2>2. \A f \in id.events : f \in DOMAIN events /\ Linked(e, f)
    BY RowParts DEF Linked
  <2>3. id.events \subseteq S
    BY <2>1, <2>2 DEF Component
  <2> QED BY <1>1, <2>1, <2>3
<1>3. \A S \in Parts : S \subseteq DOMAIN events /\ \A e \in S : Completed(e)
  OBVIOUS
<1> HIDE DEF Parts
<1>4. Archivable \subseteq DOMAIN events /\ \A e \in Archivable : Completed(e)
  BY <1>1, <1>3
<1> QED BY <1>2, <1>4

\* An event that is complete was told to everyone on its route.
LEMMA CompletedTold ==
    ASSUME RowsTrue, NEW e, Completed(e)
    PROVE  events[e].withdrawn \/ \A r \in events[e].to : ToldTo(e, r)
<1> SUFFICES ASSUME NEW r \in events[e].to, ~events[e].withdrawn PROVE ToldTo(e, r)
  OBVIOUS
<1>1. PICK id \in Covers(deliveries, e) : deliveries[id].status = "sent" /\ id.to = r
  BY DEF Completed, Received
<1>2. id \in DOMAIN deliveries /\ e \in id.events
  BY <1>1 DEF Covers
<1>3. Arrived(id)
  BY <1>1, <1>2 DEF RowsTrue, RowTrue
<1> QED BY <1>1, <1>2, <1>3 DEF Arrived, ToldTo

\* A dispatch ends: what is complete and old goes to the archive.
LEMMA EndKeeps == ASSUME IInv, DispatchEnd PROVE IInv'
<1>1. /\ mail.at = "loop" /\ mail' = Idle /\ UNCHANGED <<desk, inbox, trouble>>
  BY DEF DispatchEnd
<1>2. PICK done : done = Archivable
  OBVIOUS
<1>3. /\ archived' = [e \in DOMAIN archived \cup done |->
                         IF e \in done THEN events[e] ELSE archived[e]]
      /\ events' = Without(events, done)
      /\ deliveries' = Without(deliveries, {id \in DOMAIN deliveries : id.events \cap done # {}})
  BY <1>2 DEF DispatchEnd
<1>4. /\ done \subseteq DOMAIN events
      /\ \A id \in DOMAIN deliveries : id.events \cap done # {} => id.events \subseteq done
      /\ \A e \in done : Completed(e)
  BY <1>2, ArchivedWhole DEF IInv
<1>5. /\ DOMAIN events' = DOMAIN events \ done
      /\ \A e \in DOMAIN events' : events'[e] = events[e]
  BY <1>3 DEF Without
<1>6. /\ \A id : id \in DOMAIN deliveries' <=> id \in DOMAIN deliveries /\ id.events \cap done = {}
      /\ \A id \in DOMAIN deliveries' : deliveries'[id] = deliveries[id]
  BY <1>3 DEF Without
<1>7. /\ DOMAIN archived' = DOMAIN archived \cup done
      /\ \A e \in done : archived'[e] = events[e]
      /\ \A e \in DOMAIN archived \ done : archived'[e] = archived[e]
  BY <1>3
<1>8. /\ \A x : Arrived(x)' <=> Arrived(x)
      /\ \A e, r : ToldTo(e, r)' <=> ToldTo(e, r)
  BY <1>1, ArrivedSame
<1>9. ASSUME NEW id \in DOMAIN deliveries'
      PROVE  /\ id \in DOMAIN deliveries /\ id \in Ids /\ deliveries'[id] = deliveries[id]
             /\ deliveries[id] \in Rows(id)
             /\ \A e \in id.events : e \in DOMAIN events' /\ events'[e] = events[e]
  BY <1>5, <1>6, RowParts DEF IInv
<1>10. TypeOK'
  <2>1. /\ DOMAIN events' \subseteq Events /\ DOMAIN archived' \subseteq Events \ DOMAIN events'
        /\ \A e \in DOMAIN events' : events'[e] \in EventEntry
    BY <1>4, <1>5, <1>7 DEF IInv, TypeOK
  <2>2. /\ DOMAIN deliveries' \subseteq Ids
        /\ \A id \in DOMAIN deliveries' :
              deliveries'[id] \in Rows(id) /\ id.events \subseteq DOMAIN events'
    BY <1>9
  <2>3. mail' \in Mails /\ mail'.todo = {} /\ mail'.at = "idle"
    BY <1>1, MailIsIdle
  <2> QED BY <1>1, <2>1, <2>2, <2>3 DEF IInv, TypeOK
<1>11. IsFiniteSet(DOMAIN deliveries')
  BY <1>6, FS_Subset DEF IInv
<1>12. RowsTrue' /\ Current' /\ WithdrawnNeverSent'
  <2>1. ASSUME NEW id \in DOMAIN deliveries' PROVE RowTrue(id)'
    BY <1>8, <1>9 DEF IInv, RowsTrue, RowTrue
  <2> QED BY <1>9, <2>1 DEF IInv, RowsTrue, Current, WithdrawnNeverSent
<1>13. Single' /\ ToldAtMostOnce'
  BY <1>1, <1>9 DEF IInv, Single, Alive, Disjoint, ToldAtMostOnce
<1>14. OnFile'
  <2>1. ASSUME NEW m \in inbox
        PROVE  m.id \in DOMAIN deliveries' \/ m.id.events \subseteq DOMAIN archived'
    BY <1>4, <1>6, <1>7 DEF IInv, OnFile
  <2> QED BY <1>1, <2>1 DEF IInv, OnFile
<1>15. Dispatching'
  BY <1>1, MailIsIdle DEF Dispatching
<1>16. Judging'
  <2> SUFFICES ASSUME desk # NoRow PROVE Judging'
    BY <1>1 DEF Judging
  <2>1. PICK d : d = desk.id
    OBVIOUS
  <2>2. ~UnderWay(d)' /\ desk'.id = d
    BY <1>1, <2>1, MailIsIdle DEF UnderWay
  <2>3. d \notin DOMAIN deliveries' => desk.row.attempts = 0 \/ d.events \subseteq DOMAIN archived'
    BY <1>4, <1>6, <1>7, <2>1 DEF IInv, Judging
  <2>4. d \in DOMAIN deliveries' => d \in DOMAIN deliveries /\ deliveries'[d] = deliveries[d]
    BY <1>6
  <2> QED BY <1>1, <1>8, <2>1, <2>2, <2>3, <2>4 DEF IInv, Judging
<1>17. SettledMeansTold'
  <2>1. \A id \in DOMAIN deliveries' : deliveries'[id].status = "sent" => Arrived(id)'
    BY <1>12 DEF RowsTrue, RowTrue
  <2>2. ASSUME NEW e \in DOMAIN archived'
        PROVE  archived'[e].withdrawn \/ \A r \in archived'[e].to : ToldTo(e, r)'
    <3>1. CASE e \in done
      BY <1>4, <1>7, <1>8, <3>1, CompletedTold DEF IInv
    <3>2. CASE e \notin done
      BY <1>7, <1>8, <3>2 DEF IInv, SettledMeansTold
    <3> QED BY <3>1, <3>2
  <2> QED BY <2>1, <2>2 DEF SettledMeansTold
<1> QED BY <1>10, <1>11, <1>12, <1>13, <1>14, <1>15, <1>16, <1>17 DEF IInv

\* A person looks at an uncertain row and at the chat.
LEMMA LookKeeps == ASSUME IInv, NEW id, Look(id) PROVE IInv'
<1>1. /\ id \in DOMAIN deliveries /\ (mail.at \in {"idle", "loop"} \/ mail.id # id)
      /\ desk' = [id |-> id, row |-> deliveries[id], arrived |-> Arrived(id)]
      /\ UNCHANGED <<events, deliveries, archived, mail, inbox, trouble>>
  BY DEF Look
<1>2. /\ \A x : Arrived(x)' <=> Arrived(x)
      /\ \A e, r : ToldTo(e, r)' <=> ToldTo(e, r)
  BY <1>1, ArrivedSame
<1>3. /\ desk'.id = id /\ desk'.row = deliveries[id] /\ desk'.arrived = Arrived(id)
  BY <1>1
<1>4. Arrived(id) \in BOOLEAN
  BY DEF Arrived
<1>5. TypeOK'
  BY <1>1, <1>3, <1>4 DEF IInv, TypeOK
<1>6. Judging'
  <2>1. id \in Ids /\ deliveries[id].attempts \in Nat /\ RowTrue(id)
    BY <1>1, RowParts DEF IInv, RowsTrue
  <2>2. deliveries[id].attempts = 0 => ~Arrived(id)
    BY <2>1 DEF RowTrue
  <2>3. ~UnderWay(id)'
    BY <1>1 DEF UnderWay
  <2> QED BY <1>1, <1>2, <1>3, <2>1, <2>2, <2>3 DEF Judging
<1>7. RowsTrue' /\ Dispatching' /\ SettledMeansTold'
  BY <1>1, <1>2 DEF IInv, RowsTrue, RowTrue, Dispatching, Unsent, SettledMeansTold
<1>8. IsFiniteSet(DOMAIN deliveries') /\ Single' /\ OnFile' /\ Current' /\ WithdrawnNeverSent' /\ ToldAtMostOnce'
  BY <1>1 DEF IInv, Single, Alive, Disjoint, OnFile, Current, WithdrawnNeverSent, ToldAtMostOnce
<1> QED BY <1>5, <1>6, <1>7, <1>8 DEF IInv
--------------------------------------------------------------------------------
\* Nothing happens.
LEMMA StutterKeeps == ASSUME IInv, UNCHANGED vars PROVE IInv'
<1>1. UNCHANGED <<events, deliveries, archived, mail, desk, inbox, trouble>>
  BY DEF vars
<1>2. /\ \A x : Arrived(x)' <=> Arrived(x)
      /\ \A e, r : ToldTo(e, r)' <=> ToldTo(e, r)
  BY <1>1, ArrivedSame
<1>3. TypeOK' /\ IsFiniteSet(DOMAIN deliveries')
  BY <1>1 DEF IInv, TypeOK
<1>4. RowsTrue' /\ Dispatching' /\ SettledMeansTold'
  BY <1>1, <1>2 DEF IInv, RowsTrue, RowTrue, Dispatching, Unsent, SettledMeansTold
<1>5. Judging'
  <2> SUFFICES ASSUME desk # NoRow PROVE Judging'
    BY <1>1 DEF Judging
  <2>1. PICK d : d = desk.id
    OBVIOUS
  <2>2. (Arrived(d)' <=> Arrived(d)) /\ (UnderWay(d)' <=> UnderWay(d)) /\ desk'.id = d
    BY <1>1, <1>2, <2>1 DEF UnderWay
  <2> QED BY <1>1, <2>1, <2>2 DEF IInv, Judging
<1>6. Single' /\ OnFile' /\ Current' /\ WithdrawnNeverSent' /\ ToldAtMostOnce'
  BY <1>1 DEF IInv, Single, Alive, Disjoint, OnFile, Current, WithdrawnNeverSent, ToldAtMostOnce
<1> QED BY <1>3, <1>4, <1>5, <1>6 DEF IInv

\* The invariant is inductive.
LEMMA StepIInv == ASSUME IInv, [Next]_vars PROVE IInv'
<1>1. CASE Producers
  BY <1>1, EnqueueKeeps, RetainKeeps DEF Producers
<1>2. CASE Dispatch
  BY <1>2, BeginKeeps, IntendKeeps, SendKeeps, RecordKeeps, EndKeeps DEF Dispatch
<1>3. CASE Person
  BY <1>3, LookKeeps, DeliveredKeeps, NotDeliveredKeeps DEF Person
<1> QED BY <1>1, <1>2, <1>3, CrashKeeps, QuarterHourKeeps, KeepDaysKeeps, StutterKeeps DEF Next

\* A file of the time before: one card per role, and what came of it.
LEMMA InitIInv == ASSUME Init PROVE IInv
<1>1. PICK old \in {{}, Legacy}, frozen \in {{}, LegacyRoles}, to \in SUBSET LegacyRoles :
         \E status \in [{[to |-> r, events |-> old, v |-> 0] : r \in to} -> Statuses \ {"cancelled"}],
            came \in SUBSET {[to |-> r, events |-> old, v |-> 0] : r \in to} :
            LET ids == {[to |-> r, events |-> old, v |-> 0] : r \in to} IN
            /\ old = {} => to = {} /\ frozen = {}
            /\ \A id \in ids :
                  /\ status[id] = "sent" => id \in came
                  /\ status[id] = "pending" => id \notin came
                  /\ status[id] = "retry" /\ frozen # {} => id \notin came
            /\ events = [e \in old |-> [payload |-> 1, to |-> frozen, overnight |-> FALSE,
                                        withdrawn |-> FALSE, old |-> FALSE]]
            /\ deliveries = [id \in ids |-> LegacyRow(status[id])]
            /\ inbox = {[id |-> id, attempt |-> 1, card |-> deliveries[id].card] : id \in came}
  BY DEF Init
<1>2. PICK ids : ids = {[to |-> r, events |-> old, v |-> 0] : r \in to}
  OBVIOUS
<1>3. PICK status \in [ids -> Statuses \ {"cancelled"}], came \in SUBSET ids :
         /\ old = {} => to = {} /\ frozen = {}
         /\ \A id \in ids :
               /\ status[id] = "sent" => id \in came
               /\ status[id] = "pending" => id \notin came
               /\ status[id] = "retry" /\ frozen # {} => id \notin came
         /\ events = [e \in old |-> [payload |-> 1, to |-> frozen, overnight |-> FALSE,
                                     withdrawn |-> FALSE, old |-> FALSE]]
         /\ deliveries = [id \in ids |-> LegacyRow(status[id])]
         /\ inbox = {[id |-> id, attempt |-> 1, card |-> deliveries[id].card] : id \in came}
  BY <1>1, <1>2
<1>4. archived = <<>> /\ mail = Idle /\ desk = NoRow /\ trouble = 0
  BY DEF Init
<1>5. old \subseteq Events /\ frozen \subseteq Roles /\ to \subseteq Roles /\ old \subseteq Legacy
  BY Routes
<1>6. \A id \in ids : id \in Ids /\ id.events = old /\ id.v = 0 /\ old # {}
  <2>1. ASSUME NEW r \in to PROVE [to |-> r, events |-> old, v |-> 0] \in Ids /\ old # {}
    BY <1>3, <1>5 DEF Ids
  <2> QED BY <1>2, <2>1
<1>7. ASSUME NEW c \in ids, NEW d \in ids, c.to = d.to PROVE c = d
  BY <1>2, <1>7
<1>8. ASSUME NEW s \in Statuses
      PROVE  /\ LegacyRow(s).status = s /\ LegacyRow(s).card = [e \in Legacy |-> 1]
             /\ LegacyRow(s).attempts = IF s = "pending" THEN 0 ELSE 1
             /\ LegacyRow(s) \in [status : Statuses, attempts : Nat, card : [Legacy -> Payloads],
                                  due : BOOLEAN, old : BOOLEAN]
  <2>1. 1 \in Payloads
    BY Bounds DEF Payloads
  <2> QED BY <2>1 DEF LegacyRow, Delivery
<1>9. DOMAIN events = old /\ \A e \in old :
         /\ events[e] \in EventEntry /\ events[e].payload = 1 /\ ~events[e].withdrawn
         /\ events[e].to = frozen
  <2>1. 1 \in Payloads
    BY Bounds DEF Payloads
  <2> QED BY <1>3, <1>5, <2>1 DEF EventEntry
<1>10. \A id \in ids : old = Legacy
  BY <1>6
<1>11. DOMAIN deliveries = ids /\ \A id \in ids :
          /\ deliveries[id] \in Rows(id) /\ deliveries[id].status = status[id]
          /\ deliveries[id].attempts = (IF status[id] = "pending" THEN 0 ELSE 1)
          /\ \A e \in id.events : deliveries[id].card[e] = 1
          /\ status[id] \in Statuses \ {"cancelled"}
  BY <1>3, <1>6, <1>8, <1>10 DEF Rows
<1>12. \A x : Arrived(x) <=> x \in came
  <2>1. ASSUME NEW m \in inbox PROVE m.id \in came
    <3>1. PICK id \in came : m = [id |-> id, attempt |-> 1, card |-> deliveries[id].card]
      BY <1>3
    <3> QED BY <3>1
  <2>2. ASSUME NEW id \in came PROVE \E m \in inbox : m.id = id
    <3>1. [id |-> id, attempt |-> 1, card |-> deliveries[id].card] \in inbox
      BY <1>3
    <3>2. PICK m : m = [id |-> id, attempt |-> 1, card |-> deliveries[id].card]
      OBVIOUS
    <3>3. m \in inbox /\ m.id = id
      BY <3>1, <3>2
    <3> QED BY <3>3
  <2>3. ASSUME NEW x PROVE Arrived(x) <=> x \in came
    <3>1. Arrived(x) => x \in came
      BY <2>1 DEF Arrived
    <3>2. x \in came => Arrived(x)
      BY <2>2 DEF Arrived
    <3> QED BY <3>1, <3>2
  <2> QED BY <2>3
<1>13. TypeOK
  <2>1. \A m \in inbox : m.id \in Ids /\ m.attempt \in Nat
    BY <1>3, <1>6
  <2>2. desk.arrived \in BOOLEAN /\ trouble \in 0 .. MaxTrouble /\ DOMAIN archived = {}
    BY <1>4, Bounds DEF NoRow
  <2>3. mail \in Mails /\ mail.todo = {} /\ mail.at = "idle"
    BY <1>4, MailIsIdle
  <2>4. DOMAIN deliveries \subseteq Ids /\ \A id \in DOMAIN deliveries :
           deliveries[id] \in Rows(id) /\ id.events \subseteq DOMAIN events
    BY <1>6, <1>9, <1>11
  <2> QED BY <1>5, <1>9, <2>1, <2>2, <2>3, <2>4 DEF TypeOK
<1>14. IsFiniteSet(DOMAIN deliveries)
  BY <1>6, <1>7, <1>11, FinitelyMany
<1>15. RowsTrue
  <2>1. ASSUME NEW id \in ids PROVE RowTrue(id)
    <3>1. PICK s \in Statuses \ {"cancelled"} : s = status[id]
      BY <1>11
    <3>2. /\ deliveries[id].status = s
          /\ deliveries[id].attempts = (IF s = "pending" THEN 0 ELSE 1)
          /\ s = "sent" => Arrived(id)
          /\ s = "pending" => ~Arrived(id)
          /\ s = "retry" /\ frozen # {} => ~Arrived(id)
      BY <1>3, <1>11, <1>12, <3>1
    <3>3. (\A e \in id.events : events[e].to # {}) => frozen # {}
      BY <1>6, <1>9
    <3> QED BY <3>2, <3>3 DEF RowTrue
  <2> QED BY <1>11, <2>1 DEF RowsTrue
<1>16. Single
  BY <1>7, <1>11 DEF Single, Disjoint
<1>17. OnFile
  <2>1. \A m \in inbox : m.id \in ids /\ m = [id |-> m.id, attempt |-> 1, card |-> deliveries[m.id].card]
    BY <1>3
  <2> QED BY <1>11, <2>1 DEF OnFile
<1>18. Dispatching /\ Judging
  BY <1>4, MailIsIdle DEF Dispatching, Judging
<1>19. Current /\ WithdrawnNeverSent
  BY <1>6, <1>9, <1>11 DEF Current, WithdrawnNeverSent
<1>20. SettledMeansTold
  <2>1. DOMAIN archived = {}
    BY <1>4
  <2> QED BY <1>15, <2>1 DEF SettledMeansTold, RowsTrue, RowTrue
<1>21. ToldAtMostOnce
  <2>1. \A m \in inbox : m.id \in ids
    BY <1>3
  <2> QED BY <1>7, <1>17, <2>1 DEF ToldAtMostOnce, OnFile
<1> QED BY <1>13, <1>14, <1>15, <1>16, <1>17, <1>18, <1>19, <1>20, <1>21 DEF IInv
--------------------------------------------------------------------------------
(* Whatever crashes, is judged late, withdrawn, corrected or taken over from  *)
(* an old file: no role gets two cards about an event, what is settled was    *)
(* told, nothing withdrawn is sent and no untried card is out of date.        *)
THEOREM OutboxTellsTheTruth == Spec => []OutboxTellsTruth
<1>1. Init => IInv
  BY InitIInv
<1>2. IInv /\ [Next]_vars => IInv'
  BY StepIInv
<1>3. IInv => OutboxTellsTruth
  <2> SUFFICES ASSUME IInv PROVE OutboxTellsTruth
    OBVIOUS
  <2>1. UntriedCardsCurrent
    BY DEF IInv, Current, UntriedCardsCurrent
  <2> QED BY <2>1 DEF IInv, OutboxTellsTruth
<1> QED BY <1>1, <1>2, <1>3, PTL DEF Spec

--------------------------------------------------------------------------------
(******************************************************************************)
(* The capture of posts, for any number of posts, pictures, edits, rounds and *)
(* crashes: what was started is accounted for and told, what is called        *)
(* complete is in the archive and stays there, and no version is lost.        *)
(*                                                                            *)
(* Why: a row of the archive that is called whole has all the pictures there  *)
(* are (Full), so no later answer can improve on it without another text,     *)
(* another list or other media, and then it goes to the history; hence what   *)
(* is kept whole is kept for ever (KeptStill).  A post is called complete     *)
(* only after its content was kept whole (Archived).  The pending posts are   *)
(* those of one scan (OneScan) and of whoever holds the lock (OnePost), so    *)
(* that the next holder closes every one of them; and an outcome that was not *)
(* told was told before, or is complete (PostHolds).                          *)
(******************************************************************************)

\* The steps of a round.
Steps == {"none", "prepare", "next", "visit", "append", "finish", "end"}
Runs == [step : Steps, who : {None, "round", "repair"}, seen : SUBSET Posts, todo : SUBSET (Posts \X PostRows),
         p : {None} \cup Posts, row : {None} \cup PostRows, ok : BOOLEAN, stop : BOOLEAN, archived : BOOLEAN,
         local : BOOLEAN]

\* The types.
CapType ==
    /\ source \in [Posts -> [t : Nat, m : Nat]]
    /\ truth \in [Posts -> {None} \cup PostRows] /\ index \in [Posts -> {None} \cup PostRows]
    /\ history \in [Posts -> SUBSET PostRows]
    /\ items \in [Posts -> {None} \cup Items] /\ scans \in Nat
    /\ run \in Runs
    /\ run.step = "none" => run = C!NoRun
    /\ \A p \in Posts : index[p] # None => truth[p] # None

\* A source that is complete shows all pictures; an archived row that is called
\* whole has them.
Sourced(r) == r.src => r.k = Images
Full(r) == Sourced(r) /\ (r.whole => r.k = Images /\ r.saved = C!All(Images))

Sources ==
    /\ \A p \in Posts : truth[p] # None => Full(truth[p])
    /\ \A c \in run.todo : Sourced(c[2])
    /\ run.row # None => Sourced(run.row)
    /\ run.step \in {"append", "finish"} => Full(run.row)

\* A content is kept as a whole row.
KeptWhole(p, c) == \E row \in {truth[p]} \cup history[p] : row # None /\ row.whole /\ C!Content(row) = c

\* What holds of each post: what is complete is kept, an outcome that was not
\* complete was told, and an exception that was tried has its event.
PostHolds(p) == items[p] # None =>
    /\ Sourced(items[p].row)
    /\ items[p].status = "complete" =>
          items[p].row.saved = C!All(items[p].row.k) /\ KeptWhole(p, C!Content(items[p].row))
    /\ items[p].last # None /\ ~items[p].last.complete => <<p, "outcome", items[p].last>> \in outcomes
    /\ items[p].status = "manual" /\ C!Started(items[p]) =>
          <<p, "outcome", items[p].last>> \in outcomes \/ <<p, "scan", items[p].scan>> \in outcomes

AllHold == \A p \in Posts : PostHolds(p)

\* What is about to be called complete is kept.
Archived == run.step = "finish" /\ run.archived /\ C!Whole(run.row) /\ run.row.whole =>
    KeptWhole(run.p, C!Content(run.row))

\* Who works on what: a round prepares when nothing is pending; what it works on,
\* and what it will, is pending.
Preparing == run.step = "prepare" \/ (run.step = "finish" /\ run.local)

OnePost ==
    /\ run.local => run.step = "finish"
    /\ run.step \in {"visit", "append", "finish"} => run.p \in Posts /\ run.row \in PostRows /\ items[run.p] # None
    /\ run.step \in {"visit", "append", "finish"} /\ ~run.local => C!Pending(run.p)
    /\ run.step \in {"visit", "append", "finish"} => \A c \in run.todo : c[1] # run.p
    /\ \A c, d \in run.todo : c[1] = d[1] => c = d
    /\ Preparing => \A c \in run.todo : c[1] \notin run.seen
    /\ Preparing => \A p \in Posts : ~C!Pending(p)
    /\ ~Preparing => \A c \in run.todo : C!Pending(c[1])

\* The pending posts are of one scan, the present one while somebody works.
OneScan ==
    /\ \A p \in Posts : C!Pending(p) => items[p].scan = scans \/ run = C!NoRun
    /\ \A p, q \in Posts : C!Pending(p) /\ C!Pending(q) => items[p].scan = items[q].scan

CInv == CapType /\ Sources /\ AllHold /\ Archived /\ OnePost /\ OneScan

--------------------------------------------------------------------------------
LEMMA WhatCaptureSays == CInv => C!ExceptionsReported /\ C!CompleteIsKept
<1> SUFFICES ASSUME CInv PROVE C!ExceptionsReported /\ C!CompleteIsKept
      OBVIOUS
<1>1. C!ExceptionsReported
      BY DEF CInv, AllHold, PostHolds, OneScan, C!ExceptionsReported
<1>2. C!CompleteIsKept
      BY DEF CInv, AllHold, PostHolds, KeptWhole, C!CompleteIsKept
<1> QED BY <1>1, <1>2

LEMMA CaptureStarts == C!Init => CInv
<1> SUFFICES ASSUME C!Init PROVE CInv
      OBVIOUS
<1>1. /\ \A p \in Posts : truth[p] = None /\ index[p] = None /\ history[p] = {}
      /\ truth \in [Posts -> {None}] /\ index \in [Posts -> {None}] /\ history \in [Posts -> {{}}]
      /\ source \in [Posts -> [t : Nat, m : Nat]] /\ scans = 0
      BY DEF C!Init
<1>2. run = C!NoRun /\ C!NoRun \in Runs /\ run.step = "none" /\ run.todo = {} /\ run.row = None /\ ~run.local
      BY DEF C!Init, C!NoRun, Runs, Steps
<1>3. /\ items \in [Posts -> {None} \cup Items]
      /\ \A p \in Posts : items[p] # None =>
            /\ items[p].status = "manual" /\ ~C!Started(items[p]) /\ items[p].row.k = Images /\ items[p].last = None
  <2> DEFINE row == [t |-> 1, m |-> 1, k |-> Images, src |-> TRUE, saved |-> {}, whole |-> TRUE]
             item == [C!NoItem EXCEPT !.row = row]
  <2>1. row \in PostRows /\ row.k = Images
        BY PicturesAreCounted DEF PostRows
  <2>3. items = [p \in Posts |-> None] \/ \E q \in Posts : items = [p \in Posts |-> IF p = q THEN item ELSE None]
        BY DEF C!Init
  <2> HIDE DEF row
  <2>4. item \in Items /\ item.status = "manual" /\ ~C!Started(item) /\ item.row.k = Images /\ item.last = None
        BY <2>1, NoneIsNothing DEF C!NoItem, Items, C!Started
  <2> HIDE DEF item
  <2> QED BY <2>3, <2>4
<1>4. CapType
      BY <1>1, <1>2, <1>3 DEF CapType
<1>5. Sources /\ Archived /\ OneScan
      BY <1>1, <1>2, <1>3 DEF Sources, Archived, OneScan, C!Pending
<1>6. AllHold
      BY <1>3 DEF AllHold, PostHolds, Sourced
<1>7. OnePost
      BY <1>2, <1>3 DEF OnePost, Preparing, C!Pending
<1> QED BY <1>4, <1>5, <1>6, <1>7 DEF CInv

\* What the source shows of a post.
LEMMA ShownRows ==
    ASSUME CapType, NEW p \in Posts, NEW o \in C!Shown(p)
    PROVE  o \in PostRows /\ Sourced(o) /\ o.whole = o.src
<1>1. PICK k \in 0 .. Images, src \in BOOLEAN : o = C!Row(p, source[p].t, source[p].m, k, src)
      BY DEF C!Shown, C!Seen
<1>2. source[p].t \in Nat /\ source[p].m \in Nat
      BY DEF CapType
<1>3. C!Reused(p, source[p].m, k) \subseteq 1 .. Images
      BY DEF C!Reused, CapType, PostRows
<1>4. o = [t |-> source[p].t, m |-> source[p].m, k |-> k, src |-> src, saved |-> C!Reused(p, source[p].m, k), whole |-> src]
      BY <1>1 DEF C!Row
<1>5. o.src => o.k = Images
      BY DEF C!Shown
<1> QED BY <1>2, <1>3, <1>4, <1>5 DEF PostRows, Sourced

LEMMA FetchedRows ==
    ASSUME NEW o \in PostRows, Sourced(o), NEW got \in SUBSET C!All(Images), NEW ok \in BOOLEAN
    PROVE  /\ C!Fetched(o, got) \in PostRows /\ Full(C!Fetched(o, got))
           /\ [C!Fetched(o, got) EXCEPT !.whole = @ /\ ok] \in PostRows
           /\ Full([C!Fetched(o, got) EXCEPT !.whole = @ /\ ok])
<1> DEFINE saved == o.saved \cup got
           whole == o.src /\ saved = C!All(o.k)
           f == C!Fetched(o, got)
           g == [f EXCEPT !.whole = @ /\ ok]
<1>1. f = [o EXCEPT !.saved = saved, !.whole = whole]
      BY DEF C!Fetched, PostRows
<1>2. saved \subseteq 1 .. Images /\ whole \in BOOLEAN /\ (whole => o.k = Images /\ saved = C!All(Images))
      BY DEF PostRows, Sourced, C!All
<1> HIDE DEF saved, whole, f
<1>3. f \in PostRows /\ f.whole = whole /\ f.saved = saved /\ f.k = o.k /\ f.src = o.src
      BY <1>1, <1>2 DEF PostRows
<1>4. Full(f)
      BY <1>2, <1>3 DEF Full, Sourced
<1>5. g \in PostRows /\ (g.whole => f.whole) /\ g.saved = saved /\ g.k = o.k /\ g.src = o.src
      BY <1>3 DEF PostRows
<1>6. Full(g)
      BY <1>2, <1>3, <1>5 DEF Full, Sourced
<1> QED BY <1>3, <1>4, <1>5, <1>6 DEF f

\* What is appended is a row; a whole one keeps its pictures, or those it replaces.
LEMMA AppendedRow ==
    ASSUME CapType, NEW p \in Posts, truth[p] # None => Full(truth[p]), NEW new \in PostRows, Full(new)
    PROVE  C!Appended(p, new) \in PostRows /\ Full(C!Appended(p, new))
<1> DEFINE old == truth[p]
           same == IF old.m = new.m THEN new.saved \cup (old.saved \cap C!All(new.k)) ELSE new.saved
           more == old.saved \cup (IF old.m = new.m THEN new.saved ELSE {})
<1>1. CASE old = None \/ ~C!SourceChanged(p, old, new)
      BY <1>1 DEF C!Appended
<1>2. CASE ~(old = None \/ ~C!SourceChanged(p, old, new))
  <2>1. old \in PostRows /\ Full(old)
        BY <1>2 DEF CapType
  <2>2. CASE C!KeepOld(old, new)
    <3>1. C!Appended(p, new) = [new EXCEPT !.m = old.m, !.k = old.k, !.whole = old.whole, !.saved = more]
          BY <1>2, <2>2 DEF C!Appended
    <3>2. more \subseteq 1 .. Images /\ (old.whole => more = C!All(Images))
          BY <2>1 DEF PostRows, Full, C!All
    <3>3. ~new.src
          BY <2>2 DEF C!KeepOld
    <3> HIDE DEF more, old
    <3> DEFINE a == C!Appended(p, new)
    <3>4. a \in PostRows /\ a.src = new.src /\ a.whole = old.whole /\ a.k = old.k /\ a.saved = more
          BY <2>1, <3>1, <3>2 DEF PostRows
    <3>5. Full(a)
          BY <2>1, <3>2, <3>3, <3>4 DEF Full, Sourced
    <3> QED BY <3>4, <3>5
  <2>3. CASE ~C!KeepOld(old, new)
    <3>1. C!Appended(p, new) = [new EXCEPT !.saved = same]
          BY <1>2, <2>3 DEF C!Appended
    <3>2. same \subseteq 1 .. Images /\ (new.whole => same = C!All(Images))
          BY <2>1 DEF PostRows, Full, C!All
    <3> HIDE DEF same, old
    <3> DEFINE a == C!Appended(p, new)
    <3>4. a \in PostRows /\ a.src = new.src /\ a.whole = new.whole /\ a.k = new.k /\ a.saved = same
          BY <3>1, <3>2 DEF PostRows
    <3>5. Full(a)
          BY <3>2, <3>4 DEF Full, Sourced
    <3> QED BY <3>4, <3>5
  <2> QED BY <2>2, <2>3
<1> QED BY <1>1, <1>2

\* The content of a whole row that comes is kept, as it is.
LEMMA WholeComes ==
    ASSUME CapType, NEW p \in Posts, NEW new \in PostRows, Full(new), new.src, new.whole,
           truth[p] # None => Full(truth[p])
    PROVE  C!Appended(p, new).whole /\ C!Content(C!Appended(p, new)) = C!Content(new)
<1> DEFINE old == truth[p]
           same == IF old.m = new.m THEN new.saved \cup (old.saved \cap C!All(new.k)) ELSE new.saved
<1>1. CASE old = None \/ ~C!SourceChanged(p, old, new)
      BY <1>1 DEF C!Appended
<1>2. CASE ~(old = None \/ ~C!SourceChanged(p, old, new))
  <2>1. C!Appended(p, new) = [new EXCEPT !.saved = same]
        BY <1>2 DEF C!Appended, C!KeepOld
  <2>2. same = new.saved
        BY DEF Full, C!All
  <2>3. \A x : x = [new EXCEPT !.saved = new.saved] =>
               x.t = new.t /\ x.m = new.m /\ x.k = new.k /\ x.saved = new.saved /\ x.whole = new.whole
        BY DEF PostRows
  <2> QED BY <2>1, <2>2, <2>3 DEF C!Content
<1> QED BY <1>1, <1>2

\* A whole row that is not accepted is there already.
LEMMA WholeIsThere ==
    ASSUME CapType, NEW p \in Posts, NEW new \in PostRows, Full(new), new.src, new.whole,
           truth[p] # None => Full(truth[p]), ~C!Accepts(p, new)
    PROVE  truth[p] # None /\ truth[p].whole /\ C!Content(truth[p]) = C!Content(new)
<1>1. truth[p] # None /\ ~C!Upgrade(truth[p], new) /\ ~C!SourceChanged(p, truth[p], new)
      BY DEF C!Accepts
<1>2. truth[p].whole /\ truth[p].t = new.t /\ truth[p].k = new.k /\ truth[p].m = new.m
      BY <1>1 DEF C!Upgrade, C!SourceChanged
<1>3. truth[p].saved = new.saved
      BY <1>1, <1>2 DEF Full
<1> QED BY <1>1, <1>2, <1>3 DEF C!Content

\* What an archive keeps whole, it keeps.
KeptStill == \A p \in Posts : \A c : KeptWhole(p, c) => KeptWhole(p, c)'

\* A step that replaces a version keeps it, or puts a fuller one in its place.
VersionKept(p) ==
    truth[p] # None /\ C!Content(truth'[p]) # C!Content(truth[p]) =>
          \/ truth[p] \in history'[p]
          \/ /\ truth'[p].t = truth[p].t /\ ~truth[p].whole
             /\ truth'[p].whole \/ C!Cardinality(truth'[p].saved) >= C!Cardinality(truth[p].saved)

\* What a write leaves behind.
LEMMA Writes ==
    ASSUME CapType, \A q \in Posts : truth[q] # None => Full(truth[q]),
           NEW p \in Posts, NEW new \in PostRows, Full(new), C!Accepts(p, new), NEW all \in BOOLEAN,
           C!Write(p, new, all)
    PROVE  /\ truth' \in [Posts -> {None} \cup PostRows] /\ index' \in [Posts -> {None} \cup PostRows]
           /\ history' \in [Posts -> SUBSET PostRows]
           /\ truth'[p] = C!Appended(p, new) /\ truth'[p] \in PostRows
           /\ \A q \in Posts : truth'[q] # None => Full(truth'[q])
           /\ \A q \in Posts : index'[q] # None => truth'[q] # None
           /\ KeptStill /\ \A q \in Posts : VersionKept(q)
<1> DEFINE row == C!Appended(p, new)
<1>1. row \in PostRows /\ Full(row)
      BY AppendedRow
<1>2. /\ history' = IF truth[p] # None /\ C!SourceChanged(p, truth[p], new)
                    THEN [history EXCEPT ![p] = @ \cup {truth[p]}] ELSE history
      /\ truth' = [truth EXCEPT ![p] = row]
      /\ index' = IF all THEN [index EXCEPT ![p] = row] ELSE index
      BY DEF C!Write
<1>3. truth[p] # None /\ ~C!SourceChanged(p, truth[p], new) =>
        /\ row = new /\ new.t = truth[p].t /\ ~truth[p].whole
        /\ new.whole \/ C!Cardinality(new.saved) >= C!Cardinality(truth[p].saved)
      BY DEF C!Accepts, C!Upgrade, C!Appended, C!SourceChanged
<1> HIDE DEF row
<1>4. truth'[p] = row /\ (\A q \in Posts \ {p} : truth'[q] = truth[q]) /\ truth' \in [Posts -> {None} \cup PostRows]
      BY <1>1, <1>2 DEF CapType
<1>5. /\ \A q \in Posts : history[q] \subseteq history'[q]
      /\ truth[p] # None /\ C!SourceChanged(p, truth[p], new) => truth[p] \in history'[p]
      BY <1>2 DEF CapType
<1>6. history' \in [Posts -> SUBSET PostRows]
  <2>1. truth[p] # None => truth[p] \in PostRows
        BY DEF CapType
  <2> QED BY <1>2, <2>1 DEF CapType
<1>7. index' \in [Posts -> {None} \cup PostRows] /\ \A q \in Posts : index'[q] # None => index[q] # None \/ q = p
      BY <1>1, <1>2 DEF CapType
<1>8. \A q \in Posts : index'[q] # None => truth'[q] # None
      BY <1>1, <1>4, <1>7, NoneIsNothing DEF CapType
<1>9. \A q \in Posts : truth'[q] # None => Full(truth'[q])
      BY <1>1, <1>4
<1>10. KeptStill
  <2> SUFFICES ASSUME NEW q \in Posts, NEW c, KeptWhole(q, c) PROVE KeptWhole(q, c)'
        BY DEF KeptStill
  <2>1. PICK r \in {truth[q]} \cup history[q] : r # None /\ r.whole /\ C!Content(r) = c
        BY DEF KeptWhole
  <2>2. r \in {truth'[q]} \cup history'[q]
        BY <1>3, <1>4, <1>5, <2>1
  <2> QED BY <2>1, <2>2 DEF KeptWhole
<1>11. \A q \in Posts : VersionKept(q)
      BY <1>3, <1>4, <1>5 DEF VersionKept
<1> QED BY <1>1, <1>4, <1>6, <1>7, <1>8, <1>9, <1>10, <1>11 DEF row

\* A post that was started and is pending no longer is complete or before a person.
Accounted(p) == C!Pending(p) /\ C!Started(items[p]) /\ ~C!Pending(p)' =>
    items'[p].status = "complete" \/ (items'[p].status = "manual" /\ \E e \in outcomes' : e[1] = p)

\* What every step does for each post.
StepHolds == \A p \in Posts : Accounted(p) /\ VersionKept(p)

LEMMA ArchiveAlone ==
    ASSUME UNCHANGED <<truth, history>> PROVE KeptStill /\ \A p \in Posts : VersionKept(p)
BY DEF KeptStill, KeptWhole, VersionKept

LEMMA ItemsAlone == ASSUME items' = items PROVE \A p \in Posts : Accounted(p) /\ (C!Pending(p)' <=> C!Pending(p))
BY DEF Accounted, C!Pending

LEMMA PostAlone ==
    ASSUME NEW p \in Posts, PostHolds(p), items'[p] = items[p], outcomes \subseteq outcomes', KeptStill
    PROVE  PostHolds(p)'
BY DEF PostHolds, KeptStill, C!Started

\* A pending post is closed: what was started goes to a person, who is told.
LEMMA PostCloses ==
    ASSUME CInv, NEW p \in Posts, C!Pending(p), outcomes \subseteq outcomes', KeptStill,
           items'[p] = [items[p] EXCEPT !.status = IF C!Started(items[p]) THEN "manual" ELSE "deferred"],
           C!Started(items[p]) => <<p, "scan", items[p].scan>> \in outcomes'
    PROVE  items'[p] \in Items /\ ~C!Pending(p)' /\ PostHolds(p)' /\ Accounted(p)
<1>1. items[p] \in Items
      BY DEF CInv, CapType, C!Pending
<1>2. PICK status \in {"manual", "deferred"} :
        /\ items'[p] = [items[p] EXCEPT !.status = status]
        /\ status = IF C!Started(items[p]) THEN "manual" ELSE "deferred"
      OBVIOUS
<1>3. /\ items'[p] \in Items /\ items'[p].status = status /\ items'[p].last = items[p].last
      /\ items'[p].row = items[p].row /\ items'[p].scan = items[p].scan
      /\ items'[p].started = items[p].started /\ items'[p].recovery = items[p].recovery
      BY <1>1, <1>2 DEF Items
<1>4. ~C!Pending(p)'
      BY <1>3 DEF C!Pending
<1>5. C!Started(items'[p]) <=> C!Started(items[p])
      BY <1>3 DEF C!Started
<1>6. PostHolds(p)
      BY DEF CInv, AllHold
<1>7. PostHolds(p)'
      BY <1>1, <1>2, <1>3, <1>5, <1>6, NoneIsNothing DEF PostHolds, C!Started
<1>8. Accounted(p)
  <2>1. C!Started(items[p]) => \E e \in outcomes' : e[1] = p
        OBVIOUS
  <2> QED BY <1>2, <1>3, <2>1 DEF Accounted
<1> QED BY <1>3, <1>4, <1>7, <1>8

LEMMA Interrupts ==
    ASSUME CInv, NEW scan, C!Interrupted(scan), KeptStill,
           \A p \in Posts : C!Pending(p) => items[p].scan = scan
    PROVE  /\ items' \in [Posts -> {None} \cup Items] /\ AllHold'
           /\ \A p \in Posts : ~C!Pending(p)' /\ Accounted(p) /\ (items[p] # None => items'[p] # None)
<1> DEFINE open == {p \in Posts : C!Pending(p) /\ items[p].scan = scan}
<1>1. /\ items' = [p \in Posts |-> IF p \notin open THEN items[p]
                       ELSE [items[p] EXCEPT !.status = IF C!Started(items[p]) THEN "manual" ELSE "deferred"]]
      /\ outcomes' = outcomes \cup {<<p, "scan", scan>> : p \in {p \in open : C!Started(items[p])}}
      BY DEF C!Interrupted
<1>2. \A p \in Posts : p \in open <=> C!Pending(p)
      OBVIOUS
<1>3. outcomes \subseteq outcomes' /\ \A p \in open : C!Started(items[p]) => <<p, "scan", items[p].scan>> \in outcomes'
      BY <1>1
<1> HIDE DEF open
<1>4. ASSUME NEW p \in Posts
      PROVE  /\ items'[p] \in {None} \cup Items /\ ~C!Pending(p)' /\ PostHolds(p)' /\ Accounted(p)
             /\ (items[p] # None => items'[p] # None)
  <2>1. CASE p \in open
    <3>1. items'[p] = [items[p] EXCEPT !.status = IF C!Started(items[p]) THEN "manual" ELSE "deferred"]
          BY <1>1, <2>1
    <3> QED BY <1>2, <1>3, <2>1, <3>1, PostCloses, NoneIsNothing
  <2>2. CASE p \notin open
    <3>1. items'[p] = items[p] /\ ~C!Pending(p)
          BY <1>1, <1>2, <2>2
    <3>2. ~C!Pending(p)' /\ Accounted(p)
          BY <3>1 DEF C!Pending, Accounted
    <3> QED BY <1>3, <3>1, <3>2, PostAlone DEF CInv, AllHold, CapType
  <2> QED BY <2>1, <2>2
<1>5. items' \in [Posts -> {None} \cup Items]
      BY <1>1, <1>4
<1> QED BY <1>4, <1>5 DEF AllHold

\* Nobody works any more.
LEMMA NobodyWorks ==
    ASSUME run' = C!NoRun
    PROVE  /\ run' \in Runs /\ Archived'
           /\ OnePost' /\ (\A c \in run'.todo : Sourced(c[2])) /\ (run'.row # None => Sourced(run'.row))
           /\ run'.step \notin {"append", "finish"}
           /\ \A p \in Posts : C!Pending(p)' => items'[p].scan = scans' \/ run' = C!NoRun
<1>1. run' \in Runs /\ run'.step = "none" /\ run'.todo = {} /\ run'.row = None /\ ~run'.local
      BY DEF C!NoRun, Runs, Steps
<1> QED BY <1>1 DEF Archived, OnePost, Preparing

LEMMA Ends == ASSUME CInv, C!End PROVE CInv' /\ StepHolds
<1>0. /\ UNCHANGED <<source, truth, index, history, scans, crashes>> /\ run' = C!NoRun
      /\ C!Interrupted(scans) /\ run.step # "none"
      BY DEF C!End, C!archive
<1>1. KeptStill /\ \A p \in Posts : VersionKept(p)
      BY <1>0, ArchiveAlone
<1>2. \A p \in Posts : C!Pending(p) => items[p].scan = scans
      BY <1>0 DEF CInv, OneScan, C!NoRun
<1>3. /\ items' \in [Posts -> {None} \cup Items] /\ AllHold'
      /\ \A p \in Posts : ~C!Pending(p)' /\ Accounted(p)
      BY <1>0, <1>1, <1>2, Interrupts
<1>4. CapType'
      BY <1>0, <1>3, NobodyWorks DEF CInv, CapType, C!NoRun
<1>5. Sources'
      BY <1>0, NobodyWorks DEF CInv, Sources
<1>6. OneScan'
      BY <1>3 DEF OneScan
<1> QED BY <1>0, <1>1, <1>3, <1>4, <1>5, <1>6, NobodyWorks DEF CInv, StepHolds

LEMMA Rounds == ASSUME CInv, C!Round PROVE CInv' /\ StepHolds
<1>0. /\ UNCHANGED <<source, truth, index, history>> /\ run = C!NoRun /\ scans' = scans + 1
      /\ C!RecoverInterrupted
      BY DEF C!Round, C!archive
<1>1. PICK seen \in SUBSET Posts : run' = [C!NoRun EXCEPT !.step = "prepare", !.who = "round", !.seen = seen]
      BY DEF C!Round
<1>2. run' \in Runs /\ run'.step = "prepare" /\ run'.todo = {} /\ run'.row = None /\ run'.local = FALSE
      BY <1>1 DEF C!NoRun, Runs, Steps
<1>3. KeptStill /\ \A p \in Posts : VersionKept(p)
      BY <1>0, ArchiveAlone
<1>4. /\ items' \in [Posts -> {None} \cup Items] /\ AllHold'
      /\ \A p \in Posts : ~C!Pending(p)' /\ Accounted(p)
  <2>1. CASE \E p \in Posts : C!Pending(p)
    <3>1. PICK q \in Posts : C!Pending(q) /\ C!Interrupted(items[q].scan)
          BY <1>0, <2>1 DEF C!RecoverInterrupted
    <3>2. \A p \in Posts : C!Pending(p) => items[p].scan = items[q].scan
          BY <3>1 DEF CInv, OneScan
    <3> QED BY <1>3, <3>1, <3>2, Interrupts
  <2>2. CASE ~\E p \in Posts : C!Pending(p)
    <3>1. UNCHANGED <<items, outcomes>>
          BY <1>0, <2>2 DEF C!RecoverInterrupted
    <3>2. AllHold'
          BY <1>3, <3>1, PostAlone DEF CInv, AllHold
    <3> QED BY <2>2, <3>1, <3>2, ItemsAlone DEF CInv, CapType
  <2> QED BY <2>1, <2>2
<1>5. CapType'
      BY <1>0, <1>2, <1>4 DEF CInv, CapType
<1>6. Sources' /\ Archived'
      BY <1>0, <1>2 DEF CInv, Sources, Archived
<1>7. OnePost' /\ OneScan'
      BY <1>2, <1>4 DEF OnePost, Preparing, OneScan
<1> QED BY <1>3, <1>4, <1>5, <1>6, <1>7 DEF CInv, StepHolds

\* The capture state is left alone, and what the archive keeps is kept.
LEMMA StateAlone ==
    ASSUME CInv, UNCHANGED <<items, outcomes>>, KeptStill
    PROVE  AllHold' /\ \A p \in Posts : Accounted(p) /\ (C!Pending(p)' <=> C!Pending(p))
BY ItemsAlone, PostAlone DEF CInv, AllHold

LEMMA Prepares == ASSUME CInv, C!Prepare PROVE CInv' /\ StepHolds
<1>0. run.step = "prepare" /\ run.seen # {} /\ UNCHANGED <<source, items, outcomes, scans, crashes>>
      BY DEF C!Prepare
<1>1. PICK p \in Posts : p = C!First(run.seen) /\ p \in run.seen /\ run \in Runs
      BY <1>0 DEF C!First, CInv, CapType, Runs
<1>2. PICK o \in C!Shown(p) :
          \/ /\ C!LocalEvidence(p, o)
             /\ run' = [run EXCEPT !.step = "finish", !.p = p, !.row = o, !.seen = @ \ {p},
                                   !.archived = TRUE, !.local = TRUE]
             /\ IF C!Accepts(p, o) THEN C!Write(p, o, TRUE) ELSE UNCHANGED <<truth, index, history>>
          \/ /\ ~C!LocalEvidence(p, o)
             /\ run' = [run EXCEPT !.seen = @ \ {p},
                                   !.todo = IF C!ShouldAppend(p, o) THEN @ \cup {<<p, o>>} ELSE @]
             /\ UNCHANGED <<truth, index, history>>
      BY <1>1 DEF C!Prepare, C!archive
<1>3. o \in PostRows /\ Sourced(o) /\ o.whole = o.src
      BY <1>1, <1>2, ShownRows DEF CInv
<1>4. Preparing /\ \A c \in run.todo : c[1] \notin run.seen
      BY <1>0 DEF Preparing, CInv, OnePost
<1>5. CASE C!LocalEvidence(p, o)
  <2>1. o.src /\ o.whole /\ o.saved = C!All(o.k) /\ Full(o) /\ items[p] # None
        BY <1>3, <1>5 DEF C!LocalEvidence, Full, Sourced
  <2>2. run' = [run EXCEPT !.step = "finish", !.p = p, !.row = o, !.seen = @ \ {p},
                           !.archived = TRUE, !.local = TRUE]
        BY <1>2, <1>5
  <2>3. /\ run' \in Runs /\ run'.step = "finish" /\ run'.p = p /\ run'.row = o /\ run'.local = TRUE
        /\ run'.todo = run.todo /\ run'.seen = run.seen \ {p}
        BY <1>1, <1>3, <2>2 DEF Runs, Steps
  <2>4. truth[p] # None => Full(truth[p])
        BY <1>1 DEF CInv, Sources
  <2>5. /\ truth' \in [Posts -> {None} \cup PostRows] /\ index' \in [Posts -> {None} \cup PostRows]
        /\ history' \in [Posts -> SUBSET PostRows]
        /\ \A q \in Posts : truth'[q] # None => Full(truth'[q])
        /\ \A q \in Posts : index'[q] # None => truth'[q] # None
        /\ KeptStill /\ \A q \in Posts : VersionKept(q)
        /\ KeptWhole(p, C!Content(o))'
    <3>1. CASE C!Accepts(p, o)
      <4>1. C!Write(p, o, TRUE)
            BY <1>2, <1>5, <3>1
      <4>2. /\ truth' \in [Posts -> {None} \cup PostRows] /\ index' \in [Posts -> {None} \cup PostRows]
            /\ history' \in [Posts -> SUBSET PostRows] /\ truth'[p] = C!Appended(p, o) /\ truth'[p] \in PostRows
            /\ \A q \in Posts : truth'[q] # None => Full(truth'[q])
            /\ \A q \in Posts : index'[q] # None => truth'[q] # None
            /\ KeptStill /\ \A q \in Posts : VersionKept(q)
            BY <1>1, <1>3, <2>1, <3>1, <4>1, Writes DEF CInv, Sources
      <4>3. truth'[p].whole /\ C!Content(truth'[p]) = C!Content(o)
            BY <1>1, <1>3, <2>1, <2>4, <4>2, WholeComes DEF CInv
      <4>4. KeptWhole(p, C!Content(o))'
            BY <4>2, <4>3, NoneIsNothing DEF KeptWhole
      <4> QED BY <4>2, <4>4
    <3>2. CASE ~C!Accepts(p, o)
      <4>1. UNCHANGED <<truth, index, history>>
            BY <1>2, <1>5, <3>2
      <4>2. truth[p] # None /\ truth[p].whole /\ C!Content(truth[p]) = C!Content(o)
            BY <1>1, <1>3, <2>1, <2>4, <3>2, WholeIsThere DEF CInv
      <4>3. KeptWhole(p, C!Content(o))'
            BY <4>1, <4>2 DEF KeptWhole
      <4> QED BY <4>1, <4>3, ArchiveAlone DEF CInv, CapType, Sources
    <3> QED BY <3>1, <3>2
  <2>6. AllHold' /\ \A q \in Posts : Accounted(q) /\ (C!Pending(q)' <=> C!Pending(q))
        BY <1>0, <2>5, StateAlone
  <2>7. CapType'
        BY <1>0, <2>3, <2>5 DEF CInv, CapType
  <2>8. Sources'
        BY <1>3, <2>1, <2>3, <2>5 DEF CInv, Sources
  <2>9. Archived'
        BY <2>3, <2>5 DEF Archived
  <2>10. OnePost'
        BY <1>0, <1>1, <1>3, <1>4, <2>1, <2>3, <2>6 DEF CInv, OnePost, Preparing
  <2>11. OneScan'
        BY <1>0, <1>4, <2>6 DEF CInv, OneScan, OnePost
  <2> QED BY <2>5, <2>6, <2>7, <2>8, <2>9, <2>10, <2>11 DEF CInv, StepHolds
<1>6. CASE ~C!LocalEvidence(p, o)
  <2>1. PICK todo \in {run.todo, run.todo \cup {<<p, o>>}} : run' = [run EXCEPT !.seen = @ \ {p}, !.todo = todo]
        BY <1>1, <1>2, <1>6
  <2>2. todo \subseteq Posts \X PostRows
        BY <1>1, <1>3, <2>1 DEF Runs
  <2>3. /\ run' \in Runs /\ run'.step = "prepare" /\ run'.row = run.row /\ run'.local = run.local
        /\ run'.todo = todo /\ run'.seen = run.seen \ {p} /\ run'.p = run.p
        BY <1>0, <1>1, <2>1, <2>2 DEF Runs, Steps
  <2>4. UNCHANGED <<truth, index, history>>
        BY <1>2, <1>6
  <2>5. KeptStill /\ \A q \in Posts : VersionKept(q)
        BY <2>4, ArchiveAlone
  <2>6. AllHold' /\ \A q \in Posts : Accounted(q) /\ (C!Pending(q)' <=> C!Pending(q))
        BY <1>0, <2>5, StateAlone
  <2>7. CapType'
        BY <1>0, <2>3, <2>4 DEF CInv, CapType
  <2>8. Sources'
        BY <1>0, <1>3, <2>1, <2>3, <2>4 DEF CInv, Sources
  <2>9. Archived'
        BY <2>3 DEF Archived
  <2>10. OnePost'
    <3>1. \A c \in todo : c[1] \notin run.seen \ {p}
          BY <1>1, <1>4, <2>1
    <3>2. \A c, d \in todo : c[1] = d[1] => c = d
          BY <1>1, <1>4, <2>1 DEF CInv, OnePost
    <3> QED BY <1>0, <1>4, <2>3, <2>6, <3>1, <3>2 DEF CInv, OnePost, Preparing
  <2>11. OneScan'
        BY <1>0, <1>4, <2>6 DEF CInv, OneScan, OnePost
  <2> QED BY <2>5, <2>6, <2>7, <2>8, <2>9, <2>10, <2>11 DEF CInv, StepHolds
<1> QED BY <1>5, <1>6

LEMMA Begins == ASSUME CInv, C!Begin PROVE CInv' /\ StepHolds
<1> DEFINE taken == {c \in run.todo : items[c[1]] = None \/ items[c[1]].status \notin {"pending", "manual"}}
           Of(p) == CHOOSE c \in taken : c[1] = p
<1>0. /\ run.step = "prepare" /\ run.seen = {} /\ UNCHANGED <<source, truth, index, history, outcomes, scans, crashes>>
      /\ items' = [p \in Posts |-> IF \E c \in taken : c[1] = p THEN C!NewItem(p, Of(p)[2], scans) ELSE items[p]]
      /\ run' = [run EXCEPT !.step = "next", !.todo = taken]
      BY DEF C!Begin, C!archive
<1>1. Preparing /\ (\A p \in Posts : ~C!Pending(p)) /\ run \in Runs
      BY <1>0 DEF Preparing, CInv, OnePost, CapType
<1>2. /\ taken \subseteq run.todo /\ taken \subseteq Posts \X PostRows
      /\ \A c \in taken : Sourced(c[2])
      BY <1>1 DEF Runs, CInv, Sources
<1>3. \A p \in Posts : (\E c \in taken : c[1] = p) => Of(p)[2] \in PostRows /\ Sourced(Of(p)[2])
      BY <1>2
<1> HIDE DEF taken, Of
<1>4. /\ run' \in Runs /\ run'.step = "next" /\ run'.row = run.row /\ run'.local = run.local
      /\ run'.todo = taken /\ run'.p = run.p
      BY <1>0, <1>1, <1>2 DEF Runs, Steps
<1>5. KeptStill /\ \A q \in Posts : VersionKept(q)
      BY <1>0, ArchiveAlone
<1>6. ASSUME NEW p \in Posts
      PROVE  /\ items'[p] \in {None} \cup Items /\ PostHolds(p)' /\ Accounted(p)
             /\ C!Pending(p)' <=> \E c \in taken : c[1] = p
             /\ C!Pending(p)' => items'[p].scan = scans
  <2>1. CASE \E c \in taken : c[1] = p
    <3> DEFINE row == Of(p)[2]
    <3>1. items'[p] = C!NewItem(p, row, scans)
          BY <1>0, <2>1
    <3>2. row \in PostRows /\ Sourced(row)
          BY <1>3, <2>1
    <3> HIDE DEF row
    <3>3. \A r \in PostRows : C!Content(r) \in Contents
          BY DEF PostRows, Contents, C!Content
    <3>4. items[p] \in {None} \cup Items /\ index[p] \in {None} \cup PostRows /\ scans \in Nat
          BY DEF CInv, CapType
    <3>5. /\ items'[p] \in Items /\ items'[p].status = "pending" /\ items'[p].scan = scans /\ items'[p].row = row
          /\ items'[p].last = IF items[p] = None THEN None ELSE items[p].last
          BY <3>1, <3>2, <3>3, <3>4 DEF C!NewItem, Items
    <3>6. PostHolds(p)'
          BY <1>0, <3>2, <3>5 DEF PostHolds, CInv, AllHold
    <3> QED BY <1>1, <2>1, <3>5, <3>6, NoneIsNothing DEF C!Pending, Accounted
  <2>2. CASE ~\E c \in taken : c[1] = p
    <3>1. items'[p] = items[p]
          BY <1>0, <2>2
    <3> QED BY <1>0, <1>1, <1>5, <2>2, <3>1, PostAlone DEF CInv, AllHold, CapType, C!Pending, Accounted
  <2> QED BY <2>1, <2>2
<1>7. CapType'
  <2>1. items' \in [Posts -> {None} \cup Items]
        BY <1>0, <1>6
  <2> QED BY <1>0, <1>4, <2>1 DEF CInv, CapType
<1>8. Sources' /\ Archived'
      BY <1>0, <1>2, <1>4 DEF CInv, Sources, Archived
<1>9. OnePost'
  <2>1. \A c \in taken : c[1] \in Posts /\ C!Pending(c[1])'
        BY <1>2, <1>6
  <2> QED BY <1>0, <1>2, <1>4, <2>1 DEF CInv, OnePost, Preparing
<1>10. OneScan'
      BY <1>0, <1>6 DEF OneScan
<1> QED BY <1>5, <1>6, <1>7, <1>8, <1>9, <1>10 DEF CInv, StepHolds, AllHold

LEMMA Starts == ASSUME CInv, C!Start PROVE CInv' /\ StepHolds
<1>0. run.step = "next" /\ UNCHANGED <<source, truth, index, history, outcomes, scans, crashes>> /\ run \in Runs
      BY DEF C!Start, C!archive, CInv, CapType
<1>1. PICK c \in run.todo :
          /\ items' = [items EXCEPT ![c[1]].started = TRUE]
          /\ run' = [run EXCEPT !.step = "visit", !.p = c[1], !.row = c[2], !.todo = @ \ {c}]
      BY DEF C!Start
<1>2. c[1] \in Posts /\ c[2] \in PostRows /\ Sourced(c[2]) /\ ~Preparing /\ ~run.local
      BY <1>0 DEF Runs, CInv, Sources, Preparing, OnePost
<1>3. C!Pending(c[1]) /\ items[c[1]] \in Items
      BY <1>0, <1>2 DEF CInv, OnePost, C!Pending, CapType
<1>4. /\ run' \in Runs /\ run'.step = "visit" /\ run'.p = c[1] /\ run'.row = c[2] /\ run'.todo = run.todo \ {c}
      /\ run'.local = run.local
      BY <1>0, <1>1, <1>2 DEF Runs, Steps
<1>5. KeptStill /\ \A q \in Posts : VersionKept(q)
      BY <1>0, ArchiveAlone
<1>6. /\ items'[c[1]] = [items[c[1]] EXCEPT !.started = TRUE]
      /\ items' \in [Posts -> {None} \cup Items]
      /\ \A q \in Posts \ {c[1]} : items'[q] = items[q]
  <2>1. [items[c[1]] EXCEPT !.started = TRUE] \in Items
        BY <1>3 DEF Items
  <2> QED BY <1>1, <1>2, <2>1 DEF CInv, CapType
<1>7. /\ items'[c[1]] \in Items /\ items'[c[1]].status = "pending" /\ items'[c[1]].row = items[c[1]].row
      /\ items'[c[1]].last = items[c[1]].last /\ items'[c[1]].scan = items[c[1]].scan
      BY <1>3, <1>6 DEF Items, C!Pending
<1>8. \A q \in Posts : (C!Pending(q)' <=> C!Pending(q)) /\ (C!Pending(q) => items'[q].scan = items[q].scan)
      BY <1>3, <1>6, <1>7, NoneIsNothing DEF C!Pending
<1>9. AllHold'
  <2>1. PICK p \in Posts : p = c[1]
        BY <1>2
  <2>2. PostHolds(p)'
        BY <1>0, <1>3, <1>7, <2>1, NoneIsNothing DEF PostHolds, CInv, AllHold
  <2>3. \A q \in Posts \ {p} : PostHolds(q)'
        BY <1>0, <1>5, <1>6, <2>1, PostAlone DEF CInv, AllHold
  <2> QED BY <2>2, <2>3 DEF AllHold
<1>10. CapType'
      BY <1>0, <1>4, <1>6 DEF CInv, CapType
<1>11. Sources' /\ Archived'
      BY <1>0, <1>2, <1>4 DEF CInv, Sources, Archived
<1>12. OnePost'
  <2>1. items'[c[1]] # None
        BY <1>7, NoneIsNothing
  <2>2. \A d \in run.todo : d[1] \in Posts /\ C!Pending(d[1])'
        BY <1>0, <1>2, <1>8 DEF CInv, OnePost, Runs
  <2>3. C!Pending(c[1])'
        BY <1>2, <1>3, <1>8
  <2> QED BY <1>0, <1>2, <1>4, <2>1, <2>2, <2>3 DEF CInv, OnePost, Preparing, C!Pending
<1>13. OneScan'
  <2>1. run # C!NoRun
        BY <1>0 DEF C!NoRun
  <2>2. \A q \in Posts : C!Pending(q) => items[q].scan = scans
        BY <2>1 DEF CInv, OneScan
  <2> QED BY <1>0, <1>8, <2>2 DEF OneScan
<1> QED BY <1>5, <1>8, <1>9, <1>10, <1>11, <1>12, <1>13 DEF CInv, StepHolds, Accounted

LEMMA Visits == ASSUME CInv, C!Visit PROVE CInv' /\ StepHolds
<1>0. run.step = "visit" /\ UNCHANGED <<source, truth, index, history, items, outcomes, scans, crashes>> /\ run \in Runs
      BY DEF C!Visit, C!archive, CInv, CapType
<1>1. PICK o \in {run.row} \cup (IF run.row.src THEN {} ELSE C!Merged(run.p, run.row)),
           got \in SUBSET C!All(Images), stop \in BOOLEAN, ok \in BOOLEAN :
          /\ got \subseteq C!All(o.k) \ o.saved
          /\ stop => ~ok
          /\ (run.row.src \/ o.src) \/ ~ok
          /\ run' = [run EXCEPT !.step = "append", !.ok = ok, !.stop = stop,
                        !.row = [C!Fetched(o, got) EXCEPT !.whole = @ /\ ok]]
      BY DEF C!Visit
<1>2. run.p \in Posts /\ run.row \in PostRows /\ Sourced(run.row) /\ ~run.local /\ ~Preparing
      BY <1>0, NoneIsNothing DEF CInv, OnePost, Sources, Preparing
<1>3. o \in PostRows /\ Sourced(o)
  <2>1. \A d \in C!Shown(run.p) : d \in PostRows /\ Sourced(d)
        BY <1>2, ShownRows DEF CInv
  <2> QED BY <1>1, <1>2, <2>1 DEF C!Merged
<1> DEFINE row == [C!Fetched(o, got) EXCEPT !.whole = @ /\ ok]
<1>4. row \in PostRows /\ Full(row)
      BY <1>1, <1>3, FetchedRows
<1>5. run' = [run EXCEPT !.step = "append", !.ok = ok, !.stop = stop, !.row = row]
      BY <1>1
<1> HIDE DEF row
<1>6. /\ run' \in Runs /\ run'.step = "append" /\ run'.row = row /\ run'.todo = run.todo
      /\ run'.local = run.local /\ run'.p = run.p
      BY <1>0, <1>1, <1>4, <1>5 DEF Runs, Steps
<1>7. KeptStill /\ \A q \in Posts : VersionKept(q)
      BY <1>0, ArchiveAlone
<1>8. AllHold' /\ \A q \in Posts : Accounted(q) /\ (C!Pending(q)' <=> C!Pending(q))
      BY <1>0, <1>7, StateAlone
<1>9. CapType'
      BY <1>0, <1>6 DEF CInv, CapType
<1>10. Sources' /\ Archived'
      BY <1>0, <1>4, <1>6 DEF CInv, Sources, Archived, Full
<1>11. OnePost'
  <2>1. C!Pending(run.p) /\ items[run.p] # None /\ (\A c \in run.todo : C!Pending(c[1]) /\ c[1] # run.p)
        BY <1>0, <1>2 DEF CInv, OnePost
  <2> QED BY <1>0, <1>2, <1>4, <1>6, <2>1 DEF CInv, OnePost, Preparing, C!Pending
<1>12. OneScan'
  <2>1. run # C!NoRun
        BY <1>0 DEF C!NoRun
  <2> QED BY <1>0, <1>8, <2>1 DEF CInv, OneScan
<1> QED BY <1>7, <1>8, <1>9, <1>10, <1>11, <1>12 DEF CInv, StepHolds

LEMMA Appends == ASSUME CInv, C!Append PROVE CInv' /\ StepHolds
<1>0. run.step = "append" /\ UNCHANGED <<source, items, outcomes, scans>> /\ run \in Runs
      BY DEF C!Append, CInv, CapType
<1>1. PICK p \in Posts : p = run.p
      BY <1>0 DEF CInv, OnePost
<1>2. run.row \in PostRows /\ Full(run.row) /\ ~run.local /\ ~Preparing /\ (truth[p] # None => Full(truth[p]))
      BY <1>0 DEF CInv, OnePost, Sources, Preparing
<1>3. PICK new \in {run.row, C!Appended(p, run.row)}, filed \in BOOLEAN, ok \in BOOLEAN :
        /\ run'.step = "finish" /\ run'.row = new /\ run'.archived = filed /\ run'.p = p
        /\ run'.todo = run.todo /\ run'.local = run.local /\ run' \in Runs /\ Full(new) /\ new \in PostRows
        /\ \/ ~C!Accepts(p, run.row) /\ new = run.row /\ UNCHANGED <<truth, index, history>>
           \/ /\ C!Accepts(p, run.row) /\ new = C!Appended(p, run.row)
              /\ C!Write(p, run.row, TRUE) \/ C!Write(p, run.row, FALSE)
  <2>1. C!Appended(p, run.row) \in PostRows /\ Full(C!Appended(p, run.row))
        BY <1>2, AppendedRow DEF CInv
  <2>2. CASE /\ ~C!Accepts(run.p, run.row)
             /\ run' = [run EXCEPT !.step = "finish", !.archived = TRUE]
             /\ UNCHANGED <<truth, index, history>>
    <3>1. /\ run'.step = "finish" /\ run'.row = run.row /\ run'.archived = TRUE /\ run'.p = p
          /\ run'.todo = run.todo /\ run'.local = run.local /\ run' \in Runs
          BY <1>0, <1>1, <2>2 DEF Runs, Steps
    <3> QED BY <1>1, <1>2, <2>2, <3>1
  <2>3. CASE /\ C!Accepts(run.p, run.row) /\ C!Write(run.p, run.row, TRUE)
             /\ run' = [run EXCEPT !.step = "finish", !.archived = TRUE, !.row = C!Appended(run.p, run.row)]
    <3>1. /\ run'.step = "finish" /\ run'.row = C!Appended(p, run.row) /\ run'.archived = TRUE /\ run'.p = p
          /\ run'.todo = run.todo /\ run'.local = run.local /\ run' \in Runs
          BY <1>0, <1>1, <2>1, <2>3 DEF Runs, Steps
    <3> QED BY <1>1, <2>1, <2>3, <3>1
  <2>4. CASE /\ C!Accepts(run.p, run.row) /\ C!Write(run.p, run.row, FALSE)
             /\ run' = [run EXCEPT !.step = "finish", !.ok = FALSE, !.row = C!Appended(run.p, run.row)]
    <3>1. /\ run'.step = "finish" /\ run'.row = C!Appended(p, run.row) /\ run'.archived = run.archived /\ run'.p = p
          /\ run'.todo = run.todo /\ run'.local = run.local /\ run' \in Runs /\ run.archived \in BOOLEAN
          BY <1>0, <1>1, <2>1, <2>4 DEF Runs, Steps
    <3> QED BY <1>1, <2>1, <2>4, <3>1
  <2> QED BY <2>2, <2>3, <2>4 DEF C!Append, C!archive
<1>4. /\ truth' \in [Posts -> {None} \cup PostRows] /\ index' \in [Posts -> {None} \cup PostRows]
      /\ history' \in [Posts -> SUBSET PostRows]
      /\ \A q \in Posts : truth'[q] # None => Full(truth'[q])
      /\ \A q \in Posts : index'[q] # None => truth'[q] # None
      /\ KeptStill /\ \A q \in Posts : VersionKept(q)
      /\ new.src /\ new.whole => KeptWhole(p, C!Content(new))'
  <2>1. CASE ~C!Accepts(p, run.row) /\ new = run.row /\ UNCHANGED <<truth, index, history>>
    <3>1. new.src /\ new.whole => truth[p] # None /\ truth[p].whole /\ C!Content(truth[p]) = C!Content(new)
          BY <1>2, <2>1, WholeIsThere DEF CInv
    <3>2. new.src /\ new.whole => KeptWhole(p, C!Content(new))'
          BY <2>1, <3>1 DEF KeptWhole
    <3> QED BY <2>1, <3>2, ArchiveAlone DEF CInv, CapType, Sources
  <2>2. CASE /\ C!Accepts(p, run.row) /\ new = C!Appended(p, run.row)
             /\ C!Write(p, run.row, TRUE) \/ C!Write(p, run.row, FALSE)
    <3>1. /\ truth' \in [Posts -> {None} \cup PostRows] /\ index' \in [Posts -> {None} \cup PostRows]
          /\ history' \in [Posts -> SUBSET PostRows] /\ truth'[p] = new /\ truth'[p] \in PostRows
          /\ \A q \in Posts : truth'[q] # None => Full(truth'[q])
          /\ \A q \in Posts : index'[q] # None => truth'[q] # None
          /\ KeptStill /\ \A q \in Posts : VersionKept(q)
          BY <1>2, <2>2, Writes DEF CInv, Sources
    <3>2. new.whole => KeptWhole(p, C!Content(new))'
          BY <3>1, NoneIsNothing DEF KeptWhole
    <3> QED BY <3>1, <3>2
  <2> QED BY <1>3, <2>1, <2>2
<1>5. AllHold' /\ \A q \in Posts : Accounted(q) /\ (C!Pending(q)' <=> C!Pending(q))
      BY <1>0, <1>4, StateAlone
<1>6. CapType'
      BY <1>0, <1>3, <1>4 DEF CInv, CapType
<1>7. Sources'
      BY <1>3, <1>4 DEF CInv, Sources, Full
<1>8. Archived'
      BY <1>3, <1>4 DEF Archived, C!Whole
<1>9. OnePost'
  <2>1. C!Pending(p) /\ items[p] # None /\ (\A c \in run.todo : c[1] \in Posts /\ C!Pending(c[1]) /\ c[1] # p)
        BY <1>0, <1>1, <1>2 DEF CInv, OnePost, Runs
  <2> QED BY <1>0, <1>2, <1>3, <2>1 DEF CInv, OnePost, Preparing, C!Pending
<1>10. OneScan'
  <2>1. run # C!NoRun
        BY <1>0 DEF C!NoRun
  <2> QED BY <1>0, <1>5, <2>1 DEF CInv, OneScan
<1> QED BY <1>4, <1>5, <1>6, <1>7, <1>8, <1>9, <1>10 DEF CInv, StepHolds

LEMMA Finishes == ASSUME CInv, C!Finish PROVE CInv' /\ StepHolds
<1>0. run.step = "finish" /\ UNCHANGED <<source, truth, index, history, scans, crashes>> /\ run \in Runs
      BY DEF C!Finish, C!archive, CInv, CapType
<1>1. PICK p \in Posts : p = run.p
      BY <1>0 DEF CInv, OnePost
<1>2. PICK row \in PostRows : row = run.row /\ Sourced(row)
      BY <1>0, NoneIsNothing DEF CInv, OnePost, Sources
<1>3. PICK i \in Items : i = items[p]
      BY <1>0, <1>1 DEF CInv, OnePost, CapType
<1> DEFINE complete == run.archived /\ C!Whole(row) /\ row.whole /\ run.ok
           class == IF complete /\ (i.recovery \/ run.local) THEN "recovered" ELSE i.class
           outcome == [rev |-> C!Content(row), complete |-> complete, archived |-> run.archived, src |-> row.src]
           changed == outcome # i.last /\ ~(complete /\ class = "source_updated" /\ C!Content(row) = i.prior)
           item == [i EXCEPT !.status = IF complete THEN "complete" ELSE "manual",
                             !.row = row, !.class = class, !.rev = C!Content(row), !.last = outcome]
<1>4. /\ items' = [items EXCEPT ![p] = item]
      /\ outcomes' = IF changed THEN outcomes \cup {<<p, "outcome", outcome>>} ELSE outcomes
      BY <1>1, <1>2, <1>3 DEF C!Finish, C!Finished
<1>5. /\ complete \in BOOLEAN /\ class \in {"new", "source_updated", "recovered"} /\ C!Content(row) \in Contents
      /\ outcome \in Outcomes /\ outcome.complete = complete
      BY <1>0 DEF C!Whole, C!Content, PostRows, Contents, Runs, Items, Outcomes
<1>6. complete => row.saved = C!All(row.k) /\ KeptWhole(p, C!Content(row))
      BY <1>0, <1>1, <1>2 DEF CInv, Archived, C!Whole
<1>7. ~complete => <<p, "outcome", outcome>> \in outcomes'
      BY <1>3, <1>4, <1>5, NoneIsNothing DEF CInv, AllHold, PostHolds
<1>8. outcomes \subseteq outcomes'
      BY <1>4
<1> HIDE DEF complete, class, outcome, changed
<1>9. /\ item \in Items /\ item.status = (IF complete THEN "complete" ELSE "manual")
      /\ item.row = row /\ item.last = outcome
      BY <1>5 DEF Items
<1> HIDE DEF item
<1>10. /\ items' \in [Posts -> {None} \cup Items] /\ items'[p] = item
       /\ \A q \in Posts \ {p} : items'[q] = items[q]
      BY <1>4, <1>9 DEF CInv, CapType
<1>11. KeptStill /\ \A q \in Posts : VersionKept(q)
      BY <1>0, ArchiveAlone
<1>12. PostHolds(p)' /\ ~C!Pending(p)' /\ Accounted(p)
  <2>1. KeptWhole(p, C!Content(row)) => KeptWhole(p, C!Content(row))'
        BY <1>11 DEF KeptStill
  <2>2. PostHolds(p)'
        BY <1>2, <1>5, <1>6, <1>7, <1>9, <1>10, <2>1 DEF PostHolds
  <2>3. ~C!Pending(p)'
        BY <1>5, <1>9, <1>10 DEF C!Pending
  <2>4. ~complete => \E e \in outcomes' : e[1] = p
        BY <1>7
  <2> QED BY <1>5, <1>9, <1>10, <2>2, <2>3, <2>4 DEF Accounted
<1>13. \A q \in Posts \ {p} : PostHolds(q)' /\ (C!Pending(q)' <=> C!Pending(q)) /\ Accounted(q)
  <2>1. ASSUME NEW q \in Posts \ {p} PROVE PostHolds(q)'
        BY <1>8, <1>10, <1>11, PostAlone DEF CInv, AllHold
  <2>2. ASSUME NEW q \in Posts \ {p} PROVE (C!Pending(q)' <=> C!Pending(q)) /\ Accounted(q)
        BY <1>10 DEF C!Pending, Accounted
  <2> QED BY <2>1, <2>2
<1>14. PICK step \in {"prepare", "end", "next"} :
         /\ run' = [C!NoRun EXCEPT !.who = run.who, !.seen = run.seen, !.todo = run.todo, !.step = step]
         /\ step = "prepare" <=> run.local
      BY DEF C!Finish
<1>15. /\ run' \in Runs /\ run'.step = step /\ run'.todo = run.todo /\ run'.row = None /\ run'.local = FALSE
       /\ run'.seen = run.seen
      BY <1>0, <1>14 DEF C!NoRun, Runs, Steps
<1>16. CapType'
      BY <1>0, <1>10, <1>15 DEF CInv, CapType
<1>17. Sources' /\ Archived'
      BY <1>0, <1>15 DEF CInv, Sources, Archived
<1>18. OnePost'
  <2>1. CASE run.local
    <3>1. Preparing
          BY <1>0, <2>1 DEF Preparing
    <3>2. \A q \in Posts : ~C!Pending(q)'
          BY <1>12, <1>13, <3>1 DEF CInv, OnePost
    <3> QED BY <1>14, <1>15, <2>1, <3>1, <3>2 DEF CInv, OnePost, Preparing
  <2>2. CASE ~run.local
    <3>1. \A c \in run.todo : c[1] \in Posts \ {p} /\ C!Pending(c[1])
          BY <1>0, <1>1, <2>2 DEF CInv, OnePost, Preparing, Runs
    <3>2. \A c \in run.todo : C!Pending(c[1])'
          BY <1>13, <3>1
    <3> QED BY <1>14, <1>15, <2>2, <3>2 DEF CInv, OnePost, Preparing
  <2> QED BY <2>1, <2>2
<1>19. OneScan'
  <2>1. run # C!NoRun
        BY <1>0 DEF C!NoRun
  <2>2. \A q \in Posts : C!Pending(q)' => C!Pending(q) /\ items'[q].scan = items[q].scan
        BY <1>10, <1>12, <1>13
  <2> QED BY <1>0, <2>1, <2>2 DEF CInv, OneScan
<1> QED BY <1>11, <1>12, <1>13, <1>16, <1>17, <1>18, <1>19 DEF CInv, StepHolds, AllHold

LEMMA Repairs == ASSUME CInv, NEW p \in Posts, C!Repair(p) PROVE CInv' /\ StepHolds
<1> DEFINE left == {q \in Posts : C!Pending(q)}
           row == [items[p].row EXCEPT !.saved = @ \cup C!Reused(p, items[p].row.m, items[p].row.k)]
           item == [items[p] EXCEPT !.status = "pending", !.recovery = TRUE, !.scan = scans + 1, !.started = TRUE]
<1>0. /\ UNCHANGED <<source, truth, index, history>> /\ run = C!NoRun /\ scans' = scans + 1 /\ items[p] # None
      /\ items' = [q \in Posts |->
             IF q = p THEN item
             ELSE IF q \notin left THEN items[q]
             ELSE [items[q] EXCEPT !.status = IF C!Started(items[q]) THEN "manual" ELSE "deferred"]]
      /\ outcomes' = outcomes \cup {<<q, "scan", items[q].scan>> : q \in {q \in left : C!Started(items[q])}}
      /\ run' = [C!NoRun EXCEPT !.step = "visit", !.who = "repair", !.p = p, !.row = row]
      BY DEF C!Repair, C!archive
<1>1. items[p] \in Items /\ scans \in Nat
      BY <1>0 DEF CInv, CapType
<1>2. row \in PostRows /\ Sourced(row)
  <2>1. items[p].row \in PostRows /\ Sourced(items[p].row)
        BY <1>0, <1>1 DEF Items, CInv, AllHold, PostHolds
  <2>2. C!Reused(p, items[p].row.m, items[p].row.k) \subseteq 1 .. Images
        BY DEF C!Reused, CInv, CapType, PostRows
  <2> QED BY <2>1, <2>2 DEF PostRows, Sourced
<1>3. /\ item \in Items /\ item.status = "pending" /\ item.scan = scans + 1 /\ item.row = items[p].row
      /\ item.last = items[p].last
  <2>1. PICK i \in Items, n \in Nat : i = items[p] /\ n = scans + 1
        BY <1>1
  <2>2. item = [i EXCEPT !.status = "pending", !.recovery = TRUE, !.scan = n, !.started = TRUE]
        BY <2>1
  <2> HIDE DEF item
  <2> QED BY <2>1, <2>2 DEF Items
<1>4. outcomes \subseteq outcomes' /\ \A q \in left : C!Started(items[q]) => <<q, "scan", items[q].scan>> \in outcomes'
      BY <1>0
<1>5. \A q \in Posts : q \in left <=> C!Pending(q)
      OBVIOUS
<1>6. /\ run' \in Runs /\ run'.step = "visit" /\ run'.p = p /\ run'.row = row /\ run'.todo = {}
      /\ run'.local = FALSE
  <2> HIDE DEF row
  <2> QED BY <1>0, <1>2 DEF C!NoRun, Runs, Steps
<1> HIDE DEF left, row, item
<1>7. KeptStill /\ \A q \in Posts : VersionKept(q)
      BY <1>0, ArchiveAlone
<1>8. items'[p] = item /\ C!Pending(p)' /\ PostHolds(p)' /\ Accounted(p)
  <2>1. items'[p] = item /\ C!Pending(p)'
        BY <1>0, <1>3, NoneIsNothing DEF C!Pending
  <2>2. PostHolds(p)'
        BY <1>0, <1>3, <1>4, <2>1 DEF PostHolds, CInv, AllHold
  <2> QED BY <2>1, <2>2 DEF Accounted
<1>9. ASSUME NEW q \in Posts \ {p}
      PROVE  items'[q] \in {None} \cup Items /\ ~C!Pending(q)' /\ PostHolds(q)' /\ Accounted(q)
  <2>1. CASE q \in left
    <3>1. items'[q] = [items[q] EXCEPT !.status = IF C!Started(items[q]) THEN "manual" ELSE "deferred"]
          BY <1>0, <2>1
    <3> QED BY <1>4, <1>5, <1>7, <2>1, <3>1, PostCloses
  <2>2. CASE q \notin left
    <3>1. items'[q] = items[q] /\ ~C!Pending(q)
          BY <1>0, <1>5, <2>2
    <3>2. ~C!Pending(q)' /\ Accounted(q)
          BY <3>1 DEF C!Pending, Accounted
    <3> QED BY <1>4, <1>7, <3>1, <3>2, PostAlone DEF CInv, AllHold, CapType
  <2> QED BY <2>1, <2>2
<1>10. CapType'
  <2>1. items' \in [Posts -> {None} \cup Items]
        BY <1>0, <1>3, <1>8, <1>9
  <2> QED BY <1>0, <1>1, <1>6, <2>1 DEF CInv, CapType
<1>11. Sources' /\ Archived'
      BY <1>0, <1>2, <1>6 DEF CInv, Sources, Archived
<1>12. OnePost'
      BY <1>2, <1>3, <1>6, <1>8, NoneIsNothing DEF OnePost, Preparing, C!Pending
<1>13. OneScan'
      BY <1>0, <1>3, <1>8, <1>9 DEF OneScan
<1> QED BY <1>7, <1>8, <1>9, <1>10, <1>11, <1>12, <1>13 DEF CInv, StepHolds, AllHold

LEMMA Retires == ASSUME CInv, C!RetireStale PROVE CInv' /\ StepHolds
<1> DEFINE stale == {p \in Posts : items[p] # None /\ items[p].status = "manual" /\ ~C!Started(items[p])}
<1>0. /\ UNCHANGED <<source, truth, index, history, outcomes, run, scans, crashes>> /\ run = C!NoRun
      /\ items' = [p \in Posts |-> IF p \in stale THEN [items[p] EXCEPT !.status = "deferred"] ELSE items[p]]
      BY DEF C!RetireStale, C!archive
<1>1. KeptStill /\ \A q \in Posts : VersionKept(q)
      BY <1>0, ArchiveAlone
<1>2. ASSUME NEW p \in Posts
      PROVE  /\ items'[p] \in {None} \cup Items /\ PostHolds(p)' /\ Accounted(p)
             /\ C!Pending(p)' => C!Pending(p) /\ items'[p] = items[p]
  <2>1. CASE p \in stale
    <3>1. PICK i \in Items : i = items[p] /\ i.status = "manual" /\ items'[p] = [i EXCEPT !.status = "deferred"]
          BY <1>0, <2>1 DEF CInv, CapType
    <3>2. /\ items'[p] \in Items /\ items'[p].status = "deferred" /\ items'[p].last = i.last
          /\ items'[p].row = i.row
          BY <3>1 DEF Items
    <3>3. ~C!Pending(p) /\ ~C!Pending(p)'
          BY <3>1, <3>2 DEF C!Pending
    <3>4. PostHolds(p)'
          BY <1>0, <3>1, <3>2, NoneIsNothing DEF PostHolds, CInv, AllHold
    <3> QED BY <3>2, <3>3, <3>4 DEF Accounted
  <2>2. CASE p \notin stale
    <3>1. items'[p] = items[p]
          BY <1>0, <2>2
    <3>2. C!Pending(p)' <=> C!Pending(p)
          BY <3>1 DEF C!Pending
    <3> QED BY <1>0, <1>1, <3>1, <3>2, PostAlone DEF CInv, AllHold, CapType, Accounted
  <2> QED BY <2>1, <2>2
<1>3. CapType'
  <2>1. items' \in [Posts -> {None} \cup Items]
        BY <1>0, <1>2
  <2> QED BY <1>0, <2>1 DEF CInv, CapType
<1>4. Sources'
      BY <1>0 DEF CInv, Sources
<1>5. OneScan'
  <2>1. \A p \in Posts : C!Pending(p)' => items'[p].scan = scans' \/ run' = C!NoRun
        BY <1>0
  <2>2. \A p, q \in Posts : C!Pending(p)' /\ C!Pending(q)' => items'[p].scan = items'[q].scan
        BY <1>2 DEF CInv, OneScan
  <2> QED BY <2>1, <2>2 DEF OneScan
<1> QED BY <1>0, <1>1, <1>2, <1>3, <1>4, <1>5, NobodyWorks DEF CInv, StepHolds, AllHold

\* Nobody works on the capture state; the archive changes and keeps what it has.
LEMMA ArchiveChanges ==
    ASSUME CInv, UNCHANGED <<items, outcomes>>, run' = C!NoRun, scans' \in {scans, scans + 1},
           source' \in [Posts -> [t : Nat, m : Nat]],
           truth' \in [Posts -> {None} \cup PostRows], index' \in [Posts -> {None} \cup PostRows],
           history' \in [Posts -> SUBSET PostRows],
           \A q \in Posts : truth'[q] # None => Full(truth'[q]),
           \A q \in Posts : index'[q] # None => truth'[q] # None,
           KeptStill, \A q \in Posts : VersionKept(q)
    PROVE  CInv' /\ StepHolds
<1>1. AllHold' /\ \A q \in Posts : Accounted(q) /\ (C!Pending(q)' <=> C!Pending(q))
      BY StateAlone
<1>2. CapType'
  <2>1. scans' \in Nat
        BY DEF CInv, CapType
  <2> QED BY <2>1, NobodyWorks DEF CInv, CapType
<1>3. Sources'
      BY NobodyWorks DEF Sources
<1>4. OneScan'
      BY <1>1 DEF CInv, OneScan
<1> QED BY <1>1, <1>2, <1>3, <1>4, NobodyWorks DEF CInv, StepHolds

LEMMA Backfills == ASSUME CInv, NEW p \in Posts, C!Backfill(p) PROVE CInv' /\ StepHolds
<1>0. UNCHANGED <<source, items, outcomes, run>> /\ run = C!NoRun /\ scans' = scans + 1
      BY DEF C!Backfill
<1>1. PICK o \in C!Shown(p), got \in SUBSET C!All(Images) :
        C!Accepts(p, C!Fetched(o, got)) /\ C!Write(p, C!Fetched(o, got), TRUE)
      BY DEF C!Backfill
<1>2. o \in PostRows /\ Sourced(o)
      BY <1>1, ShownRows DEF CInv
<1>3. C!Fetched(o, got) \in PostRows /\ Full(C!Fetched(o, got))
      BY <1>1, <1>2, FetchedRows
<1>4. /\ truth' \in [Posts -> {None} \cup PostRows] /\ index' \in [Posts -> {None} \cup PostRows]
      /\ history' \in [Posts -> SUBSET PostRows]
      /\ \A q \in Posts : truth'[q] # None => Full(truth'[q])
      /\ \A q \in Posts : index'[q] # None => truth'[q] # None
      /\ KeptStill /\ \A q \in Posts : VersionKept(q)
      BY <1>1, <1>3, Writes DEF CInv, Sources
<1> QED BY <1>0, <1>4, ArchiveChanges DEF CInv, CapType

LEMMA Reindexes == ASSUME CInv, C!Reindex PROVE CInv' /\ StepHolds
<1>0. /\ UNCHANGED <<source, items, outcomes, run, truth, history, scans>> /\ run = C!NoRun
      /\ index' = truth
      BY DEF C!Reindex
<1>1. KeptStill /\ \A q \in Posts : VersionKept(q)
      BY <1>0, ArchiveAlone
<1> QED BY <1>0, <1>1, ArchiveChanges DEF CInv, CapType, Sources

LEMMA Edits == ASSUME CInv, NEW p \in Posts, C!Edit(p) PROVE CInv' /\ StepHolds
<1>0. UNCHANGED <<items, outcomes, run, truth, index, history, scans>>
      BY DEF C!Edit, C!archive
<1>1. KeptStill /\ \A q \in Posts : VersionKept(q)
      BY <1>0, ArchiveAlone
<1>2. source' \in [Posts -> [t : Nat, m : Nat]]
  <2>1. /\ source \in [Posts -> [t : Nat, m : Nat]]
        /\ \/ source' = [source EXCEPT ![p].t = @ + 1]
           \/ source' = [source EXCEPT ![p].m = @ + 1]
        BY DEF C!Edit, CInv, CapType
  <2> QED BY <2>1
<1>3. AllHold' /\ \A q \in Posts : Accounted(q) /\ (C!Pending(q)' <=> C!Pending(q))
      BY <1>0, <1>1, StateAlone
<1>4. CapType'
      BY <1>0, <1>2 DEF CInv, CapType
<1>5. Sources' /\ Archived' /\ OneScan'
      BY <1>0, <1>3 DEF CInv, Sources, Archived, OneScan, KeptWhole
<1>6. OnePost'
      BY <1>0 DEF CInv, OnePost, Preparing, C!Pending
<1> QED BY <1>1, <1>3, <1>4, <1>5, <1>6 DEF CInv, StepHolds

LEMMA RepairsMarks == ASSUME CInv, NEW p \in Posts, C!RepairMarks(p) PROVE CInv' /\ StepHolds
<1>0. /\ UNCHANGED <<source, history, items, outcomes, run, scans>> /\ run = C!NoRun
      /\ index[p] # None /\ truth[p].saved = C!All(truth[p].k)
      /\ (C!Whole(truth[p]) /\ truth[p].whole) \/ (truth[p].k = 1 /\ Images = 1)
      /\ truth' = [truth EXCEPT ![p].src = TRUE, ![p].whole = TRUE]
      /\ index' = [index EXCEPT ![p] = truth'[p]]
      BY DEF C!RepairMarks
<1>1. PICK old \in PostRows : old = truth[p] /\ truth[p] # None /\ Full(old)
      BY <1>0 DEF CInv, CapType, Sources
<1>2. old.k = Images /\ old.saved = C!All(Images)
      BY <1>0, <1>1 DEF Full, Sourced
<1> DEFINE row == [old EXCEPT !.src = TRUE, !.whole = TRUE]
<1>3. /\ row \in PostRows /\ row.t = old.t /\ row.m = old.m /\ row.k = old.k /\ row.saved = old.saved /\ row.src /\ row.whole
      /\ C!Content(row) = C!Content(old)
      BY DEF PostRows, C!Content
<1>4. Full(row)
      BY <1>2, <1>3 DEF Full, Sourced
<1>5. truth' = [truth EXCEPT ![p] = row]
      BY <1>0, <1>1 DEF CInv, CapType
<1> HIDE DEF row
<1>6. /\ truth' \in [Posts -> {None} \cup PostRows] /\ truth'[p] = row
      /\ \A q \in Posts \ {p} : truth'[q] = truth[q]
      BY <1>3, <1>5 DEF CInv, CapType
<1>7. index' \in [Posts -> {None} \cup PostRows] /\ \A q \in Posts : index'[q] # None => truth'[q] # None
      BY <1>0, <1>3, <1>6, NoneIsNothing DEF CInv, CapType
<1>8. KeptStill
  <2> SUFFICES ASSUME NEW q \in Posts, NEW c, KeptWhole(q, c) PROVE KeptWhole(q, c)'
        BY DEF KeptStill
  <2>1. PICK r \in {truth[q]} \cup history[q] : r # None /\ r.whole /\ C!Content(r) = c
        BY DEF KeptWhole
  <2>2. CASE q = p /\ r = truth[p]
        BY <1>1, <1>3, <1>6, <2>1, <2>2, NoneIsNothing DEF KeptWhole
  <2>3. CASE ~(q = p /\ r = truth[p])
    <3>1. r \in {truth'[q]} \cup history'[q]
          BY <1>0, <1>6, <2>1, <2>3
    <3> QED BY <2>1, <3>1 DEF KeptWhole
  <2> QED BY <2>2, <2>3
<1>9. \A q \in Posts : VersionKept(q)
      BY <1>1, <1>3, <1>6 DEF VersionKept
<1>10. \A q \in Posts : truth'[q] # None => Full(truth'[q])
      BY <1>4, <1>6 DEF CInv, Sources
<1> QED BY <1>0, <1>6, <1>7, <1>8, <1>9, <1>10, ArchiveChanges DEF CInv, CapType

LEMMA Crashes == ASSUME CInv, C!Crash PROVE CInv' /\ StepHolds
<1>0. UNCHANGED <<source, items, outcomes, scans>> /\ run' = C!NoRun
      BY DEF C!Crash
<1>1. CASE UNCHANGED <<truth, index, history>>
      BY <1>0, <1>1, ArchiveAlone, ArchiveChanges DEF CInv, CapType, Sources
<1>2. CASE run.step = "append" /\ C!Accepts(run.p, run.row) /\ C!Write(run.p, run.row, FALSE)
  <2>1. run.p \in Posts /\ run.row \in PostRows /\ Full(run.row)
        BY <1>2 DEF CInv, OnePost, Sources
  <2>2. /\ truth' \in [Posts -> {None} \cup PostRows] /\ index' \in [Posts -> {None} \cup PostRows]
        /\ history' \in [Posts -> SUBSET PostRows]
        /\ \A q \in Posts : truth'[q] # None => Full(truth'[q])
        /\ \A q \in Posts : index'[q] # None => truth'[q] # None
        /\ KeptStill /\ \A q \in Posts : VersionKept(q)
        BY <1>2, <2>1, Writes DEF CInv, Sources
  <2> QED BY <1>0, <2>2, ArchiveChanges DEF CInv, CapType
<1> QED BY <1>1, <1>2 DEF C!Crash, C!archive

LEMMA ArchiveStutters == ASSUME CInv, UNCHANGED archive PROVE CInv' /\ StepHolds
<1>0. UNCHANGED <<source, truth, index, history, items, outcomes, run, scans, crashes>>
      BY DEF archive
<1>1. KeptStill /\ \A q \in Posts : VersionKept(q)
      BY <1>0, ArchiveAlone
<1>2. AllHold' /\ \A q \in Posts : Accounted(q) /\ (C!Pending(q)' <=> C!Pending(q))
      BY <1>0, <1>1, StateAlone
<1>3. CapType' /\ Sources' /\ Archived' /\ OneScan'
      BY <1>0, <1>2 DEF CInv, CapType, Sources, Archived, OneScan, KeptWhole
<1>4. OnePost'
      BY <1>0 DEF CInv, OnePost, Preparing, C!Pending
<1> QED BY <1>1, <1>2, <1>3, <1>4 DEF CInv, StepHolds

\* Every step keeps the invariant, accounts for what was started and keeps versions.
LEMMA CaptureSteps == CInv /\ [C!Next]_archive => CInv' /\ StepHolds
<1> SUFFICES ASSUME CInv, [C!Next]_archive PROVE CInv' /\ StepHolds
      OBVIOUS
<1>1. CASE C!Next
      BY <1>1, Rounds, Prepares, Begins, Starts, Visits, Appends, Finishes, Ends, Retires, Reindexes, Crashes,
         Edits, Repairs, Backfills, RepairsMarks DEF C!Next
<1>2. CASE UNCHANGED archive
      BY <1>2, ArchiveStutters
<1> QED BY <1>1, <1>2

(* Whatever crashes between two writes: exceptions are reported, what is       *)
(* complete stays in the archive, what was started comes before a person, and  *)
(* no version of a post is lost (capture_state.py, store.py).                  *)
THEOREM CaptureIsAccounted == C!Spec => CaptureAccounts
<1>1. C!Spec => C!Init /\ [][C!Next]_archive
      BY DEF C!Spec, C!vars, archive
<1>2. C!StartedIsAccounted <=> [][\A p \in Posts : Accounted(p)]_archive
      BY DEF C!StartedIsAccounted, Accounted, C!vars, archive
<1>3. C!VersionsKept <=> [][\A p \in Posts : VersionKept(p)]_archive
      BY DEF C!VersionsKept, VersionKept, C!vars, archive
<1>4. StepHolds => (\A p \in Posts : Accounted(p)) /\ (\A p \in Posts : VersionKept(p))
      BY DEF StepHolds
<1> QED BY <1>1, <1>2, <1>3, <1>4, CaptureStarts, CaptureSteps, WhatCaptureSays, PTL DEF CaptureAccounts
================================================================================
