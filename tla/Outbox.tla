--------------------------------- MODULE Outbox ---------------------------------
(* The durable outbox of the chat bots (core/feishu.py): events are enqueued  *)
(* by the monitor and the publishing entrances, grouped into deliveries,      *)
(* posted to bots that offer neither a message id nor any deduplication, and  *)
(* settled by a person whenever it is unknown whether a card arrived.         *)
(*                                                                            *)
(* Every operation holds the outbox's file lock from its first read to its    *)
(* last write; dispatch holds it across the requests it sends, and a crash    *)
(* releases it.  Age is one bit: `old' says that keep_delivered_days have     *)
(* passed since the latest stamp.  All events fit into one merged card.       *)
EXTENDS Integers, FiniteSets

CONSTANTS
    Events,           \* event identifiers
    Kind,             \* [Events -> KINDS]
    Roles,            \* receiving roles, those of the routes before included
    Route,            \* [KINDS -> SUBSET Roles]: recipients_for
    Legacy,           \* events of a file written before routes were frozen
    Retired,          \* of these, the network alarms that are no longer sent
    LegacyRoles,      \* the roles of that time
    MaxPayload,       \* bound: versions of an event's contents
    MaxTrouble        \* bound: requests that fail, and crashes

ASSUME Finitely == IsFiniteSet(Events) /\ IsFiniteSet(Roles)
ASSUME Bounds == MaxPayload \in Nat \ {0} /\ MaxTrouble \in Nat

KINDS == {"monitor_found", "monitor_saved", "ready", "scheduled", "backlog",
          "schedule_failed", "morning", "system"}
ALWAYS_DELIVERED == {"system", "scheduled", "monitor_found", "monitor_saved"}
Withdrawable == {"ready", "backlog"}

ASSUME Routes ==
    /\ Kind \in [Events -> KINDS] /\ Route \in [KINDS -> SUBSET Roles]
    /\ Legacy \subseteq Events /\ LegacyRoles \subseteq Roles /\ Retired \subseteq Events

VARIABLES
    events,       \* what is live: [event -> its contents and frozen recipients]
    deliveries,   \* [delivery id -> card, status, attempts]
    archived,     \* [event -> its entry when it was archived]
    mail,         \* the dispatch under way, holder of the lock
    desk,         \* the row a person looked at, and what they found
    inbox,        \* the cards that really arrived
    trouble       \* failures so far

vars == <<events, deliveries, archived, mail, desk, inbox, trouble>>

Payloads == 1 .. MaxPayload

\* Content addressed: the hash of a role, a group of events and a version.
Ids == [to : Roles, events : (SUBSET Events) \ {{}}, v : Nat]

Statuses == {"pending", "retry", "sent", "uncertain", "cancelled"}

\* to = {} stands for an entry without a frozen route.
EventEntry == [payload : Payloads, to : SUBSET Roles, overnight : BOOLEAN,
               withdrawn : BOOLEAN, old : BOOLEAN]

Idle == [at |-> "idle", todo |-> {}, id |-> <<>>, outcome |-> ""]
Mails == [at : {"idle", "loop", "intent", "answered"}, todo : SUBSET Ids,
          id : Ids \cup {<<>>}, outcome : {"", "sent", "retry", "uncertain"}]
NoRow == [id |-> <<>>, row |-> <<>>, arrived |-> FALSE]

Delivery(status, attempts, card) ==
    [status |-> status, attempts |-> attempts, card |-> card, due |-> TRUE, old |-> FALSE]

Rows(id) == [status : Statuses, attempts : Nat, card : [id.events -> Payloads],
             due : BOOLEAN, old : BOOLEAN]

(* TYPES.                                                                     *)
TypeOK ==
    /\ DOMAIN events \subseteq Events
    /\ \A e \in DOMAIN events : events[e] \in EventEntry
    /\ DOMAIN deliveries \subseteq Ids
    /\ \A id \in DOMAIN deliveries :
          /\ deliveries[id] \in Rows(id)
          /\ id.events \subseteq DOMAIN events
    /\ DOMAIN archived \subseteq Events \ DOMAIN events
    /\ mail \in Mails /\ mail.todo \subseteq DOMAIN deliveries
    /\ mail.at \in {"intent", "answered"} => mail.id \in DOMAIN deliveries
    /\ desk.arrived \in BOOLEAN
    /\ \A m \in inbox : m.id \in Ids /\ m.attempt \in Nat
    /\ trouble \in 0 .. MaxTrouble

Replace(f, x, y) == [z \in DOMAIN f \cup {x} |-> IF z = x THEN y ELSE f[z]]
Without(f, S) == [z \in DOMAIN f \ S |-> f[z]]

Covers(del, e) == {id \in DOMAIN del : e \in id.events}

Arrived(id) == \E m \in inbox : m.id = id

(* An old file holds at most one group, for the roles of that time, frozen in *)
(* the entries since schema version 2; whether a row that was tried arrived   *)
(* is not known from it, save that a version 2 row in retry was refused.      *)
LegacyRow(status) ==
    Delivery(status, IF status = "pending" THEN 0 ELSE 1, [e \in Legacy |-> 1])

Init ==
    /\ \E old \in {{}, Legacy}, frozen \in {{}, LegacyRoles}, to \in SUBSET LegacyRoles :
          LET ids == {[to |-> r, events |-> old, v |-> 0] : r \in to}
          IN \E status \in [ids -> Statuses \ {"cancelled"}], came \in SUBSET ids :
                /\ old = {} => to = {} /\ frozen = {}
                /\ \A id \in ids :
                      /\ status[id] = "sent" => id \in came
                      /\ status[id] = "pending" => id \notin came
                      /\ status[id] = "retry" /\ frozen # {} => id \notin came
                /\ events = [e \in old |-> [payload |-> 1, to |-> frozen, overnight |-> FALSE,
                                            withdrawn |-> FALSE, old |-> FALSE]]
                /\ deliveries = [id \in ids |-> LegacyRow(status[id])]
                /\ inbox = {[id |-> id, attempt |-> 1, card |-> deliveries[id].card] :
                              id \in came}
    /\ archived = <<>>
    /\ mail = Idle
    /\ desk = NoRow
    /\ trouble = 0
--------------------------------------------------------------------------------
(* enqueue: a known event only takes new contents while none of its           *)
(* deliveries was tried; the cards that showed the old ones are dropped.      *)
Enqueue(e, payload, overnight) ==
    /\ mail.at = "idle"
    /\ e \notin DOMAIN archived
    /\ IF e \in DOMAIN events
       THEN /\ \A id \in Covers(deliveries, e) : deliveries[id].attempts = 0
            /\ events[e].payload # payload
            /\ events' = [events EXCEPT ![e].payload = payload]
            /\ deliveries' = Without(deliveries, Covers(deliveries, e))
       ELSE /\ e \notin Retired
            /\ events' = Replace(events, e,
                  [payload |-> payload, to |-> Route[Kind[e]], overnight |-> overnight,
                   withdrawn |-> FALSE, old |-> FALSE])
            /\ UNCHANGED deliveries
    /\ UNCHANGED <<archived, mail, desk, inbox, trouble>>

\* Stamping a withdrawal, unless one is stamped already.
Withdraw(ev, S) ==
    [e \in DOMAIN ev |-> IF e \in S /\ ~ev[e].withdrawn
                         THEN [ev[e] EXCEPT !.withdrawn = TRUE, !.old = FALSE]
                         ELSE ev[e]]

(* retain_ready: reminders about posts that no longer wait for review are     *)
(* withdrawn, with every card of theirs that was not tried; one that was      *)
(* tried keeps its uncertainty.                                               *)
RetainReady(valid) ==
    /\ mail.at = "idle"
    /\ LET invalid == {e \in DOMAIN events : Kind[e] \in Withdrawable} \ valid
           withdrawn == Withdraw(events, invalid)
       IN /\ events' = [e \in DOMAIN events |->
                            IF e \in valid THEN [events[e] EXCEPT !.withdrawn = FALSE]
                            ELSE withdrawn[e]]
          /\ deliveries' = [id \in DOMAIN deliveries |->
                LET row == deliveries[id] IN
                IF row.status \in {"pending", "retry"} /\ id.events \cap invalid # {}
                THEN [row EXCEPT !.status = IF row.attempts > 0 THEN "uncertain"
                                                                ELSE "cancelled",
                                 !.old = FALSE]
                ELSE row]
    /\ UNCHANGED <<archived, mail, desk, inbox, trouble>>
--------------------------------------------------------------------------------

(* _migrate_routes: what was tried under the old routes keeps its roles and   *)
(* waits for a person; what was not is withdrawn and routed anew.             *)
Migrated(ev, del) ==
    LET unrouted == {e \in DOMAIN ev : ev[e].to = {}}
        tried(e) == \E id \in Covers(del, e) :
                       del[id].attempts > 0 \/ del[id].status = "sent"
    IN [ev |-> [e \in DOMAIN ev |->
                   IF e \notin unrouted THEN ev[e]
                   ELSE [ev[e] EXCEPT !.to = IF tried(e)
                                             THEN {id.to : id \in Covers(del, e)}
                                             ELSE Route[Kind[e]]]],
        del |-> [id \in DOMAIN del |->
                   IF \E e \in id.events \cap unrouted : tried(e)
                   THEN IF del[id].status \in {"pending", "retry"}
                        THEN [del[id] EXCEPT !.status = "uncertain"] ELSE del[id]
                   ELSE IF id.events \cap unrouted # {} /\ del[id].status = "pending"
                        THEN [del[id] EXCEPT !.status = "cancelled", !.old = FALSE]
                        ELSE del[id]]]

\* _retire_network
Pensioned(m) ==
    [ev |-> Withdraw(m.ev, Retired),
     del |-> [id \in DOMAIN m.del |->
                IF id.events \cap Retired # {} /\ m.del[id].status \in {"pending", "retry"}
                THEN [m.del[id] EXCEPT !.status = "cancelled", !.old = FALSE]
                ELSE m.del[id]]]

Prepared == Pensioned(Migrated(events, deliveries))

(* What a call of dispatch may send: everything, what is sent at any hour, or *)
(* one publishing receipt (deliver_notification).                             *)
Scopes ==
    {[kinds |-> KINDS, only |-> Events], [kinds |-> ALWAYS_DELIVERED, only |-> Events]}
    \cup {[kinds |-> {"scheduled"}, only |-> {e}] :
             e \in {f \in Events : Kind[f] = "scheduled"}}

InScope(e, scope, onDuty) ==
    /\ Kind[e] \in scope.kinds
    /\ onDuty \/ Kind[e] \in ALWAYS_DELIVERED

\* Mutant: a cancelled delivery still counts.
AssignedByAny(del, r) == UNION {id.events : id \in {d \in DOMAIN del : d.to = r}}

Assigned(del, r) ==
    UNION {id.events : id \in {d \in DOMAIN del : d.to = r /\ del[d].status # "cancelled"}}

\* Overnight reminders share one card, everything else has its own.
Groups(ev, del, r, scope, onDuty) ==
    LET missing == {e \in DOMAIN ev \ Assigned(del, r) :
                       /\ InScope(e, scope, onDuty) /\ e \in scope.only
                       /\ ~ev[e].withdrawn /\ r \in ev[e].to}
        overnight == {e \in missing : Kind[e] = "ready" /\ ev[e].overnight}
    IN ({overnight} \ {{}}) \cup {{e} : e \in missing \ overnight}

\* An id whose delivery was cancelled stays taken.  The code counts up to the first
\* free version; which free one it is makes no difference.
FreshId(del, r, group) ==
    LET id(v) == [to |-> r, events |-> group, v |-> v]
    IN id(CHOOSE v \in 0 .. Cardinality(DOMAIN del) : id(v) \notin DOMAIN del)

Composed(ev, del, scope, onDuty) ==
    LET new == UNION {{FreshId(del, r, g) : g \in Groups(ev, del, r, scope, onDuty)} :
                         r \in Roles}
    IN [id \in DOMAIN del \cup new |->
           IF id \in new THEN Delivery("pending", 0, [e \in id.events |-> ev[e].payload])
           ELSE del[id]]

(* dispatch, up to its first write: the file is brought up to date, whatever  *)
(* has no delivery gets one, and the events of every card are fixed.          *)
DispatchBegin(scope, onDuty) ==
    /\ mail.at = "idle"
    /\ UNCHANGED <<archived, desk, inbox, trouble>>
    /\ LET now == Prepared
       IN events' = now.ev /\ deliveries' = Composed(now.ev, now.del, scope, onDuty)
    /\ mail' = [Idle EXCEPT !.at = "loop",
                  !.todo = {id \in DOMAIN deliveries' :
                      /\ deliveries'[id].status \in {"pending", "retry"}
                      /\ deliveries'[id].due
                      /\ id.events \subseteq scope.only
                      /\ \A e \in id.events : InScope(e, scope, onDuty)}]

\* Mutant: the result stays what it was until the answer is there.
IntendInMemory ==
    /\ mail.at = "loop"
    /\ \E id \in mail.todo :
          /\ mail' = [mail EXCEPT !.at = "intent", !.id = id, !.todo = @ \ {id}]
          /\ deliveries' = [deliveries EXCEPT ![id].attempts = @ + 1,
                                              ![id].due = FALSE]
    /\ UNCHANGED <<events, archived, desk, inbox, trouble>>

(* The intent is durable as an unknown result before the request leaves.      *)
Intend ==
    /\ mail.at = "loop"
    /\ \E id \in mail.todo :
          /\ mail' = [mail EXCEPT !.at = "intent", !.id = id, !.todo = @ \ {id}]
          /\ deliveries' = [deliveries EXCEPT ![id].attempts = @ + 1,
                                              ![id].due = FALSE,
                                              ![id].status = "uncertain"]
    /\ UNCHANGED <<events, archived, desk, inbox, trouble>>

Card == [id |-> mail.id, attempt |-> deliveries[mail.id].attempts,
         card |-> deliveries[mail.id].card]

(* WebhookBot.send: accepted, refused (4xx or an error code), or unknown (no  *)
(* answer, 5xx, a malformed answer).                                          *)
Send ==
    /\ mail.at = "intent"
    /\ \E came, known \in BOOLEAN :
          /\ trouble' = IF came /\ known THEN trouble ELSE trouble + 1
          /\ trouble' <= MaxTrouble
          /\ inbox' = IF came THEN inbox \cup {Card} ELSE inbox
          /\ mail' = [mail EXCEPT !.at = "answered",
                        !.outcome = IF ~known THEN "uncertain"
                                    ELSE IF came THEN "sent" ELSE "retry"]
    /\ UNCHANGED <<events, deliveries, archived, desk>>

Record ==
    /\ mail.at = "answered"
    /\ deliveries' = [deliveries EXCEPT ![mail.id].status = mail.outcome,
                                        ![mail.id].old = FALSE]
    /\ mail' = [mail EXCEPT !.at = "loop", !.id = <<>>, !.outcome = ""]
    /\ UNCHANGED <<events, archived, desk, inbox, trouble>>
--------------------------------------------------------------------------------
(* _archive_completed: a component of events linked by deliveries is archived *)
(* as a whole, once every delivery is settled and every receipt is there.     *)
Linked(e, f) == \E id \in DOMAIN deliveries : {e, f} \subseteq id.events

Component(S) ==
    /\ S # {}
    /\ \A e \in S, f \in DOMAIN events : Linked(e, f) => f \in S
    /\ \A T \in (SUBSET S) \ {{}, S} : \E e \in T, f \in S \ T : Linked(e, f)

Settled(id) == deliveries[id].status \in {"sent", "cancelled"} /\ deliveries[id].old

Received(e) == {id.to : id \in {d \in Covers(deliveries, e) : deliveries[d].status = "sent"}}

Completed(e) ==
    /\ events[e].old
    /\ events[e].withdrawn \/ (Covers(deliveries, e) # {} /\ events[e].to \subseteq Received(e))

Archivable ==
    UNION {S \in SUBSET DOMAIN events :
              /\ Component(S)
              /\ \A e \in S : Completed(e) /\ \A id \in Covers(deliveries, e) : Settled(id)}

DispatchEnd ==
    /\ mail.at = "loop" /\ mail.todo = {}
    /\ LET done == Archivable
       IN /\ archived' = [e \in DOMAIN archived \cup done |->
                              IF e \in done THEN events[e] ELSE archived[e]]
          /\ events' = Without(events, done)
          /\ deliveries' = Without(deliveries, {id \in DOMAIN deliveries :
                                                   id.events \cap done # {}})
    /\ mail' = Idle
    /\ UNCHANGED <<desk, inbox, trouble>>

(* The dispatching process dies, or a write fails: the lock is free again.    *)
(* The request that was about to leave may still have left.                   *)
Crash ==
    /\ mail.at # "idle"
    /\ trouble < MaxTrouble /\ trouble' = trouble + 1
    /\ \E came \in IF mail.at = "intent" THEN BOOLEAN ELSE {FALSE} :
          inbox' = IF came THEN inbox \cup {Card} ELSE inbox
    /\ mail' = Idle
    /\ UNCHANGED <<events, deliveries, archived, desk>>
--------------------------------------------------------------------------------
(* A person looks at a delivery that is not under way, and in the chat.       *)
Look(id) ==
    /\ id \in DOMAIN deliveries /\ deliveries[id].status \in {"retry", "uncertain"}
    /\ mail.at \in {"idle", "loop"} \/ mail.id # id
    /\ desk' = [id |-> id, row |-> deliveries[id], arrived |-> Arrived(id)]
    /\ UNCHANGED <<events, deliveries, archived, mail, inbox, trouble>>

\* _rebind_confirmed_delivery
Rebound(ev, del, id) ==
    LET routes == Route[Kind[CHOOSE e \in id.events : TRUE]]
        live == {e \in id.events : ~ev[e].withdrawn}
        closed == [del EXCEPT ![id].status = "cancelled", ![id].old = FALSE]
        again == {r \in routes : live = id.events /\ Assigned(closed, r) \cap live = {}}
        new == {FreshId(closed, r, id.events) : r \in again}
    IN [ev |-> [e \in DOMAIN ev |->
                  IF e \in live THEN [ev[e] EXCEPT !.to = (@ \ {id.to}) \cup routes]
                  ELSE ev[e]],
        del |-> [d \in DOMAIN closed \cup new |->
                  IF d \in new THEN Delivery("pending", 0, del[id].card) ELSE closed[d]]]

Routed(id) == id.to \in Route[Kind[CHOOSE e \in id.events : TRUE]]

\* The row as the person found it, once the file is brought up to date.
Judged(status) ==
    [Prepared.del EXCEPT ![desk.id].status = status, ![desk.id].due = TRUE,
                         ![desk.id].old = FALSE]

Obsolete == \E e \in desk.id.events : Prepared.ev[e].withdrawn

\* expected_version
Seen ==
    /\ desk.id \in DOMAIN deliveries
    /\ deliveries[desk.id] = desk.row
    /\ deliveries[desk.id].status \in {"retry", "uncertain"}

ResolveDelivered ==
    /\ mail.at = "idle" /\ Seen /\ desk.arrived
    /\ events' = Prepared.ev
    /\ deliveries' = Judged("sent")
    /\ UNCHANGED <<archived, mail, desk, inbox, trouble>>

(* resolve(not_delivered): sent again at once, unless the reminder was        *)
(* withdrawn meanwhile or its role is no longer the route.                    *)
ResolveNotDelivered ==
    /\ mail.at = "idle" /\ Seen /\ ~desk.arrived
    /\ LET m == [ev |-> Prepared.ev, del |-> Judged(IF Obsolete THEN "cancelled" ELSE "retry")]
           n == IF Routed(desk.id) THEN m ELSE Rebound(m.ev, m.del, desk.id)
       IN events' = n.ev /\ deliveries' = n.del
    /\ UNCHANGED <<archived, mail, desk, inbox, trouble>>

\* next_at is fifteen minutes after an attempt.
QuarterHour ==
    /\ mail.at = "idle"
    /\ deliveries' = [id \in DOMAIN deliveries |-> [deliveries[id] EXCEPT !.due = TRUE]]
    /\ UNCHANGED <<events, archived, mail, desk, inbox, trouble>>

\* keep_delivered_days go by.
KeepDays ==
    /\ mail.at = "idle"
    /\ events' = [e \in DOMAIN events |-> [events[e] EXCEPT !.old = TRUE]]
    /\ deliveries' = [id \in DOMAIN deliveries |->
                         [deliveries[id] EXCEPT !.old = TRUE, !.due = TRUE]]
    /\ UNCHANGED <<archived, mail, desk, inbox, trouble>>

Producers ==
    \/ \E e \in Events, payload \in Payloads, overnight \in BOOLEAN :
          /\ overnight => Kind[e] = "ready"
          /\ Enqueue(e, payload, overnight)
    \/ \E valid \in SUBSET {e \in Events : Kind[e] \in Withdrawable} : RetainReady(valid)

Dispatch ==
    \/ \E scope \in Scopes, onDuty \in BOOLEAN : DispatchBegin(scope, onDuty)
    \/ Intend \/ Send \/ Record \/ DispatchEnd

Person ==
    \/ \E id \in DOMAIN deliveries : Look(id)
    \/ ResolveDelivered \/ ResolveNotDelivered

Next == Producers \/ Dispatch \/ Crash \/ Person \/ QuarterHour \/ KeepDays

Spec == Init /\ [][Next]_vars
(* The service dispatches at every tick and calls time out; a person settles  *)
(* what is unknown about each event.                                          *)
About(e) == \E id \in DOMAIN deliveries : e \in id.events /\ mail.at = "idle" /\ Look(id)
Judge(e) == desk # NoRow /\ e \in desk.id.events /\ (ResolveDelivered \/ ResolveNotDelivered)

Fairness ==
    /\ WF_vars(Intend \/ Send \/ Record \/ DispatchEnd)
    /\ SF_vars(DispatchBegin([kinds |-> KINDS, only |-> Events], TRUE))
    /\ SF_vars(QuarterHour)
    /\ \A e \in Events : SF_vars(About(e)) /\ SF_vars(Judge(e))

LiveSpec == Spec /\ Fairness
--------------------------------------------------------------------------------
(* TOLD AT MOST ONCE.  No role gets two cards about one event: not after a    *)
(* crash between intent and receipt, not by a stale judgement, not when an    *)
(* old file is taken over (the bots themselves deduplicate nothing).          *)
ToldAtMostOnce ==
    \A m, n \in inbox :
        m # n => m.id.to # n.id.to \/ m.id.events \cap n.id.events = {}

ToldTo(e, r) == \E m \in inbox : m.id.to = r /\ e \in m.id.events

(* SETTLED MEANS TOLD.  A delivery recorded as sent arrived, and an event is  *)
(* archived, never to be enqueued again, only after every role of its frozen  *)
(* route was told or the reminder was withdrawn.                              *)
SettledMeansTold ==
    /\ \A id \in DOMAIN deliveries : deliveries[id].status = "sent" => Arrived(id)
    /\ \A e \in DOMAIN archived :
          archived[e].withdrawn \/ \A r \in archived[e].to : ToldTo(e, r)

(* WITHDRAWN IS NOT SENT.  What may be sent without a person shows no event   *)
(* that was withdrawn, however the withdrawal falls between a failed attempt, *)
(* the look of a person and their judgement.                                  *)
WithdrawnNeverSent ==
    \A id \in DOMAIN deliveries :
        deliveries[id].status \in {"pending", "retry"} =>
            \A e \in id.events : ~events[e].withdrawn

(* UNTRIED CARDS ARE CURRENT.  "Only what was not tried may follow a          *)
(* correction by hand" (enqueue): and it does.                                *)
UntriedCardsCurrent ==
    \A id \in DOMAIN deliveries :
        (deliveries[id].status = "pending" /\ deliveries[id].attempts = 0) =>
            \A e \in id.events : deliveries[id].card[e] = events[e].payload

(* ONCE, TRUE AND CURRENT.  No role is told twice of one event, whatever       *)
(* crashes, late judgements and old files come between; what is settled was   *)
(* told, and what an event is archived by was told to its whole route.        *)
(* Nothing withdrawn is sent without a person, and a card that was never      *)
(* tried shows its events as they are.                                        *)
OutboxTellsTruth ==
    TypeOK /\ ToldAtMostOnce /\ SettledMeansTold /\ WithdrawnNeverSent /\ UntriedCardsCurrent

(* EVENTUALLY TOLD.  An event reaches every role of its frozen route, however *)
(* many cards fail on the way, unless it is withdrawn.                        *)
EventuallyTold ==
    \A e \in Events :
        (e \in DOMAIN events) ~>
            \/ e \in DOMAIN archived
            \/ e \in DOMAIN events /\ events[e].withdrawn
            \/ /\ e \in DOMAIN events /\ events[e].to # {}
               /\ \A r \in events[e].to : ToldTo(e, r)
================================================================================
