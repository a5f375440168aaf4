----------------------------- MODULE PlannerCalendar -----------------------------
(* The month calendar of Business Suite and what the program concludes from   *)
(* it: whether a slot is free (publish/planning.py) and whether a submission   *)
(* arrived (publish/month_readback.py).  There is no interface to ask:         *)
(* publish/month_inventory.py reads a page, day by day and card by card, that  *)
(* renders late, folds full days, leads astray, and changes while it is read,  *)
(* for people use the same calendar.                                           *)
(*                                                                             *)
(* A moment is a number, four to a day; the target, its channel and its text    *)
(* are fixed.  A card is what people see of it; its id is seen in its details. *)
EXTENDS Integers, Sequences, SequencesExt, FiniteSets

CONSTANTS Ids,         \* cards, positive numbers; shown in the details only
          Mine,        \* the one that our submission makes
          Looks,       \* what the cards of others may look like: [at, channel, text]
          LastDay,     \* the month is the days 0..LastDay
          Visible,     \* cards of a day that the month view shows
          Target, Channel, Text,     \* what is to be scheduled
          Advice,      \* the text of a recommended time that is no card
          Gap,         \* the distance that cards of a channel keep
          MaxChanges   \* bound: what people change in the calendar

VARIABLES
    remote,     \* the calendar: each card's look, or Gone
    rendered,   \* the days whose cards the page has drawn
    reader,     \* the read under way
    month,      \* the grid it found first, row by row
    week,       \* the grid of the week view, <<>> before it is opened
    details,    \* what it learned of the cards of those rows
    stage,      \* how far the publication is
    baseline,   \* the cards like ours that were there before it
    signal,     \* the id that came with the signal of success, or 0
    found,      \* the card that was taken for ours, or 0
    still,      \* the cards nobody touched since the last sweeps began (history)
    calm,       \* nobody touched another card than `found` in this read (history)
    older,      \* those like ours nobody touched during the opening read (history)
    changes

calendar == <<remote, rendered, changes>>
read == <<reader, month, week, details>>
publication == <<stage, baseline, signal, found, older>>
history == <<still, calm>>
vars == <<calendar, read, publication, history>>

Gone == [at |-> -1, channel |-> "", text |-> ""]
Day(at) == at \div 4
Days == 0..LastDay
OnDay(d) == {i \in Ids : remote[i] # Gone /\ Day(remote[i].at) = d}
Ours == [at |-> Target, channel |-> Channel, text |-> Text]

\* The cards of a day stand in the order of their times.
Ordered(S) == SetToSortSeq(S, LAMBDA i, j :
    \/ remote[i].at < remote[j].at
    \/ remote[i].at = remote[j].at /\ i < j)
LooksOf(S) == LET order == Ordered(S) IN [k \in DOMAIN order |-> remote[order[k]]]

Least(m, n) == IF m < n THEN m ELSE n
\* A day of the month view, with its "+ n more"; a day of the week view has all.
Row(view, S) ==
    LET n == IF view = "week" THEN Cardinality(S) ELSE Least(Visible, Cardinality(S))
    IN  [items |-> SubSeq(LooksOf(S), 1, n), hidden |-> Cardinality(S) - n]

-------------------------------------------------------------------------------
Resting == [pc |-> "idle", why |-> "none", goal |-> "none", rows |-> <<>>,
            last |-> <<>>, todo |-> <<>>]

Init ==
    /\ remote \in [Ids -> Looks \cup {Gone}] /\ remote[Mine] = Gone
    /\ rendered = {}
    /\ reader = Resting /\ month = <<>> /\ week = <<>> /\ details = <<>>
    /\ stage = "none" /\ baseline = {} /\ signal = 0 /\ found = 0
    /\ still = {} /\ calm = TRUE /\ older = {}
    /\ changes = 0

\* The UI days whose cards a read opens: the month, a range, the target's day.
Scope(why) ==
    CASE why \in {"refresh", "unschedule"} -> Days
      [] why \in {"open", "recheck"} -> Days \cap (Day(Target - Gap)..Day(Target + Gap))
      [] why = "verify" -> {Day(Target)}

\* Two sweeps in a row have to be equal; goal is what they are made for.
View(goal) == IF goal \in {"week", "after_week", "restore_week"} THEN "week" ELSE "month"
Sweep(goal) ==
    /\ reader' = [reader EXCEPT !.pc = "sweep", !.goal = goal, !.rows = <<>>, !.last = <<>>]
    /\ rendered' = IF View(goal) = View(reader.goal) THEN rendered ELSE {}

\* The read is void.
Void ==
    /\ reader' = [Resting EXCEPT !.pc = "failed", !.why = reader.why]
    /\ month' = <<>> /\ week' = <<>> /\ details' = <<>> /\ rendered' = {}

Open(why) ==
    /\ reader.pc = "idle"
    /\ reader' = [Resting EXCEPT !.pc = "sweep", !.why = why, !.goal = "first"]
    /\ still' = Ids
    /\ UNCHANGED <<calendar, month, week, details, publication, calm>>

-------------------------------------------------------------------------------
(* detail_grids: a day with hidden cards is read in the week view, and so is   *)
(* one with a card of Instagram, whose caption the month view does not have.   *)
Folded(row) ==
    \/ row.hidden > 0
    \/ \E k \in DOMAIN row.items : row.items[k].channel = "instagram"
FoldedDays == {d \in Scope(reader.why) : Folded(month[d + 1])}

\* The cards of some days of a grid, each by its day and its place there.
Places(days, rows) ==
    SetToSortSeq(UNION {{<<d, k>> : k \in DOMAIN rows[d + 1].items} : d \in days},
                 LAMBDA p, q : p[1] < q[1] \/ (p[1] = q[1] /\ p[2] < q[2]))

\* require_expanded_day: the week has the visible cards and as many as were hidden.
Expands(before, after) ==
    LET Of(row, look) == Cardinality({k \in DOMAIN row.items :
                             row.items[k].at = look.at /\ row.items[k].channel = look.channel})
    IN  /\ \A k \in DOMAIN before.items : Of(before, before.items[k]) <= Of(after, before.items[k])
        /\ Len(after.items) = Len(before.items) + before.hidden

Details(places) == reader' = [reader EXCEPT !.pc = "detail", !.rows = <<>>, !.last = <<>>, !.todo = places]

MonthFound(rows) ==
    /\ month' = rows
    /\ Details(Places({d \in Scope(reader.why) : ~Folded(rows[d + 1])}, rows))
    /\ UNCHANGED <<rendered, week, details, history>>

WeekFound(rows) ==
    /\ IF \A d \in FoldedDays : Expands(month[d + 1], rows[d + 1])
       THEN /\ week' = rows /\ Details(Places(FoldedDays, rows))
            /\ UNCHANGED <<rendered, month, details>>
       ELSE Void
    /\ UNCHANGED history

WeekStands(rows) ==
    /\ IF rows = week THEN Sweep("final") /\ UNCHANGED <<month, week, details>> ELSE Void
    /\ UNCHANGED history

\* restore_detail_grid: back from astray, both grids have to be what they were.
Restored(rows) ==
    /\ IF rows # (IF reader.goal = "restore" THEN month ELSE week) THEN Void
       ELSE /\ IF reader.goal = "restore" /\ week # <<>> THEN Sweep("restore_week")
               ELSE Details(reader.todo) /\ UNCHANGED rendered
            /\ UNCHANGED <<month, week, details>>
    /\ UNCHANGED history

\* The last sweeps find the month as the first did, or nothing is concluded.
Finish(rows) ==
    /\ IF rows = month
       THEN /\ reader' = [Resting EXCEPT !.pc = "read", !.why = reader.why]
            /\ UNCHANGED <<rendered, month, week, details>>
       ELSE Void
    /\ UNCHANGED history

Accept(rows) ==
    \/ reader.goal = "first" /\ MonthFound(rows)
    \/ reader.goal = "week" /\ WeekFound(rows)
    \/ reader.goal = "after_week" /\ WeekStands(rows)
    \/ reader.goal \in {"restore", "restore_week"} /\ Restored(rows)
    \/ reader.goal = "final" /\ Finish(rows)

(* read_days: a day is scrolled into view and read.  Of the cards that were    *)
(* not drawn before, some may be missing the first time.                       *)
ReadDay ==
    /\ reader.pc = "sweep"
    /\ LET d == Len(reader.rows)
       IN  \E S \in IF d \in rendered THEN {OnDay(d)} ELSE SUBSET OnDay(d) :
             LET rows == Append(reader.rows, Row(View(reader.goal), S))
             IN  IF d = LastDay /\ rows = reader.last THEN Accept(rows)
                 ELSE /\ reader' = IF d < LastDay THEN [reader EXCEPT !.rows = rows]
                                   ELSE [reader EXCEPT !.rows = <<>>, !.last = rows]
                      /\ rendered' = rendered \cup {d}
                      /\ UNCHANGED <<month, week, details, history>>
    /\ UNCHANGED <<remote, changes, publication>>

\* What is known of a card: its look and its id, or that there was something.
Known(i) == [look |-> remote[i], id |-> i]
Something(look) == [look |-> look, id |-> 0]

\* Mutant: what cannot be read is left out.
ReadOrSkip(day, k, look) ==
    \/ k \in DOMAIN day /\ remote[day[k]] = look /\ details' = Append(details, Known(day[k]))
    \/ UNCHANGED details

(* read_item: the card is looked at again, pinned and opened.  What cannot be  *)
(* read, or is not what the grid had there, stays as something of that time;   *)
(* only a recommendation that shows itself as one is left out.                 *)
ReadOrMark(day, k, look) ==
    \/ look.text = Advice /\ UNCHANGED details
    \/ /\ k \in DOMAIN day /\ remote[day[k]] = look /\ look.text # Advice
       /\ details' = Append(details, Known(day[k]))
    \/ details' = Append(details, Something(look))

ReadItem ==
    /\ reader.pc = "detail" /\ reader.todo # <<>>
    /\ LET d == Head(reader.todo)[1]
           k == Head(reader.todo)[2]
           grid == IF week # <<>> THEN week ELSE month
       IN  ReadOrMark(Ordered(OnDay(d)), k, grid[d + 1].items[k])
    /\ reader' = [reader EXCEPT !.todo = Tail(@)]
    /\ UNCHANGED <<calendar, month, week, publication, history>>

(* A click led to the composer: the calendar is opened again, and the read     *)
(* goes on only with the grids it had.                                         *)
Stray ==
    /\ reader.pc = "detail" /\ reader.todo # <<>>
    /\ reader' = [reader EXCEPT !.pc = "sweep", !.goal = "restore"]
    /\ rendered' = {}
    /\ UNCHANGED <<remote, changes, month, week, details, publication, history>>

DetailsRead ==
    /\ reader.pc = "detail" /\ reader.todo = <<>>
    /\ IF week # <<>> THEN Sweep("after_week") /\ still' = Ids
       ELSE IF FoldedDays # {} THEN Sweep("week") /\ UNCHANGED still
       ELSE Sweep("final") /\ still' = Ids
    /\ UNCHANGED calm
    /\ UNCHANGED <<remote, changes, month, week, details, publication>>

\* Loading, dialogs, titles, time: each of them ends the read.
ReadFails ==
    /\ reader.pc \in {"sweep", "detail"}
    /\ Void
    /\ UNCHANGED <<remote, changes, publication, history>>

-------------------------------------------------------------------------------
(* CONCLUSIONS.  A read covers the days of its scope; one card of unknown time *)
(* leaves nothing concluded of free slots (cards_in_range).                    *)

Cards == {c \in Range(details) : c.id # 0}
AllVerified == Cards = Range(details)
Covers(from, to) == {Day(from), Day(to)} \subseteq Scope(reader.why)

Near(at, slot) == slot - Gap < at /\ at < slot + Gap
\* evaluate_slot
Allowed(slot) ==
    /\ Covers(slot - Gap, slot + Gap) /\ AllVerified
    /\ \A c \in Cards : ~(c.look.channel = Channel /\ Near(c.look.at, slot))

\* Around the target, near ones first: the slots that are free beside each other.
Around == [n \in 1..(8 * LastDay + 8) |-> IF n % 2 = 1 THEN Target - n \div 2 ELSE Target + n \div 2]
Suggestions ==
    FoldLeft(LAMBDA taken, slot : IF /\ Allowed(slot)
                                     /\ \A other \in taken : ~Near(other, slot)
                                     /\ Cardinality(taken) < 3
                                  THEN taken \cup {slot} ELSE taken, {}, Around)

\* matching, before a submission and after it.
Matching == SelectSeq(details, LAMBDA c : c.id # 0 /\ c.look = Ours)
ExactlyRead == \A c \in Range(details) : c.look.at = Target => c.id # 0
IdsOf(m) == {c.id : c \in Range(m)}

Done ==
    /\ reader' = Resting /\ month' = <<>> /\ week' = <<>> /\ details' = <<>>
    /\ rendered' = {} /\ still' = {} /\ calm' = TRUE

\* The slot is free and nothing like ours is there: the composer is filled.
Opened ==
    /\ reader.pc = "read" /\ reader.why = "open"
    /\ IF Allowed(Target) /\ Matching = <<>>
       THEN /\ stage' = "composing" /\ baseline' = IdsOf(Matching)
            /\ older' = {i \in still : remote[i] = Ours}
       ELSE UNCHANGED <<stage, baseline, older>>
    /\ Done /\ UNCHANGED <<remote, changes, signal, found>>

\* check_live_slot, last of all before the click.
Rechecked ==
    /\ reader.pc = "read" /\ reader.why = "recheck"
    /\ stage' = IF Allowed(Target) THEN "clear" ELSE "none"
    /\ Done /\ UNCHANGED <<remote, changes, baseline, signal, found, older>>

\* Mutant: among several like ours, one is taken.
AnyMatch(m) == m # <<>>
\* One and only one.
OneMatch(m) == Len(m) = 1

(* verify: with the only card like ours of that time, whose id is the one that *)
(* came with the signal and none of those that were there before.              *)
Verified ==
    /\ reader.pc = "read" /\ reader.why = "verify"
    /\ IF /\ ExactlyRead /\ OneMatch(Matching)
          /\ signal # 0 => IdsOf(Matching) = {signal}
          /\ IdsOf(Matching) \cap baseline = {}
       THEN stage' = "found" /\ found' \in IdsOf(Matching)
       ELSE stage' = "unresolved" /\ UNCHANGED found
    /\ Done /\ UNCHANGED <<remote, changes, baseline, signal, older>>

(* unschedule: a person says that the card was deleted; the whole month is     *)
(* read without one doubt and does not have its id.                            *)
Unscheduled ==
    /\ reader.pc = "read" /\ reader.why = "unschedule"
    /\ stage' = IF AllVerified /\ found \notin {c.id : c \in Cards} THEN "cancelled" ELSE "found"
    /\ Done /\ UNCHANGED <<remote, changes, baseline, signal, found, older>>

MonthKept == reader.pc = "read" /\ reader.why = "refresh" /\ Done
             /\ UNCHANGED <<remote, changes, publication>>

Failed ==
    /\ reader.pc = "failed"
    /\ stage' = IF stage = "clicked" THEN "unresolved"
                ELSE IF stage = "composing" THEN "none" ELSE stage
    /\ Done /\ UNCHANGED <<remote, changes, baseline, signal, found, older>>

Conclude == Opened \/ Rechecked \/ Verified \/ Unscheduled \/ MonthKept \/ Failed

-------------------------------------------------------------------------------
(* publish.lock: one read at a time, and no other while a publication runs.    *)
Begin ==
    \/ stage = "none" /\ (Open("open") \/ Open("refresh"))
    \/ stage = "composing" /\ Open("recheck")
    \/ stage \in {"clicked", "unresolved"} /\ Open("verify")
    \/ stage = "found" /\ Open("unschedule")

Click ==
    /\ reader.pc = "idle" /\ stage = "clear"
    /\ stage' = "clicked"
    /\ \/ remote' = [remote EXCEPT ![Mine] = Ours] /\ signal' \in {0, Mine}
       \/ UNCHANGED <<remote, signal>>
    /\ UNCHANGED <<rendered, changes, read, baseline, found, older, history>>

Touch(i) ==
    /\ still' = still \ {i}
    /\ calm' = (calm /\ (reader.pc = "idle" \/ i = found))

\* What was clicked appears late.
Lands ==
    /\ stage \in {"clicked", "unresolved"} /\ remote[Mine] = Gone /\ signal = 0
    /\ remote' = [remote EXCEPT ![Mine] = Ours]
    /\ Touch(Mine)
    /\ UNCHANGED <<rendered, changes, read, publication>>

\* People schedule, move, rewrite and delete cards, ours too once it is there.
People(i) ==
    /\ changes < MaxChanges /\ changes' = changes + 1
    /\ i = Mine => remote[i] # Gone
    /\ remote[i].text # Advice
    /\ \E look \in {l \in Looks : l.text # Advice} \cup {Gone} :
          look # remote[i] /\ remote' = [remote EXCEPT ![i] = look]
    /\ Touch(i)
    /\ UNCHANGED <<rendered, read, publication>>

Next == Begin \/ ReadDay \/ ReadItem \/ Stray \/ DetailsRead \/ ReadFails \/ Conclude
        \/ Click \/ Lands \/ \E i \in Ids : People(i)

Spec == Init /\ [][Next]_vars

-------------------------------------------------------------------------------
TypeOK ==
    /\ remote \in [Ids -> Looks \cup {Gone, Ours}]
    /\ reader.pc \in {"idle", "sweep", "detail", "read", "failed"}
    /\ stage \in {"none", "composing", "clear", "clicked", "unresolved", "found", "cancelled"}
    /\ {signal, found} \subseteq Ids \cup {0} /\ baseline \subseteq Ids

(* WHAT STANDS IS SEEN.  When a read is accepted, every card of its days that  *)
(* nobody touched since the last sweeps began is listed as it looks, or as     *)
(* something unknown of its time, however the page drew, folded and strayed.   *)
StandingSeen ==
    reader.pc = "read" =>
        \A i \in still :
            remote[i] # Gone /\ remote[i].text # Advice /\ Day(remote[i].at) \in Scope(reader.why) =>
            \E c \in Range(details) : c.look = remote[i]

(* A FREE SLOT IS FREE.  Where a slot is called free, or suggested instead, no *)
(* card of its channel stands within the gap, and no other suggestion.         *)
FreeIsFree ==
    reader.pc = "read" =>
        \A slot \in {s \in {Target} : Allowed(s)} \cup Suggestions :
            /\ \A i \in still : remote[i].channel = Channel => ~Near(remote[i].at, slot)
            /\ \A other \in Suggestions \ {slot} : ~Near(other, slot)

(* WHAT IS FOUND IS ALONE.  A submission is confirmed by the card its success  *)
(* named, if it named one, and by none that stood there when the publication   *)
(* began; and never by one of two that look the same and stand side by side.   *)
FoundIsAlone ==
    [][stage # "found" /\ stage' = "found" /\ reader.why = "verify" =>
         /\ found' \notin older
         /\ signal # 0 => found' = Mine
         /\ LET same == {i \in still : remote[i] = Ours}
            IN  found' \in same => same = {found'}]_vars

(* CANCELLED IS GONE.  When a cancellation is accepted, the card that was      *)
(* found does not stand in the month untouched, but for one case: that another *)
(* one was put in its place while the month was read, and taken away again.    *)
CancelledIsGone ==
    [][stage # "cancelled" /\ stage' = "cancelled" =>
         found \notin still \/ remote[found] = Gone \/ ~calm]_vars
================================================================================
