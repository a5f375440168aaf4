-------------------------------- MODULE Capture --------------------------------
(* How a published post gets into the archive: a round of routes/delta.py      *)
(* reads the homepage, core/capture_state.py writes down every post it will    *)
(* try before it tries one, core/capture.py fetches the pictures and           *)
(* core/store.py appends the post.  The archive has two copies of a post, its  *)
(* post.json (the truth) and its last line of the manifest (the index), written*)
(* one after the other; the capture state has a third view.  A process may die *)
(* between any two writes, and what was started must come before a person.     *)
(* delta.lock lets one round or one repair run at a time.                      *)
EXTENDS Integers, FiniteSets

CONSTANTS
    Posts, None,
    Facebook,       \* the posts on Facebook, whose answers may leave attachments out
    Images,         \* pictures of a post
    MaxText, MaxMedia, MaxScans, MaxCrashes   \* bounds

VARIABLES
    source,     \* what the platform shows: text and media revision
    truth,      \* post.json
    index,      \* the manifest's last line of the post
    history,    \* source_history.jsonl: earlier rows of the post
    items,      \* capture_state.json: one item per post
    events,     \* capture_state.json: the outcomes told to the later stages
    run,        \* the holder of delta.lock
    scans, crashes   \* bounds

vars == <<source, truth, index, history, items, events, run, scans, crashes>>
archive == <<truth, index, history>>

(* A row: text t, media revision m, k pictures listed, those saved, whether the *)
(* source's list is complete and whether everything listed was fetched.        *)
All(k) == 1 .. k
Whole(row) == row.src /\ row.saved = All(row.k)
Content(row) == [t |-> row.t, m |-> row.m, k |-> row.k, saved |-> row.saved]

-------------------------------------------------------------------------------
(* The rules of core/store.py.                                                 *)
SourceChanged(p, old, new) ==
    \/ new.t # old.t
    \/ p \in Facebook /\ old.k = 0 /\ new.k > 0
    \/ new.src /\ (new.k # old.k \/ new.m # old.m)

Upgrade(old, new) ==
    LET n == Cardinality(new.saved)
        o == Cardinality(old.saved)
    IN ~old.whole /\ (new.whole \/ (new.k >= old.k /\ n >= o /\ (new.k > old.k \/ n > o)))

ShouldAppend(p, new) == truth[p] # None => ~truth[p].whole \/ SourceChanged(p, truth[p], new)

(* The fuller old pictures stay when the new list is known to be partial.      *)
KeepOld(old, new) ==
    ~new.src /\ ((old.whole /\ old.k > 0) \/ old.k > new.k \/ Cardinality(old.saved) > Cardinality(new.saved))

Appended(p, new) ==
    LET old == truth[p]
        same == IF old.m = new.m THEN new.saved \cup (old.saved \cap All(new.k)) ELSE new.saved
    IN IF old = None \/ ~SourceChanged(p, old, new) THEN new
       ELSE IF KeepOld(old, new)
            THEN [new EXCEPT !.m = old.m, !.k = old.k, !.whole = old.whole,
                             !.saved = old.saved \cup (IF old.m = new.m THEN new.saved ELSE {})]
            ELSE [new EXCEPT !.saved = same]

Accepts(p, new) == truth[p] # None => Upgrade(truth[p], new) \/ SourceChanged(p, truth[p], new)

(* append: the old version to the history, then the truth, then the index; a   *)
(* write that fails in between leaves the index behind.                        *)
Write(p, new, all) ==
    LET row == Appended(p, new)
    IN /\ history' = IF truth[p] # None /\ SourceChanged(p, truth[p], new)
                     THEN [history EXCEPT ![p] = @ \cup {truth[p]}] ELSE history
       /\ truth' = [truth EXCEPT ![p] = row]
       /\ index' = IF all THEN [index EXCEPT ![p] = row] ELSE index

(* A picture is taken from the archive when the old row has it (reusable_media).*)
Reused(p, m, k) == IF truth[p] # None /\ truth[p].m = m THEN truth[p].saved \cap All(k) ELSE {}

Row(p, t, m, k, src) == [t |-> t, m |-> m, k |-> k, src |-> src, saved |-> Reused(p, m, k), whole |-> src]

(* What one answer may show of a post: perhaps not all pictures; perhaps all,  *)
(* without saying so.                                                          *)
Seen(p) == {Row(p, source[p].t, source[p].m, k, src) : k \in 0 .. Images, src \in BOOLEAN}
Shown(p) == {o \in Seen(p) : o.src => o.k = Images}

-------------------------------------------------------------------------------
(* The rules of core/capture_state.py.                                         *)
Pending(p) == items[p] # None /\ items[p].status = "pending"
Started(i) == i.started \/ i.recovery

(* begin: every candidate is written down before the first request.            *)
NewItem(p, row, scan) ==
    LET old == items[p]
    IN [status |-> "pending", scan |-> scan, started |-> FALSE, recovery |-> FALSE, row |-> row,
        class |-> IF index[p] # None THEN "source_updated" ELSE "new",
        prior |-> IF old # None /\ old.rev # None THEN old.rev
                  ELSE IF index[p] # None THEN Content(index[p]) ELSE None,
        rev |-> None, last |-> IF old = None THEN None ELSE old.last]

(* finish: what was fetched decides; an outcome seen before is not told again. *)
Finished(p, row, ok, archived, local) ==
    LET i == items[p]
        complete == archived /\ Whole(row) /\ row.whole /\ ok
        class == IF complete /\ (i.recovery \/ local) THEN "recovered" ELSE i.class
        outcome == [rev |-> Content(row), complete |-> complete, archived |-> archived, src |-> row.src]
        changed == outcome # i.last /\ ~(complete /\ class = "source_updated" /\ Content(row) = i.prior)
    IN /\ items' = [items EXCEPT ![p] = [i EXCEPT !.status = IF complete THEN "complete" ELSE "manual",
                        !.row = row, !.class = class, !.rev = Content(row), !.last = outcome]]
       /\ events' = IF changed THEN events \cup {<<p, "outcome", outcome>>} ELSE events

\* Mutant: whatever was not finished is put off.
InterruptedAll(scan) ==
    /\ items' = [p \in Posts |-> IF Pending(p) /\ items[p].scan = scan
                                 THEN [items[p] EXCEPT !.status = "deferred"] ELSE items[p]]
    /\ UNCHANGED events

(* interrupt: what was started goes to a person and is told; the rest waits.   *)
Interrupted(scan) ==
    LET open == {p \in Posts : Pending(p) /\ items[p].scan = scan}
    IN /\ items' = [p \in Posts |-> IF p \notin open THEN items[p]
                       ELSE [items[p] EXCEPT !.status = IF Started(items[p]) THEN "manual" ELSE "deferred"]]
       /\ events' = events \cup {<<p, "scan", scan>> : p \in {p \in open : Started(items[p])}}

(* recover_interrupted: the holder of the lock closes what a dead one left.    *)
RecoverInterrupted ==
    IF \E p \in Posts : Pending(p)
    THEN Interrupted(items[CHOOSE p \in Posts : Pending(p)].scan) ELSE UNCHANGED <<items, events>>

NoRun == [step |-> "none", who |-> None, seen |-> {}, todo |-> {}, p |-> None, row |-> None,
          ok |-> TRUE, stop |-> FALSE, archived |-> FALSE, local |-> FALSE]

NoItem == [status |-> "manual", scan |-> 0, started |-> FALSE, recovery |-> FALSE, row |-> None,
           class |-> "new", prior |-> None, rev |-> None, last |-> None]

(* A person's baseline; an early version may have left a manual item of a post  *)
(* that was never tried.                                                       *)
Init ==
    /\ source = [p \in Posts |-> [t |-> 1, m |-> 1]]
    /\ truth = [p \in Posts |-> None] /\ index = truth /\ history = [p \in Posts |-> {}]
    /\ items \in {[p \in Posts |-> None]} \cup
                 {[p \in Posts |-> IF p = q THEN [NoItem EXCEPT !.row = [t |-> 1, m |-> 1, k |-> Images,
                     src |-> TRUE, saved |-> {}, whole |-> TRUE]] ELSE None] : q \in Posts}
    /\ events = {} /\ run = NoRun /\ scans = 0 /\ crashes = 0

Edit(p) ==
    /\ \/ source[p].t < MaxText /\ source' = [source EXCEPT ![p].t = @ + 1]
       \/ source[p].m < MaxMedia /\ source' = [source EXCEPT ![p].m = @ + 1]
    /\ UNCHANGED <<archive, items, events, run, scans, crashes>>

-------------------------------------------------------------------------------
(* A round.                                                                    *)
Round ==
    /\ run = NoRun /\ scans < MaxScans
    /\ RecoverInterrupted
    /\ scans' = scans + 1
    /\ \E seen \in SUBSET Posts : run' = [NoRun EXCEPT !.step = "prepare", !.who = "round", !.seen = seen]
    /\ UNCHANGED <<source, archive, crashes>>

(* A manual or put-off post that the page now shows whole, with all pictures   *)
(* already archived, is closed from the archive alone.                         *)
SameSource(a, b) == a.t = b.t /\ a.k = b.k /\ (a.k > 0 => a.m = b.m)

LocalEvidence(p, o) ==
    /\ items[p] # None /\ items[p].status \in {"manual", "deferred"} /\ index[p] # None
    /\ o.src /\ SameSource(truth[p], o) /\ SameSource(items[p].row, o) /\ o.saved = All(o.k)

First(ps) == CHOOSE p \in ps : TRUE     \* the newest: the order is fixed

Prepare ==
    LET p == First(run.seen) IN
    /\ run.step = "prepare" /\ run.seen # {}
    /\ \E o \in Shown(p) :
          \/ /\ LocalEvidence(p, o)
             /\ run' = [run EXCEPT !.step = "finish", !.p = p, !.row = o, !.seen = @ \ {p},
                                   !.archived = TRUE, !.local = TRUE]
             /\ IF Accepts(p, o) THEN Write(p, o, TRUE) ELSE UNCHANGED archive
          \/ /\ ~LocalEvidence(p, o)
             /\ run' = [run EXCEPT !.seen = @ \ {p},
                                   !.todo = IF ShouldAppend(p, o) THEN @ \cup {<<p, o>>} ELSE @]
             /\ UNCHANGED archive
    /\ UNCHANGED <<source, items, events, scans, crashes>>

Begin ==
    LET taken == {c \in run.todo : items[c[1]] = None \/ items[c[1]].status \notin {"pending", "manual"}}
        Of(p) == CHOOSE c \in taken : c[1] = p
    IN /\ run.step = "prepare" /\ run.seen = {}
       /\ items' = [p \in Posts |-> IF \E c \in taken : c[1] = p THEN NewItem(p, Of(p)[2], scans) ELSE items[p]]
       /\ run' = [run EXCEPT !.step = "next", !.todo = taken]
       /\ UNCHANGED <<source, archive, events, scans, crashes>>

(* One candidate is started; when time runs short the rest is put off; a page  *)
(* with too few posts stops the round before the first.                        *)
Start ==
    /\ run.step = "next"
    /\ \E c \in run.todo :
          /\ c[1] = First({d[1] : d \in run.todo})
          /\ items' = [items EXCEPT ![c[1]].started = TRUE]
          /\ run' = [run EXCEPT !.step = "visit", !.p = c[1], !.row = c[2], !.todo = @ \ {c}]
    /\ UNCHANGED <<source, archive, events, scans, crashes>>

(* capture_post: a post whose list is not complete is opened in its own page,  *)
(* then every picture not in the archive is fetched.  Being refused or stopped *)
(* gives up the pictures; a stop ends the round after this post.               *)
Fetched(o, got) == [o EXCEPT !.saved = @ \cup got, !.whole = o.src /\ o.saved \cup got = All(o.k)]

Merged(p, o) ==
    {d \in Shown(p) : d.src \/ d.k > o.k}     \* merge_post keeps the fuller list

Visit ==
    /\ run.step = "visit"
    /\ \E o \in {run.row} \cup (IF run.row.src THEN {} ELSE Merged(run.p, run.row)),
          got \in SUBSET All(Images), stop, ok \in BOOLEAN :
          /\ got \subseteq All(o.k) \ o.saved
          /\ stop => ~ok
          /\ (run.row.src \/ o.src) \/ ~ok
          /\ run' = [run EXCEPT !.step = "append", !.ok = ok, !.stop = stop,
                        !.row = [Fetched(o, got) EXCEPT !.whole = @ /\ ok]]
    /\ UNCHANGED <<source, archive, items, events, scans, crashes>>

(* The post is appended whatever came of the visit.  A failing disk is noted.  *)
Append ==
    /\ run.step = "append"
    /\ \/ /\ ~Accepts(run.p, run.row)
          /\ run' = [run EXCEPT !.step = "finish", !.archived = TRUE]   \* the truth is taken for the index
          /\ UNCHANGED archive
       \/ /\ Accepts(run.p, run.row) /\ Write(run.p, run.row, TRUE)
          /\ run' = [run EXCEPT !.step = "finish", !.archived = TRUE, !.row = Appended(run.p, run.row)]
       \/ /\ Accepts(run.p, run.row) /\ crashes < MaxCrashes
          /\ Write(run.p, run.row, FALSE)
          /\ run' = [run EXCEPT !.step = "finish", !.ok = FALSE, !.row = Appended(run.p, run.row)]
    /\ crashes' = IF archive' # archive /\ index' = index THEN crashes + 1 ELSE crashes
    /\ UNCHANGED <<source, items, events, scans>>

Finish ==
    /\ run.step = "finish"
    /\ Finished(run.p, run.row, run.ok, run.archived, run.local)
    /\ run' = [NoRun EXCEPT !.who = run.who, !.seen = run.seen, !.todo = run.todo,
                  !.step = IF run.local THEN "prepare" ELSE IF run.stop \/ run.who = "repair" THEN "end" ELSE "next"]
    /\ UNCHANGED <<source, archive, scans, crashes>>

(* However the round ends, what is still pending is interrupted.               *)
End ==
    /\ run.step \in {"next", "end"} \/ (run.step = "visit" /\ run.who = "repair")   \* no browser
    /\ Interrupted(scans)
    /\ run' = NoRun
    /\ UNCHANGED <<source, archive, scans, crashes>>

-------------------------------------------------------------------------------
(* A person has one exception tried once more, from what was seen of it.       *)
Repair(p) ==
    LET left == {q \in Posts : Pending(q)}
        status == IF p \notin left THEN items[p].status ELSE IF Started(items[p]) THEN "manual" ELSE "deferred"
    IN /\ run = NoRun /\ scans < MaxScans /\ items[p] # None /\ status = "manual"
       /\ items' = [q \in Posts |->
             IF q = p THEN [items[p] EXCEPT !.status = "pending", !.recovery = TRUE, !.scan = scans + 1, !.started = TRUE]
             ELSE IF q \notin left THEN items[q]
             ELSE [items[q] EXCEPT !.status = IF Started(items[q]) THEN "manual" ELSE "deferred"]]
       /\ events' = events \cup {<<q, "scan", items[q].scan>> : q \in {q \in left : Started(items[q])}}
       /\ scans' = scans + 1
       /\ run' = [NoRun EXCEPT !.step = "visit", !.who = "repair", !.p = p,
                     !.row = [items[p].row EXCEPT !.saved = @ \cup Reused(p, items[p].row.m, items[p].row.k)]]
       /\ UNCHANGED <<source, archive, crashes>>

(* A person puts off the old exceptions that were never tried.                 *)
RetireStale ==
    LET stale == {p \in Posts : items[p] # None /\ items[p].status = "manual" /\ ~Started(items[p])}
    IN /\ run = NoRun /\ stale # {}
       /\ items' = [p \in Posts |-> IF p \in stale THEN [items[p] EXCEPT !.status = "deferred"] ELSE items[p]]
       /\ UNCHANGED <<source, archive, events, run, scans, crashes>>

(* The backfill a person scrolls: no items, and not under delta.lock.          *)
Backfill(p) ==
    /\ scans < MaxScans /\ scans' = scans + 1
    /\ run = NoRun
    /\ \E o \in Shown(p), got \in SUBSET All(Images) :
          /\ ShouldAppend(p, o) /\ got \subseteq All(o.k) \ o.saved
          /\ Accepts(p, Fetched(o, got)) /\ Write(p, Fetched(o, got), TRUE)
    /\ UNCHANGED <<source, items, events, run, crashes>>

(* Rebuilding the manifest from the truths.                                    *)
Reindex == run = NoRun /\ index # truth /\ index' = truth
           /\ UNCHANGED <<source, truth, history, items, events, run, scans, crashes>>

(* A post with one picture is marked complete when a stored answer says that   *)
(* it has one; an index left behind a complete truth is caught up.             *)
RepairMarks(p) ==
    LET full == Whole(truth[p]) /\ truth[p].whole
    IN /\ run = NoRun /\ p \notin Facebook /\ index[p] # None
       /\ truth[p].saved = All(truth[p].k)
       /\ \/ full /\ ~index[p].whole
          \/ truth[p].k = 1 /\ Images = 1
       /\ truth' = [truth EXCEPT ![p].src = TRUE, ![p].whole = TRUE]
       /\ index' = [index EXCEPT ![p] = truth'[p]]
       /\ UNCHANGED <<source, history, items, events, run, scans, crashes>>

(* The process dies; between the truth and the index too.                      *)
Crash ==
    /\ run # NoRun /\ crashes < MaxCrashes /\ crashes' = crashes + 1
    /\ run' = NoRun
    /\ \/ UNCHANGED archive
       \/ run.step = "append" /\ Accepts(run.p, run.row) /\ Write(run.p, run.row, FALSE)
    /\ UNCHANGED <<source, items, events, scans>>

Next ==
    \/ Round \/ Prepare \/ Begin \/ Start \/ Visit \/ Append \/ Finish \/ End \/ RetireStale \/ Reindex \/ Crash
    \/ \E p \in Posts : Edit(p) \/ Repair(p) \/ Backfill(p) \/ RepairMarks(p)

Spec == Init /\ [][Next]_vars

-------------------------------------------------------------------------------
(* An attempt that was started ends complete or before a person, who is told,  *)
(* and is never put off as if nothing had been asked of the platform           *)
(* (capture_state.py:215-233), whichever process finds it.                     *)
StartedIsAccounted ==
    [][\A p \in Posts : Pending(p) /\ Started(items[p]) /\ ~Pending(p)' =>
          items'[p].status = "complete" \/ (items'[p].status = "manual" /\ \E e \in events' : e[1] = p)]_vars

(* The pending items are of the last scan only, and nobody else's while a      *)
(* round runs: the next holder of the lock closes them first (:289-294).  Every *)
(* exception that was tried has its event, of its outcome or of its scan.      *)
ExceptionsReported ==
    /\ \A p \in Posts : Pending(p) => items[p].scan = scans \/ run = NoRun
    /\ \A p, q \in Posts : Pending(p) /\ Pending(q) => items[p].scan = items[q].scan
    /\ \A p \in Posts : items[p] # None /\ items[p].status = "manual" /\ Started(items[p]) =>
          <<p, "outcome", items[p].last>> \in events \/ <<p, "scan", items[p].scan>> \in events

(* A post that the capture state calls complete is in the archive, text and    *)
(* every picture, as the current truth or as a kept version: a later poorer    *)
(* answer, a repair or a crash never takes it away.                            *)
CompleteIsKept ==
    \A p \in Posts : items[p] # None /\ items[p].status = "complete" =>
        /\ items[p].row.saved = All(items[p].row.k)
        /\ \E row \in {truth[p]} \cup history[p] : row # None /\ Content(row) = Content(items[p].row)

(* A text that was archived stays in the archive, and so does a list of        *)
(* pictures that was fetched whole; an entry replaced without a history line   *)
(* is replaced by a fuller one of the same text (store.py:1294-1340).          *)
VersionsKept ==
    [][\A p \in Posts : truth[p] # None /\ Content(truth'[p]) # Content(truth[p]) =>
          \/ truth[p] \in history'[p]
          \/ /\ truth'[p].t = truth[p].t /\ ~truth[p].whole
             /\ truth'[p].whole \/ Cardinality(truth'[p].saved) >= Cardinality(truth[p].saved)]_vars
================================================================================
