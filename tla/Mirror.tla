-------------------------------- MODULE Mirror ---------------------------------
(* core/mirror.py: the one-way copy of a post into a cloud drive that keeps    *)
(* every version.  The queue on disk names what has to exist; dispatch works   *)
(* it off under the queue's lock, one remote mutation after the other, each    *)
(* with an intent on disk first.  Creating and uploading are not idempotent:   *)
(* an intent without an answer waits for a person.  The drive keeps the        *)
(* post's folder where its tag says, and moves it when the tag changes.        *)
EXTENDS Integers, FiniteSets

CONSTANTS Places, Versions, Big, None, MaxSeq, MaxUploads, MaxEvents
ASSUME Bounds ==
    /\ {MaxSeq, MaxUploads, MaxEvents} \subseteq Nat
    /\ Versions \subseteq Nat /\ Big \subseteq Versions /\ None \notin Places

VARIABLES
    post,       \* mirror_queue.json: the post's place, its remote folder and its move
    folders,    \* the folders whose tokens are known
    items,      \* the queued versions, each of one file
    ops,        \* the operations and what is known of them
    uploads,    \* the number of the upload each big file is at
    d,          \* the dispatch under way
    where,      \* the drive: where the post's folder made in a place is by now,
    moving,     \* the move it works on or has worked on,
    times,      \* and how often each creation took place there
    events      \* bound: versions queued, tags changed, requests failed, crashes

vars == <<post, folders, items, ops, uploads, d, where, moving, times, events>>
record == <<post, folders, items, ops, uploads>>
drive == <<where, moving, times>>

Op(kind, x, y, n) == [kind |-> kind, x |-> x, y |-> y, n |-> n]
Place(p) == Op("place", p, None, 0)            \* create_folder: of a tag,
Home(p) == Op("home", p, None, 0)              \* of the post in it,
Version(v) == Op("version", None, None, v)     \* of a version in that one
Upload(v) == Op("upload", None, None, v)
Prepare(v) == Op("upload_prepare", None, None, v)
Part(v, u) == Op("upload_part", None, u, v)
Finish(v, u) == Op("upload_finish", None, u, v)
Move(p, q, n) == Op("move", p, q, n)

Created == {Place(p) : p \in Places} \cup {Home(p) : p \in Places} \cup {Version(v) : v \in Versions}
Files(v) == IF v \in Big THEN {Finish(v, u) : u \in 1 .. MaxUploads} ELSE {Upload(v)}
Moves == {o \in [kind : {"move"}, x : Places, y : Places, n : 0 .. MaxSeq] : o.x # o.y}
AllFiles == UNION {Files(v) : v \in Versions}
Prepared == {Prepare(v) : v \in Big} \cup UNION {{Part(v, u) : u \in 1 .. MaxUploads} : v \in Big}
OpIds == Created \cup Moves \cup AllFiles \cup Prepared

ASSUME NoneIsNoOperation == None \notin OpIds

Idle == [step |-> "idle", item |-> 0, op |-> None, phase |-> "none"]
NoItem == [status |-> "none", folder |-> FALSE, file |-> FALSE]
NoMove == [op |-> None, state |-> "none"]

(* The queue starts empty, or with what the first format left behind: it wrote *)
(* no intents, so what was attempted and has no token is uncertain - a folder, *)
(* a file - while a move with a task goes on.  Which place is the first makes  *)
(* no difference.                                                              *)
NewPost(p) == [place |-> p, home |-> None, at |-> None, status |-> "pending", task |-> None, seq |-> 0]
AllNone == [o \in OpIds |-> "none"]
Never == [o \in OpIds |-> 0]

Nowhere == where = [x \in Places |-> None] /\ moving = NoMove
InPlace(p) == where = [[x \in Places |-> None] EXCEPT ![p] = p]
NoItems == [v \in Versions |-> NoItem]

Empty(p) ==
    /\ post = NewPost(p) /\ folders = {} /\ ops = AllNone /\ times = Never
    /\ Nowhere /\ items = NoItems

FolderUnknown(p, made) ==
    /\ post = [NewPost(p) EXCEPT !.status = "uncertain"] /\ folders = {}
    /\ ops = [AllNone EXCEPT ![Place(p)] = "uncertain"] /\ times = [Never EXCEPT ![Place(p)] = made]
    /\ Nowhere /\ items = NoItems

FileUnknown(p, v, made) ==
    /\ post = [NewPost(p) EXCEPT !.home = p, !.at = p, !.status = "completed"]
    /\ folders = {Place(p), Home(p), Version(v)}
    /\ ops = [AllNone EXCEPT ![Upload(v)] = "uncertain"]
    /\ times = [o \in OpIds |-> IF o \in folders THEN 1 ELSE IF o = Upload(v) THEN made ELSE 0]
    /\ InPlace(p) /\ moving = NoMove
    /\ items = [NoItems EXCEPT ![v] = [status |-> "uncertain", folder |-> TRUE, file |-> FALSE]]

TaskUnderWay(p, q) ==
    /\ post = [NewPost(q) EXCEPT !.home = p, !.at = p, !.task = Move(p, q, 0)]
    /\ folders = {Place(p), Home(p), Place(q)} /\ ops = [AllNone EXCEPT ![Move(p, q, 0)] = "task"]
    /\ times = [o \in OpIds |-> IF o \in folders THEN 1 ELSE 0]
    /\ InPlace(p) /\ moving = [op |-> Move(p, q, 0), state |-> "working"] /\ items = NoItems

Init ==
    /\ uploads = [v \in Big |-> 0] /\ d = Idle /\ events = 0
    /\ \E p \in {CHOOSE x \in Places : TRUE}, q \in Places :
          /\ p # q
          /\ \/ Empty(p)
             \/ \E made \in {0, 1} : FolderUnknown(p, made)
             \/ \E v \in Versions \ Big, made \in {0, 1} : FileUnknown(p, v, made)
             \/ TaskUnderWay(p, q)

-------------------------------------------------------------------------------
(* queue_source, queue_stage: a version that is not in the queue yet, and the  *)
(* place the post belongs to by now.                                           *)
Event == events < MaxEvents /\ events' = events + 1

Queue ==
    /\ d = Idle /\ Event
    /\ \E p \in Places, v \in Versions :
          /\ items[v].status = "none" \/ p # post.place
          /\ \A w \in Versions : w < v => items[w].status # "none"
          /\ items' = IF items[v].status = "none" THEN [items EXCEPT ![v].status = "pending"] ELSE items
          /\ post' = IF p = post.place THEN post
                     ELSE [post EXCEPT !.place = p,
                              !.status = IF @ \in {"uncertain", "blocked"} THEN @ ELSE "pending"]
    /\ UNCHANGED <<folders, ops, uploads, d, drive>>

-------------------------------------------------------------------------------
(* dispatch: what the post needs first, then what its versions need.           *)
Dispatch ==
    /\ d = Idle /\ post.status \notin {"uncertain", "blocked"}
    /\ d' = [Idle EXCEPT !.step = "post"]
    /\ UNCHANGED <<record, drive, events>>

\* Mutant: a move is told from an earlier one only by where it starts and ends.
MoveOpUncounted == Move(post.at, post.place, 0)

MoveOp == Move(post.at, post.place, post.seq)

PostNeeds ==
    IF Place(post.place) \notin folders THEN Place(post.place)
    ELSE IF post.home = None THEN (IF Home(post.place) \in folders THEN None ELSE Home(post.place))
    ELSE IF post.at # post.place THEN MoveOp ELSE None

ItemNeeds(v) ==
    IF ~items[v].folder THEN Version(v)
    ELSE IF items[v].file THEN None
    ELSE IF v \notin Big THEN Upload(v)
    ELSE IF ops[Prepare(v)] # "completed" THEN Prepare(v)
    ELSE IF ops[Finish(v, uploads[v])] # "completed" /\ ops[Part(v, uploads[v])] # "completed"
         THEN Part(v, uploads[v]) ELSE Finish(v, uploads[v])

Needs == IF d.step = "post" THEN PostNeeds ELSE ItemNeeds(d.item)

\* A version that stops leaves the turn to the next one; a post leaves none.
NextItem(after) ==
    LET rest == {v \in Versions : v > after /\ items[v].status = "pending"}
        first == {v \in rest : \A w \in rest : v <= w}
    IN IF first = {} THEN Idle ELSE [Idle EXCEPT !.step = "item", !.item = CHOOSE v \in first : TRUE]

Stop(status) ==
    IF d.step = "post" THEN post' = [post EXCEPT !.status = status] /\ d' = Idle /\ UNCHANGED items
    ELSE items' = [items EXCEPT ![d.item].status = status] /\ d' = NextItem(d.item) /\ UNCHANGED post

Turn == d # Idle /\ d.phase = "none" /\ ~(d.step = "post" /\ post.task # None)

(* An intent reaches the disk before the request; one that is not due yet      *)
(* waits, and one that is uncertain or blocked stops what depends on it.       *)
Intend ==
    /\ Turn /\ Needs # None
    /\ \/ /\ ops[Needs] \in {"none", "pending"}
          /\ Needs.kind = "upload_prepare" => uploads[Needs.n] < MaxUploads
          /\ ops' = [ops EXCEPT ![Needs] = "in_flight"]
          /\ d' = [d EXCEPT !.op = Needs, !.phase = "sent"] /\ UNCHANGED <<post, items>>
       \/ ops[Needs] = "pending" /\ Stop("pending") /\ UNCHANGED ops
       \/ ops[Needs] \in {"uncertain", "blocked"} /\ Stop(ops[Needs]) /\ UNCHANGED ops
    /\ UNCHANGED <<folders, uploads, drive, events>>

(* The drive carries the request out; a move at once or as a task.             *)
Happen ==
    /\ d.phase = "sent" /\ d' = [d EXCEPT !.phase = "done"]
    /\ IF d.op.kind = "move"
       THEN /\ \/ where' = [where EXCEPT ![post.home] = d.op.y] /\ moving' = NoMove
               \/ moving' = [op |-> d.op, state |-> "working"] /\ UNCHANGED where
            /\ UNCHANGED times
       ELSE /\ times' = [times EXCEPT ![d.op] = @ + 1]
            /\ where' = IF d.op.kind = "home" THEN [where EXCEPT ![d.op.x] = d.op.x] ELSE where
            /\ UNCHANGED moving
    /\ UNCHANGED <<record, events>>

TaskWorks ==
    /\ moving.state = "working"
    /\ \/ moving' = [moving EXCEPT !.state = "success"] /\ where' = [where EXCEPT ![post.home] = moving.op.y]
       \/ moving' = [moving EXCEPT !.state = "failed"] /\ UNCHANGED where
    /\ UNCHANGED <<record, d, times, events>>

Known(o) == ops' = [ops EXCEPT ![o] = IF o.kind = "move" /\ moving.op = o THEN "task" ELSE "completed"]

(* The answer: received, refused, put off, or lost on the way.                 *)
Answer ==
    /\ d.phase \in {"sent", "done"}
    /\ \/ /\ d.phase = "done" /\ Known(d.op)
          /\ d' = [d EXCEPT !.op = None, !.phase = "none"]
          /\ uploads' = IF d.op.kind = "upload_prepare" THEN [uploads EXCEPT ![d.op.n] = @ + 1] ELSE uploads
          /\ UNCHANGED <<post, items, events>>
       \/ Event /\ \E status \in IF d.phase = "sent" THEN {"blocked", "pending", "uncertain"} ELSE {"uncertain"} :
             ops' = [ops EXCEPT ![d.op] = status] /\ Stop(status) /\ UNCHANGED uploads
    /\ UNCHANGED <<folders, drive>>

(* What the record says is done is taken from it.                              *)
Take ==
    /\ Turn /\ Needs # None /\ ops[Needs] \in {"completed", "task"}
    /\ LET o == Needs
       IN CASE o.kind \in {"place", "home"} ->
                 folders' = folders \cup {o} /\ UNCHANGED <<post, items, d>>
            [] o.kind = "version" ->
                 folders' = folders \cup {o} /\ items' = [items EXCEPT ![o.n].folder = TRUE] /\ UNCHANGED <<post, d>>
            [] o.kind = "move" /\ ops[o] = "task" ->
                 post' = [post EXCEPT !.task = o, !.status = "pending"] /\ d' = Idle /\ UNCHANGED <<folders, items>>
            [] o.kind = "move" /\ ops[o] = "completed" ->
                 /\ post.seq < MaxSeq /\ post' = [post EXCEPT !.at = o.y, !.seq = @ + 1]
                 /\ UNCHANGED <<folders, items, d>>
            [] OTHER -> items' = [items EXCEPT ![o.n].file = TRUE] /\ UNCHANGED <<folders, post, d>>
    /\ UNCHANGED <<ops, uploads, drive, events>>

PostDone ==
    /\ Turn /\ d.step = "post" /\ Needs = None
    /\ post' = [post EXCEPT !.home = IF @ = None THEN post.place ELSE @, !.at = post.place, !.status = "completed"]
    /\ d' = NextItem(0)
    /\ UNCHANGED <<folders, items, ops, uploads, drive, events>>

ItemDone ==
    /\ Turn /\ d.step = "item" /\ Needs = None
    /\ items' = [items EXCEPT ![d.item].status = "completed"] /\ d' = NextItem(d.item)
    /\ UNCHANGED <<post, folders, ops, uploads, drive, events>>

(* A prepared upload that is a day old is blocked, unless its end is uncertain.*)
Expire ==
    /\ Turn /\ d.step = "item" /\ items[d.item].folder /\ ~items[d.item].file /\ d.item \in Big
    /\ LET v == d.item
       IN /\ ops[Prepare(v)] = "completed"
          /\ ops[Finish(v, uploads[v])] \notin {"completed", "uncertain"}
          /\ ops' = [ops EXCEPT ![Prepare(v)] = "blocked"] /\ Stop("blocked")
    /\ UNCHANGED <<folders, uploads, drive, events>>

(* The task of a move is asked for before anything else of the post.           *)
TaskCheck ==
    /\ d.step = "post" /\ post.task # None
    /\ CASE moving.state = "success" ->
              /\ post.seq < MaxSeq /\ post' = [post EXCEPT !.at = post.task.y, !.task = None, !.seq = @ + 1]
              /\ UNCHANGED <<ops, d>>
         [] moving.state = "failed" ->
              /\ ops' = [ops EXCEPT ![post.task] = "blocked"]
              /\ post' = [post EXCEPT !.task = None, !.status = "blocked"] /\ d' = Idle
         [] OTHER -> post' = [post EXCEPT !.status = "pending"] /\ d' = Idle /\ UNCHANGED ops
    /\ UNCHANGED <<folders, items, uploads, drive, events>>

\* Mutant: a request under way when the process died is sent again.
LoadedRetrying == [o \in OpIds |-> IF ops[o] = "in_flight" THEN "pending" ELSE ops[o]]

Loaded == [o \in OpIds |-> IF ops[o] = "in_flight" THEN "uncertain" ELSE ops[o]]

Crash ==
    /\ d # Idle /\ Event /\ d' = Idle /\ ops' = Loaded
    /\ UNCHANGED <<post, folders, items, uploads, drive>>

-------------------------------------------------------------------------------
(* resolve: a person has looked at the drive.  Everything is queued again; an  *)
(* intent that is still unresolved stops its own work at the next dispatch.    *)
TookPlace(o) == IF o.kind = "move" THEN where[post.home] = o.y ELSE times[o] > 0

Resolve ==
    /\ d = Idle /\ moving.state # "working"
    /\ \E o \in OpIds :
          /\ ops[o] \in {"uncertain", "blocked"}
          /\ IF TookPlace(o) /\ o.kind \notin {"upload_prepare", "upload_part"}
             THEN ops' = [ops EXCEPT ![o] = "completed"]
             ELSE ops' = [ops EXCEPT ![o] = "pending"]
    /\ post' = [post EXCEPT !.status = "pending"]
    /\ items' = [v \in Versions |-> IF items[v].status \in {"none", "completed"} THEN items[v]
                                    ELSE [items[v] EXCEPT !.status = "pending"]]
    /\ UNCHANGED <<folders, uploads, d, drive, events>>

Next ==
    \/ Queue \/ Dispatch \/ Intend \/ Happen \/ TaskWorks \/ Answer \/ Take \/ PostDone \/ ItemDone
    \/ Expire \/ TaskCheck \/ Crash \/ Resolve

Spec == Init /\ [][Next]_vars

-------------------------------------------------------------------------------
(* What the record says is there is there: a version that is completed has its *)
(* folder and its file on the drive, exactly once each; and while no move from *)
(* there is on record, the post's folder is where the record has it - also     *)
(* after A, B, A, B, whose last move must not be taken for the first (:849).   *)
(* Left aside: two moves of one count with different goals, which need three   *)
(* tags and a lost answer for each; the one that came first may be taken for   *)
(* the last.                                                                   *)
MovesFrom(n) == {Move(post.at, p, n) : p \in Places \ {post.at}} \cap OpIds
OpenMove == \E o \in MovesFrom(post.seq) : ops[o] # "none"
Forked ==
    \E o, m \in OpIds :
        /\ o.kind = "move" /\ m.kind = "move" /\ o.x = m.x /\ o.n = m.n /\ o.y # m.y
        /\ ops[o] # "none" /\ ops[m] # "none"

MirrorTruth ==
    /\ \A v \in Versions : items[v].status = "completed" =>
          times[Version(v)] = 1 /\ \E o \in Files(v) : times[o] = 1
    /\ \A v \in Versions : Cardinality({o \in Files(v) : times[o] > 0}) <= 1
    /\ post.home # None /\ ~OpenMove /\ ~Forked => where[post.home] = post.at

(* The record of intents keeps what OnceOnly promises of every folder that is  *)
(* created and of every file (:464-496).                                       *)
Effects == Created \cup AllFiles
Said(o) ==
    CASE ops[o] \in {"none", "pending", "blocked"} -> IF o \in folders THEN "known" ELSE "none"
      [] ops[o] = "in_flight" -> "sent"
      [] ops[o] = "completed" -> "known"
      [] OTHER -> "unknown"
Recorded == [o \in Effects |-> Said(o)]
Done == [o \in Effects |-> times[o]]
Intents == INSTANCE OnceOnly WITH state <- Recorded, times <- Done

\* Intents!Spec, with the steps that do not show first: they are most.
CreatedOnce ==
    /\ Intents!Init
    /\ [][UNCHANGED <<ops, folders, times>> \/ Intents!Next \/ UNCHANGED <<Recorded, Done>>]_vars
================================================================================
