------------------------------ MODULE Mirror_proofs ------------------------------
(* What core/mirror.py's record of intents keeps, for any number of versions,  *)
(* tags, uploads and moves: what it says is there is there, once, and every    *)
(* step of it is one of OnceOnly.  The inductive invariant relates three       *)
(* things: the request under way, what the record says of each operation, and  *)
(* what the drive has done.                                                    *)
EXTENDS Mirror, FiniteSetTheorems, TLAPS

Statuses == {"none", "pending", "in_flight", "uncertain", "blocked", "completed", "task"}
Maybe(S) == S \cup {None}
Posts == [place : Places, home : Maybe(Places), at : Maybe(Places),
          status : {"pending", "uncertain", "blocked", "completed"}, task : Maybe(OpIds), seq : 0 .. MaxSeq]
Items == [status : {"none", "pending", "uncertain", "blocked", "completed"},
          folder : BOOLEAN, file : BOOLEAN]
Dispatches == [step : {"idle", "post", "item"}, item : Versions \cup {0}, op : Maybe(OpIds),
               phase : {"none", "sent", "done"}]
Movings == [op : Maybe(OpIds), state : {"none", "working", "success", "failed"}]

Shapes ==
    /\ post \in Posts /\ items \in [Versions -> Items] /\ d \in Dispatches
    /\ ops \in [OpIds -> Statuses] /\ uploads \in [Big -> 0 .. MaxUploads]
    /\ folders \subseteq Created /\ where \in [Places -> Maybe(Places)] /\ moving \in Movings
    /\ times \in [OpIds -> Nat]

\* What the request under way is about.
Flight ==
    /\ \A o \in OpIds : ops[o] = "in_flight" <=> d.phase # "none" /\ d.op = o
    /\ d.phase # "none" =>
          /\ d.op \in OpIds \ folders /\ d.step # "idle"
          /\ d.step = "post" => post.task = None
          /\ d.op.kind = "home" => post.home = None
          /\ d.op.kind = "move" => /\ post.home # None /\ post.task = None
                                   /\ post.place # post.at
                                   /\ d.op = Move(post.at, post.place, post.seq)
          /\ d.op.kind = "upload_prepare" => uploads[d.op.n] < MaxUploads
    /\ (d.step = "item" => d.item \in Versions) /\ (d.step = "idle" => d = Idle)

Unsent == {"none", "pending", "blocked"}

\* Of a folder or a file the record says less than the drive has done, never more.
Honest ==
    \A o \in Effects :
        /\ ops[o] \in Unsent /\ o \notin folders => times[o] = 0
        /\ ops[o] = "completed" \/ o \in folders => times[o] = 1
        /\ ops[o] = "in_flight" => times[o] = IF d.phase = "done" THEN 1 ELSE 0
        /\ times[o] \in {0, 1} /\ ops[o] # "task"
        /\ o \in folders => ops[o] \in {"none", "completed"}

\* What a version has taken from the record.
Taken ==
    \A v \in Versions :
        /\ items[v].folder <=> Version(v) \in folders
        /\ items[v].file => \E o \in Files(v) : ops[o] = "completed"
        /\ items[v].status = "completed" => items[v].folder /\ items[v].file

\* Only the upload that is prepared is ended, and none other was.
OneUpload ==
    \A v \in Big :
        /\ ops[Prepare(v)] = "completed" => uploads[v] # 0
        /\ \A u \in 1 .. MaxUploads :
              ops[Finish(v, u)] \notin Unsent => u = uploads[v] /\ ops[Prepare(v)] = "completed"

\* Before the post has a folder there is nothing to move.
Unmoved ==
    /\ \A o \in OpIds : ops[o] = "task" => o.kind = "move"
    /\ \A o \in OpIds : o.kind = "move" /\ ops[o] # "none" => post.home # None /\ o.n <= post.seq
    /\ moving.state # "none" => post.home # None
    /\ moving.state = "working" => moving.op # None /\ moving.op.kind = "move"
    /\ post.task # None => post.task.kind = "move" /\ post.home # None /\ ops[post.task] = "task"
    /\ post.home # None => post.at \in Places /\ where[post.home] \in Places
    /\ post.home = None =>
          \A p \in Places : times[Home(p)] = 1 => where[p] = p

\* Where the folder is, told by the one move that is on record from there.
Told(o) ==
    LET now == where[post.home]
        bytask == /\ moving.op = o
                  /\ \/ moving.state = "success" /\ now = o.y
                     \/ moving.state \in {"working", "failed"} /\ now = post.at
    IN CASE ops[o] \in Unsent \ {"none"} -> now = post.at
         [] ops[o] = "completed" -> now = o.y
         [] ops[o] = "task" -> bytask
         [] ops[o] = "uncertain" -> now \in {post.at, o.y}
         [] ops[o] = "in_flight" ->
              IF d.phase = "sent" THEN now = post.at ELSE bytask \/ (moving.op # o /\ now = o.y)
         [] OTHER -> TRUE

Located ==
    /\ ~OpenMove => where[post.home] = post.at
    /\ \A o \in MovesFrom(post.seq) : Told(o)
    /\ post.task # None => post.task \in MovesFrom(post.seq)
    /\ moving.state = "working" =>
          /\ moving.op \in MovesFrom(post.seq)
          /\ \/ ops[moving.op] \in {"uncertain", "task"}
             \/ ops[moving.op] = "in_flight" /\ d.phase = "done"

IInv ==
    /\ Shapes /\ Flight /\ Honest /\ Taken /\ OneUpload /\ Unmoved
    /\ post.home # None /\ ~Forked => Located
--------------------------------------------------------------------------------
(* The operations and their kinds. *)

LEMMA FileOps ==
    ASSUME NEW o
    PROVE  o \in AllFiles <=>
               \/ \E v \in Versions \ Big : o = Upload(v)
               \/ \E v \in Big, u \in 1 .. MaxUploads : o = Finish(v, u)
BY Bounds DEF AllFiles, Files

LEMMA MoveOps ==
    ASSUME NEW o
    PROVE  o \in Moves <=> \E x, y \in Places, n \in 0 .. MaxSeq : x # y /\ o = Move(x, y, n)
BY DEF Moves, Move, Op

LEMMA Operations ==
    ASSUME NEW o
    PROVE  o \in OpIds <=>
               \/ \E p \in Places : o = Place(p) \/ o = Home(p)
               \/ \E v \in Versions : o = Version(v)
               \/ \E v \in Versions \ Big : o = Upload(v)
               \/ \E v \in Big : o = Prepare(v)
               \/ \E v \in Big, u \in 1 .. MaxUploads : o = Finish(v, u) \/ o = Part(v, u)
               \/ \E x, y \in Places, n \in 0 .. MaxSeq : x # y /\ o = Move(x, y, n)
<1>1. o \in Prepared <=> \/ \E v \in Big : o = Prepare(v)
                         \/ \E v \in Big, u \in 1 .. MaxUploads : o = Part(v, u)
  BY DEF Prepared
<1>2. o \in Created <=> \/ \E p \in Places : o = Place(p) \/ o = Home(p)
                        \/ \E v \in Versions : o = Version(v)
  BY DEF Created
<1>3. o \in OpIds <=> o \in Created \/ o \in Moves \/ o \in AllFiles \/ o \in Prepared
  BY DEF OpIds
<1> QED  BY <1>1, <1>2, <1>3, FileOps, MoveOps

LEMMA Kinds ==
    ASSUME NEW o \in OpIds
    PROVE  /\ o.kind \in {"place", "home", "version", "upload", "upload_prepare", "upload_part",
                          "upload_finish", "move"}
           /\ o.kind \in {"place", "home"} => o.x \in Places
           /\ o.kind = "place" => o = Place(o.x)
           /\ o.kind = "home" => o = Home(o.x)
           /\ o.kind = "version" => o.n \in Versions /\ o = Version(o.n)
           /\ o.kind = "upload" => o.n \in Versions \ Big /\ o = Upload(o.n)
           /\ o.kind = "upload_prepare" => o.n \in Big /\ o = Prepare(o.n)
           /\ o.kind = "upload_part" => o.n \in Big /\ o.y \in 1 .. MaxUploads /\ o = Part(o.n, o.y)
           /\ o.kind = "upload_finish" => o.n \in Big /\ o.y \in 1 .. MaxUploads /\ o = Finish(o.n, o.y)
           /\ o.kind = "move" => /\ o.x \in Places /\ o.y \in Places /\ o.x # o.y
                                 /\ o.n \in 0 .. MaxSeq /\ o = Move(o.x, o.y, o.n)
BY Operations DEF Op, Place, Home, Version, Upload, Prepare, Part, Finish, Move

LEMMA EffectKinds ==
    /\ Effects \subseteq OpIds
    /\ \A o \in OpIds : o \in Effects <=>
           o.kind \in {"place", "home", "version", "upload", "upload_finish"}
    /\ \A o \in OpIds : o \in Created <=> o.kind \in {"place", "home", "version"}
<1>1. Effects \subseteq OpIds  BY DEF Effects, OpIds
<1>2. \A o \in OpIds : o \in Created <=> o.kind \in {"place", "home", "version"}
  <2>1. ASSUME NEW o \in OpIds, o \in Created PROVE o.kind \in {"place", "home", "version"}
    BY <2>1 DEF Created, Op, Place, Home, Version
  <2>2. ASSUME NEW o \in OpIds, o.kind \in {"place", "home", "version"} PROVE o \in Created
    BY <2>2, Kinds DEF Created
  <2> QED  BY <2>1, <2>2
<1>3. \A o \in OpIds : o \in AllFiles <=> o.kind \in {"upload", "upload_finish"}
  <2>1. ASSUME NEW o \in OpIds, o \in AllFiles
        PROVE  o.kind \in {"upload", "upload_finish"}
    BY <2>1, FileOps DEF Op, Upload, Finish
  <2>2. ASSUME NEW o \in OpIds, o.kind \in {"upload", "upload_finish"}
        PROVE  o \in AllFiles
    BY <2>2, Kinds, FileOps
  <2> QED  BY <2>1, <2>2
<1> QED  BY <1>1, <1>2, <1>3 DEF Effects

\* Two operations are one only if they are of one kind and about the same.
LEMMA Named ==
    /\ \A p : Place(p).kind = "place" /\ Place(p).x = p
    /\ \A p : Home(p).kind = "home" /\ Home(p).x = p
    /\ \A v : Version(v).kind = "version" /\ Version(v).n = v
    /\ \A v : Upload(v).kind = "upload" /\ Upload(v).n = v
    /\ \A v : Prepare(v).kind = "upload_prepare" /\ Prepare(v).n = v
    /\ \A v, u : Part(v, u).kind = "upload_part" /\ Part(v, u).n = v /\ Part(v, u).y = u
    /\ \A v, u : Finish(v, u).kind = "upload_finish" /\ Finish(v, u).n = v /\ Finish(v, u).y = u
    /\ \A p, q, n : /\ Move(p, q, n).kind = "move"
                    /\ Move(p, q, n).x = p /\ Move(p, q, n).y = q /\ Move(p, q, n).n = n
BY DEF Op, Place, Home, Version, Upload, Prepare, Part, Finish, Move

LEMMA InOps ==
    /\ \A p \in Places : Place(p) \in OpIds /\ Home(p) \in OpIds
    /\ \A v \in Versions : Version(v) \in OpIds
    /\ \A v \in Versions \ Big : Upload(v) \in OpIds
    /\ \A v \in Big : Prepare(v) \in OpIds
    /\ \A v \in Big, u \in 1 .. MaxUploads : Part(v, u) \in OpIds /\ Finish(v, u) \in OpIds
    /\ \A x, y \in Places, n \in 0 .. MaxSeq : x # y => Move(x, y, n) \in OpIds
BY Operations

LEMMA FilesOf ==
    ASSUME NEW v \in Versions
    PROVE  /\ v \notin Big => Files(v) = {Upload(v)}
           /\ v \in Big => Files(v) = {Finish(v, u) : u \in 1 .. MaxUploads}
           /\ Files(v) \subseteq Effects
BY DEF Files, AllFiles, Effects
--------------------------------------------------------------------------------
(* Steps that leave the record of intents and the drive alone. *)

\* What they may change: the turn, states, and what belongs to no folder yet.
Rests ==
    /\ post' \in Posts /\ items' \in [Versions -> Items] /\ d' \in Dispatches
    /\ post'.home = post.home /\ post'.at = post.at /\ post'.seq = post.seq
    /\ \A v \in Versions : /\ items'[v].folder = items[v].folder /\ items'[v].file = items[v].file
                           /\ items'[v].status = "completed" => items[v].folder /\ items[v].file
    /\ d'.phase = "none" /\ (d'.step = "item" => d'.item \in Versions) /\ (d'.step = "idle" => d' = Idle)

LEMMA Shaped ==
    ASSUME IInv
    PROVE  /\ post \in Posts /\ items \in [Versions -> Items] /\ d \in Dispatches
           /\ ops \in [OpIds -> Statuses] /\ uploads \in [Big -> 0 .. MaxUploads]
           /\ folders \subseteq Created /\ where \in [Places -> Maybe(Places)] /\ moving \in Movings
           /\ times \in [OpIds -> Nat] /\ None \notin Places /\ None \notin OpIds
           /\ Versions \subseteq Nat /\ Big \subseteq Versions /\ MaxUploads \in Nat /\ MaxSeq \in Nat
BY Bounds, NoneIsNoOperation DEF IInv, Shapes

LEMMA QuietKeeps ==
    ASSUME IInv, d.phase = "none", Rests, post'.task = post.task,
           UNCHANGED <<folders, ops, uploads, drive>>
    PROVE  IInv'
<1> USE Shaped DEF Rests, drive
<1>1. Shapes'  BY DEF Shapes
<1>2. Flight'  BY DEF IInv, Flight
<1>3. Honest'  BY DEF IInv, Honest, Flight
<1>4. Taken'  BY DEF IInv, Taken
<1>5. OneUpload'  BY DEF IInv, OneUpload
<1>6. Unmoved'  BY DEF IInv, Unmoved
<1>7. (Forked' <=> Forked) /\ (MovesFrom(post.seq))' = MovesFrom(post.seq)
      /\ (OpenMove' <=> OpenMove)
  BY DEF Forked, MovesFrom, OpenMove
<1>8. ASSUME post.home # None, ~Forked PROVE Located'
  <2>1. Located  BY <1>8 DEF IInv
  <2>2. \A o \in MovesFrom(post.seq) : ops[o] # "in_flight"
    BY DEF MovesFrom, IInv, Flight
  <2>3. \A o \in MovesFrom(post.seq) : Told(o)'
    BY <2>1, <2>2 DEF Located, Told
  <2>4. moving.state = "working" => moving.op \in MovesFrom(post.seq) /\ ops[moving.op] \in {"uncertain", "task"}
    BY <2>1, <2>2 DEF Located
  <2> QED  BY <1>7, <2>1, <2>3, <2>4 DEF Located
<1> QED  BY <1>1, <1>2, <1>3, <1>4, <1>5, <1>6, <1>7, <1>8 DEF IInv

LEMMA NextItemFacts ==
    ASSUME NEW v
    PROVE  /\ NextItem(v) \in Dispatches /\ NextItem(v).phase = "none"
           /\ NextItem(v).step = "item" => NextItem(v).item \in Versions
           /\ NextItem(v).step = "idle" => NextItem(v) = Idle
<1> DEFINE rest == {w \in Versions : w > v /\ items[w].status = "pending"}
           first == {w \in rest : \A k \in rest : w <= k}
<1>1. Idle \in Dispatches /\ Idle.phase = "none" /\ Idle.step = "idle" /\ Idle.op = None
  BY DEF Idle, Dispatches, Maybe
<1>2. CASE first = {}  BY <1>1, <1>2 DEF NextItem
<1>3. CASE first # {}
  <2>1. PICK w : w = CHOOSE m \in first : TRUE  OBVIOUS
  <2>2. w \in Versions  BY <1>3, <2>1
  <2>3. NextItem(v) = [Idle EXCEPT !.step = "item", !.item = w]  BY <1>3, <2>1 DEF NextItem
  <2> QED  BY <2>2, <2>3 DEF Idle, Dispatches, Maybe
<1> QED  BY <1>2, <1>3

LEMMA StopFacts ==
    ASSUME IInv, d.step # "idle", NEW s \in {"pending", "uncertain", "blocked"}, Stop(s)
    PROVE  Rests /\ post'.task = post.task /\ post'.place = post.place
<1> USE Shaped
<1>1. CASE d.step = "post"
  BY <1>1 DEF Stop, Rests, Posts, Idle, Dispatches, Maybe, IInv, Taken
<1>2. CASE d.step = "item"
  <2>1. d.item \in Versions /\ items' = [items EXCEPT ![d.item].status = s]
        /\ d' = NextItem(d.item) /\ post' = post
    BY <1>2 DEF Stop, IInv, Flight
  <2>2. items' \in [Versions -> Items] /\ \A v \in Versions :
            /\ items'[v].folder = items[v].folder /\ items'[v].file = items[v].file
            /\ items'[v].status = "completed" => items[v].folder /\ items[v].file
    BY <2>1 DEF Items, IInv, Taken
  <2> QED  BY <2>1, <2>2, NextItemFacts DEF Rests
<1> QED  BY <1>1, <1>2 DEF Dispatches

LEMMA QueueKeeps == ASSUME IInv, Queue PROVE IInv'
<1> USE Shaped
<1>1. PICK p \in Places, v \in Versions :
          /\ items' = IF items[v].status = "none" THEN [items EXCEPT ![v].status = "pending"] ELSE items
          /\ post' = IF p = post.place THEN post
                     ELSE [post EXCEPT !.place = p,
                              !.status = IF @ \in {"uncertain", "blocked"} THEN @ ELSE "pending"]
  BY DEF Queue
<1>2. post' \in Posts /\ post'.home = post.home /\ post'.at = post.at /\ post'.seq = post.seq
      /\ post'.task = post.task
  BY <1>1 DEF Posts
<1>3. items' \in [Versions -> Items] /\ \A w \in Versions :
            /\ items'[w].folder = items[w].folder /\ items'[w].file = items[w].file
            /\ items'[w].status = "completed" => items[w].folder /\ items[w].file
  BY <1>1 DEF Items, IInv, Taken
<1>4. d' = d /\ d = Idle  BY DEF Queue
<1>5. Rests /\ d.phase = "none"  BY <1>2, <1>3, <1>4 DEF Rests, Idle, IInv, Flight
<1> QED  BY <1>2, <1>5, QuietKeeps DEF Queue

LEMMA DispatchKeeps == ASSUME IInv, Dispatch PROVE IInv'
<1> USE Shaped
<1>1. d = Idle /\ d' = [Idle EXCEPT !.step = "post"] /\ UNCHANGED <<post, items>>
  BY DEF Dispatch, record
<1>2. Rests /\ d.phase = "none"
  BY <1>1 DEF Rests, Idle, Dispatches, Maybe, IInv, Taken
<1> QED  BY <1>1, <1>2, QuietKeeps DEF Dispatch, record
--------------------------------------------------------------------------------
(* What the post and a version need next. *)

LEMMA PostWants ==
    ASSUME IInv, Turn, d.step = "post"
    PROVE  /\ post.task = None
           /\ Needs = None => \/ post.home = None /\ Home(post.place) \in folders
                              \/ post.home # None /\ post.at = post.place
           /\ Needs # None =>
                 /\ Needs \in OpIds \ folders /\ Needs.kind \in {"place", "home", "move"}
                 /\ Needs.kind = "home" => post.home = None
                 /\ Needs.kind = "move" => /\ post.home # None /\ post.place # post.at
                                           /\ Needs = Move(post.at, post.place, post.seq)
<1> USE Shaped
<1>1. Needs = PostNeeds /\ post.task = None  BY DEF Needs, Turn
<1>2. post.place \in Places /\ post.seq \in 0 .. MaxSeq  BY DEF Posts
<1>3. CASE Place(post.place) \notin folders
  BY <1>1, <1>2, <1>3, InOps, Named DEF PostNeeds
<1>4. CASE Place(post.place) \in folders /\ post.home = None
  BY <1>1, <1>2, <1>4, InOps, Named DEF PostNeeds
<1>5. CASE Place(post.place) \in folders /\ post.home # None
  <2>1. post.at \in Places  BY <1>5 DEF IInv, Unmoved
  <2>2. CASE post.at = post.place  BY <1>1, <1>5, <2>2 DEF PostNeeds
  <2>3. CASE post.at # post.place
    <3>1. Needs = Move(post.at, post.place, post.seq)  BY <1>1, <1>5, <2>3 DEF PostNeeds, MoveOp
    <3>2. Needs \in OpIds /\ Needs.kind = "move"  BY <1>2, <2>1, <2>3, <3>1, InOps, Named
    <3>3. Needs \notin folders  BY <3>2, EffectKinds
    <3> QED  BY <1>1, <1>5, <2>3, <3>1, <3>2, <3>3
  <2> QED  BY <2>2, <2>3
<1> QED  BY <1>3, <1>4, <1>5

LEMMA ItemWants ==
    ASSUME IInv, Turn, d.step = "item"
    PROVE  /\ d.item \in Versions
           /\ Needs = None => items[d.item].folder /\ items[d.item].file
           /\ Needs # None =>
                 /\ Needs \in OpIds \ folders
                 /\ \/ Needs = Version(d.item)
                    \/ Needs = Upload(d.item) /\ d.item \notin Big
                    \/ Needs = Prepare(d.item) /\ d.item \in Big /\ ops[Needs] # "completed"
                    \/ /\ Needs = Part(d.item, uploads[d.item]) /\ d.item \in Big /\ ops[Needs] # "completed"
                    \/ /\ Needs = Finish(d.item, uploads[d.item]) /\ d.item \in Big
                       /\ ops[Prepare(d.item)] = "completed" /\ uploads[d.item] \in 1 .. MaxUploads
<1> USE Shaped
<1>1. Needs = ItemNeeds(d.item) /\ d.item \in Versions  BY DEF Needs, IInv, Flight
<1> DEFINE v == d.item
<1>2. CASE ~items[v].folder
  <2>1. Needs = Version(v)  BY <1>1, <1>2 DEF ItemNeeds
  <2>2. Version(v) \in OpIds \ folders  BY <1>1, <1>2, InOps DEF IInv, Taken
  <2> QED  BY <1>1, <2>1, <2>2
<1>3. CASE items[v].folder /\ items[v].file  BY <1>1, <1>3 DEF ItemNeeds
<1>4. CASE items[v].folder /\ ~items[v].file /\ v \notin Big
  <2>1. Needs = Upload(v)  BY <1>1, <1>4 DEF ItemNeeds
  <2>2. Upload(v) \in OpIds /\ Upload(v).kind = "upload"  BY <1>1, <1>4, InOps, Named
  <2>3. Upload(v) \notin folders  BY <2>2, EffectKinds
  <2> QED  BY <1>1, <1>4, <2>1, <2>2, <2>3
<1>5. CASE items[v].folder /\ ~items[v].file /\ v \in Big /\ ops[Prepare(v)] # "completed"
  <2>1. Needs = Prepare(v)  BY <1>1, <1>5 DEF ItemNeeds
  <2>2. Prepare(v) \in OpIds /\ Prepare(v).kind = "upload_prepare"  BY <1>5, InOps, Named
  <2>3. Prepare(v) \notin folders  BY <2>2, EffectKinds
  <2> QED  BY <1>1, <1>5, <2>1, <2>2, <2>3
<1>6. CASE items[v].folder /\ ~items[v].file /\ v \in Big /\ ops[Prepare(v)] = "completed"
  <2> DEFINE u == uploads[v]
  <2>1. u \in 1 .. MaxUploads  BY <1>6 DEF IInv, OneUpload
  <2>2. \/ Needs = Finish(v, u)
        \/ Needs = Part(v, u) /\ ops[Part(v, u)] # "completed"
    BY <1>1, <1>6 DEF ItemNeeds
  <2>3. Part(v, u) \in OpIds /\ Part(v, u).kind = "upload_part"
        /\ Finish(v, u) \in OpIds /\ Finish(v, u).kind = "upload_finish"
    BY <1>6, <2>1, InOps, Named
  <2>4. Part(v, u) \notin folders /\ Finish(v, u) \notin folders  BY <2>3, EffectKinds
  <2> HIDE DEF u
  <2> QED  BY <1>1, <1>6, <2>1, <2>2, <2>3, <2>4 DEF u
<1> QED  BY <1>2, <1>3, <1>4, <1>5, <1>6

LEMMA PostDoneKeeps == ASSUME IInv, PostDone PROVE IInv'
<1> USE Shaped
<1>1. Turn /\ d.step = "post" /\ Needs = None /\ d' = NextItem(0)
      /\ UNCHANGED <<folders, items, ops, uploads, where, moving, times>>
  BY DEF PostDone, drive
<1>2. /\ d' \in Dispatches /\ d'.phase = "none" /\ (d'.step = "item" => d'.item \in Versions)
      /\ (d'.step = "idle" => d' = Idle) /\ d.phase = "none" /\ post.task = None
  BY <1>1, NextItemFacts, PostWants DEF Turn
<1>3. CASE post.home # None
  <2>1. post.at = post.place  BY <1>1, <1>3, PostWants
  <2>2. post' = [post EXCEPT !.home = post.home, !.at = post.place, !.status = "completed"]
    BY <1>3, <2>1 DEF PostDone, Posts
  <2>3. Rests /\ post'.task = post.task
    <3>1. post' \in Posts /\ post'.home = post.home /\ post'.at = post.at /\ post'.seq = post.seq
          /\ post'.task = post.task
      BY <1>3, <2>1, <2>2 DEF Posts
    <3> QED  BY <1>1, <1>2, <3>1 DEF Rests, IInv, Taken
  <2> QED  BY <1>1, <1>2, <2>3, QuietKeeps DEF drive
<1>4. CASE post.home = None
  <2> DEFINE p == post.place
  <2>1. post' = [post EXCEPT !.home = p, !.at = p, !.status = "completed"] /\ p \in Places
    BY <1>4 DEF PostDone, Posts
  <2>2. post' \in Posts /\ post'.home = p /\ post'.at = p /\ post'.task = None /\ post'.seq = post.seq
    BY <1>2, <2>1 DEF Posts, Maybe
  <2>3. Home(p) \in folders  BY <1>1, <1>4, PostWants
  <2>4. times[Home(p)] = 1  BY <2>3, EffectKinds DEF IInv, Honest, Effects
  <2>5. where[p] = p  BY <1>4, <2>1, <2>4 DEF IInv, Unmoved
  <2>6. \A o \in OpIds : o.kind = "move" => ops[o] = "none"  BY <1>4 DEF IInv, Unmoved
  <2>7. moving.state = "none"  BY <1>4 DEF IInv, Unmoved
  <2>8. Shapes'  BY <1>1, <1>2, <2>2 DEF Shapes
  <2>9. Flight'  BY <1>1, <1>2 DEF IInv, Flight
  <2>10. Honest' /\ Taken' /\ OneUpload'  BY <1>1, <1>2 DEF IInv, Honest, Flight, Taken, OneUpload
  <2>11. Unmoved'  BY <1>1, <2>1, <2>2, <2>5, <2>6, <2>7 DEF IInv, Unmoved
  <2>12. \A o \in (MovesFrom(post.seq))' : ops'[o] = "none"
    BY <1>1, <2>6, Named DEF MovesFrom
  <2>13. Located'  BY <1>1, <2>2, <2>5, <2>7, <2>12 DEF Located, Told, Unsent
  <2> QED  BY <2>8, <2>9, <2>10, <2>11, <2>13 DEF IInv
<1> QED  BY <1>3, <1>4

LEMMA ItemDoneKeeps == ASSUME IInv, ItemDone PROVE IInv'
<1> USE Shaped
<1>1. Turn /\ d.step = "item" /\ Needs = None /\ d' = NextItem(d.item)
      /\ items' = [items EXCEPT ![d.item].status = "completed"]
      /\ UNCHANGED <<post, folders, ops, uploads, drive>>
  BY DEF ItemDone
<1>2. /\ d' \in Dispatches /\ d'.phase = "none" /\ (d'.step = "item" => d'.item \in Versions)
      /\ (d'.step = "idle" => d' = Idle) /\ d.phase = "none"
  BY <1>1, NextItemFacts DEF Turn
<1>3. d.item \in Versions /\ items[d.item].folder /\ items[d.item].file  BY <1>1, ItemWants
<1>4. items' \in [Versions -> Items] /\ \A v \in Versions :
            /\ items'[v].folder = items[v].folder /\ items'[v].file = items[v].file
            /\ items'[v].status = "completed" => items[v].folder /\ items[v].file
  BY <1>1, <1>3 DEF Items, IInv, Taken
<1>5. Rests  BY <1>1, <1>2, <1>4 DEF Rests
<1> QED  BY <1>1, <1>2, <1>5, QuietKeeps
--------------------------------------------------------------------------------
(* The request: intended, carried out, answered. *)

\* The moves from where the post is, and that a second one of their count forks.
LEMMA MovesHere ==
    ASSUME IInv
    PROVE  /\ MovesFrom(post.seq) \subseteq OpIds
           /\ \A o \in MovesFrom(post.seq) : o.kind = "move" /\ o.y \in Places /\ o.y # post.at
           /\ \A o, m \in MovesFrom(post.seq) :
                 ~Forked /\ ops[o] # "none" /\ ops[m] # "none" => o = m
<1>1. \A o \in MovesFrom(post.seq) : \E p \in Places \ {post.at} : o = Move(post.at, p, post.seq)
  BY DEF MovesFrom
<1>2. \A o \in MovesFrom(post.seq) : /\ o.kind = "move" /\ o.x = post.at /\ o.n = post.seq
                                     /\ o.y \in Places /\ o.y # post.at
                                     /\ o = Move(post.at, o.y, post.seq)
  BY <1>1, Named
<1>3. MovesFrom(post.seq) \subseteq OpIds  BY DEF MovesFrom
<1>4. ASSUME NEW o \in MovesFrom(post.seq), NEW m \in MovesFrom(post.seq),
             ~Forked, ops[o] # "none", ops[m] # "none"
      PROVE  o = m
  <2>1. o.y = m.y  BY <1>2, <1>3, <1>4 DEF Forked
  <2> QED  BY <1>2, <2>1
<1> QED  BY <1>2, <1>3, <1>4

\* Nothing that is on record leaves it: what has forked stays so.
LEMMA ForkedStays ==
    ASSUME IInv, \A o \in OpIds : ops[o] # "none" => ops'[o] # "none"
    PROVE  Forked => Forked'
BY DEF Forked

\* The move that is asked for is one of those from where the post is.
LEMMA FlightMoves ==
    ASSUME IInv, d.phase # "none", d.op.kind = "move"
    PROVE  d.op \in MovesFrom(post.seq) /\ post.home # None /\ post.task = None
BY Shaped DEF IInv, Flight, MovesFrom, Posts

LEMMA IntendKeeps == ASSUME IInv, Intend PROVE IInv'
<1> USE Shaped
<1>1. Turn /\ Needs # None /\ UNCHANGED <<folders, uploads, where, moving, times>>
  BY DEF Intend, drive
<1>2. d.phase = "none" /\ d.step # "idle" /\ (d.step = "post" => post.task = None)
  BY <1>1 DEF Turn, Dispatches, Idle, Stop, Intend, IInv, Flight, Maybe
<1> PICK n : n = Needs  OBVIOUS
<1>3. /\ n \in OpIds \ folders
      /\ n.kind = "home" => post.home = None
      /\ n.kind = "move" => /\ post.home # None /\ post.task = None /\ post.place # post.at
                            /\ n = Move(post.at, post.place, post.seq)
      /\ n.kind = "upload_finish" => ops[Prepare(n.n)] = "completed" /\ uploads[n.n] = n.y
      /\ n.kind = "upload_prepare" => ops[n] # "completed"
  <2>1. CASE d.step = "post"  BY <1>1, <2>1, PostWants
  <2>2. CASE d.step = "item"  BY <1>1, <2>2, ItemWants, Named
  <2> QED  BY <1>2, <2>1, <2>2 DEF Dispatches
<1>4. CASE /\ ops[n] \in {"none", "pending"}
           /\ n.kind = "upload_prepare" => uploads[n.n] < MaxUploads
           /\ ops' = [ops EXCEPT ![n] = "in_flight"]
           /\ d' = [d EXCEPT !.op = n, !.phase = "sent"] /\ UNCHANGED <<post, items>>
  <2> USE <1>1, <1>2, <1>3, <1>4
  <2>1. /\ d' \in Dispatches /\ d'.op = n /\ d'.phase = "sent" /\ d'.step = d.step /\ d'.item = d.item
        /\ ops' \in [OpIds -> Statuses] /\ ops'[n] = "in_flight"
        /\ \A o \in OpIds \ {n} : ops'[o] = ops[o]
        /\ \A o \in OpIds : ops[o] # "in_flight"
    BY DEF Dispatches, Maybe, Statuses, IInv, Flight
  <2>2. Shapes'  BY <2>1 DEF Shapes
  <2>3. Flight'  BY <2>1 DEF IInv, Flight
  <2>4. Honest'  BY <2>1, EffectKinds DEF IInv, Honest, Unsent
  <2>5. Taken'  BY <2>1, FilesOf, EffectKinds DEF IInv, Taken
  <2>6. OneUpload'  BY <2>1, InOps, Named DEF IInv, OneUpload, Unsent
  <2>7. Unmoved'
    <3>1. \A o \in OpIds : o.kind = "move" /\ ops'[o] # "none" => post.home # None /\ o.n <= post.seq
      BY <2>1, Named DEF IInv, Unmoved, Posts
    <3>2. post.task # None => ops'[post.task] = "task"
      BY <2>1 DEF IInv, Unmoved, Posts, Maybe
    <3> QED  BY <2>1, <3>1, <3>2 DEF IInv, Unmoved
  <2>8. ASSUME post'.home # None, ~Forked' PROVE Located'
    <3>1. Located /\ ~Forked  BY <2>1, <2>8, ForkedStays DEF IInv
    <3>2. (MovesFrom(post.seq))' = MovesFrom(post.seq)  BY DEF MovesFrom
    <3>3. CASE n.kind = "move"
      <4>1. n \in MovesFrom(post.seq)  BY <3>3 DEF MovesFrom, Posts
      <4>2. \A o \in MovesFrom(post.seq) \ {n} : ops[o] = "none" /\ ops'[o] = "none"
        <5> SUFFICES ASSUME NEW o \in MovesFrom(post.seq), o # n, ops[o] # "none" PROVE FALSE
          BY <2>1, MovesHere
        <5>1. o.y # n.y /\ o.x = n.x /\ o.n = n.n /\ o.kind = "move" /\ o \in OpIds
          BY <4>1, Named DEF MovesFrom
        <5> QED  BY <2>1, <2>8, <3>3, <5>1 DEF Forked
      <4>3. where[post.home] = post.at
        <5>1. CASE ops[n] = "none"  BY <3>1, <4>2, <5>1 DEF Located, OpenMove
        <5>2. CASE ops[n] = "pending"  BY <3>1, <4>1, <5>2 DEF Located, Told, Unsent
        <5> QED  BY <5>1, <5>2
      <4>4. moving.state # "working"  BY <2>1, <3>1, <4>2 DEF Located
      <4>5. Told(n)'  BY <2>1, <4>3 DEF Told, Unsent
      <4>6. \A o \in MovesFrom(post.seq) \ {n} : Told(o)'  BY <4>2 DEF Told, Unsent
      <4> QED  BY <2>1, <3>2, <3>3, <4>1, <4>3, <4>4, <4>5, <4>6 DEF Located
    <3>4. CASE n.kind # "move"
      <4>1. \A o \in MovesFrom(post.seq) : ops'[o] = ops[o]  BY <2>1, <3>4, MovesHere
      <4>2. OpenMove' = OpenMove  BY <3>2, <4>1 DEF OpenMove
      <4>3. \A o \in MovesFrom(post.seq) : Told(o)'
        BY <2>1, <3>1, <4>1, MovesHere DEF Located, Told
      <4>4. moving.state = "working" => /\ moving.op \in MovesFrom(post.seq)
                                        /\ ops'[moving.op] \in {"uncertain", "task"}
        BY <2>1, <3>1, <4>1, MovesHere DEF Located
      <4> QED  BY <3>1, <3>2, <4>2, <4>3, <4>4 DEF Located
    <3> QED  BY <3>3, <3>4
  <2> QED  BY <2>2, <2>3, <2>4, <2>5, <2>6, <2>7, <2>8 DEF IInv
<1>5. CASE \E s \in {"pending", "uncertain", "blocked"} : Stop(s) /\ UNCHANGED ops
  BY <1>1, <1>2, <1>5, StopFacts, QuietKeeps DEF drive
<1>6. ops[n] \in Statuses  BY <1>3
<1> QED  BY <1>4, <1>5, <1>6 DEF Intend

LEMMA HappenKeeps == ASSUME IInv, Happen PROVE IInv'
<1> USE Shaped
<1>1. /\ d.phase = "sent" /\ d' = [d EXCEPT !.phase = "done"]
      /\ UNCHANGED <<post, folders, items, ops, uploads>>
  BY DEF Happen, record
<1> PICK n : n = d.op  OBVIOUS
<1>2. /\ n \in OpIds \ folders /\ d.step # "idle" /\ ops[n] = "in_flight"
      /\ n.kind = "home" => post.home = None
      /\ \A o \in OpIds \ {n} : ops[o] # "in_flight"
  BY <1>1 DEF IInv, Flight
<1>3. d' \in Dispatches /\ d'.phase = "done" /\ d'.op = n /\ d'.step = d.step /\ d'.item = d.item
  BY <1>1 DEF Dispatches
<1>4. Flight' /\ Taken' /\ OneUpload'
  BY <1>1, <1>2, <1>3 DEF IInv, Flight, Taken, OneUpload
<1>5. MovesFrom(post.seq)' = MovesFrom(post.seq) /\ OpenMove' = OpenMove /\ Forked' = Forked
  BY <1>1 DEF MovesFrom, OpenMove, Forked
<1>6. CASE n.kind = "move"
  <2>1. n \in MovesFrom(post.seq) /\ post.home # None /\ post.task = None
    BY <1>1, <1>6, FlightMoves
  <2>2. n.y \in Places /\ post.home \in Places  BY <2>1, MovesHere DEF Posts, Maybe
  <2>3. /\ times' = times
        /\ \/ where' = [where EXCEPT ![post.home] = n.y] /\ moving' = NoMove
           \/ moving' = [op |-> n, state |-> "working"] /\ where' = where
    BY <1>6 DEF Happen
  <2>4. where' \in [Places -> Maybe(Places)] /\ moving' \in Movings
    BY <1>2, <2>2, <2>3 DEF Maybe, Movings, NoMove
  <2>5. Shapes'  BY <1>1, <1>3, <2>3, <2>4 DEF Shapes
  <2>6. Honest'  BY <1>1, <1>2, <1>6, <2>3, EffectKinds DEF IInv, Honest, Flight
  <2>7. Unmoved'
    <3>1. where'[post.home] \in Places  BY <2>1, <2>2, <2>3 DEF IInv, Unmoved
    <3>2. moving'.state = "working" => moving'.op # None /\ moving'.op.kind = "move"
      BY <1>2, <1>6, <2>3 DEF NoMove
    <3> QED  BY <1>1, <2>1, <2>3, <3>1, <3>2 DEF IInv, Unmoved
  <2>8. ASSUME ~Forked PROVE Located'
    <3>1. Located  BY <2>1, <2>8 DEF IInv
    <3>2. \A o \in MovesFrom(post.seq) \ {n} : ops[o] = "none"
      BY <1>2, <2>1, <2>8, MovesHere
    <3>3. where[post.home] = post.at  BY <1>1, <1>2, <2>1, <3>1 DEF Located, Told, Unsent
    <3>4. Told(n)'  BY <1>1, <1>2, <1>3, <2>2, <2>3, <3>3 DEF Told, Unsent, NoMove
    <3>5. \A o \in MovesFrom(post.seq) \ {n} : Told(o)'  BY <1>1, <3>2 DEF Told, Unsent
    <3>6. OpenMove  BY <1>2, <2>1 DEF OpenMove
    <3> QED  BY <1>1, <1>2, <1>3, <1>5, <2>1, <2>3, <3>4, <3>5, <3>6 DEF Located, NoMove
  <2> QED  BY <1>4, <1>5, <2>5, <2>6, <2>7, <2>8 DEF IInv
<1>7. CASE n.kind # "move"
  <2>1. /\ times' = [times EXCEPT ![n] = @ + 1] /\ moving' = moving
        /\ where' = IF n.kind = "home" THEN [where EXCEPT ![n.x] = n.x] ELSE where
    BY <1>7 DEF Happen
  <2>2. times' \in [OpIds -> Nat] /\ times'[n] = times[n] + 1 /\ \A o \in OpIds \ {n} : times'[o] = times[o]
    BY <1>2, <2>1
  <2>3. n.kind = "home" => n.x \in Places  BY <1>2, Kinds
  <2>4. where' \in [Places -> Maybe(Places)]  BY <2>1, <2>3 DEF Maybe
  <2>5. Shapes'  BY <1>1, <1>3, <2>1, <2>2, <2>4 DEF Shapes
  <2>6. Honest'
    <3>1. n \in Effects => times[n] = 0  BY <1>1, <1>2 DEF IInv, Honest
    <3> QED  BY <1>1, <1>2, <1>3, <2>2, <3>1, EffectKinds DEF IInv, Honest, Unsent
  <2>7. Unmoved'
    <3>1. post.home # None => where' = where  BY <1>2, <2>1
    <3>2. ASSUME post.home = None, NEW p \in Places, times'[Home(p)] = 1 PROVE where'[p] = p
      <4>1. CASE Home(p) = n  BY <2>1, <4>1, Named
      <4>2. CASE Home(p) # n
        <5>1. where[p] = p  BY <2>2, <3>2, <4>2, InOps DEF IInv, Unmoved
        <5>2. n.kind = "home" => n.x # p  BY <1>2, <4>2, Kinds
        <5> QED  BY <2>1, <5>1, <5>2
      <4> QED  BY <4>1, <4>2
    <3> QED  BY <1>1, <2>1, <3>1, <3>2 DEF IInv, Unmoved
  <2>8. ASSUME post.home # None, ~Forked PROVE Located'
    <3>1. Located /\ where' = where  BY <1>2, <2>1, <2>8 DEF IInv
    <3>2. \A o \in MovesFrom(post.seq) : ops[o] # "in_flight"  BY <1>2, <1>7, MovesHere
    <3>3. \A o \in MovesFrom(post.seq) : Told(o)'  BY <1>1, <2>1, <3>1, <3>2 DEF Located, Told
    <3> QED  BY <1>1, <1>5, <2>1, <3>1, <3>2, <3>3 DEF Located
  <2> QED  BY <1>1, <1>4, <1>5, <2>5, <2>6, <2>7, <2>8 DEF IInv
<1> QED  BY <1>6, <1>7

LEMMA TaskWorksKeeps == ASSUME IInv, TaskWorks PROVE IInv'
<1> USE Shaped
<1>1. /\ moving.state = "working" /\ UNCHANGED <<post, folders, items, ops, uploads, d, times>>
      /\ \/ moving' = [moving EXCEPT !.state = "success"] /\ where' = [where EXCEPT ![post.home] = moving.op.y]
         \/ moving' = [moving EXCEPT !.state = "failed"] /\ where' = where
  BY DEF TaskWorks, record
<1>2. moving.op \in OpIds /\ moving.op.kind = "move" /\ moving.op.y \in Places /\ post.home \in Places
  BY <1>1, Kinds DEF IInv, Unmoved, Movings, Maybe, Posts
<1>3. where' \in [Places -> Maybe(Places)] /\ moving' \in Movings /\ moving'.op = moving.op
      /\ moving'.state # "working" /\ where'[post.home] \in Places
  BY <1>1, <1>2 DEF Maybe, Movings, IInv, Unmoved
<1>4. Shapes'  BY <1>1, <1>3 DEF Shapes
<1>5. Flight' /\ Honest' /\ Taken' /\ OneUpload'
  BY <1>1 DEF IInv, Flight, Honest, Taken, OneUpload
<1>6. Unmoved'  BY <1>1, <1>2, <1>3 DEF IInv, Unmoved
<1>7. MovesFrom(post.seq)' = MovesFrom(post.seq) /\ OpenMove' = OpenMove /\ Forked' = Forked
  BY <1>1 DEF MovesFrom, OpenMove, Forked
<1>8. ASSUME post.home # None, ~Forked PROVE Located'
  <2>1. Located  BY <1>8 DEF IInv
  <2> PICK n : n = moving.op  OBVIOUS
  <2>2. n \in MovesFrom(post.seq) /\ (ops[n] \in {"uncertain", "task"} \/ (ops[n] = "in_flight" /\ d.phase = "done"))
    BY <1>1, <2>1 DEF Located
  <2>3. \A o \in MovesFrom(post.seq) \ {n} : ops[o] = "none"  BY <1>8, <2>2, MovesHere
  <2>4. n.y # post.at  BY <2>2, MovesHere
  <2>5. Told(n)'
    <3>1. Told(n)  BY <2>1, <2>2 DEF Located
    <3> QED  BY <1>1, <1>2, <2>2, <3>1 DEF Told, Unsent, Movings
  <2>6. \A o \in MovesFrom(post.seq) \ {n} : Told(o)'  BY <1>1, <2>3 DEF Told, Unsent
  <2>7. OpenMove  BY <2>2 DEF OpenMove
  <2> QED  BY <1>1, <1>3, <1>7, <2>1, <2>5, <2>6, <2>7 DEF Located
<1> QED  BY <1>1, <1>4, <1>5, <1>6, <1>7, <1>8 DEF IInv

LEMMA KnownKeeps ==
    ASSUME IInv, d.phase = "done", Known(d.op), d' = [d EXCEPT !.op = None, !.phase = "none"],
           uploads' = IF d.op.kind = "upload_prepare" THEN [uploads EXCEPT ![d.op.n] = @ + 1] ELSE uploads,
           UNCHANGED <<post, items, folders, where, moving, times>>
    PROVE  IInv'
<1> USE Shaped
<1> PICK n : n = d.op  OBVIOUS
<1>1. /\ n \in OpIds \ folders /\ d.step # "idle" /\ ops[n] = "in_flight"
      /\ n.kind = "upload_prepare" => n.n \in Big /\ uploads[n.n] < MaxUploads
      /\ \A o \in OpIds \ {n} : ops[o] # "in_flight"
  BY Kinds DEF IInv, Flight
<1> PICK s : s = IF n.kind = "move" /\ moving.op = n THEN "task" ELSE "completed"  OBVIOUS
<1>2. /\ ops' = [ops EXCEPT ![n] = s] /\ s \in {"task", "completed"}
      /\ s = "task" <=> n.kind = "move" /\ moving.op = n
  BY DEF Known
<1>3. ops' \in [OpIds -> Statuses] /\ ops'[n] = s /\ \A o \in OpIds \ {n} : ops'[o] = ops[o]
  BY <1>1, <1>2 DEF Statuses
<1>4. d' \in Dispatches /\ d'.phase = "none" /\ d'.step = d.step /\ d'.item = d.item
  BY DEF Dispatches, Maybe
<1>5. /\ uploads' \in [Big -> 0 .. MaxUploads]
      /\ \A v \in Big : uploads'[v] = IF n = Prepare(v) THEN uploads[v] + 1 ELSE uploads[v]
  BY <1>1, Named, Kinds
<1>6. Shapes'  BY <1>3, <1>4, <1>5 DEF Shapes
<1>7. Flight'  BY <1>1, <1>2, <1>3, <1>4 DEF IInv, Flight
<1>8. Honest'
  <2>1. n \in Effects => times[n] = 1 /\ s = "completed"
    BY <1>1, <1>2, EffectKinds DEF IInv, Honest
  <2> QED  BY <1>1, <1>2, <1>3, <2>1, EffectKinds DEF IInv, Honest, Unsent
<1>9. Taken'  BY <1>1, <1>3, FilesOf, EffectKinds DEF IInv, Taken
<1>10. OneUpload'
  <2> SUFFICES ASSUME NEW v \in Big
               PROVE  /\ ops'[Prepare(v)] = "completed" => uploads'[v] # 0
                      /\ \A u \in 1 .. MaxUploads :
                            ops'[Finish(v, u)] \notin Unsent => u = uploads'[v] /\ ops'[Prepare(v)] = "completed"
    BY DEF OneUpload
  <2>1. CASE n = Prepare(v)
    <3>1. \A u \in 1 .. MaxUploads : ops[Finish(v, u)] \in Unsent
      BY <1>1, <2>1 DEF IInv, OneUpload
    <3>2. \A u \in 1 .. MaxUploads : ops'[Finish(v, u)] \in Unsent
      <4> TAKE u \in 1 .. MaxUploads
      <4>1. Finish(v, u) \in OpIds /\ Finish(v, u).kind = "upload_finish"  BY InOps, Named
      <4>2. n.kind = "upload_prepare"  BY <2>1, Named
      <4> QED  BY <1>3, <3>1, <4>1, <4>2
    <3> QED  BY <1>5, <2>1, <3>2
  <2>2. CASE n # Prepare(v)
    <3>1. uploads'[v] = uploads[v] /\ ops'[Prepare(v)] = ops[Prepare(v)]
      BY <1>3, <1>5, <2>2, InOps
    <3>2. \A u \in 1 .. MaxUploads : ops'[Finish(v, u)] \notin Unsent => ops[Finish(v, u)] \notin Unsent
      BY <1>1, <1>3, InOps DEF Unsent
    <3> QED  BY <3>1, <3>2 DEF IInv, OneUpload
  <2> QED  BY <2>1, <2>2
<1>11. Unmoved'
  <2>1. post.task # None => post.task # n /\ post.task \in OpIds  BY <1>1 DEF IInv, Unmoved, Posts, Maybe
  <2> QED  BY <1>1, <1>2, <1>3, <2>1 DEF IInv, Unmoved
<1>12. ASSUME post.home # None, ~Forked' PROVE Located'
  <2>1. Located /\ ~Forked  BY <1>1, <1>2, <1>3, <1>12, ForkedStays DEF IInv
  <2>2. MovesFrom(post.seq)' = MovesFrom(post.seq)  BY DEF MovesFrom
  <2>3. OpenMove' = OpenMove
    BY <1>1, <1>2, <1>3, <2>2, MovesHere DEF OpenMove
  <2>4. \A o \in MovesFrom(post.seq) \ {n} : Told(o)'
    BY <1>1, <1>3, <2>1, MovesHere DEF Located, Told
  <2>5. n \in MovesFrom(post.seq) => Told(n)'
    <3> SUFFICES ASSUME n \in MovesFrom(post.seq) PROVE Told(n)'
      OBVIOUS
    <3>1. n.kind = "move" /\ Told(n)  BY <2>1, MovesHere DEF Located
    <3> QED  BY <1>1, <1>2, <1>3, <3>1 DEF Told, Unsent
  <2>6. moving.state = "working" =>
          /\ moving.op \in MovesFrom(post.seq) /\ ops'[moving.op] \in {"uncertain", "task"}
    BY <1>1, <1>2, <1>3, <2>1, MovesHere DEF Located
  <2> QED  BY <2>1, <2>2, <2>3, <2>4, <2>5, <2>6 DEF Located
<1> QED  BY <1>6, <1>7, <1>8, <1>9, <1>10, <1>11, <1>12 DEF IInv

\* The request was refused, put off, or its answer is lost - as it is in a crash.
LEMMA LostKeeps ==
    ASSUME IInv, d.phase \in {"sent", "done"},
           NEW s \in IF d.phase = "sent" THEN {"blocked", "pending", "uncertain"} ELSE {"uncertain"},
           ops' = [ops EXCEPT ![d.op] = s], Rests, post'.task = post.task,
           UNCHANGED <<folders, uploads, where, moving, times>>
    PROVE  IInv'
<1> USE Shaped DEF Rests
<1> PICK n : n = d.op  OBVIOUS
<1>1. /\ n \in OpIds \ folders /\ d.step # "idle" /\ ops[n] = "in_flight"
      /\ \A o \in OpIds \ {n} : ops[o] # "in_flight"
  BY DEF IInv, Flight
<1>2. s \in {"blocked", "pending", "uncertain"} /\ (d.phase = "done" => s = "uncertain")
  OBVIOUS
<1>3. ops' \in [OpIds -> Statuses] /\ ops'[n] = s /\ \A o \in OpIds \ {n} : ops'[o] = ops[o]
  BY <1>1, <1>2 DEF Statuses
<1>4. Shapes'  BY <1>3 DEF Shapes
<1>5. Flight'  BY <1>1, <1>2, <1>3 DEF IInv, Flight
<1>6. Honest'
  <2>1. n \in Effects => times[n] = IF d.phase = "done" THEN 1 ELSE 0
    BY <1>1 DEF IInv, Honest
  <2> QED  BY <1>1, <1>2, <1>3, <2>1, EffectKinds DEF IInv, Honest, Unsent
<1>7. Taken'  BY <1>1, <1>3, FilesOf, EffectKinds DEF IInv, Taken
<1>8. OneUpload'
  <2> SUFFICES ASSUME NEW v \in Big
               PROVE  /\ ops'[Prepare(v)] = "completed" => uploads[v] # 0
                      /\ \A u \in 1 .. MaxUploads :
                            ops'[Finish(v, u)] \notin Unsent => u = uploads[v] /\ ops'[Prepare(v)] = "completed"
    BY DEF OneUpload
  <2>1. \A u \in 1 .. MaxUploads : ops'[Finish(v, u)] \notin Unsent => ops[Finish(v, u)] \notin Unsent
    BY <1>1, <1>3, InOps DEF Unsent
  <2>2. ops[Prepare(v)] = "completed" <=> ops'[Prepare(v)] = "completed"
    BY <1>1, <1>2, <1>3, InOps
  <2> QED  BY <2>1, <2>2 DEF IInv, OneUpload
<1>9. Unmoved'
  <2>1. post.task # None => post.task # n /\ post.task \in OpIds  BY <1>1 DEF IInv, Unmoved, Posts, Maybe
  <2> QED  BY <1>1, <1>2, <1>3, <2>1 DEF IInv, Unmoved
<1>10. ASSUME post.home # None, ~Forked' PROVE Located'
  <2>1. Located /\ ~Forked  BY <1>1, <1>2, <1>3, <1>10, ForkedStays DEF IInv
  <2>2. MovesFrom(post.seq)' = MovesFrom(post.seq)  BY DEF MovesFrom
  <2>3. OpenMove' = OpenMove
    BY <1>1, <1>2, <1>3, <2>2, MovesHere DEF OpenMove
  <2>4. \A o \in MovesFrom(post.seq) \ {n} : Told(o)'
    BY <1>1, <1>3, <2>1, MovesHere DEF Located, Told
  <2>5. n \in MovesFrom(post.seq) => Told(n)'
    <3> SUFFICES ASSUME n \in MovesFrom(post.seq) PROVE Told(n)'
      OBVIOUS
    <3>1. Told(n)  BY <2>1 DEF Located
    <3> QED  BY <1>1, <1>2, <1>3, <3>1 DEF Told, Unsent
  <2>6. moving.state = "working" =>
          /\ moving.op \in MovesFrom(post.seq) /\ ops'[moving.op] \in {"uncertain", "task"}
    BY <1>1, <1>2, <1>3, <2>1, MovesHere DEF Located
  <2> QED  BY <2>1, <2>2, <2>3, <2>4, <2>5, <2>6 DEF Located
<1> QED  BY <1>4, <1>5, <1>6, <1>7, <1>8, <1>9, <1>10 DEF IInv

LEMMA AnswerKeeps == ASSUME IInv, Answer PROVE IInv'
<1> USE Shaped
<1>1. /\ d.phase \in {"sent", "done"} /\ d.step # "idle"
      /\ UNCHANGED <<folders, where, moving, times>>
  BY DEF Answer, drive, IInv, Flight
<1>2. CASE /\ d.phase = "done" /\ Known(d.op)
           /\ d' = [d EXCEPT !.op = None, !.phase = "none"]
           /\ uploads' = IF d.op.kind = "upload_prepare" THEN [uploads EXCEPT ![d.op.n] = @ + 1] ELSE uploads
           /\ UNCHANGED <<post, items, events>>
  BY <1>1, <1>2, KnownKeeps
<1>3. ASSUME NEW s \in IF d.phase = "sent" THEN {"blocked", "pending", "uncertain"} ELSE {"uncertain"},
             ops' = [ops EXCEPT ![d.op] = s], Stop(s), UNCHANGED uploads
      PROVE  IInv'
  <2>1. s \in {"pending", "uncertain", "blocked"}  BY <1>3
  <2>2. Rests /\ post'.task = post.task  BY <1>1, <1>3, <2>1, StopFacts
  <2> QED  BY <1>1, <1>3, <2>2, LostKeeps
<1> QED  BY <1>2, <1>3 DEF Answer

LEMMA CrashKeeps == ASSUME IInv, Crash PROVE IInv'
<1> USE Shaped
<1>1. d # Idle /\ d' = Idle /\ ops' = Loaded
      /\ UNCHANGED <<post, folders, items, uploads, where, moving, times>>
  BY DEF Crash, drive
<1>2. Rests /\ post'.task = post.task
  BY <1>1 DEF Rests, Idle, Dispatches, Maybe, IInv, Taken
<1>3. CASE d.phase = "none"
  <2>1. ops' = ops  BY <1>1, <1>3 DEF Loaded, IInv, Flight
  <2> QED  BY <1>1, <1>2, <1>3, <2>1, QuietKeeps DEF drive
<1>4. CASE d.phase # "none"
  <2>1. ops' = [ops EXCEPT ![d.op] = "uncertain"]
    BY <1>1, <1>4 DEF Loaded, IInv, Flight
  <2>2. d.phase \in {"sent", "done"}  BY <1>4 DEF Dispatches
  <2> QED  BY <1>1, <1>2, <2>1, <2>2, LostKeeps
<1> QED  BY <1>3, <1>4

--------------------------------------------------------------------------------
(* What is on record is taken from it, and looked up.                          *)

\* A move that took place is done with: the post is where it went.
LEMMA MovedOn ==
    ASSUME IInv, d.phase = "none", NEW o \in MovesFrom(post.seq), post.home # None, ops[o] # "none",
           post.seq < MaxSeq, ~Forked => where[post.home] = o.y,
           moving.state = "working" => ops[o] # "uncertain" /\ ops[o] # "task",
           post' \in Posts, post'.home = post.home, post'.at = o.y, post'.task = None,
           post'.seq = post.seq + 1,
           UNCHANGED <<d, items, folders, ops, uploads, where, moving, times>>
    PROVE  IInv'
<1> USE Shaped
<1>1. Shapes'  BY DEF Shapes
<1>2. Flight' /\ Honest' /\ Taken' /\ OneUpload'
  BY DEF IInv, Flight, Honest, Taken, OneUpload
<1>3. post.seq \in Nat /\ \A m \in OpIds : m.kind = "move" /\ ops[m] # "none" => m.n <= post.seq
  BY DEF IInv, Unmoved, Posts
<1>4. \A m \in OpIds : m.kind = "move" => m.n \in Nat  BY Kinds
<1>5. Unmoved'
  <2>1. \A m \in OpIds : m.kind = "move" /\ ops[m] # "none" => m.n <= post.seq + 1
    BY <1>3, <1>4
  <2> QED  BY <2>1, MovesHere DEF IInv, Unmoved
<1>6. \A m \in MovesFrom(post.seq)' : ops[m] = "none"
  <2> SUFFICES ASSUME NEW m \in MovesFrom(post.seq)', ops[m] # "none" PROVE FALSE
    OBVIOUS
  <2>1. m \in OpIds /\ m.kind = "move" /\ m.n = post.seq + 1
    BY Named DEF MovesFrom
  <2> QED  BY <1>3, <2>1
<1>7. ASSUME ~Forked' PROVE Located'
  <2>1. ~Forked /\ Located  BY <1>7 DEF Forked, IInv
  <2>2. moving.state # "working"
    <3> SUFFICES ASSUME moving.state = "working" PROVE FALSE
      OBVIOUS
    <3>1. moving.op \in MovesFrom(post.seq) /\ ops[moving.op] \in {"uncertain", "task"}
      BY <2>1 DEF Located
    <3>2. moving.op = o  BY <2>1, <3>1, MovesHere
    <3> QED  BY <3>1, <3>2
  <2> QED  BY <1>6, <2>1, <2>2 DEF Located, OpenMove, Told, Unsent
<1> QED  BY <1>1, <1>2, <1>5, <1>7 DEF IInv

LEMMA TakeKeeps == ASSUME IInv, Take PROVE IInv'
<1> USE Shaped
<1> PICK o : o = Needs  OBVIOUS
<1>1. /\ Turn /\ o # None /\ ops[o] \in {"completed", "task"} /\ d.phase = "none" /\ d # Idle
      /\ UNCHANGED <<ops, uploads, where, moving, times, drive>>
  BY DEF Take, drive, Turn
<1>2. o \in OpIds \ folders /\ d.step # "idle"
  <2>1. CASE d.step = "post"  BY <1>1, <2>1, PostWants
  <2>2. CASE d.step = "item"  BY <1>1, <2>2, ItemWants
  <2> QED  BY <1>1, <2>1, <2>2 DEF Dispatches, IInv, Flight
<1>3. ops[o] = "task" => o.kind = "move"  BY <1>2 DEF IInv, Unmoved
<1>4. CASE o.kind \in {"place", "home", "version"}
  <2>1. /\ folders' = folders \cup {o} /\ UNCHANGED <<post, d>>
        /\ items' = IF o.kind = "version" THEN [items EXCEPT ![o.n].folder = TRUE] ELSE items
    BY <1>4 DEF Take
  <2>2. ops[o] = "completed" /\ o \in Created /\ o \in Effects
    BY <1>1, <1>2, <1>3, <1>4, EffectKinds
  <2>3. /\ items' \in [Versions -> Items]
        /\ \A v \in Versions : /\ items'[v].file = items[v].file /\ items'[v].status = items[v].status
                               /\ items'[v].folder <=> items[v].folder \/ o = Version(v)
    <3>1. CASE o.kind = "version"
      <4>1. o.n \in Versions /\ o = Version(o.n)  BY <1>2, <3>1, Kinds
      <4>2. PICK w \in Versions : w = o.n  BY <4>1
      <4>3. items' = [items EXCEPT ![w].folder = TRUE]  BY <2>1, <3>1, <4>2
      <4>4. items' \in [Versions -> Items]  BY ZenonT(60), <4>3 DEF Items
      <4>5. \A v \in Versions \ {w} : items'[v] = items[v]  BY <4>3
      <4>6. items'[w] = [items[w] EXCEPT !.folder = TRUE]  BY <4>3
      <4>7. items'[w].folder /\ items'[w].file = items[w].file /\ items'[w].status = items[w].status
        BY <4>6 DEF Items
      <4>8. \A v \in Versions : o = Version(v) <=> v = w  BY <4>1, <4>2, Named
      <4> QED  BY <4>4, <4>5, <4>7, <4>8
    <3>2. CASE o.kind # "version"  BY <2>1, <3>2, Named
    <3> QED  BY <3>1, <3>2
  <2>4. Shapes'  BY <1>1, <2>1, <2>2, <2>3 DEF Shapes
  <2>5. Flight'  BY <1>1, <2>1 DEF IInv, Flight
  <2>6. Honest'  BY <1>1, <2>1, <2>2 DEF IInv, Honest, Flight
  <2>7. Taken'  BY <1>1, <2>1, <2>3 DEF IInv, Taken
  <2>8. OneUpload' /\ Unmoved'  BY <1>1, <2>1 DEF IInv, OneUpload, Unmoved
  <2>9. MovesFrom(post.seq)' = MovesFrom(post.seq) /\ OpenMove' = OpenMove /\ Forked' = Forked
    BY <1>1, <2>1 DEF MovesFrom, OpenMove, Forked
  <2>10. Located => Located'  BY <1>1, <2>1, <2>9 DEF Located, Told
  <2> QED  BY <2>1, <2>4, <2>5, <2>6, <2>7, <2>8, <2>9, <2>10 DEF IInv
<1>5. CASE o.kind = "move"
  <2>1. /\ d.step = "post" /\ post.task = None /\ post.home # None /\ post.place # post.at
        /\ o = Move(post.at, post.place, post.seq)
    <3>1. d.step = "post"
      <4> SUFFICES ASSUME d.step = "item" PROVE FALSE
        BY <1>2 DEF Dispatches
      <4> QED  BY <1>1, <1>5, ItemWants, Named
    <3> QED  BY <1>1, <1>5, <3>1, PostWants
  <2>2. o \in MovesFrom(post.seq)  BY <1>2, <2>1 DEF MovesFrom, Posts
  <2>3. CASE ops[o] = "task"
    <3>1. post' = [post EXCEPT !.task = o, !.status = "pending"] /\ d' = Idle /\ UNCHANGED <<folders, items>>
      BY <1>5, <2>3 DEF Take
    <3>2. post' \in Posts /\ post'.task = o /\ post'.home = post.home /\ post'.at = post.at
          /\ post'.seq = post.seq /\ d' \in Dispatches /\ d'.phase = "none" /\ d'.step = "idle"
      BY <1>2, <3>1 DEF Posts, Maybe, Idle, Dispatches
    <3>3. Shapes'  BY <1>1, <3>1, <3>2 DEF Shapes
    <3>4. Flight' /\ Honest' /\ Taken' /\ OneUpload'
      BY <1>1, <3>1, <3>2 DEF IInv, Flight, Honest, Taken, OneUpload
    <3>5. Unmoved'  BY <1>1, <1>5, <2>1, <2>3, <3>2 DEF IInv, Unmoved
    <3>6. MovesFrom(post.seq)' = MovesFrom(post.seq) /\ OpenMove' = OpenMove /\ Forked' = Forked
      BY <1>1, <3>2 DEF MovesFrom, OpenMove, Forked
    <3>7. ASSUME Located PROVE Located'
      <4>1. \A m \in MovesFrom(post.seq) : Told(m)'
        BY <1>1, <3>1, <3>2, <3>7 DEF Located, Told, IInv, Flight
      <4>2. moving.state = "working" => ops[moving.op] # "in_flight" \/ d.phase = "done"
        BY <3>7 DEF Located
      <4> QED  BY <1>1, <2>2, <3>2, <3>6, <3>7, <4>1, <4>2 DEF Located
    <3> QED  BY <2>1, <3>3, <3>4, <3>5, <3>6, <3>7 DEF IInv
  <2>4. CASE ops[o] = "completed"
    <3>1. post.seq < MaxSeq /\ post' = [post EXCEPT !.at = o.y, !.seq = @ + 1]
          /\ UNCHANGED <<folders, items, d>>
      BY <1>5, <2>4 DEF Take
    <3>2. post' \in Posts /\ post'.home = post.home /\ post'.at = o.y /\ post'.task = None
          /\ post'.seq = post.seq + 1
      <4>1. PICK q \in Places : q = o.y  BY <2>2, MovesHere
      <4>2. post' = [post EXCEPT !.at = q, !.seq = post.seq + 1]  BY <3>1, <4>1
      <4>3. post.seq + 1 \in 0 .. MaxSeq  BY <3>1 DEF Posts
      <4> QED  BY <2>1, <4>1, <4>2, <4>3 DEF Posts, Maybe
    <3>3. ~Forked => where[post.home] = o.y  BY <2>1, <2>2, <2>4 DEF IInv, Located, Told, Unsent
    <3> QED  BY <1>1, <2>1, <2>2, <2>4, <3>1, <3>2, <3>3, MovedOn
  <2> QED  BY <1>1, <2>3, <2>4
<1>6. CASE o.kind \notin {"place", "home", "version", "move"}
  <2>1. d.step = "item"
    <3> SUFFICES ASSUME d.step = "post" PROVE FALSE
      BY <1>2 DEF Dispatches
    <3> QED  BY <1>1, <1>6, PostWants
  <2>2. /\ d.item \in Versions /\ ops[o] = "completed"
        /\ \/ o = Upload(d.item) /\ d.item \notin Big
           \/ /\ o = Finish(d.item, uploads[d.item]) /\ d.item \in Big
              /\ uploads[d.item] \in 1 .. MaxUploads
    <3>1. ops[o] = "completed"  BY <1>1, <1>3, <1>6
    <3>2. o # Version(d.item)  BY <1>6, Named
    <3> QED  BY <1>1, <2>1, <3>1, <3>2, ItemWants
  <2>3. o.n = d.item /\ o \in Files(d.item)  BY <2>2, FilesOf, Named
  <2>4. items' = [items EXCEPT ![d.item].file = TRUE] /\ UNCHANGED <<folders, post, d>>
    BY <1>6, <2>3 DEF Take
  <2>5. /\ items' \in [Versions -> Items]
        /\ \A v \in Versions : /\ items'[v].folder = items[v].folder /\ items'[v].status = items[v].status
                               /\ items'[v].file <=> items[v].file \/ v = d.item
    <3>1. PICK w \in Versions : w = d.item  BY <2>2
    <3>2. items' = [items EXCEPT ![w].file = TRUE]  BY <2>4, <3>1
    <3>3. items' \in [Versions -> Items]  BY <3>2 DEF Items
    <3>4. \A v \in Versions \ {w} : items'[v] = items[v]  BY <3>2
    <3>5. items'[w] = [items[w] EXCEPT !.file = TRUE]  BY <3>2
    <3>6. items'[w].file /\ items'[w].folder = items[w].folder /\ items'[w].status = items[w].status
      BY <3>5 DEF Items
    <3> QED  BY <3>1, <3>3, <3>4, <3>6
  <2>6. Shapes'  BY <1>1, <2>4, <2>5 DEF Shapes
  <2>7. Taken'  BY <1>1, <2>2, <2>3, <2>4, <2>5 DEF IInv, Taken
  <2>8. Flight' /\ Honest' /\ OneUpload' /\ Unmoved'
    BY <1>1, <2>4 DEF IInv, Flight, Honest, OneUpload, Unmoved
  <2>9. MovesFrom(post.seq)' = MovesFrom(post.seq) /\ OpenMove' = OpenMove /\ Forked' = Forked
    BY <1>1, <2>4 DEF MovesFrom, OpenMove, Forked
  <2>10. Located => Located'  BY <1>1, <2>4, <2>9 DEF Located, Told
  <2> QED  BY <2>4, <2>6, <2>7, <2>8, <2>9, <2>10 DEF IInv
<1> QED  BY <1>4, <1>5, <1>6

LEMMA ExpireKeeps == ASSUME IInv, Expire PROVE IInv'
<1> USE Shaped
<1> PICK v : v = d.item  OBVIOUS
<1>1. /\ Turn /\ d.phase = "none" /\ d.step = "item" /\ v \in Big /\ ops[Prepare(v)] = "completed"
      /\ ops[Finish(v, uploads[v])] \notin {"completed", "uncertain"}
      /\ ops' = [ops EXCEPT ![Prepare(v)] = "blocked"] /\ Stop("blocked")
      /\ UNCHANGED <<folders, uploads, where, moving, times>>
  BY DEF Expire, Turn, drive
<1>2. Rests /\ post'.task = post.task  BY <1>1, StopFacts
<1> USE DEF Rests
<1>3. Prepare(v) \in OpIds /\ Prepare(v).kind = "upload_prepare"  BY <1>1, InOps, Named
<1>4. /\ ops' \in [OpIds -> Statuses] /\ ops'[Prepare(v)] = "blocked"
      /\ \A o \in OpIds \ {Prepare(v)} : ops'[o] = ops[o]
      /\ \A o \in OpIds : ops[o] # "in_flight" /\ (ops[o] = "task" => o.kind = "move")
  BY <1>1, <1>3 DEF Statuses, IInv, Flight, Unmoved
<1>5. Shapes'  BY <1>1, <1>2, <1>4 DEF Shapes
<1>6. Flight'  BY <1>1, <1>2, <1>4 DEF IInv, Flight
<1>7. Honest'  BY <1>1, <1>3, <1>4, EffectKinds DEF IInv, Honest
<1>8. Taken'
  <2>1. \A w \in Versions : \A o \in Files(w) : o \in OpIds \ {Prepare(v)}
    BY <1>3, FilesOf, EffectKinds
  <2> QED  BY <1>1, <1>2, <1>4, <2>1 DEF IInv, Taken
<1>9. OneUpload'
  <2> SUFFICES ASSUME NEW w \in Big
               PROVE  /\ ops'[Prepare(w)] = "completed" => uploads[w] # 0
                      /\ \A u \in 1 .. MaxUploads :
                            ops'[Finish(w, u)] \notin Unsent => u = uploads[w] /\ ops'[Prepare(w)] = "completed"
    BY <1>1 DEF OneUpload
  <2>1. \A u \in 1 .. MaxUploads : ops'[Finish(w, u)] = ops[Finish(w, u)]
    <3> TAKE u \in 1 .. MaxUploads
    <3>1. Finish(w, u) \in OpIds /\ Finish(w, u).kind = "upload_finish"  BY InOps, Named
    <3> QED  BY <1>3, <1>4, <3>1
  <2>2. CASE w = v
    <3>1. ASSUME NEW u \in 1 .. MaxUploads, ops[Finish(v, u)] \notin Unsent PROVE FALSE
      <4>1. u = uploads[v]  BY <1>1, <3>1 DEF IInv, OneUpload
      <4>2. Finish(v, u) \in OpIds /\ Finish(v, u).kind = "upload_finish"  BY <1>1, InOps, Named
      <4> QED  BY <1>1, <1>4, <3>1, <4>1, <4>2 DEF Statuses, Unsent
    <3> QED  BY <1>4, <2>1, <2>2, <3>1
  <2>3. CASE w # v
    <3>1. Prepare(w) # Prepare(v) /\ Prepare(w) \in OpIds  BY <2>3, InOps, Named
    <3> QED  BY <1>4, <2>1, <3>1 DEF IInv, OneUpload
  <2> QED  BY <2>2, <2>3
<1>10. Unmoved'
  <2>1. post.task # None => post.task # Prepare(v) /\ post.task \in OpIds
    BY <1>3 DEF IInv, Unmoved, Posts, Maybe
  <2> QED  BY <1>1, <1>2, <1>3, <1>4, <2>1 DEF IInv, Unmoved
<1>11. \A o \in MovesFrom(post.seq) : ops'[o] = ops[o] /\ o \in OpIds  BY <1>3, <1>4, MovesHere
<1>12. ASSUME post.home # None, ~Forked' PROVE Located'
  <2>1. Located
    <3>1. ~Forked  BY <1>1, <1>3, <1>4, <1>12, ForkedStays
    <3> QED  BY <1>12, <3>1 DEF IInv
  <2>2. MovesFrom(post.seq)' = MovesFrom(post.seq)  BY <1>2 DEF MovesFrom
  <2>3. OpenMove' = OpenMove  BY <1>11, <2>2 DEF OpenMove
  <2>4. \A o \in MovesFrom(post.seq) : Told(o)'  BY <1>1, <1>2, <1>4, <1>11, <2>1 DEF Located, Told
  <2> QED  BY <1>1, <1>2, <1>4, <1>11, <2>1, <2>2, <2>3, <2>4 DEF Located
<1> QED  BY <1>2, <1>5, <1>6, <1>7, <1>8, <1>9, <1>10, <1>12 DEF IInv

LEMMA TaskCheckKeeps == ASSUME IInv, TaskCheck PROVE IInv'
<1> USE Shaped
<1> PICK o : o = post.task  OBVIOUS
<1>1. /\ d.step = "post" /\ o # None /\ o \in OpIds /\ o.kind = "move" /\ ops[o] = "task"
      /\ post.home # None /\ d.phase = "none"
      /\ UNCHANGED <<folders, items, uploads, where, moving, times>>
  BY DEF TaskCheck, drive, IInv, Unmoved, Posts, Maybe, Flight, Dispatches
<1>2. ~Forked => /\ Located /\ o \in MovesFrom(post.seq) /\ moving.op = o
                 /\ moving.state = "success" => where[post.home] = o.y
                 /\ moving.state \in {"working", "failed"} => where[post.home] = post.at
  BY <1>1 DEF IInv, Located, Told, Unsent
<1>3. CASE moving.state = "success"
  <2>1. /\ post.seq < MaxSeq /\ post' = [post EXCEPT !.at = post.task.y, !.task = None, !.seq = @ + 1]
        /\ UNCHANGED <<ops, d>>
    BY <1>3 DEF TaskCheck
  <2>2. PICK q \in Places : q = o.y  BY <1>1, Kinds
  <2>3. post.seq + 1 \in 0 .. MaxSeq /\ post.seq \in 0 .. MaxSeq  BY <2>1 DEF Posts
  <2>4. post' = [post EXCEPT !.at = q, !.task = None, !.seq = post.seq + 1]  BY <2>1, <2>2
  <2>5. post' \in Posts /\ post'.home = post.home /\ post'.at = o.y /\ post'.task = None
        /\ post'.seq = post.seq + 1
    BY <2>2, <2>3, <2>4 DEF Posts, Maybe
  <2>6. CASE o \in MovesFrom(post.seq)
    BY <1>1, <1>2, <1>3, <2>1, <2>5, <2>6, MovedOn
  <2>7. CASE o \notin MovesFrom(post.seq)
    <3>1. Forked  BY <1>2, <2>7
    <3>2. Forked'  BY <2>1, <3>1 DEF Forked
    <3>3. Shapes'  BY <1>1, <2>1, <2>5 DEF Shapes
    <3>4. Flight' /\ Honest' /\ Taken' /\ OneUpload'
      BY <1>1, <2>1 DEF IInv, Flight, Honest, Taken, OneUpload
    <3>5. Unmoved'
      <4>1. \A m \in OpIds : m.kind = "move" /\ ops[m] # "none" => m.n <= post.seq + 1
        BY <2>3, Kinds DEF IInv, Unmoved
      <4> QED  BY <1>1, <2>1, <2>2, <2>5, <4>1 DEF IInv, Unmoved
    <3> QED  BY <3>2, <3>3, <3>4, <3>5 DEF IInv
  <2> QED  BY <2>6, <2>7
<1>4. CASE moving.state = "failed"
  <2>1. /\ ops' = [ops EXCEPT ![o] = "blocked"] /\ d' = Idle
        /\ post' = [post EXCEPT !.task = None, !.status = "blocked"]
    BY <1>4 DEF TaskCheck
  <2>2. /\ ops' \in [OpIds -> Statuses] /\ ops'[o] = "blocked" /\ \A m \in OpIds \ {o} : ops'[m] = ops[m]
        /\ \A m \in OpIds : ops[m] # "in_flight" /\ ops'[m] # "in_flight"
    BY <1>1, <2>1 DEF Statuses, IInv, Flight
  <2>3. /\ post' \in Posts /\ post'.home = post.home /\ post'.at = post.at /\ post'.task = None
        /\ post'.seq = post.seq /\ d' \in Dispatches /\ d'.phase = "none" /\ d'.step = "idle"
    BY <2>1 DEF Posts, Maybe, Idle, Dispatches
  <2>4. Shapes'  BY <1>1, <2>2, <2>3 DEF Shapes
  <2>5. Flight'  BY <2>1, <2>2, <2>3 DEF Flight
  <2>6. Honest'  BY <1>1, <2>2, EffectKinds DEF IInv, Honest
  <2>7. Taken'
    <3>1. \A w \in Versions : \A m \in Files(w) : m \in OpIds \ {o}
      BY <1>1, FilesOf, EffectKinds
    <3> QED  BY <1>1, <2>2, <3>1 DEF IInv, Taken
  <2>8. OneUpload'
    <3>1. \A v \in Big, u \in 1 .. MaxUploads : /\ ops'[Finish(v, u)] = ops[Finish(v, u)]
                                                /\ ops'[Prepare(v)] = ops[Prepare(v)]
      BY <1>1, <2>2, InOps, Named
    <3>2. \A v \in Big : ops'[Prepare(v)] = ops[Prepare(v)]
      BY <1>1, <2>2, InOps, Named
    <3> QED  BY <1>1, <3>1, <3>2 DEF IInv, OneUpload
  <2>9. Unmoved'  BY <1>1, <2>2, <2>3 DEF IInv, Unmoved
  <2>10. ASSUME ~Forked' PROVE Located'
    <3>1. ~Forked  BY <1>1, <2>2, <2>10, ForkedStays
    <3>2. MovesFrom(post.seq)' = MovesFrom(post.seq)  BY <2>3 DEF MovesFrom
    <3>3. OpenMove'  BY <1>2, <2>2, <3>1, <3>2 DEF OpenMove
    <3>4. Told(o)'  BY <1>1, <1>2, <1>4, <2>2, <2>3, <3>1 DEF Told, Unsent
    <3>5. \A m \in MovesFrom(post.seq) \ {o} : ops'[m] = "none"
      BY <1>1, <1>2, <2>2, <3>1, MovesHere
    <3>6. \A m \in MovesFrom(post.seq) \ {o} : Told(m)'  BY <3>5 DEF Told, Unsent
    <3> QED  BY <1>1, <1>4, <2>3, <3>2, <3>3, <3>4, <3>6 DEF Located
  <2> QED  BY <2>4, <2>5, <2>6, <2>7, <2>8, <2>9, <2>10 DEF IInv
<1>5. CASE moving.state \notin {"success", "failed"}
  <2>1. post' = [post EXCEPT !.status = "pending"] /\ d' = Idle /\ UNCHANGED ops
    BY <1>5 DEF TaskCheck
  <2>2. /\ post' \in Posts /\ post'.home = post.home /\ post'.at = post.at /\ post'.task = post.task
        /\ post'.seq = post.seq /\ d' \in Dispatches /\ d'.phase = "none" /\ d'.step = "idle"
    BY <2>1 DEF Posts, Maybe, Idle, Dispatches
  <2>3. Rests  BY <1>1, <2>1, <2>2 DEF Rests, IInv, Taken
  <2> QED  BY <1>1, <2>1, <2>2, <2>3, QuietKeeps DEF drive
<1> QED  BY <1>3, <1>4, <1>5

LEMMA ResolveKeeps == ASSUME IInv, Resolve PROVE IInv'
<1> USE Shaped
<1>1. /\ d = Idle /\ d' = Idle /\ moving.state # "working" /\ d.phase = "none"
      /\ UNCHANGED <<folders, uploads, where, moving, times>>
  BY DEF Resolve, drive, Idle
<1>2. PICK o \in OpIds :
          /\ ops[o] \in {"uncertain", "blocked"}
          /\ IF TookPlace(o) /\ o.kind \notin {"upload_prepare", "upload_part"}
             THEN ops' = [ops EXCEPT ![o] = "completed"]
             ELSE ops' = [ops EXCEPT ![o] = "pending"]
  BY DEF Resolve
<1> PICK s : s = IF TookPlace(o) /\ o.kind \notin {"upload_prepare", "upload_part"}
                 THEN "completed" ELSE "pending"
  OBVIOUS
<1>3. /\ ops' \in [OpIds -> Statuses] /\ ops'[o] = s /\ \A m \in OpIds \ {o} : ops'[m] = ops[m]
      /\ s \in {"completed", "pending"}
      /\ \A m \in OpIds : ops[m] # "in_flight" /\ ops'[m] # "in_flight"
  BY <1>1, <1>2 DEF Statuses, IInv, Flight
<1>4. /\ post' \in Posts /\ post'.home = post.home /\ post'.at = post.at /\ post'.task = post.task
      /\ post'.seq = post.seq
  BY DEF Resolve, Posts
<1>5. items' \in [Versions -> Items] /\ \A v \in Versions :
          /\ items'[v].folder = items[v].folder /\ items'[v].file = items[v].file
          /\ items'[v].status = "completed" => items[v].status = "completed"
  BY DEF Resolve, Items
<1>6. Shapes'  BY <1>1, <1>3, <1>4, <1>5 DEF Shapes
<1>7. Flight'  BY <1>1, <1>3 DEF IInv, Flight
<1>8. Honest'
  <2>1. o \in Effects => /\ o \notin folders /\ times[o] = IF s = "completed" THEN 1 ELSE 0
    BY <1>2, <1>3, EffectKinds DEF IInv, Honest, TookPlace
  <2> QED  BY <1>1, <1>2, <1>3, <2>1, EffectKinds DEF IInv, Honest, Unsent
<1>9. Taken'
  <2>1. \A w \in Versions : \A m \in Files(w) : ops[m] = "completed" => ops'[m] = "completed"
    BY <1>2, <1>3, FilesOf, EffectKinds
  <2> QED  BY <1>1, <1>5, <2>1 DEF IInv, Taken
<1>10. OneUpload'
  <2> SUFFICES ASSUME NEW v \in Big
               PROVE  /\ ops'[Prepare(v)] = "completed" => uploads[v] # 0
                      /\ \A u \in 1 .. MaxUploads :
                            ops'[Finish(v, u)] \notin Unsent => u = uploads[v] /\ ops'[Prepare(v)] = "completed"
    BY <1>1 DEF OneUpload
  <2>1. ops'[Prepare(v)] = "completed" <=> ops[Prepare(v)] = "completed"
    <3>1. Prepare(v) \in OpIds /\ Prepare(v).kind = "upload_prepare"  BY InOps, Named
    <3>2. CASE o = Prepare(v)  BY <1>2, <1>3, <3>1, <3>2
    <3>3. CASE o # Prepare(v)  BY <1>3, <3>1, <3>3
    <3> QED  BY <3>2, <3>3
  <2>2. \A u \in 1 .. MaxUploads : ops'[Finish(v, u)] \notin Unsent => ops[Finish(v, u)] \notin Unsent
    <3> SUFFICES ASSUME NEW u \in 1 .. MaxUploads, ops'[Finish(v, u)] \notin Unsent,
                        ops[Finish(v, u)] \in Unsent
                 PROVE  FALSE
      OBVIOUS
    <3>1. Finish(v, u) \in OpIds /\ Finish(v, u).kind = "upload_finish"  BY InOps, Named
    <3>2. o = Finish(v, u) /\ s = "completed" /\ ops[o] = "blocked"  BY <1>2, <1>3, <3>1 DEF Unsent
    <3>3. times[o] > 0  BY <3>1, <3>2 DEF TookPlace
    <3> QED  BY <1>2, <3>1, <3>2, <3>3, EffectKinds DEF IInv, Honest, Unsent
  <2> QED  BY <2>1, <2>2 DEF IInv, OneUpload
<1>11. Unmoved'
  <2>1. post.task # None => post.task # o /\ post.task \in OpIds
    BY <1>2 DEF IInv, Unmoved, Posts, Maybe
  <2> QED  BY <1>1, <1>2, <1>3, <1>4, <2>1 DEF IInv, Unmoved
<1>12. ASSUME post.home # None, ~Forked' PROVE Located'
  <2>1. Located
    <3>1. ~Forked  BY <1>2, <1>3, <1>12, ForkedStays
    <3> QED  BY <1>12, <3>1 DEF IInv
  <2>2. MovesFrom(post.seq)' = MovesFrom(post.seq)  BY <1>4 DEF MovesFrom
  <2>3. OpenMove' = OpenMove  BY <1>2, <1>3, <2>2, MovesHere DEF OpenMove
  <2>4. \A m \in MovesFrom(post.seq) \ {o} : Told(m)'
    BY <1>1, <1>3, <1>4, <2>1, MovesHere DEF Located, Told
  <2>5. o \in MovesFrom(post.seq) => Told(o)'
    <3> SUFFICES ASSUME o \in MovesFrom(post.seq) PROVE Told(o)'
      OBVIOUS
    <3>1. Told(o) /\ o.kind = "move"  BY <2>1, MovesHere DEF Located
    <3>2. s = IF where[post.home] = o.y THEN "completed" ELSE "pending"  BY <3>1 DEF TookPlace
    <3> QED  BY <1>1, <1>2, <1>3, <1>4, <3>1, <3>2 DEF Told, Unsent
  <2> QED  BY <1>1, <1>4, <2>1, <2>2, <2>3, <2>4, <2>5 DEF Located
<1> QED  BY <1>4, <1>6, <1>7, <1>8, <1>9, <1>10, <1>11, <1>12 DEF IInv
--------------------------------------------------------------------------------

LEMMA StartShapes ==
    /\ AllNone \in [OpIds -> Statuses] /\ \A o \in OpIds : AllNone[o] = "none"
    /\ Never \in [OpIds -> Nat] /\ \A o \in OpIds : Never[o] = 0
    /\ NoMove \in Movings /\ NoMove.state = "none"
    /\ NoItems \in [Versions -> Items]
    /\ \A v \in Versions : ~NoItems[v].folder /\ ~NoItems[v].file /\ NoItems[v].status = "none"
    /\ \A x \in Places : NewPost(x) = [place |-> x, home |-> None, at |-> None, status |-> "pending",
                                       task |-> None, seq |-> 0]
BY DEF AllNone, Never, NoMove, NoItems, NoItem, NewPost, Statuses, Movings, Items, Maybe

\* What a start comes down to: nothing is under way, and at most one folder,
\* one file or one move is not settled.
Start ==
    /\ Shapes /\ d = Idle
    /\ \A o \in OpIds :
          \/ ops[o] = "none"
          \/ o.kind = "move" /\ ops[o] = "task"
          \/ o.kind \in {"place", "upload"} /\ o \notin folders /\ ops[o] = "uncertain"
    /\ \A o \in OpIds : IF o \in folders THEN times[o] = 1
                        ELSE times[o] \in {0, 1} /\ (ops[o] = "none" => times[o] = 0)
    /\ \A v \in Versions : /\ items[v].folder <=> Version(v) \in folders
                           /\ ~items[v].file /\ items[v].status # "completed"

LEMMA StartIsSound == Start => Flight /\ Honest /\ Taken /\ OneUpload
<1> SUFFICES ASSUME Start PROVE Flight /\ Honest /\ Taken /\ OneUpload
  OBVIOUS
<1> USE Bounds DEF Start
<1>1. Flight  BY DEF Flight, Idle
<1>2. Honest  BY EffectKinds DEF Honest, Unsent
<1>3. Taken  BY DEF Taken
<1>4. OneUpload
  <2>1. \A v \in Big : ops[Prepare(v)] = "none"  BY InOps, Named
  <2>2. \A v \in Big, u \in 1 .. MaxUploads : ops[Finish(v, u)] = "none"  BY InOps, Named
  <2> QED  BY <2>1, <2>2 DEF OneUpload, Unsent
<1> QED  BY <1>1, <1>2, <1>3, <1>4

LEMMA InitHolds == Init => IInv
<1> SUFFICES ASSUME Init PROVE IInv
  OBVIOUS
<1> USE Bounds, NoneIsNoOperation, StartShapes
<1>1. PICK p \in {CHOOSE x \in Places : TRUE}, q \in Places :
          /\ p # q
          /\ \/ Empty(p)
             \/ \E made \in {0, 1} : FolderUnknown(p, made)
             \/ \E v \in Versions \ Big, made \in {0, 1} : FileUnknown(p, v, made)
             \/ TaskUnderWay(p, q)
  BY DEF Init
<1>2. p \in Places /\ p # None /\ q # None /\ 0 \in 0 .. MaxSeq  OBVIOUS
<1>3. d = Idle /\ d \in Dispatches /\ uploads \in [Big -> 0 .. MaxUploads]
  BY DEF Init, Idle, Dispatches, Maybe
<1>4. Place(p) \in OpIds /\ Home(p) \in OpIds /\ Place(q) \in OpIds /\ Move(p, q, 0) \in OpIds
  BY <1>1, <1>2, InOps
<1>5. CASE Empty(p)
  <2>1. post \in Posts /\ post.home = None /\ post.task = None  BY <1>2, <1>5 DEF Empty, Posts, Maybe
  <2>2. where \in [Places -> Maybe(Places)] /\ moving = NoMove  BY <1>5 DEF Empty, Nowhere, Maybe
  <2>3. Shapes  BY <1>3, <1>5, <2>1, <2>2 DEF Shapes, Empty
  <2>4. Start  BY <1>3, <1>5, <2>3 DEF Start, Empty
  <2>5. Unmoved  BY <1>5, <2>1, <2>2, InOps DEF Unmoved, Empty
  <2> QED  BY <2>1, <2>3, <2>4, <2>5, StartIsSound DEF IInv
<1>6. ASSUME NEW made \in {0, 1}, FolderUnknown(p, made) PROVE IInv
  <2>1. post \in Posts /\ post.home = None /\ post.task = None
    BY <1>2, <1>6 DEF FolderUnknown, Posts, Maybe
  <2>2. where \in [Places -> Maybe(Places)] /\ moving = NoMove  BY <1>6 DEF FolderUnknown, Nowhere, Maybe
  <2>3. /\ ops \in [OpIds -> Statuses] /\ times \in [OpIds -> Nat]
        /\ \A o \in OpIds : /\ ops[o] = IF o = Place(p) THEN "uncertain" ELSE "none"
                            /\ times[o] = IF o = Place(p) THEN made ELSE 0
    BY <1>4, <1>6 DEF FolderUnknown, Statuses
  <2>4. Shapes  BY <1>3, <1>6, <2>1, <2>2, <2>3 DEF Shapes, FolderUnknown
  <2>5. Start  BY <1>3, <1>4, <1>6, <2>3, <2>4, Named DEF Start, FolderUnknown
  <2>6. Unmoved  BY <1>6, <2>1, <2>2, <2>3, InOps, Named DEF Unmoved, FolderUnknown
  <2> QED  BY <2>1, <2>4, <2>5, <2>6, StartIsSound DEF IInv
<1>7. ASSUME NEW v \in Versions \ Big, NEW made \in {0, 1}, FileUnknown(p, v, made) PROVE IInv
  <2>1. post \in Posts /\ post.home = p /\ post.at = p /\ post.task = None /\ post.seq = 0
    <3>1. post = [place |-> p, home |-> p, at |-> p, status |-> "completed", task |-> None, seq |-> 0]
      BY <1>2, <1>7 DEF FileUnknown, NewPost
    <3> QED  BY <1>2, <3>1 DEF Posts, Maybe
  <2>2. where \in [Places -> Maybe(Places)] /\ moving = NoMove /\ where[p] = p
    BY <1>2, <1>7 DEF FileUnknown, InPlace, Maybe
  <2>3. Upload(v) \in OpIds /\ Version(v) \in OpIds /\ Upload(v).kind = "upload"  BY InOps, Named
  <2>4. folders = {Place(p), Home(p), Version(v)} /\ folders \subseteq Created
    BY <1>2, <1>7 DEF FileUnknown, Created
  <2>5. Upload(v) \notin folders  BY <2>3, <2>4, EffectKinds
  <2>6. /\ ops \in [OpIds -> Statuses] /\ times \in [OpIds -> Nat]
        /\ \A o \in OpIds : /\ ops[o] = IF o = Upload(v) THEN "uncertain" ELSE "none"
                            /\ times[o] = IF o \in folders THEN 1 ELSE IF o = Upload(v) THEN made ELSE 0
    BY <1>7, <2>3 DEF FileUnknown, Statuses
  <2>7. /\ items \in [Versions -> Items]
        /\ \A w \in Versions : items[w].folder <=> w = v
        /\ \A w \in Versions : ~items[w].file /\ items[w].status # "completed"
    <3>1. items = [NoItems EXCEPT ![v] = [status |-> "uncertain", folder |-> TRUE, file |-> FALSE]]
      BY <1>7 DEF FileUnknown
    <3>2. items \in [Versions -> Items]  BY <3>1 DEF Items
    <3>3. items[v].folder /\ ~items[v].file /\ items[v].status = "uncertain"  BY <3>1
    <3>4. \A w \in Versions \ {v} : items[w] = NoItems[w]  BY <3>1
    <3> QED  BY <3>2, <3>3, <3>4
  <2>8. \A w \in Versions : Version(w) \in folders <=> w = v  BY <2>4, Named
  <2>9. Shapes  BY <1>3, <2>1, <2>2, <2>4, <2>6, <2>7 DEF Shapes
  <2>10. Start  BY <1>3, <2>3, <2>5, <2>6, <2>7, <2>8, <2>9 DEF Start
  <2>11. \A o \in OpIds : o.kind = "move" => ops[o] = "none"  BY <2>3, <2>6
  <2>12. Unmoved  BY <1>2, <2>1, <2>2, <2>3, <2>6, <2>11 DEF Unmoved
  <2>13. Located
    <3>1. \A o \in MovesFrom(post.seq) : ops[o] = "none"  BY <2>11, Named DEF MovesFrom
    <3> QED  BY <2>1, <2>2, <3>1 DEF Located, Told, Unsent
  <2> QED  BY <2>9, <2>10, <2>12, <2>13, StartIsSound DEF IInv
<1>8. CASE TaskUnderWay(p, q)
  <2> DEFINE o == Move(p, q, 0)
  <2>1. o.kind = "move" /\ o.y = q /\ o.n = 0 /\ o \in OpIds /\ o # None  BY <1>4, Named
  <2>2. post \in Posts /\ post.home = p /\ post.at = p /\ post.task = o /\ post.seq = 0
    <3>1. post = [place |-> q, home |-> p, at |-> p, status |-> "pending", task |-> o, seq |-> 0]
      BY <1>2, <1>8 DEF TaskUnderWay, NewPost
    <3> QED  BY <1>2, <2>1, <3>1 DEF Posts, Maybe
  <2>3. /\ where \in [Places -> Maybe(Places)] /\ where[p] = p
        /\ moving = [op |-> o, state |-> "working"] /\ moving \in Movings
    BY <1>2, <1>8, <2>1 DEF TaskUnderWay, InPlace, Maybe, Movings
  <2>4. folders = {Place(p), Home(p), Place(q)} /\ folders \subseteq Created
    BY <1>2, <1>8 DEF TaskUnderWay, Created
  <2>5. /\ ops \in [OpIds -> Statuses] /\ times \in [OpIds -> Nat]
        /\ \A m \in OpIds : /\ ops[m] = IF m = o THEN "task" ELSE "none"
                            /\ times[m] = IF m \in folders THEN 1 ELSE 0
    BY <1>8, <2>1 DEF TaskUnderWay, Statuses
  <2>6. items = NoItems /\ \A v \in Versions : Version(v) \notin folders
    BY <1>8, <2>4, Named DEF TaskUnderWay
  <2> HIDE DEF o
  <2>7. Shapes  BY <1>3, <2>2, <2>3, <2>4, <2>5, <2>6 DEF Shapes
  <2>8. Start  BY <1>3, <2>1, <2>5, <2>6, <2>7 DEF Start
  <2>9. Unmoved  BY <1>2, <2>1, <2>2, <2>3, <2>5 DEF Unmoved
  <2>10. Located
    <3>1. o \in MovesFrom(post.seq)  BY <1>1, <2>1, <2>2 DEF MovesFrom, o
    <3>2. \A m \in MovesFrom(post.seq) : m # o => ops[m] = "none"  BY <2>5 DEF MovesFrom
    <3>3. OpenMove  BY <2>1, <2>5, <3>1 DEF OpenMove
    <3>4. Told(o)  BY <2>1, <2>2, <2>3, <2>5 DEF Told, Unsent
    <3>5. \A m \in MovesFrom(post.seq) : Told(m)  BY <3>2, <3>4 DEF Told, Unsent
    <3> QED  BY <2>1, <2>2, <2>3, <2>5, <3>1, <3>3, <3>5 DEF Located
  <2> QED  BY <2>7, <2>8, <2>9, <2>10, StartIsSound DEF IInv
<1> QED  BY <1>1, <1>5, <1>6, <1>7, <1>8

LEMMA StepKeeps == IInv /\ [Next]_vars => IInv'
<1> SUFFICES ASSUME IInv, [Next]_vars PROVE IInv'
  OBVIOUS
<1>1. CASE UNCHANGED vars
  BY <1>1 DEF vars, IInv, Shapes, Flight, Honest, Taken, OneUpload, Unmoved, Located, OpenMove,
              MovesFrom, Forked, Told
<1> QED
  BY <1>1, QueueKeeps, DispatchKeeps, IntendKeeps, HappenKeeps, TaskWorksKeeps, AnswerKeeps, TakeKeeps,
     PostDoneKeeps, ItemDoneKeeps, ExpireKeeps, TaskCheckKeeps, CrashKeeps, ResolveKeeps DEF Next

\* The invariant all the rest follows from.
THEOREM Invariance == Spec => []IInv
BY InitHolds, StepKeeps, PTL DEF Spec

--------------------------------------------------------------------------------
(* What a reader wants to know. *)

\* The record, the dispatch and the drive stay of their types.
THEOREM TypeCorrect == Spec => []Shapes
<1>1. IInv => Shapes  BY DEF IInv
<1> QED  BY <1>1, Invariance, PTL

\* A version on record as completed has its folder and its file on the drive,
\* exactly once each; no version ever has two files there; and the post's folder
\* is where the record has it whenever no move from there is on record.
THEOREM TrueToTheDrive == Spec => []MirrorTruth
<1>1. ASSUME IInv PROVE MirrorTruth
  <2> USE Shaped
  <2>1. ASSUME NEW v \in Versions, items[v].status = "completed"
        PROVE  times[Version(v)] = 1 /\ \E o \in Files(v) : times[o] = 1
    <3>1. Version(v) \in folders /\ \E o \in Files(v) : ops[o] = "completed"
      BY <1>1, <2>1 DEF IInv, Taken
    <3>2. \A o \in Effects : ops[o] = "completed" \/ o \in folders => times[o] = 1
      BY <1>1 DEF IInv, Honest
    <3>3. Version(v) \in Effects  BY <1>1, <3>1 DEF Effects
    <3> QED  BY <3>1, <3>2, <3>3, FilesOf
  <2>2. ASSUME NEW v \in Versions PROVE Cardinality({o \in Files(v) : times[o] > 0}) <= 1
    <3> DEFINE there == {o \in Files(v) : times[o] > 0}
    <3>1. PICK f : there \subseteq {f}
      <4>1. CASE v \notin Big  BY <4>1, FilesOf
      <4>2. CASE v \in Big
        <5>1. \A o \in there : o = Finish(v, uploads[v])
          <6> TAKE o \in there
          <6>1. PICK u \in 1 .. MaxUploads : o = Finish(v, u)  BY <4>2, FilesOf
          <6>2. o \in Effects /\ times[o] > 0  BY FilesOf
          <6>3. ops[o] \notin Unsent
            <7>1. o \in OpIds /\ o.kind = "upload_finish"  BY <4>2, <6>1, InOps, Named
            <7>2. o \notin folders  BY <1>1, <7>1, EffectKinds
            <7> QED  BY <1>1, <6>2, <7>2 DEF IInv, Honest
          <6> QED  BY <1>1, <4>2, <6>1, <6>3 DEF IInv, OneUpload
        <5> QED  BY <5>1
      <4> QED  BY <4>1, <4>2
    <3>2. IsFiniteSet({f}) /\ Cardinality({f}) = 1  BY FS_Singleton
    <3>3. Cardinality(there) <= Cardinality({f})  BY <3>1, <3>2, FS_Subset
    <3> QED  BY <3>2, <3>3
  <2>3. post.home # None /\ ~OpenMove /\ ~Forked => where[post.home] = post.at
    BY <1>1 DEF IInv, Located
  <2> QED  BY <2>1, <2>2, <2>3 DEF MirrorTruth
<1> QED  BY <1>1, Invariance, PTL
--------------------------------------------------------------------------------
(* The refinement: the record of intents is one of OnceOnly's.                 *)

\* A request goes out: what it creates was not there, as far as is known.
LEMMA RecordSays ==
    ASSUME IInv, NEW o \in Effects
    PROVE  /\ o \in OpIds /\ Recorded[o] = Said(o) /\ Done[o] = times[o]
           /\ Said(o) \in Intents!States
           /\ Said(o) = "sent" <=> ops[o] = "in_flight"
           /\ Said(o) = "unknown" <=> ops[o] = "uncertain"
           /\ Said(o) = "known" <=> ops[o] = "completed" \/ (ops[o] = "none" /\ o \in folders)
           /\ Said(o) = "none" <=> ops[o] \in Unsent /\ o \notin folders
           /\ Said(o) = "known" => times[o] = 1
           /\ Said(o) = "none" => times[o] = 0
<1> USE Shaped
<1>1. o \in OpIds /\ ops[o] \in Statuses  BY EffectKinds
<1>2. ops[o] # "task" /\ (o \in folders => ops[o] \in {"none", "completed"})
  BY DEF IInv, Honest
<1>3. CASE ops[o] \in Unsent
  BY <1>1, <1>2, <1>3 DEF Said, Recorded, Done, Intents!States, Unsent, IInv, Honest
<1>4. CASE ops[o] \notin Unsent
  BY <1>1, <1>2, <1>4 DEF Said, Recorded, Done, Intents!States, Unsent, IInv, Honest, Statuses
<1> QED  BY <1>3, <1>4

\* Where nothing is said anew and nothing is done, OnceOnly stands still.
LEMMA SaidSame ==
    ASSUME \A o \in Effects : Said(o)' = Said(o) /\ times'[o] = times[o]
    PROVE  UNCHANGED <<Recorded, Done>>
BY DEF Recorded, Done

\* What may be said of the one operation a step is about.
Turns(from, to) ==
    \/ from = to
    \/ from = "none" /\ to = "sent"
    \/ from = "sent" /\ to \in {"none", "known", "unknown"}
    \/ from = "unknown" /\ to \in {"none", "known"}

LEMMA OneSaid ==
    ASSUME IInv, IInv', NEW n \in OpIds, \A o \in OpIds \ {n} : ops'[o] = ops[o],
           UNCHANGED <<folders, times>>, n \in Effects => Turns(Said(n), Said(n)')
    PROVE  [Intents!Next]_<<Recorded, Done>>
<1>1. \A o \in Effects \ {n} : Said(o)' = Said(o)  BY EffectKinds DEF Said
<1>2. \A o \in Effects : Said(o) \in Intents!States
  BY RecordSays
<1>3. CASE n \in Effects /\ Said(n)' # Said(n)
  <2>1. Said(n)' \in Intents!States  BY <1>3 DEF Turns, Intents!States
  <2>2. Intents!Say(n, Said(n)')
    <3>1. /\ Recorded' = [o \in Effects |-> Said(o)'] /\ Recorded'[n] = Said(n)'
          /\ \A o \in Effects \ {n} : Recorded'[o] = Recorded[o]
      BY <1>1, <1>3 DEF Recorded
    <3>2. Recorded' \in [Effects -> Intents!States]
      <4>1. \A o \in Effects : Said(o)' \in Intents!States  BY <1>1, <1>2, <2>1
      <4> QED  BY <3>1, <4>1
    <3>3. Done' = Done  BY DEF Done
    <3> QED  BY <3>1, <3>2, <3>3 DEF Intents!Say
  <2>3. Recorded[n] = Said(n) /\ Done[n] = times[n]  BY <1>3, RecordSays
  <2>4. Intents!Honest(n, Said(n)')
    <3>1. Said(n)' = "known" => times[n] = 1
      BY <1>3 DEF Said, IInv, Honest
    <3>2. Said(n)' = "none" => times[n] = 0
      BY <1>3 DEF Said, IInv, Honest, Unsent
    <3> QED  BY <2>3, <3>1, <3>2 DEF Intents!Honest
  <2>5. CASE Said(n) = "none" /\ Said(n)' = "sent"
    BY <1>3, <2>2, <2>3, <2>5 DEF Intents!Next, Intents!Send
  <2>6. CASE Said(n) = "sent" /\ Said(n)' \in {"none", "known", "unknown"}
    BY <1>3, <2>2, <2>3, <2>4, <2>6 DEF Intents!Next, Intents!Learn
  <2>7. CASE Said(n) = "unknown" /\ Said(n)' \in {"none", "known"}
    BY <1>3, <2>2, <2>3, <2>4, <2>7 DEF Intents!Next, Intents!Settle
  <2> QED  BY <1>3, <2>5, <2>6, <2>7 DEF Turns
<1>4. CASE n \in Effects => Said(n)' = Said(n)
  <2>1. \A o \in Effects : Said(o)' = Said(o) /\ times'[o] = times[o]  BY <1>1, <1>4
  <2> QED  BY <2>1, SaidSame
<1> QED  BY <1>3, <1>4

LEMMA InitImplements == IInv /\ Init => Intents!Init
<1> SUFFICES ASSUME IInv, Init PROVE Intents!Init
  OBVIOUS
<1>1. \A o \in OpIds : ops[o] # "in_flight"  BY DEF IInv, Flight, Init, Idle
<1>2. \A o \in Effects : /\ Said(o) \in {"none", "unknown", "known"} /\ times[o] \in {0, 1}
                         /\ Said(o) = "known" => times[o] = 1
                         /\ Said(o) = "none" => times[o] = 0
  <2> TAKE o \in Effects
  <2>1. times[o] \in {0, 1}  BY DEF IInv, Honest
  <2> QED  BY <1>1, <2>1, RecordSays DEF Intents!States
<1>3. Recorded \in [Effects -> {"none", "unknown", "known"}] /\ Done \in [Effects -> {0, 1}]
  BY <1>2 DEF Recorded, Done
<1>4. \A o \in Effects : Intents!Honest(o, Recorded[o])
  BY <1>2 DEF Intents!Honest, Recorded, Done
<1> QED  BY <1>3, <1>4 DEF Intents!Init

LEMMA StepImplements == IInv /\ IInv' /\ [Next]_vars => [Intents!Next]_<<Recorded, Done>>
<1> SUFFICES ASSUME IInv, IInv', [Next]_vars PROVE [Intents!Next]_<<Recorded, Done>>
  OBVIOUS
<1> USE Shaped
\* Steps that touch neither the record of intents nor the drive's count.
<1>1. ASSUME UNCHANGED <<ops, folders, times>> PROVE UNCHANGED <<Recorded, Done>>
  BY <1>1 DEF Recorded, Done, Said
<1>2. CASE UNCHANGED vars \/ Queue \/ Dispatch \/ TaskWorks \/ PostDone \/ ItemDone
  BY <1>1, <1>2 DEF vars, Queue, Dispatch, TaskWorks, PostDone, ItemDone, record, drive
<1>3. CASE Intend
  <2>1. CASE UNCHANGED ops  BY <1>1, <1>3, <2>1 DEF Intend, drive
  <2>2. CASE ops' # ops
    <3> PICK n : n = Needs  OBVIOUS
    <3>1. /\ ops[n] \in {"none", "pending"} /\ ops' = [ops EXCEPT ![n] = "in_flight"]
          /\ d'.phase = "sent" /\ d'.op = n /\ UNCHANGED <<folders, times>>
      BY <1>3, <2>2 DEF Intend, drive, Dispatches
    <3>2. n \in OpIds \ folders  BY <3>1 DEF IInv, Flight
    <3>3. n \in Effects => Said(n) = "none"  BY <3>1, <3>2 DEF Said
    <3>4. Said(n)' = "sent"  BY <3>1, <3>2 DEF Said
    <3> QED  BY <3>1, <3>2, <3>3, <3>4, OneSaid DEF Turns
  <2> QED  BY <2>1, <2>2
<1>4. CASE Happen
  <2> PICK n : n = d.op  OBVIOUS
  <2>1. n \in OpIds /\ d.phase = "sent" /\ ops[n] = "in_flight" /\ UNCHANGED <<ops, folders>>
    BY <1>4 DEF Happen, record, IInv, Flight
  <2>2. CASE n.kind = "move"
    BY <1>1, <1>4, <2>1, <2>2 DEF Happen
  <2>3. CASE n.kind # "move"
    <3>1. times' = [times EXCEPT ![n] = @ + 1]  BY <1>4, <2>3 DEF Happen
    <3>2. CASE n \notin Effects
      <4>1. \A o \in Effects : Said(o)' = Said(o) /\ times'[o] = times[o]
        BY <2>1, <3>1, <3>2, EffectKinds DEF Said
      <4> QED  BY <4>1, SaidSame
    <3>3. CASE n \in Effects
      <4>1. times[n] = 0  BY <2>1, <3>3 DEF IInv, Honest
      <4>2. Recorded[n] = "sent" /\ Done[n] = 0  BY <2>1, <3>3, <4>1, RecordSays
      <4>3. Recorded' = Recorded  BY <2>1 DEF Recorded, Said
      <4>4. Done' = [Done EXCEPT ![n] = 1]  
        <5>1. times'[n] = 1 /\ \A o \in OpIds \ {n} : times'[o] = times[o]  BY <2>1, <3>1, <4>1
        <5>2. \A o \in Effects : o # n => times'[o] = times[o]  BY <5>1, EffectKinds
        <5> QED  BY <3>3, <5>1, <5>2 DEF Done
      <4> QED  BY <3>3, <4>2, <4>3, <4>4 DEF Intents!Happen, Intents!Next
    <3> QED  BY <3>2, <3>3
  <2> QED  BY <2>2, <2>3
<1>5. CASE Answer
  <2> PICK n : n = d.op  OBVIOUS
  <2>1. n \in OpIds \ folders /\ ops[n] = "in_flight" /\ UNCHANGED <<folders, times>>
    BY <1>5 DEF Answer, drive, IInv, Flight
  <2>2. PICK s \in {"task", "completed", "blocked", "pending", "uncertain"} :
            ops' = [ops EXCEPT ![n] = s] /\ (n \in Effects => s # "task")
    <3>1. CASE d.phase = "done" /\ Known(n)
      <4>1. PICK s \in {"task", "completed"} : ops' = [ops EXCEPT ![n] = s]  BY <3>1 DEF Known
      <4>2. n \in Effects => ops'[n] # "task"  BY DEF IInv, Honest
      <4> QED  BY <2>1, <4>1, <4>2
    <3>2. CASE \E s \in {"blocked", "pending", "uncertain"} : ops' = [ops EXCEPT ![n] = s]
      BY <3>2
    <3> QED  BY <1>5, <3>1, <3>2 DEF Answer
  <2>3. Said(n) = "sent" /\ (n \in Effects => Said(n)' \in {"none", "known", "unknown"})
    BY <2>1, <2>2 DEF Said
  <2> QED  BY <2>1, <2>2, <2>3, OneSaid DEF Turns
<1>6. CASE Take
  <2>1. UNCHANGED <<ops, times>>  BY <1>6 DEF Take, drive
  <2>2. folders' = folders \/ \E o : ops[o] \in {"completed", "task"} /\ folders' = folders \cup {o}
    BY <1>6 DEF Take
  <2>3. \A o \in Effects : Said(o)' = Said(o)
    <3> TAKE o \in Effects
    <3>1. ops[o] # "task"  BY DEF IInv, Honest
    <3> QED  BY <2>1, <2>2, <3>1 DEF Said
  <2> QED  BY <2>1, <2>3, SaidSame
<1>7. CASE Expire
  <2> PICK n : n = Prepare(d.item)  OBVIOUS
  <2>1. n \in OpIds \ Effects /\ ops' = [ops EXCEPT ![n] = "blocked"] /\ UNCHANGED <<folders, times>>
    BY <1>7, InOps, Named, EffectKinds DEF Expire, drive
  <2> QED  BY <2>1, OneSaid
<1>8. CASE TaskCheck
  <2> PICK n : n = post.task  OBVIOUS
  <2>1. n \in OpIds \ Effects
    BY <1>8, EffectKinds DEF TaskCheck, IInv, Unmoved, Posts, Maybe
  <2>2. UNCHANGED <<folders, times>> /\ (ops' = ops \/ ops' = [ops EXCEPT ![n] = "blocked"])
    BY <1>8 DEF TaskCheck, drive
  <2> QED  BY <2>1, <2>2, OneSaid
<1>9. CASE Crash
  <2>1. ops' = Loaded /\ UNCHANGED <<folders, times>>  BY <1>9 DEF Crash, drive
  <2>2. CASE d.phase = "none"
    <3>1. ops' = ops  BY <2>1, <2>2 DEF Loaded, IInv, Flight
    <3> QED  BY <1>1, <2>1, <3>1
  <2>3. CASE d.phase # "none"
    <3> PICK n : n = d.op  OBVIOUS
    <3>1. n \in OpIds /\ ops[n] = "in_flight" /\ ops' = [ops EXCEPT ![n] = "uncertain"]
      BY <2>1, <2>3 DEF Loaded, IInv, Flight
    <3>2. Said(n) = "sent" /\ Said(n)' = "unknown"  BY <3>1 DEF Said
    <3> QED  BY <2>1, <3>1, <3>2, OneSaid DEF Turns
  <2> QED  BY <2>2, <2>3
<1>10. CASE Resolve
  <2>1. PICK n \in OpIds :
            /\ ops[n] \in {"uncertain", "blocked"}
            /\ IF TookPlace(n) /\ n.kind \notin {"upload_prepare", "upload_part"}
               THEN ops' = [ops EXCEPT ![n] = "completed"]
               ELSE ops' = [ops EXCEPT ![n] = "pending"]
    BY <1>10 DEF Resolve
  <2>2. UNCHANGED <<folders, times>>  BY <1>10 DEF Resolve, drive
  <2>3. \A o \in OpIds \ {n} : ops'[o] = ops[o]  BY <2>1
  <2>4. n \in Effects => Turns(Said(n), Said(n)')
    <3> SUFFICES ASSUME n \in Effects PROVE Turns(Said(n), Said(n)')
      OBVIOUS
    <3>1. n \notin folders  BY <2>1 DEF IInv, Honest
    <3>2. CASE ops[n] = "uncertain"
      <4>1. Said(n) = "unknown"  BY <3>2 DEF Said
      <4>2. Said(n)' \in {"none", "known"}  BY <2>1, <2>2, <3>1 DEF Said
      <4> QED  BY <4>1, <4>2 DEF Turns
    <3>3. CASE ops[n] = "blocked"
      <4>1. times[n] = 0 /\ n.kind # "move"
        BY <3>1, <3>3, EffectKinds DEF IInv, Honest, Unsent
      <4>2. ops' = [ops EXCEPT ![n] = "pending"]  BY <2>1, <4>1 DEF TookPlace
      <4> QED  BY <2>2, <3>1, <3>3, <4>2 DEF Said, Turns
    <3> QED  BY <2>1, <3>2, <3>3
  <2> QED  BY <2>2, <2>3, <2>4, OneSaid
<1> QED
  BY <1>2, <1>3, <1>4, <1>5, <1>6, <1>7, <1>8, <1>9, <1>10 DEF Next

\* Every start and every step of the record of intents, with what the drive does,
\* is one of OnceOnly: nothing is created twice, an answer that is lost leaves an
\* intent unknown, and only a person who looks at the drive settles it.
THEOREM MirrorIsOnceOnly == Spec => Intents!Spec /\ CreatedOnce
<1>1. Init => Intents!Init  BY InitHolds, InitImplements
<1>2. IInv /\ IInv' /\ [Next]_vars =>
          [UNCHANGED <<ops, folders, times>> \/ Intents!Next \/ UNCHANGED <<Recorded, Done>>]_vars
  BY StepImplements
<1> QED  BY <1>1, <1>2, Invariance, StepImplements, PTL DEF Spec, CreatedOnce, Intents!Spec
================================================================================
