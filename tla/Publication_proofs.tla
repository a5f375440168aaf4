--------------------------- MODULE Publication_proofs ---------------------------
(* For any number of posts, workers, attempts and rows: the publication       *)
(* protocol keeps its types, never has two cards of one post in the calendar, *)
(* never forgets a card and never invents a receipt; and what it submits was  *)
(* confirmed in exactly that version and stays on file.                       *)
(*                                                                            *)
(* What must not happen - a click while another card of the post is alive -   *)
(* depends on what the journal said when the operation took the lock.  The    *)
(* inductive invariant therefore relates three things: what the journal says  *)
(* of a live card (Covered), what its two scans can say together (Sided), and *)
(* what the holder of the lock may still rely on (Entitled).  The second part *)
(* (Evid) is about the content: which snapshots an unlock can still void; the *)
(* third (Verdicts) about what those read who settle what an operation left.  *)
EXTENDS Publication, SequenceTheorems, TLAPS

--------------------------------------------------------------------------------
\* The inductive invariant.

\* A row names an opened attempt, about the same post.
Refs ==
    \A i \in DOMAIN journal :
        /\ journal[i].att \in DOMAIN attempts
        /\ journal[i].post = attempts[journal[i].att].post

\* Steps of an operation that has an attempt, and steps that may still append for it.
WithAttempt == Steps \ {"idle", "decide", "execute", "raised"}

MayAppend == {"decide", "execute", "prepared", "checked", "armed", "clicked",
              "verify", "recheck"}

\* An operation carries a job; before its attempt is opened it has none.
JobShape ==
    \A w \in Workers :
        /\ pc[w] # "idle" => job[w] \in Jobs
        /\ pc[w] \in {"decide", "execute"} => job[w].att = 0
        /\ pc[w] \in WithAttempt =>
              /\ job[w].att \in DOMAIN attempts
              /\ attempts[job[w].att].post = job[w].post

\* Row i keeps attempt a from being followed by another one of its post.
Covers(a, i) ==
    LET p == attempts[a].post IN
    /\ journal[i].att = a
    /\ \/ CountsAsScheduled(journal, p, i)
       \/ /\ Decisive(journal, p, i)
          /\ \/ journal[i].status \in Unresolved
             \/ journal[i].status = "prepared" /\ attempts[a].byhand

Covered ==
    \A a \in DOMAIN attempts : Live(a) => \E i \in DOMAIN journal : Covers(a, i)

\* While a scheduled row counts, the newest row of the post is of the same attempt,
\* and so is every other scheduled row that counts.
Sided ==
    \A i, k \in DOMAIN journal :
        LET p == journal[i].post IN
        (/\ CountsAsScheduled(journal, p, i)
         /\ Decisive(journal, p, k) \/ CountsAsScheduled(journal, p, k))
        => journal[k].att = journal[i].att

\* The only card or schedule of post p that anybody may meet is that of attempt a.
Only(p, a) ==
    /\ \A b \in DOMAIN attempts : Live(b) /\ attempts[b].post = p => b = a
    /\ \A i \in DOMAIN journal : CountsAsScheduled(journal, p, i) => journal[i].att = a

\* What the holder of the lock may rely on: nobody else is in the way; from before the
\* click until its result is written the journal announces it; nothing was submitted
\* for the attempt before the click; a deletion is registered for a receipt.
Sole(w) == pc[w] \in MayAppend => Only(job[w].post, job[w].att)

Intent(w) ==
    pc[w] \in {"armed", "clicked", "verify", "recheck"} =>
        \E i \in DOMAIN journal :
            /\ Decisive(journal, job[w].post, i)
            /\ journal[i].att = job[w].att
            /\ journal[i].status \in Unresolved

Untouched(w) ==
    pc[w] \in {"prepared", "checked", "armed"} => attempts[job[w].att].card = "none"

Receipted(w) ==
    pc[w] = "unread" =>
        \E i \in DOMAIN journal :
            journal[i].att = job[w].att /\ journal[i].status = "scheduled"

Entitled(w) == Sole(w) /\ Intent(w) /\ Untouched(w) /\ Receipted(w)

\* What the types depend on, and what the cards depend on.
Shape == TypeOK /\ LockExcludes /\ Refs /\ JobShape

Sound == Covered /\ Sided /\ ReceiptsTruthful

Safe == Sound /\ \A w \in Workers : Entitled(w)

IInv == Shape /\ Safe

--------------------------------------------------------------------------------
\* Appending to the journal.

\* An appended row comes after all others, which stay where they are.
LEMMA Appended ==
    ASSUME NEW S, NEW j \in Seq(S), NEW r \in S
    PROVE  /\ Append(j, r) \in Seq(S)
           /\ Len(j) \in Nat
           /\ DOMAIN j = 1 .. Len(j)
           /\ DOMAIN Append(j, r) = 1 .. (Len(j) + 1)
           /\ \A i \in 1 .. Len(j) : Append(j, r)[i] = j[i]
           /\ Append(j, r)[Len(j) + 1] = r
  OBVIOUS

\* The scan stops at one row only.
LEMMA DecisiveUnique ==
    ASSUME NEW j \in Seq(Rows), NEW p, NEW i, NEW k,
           Decisive(j, p, i), Decisive(j, p, k)
    PROVE  i = k
<1>1. DOMAIN j = 1 .. Len(j) /\ Len(j) \in Nat
  OBVIOUS
<1> QED BY <1>1 DEF Decisive

\* A row with news about a post is the one the scan stops at from now on.
LEMMA DecisiveNews ==
    ASSUME NEW j \in Seq(Rows), NEW r \in Rows, r.status # "cancelled_remote",
           NEW i
    PROVE  Decisive(Append(j, r), r.post, i) <=> i = Len(j) + 1
<1> DEFINE jj == Append(j, r)
<1>1. /\ Len(j) \in Nat
      /\ DOMAIN jj = 1 .. (Len(j) + 1)
      /\ jj[Len(j) + 1] = r
  BY Appended
<1>2. Decisive(jj, r.post, Len(j) + 1)
  BY <1>1 DEF Decisive
<1>3. jj \in Seq(Rows)
  BY Appended
<1> HIDE DEF jj
<1>4. Decisive(jj, r.post, i) => i = Len(j) + 1
  BY <1>2, <1>3, DecisiveUnique
<1> QED BY <1>2, <1>4 DEF jj

\* A row about another post, or about a deletion, leaves the scan where it stops.
LEMMA DecisiveKept ==
    ASSUME NEW j \in Seq(Rows), NEW r \in Rows, NEW p, NEW i,
           r.status = "cancelled_remote" \/ r.post # p
    PROVE  Decisive(Append(j, r), p, i) <=> Decisive(j, p, i)
<1> DEFINE jj == Append(j, r)
<1>1. /\ Len(j) \in Nat
      /\ DOMAIN j = 1 .. Len(j)
      /\ DOMAIN jj = 1 .. (Len(j) + 1)
      /\ \A k \in 1 .. Len(j) : jj[k] = j[k]
      /\ jj[Len(j) + 1] = r
  BY Appended
<1> HIDE DEF jj
<1>2. Decisive(jj, p, i) <=> Decisive(j, p, i)
  BY <1>1 DEF Decisive
<1> QED BY <1>2 DEF jj

\* Only a deletion registered for its attempt makes a scheduled row stop counting.
LEMMA CountsAppend ==
    ASSUME NEW j \in Seq(Rows), NEW r \in Rows, NEW p, NEW i
    PROVE  LET jj == Append(j, r) IN
           CountsAsScheduled(jj, p, i) <=>
               \/ /\ CountsAsScheduled(j, p, i)
                  /\ r.att = j[i].att => r.status # "cancelled_remote"
               \/ i = Len(j) + 1 /\ r.post = p /\ r.status = "scheduled"
<1> DEFINE jj == Append(j, r)
<1>1. /\ Len(j) \in Nat
      /\ DOMAIN j = 1 .. Len(j)
      /\ DOMAIN jj = 1 .. (Len(j) + 1)
      /\ \A k \in 1 .. Len(j) : jj[k] = j[k]
      /\ jj[Len(j) + 1] = r
  BY Appended
<1> HIDE DEF jj
<1>2. ASSUME i \in 1 .. Len(j)
      PROVE  CountsAsScheduled(jj, p, i) <=>
                 /\ CountsAsScheduled(j, p, i)
                 /\ r.att = j[i].att => r.status # "cancelled_remote"
  BY <1>1, <1>2 DEF CountsAsScheduled
<1>3. ASSUME i = Len(j) + 1
      PROVE  CountsAsScheduled(jj, p, i) <=> r.post = p /\ r.status = "scheduled"
  BY <1>1, <1>3 DEF CountsAsScheduled
<1>4. i \notin 1 .. (Len(j) + 1) => ~CountsAsScheduled(jj, p, i) /\ ~CountsAsScheduled(j, p, i)
  BY <1>1 DEF CountsAsScheduled
<1>5. i = Len(j) + 1 => ~CountsAsScheduled(j, p, i)
  BY <1>1 DEF CountsAsScheduled
<1>6. i \in 1 .. Len(j) \/ i = Len(j) + 1 \/ i \notin 1 .. (Len(j) + 1)
  BY <1>1
<1>7. CountsAsScheduled(jj, p, i) <=>
               \/ /\ CountsAsScheduled(j, p, i)
                  /\ r.att = j[i].att => r.status # "cancelled_remote"
               \/ i = Len(j) + 1 /\ r.post = p /\ r.status = "scheduled"
  BY <1>1, <1>2, <1>3, <1>4, <1>5, <1>6
<1> QED BY <1>7 DEF jj

--------------------------------------------------------------------------------
\* Types of the parts.

\* Changing one field of one element keeps a sequence's type.
LEMMA SeqUpdate ==
    ASSUME NEW S, NEW s \in Seq(S), NEW t,
           DOMAIN t = DOMAIN s, t = [i \in DOMAIN t |-> t[i]],
           \A i \in DOMAIN s : t[i] \in S
    PROVE  t \in Seq(S)
  OBVIOUS

\* The decision table yields statuses.
LEMMA RecordedType ==
    ASSUME NEW previous \in ReviewStatuses, NEW action \in ReviewActions
    PROVE  Recorded(previous, action) \in ReviewStatuses
  BY DEF Recorded, ReviewStatuses, ReviewActions

LEMMA DisplayType ==
    ASSUME TypeOK, NEW p \in Posts, NEW receipt
    PROVE  Display(p, receipt) \in ReviewStatuses
<1>1. review[p].status \in ReviewStatuses
  BY DEF TypeOK, Reviews
<1> QED BY <1>1 DEF Display, Shown, ReviewStatuses

LEMMA ChangeType ==
    ASSUME TypeOK, NEW p \in Posts, NEW action \in ReviewActions, NEW receipt,
           NEW snap \in Nat, Change(p, action, receipt, snap)
    PROVE  review' \in [Posts -> Reviews]
<1> DEFINE previous == Display(p, receipt)
<1>1. Recorded(previous, action) \in ReviewStatuses
  BY DisplayType, RecordedType
<1> HIDE DEF previous
<1>2. review \in [Posts -> Reviews] /\ source[p] \in Nat
  BY DEF TypeOK
<1>3. review[p].rev \in Nat /\ review[p].snap \in Nat
  BY <1>2 DEF Reviews
<1>4. review' = [review EXCEPT ![p] =
          [status |-> Recorded(previous, action),
           action |-> action,
           snap   |-> IF action = "unlocked" THEN 0
                      ELSE IF snap # 0 THEN snap ELSE review[p].snap,
           src    |-> source[p],
           rev    |-> review[p].rev + 1]]
  BY DEF Change, previous
<1> QED BY <1>1, <1>2, <1>3, <1>4 DEF Reviews

LEMMA ProjectType ==
    ASSUME TypeOK, NEW a \in DOMAIN attempts, NEW s \in RowStatuses, ProjectOrFail(a, s)
    PROVE  review' \in [Posts -> Reviews] /\ projected' \subseteq (Nat \X RowStatuses)
<1>1. /\ review \in [Posts -> Reviews]
      /\ projected \subseteq (Nat \X RowStatuses)
      /\ attempts \in Seq(Attempts)
  BY DEF TypeOK
<1>2. a \in Nat /\ attempts[a] \in Attempts
  BY <1>1
<1>3. attempts[a].post \in Posts /\ attempts[a].snap \in Nat
  BY <1>2 DEF Attempts
<1>4. "scheduled" \in ReviewActions /\ "submit_failed" \in ReviewActions /\ 0 \in Nat
  BY DEF ReviewActions
<1>5. CASE UNCHANGED <<review, projected>>
  BY <1>1, <1>5
<1>6. CASE ProjectReview(a, s) /\ ~UNCHANGED <<review, projected>>
  <2>1. projected' = projected \cup {<<a, s>>}
    BY <1>6 DEF ProjectReview
  <2>2. \/ Change(attempts[a].post, "scheduled", TRUE, attempts[a].snap)
        \/ Change(attempts[a].post, "submit_failed", FALSE, 0)
        \/ UNCHANGED review
    BY <1>6 DEF ProjectReview
  <2>3. review' \in [Posts -> Reviews]
    BY <2>2, <1>1, <1>3, <1>4, ChangeType
  <2> QED BY <2>1, <2>3, <1>1, <1>2
<1> QED BY <1>5, <1>6 DEF ProjectOrFail

LEMMA FreezeType ==
    ASSUME TypeOK, NEW p \in Posts, NEW bound \in BOOLEAN, Freeze(p, bound)
    PROVE  snaps' \in Seq(Snapshots) /\ Len(snaps) + 1 \in Nat
<1>1. snaps \in Seq(Snapshots) /\ content[p] \in Nat /\ source[p] \in Nat
  BY DEF TypeOK
<1> QED BY <1>1 DEF Freeze, Snapshots

LEMMA SnapshotUpdateType ==
    ASSUME TypeOK, NEW s,
           \/ snaps' = [snaps EXCEPT ![s].state = "discarded"]
           \/ snaps' = [snaps EXCEPT ![s].bound = TRUE]
    PROVE  snaps' \in Seq(Snapshots)
<1>1. snaps \in Seq(Snapshots)
  BY DEF TypeOK
<1>2. DOMAIN snaps' = DOMAIN snaps /\ snaps' = [i \in DOMAIN snaps' |-> snaps'[i]]
  BY <1>1
<1>3. ASSUME NEW i \in DOMAIN snaps PROVE snaps'[i] \in Snapshots
  <2>1. snaps[i] \in Snapshots
    BY <1>1, <1>3
  <2>2. \/ snaps'[i] = snaps[i]
        \/ snaps'[i] = [snaps[i] EXCEPT !.state = "discarded"]
        \/ snaps'[i] = [snaps[i] EXCEPT !.bound = TRUE]
    BY <1>1, <1>3
  <2> QED BY <2>1, <2>2 DEF Snapshots
<1> QED BY <1>1, <1>2, <1>3, SeqUpdate

\* A new row of an opened attempt.
LEMMA RowType ==
    ASSUME TypeOK, Refs, NEW a \in DOMAIN attempts, NEW status \in RowStatuses,
           NEW manual \in BOOLEAN
    PROVE  Row(a, attempts[a].post, attempts[a].desk, status, manual) \in Rows
<1>1. attempts \in Seq(Attempts)
  BY DEF TypeOK
<1>2. a \in Nat \ {0} /\ attempts[a] \in Attempts
  BY <1>1
<1> QED BY <1>2 DEF Row, Rows, Attempts

LEMMA AppendRowType ==
    ASSUME TypeOK, Refs, NEW a \in DOMAIN attempts, NEW status \in RowStatuses,
           NEW manual \in BOOLEAN, AppendRow(a, status, manual), UNCHANGED attempts
    PROVE  journal' \in Seq(Rows) /\ Refs'
<1> DEFINE r == Row(a, attempts[a].post, attempts[a].desk, status, manual)
<1>1. r \in Rows
  BY RowType
<1>2. journal \in Seq(Rows)
  BY DEF TypeOK
<1>3. journal' = Append(journal, r)
  BY DEF AppendRow
<1>4. r.att = a /\ r.post = attempts[a].post
  BY DEF Row
<1> HIDE DEF r
<1>5. /\ journal' \in Seq(Rows)
      /\ DOMAIN journal' = 1 .. (Len(journal) + 1)
      /\ DOMAIN journal = 1 .. Len(journal)
      /\ Len(journal) \in Nat
      /\ \A i \in 1 .. Len(journal) : journal'[i] = journal[i]
      /\ journal'[Len(journal) + 1] = r
  BY <1>1, <1>2, <1>3, Appended
<1>6. ASSUME NEW i \in DOMAIN journal'
      PROVE  journal'[i].att \in DOMAIN attempts /\ journal'[i].post = attempts[journal'[i].att].post
  <2>1. CASE i \in 1 .. Len(journal)
    BY <2>1, <1>5 DEF Refs
  <2>2. CASE i = Len(journal) + 1
    BY <2>2, <1>4, <1>5
  <2> QED BY <2>1, <2>2, <1>5
<1> QED BY <1>5, <1>6 DEF Refs

\* A card changes: the attempts keep their number, posts and types.
LEMMA CardType ==
    ASSUME TypeOK, Refs, NEW a \in DOMAIN attempts, NEW c \in CardStates,
           NEW byhand \in BOOLEAN,
           \/ attempts' = [attempts EXCEPT ![a].card = c]
           \/ attempts' = [attempts EXCEPT ![a].card = c, ![a].byhand = byhand]
    PROVE  /\ attempts' \in Seq(Attempts)
           /\ DOMAIN attempts' = DOMAIN attempts
           /\ \A b \in DOMAIN attempts : attempts'[b].post = attempts[b].post
           /\ \A b \in DOMAIN attempts : b # a => attempts'[b] = attempts[b]
           /\ attempts'[a].card = c
<1>1. attempts \in Seq(Attempts)
  BY DEF TypeOK
<1>2. DOMAIN attempts' = DOMAIN attempts /\ attempts' = [i \in DOMAIN attempts' |-> attempts'[i]]
  BY <1>1
<1>3. \A b \in DOMAIN attempts : b # a => attempts'[b] = attempts[b]
  BY <1>1
<1>4. attempts[a] \in Attempts
  BY <1>1
<1>5. \/ attempts'[a] = [attempts[a] EXCEPT !.card = c]
      \/ attempts'[a] = [attempts[a] EXCEPT !.card = c, !.byhand = byhand]
  BY <1>1
<1>6. attempts'[a] \in Attempts /\ attempts'[a].post = attempts[a].post /\ attempts'[a].card = c
  BY <1>4, <1>5 DEF Attempts
<1>7. \A i \in DOMAIN attempts : attempts'[i] \in Attempts
  BY <1>1, <1>3, <1>6
<1>8. attempts' \in Seq(Attempts)
  BY <1>1, <1>2, <1>7, SeqUpdate
<1> QED BY <1>2, <1>3, <1>6, <1>8

--------------------------------------------------------------------------------
\* Workers and the publish lock.

Running ==
    /\ lock \in Workers \cup {NoWorker}
    /\ pc \in [Workers -> Steps]
    /\ job \in [Workers -> Jobs \cup {NoJob}]

\* Attempts are only added; their posts stay.
AttemptsKept ==
    /\ DOMAIN attempts \subseteq DOMAIN attempts'
    /\ \A b \in DOMAIN attempts : attempts'[b].post = attempts[b].post

\* What a step needs of its job.
FitsStep(step, j, as) ==
    /\ step \in {"decide", "execute"} => j.att = 0
    /\ step \in WithAttempt => j.att \in DOMAIN as /\ as[j.att].post = j.post

LEMMA StayShape ==
    ASSUME Shape, AttemptsKept, UNCHANGED running
    PROVE  Running' /\ LockExcludes' /\ JobShape'
<1>1. Running /\ LockExcludes /\ JobShape
  BY DEF Shape, TypeOK, Running
<1> QED BY <1>1 DEF Running, LockExcludes, JobShape, AttemptsKept, running

LEMMA AcquireShape ==
    ASSUME Shape, AttemptsKept, NEW w \in Workers, NEW step \in Steps \ {"idle"},
           NEW j \in Jobs, FitsStep(step, j, attempts), Acquire(w, step, j)
    PROVE  Running' /\ LockExcludes' /\ JobShape'
<1>1. Running /\ LockExcludes /\ JobShape
  BY DEF Shape, TypeOK, Running
<1>2. \A v \in Workers : pc[v] = "idle"
  BY <1>1, WorkerAssumption DEF LockExcludes, Acquire
<1>3. \A v \in Workers : v # w => pc'[v] = "idle"
  BY <1>1, <1>2 DEF Acquire, Running
<1>4. lock' = w /\ pc'[w] = step /\ job'[w] = j
  BY <1>1 DEF Acquire, Running
<1>5. Running'
  BY <1>1 DEF Acquire, Running
<1>6. LockExcludes'
  BY <1>3, <1>4 DEF LockExcludes
<1>7. JobShape'
  BY <1>3, <1>4 DEF JobShape, FitsStep, AttemptsKept, WithAttempt
<1> QED BY <1>5, <1>6, <1>7

LEMMA ReleaseShape ==
    ASSUME Shape, NEW w \in Workers, pc[w] # "idle", Release(w)
    PROVE  Running' /\ LockExcludes' /\ JobShape' /\ \A v \in Workers : pc'[v] = "idle"
<1>1. Running /\ LockExcludes /\ JobShape
  BY DEF Shape, TypeOK, Running
<1>2. \A v \in Workers : v # w => pc[v] = "idle"
  BY <1>1 DEF LockExcludes
<1>3. \A v \in Workers : pc'[v] = "idle"
  BY <1>1, <1>2 DEF Release, Running
<1>4. Running'
  BY <1>1 DEF Release, Running, Steps
<1>5. LockExcludes'
  BY <1>3, WorkerAssumption DEF LockExcludes, Release
<1>6. JobShape'
  BY <1>3 DEF JobShape, WithAttempt
<1> QED BY <1>3, <1>4, <1>5, <1>6

\* The holder goes on; its job may change on the way.
LEMMA OnwardShape ==
    ASSUME Shape, AttemptsKept, NEW w \in Workers, pc[w] # "idle",
           NEW step \in Steps \ {"idle"}, pc' = [pc EXCEPT ![w] = step],
           NEW j \in Jobs, job' = [job EXCEPT ![w] = j], UNCHANGED lock,
           FitsStep(step, j, attempts')
    PROVE  /\ Running' /\ LockExcludes' /\ JobShape'
           /\ pc'[w] = step /\ job'[w] = j
           /\ \A v \in Workers : v # w => pc'[v] = "idle"
<1>1. Running /\ LockExcludes /\ JobShape
  BY DEF Shape, TypeOK, Running
<1>2. \A v \in Workers : v # w => pc[v] = "idle"
  BY <1>1 DEF LockExcludes
<1>3. \A v \in Workers : v # w => pc'[v] = "idle"
  BY <1>1, <1>2 DEF Running
<1>4. pc'[w] = step /\ job'[w] = j
  BY <1>1 DEF Running
<1>5. Running'
  BY <1>1 DEF Running
<1>6. LockExcludes'
  BY <1>1, <1>3, <1>4 DEF LockExcludes
<1>7. JobShape'
  BY <1>3, <1>4 DEF JobShape, FitsStep, WithAttempt
<1> QED BY <1>3, <1>4, <1>5, <1>6, <1>7

LEMMA GotoShape ==
    ASSUME Shape, AttemptsKept, NEW w \in Workers, pc[w] # "idle",
           NEW step \in Steps \ {"idle"}, Goto(w, step),
           step \in WithAttempt => pc[w] \in WithAttempt,
           step \in {"decide", "execute"} => job[w].att = 0
    PROVE  /\ Running' /\ LockExcludes' /\ JobShape'
           /\ pc'[w] = step /\ job' = job
           /\ \A v \in Workers : v # w => pc'[v] = "idle"
<1>1. job \in [Workers -> Jobs \cup {NoJob}] /\ job[w] \in Jobs
  BY DEF Shape, TypeOK, JobShape
<1>2. job' = [job EXCEPT ![w] = job[w]]
  BY <1>1 DEF Goto
<1>3. FitsStep(step, job[w], attempts')
  BY DEF Shape, JobShape, FitsStep, AttemptsKept
<1> QED BY <1>1, <1>2, <1>3, OnwardShape DEF Goto

\* The journal is left alone, or grows by a row that fits.
LEMMA RefsKept ==
    ASSUME Refs, AttemptsKept, UNCHANGED journal
    PROVE  Refs'
  BY DEF Refs, AttemptsKept

--------------------------------------------------------------------------------
\* Types, lock and references are inductive.

\* The parts of Shape that a step leaves alone when it leaves their variables alone.
LEMMA DeskShape ==
    ASSUME Shape, DeskStep
    PROVE  Shape' /\ UNCHANGED <<journal, attempts>> /\ UNCHANGED running
<1>1. PICK p \in Posts :
          \/ SourceUpdate(p)
          \/ Regenerate(p)
          \/ Edit(p)
          \/ \E yes \in BOOLEAN : Confirm(p, yes)
          \/ LockContent(p)
          \/ \E crashed \in BOOLEAN : UnlockContent(p, crashed)
          \/ \E action \in {"skipped", "handed_off"} : Retire(p, action)
  BY DEF DeskStep
<1>2. TypeOK /\ Refs
  BY DEF Shape
<1>3. UNCHANGED <<journal, attempts, projected>> /\ UNCHANGED running
  BY <1>1 DEF SourceUpdate, Regenerate, Edit, Confirm, LockContent, UnlockContent, Retire
<1>4. AttemptsKept /\ Refs'
  BY <1>2, <1>3 DEF AttemptsKept, Refs
<1>5. Running' /\ LockExcludes' /\ JobShape'
  BY <1>3, <1>4, StayShape
<1>6. {"edited", "body_reviewed", "content_locked", "unlocked", "skipped", "handed_off"}
          \subseteq ReviewActions
  BY DEF ReviewActions
<1>7. Len(snaps) + 1 \in Nat /\ 0 \in Nat
  BY <1>2 DEF TypeOK
<1>8. review' \in [Posts -> Reviews]
  <2>1. CASE UNCHANGED review
    BY <1>2, <2>1 DEF TypeOK
  <2>2. CASE Edit(p)
    BY <2>2, <1>2, <1>6, <1>7, ChangeType DEF Edit
  <2>3. CASE \E yes \in BOOLEAN : Confirm(p, yes)
    BY <2>3, <1>2, <1>6, <1>7, ChangeType DEF Confirm
  <2>4. CASE LockContent(p)
    BY <2>4, <1>2, <1>6, <1>7, ChangeType DEF LockContent
  <2>5. CASE \E crashed \in BOOLEAN : UnlockContent(p, crashed) /\ ~UNCHANGED review
    BY <2>5, <1>2, <1>6, <1>7, ChangeType DEF UnlockContent
  <2>6. CASE \E action \in {"skipped", "handed_off"} : Retire(p, action)
    BY <2>6, <1>2, <1>6, <1>7, ChangeType DEF Retire
  <2> QED BY <1>1, <2>1, <2>2, <2>3, <2>4, <2>5, <2>6 DEF SourceUpdate, Regenerate
<1>9. snaps' \in Seq(Snapshots)
  <2>1. CASE UNCHANGED snaps
    BY <1>2, <2>1 DEF TypeOK
  <2>2. CASE LockContent(p)
    BY <2>2, <1>2, FreezeType DEF LockContent
  <2>3. CASE \E crashed \in BOOLEAN : UnlockContent(p, crashed)
    BY <2>3, <1>2, SnapshotUpdateType DEF UnlockContent
  <2> QED BY <1>1, <2>1, <2>2, <2>3
          DEF SourceUpdate, Regenerate, Edit, Confirm, Retire
<1>10. source' \in [Posts -> Nat] /\ content' \in [Posts -> Nat]
  <2>1. source \in [Posts -> Nat] /\ content \in [Posts -> Nat]
    BY <1>2 DEF TypeOK
  <2>2. source' = source \/ source' = [source EXCEPT ![p] = @ + 1]
    BY <1>1 DEF SourceUpdate, Regenerate, Edit, Confirm, LockContent, UnlockContent, Retire, desk
  <2>3. content' = content \/ content' = [content EXCEPT ![p] = @ + 1]
    BY <1>1 DEF SourceUpdate, Regenerate, Edit, Confirm, LockContent, UnlockContent, Retire, desk
  <2> QED BY <2>1, <2>2, <2>3
<1>11. confirmed' \in [Posts -> Nat] /\ vouched' \in [Posts -> SUBSET Nat]
  <2>1. CASE \E yes \in BOOLEAN : Confirm(p, yes)
    <3>1. PICK yes \in BOOLEAN : Confirm(p, yes)
      BY <2>1
    <3>2. content[p] \in Nat /\ vouched[p] \in SUBSET Nat
      BY <1>2 DEF TypeOK
    <3>3. confirmed' \in [Posts -> Nat]
      BY <1>2, <3>1, <3>2 DEF TypeOK, Confirm
    <3>4. vouched' \in [Posts -> SUBSET Nat]
      BY <1>2, <3>1, <3>2 DEF TypeOK, Confirm
    <3> QED BY <3>3, <3>4
  <2>2. CASE UNCHANGED <<confirmed, vouched>>
    BY <1>2, <2>2 DEF TypeOK
  <2> QED BY <1>1, <2>1, <2>2
          DEF SourceUpdate, Regenerate, Edit, desk, LockContent, UnlockContent, Retire
<1>12. TypeOK'
  BY <1>2, <1>3, <1>5, <1>8, <1>9, <1>10, <1>11 DEF TypeOK, Running
<1> QED BY <1>3, <1>4, <1>5, <1>12 DEF Shape

\* A step of a worker keeps the desk; what is left to show is the rest.
LEMMA ShapeFrom ==
    ASSUME Shape, UNCHANGED desk, Running', LockExcludes', JobShape', Refs',
           review' \in [Posts -> Reviews], snaps' \in Seq(Snapshots),
           journal' \in Seq(Rows), attempts' \in Seq(Attempts),
           projected' \subseteq (Nat \X RowStatuses)
    PROVE  Shape'
  BY DEF Shape, TypeOK, desk, Running

\* The row the operation continues is one of its attempt.
LEMMA ContinueType ==
    ASSUME TypeOK, Refs, NEW i \in DOMAIN journal, NEW status \in RowStatuses,
           Continue(i, status), UNCHANGED attempts
    PROVE  journal' \in Seq(Rows) /\ Refs'
<1>1. journal[i] \in Rows
  BY DEF TypeOK
<1>2. journal[i].manual \in BOOLEAN /\ journal[i].att \in DOMAIN attempts
  BY <1>1 DEF Rows, Refs
<1> QED BY <1>2, AppendRowType DEF Continue

LEMMA BeginShape ==
    ASSUME Shape, NEW w \in Workers, BeginStep(w)
    PROVE  Shape' /\ UNCHANGED <<journal, attempts>>
<1>1. PICK p \in Posts :
          \/ ApproveBegin(w, p)
          \/ \E op \in {"draft", "submit"} : CliBegin(w, p, op)
          \/ ReconcileBegin(w, p)
          \/ UnscheduleBegin(w, p)
  BY DEF BeginStep
<1>2. TypeOK /\ Refs
  BY DEF Shape
<1>3. /\ review[p].snap \in Nat /\ review[p].rev \in Nat /\ source[p] \in Nat
      /\ Len(snaps) + 1 \in Nat
  BY <1>2 DEF TypeOK, Reviews
<1>4. UNCHANGED <<journal, attempts>> /\ UNCHANGED <<review, projected>> /\ UNCHANGED desk
  BY <1>1 DEF ApproveBegin, CliBegin, ReconcileBegin, UnscheduleBegin
<1>5. AttemptsKept /\ Refs'
  BY <1>2, <1>4 DEF AttemptsKept, Refs
<1>6. snaps' \in Seq(Snapshots)
  BY <1>1, <1>2, FreezeType
     DEF TypeOK, ApproveBegin, CliBegin, ReconcileBegin, UnscheduleBegin
<1>7. Running' /\ LockExcludes' /\ JobShape'
  <2>1. CASE ApproveBegin(w, p)
    <3> DEFINE j == [op |-> "approve", post |-> p, snap |-> review[p].snap, att |-> 0,
                     rev |-> review[p].rev, src |-> source[p]]
    <3>1. j \in Jobs /\ FitsStep("decide", j, attempts)
      BY <1>3 DEF Jobs, FitsStep, WithAttempt
    <3> QED BY <2>1, <3>1, <1>5, AcquireShape DEF ApproveBegin, Steps
  <2>2. CASE \E op \in {"draft", "submit"} : CliBegin(w, p, op)
    <3>1. PICK op \in {"draft", "submit"} : CliBegin(w, p, op)
      BY <2>2
    <3> DEFINE j == [op |-> op, post |-> p, snap |-> Len(snaps) + 1, att |-> 0,
                     rev |-> review[p].rev, src |-> source[p]]
    <3>2. j \in Jobs /\ FitsStep("execute", j, attempts)
      BY <1>3 DEF Jobs, FitsStep, WithAttempt
    <3> QED BY <3>1, <3>2, <1>5, AcquireShape DEF CliBegin, Steps
  <2>3. ASSUME NEW op \in {"reconcile", "unschedule"}, NEW step \in {"recheck", "unread"},
               NEW i \in DOMAIN journal, journal[i].post = p,
               Acquire(w, step, [op |-> op, post |-> p,
                                 snap |-> attempts[journal[i].att].snap,
                                 att |-> journal[i].att, rev |-> 0, src |-> source[p]])
        PROVE  Running' /\ LockExcludes' /\ JobShape'
    <3> DEFINE j == [op |-> op, post |-> p, snap |-> attempts[journal[i].att].snap,
                     att |-> journal[i].att, rev |-> 0, src |-> source[p]]
    <3>1. journal[i].att \in DOMAIN attempts /\ attempts[journal[i].att].post = p
      BY <2>3, <1>2 DEF Refs
    <3>2. attempts[journal[i].att] \in Attempts /\ journal[i].att \in Nat
      BY <3>1, <1>2 DEF TypeOK
    <3>3. j \in Jobs /\ FitsStep(step, j, attempts)
      BY <1>3, <3>1, <3>2 DEF Jobs, FitsStep, WithAttempt, Attempts
    <3> QED BY <2>3, <3>3, <1>5, AcquireShape DEF Steps
  <2>4. CASE ReconcileBegin(w, p)
    BY <2>4, <2>3 DEF ReconcileBegin, PendingRow, Decisive
  <2>5. CASE UnscheduleBegin(w, p)
    BY <2>5, <2>3 DEF UnscheduleBegin, ScheduledRow, CountsAsScheduled
  <2> QED BY <1>1, <2>1, <2>2, <2>4, <2>5
<1> QED BY <1>2, <1>4, <1>5, <1>6, <1>7, ShapeFrom DEF TypeOK

LEMMA ReleaseStep ==
    ASSUME Shape, NEW w \in Workers, pc[w] # "idle", Release(w),
           UNCHANGED <<desk, journal, attempts>>,
           review' \in [Posts -> Reviews], snaps' \in Seq(Snapshots),
           projected' \subseteq (Nat \X RowStatuses)
    PROVE  Shape'
<1>1. AttemptsKept /\ Refs'
  BY DEF Shape, AttemptsKept, Refs
<1> QED BY <1>1, ReleaseShape, ShapeFrom DEF Shape, TypeOK

LEMMA AppendStep ==
    ASSUME Shape, NEW w \in Workers, pc[w] \in WithAttempt, NEW step \in Steps \ {"idle"},
           Goto(w, step), step \notin {"decide", "execute"},
           UNCHANGED <<desk, review, snaps, attempts, projected>>,
           journal' \in Seq(Rows), Refs'
    PROVE  Shape'
<1>1. AttemptsKept /\ pc[w] # "idle"
  BY DEF AttemptsKept, WithAttempt
<1>2. Running' /\ LockExcludes' /\ JobShape'
  BY <1>1, GotoShape DEF WithAttempt
<1> QED BY <1>2, ShapeFrom DEF Shape, TypeOK

LEMMA OpenShape ==
    ASSUME Shape, NEW w \in Workers, pc[w] = "execute", NEW status \in RowStatuses,
           NEW step \in Steps \ {"idle", "decide", "execute"},
           OpenAttempt(w, status), pc' = [pc EXCEPT ![w] = step]
    PROVE  /\ Shape'
           /\ Len(attempts) + 1 = job'[w].att
<1> DEFINE p == job[w].post
           a == Len(attempts) + 1
           d == job[w].op = "approve"
           t == [post |-> p, snap |-> job[w].snap, desk |-> d,
                 card |-> "none", byhand |-> FALSE]
           r == Row(a, p, d, status, FALSE)
           jj == [job[w] EXCEPT !.att = a]
<1>1. /\ attempts \in Seq(Attempts) /\ journal \in Seq(Rows)
      /\ job \in [Workers -> Jobs \cup {NoJob}] /\ job[w] \in Jobs
  BY DEF Shape, TypeOK, JobShape
<1>2. job[w].post \in Posts /\ job[w].snap \in Nat
  BY <1>1 DEF Jobs
<1>3. a \in Nat \ {0} /\ d \in BOOLEAN
  BY <1>1
<1>4. t \in Attempts /\ r \in Rows
  BY <1>2, <1>3 DEF Attempts, Rows, Row, CardStates
<1>5. jj \in Jobs /\ jj.att = a /\ jj.post = p
  BY <1>1, <1>3 DEF Jobs
<1>6. attempts' = Append(attempts, t) /\ journal' = Append(journal, r)
  BY DEF OpenAttempt
<1>7. job' = [job EXCEPT ![w] = jj]
  BY <1>1 DEF OpenAttempt
<1> HIDE DEF d, t, r, jj
<1>8. t.post = p /\ r.att = a /\ r.post = p
  BY DEF t, r, Row
<1>9. /\ attempts' \in Seq(Attempts)
      /\ DOMAIN attempts = 1 .. Len(attempts)
      /\ DOMAIN attempts' = 1 .. (Len(attempts) + 1)
      /\ \A b \in 1 .. Len(attempts) : attempts'[b] = attempts[b]
      /\ attempts'[a] = t
  BY <1>1, <1>4, <1>6, Appended
<1>10. /\ journal' \in Seq(Rows)
       /\ DOMAIN journal = 1 .. Len(journal)
       /\ DOMAIN journal' = 1 .. (Len(journal) + 1)
       /\ \A i \in 1 .. Len(journal) : journal'[i] = journal[i]
       /\ journal'[Len(journal) + 1] = r
  BY <1>1, <1>4, <1>6, Appended
<1>11. AttemptsKept
  BY <1>3, <1>9 DEF AttemptsKept
<1>12. Refs'
  <2> SUFFICES ASSUME NEW i \in DOMAIN journal'
               PROVE  /\ journal'[i].att \in DOMAIN attempts'
                      /\ journal'[i].post = attempts'[journal'[i].att].post
    BY DEF Refs
  <2>1. CASE i \in 1 .. Len(journal)
    BY <2>1, <1>10, <1>11 DEF Shape, Refs, AttemptsKept
  <2>2. CASE i = Len(journal) + 1
    BY <2>2, <1>3, <1>8, <1>9, <1>10
  <2> QED BY <2>1, <2>2, <1>10
<1>13. FitsStep(step, jj, attempts') /\ UNCHANGED lock
  BY <1>3, <1>5, <1>8, <1>9 DEF FitsStep, OpenAttempt
<1>14. Running' /\ LockExcludes' /\ JobShape' /\ job'[w] = jj
  BY <1>5, <1>7, <1>11, <1>13, OnwardShape
<1>15. UNCHANGED <<desk, review, snaps, projected>>
  BY DEF OpenAttempt
<1> QED BY <1>5, <1>9, <1>10, <1>12, <1>14, <1>15, ShapeFrom DEF Shape, TypeOK

LEMMA WorkShape ==
    ASSUME Shape, NEW w \in Workers, WorkStep(w)
    PROVE  Shape'
<1>1. TypeOK /\ Refs /\ JobShape
  BY DEF Shape
<1>2. /\ review \in [Posts -> Reviews] /\ snaps \in Seq(Snapshots)
      /\ projected \subseteq (Nat \X RowStatuses) /\ journal \in Seq(Rows)
      /\ attempts \in Seq(Attempts) /\ 0 \in Nat
  BY <1>1 DEF TypeOK
<1>3. pc[w] # "idle" => job[w].post \in Posts /\ job[w].snap \in Nat
  BY <1>1 DEF JobShape, Jobs
<1>4. pc[w] \in WithAttempt => pc[w] # "idle" /\ job[w].att \in DOMAIN attempts
  BY <1>1 DEF JobShape, WithAttempt
<1>5. {"scheduled", "failed_pre_submit", "cancelled_remote", "prepared", "submit_ambiguous",
       "submitted_unverified"} \subseteq RowStatuses
  BY DEF RowStatuses, Blocking, Unresolved
<1>6. {"approved", "submit_failed", "unscheduled"} \subseteq ReviewActions
  BY DEF ReviewActions
<1>7. \A i \in DOMAIN journal : journal[i].status \in RowStatuses
  <2>1. \A i \in DOMAIN journal : journal[i] \in Rows
    BY <1>2
  <2> QED BY <2>1 DEF Rows
<1>8. CASE ApproveRefuse(w) \/ UnscheduleRefuse(w)
  BY <1>8, <1>2, ReleaseStep DEF ApproveRefuse, UnscheduleRefuse
<1>9. CASE Approve(w)
  <2>1. pc[w] = "decide" /\ job[w].post \in Posts /\ job[w].snap \in Nat /\ job[w] \in Jobs
    BY <1>9, <1>1, <1>3 DEF Approve, CanApprove, JobShape
  <2>2. review' \in [Posts -> Reviews]
    BY <1>9, <1>1, <1>6, <2>1, ChangeType DEF Approve
  <2>3. snaps' \in Seq(Snapshots)
    BY <1>9, <1>1, SnapshotUpdateType DEF Approve
  <2> DEFINE jj == [job[w] EXCEPT !.rev = @ + 1]
  <2>4. jj \in Jobs /\ jj.att = 0
    BY <1>1, <2>1 DEF Jobs, JobShape
  <2>5. job' = [job EXCEPT ![w] = jj] /\ pc' = [pc EXCEPT ![w] = "execute"]
    BY <1>9, <1>1 DEF Approve, TypeOK
  <2>6. FitsStep("execute", jj, attempts') /\ "execute" \in Steps \ {"idle"}
    BY <2>4 DEF FitsStep, WithAttempt, Steps
  <2>7. UNCHANGED <<desk, journal, attempts, projected, lock>>
    BY <1>9 DEF Approve
  <2>8. AttemptsKept
    BY <2>7 DEF AttemptsKept
  <2> HIDE DEF jj
  <2>9. Running' /\ LockExcludes' /\ JobShape'
    BY <2>1, <2>4, <2>5, <2>6, <2>7, <2>8, OnwardShape
  <2>10. Refs'
    BY <1>1, <2>7 DEF Refs
  <2> QED BY <1>2, <2>2, <2>3, <2>7, <2>9, <2>10, ShapeFrom
<1>10. CASE ExecuteRaise(w)
  <2>1. pc[w] = "execute" /\ UNCHANGED <<desk, review, snaps, journal, attempts, projected>>
    BY <1>10 DEF ExecuteRaise
  <2>2. CASE Release(w)
    BY <1>2, <2>1, <2>2, ReleaseStep
  <2>3. CASE Goto(w, "raised")
    <3>1. AttemptsKept /\ Refs'
      BY <1>1, <2>1 DEF AttemptsKept, Refs
    <3>2. Running' /\ LockExcludes' /\ JobShape'
      BY <2>1, <2>3, <3>1, GotoShape DEF Steps, WithAttempt
    <3> QED BY <1>2, <2>1, <3>1, <3>2, ShapeFrom
  <2> QED BY <1>10, <2>2, <2>3 DEF ExecuteRaise
<1>11. CASE ComposeFail(w)
  BY <1>5, <1>11, OpenShape DEF ComposeFail, Steps
<1>12. CASE Compose(w)
  <2>1. PICK step \in {"project", "prepared"} : pc' = [pc EXCEPT ![w] = step]
    BY <1>12 DEF Compose
  <2> QED BY <1>5, <1>12, <2>1, OpenShape DEF Compose, Steps
<1>13. CASE FinalCheck(w)
  <2>1. Refs' /\ pc[w] \in WithAttempt /\ "checked" \in Steps \ {"idle"}
    BY <1>1, <1>13 DEF FinalCheck, Refs, WithAttempt, Steps
  <2> QED BY <1>2, <1>13, <2>1, AppendStep DEF FinalCheck
<1>14. CASE PreSubmitFail(w) \/ Arm(w) \/ ClickFail(w) \/ UnscheduleAppend(w)
            \/ \E status \in Unresolved : Submitted(w, status)
  <2>1. PICK step \in {"project", "armed", "verify", "unreview"} : Goto(w, step)
    BY <1>14 DEF PreSubmitFail, Arm, ClickFail, Submitted, UnscheduleAppend
  <2>2. /\ pc[w] \in {"prepared", "checked", "armed", "clicked", "unread"}
        /\ UNCHANGED <<desk, review, snaps, attempts, projected>>
    BY <1>14 DEF PreSubmitFail, Arm, ClickFail, Submitted, UnscheduleAppend
  <2>3. \E status \in RowStatuses, manual \in BOOLEAN : AppendRow(job[w].att, status, manual)
    BY <1>5, <1>14
       DEF PreSubmitFail, Arm, ClickFail, Submitted, UnscheduleAppend, RowStatuses, Blocking
  <2>4. pc[w] \in WithAttempt /\ step \in Steps \ {"idle"} /\ step \notin {"decide", "execute"}
    BY <2>1, <2>2 DEF WithAttempt, Steps
  <2>5. journal' \in Seq(Rows) /\ Refs'
    BY <1>1, <1>4, <2>2, <2>3, <2>4, AppendRowType
  <2> QED BY <2>1, <2>2, <2>4, <2>5, AppendStep
<1>15. CASE Click(w)
  <2>1. /\ pc[w] = "armed" /\ Goto(w, "clicked")
        /\ attempts' = [attempts EXCEPT ![job[w].att].card = "inflight"]
        /\ UNCHANGED <<desk, review, snaps, journal, projected>>
    BY <1>15 DEF Click, SetCard
  <2>2. job[w].att \in DOMAIN attempts /\ "inflight" \in CardStates
    BY <1>4, <2>1 DEF WithAttempt, Steps, CardStates
  <2>3. AttemptsKept /\ attempts' \in Seq(Attempts)
    BY <1>1, <2>1, <2>2, CardType DEF AttemptsKept
  <2>4. Refs'
    BY <1>1, <2>1, <2>3, RefsKept
  <2>5. Running' /\ LockExcludes' /\ JobShape'
    BY <2>1, <2>3, GotoShape DEF Steps, WithAttempt
  <2> QED BY <1>2, <2>1, <2>3, <2>4, <2>5, ShapeFrom
<1>16. CASE ReadBack(w)
  <2>1. PICK i \in DOMAIN journal : Continue(i, "scheduled")
    BY <1>16 DEF ReadBack
  <2>2. /\ pc[w] \in WithAttempt /\ Goto(w, "project")
        /\ UNCHANGED <<desk, review, snaps, attempts, projected>>
    BY <1>16 DEF ReadBack, WithAttempt, Steps
  <2>3. journal' \in Seq(Rows) /\ Refs'
    BY <1>1, <1>5, <2>1, <2>2, ContinueType
  <2> QED BY <2>2, <2>3, AppendStep DEF Steps
<1>17. CASE ReadBackMiss(w)
  <2>1. PICK i \in DOMAIN journal : Continue(i, journal[i].status)
    BY <1>17 DEF ReadBackMiss
  <2>2. /\ pc[w] \in WithAttempt /\ pc[w] # "idle"
        /\ UNCHANGED <<desk, review, snaps, attempts, projected>>
    BY <1>17 DEF ReadBackMiss, WithAttempt, Steps
  <2>3. journal' \in Seq(Rows) /\ Refs'
    BY <1>1, <1>7, <2>1, <2>2, ContinueType
  <2>4. CASE Goto(w, "project")
    BY <2>2, <2>3, <2>4, AppendStep DEF Steps
  <2>5. CASE Release(w)
    BY <1>2, <2>2, <2>3, <2>5, ReleaseShape, ShapeFrom
  <2> QED BY <1>17, <2>4, <2>5 DEF ReadBackMiss
<1>18. CASE Project(w)
  <2>1. PICK i \in DOMAIN journal : ProjectOrFail(job[w].att, journal[i].status)
    BY <1>18 DEF Project
  <2>2. /\ pc[w] = "project" /\ Release(w) /\ UNCHANGED <<desk, snaps, journal, attempts>>
    BY <1>18 DEF Project
  <2>3. job[w].att \in DOMAIN attempts
    BY <1>4, <2>2 DEF WithAttempt, Steps
  <2>4. review' \in [Posts -> Reviews] /\ projected' \subseteq (Nat \X RowStatuses)
    BY <1>1, <1>7, <2>1, <2>3, ProjectType
  <2> QED BY <1>2, <2>2, <2>4, ReleaseStep
<1>19. CASE Raised(w) \/ UnscheduleReview(w)
  <2>1. /\ pc[w] # "idle" /\ Release(w)
        /\ UNCHANGED <<desk, snaps, journal, attempts, projected>>
    BY <1>19 DEF Raised, UnscheduleReview
  <2>2. \/ \E action \in {"submit_failed", "unscheduled"} : Change(job[w].post, action, FALSE, 0)
        \/ UNCHANGED review
    BY <1>19 DEF Raised, UnscheduleReview
  <2>3. review' \in [Posts -> Reviews]
    BY <1>1, <1>2, <1>3, <1>6, <2>1, <2>2, ChangeType
  <2> QED BY <1>2, <2>1, <2>3, ReleaseStep
<1> QED BY <1>8, <1>9, <1>10, <1>11, <1>12, <1>13, <1>14, <1>15, <1>16, <1>17, <1>18, <1>19
        DEF WorkStep

LEMMA CrashShape ==
    ASSUME Shape, NEW w \in Workers, ApproveCrash(w) \/ Crash(w)
    PROVE  /\ Shape' /\ UNCHANGED <<journal, attempts>>
           /\ \A v \in Workers : pc'[v] = "idle"
<1>1. /\ pc[w] # "idle" /\ Release(w)
      /\ UNCHANGED <<desk, review, journal, attempts, projected>>
  BY DEF ApproveCrash, CanApprove, Crash
<1>2. snaps' \in Seq(Snapshots)
  BY SnapshotUpdateType DEF ApproveCrash, Crash, Shape, TypeOK
<1> QED BY <1>1, <1>2, ReleaseStep, ReleaseShape DEF Shape, TypeOK

\* Operations that end within the step find the lock free.
LEMMA SettleShape ==
    ASSUME Shape, SettleStep
    PROVE  Shape' /\ UNCHANGED <<attempts, running>> /\ lock = NoWorker
<1>1. TypeOK /\ Refs
  BY DEF Shape
<1>2. /\ review \in [Posts -> Reviews] /\ snaps \in Seq(Snapshots)
      /\ projected \subseteq (Nat \X RowStatuses) /\ journal \in Seq(Rows)
      /\ attempts \in Seq(Attempts) /\ 0 \in Nat
  BY <1>1 DEF TypeOK
<1>3. {"scheduled", "failed_pre_submit"} \subseteq RowStatuses
  BY DEF RowStatuses
<1>4. lock = NoWorker /\ UNCHANGED <<desk, snaps, attempts>> /\ UNCHANGED running
  BY DEF SettleStep, RecoverReceipt, RecoverOrphan, ManualResolve, Reverify, Quiet
<1>5. AttemptsKept /\ Running' /\ LockExcludes' /\ JobShape'
  BY <1>4, StayShape DEF AttemptsKept
<1>6. \A i \in DOMAIN journal : journal[i].att \in DOMAIN attempts /\ journal[i] \in Rows
  BY <1>1, <1>2 DEF Refs
<1>7. ASSUME NEW p \in Posts, RecoverReceipt(p) PROVE Shape'
  <2>1. PICK i \in DOMAIN journal, s \in RowStatuses : ProjectReview(journal[i].att, s)
    BY <1>3, <1>6, <1>7 DEF RecoverReceipt, Rows
  <2>2. review' \in [Posts -> Reviews] /\ projected' \subseteq (Nat \X RowStatuses)
    BY <1>1, <1>6, <2>1, ProjectType DEF ProjectOrFail
  <2>3. UNCHANGED journal
    BY <1>7 DEF RecoverReceipt
  <2> QED BY <1>1, <1>2, <1>4, <1>5, <2>2, <2>3, RefsKept, ShapeFrom
<1>8. ASSUME NEW p \in Posts, RecoverOrphan(p) PROVE Shape'
  <2>1. review' \in [Posts -> Reviews]
    BY <1>1, <1>2, <1>8, ChangeType DEF RecoverOrphan, ReviewActions
  <2>2. UNCHANGED <<journal, projected>>
    BY <1>8 DEF RecoverOrphan
  <2> QED BY <1>1, <1>2, <1>4, <1>5, <2>1, <2>2, RefsKept, ShapeFrom
<1>9. ASSUME NEW p \in Posts, NEW seen \in BOOLEAN, ManualResolve(p, seen) PROVE Shape'
  <2>1. PICK i \in DOMAIN journal, s \in {"scheduled", "failed_pre_submit"} :
            AppendRow(journal[i].att, s, TRUE) /\ ProjectOrFail(journal[i].att, s)
    BY <1>9 DEF ManualResolve
  <2>2. journal' \in Seq(Rows) /\ Refs'
    BY <1>1, <1>3, <1>4, <1>6, <2>1, AppendRowType
  <2>3. review' \in [Posts -> Reviews] /\ projected' \subseteq (Nat \X RowStatuses)
    BY <1>1, <1>3, <1>6, <2>1, ProjectType
  <2> QED BY <1>2, <1>4, <1>5, <2>2, <2>3, ShapeFrom
<1>10. ASSUME NEW a \in DOMAIN attempts, Reverify(a) PROVE Shape'
  <2>1. PICK i \in DOMAIN journal : Continue(i, "scheduled")
    BY <1>10 DEF Reverify
  <2>2. journal' \in Seq(Rows) /\ Refs'
    BY <1>1, <1>3, <1>4, <2>1, ContinueType
  <2>3. review' \in [Posts -> Reviews] /\ projected' \subseteq (Nat \X RowStatuses)
    BY <1>1, <1>3, <1>10, ProjectType DEF Reverify
  <2> QED BY <1>2, <1>4, <1>5, <2>2, <2>3, ShapeFrom
<1> QED BY <1>4, <1>7, <1>8, <1>9, <1>10 DEF SettleStep

LEMMA RemoteShape ==
    ASSUME Shape, RemoteStep
    PROVE  Shape' /\ UNCHANGED journal /\ UNCHANGED running
<1>1. TypeOK /\ Refs
  BY DEF Shape
<1>2. PICK a \in DOMAIN attempts, c \in CardStates, byhand \in BOOLEAN :
          \/ attempts' = [attempts EXCEPT ![a].card = c]
          \/ attempts' = [attempts EXCEPT ![a].card = c, ![a].byhand = byhand]
  BY DEF RemoteStep, Settle, DeleteCard, HandSubmit, SetCard, CardStates
<1>3. UNCHANGED <<desk, review, snaps, journal, projected>> /\ UNCHANGED running
  BY DEF RemoteStep, Settle, DeleteCard, HandSubmit
<1>4. AttemptsKept /\ attempts' \in Seq(Attempts)
  BY <1>1, <1>2, CardType DEF AttemptsKept
<1>5. Refs' /\ Running' /\ LockExcludes' /\ JobShape'
  BY <1>1, <1>3, <1>4, RefsKept, StayShape
<1> QED BY <1>1, <1>3, <1>4, <1>5, ShapeFrom DEF TypeOK

LEMMA InitShape == Init => Shape
<1> SUFFICES ASSUME Init PROVE Shape
  OBVIOUS
<1>1. NoEvent \in Reviews
  BY DEF NoEvent, Reviews, ReviewStatuses, ReviewActions
<1>2. TypeOK
  BY <1>1 DEF Init, TypeOK, Steps
<1>3. LockExcludes
  BY WorkerAssumption DEF Init, LockExcludes
<1>4. Refs /\ JobShape
  BY DEF Init, Refs, JobShape, WithAttempt
<1> QED BY <1>2, <1>3, <1>4 DEF Shape

LEMMA NextShape == Shape /\ [Next]_vars => Shape'
<1> SUFFICES ASSUME Shape, [Next]_vars PROVE Shape'
  OBVIOUS
<1>1. CASE DeskStep
  BY <1>1, DeskShape
<1>2. CASE \E w \in Workers : BeginStep(w) \/ WorkStep(w) \/ ApproveCrash(w) \/ Crash(w)
  BY <1>2, BeginShape, WorkShape, CrashShape
<1>3. CASE SettleStep
  BY <1>3, SettleShape
<1>4. CASE RemoteStep
  BY <1>4, RemoteShape
<1>5. CASE UNCHANGED vars
  BY <1>5 DEF vars, Shape, TypeOK, LockExcludes, Refs, JobShape
<1> QED BY <1>1, <1>2, <1>3, <1>4, <1>5 DEF Next

(* The stores keep their types, and a row, an operation and an attempt never  *)
(* speak of different posts (Shape).                                          *)
THEOREM TypeCorrect == Spec => []TypeOK
<1>1. Init => Shape
  BY InitShape
<1>2. Shape /\ [Next]_vars => Shape'
  BY NextShape
<1>3. Shape => TypeOK
  BY DEF Shape
<1> QED BY <1>1, <1>2, <1>3, PTL DEF Spec

--------------------------------------------------------------------------------
\* Journal and cards stay sound, whatever is appended or happens to a card.

\* An open row that covers a card blocks; so does a scheduled one.
LEMMA CoversBlocks ==
    ASSUME NEW a \in DOMAIN attempts, NEW i \in DOMAIN journal, Covers(a, i)
    PROVE  \/ CountsAsScheduled(journal, attempts[a].post, i)
           \/ /\ PendingRow(journal, attempts[a].post, i)
              /\ journal[i].status = "prepared" => attempts[a].byhand
  BY DEF Covers, PendingRow, Blocking, Unresolved

\* Whose row the scan stops at, his is the only card.
LEMMA OnlyOfDecisive ==
    ASSUME Shape, Covered, Sided, NEW i \in DOMAIN journal,
           Decisive(journal, journal[i].post, i)
    PROVE  Only(journal[i].post, journal[i].att)
<1> DEFINE p == journal[i].post
<1>1. ASSUME NEW k \in DOMAIN journal, CountsAsScheduled(journal, p, k)
      PROVE  journal[k].att = journal[i].att
  BY <1>1 DEF Sided, CountsAsScheduled
<1>2. ASSUME NEW b \in DOMAIN attempts, Live(b), attempts[b].post = p
      PROVE  b = journal[i].att
  <2>1. PICK k \in DOMAIN journal : Covers(b, k)
    BY <1>2 DEF Covered
  <2>2. CASE CountsAsScheduled(journal, p, k)
    BY <1>1, <2>1, <2>2 DEF Covers
  <2>3. CASE Decisive(journal, p, k)
    BY <2>1, <2>3, DecisiveUnique DEF Covers, Shape, TypeOK
  <2> QED BY <1>2, <2>1, <2>2, <2>3 DEF Covers
<1> QED BY <1>1, <1>2 DEF Only

\* Whose scheduled row counts, his is the only card.
LEMMA OnlyOfScheduled ==
    ASSUME Shape, Covered, Sided, NEW i \in DOMAIN journal,
           CountsAsScheduled(journal, journal[i].post, i)
    PROVE  Only(journal[i].post, journal[i].att)
<1> DEFINE p == journal[i].post
<1>1. ASSUME NEW k \in DOMAIN journal,
             CountsAsScheduled(journal, p, k) \/ Decisive(journal, p, k)
      PROVE  journal[k].att = journal[i].att
  BY <1>1 DEF Sided
<1>2. ASSUME NEW b \in DOMAIN attempts, Live(b), attempts[b].post = p
      PROVE  b = journal[i].att
  <2>1. PICK k \in DOMAIN journal : Covers(b, k)
    BY <1>2 DEF Covered
  <2> QED BY <1>1, <1>2, <2>1 DEF Covers
<1> QED BY <1>1, <1>2 DEF Only

\* News of attempt a, the only one its post can meet.
LEMMA NewsSound ==
    ASSUME Shape, Sound, NEW a \in DOMAIN attempts,
           NEW status \in RowStatuses, status # "cancelled_remote",
           NEW manual \in BOOLEAN, AppendRow(a, status, manual), UNCHANGED attempts,
           Only(attempts[a].post, a),
           Live(a) => status \in Unresolved \cup {"scheduled"},
           status = "scheduled" => attempts[a].card \in {"landed", "deleted"}
    PROVE  /\ Sound' /\ Only(attempts[a].post, a)'
           /\ \E i \in DOMAIN journal' :
                 /\ Decisive(journal', attempts[a].post, i)
                 /\ journal'[i].att = a /\ journal'[i].status = status
<1> DEFINE p == attempts[a].post
           r == Row(a, p, attempts[a].desk, status, manual)
<1>0. PICK n : n = Len(journal) + 1
  OBVIOUS
<1>1. journal \in Seq(Rows) /\ TypeOK /\ Refs
  BY DEF Shape, TypeOK
<1>2. r \in Rows
  BY <1>1, RowType
<1>3. r.att = a /\ r.post = p /\ r.status = status
  BY DEF Row
<1>4. journal' = Append(journal, r)
  BY DEF AppendRow
<1> HIDE DEF r
<1>5. /\ DOMAIN journal = 1 .. Len(journal) /\ Len(journal) \in Nat
      /\ DOMAIN journal' = 1 .. n
      /\ \A i \in DOMAIN journal : i \in DOMAIN journal' /\ journal'[i] = journal[i] /\ i # n
      /\ n \in DOMAIN journal' /\ journal'[n] = r
      /\ \A i \in DOMAIN journal' : i \in DOMAIN journal \/ i = n
  BY <1>0, <1>1, <1>2, <1>4, Appended
<1>6. \A i : Decisive(journal', p, i) <=> i = n
  BY <1>0, <1>1, <1>2, <1>3, <1>4, DecisiveNews
<1>7. \A q, i : q # p => (Decisive(journal', q, i) <=> Decisive(journal, q, i))
  BY <1>1, <1>2, <1>3, <1>4, DecisiveKept
<1>8. \A q, i : CountsAsScheduled(journal', q, i) <=>
          \/ CountsAsScheduled(journal, q, i)
          \/ i = n /\ q = p /\ status = "scheduled"
  BY <1>0, <1>1, <1>2, <1>3, <1>4, CountsAppend
<1>9. \A q, i : CountsAsScheduled(journal, q, i) \/ Decisive(journal, q, i) =>
          i \in DOMAIN journal /\ journal[i].post = q
  BY DEF CountsAsScheduled, Decisive
<1>10. \A i \in DOMAIN journal' : CountsAsScheduled(journal', p, i) => journal'[i].att = a
  BY <1>3, <1>5, <1>8, <1>9 DEF Only
<1>11. Only(p, a)'
  BY <1>10 DEF Only, Live
<1>12. Covered'
  <2> SUFFICES ASSUME NEW b \in DOMAIN attempts, Live(b)
               PROVE  \E i \in DOMAIN journal' : Covers(b, i)'
    BY DEF Covered, Live
  <2>1. CASE b = a
    <3>1. Covers(b, n)'
      BY <2>1, <1>3, <1>5, <1>6, <1>8 DEF Covers
    <3> QED BY <3>1, <1>5
  <2>2. CASE b # a
    <3>1. attempts[b].post # p
      BY <2>2 DEF Only
    <3>2. PICK i \in DOMAIN journal : Covers(b, i)
      BY DEF Sound, Covered
    <3>3. Covers(b, i)'
      BY <3>1, <3>2, <1>5, <1>7, <1>8 DEF Covers
    <3> QED BY <3>3, <1>5
  <2> QED BY <2>1, <2>2
<1>13. Sided'
  <2> SUFFICES ASSUME NEW i \in DOMAIN journal', NEW k \in DOMAIN journal', NEW q,
                      q = journal'[i].post,
                      CountsAsScheduled(journal', q, i),
                      Decisive(journal', q, k) \/ CountsAsScheduled(journal', q, k)
               PROVE  journal'[k].att = journal'[i].att
    BY DEF Sided
  <2>1. CASE q = p
    BY <2>1, <1>3, <1>5, <1>6, <1>10
  <2>2. CASE q # p
    <3>1. i \in DOMAIN journal /\ CountsAsScheduled(journal, q, i) /\ journal[i].post = q
      BY <2>2, <1>8, <1>9
    <3>2. k \in DOMAIN journal /\ (Decisive(journal, q, k) \/ CountsAsScheduled(journal, q, k))
      BY <2>2, <1>7, <1>8, <1>9
    <3>3. journal[k].att = journal[i].att
      BY <3>1, <3>2 DEF Sound, Sided
    <3> QED BY <3>1, <3>2, <3>3, <1>5
  <2> QED BY <2>1, <2>2
<1>14. ReceiptsTruthful'
  BY <1>3, <1>5 DEF Sound, ReceiptsTruthful
<1> QED BY <1>3, <1>5, <1>6, <1>11, <1>12, <1>13, <1>14 DEF Sound

\* A deletion is registered for attempt a, whose card is gone.
LEMMA CancelSound ==
    ASSUME Shape, Sound, NEW a \in DOMAIN attempts, NEW manual \in BOOLEAN,
           AppendRow(a, "cancelled_remote", manual), UNCHANGED attempts,
           attempts[a].card = "deleted"
    PROVE  Sound'
<1> DEFINE p == attempts[a].post
           r == Row(a, p, attempts[a].desk, "cancelled_remote", manual)
<1>0. PICK n : n = Len(journal) + 1
  OBVIOUS
<1>1. journal \in Seq(Rows) /\ TypeOK /\ Refs /\ "cancelled_remote" \in RowStatuses
  BY DEF Shape, TypeOK, RowStatuses
<1>2. r \in Rows
  BY <1>1, RowType
<1>3. r.att = a /\ r.status = "cancelled_remote"
  BY DEF Row
<1>4. journal' = Append(journal, r)
  BY DEF AppendRow
<1> HIDE DEF r
<1>5. /\ DOMAIN journal = 1 .. Len(journal) /\ Len(journal) \in Nat
      /\ DOMAIN journal' = 1 .. n
      /\ \A i \in DOMAIN journal : i \in DOMAIN journal' /\ journal'[i] = journal[i]
      /\ journal'[n] = r
      /\ \A i \in DOMAIN journal' : i \in DOMAIN journal \/ i = n
  BY <1>0, <1>1, <1>2, <1>4, Appended
<1>6. \A q, i : Decisive(journal', q, i) <=> Decisive(journal, q, i)
  BY <1>1, <1>2, <1>3, <1>4, DecisiveKept
<1>7. \A q, i : CountsAsScheduled(journal', q, i) <=>
          CountsAsScheduled(journal, q, i) /\ journal[i].att # a
  BY <1>0, <1>1, <1>2, <1>3, <1>4, CountsAppend
<1>8. Covered'
  <2> SUFFICES ASSUME NEW b \in DOMAIN attempts, Live(b)
               PROVE  \E i \in DOMAIN journal' : Covers(b, i)'
    BY DEF Covered, Live
  <2>1. b # a
    BY DEF Live
  <2>2. PICK i \in DOMAIN journal : Covers(b, i)
    BY DEF Sound, Covered
  <2>3. Covers(b, i)'
    BY <2>1, <2>2, <1>5, <1>6, <1>7 DEF Covers
  <2> QED BY <2>3, <1>5
<1>9. Sided'
  <2> SUFFICES ASSUME NEW i \in DOMAIN journal', NEW k \in DOMAIN journal', NEW q,
                      q = journal'[i].post,
                      CountsAsScheduled(journal', q, i),
                      Decisive(journal', q, k) \/ CountsAsScheduled(journal', q, k)
               PROVE  journal'[k].att = journal'[i].att
    BY DEF Sided
  <2>1. i \in DOMAIN journal /\ CountsAsScheduled(journal, q, i) /\ journal[i].post = q
    BY <1>7 DEF CountsAsScheduled
  <2>2. k \in DOMAIN journal /\ (Decisive(journal, q, k) \/ CountsAsScheduled(journal, q, k))
    BY <1>6, <1>7 DEF Decisive, CountsAsScheduled
  <2>3. journal[k].att = journal[i].att
    BY <2>1, <2>2 DEF Sound, Sided
  <2> QED BY <2>1, <2>2, <2>3, <1>5
<1>10. ReceiptsTruthful'
  BY <1>3, <1>5 DEF Sound, ReceiptsTruthful
<1> QED BY <1>8, <1>9, <1>10 DEF Sound

\* The card of attempt a changes; a card that comes alive is covered.
LEMMA CardSound ==
    ASSUME Shape, Sound, NEW a \in DOMAIN attempts, NEW c \in CardStates,
           NEW byhand \in BOOLEAN,
           \/ attempts' = [attempts EXCEPT ![a].card = c] /\ attempts[a].byhand = byhand
           \/ attempts' = [attempts EXCEPT ![a].card = c, ![a].byhand = byhand],
           attempts[a].byhand => byhand,
           UNCHANGED journal,
           c \in {"inflight", "landed"} => \E i \in DOMAIN journal : Covers(a, i)',
           attempts[a].card \in {"landed", "deleted"} => c \in {"landed", "deleted"},
           attempts[a].card # "deleted"
    PROVE  Sound'
<1>1. /\ DOMAIN attempts' = DOMAIN attempts
      /\ \A b \in DOMAIN attempts : b # a => attempts'[b] = attempts[b]
      /\ attempts'[a].card = c
  <2>1. \/ attempts' = [attempts EXCEPT ![a].card = c]
        \/ attempts' = [attempts EXCEPT ![a].card = c, ![a].byhand = byhand]
    OBVIOUS
  <2>2. TypeOK /\ Refs
    BY DEF Shape
  <2> QED BY ONLY <2>1, <2>2, CardType, a \in DOMAIN attempts, c \in CardStates, byhand \in BOOLEAN
<1>2. Covered'
  <2> SUFFICES ASSUME NEW b \in DOMAIN attempts, Live(b)'
               PROVE  \E i \in DOMAIN journal : Covers(b, i)'
    BY <1>1 DEF Covered
  <2>1. CASE b = a
    BY <2>1, <1>1 DEF Live
  <2>2. CASE b # a
    <3>1. Live(b)
      BY <2>2, <1>1 DEF Live
    <3>2. PICK i \in DOMAIN journal : Covers(b, i)
      BY <3>1 DEF Sound, Covered
    <3>3. Covers(b, i)'
      BY <3>2, <2>2, <1>1 DEF Covers
    <3> QED BY <3>3
  <2> QED BY <2>1, <2>2
<1>3. Sided'
  BY DEF Sound, Sided
<1>4. ReceiptsTruthful'
  BY <1>1 DEF Sound, ReceiptsTruthful, Shape, Refs
<1> QED BY <1>2, <1>3, <1>4 DEF Sound

--------------------------------------------------------------------------------
\* Safe is inductive: one lemma per kind of step.

LEMMA SoundSame ==
    ASSUME Sound, UNCHANGED <<journal, attempts>>
    PROVE  Sound'
<1>1. UNCHANGED journal /\ UNCHANGED attempts
  OBVIOUS
<1> QED BY <1>1 DEF Sound, Covered, Sided, ReceiptsTruthful, Covers, Live

LEMMA IdleEntitled ==
    ASSUME NEW v, pc'[v] = "idle"
    PROVE  Entitled(v)'
  BY DEF Entitled, Sole, Intent, Untouched, Receipted, MayAppend

\* A step of worker w that ends its operation, or leaves the others idle.
LEMMA SafeOf ==
    ASSUME NEW w \in Workers, Sound', Entitled(w)',
           \A v \in Workers : v # w => pc'[v] = "idle"
    PROVE  Safe'
  BY IdleEntitled DEF Safe

LEMMA SafeIdle ==
    ASSUME Sound', \A v \in Workers : pc'[v] = "idle"
    PROVE  Safe'
  BY IdleEntitled DEF Safe

LEMMA DeskSafe ==
    ASSUME Shape, Safe, DeskStep
    PROVE  Safe'
<1>1. UNCHANGED journal /\ UNCHANGED attempts /\ UNCHANGED pc /\ UNCHANGED job
  BY DeskShape DEF running
<1>2. Sound'
  BY <1>1, SoundSame DEF Safe
<1>3. ASSUME NEW v \in Workers PROVE Entitled(v)'
  <2>1. Entitled(v)
    BY DEF Safe
  <2> QED BY <1>1, <2>1 DEF Entitled, Sole, Intent, Untouched, Receipted, Only, Live
<1> QED BY <1>2, <1>3 DEF Safe

LEMMA BeginSafe ==
    ASSUME Shape, Safe, NEW w \in Workers, BeginStep(w)
    PROVE  Safe'
<1>1. PICK p \in Posts :
          \/ ApproveBegin(w, p)
          \/ \E op \in {"draft", "submit"} : CliBegin(w, p, op)
          \/ ReconcileBegin(w, p)
          \/ UnscheduleBegin(w, p)
  BY DEF BeginStep
<1>2. UNCHANGED journal /\ UNCHANGED attempts
  BY BeginShape
<1>3. Sound' /\ Sound /\ Refs
  BY <1>2, SoundSame DEF Safe, Shape
<1>4. PICK step, j : Acquire(w, step, j)
  BY <1>1 DEF ApproveBegin, CliBegin, ReconcileBegin, UnscheduleBegin
<1>5. \A v \in Workers : v # w => pc'[v] = "idle"
  <2>1. /\ pc \in [Workers -> Steps] /\ LockExcludes /\ lock = NoWorker
        /\ pc' = [pc EXCEPT ![w] = step]
    BY <1>4 DEF Shape, TypeOK, Acquire
  <2> QED BY <2>1, WorkerAssumption DEF LockExcludes
<1>6. ASSUME NEW s, NEW k, Acquire(w, s, k) PROVE pc'[w] = s /\ job'[w] = k
  BY <1>6 DEF Acquire, Shape, TypeOK
<1>7. CASE ApproveBegin(w, p)
  <2>1. pc'[w] = "decide" /\ job'[w].post = p /\ job'[w].att = 0
    BY <1>6, <1>7 DEF ApproveBegin
  <2>2. ~HasSchedule(journal, p) /\ ~HasPending(journal, p)
    BY <1>7 DEF ApproveBegin
  <2>3. \A i \in DOMAIN journal : ~CountsAsScheduled(journal, p, i) /\ ~PendingRow(journal, p, i)
    BY <2>2 DEF HasSchedule, HasPending
  <2>4. \A b \in DOMAIN attempts : Live(b) => attempts[b].post # p
    BY <1>3, <2>3, CoversBlocks DEF Sound, Covered
  <2>5. Only(p, 0)
    BY <2>3, <2>4 DEF Only
  <2>6. Entitled(w)'
    BY <1>2, <2>1, <2>5
       DEF Entitled, Sole, Intent, Untouched, Receipted, Only, Live
  <2> QED BY <1>3, <1>5, <2>6, SafeOf
<1>8. CASE \E op \in {"draft", "submit"} : CliBegin(w, p, op)
  <2>1. pc'[w] = "execute" /\ job'[w].post = p /\ job'[w].att = 0
    BY <1>6, <1>8 DEF CliBegin
  <2>2. \A i \in DOMAIN journal : ~CountsAsScheduled(journal, p, i)
    BY <1>8 DEF CliBegin, HasSchedule
  <2>3. \A i \in DOMAIN journal : PendingRow(journal, p, i) =>
            journal[i].status = "prepared" /\ ~attempts[journal[i].att].byhand
    BY <1>8 DEF CliBegin
  <2>4. ASSUME NEW b \in DOMAIN attempts, Live(b), attempts[b].post = p PROVE FALSE
    <3>1. PICK i \in DOMAIN journal : Covers(b, i)
      BY <1>3, <2>4 DEF Sound, Covered
    <3>2. /\ PendingRow(journal, p, i)
          /\ journal[i].status = "prepared" => attempts[b].byhand
      BY <2>2, <2>4, <3>1, CoversBlocks
    <3>3. journal[i].att = b
      BY <3>1 DEF Covers
    <3> QED BY <2>3, <3>2, <3>3
  <2>5. Only(p, 0)
    BY <2>2, <2>4 DEF Only
  <2>6. Entitled(w)'
    BY <1>2, <2>1, <2>5
       DEF Entitled, Sole, Intent, Untouched, Receipted, Only, Live
  <2> QED BY <1>3, <1>5, <2>6, SafeOf
<1>9. CASE ReconcileBegin(w, p)
  <2>1. PICK i \in DOMAIN journal :
            /\ PendingRow(journal, p, i)
            /\ journal[i].status \in Unresolved
            /\ Acquire(w, "recheck", [op |-> "reconcile", post |-> p,
                                      snap |-> attempts[journal[i].att].snap,
                                      att |-> journal[i].att, rev |-> 0, src |-> source[p]])
    BY <1>9 DEF ReconcileBegin
  <2>2. pc'[w] = "recheck" /\ job'[w].post = p /\ job'[w].att = journal[i].att
    BY <1>6, <2>1
  <2>3. Decisive(journal, p, i) /\ journal[i].post = p
    BY <2>1 DEF PendingRow, Decisive
  <2>4. Only(p, journal[i].att)
    BY <1>3, <2>3, OnlyOfDecisive DEF Sound
  <2>5. Entitled(w)'
    BY <1>2, <2>1, <2>2, <2>3, <2>4
       DEF Entitled, Sole, Intent, Untouched, Receipted, Only, Live
  <2> QED BY <1>3, <1>5, <2>5, SafeOf
<1>10. CASE UnscheduleBegin(w, p)
  <2>1. PICK i \in DOMAIN journal :
            /\ ScheduledRow(journal, p, i)
            /\ Acquire(w, "unread", [op |-> "unschedule", post |-> p,
                                     snap |-> attempts[journal[i].att].snap,
                                     att |-> journal[i].att, rev |-> 0, src |-> source[p]])
    BY <1>10 DEF UnscheduleBegin
  <2>2. pc'[w] = "unread" /\ job'[w].att = journal[i].att
    BY <1>6, <2>1
  <2>3. journal[i].status = "scheduled"
    BY <2>1 DEF ScheduledRow, CountsAsScheduled
  <2>4. Entitled(w)'
    BY <1>2, <2>2, <2>3 DEF Entitled, Sole, Intent, Untouched, Receipted, MayAppend
  <2> QED BY <1>3, <1>5, <2>4, SafeOf
<1> QED BY <1>1, <1>7, <1>8, <1>9, <1>10

\* Where the holder goes on to step, and what then has to hold of it.
LEMMA GotoEntitled ==
    ASSUME Shape, NEW w \in Workers, NEW step, Goto(w, step), step \in Steps \ {"idle"},
           pc[w] # "idle"
    PROVE  /\ pc'[w] = step /\ job' = job
           /\ \A v \in Workers : v # w => pc'[v] = "idle"
  BY DEF Goto, Shape, TypeOK, LockExcludes

\* News of the holder's own attempt.
LEMMA OwnNews ==
    ASSUME Shape, Safe, NEW w \in Workers,
           pc[w] \in {"prepared", "checked", "armed", "clicked", "verify", "recheck"},
           NEW a, a = job[w].att, NEW p, p = job[w].post,
           NEW status \in RowStatuses, status # "cancelled_remote",
           NEW manual \in BOOLEAN, AppendRow(a, status, manual), UNCHANGED attempts,
           Live(a) => status \in Unresolved \cup {"scheduled"},
           status = "scheduled" => attempts[a].card \in {"landed", "deleted"}
    PROVE  /\ Sound' /\ Only(p, a)'
           /\ \E i \in DOMAIN journal' :
                 /\ Decisive(journal', p, i)
                 /\ journal'[i].att = a /\ journal'[i].status = status
<1>1. a \in DOMAIN attempts /\ attempts[a].post = p
  BY DEF Shape, JobShape, WithAttempt, Steps
<1>2. Sound /\ Only(p, a)
  BY DEF Safe, Entitled, Sole, MayAppend
<1>3. /\ Sound' /\ Only(attempts[a].post, a)'
      /\ \E i \in DOMAIN journal' :
            /\ Decisive(journal', attempts[a].post, i)
            /\ journal'[i].att = a /\ journal'[i].status = status
  BY <1>1, <1>2, NewsSound
<1> QED BY <1>1, <1>3 DEF Only

\* The open row the operation continues.
LEMMA OwnContinue ==
    ASSUME Shape, NEW w, NEW i \in DOMAIN journal, OwnRow(w, i), NEW status, Continue(i, status)
    PROVE  /\ journal[i].manual \in BOOLEAN /\ AppendRow(job[w].att, status, journal[i].manual)
           /\ Decisive(journal, job[w].post, i) /\ journal[i].att = job[w].att
<1>1. journal[i] \in Rows
  BY DEF Shape, TypeOK
<1> QED BY <1>1 DEF OwnRow, Continue, Rows

LEMMA WorkSafe ==
    ASSUME Shape, Safe, NEW w \in Workers, WorkStep(w)
    PROVE  Safe'
<1>1. Sound /\ Entitled(w) /\ TypeOK /\ Refs /\ JobShape /\ LockExcludes
  BY DEF Safe, Shape
<1> DEFINE a0 == job[w].att
           p0 == job[w].post
<1>2. PICK a : a = a0
  OBVIOUS
<1>3. PICK p : p = p0
  OBVIOUS
<1> HIDE DEF a0, p0
<1>4. a = job[w].att /\ p = job[w].post
  BY <1>2, <1>3 DEF a0, p0
<1>5. {"scheduled", "failed_pre_submit", "cancelled_remote", "prepared", "submit_ambiguous",
       "submitted_unverified"} \subseteq RowStatuses
  BY DEF RowStatuses, Blocking, Unresolved
<1>6. CASE /\ pc[w] # "idle" /\ Release(w)
           /\ UNCHANGED <<journal, attempts>>
  BY <1>1, <1>6, SoundSame, ReleaseShape, SafeIdle
<1>7. CASE Approve(w)
  <2>1. /\ pc[w] = "decide" /\ UNCHANGED <<journal, attempts>>
        /\ pc' = [pc EXCEPT ![w] = "execute"] /\ job' = [job EXCEPT ![w].rev = @ + 1]
    BY <1>7 DEF Approve, CanApprove
  <2>2. job[w] \in Jobs
    BY <1>1, <2>1 DEF JobShape
  <2>3. pc'[w] = "execute" /\ job'[w].post = job[w].post /\ job'[w].att = job[w].att
    BY <1>1, <2>1, <2>2 DEF TypeOK, Jobs
  <2>4. \A v \in Workers : v # w => pc'[v] = "idle"
    BY <1>1, <2>1 DEF TypeOK, LockExcludes
  <2>5. Entitled(w)'
    BY <1>1, <2>1, <2>3
       DEF Entitled, Sole, Intent, Untouched, Receipted, Only, Live, MayAppend
  <2> QED BY <1>1, <2>1, <2>4, <2>5, SoundSame, SafeOf
<1>8. CASE ExecuteRaise(w) /\ Goto(w, "raised")
  <2>1. pc[w] = "execute" /\ UNCHANGED <<journal, attempts>>
    BY <1>8 DEF ExecuteRaise
  <2>2. pc'[w] = "raised" /\ \A v \in Workers : v # w => pc'[v] = "idle"
    BY <1>8, <2>1, GotoEntitled DEF Steps
  <2>3. Entitled(w)'
    BY <2>2 DEF Entitled, Sole, Intent, Untouched, Receipted, MayAppend
  <2> QED BY <1>1, <2>1, <2>2, <2>3, SoundSame, SafeOf
<1>9. ASSUME pc[w] = "execute",
             NEW status \in {"prepared", "failed_pre_submit"}, OpenAttempt(w, status),
             NEW step \in {"prepared", "project"}, pc' = [pc EXCEPT ![w] = step]
      PROVE  Safe'
  <2> DEFINE t == [post |-> p, snap |-> job[w].snap, desk |-> job[w].op = "approve",
                   card |-> "none", byhand |-> FALSE]
             d0 == job[w].op = "approve"
  <2>1. PICK b : b = Len(attempts) + 1
    OBVIOUS
  <2>2. PICK r : r = Row(b, p, d0, status, FALSE)
    OBVIOUS
  <2>3. PICK n : n = Len(journal) + 1
    OBVIOUS
  <2>4. job[w] \in Jobs /\ job[w].att = 0
    BY <1>1, <1>9 DEF JobShape
  <2>5. attempts \in Seq(Attempts) /\ journal \in Seq(Rows)
    BY <1>1 DEF TypeOK
  <2>6. t \in Attempts /\ r \in Rows
    BY <1>4, <1>5, <2>1, <2>2, <2>4, <2>5 DEF Jobs, Attempts, Rows, Row, CardStates
  <2>7. attempts' = Append(attempts, t) /\ journal' = Append(journal, r)
    BY <1>4, <1>9, <2>1, <2>2 DEF OpenAttempt
  <2>8. r.att = b /\ r.post = p /\ r.status = status /\ t.card = "none" /\ t.post = p
    BY <2>2 DEF Row
  <2> HIDE DEF t, d0
  <2>9. /\ DOMAIN attempts = 1 .. Len(attempts) /\ Len(attempts) \in Nat
        /\ DOMAIN attempts' = 1 .. b
        /\ \A c \in DOMAIN attempts : c \in DOMAIN attempts' /\ c # b /\ attempts'[c] = attempts[c]
        /\ b \in DOMAIN attempts' /\ attempts'[b] = t
        /\ \A c \in DOMAIN attempts' : c \in DOMAIN attempts \/ c = b
    BY <2>1, <2>5, <2>6, <2>7, Appended
  <2>10. /\ DOMAIN journal = 1 .. Len(journal) /\ Len(journal) \in Nat
         /\ DOMAIN journal' = 1 .. n
         /\ \A i \in DOMAIN journal : i \in DOMAIN journal' /\ i # n /\ journal'[i] = journal[i]
         /\ n \in DOMAIN journal' /\ journal'[n] = r
         /\ \A i \in DOMAIN journal' : i \in DOMAIN journal \/ i = n
    BY <2>3, <2>5, <2>6, <2>7, Appended
  <2>11. \A q, i : q # p => (Decisive(journal', q, i) <=> Decisive(journal, q, i))
    BY <2>5, <2>6, <2>7, <2>8, DecisiveKept
  <2>12. \A q, i : CountsAsScheduled(journal', q, i) <=> CountsAsScheduled(journal, q, i)
    BY <2>5, <2>6, <2>7, <2>8, CountsAppend
  <2>13. /\ \A c \in DOMAIN attempts : Live(c) => attempts[c].post # p
         /\ \A i \in DOMAIN journal : ~CountsAsScheduled(journal, p, i)
    <3>1. Only(p, 0)
      BY <1>1, <1>4, <1>9, <2>4 DEF Entitled, Sole, MayAppend
    <3>2. \A i \in DOMAIN journal : journal[i].att # 0
      BY <1>1, <2>9 DEF Refs
    <3>3. \A c \in DOMAIN attempts : c # 0
      BY <2>9
    <3> QED BY <3>1, <3>2, <3>3 DEF Only
  <2>14. \A q, i : /\ CountsAsScheduled(journal, q, i) => i \in DOMAIN journal /\ journal[i].post = q
                   /\ Decisive(journal, q, i) => i \in DOMAIN journal
    BY DEF CountsAsScheduled, Decisive
  <2>15. Covered'
    <3> SUFFICES ASSUME NEW c \in DOMAIN attempts', Live(c)'
                 PROVE  \E i \in DOMAIN journal' : Covers(c, i)'
      BY DEF Covered
    <3>1. c # b /\ c \in DOMAIN attempts /\ Live(c) /\ attempts[c].post # p
      BY <2>8, <2>9, <2>13 DEF Live
    <3>2. PICK i \in DOMAIN journal : Covers(c, i)
      BY <1>1, <3>1 DEF Sound, Covered
    <3>3. Covers(c, i)'
      BY <3>1, <3>2, <2>9, <2>10, <2>11, <2>12 DEF Covers
    <3> QED BY <3>3, <2>10
  <2>16. Sided'
    <3> SUFFICES ASSUME NEW i \in DOMAIN journal', NEW k \in DOMAIN journal', NEW q,
                        q = journal'[i].post,
                        CountsAsScheduled(journal', q, i),
                        Decisive(journal', q, k) \/ CountsAsScheduled(journal', q, k)
                 PROVE  journal'[k].att = journal'[i].att
      BY DEF Sided
    <3>1. i \in DOMAIN journal /\ CountsAsScheduled(journal, q, i) /\ journal[i].post = q /\ q # p
      BY <2>12, <2>13, <2>14
    <3>2. k \in DOMAIN journal /\ (Decisive(journal, q, k) \/ CountsAsScheduled(journal, q, k))
      BY <2>11, <2>12, <2>14, <3>1
    <3>3. journal[k].att = journal[i].att
      BY <1>1, <3>1, <3>2 DEF Sound, Sided
    <3> QED BY <3>1, <3>2, <3>3, <2>10
  <2>17. ReceiptsTruthful'
    BY <1>1, <2>8, <2>9, <2>10 DEF Sound, ReceiptsTruthful, Refs
  <2>18. pc'[w] = step /\ job'[w].att = b /\ job'[w].post = p
    BY <1>1, <1>4, <1>9, <2>1, <2>4 DEF OpenAttempt, TypeOK, Jobs
  <2>19. \A v \in Workers : v # w => pc'[v] = "idle"
    BY <1>1, <1>9 DEF TypeOK, LockExcludes
  <2>20. Only(p, b)'
    BY <2>8, <2>9, <2>10, <2>12, <2>13, <2>14 DEF Only, Live
  <2>21. Entitled(w)'
    BY <2>8, <2>9, <2>18, <2>20 DEF Entitled, Sole, Intent, Untouched, Receipted
  <2> QED BY <2>15, <2>16, <2>17, <2>19, <2>21, SafeOf DEF Sound
<1>10. CASE ComposeFail(w)
  BY <1>9, <1>10 DEF ComposeFail
<1>11. CASE Compose(w)
  <2>1. PICK step \in {"project", "prepared"} : pc' = [pc EXCEPT ![w] = step]
    BY <1>11 DEF Compose
  <2> QED BY <1>9, <1>11, <2>1 DEF Compose
<1>12. CASE FinalCheck(w)
  <2>1. pc[w] = "prepared" /\ UNCHANGED journal /\ UNCHANGED attempts /\ Goto(w, "checked")
    BY <1>12 DEF FinalCheck
  <2>2. /\ pc'[w] = "checked" /\ job' = job
        /\ \A v \in Workers : v # w => pc'[v] = "idle"
    BY <2>1, GotoEntitled DEF Steps
  <2>3. Entitled(w)'
    BY <1>1, <2>1, <2>2 DEF Entitled, Sole, Intent, Untouched, Receipted, Only, Live, MayAppend
  <2> QED BY <1>1, <2>1, <2>2, <2>3, SoundSame, SafeOf
<1>13. CASE PreSubmitFail(w) \/ Arm(w) \/ ClickFail(w)
            \/ \E status \in Unresolved : Submitted(w, status)
  <2>1. PICK status \in RowStatuses \ {"cancelled_remote", "scheduled"},
             step \in {"project", "armed", "verify"}, manual \in BOOLEAN :
            /\ AppendRow(a, status, manual)
            /\ Goto(w, step)
            /\ \/ pc[w] \in {"prepared", "checked"} \/ status \in Unresolved
            /\ step \in {"armed", "verify"} => status \in Unresolved
            /\ step = "armed" => pc[w] = "checked"
    BY <1>4, <1>5, <1>13
       DEF PreSubmitFail, Arm, ClickFail, Submitted, Unresolved
  <2>2. /\ pc[w] \in {"prepared", "checked", "armed", "clicked"}
        /\ UNCHANGED attempts
    BY <1>13 DEF PreSubmitFail, Arm, ClickFail, Submitted
  <2>3. Live(a) => status \in Unresolved \cup {"scheduled"}
    BY <1>1, <1>4, <2>1, <2>2 DEF Entitled, Untouched, Live
  <2>4. /\ Sound' /\ Only(p, a)'
        /\ \E i \in DOMAIN journal' :
              /\ Decisive(journal', p, i)
              /\ journal'[i].att = a /\ journal'[i].status = status
    <3>1. /\ AppendRow(a, status, manual)
          /\ status \in RowStatuses /\ status # "cancelled_remote" /\ status # "scheduled"
          /\ pc[w] \in {"prepared", "checked", "armed", "clicked", "verify", "recheck"}
      BY <2>1, <2>2
    <3> QED BY <1>4, <2>2, <2>3, <3>1, OwnNews
  <2>5. /\ pc'[w] = step /\ job' = job
        /\ \A v \in Workers : v # w => pc'[v] = "idle"
    BY <2>1, <2>2, GotoEntitled DEF Steps
  <2>6. Entitled(w)'
    <3>1. Sole(w)' /\ Intent(w)' /\ Receipted(w)'
      BY <1>4, <2>1, <2>4, <2>5 DEF Sole, Intent, Receipted
    <3>2. Untouched(w)'
      BY <1>1, <2>1, <2>2, <2>5 DEF Entitled, Untouched
    <3> QED BY <3>1, <3>2 DEF Entitled
  <2> QED BY <2>4, <2>5, <2>6, SafeOf
<1>14. CASE Click(w)
  <2>1. /\ pc[w] = "armed" /\ Goto(w, "clicked") /\ UNCHANGED journal
        /\ attempts' = [attempts EXCEPT ![a].card = "inflight"]
    BY <1>4, <1>14 DEF Click, SetCard
  <2>2. /\ pc'[w] = "clicked" /\ job' = job
        /\ \A v \in Workers : v # w => pc'[v] = "idle"
    BY <2>1, GotoEntitled DEF Steps
  <2>3. a \in DOMAIN attempts /\ attempts[a].post = p /\ attempts[a].card = "none"
    BY <1>1, <1>4, <2>1 DEF JobShape, WithAttempt, Steps, Entitled, Untouched
  <2>4. "inflight" \in CardStates /\ attempts[a].byhand \in BOOLEAN
    <3>1. attempts[a] \in Attempts
      BY <1>1, <2>3 DEF TypeOK
    <3> QED BY <3>1 DEF CardStates, Attempts
  <2>5. /\ DOMAIN attempts' = DOMAIN attempts
        /\ \A c \in DOMAIN attempts : attempts'[c].post = attempts[c].post
        /\ \A c \in DOMAIN attempts : c # a => attempts'[c] = attempts[c]
        /\ attempts'[a].card = "inflight"
    BY <1>1, <2>1, <2>3, <2>4, CardType
  <2>6. PICK i \in DOMAIN journal :
            Decisive(journal, p, i) /\ journal[i].att = a /\ journal[i].status \in Unresolved
    BY <1>1, <1>4, <2>1 DEF Entitled, Intent
  <2>7. Covers(a, i)'
    BY <2>1, <2>3, <2>5, <2>6 DEF Covers
  <2>8. Sound'
    BY <1>1, <2>1, <2>3, <2>4, <2>7, CardSound
  <2>9. Only(p, a)
    BY <1>1, <1>4, <2>1 DEF Entitled, Sole, MayAppend
  <2>10. Only(p, a)'
    BY <2>1, <2>5, <2>9 DEF Only, Live
  <2>11. Entitled(w)'
    BY <1>4, <2>1, <2>2, <2>6, <2>10 DEF Entitled, Sole, Intent, Untouched, Receipted
  <2> QED BY <2>2, <2>8, <2>11, SafeOf
<1>15. CASE ReadBack(w)
  <2>1. PICK i \in DOMAIN journal : OwnRow(w, i) /\ Continue(i, "scheduled")
    BY <1>15 DEF ReadBack
  <2>2. /\ pc[w] \in {"verify", "recheck"} /\ attempts[a].card = "landed"
        /\ Goto(w, "project") /\ UNCHANGED attempts
    BY <1>4, <1>15 DEF ReadBack
  <2>3. Sound'
    BY <1>4, <1>5, <2>1, <2>2, OwnContinue, OwnNews
  <2>4. /\ pc'[w] = "project" /\ \A v \in Workers : v # w => pc'[v] = "idle"
    BY <2>2, GotoEntitled DEF Steps
  <2>5. Entitled(w)'
    BY <2>4 DEF Entitled, Sole, Intent, Untouched, Receipted, MayAppend
  <2> QED BY <2>3, <2>4, <2>5, SafeOf
<1>16. CASE ReadBackMiss(w)
  <2>1. PICK i \in DOMAIN journal : OwnRow(w, i) /\ Continue(i, journal[i].status)
    BY <1>16 DEF ReadBackMiss
  <2>2. pc[w] \in {"verify", "recheck"} /\ UNCHANGED attempts
    BY <1>16 DEF ReadBackMiss
  <2>3. PICK k \in DOMAIN journal : Decisive(journal, p, k) /\ journal[k].status \in Unresolved
    BY <1>1, <1>4, <2>2 DEF Entitled, Intent
  <2>4. i = k
    BY <1>1, <1>4, <2>1, <2>3, OwnContinue, DecisiveUnique DEF TypeOK
  <2>5. /\ journal[i].status \in Unresolved /\ journal[i].status \in RowStatuses
        /\ journal[i].status \notin {"cancelled_remote", "scheduled"}
    BY <2>3, <2>4 DEF Unresolved, RowStatuses, Blocking
  <2>6. Sound'
    BY <1>4, <2>1, <2>2, <2>5, OwnContinue, OwnNews
  <2>7. CASE Release(w)
    BY <2>2, <2>6, <2>7, ReleaseShape, SafeIdle
  <2>8. CASE Goto(w, "project")
    <3>1. /\ pc'[w] = "project" /\ \A v \in Workers : v # w => pc'[v] = "idle"
      BY <2>2, <2>8, GotoEntitled DEF Steps
    <3>2. Entitled(w)'
      BY <3>1 DEF Entitled, Sole, Intent, Untouched, Receipted, MayAppend
    <3> QED BY <2>6, <3>1, <3>2, SafeOf
  <2> QED BY <1>16, <2>7, <2>8 DEF ReadBackMiss
<1>17. CASE UnscheduleAppend(w)
  <2>1. /\ pc[w] = "unread" /\ attempts[a].card # "landed" /\ UNCHANGED attempts
        /\ AppendRow(a, "cancelled_remote", TRUE) /\ Goto(w, "unreview")
    BY <1>4, <1>17 DEF UnscheduleAppend
  <2>2. a \in DOMAIN attempts
    BY <1>1, <1>4, <2>1 DEF JobShape, WithAttempt, Steps
  <2>3. PICK i \in DOMAIN journal : journal[i].att = a /\ journal[i].status = "scheduled"
    BY <1>1, <1>4, <2>1 DEF Entitled, Receipted
  <2>4. attempts[a].card = "deleted"
    BY <1>1, <2>1, <2>3 DEF Sound, ReceiptsTruthful
  <2>5. Sound'
    BY <1>1, <2>1, <2>2, <2>4, CancelSound
  <2>6. /\ pc'[w] = "unreview" /\ \A v \in Workers : v # w => pc'[v] = "idle"
    BY <2>1, GotoEntitled DEF Steps
  <2>7. Entitled(w)'
    BY <2>6 DEF Entitled, Sole, Intent, Untouched, Receipted, MayAppend
  <2> QED BY <2>5, <2>6, <2>7, SafeOf
<1>18. CASE ApproveRefuse(w) \/ UnscheduleRefuse(w) \/ UnscheduleReview(w) \/ Raised(w)
            \/ Project(w) \/ (ExecuteRaise(w) /\ Release(w))
  BY <1>6, <1>18 DEF ApproveRefuse, UnscheduleRefuse, UnscheduleReview, Raised, Project, ExecuteRaise
<1>19. ExecuteRaise(w) => Release(w) \/ Goto(w, "raised")
  BY DEF ExecuteRaise
<1> QED BY <1>7, <1>8, <1>10, <1>11, <1>12, <1>13, <1>14, <1>15, <1>16, <1>17, <1>18, <1>19
        DEF WorkStep

LEMMA CrashSafe ==
    ASSUME Shape, Safe, NEW w \in Workers, ApproveCrash(w) \/ Crash(w)
    PROVE  Safe'
  BY CrashShape, SoundSame, SafeIdle DEF Safe

\* Operations within one step run while every worker is idle, and leave it so.
LEMMA SettleSafe ==
    ASSUME Shape, Safe, SettleStep
    PROVE  Safe'
<1>1. /\ UNCHANGED attempts /\ pc' = pc /\ lock = NoWorker
  BY SettleShape DEF running
<1>2. \A v \in Workers : pc'[v] = "idle"
  BY <1>1, WorkerAssumption DEF Shape, LockExcludes
<1>3. Sound /\ TypeOK /\ Refs
  BY DEF Safe, Shape
<1>4. {"scheduled", "failed_pre_submit"} \subseteq RowStatuses
  BY DEF RowStatuses
<1>5. Sound'
  <2>1. CASE UNCHANGED journal
    BY <1>1, <1>3, <2>1, SoundSame
  <2>2. ASSUME NEW p \in Posts, NEW seen \in BOOLEAN, ManualResolve(p, seen)
        PROVE  Sound'
    <3>1. PICK i \in DOMAIN journal, s \in {"scheduled", "failed_pre_submit"}, manual \in BOOLEAN :
              /\ Resolvable(journal, p, i)
              /\ attempts[journal[i].att].card # "inflight"
              /\ s = "scheduled" <=> attempts[journal[i].att].card = "landed"
              /\ AppendRow(journal[i].att, s, manual)
      BY <2>2 DEF ManualResolve
    <3>2. PICK a : a = journal[i].att
      OBVIOUS
    <3>3. a \in DOMAIN attempts /\ attempts[a].post = p /\ journal[i].post = p
      BY <1>3, <3>1, <3>2 DEF Refs, Resolvable, Decisive
    <3>4. Only(attempts[a].post, a)
      BY <1>3, <3>1, <3>2, <3>3, OnlyOfDecisive DEF Resolvable, Sound
    <3>5. /\ Live(a) => s \in Unresolved \cup {"scheduled"}
          /\ s = "scheduled" => attempts[a].card \in {"landed", "deleted"}
      BY <3>1, <3>2 DEF Live
    <3>6. s \in RowStatuses /\ s # "cancelled_remote" /\ AppendRow(a, s, manual)
      BY <1>4, <3>1, <3>2
    <3> QED BY <1>1, <1>3, <3>3, <3>4, <3>5, <3>6, NewsSound
  <2>3. ASSUME NEW a \in DOMAIN attempts, Reverify(a)
        PROVE  Sound'
    <3>1. PICK i \in DOMAIN journal :
              /\ LatestRow(journal, a, i) /\ journal[i].status = "scheduled"
              /\ Continue(i, "scheduled")
      BY <2>3 DEF Reverify
    <3>2. journal[i] \in Rows
      BY <1>3 DEF TypeOK
    <3>3. PICK manual \in BOOLEAN : AppendRow(a, "scheduled", manual)
      BY <3>1, <3>2 DEF Continue, LatestRow, Rows
    <3>4. journal[i].att = a /\ journal[i].post = attempts[a].post
      BY <1>3, <3>1 DEF LatestRow, Refs
    <3>5. CountsAsScheduled(journal, journal[i].post, i)
      BY <3>1, <3>4 DEF LatestRow, CountsAsScheduled
    <3>6. Only(attempts[a].post, a)
      BY <1>3, <3>4, <3>5, OnlyOfScheduled DEF Sound
    <3>7. attempts[a].card \in {"landed", "deleted"}
      BY <1>3, <3>1, <3>4 DEF Sound, ReceiptsTruthful
    <3> QED BY <1>1, <1>3, <1>4, <3>3, <3>6, <3>7, NewsSound
  <2> QED BY <2>1, <2>2, <2>3 DEF SettleStep, RecoverReceipt, RecoverOrphan
<1> QED BY <1>2, <1>5, SafeIdle

LEMMA RemoteSafe ==
    ASSUME Shape, Safe, RemoteStep
    PROVE  Safe'
<1>1. UNCHANGED journal /\ pc' = pc /\ job' = job
  BY RemoteShape DEF running
<1>2. Sound /\ TypeOK /\ Refs /\ JobShape
  BY DEF Safe, Shape
<1>3. PICK a \in DOMAIN attempts :
          \/ \E c \in {"landed", "lost"} : Settle(a, c)
          \/ DeleteCard(a)
          \/ HandSubmit(a)
  BY DEF RemoteStep
<1>4. attempts[a] \in Attempts
  BY <1>2 DEF TypeOK
<1>5. CASE DeleteCard(a) \/ \E c \in {"landed", "lost"} : Settle(a, c)
  <2>1. PICK c \in {"landed", "lost", "deleted"} :
            /\ attempts' = [attempts EXCEPT ![a].card = c]
            /\ attempts[a].card \in {"inflight", "landed"}
            /\ c \in {"lost", "landed"} => attempts[a].card = "inflight"
            /\ c = "deleted" => attempts[a].card = "landed"
    BY <1>5 DEF DeleteCard, Settle, SetCard
  <2>2. PICK byhand \in BOOLEAN : attempts[a].byhand = byhand
    BY <1>4 DEF Attempts
  <2>3. c \in CardStates
    BY DEF CardStates
  <2>4. /\ DOMAIN attempts' = DOMAIN attempts
        /\ \A b \in DOMAIN attempts : attempts'[b].post = attempts[b].post
        /\ \A b \in DOMAIN attempts : b # a => attempts'[b] = attempts[b]
        /\ attempts'[a].card = c
    BY <1>2, <2>1, <2>2, <2>3, CardType
  <2>5. Live(a)
    BY <2>1 DEF Live
  <2>6. PICK i \in DOMAIN journal : Covers(a, i)
    BY <1>2, <2>5 DEF Sound, Covered
  <2>7. attempts'[a].byhand = attempts[a].byhand
    <3>1. attempts'[a] = [attempts[a] EXCEPT !.card = c]
      BY <1>2, <2>1 DEF TypeOK
    <3> QED BY <1>4, <3>1 DEF Attempts
  <2>8. Covers(a, i)'
    BY <1>1, <2>4, <2>6, <2>7 DEF Covers
  <2>9. Sound'
    BY <1>1, <1>2, <2>1, <2>2, <2>3, <2>8, CardSound
  <2>10. ASSUME NEW v \in Workers PROVE Entitled(v)'
    <3>1. Entitled(v)
      BY DEF Safe
    <3>2. Sole(v)'
      BY <1>1, <2>4, <2>5, <3>1 DEF Entitled, Sole, Only, Live
    <3>3. Intent(v)' /\ Receipted(v)'
      BY <1>1, <3>1 DEF Entitled, Intent, Receipted
    <3>4. Untouched(v)'
      BY <1>1, <1>2, <2>1, <2>4, <3>1
         DEF Entitled, Untouched, JobShape, WithAttempt, Steps
    <3> QED BY <3>2, <3>3, <3>4 DEF Entitled
  <2> QED BY <2>9, <2>10 DEF Safe
<1>6. CASE HandSubmit(a)
  <2>1. PICK p : p = attempts[a].post
    OBVIOUS
  <2>2. /\ attempts[a].card = "none"
        /\ \A w \in Workers : pc[w] # "idle" => job[w].post # p
        /\ attempts' = [attempts EXCEPT ![a].card = "landed", ![a].byhand = TRUE]
    BY <1>6, <2>1 DEF HandSubmit
  <2>3. PICK i \in DOMAIN journal :
            Decisive(journal, p, i) /\ journal[i].att = a /\ journal[i].status = "prepared"
    BY <1>6, <2>1 DEF HandSubmit
  <2>4. "landed" \in CardStates
    BY DEF CardStates
  <2>5. /\ DOMAIN attempts' = DOMAIN attempts
        /\ \A b \in DOMAIN attempts : attempts'[b].post = attempts[b].post
        /\ \A b \in DOMAIN attempts : b # a => attempts'[b] = attempts[b]
        /\ attempts'[a].card = "landed"
    BY <1>2, <2>2, <2>4, CardType
  <2>6. attempts'[a].byhand
    BY <1>2, <1>4, <2>2 DEF TypeOK, Attempts
  <2>7. Covers(a, i)'
    BY <1>1, <2>1, <2>3, <2>5, <2>6 DEF Covers
  <2>8. PICK byhand \in BOOLEAN : byhand = TRUE
    OBVIOUS
  <2>9. /\ attempts' = [attempts EXCEPT ![a].card = "landed", ![a].byhand = byhand]
        /\ attempts[a].byhand => byhand
    BY <2>2, <2>8
  <2>10. Sound'
    BY <1>1, <1>2, <2>2, <2>4, <2>7, <2>9, CardSound
  <2>11. ASSUME NEW v \in Workers PROVE Entitled(v)'
    <3>1. Entitled(v)
      BY DEF Safe
    <3>2. pc[v] = "idle" => Entitled(v)'
      BY <1>1, IdleEntitled
    <3>3. CASE pc[v] # "idle"
      <4>1. job[v].post # p
        BY <2>2, <3>3
      <4>2. Sole(v)'
        BY <1>1, <2>1, <2>5, <3>1, <4>1 DEF Entitled, Sole, Only, Live
      <4>3. Intent(v)' /\ Receipted(v)'
        BY <1>1, <3>1 DEF Entitled, Intent, Receipted
      <4>4. Untouched(v)'
        BY <1>1, <1>2, <2>1, <2>5, <3>1, <4>1
           DEF Entitled, Untouched, JobShape, WithAttempt, Steps
      <4> QED BY <4>2, <4>3, <4>4 DEF Entitled
    <3> QED BY <3>2, <3>3
  <2> QED BY <2>10, <2>11 DEF Safe
<1> QED BY <1>3, <1>5, <1>6

LEMMA InitSafe == Init => Safe
  BY DEF Init, Safe, Sound, Covered, Sided, ReceiptsTruthful, Entitled, Sole, Intent,
         Untouched, Receipted, MayAppend

LEMMA NextSafe == IInv /\ [Next]_vars => Safe'
<1> SUFFICES ASSUME Shape, Safe, [Next]_vars PROVE Safe'
  BY DEF IInv
<1>1. CASE DeskStep
  BY <1>1, DeskSafe
<1>2. CASE \E w \in Workers : BeginStep(w) \/ WorkStep(w) \/ ApproveCrash(w) \/ Crash(w)
  BY <1>2, BeginSafe, WorkSafe, CrashSafe
<1>3. CASE SettleStep
  BY <1>3, SettleSafe
<1>4. CASE RemoteStep
  BY <1>4, RemoteSafe
<1>5. CASE UNCHANGED vars
  <2>1. UNCHANGED journal /\ UNCHANGED attempts /\ UNCHANGED pc /\ UNCHANGED job
    BY <1>5 DEF vars
  <2>2. Sound'
    BY <2>1, SoundSame DEF Safe
  <2>3. ASSUME NEW v \in Workers PROVE Entitled(v)'
    <3>1. Entitled(v)
      BY DEF Safe
    <3> QED BY <2>1, <3>1 DEF Entitled, Sole, Intent, Untouched, Receipted, Only, Live
  <2> QED BY <2>2, <2>3 DEF Safe
<1> QED BY <1>1, <1>2, <1>3, <1>4, <1>5 DEF Next

LEMMA Inductive == Spec => []IInv
<1>1. Init => IInv
  BY InitShape, InitSafe DEF IInv
<1>2. IInv /\ [Next]_vars => IInv'
  BY NextShape, NextSafe DEF IInv
<1> QED BY <1>1, <1>2, PTL DEF Spec

--------------------------------------------------------------------------------
\* What follows from it.

(* No duplicate publication, whatever crashes, is reconciled, resolved by     *)
(* hand, forced past a draft or cancelled (workflow.execute).                 *)
THEOREM NoDuplicate == Spec => []OneLiveCard
<1>1. IInv => OneLiveCard
  <2> SUFFICES ASSUME IInv, NEW a \in DOMAIN attempts, NEW b \in DOMAIN attempts,
                      Live(a), Live(b), attempts[a].post = attempts[b].post
               PROVE  a = b
    BY DEF OneLiveCard
  <2>1. Shape /\ Covered /\ Sided
    BY DEF IInv, Safe, Sound
  <2>2. PICK i \in DOMAIN journal : Covers(a, i)
    BY <2>1 DEF Covered
  <2>3. journal[i].att = a /\ journal[i].post = attempts[a].post
    BY <2>1, <2>2 DEF Covers, Shape, Refs
  <2>4. Only(journal[i].post, journal[i].att)
    BY <2>1, <2>2, <2>3, OnlyOfDecisive, OnlyOfScheduled DEF Covers
  <2> QED BY <2>3, <2>4 DEF Only
<1> QED BY <1>1, Inductive, PTL

(* Nothing that may be in the calendar is forgotten: the journal refuses a    *)
(* new attempt for the post (scheduled_ and pending_record_for_refs).         *)
THEOREM NothingForgotten == Spec => []LiveCardBlocksRetry
<1>1. IInv => LiveCardBlocksRetry
  <2> SUFFICES ASSUME IInv, NEW a \in DOMAIN attempts, Live(a)
               PROVE  HasSchedule(journal, attempts[a].post) \/ HasPending(journal, attempts[a].post)
    BY DEF LiveCardBlocksRetry
  <2>1. PICK i \in DOMAIN journal : Covers(a, i)
    BY DEF IInv, Safe, Sound, Covered
  <2> QED BY <2>1, CoversBlocks DEF HasSchedule, HasPending
<1> QED BY <1>1, Inductive, PTL

(* A receipt is never invented: a scheduled row's card was in the calendar, a *)
(* cancelled_remote row's card is gone (month readback, records.unschedule).  *)
THEOREM ReceiptsHold == Spec => []ReceiptsTruthful
<1>1. IInv => ReceiptsTruthful
  BY DEF IInv, Safe, Sound
<1> QED BY <1>1, Inductive, PTL

\* Only the registration of a deletion appends a cancelled_remote row.
LEMMA JournalGrows ==
    ASSUME Shape, [Next]_vars
    PROVE  \/ UNCHANGED journal
           \/ \E r \in Rows : journal' = Append(journal, r) /\ r.status # "cancelled_remote"
           \/ \E w \in Workers : UnscheduleAppend(w)
<1>1. /\ \A i \in DOMAIN journal : journal[i] \in Rows
      /\ TypeOK /\ Refs /\ JobShape
  BY DEF Shape, TypeOK
<1>2. {"scheduled", "failed_pre_submit", "prepared", "submit_ambiguous",
       "submitted_unverified"} \subseteq RowStatuses
  BY DEF RowStatuses, Blocking, Unresolved
<1>3. ASSUME NEW a \in DOMAIN attempts, NEW status \in RowStatuses \ {"cancelled_remote"},
             NEW manual \in BOOLEAN, AppendRow(a, status, manual)
      PROVE  \E r \in Rows : journal' = Append(journal, r) /\ r.status # "cancelled_remote"
  <2>1. Row(a, attempts[a].post, attempts[a].desk, status, manual) \in Rows
    BY <1>1, <1>3, RowType
  <2> QED BY <1>3, <2>1 DEF AppendRow, Row
<1>4. ASSUME NEW i \in DOMAIN journal, NEW status \in RowStatuses \ {"cancelled_remote"},
             Continue(i, status)
      PROVE  \E r \in Rows : journal' = Append(journal, r) /\ r.status # "cancelled_remote"
  <2>1. journal[i].att \in DOMAIN attempts /\ journal[i].manual \in BOOLEAN
    BY <1>1 DEF Refs, Rows
  <2> QED BY <1>3, <1>4, <2>1 DEF Continue
<1>5. ASSUME NEW w \in Workers, WorkStep(w)
      PROVE  \/ UNCHANGED journal
             \/ \E r \in Rows : journal' = Append(journal, r) /\ r.status # "cancelled_remote"
             \/ UnscheduleAppend(w)
  <2>1. pc[w] \in WithAttempt => job[w].att \in DOMAIN attempts
    BY <1>1 DEF JobShape
  <2>2. CASE PreSubmitFail(w) \/ Arm(w) \/ ClickFail(w)
              \/ \E status \in Unresolved : Submitted(w, status)
    <3>1. PICK status \in RowStatuses \ {"cancelled_remote"}, manual \in BOOLEAN :
              AppendRow(job[w].att, status, manual)
      BY <1>2, <2>2 DEF PreSubmitFail, Arm, ClickFail, Submitted, Unresolved
    <3>2. pc[w] \in WithAttempt
      BY <2>2 DEF PreSubmitFail, Arm, ClickFail, Submitted, WithAttempt, Steps
    <3> QED BY <1>3, <2>1, <3>1, <3>2
  <2>3. CASE ReadBack(w)
    BY <1>2, <1>4, <2>3 DEF ReadBack
  <2>4. CASE ReadBackMiss(w)
    <3>1. PICK i \in DOMAIN journal : OwnRow(w, i) /\ Continue(i, journal[i].status)
      BY <2>4 DEF ReadBackMiss
    <3>2. journal[i].status \in RowStatuses \ {"cancelled_remote"}
      BY <1>1, <3>1 DEF OwnRow, Decisive, Rows
    <3> QED BY <1>4, <3>1, <3>2
  <2>5. ASSUME NEW status \in {"prepared", "failed_pre_submit"}, OpenAttempt(w, status),
               pc[w] = "execute"
        PROVE  \E r \in Rows : journal' = Append(journal, r) /\ r.status # "cancelled_remote"
    <3> DEFINE r == Row(Len(attempts) + 1, job[w].post, job[w].op = "approve", status, FALSE)
    <3>1. job[w] \in Jobs /\ Len(attempts) \in Nat
      BY <1>1, <2>5 DEF JobShape, TypeOK
    <3>2. r \in Rows /\ r.status = status
      BY <1>2, <3>1 DEF Rows, Row, Jobs
    <3>3. journal' = Append(journal, r)
      BY <2>5 DEF OpenAttempt
    <3> QED BY <3>2, <3>3
  <2>6. CASE ComposeFail(w) \/ Compose(w)
    BY <2>5, <2>6 DEF ComposeFail, Compose
  <2> QED BY <1>5, <2>2, <2>3, <2>4, <2>6
          DEF WorkStep, ApproveRefuse, Approve, ExecuteRaise, FinalCheck, Click, Project,
              Raised, UnscheduleRefuse, UnscheduleReview
<1>6. ASSUME SettleStep
      PROVE  \/ UNCHANGED journal
             \/ \E r \in Rows : journal' = Append(journal, r) /\ r.status # "cancelled_remote"
  <2>1. CASE \E p \in Posts, seen \in BOOLEAN : ManualResolve(p, seen)
    <3>1. PICK i \in DOMAIN journal, status \in {"scheduled", "failed_pre_submit"},
               manual \in BOOLEAN : AppendRow(journal[i].att, status, manual)
      BY <2>1 DEF ManualResolve
    <3> QED BY <1>1, <1>2, <1>3, <3>1 DEF Refs
  <2>2. CASE \E a \in DOMAIN attempts : Reverify(a)
    BY <1>2, <1>4, <2>2 DEF Reverify
  <2> QED BY <1>6, <2>1, <2>2 DEF SettleStep, RecoverReceipt, RecoverOrphan
<1>7. DeskStep => UNCHANGED journal
  BY DeskShape
<1>8. RemoteStep => UNCHANGED journal
  BY RemoteShape
<1>9. ASSUME NEW w \in Workers, BeginStep(w) \/ ApproveCrash(w) \/ Crash(w)
      PROVE  UNCHANGED journal
  BY <1>9, BeginShape, CrashShape
<1>10. UNCHANGED vars => UNCHANGED journal
  BY DEF vars
<1> QED BY <1>5, <1>6, <1>7, <1>8, <1>9, <1>10 DEF Next

(* A post stops being counted as scheduled only when its card is gone and no  *)
(* other card of the post is on its way (records.unschedule).                 *)
THEOREM CancelledWhenGone == Spec => UnscheduledOnlyWhenGone
<1>1. ASSUME IInv, [Next]_vars, NEW p \in Posts,
             HasSchedule(journal, p), ~HasSchedule(journal', p),
             NEW b \in DOMAIN attempts, attempts[b].post = p, Live(b)
      PROVE  FALSE
  <2>1. Shape /\ Sound /\ Covered /\ Sided /\ journal \in Seq(Rows) /\ Refs
    BY <1>1 DEF IInv, Safe, Sound, Shape, TypeOK
  <2>2. PICK i \in DOMAIN journal : CountsAsScheduled(journal, p, i)
    BY <1>1 DEF HasSchedule
  <2>3. b = journal[i].att
    BY <1>1, <2>1, <2>2, OnlyOfScheduled DEF Only, CountsAsScheduled
  <2>4. PICK w \in Workers : UnscheduleAppend(w)
    <3>1. ASSUME NEW r \in Rows, journal' = Append(journal, r), r.status # "cancelled_remote"
          PROVE  FALSE
      <4>1. CountsAsScheduled(journal', p, i)
        BY <2>1, <2>2, <3>1, CountsAppend
      <4> QED BY <1>1, <4>1 DEF HasSchedule, CountsAsScheduled
    <3>2. ~UNCHANGED journal
      BY <1>1
    <3> QED BY <1>1, <2>1, <3>1, <3>2, JournalGrows
  <2>5. PICK a : a = job[w].att
    OBVIOUS
  <2>6. /\ pc[w] = "unread" /\ attempts[a].card # "landed"
        /\ AppendRow(a, "cancelled_remote", TRUE)
    BY <2>4, <2>5 DEF UnscheduleAppend
  <2>7. a \in DOMAIN attempts /\ attempts[a].card = "deleted"
    <3>1. a \in DOMAIN attempts
      BY <2>1, <2>5, <2>6 DEF Shape, JobShape, WithAttempt, Steps
    <3>2. PICK k \in DOMAIN journal : journal[k].att = a /\ journal[k].status = "scheduled"
      BY <1>1, <2>5, <2>6 DEF IInv, Safe, Entitled, Receipted
    <3> QED BY <2>1, <2>6, <3>1, <3>2 DEF Sound, ReceiptsTruthful
  <2>8. a # b
    BY <1>1, <2>7 DEF Live
  <2>9. PICK r \in Rows : journal' = Append(journal, r) /\ r.att = a
    <3>1. "cancelled_remote" \in RowStatuses /\ Refs /\ TypeOK
      BY <2>1 DEF RowStatuses, Shape
    <3>2. PICK manual \in BOOLEAN : AppendRow(a, "cancelled_remote", manual)
      BY <2>6
    <3>3. Row(a, attempts[a].post, attempts[a].desk, "cancelled_remote", manual) \in Rows
      BY <2>7, <3>1, RowType
    <3> QED BY <3>2, <3>3 DEF AppendRow, Row
  <2>10. CountsAsScheduled(journal', p, i)
    BY <2>1, <2>2, <2>3, <2>8, <2>9, CountsAppend
  <2> QED BY <1>1, <2>10 DEF HasSchedule, CountsAsScheduled
<1>2. IInv /\ [Next]_vars =>
          [\A p \in Posts :
              (HasSchedule(journal, p) /\ ~HasSchedule(journal', p)) =>
                  \A a \in DOMAIN attempts : attempts[a].post = p => ~Live(a)]_vars
  BY <1>1
<1> QED BY <1>2, Inductive, PTL DEF Spec, UnscheduledOnlyWhenGone

--------------------------------------------------------------------------------
(* EVIDENCE.  What an attempt submits was confirmed in exactly that version,   *)
(* and stays on file.  The argument is about snapshots: one that an unlock may *)
(* void belongs to a post whose review holds it as "content_locked", and no    *)
(* attempt, and no operation about to open one, has that snapshot.             *)

Names(sn, s, p) == s \in DOMAIN sn /\ sn[s].post = p

Usable(sn, s, p) == Names(sn, s, p) /\ sn[s].state = "frozen" /\ sn[s].bound

\* A confirmation that counts is one the ledger keeps.
Vouching ==
    \A p \in Posts : content[p] # 0 /\ (confirmed[p] = 0 \/ confirmed[p] \in vouched[p])

AttemptOk(at, sn) == Usable(sn, at.snap, at.post)

LedgerOk(r, p, sn, as, j) ==
    /\ r.snap # 0 => Names(sn, r.snap, p)
    /\ r.status = "approved" => Usable(sn, r.snap, p)
    /\ r.status = "content_locked" => r.snap # 0 /\ \A a \in DOMAIN as : as[a].snap # r.snap
    /\ r.status = "scheduled" => \E i \in DOMAIN j : j[i].post = p /\ j[i].status = "scheduled"

TaskOk(step, jb, sn, as, v) ==
    /\ step = "decide" => Names(sn, jb.snap, jb.post)
    /\ step = "execute" => Usable(sn, jb.snap, jb.post)
    /\ step \in WithAttempt => as[jb.att].snap = jb.snap
    /\ step = "checked" => sn[jb.snap].content \in v[jb.post]

\* An operation that opens an attempt does so with a snapshot no review can void.
FreeOk(step, jb, r) == step = "execute" /\ r.status = "content_locked" => jb.snap # r.snap

RowOk(row, sn, as, v) ==
    row.status \in Unresolved => sn[as[row.att].snap].content \in v[as[row.att].post]

Evid ==
    /\ Vouching
    /\ \A a \in DOMAIN attempts : AttemptOk(attempts[a], snaps)
    /\ \A p \in Posts : LedgerOk(review[p], p, snaps, attempts, journal)
    /\ \A w \in Workers : TaskOk(pc[w], job[w], snaps, attempts, vouched)
    /\ \A w \in Workers, p \in Posts : FreeOk(pc[w], job[w], review[p])
    /\ \A i \in DOMAIN journal : RowOk(journal[i], snaps, attempts, vouched)

\* What a step leaves as it was, part by part.
SnapsKept ==
    /\ DOMAIN snaps \subseteq DOMAIN snaps'
    /\ \A s \in DOMAIN snaps :
          /\ snaps'[s].post = snaps[s].post /\ snaps'[s].content = snaps[s].content
          /\ snaps'[s].state = snaps[s].state
          /\ snaps[s].bound => snaps'[s].bound

SnapsOfAttemptsKept ==
    /\ DOMAIN attempts \subseteq DOMAIN attempts'
    /\ \A a \in DOMAIN attempts :
          attempts'[a].post = attempts[a].post /\ attempts'[a].snap = attempts[a].snap

JournalKept ==
    /\ DOMAIN journal \subseteq DOMAIN journal'
    /\ \A i \in DOMAIN journal : journal'[i] = journal[i]

VouchedKept == \A p \in Posts : vouched[p] \subseteq vouched'[p]

\* What is new has to be in order by itself.
AttemptNew(a) ==
    /\ AttemptOk(attempts[a], snaps)'
    /\ \A p \in Posts : review'[p].status = "content_locked" => attempts'[a].snap # review'[p].snap

LedgerNew(p) ==
    LET r == review'[p]
    IN /\ r.snap # 0 => Names(snaps', r.snap, p)
       /\ r.status = "approved" => Usable(snaps', r.snap, p)
       /\ r.status = "content_locked" => r.snap # 0 /\ r.snap \notin DOMAIN snaps
       /\ r.status = "scheduled" =>
             \E i \in DOMAIN journal' : journal'[i].post = p /\ journal'[i].status = "scheduled"

TaskNew(w) ==
    /\ TaskOk(pc[w], job[w], snaps, attempts, vouched)'
    /\ \A p \in Posts : FreeOk(pc[w], job[w], review[p])'

LEMMA EvidFrom ==
    ASSUME Shape, Evid, SnapsKept, SnapsOfAttemptsKept, JournalKept, VouchedKept, Vouching',
           \A a \in DOMAIN attempts' : a \in DOMAIN attempts \/ AttemptNew(a),
           \A p \in Posts : review'[p] = review[p] \/ LedgerNew(p),
           \A w \in Workers : (pc'[w] = pc[w] /\ job'[w] = job[w]) \/ TaskNew(w),
           \A i \in DOMAIN journal' : i \in DOMAIN journal \/ RowOk(journal[i], snaps, attempts, vouched)'
    PROVE  Evid'
<1>0. \A a \in DOMAIN attempts : attempts[a].post \in Posts
  <2>1. \A a \in DOMAIN attempts : attempts[a] \in Attempts
    BY DEF Shape, TypeOK
  <2> QED BY <2>1 DEF Attempts
<1>1. /\ \A a \in DOMAIN attempts : AttemptOk(attempts[a], snaps) /\ attempts[a].post \in Posts
      /\ \A p \in Posts : LedgerOk(review[p], p, snaps, attempts, journal)
      /\ \A w \in Workers : TaskOk(pc[w], job[w], snaps, attempts, vouched)
      /\ \A w \in Workers, p \in Posts : FreeOk(pc[w], job[w], review[p])
      /\ \A i \in DOMAIN journal : RowOk(journal[i], snaps, attempts, vouched)
  BY <1>0 DEF Evid
<1>2. \A s, p : (Names(snaps, s, p) => Names(snaps', s, p)) /\ (Usable(snaps, s, p) => Usable(snaps', s, p))
  BY DEF SnapsKept, Names, Usable
<1>3. \A a \in DOMAIN attempts : attempts[a].snap \in DOMAIN snaps
  BY <1>1 DEF AttemptOk, Usable, Names
<1>4. ASSUME NEW a \in DOMAIN attempts' PROVE AttemptOk(attempts[a], snaps)'
  <2>1. CASE a \in DOMAIN attempts
    BY <1>1, <1>2, <2>1 DEF SnapsOfAttemptsKept, AttemptOk
  <2>2. CASE a \notin DOMAIN attempts
    BY <2>2 DEF AttemptNew
  <2> QED BY <2>1, <2>2
<1>5. ASSUME NEW p \in Posts PROVE LedgerOk(review[p], p, snaps, attempts, journal)'
  <2>1. review'[p].status = "content_locked" => review'[p].snap # 0
        /\ \A a \in DOMAIN attempts : attempts[a].snap # review'[p].snap
    BY <1>1, <1>3 DEF LedgerOk, LedgerNew
  <2>2. review'[p].status = "content_locked" => \A a \in DOMAIN attempts' : attempts'[a].snap # review'[p].snap
    BY <2>1 DEF SnapsOfAttemptsKept, AttemptNew
  <2>3. review'[p].snap # 0 => Names(snaps', review'[p].snap, p)
    BY <1>1, <1>2 DEF LedgerOk, LedgerNew
  <2>4. review'[p].status = "approved" => Usable(snaps', review'[p].snap, p)
    BY <1>1, <1>2 DEF LedgerOk, LedgerNew
  <2>5. review'[p].status = "scheduled" =>
            \E i \in DOMAIN journal' : journal'[i].post = p /\ journal'[i].status = "scheduled"
    BY <1>1 DEF LedgerOk, LedgerNew, JournalKept
  <2> QED BY <2>1, <2>2, <2>3, <2>4, <2>5 DEF LedgerOk
<1>6. ASSUME NEW w \in Workers PROVE TaskOk(pc[w], job[w], snaps, attempts, vouched)'
  <2>1. CASE TaskNew(w)
    BY <2>1 DEF TaskNew
  <2>2. CASE pc'[w] = pc[w] /\ job'[w] = job[w]
    <3>1. TaskOk(pc[w], job[w], snaps, attempts, vouched)
      BY <1>1
    <3>2. pc[w] = "decide" => Names(snaps', job[w].snap, job[w].post)
      BY <1>2, <3>1 DEF TaskOk
    <3>3. pc[w] = "execute" => Usable(snaps', job[w].snap, job[w].post)
      BY <1>2, <3>1 DEF TaskOk
    <3>4. pc[w] \in WithAttempt => job[w].att \in DOMAIN attempts /\ attempts'[job[w].att].snap = job[w].snap
      BY <3>1 DEF TaskOk, SnapsOfAttemptsKept, Shape, JobShape
    <3>5. pc[w] = "checked" => snaps'[job[w].snap].content \in vouched'[job[w].post]
      <4>1. SUFFICES ASSUME pc[w] = "checked" PROVE snaps'[job[w].snap].content \in vouched'[job[w].post]
        OBVIOUS
      <4>2. pc[w] \in WithAttempt /\ pc[w] # "idle"
        BY <4>1 DEF WithAttempt, Steps
      <4>3. job[w].post \in Posts /\ job[w].att \in DOMAIN attempts /\ attempts[job[w].att].snap = job[w].snap
        BY <3>1, <4>2 DEF TaskOk, Shape, JobShape, Jobs
      <4>4. job[w].snap \in DOMAIN snaps
        BY <1>3, <4>3
      <4>5. snaps[job[w].snap].content \in vouched[job[w].post]
        BY <3>1, <4>1 DEF TaskOk
      <4> QED BY <4>3, <4>4, <4>5 DEF SnapsKept, VouchedKept
    <3> QED BY <2>2, <3>2, <3>3, <3>4, <3>5 DEF TaskOk
  <2> QED BY <2>1, <2>2
<1>7. ASSUME NEW w \in Workers, NEW p \in Posts PROVE FreeOk(pc[w], job[w], review[p])'
  <2>1. CASE TaskNew(w)
    BY <2>1 DEF TaskNew
  <2>2. CASE pc'[w] = pc[w] /\ job'[w] = job[w] /\ review'[p] = review[p]
    BY <1>1, <2>2 DEF FreeOk
  <2>3. CASE pc'[w] = pc[w] /\ job'[w] = job[w] /\ LedgerNew(p)
    <3>1. pc[w] = "execute" => job[w].snap \in DOMAIN snaps
      BY <1>1 DEF TaskOk, Usable, Names
    <3>2. review'[p].status = "content_locked" => review'[p].snap \notin DOMAIN snaps
      BY <2>3 DEF LedgerNew
    <3> QED BY <2>3, <3>1, <3>2 DEF FreeOk
  <2> QED BY <2>1, <2>2, <2>3
<1>8. ASSUME NEW i \in DOMAIN journal' PROVE RowOk(journal[i], snaps, attempts, vouched)'
  <2>1. CASE i \in DOMAIN journal
    <3>1. RowOk(journal[i], snaps, attempts, vouched) /\ journal[i].att \in DOMAIN attempts
      BY <1>1, <2>1 DEF Shape, Refs
    <3>2. attempts[journal[i].att].snap \in DOMAIN snaps /\ attempts[journal[i].att].post \in Posts
      BY <1>1, <1>3, <3>1
    <3> QED BY <2>1, <3>1, <3>2 DEF JournalKept, SnapsOfAttemptsKept, SnapsKept, VouchedKept, RowOk
  <2>2. CASE i \notin DOMAIN journal
    BY <2>2
  <2> QED BY <2>1, <2>2
<1> QED BY <1>4, <1>5, <1>6, <1>7, <1>8 DEF Evid

LEMMA Same ==
    /\ UNCHANGED snaps => SnapsKept
    /\ UNCHANGED attempts => SnapsOfAttemptsKept
    /\ UNCHANGED journal => JournalKept
    /\ UNCHANGED vouched => VouchedKept
    /\ UNCHANGED desk => VouchedKept /\ (Vouching => Vouching')
  BY DEF SnapsKept, SnapsOfAttemptsKept, JournalKept, VouchedKept, Vouching, desk

\* A worker that is done has nothing in hand.
LEMMA IdleNew ==
    ASSUME NEW w, pc'[w] = "idle"
    PROVE  TaskNew(w)
  BY DEF TaskNew, TaskOk, FreeOk, WithAttempt

LEMMA Released ==
    ASSUME Shape, NEW w \in Workers, pc[w] # "idle", Release(w)
    PROVE  \A v \in Workers : TaskNew(v)
  BY ReleaseShape, IdleNew

\* A worker that goes on with its attempt keeps the attempt's snapshot.
LEMMA WentOn ==
    ASSUME Shape, Evid, SnapsOfAttemptsKept, NEW w \in Workers, NEW step \in WithAttempt \ {"checked"},
           pc[w] \in WithAttempt, Goto(w, step)
    PROVE  \A v \in Workers : (pc'[v] = pc[v] /\ job'[v] = job[v]) \/ TaskNew(v)
<1>1. pc \in [Workers -> Steps] /\ job' = job /\ pc' = [pc EXCEPT ![w] = step]
  BY DEF Shape, TypeOK, Goto
<1>2. TaskOk(pc[w], job[w], snaps, attempts, vouched) /\ job[w].att \in DOMAIN attempts
  BY DEF Evid, Shape, JobShape
<1>3. pc'[w] = step /\ job'[w] = job[w] /\ attempts'[job[w].att].snap = job[w].snap
  BY <1>1, <1>2 DEF TaskOk, SnapsOfAttemptsKept
<1>4. step \notin {"decide", "execute", "checked"}
  BY DEF WithAttempt, Steps
<1>5. TaskNew(w)
  BY <1>3, <1>4 DEF TaskNew, TaskOk, FreeOk
<1> QED BY <1>1, <1>5

\* One worker takes another step.
LEMMA OneWorker ==
    ASSUME Shape, NEW w \in Workers, NEW step, NEW j,
           pc' = [pc EXCEPT ![w] = step], job' = [job EXCEPT ![w] = j] \/ (job' = job /\ j = job[w]),
           TaskOk(step, j, snaps', attempts', vouched'),
           \A p \in Posts : FreeOk(step, j, review'[p])
    PROVE  \A v \in Workers : (pc'[v] = pc[v] /\ job'[v] = job[v]) \/ TaskNew(v)
<1>1. pc \in [Workers -> Steps] /\ job \in [Workers -> Jobs \cup {NoJob}]
  BY DEF Shape, TypeOK
<1>2. pc'[w] = step /\ job'[w] = j
  BY <1>1
<1>3. TaskNew(w)
  BY <1>2 DEF TaskNew
<1> QED BY <1>1, <1>3

--------------------------------------------------------------------------------
\* Review events.

LEMMA ChangeFacts ==
    ASSUME TypeOK, NEW p \in Posts, NEW action, NEW receipt, NEW snap, Change(p, action, receipt, snap)
    PROVE  /\ \A q \in Posts : q # p => review'[q] = review[q]
           /\ review'[p].status = Recorded(Display(p, receipt), action)
           /\ review'[p].snap = IF action = "unlocked" THEN 0
                                ELSE IF snap # 0 THEN snap ELSE review[p].snap
           /\ Admits(Display(p, receipt), action, Stale(p), receipt)
<1>1. review \in [Posts -> Reviews]
  BY DEF TypeOK
<1>2. PICK status : status = Recorded(Display(p, receipt), action)
  OBVIOUS
<1>3. PICK k : k = IF action = "unlocked" THEN 0 ELSE IF snap # 0 THEN snap ELSE review[p].snap
  OBVIOUS
<1>4. review' = [review EXCEPT ![p] = [status |-> status, action |-> action, snap |-> k,
                                       src |-> source[p], rev |-> review[p].rev + 1]]
  BY <1>2, <1>3 DEF Change
<1>5. review'[p].status = status /\ review'[p].snap = k /\ \A q \in Posts : q # p => review'[q] = review[q]
  BY <1>1, <1>4
<1>6. Admits(Display(p, receipt), action, Stale(p), receipt)
  BY DEF Change
<1> QED BY <1>2, <1>3, <1>5, <1>6

\* An event that names a snapshot makes it the review's.
Takes(p, status, k) ==
    /\ \A q \in Posts : q # p => review'[q] = review[q]
    /\ review'[p].status = status /\ review'[p].snap = k

LEMMA SnapTaken ==
    ASSUME TypeOK, NEW p \in Posts, NEW k, k # 0
    PROVE  /\ Change(p, "content_locked", FALSE, k) => Takes(p, "content_locked", k)
           /\ Change(p, "approved", FALSE, k) => Takes(p, "approved", k)
           /\ Change(p, "scheduled", TRUE, k) => Takes(p, "scheduled", k)
<1>1. review \in [Posts -> Reviews]
  BY DEF TypeOK
<1>2. ASSUME Change(p, "content_locked", FALSE, k) PROVE Takes(p, "content_locked", k)
  <2>1. review' = [review EXCEPT ![p] = [status |-> "content_locked", action |-> "content_locked",
                                         snap |-> k, src |-> source[p], rev |-> review[p].rev + 1]]
    BY <1>2 DEF Change, Recorded
  <2>2. /\ \A q \in Posts : q # p => review'[q] = review[q]
        /\ review'[p] = [status |-> "content_locked", action |-> "content_locked",
                         snap |-> k, src |-> source[p], rev |-> review[p].rev + 1]
    BY <1>1, <2>1
  <2> QED BY <2>2 DEF Takes
<1>3. ASSUME Change(p, "approved", FALSE, k) PROVE Takes(p, "approved", k)
  <2>1. review' = [review EXCEPT ![p] = [status |-> "approved", action |-> "approved",
                                         snap |-> k, src |-> source[p], rev |-> review[p].rev + 1]]
    BY <1>3 DEF Change, Recorded
  <2>2. /\ \A q \in Posts : q # p => review'[q] = review[q]
        /\ review'[p] = [status |-> "approved", action |-> "approved",
                         snap |-> k, src |-> source[p], rev |-> review[p].rev + 1]
    BY <1>1, <2>1
  <2> QED BY <2>2 DEF Takes
<1>4. ASSUME Change(p, "scheduled", TRUE, k) PROVE Takes(p, "scheduled", k)
  <2>1. review' = [review EXCEPT ![p] = [status |-> "scheduled", action |-> "scheduled",
                                         snap |-> k, src |-> source[p], rev |-> review[p].rev + 1]]
    BY <1>4 DEF Change, Recorded
  <2>2. /\ \A q \in Posts : q # p => review'[q] = review[q]
        /\ review'[p] = [status |-> "scheduled", action |-> "scheduled",
                         snap |-> k, src |-> source[p], rev |-> review[p].rev + 1]
    BY <1>1, <2>1
  <2> QED BY <2>2 DEF Takes
<1>5. Change(p, "content_locked", FALSE, k) => Takes(p, "content_locked", k)
  BY <1>2
<1>6. Change(p, "approved", FALSE, k) => Takes(p, "approved", k)
  BY <1>3
<1>7. Change(p, "scheduled", TRUE, k) => Takes(p, "scheduled", k)
  BY <1>4
<1> QED BY <1>5, <1>6, <1>7

Settled == {"approved", "content_locked", "scheduled"}

\* Most events leave the snapshot, or forget it, and promise nothing about it.
LEMMA PlainNew ==
    ASSUME Shape, Evid, SnapsKept, NEW p \in Posts, NEW action, NEW receipt,
           Change(p, action, receipt, 0), Recorded(Display(p, receipt), action) \notin Settled
    PROVE  \A q \in Posts : review'[q] = review[q] \/ LedgerNew(q)
<1>1. /\ \A q \in Posts : q # p => review'[q] = review[q]
      /\ review'[p].status \notin Settled
      /\ review'[p].snap = 0 \/ review'[p].snap = review[p].snap
  BY ChangeFacts DEF Shape
<1>2. review[p].snap # 0 => Names(snaps', review[p].snap, p)
  BY DEF Evid, LedgerOk, SnapsKept, Names
<1>3. LedgerNew(p)
  BY <1>1, <1>2 DEF LedgerNew, Settled
<1> QED BY <1>1, <1>3

LEMMA ReviewSame ==
    UNCHANGED review => \A q \in Posts : review'[q] = review[q] \/ LedgerNew(q)
  OBVIOUS

\* A projection follows a receipt, with the snapshot of its attempt.
LEMMA ProjectNew ==
    ASSUME Shape, Evid, UNCHANGED snaps, NEW a \in DOMAIN attempts, NEW s, ProjectOrFail(a, s),
           s = "scheduled" =>
               \E i \in DOMAIN journal' : journal'[i].post = attempts[a].post /\ journal'[i].status = "scheduled"
    PROVE  \A q \in Posts : review'[q] = review[q] \/ LedgerNew(q)
<1>1. PICK p \in Posts : p = attempts[a].post
  <2>1. attempts[a] \in Attempts
    BY DEF Shape, TypeOK
  <2> QED BY <2>1 DEF Attempts
<1>2. CASE UNCHANGED review
  BY <1>2
<1>3. CASE s = "scheduled" /\ Change(p, "scheduled", TRUE, attempts[a].snap)
  <2>1. AttemptOk(attempts[a], snaps)
    BY DEF Evid
  <2>2. Names(snaps, attempts[a].snap, p) /\ attempts[a].snap # 0
    BY <1>1, <2>1 DEF AttemptOk, Usable, Names, Shape, TypeOK
  <2>4. /\ \A q \in Posts : q # p => review'[q] = review[q]
        /\ review'[p].status = "scheduled" /\ review'[p].snap = attempts[a].snap
    <3>1. PICK k : k = attempts[a].snap
      OBVIOUS
    <3>2. Change(p, "scheduled", TRUE, k) /\ TypeOK /\ k # 0
      BY <1>3, <2>2, <3>1 DEF Shape
    <3> QED BY <3>1, <3>2, SnapTaken DEF Takes
  <2>5. LedgerNew(p)
    BY <1>1, <1>3, <2>2, <2>4 DEF LedgerNew
  <2> QED BY <2>4, <2>5
<1>4. CASE Change(p, "submit_failed", FALSE, 0)
  <2>1. Recorded(Display(p, FALSE), "submit_failed") \notin Settled
    BY DEF Recorded, Settled
  <2>2. SnapsKept
    BY Same
  <2> QED BY <1>4, <2>1, <2>2, PlainNew
<1> QED BY <1>1, <1>2, <1>3, <1>4 DEF ProjectOrFail, ProjectReview

--------------------------------------------------------------------------------
\* Rows.

LEMMA RowNew ==
    ASSUME Shape, NEW a \in DOMAIN attempts, NEW status \in RowStatuses, NEW manual \in BOOLEAN,
           AppendRow(a, status, manual), UNCHANGED <<snaps, attempts, vouched>>,
           status \in Unresolved => snaps[attempts[a].snap].content \in vouched[attempts[a].post]
    PROVE  /\ JournalKept
           /\ \A i \in DOMAIN journal' :
                 i \in DOMAIN journal \/ RowOk(journal[i], snaps, attempts, vouched)'
           /\ \E i \in DOMAIN journal' : /\ journal'[i].post = attempts[a].post
                                         /\ journal'[i].status = status
<1>1. PICK r : r = Row(a, attempts[a].post, attempts[a].desk, status, manual)
  OBVIOUS
<1>2. r \in Rows /\ r.att = a /\ r.status = status /\ r.post = attempts[a].post
  BY <1>1, RowType DEF Shape, Row
<1>3. journal \in Seq(Rows) /\ journal' = Append(journal, r)
  BY <1>1 DEF Shape, TypeOK, AppendRow
<1>4. /\ DOMAIN journal = 1 .. Len(journal) /\ Len(journal) \in Nat
      /\ DOMAIN journal' = 1 .. (Len(journal) + 1)
      /\ \A i \in 1 .. Len(journal) : journal'[i] = journal[i]
      /\ journal'[Len(journal) + 1] = r
  BY <1>2, <1>3, Appended
<1>5. RowOk(r, snaps', attempts', vouched')
  BY <1>2 DEF RowOk
<1>6. ASSUME NEW i \in DOMAIN journal', i \notin DOMAIN journal PROVE journal'[i] = r
  BY <1>4, <1>6
<1>7. JournalKept
  BY <1>4 DEF JournalKept
<1>8. \A i \in DOMAIN journal' : i \in DOMAIN journal \/ RowOk(journal[i], snaps, attempts, vouched)'
  BY <1>5, <1>6
<1>9. Len(journal) + 1 \in DOMAIN journal'
  BY <1>4
<1> QED BY <1>2, <1>4, <1>7, <1>8, <1>9

--------------------------------------------------------------------------------
\* The review desk and the capture side.

\* What the desk refuses to edit is what the ledger records as settled.
LEMMA Editable ==
    ASSUME NEW p \in Posts, DeskShown(p) \notin Terminal \cup Locked
    PROVE  Display(p, FALSE) \notin Terminal \cup Locked
  BY DEF DeskShown, Display, Shown, Terminal, Locked

LEMMA LockedStatus ==
    ASSUME NEW p, Display(p, FALSE) = "content_locked"
    PROVE  review[p].status = "content_locked"
  BY DEF Display, Shown

LEMMA DeskEvid ==
    ASSUME Shape, Evid, DeskStep
    PROVE  Evid'
<1>1. PICK p \in Posts :
          \/ SourceUpdate(p)
          \/ Regenerate(p)
          \/ Edit(p)
          \/ \E yes \in BOOLEAN : Confirm(p, yes)
          \/ LockContent(p)
          \/ \E crashed \in BOOLEAN : UnlockContent(p, crashed)
          \/ \E action \in {"skipped", "handed_off"} : Retire(p, action)
  BY DEF DeskStep
<1>2. UNCHANGED <<journal, attempts, projected>> /\ UNCHANGED running
  BY <1>1 DEF SourceUpdate, Regenerate, Edit, Confirm, LockContent, UnlockContent, Retire
<1>3. /\ TypeOK /\ Vouching /\ content \in [Posts -> Nat] /\ confirmed \in [Posts -> Nat]
      /\ vouched \in [Posts -> SUBSET Nat] /\ snaps \in Seq(Snapshots)
  BY DEF Shape, TypeOK, Evid
<1>4. /\ SnapsOfAttemptsKept /\ JournalKept
      /\ \A a \in DOMAIN attempts' : a \in DOMAIN attempts \/ AttemptNew(a)
      /\ \A w \in Workers : (pc'[w] = pc[w] /\ job'[w] = job[w]) \/ TaskNew(w)
      /\ \A i \in DOMAIN journal' : i \in DOMAIN journal \/ RowOk(journal[i], snaps, attempts, vouched)'
  BY <1>2, Same DEF running
<1>5. CASE SourceUpdate(p) \/ Regenerate(p)
  <2>1. /\ content' = [content EXCEPT ![p] = @ + 1]
        /\ UNCHANGED <<confirmed, vouched>> /\ UNCHANGED <<review, snaps>>
    BY <1>5 DEF SourceUpdate, Regenerate
  <2>2. Vouching'
    BY <1>3, <2>1 DEF Vouching
  <2> QED BY <1>4, <2>1, <2>2, Same, EvidFrom
<1>6. CASE Edit(p)
  <2>1. /\ content' = [content EXCEPT ![p] = @ + 1] /\ Change(p, "edited", FALSE, 0)
        /\ UNCHANGED <<confirmed, vouched>> /\ UNCHANGED snaps
    BY <1>6 DEF Edit
  <2>2. Vouching' /\ SnapsKept /\ VouchedKept
    BY <1>3, <2>1, Same DEF Vouching
  <2>3. Recorded(Display(p, FALSE), "edited") \notin Settled
    BY DEF Recorded, Settled
  <2>4. \A q \in Posts : review'[q] = review[q] \/ LedgerNew(q)
    BY <2>1, <2>2, <2>3, PlainNew
  <2> QED BY <1>4, <2>2, <2>4, EvidFrom
<1>7. CASE \E yes \in BOOLEAN : Confirm(p, yes)
  <2>1. PICK yes \in BOOLEAN : Confirm(p, yes)
    BY <1>7
  <2>2. /\ confirmed' = [confirmed EXCEPT ![p] = IF yes THEN content[p] ELSE 0]
        /\ vouched' = IF yes THEN [vouched EXCEPT ![p] = @ \cup {content[p]}] ELSE vouched
        /\ Change(p, "body_reviewed", FALSE, 0) /\ DeskShown(p) \notin Terminal \cup Locked
        /\ UNCHANGED <<content, snaps>>
    BY <2>1 DEF Confirm
  <2>3. VouchedKept
    BY <1>3, <2>2 DEF VouchedKept
  <2>4. Vouching'
    <3> SUFFICES ASSUME NEW q \in Posts
                 PROVE  content'[q] # 0 /\ (confirmed'[q] = 0 \/ confirmed'[q] \in vouched'[q])
      BY DEF Vouching
    <3>1. content[q] # 0 /\ (confirmed[q] = 0 \/ confirmed[q] \in vouched[q])
      BY <1>3 DEF Vouching
    <3>2. CASE q = p
      BY <1>3, <2>2, <3>1, <3>2
    <3>3. CASE q # p
      BY <1>3, <2>2, <3>1, <3>3
    <3> QED BY <3>2, <3>3
  <2>5. Recorded(Display(p, FALSE), "body_reviewed") \notin Settled
    <3>1. Display(p, FALSE) \notin Terminal \cup Locked
      BY <2>2, Editable
    <3>2. Recorded(Display(p, FALSE), "body_reviewed") = Display(p, FALSE)
      BY DEF Recorded
    <3> QED BY <3>1, <3>2 DEF Settled, Terminal, Locked
  <2>6. SnapsKept
    BY <2>2, Same
  <2>7. \A q \in Posts : review'[q] = review[q] \/ LedgerNew(q)
    BY <2>2, <2>5, <2>6, PlainNew
  <2> QED BY <1>4, <2>3, <2>4, <2>6, <2>7, EvidFrom
<1>8. CASE LockContent(p)
  <2>1. PICK k : k = Len(snaps) + 1
    OBVIOUS
  <2>2. /\ Change(p, "content_locked", FALSE, k) /\ Freeze(p, FALSE) /\ UNCHANGED desk
    BY <1>8, <2>1 DEF LockContent
  <2>3. PICK e : e = [post |-> p, content |-> content[p], src |-> source[p],
                      state |-> "frozen", bound |-> FALSE]
    OBVIOUS
  <2>4. e \in Snapshots /\ e.post = p /\ snaps' = Append(snaps, e)
    BY <2>2, <2>3 DEF Freeze, Shape, TypeOK, Snapshots
  <2>5. /\ DOMAIN snaps = 1 .. Len(snaps) /\ Len(snaps) \in Nat
        /\ DOMAIN snaps' = 1 .. (Len(snaps) + 1)
        /\ \A i \in 1 .. Len(snaps) : snaps'[i] = snaps[i]
        /\ snaps'[Len(snaps) + 1] = e
    BY <1>3, <2>4, Appended
  <2>6. SnapsKept
    BY <2>5 DEF SnapsKept
  <2>7. k # 0
    BY <2>1, <2>5
  <2>8. Takes(p, "content_locked", k)
    BY <1>3, <2>2, <2>7, SnapTaken
  <2>9. k # 0 /\ k \notin DOMAIN snaps /\ Names(snaps', k, p)
    BY <2>1, <2>4, <2>5 DEF Names
  <2>10. LedgerNew(p)
    BY <2>8, <2>9 DEF LedgerNew, Takes
  <2>11. \A q \in Posts : review'[q] = review[q] \/ LedgerNew(q)
    BY <2>8, <2>10 DEF Takes
  <2>12. VouchedKept /\ Vouching'
    BY <1>3, <2>2, Same
  <2> QED BY <1>4, <2>6, <2>11, <2>12, EvidFrom
<1>9. CASE \E action \in {"skipped", "handed_off"} : Retire(p, action)
  <2>1. PICK action \in {"skipped", "handed_off"} : Retire(p, action)
    BY <1>9
  <2>2. Change(p, action, FALSE, 0) /\ UNCHANGED desk /\ UNCHANGED snaps
    BY <2>1 DEF Retire
  <2>3. Recorded(Display(p, FALSE), action) \notin Settled
    BY DEF Recorded, Settled
  <2>4. SnapsKept /\ VouchedKept /\ Vouching'
    BY <1>3, <2>2, Same
  <2>5. \A q \in Posts : review'[q] = review[q] \/ LedgerNew(q)
    BY <2>2, <2>3, <2>4, PlainNew
  <2> QED BY <1>4, <2>4, <2>5, EvidFrom
<1>10. CASE \E crashed \in BOOLEAN : UnlockContent(p, crashed)
  <2>1. PICK s : s = review[p].snap
    OBVIOUS
  <2>2. /\ Display(p, FALSE) = "content_locked" /\ snaps' = [snaps EXCEPT ![s].state = "discarded"]
        /\ UNCHANGED review \/ Change(p, "unlocked", FALSE, 0)
        /\ UNCHANGED desk
    BY <1>10, <2>1 DEF UnlockContent
  <2>3. review[p].status = "content_locked" /\ LedgerOk(review[p], p, snaps, attempts, journal)
    BY <2>2, LockedStatus DEF Evid
  <2>4. Names(snaps, s, p) /\ \A a \in DOMAIN attempts : attempts[a].snap # s
    BY <2>1, <2>3 DEF LedgerOk
  <2>5. /\ DOMAIN snaps' = DOMAIN snaps
        /\ \A x \in DOMAIN snaps : x # s => snaps'[x] = snaps[x]
        /\ snaps'[s].post = p /\ snaps'[s].content = snaps[s].content
    <3>1. snaps[s] \in Snapshots /\ s \in DOMAIN snaps
      BY <1>3, <2>4 DEF Names
    <3>2. snaps'[s] = [snaps[s] EXCEPT !.state = "discarded"]
      BY <1>3, <2>2, <3>1
    <3> QED BY <1>3, <2>2, <2>4, <3>1, <3>2 DEF Names, Snapshots
  <2>6. \A x, q : Names(snaps, x, q) => Names(snaps', x, q)
    BY <2>4, <2>5 DEF Names
  <2>7. \A x, q : Usable(snaps, x, q) /\ x # s => Usable(snaps', x, q)
    BY <2>5 DEF Names, Usable
  <2>8. ASSUME NEW a \in DOMAIN attempts PROVE AttemptOk(attempts[a], snaps')
    <3>1. AttemptOk(attempts[a], snaps)
      BY DEF Evid
    <3> QED BY <2>4, <2>7, <3>1 DEF AttemptOk
  <2>9. ASSUME NEW q \in Posts, q # p PROVE review'[q] = review[q] /\ LedgerOk(review[q], q, snaps', attempts, journal)
    <3>1. review'[q] = review[q] /\ LedgerOk(review[q], q, snaps, attempts, journal)
      BY <1>3, <2>2, <2>9, ChangeFacts DEF Evid
    <3>2. ~Usable(snaps, s, q)
      BY <2>4, <2>9 DEF Usable, Names
    <3> QED BY <2>6, <2>7, <3>1, <3>2 DEF LedgerOk
  <2>10. LedgerOk(review'[p], p, snaps', attempts, journal)
    <3>1. CASE UNCHANGED review
      BY <2>3, <2>6, <3>1 DEF LedgerOk
    <3>2. CASE Change(p, "unlocked", FALSE, 0)
      <4>1. Recorded(Display(p, FALSE), "unlocked") = "edited"
        BY DEF Recorded
      <4>2. review'[p].status = "edited" /\ review'[p].snap = 0
        BY <1>3, <3>2, <4>1, ChangeFacts
      <4> QED BY <4>2 DEF LedgerOk
    <3> QED BY <2>2, <3>1, <3>2
  <2>11. ASSUME NEW w \in Workers PROVE TaskOk(pc[w], job[w], snaps', attempts, vouched)
    <3>1. TaskOk(pc[w], job[w], snaps, attempts, vouched) /\ FreeOk(pc[w], job[w], review[p])
      BY DEF Evid
    <3>2. pc[w] = "execute" => job[w].snap # s
      BY <2>1, <2>3, <3>1 DEF FreeOk
    <3>3. pc[w] = "checked" => job[w].snap \in DOMAIN snaps
      <4>1. SUFFICES ASSUME pc[w] = "checked" PROVE job[w].snap \in DOMAIN snaps
        OBVIOUS
      <4>2. job[w].att \in DOMAIN attempts /\ attempts[job[w].att].snap = job[w].snap
        BY <3>1, <4>1 DEF TaskOk, Shape, JobShape, WithAttempt, Steps
      <4> QED BY <4>2 DEF Evid, AttemptOk, Usable, Names
    <3> QED BY <2>5, <2>6, <2>7, <3>1, <3>2, <3>3 DEF TaskOk
  <2>12. ASSUME NEW w \in Workers, NEW q \in Posts PROVE FreeOk(pc[w], job[w], review'[q])
    <3>1. FreeOk(pc[w], job[w], review[q])
      BY DEF Evid
    <3>2. review'[q] = review[q] \/ review'[q].status # "content_locked"
      <4>1. CASE UNCHANGED review
        BY <4>1
      <4>2. CASE Change(p, "unlocked", FALSE, 0) /\ q = p
        <5>1. Recorded(Display(p, FALSE), "unlocked") = "edited"
          BY DEF Recorded
        <5> QED BY <1>3, <4>2, <5>1, ChangeFacts
      <4> QED BY <2>2, <2>9, <4>1, <4>2
    <3> QED BY <3>1, <3>2 DEF FreeOk
  <2>13. ASSUME NEW i \in DOMAIN journal PROVE RowOk(journal[i], snaps', attempts, vouched)
    <3>1. RowOk(journal[i], snaps, attempts, vouched) /\ journal[i].att \in DOMAIN attempts
      BY DEF Evid, Shape, Refs
    <3>2. AttemptOk(attempts[journal[i].att], snaps)
      BY <3>1 DEF Evid
    <3> QED BY <2>4, <2>5, <3>1, <3>2 DEF RowOk, AttemptOk, Usable, Names
  <2>14. Vouching' /\ UNCHANGED <<pc, job>> /\ UNCHANGED vouched
    BY <1>2, <1>3, <2>2, Same DEF running, desk
  <2>15. \A q \in Posts : LedgerOk(review'[q], q, snaps', attempts, journal)
    BY <2>9, <2>10
  <2>16. \A a \in DOMAIN attempts : AttemptOk(attempts[a], snaps')
    BY <2>8
  <2>17. \A w \in Workers : TaskOk(pc[w], job[w], snaps', attempts, vouched)
    BY <2>11
  <2>18. \A w \in Workers, q \in Posts : FreeOk(pc[w], job[w], review'[q])
    BY <2>12
  <2>19. \A i \in DOMAIN journal : RowOk(journal[i], snaps', attempts, vouched)
    BY <2>13
  <2> QED BY <1>2, <2>14, <2>15, <2>16, <2>17, <2>18, <2>19 DEF Evid
<1> QED BY <1>1, <1>5, <1>6, <1>7, <1>8, <1>9, <1>10

--------------------------------------------------------------------------------
\* Operations.

\* A step that changes neither a store nor an attempt only has to account for its worker.
LEMMA WorkerOnly ==
    ASSUME Shape, Evid, UNCHANGED <<desk, review, snaps, journal, attempts>>,
           \A w \in Workers : (pc'[w] = pc[w] /\ job'[w] = job[w]) \/ TaskNew(w)
    PROVE  Evid'
<1>1. SnapsKept /\ SnapsOfAttemptsKept /\ JournalKept /\ VouchedKept /\ Vouching'
  BY Same DEF Evid
<1> QED BY <1>1, EvidFrom

\* What a review that is held with its content says of the snapshot.
LEMMA LockedSnap ==
    ASSUME Evid, NEW p \in Posts, review[p].status = "content_locked"
    PROVE  Names(snaps, review[p].snap, p)
  BY DEF Evid, LedgerOk

LEMMA BeginEvid ==
    ASSUME Shape, Evid, NEW w \in Workers, BeginStep(w)
    PROVE  Evid'
<1>1. PICK p \in Posts :
          \/ ApproveBegin(w, p)
          \/ \E op \in {"draft", "submit"} : CliBegin(w, p, op)
          \/ ReconcileBegin(w, p)
          \/ UnscheduleBegin(w, p)
  BY DEF BeginStep
<1>2. CASE ApproveBegin(w, p)
  <2>1. PICK j : j = [op |-> "approve", post |-> p, snap |-> review[p].snap, att |-> 0,
                      rev |-> review[p].rev, src |-> source[p]]
    OBVIOUS
  <2>2. /\ pc' = [pc EXCEPT ![w] = "decide"] /\ job' = [job EXCEPT ![w] = j]
        /\ Display(p, FALSE) = "content_locked"
        /\ UNCHANGED <<desk, review, snaps, journal, attempts>>
    BY <1>2, <2>1 DEF ApproveBegin, Acquire
  <2>3. Names(snaps, review[p].snap, p)
    BY <2>2, LockedStatus, LockedSnap
  <2>4. TaskOk("decide", j, snaps', attempts', vouched')
    BY <2>1, <2>2, <2>3 DEF TaskOk, WithAttempt
  <2>5. \A q \in Posts : FreeOk("decide", j, review'[q])
    BY DEF FreeOk
  <2> QED BY <2>2, <2>4, <2>5, OneWorker, WorkerOnly
<1>3. CASE \E op \in {"draft", "submit"} : CliBegin(w, p, op)
  <2>1. PICK op \in {"draft", "submit"} : CliBegin(w, p, op)
    BY <1>3
  <2>2. PICK k : k = Len(snaps) + 1
    OBVIOUS
  <2>3. PICK j : j = [op |-> op, post |-> p, snap |-> k, att |-> 0,
                      rev |-> review[p].rev, src |-> source[p]]
    OBVIOUS
  <2>4. /\ pc' = [pc EXCEPT ![w] = "execute"] /\ job' = [job EXCEPT ![w] = j]
        /\ Freeze(p, TRUE) /\ UNCHANGED <<desk, review, journal, attempts>>
    BY <2>1, <2>2, <2>3 DEF CliBegin, Acquire
  <2>5. PICK e : e = [post |-> p, content |-> content[p], src |-> source[p],
                      state |-> "frozen", bound |-> TRUE]
    OBVIOUS
  <2>6. e \in Snapshots /\ e.post = p /\ e.state = "frozen" /\ e.bound
        /\ snaps' = Append(snaps, e) /\ snaps \in Seq(Snapshots)
    BY <2>4, <2>5 DEF Freeze, Shape, TypeOK, Snapshots
  <2>7. /\ DOMAIN snaps = 1 .. Len(snaps) /\ Len(snaps) \in Nat
        /\ DOMAIN snaps' = 1 .. (Len(snaps) + 1)
        /\ \A i \in 1 .. Len(snaps) : snaps'[i] = snaps[i]
        /\ snaps'[Len(snaps) + 1] = e
    BY <2>6, Appended
  <2>8. SnapsKept /\ k \notin DOMAIN snaps
    BY <2>2, <2>7 DEF SnapsKept
  <2>9. Usable(snaps', k, p)
    BY <2>2, <2>6, <2>7 DEF Usable, Names
  <2>10. TaskOk("execute", j, snaps', attempts', vouched')
    BY <2>3, <2>9 DEF TaskOk, WithAttempt
  <2>11. \A q \in Posts : FreeOk("execute", j, review'[q])
    BY <2>3, <2>4, <2>8, LockedSnap DEF FreeOk, Names
  <2>12. SnapsOfAttemptsKept /\ JournalKept /\ VouchedKept /\ Vouching'
    BY <2>4, Same DEF Evid
  <2> QED BY <2>4, <2>8, <2>10, <2>11, <2>12, OneWorker, EvidFrom
<1>4. CASE ReconcileBegin(w, p) \/ UnscheduleBegin(w, p)
  <2>1. PICK i \in DOMAIN journal, step \in {"recheck", "unread"}, op \in {"reconcile", "unschedule"} :
          /\ Acquire(w, step, [op |-> op, post |-> p, snap |-> attempts[journal[i].att].snap,
                               att |-> journal[i].att, rev |-> 0, src |-> source[p]])
          /\ UNCHANGED <<desk, review, snaps, journal, attempts>>
    BY <1>4 DEF ReconcileBegin, UnscheduleBegin
  <2>2. PICK j : j = [op |-> op, post |-> p, snap |-> attempts[journal[i].att].snap,
                      att |-> journal[i].att, rev |-> 0, src |-> source[p]]
    OBVIOUS
  <2>3. pc' = [pc EXCEPT ![w] = step] /\ job' = [job EXCEPT ![w] = j]
    BY <2>1, <2>2 DEF Acquire
  <2>4. j.snap = attempts[j.att].snap
    BY <2>2
  <2>5. TaskOk(step, j, snaps', attempts', vouched')
    BY <2>1, <2>4 DEF TaskOk
  <2>6. \A q \in Posts : FreeOk(step, j, review'[q])
    BY DEF FreeOk
  <2> QED BY <2>1, <2>3, <2>5, <2>6, OneWorker, WorkerOnly
<1> QED BY <1>1, <1>2, <1>3, <1>4

\* Binding a snapshot to a time voids none.
LEMMA BoundKept ==
    ASSUME Shape, NEW s \in DOMAIN snaps, snaps' = [snaps EXCEPT ![s].bound = TRUE]
    PROVE  /\ SnapsKept
           /\ \A p : Names(snaps, s, p) /\ snaps[s].state = "frozen" => Usable(snaps', s, p)
<1>1. snaps \in Seq(Snapshots) /\ snaps[s] \in Snapshots
  BY DEF Shape, TypeOK
<1>2. PICK e : e = [snaps[s] EXCEPT !.bound = TRUE]
  OBVIOUS
<1>3. /\ e.post = snaps[s].post /\ e.content = snaps[s].content
      /\ e.state = snaps[s].state /\ e.bound
  BY <1>1, <1>2 DEF Snapshots
<1>4. snaps' = [snaps EXCEPT ![s] = e]
  BY <1>2
<1>5. DOMAIN snaps' = DOMAIN snaps /\ snaps'[s] = e /\ \A x \in DOMAIN snaps : x # s => snaps'[x] = snaps[x]
  BY <1>1, <1>4
<1>6. SnapsKept
  BY <1>3, <1>5 DEF SnapsKept
<1> QED BY <1>3, <1>5, <1>6 DEF Names, Usable

\* What the approval finds again under the review lock.
LEMMA ApproveMeets ==
    ASSUME Shape, Evid, NEW w \in Workers, CanApprove(w)
    PROVE  /\ job[w] \in Jobs /\ job[w].post \in Posts
           /\ job[w].snap \in DOMAIN snaps /\ job[w].snap # 0
           /\ Names(snaps, job[w].snap, job[w].post) /\ snaps[job[w].snap].state = "frozen"
<1>1. pc[w] = "decide" /\ snaps[job[w].snap].state = "frozen"
  BY DEF CanApprove
<1>2. job[w] \in Jobs /\ TaskOk(pc[w], job[w], snaps, attempts, vouched)
  BY <1>1 DEF Shape, JobShape, Evid
<1>3. Names(snaps, job[w].snap, job[w].post)
  BY <1>1, <1>2 DEF TaskOk
<1>4. job[w].snap \in DOMAIN snaps /\ snaps \in Seq(Snapshots)
  BY <1>3 DEF Names, Shape, TypeOK
<1>5. job[w].snap # 0
  BY <1>4
<1> QED BY <1>1, <1>2, <1>3, <1>4, <1>5 DEF Jobs

LEMMA ApproveEvid ==
    ASSUME Shape, Evid, NEW w \in Workers, Approve(w)
    PROVE  Evid'
<1>1. PICK p \in Posts, s \in DOMAIN snaps : p = job[w].post /\ s = job[w].snap
  BY ApproveMeets DEF Approve
<1>2. /\ job[w] \in Jobs /\ s \in DOMAIN snaps /\ s # 0
      /\ Names(snaps, s, p) /\ snaps[s].state = "frozen"
  BY <1>1, ApproveMeets DEF Approve
<1>3. /\ snaps' = [snaps EXCEPT ![s].bound = TRUE] /\ Change(p, "approved", FALSE, s)
      /\ pc' = [pc EXCEPT ![w] = "execute"] /\ job' = [job EXCEPT ![w].rev = @ + 1]
      /\ UNCHANGED <<desk, journal, attempts>>
  BY <1>1 DEF Approve
<1>4. SnapsKept /\ Usable(snaps', s, p)
  BY <1>2, <1>3, BoundKept
<1>5. Takes(p, "approved", s)
  BY <1>2, <1>3, SnapTaken DEF Shape
<1>6. LedgerNew(p)
  BY <1>4, <1>5 DEF LedgerNew, Takes, Usable
<1>7. PICK j : j = [job[w] EXCEPT !.rev = @ + 1]
  OBVIOUS
<1>8. j.snap = s /\ j.post = p /\ job' = [job EXCEPT ![w] = j]
  BY <1>1, <1>2, <1>3, <1>7 DEF Jobs
<1>9. TaskOk("execute", j, snaps', attempts', vouched')
  BY <1>4, <1>8 DEF TaskOk, WithAttempt
<1>10. ASSUME NEW q \in Posts PROVE FreeOk("execute", j, review'[q])
  <2>1. CASE q = p
    BY <1>5, <2>1 DEF Takes, FreeOk
  <2>2. CASE q # p
    <3>1. review'[q] = review[q]
      BY <1>5, <2>2 DEF Takes
    <3>2. review[q].status = "content_locked" => review[q].snap # s
      BY <1>2, <2>2, LockedSnap DEF Names
    <3> QED BY <1>8, <3>1, <3>2 DEF FreeOk
  <2> QED BY <2>1, <2>2
<1>11. \A v \in Workers : (pc'[v] = pc[v] /\ job'[v] = job[v]) \/ TaskNew(v)
  BY <1>3, <1>8, <1>9, <1>10, OneWorker
<1>12. \A q \in Posts : review'[q] = review[q] \/ LedgerNew(q)
  BY <1>5, <1>6 DEF Takes
<1>13. SnapsOfAttemptsKept /\ JournalKept /\ VouchedKept /\ Vouching'
  BY <1>3, Same DEF Evid
<1> QED BY <1>3, <1>4, <1>11, <1>12, <1>13, EvidFrom

\* The process dies between the snapshot and the event, or anywhere else.
LEMMA CrashEvid ==
    ASSUME Shape, Evid, NEW w \in Workers, ApproveCrash(w) \/ Crash(w)
    PROVE  Evid'
<1>1. pc[w] # "idle" /\ Release(w) /\ UNCHANGED <<desk, review, journal, attempts>>
  BY DEF ApproveCrash, Crash, CanApprove
<1>2. \A v \in Workers : TaskNew(v)
  BY <1>1, Released
<1>3. SnapsKept
  <2>1. CASE ApproveCrash(w)
    <3>1. PICK s : s = job[w].snap
      OBVIOUS
    <3>2. s \in DOMAIN snaps /\ snaps' = [snaps EXCEPT ![s].bound = TRUE]
      BY <2>1, <3>1, ApproveMeets DEF ApproveCrash
    <3> QED BY <3>2, BoundKept
  <2>2. CASE Crash(w)
    BY <2>2, Same DEF Crash
  <2> QED BY <2>1, <2>2
<1>4. SnapsOfAttemptsKept /\ JournalKept /\ VouchedKept /\ Vouching'
  BY <1>1, Same DEF Evid
<1> QED BY <1>1, <1>2, <1>3, <1>4, EvidFrom

\* A new attempt takes the snapshot of its operation, which no unlock can reach.
LEMMA OpenEvid ==
    ASSUME Shape, Evid, NEW w \in Workers, NEW status \in {"failed_pre_submit", "prepared"},
           NEW step \in {"project", "prepared"}, pc[w] = "execute", OpenAttempt(w, status),
           pc' = [pc EXCEPT ![w] = step]
    PROVE  Evid'
<1>1. PICK a : a = Len(attempts) + 1
  OBVIOUS
<1>2. PICK at : at = [post |-> job[w].post, snap |-> job[w].snap, desk |-> job[w].op = "approve",
                      card |-> "none", byhand |-> FALSE]
  OBVIOUS
<1>3. PICK r : r = Row(a, job[w].post, job[w].op = "approve", status, FALSE)
  OBVIOUS
<1>4. /\ attempts' = Append(attempts, at) /\ journal' = Append(journal, r)
      /\ job' = [job EXCEPT ![w].att = a] /\ UNCHANGED <<desk, review, snaps>>
  BY <1>1, <1>2, <1>3 DEF OpenAttempt
<1>5. job[w] \in Jobs /\ Usable(snaps, job[w].snap, job[w].post)
  BY DEF Shape, JobShape, Evid, TaskOk
<1>6. at \in Attempts /\ at.post = job[w].post /\ at.snap = job[w].snap
  BY <1>2, <1>5 DEF Attempts, Jobs, CardStates
<1>7. /\ DOMAIN attempts = 1 .. Len(attempts) /\ Len(attempts) \in Nat
      /\ DOMAIN attempts' = 1 .. (Len(attempts) + 1)
      /\ \A i \in 1 .. Len(attempts) : attempts'[i] = attempts[i]
      /\ attempts'[Len(attempts) + 1] = at
  BY <1>4, <1>6, Appended DEF Shape, TypeOK
<1>8. r \in Rows /\ r.status = status /\ r.att = a
  BY <1>1, <1>3, <1>5, <1>7 DEF Row, Rows, Jobs, RowStatuses, Blocking
<1>9. /\ DOMAIN journal = 1 .. Len(journal) /\ Len(journal) \in Nat
      /\ DOMAIN journal' = 1 .. (Len(journal) + 1)
      /\ \A i \in 1 .. Len(journal) : journal'[i] = journal[i]
      /\ journal'[Len(journal) + 1] = r
  BY <1>4, <1>8, Appended DEF Shape, TypeOK
<1>10. SnapsOfAttemptsKept /\ JournalKept
  BY <1>7, <1>9 DEF SnapsOfAttemptsKept, JournalKept
<1>11. AttemptNew(a)
  <2>1. AttemptOk(at, snaps')
    BY <1>4, <1>5, <1>6 DEF AttemptOk
  <2>2. \A p \in Posts : review[p].status = "content_locked" => job[w].snap # review[p].snap
    BY DEF Evid, FreeOk
  <2> QED BY <1>1, <1>4, <1>6, <1>7, <2>1, <2>2 DEF AttemptNew
<1>12. \A i \in DOMAIN journal' : i \in DOMAIN journal \/ RowOk(journal[i], snaps, attempts, vouched)'
  <2>1. RowOk(r, snaps', attempts', vouched')
    BY <1>8 DEF RowOk, Unresolved
  <2>2. ASSUME NEW i \in DOMAIN journal', i \notin DOMAIN journal PROVE journal'[i] = r
    BY <1>9, <2>2
  <2> QED BY <2>1, <2>2
<1>13. PICK j : j = [job[w] EXCEPT !.att = a]
  OBVIOUS
<1>14. j.snap = job[w].snap /\ j.att = a /\ job' = [job EXCEPT ![w] = j]
  BY <1>4, <1>5, <1>13 DEF Jobs
<1>15. TaskOk(step, j, snaps', attempts', vouched')
  BY <1>1, <1>6, <1>7, <1>14 DEF TaskOk
<1>16. \A q \in Posts : FreeOk(step, j, review'[q])
  BY DEF FreeOk
<1>17. \A v \in Workers : (pc'[v] = pc[v] /\ job'[v] = job[v]) \/ TaskNew(v)
  BY <1>14, <1>15, <1>16, OneWorker
<1>18. \A i \in DOMAIN attempts' : i \in DOMAIN attempts \/ AttemptNew(i)
  BY <1>1, <1>7, <1>11
<1>19. SnapsKept /\ VouchedKept /\ Vouching'
  BY <1>4, Same DEF Evid
<1> QED BY <1>4, <1>10, <1>12, <1>17, <1>18, <1>19, ReviewSame, EvidFrom

\* A step that appends one row about an attempt.
LEMMA RowEvid ==
    ASSUME Shape, Evid, NEW a \in DOMAIN attempts, NEW status \in RowStatuses, NEW manual \in BOOLEAN,
           AppendRow(a, status, manual), UNCHANGED <<desk, review, snaps, attempts>>,
           status \in Unresolved => snaps[attempts[a].snap].content \in vouched[attempts[a].post],
           \A w \in Workers : (pc'[w] = pc[w] /\ job'[w] = job[w]) \/ TaskNew(w)
    PROVE  Evid'
<1>1. SnapsKept /\ SnapsOfAttemptsKept /\ VouchedKept /\ Vouching' /\ UNCHANGED <<snaps, attempts, vouched>>
  BY Same DEF Evid, desk
<1>2. JournalKept /\ \A i \in DOMAIN journal' :
                        i \in DOMAIN journal \/ RowOk(journal[i], snaps, attempts, vouched)'
  BY <1>1, RowNew
<1> QED BY <1>1, <1>2, ReviewSame, EvidFrom

\* A worker appends for its own attempt and goes on.
LEMMA OwnRowEvid ==
    ASSUME Shape, Evid, NEW w \in Workers, pc[w] \in WithAttempt,
           NEW status \in RowStatuses, NEW manual \in BOOLEAN, NEW step \in WithAttempt \ {"checked"},
           AppendRow(job[w].att, status, manual), Goto(w, step),
           UNCHANGED <<desk, review, snaps, attempts>>,
           status \in Unresolved =>
               snaps[attempts[job[w].att].snap].content \in vouched[attempts[job[w].att].post]
    PROVE  Evid'
<1>1. PICK a : a = job[w].att
  OBVIOUS
<1>2. a \in DOMAIN attempts
  BY <1>1 DEF Shape, JobShape
<1>3. SnapsOfAttemptsKept
  BY Same
<1>4. \A v \in Workers : (pc'[v] = pc[v] /\ job'[v] = job[v]) \/ TaskNew(v)
  BY <1>3, WentOn
<1> QED BY <1>1, <1>2, <1>4, RowEvid

\* Row i says that its attempt may have been submitted: the content was vouched for.
LEMMA RowVouched ==
    ASSUME Evid, NEW i \in DOMAIN journal, journal[i].status \in Unresolved
    PROVE  snaps[attempts[journal[i].att].snap].content \in vouched[attempts[journal[i].att].post]
  BY DEF Evid, RowOk

\* From the announcement of the click to its result.
LEMMA IntentVouched ==
    ASSUME Shape, Safe, Evid, NEW w \in Workers, pc[w] \in {"armed", "clicked", "verify", "recheck"}
    PROVE  snaps[attempts[job[w].att].snap].content \in vouched[attempts[job[w].att].post]
<1>1. PICK i \in DOMAIN journal : journal[i].att = job[w].att /\ journal[i].status \in Unresolved
  BY DEF Safe, Entitled, Intent
<1> QED BY <1>1, RowVouched

LEMMA StepNames ==
    /\ {"prepared", "checked", "armed", "clicked", "verify", "project", "recheck", "unread",
        "unreview"} = WithAttempt
    /\ Unresolved \subseteq RowStatuses
    /\ {"scheduled", "failed_pre_submit", "cancelled_remote", "submit_ambiguous"} \subseteq RowStatuses
    /\ "submit_ambiguous" \in Unresolved
    /\ {"scheduled", "failed_pre_submit", "cancelled_remote"} \cap Unresolved = {}
  BY DEF WithAttempt, Steps, RowStatuses, Blocking, Unresolved

\* Whatever happens to a card, its attempt keeps post and snapshot.
LEMMA CardKept ==
    ASSUME TypeOK, NEW a \in DOMAIN attempts, NEW c, NEW byhand,
           \/ attempts' = [attempts EXCEPT ![a].card = c]
           \/ attempts' = [attempts EXCEPT ![a].card = c, ![a].byhand = byhand]
    PROVE  SnapsOfAttemptsKept /\ DOMAIN attempts' = DOMAIN attempts
<1>1. attempts \in Seq(Attempts)
  BY DEF TypeOK
<1>2. attempts[a] \in Attempts /\ DOMAIN attempts' = DOMAIN attempts
  BY <1>1
<1>3. \A b \in DOMAIN attempts : b # a => attempts'[b] = attempts[b]
  BY <1>1
<1>4. \/ attempts'[a] = [attempts[a] EXCEPT !.card = c]
      \/ attempts'[a] = [attempts[a] EXCEPT !.card = c, !.byhand = byhand]
  BY <1>1
<1>5. attempts'[a].post = attempts[a].post /\ attempts'[a].snap = attempts[a].snap
  BY <1>2, <1>4 DEF Attempts
<1> QED BY <1>2, <1>3, <1>5 DEF SnapsOfAttemptsKept

LEMMA WorkEvid ==
    ASSUME Shape, Safe, Evid, NEW w \in Workers, WorkStep(w)
    PROVE  Evid'
<1>1. CASE Approve(w)
  BY <1>1, ApproveEvid
<1>2. CASE ApproveRefuse(w) \/ UnscheduleRefuse(w)
  <2>1. pc[w] # "idle" /\ Release(w) /\ UNCHANGED <<desk, review, snaps, journal, attempts>>
    BY <1>2 DEF ApproveRefuse, UnscheduleRefuse
  <2>2. \A v \in Workers : TaskNew(v)
    BY <2>1, Released
  <2> QED BY <2>1, <2>2, WorkerOnly
<1>3. CASE ExecuteRaise(w)
  <2>1. pc[w] = "execute" /\ UNCHANGED <<desk, review, snaps, journal, attempts>>
    BY <1>3 DEF ExecuteRaise
  <2>2. CASE Release(w)
    <3>1. \A v \in Workers : TaskNew(v)
      BY <2>1, <2>2, Released
    <3> QED BY <2>1, <3>1, WorkerOnly
  <2>3. CASE Goto(w, "raised")
    <3>1. PICK j : j = job[w]
      OBVIOUS
    <3>2. pc' = [pc EXCEPT ![w] = "raised"] /\ job' = job /\ j = job[w]
      BY <2>3, <3>1 DEF Goto
    <3>3. TaskOk("raised", j, snaps', attempts', vouched') /\ \A p \in Posts : FreeOk("raised", j, review'[p])
      BY DEF TaskOk, FreeOk, WithAttempt
    <3>4. \A v \in Workers : (pc'[v] = pc[v] /\ job'[v] = job[v]) \/ TaskNew(v)
      BY <3>2, <3>3, OneWorker
    <3> QED BY <2>1, <3>4, WorkerOnly
  <2> QED BY <1>3, <2>2, <2>3 DEF ExecuteRaise
<1>4. CASE ComposeFail(w)
  BY <1>4, OpenEvid DEF ComposeFail
<1>5. CASE Compose(w)
  <2>1. PICK step \in {"project", "prepared"} : pc' = [pc EXCEPT ![w] = step]
    BY <1>5 DEF Compose
  <2> QED BY <1>5, <2>1, OpenEvid DEF Compose
<1>6. CASE FinalCheck(w)
  <2>1. PICK j : j = job[w]
    OBVIOUS
  <2>2. /\ pc[w] = "prepared" /\ pc' = [pc EXCEPT ![w] = "checked"] /\ job' = job /\ j = job[w]
        /\ snaps[j.snap].content = content[j.post] /\ confirmed[j.post] = content[j.post]
        /\ UNCHANGED <<desk, review, snaps, journal, attempts>>
    BY <1>6, <2>1 DEF FinalCheck, Goto, SameContent, ConfirmedNow
  <2>3. TaskOk("prepared", j, snaps, attempts, vouched) /\ j.post \in Posts
    BY <2>2 DEF Evid, Shape, JobShape, Jobs
  <2>4. snaps[j.snap].content \in vouched[j.post]
    BY <2>2, <2>3 DEF Evid, Vouching
  <2>5. attempts[j.att].snap = j.snap
    BY <2>3, StepNames DEF TaskOk
  <2>6. TaskOk("checked", j, snaps', attempts', vouched')
    BY <2>2, <2>4, <2>5 DEF TaskOk, desk
  <2>7. \A p \in Posts : FreeOk("checked", j, review'[p])
    BY DEF FreeOk
  <2>8. \A v \in Workers : (pc'[v] = pc[v] /\ job'[v] = job[v]) \/ TaskNew(v)
    BY <2>2, <2>6, <2>7, OneWorker
  <2> QED BY <2>2, <2>8, WorkerOnly
<1>7. CASE PreSubmitFail(w)
  <2>1. /\ pc[w] \in WithAttempt /\ AppendRow(job[w].att, "failed_pre_submit", FALSE)
        /\ Goto(w, "project") /\ UNCHANGED <<desk, review, snaps, attempts>>
    BY <1>7, StepNames DEF PreSubmitFail
  <2> QED BY <2>1, StepNames, OwnRowEvid
<1>8. CASE Arm(w)
  <2>1. /\ pc[w] = "checked" /\ AppendRow(job[w].att, "submit_ambiguous", FALSE)
        /\ Goto(w, "armed") /\ UNCHANGED <<desk, review, snaps, attempts>>
    BY <1>8 DEF Arm
  <2>2. pc[w] \in WithAttempt
    BY <2>1, StepNames
  <2>3. TaskOk("checked", job[w], snaps, attempts, vouched) /\ attempts[job[w].att].post = job[w].post
    BY <2>1, <2>2 DEF Evid, Shape, JobShape
  <2>4. snaps[attempts[job[w].att].snap].content \in vouched[attempts[job[w].att].post]
    BY <2>3, StepNames DEF TaskOk
  <2> QED BY <2>1, <2>2, <2>4, StepNames, OwnRowEvid
<1>9. CASE Click(w)
  <2>1. PICK a : a = job[w].att
    OBVIOUS
  <2>2. /\ pc[w] = "armed" /\ attempts' = [attempts EXCEPT ![a].card = "inflight"]
        /\ Goto(w, "clicked") /\ UNCHANGED <<desk, review, snaps, journal>>
    BY <1>9, <2>1 DEF Click, SetCard
  <2>3. TypeOK /\ a \in DOMAIN attempts /\ pc[w] \in WithAttempt
    BY <2>1, <2>2, StepNames DEF Shape, JobShape
  <2>5. SnapsOfAttemptsKept /\ DOMAIN attempts' = DOMAIN attempts
    BY <2>2, <2>3, CardKept
  <2>6. \A v \in Workers : (pc'[v] = pc[v] /\ job'[v] = job[v]) \/ TaskNew(v)
    BY <2>2, <2>3, <2>5, StepNames, WentOn
  <2>7. SnapsKept /\ JournalKept /\ VouchedKept /\ Vouching'
    BY <2>2, Same DEF Evid
  <2> QED BY <2>2, <2>5, <2>6, <2>7, EvidFrom
<1>10. CASE ClickFail(w)
  <2>1. /\ pc[w] \in {"armed", "clicked", "verify", "recheck"}
        /\ AppendRow(job[w].att, "submit_ambiguous", FALSE)
        /\ Goto(w, "project") /\ UNCHANGED <<desk, review, snaps, attempts>>
    BY <1>10 DEF ClickFail
  <2>2. pc[w] \in WithAttempt
    BY <2>1, StepNames
  <2> QED BY <2>1, <2>2, StepNames, IntentVouched, OwnRowEvid
<1>11. CASE \E status \in Unresolved : Submitted(w, status)
  <2>1. PICK status \in Unresolved : Submitted(w, status)
    BY <1>11
  <2>2. /\ pc[w] \in {"armed", "clicked", "verify", "recheck"}
        /\ AppendRow(job[w].att, status, FALSE)
        /\ Goto(w, "verify") /\ UNCHANGED <<desk, review, snaps, attempts>>
    BY <2>1 DEF Submitted
  <2>3. pc[w] \in WithAttempt
    BY <2>2, StepNames
  <2> QED BY <2>2, <2>3, StepNames, IntentVouched, OwnRowEvid
<1>12. CASE ReadBack(w)
  <2>1. PICK i \in DOMAIN journal : OwnRow(w, i) /\ Continue(i, "scheduled")
    BY <1>12 DEF ReadBack
  <2>2. PICK manual : manual = journal[i].manual
    OBVIOUS
  <2>3. journal[i] \in Rows
    BY DEF Shape, TypeOK
  <2>4. manual \in BOOLEAN
    BY <2>2, <2>3 DEF Rows
  <2>5. /\ pc[w] \in WithAttempt /\ AppendRow(job[w].att, "scheduled", manual)
        /\ Goto(w, "project") /\ UNCHANGED <<desk, review, snaps, attempts>>
    BY <1>12, <2>1, <2>2, StepNames DEF ReadBack, OwnRow, Continue
  <2> QED BY <2>4, <2>5, StepNames, OwnRowEvid
<1>13. CASE ReadBackMiss(w)
  <2>1. PICK i \in DOMAIN journal : OwnRow(w, i) /\ Continue(i, journal[i].status)
    BY <1>13 DEF ReadBackMiss
  <2>2. PICK a, status, manual : a = journal[i].att /\ status = journal[i].status /\ manual = journal[i].manual
    OBVIOUS
  <2>3. journal[i] \in Rows
    BY DEF Shape, TypeOK
  <2>4. status \in RowStatuses /\ manual \in BOOLEAN
    BY <2>2, <2>3 DEF Rows
  <2>5. a \in DOMAIN attempts /\ AppendRow(a, status, manual)
    BY <2>1, <2>2 DEF Continue, Shape, Refs
  <2>6. status \in Unresolved => snaps[attempts[a].snap].content \in vouched[attempts[a].post]
    BY <2>2, RowVouched
  <2>7. pc[w] \in WithAttempt /\ pc[w] # "idle" /\ UNCHANGED <<desk, review, snaps, attempts>>
    BY <1>13, StepNames DEF ReadBackMiss
  <2>8. \A v \in Workers : (pc'[v] = pc[v] /\ job'[v] = job[v]) \/ TaskNew(v)
    <3>1. CASE Goto(w, "project")
      <4>1. SnapsOfAttemptsKept
        BY <2>7, Same
      <4> QED BY <2>7, <3>1, <4>1, StepNames, WentOn
    <3>2. CASE Release(w)
      BY <2>7, <3>2, Released
    <3> QED BY <1>13, <3>1, <3>2 DEF ReadBackMiss
  <2> QED BY <2>4, <2>5, <2>6, <2>7, <2>8, RowEvid
<1>14. CASE Project(w)
  <2>1. PICK i \in DOMAIN journal : OwnRow(w, i) /\ ProjectOrFail(job[w].att, journal[i].status)
    BY <1>14 DEF Project
  <2>2. PICK a, s : a = job[w].att /\ s = journal[i].status
    OBVIOUS
  <2>3. /\ pc[w] = "project" /\ pc[w] # "idle" /\ Release(w) /\ UNCHANGED <<desk, snaps, journal, attempts>>
        /\ ProjectOrFail(a, s)
    BY <1>14, <2>1, <2>2 DEF Project
  <2>4. a \in DOMAIN attempts /\ journal[i].post = attempts[a].post
    BY <2>1, <2>2, <2>3, StepNames DEF OwnRow, Shape, JobShape, Refs
  <2>5. \A q \in Posts : review'[q] = review[q] \/ LedgerNew(q)
    BY <2>2, <2>3, <2>4, ProjectNew
  <2>6. SnapsKept /\ SnapsOfAttemptsKept /\ JournalKept /\ VouchedKept /\ Vouching'
    BY <2>3, Same DEF Evid
  <2>7. \A v \in Workers : TaskNew(v)
    BY <2>3, Released
  <2> QED BY <2>3, <2>5, <2>6, <2>7, EvidFrom
<1>15. CASE Raised(w) \/ UnscheduleReview(w)
  <2>1. PICK p : p = job[w].post
    OBVIOUS
  <2>2. /\ pc[w] \in {"raised", "unreview"} /\ pc[w] # "idle" /\ Release(w)
        /\ UNCHANGED <<desk, snaps, journal, attempts>>
        /\ \/ Change(p, "submit_failed", FALSE, 0)
           \/ Change(p, "unscheduled", FALSE, 0)
           \/ UNCHANGED review
    BY <1>15, <2>1 DEF Raised, UnscheduleReview
  <2>3. p \in Posts
    BY <2>1, <2>2 DEF Shape, JobShape, Jobs
  <2>4. SnapsKept /\ SnapsOfAttemptsKept /\ JournalKept /\ VouchedKept /\ Vouching'
    BY <2>2, Same DEF Evid
  <2>5. /\ Recorded(Display(p, FALSE), "submit_failed") \notin Settled
        /\ Recorded(Display(p, FALSE), "unscheduled") \notin Settled
    BY DEF Recorded, Settled
  <2>6. \A q \in Posts : review'[q] = review[q] \/ LedgerNew(q)
    BY <2>2, <2>3, <2>4, <2>5, PlainNew
  <2>7. \A v \in Workers : TaskNew(v)
    BY <2>2, Released
  <2> QED BY <2>2, <2>4, <2>6, <2>7, EvidFrom
<1>16. CASE UnscheduleAppend(w)
  <2>1. /\ pc[w] \in WithAttempt /\ AppendRow(job[w].att, "cancelled_remote", TRUE)
        /\ Goto(w, "unreview") /\ UNCHANGED <<desk, review, snaps, attempts>>
    BY <1>16, StepNames DEF UnscheduleAppend
  <2> QED BY <2>1, StepNames, OwnRowEvid
<1> QED BY <1>1, <1>2, <1>3, <1>4, <1>5, <1>6, <1>7, <1>8, <1>9, <1>10, <1>11, <1>12,
           <1>13, <1>14, <1>15, <1>16 DEF WorkStep

--------------------------------------------------------------------------------
\* Settling, and the world outside.

\* A row is appended and its receipt projected, with no worker involved.
LEMMA SettledRow ==
    ASSUME Shape, Evid, NEW a \in DOMAIN attempts, NEW s \in {"scheduled", "failed_pre_submit"},
           NEW manual \in BOOLEAN, AppendRow(a, s, manual), ProjectOrFail(a, s),
           UNCHANGED <<desk, snaps, attempts>>, UNCHANGED running
    PROVE  Evid'
<1>1. SnapsKept /\ SnapsOfAttemptsKept /\ VouchedKept /\ Vouching' /\ UNCHANGED <<snaps, attempts, vouched>>
  BY Same DEF Evid, desk
<1>2. s \in RowStatuses /\ s \notin Unresolved
  BY StepNames
<1>3. /\ JournalKept
      /\ \A i \in DOMAIN journal' :
            i \in DOMAIN journal \/ RowOk(journal[i], snaps, attempts, vouched)'
      /\ \E i \in DOMAIN journal' : journal'[i].post = attempts[a].post /\ journal'[i].status = s
  BY <1>1, <1>2, RowNew
<1>4. \A q \in Posts : review'[q] = review[q] \/ LedgerNew(q)
  BY <1>1, <1>3, ProjectNew
<1>5. UNCHANGED <<pc, job>>
  BY DEF running
<1> QED BY <1>1, <1>3, <1>4, <1>5, EvidFrom

LEMMA SettleEvid ==
    ASSUME Shape, Evid, SettleStep
    PROVE  Evid'
<1>1. UNCHANGED <<desk, snaps, attempts>> /\ UNCHANGED running
  BY DEF SettleStep, RecoverReceipt, RecoverOrphan, ManualResolve, Reverify, Quiet
<1>2. SnapsKept /\ SnapsOfAttemptsKept /\ VouchedKept /\ Vouching' /\ UNCHANGED <<pc, job>>
  BY <1>1, Same DEF Evid, running
<1>3. \A i \in DOMAIN journal : journal[i] \in Rows /\ journal[i].att \in DOMAIN attempts
                                /\ journal[i].post = attempts[journal[i].att].post
  BY DEF Shape, TypeOK, Refs
<1>4. ASSUME NEW p \in Posts, RecoverReceipt(p) PROVE Evid'
  <2>1. PICK i \in DOMAIN journal :
            \/ ScheduledRow(journal, p, i) /\ ProjectReview(journal[i].att, "scheduled")
            \/ ProjectReview(journal[i].att, journal[i].status)
    BY <1>4 DEF RecoverReceipt
  <2>2. PICK a : a = journal[i].att
    OBVIOUS
  <2>3. PICK s : s = journal[i].status
    OBVIOUS
  <2>4. UNCHANGED journal
    BY <1>4 DEF RecoverReceipt
  <2>5. ProjectOrFail(a, s)
    BY <2>1, <2>2, <2>3 DEF ProjectOrFail, ScheduledRow, CountsAsScheduled
  <2>6. a \in DOMAIN attempts /\ journal[i].post = attempts[a].post
    BY <1>3, <2>2
  <2>7. \A q \in Posts : review'[q] = review[q] \/ LedgerNew(q)
    BY <1>1, <2>3, <2>4, <2>5, <2>6, ProjectNew
  <2>8. JournalKept
    BY <2>4, Same
  <2> QED BY <1>1, <1>2, <2>4, <2>7, <2>8, EvidFrom
<1>5. ASSUME NEW p \in Posts, RecoverOrphan(p) PROVE Evid'
  <2>1. Change(p, "submit_failed", FALSE, 0) /\ UNCHANGED journal
    BY <1>5 DEF RecoverOrphan
  <2>2. Recorded(Display(p, FALSE), "submit_failed") \notin Settled
    BY DEF Recorded, Settled
  <2>3. \A q \in Posts : review'[q] = review[q] \/ LedgerNew(q)
    BY <1>2, <2>1, <2>2, PlainNew
  <2>4. JournalKept
    BY <2>1, Same
  <2> QED BY <1>1, <1>2, <2>1, <2>3, <2>4, EvidFrom
<1>6. ASSUME NEW p \in Posts, NEW seen \in BOOLEAN, ManualResolve(p, seen) PROVE Evid'
  <2>1. PICK i \in DOMAIN journal, s \in {"scheduled", "failed_pre_submit"} :
            AppendRow(journal[i].att, s, TRUE) /\ ProjectOrFail(journal[i].att, s)
    BY <1>6 DEF ManualResolve
  <2>2. PICK a : a = journal[i].att
    OBVIOUS
  <2>3. a \in DOMAIN attempts
    BY <1>3, <2>2
  <2>4. AppendRow(a, s, TRUE) /\ ProjectOrFail(a, s)
    BY <2>1, <2>2
  <2> QED BY <1>1, <2>3, <2>4, SettledRow
<1>7. ASSUME NEW a \in DOMAIN attempts, Reverify(a) PROVE Evid'
  <2>1. PICK i \in DOMAIN journal : LatestRow(journal, a, i) /\ Continue(i, "scheduled")
    BY <1>7 DEF Reverify
  <2>2. PICK manual : manual = journal[i].manual
    OBVIOUS
  <2>3. manual \in BOOLEAN
    BY <1>3, <2>2 DEF Rows
  <2>4. AppendRow(a, "scheduled", manual) /\ ProjectOrFail(a, "scheduled")
    BY <1>7, <2>1, <2>2 DEF Continue, LatestRow, Reverify
  <2> QED BY <1>1, <2>3, <2>4, SettledRow
<1> QED BY <1>4, <1>5, <1>6, <1>7 DEF SettleStep

LEMMA RemoteEvid ==
    ASSUME Shape, Evid, RemoteStep
    PROVE  Evid'
<1>1. PICK a \in DOMAIN attempts, c \in CardStates, byhand \in BOOLEAN :
          \/ attempts' = [attempts EXCEPT ![a].card = c]
          \/ attempts' = [attempts EXCEPT ![a].card = c, ![a].byhand = byhand]
  BY DEF RemoteStep, Settle, DeleteCard, HandSubmit, SetCard, CardStates
<1>2. UNCHANGED <<desk, review, snaps, journal>> /\ UNCHANGED running
  BY DEF RemoteStep, Settle, DeleteCard, HandSubmit
<1>3. SnapsOfAttemptsKept /\ DOMAIN attempts' = DOMAIN attempts
  BY ZenonT(60), <1>1, CardKept DEF Shape
<1>4. SnapsKept /\ JournalKept /\ VouchedKept /\ Vouching'
  BY <1>2, Same DEF Evid
<1> QED BY <1>2, <1>3, <1>4, EvidFrom DEF running

LEMMA InitEvid == Init => Evid
<1> SUFFICES ASSUME Init PROVE Evid
  OBVIOUS
<1>1. DOMAIN attempts = {} /\ DOMAIN journal = {}
  BY DEF Init
<1>2. Vouching
  BY DEF Init, Vouching
<1>3. ASSUME NEW p \in Posts PROVE LedgerOk(review[p], p, snaps, attempts, journal)
  <2>1. review[p] = NoEvent
    BY DEF Init
  <2>2. review[p].snap = 0 /\ review[p].status = "pending_review"
    BY <2>1 DEF NoEvent
  <2> QED BY <2>2 DEF LedgerOk
<1>4. ASSUME NEW w \in Workers PROVE pc[w] = "idle"
  BY DEF Init
<1>5. \A w \in Workers : TaskOk(pc[w], job[w], snaps, attempts, vouched)
  BY <1>4 DEF TaskOk, WithAttempt
<1>6. \A w \in Workers, p \in Posts : FreeOk(pc[w], job[w], review[p])
  BY <1>4 DEF FreeOk
<1> QED BY <1>1, <1>2, <1>3, <1>5, <1>6 DEF Evid

LEMMA NextEvid == IInv /\ Evid /\ [Next]_vars => Evid'
<1> SUFFICES ASSUME Shape, Safe, Evid, [Next]_vars PROVE Evid'
  BY DEF IInv
<1>1. CASE DeskStep
  BY <1>1, DeskEvid
<1>2. CASE \E w \in Workers : BeginStep(w) \/ WorkStep(w) \/ ApproveCrash(w) \/ Crash(w)
  BY <1>2, BeginEvid, WorkEvid, CrashEvid
<1>3. CASE SettleStep
  BY <1>3, SettleEvid
<1>4. CASE RemoteStep
  BY <1>4, RemoteEvid
<1>5. CASE UNCHANGED vars
  <2>1. UNCHANGED <<desk, review, snaps, journal, attempts>> /\ UNCHANGED <<pc, job>>
    BY <1>5 DEF vars, desk
  <2> QED BY <2>1, WorkerOnly
<1> QED BY <1>1, <1>2, <1>3, <1>4, <1>5 DEF Next

LEMMA EvidenceInductive == Spec => [](IInv /\ Evid)
<1>1. Init => IInv /\ Evid
  BY InitShape, InitSafe, InitEvid DEF IInv
<1>2. IInv /\ Evid /\ [Next]_vars => (IInv /\ Evid)'
  BY NextShape, NextSafe, NextEvid DEF IInv
<1> QED BY <1>1, <1>2, PTL DEF Spec

(* Whatever may have been submitted was confirmed by a person in exactly that *)
(* version: texts and images cannot slip in between the confirmation and the  *)
(* click, though both are stored apart from the snapshot (pre_submit_check).  *)
THEOREM ConfirmedOnly == Spec => []OnlyConfirmedIsSubmitted
<1>1. Evid => OnlyConfirmedIsSubmitted
  BY DEF Evid, RowOk, OnlyConfirmedIsSubmitted
<1> QED BY <1>1, EvidenceInductive, PTL

(* The evidence of an attempt can be loaded for good: no unlock, however late *)
(* and whatever crashed before it, voids the snapshot of an attempt           *)
(* (approval.unlock, snapshots.load_for_attempt).                             *)
THEOREM EvidenceStays == Spec => []AttemptSnapshotsUsable
<1>1. IInv /\ Evid => AttemptSnapshotsUsable
  <2> SUFFICES ASSUME IInv, Evid, NEW i \in DOMAIN journal
               PROVE  /\ snaps[attempts[journal[i].att].snap].state = "frozen"
                      /\ snaps[attempts[journal[i].att].snap].bound
    BY DEF AttemptSnapshotsUsable
  <2>1. journal[i].att \in DOMAIN attempts
    BY DEF IInv, Shape, Refs
  <2> QED BY <2>1 DEF Evid, AttemptOk, Usable
<1> QED BY <1>1, EvidenceInductive, PTL

(* The review ledger is never ahead of the evidence: an approval has an       *)
(* intact, bound snapshot to be recovered from, and a post is "scheduled"     *)
(* only if a row of the journal says so (records.project, records.recover).   *)
THEOREM LedgerBacked == Spec => []ReviewBackedByJournal
<1>1. Evid => ReviewBackedByJournal
  BY DEF Evid, LedgerOk, Usable, ReviewBackedByJournal
<1> QED BY <1>1, EvidenceInductive, PTL

--------------------------------------------------------------------------------
(* RECOVERY.  Whoever settles what an operation left behind asks the journal a *)
(* question of its own.  The scans agree because a schedule is the last word   *)
(* on a post until its deletion is registered (LastWord), and a deletion the   *)
(* last word on an attempt (NoRevival); an approval whose handler runs has no  *)
(* card, because it began without one and opened no attempt (Bare).            *)

LastWord ==
    \A i, k \in DOMAIN journal :
        CountsAsScheduled(journal, journal[i].post, i) /\ Decisive(journal, journal[i].post, k) =>
            journal[k].status = "scheduled"

NoRevival ==
    \A i, k \in DOMAIN journal :
        k < i /\ journal[k].att = journal[i].att /\ journal[k].status = "cancelled_remote" =>
            journal[i].status # "scheduled"

NoneLive(p) == \A a \in DOMAIN attempts : attempts[a].post = p => ~Live(a)

Bare == \A w \in Workers : pc[w] = "raised" => NoneLive(job[w].post)

Verdicts == LastWord /\ NoRevival /\ Bare

\* News about a post: a schedule of an attempt that was not cancelled, or anything
\* else while no schedule counts.
Fitting(r) ==
    \/ /\ r.status = "scheduled"
       /\ \A k \in DOMAIN journal : journal[k].att = r.att => journal[k].status # "cancelled_remote"
    \/ r.status \notin {"scheduled", "cancelled_remote"} /\ ~HasSchedule(journal, r.post)

Grows == \E r \in Rows : journal' = Append(journal, r) /\ Fitting(r)

\* A row about attempt a is about its post.
LEMMA GrowsBy ==
    ASSUME Shape, NEW a \in DOMAIN attempts, NEW status \in RowStatuses, NEW manual \in BOOLEAN,
           AppendRow(a, status, manual),
           \/ status = "scheduled" /\ attempts[a].card = "landed" /\ ReceiptsTruthful
           \/ status \notin {"scheduled", "cancelled_remote"} /\ ~HasSchedule(journal, attempts[a].post)
    PROVE  Grows
<1>1. PICK r : r = Row(a, attempts[a].post, attempts[a].desk, status, manual)
  OBVIOUS
<1>2. r \in Rows /\ r.att = a /\ r.status = status /\ r.post = attempts[a].post
  BY <1>1, RowType DEF Shape, Row
<1>3. journal' = Append(journal, r)
  BY <1>1 DEF AppendRow
<1>4. Fitting(r)
  BY <1>2 DEF Fitting, ReceiptsTruthful
<1> QED BY <1>2, <1>3, <1>4 DEF Grows

\* An open row that the scan stops at: no schedule counts.
LEMMA OpenMeansNone ==
    ASSUME Shape, LastWord, NEW p, NEW k \in DOMAIN journal, Decisive(journal, p, k),
           journal[k].status # "scheduled"
    PROVE  ~HasSchedule(journal, p)
  BY DEF LastWord, HasSchedule, CountsAsScheduled

\* Before the click its attempt is the only one, and has no card yet.
LEMMA NoneBefore ==
    ASSUME Shape, Safe, NEW w \in Workers, pc[w] \in {"prepared", "checked"}
    PROVE  ~HasSchedule(journal, job[w].post)
<1>1. Only(job[w].post, job[w].att) /\ attempts[job[w].att].card = "none" /\ ReceiptsTruthful
  BY DEF Safe, Sound, Entitled, Sole, MayAppend, Untouched
<1>2. ASSUME NEW i \in DOMAIN journal, CountsAsScheduled(journal, job[w].post, i) PROVE FALSE
  <2>1. journal[i].att = job[w].att /\ journal[i].status = "scheduled"
    BY <1>1, <1>2 DEF Only, CountsAsScheduled
  <2> QED BY <1>1, <2>1 DEF ReceiptsTruthful
<1> QED BY <1>2 DEF HasSchedule

\* From the click to its result the intent is what the scan stops at.
LEMMA NoneMeanwhile ==
    ASSUME Shape, Safe, LastWord, NEW w \in Workers, pc[w] \in {"armed", "clicked", "verify", "recheck"}
    PROVE  ~HasSchedule(journal, job[w].post)
<1>1. PICK k \in DOMAIN journal : Decisive(journal, job[w].post, k) /\ journal[k].status \in Unresolved
  BY DEF Safe, Entitled, Intent
<1>2. journal[k].status # "scheduled"
  BY <1>1 DEF Unresolved
<1> QED BY <1>1, <1>2, OpenMeansNone

\* An operation that has not opened its attempt has met nothing of its post.
LEMMA NoneAtFirst ==
    ASSUME Shape, Safe, NEW w \in Workers, pc[w] \in {"decide", "execute"}
    PROVE  ~HasSchedule(journal, job[w].post) /\ NoneLive(job[w].post)
<1>1. Only(job[w].post, 0)
  BY DEF Safe, Entitled, Sole, MayAppend, Shape, JobShape
<1>2. attempts \in Seq(Attempts)
  BY DEF Shape, TypeOK
<1>3. \A a \in DOMAIN attempts : a # 0
  BY <1>2
<1>4. \A i \in DOMAIN journal : journal[i].att # 0
  BY <1>3 DEF Shape, Refs
<1> QED BY <1>1, <1>3, <1>4 DEF Only, HasSchedule, NoneLive

LEMMA WorkGrows ==
    ASSUME Shape, Safe, LastWord, NEW w \in Workers, WorkStep(w)
    PROVE  UNCHANGED journal \/ Grows \/ UnscheduleAppend(w)
<1>1. PICK a, p : a = job[w].att /\ p = job[w].post
  OBVIOUS
<1>2. pc[w] \in WithAttempt => a \in DOMAIN attempts /\ attempts[a].post = p
  BY <1>1 DEF Shape, JobShape
<1>3. CASE PreSubmitFail(w) \/ Arm(w) \/ ClickFail(w) \/ \E status \in Unresolved : Submitted(w, status)
  <2>1. PICK status \in RowStatuses, manual \in BOOLEAN :
            AppendRow(a, status, manual) /\ status \notin {"scheduled", "cancelled_remote"}
    BY <1>1, <1>3, StepNames DEF PreSubmitFail, Arm, ClickFail, Submitted, Unresolved
  <2>2. pc[w] \in {"prepared", "checked", "armed", "clicked"}
    BY <1>3 DEF PreSubmitFail, Arm, ClickFail, Submitted
  <2>3. ~HasSchedule(journal, p) /\ pc[w] \in WithAttempt
    BY <1>1, <2>2, NoneBefore, NoneMeanwhile, StepNames
  <2> QED BY <1>2, <2>1, <2>3, GrowsBy
<1>4. CASE ReadBack(w)
  <2>1. PICK i \in DOMAIN journal : OwnRow(w, i) /\ Continue(i, "scheduled")
    BY <1>4 DEF ReadBack
  <2>2. PICK manual : manual = journal[i].manual
    OBVIOUS
  <2>3. manual \in BOOLEAN /\ AppendRow(a, "scheduled", manual)
    BY <1>1, <2>1, <2>2, OwnContinue
  <2>4. a \in DOMAIN attempts /\ attempts[a].card = "landed" /\ ReceiptsTruthful
    BY <1>1, <1>2, <1>4, StepNames DEF ReadBack, Safe, Sound
  <2> QED BY <2>3, <2>4, StepNames, GrowsBy
<1>5. CASE ReadBackMiss(w)
  <2>1. PICK i \in DOMAIN journal : OwnRow(w, i) /\ Continue(i, journal[i].status)
    BY <1>5 DEF ReadBackMiss
  <2>2. PICK manual : manual = journal[i].manual
    OBVIOUS
  <2>3. PICK status : status = journal[i].status
    OBVIOUS
  <2>4. manual \in BOOLEAN /\ AppendRow(a, status, manual) /\ Decisive(journal, p, i)
    BY <1>1, <2>1, <2>2, <2>3, OwnContinue
  <2>5. pc[w] \in {"verify", "recheck"} /\ pc[w] \in WithAttempt
    BY <1>5, StepNames DEF ReadBackMiss
  <2>6. PICK k \in DOMAIN journal : Decisive(journal, p, k) /\ journal[k].status \in Unresolved
    BY <1>1, <2>5 DEF Safe, Entitled, Intent
  <2>7. i = k
    BY <2>4, <2>6, DecisiveUnique DEF Shape, TypeOK
  <2>8. status \in RowStatuses /\ status \notin {"scheduled", "cancelled_remote"}
    BY <2>3, <2>6, <2>7, StepNames DEF Unresolved
  <2>9. ~HasSchedule(journal, p)
    BY <1>1, <2>5, NoneMeanwhile
  <2> QED BY <1>2, <2>4, <2>5, <2>8, <2>9, GrowsBy
<1>6. CASE ComposeFail(w) \/ Compose(w)
  <2>1. PICK status \in {"prepared", "failed_pre_submit"} : OpenAttempt(w, status)
    BY <1>6 DEF ComposeFail, Compose
  <2>2. pc[w] = "execute"
    BY <1>6 DEF ComposeFail, Compose
  <2>3. PICK r : r = Row(Len(attempts) + 1, p, job[w].op = "approve", status, FALSE)
    OBVIOUS
  <2>4. job[w] \in Jobs /\ Len(attempts) \in Nat
    BY <2>2 DEF Shape, JobShape, TypeOK
  <2>5. r \in Rows /\ r.status = status /\ r.post = p
    BY <1>1, <2>3, <2>4 DEF Rows, Row, Jobs, RowStatuses, Blocking
  <2>6. journal' = Append(journal, r)
    BY <1>1, <2>1, <2>3 DEF OpenAttempt
  <2>7. Fitting(r)
    BY <1>1, <2>2, <2>5, NoneAtFirst DEF Fitting
  <2> QED BY <2>5, <2>6, <2>7 DEF Grows
<1> QED BY <1>3, <1>4, <1>5, <1>6
        DEF WorkStep, ApproveRefuse, Approve, ExecuteRaise, FinalCheck, Click, Project,
            Raised, UnscheduleRefuse, UnscheduleReview

LEMMA SettleGrows ==
    ASSUME Shape, Safe, LastWord, NoRevival, SettleStep
    PROVE  UNCHANGED journal \/ Grows
<1>1. \A i \in DOMAIN journal : /\ journal[i] \in Rows /\ journal[i].att \in DOMAIN attempts
                                /\ journal[i].post = attempts[journal[i].att].post
  BY DEF Shape, TypeOK, Refs
<1>2. ASSUME NEW p \in Posts, NEW seen \in BOOLEAN, ManualResolve(p, seen) PROVE Grows
  <2>1. PICK i \in DOMAIN journal :
            /\ Resolvable(journal, p, i)
            /\ seen => attempts[journal[i].att].card = "landed"
            /\ AppendRow(journal[i].att, IF seen THEN "scheduled" ELSE "failed_pre_submit", TRUE)
    BY <1>2 DEF ManualResolve
  <2>2. PICK a : a = journal[i].att
    OBVIOUS
  <2>3. a \in DOMAIN attempts /\ attempts[a].post = p
    BY <1>1, <2>1, <2>2 DEF Resolvable, Decisive
  <2>4. CASE seen
    <3>1. AppendRow(a, "scheduled", TRUE) /\ attempts[a].card = "landed" /\ ReceiptsTruthful
      BY <2>1, <2>2, <2>4 DEF Safe, Sound
    <3> QED BY <2>3, <3>1, StepNames, GrowsBy
  <2>5. CASE ~seen
    <3>1. AppendRow(a, "failed_pre_submit", TRUE)
      BY <2>1, <2>2, <2>5
    <3>2. ~HasSchedule(journal, p)
      BY <2>1, OpenMeansNone DEF Resolvable
    <3> QED BY <2>3, <3>1, <3>2, StepNames, GrowsBy
  <2> QED BY <2>4, <2>5
<1>3. ASSUME NEW a \in DOMAIN attempts, Reverify(a) PROVE Grows
  <2>1. PICK i \in DOMAIN journal :
            LatestRow(journal, a, i) /\ journal[i].status = "scheduled" /\ Continue(i, "scheduled")
    BY <1>3 DEF Reverify
  <2>2. PICK r : r = Row(a, attempts[a].post, attempts[a].desk, "scheduled", journal[i].manual)
    OBVIOUS
  <2>3. journal[i].manual \in BOOLEAN /\ journal[i].att = a
    BY <1>1, <2>1 DEF Rows, LatestRow
  <2>4. r \in Rows /\ r.status = "scheduled" /\ r.att = a
    BY <2>2, <2>3, RowType, StepNames DEF Row, Shape
  <2>5. journal' = Append(journal, r)
    BY <2>1, <2>2, <2>3 DEF Continue, AppendRow
  <2>6. ASSUME NEW k \in DOMAIN journal, journal[k].att = a, journal[k].status = "cancelled_remote" PROVE FALSE
    <3>1. DOMAIN journal = 1 .. Len(journal) /\ Len(journal) \in Nat
      BY DEF Shape, TypeOK
    <3>2. ~(k > i) /\ k # i
      BY <2>1, <2>6 DEF LatestRow
    <3>3. k < i
      BY <3>1, <3>2
    <3> QED BY <2>1, <2>3, <2>6, <3>3 DEF NoRevival
  <2>7. Fitting(r)
    BY <2>4, <2>6 DEF Fitting
  <2> QED BY <2>4, <2>5, <2>7 DEF Grows
<1> QED BY <1>2, <1>3 DEF SettleStep, RecoverReceipt, RecoverOrphan

\* What a step does to the journal.
LEMMA EveryStep ==
    ASSUME Shape, Safe, LastWord, NoRevival, [Next]_vars
    PROVE  UNCHANGED journal \/ Grows \/ \E w \in Workers : UnscheduleAppend(w)
<1>1. DeskStep => UNCHANGED journal
  BY DeskShape
<1>2. RemoteStep => UNCHANGED journal
  BY RemoteShape
<1>3. ASSUME NEW w \in Workers, BeginStep(w) \/ ApproveCrash(w) \/ Crash(w)
      PROVE  UNCHANGED journal
  BY <1>3, BeginShape, CrashShape
<1>4. UNCHANGED vars => UNCHANGED journal
  BY DEF vars
<1> QED BY <1>1, <1>2, <1>3, <1>4, WorkGrows, SettleGrows DEF Next

\* A row that fits keeps what the journal says in the last place.
LEMMA GrowsKeep ==
    ASSUME Shape, LastWord, NoRevival, Grows
    PROVE  LastWord' /\ NoRevival'
<1>1. PICK r \in Rows : journal' = Append(journal, r) /\ Fitting(r)
  BY DEF Grows
<1>2. PICK n : n = Len(journal) + 1
  OBVIOUS
<1>3. journal \in Seq(Rows)
  BY DEF Shape, TypeOK
<1>4. /\ DOMAIN journal = 1 .. Len(journal) /\ Len(journal) \in Nat
      /\ DOMAIN journal' = 1 .. n
      /\ \A i \in DOMAIN journal : journal'[i] = journal[i] /\ i < n
      /\ journal'[n] = r /\ \A i \in DOMAIN journal' : i \in DOMAIN journal \/ i = n
  BY <1>1, <1>2, <1>3, Appended
<1>5. PICK p : p = r.post
  OBVIOUS
<1>6. r.status # "cancelled_remote"
  BY <1>1 DEF Fitting
<1>7. \A i : Decisive(journal', p, i) <=> i = n
  BY <1>1, <1>2, <1>3, <1>5, <1>6, DecisiveNews
<1>8. \A q, i : q # p => (Decisive(journal', q, i) <=> Decisive(journal, q, i))
  BY <1>1, <1>3, <1>5, DecisiveKept
<1>9. \A q, i : CountsAsScheduled(journal', q, i) <=>
          \/ CountsAsScheduled(journal, q, i)
          \/ i = n /\ q = p /\ r.status = "scheduled"
  BY <1>1, <1>2, <1>3, <1>5, <1>6, CountsAppend
<1>10. ASSUME NEW i \in DOMAIN journal', NEW k \in DOMAIN journal', NEW q,
              q = journal'[i].post, CountsAsScheduled(journal', q, i), Decisive(journal', q, k)
       PROVE  journal'[k].status = "scheduled"
  <2>1. CASE q = p
    <3>1. k = n /\ journal'[k] = r
      BY <1>4, <1>7, <1>10, <2>1
    <3>2. ASSUME r.status # "scheduled" PROVE HasSchedule(journal, p)
      <4>1. CountsAsScheduled(journal, p, i)
        BY <1>9, <1>10, <2>1, <3>2
      <4>2. i \in DOMAIN journal
        BY <4>1 DEF CountsAsScheduled
      <4> QED BY <4>1, <4>2 DEF HasSchedule
    <3> QED BY <1>1, <1>5, <3>1, <3>2 DEF Fitting
  <2>2. CASE q # p
    <3>1. CountsAsScheduled(journal, q, i) /\ Decisive(journal, q, k)
      BY <1>8, <1>9, <1>10, <2>2
    <3>2. i \in DOMAIN journal /\ k \in DOMAIN journal /\ journal[i].post = q
      BY <3>1 DEF CountsAsScheduled, Decisive
    <3> QED BY <1>4, <3>1, <3>2 DEF LastWord
  <2> QED BY <2>1, <2>2
<1>11. ASSUME NEW i \in DOMAIN journal', NEW k \in DOMAIN journal', k < i,
              journal'[k].att = journal'[i].att, journal'[k].status = "cancelled_remote"
       PROVE  journal'[i].status # "scheduled"
  <2>1. k \in DOMAIN journal /\ journal'[k] = journal[k]
    BY <1>4, <1>6, <1>11
  <2>2. CASE i = n
    BY <1>1, <1>4, <1>11, <2>1, <2>2 DEF Fitting
  <2>3. CASE i \in DOMAIN journal
    BY <1>4, <1>11, <2>1, <2>3 DEF NoRevival
  <2> QED BY <1>4, <2>2, <2>3
<1>12. LastWord'
  BY <1>10 DEF LastWord
<1>13. NoRevival'
  BY <1>11 DEF NoRevival
<1> QED BY <1>12, <1>13

\* A registered deletion ends schedules, and is about an attempt that is over.
LEMMA CancelKeeps ==
    ASSUME Shape, Safe, LastWord, NoRevival, NEW w \in Workers, UnscheduleAppend(w)
    PROVE  LastWord' /\ NoRevival'
<1>1. PICK a : a = job[w].att
  OBVIOUS
<1>2. a \in DOMAIN attempts /\ AppendRow(a, "cancelled_remote", TRUE)
  BY <1>1, StepNames DEF UnscheduleAppend, Shape, JobShape
<1>3. PICK r : r = Row(a, attempts[a].post, attempts[a].desk, "cancelled_remote", TRUE)
  OBVIOUS
<1>4. r \in Rows /\ r.status = "cancelled_remote"
  BY <1>2, <1>3, RowType, StepNames DEF Row, Shape
<1>5. journal \in Seq(Rows) /\ journal' = Append(journal, r)
  BY <1>2, <1>3 DEF AppendRow, Shape, TypeOK
<1>6. PICK n : n = Len(journal) + 1
  OBVIOUS
<1>7. /\ DOMAIN journal = 1 .. Len(journal) /\ Len(journal) \in Nat
      /\ \A i \in DOMAIN journal : journal'[i] = journal[i] /\ i < n
      /\ journal'[n] = r /\ \A i \in DOMAIN journal' : i \in DOMAIN journal \/ i = n
  BY <1>4, <1>5, <1>6, Appended
<1>8. \A q, i : Decisive(journal', q, i) <=> Decisive(journal, q, i)
  BY <1>4, <1>5, DecisiveKept
<1>9. \A q, i : CountsAsScheduled(journal', q, i) => CountsAsScheduled(journal, q, i)
  BY <1>4, <1>5, CountsAppend
<1>10. ASSUME NEW i \in DOMAIN journal', NEW k \in DOMAIN journal', NEW q,
              q = journal'[i].post, CountsAsScheduled(journal', q, i), Decisive(journal', q, k)
       PROVE  journal'[k].status = "scheduled"
  <2>1. CountsAsScheduled(journal, q, i) /\ Decisive(journal, q, k)
    BY <1>8, <1>9, <1>10
  <2>2. i \in DOMAIN journal /\ k \in DOMAIN journal /\ journal[i].post = q
    BY <2>1 DEF CountsAsScheduled, Decisive
  <2> QED BY <1>7, <2>1, <2>2 DEF LastWord
<1>11. ASSUME NEW i \in DOMAIN journal', NEW k \in DOMAIN journal', k < i,
              journal'[k].att = journal'[i].att, journal'[k].status = "cancelled_remote"
       PROVE  journal'[i].status # "scheduled"
  <2>1. CASE i = n
    BY <1>4, <1>7, <2>1
  <2>2. CASE i \in DOMAIN journal
    <3>1. i \in Nat /\ i < n /\ n \in Nat
      BY <1>6, <1>7, <2>2
    <3>2. k # n
      BY <1>11, <3>1
    <3>3. k \in DOMAIN journal
      BY <1>7, <1>11, <3>2
    <3>4. journal[k].att = journal[i].att /\ journal[k].status = "cancelled_remote"
          /\ journal'[i] = journal[i]
      BY <1>7, <1>11, <2>2, <3>3
    <3> QED BY <1>11, <2>2, <3>3, <3>4 DEF NoRevival
  <2> QED BY <1>7, <2>1, <2>2
<1>12. LastWord'
  BY <1>10 DEF LastWord
<1>13. NoRevival'
  BY <1>11 DEF NoRevival
<1> QED BY <1>12, <1>13

\* Whoever holds the lock is the only one to take a step.
LEMMA LockAlone ==
    ASSUME Shape, NEW w \in Workers, pc[w] # "idle"
    PROVE  \A v \in Workers : v # w => pc[v] = "idle" /\ ~BeginStep(v) /\ ~WorkStep(v)
                                      /\ ~ApproveCrash(v) /\ ~Crash(v)
<1>1. lock = w /\ \A v \in Workers : v # w => pc[v] = "idle"
  BY DEF Shape, LockExcludes
<1>2. lock # NoWorker
  BY <1>1, WorkerAssumption
<1>3. \A v \in Workers : ~BeginStep(v)
  BY ZenonT(60), <1>2 DEF BeginStep, ApproveBegin, CliBegin, ReconcileBegin, UnscheduleBegin, Acquire
<1>4. \A v \in Workers : pc[v] = "idle" => ~WorkStep(v) /\ ~ApproveCrash(v) /\ ~Crash(v)
  BY DEF WorkStep, ApproveRefuse, Approve, CanApprove, ExecuteRaise, ComposeFail, Compose, FinalCheck,
         PreSubmitFail, Arm, Click, ClickFail, Submitted, ReadBack, ReadBackMiss, Project, Raised,
         UnscheduleRefuse, UnscheduleAppend, UnscheduleReview, ApproveCrash, Crash
<1> QED BY <1>1, <1>3, <1>4

\* An approval that raised has still met nothing.
LEMMA BareKept ==
    ASSUME Shape, Safe, Bare, [Next]_vars
    PROVE  Bare'
<1> SUFFICES ASSUME NEW w \in Workers, pc'[w] = "raised" PROVE NoneLive(job[w].post)'
  BY DEF Bare
<1>1. pc \in [Workers -> Steps] /\ job \in [Workers -> Jobs \cup {NoJob}]
  BY DEF Shape, TypeOK
<1>2. CASE UNCHANGED vars
  BY <1>2 DEF vars, Bare, NoneLive, Live
<1>3. CASE DeskStep
  <2>1. UNCHANGED attempts /\ UNCHANGED running
    BY <1>3, DeskShape
  <2> QED BY <2>1 DEF running, Bare, NoneLive, Live
<1>4. CASE SettleStep
  <2>1. UNCHANGED attempts /\ UNCHANGED running
    BY <1>4, SettleShape
  <2> QED BY <2>1 DEF running, Bare, NoneLive, Live
<1>5. CASE RemoteStep
  <2>1. UNCHANGED running /\ UNCHANGED journal
    BY <1>5, RemoteShape
  <2>2. pc[w] = "raised" /\ NoneLive(job[w].post) /\ job' = job
    BY <2>1 DEF running, Bare
  <2>3. PICK a \in DOMAIN attempts, c \in CardStates, byhand \in BOOLEAN :
            /\ \/ attempts' = [attempts EXCEPT ![a].card = c]
               \/ attempts' = [attempts EXCEPT ![a].card = c, ![a].byhand = byhand]
            /\ Live(a) \/ attempts[a].post # job[w].post
    BY <1>5, <2>2 DEF RemoteStep, Settle, DeleteCard, HandSubmit, SetCard, CardStates, Live
  <2>4. /\ DOMAIN attempts' = DOMAIN attempts
        /\ \A b \in DOMAIN attempts : attempts'[b].post = attempts[b].post
        /\ \A b \in DOMAIN attempts : b # a => attempts'[b] = attempts[b]
    BY <2>3, CardType DEF Shape
  <2>5. attempts[a].post # job[w].post
    BY <2>2, <2>3 DEF NoneLive
  <2> QED BY <2>2, <2>4, <2>5 DEF NoneLive, Live
<1>6. ASSUME NEW v \in Workers, BeginStep(v) \/ WorkStep(v) \/ ApproveCrash(v) \/ Crash(v)
      PROVE  NoneLive(job[w].post)'
  <2>1. CASE ExecuteRaise(v) /\ Goto(v, "raised")
    <3>1. pc[v] = "execute" /\ UNCHANGED attempts /\ job' = job /\ pc' = [pc EXCEPT ![v] = "raised"]
      BY <2>1 DEF ExecuteRaise, Goto
    <3>2. v = w
      BY <1>1, <3>1, LockAlone
    <3> QED BY <3>1, <3>2, NoneAtFirst DEF NoneLive, Live
  <2>2. CASE pc[w] = "raised"
    <3>1. v = w
      BY <1>6, <2>2, LockAlone
    <3>2. Raised(w) \/ Crash(w)
      BY <1>6, <2>2, <3>1, LockAlone
         DEF BeginStep, ApproveBegin, CliBegin, ReconcileBegin, UnscheduleBegin, Acquire, CanApprove,
             WorkStep, ApproveRefuse, Approve, ExecuteRaise, ComposeFail, Compose, FinalCheck,
             PreSubmitFail, Arm, Click, ClickFail, Submitted, ReadBack, ReadBackMiss, Project,
             UnscheduleRefuse, UnscheduleAppend, UnscheduleReview, ApproveCrash
    <3>3. pc'[w] = "idle"
      BY <1>1, <3>2 DEF Raised, Crash, Release
    <3> QED BY <3>3
  <2>3. CASE pc[w] # "raised" /\ ~(ExecuteRaise(v) /\ Goto(v, "raised"))
    <3>1. \E step \in Steps : pc' = [pc EXCEPT ![v] = step] /\ step # "raised"
      BY <1>6, <2>3
         DEF BeginStep, ApproveBegin, CliBegin, ReconcileBegin, UnscheduleBegin, Acquire, Goto, Release,
             WorkStep, ApproveRefuse, Approve, ExecuteRaise, ComposeFail, Compose, FinalCheck,
             PreSubmitFail, Arm, Click, ClickFail, Submitted, ReadBack, ReadBackMiss, Project, Raised,
             UnscheduleRefuse, UnscheduleAppend, UnscheduleReview, ApproveCrash, Crash, Steps
    <3> QED BY <1>1, <2>3, <3>1
  <2> QED BY <2>1, <2>2, <2>3
<1> QED BY <1>2, <1>3, <1>4, <1>5, <1>6 DEF Next

LEMMA NextVerdicts == IInv /\ Verdicts /\ [Next]_vars => Verdicts'
<1> SUFFICES ASSUME Shape, Safe, Verdicts, [Next]_vars PROVE Verdicts'
  BY DEF IInv
<1>1. LastWord /\ NoRevival /\ Bare
  BY DEF Verdicts
<1>2. UNCHANGED journal => LastWord' /\ NoRevival'
  BY <1>1 DEF LastWord, NoRevival
<1>3. LastWord' /\ NoRevival'
  BY <1>1, <1>2, EveryStep, GrowsKeep, CancelKeeps
<1> QED BY <1>1, <1>3, BareKept DEF Verdicts

LEMMA InitVerdicts == Init => Verdicts
  BY DEF Init, Verdicts, LastWord, NoRevival, Bare

LEMMA VerdictsInductive == Spec => [](IInv /\ Evid /\ Verdicts)
<1>1. Init => Verdicts
  BY InitVerdicts
<1>2. IInv /\ Verdicts /\ [Next]_vars => Verdicts'
  BY NextVerdicts
<1>3. Spec => [](IInv /\ Evid)
  BY EvidenceInductive
<1> QED BY <1>1, <1>2, <1>3, PTL DEF Spec

--------------------------------------------------------------------------------
\* Giving an approval back.

GivesBack(p) == review'[p] # review[p] /\ review'[p].action = "submit_failed"

Clear(p) ==
    /\ \A i \in DOMAIN journal' : Decisive(journal', p, i) => journal'[i].status \notin Blocking
    /\ NoneLive(p)

\* An event is of the action that was asked for, and of its post only.
LEMMA ChangeActs ==
    ASSUME TypeOK, NEW p \in Posts, NEW action, NEW receipt, NEW snap, Change(p, action, receipt, snap)
    PROVE  \A q \in Posts : GivesBack(q) => q = p /\ action = "submit_failed"
<1>1. review \in [Posts -> Reviews]
  BY DEF TypeOK
<1>2. PICK status : status = Recorded(Display(p, receipt), action)
  OBVIOUS
<1>3. PICK k : k = IF action = "unlocked" THEN 0 ELSE IF snap # 0 THEN snap ELSE review[p].snap
  OBVIOUS
<1>4. review' = [review EXCEPT ![p] = [status |-> status, action |-> action, snap |-> k,
                                       src |-> source[p], rev |-> review[p].rev + 1]]
  BY <1>2, <1>3 DEF Change
<1>5. review'[p].action = action /\ \A q \in Posts : q # p => review'[q] = review[q]
  BY <1>1, <1>4
<1> QED BY <1>5 DEF GivesBack

\* A projection gives back only after a failure before the click, and only its own post.
LEMMA ProjectActs ==
    ASSUME TypeOK, NEW a \in DOMAIN attempts, NEW s, ProjectOrFail(a, s)
    PROVE  \A q \in Posts : GivesBack(q) => q = attempts[a].post /\ s = "failed_pre_submit"
<1>1. PICK p \in Posts : p = attempts[a].post
  <2>1. attempts[a] \in Attempts
    BY DEF TypeOK
  <2> QED BY <2>1 DEF Attempts
<1>2. CASE UNCHANGED review
  BY <1>2 DEF GivesBack
<1>3. CASE s = "scheduled" /\ Change(p, "scheduled", TRUE, attempts[a].snap)
  <2>1. PICK k : k = attempts[a].snap
    OBVIOUS
  <2>2. Change(p, "scheduled", TRUE, k)
    BY <1>3, <2>1
  <2>3. \A q \in Posts : GivesBack(q) => "scheduled" = "submit_failed"
    BY <2>2, ChangeActs
  <2> QED BY <2>3
<1>4. CASE s = "failed_pre_submit" /\ Change(p, "submit_failed", FALSE, 0)
  <2>1. \A q \in Posts : GivesBack(q) => q = p
    BY <1>4, ChangeActs
  <2> QED BY <1>1, <1>4, <2>1
<1> QED BY <1>1, <1>2, <1>3, <1>4 DEF ProjectOrFail, ProjectReview

\* Nothing scheduled, nothing open: what covers a card would be one or the other.
LEMMA ClearOfScans ==
    ASSUME Shape, Safe, NEW p, ~HasPending(journal, p), ~HasSchedule(journal, p), UNCHANGED journal
    PROVE  Clear(p)
<1>1. ASSUME NEW a \in DOMAIN attempts, attempts[a].post = p, Live(a) PROVE FALSE
  <2>1. PICK i \in DOMAIN journal : Covers(a, i)
    BY <1>1 DEF Safe, Sound, Covered
  <2> QED BY <1>1, <2>1, CoversBlocks DEF HasPending, HasSchedule
<1>2. \A i \in DOMAIN journal : Decisive(journal, p, i) => journal[i].status \notin Blocking
  BY DEF HasPending, PendingRow
<1> QED BY <1>1, <1>2 DEF Clear, NoneLive

\* The scan stops at a row of attempt a that is not scheduled: no card but a's.
LEMMA NoneButOwn ==
    ASSUME Shape, Safe, LastWord, NEW p, NEW i \in DOMAIN journal, Decisive(journal, p, i),
           journal[i].status # "scheduled", ~Live(journal[i].att) \/ journal[i].status = "failed_pre_submit"
    PROVE  NoneLive(p)
<1> SUFFICES ASSUME NEW a \in DOMAIN attempts, attempts[a].post = p, Live(a) PROVE FALSE
  BY DEF NoneLive
<1>1. PICK k \in DOMAIN journal : Covers(a, k)
  BY DEF Safe, Sound, Covered
<1>2. ~CountsAsScheduled(journal, p, k)
  BY OpenMeansNone DEF HasSchedule
<1>3. /\ Decisive(journal, p, k) /\ journal[k].att = a
      /\ journal[k].status \in Unresolved \/ journal[k].status = "prepared"
  BY <1>1, <1>2 DEF Covers
<1>4. k = i
  BY <1>3, DecisiveUnique DEF Shape, TypeOK
<1> QED BY <1>3, <1>4 DEF Unresolved

LEMMA SettleClear ==
    ASSUME Shape, Safe, Evid, LastWord, SettleStep, NEW q \in Posts, GivesBack(q)
    PROVE  Clear(q)
<1>0. TypeOK /\ \A i \in DOMAIN journal : journal[i].att \in DOMAIN attempts
                                          /\ journal[i].post = attempts[journal[i].att].post
  BY DEF Shape, Refs
<1>1. ASSUME NEW p \in Posts, RecoverOrphan(p) PROVE Clear(q)
  <2>1. Change(p, "submit_failed", FALSE, 0) /\ UNCHANGED journal
        /\ ~HasPending(journal, p) /\ ~HasSchedule(journal, p)
    BY <1>1 DEF RecoverOrphan
  <2>2. q = p
    BY <1>0, <2>1, ChangeActs
  <2>3. Clear(p)
    BY <2>1, ClearOfScans
  <2> QED BY <2>2, <2>3
<1>2. ASSUME NEW p \in Posts, RecoverReceipt(p) PROVE Clear(q)
  <2>1. PICK i \in DOMAIN journal :
            \/ ScheduledRow(journal, p, i) /\ ProjectReview(journal[i].att, "scheduled")
            \/ /\ ~HasSchedule(journal, p) /\ review[p].status = "approved"
               /\ attempts[journal[i].att].snap = review[p].snap
               /\ ProjectReview(journal[i].att, journal[i].status)
    BY <1>2 DEF RecoverReceipt
  <2>2. PICK a : a = journal[i].att
    OBVIOUS
  <2>3. PICK s : s = journal[i].status
    OBVIOUS
  <2>4. a \in DOMAIN attempts
    BY <1>0, <2>2
  <2>5. ProjectOrFail(a, "scheduled") \/ ProjectOrFail(a, s)
    BY <2>1, <2>2, <2>3 DEF ProjectOrFail
  <2>6. q = attempts[a].post
    BY <1>0, <2>4, <2>5, ProjectActs
  <2>7. ~ProjectOrFail(a, "scheduled")
    BY <1>0, <2>4, ProjectActs
  <2>8. ~HasSchedule(journal, p) /\ review[p].status = "approved" /\ attempts[a].snap = review[p].snap
    BY <2>1, <2>2, <2>7 DEF ProjectOrFail
  <2>9. AttemptOk(attempts[a], snaps) /\ LedgerOk(review[p], p, snaps, attempts, journal)
    BY <2>4 DEF Evid
  <2>10. attempts[a].post = p
    BY <2>8, <2>9 DEF AttemptOk, LedgerOk, Usable, Names
  <2>11. Clear(p)
    BY <1>2, <2>8, ClearOfScans DEF RecoverReceipt
  <2> QED BY <2>6, <2>10, <2>11
<1>3. ASSUME NEW p \in Posts, NEW seen \in BOOLEAN, ManualResolve(p, seen) PROVE Clear(q)
  <2>1. PICK s : s = IF seen THEN "scheduled" ELSE "failed_pre_submit"
    OBVIOUS
  <2>2. PICK i \in DOMAIN journal :
            /\ Resolvable(journal, p, i)
            /\ attempts[journal[i].att].card # "inflight"
            /\ seen <=> attempts[journal[i].att].card = "landed"
            /\ AppendRow(journal[i].att, s, TRUE) /\ ProjectOrFail(journal[i].att, s)
    BY <1>3, <2>1 DEF ManualResolve
  <2>3. PICK a : a = journal[i].att
    OBVIOUS
  <2>4. /\ a \in DOMAIN attempts /\ attempts[a].post = journal[i].post
        /\ AppendRow(a, s, TRUE) /\ ProjectOrFail(a, s)
    BY <1>0, <2>2, <2>3
  <2>5. s = "failed_pre_submit" /\ q = attempts[a].post
    BY <1>0, <2>4, ProjectActs
  <2>6. Decisive(journal, p, i) /\ journal[i].status # "scheduled" /\ journal[i].post = p
    BY <2>2 DEF Resolvable, Decisive
  <2>7. ~Live(journal[i].att)
    BY <2>1, <2>2, <2>5 DEF Live
  <2>8. NoneLive(p)
    BY <2>6, <2>7, NoneButOwn
  <2>9. PICK r : r = Row(a, attempts[a].post, attempts[a].desk, "failed_pre_submit", TRUE)
    OBVIOUS
  <2>10. r \in Rows /\ r.post = p /\ r.status = "failed_pre_submit"
    BY <2>4, <2>6, <2>9, RowType, StepNames DEF Row, Shape
  <2>11. journal \in Seq(Rows) /\ journal' = Append(journal, r)
    BY <2>4, <2>5, <2>9 DEF AppendRow, Shape, TypeOK
  <2>12. \A k : Decisive(journal', p, k) => k = Len(journal) + 1
    BY <2>10, <2>11, DecisiveNews
  <2>13. journal'[Len(journal) + 1] = r
    BY <2>10, <2>11, Appended
  <2>14. Clear(p)
    BY <2>8, <2>10, <2>12, <2>13 DEF Clear, Blocking, Unresolved
  <2> QED BY <2>4, <2>5, <2>6, <2>14
<1>4. ASSUME NEW a \in DOMAIN attempts, Reverify(a) PROVE FALSE
  <2>1. ProjectOrFail(a, "scheduled")
    BY <1>4 DEF Reverify
  <2> QED BY <1>0, <2>1, ProjectActs
<1> QED BY <1>1, <1>2, <1>3, <1>4 DEF SettleStep

LEMMA WorkClear ==
    ASSUME Shape, Safe, LastWord, Bare, NEW w \in Workers, WorkStep(w), NEW q \in Posts, GivesBack(q)
    PROVE  Clear(q)
<1>1. TypeOK /\ (pc[w] # "idle" => job[w].post \in Posts)
      /\ (pc[w] \in WithAttempt => job[w].att \in DOMAIN attempts /\ attempts[job[w].att].post = job[w].post)
  BY DEF Shape, JobShape, Jobs
<1>2. PICK p : p = job[w].post
  OBVIOUS
<1>3. CASE Project(w)
  <2>1. PICK i \in DOMAIN journal : OwnRow(w, i) /\ ProjectOrFail(job[w].att, journal[i].status)
    BY <1>3 DEF Project
  <2>2. PICK a : a = job[w].att
    OBVIOUS
  <2>3. PICK s : s = journal[i].status
    OBVIOUS
  <2>4. a \in DOMAIN attempts /\ attempts[a].post = p /\ ProjectOrFail(a, s)
    BY <1>1, <1>2, <1>3, <2>1, <2>2, <2>3, StepNames DEF Project
  <2>5. q = p /\ s = "failed_pre_submit"
    BY <1>1, <2>4, ProjectActs
  <2>6. Decisive(journal, p, i) /\ journal[i].status = "failed_pre_submit"
    BY <1>2, <2>1, <2>3, <2>5 DEF OwnRow
  <2>7. NoneLive(p)
    BY <2>6, NoneButOwn
  <2>8. \A k \in DOMAIN journal : Decisive(journal, p, k) => k = i
    BY <2>6, DecisiveUnique DEF Shape, TypeOK
  <2>9. UNCHANGED journal
    BY <1>3 DEF Project
  <2> QED BY <2>5, <2>6, <2>7, <2>8, <2>9 DEF Clear, Blocking, Unresolved
<1>4. CASE Raised(w)
  <2>1. pc[w] = "raised" /\ p \in Posts
    BY <1>1, <1>2, <1>4 DEF Raised
  <2>2. ~HasPending(journal, p) /\ Change(p, "submit_failed", FALSE, 0)
    BY <1>2, <1>4 DEF Raised, GivesBack
  <2>3. q = p
    BY <1>1, <2>1, <2>2, ChangeActs
  <2>4. NoneLive(p) /\ UNCHANGED journal
    BY <1>2, <1>4, <2>1 DEF Bare, Raised
  <2> QED BY <2>2, <2>3, <2>4 DEF Clear, HasPending, PendingRow
<1>5. CASE Approve(w)
  <2>1. PICK k : k = job[w].snap
    OBVIOUS
  <2>2. p \in Posts /\ Change(p, "approved", FALSE, k)
    BY <1>1, <1>2, <1>5, <2>1 DEF Approve, CanApprove
  <2>3. "approved" = "submit_failed"
    BY <1>1, <2>2, ChangeActs
  <2> QED BY <2>3
<1>6. CASE UnscheduleReview(w)
  <2>1. p \in Posts /\ Change(p, "unscheduled", FALSE, 0)
    BY <1>1, <1>2, <1>6 DEF UnscheduleReview, GivesBack
  <2>2. "unscheduled" = "submit_failed"
    BY <1>1, <2>1, ChangeActs
  <2> QED BY <2>2
<1>7. CASE UNCHANGED review
  BY <1>7 DEF GivesBack
<1> QED BY <1>3, <1>4, <1>5, <1>6, <1>7
        DEF WorkStep, ApproveRefuse, ExecuteRaise, ComposeFail, Compose, OpenAttempt, FinalCheck, PreSubmitFail,
            Arm, Click, ClickFail, Submitted, ReadBack, ReadBackMiss, UnscheduleRefuse, UnscheduleAppend

\* Editors record decisions of their own.
LEMMA DeskClear ==
    ASSUME Shape, DeskStep, NEW q \in Posts
    PROVE  ~GivesBack(q)
<1>0. TypeOK
  BY DEF Shape
<1>1. PICK p \in Posts :
          \/ SourceUpdate(p)
          \/ Regenerate(p)
          \/ Edit(p)
          \/ \E yes \in BOOLEAN : Confirm(p, yes)
          \/ LockContent(p)
          \/ \E crashed \in BOOLEAN : UnlockContent(p, crashed)
          \/ \E action \in {"skipped", "handed_off"} : Retire(p, action)
  BY DEF DeskStep
<1>2. CASE LockContent(p)
  <2>1. PICK k : k = Len(snaps) + 1
    OBVIOUS
  <2>2. Change(p, "content_locked", FALSE, k)
    BY <1>2, <2>1 DEF LockContent
  <2>3. GivesBack(q) => "content_locked" = "submit_failed"
    BY <1>0, <2>2, ChangeActs
  <2> QED BY <2>3
<1>3. CASE ~LockContent(p)
  <2>1. \/ UNCHANGED review
        \/ \E action \in {"edited", "body_reviewed", "unlocked", "skipped", "handed_off"} :
              Change(p, action, FALSE, 0)
    BY <1>1, <1>3 DEF SourceUpdate, Regenerate, Edit, Confirm, UnlockContent, Retire
  <2> QED BY <1>0, <2>1, ChangeActs DEF GivesBack
<1> QED BY <1>2, <1>3

LEMMA NextClear ==
    ASSUME IInv, Evid, Verdicts, [Next]_vars, NEW q \in Posts, GivesBack(q)
    PROVE  Clear(q)
<1>1. Shape /\ Safe /\ LastWord /\ Bare
  BY DEF IInv, Verdicts
<1>2. review' # review
  BY DEF GivesBack
<1>3. ~DeskStep
  BY <1>1, DeskClear
<1>4. ~RemoteStep /\ ~UNCHANGED vars
  BY <1>2 DEF RemoteStep, Settle, DeleteCard, HandSubmit, vars
<1>5. \A w \in Workers : ~BeginStep(w) /\ ~ApproveCrash(w) /\ ~Crash(w)
  BY <1>2 DEF BeginStep, ApproveBegin, CliBegin, ReconcileBegin, UnscheduleBegin, ApproveCrash, Crash
<1> QED BY <1>1, <1>3, <1>4, <1>5, WorkClear, SettleClear DEF Next

\* A registered deletion is the last word on its attempt: both scans drop the same rows.
LEMMA ScansTheSame ==
    ASSUME Shape, NoRevival
    PROVE  ScansAgree
<1> SUFFICES ASSUME NEW p \in Posts
             PROVE  HasSchedule(journal, p) <=> p \in ScheduledRefs(journal)
  BY DEF ScansAgree
<1>1. DOMAIN journal = 1 .. Len(journal) /\ Len(journal) \in Nat
  BY DEF Shape, TypeOK
<1>2. p \in ScheduledRefs(journal) <=>
          \E i \in DOMAIN journal :
              /\ journal[i].post = p /\ journal[i].status = "scheduled"
              /\ \A k \in DOMAIN journal : journal[k].att = journal[i].att => journal[k].status # "cancelled_remote"
  BY DEF ScheduledRefs
<1>3. ASSUME NEW i \in DOMAIN journal, CountsAsScheduled(journal, p, i)
      PROVE  \A k \in DOMAIN journal : journal[k].att = journal[i].att => journal[k].status # "cancelled_remote"
  <2> SUFFICES ASSUME NEW k \in DOMAIN journal, journal[k].att = journal[i].att,
                      journal[k].status = "cancelled_remote"
               PROVE  FALSE
    OBVIOUS
  <2>1. k > i \/ k < i \/ k = i
    BY <1>1
  <2>2. journal[i].status = "scheduled" /\ ~(k > i)
    BY <1>3 DEF CountsAsScheduled
  <2> QED BY <2>1, <2>2 DEF NoRevival
<1> QED BY <1>2, <1>3 DEF HasSchedule, CountsAsScheduled

(* Who reads the journal to settle what an operation left behind reads it     *)
(* right: both scans give one answer, and an approval is given back only when *)
(* nothing of the post is open or can be in the calendar (recover, project,   *)
(* approve's handler, manual resolution).                                     *)
THEOREM RecoveryIsRight == Spec => RecoveryReadsRight
<1>1. IInv /\ Verdicts => ScansAgree
  BY ScansTheSame DEF IInv, Verdicts
<1>2. IInv /\ Evid /\ Verdicts /\ [Next]_vars =>
          [\A p \in Posts :
              (review'[p] # review[p] /\ review'[p].action = "submit_failed") =>
                  /\ \A i \in DOMAIN journal' :
                        Decisive(journal', p, i) => journal'[i].status \notin Blocking
                  /\ \A a \in DOMAIN attempts : attempts[a].post = p => ~Live(a)]_vars
  BY NextClear DEF GivesBack, Clear, NoneLive
<1>3. Spec => [](IInv /\ Evid /\ Verdicts)
  BY VerdictsInductive
<1> QED BY <1>1, <1>2, <1>3, PTL DEF Spec, RecoveryReadsRight, GivenBackOnlyWhenClear
================================================================================
