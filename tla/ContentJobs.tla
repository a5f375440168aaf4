------------------------------ MODULE ContentJobs ------------------------------
(* The jobs a person starts for one post on the review desk: a better text, a  *)
(* better picture, suggestions (pipeline/refinement.py) and its first          *)
(* translation (pipeline/initial_translation.py).  Jobs share one log, one     *)
(* worker thread and the ledger of paid requests.  What a job was accepted for *)
(* - the post's source, its review, the permission for a third party's post -  *)
(* may be gone by the time the thread pays; and after a crash a person closes  *)
(* the job from what the log, the ledger and the products say.                 *)
EXTENDS Integers, Sequences, FiniteSets

CONSTANTS Kinds, MaxJobs, MaxRefine, MaxEvents

VARIABLES
    source,     \* post.json: versions of the text and of the rest of its identity
    third,      \* the post is a third party's
    consent,    \* paid_consent: the source a person has allowed paying for
    review,     \* status and revision of the review
    human,      \* the text version the person's draft is based on; 0 without one
    machine,    \* the last machine translation: its text version and its job
    image,      \* the picture: the source it was made of and its job
    scanned,    \* the text versions whose risks were scanned
    jobs,       \* refinements.jsonl: the last row of each job
    ledger,     \* the requests of the jobs; late: the last change when it left unwanted, or 0
    made,       \* the products the jobs have stored
    thread,     \* the worker
    events      \* how many crashes, edits and recaptures there were; bounded

vars == <<source, third, consent, review, human, machine, image, scanned, jobs, ledger, made,
          thread, events>>
desk == <<third, consent, review, human>>
products == <<machine, image, scanned, made>>

Person == -1
NoSource == [text |-> 0, rest |-> 0]
Idle == [job |-> 0, stage |-> "none", step |-> "idle"]
Open == {"pending", "running"}
KINDS == {"text", "image", "suggest"}
AllKinds == KINDS \cup {"initial"}
Stages == AllKinds \cup {"risk", "none"}
Steps == {"idle", "read", "lock", "gate", "send", "sent", "answered", "stored", "report"}
Sources == [text : Nat, rest : Nat]
Row == [kind : AllKinds, status : Open \cup {"succeeded", "failed"},
         error : {"none", "executor", "error", "before_request", "after_request"},
         src : Sources, rev : Nat, alive : BOOLEAN]
Request == [job : Nat, stage : Stages, late : Nat,
            state : {"started", "usage", "uncertain", "unpriced", "accepted", "rejected"}]

Init ==
    /\ source = [text |-> 1, rest |-> 1] /\ third \in BOOLEAN /\ consent = NoSource
    /\ review = [status |-> "open", rev |-> 0] /\ human = 0
    /\ machine = [text |-> 0, job |-> 0]
    /\ image = [of |-> NoSource, job |-> 0] /\ scanned = {1}
    /\ jobs = <<>> /\ ledger = <<>> /\ made = {} /\ thread = Idle
    /\ events = 0

Post == 1 .. Len(jobs)

TypeOK ==
    /\ source \in Sources /\ third \in BOOLEAN /\ consent \in Sources
    /\ review \in [status : {"open", "locked"}, rev : Nat]
    /\ human \in Nat /\ scanned \subseteq Nat
    /\ machine \in [text : Nat, job : Nat] /\ image \in [of : Sources, job : Nat \cup {Person}]
    /\ jobs \in Seq(Row) /\ ledger \in Seq(Request)
    /\ made \subseteq Nat \X (Stages \cup {"item"})
    /\ thread \in [job : Nat, stage : Stages, step : Steps]
    /\ events \in Nat

Requests(j) == {i \in DOMAIN ledger : ledger[i].job = j}
Blocking == {i \in DOMAIN ledger : ledger[i].state \in {"started", "usage", "uncertain"}}
Unpriced == {i \in DOMAIN ledger : ledger[i].state = "unpriced"}

-------------------------------------------------------------------------------
(* The gates.  _eligible and _check look at the present source and review; the *)
(* fingerprint is compared with the one the job was accepted for.              *)
Trusted == third => consent = source
Gate == review.status = "open" /\ (human # 0 => human = source.text) /\ Trusted
Budget == Blocking = {} /\ Unpriced = {}

Eligible(j) == Gate /\ (jobs[j].kind # "initial" => source.text = jobs[j].src.text)
ImageIsModels(j) == image.job # Person /\ review.rev = jobs[j].rev

\* Mutant: the review is looked at, the fingerprint is not.
PreflightUnbound(j) ==
    /\ Eligible(j) /\ Budget
    /\ jobs[j].kind = "image" => ImageIsModels(j)

Preflight(j) ==
    /\ Eligible(j) /\ Budget
    /\ jobs[j].kind = "image" => ImageIsModels(j)
    /\ source = jobs[j].src

TranslationNeeded == human = 0 /\ machine.text # source.text
ImagePending == image.job # Person /\ image.of # source

-------------------------------------------------------------------------------
(* submit: the job's row and its hand-over to the executor, under the lock of  *)
(* the jobs; for an initial job of a third party also the permission.          *)
NewJob(kind) ==
    [kind |-> kind, status |-> "pending", error |-> "none", src |-> source, rev |-> review.rev, alive |-> TRUE]

MayAccept(kind) ==
    \A j \in Post : jobs[j].status \notin Open

SubmitAs(kind, allowed) ==
    /\ Len(jobs) < MaxJobs /\ MayAccept(kind) /\ Budget
    /\ consent' = allowed
    /\ \/ jobs' = Append(jobs, NewJob(kind))
       \/ jobs' = Append(jobs, [NewJob(kind) EXCEPT !.status = "failed", !.error = "executor"])
    /\ UNCHANGED <<source, third, review, human, products, ledger, thread, events>>

Submit ==
    \E kind \in Kinds \cap KINDS :
        /\ Gate
        /\ kind = "image" =>
              /\ human # 0 \/ machine.text = source.text
              /\ image.job # Person
              /\ Cardinality({j \in Post : jobs[j].kind = "image"}) < MaxRefine
        /\ SubmitAs(kind, consent)

SubmitInitial ==
    /\ "initial" \in Kinds /\ \A j \in Post : jobs[j].kind # "initial"     \* bound
    /\ review.status = "open" /\ (human # 0 => human = source.text)
    /\ SubmitAs("initial", IF third THEN source ELSE consent)

-------------------------------------------------------------------------------
(* execute, on the one thread.                                                 *)
Step(stage, step) == thread' = [thread EXCEPT !.stage = stage, !.step = step]
Job == thread.job
Kind == jobs[Job].kind
Close(j, status, error) == jobs' = [jobs EXCEPT ![j].status = status, ![j].error = error]

Claim ==
    /\ thread = Idle
    /\ \E j \in Post :
          /\ jobs[j].status = "pending" /\ jobs[j].alive
          /\ jobs' = [jobs EXCEPT ![j].status = "running"]
          /\ thread' = [job |-> j, stage |-> "none", step |-> "read"]
    /\ UNCHANGED <<source, desk, products, ledger, events>>

(* Before it has sent anything the job may fail at each check and at each lock.*)
Fail ==
    /\ thread.step \in {"read", "lock", "gate", "report"}
    /\ Close(Job, "failed", "error") /\ thread' = Idle
    /\ UNCHANGED <<source, desk, products, ledger, events>>

(* A failed scan of the risks is written down and does not end the job.        *)
ScanFails ==
    /\ thread.stage = "risk" /\ thread.step = "gate"
    /\ scanned' = scanned \cup {jobs[Job].src.text} /\ Step("text", "lock")
    /\ UNCHANGED <<source, desk, machine, image, made, jobs, ledger, events>>

ImagesNext == IF ImagePending THEN Step("image", "lock") ELSE Step("image", "report")

Read ==
    /\ thread.step = "read" /\ Preflight(Job)
    /\ \/ Kind # "initial" /\ Step(Kind, "lock")
       \/ /\ Kind = "initial" /\ TranslationNeeded
          /\ IF source.text \in scanned THEN Step("text", "lock") ELSE Step("risk", "gate")
       \/ Kind = "initial" /\ ~TranslationNeeded /\ ImagesNext
    /\ UNCHANGED <<source, desk, products, jobs, ledger, events>>

(* The batch lock of the stage; the plan is made under it.  Only a text        *)
(* optimisation is checked no earlier than at the gate of the request.         *)
TakeLock ==
    /\ thread.step = "lock"
    /\ Kind # "text" => Preflight(Job)
    /\ IF Kind = "initial" /\ thread.stage = "text" /\ machine.text = jobs[Job].src.text THEN ImagesNext
       ELSE IF Kind = "initial" /\ thread.stage = "image" /\ ~ImagePending THEN Step("image", "report")
       ELSE Step(thread.stage, "gate")
    /\ UNCHANGED <<source, desk, products, jobs, ledger, events>>

(* RequestController.run: the lock of the ledger is held from here until the   *)
(* answer; the source and the review are not locked.                           *)
PassGate ==
    /\ thread.step = "gate" /\ Preflight(Job)
    /\ Step(thread.stage, "send")
    /\ UNCHANGED <<source, desk, products, jobs, ledger, events>>

Fresh(j) == source = jobs[j].src /\ review.status = "open" /\ Trusted

Send ==
    /\ thread.step = "send"
    /\ ledger' = Append(ledger, [job |-> Job, stage |-> thread.stage, state |-> "started",
                                 late |-> IF Fresh(Job) THEN 0 ELSE events])
    /\ Step(thread.stage, "sent")
    /\ UNCHANGED <<source, desk, products, jobs, events>>

Settle(state) == ledger' = [ledger EXCEPT ![Len(ledger)].state = state]

(* A failed stage ends the job, but for the scan of the risks.                 *)
StageFails ==
    IF thread.stage = "risk"
    THEN scanned' = scanned \cup {jobs[Job].src.text} /\ Step("text", "lock") /\ UNCHANGED jobs
    ELSE Close(Job, "failed", "error") /\ thread' = Idle /\ UNCHANGED scanned

Answer ==
    /\ thread.step = "sent"
    /\ \/ Settle("usage") /\ Step(thread.stage, "answered") /\ UNCHANGED <<scanned, jobs>>
       \/ \E state \in {"rejected", "uncertain"} : Settle(state) /\ StageFails
    /\ UNCHANGED <<source, desk, machine, image, made, events>>

Product ==
    /\ made' = made \cup {<<Job, thread.stage>>}
    /\ scanned' = IF thread.stage = "risk" THEN scanned \cup {jobs[Job].src.text} ELSE scanned
    /\ machine' = IF thread.stage = "text" THEN [text |-> jobs[Job].src.text, job |-> Job] ELSE machine
    /\ image' = IF thread.stage = "image" THEN [of |-> jobs[Job].src, job |-> Job] ELSE image

Store ==
    /\ thread.step = "answered"
    /\ \/ Product /\ Step(thread.stage, "stored") /\ UNCHANGED <<jobs, ledger>>
       \/ /\ ledger[Len(ledger)].state = "usage" /\ Settle("rejected") /\ StageFails
          /\ UNCHANGED <<machine, image, made>>
       \/ StageFails /\ UNCHANGED <<machine, image, made, ledger>>      \* the ledger's lock is busy
    /\ UNCHANGED <<source, desk, events>>

(* finalize_paid: refused when the operator has resolved the request meanwhile.*)
Finalize ==
    /\ thread.step = "stored"
    /\ \/ /\ ledger[Len(ledger)].state = "usage" /\ Settle("accepted")
          /\ IF Kind # "initial" THEN Step(thread.stage, "report")
             ELSE IF thread.stage = "risk" THEN Step("text", "lock")
             ELSE IF thread.stage = "text" THEN ImagesNext ELSE Step("image", "report")
          /\ UNCHANGED <<scanned, jobs>>
       \/ StageFails /\ UNCHANGED ledger
    /\ UNCHANGED <<source, desk, machine, image, made, events>>

(* An initial job checks once more and puts the post before the reviewers.     *)
Report ==
    /\ thread.step = "report" /\ (Kind = "initial" => Preflight(Job))
    /\ made' = IF Kind = "initial" THEN made \cup {<<Job, "item">>} ELSE made
    /\ Close(Job, "succeeded", "none") /\ thread' = Idle
    /\ UNCHANGED <<source, desk, machine, image, scanned, ledger, events>>

-------------------------------------------------------------------------------
(* recover: a person closes a job whose process is known to be gone.           *)
Ours(j) ==
    CASE jobs[j].kind = "text" -> machine.job = j
      [] jobs[j].kind = "image" -> image.job = j
      [] jobs[j].kind = "suggest" -> \A k \in Post : <<k, "suggest">> \in made => k <= j
      [] OTHER -> FALSE

Found(j) == (\E stage \in {"text", "image", "suggest"} : <<j, stage>> \in made) /\ Ours(j)

Recoverable(j) ==
    /\ jobs[j].status \in Open /\ ~jobs[j].alive
    /\ Requests(j) \cap (Blocking \cup Unpriced) = {}

Recover(j) ==
    /\ Recoverable(j)
    /\ IF Found(j) THEN Close(j, "succeeded", "none")
       ELSE Close(j, "failed", IF Requests(j) = {} THEN "before_request" ELSE "after_request")
    /\ UNCHANGED <<source, desk, products, ledger, thread, events>>

Going == Len(jobs) < MaxJobs \/ \E j \in Post : jobs[j].status \in Open
Event == Going /\ events < MaxEvents /\ events' = events + 1

(* paid_requests --resolve, with the ledger's lock.                            *)
Resolve ==
    /\ Going /\ thread.step \notin {"send", "sent"}
    /\ \E i \in Blocking, as \in {"accepted", "rejected"} :
          ledger' = [ledger EXCEPT ![i].state =
              IF as = "accepted" /\ @ # "usage" THEN "unpriced" ELSE as]
    /\ UNCHANGED <<source, desk, products, jobs, thread, events>>

Crash ==
    /\ Event
    /\ \E j \in Post : jobs[j].status \in Open
    /\ thread' = Idle /\ jobs' = [j \in Post |-> [jobs[j] EXCEPT !.alive = FALSE]]
    /\ UNCHANGED <<source, desk, products, ledger>>

-------------------------------------------------------------------------------
(* The others: the capture (an author may restore what they wrote before), the *)
(* person at the editor, the pipeline's own run.                               *)
Recapture ==
    /\ Event
    /\ source' \in {[source EXCEPT !.text = @ + 1], [source EXCEPT !.rest = @ + 1]}
                  \cup {jobs[j].src : j \in Post}
    /\ UNCHANGED <<desk, products, jobs, ledger, thread>>

Edit ==
    /\ Event
    /\ \/ /\ review.status = "open" /\ human' = source.text
          /\ review' = [review EXCEPT !.rev = @ + 1] /\ UNCHANGED image
       \/ /\ review' = [status |-> IF review.status = "open" THEN "locked" ELSE "open", rev |-> review.rev + 1]
          /\ UNCHANGED <<human, image>>
       \/ /\ review.status = "open" /\ ~(thread.stage = "image" /\ thread.step \notin {"idle", "lock", "report"})
          /\ image' = [of |-> source, job |-> Person]
          /\ review' = [review EXCEPT !.rev = @ + 1] /\ UNCHANGED human
    /\ UNCHANGED <<source, third, consent, machine, scanned, made, jobs, ledger, thread>>

PipelineRun ==
    /\ Going /\ Gate /\ Budget
    /\ \/ TranslationNeeded /\ machine' = [text |-> source.text, job |-> 0] /\ UNCHANGED image
       \/ /\ ~TranslationNeeded /\ ImagePending /\ thread.stage # "image"
          /\ image' = [of |-> source, job |-> 0] /\ UNCHANGED machine
    /\ UNCHANGED <<source, desk, scanned, jobs, ledger, made, thread, events>>

Next ==
    \/ Submit \/ SubmitInitial \/ Claim \/ Fail \/ ScanFails \/ Read \/ TakeLock \/ PassGate \/ Send
    \/ Answer \/ Store \/ Finalize \/ Report \/ Resolve \/ Crash \/ Recapture \/ Edit \/ PipelineRun
    \/ \E j \in Post : Recover(j)

Spec == Init /\ [][Next]_vars

-------------------------------------------------------------------------------
(* A post has one job at a time (refinement.py:293-296, the initial jobs too), *)
(* and the thread never works on a job that was closed under it by a recovery. *)
OneJobAtATime ==
    /\ \A j, k \in Post : jobs[j].status \in Open /\ jobs[k].status \in Open => j = k
    /\ thread # Idle => jobs[Job].status = "running" /\ jobs[Job].alive

(* Each request of a job is checked against the source, the review and the     *)
(* permission it was accepted for, inside the ledger's lock (:336-349): when    *)
(* any of them changes, at most the request being sent is still paid for, and  *)
(* no other until it is as it was.                                             *)
AtMostOneLate ==
    \A j \in Post : \A i, k \in Requests(j) :
        i # k /\ ledger[i].late # 0 => ledger[k].late # ledger[i].late

(* What a recovery says of a dead job is true (:101-149): "before a request"    *)
(* has cost nothing and never will, "after" is settled to the last request,    *)
(* and a success is a product this very job has stored.                        *)
RecoveredTruth ==
    \A j \in Post :
        /\ jobs[j].error = "before_request" => Requests(j) = {}
        /\ jobs[j].error = "after_request" => Requests(j) # {} /\ Requests(j) \cap Blocking = {}
        /\ jobs[j].status = "succeeded" =>
              /\ Requests(j) \cap Blocking = {}
              /\ \E stage \in {IF jobs[j].kind = "initial" THEN "item" ELSE jobs[j].kind} : <<j, stage>> \in made
================================================================================
