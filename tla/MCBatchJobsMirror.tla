---------------------------- MODULE MCBatchJobsMirror ----------------------------
(* Processing batches, the content jobs of the desk and the cloud mirror for   *)
(* TLC, in one run: they share no state, so that an exploration of all is one  *)
(* of each.  The parts that are not explored rest in one of their initial      *)
(* states.                                                                     *)
EXTENDS Mirror, PartBatchJobs, TLC

CONSTANTS a, b, p, q

VARIABLE part

JobKinds == {"text", "image", "initial"}

\* Bound: the translation is refined only after another job, the first comes first.
TextSecond ==
    /\ 1 \in DOMAIN jobs' => jobs'[1].kind # "text"
    /\ 2 \in DOMAIN jobs' => jobs'[2].kind # "initial"
\* Bound: a third event only in the course of a first translation, alone.
ThirdEarly == jobEvents' = 3 => DOMAIN jobs' = {1} /\ jobs'[1].kind = "initial"

\* Bound: a second scan takes one post only.
SecondOfOne == Cardinality({k \in Keys : captured'[k].scan = 2}) <= 1

MCInit ==
    /\ Init /\ B!Init /\ J!Init
    /\ part \in {"batch", "content", "mirror"}
    /\ part # "content" => ~third
    /\ part # "mirror" => folders = {} /\ post.status = "pending"

MCNext ==
    \/ part = "batch" /\ UNCHANGED <<part, content, vars>> /\ B!Next /\ SecondOfOne
    \/ part = "content" /\ UNCHANGED <<part, batch, vars>> /\ J!Next /\ TextSecond /\ ThirdEarly
    \/ part = "mirror" /\ UNCHANGED <<part, batch, content>> /\ Next

MCSpec == MCInit /\ [][MCNext]_<<part, batch, content, vars>>

AnyKey == Permutations(Keys)
================================================================================
