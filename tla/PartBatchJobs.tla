------------------------------ MODULE PartBatchJobs ------------------------------
(* The processing batches and the content jobs of the desk as parts of a       *)
(* larger state, for the runs and for the proofs.                              *)
EXTENDS Integers, FiniteSets, Sequences

CONSTANTS Keys, NoWork, MaxScans, MaxBatches, MaxCrashes,    \* batches
          Kinds, MaxJobs, MaxRefine, MaxJobEvents            \* jobs

VARIABLES
    captured, outcomes, acked, proc, receipts, worker, paid, person, cards, batches, closed,
    captures, crashes,
    source, third, consent, review, human, machine, image, scanned, jobs, ledger, made, thread,
    jobEvents

B == INSTANCE Processing WITH
        None <- NoWork, items <- captured, events <- outcomes, scans <- captures
J == INSTANCE ContentJobs WITH MaxEvents <- MaxJobEvents, events <- jobEvents

batch == <<captured, outcomes, acked, proc, receipts, worker, paid, person, cards, batches, closed,
           captures, crashes>>
content == <<source, third, consent, review, human, machine, image, scanned, jobs, ledger, made,
             thread, jobEvents>>

ASSUME BatchBounds == {MaxScans, MaxBatches, MaxCrashes} \subseteq Nat

\* What says that there is no work is no set of outcomes.
ASSUME WorkIsASet ==
    \A work \in SUBSET [key : Keys, outcome : {1, 2}, status : {"manual", "complete"}, scan : 1 .. MaxScans] :
        work # NoWork
-------------------------------------------------------------------------------
(* ONE BATCH AND ONE JOB.  Every captured outcome is taken on by one batch; a *)
(* batch is worked on by one process, and what it acknowledged was told.  At   *)
(* most one content job runs, a change lets at most one more of its requests   *)
(* through, and what is said of a recovered job is true.                       *)
BatchesAndJobsHold ==
    /\ B!AcceptedOnce /\ B!RecoveryExclusive /\ B!AckedIsTold
    /\ J!OneJobAtATime /\ J!AtMostOneLate /\ J!RecoveredTruth
================================================================================
