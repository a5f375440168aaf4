----------------------------- MODULE MCPublication -----------------------------
(* Publication on small instances.                                            *)
EXTENDS Publication, TLC

WorkerSymmetry == Permutations(Workers)

(* RUNS END.  The publish lock is given back, and an attempt that was armed    *)
(* gets an outcome: by the run, by a readback or by the operator.              *)
RunsEnd == LockReleased /\ AttemptsSettle
================================================================================
