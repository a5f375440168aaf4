---------------------------- MODULE MCPaidRequests -----------------------------
(* PaidRequests on small instances: which process produces what, and under    *)
(* which lock file.                                                           *)
EXTENDS PaidRequests

CONSTANTS w1, w2, text, image

\* One text batch beside one image batch, as the pipeline and the desk run them.
MixedKind == [w \in Workers |-> IF w = w1 THEN "text" ELSE "image"]
MixedJobs == [w \in Workers |-> IF w = w1 THEN {text} ELSE {image}]
MixedLock == [w \in Workers |-> IF w = w1 THEN "translate.lock" ELSE "images.lock"]

\* Two batches of images.
ImageKind == [w \in Workers |-> "image"]
SameJobs == [w \in Workers |-> Jobs]
SameLock == [w \in Workers |-> "images.lock"]

(* Two batches of texts: localize.text.main opens translate.lock (text.py     *)
(* line 1031), the jobs of the review desk translation.lock (refinement.py    *)
(* line 384, initial_translation.py line 150).                                *)
TextKind == [w \in Workers |-> "text"]
TextLock == [w \in Workers |-> IF w = w1 THEN "translate.lock" ELSE "translation.lock"]

BatchLocks == {"translate.lock", "translation.lock", "images.lock"}
================================================================================
