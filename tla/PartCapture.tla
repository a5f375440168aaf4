------------------------------- MODULE PartCapture -------------------------------
(* The capture of posts as a part of a larger state, for the runs and for the  *)
(* proofs.                                                                     *)
EXTENDS Integers, FiniteSets

CONSTANTS Posts, None, Facebook, Images, MaxText, MaxMedia, MaxScans, MaxCrashes

VARIABLES source, truth, index, history, items, outcomes, run, scans, crashes

C == INSTANCE Capture WITH events <- outcomes

archive == <<source, truth, index, history, items, outcomes, run, scans, crashes>>

ASSUME PicturesAreCounted == Images \in Nat

\* PostRows of the archive, and what the capture state notes of a post.
Contents == [t : Nat, m : Nat, k : 0 .. Images, saved : SUBSET (1 .. Images)]
PostRows == [t : Nat, m : Nat, k : 0 .. Images, src : BOOLEAN, saved : SUBSET (1 .. Images), whole : BOOLEAN]
Outcomes == [rev : Contents, complete : BOOLEAN, archived : BOOLEAN, src : BOOLEAN]
Items == [status : {"pending", "manual", "deferred", "complete"}, scan : Nat, started : BOOLEAN,
          recovery : BOOLEAN, row : PostRows, class : {"new", "source_updated", "recovered"},
          prior : {None} \cup Contents, rev : {None} \cup Contents, last : {None} \cup Outcomes]

\* What says that there is nothing is none of them.
ASSUME NoneIsNothing == None \notin PostRows /\ None \notin Items /\ None \notin Outcomes
--------------------------------------------------------------------------------
(* WHAT IS CAPTURED STAYS KNOWN.  What went wrong with a post is reported, a   *)
(* post that was complete is not replaced by less, no step forgets an item     *)
(* that was started, and none loses an earlier version of a post.              *)
CaptureAccounts ==
    /\ [](C!ExceptionsReported /\ C!CompleteIsKept)
    /\ C!StartedIsAccounted /\ C!VersionsKept
================================================================================
