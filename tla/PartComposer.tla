------------------------------ MODULE PartComposer ------------------------------
(* The composer as a part of a larger state, for the runs and for the proofs.  *)
EXTENDS Integers, Sequences

CONSTANTS Channels, Target, Images, Medias, MaxTouches

\* The account to publish on is one that the drop-down offers.
ASSUME TargetIsOffered == Target \in Channels

VARIABLES at, manual, form, lagging, typed, keys, row, clicked, remote,
          toast, after, touches

C == INSTANCE Composer WITH desk <- manual

composer == <<at, manual, form, lagging, typed, keys, row, clicked, remote,
              toast, after, touches>>
--------------------------------------------------------------------------------
(* AS FROZEN, AND ON RECORD.  What nothing moved after its last check is       *)
(* clicked as it was frozen, the order of the images included where it can be  *)
(* known; a click is on record, and what the record claims was accepted.       *)
SubmissionHolds == C!TypeOK /\ C!ClickedAsFrozen /\ C!OrderIsKept /\ C!ClickIsOnRecord
================================================================================
