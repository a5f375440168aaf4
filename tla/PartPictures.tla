------------------------------ MODULE PartPictures ------------------------------
(* The versions of one picture as a part of a larger state, for the runs and   *)
(* for the proofs.                                                             *)
EXTENDS Integers, Sequences

CONSTANTS None, MaxOutputs, MaxGiven, MaxChanges, MaxCrashes

VARIABLES files, ledger, uploads, kept, choice, source, texts, job, given, hands, crashes

V == INSTANCE ImageVersions

picture == <<files, ledger, uploads, kept, choice, source, texts, job, given, hands, crashes>>

ASSUME PictureBounds == {MaxOutputs, MaxGiven, MaxChanges, MaxCrashes} \subseteq Nat

\* The records of the ledger.
Records == [source : 0 .. MaxChanges, text : 1 .. 2, out : 0 .. MaxOutputs,
            bytes : [by : {"program"}, n : 1 .. MaxOutputs], refine : BOOLEAN, selected : BOOLEAN]

\* What says that there is no record is no record.
ASSUME NoneIsNoRecord == \A r \in Records : r # None
--------------------------------------------------------------------------------
(* PICTURES ARE KEPT.  The bytes of people and the paid pictures stay in one   *)
(* place or another, whatever replaces them on disk, and no step that fails    *)
(* leaves another picture shown than before it.                                *)
PicturesStay == []V!PicturesKept /\ V!FailureKeepsShown
================================================================================
