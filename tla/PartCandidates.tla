----------------------------- MODULE PartCandidates -----------------------------
(* The list of what waits for a person as a part of a larger state, for the    *)
(* runs and for the proofs.                                                    *)
EXTENDS Integers, Sequences, FiniteSets

CONSTANTS Waiting, TranslatedPosts, MaxSource, MaxProduct, MaxTries, MaxChanges

VARIABLES posted, flaw, product, confirmations, reviewed, decisive, tries,
          items, run, touched, batch, changes

Q == INSTANCE Candidates WITH
        Posts <- Waiting, Translated <- TranslatedPosts, MaxAttempt <- MaxTries,
        source <- posted, confirmed <- confirmations, review <- reviewed,
        journal <- decisive, attempts <- tries

candidates == <<posted, flaw, product, confirmations, reviewed, decisive, tries,
                items, run, touched, batch, changes>>

\* Posts go by their numbers in the order of creation; there are finitely many.
ASSUME PostsAreNumbered == Waiting \subseteq Int /\ IsFiniteSet(Waiting)
--------------------------------------------------------------------------------
(* A BATCH STOPS AT THE FIRST DOUBT, and no run is under way beside it.        *)
ApprovalBatchStops == Q!TypeOK /\ Q!BatchStops

(* THE LIST SAYS WHAT THERE IS TO DO.  After a run a post that did not change  *)
(* has exactly the item its state calls for, and a batch resolves an item only *)
(* with the receipt.                                                           *)
QueueAnswers == Q!OneAnswer /\ Q!AnsweredIsScheduled
================================================================================
