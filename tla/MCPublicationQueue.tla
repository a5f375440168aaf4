--------------------------- MODULE MCPublicationQueue ---------------------------
(* The publication of a post and the list of what waits for a person, for TLC  *)
(* in one run: they share no state, so that an exploration of both is one of   *)
(* each.  The part that is not explored rests in one of its initial states.    *)
EXTENDS MCPublication, PartCandidates

VARIABLE part

MCInit ==
    /\ Init /\ Q!Init
    /\ part \in {"publication", "queue"}

MCNext ==
    \/ part = "publication" /\ UNCHANGED <<part, candidates>> /\ Next
    \/ part = "queue" /\ UNCHANGED <<part, vars>> /\ Q!Next

MCSpec == MCInit /\ [][MCNext]_<<part, vars, candidates>>
================================================================================
