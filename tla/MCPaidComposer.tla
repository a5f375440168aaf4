----------------------------- MODULE MCPaidComposer -----------------------------
(* Paid requests, which have to be closed in the end, and a submission in the  *)
(* composer for TLC in one run: they share no state, so that an exploration of *)
(* both is one of each.  The part that is not explored rests in an initial     *)
(* state.                                                                      *)
EXTENDS MCPaidRequests, PartComposer

CONSTANTS one, two, more      \* images

VARIABLE part

Accounts == {"facebook", "instagram"}
Frozen == <<one, two>>
\* Nothing, one of them, both, both reordered, one replaced, one too many.
Attached == {<<>>, <<one>>, Frozen, <<two, one>>, <<one, more>>, <<one, one, two>>}

MCInit ==
    /\ Init /\ C!Init
    /\ part \in {"paid", "composer"}
    /\ part = "paid" => manual = TRUE

MCNext ==
    \/ part = "paid" /\ UNCHANGED <<part, composer>> /\ Next
    \/ part = "composer" /\ UNCHANGED <<part, vars>> /\ C!Next

MCSpec == MCInit /\ [][MCNext]_<<part, vars, composer>> /\ Fairness
================================================================================
