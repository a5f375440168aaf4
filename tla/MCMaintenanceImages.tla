--------------------------- MODULE MCMaintenanceImages ---------------------------
(* The maintenance gate and the versions of a translated picture for TLC, in   *)
(* one run: they share no state, so that an exploration of both is one of each.*)
(* The part that is not explored rests in its initial state.                   *)
EXTENDS Maintenance, PartPictures

VARIABLE part

MCInit == Init /\ V!Init /\ part \in {"gate", "picture"}

MCNext ==
    \/ part = "gate" /\ UNCHANGED <<part, picture>> /\ Next
    \/ part = "picture" /\ UNCHANGED <<part, vars>> /\ V!Next

MCSpec == MCInit /\ [][MCNext]_<<part, vars, picture>>
================================================================================
