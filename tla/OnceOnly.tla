------------------------------- MODULE OnceOnly --------------------------------
(* What a record of intents promises about effects on a system that does not   *)
(* recognise a repeated request: an intent is written before the request, an   *)
(* answer that is lost leaves it unknown, and nothing but a person who looks   *)
(* at that system turns unknown into done or into not done.                    *)
EXTENDS Naturals

CONSTANT Effects

VARIABLES
    state,      \* what the record says of each effect
    times       \* how often it has taken place

States == {"none", "sent", "known", "unknown"}
Honest(e, s) == (s = "none" => times[e] = 0) /\ (s = "known" => times[e] = 1)

Init ==
    /\ state \in [Effects -> {"none", "unknown", "known"}]
    /\ times \in [Effects -> {0, 1}]
    /\ \A e \in Effects : Honest(e, state[e])

Say(e, s) ==
    /\ state'[e] = s
    /\ \A f \in Effects \ {e} : state'[f] = state[f]
    /\ state' \in [Effects -> States]
    /\ UNCHANGED times

Send(e) == state[e] = "none" /\ Say(e, "sent")

Happen(e) ==
    /\ state[e] = "sent" /\ times[e] = 0
    /\ times' = [times EXCEPT ![e] = 1] /\ UNCHANGED state

Learn(e) == state[e] = "sent" /\ \E s \in {"none", "known", "unknown"} : Honest(e, s) /\ Say(e, s)

Settle(e) == state[e] = "unknown" /\ \E s \in {"none", "known"} : Honest(e, s) /\ Say(e, s)

Next == \E e \in Effects : Send(e) \/ Happen(e) \/ Learn(e) \/ Settle(e)

Spec == Init /\ [][Next]_<<state, times>>

(* No effect takes place twice, and what is on record as done has taken place. *)
AtMostOnce == \A e \in Effects : times[e] <= 1 /\ (state[e] = "known" => times[e] = 1)
================================================================================
