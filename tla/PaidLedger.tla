------------------------------- MODULE PaidLedger -------------------------------
(* The append-only ledger of paid model requests (core/paid_requests.py) and  *)
(* the questions asked of it before another request may be sent.              *)
(*                                                                            *)
(* A row is [event, req, job, cost, day, manual]: the amounts are in units,   *)
(* the time stamps are days.                                                  *)
EXTENDS Integers, Sequences, FiniteSets, FiniteSetsExt

PaidEvents == {"started", "usage_recorded", "accepted", "output_rejected",
               "uncertain", "usage_unknown"}

\* _GLOBAL_BLOCKING: nobody may pay while one request is in such a state.
OpenEvents == {"started", "usage_recorded", "uncertain", "usage_unknown"}

RejectedRetryBudget == 2

Known(l) == {l[i].req : i \in DOMAIN l}

\* _latest_by_request: row i is the newest one of request r.
LatestOf(l, r, i) ==
    /\ i \in DOMAIN l
    /\ l[i].req = r
    /\ \A k \in DOMAIN l : k > i => l[k].req # r

Stands(l, r, events) ==
    \E i \in DOMAIN l : LatestOf(l, r, i) /\ l[i].event \in events

OpenRequests(l) == {r \in Known(l) : Stands(l, r, OpenEvents)}

RejectedOf(l, job) ==
    {r \in Known(l) :
        \E i \in DOMAIN l : /\ LatestOf(l, r, i)
                            /\ l[i].event = "output_rejected"
                            /\ l[i].job = job}

\* _assert_startable
Startable(l, job) ==
    /\ OpenRequests(l) = {}
    /\ Cardinality(RejectedOf(l, job)) < RejectedRetryBudget

(* ledger_snapshot: what the usage rows add up to from a given day on, and    *)
(* the requests whose cost cannot be told.                                    *)
UsageRow(l, r, i) ==
    /\ i \in DOMAIN l
    /\ l[i].req = r
    /\ l[i].event = "usage_recorded"

Priced(l) == {r \in Known(l) : \E i \in DOMAIN l : UsageRow(l, r, i)}

PricedRows(l) ==
    {i \in DOMAIN l :
        /\ UsageRow(l, l[i].req, i)
        /\ \A k \in DOMAIN l : k > i => ~UsageRow(l, l[i].req, k)}

SpentSince(l, first) ==
    MapThenSumSet(LAMBDA i : l[i].cost, {i \in PricedRows(l) : l[i].day >= first})

CostUnknown(l) ==
    OpenRequests(l)
    \cup {r \in Known(l) : Stands(l, r, {"accepted"}) /\ r \notin Priced(l)}
    \cup {r \in Known(l) :
            \E i, k \in DOMAIN l : i # k /\ UsageRow(l, r, i) /\ UsageRow(l, r, k)}
================================================================================
