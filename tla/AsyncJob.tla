------------------------------ MODULE AsyncJob ------------------------------
(***************************************************************************)
(* What the asynchronous-query pipeline promises a chart, whatever the     *)
(* transport: its promise is settled at most once, with the outcome of its *)
(* own job, and not before that outcome was published.                     *)
(***************************************************************************)
CONSTANTS Jobs,
          ResultsMayBeLost  \* whether a published result may be gone when it is fetched

VARIABLES promise,    \* job -> what the chart that asked for it has
          published   \* job -> statuses published so far

Promises == {"idle", "requested", "pending", "resolved", "rejected", "abandoned"}

Init == /\ promise = [j \in Jobs |-> "idle"]
        /\ published = [j \in Jobs |-> {}]

(* The ways the promise of job j may change in a step. *)
Asked(j)     == promise[j] = "idle" /\ promise'[j] = "requested"
Answered(j)  == promise[j] = "requested" /\ promise'[j] = "pending"
Abandoned(j) == promise[j] \in {"requested", "pending"} /\ promise'[j] = "abandoned"
Resolved(j)  == /\ promise[j] = "pending" /\ promise'[j] = "resolved"
                /\ "done" \in published[j]
Rejected(j)  == /\ promise[j] = "pending" /\ promise'[j] = "rejected"
                /\ \/ "error" \in published[j]
                   \/ ResultsMayBeLost /\ "done" \in published[j]

Next ==
  /\ promise' \in [Jobs -> Promises]
  /\ published' \in [Jobs -> SUBSET {"done", "error"}]
  /\ \A j \in Jobs : /\ published[j] \subseteq published'[j]
                     /\ \/ promise'[j] = promise[j]
                        \/ Asked(j) \/ Answered(j) \/ Abandoned(j)
                        \/ Resolved(j) \/ Rejected(j)

Spec == Init /\ [][Next]_<<promise, published>>
=============================================================================
