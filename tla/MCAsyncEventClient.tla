------------------------- MODULE MCAsyncEventClient -------------------------
(* AsyncEventClient on small instances, among events that may be repeated,   *)
(* contradict each other and come in any order.                              *)
EXTENDS AsyncEventClient, TLC

CONSTANTS c1, j1, j2,
          MaxArrivals,  \* arrivals of events considered
          MaxReloads    \* reloads of the page considered

VARIABLES arrivals, reloads

Entries == [id : {<<0, 1>>, <<0, 2>>},
            event : [channel : {c1}, job : Jobs, status : {"done", "error"}]]

MCInit == ClientInit(FALSE) /\ arrivals = 0 /\ reloads = 0

MCNext ==
  \/ PageNext /\ UNCHANGED <<arrivals, reloads>>
  \/ Arrives(Entries) /\ arrivals < MaxArrivals /\ arrivals' = arrivals + 1
                      /\ UNCHANGED reloads
  \/ Reload /\ reloads < MaxReloads /\ reloads' = reloads + 1 /\ UNCHANGED arrivals

MCSpec == MCInit /\ [][MCNext]_<<clientVars, arrivals, reloads>>

Perms == Permutations(Jobs)
=============================================================================
