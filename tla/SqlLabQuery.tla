----------------------------- MODULE SqlLabQuery -----------------------------
(***************************************************************************)
(* One query of SQL Lab: its row in the metadata database, written by the  *)
(* request that creates it, by the code that executes its statements       *)
(* (sql_lab.py, on a Celery worker or inside the request) and by requests  *)
(* to stop it; and its entry in the store of the page (SqlLab/reducers/    *)
(* sqlLab.js), which the answers of those requests and of polling change.  *)
(*                                                                         *)
(* A step ends where the code commits, refreshes the row, calls the        *)
(* database of the user, or waits for an answer.  An engine says how       *)
(* cancel_query works: "key" needs the cancel key that the executing code  *)
(* stores before the first statement, "early" can note a cancellation      *)
(* before there is one (Trino), "implicit" always succeeds (Hive, Presto), *)
(* "none" has no key.                                                      *)
(***************************************************************************)
EXTENDS Naturals

CONSTANTS
  Async,       \* values of runAsync
  Stores,      \* values of store_results: a CTAS does not store its result
  Engines,     \* kinds of database engines
  Statements,  \* statements of the query
  MaxLosses    \* bound: executions killed under way

ASSUME QueryAssumption ==
  /\ Async \subseteq BOOLEAN /\ Stores \subseteq BOOLEAN
  /\ Engines \subseteq {"key", "early", "implicit", "none"}
  /\ Statements \in Nat \ {0} /\ MaxLosses \in Nat

VARIABLES
  runAsync, store_results, engine,   \* fixed by startQuery
  status, results_key, cancel_key,   \* of the row: keys only as "is there"
  pc, left,   \* of the execution: what it does next, statements left to run
  late,       \* history: statements started since the last commit of STOPPED
  losses,     \* executions killed so far
  stop,       \* a request to stop the query
  post,       \* the request that runs the query
  poll,       \* the row as read for an answer under way, or NoAnswer
  fetch,      \* requests for the results under way: "asked when stopped?" -> how many
  state, resultsKey, results,  \* the query's entry in the store: results as "is there"
  cleaned     \* of the page: it has cleaned its queries once with none running

config  == <<runAsync, store_results, engine>>
row     == <<status, results_key, cancel_key>>
worker  == <<pc, left, late, losses>>
browser == <<poll, fetch, state, resultsKey, results, cleaned>>
vars == <<config, row, worker, stop, post, browser>>

QueryStatus == {"absent", "pending", "running", "success", "failed", "stopped"}
QueryState  == {"none", "pending", "running", "fetching", "success", "failed", "stopped",
                "gone"}
NoAnswer    == [status |-> "absent", key |-> FALSE, back |-> FALSE]
Executing   == {"queued", "connect", "loop", "statement", "executing", "raised", "error",
                "store", "commit"}
NoFetch     == [stopped \in BOOLEAN |-> 0]
isQueryRunning == state \in {"pending", "running", "fetching"}

-----------------------------------------------------------------------------
(* The request: the row is created, and the query handed to a worker or      *)
(* executed at once.                                                         *)
(* START_QUERY, and the request *)
startQuery ==
  /\ runAsync' \in Async /\ store_results' \in Stores /\ engine' \in Engines
  /\ state = "none" /\ state' = IF runAsync' THEN "pending" ELSE "running"
  /\ pc' = "request" /\ post' = "asked"
  /\ UNCHANGED <<row, left, late, losses, stop, poll, fetch, resultsKey,
                 results, cleaned>>

save_new_query ==
  /\ pc = "request"
  /\ status' = "pending" /\ pc' = "created"
  /\ UNCHANGED <<config, results_key, cancel_key, left, late, losses, stop, post, browser>>

Hand(to, answer) ==
  /\ pc = "created"
  /\ pc' = to /\ post' = answer
  /\ UNCHANGED <<config, row, left, late, losses, stop, browser>>

RunsOnWorker == runAsync /\ Hand("queued", IF post = "asked" THEN "ok" ELSE post)
RunsAtOnce   == ~runAsync /\ Hand("queued", post)
CannotRun    == Hand("abandon", post)   \* access, rendering, or delay() of the task

(* _run_sql_json_exec_from_scratch: except *)
Answer(outcome) == post' = IF post = "asked" THEN outcome ELSE post

Abandon ==
  /\ pc = "abandon"
  /\ status' = "failed" /\ pc' = "done" /\ Answer("failed")
  /\ UNCHANGED <<config, results_key, cancel_key, left, late, losses, stop, browser>>

-----------------------------------------------------------------------------
(* execute_sql_statements *)
Go(from, to) ==
  /\ pc = from /\ pc' = to
  /\ UNCHANGED <<config, row, left, late, losses, stop, post, browser>>

(* The end of an execution: inside a request, the outcome is its answer. *)
Done(outcome) ==
  /\ pc' = "done"
  /\ IF runAsync THEN UNCHANGED post ELSE Answer(outcome)

SetRunning ==
  /\ pc = "queued"
  /\ status' = "running" /\ pc' = "connect" /\ late' = 0
  /\ UNCHANGED <<config, results_key, cancel_key, left, losses, stop, post, browser>>

Connect ==
  /\ pc = "connect"
  /\ cancel_key' = (engine = "key") /\ pc' = "loop"
  /\ UNCHANGED <<config, status, results_key, left, late, losses, stop, post, browser>>

CheckIfStopped_never == left > 0 /\ Go("loop", "statement")

CheckIfStopped_ok ==
  /\ pc = "loop" /\ left > 0
  /\ IF status = "stopped" THEN Done("ok") ELSE pc' = "statement" /\ UNCHANGED post
  /\ UNCHANGED <<config, row, left, late, losses, stop, browser>>

(* The row is refreshed before each statement, and not after the last one.   *)
CheckIfStopped ==
  /\ pc = "loop" /\ left > 0
  /\ IF status = "stopped" THEN Done("stopped") ELSE pc' = "statement" /\ UNCHANGED post
  /\ UNCHANGED <<config, row, left, late, losses, stop, browser>>

StartStatement ==
  /\ pc = "statement" /\ pc' = "executing"
  /\ late' = IF status = "stopped" THEN late + 1 ELSE late
  /\ UNCHANGED <<config, row, left, losses, stop, post, browser>>

EndStatement ==
  /\ pc = "executing" /\ pc' = "loop" /\ left' = left - 1
  /\ UNCHANGED <<config, row, late, losses, stop, post, browser>>

(* An exception, of the query or because it was cancelled, makes the code    *)
(* refresh the row; the soft time limit does not.                            *)
StatementRaises == Go("executing", "raised")
SoftTimeLimit   == Go("executing", "error")

StoppedOrError ==
  /\ pc = "raised"
  /\ IF status = "stopped" THEN Done("stopped") ELSE pc' = "error" /\ UNCHANGED post
  /\ UNCHANGED <<config, row, left, late, losses, stop, browser>>

ConnectRaises == Go("connect", "error")
StoreRaises   == Go("store", "error")

handle_query_error_noStatus ==
  /\ pc = "error"
  /\ pc' = IF runAsync THEN "done" ELSE "abandon"
  /\ UNCHANGED <<config, row, left, late, losses, stop, post, browser>>

handle_query_error ==
  /\ pc = "error"
  /\ status' = "failed"
  /\ pc' = IF runAsync THEN "done" ELSE "abandon"
  /\ UNCHANGED <<config, results_key, cancel_key, left, late, losses, stop, post, browser>>

LoopEnds     == left = 0 /\ Go("loop", "store")
StoreResults == Go("store", "commit")

CommitSuccess ==
  /\ pc = "commit"
  /\ status' = "success" /\ results_key' = store_results
  /\ Done("ok")
  /\ UNCHANGED <<config, cancel_key, left, late, losses, stop, browser>>

(* A dead worker, or its hard time limit. *)
WorkerLost ==
  /\ pc \in Executing /\ losses < MaxLosses
  /\ losses' = losses + 1
  /\ Done("failed")
  /\ UNCHANGED <<config, row, left, late, stop, browser>>

-----------------------------------------------------------------------------
(* QueryDAO.stop_query: the row is read, the query cancelled, STOPPED        *)
(* committed.                                                                *)
stop_query ==
  /\ stop = "asked"
  /\ stop' = CASE status = "absent" -> "failed"
               [] status \in {"failed", "success"} -> "ok"
               [] OTHER -> "cancel"
  /\ UNCHANGED <<config, row, worker, post, browser>>

cancel_query ==
  /\ stop = "cancel"
  /\ stop' \in   (IF cancel_key \/ engine \in {"early", "implicit"} THEN {"commit"} ELSE {})
           \cup (IF engine = "implicit" THEN {} ELSE {"failed"})
  /\ UNCHANGED <<config, row, worker, post, browser>>

CommitStopped ==
  /\ stop = "commit"
  /\ status' = "stopped" /\ late' = 0 /\ stop' = "ok"
  /\ UNCHANGED <<config, results_key, cancel_key, pc, left, losses, post, browser>>

-----------------------------------------------------------------------------
Becomes_noFetch(to, key, pending) ==
  state' = to /\ resultsKey' = key /\ fetch' = pending

(* The page.  ResultSet asks for the results when the entry has a resultsKey *)
(* that it did not have before; the query it passes on is the entry as it is *)
(* at that moment.  Other requests for them may still be pending.            *)
Becomes(to, key, pending) ==
  /\ resultsKey' = key
  /\ IF key /\ ~resultsKey
     THEN state' = "fetching" /\ fetch' = [pending EXCEPT ![to = "stopped"] = @ + 1]
     ELSE state' = to /\ fetch' = pending

postStopQuery ==
  /\ stop = "none" /\ state \in {"pending", "running"}
  /\ stop' = "asked"
  /\ UNCHANGED <<config, row, worker, post, browser>>

(* STOP_QUERY, if the request succeeded *)
StopReturns ==
  /\ stop \in {"ok", "failed"}
  /\ IF stop = "ok"
     THEN state' = "stopped" /\ results' = FALSE
     ELSE UNCHANGED <<state, results>>
  /\ stop' = "none"
  /\ UNCHANGED <<config, row, worker, post, poll, fetch, resultsKey, cleaned>>

(* QUERY_SUCCESS and QUERY_FAILED with the answer of the request; that of an *)
(* asynchronous query says nothing.                                          *)
RunReturns ==
  /\ post \in {"ok", "stopped", "failed"}
  /\ post' = "returned"
  /\ CASE post = "failed" ->
            state' = "failed" /\ UNCHANGED <<resultsKey, results, fetch>>
       [] post = "ok" /\ ~runAsync ->
            Becomes("success", resultsKey \/ store_results, fetch) /\ results' = TRUE
       [] OTHER ->
            UNCHANGED <<state, resultsKey, results, fetch>>
  /\ UNCHANGED <<config, row, worker, stop, poll, cleaned>>

RunLost ==
  /\ post \notin {"none", "returned"}
  /\ post' = "returned" /\ state' = "failed"
  /\ UNCHANGED <<config, row, worker, stop, poll, fetch, resultsKey, results, cleaned>>

(* QueryAutoRefresh: one request at a time, as long as any query of the page *)
(* is running.  Once there is a row, every answer has it.                    *)
get_updated_since ==
  /\ state # "none" /\ ~poll.back
  /\ poll' = [status |-> status, key |-> results_key, back |-> TRUE]
  /\ UNCHANGED <<config, row, worker, stop, post, fetch, state, resultsKey, results, cleaned>>

(* CLEAR_INACTIVE_QUERIES: a query without progress is dropped, and one that *)
(* has a key and results shows the state of the results.                     *)
clearInactiveQueries ==
  /\ \/ /\ state \in {"pending", "running"}
        /\ state' = "gone" /\ resultsKey' = FALSE /\ results' = FALSE
     \/ /\ state' = IF resultsKey /\ results THEN "success" ELSE state
        /\ UNCHANGED <<resultsKey, results>>
  /\ UNCHANGED fetch

(* Once in the life of a page, when none of its queries is running. *)
CleanOnce ==
  /\ ~isQueryRunning /\ ~cleaned /\ cleaned' = TRUE
  /\ clearInactiveQueries
  /\ UNCHANGED <<config, row, worker, stop, post, poll>>

PollReturns_noGuard ==
  /\ poll.back /\ poll' = NoAnswer
  /\ IF poll.status = "absent"
     THEN clearInactiveQueries
     ELSE Becomes(poll.status, poll.key, fetch) /\ UNCHANGED results
  /\ UNCHANGED <<config, row, worker, stop, post, cleaned>>

(* REFRESH_QUERIES: the row, its key too, is spread over the entry; or       *)
(* CLEAR_INACTIVE_QUERIES if there is no row yet.                            *)
PollReturns ==
  /\ poll.back /\ poll' = NoAnswer
  /\ CASE poll.status = "absent" ->
            clearInactiveQueries
       [] poll.status # "absent" /\ state \in {"stopped", "failed"} ->
            UNCHANGED <<state, resultsKey, results, fetch>>
       [] OTHER ->
            /\ Becomes(IF poll.status = "success" /\ state \in {"fetching", "success", "running"}
                       THEN state ELSE poll.status,
                       poll.key, fetch)
            /\ UNCHANGED results
  /\ UNCHANGED <<config, row, worker, stop, post, cleaned>>

PollFails ==
  /\ poll.back /\ poll' = NoAnswer
  /\ UNCHANGED <<config, row, worker, stop, post, fetch, state, resultsKey, results, cleaned>>

(* fetchQueryResults: QUERY_SUCCESS unconditionally, for QueryState has no   *)
(* STOPPED, and with the key of the results; QUERY_FAILED unless the query   *)
(* it asked for was stopped then.                                            *)
FetchReturns ==
  /\ \E stopped \in BOOLEAN :
       /\ fetch[stopped] > 0
       /\ Becomes("success", TRUE, [fetch EXCEPT ![stopped] = @ - 1])
  /\ results' = TRUE
  /\ UNCHANGED <<config, row, worker, stop, post, poll, cleaned>>

FetchFails ==
  /\ \E stopped \in BOOLEAN :
       /\ fetch[stopped] > 0 /\ fetch' = [fetch EXCEPT ![stopped] = @ - 1]
       /\ state' = IF stopped THEN state ELSE "failed"
  /\ UNCHANGED <<config, row, worker, stop, post, poll, resultsKey, results, cleaned>>

-----------------------------------------------------------------------------
Init ==
  /\ runAsync = FALSE /\ store_results = FALSE /\ engine = "none"
  /\ status = "absent" /\ results_key = FALSE /\ cancel_key = FALSE
  /\ pc = "none" /\ left = Statements /\ late = 0 /\ losses = 0
  /\ stop = "none" /\ post = "none"
  /\ poll = NoAnswer /\ fetch = NoFetch
  /\ state = "none" /\ resultsKey = FALSE /\ results = FALSE /\ cleaned = FALSE

Execute ==
  \/ save_new_query \/ RunsOnWorker \/ RunsAtOnce \/ CannotRun \/ Abandon
  \/ SetRunning \/ Connect \/ ConnectRaises
  \/ CheckIfStopped \/ StartStatement \/ EndStatement \/ StatementRaises \/ SoftTimeLimit
  \/ StoppedOrError \/ handle_query_error
  \/ LoopEnds \/ StoreResults \/ StoreRaises \/ CommitSuccess

Stop   == stop_query \/ cancel_query \/ CommitStopped \/ StopReturns
Return == RunReturns \/ PollReturns \/ FetchReturns \/ FetchFails

Next ==
  \/ startQuery \/ Execute \/ WorkerLost \/ Stop \/ postStopQuery
  \/ Return \/ RunLost \/ get_updated_since \/ PollFails \/ CleanOnce

Spec == Init /\ [][Next]_vars

(* Code goes on, answers arrive, and a page with a running query polls.  A   *)
(* poll may fail now and then, but not for ever.                             *)
Fairness ==
  /\ WF_vars(Execute) /\ WF_vars(Stop)
  /\ WF_vars(RunReturns) /\ WF_vars(FetchReturns \/ FetchFails)
  /\ WF_vars(isQueryRunning /\ get_updated_since) /\ SF_vars(PollReturns)

FairSpec == Spec /\ Fairness

-----------------------------------------------------------------------------
TypeOK ==
  /\ runAsync \in BOOLEAN /\ store_results \in BOOLEAN
  /\ engine \in {"key", "early", "implicit", "none"}
  /\ status \in QueryStatus /\ results_key \in BOOLEAN /\ cancel_key \in BOOLEAN
  /\ pc \in Executing \cup {"none", "request", "created", "abandon", "done"}
  /\ left \in 0 .. Statements /\ late \in Nat /\ losses \in 0 .. MaxLosses
  /\ stop \in {"none", "asked", "cancel", "commit", "ok", "failed"}
  /\ post \in {"none", "asked", "ok", "stopped", "failed", "returned"}
  /\ poll \in [status : QueryStatus, key : BOOLEAN, back : BOOLEAN]
  /\ fetch \in [BOOLEAN -> Nat]
  /\ state \in QueryState /\ resultsKey \in BOOLEAN
  /\ results \in BOOLEAN /\ cleaned \in BOOLEAN

(* A row that says its query is on its way tells the truth, as long as no    *)
(* execution was killed: whatever the execution and the requests to stop it  *)
(* write over each other, the last commit is of a final status.              *)
NobodyLeftRunning ==
  status \in {"pending", "running"} /\ losses = 0 => pc # "done"

(* After the commit of STOPPED (and until an execution that was still queued *)
(* writes RUNNING over it) at most one more statement is started, the one    *)
(* whose check came just before.                                             *)
AtMostOneMoreStatement == late <= 1

(* A result is shown as a success, or asked for, only if the execution got   *)
(* to its end and stored it.                                                 *)
ShownResultsExist ==
  /\ resultsKey => results_key
  /\ state = "success" => left = 0 /\ pc = "done"

(* What makes the last three so.  Before it is run there is no trace of a    *)
(* query; a check that lets a statement through saw the query not stopped;   *)
(* and whoever knows of a success or of a result knows it from the commit    *)
(* that ends an execution with no statement left.                            *)
Untouched ==
  state = "none" =>
    /\ pc = "none" /\ stop = "none" /\ post = "none" /\ poll = NoAnswer /\ fetch = NoFetch
    /\ status = "absent" /\ ~results_key /\ ~resultsKey /\ ~results /\ late = 0

LateWhenStopped ==
  /\ late > 0 => status = "stopped" \/ pc \in {"done", "abandon"}
  /\ pc \in {"request", "statement"} => late = 0

SuccessIsTheEnd ==
  /\ pc \in {"store", "commit"} => left = 0
  /\ pc \in {"statement", "executing"} => left > 0
  /\ results_key \/ status = "success" \/ poll.status = "success" => pc = "done" /\ left = 0
  /\ results => pc = "done" /\ left = 0
  /\ poll.key \/ resultsKey \/ (\E stopped \in BOOLEAN : fetch[stopped] > 0) => results_key
  /\ post = "ok" /\ ~runAsync => pc = "done" /\ left = 0 /\ (store_results => results_key)

QueryInv ==
  /\ TypeOK /\ NobodyLeftRunning /\ AtMostOneMoreStatement /\ ShownResultsExist
  /\ Untouched /\ LateWhenStopped /\ SuccessIsTheEnd

(* A query the page shows as stopped changes its state only by the answer to *)
(* its execution or to a fetch that was under way; polling leaves it alone,  *)
(* but for showing a result again that the page has (CLEAR_INACTIVE_QUERIES  *)
(* at sqlLab.js:722-729).                                                    *)
StoppedUnlessAnswered ==
  [][state = "stopped" /\ state' # "stopped"
       => \/ RunReturns \/ RunLost \/ FetchReturns \/ FetchFails
          \/ state' = "success" /\ resultsKey /\ results]_vars

(* sqlLab.js:344: "prevent race condition where query succeeds shortly after *)
(* being canceled": a query the page shows as stopped does not turn into a   *)
(* success.                                                                  *)
StoppedStays == [][state = "stopped" => state' # "success"]_vars

(* A page stops waiting for an asynchronous query that stores its result:    *)
(* with success, with failure, or, whatever becomes of the execution, with   *)
(* stopped if the user stopped it.  There are two exceptions: an execution   *)
(* that was killed, and a query that CLEAR_INACTIVE_QUERIES drops, for which *)
(* nothing polls any more (sqlLab.js:713-720).  Only an answer without the   *)
(* row drops it: not once there is a row and no earlier poll is under way.   *)
PageSettles ==
  LET Waiting == runAsync /\ store_results /\ isQueryRunning
      HasRow  == status # "absent" /\ (poll.back => poll.status # "absent")
      Settled == state \in {"success", "failed", "stopped"} \/ losses > 0
  IN  /\ Waiting ~> Settled \/ state = "gone"
      /\ Waiting /\ HasRow ~> Settled
=============================================================================
