# NexusSuperset: formal models and proofs

NexusSuperset is a fork of Apache Superset.  This directory holds TLA+ models
of the parts of it whose correctness depends on the order in which several
processes act.  The largest of them is the *asynchronous query pipeline* (the
`GLOBAL_ASYNC_QUERIES` feature): charts ask for data, Celery workers compute
it, events in Redis streams announce the outcomes, and a notification server
or a polling API brings them to the browser.  The others are the executions of
alerts and reports, the refresh of OAuth2 tokens under a lock, queries of SQL
Lab, and what runs in the page of a dashboard: its charts and filters, its
layout and undo history, its presenter, and the dashboard embedded elsewhere.
Models are checked with TLC; theorems are proved with TLAPS.

    cd tla
    tlc -workers 2 -config WebSocketServer_registries.cfg MCWebSocketServer.tla
    tlapm WebSocketServer_proofs.tla

`PROJECT.json` lists the runs, the hazards with the properties that cover
them, the findings, and for every definition the source lines it models.

## 1. The system

### The asynchronous query pipeline (modelled)

| Component | State it keeps | Operations |
| --- | --- | --- |
| Producers: `async_events/async_query_manager.py`, `tasks/async_queries.py` | Redis streams (one per session channel, one "firehose" for all), Celery tasks | submit a job; run its query; `update_job`: XADD on the channel's stream, then on the firehose; `read_events` |
| Notification server: `superset-websocket/src/index.ts` | `channels`, `sockets`, `lastFirehoseId`, timers | connection (with `last_id`), pong, read loop of the firehose, range query for reconnecting clients, ping timer, channel timer, restart |
| Polling API: `async_events/api.py` | none | events of the caller's channel after `last_id` |
| Browser client: `middleware/asyncEvent.ts` | listeners and retry counters by job, last event ID (also in localStorage), polling timer, web socket | wait for a job, process events, retry an early event, poll, connect, reconnect, fall back |

A request for a chart that is not cached is answered "202, job j"
(`charts/data/api.py`, `_run_async`; `views/core.py` for the legacy API).  The
page registers a listener for j.  A worker runs the query, stores the result
in the cache and publishes `done` (or `error`) on two streams.  The server
reads the firehose with a blocking XREAD and sends each event to the sockets
of its channel; a page that polls reads the channel's stream instead.  The
listener fetches the cached result and settles the chart's promise.

What makes it hard:

* the answer 202 and the event race each other, over different connections;
* workers interleave between the two XADDs, and each stream numbers its
  entries by itself;
* the server has one Redis connection for the blocking read and for range
  queries, so that the latter wait for the former;
* a connection can break unnoticed by either end; sends on it vanish silently;
* the server's two registries are changed by five handlers and two timers;
* a publication can fail half way, a worker can die or be timed out;
* the client resumes from the last ID it *processed*, while earlier events may
  still be waiting in retry timers.

What makes it correct: every waiting chart is told the outcome of its own job,
once, and not before the job published it; an event is neither skipped nor
misdelivered by the server; a responsive client is not cut off; what is dead
is forgotten.

### The server: schedules and tokens (modelled)

| Component | State it keeps | Operations |
| --- | --- | --- |
| Executions of a schedule: `commands/report/execute.py`, `tasks/scheduler.py`, `log_prune.py` | the row of the schedule (`last_state`), its log | an execution loads the row, picks a state class, enters WORKING, queries, sends, notifies; nightly pruning; a user deactivates a schedule |
| OAuth2 tokens: `utils/oauth2.py`, `utils/lock.py`, `databases/api.py` | the row of the token, the row of the lock in the key-value store | read the token, acquire the lock (with retries), refresh, release; the user grants a new token |

Hard: several Celery tasks run the state machine of one schedule on one row,
with two commits per update (row, then log) and a re-read in between; a worker
may die between them; the log that dates the WORKING state may be pruned.  A
lock expires by itself, and is deleted by name and not by holder.  Correct: a
schedule is not left WORKING, neither by interleaved executions nor, for ever,
by a lost one; one request refreshes a token at a time, loses nothing the user
granted, and gives up after its tries.

### The page: SQL Lab and dashboards (modelled)

| Component | State it keeps | Operations |
| --- | --- | --- |
| SQL Lab: `sql_lab.py`, `commands/sql_lab/execute.py`, `daos/query.py`, `SqlLab/reducers/sqlLab.js` | the row of the query; the query's entry in the page | run, execute statement by statement, stop and cancel, poll, fetch the results |
| Charts of a dashboard: `Chart/chartAction.js`, `chartReducer.ts`, `Chart.jsx`, `Dashboard.jsx` | entries of charts, filters as selected and as applied | change a filter, edit mode, tabs, refresh, answers |
| Layout: `undoableDashboardLayout.js`, `dashboardState.js`, `actions/dashboardLayout.js` | layout with past and future, flags of what is unsaved | edit, undo, redo, colour scheme, save, discard |
| Presenter (specific to this fork): `Dashboard.jsx` | a socket per mount, instructions being read aloud | mount, connect, carry out an instruction, narrate, `finInstruccion` |
| Embedded dashboard: `superset-embedded-sdk`, `superset-ui-switchboard`, `src/embedded` | port, guest tokens with their timer, calls under way | mount, load, fetch and send tokens, call and reply, unmount |

Hard: answers come in any order, late or never, and carry no mark of their
request; what is read before an answer or a lock is stale after it; a user
goes on editing during a save; a frame loads before or after its token.
Correct: the page shows what was last asked and says it is loading only if
something will end that; nothing unsaved is forgotten; a socket acknowledges an
instruction once and only when its handler and its narration are over; an
embedded page never works with an
expired token; a stopped query stays stopped unless its answer was under way.

### Components without a model

Key-value store and caches, security manager, REST resources, models and DAOs
(request-scoped work under database transactions), connectors, engine specs,
SQL parsing (text), plugins and explore controls (rendering), import and
export, migrations, translations, thumbnails, deployment files (sequential or
generated).  `PROJECT.json` gives the reason for each.

## 2. The modules

| Module | What it models |
| --- | --- |
| `RedisStreams` | stream IDs, XADD with approximate trimming, XRANGE, XREAD.  Redis is external: it is modelled from how the code uses it. |
| `WebSocketServer` | the notification server with its Redis connection and its peers |
| `AsyncQueryManager` | submission, tasks, `update_job`, `read_events` |
| `AsyncEventClient` | one page running `asyncEvent.ts` |
| `GlobalAsyncQueries` | the three together (`INSTANCE`), plus what joins them: requests, connections, messages, and the faults that may strike; a history variable, `announced`, remembers what was published of each job, which a trimmed stream forgets |
| `AsyncJob` | the abstract specification: a promise per job, settled at most once and according to what was published |
| `ReportSchedule` | one schedule of alerts and reports: its row, the ages of the logs that matter, concurrent executions |
| `OAuth2Token` | one expired token, its lock with an expiry, requests that refresh it, the user who grants a new one |
| `SqlLabQuery` | one query of SQL Lab, from `START_QUERY` to what the page shows |
| `DashboardCharts` | charts, filters, queries under way |
| `DashboardLayout` | layout, undo history, saving |
| `DashboardPresenter` | sockets, instructions, narrations |
| `EmbeddedDashboard` | host page, frame, tokens against a clock, switchboard |
| `MCWebSocketServer`, `MCAsyncQueryManager`, `MCAsyncEventClient`, `MCGlobalAsyncQueries` | small instances, history variables and bounds for TLC |
| `MCServer`, `MCPages` | sums of components: one of them runs, the others keep their first state |
| `RedisStreams_proofs` | lemmas about the stream operators, about what is computed from a sequence element by element, and about bags |
| `WebSocketServer_proofs` | theorems about the server: registries, read loop, what is sent |
| `AsyncQueryManager_proofs` | theorems about the producers |
| `AsyncEventClient_proofs` | theorems about the page |
| `GlobalAsyncQueries_proofs` | theorems about the pipeline as a whole, its refinement of `AsyncJob` among them |
| `Server_proofs` | theorems about schedules and tokens |
| `Dashboard_proofs` | theorems about charts and layout |
| `Pages_proofs` | theorems about the embedded dashboard, the presenter and SQL Lab |

### Correspondence

*One action is one piece of code that runs without interruption.*  Node and
the browser are single threaded, so a handler, a timer callback or the code
between two awaits is an action.  In Python a task is cut at its commands to
Redis (`QueryEnds`, then `AddScoped`, then `AddFull`), and code that works on the
metadata database is cut where it commits, reads a row again, calls another
service or sleeps: that is where others see, or write over, what it does.

`WebSocketServer`.  `channels` and `sockets` are the registries; `age` is
`Date.now() - pongTs` in ticks, stopped at the timeout.  `commands` and
`replies` are the two directions of the one Redis connection, each in order.
`readyState` and `inbox` stand for the `ws` library, and `link` says whether
the peer is there.  `subscribeToGlobalStream` is the loop body from the reply of
one XREAD to the sending of the next; a null reply and an error both come as an
empty result, on which the loop continues.  A read with `$` takes its meaning
when Redis starts to serve it (`BeginRead`).  `processStreamResults` folds
`sendToChannel` and the `cleanChannel` it may call into one step: cleaning only
drops ids that are untracked or not open, so the set of open sockets an event
is sent to does not depend on it.

`AsyncQueryManager`.  `task[j]` says which step of the Celery task comes next.
`AddFails` is an exception of an XADD, executed or not: while publishing
success it is caught like an exception of the query and an error is published,
in the handler it ends the task.  `SoftTimeLimit` and `WorkerLost` end it
without a word, as the code does.  `increment_id` is modelled by what it does to
the decimal digits of the ID.

`AsyncEventClient`.  `processEvents` applies `ProcessEvent` to the events of a
reply one after the other, as `forEach` does.  `timers` and `fetching` are bags: several events of
a job may wait for a retry, and a listener may be called again while it awaits
the result.  `lastId` is `lastReceivedEventId`; localStorage always holds the
same value, so `Reload` keeps it.

`GlobalAsyncQueries`.  Each action names the component that moves and leaves
the others unchanged, except the joint steps: `Ask` (page and producer),
`Connect` and `Receive` (page and server), `Reload` (page and its connection).
`Fault(kind)` lets a fault happen only if the configuration lists its kind, and
counts it.  The ping timers are left to `WebSocketServer`; here connections end
by `Break`, `Reload` or `Restart`.

`ReportSchedule`.  `update_report_schedule` is the commit of the row, `create_log`
that of the log; between them `pc[t] = "log"`.  SQLAlchemy writes a column only
if its value differs from the one the session loaded (`loaded[t]`), so a refused
execution, which sets WORKING again, writes nothing; and a commit expires what
was loaded, so that `create_log` puts the state of that moment into the log.  Of
the logs only the ages of the last SUCCESS and of the last WORKING without an
error are kept, the two that the periods ask for.  Whether an error is notified
again is left open.  `fresh` says which class runs
(`ReportNotTriggeredErrorState` or `ReportSuccessState`): they catch differently.

`OAuth2Token`.  `lock` and `token` are rows; `seen[r]` is the id of the token row
a request has read.  A body that raises leaves the lock's row as it is.  The new
access token is committed by the deletion of the lock (`Release`), into the row
the session knows: if the user has granted a new token the update finds no row.

`SqlLabQuery`.  `pc` is the next step of `execute_sql_statements` and what calls
it, on a worker or inside the request; `stop` that of `cancel_query` and
`stop_query`; `poll`, `fetch` and `post` are answers under way, with what they
were read from the row.  The four kinds of engines differ in what
`cancel_query` does and answers.  `late` counts statements started since
STOPPED was committed.  `REFRESH_QUERIES` spreads the row over the page's entry,
so that an early poll's answer may clear `resultsKey`, and the results are asked for
again when it returns (`Becomes`); `fetch` counts those requests, by whether the
query they passed on was stopped then.  `CLEAR_INACTIVE_QUERIES` drops a query
without progress or shows a result the page has (`clearInactiveQueries`).  A
poll's answer has the row once there is one: the clocks of page and server agree
within `QUERY_UPDATE_BUFFER_MS`.

`DashboardCharts`.  A handler and the rendering it causes are one step, so a
visible chart asks in the step that triggers it; a hidden one keeps
`triggerQuery` until it is shown.  The form data of a query stands for the
query; `flight` holds those under way, which come back in any order or fail.

`DashboardLayout`.  redux-undo is external: `Pushed` and the undo and redo of the
three sequences are modelled from how the code configures and uses it.
`stored` is what the server has; `saving` is the content of a request.

`DashboardPresenter`.  Each mount has a socket of its own, and unmounting closes
none.  The handler of an instruction ends at once (`HandlerEnds`): it carried the
instruction out, or did not find what it is about, which is only logged
(`missed`); or it throws.  Then the instruction is read: subtitle, speech fetched,
sound played, and at its end the acknowledgement, which says nothing of `missed`.
Every socket does all of this.  What an instruction does to the charts is left to
`DashboardCharts`.  The presentation server is external.

`EmbeddedDashboard`.  Time passes only when no timer is due and nothing is under
way for longer than `Latency`.  The host keeps the port it made at the first
load; what it sends after the frame loaded again is lost.  A token's `exp` is a
number, as `create_guest_access_token` makes it; the default of five minutes for
one that cannot be parsed (`guestTokenRefresh.ts:31`) is left out.

Names ending in `_something` (`trackClient_replaces`, `Retry_tooMany`, ...) are
deliberately wrong variants of the definition they precede.  They are used to
confirm that each property notices the corresponding mistake, and appear in no
specification.

## 3. What the runs check

### The server alone

`WebSocketServer_registries` (two channels, two sockets, one event, all timers
and Redis failures).  `RegistriesAgree`: an open socket is tracked and listed
under its channel; a tracked socket is listed under no other; no empty channel
stays.  `ResponsiveStayConnected`: the ping timer terminates no client that is
there.  These need two sockets (one stays, one dies) and two channels (to be
misplaced); ages stop at the timeout, so no bound on time is needed.  Liveness:
`DeadSocketsForgotten`: a socket whose peer vanished leaves `sockets`, and then
its channel's list.  Fairness: the two timers, the
clock, pongs and the continuations.  `setInterval` and Node's event loop
justify it; peers, workers and Redis are not assumed fair.

`WebSocketServer_firehose` (two sockets, three events, batches of two).
`OneReadUnderWay`: the loop never stops and never doubles.
`BatchFollowsCursor`: a batch waiting to be forwarded is what the firehose
holds after the last entry forwarded, whatever was added since it was read.
`NoEventSkipped`: a socket that connects once the cursor is an ID is sent every
later event.  Three events are the least
that make a full batch with an entry left behind after the cursor has a value.
Bounds: time stands still (no pings: `TimeStands`), besides the read at most
one range query is under way (`OneRange`), and all IDs have the same
millisecond (`ClockBound`: they still differ in their sequence numbers).

The clock of Redis stands still in the registries run too, where IDs do not
matter.  Restarts of the server are explored in `GlobalAsyncQueries_faults`.

### The producers alone

`AsyncQueryManager_publish`: three jobs on two channels, two workers, a clock
that ticks once, between any two commands (`ClockBound`), streams trimmed at
three entries, every failure at every step.  `FirehoseResendable` and
`FinishedIsAnnounced` relate the two streams and the tasks.  Three jobs are the
least with two that share a channel while a third only shares the firehose.

### The page alone

`AsyncEventClient_page`: three arrivals of arbitrary events (any job, status and
ID, repeated and contradictory), two retries, one reconnection, one reload.
`ListenersMatchPromises` and `RetryCountersBacked` are therefore properties of the
page whatever the rest of the system does.

### The pipeline

* `GlobalAsyncQueries_polling`: two jobs, two workers, polling, one fault among
  a failing query, a failing request, a lost result and an abandoned request.
  `NothingBehindLastId`: what the page has moved past is in its hands.
  `EveryWaitEnds`: every waiting chart gets its answer.  `ImplementsAsyncJob`: and
  it is one that was published of its own job, which takes two jobs to go wrong.
  A reply holds up to two events (`MaxEventCount`), so that one may settle both
  charts; replies cut short at the limit are left to the theorem on polling, which
  is for any limit.
* `GlobalAsyncQueries_ws`: two jobs on one worker, an established connection,
  one dropped connection.  `NoOutcomeMissed`: once things are quiet, no chart
  waits for an outcome the server has already passed on.  `EveryWaitEnds`.
* `GlobalAsyncQueries_faults`: one job and any two of eleven kinds of faults,
  a restart of the server among them, with streams that may drop all but their
  newest entry (`StreamLimit = 1`; a job whose publication failed has two).
  `ImplementsAsyncJob`, the refinement of `AsyncJob`, and the type invariant.
  The entries a stream still holds do not tell what was published, so the run
  has the history variable `announced`, on which no step depends.

The `ws` run states its assumptions in its configuration, because without any
one of them the code does not do what the properties say:

* one worker with distinct milliseconds (`Workers`, `QueryMs`): with two,
  `NoOutcomeMissed` fails (`GlobalAsyncQueries_resumeIds`);
* attempts to reconnect that are not exhausted (`refuse` is not among the
  faults): the fallback polls once, for the timer of `asyncEvent.ts:209` is armed
  again for the polling transport only, and a chart whose job ends later waits
  for ever;
* a connection already established (`StartSocket = s1`).  With
  `StartSocket = NoSocket` and `StoredId = NoId`, `NoOutcomeMissed` fails: a
  first connection carries no `last_id`, so events forwarded before it are not
  sent (it needs the connection to be slower than the job).  With `StartSocket
  = NoSocket` and a stored ID it fails after one drop: the range waits behind
  the blocking read, newer events come first and move the page's last ID, and
  the drop loses the range;
* answers that come before the retries end (`PromptAnswers = TRUE`): with
  `FALSE`, `EveryWaitEnds` fails, for six retries span about two seconds.

The streams' limit is not reached in the other composed runs (`StreamLimit = 9`).

Fairness of the composed runs: workers run, Redis serves the head of its
queue, the server handles the head of the replies, the page's timers fire, its
requests are answered, and messages on a connection that lasts are delivered.
A fault, and a chart asking, are never forced.

### The server's database: `Server_components`

The schedule and the token share no state; `MCServer` runs one of them at a time,
which makes the run the sum of the two.  Fairness of one asks nothing of the
other: what does not run has nothing enabled that its fairness names.

*Schedule*: an alert or a report, two executions at once, one lost worker (or a
`send_error` that escapes), pruning and deactivation at any moment.  Periods of
one and two ticks, ages up to two: every order of the two periods, the retention
and an event can occur, and beyond the longest period ages read the same
(`MaxAge`).  `NeverLeftWorking`: unless an execution was cut short, a schedule
that is WORKING has an execution under way.  `WorkingEnds`: and even after a
loss it leaves that state, as long as the log that dates it is there and its
`working_timeout` is not null: then the timeout never comes (`execute.py:540`).
`working_timeout` is drawn at the start from `WorkingTimeouts`; both types ask the
same of a null one, and `MCServer` gives it to reports only, whose executions take
fewer steps.  Fairness:
beat schedules executions, workers go on, time passes; a loss is never forced.

*Token*: two requests with two tries each, two grants by the user, a lock of two
ticks, access tokens of one tick.  `OneRefreshAtATime` and `NothingLost` hold
until a refresh outlasts its lock (`outlasted`), which the code does not handle:
`release` deletes the row of whoever holds it then.  `RequestsEnd`: no request
waits for ever.  Fairness is weak, per request: a request goes on.

### The pages: `Pages_components`

Five components, one at a time, as above.

*Charts* (one chart, a filter that applies to it and one that does not, two
values, two queries under way).  `ChartsUpToDate`: a visible chart last asked for
what the filters select.  `LoadingMeansWork`: one that says it is loading has a
query under way, or will ask when shown.  `ShowsLastAnswer`: without overlapping
queries the chart shows the answer to its last one.  One chart suffices, for
charts share only the filters; two slots are the least that overlap.

*Layout* (three layouts, two colour schemes, `UNDO_LIMIT` 1, so that the history
overflows).  `NothingUnsavedForgotten`: when nothing is marked unsaved, the page
shows what the server has.

*Presenter* (two mounts or two instructions, one broken connection).
`AcknowledgedOnceOver`: a socket says `finInstruccion` at most once, after the
handler ended without throwing and the instruction was read to the end, and there
are no more sockets than mounts; an instruction whose chart was not found is
acknowledged like the others.  `InstructionEnds`: an instruction that arrived is
acknowledged or fails, and subtitles go.  The bound `MountsAndInstructions` is on
the sum: sockets of two mounts handle instructions independently.  Fairness:
handlers run, and speech arrives or fails; a sound that the browser refuses to
play never ends, and is excepted.

*Embedded dashboard* (two calls, lifetimes of five and six ticks against a minimal
wait of four, a buffer of two and a latency of one, twelve ticks, two loads of
the frame): two refreshes fit into the time.  `TokenNeverExpires`, `OwnResult`,
`CallsEnd`, `PageStarts`.  Fairness: fetches settle, timers fire, the frame
loads, messages are delivered, methods return or throw.

*SQL Lab* (two statements, all combinations of `runAsync`, `store_results` and
kinds of engine, one killed execution).  `NobodyLeftRunning`: an execution that
ended by itself left a final status, whatever requests to stop wrote meanwhile.
`AtMostOneMoreStatement`: after STOPPED is committed at most one statement
starts.  `ShownResultsExist`: what is shown as a success is stored.
`StoppedUnlessAnswered`: only an answer under way, or a result the page already
has, changes a query shown as stopped.  `PageSettles`: the page stops waiting for
an asynchronous query with success, failure or, when its user stopped it, stopped
(which does not say how the execution ended).  Two exceptions: an execution that
was killed, and a query that `CLEAR_INACTIVE_QUERIES` drops, for which nobody polls
again; its second part says that a query is not dropped once its row is there
and no earlier poll is under way.
Fairness: the execution and a stop request go on, requests are answered, and
polling is repeated; a poll may fail, but not always (strong fairness of
`PollReturns`: an interval timer repeats it).

What a property excepts is recorded by a variable of its own (`outdated`, `mixed`,
`overlap`, `silent`, `broken`, `outlasted`, `losses`), set where the code does what
it does not recover from.

### Where code and documentation disagree

Each of these runs ends in a counterexample; `PROJECT.json` quotes the
statement it contradicts.

| Run | What happens |
| --- | --- |
| `GlobalAsyncQueries_resumeIds` | the page resumes the channel's stream with an ID of the firehose; with two workers the orders differ and an outcome is lost |
| `SqlLabQuery_stopped` | the reducer's guard names `QueryState.STOPPED`, which does not exist: a query shown as stopped becomes a success when its results arrive |
| `OAuth2Token_twice` | a request that read the token as expired before another refreshed it refreshes it again, under the lock |

Other observations, recorded as hazards or here.  Four of the hazards have no
property, because the code does what they name and the properties next to them
except it: the firehose before its first event, IDs after `<ms>-19`, overlapping
queries of a chart, and refreshes of a chart whose filters changed.

* before the first event, reads of the firehose restart at `$` and miss what is
  added in between (`index.ts:246`);
* the result of an older query of a chart that ends late overwrites a newer one
  (`chartReducer.ts:60`);
* `increment_id("<ms>-19")` is `"<ms>-110"`: the polling API would skip events of a
  burst (`async_query_manager.py:61`);
* a soft time limit, a dead worker, or a failure before the task's `try` block
  (loading the user) leaves a chart waiting; no document promises otherwise;
* a report (not an alert) that last succeeded sends without entering WORKING, so
  two executions send twice (`execute.py:643`);
* `daos/report.py:278` looks at the logs before the last error mail, where its
  comment says since (left open in the model: it changes mails, not states);
* a hidden chart that is refreshed while it is due to ask repeats its old query
  and forgets that it was due (`chartAction.js:563`);
* a report whose log is pruned while it is WORKING never times out;
* setting the refresh frequency clears the flag of unsaved changes; unmounting a
  dashboard leaves its sockets open and an embedded one its refresh timer;
* several rows of tokens for one user are possible, as the index is not unique;
* two tabs share `last_async_event_id` in localStorage (`asyncEvent.ts:137`).

## 4. What is proved

Each theorem holds for every value of the constants under the assumption that
the module names, and each invariant that is not inductive is strengthened by
named conjuncts, stated next to it under "what makes it so".  The last step of
each is the rule for invariants, by PTL.

**Sequences and bags** (`RedisStreams_proofs`).  What a loop computes from a
sequence is a recursive function on its positions.  Its first value, its step
and a set that is closed under the step are all a proof needs (`StepByStep`: what
holds of 0 and passes from each number to the next holds up to N, by the least
number that fails; `StepwiseExists`: there is such a function).  `OnlyIsExact`
says so of the filter `Only`; the loops of the server and of the page use the
same two lemmas.  Trimming drops the oldest entries (`TrimDropsOldest`), so what
it keeps is in order (`TrimKeepsOrder`); on an ordered stream the entries below
the one that follows an ID are those up to that ID (`BelowNextIsUpTo`), which is
what a reader who asks for all that follows the ID leaves out.  The module assumes
nothing of the streams but that `$` and `+` are not IDs (`RedisStreamsAssumption`).

**Server** (`WebSocketServer_proofs`), for every number of channels, sockets and
events and streams of any length, under `WebSocketServerAssumption`: the firehose
is not a channel, the batch size is positive, the intervals are natural numbers
and `PingInterval` is smaller than `ResponseTimeout`, as in the default
configuration.  The invariants build on each other:

* `RegistryInv`, for `RegistryTypeOKAlways`, `RegistriesAgreeAlways` and
  `ResponsiveStayConnectedAlways`.  None of the three is inductive by itself.
  It adds `FreshIdsUnused` (an id not yet drawn occurs in no registry and has no
  ping under way: otherwise `trackClient` could give an id that is listed
  elsewhere) and `PongsKeepUp` (a tracked socket with its peer there was pinged
  by the check of this very tick, or is no older than that check: with the
  assumption on the two intervals, it is not stale when the timer fires).
  `CleaningKeepsInv` serves the three places that call `cleanChannel`.
* `ConnectionInv`, for `ConnectionTypeOKAlways` and `OneReadUnderWayAlways`,
  inductive together: a queue gains a read only when the other loses it.  That
  the next read continues from the cursor needs both: a read from `$` becomes a
  read from an ID (`BeginRead`) only while the cursor itself is still `$`.
* `CursorInv`, for `BatchFollowsCursorAlways`, adds that the firehose is in the
  order of its IDs (`InOrder`).  On an ordered stream XREAD returns exactly the
  entries that follow the ID it is given (`ReadIsExact`, from
  `CountTellsWhich`); by `OneReadUnderWay` that ID is the cursor; and what is
  added afterwards has greater IDs than the batch (`AddKeepsOrder`), even if the
  clock stands still.  As each batch starts where the previous one ended, the
  loop forwards every entry after its first one, once.
* `ServerInv`, for `ServerTypeOKAlways`: what each queue and inbox holds.
* `ForwardedInv`, for `NoEventSkippedAlways`, of the specification with the
  history variable `since` and with restarts: the entries of a socket's channel
  between its connection and the cursor have been sent (`Caught`).  The loop is
  the step that could break it (`LoopLeavesNothing`): between the old cursor and
  the new one the firehose holds the batch, by `BatchFollowsCursor`; the socket
  is listed under its channel, by `RegistriesAgree`; and what is sent is the part
  of the batch for its channel, by `OnlyIsExact`.  The stream is not trimmed in
  this module: an entry dropped before it is read is lost to everybody.

**Producers** (`AsyncQueryManager_proofs`): `FirehoseResendableAlways`,
`FinishedIsAnnouncedAlways`, `ManagerTypeOKAlways`.  `ManagerInv` adds
`ScopedFirst` (a task about to execute its second XADD has its event on the
channel's stream, unless that is at its limit), `StatusAgrees` (an error on a
stream means that the job's status is an error, for good) and `StatusKnown`.
Trimming removes entries only from a stream that stays at its limit
(`TrimKeeps`, `AddKeeps`), so "is there, or the stream is full" (`Kept`) is never
lost.  Assumed: a positive limit and natural clocks.

**Page** (`AsyncEventClient_proofs`), among any set of events about its jobs,
arriving in any order and number, one by one or in replies of any length:
`ListenersMatchPromisesAlways`, `RetryCountersBackedAlways`, `ClientTypeOKAlways`.  The page is a record; `Consistent` is the set of records
that satisfy the invariants.  `ProcessEventKeeps` says that an event leads from a
consistent record to a consistent one, even if
the retry counter of the event's own job is not backed by a timer (so it is
when the timer that brings the event back has just been taken off);
`PageInduction` carries this over to a whole reply.

**Pipeline** (`GlobalAsyncQueries_proofs`): `PipelineImplementsAsyncJob` and
`PipelineTypeOK`, for any number of jobs, workers and sockets, either transport,
any faults in any order and streams trimmed at any limit, under
`GlobalAsyncQueriesAssumption` (names of channels that differ, positive limits,
natural numbers).  `PipelineInv` says of the statuses A announced so far
that everything that is on its way was announced: `Said(A)` are the entries that
name the channel of their job and, for a job of the page, a status in A.
The streams, the replies of Redis and the inboxes of the sockets hold only
such entries; the timers and the reply of a poll only those about the page's
jobs (`Heard`); a result is being fetched only of a job announced as done; and a
task that executes its second XADD has its status in A.  What was announced
only grows, and every part of the invariant with it (`SaidGrows`, `Grows`).
There is one lemma per component (`ProducersStep`, `ServerStepHolds`,
`TransportsStep`, `PageStepHolds`), and `ProducersPart`, `ServerPart` and
`PagePart` say what a step of the pipeline is for each.  `AddHolds` is where a
status is announced: trimming keeps the newest entry (`TrimmedAdd`).  The
refinement maps `promise` to itself and `published` to `announced`: by
`PageStepHolds` a promise becomes resolved or rejected only from `pending` and
only by an entry of `Heard(A)` or a fetch of a job announced as done.

**Polling** (same module): `PollingLeavesNothingBehind` states the invariant
`NothingBehindLastId` for any number of jobs and workers, streams trimmed at any
limit, pages loaded again at any moment, and queries, polls, workers and cached
results lost in any order.  Its conditions are what the argument turns on:

* `Transport = "polling"`.  Over the web socket the same event can come from the
  cursor and from a range, and an older one after a newer one (section 3).
* `"publish" \notin Faults`: a publication that fails gives its job a second
  event, "error", after "done" was written.  The page may then have one of the two
  in hand and the other behind it; the invariant is about each of them.
* `PromptAnswers` and `MaxRetries # 0`: an event that comes before the answer to
  its own request is put off, and not given up before the answer is there.
* `StoredId` is absent or that of an empty stream: a page that starts with an ID
  has been told of what precedes it.
* `PlainIds`, a hypothesis on each state: `increment_id` yields the next ID for
  every entry of the page's stream.  It does unless the sequence number is 10 or
  more and ends in 9.  When a page asks for fewer than 19 jobs this is no
  hypothesis but a consequence
  (`SmallSequences`: no sequence number exceeds the number of jobs announced),
  and `FewChartsLeaveNothingBehind` states the invariant without it.

`PollingInv` is inductive, given `PipelineInv`: the page's stream is in order; a
job announces one outcome (`OneOutcome`); every entry up to lastId, up to the ID
that the poll under way resumes after, and up to the ID of an event that a timer
will bring back, is of a job that the page has in hand or is done with
(`PageIsSafe`); and a reply leaves out nothing between the ID it was asked for
and its own entries (`ReplyIsSafe`).  There are
three kinds of steps.  A job adds an entry after all others (`Grown`,
`GrownPageIsSafe`).  The page processes a reply (`PollIsSafe`): each event is
taken up, by settling its promise, starting a fetch or setting a timer
(`EventTakenUp`, by the loop `ReplyTakenUp`), so nothing of the reply is left when
lastId moves to its end (`ReplyLeavesNothing`).  The other steps of the page move
promises only forward (`Moves`, `MovedIsSafe`).

**Web socket** (same module): `WebSocketMissesNothing` states `NoOutcomeMissed`
for any number of charts and sockets, batches of any size and any number of jobs
of other sessions.  Its conditions, `WsConditions`, are those of the run
`GlobalAsyncQueries_ws`, with its bounds left open and most other faults allowed
(`NoId \notin Ids` says only that "absent" is not an ID):

* one worker whose queries take time (`Workers = 1`, `QueryMs # 0`).  Then the two
  entries of a job are next to each other: what follows an ID on the firehose
  follows it on the channel (`Known`), so that a page may ask the channel for what
  follows an ID that it got from the firehose.  With two workers, or queries that
  take no time, TLC finds `NoOutcomeMissed` violated;
* `PromptAnswers` and `MaxRetries # 0`, as for polling: violated with
  `PromptAnswers = FALSE`;
* a connection that is established, with a cursor and a stored ID at the start of
  the firehose;
* no restart, which loses the cursor (violated otherwise), and at most one fault
  if a fault may end the connection.  After two, the range that the page asked for
  the first time may be lost behind a newer event that moved its last ID: with
  `MaxFaults = 2` and three sockets, TLC's simulation finds that;
* a stream of the channel that holds all jobs of the page: violated with
  `StreamLimit = 1`;
* no failing publication.  This one is a condition of the proof, which uses that a
  job has one outcome.  On the instance of the run, TLC finds no violation without it.

`WsInv` is inductive, given `PipelineInv`.  `ProducersInv` says that one job is at
work at a time (`OneAtATime`), that its entry on the channel is there before the
one on the firehose, with an ID that is no greater (`Paired`), and that the page may
resume from any ID of the firehose (`Known`).  `CursorInv` says that one read is
under way, from the cursor, and that a batch read is all that follows it up to the
batch's end.  `PageInv` says where the outcomes are that were passed on and not
taken up (`Waiting`), in each phase of the page:

* `Following`: on its first connection, the page has them in its inbox, in order
  and after all that it has processed.
* `Away`: the connection is lost, and they follow every ID that the page may
  resume from, that of an event which a timer will bring back included.
* `Resumed`: the page has connected again, and each of them is in its inbox, in an
  answer of Redis, or in a range that was asked for (`OnItsWay`).

The passage from the second phase to the third is the step that carries the
guarantee: the page connects with its last ID, the server asks for the entries
of the channel from `incrementId` of that ID to its own cursor, and this range
holds what the page waits for (`RangeIsEnough`); Redis answers it exactly
(`RangeCovers`).  A step of the server does one of four things (`ServerActs`): it
rests, forwards a batch (`Forwards`), sends the answer to a range (`Resends`) or
has a command answered (`Serves`), and each is followed through the three phases.
A step of the page takes up what it reads (`TakesUp`), and nothing new waits
(`NothingNewWaits`, `PageStays`).  `WsMeans` concludes: when nothing is on its way,
nothing waits.

**Schedules and tokens** (`Server_proofs`): `TypeOKAlways`,
`NeverLeftWorkingAlways`, `OAuth2TypeOKAlways`, `OneRefreshAtATimeAlways`,
`NothingLostAlways`, and `ServerTypeOKAlways` of the sum that the run explores,
for any number of executions and requests.  `ScheduleInv`
adds `WorkingIsOwned` (a WORKING schedule has an execution whose own update will
leave that state: it has read WORKING, or is about to read the row again) and
`RefusedReadWorking` (a refused execution writes nothing).  `OAuth2Inv` adds
`HolderHasLock`: whoever refreshes has a lock that has not expired.

**Dashboard** (`Dashboard_proofs`): `ChartsUpToDateAlways`,
`LoadingMeansWorkAlways`, `ShowsLastAnswerAlways`, `ChartsTypeOKAlways`, for any
charts, filters, scopes and number of queries under way; `ChartsUpToDate` by
`AskedWhatApplies` (a chart that is not due asked what was applied last) and
`TriggeredIsHidden`; `ShowsLastAnswer` by `FlightIsLast`.
`NothingUnsavedForgottenAlways`, `LayoutTypeOKAlways`, for any undo limit:
`HistoryInv` says that the bottom of a history that has dropped nothing is the
saved layout, and that the history cannot have dropped anything before the flag
that says so is set: redux-undo keeps one layout more than the code compares with.

**Pages** (`Pages_proofs`): `TokenNeverExpiresAlways`, `OwnResultAlways`,
`EmbeddedTypeOKAlways`, for any buffer, wait, lifetime and latency with
`Latency < REFRESH_TIMING_BUFFER < MIN_REFRESH_WAIT` and lifetimes of at least the
wait plus the latency.  `ClockInv` with `TokenInv` is inductive: a token outlives
the refresh scheduled for it by the buffer, wherever the token is (in a message,
or in the page).  `ReplyInv` says that what is under way for a call bears its
number.  `AcknowledgedOnceOverAlways`, `PresenterTypeOKAlways`: `InOrder` (what is
still to come on a socket is newer than what was handled there) with `ReadOnce`
and `OfAMount` (only a socket of a mount handles anything).
`NobodyLeftRunningAlways`, `AtMostOneMoreStatementAlways`,
`ShownResultsExistAlways`, `QueryTypeOKAlways` for a query of any number of
statements: `QueryInv` adds `SuccessIsTheEnd` (whoever knows of a success or of a
result knows it from the commit that ends an execution) and `LateWhenStopped`;
the action property `StoppedUnlessAnsweredAlways` needs no invariant but a case
for every action.  `PagesTypeOKAlways` is of the sum that the run explores.

Only model-checked: liveness and fairness, which are out of the prover's reach.
Every invariant, every action property and every refinement that a passing run
checks is stated by a theorem.

## 5. Not modelled

In the pipeline: JWT verification and token issue (a connection or request that
fails it has no effect; `channelOf` fixes the session of a job); requests answered
from the cache with status 200 (they never enter the pipeline); the statuses
`pending` and `running`, which no producer publishes; statsd, logs, `/health`; two
tabs sharing localStorage; clocks that go back; Redis losing data.

In the other components: how alerts are evaluated and mails made and sent
(outcomes), the arithmetic of cron windows; more than one token, the state
parameter of the OAuth2 dance; rows, limits and result formats of SQL Lab, its
editors and tabs; annotation layers, the explore page, charts added or removed
while editing, staggered automatic refresh; the structure of a layout, CSS, title
and refresh frequency, which set the same unsaved flag; instructions of the
presenter without an id, which are never acknowledged.

## 6. What could follow

1. Two pages of one browser over a shared `lastId`.
2. A chart of a dashboard whose queries go through `AsyncJob`.
3. Sending of reports: at most one per window, which needs the cron schedule.

No module that is proved about declares a RECURSIVE operator; recursion is
written with recursive functions.
