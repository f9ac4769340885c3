-------------------------- MODULE AsyncEventClient --------------------------
(***************************************************************************)
(* The browser's side of the pipeline: one page, running                   *)
(* superset-frontend/src/middleware/asyncEvent.ts.  A chart whose request  *)
(* was answered "202, job j" waits for the outcome of j; events come from  *)
(* the web socket or from polling the REST API, in any order with respect  *)
(* to the answer; an event without a listener is tried again by timers.    *)
(*                                                                         *)
(* The page is single threaded: one callback is one action.  localStorage  *)
(* is written with every change of lastReceivedEventId, so the ID a        *)
(* reloaded page starts from is the last one.                              *)
(***************************************************************************)
EXTENDS RedisStreams, Bags

CONSTANTS Jobs, NoId,
          StoredId,            \* the ID in localStorage at first, or NoId
          Transport,           \* "polling" or "ws"
          MaxRetries,          \* MAX_RETRIES
          WsConnectMaxRetries  \* wsConnectMaxRetries

ASSUME AsyncEventClientAssumption ==
  /\ Transport \in {"polling", "ws"}
  /\ StoredId \in Ids \cup {NoId}
  /\ MaxRetries \in Nat
  /\ WsConnectMaxRetries \in Nat

VARIABLES
  promise,      \* job -> what the chart that asked for it has
  listeners,    \* keys of listenersByJobId
  retries,      \* retriesByJobId; 0 when the key is absent
  timers,       \* bag of the events with a retry timer armed
  fetching,     \* bag of the jobs a listener is fetching the result of
  lastId,       \* lastReceivedEventId
  poll,         \* loadEventsFromApi: "off", "timer", "request" or "reply"
  pollFrom,     \* last_id of the request under way
  pollResult,   \* events of the reply under way
  wsState,      \* "none", "connecting", "open", "closed" or "gaveUp"
  wsFrom,       \* last_id of the connection attempt
  wsRetries     \* wsConnectRetries

pageVars == <<promise, listeners, retries, timers, fetching, lastId>>
pollVars == <<poll, pollFrom, pollResult>>
wsVars   == <<wsState, wsFrom, wsRetries>>
clientVars == <<pageVars, pollVars, wsVars>>

-----------------------------------------------------------------------------
(* processEvents, on the page's state as a record, one event at a time. *)
Page == [promise |-> promise, listeners |-> listeners, retries |-> retries,
         timers |-> timers, fetching |-> fetching, lastId |-> lastId]

(* A variant of the listener that stays after an error.                      *)
Listen_stays(page, j, status) ==
  IF status = "done"
  THEN [page EXCEPT !.fetching = @ (+) SetToBag({j}), !.retries[j] = 0]
  ELSE [page EXCEPT !.promise[j] = IF @ = "pending" THEN "rejected" ELSE @,
                    !.retries[j] = 0]

(* The listener of waitForAsyncData, up to its first await. *)
Listen(page, j, status) ==
  IF status = "done"
  THEN [page EXCEPT !.fetching = @ (+) SetToBag({j}), !.retries[j] = 0]
  ELSE [page EXCEPT !.promise[j] = IF @ = "pending" THEN "rejected" ELSE @,
                    !.listeners = @ \ {j}, !.retries[j] = 0]

(* Variants: no second try, one try too many, a counter that is not reset. *)
Retry_never(page, x) == [page EXCEPT !.retries[x.event.job] = 0]

Retry_tooMany(page, x) ==
  LET j == x.event.job IN
  IF page.retries[j] <= MaxRetries
  THEN [page EXCEPT !.retries[j] = @ + 1, !.timers = @ (+) SetToBag({x})]
  ELSE [page EXCEPT !.retries[j] = 0]

Retry_noReset(page, x) ==
  LET j == x.event.job IN
  IF page.retries[j] < MaxRetries
  THEN [page EXCEPT !.retries[j] = @ + 1, !.timers = @ (+) SetToBag({x})]
  ELSE page

(* The branch of an event that comes before its listener, or after it. *)
Retry(page, x) ==
  LET j == x.event.job IN
  IF page.retries[j] < MaxRetries
  THEN [page EXCEPT !.retries[j] = @ + 1, !.timers = @ (+) SetToBag({x})]
  ELSE [page EXCEPT !.retries[j] = 0]

ProcessEvent(page, x) ==
  LET next == IF x.event.job \in page.listeners
              THEN Listen(page, x.event.job, x.event.status) ELSE Retry(page, x)
  IN  [next EXCEPT !.lastId = x.id]

Becomes(page) ==
  /\ promise' = page.promise
  /\ listeners' = page.listeners
  /\ retries' = page.retries
  /\ timers' = page.timers
  /\ fetching' = page.fetching
  /\ lastId' = page.lastId

(* A variant whose listeners all see the last event of a reply. *)
processEvents_lastOnly(events) ==
  LET last == events[Len(events)].event.status
      Seen(page, x) == IF x.event.job \in page.listeners
                       THEN [x EXCEPT !.event.status = last] ELSE x
      page[n \in 0 .. Len(events)] ==
        IF n = 0 THEN Page ELSE ProcessEvent(page[n - 1], Seen(page[n - 1], events[n]))
  IN  Becomes(page[Len(events)])

processEvents(events) ==
  LET page[n \in 0 .. Len(events)] ==
        IF n = 0 THEN Page ELSE ProcessEvent(page[n - 1], events[n])
  IN  Becomes(page[Len(events)])

(* The callback of a retry timer. *)
RetryTimer(x) ==
  /\ BagIn(x, timers)
  /\ Becomes(ProcessEvent([Page EXCEPT !.timers = @ (-) SetToBag({x})], x))
  /\ UNCHANGED <<pollVars, wsVars>>

-----------------------------------------------------------------------------
(* The charts. *)

(* The request of a chart is on its way: its job exists, or will. *)
Ask(j) ==
  /\ promise[j] = "idle"
  /\ promise' = [promise EXCEPT ![j] = "requested"]
  /\ UNCHANGED <<listeners, retries, timers, fetching, lastId, pollVars, wsVars>>

(* The answer 202 arrives: waitForAsyncData registers a listener. *)
waitForAsyncData(j) ==
  /\ promise[j] = "requested"
  /\ promise' = [promise EXCEPT ![j] = "pending"]
  /\ listeners' = listeners \cup {j}
  /\ UNCHANGED <<retries, timers, fetching, lastId, pollVars, wsVars>>

(* The request is aborted or its answer lost; the job runs all the same. *)
Abandon(j) ==
  /\ promise[j] = "requested"
  /\ promise' = [promise EXCEPT ![j] = "abandoned"]
  /\ UNCHANGED <<listeners, retries, timers, fetching, lastId, pollVars, wsVars>>

(* fetchCachedData returns to the listener: the promise is settled, if it    *)
(* still can be, and the listener removed.                                   *)
FetchReturns(j, ok) ==
  /\ BagIn(j, fetching)
  /\ fetching' = fetching (-) SetToBag({j})
  /\ promise' = [promise EXCEPT ![j] = IF @ # "pending" THEN @
                                       ELSE IF ok THEN "resolved" ELSE "rejected"]
  /\ listeners' = listeners \ {j}
  /\ UNCHANGED <<retries, timers, lastId, pollVars, wsVars>>

-----------------------------------------------------------------------------
(* Polling. *)
Rest == IF Transport = "polling" THEN "timer" ELSE "off"

(* A variant that re-arms the timer after a request only. *)
loadEventsFromApi_idleStops ==
  /\ poll' = IF listeners # {} THEN "request" ELSE "off"
  /\ pollFrom' = IF listeners # {} THEN lastId ELSE NoId
  /\ pollResult' = <<>>

loadEventsFromApi ==
  /\ poll' = IF listeners # {} THEN "request" ELSE Rest
  /\ pollFrom' = IF listeners # {} THEN lastId ELSE NoId
  /\ pollResult' = <<>>

PollTimer ==
  /\ poll = "timer"
  /\ loadEventsFromApi
  /\ UNCHANGED <<pageVars, wsVars>>

(* The API has read the events; its answer is on its way. *)
PollAnswered(events) ==
  /\ poll = "request"
  /\ poll' = "reply"
  /\ pollResult' = events
  /\ UNCHANGED <<pageVars, pollFrom, wsVars>>

PollReturns ==
  /\ poll = "reply"
  /\ processEvents(pollResult)
  /\ poll' = Rest
  /\ pollFrom' = NoId
  /\ pollResult' = <<>>
  /\ UNCHANGED wsVars

(* The request fails, before or after the events were read: only a warning. *)
PollFails ==
  /\ poll \in {"request", "reply"}
  /\ poll' = Rest
  /\ pollFrom' = NoId
  /\ pollResult' = <<>>
  /\ UNCHANGED <<pageVars, wsVars>>

-----------------------------------------------------------------------------
(* The web socket. *)
(* A variant without the last_id parameter. *)
wsConnect_noLastId == wsState' = "connecting" /\ wsFrom' = NoId

wsConnect == wsState' = "connecting" /\ wsFrom' = lastId

WsOpen ==
  /\ wsState = "connecting"
  /\ wsState' = "open"
  /\ wsRetries' = 0
  /\ UNCHANGED <<pageVars, pollVars, wsFrom>>

(* A variant that takes a lost connection for a failure of what waits. *)
WsClose_rejects ==
  /\ wsState \in {"connecting", "open"}
  /\ wsState' = "closed"
  /\ promise' = [j \in Jobs |-> IF promise[j] = "pending" THEN "rejected" ELSE promise[j]]
  /\ listeners' = {}
  /\ UNCHANGED <<retries, timers, fetching, lastId, pollVars, wsFrom, wsRetries>>

(* The `close' event, also after an error; it arms the reconnection timer. *)
WsClose ==
  /\ wsState \in {"connecting", "open"}
  /\ wsState' = "closed"
  /\ UNCHANGED <<pageVars, pollVars, wsFrom, wsRetries>>

(* A variant that gives up one attempt early. *)
WsTimer_early ==
  /\ wsState = "closed"
  /\ wsRetries' = wsRetries + 1
  /\ IF wsRetries + 1 < WsConnectMaxRetries
     THEN wsConnect /\ UNCHANGED pollVars
     ELSE loadEventsFromApi /\ wsState' = "gaveUp" /\ UNCHANGED wsFrom
  /\ UNCHANGED pageVars

WsTimer ==
  /\ wsState = "closed"
  /\ wsRetries' = wsRetries + 1
  /\ IF wsRetries + 1 <= WsConnectMaxRetries
     THEN wsConnect /\ UNCHANGED pollVars
     ELSE loadEventsFromApi /\ wsState' = "gaveUp" /\ UNCHANGED wsFrom
  /\ UNCHANGED pageVars

WsMessage(x) ==
  /\ wsState = "open"
  /\ processEvents(<<x>>)
  /\ UNCHANGED <<pollVars, wsVars>>

-----------------------------------------------------------------------------
(* init, when the script is loaded. *)
Loaded ==
  /\ poll' = Rest /\ pollFrom' = NoId /\ pollResult' = <<>>
  /\ wsState' = IF Transport = "ws" THEN "connecting" ELSE "none"
  /\ wsFrom' = lastId
  /\ wsRetries' = 0

(* The page is loaded again: its charts, timers and requests are gone. *)
Reload ==
  /\ promise' = [j \in Jobs |-> IF promise[j] \in {"requested", "pending"}
                                THEN "abandoned" ELSE promise[j]]
  /\ listeners' = {}
  /\ retries' = [j \in Jobs |-> 0]
  /\ timers' = EmptyBag
  /\ fetching' = EmptyBag
  /\ lastId' = lastId
  /\ Loaded

ClientInit(connected) ==
  /\ promise = [j \in Jobs |-> "idle"]
  /\ listeners = {}
  /\ retries = [j \in Jobs |-> 0]
  /\ timers = EmptyBag
  /\ fetching = EmptyBag
  /\ lastId = StoredId
  /\ poll = Rest /\ pollFrom = NoId /\ pollResult = <<>>
  /\ wsState = IF Transport # "ws" THEN "none"
               ELSE IF connected THEN "open" ELSE "connecting"
  /\ wsFrom = StoredId
  /\ wsRetries = 0

-----------------------------------------------------------------------------
(* The page among arbitrary events: whatever arrives, in whatever order and  *)
(* however often, over either transport.                                     *)
PageNext ==
  \/ \E j \in Jobs : \/ Ask(j) \/ waitForAsyncData(j) \/ Abandon(j)
                     \/ \E ok \in BOOLEAN : FetchReturns(j, ok)
  \/ \E x \in DOMAIN timers : RetryTimer(x)
  \/ PollTimer \/ PollReturns \/ PollFails
  \/ WsOpen \/ WsClose \/ WsTimer

Arrives(entries) ==
  \/ \E x \in entries : WsMessage(x) \/ PollAnswered(<<x>>)
  \/ PollAnswered(<<>>)
  \/ \E x, y \in entries : PollAnswered(<<x, y>>)

-----------------------------------------------------------------------------
(* What each variable holds. *)
TypeOK ==
  /\ promise \in [Jobs -> {"idle", "requested", "pending", "resolved",
                          "rejected", "abandoned"}]
  /\ listeners \subseteq Jobs
  /\ retries \in [Jobs -> 0 .. MaxRetries]
  /\ IsABag(timers) /\ \A x \in DOMAIN timers : x.event.job \in Jobs
  /\ IsABag(fetching) /\ DOMAIN fetching \subseteq Jobs
  /\ lastId \in Ids \cup {NoId}
  /\ poll \in {"off", "timer", "request", "reply"}
  /\ pollFrom \in Ids \cup {NoId} /\ wsFrom \in Ids \cup {NoId}
  /\ wsState \in {"none", "connecting", "open", "closed", "gaveUp"}
  /\ wsRetries \in 0 .. WsConnectMaxRetries + 1

(* A chart waits exactly while its job has a listener, although a listener   *)
(* may be called again while it awaits the result: a listener removed too    *)
(* early would leave the chart waiting for ever, one that stays would keep   *)
(* the page polling (loadEventsFromApi) for nothing.                         *)
ListenersMatchPromises == listeners = {j \in Jobs : promise[j] = "pending"}

(* A retry counter that is not reset has a timer that will count it further: *)
(* otherwise an event of the job that comes later starts with fewer retries. *)
RetryCountersBacked ==
  \A j \in Jobs : retries[j] # 0 => \E x \in DOMAIN timers : x.event.job = j
=============================================================================
