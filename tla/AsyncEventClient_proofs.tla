----------------------- MODULE AsyncEventClient_proofs -----------------------
(***************************************************************************)
(* Theorems of AsyncEventClient: for any number of jobs, any limits of its *)
(* retries and any events, which may be repeated, contradict each other    *)
(* and come in any order, one at a time or in replies of any length.       *)
(***************************************************************************)
EXTENDS AsyncEventClient, RedisStreams_proofs

(* Events the page can be sent: entries of a stream about jobs it knows.     *)
Sendable(E) == \A x \in E : x.id \in Ids /\ x.event.job \in Jobs

(* The page among events of E. *)
ClientStep(E) ==
  \/ PageNext
  \/ \E x \in E : WsMessage(x)
  \/ \E events \in Seq(E) : PollAnswered(events)
  \/ Reload

ClientSpec(E) ==
  /\ \E connected \in BOOLEAN : ClientInit(connected)
  /\ [][ClientStep(E)]_clientVars

-----------------------------------------------------------------------------
(* The page's state as a record, and what is always true of it. *)
Promises == {"idle", "requested", "pending", "resolved", "rejected", "abandoned"}

Pages(E) ==
  [promise : [Jobs -> Promises], listeners : SUBSET Jobs, retries : [Jobs -> 0 .. MaxRetries],
   timers : BagsOf(E), fetching : BagsOf(Jobs), lastId : Ids \cup {NoId}]

Waits(page) == page.listeners = {j \in Jobs : page.promise[j] = "pending"}

Backed(page, j) ==
  page.retries[j] # 0 => \E x \in DOMAIN page.timers : x.event.job = j

Consistent(E) == {page \in Pages(E) : Waits(page) /\ \A j \in Jobs : Backed(page, j)}

(* A page, field by field. *)
LEMMA FieldsOfPage ==
  ASSUME NEW E, NEW page \in Pages(E)
  PROVE  /\ page = [promise |-> page.promise, listeners |-> page.listeners,
                    retries |-> page.retries, timers |-> page.timers,
                    fetching |-> page.fetching, lastId |-> page.lastId]
         /\ page.promise \in [Jobs -> Promises] /\ page.listeners \in SUBSET Jobs
         /\ page.retries \in [Jobs -> 0 .. MaxRetries] /\ page.timers \in BagsOf(E)
         /\ page.fetching \in BagsOf(Jobs) /\ page.lastId \in Ids \cup {NoId}
BY DEF Pages

(* The listener: an error settles the promise of a chart that waits, and the *)
(* chart no longer has a listener; the retries of its job start over.        *)
LEMMA ListenKeeps ==
  ASSUME NEW E, NEW page \in Pages(E), Waits(page), NEW j \in page.listeners, NEW status,
         \A k \in Jobs \ {j} : Backed(page, k)
  PROVE  Listen(page, j, status) \in Consistent(E)
<1> DEFINE fetches  == page.fetching (+) SetToBag({j})
           counters == [page.retries EXCEPT ![j] = 0]
           told     == [page.promise EXCEPT ![j] = "rejected"]
<1>1. j \in Jobs /\ page.promise[j] = "pending"
  BY DEF Pages, Waits
<1>2. counters \in [Jobs -> 0 .. MaxRetries] /\ told \in [Jobs -> Promises]
  BY <1>1, FieldsOfPage, AsyncEventClientAssumption DEF Promises
<1>3. fetches \in BagsOf(Jobs)
  BY <1>1, FieldsOfPage, BagAdded
<1>4. CASE status = "done"
  <2> SUFFICES ASSUME NEW next, next = Listen(page, j, status)
               PROVE  next \in Consistent(E)
    OBVIOUS
  <2>1. next = [page EXCEPT !.fetching = fetches, !.retries = counters]
    BY <1>4 DEF Listen
  <2> HIDE DEF fetches, counters
  <2>2. next = [promise |-> page.promise, listeners |-> page.listeners, retries |-> counters,
                timers |-> page.timers, fetching |-> fetches, lastId |-> page.lastId]
    <3>1. page = [promise |-> page.promise, listeners |-> page.listeners,
                  retries |-> page.retries, timers |-> page.timers,
                  fetching |-> page.fetching, lastId |-> page.lastId]
      BY FieldsOfPage
    <3> QED BY <2>1, <3>1
  <2>3. next \in Pages(E)
    BY <1>2, <1>3, <2>2, FieldsOfPage DEF Pages
  <2>4. \A k \in Jobs : Backed(next, k)
    BY <1>1, <2>2, FieldsOfPage DEF Backed, counters
  <2> QED BY <2>2, <2>3, <2>4 DEF Consistent, Waits
<1>5. CASE status # "done"
  <2> SUFFICES ASSUME NEW next, next = Listen(page, j, status)
               PROVE  next \in Consistent(E)
    OBVIOUS
  <2>1. next = [page EXCEPT !.promise = told, !.listeners = page.listeners \ {j},
                            !.retries = counters]
    BY <1>1, <1>5 DEF Listen
  <2> HIDE DEF counters, told
  <2>2. next = [promise |-> told, listeners |-> page.listeners \ {j}, retries |-> counters,
                timers |-> page.timers, fetching |-> page.fetching, lastId |-> page.lastId]
    <3>1. page = [promise |-> page.promise, listeners |-> page.listeners,
                  retries |-> page.retries, timers |-> page.timers,
                  fetching |-> page.fetching, lastId |-> page.lastId]
      BY FieldsOfPage
    <3> QED BY <2>1, <3>1
  <2>3. next \in Pages(E)
    BY <1>2, <2>2, FieldsOfPage DEF Pages
  <2>4. \A k \in Jobs : Backed(next, k)
    BY <1>1, <2>2, FieldsOfPage DEF Backed, counters
  <2>5. Waits(next)
    BY <1>1, <2>2, FieldsOfPage DEF Waits, told
  <2> QED BY <2>3, <2>4, <2>5 DEF Consistent
<1> QED BY <1>4, <1>5

(* An event without a listener: it is counted and its timer armed, or its    *)
(* job's retries start over.                                                 *)
LEMMA RetryKeeps ==
  ASSUME NEW E, NEW page \in Pages(E), Waits(page), NEW x \in E, x.event.job \in Jobs,
         \A k \in Jobs \ {x.event.job} : Backed(page, k)
  PROVE  Retry(page, x) \in Consistent(E)
<1> DEFINE j       == x.event.job
           armed   == page.timers (+) SetToBag({x})
           counted == [page.retries EXCEPT ![j] = page.retries[j] + 1]
           cleared == [page.retries EXCEPT ![j] = 0]
<1>1. armed \in BagsOf(E) /\ DOMAIN armed = DOMAIN page.timers \cup {x}
  <2>1. page.timers \in BagsOf(E)
    BY FieldsOfPage
  <2> QED BY <2>1, BagAdded
<1>2. cleared \in [Jobs -> 0 .. MaxRetries]
  BY FieldsOfPage, AsyncEventClientAssumption
<1> SUFFICES ASSUME NEW next, next = Retry(page, x)
             PROVE  next \in Consistent(E)
  OBVIOUS
<1>3. CASE page.retries[j] < MaxRetries
  <2>1. next = [page EXCEPT !.retries = counted, !.timers = armed]
    BY <1>3 DEF Retry
  <2>2. counted \in [Jobs -> 0 .. MaxRetries]
    BY <1>3, FieldsOfPage, AsyncEventClientAssumption
  <2> HIDE DEF armed, counted
  <2>3. next = [promise |-> page.promise, listeners |-> page.listeners, retries |-> counted,
                timers |-> armed, fetching |-> page.fetching, lastId |-> page.lastId]
    <3>1. page = [promise |-> page.promise, listeners |-> page.listeners,
                  retries |-> page.retries, timers |-> page.timers,
                  fetching |-> page.fetching, lastId |-> page.lastId]
      BY FieldsOfPage
    <3> QED BY <2>1, <3>1
  <2>4. next \in Pages(E)
    BY <1>1, <2>2, <2>3, FieldsOfPage DEF Pages
  <2>5. \A k \in Jobs : Backed(next, k)
    <3>1. \A k \in Jobs \ {j} : next.retries[k] = page.retries[k]
      BY <2>3, FieldsOfPage DEF counted
    <3> QED BY <1>1, <2>3, <3>1, FieldsOfPage DEF Backed
  <2> QED BY <2>3, <2>4, <2>5 DEF Consistent, Waits
<1>4. CASE ~(page.retries[j] < MaxRetries)
  <2>1. next = [page EXCEPT !.retries = cleared]
    BY <1>4 DEF Retry
  <2> HIDE DEF cleared
  <2>2. next = [promise |-> page.promise, listeners |-> page.listeners, retries |-> cleared,
                timers |-> page.timers, fetching |-> page.fetching, lastId |-> page.lastId]
    <3>1. page = [promise |-> page.promise, listeners |-> page.listeners,
                  retries |-> page.retries, timers |-> page.timers,
                  fetching |-> page.fetching, lastId |-> page.lastId]
      BY FieldsOfPage
    <3> QED BY <2>1, <3>1
  <2>3. next \in Pages(E)
    BY <1>2, <2>2, FieldsOfPage DEF Pages
  <2>4. \A k \in Jobs : Backed(next, k)
    BY <2>2, FieldsOfPage DEF Backed, cleared
  <2> QED BY <2>2, <2>3, <2>4 DEF Consistent, Waits
<1> QED BY <1>3, <1>4

(* One event, of a page whose counters are backed but for the event's job    *)
(* (the timer that brings the event back has just been taken off).           *)
LEMMA ProcessEventKeeps ==
  ASSUME NEW E, Sendable(E), NEW page \in Pages(E), Waits(page), NEW x \in E,
         \A k \in Jobs \ {x.event.job} : Backed(page, k)
  PROVE  ProcessEvent(page, x) \in Consistent(E)
<1>1. x.id \in Ids /\ x.event.job \in Jobs
  BY DEF Sendable
<1>2. PICK mid \in Consistent(E) :
         ProcessEvent(page, x) = [mid EXCEPT !.lastId = x.id]
  <2>1. CASE x.event.job \in page.listeners
    BY <2>1, ListenKeeps DEF ProcessEvent
  <2>2. CASE x.event.job \notin page.listeners
    BY <1>1, <2>2, RetryKeeps DEF ProcessEvent
  <2> QED BY <2>1, <2>2
<1>3. mid \in Pages(E) /\ Waits(mid) /\ \A k \in Jobs : Backed(mid, k)
  BY <1>2 DEF Consistent
<1> SUFFICES ASSUME NEW next, next = [mid EXCEPT !.lastId = x.id]
             PROVE  next \in Consistent(E)
  BY <1>2
<1>4. next = [promise |-> mid.promise, listeners |-> mid.listeners, retries |-> mid.retries,
              timers |-> mid.timers, fetching |-> mid.fetching, lastId |-> x.id]
  BY <1>3, FieldsOfPage
<1>5. next \in Pages(E)
  BY <1>1, <1>3, <1>4, FieldsOfPage DEF Pages
<1>6. Waits(next) /\ (\A k \in Jobs : Backed(next, k))
  BY <1>2, <1>3, <1>4 DEF Waits, Backed
<1> QED BY <1>5, <1>6 DEF Consistent

-----------------------------------------------------------------------------
(* A whole reply: what processing one event preserves, the loop preserves.   *)
LEMMA PageInduction ==
  ASSUME NEW E, NEW events \in Seq(E), NEW G, Page \in G,
         \A page \in G : \A x \in E : ProcessEvent(page, x) \in G,
         processEvents(events)
  PROVE  \E page \in G : Becomes(page)
<1> DEFINE N == Len(events)
           page[n \in 0 .. N] == IF n = 0 THEN Page ELSE ProcessEvent(page[n - 1], events[n])
           Step == [p \in G \X E |-> ProcessEvent(p[1], p[2])]
<1>1. N \in Nat /\ events \in [1 .. N -> E]
  OBVIOUS
<1>2. Step \in [G \X E -> G]
  OBVIOUS
<1>3. PICK f \in [0 .. N -> G] :
        f[0] = Page /\ \A n \in 1 .. N : f[n] = Step[<<f[n - 1], events[n]>>]
  <2> HIDE DEF Step, N
  <2>1. Stepwise(G, Page, Step, events, N) # {}
    BY <1>1, <1>2, StepwiseExists
  <2> QED BY <2>1 DEF Stepwise
<1>4. page = [n \in 0 .. N |-> IF n = 0 THEN Page ELSE ProcessEvent(page[n - 1], events[n])]
  <2> DEFINE R(n, g) == IF n = 0 THEN Page ELSE ProcessEvent(g[n - 1], events[n])
  <2> HIDE DEF N
  <2>1. ASSUME NEW n \in 0 .. N PROVE f[n] = R(n, f)
    <3>1. CASE n = 0
      BY <1>3, <3>1
    <3>2. CASE n # 0
      <4>1. n \in 1 .. N /\ n - 1 \in 0 .. N
        BY <1>1, <3>2
      <4>2. f[n] = Step[<<f[n - 1], events[n]>>] /\ f[n - 1] \in G /\ events[n] \in E
        BY <1>1, <1>3, <4>1
      <4>3. f[n] = ProcessEvent(f[n - 1], events[n])
        BY <4>2
      <4> QED BY <3>2, <4>3
    <3> QED BY <3>1, <3>2
  <2>2. f = [n \in 0 .. N |-> R(n, f)]
    <3> HIDE DEF R
    <3> QED BY <1>3, <2>1
  <2> QED BY <2>2
<1>5. Becomes(page[N])
  BY DEF processEvents
<1> DEFINE Good == {n \in 0 .. N : page[n] \in G}
<1> HIDE DEF page
<1>6. 0 \in Good
  BY <1>1, <1>4
<1>7. ASSUME NEW n \in 1 .. N, n - 1 \in Good PROVE n \in Good
  <2>1. n \in 0 .. N /\ n # 0 /\ events[n] \in E
    BY <1>1
  <2>2. page[n] = ProcessEvent(page[n - 1], events[n])
    BY <1>4, <2>1
  <2> QED BY <1>7, <2>1, <2>2
<1>8. N \in Good
  <2> HIDE DEF Good
  <2>1. \A n \in 0 .. N : n \in Good
    BY <1>1, <1>6, <1>7, StepByStep
  <2> QED BY <1>1, <2>1
<1> QED BY <1>5, <1>8

(* So a reply leaves the page consistent. *)
LEMMA ProcessEventsKeeps ==
  ASSUME NEW E, Sendable(E), NEW events \in Seq(E), Page \in Consistent(E),
         processEvents(events)
  PROVE  Page' \in Consistent(E)
<1> DEFINE G == Consistent(E)
<1>1. Page \in G
  OBVIOUS
<1>2. ASSUME NEW page \in G, NEW x \in E PROVE ProcessEvent(page, x) \in G
  <2>1. page \in Pages(E) /\ Waits(page) /\ \A k \in Jobs : Backed(page, k)
    BY DEF Consistent
  <2>2. ProcessEvent(page, x) \in Consistent(E)
    BY <2>1, ProcessEventKeeps
  <2> QED BY <2>2
<1>3. PICK page \in G : Becomes(page)
  <2> HIDE DEF G
  <2> QED BY <1>1, <1>2, PageInduction
<1>4. Page' = page
  <2>1. page \in Pages(E)
    BY DEF Consistent
  <2> QED BY <1>3, <2>1, FieldsOfPage DEF Becomes, Page
<1> QED BY <1>4

-----------------------------------------------------------------------------
(* The inductive invariant: the page is consistent, what a reply brings are  *)
(* events of E, and the attempts to connect are counted up to the one that   *)
(* gives up.                                                                 *)
TransportsOK(E) ==
  /\ poll \in {"off", "timer", "request", "reply"}
  /\ pollFrom \in Ids \cup {NoId} /\ pollResult \in Seq(E)
  /\ wsState \in {"none", "connecting", "open", "closed", "gaveUp"}
  /\ wsFrom \in Ids \cup {NoId}
  /\ wsRetries \in 0 .. WsConnectMaxRetries + 1
  /\ wsState # "gaveUp" => wsRetries <= WsConnectMaxRetries

ClientInv(E) == Page \in Consistent(E) /\ TransportsOK(E)

(* Consistency, of the values the page's variables have or take. *)
LEMMA ConsistentValues ==
  ASSUME NEW E, NEW p, NEW l, NEW r, NEW t, NEW f, NEW id
  PROVE  [promise |-> p, listeners |-> l, retries |-> r,
          timers |-> t, fetching |-> f, lastId |-> id] \in Consistent(E)
           <=> /\ p \in [Jobs -> Promises] /\ l = {j \in Jobs : p[j] = "pending"}
               /\ r \in [Jobs -> 0 .. MaxRetries] /\ t \in BagsOf(E) /\ f \in BagsOf(Jobs)
               /\ id \in Ids \cup {NoId}
               /\ \A j \in Jobs : r[j] # 0 => \E x \in DOMAIN t : x.event.job = j
BY DEF Consistent, Pages, Waits, Backed

LEMMA ClientInitInv ==
  ASSUME NEW E, NEW connected \in BOOLEAN, ClientInit(connected)
  PROVE  ClientInv(E)
<1>1. Page \in Consistent(E)
  BY NoBag, ConsistentValues, AsyncEventClientAssumption DEF ClientInit, Page, Promises
<1>2. TransportsOK(E)
  BY AsyncEventClientAssumption, EmptySeq DEF ClientInit, TransportsOK, Rest
<1> QED BY <1>1, <1>2 DEF ClientInv

(* The transports. *)
LEMMA TransportsKept ==
  ASSUME NEW E, TransportsOK(E), lastId \in Ids \cup {NoId}, ClientStep(E)
  PROVE  TransportsOK(E)'
<1> USE DEF TransportsOK
<1>1. CASE UNCHANGED <<pollVars, wsVars>>
  BY <1>1 DEF pollVars, wsVars
<1>2. CASE PollTimer
  BY <1>2, EmptySeq DEF PollTimer, loadEventsFromApi, Rest, wsVars
<1>3. CASE PollReturns \/ PollFails
  BY <1>3, EmptySeq DEF PollReturns, PollFails, Rest, wsVars
<1>4. CASE \E events \in Seq(E) : PollAnswered(events)
  BY <1>4 DEF PollAnswered, wsVars
<1>5. CASE WsOpen \/ WsClose
  BY <1>5, AsyncEventClientAssumption DEF WsOpen, WsClose, pollVars
<1>6. CASE WsTimer
  <2>1. wsRetries \in Nat /\ wsRetries + 1 \in 0 .. WsConnectMaxRetries + 1
    BY <1>6, AsyncEventClientAssumption DEF WsTimer
  <2>2. CASE wsRetries + 1 <= WsConnectMaxRetries
    BY <1>6, <2>1, <2>2 DEF WsTimer, wsConnect, pollVars
  <2>3. CASE ~(wsRetries + 1 <= WsConnectMaxRetries)
    BY <1>6, <2>1, <2>3, EmptySeq DEF WsTimer, loadEventsFromApi, Rest
  <2> QED BY <2>2, <2>3
<1>7. CASE Reload
  BY <1>7, EmptySeq, AsyncEventClientAssumption DEF Reload, Loaded, Rest
<1> QED BY <1>1, <1>2, <1>3, <1>4, <1>5, <1>6, <1>7
     DEF ClientStep, PageNext, Ask, waitForAsyncData, Abandon, FetchReturns, RetryTimer, WsMessage

(* The page. *)
LEMMA PageKept ==
  ASSUME NEW E, Sendable(E), ClientInv(E), ClientStep(E)
  PROVE  Page' \in Consistent(E)
<1> DEFINE Kept == Page' \in Consistent(E)
<1>1. /\ promise \in [Jobs -> Promises] /\ listeners = {j \in Jobs : promise[j] = "pending"}
      /\ retries \in [Jobs -> 0 .. MaxRetries] /\ timers \in BagsOf(E)
      /\ fetching \in BagsOf(Jobs) /\ lastId \in Ids \cup {NoId}
      /\ \A j \in Jobs : retries[j] # 0 => \E x \in DOMAIN timers : x.event.job = j
  BY ConsistentValues DEF ClientInv, Page
<1>2. CASE UNCHANGED pageVars
  BY <1>2 DEF pageVars, ClientInv, Page
<1>3. ASSUME NEW j \in Jobs, Ask(j) \/ waitForAsyncData(j) \/ Abandon(j) PROVE Kept
  <2>1. /\ UNCHANGED <<retries, timers, fetching, lastId>>
        /\ promise' \in [Jobs -> Promises] /\ promise[j] \in {"idle", "requested"}
        /\ \A k \in Jobs \ {j} : promise'[k] = promise[k]
        /\ listeners' = {k \in Jobs : promise'[k] = "pending"}
    BY <1>1, <1>3 DEF Ask, waitForAsyncData, Abandon, Promises
  <2>2. Page' \in Consistent(E)
    BY <1>1, <2>1, ConsistentValues DEF Page
  <2> QED BY <2>1, <2>2 DEF Page
<1>4. ASSUME NEW j \in Jobs, NEW ok \in BOOLEAN, FetchReturns(j, ok) PROVE Kept
  <2>1. fetching' \in BagsOf(Jobs)
    BY <1>1, <1>4, BagReduced DEF FetchReturns
  <2>2. /\ UNCHANGED <<retries, timers, lastId>>
        /\ promise' \in [Jobs -> Promises] /\ promise'[j] # "pending"
        /\ \A k \in Jobs : k # j \/ promise[k] # "pending" => promise'[k] = promise[k]
        /\ listeners' = {k \in Jobs : promise'[k] = "pending"}
    BY <1>1, <1>4 DEF FetchReturns, Promises
  <2>3. Page' \in Consistent(E)
    BY <1>1, <2>1, <2>2, ConsistentValues DEF Page
  <2> QED BY <2>2, <2>3 DEF Page
<1>5. ASSUME NEW x \in DOMAIN timers, RetryTimer(x) PROVE Kept
  <2> DEFINE left  == timers (-) SetToBag({x})
             taken == [promise |-> promise, listeners |-> listeners, retries |-> retries,
                       timers |-> left, fetching |-> fetching, lastId |-> lastId]
  <2>1. /\ left \in BagsOf(E) /\ DOMAIN timers \ {x} \subseteq DOMAIN left
    BY <1>1, BagReduced
  <2>2. x \in E
    BY <1>1 DEF BagsOf
  <2>3. Becomes(ProcessEvent(taken, x))
    BY <1>5 DEF RetryTimer, Page
  <2> HIDE DEF left
  <2>4. taken \in Pages(E) /\ Waits(taken) /\ \A k \in Jobs \ {x.event.job} : Backed(taken, k)
    BY <1>1, <2>1 DEF Pages, Waits, Backed
  <2> HIDE DEF taken
  <2>5. ProcessEvent(taken, x) \in Consistent(E)
    BY <2>2, <2>4, ProcessEventKeeps
  <2>6. Page' = ProcessEvent(taken, x)
    BY <2>3, <2>5, FieldsOfPage DEF Becomes, Page, Consistent
  <2> QED BY <2>5, <2>6
<1>6. CASE PollReturns \/ \E x \in E : WsMessage(x)
  <2>1. PICK events \in Seq(E) : processEvents(events)
    <3>1. CASE PollReturns
      BY <3>1 DEF PollReturns, ClientInv, TransportsOK
    <3>2. ASSUME NEW x \in E, WsMessage(x) PROVE \E events \in Seq(E) : processEvents(events)
      <4>1. <<x>> \in Seq(E) /\ processEvents(<<x>>)
        BY <3>2 DEF WsMessage
      <4> QED BY <4>1
    <3> QED BY <1>6, <3>1, <3>2
  <2> QED BY <2>1, ProcessEventsKeeps DEF ClientInv
<1>7. CASE Reload
  <2>1. /\ promise' \in [Jobs -> Promises] /\ listeners' = {}
        /\ \A j \in Jobs : promise'[j] # "pending"
    BY <1>1, <1>7 DEF Reload, Promises
  <2>2. /\ retries' = [j \in Jobs |-> 0] /\ timers' = EmptyBag /\ fetching' = EmptyBag
        /\ lastId' = lastId
    BY <1>7 DEF Reload
  <2>3. Page' \in Consistent(E)
    <3>1. /\ listeners' = {j \in Jobs : promise'[j] = "pending"}
          /\ retries' \in [Jobs -> 0 .. MaxRetries]
          /\ \A j \in Jobs : retries'[j] = 0
      BY <2>1, <2>2, AsyncEventClientAssumption
    <3>2. timers' \in BagsOf(E) /\ fetching' \in BagsOf(Jobs)
      BY <2>2, NoBag
    <3> QED BY <1>1, <2>1, <2>2, <3>1, <3>2, ConsistentValues DEF Page
  <2> QED BY <2>1, <2>3 DEF Page
<1> QED BY <1>2, <1>3, <1>4, <1>5, <1>6, <1>7
     DEF ClientStep, PageNext, PollTimer, PollFails, PollAnswered, WsOpen, WsClose, WsTimer

LEMMA ClientNextInv ==
  ASSUME NEW E, Sendable(E), ClientInv(E), [ClientStep(E)]_clientVars
  PROVE  ClientInv(E)'
<1>1. CASE ClientStep(E)
  <2>1. lastId \in Ids \cup {NoId}
    BY ConsistentValues DEF ClientInv, Page
  <2> QED BY <1>1, <2>1, PageKept, TransportsKept DEF ClientInv
<1>2. CASE UNCHANGED clientVars
  BY <1>2 DEF clientVars, pageVars, pollVars, wsVars, ClientInv, TransportsOK, Page
<1> QED BY <1>1, <1>2

-----------------------------------------------------------------------------
(* The types, from the invariant: the bags of the page are bags. *)
LEMMA ClientTypes ==
  ASSUME NEW E, Sendable(E), ClientInv(E)
  PROVE  TypeOK /\ ListenersMatchPromises /\ RetryCountersBacked
<1>1. /\ promise \in [Jobs -> Promises] /\ listeners = {j \in Jobs : promise[j] = "pending"}
      /\ retries \in [Jobs -> 0 .. MaxRetries] /\ timers \in BagsOf(E)
      /\ fetching \in BagsOf(Jobs) /\ lastId \in Ids \cup {NoId}
      /\ \A j \in Jobs : retries[j] # 0 => \E x \in DOMAIN timers : x.event.job = j
  BY ConsistentValues DEF ClientInv, Page
<1>2. {n \in Nat : n > 0} = Nat \ {0}
  OBVIOUS
<1>3. IsABag(timers) /\ DOMAIN timers \subseteq E
  BY <1>1, <1>2 DEF BagsOf, IsABag
<1>4. IsABag(fetching) /\ DOMAIN fetching \subseteq Jobs
  BY <1>1, <1>2 DEF BagsOf, IsABag
<1> QED BY <1>1, <1>3, <1>4 DEF TypeOK, Promises, ListenersMatchPromises, RetryCountersBacked,
                                ClientInv, TransportsOK, Sendable

(* asyncEvent.ts: whatever events arrive, in whatever order and however      *)
(* often, every variable of the page keeps its type.                         *)
THEOREM ClientTypeOKAlways ==
  ASSUME NEW E, Sendable(E)
  PROVE  ClientSpec(E) => []TypeOK
<1>1. ClientInv(E) => TypeOK
  BY ClientTypes
<1>2. (\E connected \in BOOLEAN : ClientInit(connected)) => ClientInv(E)
  BY ClientInitInv
<1>3. ClientInv(E) /\ [ClientStep(E)]_clientVars => ClientInv(E)'
  BY ClientNextInv
<1> QED BY <1>1, <1>2, <1>3, PTL DEF ClientSpec

(* A chart waits exactly while its job has a listener: a listener called a   *)
(* second time, a fetch that returns after the promise was settled, a reply  *)
(* with several events of the job or a reload never part the two.            *)
THEOREM ListenersMatchPromisesAlways ==
  ASSUME NEW E, Sendable(E)
  PROVE  ClientSpec(E) => []ListenersMatchPromises
<1>1. ClientInv(E) => ListenersMatchPromises
  BY ClientTypes
<1>2. (\E connected \in BOOLEAN : ClientInit(connected)) => ClientInv(E)
  BY ClientInitInv
<1>3. ClientInv(E) /\ [ClientStep(E)]_clientVars => ClientInv(E)'
  BY ClientNextInv
<1> QED BY <1>1, <1>2, <1>3, PTL DEF ClientSpec

(* A retry counter above zero has a timer armed for an event of its job, so  *)
(* that it is counted further or reset: no event starts with fewer retries   *)
(* than MAX_RETRIES because an earlier one was forgotten.                    *)
THEOREM RetryCountersBackedAlways ==
  ASSUME NEW E, Sendable(E)
  PROVE  ClientSpec(E) => []RetryCountersBacked
<1>1. ClientInv(E) => RetryCountersBacked
  BY ClientTypes
<1>2. (\E connected \in BOOLEAN : ClientInit(connected)) => ClientInv(E)
  BY ClientInitInv
<1>3. ClientInv(E) /\ [ClientStep(E)]_clientVars => ClientInv(E)'
  BY ClientNextInv
<1> QED BY <1>1, <1>2, <1>3, PTL DEF ClientSpec
=============================================================================
