------------------------- MODULE GlobalAsyncQueries -------------------------
(***************************************************************************)
(* The pipeline of the GLOBAL_ASYNC_QUERIES feature, put together: charts  *)
(* of one page ask for data, Celery workers run the jobs and publish their *)
(* outcomes to Redis, and the page learns of them through the web socket   *)
(* server or by polling the REST API.  The components are the modules      *)
(* AsyncQueryManager, WebSocketServer and AsyncEventClient; this module    *)
(* says what joins them (requests, connections, messages) and which faults *)
(* may strike between two steps.                                           *)
(*                                                                         *)
(* The ping timers of the server are left to WebSocketServer: here time    *)
(* does not pass for them, so a connection ends when a peer or the network *)
(* ends it.                                                                *)
(***************************************************************************)
EXTENDS RedisStreams

CONSTANTS
  Session,       \* the channel of the page
  SessionJobs,   \* the jobs its charts ask for
  OtherJobs,     \* jobs of another session
  Elsewhere,     \* the channel of that session
  Full, NoId, SocketIds, NoSocket,
  StreamLimit, StreamReadCount, MaxEventCount, Workers, QueryMs,
  Transport, MaxRetries, WsConnectMaxRetries,
  StoredId,      \* the page's lastReceivedEventId in localStorage at first, or NoId
  StartSocket,   \* the socket the page is connected on at first, or NoSocket
  FirehoseStart, \* lastFirehoseId at first: Dollar, or an ID once events were forwarded
  PromptAnswers, \* whether an answer arrives before the retries of its job's event end
  Faults,        \* kinds of faults that may strike
  MaxFaults      \* how many of them at most

ASSUME GlobalAsyncQueriesAssumption ==
  /\ SessionJobs # {}
  /\ Session # Elsewhere /\ Full \notin {Session, Elsewhere}
  /\ StreamLimit \in Nat \ {0} /\ StreamReadCount \in Nat \ {0}
  /\ MaxEventCount \in Nat \ {0} /\ Workers \in Nat \ {0} /\ QueryMs \in Nat
  /\ Transport \in {"polling", "ws"}
  /\ MaxRetries \in Nat /\ WsConnectMaxRetries \in Nat
  /\ StoredId \in Ids \cup {NoId} /\ FirehoseStart \in Ids \cup {Dollar}
  /\ NoSocket \notin SocketIds /\ StartSocket \in SocketIds \cup {NoSocket}

VARIABLES
  task, status, streams, now,
  channels, sockets, lastFirehoseId, commands, replies,
  readyState, link, pinged, inbox, sinceCheck,
  promise, listeners, retries, timers, fetching, lastId,
  poll, pollFrom, pollResult, wsState, wsFrom, wsRetries,
  socket,        \* the server's socket of the page's connection, or NoSocket
  faults,        \* faults so far
  announced      \* history: job of the page -> the statuses published so far

Jobs      == SessionJobs \cup OtherJobs
channelOf == [j \in Jobs |-> IF j \in SessionJobs THEN Session ELSE Elsewhere]
Channels  == {channelOf[j] : j \in Jobs}
Events    == [channel : Channels, job : Jobs, status : {"done", "error"}]

Manager == INSTANCE AsyncQueryManager
Server  == INSTANCE WebSocketServer WITH PingInterval <- 1, ResponseTimeout <- 2
Client  == INSTANCE AsyncEventClient WITH Jobs <- SessionJobs

managerVars == <<task, status, streams, now, announced>>
serverVars  == <<channels, sockets, lastFirehoseId, commands, replies,
                 readyState, link, pinged, inbox, sinceCheck>>
clientVars  == <<promise, listeners, retries, timers, fetching, lastId,
                 poll, pollFrom, pollResult, wsState, wsFrom, wsRetries>>
vars == <<managerVars, serverVars, clientVars, socket, faults>>

Fault(kind) == kind \in Faults /\ faults < MaxFaults /\ faults' = faults + 1

Entries(k) == Manager!Entries(k)

(* The statuses of a job that the stream of its channel holds.  A stream at  *)
(* its limit drops its oldest entries, so that what it holds does not tell   *)
(* what was published: `announced' remembers it, and no step depends on it.  *)
Published(j) == {x.event.status : x \in {y \in Entries(Session) : y.event.job = j}}
Announce == announced' = [j \in SessionJobs |-> announced[j] \cup Published(j)']

-----------------------------------------------------------------------------
(* A chart asks for data: the web worker submits a job (superset/charts/data/ *)
(* api.py, _run_async); the answer 202 is on its way.                         *)
Ask(j) ==
  /\ Manager!submit_job(j)
  /\ IF j \in SessionJobs THEN Client!Ask(j) ELSE UNCHANGED clientVars
  /\ UNCHANGED <<serverVars, socket, faults, announced>>

ManagerOnly(A) == A /\ Announce /\ UNCHANGED <<serverVars, clientVars, socket>>
ServerOnly(A)  == A /\ UNCHANGED <<managerVars, clientVars, socket>>
ClientOnly(A)  == A /\ UNCHANGED <<managerVars, serverVars, socket>>

Work(j) == ManagerOnly(Manager!Work(j)) /\ UNCHANGED faults

QueryFails(j) == ManagerOnly(Manager!QueryEnds(j, "error")) /\ Fault("query")
AddFails(j)   == ManagerOnly(Manager!AddFails(j)) /\ Fault("publish")
TimesOut(j)   == ManagerOnly(Manager!SoftTimeLimit(j)) /\ Fault("timeout")
WorkerLost(j) == ManagerOnly(Manager!WorkerLost(j)) /\ Fault("worker")

(* The server and its Redis connection. *)
Subscribe  == ServerOnly(Server!subscribeToGlobalStream) /\ UNCHANGED faults
Resend     == ServerOnly(Server!fetchRangeFromStream) /\ UNCHANGED faults
Gc         == ServerOnly(Server!gc) /\ UNCHANGED faults
BeginRead  == ServerOnly(Server!BeginRead) /\ UNCHANGED faults
AnswerRead == ServerOnly(Server!AnswerRead) /\ UNCHANGED faults
ReadTimesOut == ServerOnly(Server!ReadTimesOut) /\ UNCHANGED faults
AnswerRange  == ServerOnly(Server!AnswerRange) /\ UNCHANGED faults
SocketCloses == \E s \in SocketIds : ServerOnly(Server!SocketCloses(s)) /\ UNCHANGED faults

RedisFails == ServerOnly(Server!ReadFails \/ Server!RangeFails) /\ Fault("redis")
Restart    == ServerOnly(Server!Restart) /\ Fault("restart")

(* The page's connection. *)
Connect ==
  /\ wsState = "connecting" /\ socket = NoSocket
  /\ \E s \in SocketIds : Server!wsConnection(s, Session, wsFrom) /\ socket' = s
  /\ UNCHANGED <<managerVars, clientVars, faults>>

Open ==
  /\ socket # NoSocket
  /\ ClientOnly(Client!WsOpen) /\ UNCHANGED faults

Receive ==
  /\ socket # NoSocket /\ inbox[socket] # <<>>
  /\ Client!WsMessage(Head(inbox[socket]))
  /\ inbox' = [inbox EXCEPT ![socket] = Tail(@)]
  /\ UNCHANGED <<managerVars, channels, sockets, lastFirehoseId, commands, replies,
                 readyState, link, pinged, sinceCheck, socket, faults>>

(* The connection breaks; the page and the server each notice later. *)
Break ==
  /\ socket # NoSocket
  /\ ServerOnly(Server!PeerGone(socket)) /\ Fault("drop")

PageNotices ==
  /\ socket # NoSocket /\ ~link[socket]
  /\ Client!WsClose
  /\ socket' = NoSocket
  /\ UNCHANGED <<managerVars, serverVars, faults>>

(* An attempt to connect fails. *)
Refused ==
  /\ wsState = "connecting" /\ socket = NoSocket
  /\ ClientOnly(Client!WsClose) /\ Fault("refuse")

WsTimer == ClientOnly(Client!WsTimer) /\ UNCHANGED faults

(* Polling. *)
PollTimer   == ClientOnly(Client!PollTimer) /\ UNCHANGED faults
ApiReads    == /\ ClientOnly(Client!PollAnswered(Manager!read_events(Session, pollFrom)))
               /\ UNCHANGED faults
PollReturns == ClientOnly(Client!PollReturns) /\ UNCHANGED faults
PollFails   == ClientOnly(Client!PollFails) /\ Fault("poll")

(* The page. *)
Answered(j)  == ClientOnly(Client!waitForAsyncData(j)) /\ UNCHANGED faults
Fetched(j)   == ClientOnly(Client!FetchReturns(j, TRUE)) /\ UNCHANGED faults
FetchMisses(j) == ClientOnly(Client!FetchReturns(j, FALSE)) /\ Fault("cache")
Abandon(j)   == ClientOnly(Client!Abandon(j)) /\ Fault("abandon")

(* A retry timer.  With PromptAnswers, the answer that names the job arrives  *)
(* before the last retry of its event gives up (about two seconds).           *)
RetryTimer ==
  /\ \E x \in DOMAIN timers :
       /\ PromptAnswers /\ promise[x.event.job] = "requested" =>
            retries[x.event.job] < MaxRetries
       /\ ClientOnly(Client!RetryTimer(x))
  /\ UNCHANGED faults

Reload ==
  /\ Client!Reload
  /\ IF socket # NoSocket /\ link[socket] /\ readyState[socket] = "OPEN"
     THEN Server!PeerGone(socket) ELSE UNCHANGED serverVars
  /\ socket' = NoSocket
  /\ UNCHANGED managerVars
  /\ Fault("reload")

-----------------------------------------------------------------------------
(* The page may be looked at from its loading on (StartSocket is NoSocket), or *)
(* from a quiet moment after its connection was set up.                        *)
Connected == StartSocket # NoSocket

Init ==
  /\ Manager!ManagerInit
  /\ channels = IF Connected THEN [c \in {Session} |-> {StartSocket}] ELSE [c \in {} |-> {}]
  /\ sockets = IF Connected THEN [s \in {StartSocket} |-> [channel |-> Session, age |-> 0]]
                            ELSE [s \in {} |-> {}]
  /\ lastFirehoseId = FirehoseStart
  /\ commands = <<Server!ReadCommand(FirehoseStart)>>
  /\ replies = <<>>
  /\ readyState = [s \in SocketIds |-> IF s = StartSocket THEN "OPEN" ELSE "NONE"]
  /\ link = [s \in SocketIds |-> TRUE]
  /\ pinged = {}
  /\ inbox = [s \in SocketIds |-> <<>>]
  /\ sinceCheck = 0
  /\ Client!ClientInit(Connected)
  /\ socket = StartSocket
  /\ faults = 0
  /\ announced = [j \in SessionJobs |-> {}]

JobNext == \E j \in Jobs : Ask(j) \/ Work(j) \/ QueryFails(j) \/ AddFails(j)
                           \/ TimesOut(j) \/ WorkerLost(j)

ServerNext == Subscribe \/ Resend \/ Gc \/ BeginRead \/ AnswerRead \/ ReadTimesOut
                \/ AnswerRange \/ SocketCloses \/ RedisFails \/ Restart

ConnectionNext == Connect \/ Open \/ Receive \/ Break \/ PageNotices \/ Refused \/ WsTimer

PollNext == PollTimer \/ ApiReads \/ PollReturns \/ PollFails

PageNext == RetryTimer \/ Reload
              \/ \E j \in SessionJobs : Answered(j) \/ Fetched(j) \/ FetchMisses(j) \/ Abandon(j)

(* The server takes part when the transport is the web socket. *)
Next == JobNext \/ PollNext \/ PageNext
          \/ (Transport = "ws" /\ (ServerNext \/ ConnectionNext))

Spec == Init /\ [][Next]_vars

(* Workers run, Redis serves the head of the queue, the server handles the   *)
(* head of the replies, the timers of the page fire, its requests are        *)
(* answered, and messages on a connection that lasts are delivered.  Charts  *)
(* need not ask, and no fault need strike.                                   *)
Redis      == Transport = "ws" /\ (BeginRead \/ AnswerRead \/ ReadTimesOut \/ AnswerRange)
Polling    == PollTimer \/ ApiReads \/ PollReturns
Connecting == Connect \/ Open \/ PageNotices \/ WsTimer

Fairness ==
  /\ \A j \in Jobs : WF_vars(Work(j))
  /\ \A j \in SessionJobs : WF_vars(Answered(j)) /\ WF_vars(Fetched(j))
  /\ WF_vars(RetryTimer)
  /\ WF_vars(Polling)
  /\ WF_vars(Connecting) /\ WF_vars(Receive)
  /\ WF_vars(Redis) /\ WF_vars(Subscribe \/ Resend)

FairSpec == Spec /\ Fairness

-----------------------------------------------------------------------------
(* What each component may hold; the timers of the page hold entries of the  *)
(* streams, and its socket is one the server knows of or has forgotten.      *)
TypeOK ==
  /\ Server!RegistryTypeOK
  /\ Manager!TypeOK
  /\ Client!TypeOK
  /\ DOMAIN timers \subseteq [id : Ids, event : Events]
  /\ socket \in SocketIds \cup {NoSocket}
  /\ socket # NoSocket => readyState[socket] # "NONE"

(* The page resumes, by polling or by connecting again, from lastId: an      *)
(* event of its channel at or before lastId, of a job whose chart still      *)
(* waits or will, is being handled by the page, which would not be sent it   *)
(* a second time.                                                            *)
NothingBehindLastId ==
  \A x \in Entries(Session) :
    lastId # NoId /\ IdLeq(x.id, lastId) /\ promise[x.event.job] \in {"requested", "pending"}
      => \/ \E y \in DOMAIN timers : y.event = x.event
         \/ x.event.job \in DOMAIN fetching

(* Once the page is connected, what the server forwarded and re-sent has     *)
(* been read, and no retry is pending, no chart waits for an outcome that    *)
(* the server has already passed on.  README.md:48 of superset-websocket:    *)
(* "events that may have already been received and sent unsuccessfully are   *)
(* read from the channel-based Redis Stream and re-sent".                    *)
Quiet ==
  /\ wsState = "open" /\ link[socket] /\ readyState[socket] = "OPEN"
  /\ inbox[socket] = <<>>
  /\ \A i \in 1 .. Len(commands) : commands[i].op # "xrange"
  /\ \A i \in 1 .. Len(replies) : replies[i].results = <<>>
  /\ DOMAIN timers = {} /\ DOMAIN fetching = {}

NoOutcomeMissed ==
  Quiet /\ lastFirehoseId # Dollar =>
    \A x \in Entries(Full) :
      IdLeq(x.id, lastFirehoseId) /\ x.event.job \in SessionJobs
        => promise[x.event.job] # "pending"

(* Every chart that waits gets its answer (or its page is left). *)
EveryWaitEnds == \A j \in SessionJobs : promise[j] = "pending" ~> promise[j] # "pending"

(* The pipeline implements AsyncJob: every chart's promise is settled at     *)
(* most once, after its job's outcome was published and according to it,     *)
(* whatever was lost, repeated or delivered out of order on the way, and     *)
(* however much of its streams Redis has dropped.                            *)
Promised == INSTANCE AsyncJob
              WITH Jobs <- SessionJobs, published <- announced,
                   ResultsMayBeLost <- "cache" \in Faults

ImplementsAsyncJob == Promised!Spec
=============================================================================
