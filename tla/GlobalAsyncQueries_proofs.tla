----------------------- MODULE GlobalAsyncQueries_proofs -----------------------
(***************************************************************************)
(* Theorems of the pipeline as a whole, for any number of jobs, workers    *)
(* and sockets, streams trimmed at any limit, and any faults in any order: *)
(* what its components hold, and that it implements AsyncJob; over the     *)
(* polling transport, that a page leaves nothing behind its lastId; and,   *)
(* over the web socket, that no outcome is missed.                         *)
(***************************************************************************)
EXTENDS GlobalAsyncQueries, RedisStreams_proofs

Status == {"done", "error"}
Entry  == [id : Ids, event : Events]

(* What was announced of each job of the page at some moment. *)
Announcements == [SessionJobs -> SUBSET Status]
More(A, B) == \A j \in SessionJobs : A[j] \subseteq B[j]

(* The entries that may be on their way once the statuses of A have been     *)
(* announced: an event names the channel of its job, and tells of a job of   *)
(* the page only what was announced.                                         *)
Said(A) == {x \in Entry : /\ x.event.channel = channelOf[x.event.job]
                          /\ x.event.job \in SessionJobs =>
                               x.event.status \in A[x.event.job]}

Heard(A)       == {x \in Said(A) : x.event.job \in SessionJobs}
OnStream(A, k) == {x \in Said(A) : k = Full \/ x.event.channel = k}
Told(A, s)     == {j \in SessionJobs : s \in A[j]}

(* What the components hold once the statuses of A have been announced. *)
ProducersHold(A) ==
  /\ task \in [Jobs -> Manager!TaskStates]
  /\ status \in [Jobs -> {"none"} \cup Status]
  /\ \A j \in Jobs : /\ task[j] \in {"scoped", "full"} => status[j] \in Status
                     /\ task[j] = "full" /\ j \in SessionJobs => status[j] \in A[j]
  /\ streams \in [Channels \cup {Full} -> StreamsOf(Events)]
  /\ \A k \in Channels \cup {Full} : streams[k].entries \in Seq(OnStream(A, k))
  /\ now \in Nat

Commands ==
  [op : {"xread"}, after : Ids \cup {Dollar}]
    \cup [op : {"xrange"}, channel : {Session}, start : Ids, end : Ids \cup {Plus}]

ServerHolds(A) ==
  /\ Server!RegistryTypeOK
  /\ DOMAIN channels \subseteq {Session}
  /\ lastFirehoseId \in Ids \cup {Dollar}
  /\ commands \in Seq(Commands)
  /\ replies \in Seq([op : {"xread", "xrange"}, results : Seq(Said(A))])
  /\ inbox \in [SocketIds -> Seq(Heard(A))]

Promises == {"idle", "requested", "pending", "resolved", "rejected", "abandoned"}

Pages(A) ==
  [promise : [SessionJobs -> Promises], listeners : SUBSET SessionJobs,
   retries : [SessionJobs -> 0 .. MaxRetries], timers : BagsOf(Heard(A)),
   fetching : BagsOf(Told(A, "done")), lastId : Ids \cup {NoId}]

TransportsHold(A) ==
  /\ poll \in {"off", "timer", "request", "reply"}
  /\ pollFrom \in Ids \cup {NoId} /\ pollResult \in Seq(Heard(A))
  /\ wsState \in {"none", "connecting", "open", "closed", "gaveUp"}
  /\ wsFrom \in Ids \cup {NoId}
  /\ wsRetries \in 0 .. WsConnectMaxRetries + 1
  /\ wsState # "gaveUp" => wsRetries <= WsConnectMaxRetries

PageHolds(A) == Client!Page \in Pages(A) /\ TransportsHold(A)

SocketKnown ==
  /\ socket \in SocketIds \cup {NoSocket}
  /\ socket # NoSocket => readyState[socket] # "NONE"

Holds(A) == ProducersHold(A) /\ ServerHolds(A) /\ PageHolds(A) /\ SocketKnown

PipelineInv == \E A \in Announcements : A = announced /\ Holds(A)

-----------------------------------------------------------------------------
(* The components' own copies of the stream and bag operators. *)
LEMMA ManagerStreams ==
  /\ \A s, t, e : Manager!XAdd(s, t, e) = XAdd(s, t, e)
  /\ \A s, limit : Manager!Trims(s, limit) = Trims(s, limit)
BY DEF Manager!XAdd, XAdd, Manager!NewId, NewId, Manager!Trims, Trims

LEMMA ServerStreams ==
  /\ Server!Ids = Ids
  /\ \A s, after, n : Server!XRead(s, after, n) = XRead(s, after, n)
  /\ \A s, from, to : Server!XRange(s, from, to) = XRange(s, from, to)
  /\ \A q, S : Server!Only(q, S) = Only(q, S)
BY DEF Server!Ids, Ids, Server!XRead, XRead, Server!XRange, XRange, Server!CountUpTo, CountUpTo,
       Server!CountBelow, CountBelow, Server!IdLeq, IdLeq, Server!IdLess, IdLess,
       Server!Cardinality, Cardinality, Server!Only, Only

LEMMA ClientBags ==
  /\ Client!Ids = Ids
  /\ Client!EmptyBag = EmptyBag
  /\ \A x : Client!SetToBag({x}) = SetToBag({x})
  /\ \A B, C : Client!(+)(B, C) = B (+) C /\ Client!(-)(B, C) = B (-) C
BY DEF Client!Ids, Ids, Client!EmptyBag, EmptyBag, Client!SetToBag, SetToBag,
       Client!(+), (+), Client!(-), (-)

-----------------------------------------------------------------------------
(* What was announced only grows, and with it what may be on its way. *)
LEMMA SaidGrows ==
  ASSUME NEW A, NEW B, More(A, B)
  PROVE  /\ Said(A) \subseteq Said(B) /\ Heard(A) \subseteq Heard(B)
         /\ \A k : OnStream(A, k) \subseteq OnStream(B, k)
         /\ \A s : Told(A, s) \subseteq Told(B, s)
<1>1. Said(A) \subseteq Said(B)
  BY DEF Said, More
<1> QED BY <1>1 DEF Heard, OnStream, Told, More

LEMMA BagsGrow ==
  ASSUME NEW S, NEW T, S \subseteq T
  PROVE  BagsOf(S) \subseteq BagsOf(T)
BY DEF BagsOf

LEMMA PagesGrow ==
  ASSUME NEW A, NEW B, More(A, B)
  PROVE  Pages(A) \subseteq Pages(B)
<1>1. BagsOf(Heard(A)) \subseteq BagsOf(Heard(B)) /\ BagsOf(Told(A, "done")) \subseteq BagsOf(Told(B, "done"))
  BY SaidGrows, BagsGrow
<1> QED BY <1>1 DEF Pages

-----------------------------------------------------------------------------
(* The producers. *)
LEMMA ProducersGrow ==
  ASSUME NEW A, NEW B, More(A, B), ProducersHold(A)
  PROVE  ProducersHold(B)
<1>1. \A k : Seq(OnStream(A, k)) \subseteq Seq(OnStream(B, k))
  BY SaidGrows, SeqMonotone
<1> QED BY <1>1 DEF ProducersHold, More

(* XADD, of the payload of a job that ended: what a channel's stream gets is *)
(* announced with it, what the firehose gets was announced before.           *)
LEMMA AddHolds ==
  ASSUME NEW A, ProducersHold(A), NEW B, More(A, B),
         \A i \in SessionJobs : Published(i)' \subseteq B[i],
         NEW k \in Channels \cup {Full}, NEW j \in Jobs, status[j] \in Status,
         k = channelOf[j] \/ (k = Full /\ (j \in SessionJobs => status[j] \in A[j])),
         Manager!Add(k, j)
  PROVE  /\ streams' \in [Channels \cup {Full} -> StreamsOf(Events)]
         /\ \A l \in Channels \cup {Full} : streams'[l].entries \in Seq(OnStream(B, l))
         /\ now' \in Nat
         /\ j \in SessionJobs => status[j] \in B[j]
<1> DEFINE p   == Manager!Payload(j)
           old == streams[k]
<1>1. /\ p \in Events /\ p.channel = channelOf[j] /\ p.job = j /\ p.status = status[j]
      /\ j \in SessionJobs => channelOf[j] = Session
  BY DEF Manager!Payload, Channels, Events, Status, channelOf
<1>2. PICK t \in {now, now + 1} :
         \E trimmed \in Trims(XAdd(old, t, p), StreamLimit) :
           now' = t /\ streams' = [streams EXCEPT ![k] = trimmed]
  BY ManagerStreams DEF Manager!Add
<1>3. PICK trimmed \in Trims(XAdd(old, t, p), StreamLimit) :
         now' = t /\ streams' = [streams EXCEPT ![k] = trimmed]
  BY <1>2
<1>4. t \in Nat /\ old \in StreamsOf(Events) /\ StreamLimit \in Nat \ {0}
  BY GlobalAsyncQueriesAssumption DEF ProducersHold
<1> DEFINE x == NewEntry(old, t, p)
<1> HIDE DEF p
<1>5. x \in Entry /\ x.event = p
  BY <1>1, <1>4, NewIdIsGreater DEF NewEntry, Entry, StreamsOf
<1>6. /\ trimmed \in StreamsOf(Events) /\ x \in EntriesIn(trimmed.entries)
      /\ EntriesIn(trimmed.entries) \subseteq EntriesIn(old.entries) \cup {x}
  <2> HIDE DEF old
  <2> QED BY <1>1, <1>3, <1>4, TrimmedAdd
<1> HIDE DEF x
<1>7. streams'[k] = trimmed /\ \A l \in Channels \cup {Full} : l # k => streams'[l] = streams[l]
  BY <1>3 DEF ProducersHold
<1>8. j \in SessionJobs => status[j] \in B[j]
  <2>1. CASE k = channelOf[j] /\ j \in SessionJobs
    <3>1. x \in Entries(Session)'
      BY <1>1, <1>6, <1>7, <2>1 DEF Entries, Manager!Entries, EntriesIn
    <3>2. status[j] \in Published(j)'
      BY <1>1, <1>5, <3>1 DEF Published
    <3> QED BY <2>1, <3>2
  <2>2. CASE j \in SessionJobs => status[j] \in A[j]
    BY <2>2 DEF More
  <2> QED BY <2>1, <2>2
<1>9. x \in OnStream(B, k)
  BY <1>1, <1>5, <1>8 DEF OnStream, Said
<1>10. trimmed.entries \in Seq(OnStream(B, k))
  <2>1. old.entries \in Seq(OnStream(A, k)) /\ trimmed.entries \in Seq([id : Ids, event : Events])
    BY <1>6, StreamParts DEF ProducersHold
  <2>2. EntriesIn(old.entries) \subseteq OnStream(B, k)
    BY <2>1, EntriesOfSeq, SaidGrows
  <2>3. EntriesIn(trimmed.entries) \subseteq OnStream(B, k)
    BY <1>6, <1>9, <2>2
  <2> QED BY <2>1, <2>3, EntriesOfSeq
<1>11. \A l \in Channels \cup {Full} : streams'[l].entries \in Seq(OnStream(B, l))
  <2>1. \A l \in Channels \cup {Full} : streams[l].entries \in Seq(OnStream(B, l))
    BY ProducersGrow DEF ProducersHold
  <2> QED BY <1>7, <1>10, <2>1
<1>12. streams' \in [Channels \cup {Full} -> StreamsOf(Events)] /\ now' \in Nat
  BY <1>3, <1>4, <1>6 DEF ProducersHold
<1> QED BY <1>8, <1>11, <1>12

JobStep(j) ==
  \/ Manager!submit_job(j) \/ Manager!Work(j) \/ Manager!QueryEnds(j, "error")
  \/ Manager!AddFails(j) \/ Manager!SoftTimeLimit(j) \/ Manager!WorkerLost(j)

LEMMA ProducersStep ==
  ASSUME NEW A, ProducersHold(A), NEW B, More(A, B),
         \A i \in SessionJobs : Published(i)' \subseteq B[i],
         NEW j \in Jobs, JobStep(j)
  PROVE  ProducersHold(B)'
<1> DEFINE StreamsHold ==
             /\ streams' \in [Channels \cup {Full} -> StreamsOf(Events)]
             /\ \A k \in Channels \cup {Full} : streams'[k].entries \in Seq(OnStream(B, k))
             /\ now' \in Nat
           TasksHold ==
             /\ task' \in [Jobs -> Manager!TaskStates]
             /\ status' \in [Jobs -> {"none"} \cup Status]
             /\ \A i \in Jobs : /\ task'[i] \in {"scoped", "full"} => status'[i] \in Status
                                /\ task'[i] = "full" /\ i \in SessionJobs => status'[i] \in B[i]
<1>1. /\ task \in [Jobs -> Manager!TaskStates] /\ status \in [Jobs -> {"none"} \cup Status]
      /\ \A i \in Jobs : /\ task[i] \in {"scoped", "full"} => status[i] \in Status
                         /\ task[i] = "full" /\ i \in SessionJobs => status[i] \in B[i]
  BY ProducersGrow DEF ProducersHold
<1>2. ASSUME UNCHANGED streams, now' \in Nat PROVE StreamsHold
  BY <1>2, ProducersGrow DEF ProducersHold
<1>3. channelOf[j] \in Channels /\ Full \in Channels \cup {Full} /\ now \in Nat
  BY DEF Channels, ProducersHold
<1>4. CASE Manager!submit_job(j) \/ Manager!StartTask(j) \/ Manager!SoftTimeLimit(j)
             \/ Manager!WorkerLost(j)
  <2>1. StreamsHold
    BY <1>2, <1>3, <1>4
       DEF Manager!submit_job, Manager!StartTask, Manager!SoftTimeLimit, Manager!WorkerLost
  <2>2. PICK where \in {"queued", "running", "timedOut", "lost"} :
          task' = [task EXCEPT ![j] = where] /\ status' = status
    BY <1>4
       DEF Manager!submit_job, Manager!StartTask, Manager!SoftTimeLimit, Manager!WorkerLost
  <2>3. TasksHold
    BY <1>1, <2>2 DEF Manager!TaskStates
  <2> QED BY <2>1, <2>3 DEF ProducersHold
<1>5. ASSUME NEW outcome \in Status, Manager!QueryEnds(j, outcome)
      PROVE  ProducersHold(B)'
  <2>1. StreamsHold
    BY <1>2, <1>3, <1>5, GlobalAsyncQueriesAssumption DEF Manager!QueryEnds
  <2>2. TasksHold
    BY <1>1, <1>5 DEF Manager!QueryEnds, Manager!TaskStates, Status
  <2> QED BY <2>1, <2>2 DEF ProducersHold
<1>6. CASE Manager!AddScoped(j)
  <2>1. status[j] \in Status /\ Manager!Add(channelOf[j], j)
    BY <1>1, <1>6 DEF Manager!AddScoped
  <2>2. StreamsHold /\ (j \in SessionJobs => status[j] \in B[j])
    BY <1>3, <2>1, AddHolds
  <2> HIDE DEF StreamsHold
  <2>3. TasksHold
    BY <1>1, <1>6, <2>1, <2>2 DEF Manager!AddScoped, Manager!TaskStates
  <2> QED BY <2>2, <2>3 DEF ProducersHold, StreamsHold
<1>7. CASE Manager!AddFull(j)
  <2>1. /\ status[j] \in Status /\ Manager!Add(Full, j)
        /\ j \in SessionJobs => status[j] \in A[j]
    BY <1>7 DEF Manager!AddFull, ProducersHold
  <2>2. StreamsHold
    BY <1>3, <2>1, AddHolds
  <2> HIDE DEF StreamsHold
  <2>3. TasksHold
    BY <1>1, <1>7 DEF Manager!AddFull, Manager!TaskStates
  <2> QED BY <2>2, <2>3 DEF ProducersHold, StreamsHold
<1>8. CASE Manager!AddFails(j)
  <2>1. /\ task[j] \in {"scoped", "full"} /\ status[j] \in Status
        /\ \/ UNCHANGED <<streams, now>>
           \/ Manager!Add(IF task[j] = "scoped" THEN channelOf[j] ELSE Full, j)
        /\ task[j] = "full" /\ j \in SessionJobs => status[j] \in A[j]
    BY <1>8 DEF Manager!AddFails, ProducersHold
  <2>2. StreamsHold
    <3>1. CASE UNCHANGED <<streams, now>>
      BY <1>2, <1>3, <3>1
    <3>2. CASE task[j] = "scoped" /\ Manager!Add(channelOf[j], j)
      BY <1>3, <2>1, <3>2, AddHolds
    <3>3. CASE task[j] = "full" /\ Manager!Add(Full, j)
      BY <1>3, <2>1, <3>3, AddHolds
    <3> QED BY <2>1, <3>1, <3>2, <3>3
  <2> HIDE DEF StreamsHold
  <2>3. TasksHold
    BY <1>1, <1>8 DEF Manager!AddFails, Manager!TaskStates, Status
  <2> QED BY <2>2, <2>3 DEF ProducersHold, StreamsHold
<1> QED BY <1>4, <1>5, <1>6, <1>7, <1>8 DEF JobStep, Manager!Work, Status

-----------------------------------------------------------------------------
(* The server. *)
LEMMA ServerGrows ==
  ASSUME NEW A, NEW B, More(A, B), ServerHolds(A)
  PROVE  ServerHolds(B)
<1>1. Seq(Said(A)) \subseteq Seq(Said(B)) /\ Seq(Heard(A)) \subseteq Seq(Heard(B))
  BY SaidGrows, SeqMonotone
<1>2. Seq([op : {"xread", "xrange"}, results : Seq(Said(A))])
        \subseteq Seq([op : {"xread", "xrange"}, results : Seq(Said(B))])
  <2>1. [op : {"xread", "xrange"}, results : Seq(Said(A))]
          \subseteq [op : {"xread", "xrange"}, results : Seq(Said(B))]
    BY <1>1
  <2> QED BY <2>1, SeqMonotone
<1>3. inbox \in [SocketIds -> Seq(Heard(B))]
  BY <1>1 DEF ServerHolds
<1> QED BY <1>2, <1>3 DEF ServerHolds

(* An entry of a channel that is listed concerns a job of the page. *)
LEMMA ListedIsHeard ==
  ASSUME NEW A, DOMAIN channels \subseteq {Session}, NEW s, NEW x \in Said(A), Server!Listed(s, x)
  PROVE  x \in Heard(A)
<1>1. x.event.channel = Session /\ x.event.job \in Jobs /\ x.event.channel = channelOf[x.event.job]
  BY DEF Server!Listed, Said, Entry, Events
<1>2. x.event.job \in SessionJobs
  BY <1>1, GlobalAsyncQueriesAssumption DEF channelOf
<1> QED BY <1>2 DEF Heard

(* processStreamResults: channels are only cleaned, and a socket is sent     *)
(* entries of its own session.                                               *)
LEMMA ResultsHold ==
  ASSUME NEW A, ServerHolds(A), NEW results \in Seq(Said(A)), Server!processStreamResults(results)
  PROVE  /\ DOMAIN channels' \subseteq {Session} /\ DOMAIN channels' \subseteq Channels
         /\ channels' \in [DOMAIN channels' -> SUBSET SocketIds]
         /\ inbox' \in [SocketIds -> Seq(Heard(A))]
<1>1. PICK dirty :
         /\ channels' = Server!CleanedChannels(dirty)
         /\ inbox' = [s \in SocketIds |->
                        IF Server!IsActive(s) /\ link[s]
                        THEN inbox[s] \o Server!SentTo(s, results) ELSE inbox[s]]
  BY DEF Server!processStreamResults
<1>2. /\ DOMAIN channels' \subseteq {Session} /\ DOMAIN channels' \subseteq Channels
      /\ channels' \in [DOMAIN channels' -> SUBSET SocketIds]
  BY <1>1 DEF ServerHolds, Server!RegistryTypeOK, Server!CleanedChannels, Server!ActiveIn
<1>3. ASSUME NEW s \in SocketIds
      PROVE  inbox[s] \o Server!SentTo(s, results) \in Seq(Heard(A))
  <2> DEFINE listed == {x \in EntriesIn(results) : Server!Listed(s, x)}
             sent   == Only(results, listed)
  <2>1. Server!SentTo(s, results) = sent
    BY ServerStreams DEF Server!SentTo, Server!EntriesIn, EntriesIn
  <2>2. sent \in Seq(Said(A)) /\ EntriesIn(sent) \subseteq listed
    <3> HIDE DEF listed
    <3> QED BY OnlyIsExact
  <2>3. listed \subseteq Heard(A)
    BY EntriesOfSeq, ListedIsHeard DEF ServerHolds
  <2> HIDE DEF sent, listed
  <2>4. sent \in Seq(Heard(A))
    BY <2>2, <2>3, EntriesOfSeq
  <2>5. inbox[s] \in Seq(Heard(A))
    BY DEF ServerHolds
  <2> QED BY <2>1, <2>4, <2>5, ConcatProperties
<1>4. inbox' \in [SocketIds -> Seq(Heard(A))]
  BY <1>1, <1>3 DEF ServerHolds
<1> QED BY <1>2, <1>4

ServerStep ==
  \/ Server!subscribeToGlobalStream \/ Server!fetchRangeFromStream \/ Server!gc
  \/ Server!BeginRead \/ Server!AnswerRead \/ Server!ReadTimesOut \/ Server!ReadFails
  \/ Server!AnswerRange \/ Server!RangeFails \/ Server!Restart
  \/ \E s \in SocketIds : Server!SocketCloses(s) \/ Server!PeerGone(s)
                            \/ Server!wsConnection(s, Session, wsFrom)

Unforgotten == \A s \in SocketIds : readyState[s] # "NONE" => readyState'[s] # "NONE"

LEMMA ServerStepHolds ==
  ASSUME NEW A, ServerHolds(A), ProducersHold(A), wsFrom \in Ids \cup {NoId}, ServerStep
  PROVE  ServerHolds(A)' /\ Unforgotten
<1> DEFINE Replies == [op : {"xread", "xrange"}, results : Seq(Said(A))]
           Goal    == ServerHolds(A)' /\ Unforgotten
<1>1. /\ commands \in Seq(Commands) /\ replies \in Seq(Replies)
      /\ lastFirehoseId \in Ids \cup {Dollar} /\ inbox \in [SocketIds -> Seq(Heard(A))]
      /\ DOMAIN channels \subseteq {Session}
  BY DEF ServerHolds
<1>2. ASSUME NEW q \in Seq(Commands), q # <<>>
      PROVE  Head(q) \in Commands /\ Tail(q) \in Seq(Commands)
  BY <1>2, HeadTailProperties
<1>3. ASSUME replies # <<>>
      PROVE  /\ Head(replies).op \in {"xread", "xrange"} /\ Head(replies).results \in Seq(Said(A))
             /\ Tail(replies) \in Seq(Replies)
  <2>1. Head(replies) \in Replies /\ Tail(replies) \in Seq(Replies)
    BY <1>1, <1>3, HeadTailProperties
  <2> QED BY <2>1
<1>4. ASSUME NEW after \in Ids \cup {Dollar}
      PROVE  Append(commands, Server!ReadCommand(after)) \in Seq(Commands)
  <2>1. Server!ReadCommand(after) \in Commands
    BY DEF Server!ReadCommand, Commands
  <2> QED BY <1>1, <2>1, AppendProperties
<1>5. ASSUME NEW op \in {"xread", "xrange"}, NEW results \in Seq(Said(A)),
             commands # <<>>, Server!Serve(Server!Reply(op, results))
      PROVE  Goal
  <2>1. Server!Reply(op, results) \in Replies
    BY DEF Server!Reply
  <2>2. Append(replies, Server!Reply(op, results)) \in Seq(Replies)
    BY <1>1, <2>1, AppendProperties
  <2>3. commands' \in Seq(Commands) /\ replies' \in Seq(Replies)
    BY <1>1, <1>2, <1>5, <2>2 DEF Server!Serve
  <2> QED BY <1>5, <2>3 DEF Server!Serve, Server!registries, Server!wire, ServerHolds,
                            Server!RegistryTypeOK, Unforgotten
<1>6. CASE Server!subscribeToGlobalStream
  <2> DEFINE results == Head(replies).results
  <2>1. results \in Seq(Said(A)) /\ replies' \in Seq(Replies)
    BY <1>3, <1>6 DEF Server!subscribeToGlobalStream
  <2>2. CASE results = <<>>
    <3>1. commands' \in Seq(Commands)
      BY <1>1, <1>4, <1>6, <2>2 DEF Server!subscribeToGlobalStream
    <3> QED BY <1>6, <2>1, <2>2, <3>1
            DEF Server!subscribeToGlobalStream, ServerHolds, Server!RegistryTypeOK, Unforgotten
  <2>3. CASE results # <<>>
    <3>1. Server!processStreamResults(results) /\ lastFirehoseId' = results[Len(results)].id
          /\ commands' = Append(commands, Server!ReadCommand(lastFirehoseId'))
      BY <1>6, <2>3 DEF Server!subscribeToGlobalStream
    <3>2. Len(results) \in 1 .. Len(results)
      BY <2>1, <2>3, EmptySeq
    <3>3. lastFirehoseId' \in Ids
      BY <2>1, <3>1, <3>2, ElementOfSeq DEF Said, Entry
    <3>4. commands' \in Seq(Commands)
      BY <1>4, <3>1, <3>3
    <3>5. /\ DOMAIN channels' \subseteq {Session} /\ DOMAIN channels' \subseteq Channels
          /\ channels' \in [DOMAIN channels' -> SUBSET SocketIds]
          /\ inbox' \in [SocketIds -> Seq(Heard(A))]
      BY <2>1, <3>1, ResultsHold
    <3> QED BY <1>6, <2>1, <3>3, <3>4, <3>5
            DEF Server!subscribeToGlobalStream, ServerHolds, Server!RegistryTypeOK, Unforgotten
  <2> QED BY <2>2, <2>3
<1>7. CASE Server!fetchRangeFromStream
  <2> DEFINE results == Head(replies).results
  <2>1. results \in Seq(Said(A)) /\ replies' \in Seq(Replies)
    BY <1>3, <1>7 DEF Server!fetchRangeFromStream
  <2>2. /\ DOMAIN channels' \subseteq {Session} /\ DOMAIN channels' \subseteq Channels
        /\ channels' \in [DOMAIN channels' -> SUBSET SocketIds]
        /\ inbox' \in [SocketIds -> Seq(Heard(A))]
    <3>1. CASE UNCHANGED <<channels, inbox>>
      BY <3>1 DEF ServerHolds, Server!RegistryTypeOK
    <3>2. CASE Server!processStreamResults(results)
      BY <2>1, <3>2, ResultsHold
    <3> QED BY <1>7, <3>1, <3>2 DEF Server!fetchRangeFromStream
  <2> QED BY <1>7, <2>1, <2>2
          DEF Server!fetchRangeFromStream, ServerHolds, Server!RegistryTypeOK, Unforgotten
<1>8. CASE Server!gc
  <2>1. /\ DOMAIN channels' \subseteq {Session} /\ DOMAIN channels' \subseteq Channels
        /\ channels' \in [DOMAIN channels' -> SUBSET SocketIds]
    BY <1>8 DEF Server!gc, Server!CleanedChannels, Server!ActiveIn, ServerHolds,
                Server!RegistryTypeOK
  <2> QED BY <1>8, <2>1 DEF Server!gc, Server!cursor, Server!wire, ServerHolds,
                            Server!RegistryTypeOK, Unforgotten
<1>9. CASE Server!BeginRead
  <2>1. streams[Full].last \in Ids
    BY DEF ProducersHold, StreamsOf
  <2>2. 1 \in 1 .. Len(commands) /\ commands[1] \in Commands /\ commands[1].op = "xread"
    <3>1. commands # <<>> /\ commands[1].op = "xread"
      BY <1>9 DEF Server!BeginRead, Server!Serving
    <3>2. 1 \in 1 .. Len(commands)
      BY <1>1, <3>1, EmptySeq
    <3> QED BY <1>1, <3>1, <3>2, ElementOfSeq
  <2>3. commands' = [commands EXCEPT ![1] = [commands[1] EXCEPT !.after = streams[Full].last]]
    BY <1>9 DEF Server!BeginRead
  <2>4. [commands[1] EXCEPT !.after = streams[Full].last] \in Commands
    BY <2>1, <2>2 DEF Commands
  <2>5. commands' \in Seq(Commands)
    BY <1>1, <2>2, <2>3, <2>4, ExceptSeq
  <2> QED BY <1>9, <2>5 DEF Server!BeginRead, Server!registries, Server!wire, ServerHolds,
                            Server!RegistryTypeOK, Unforgotten
<1>10. CASE Server!AnswerRead \/ Server!ReadTimesOut \/ Server!ReadFails \/ Server!RangeFails
  <2>1. commands # <<>>
    BY <1>10 DEF Server!AnswerRead, Server!ReadTimesOut, Server!ReadFails, Server!RangeFails,
                 Server!Serving
  <2>2. <<>> \in Seq(Said(A))
    BY EmptySeq
  <2>3. XRead(streams[Full], Head(commands).after, StreamReadCount) \in Seq(Said(A))
    <3>1. streams[Full].entries \in Seq(OnStream(A, Full)) /\ OnStream(A, Full) \subseteq Said(A)
      BY DEF ProducersHold, OnStream
    <3>2. streams[Full].entries \in Seq(Said(A)) /\ StreamReadCount \in Nat
      BY <3>1, SeqMonotone, GlobalAsyncQueriesAssumption
    <3> QED BY <3>2, ReadsAreEntries
  <2>4. PICK op \in {"xread", "xrange"} : \E results \in Seq(Said(A)) :
          Server!Serve(Server!Reply(op, results))
    BY <1>10, <2>2, <2>3, ServerStreams
       DEF Server!AnswerRead, Server!ReadTimesOut, Server!ReadFails, Server!RangeFails
  <2> QED BY <1>5, <2>1, <2>4
<1>11. CASE Server!AnswerRange
  <2>1. commands # <<>> /\ Head(commands).op = "xrange"
    BY <1>11 DEF Server!AnswerRange, Server!Serving
  <2>2. Head(commands).channel = Session
    BY <1>1, <1>2, <2>1 DEF Commands
  <2>3. streams[Session].entries \in Seq(Said(A))
    <3>1. Session \in Channels
      BY GlobalAsyncQueriesAssumption DEF Channels, channelOf, Jobs
    <3>2. streams[Session].entries \in Seq(OnStream(A, Session))
      BY <3>1 DEF ProducersHold
    <3>3. OnStream(A, Session) \subseteq Said(A)
      BY DEF OnStream
    <3> QED BY <3>2, <3>3, SeqMonotone
  <2>4. XRange(streams[Session], Head(commands).start, Head(commands).end) \in Seq(Said(A))
    BY <2>3, RangesAreEntries
  <2> QED BY <1>5, <1>11, <2>1, <2>2, <2>4, ServerStreams DEF Server!AnswerRange
<1>12. CASE Server!Restart
  <2>1. commands' \in Seq(Commands) /\ replies' \in Seq(Replies)
    <3>1. Server!ReadCommand(Dollar) \in Commands
      BY DEF Server!ReadCommand, Commands
    <3> QED BY <1>12, <3>1, EmptySeq DEF Server!Restart
  <2>2. inbox' \in [SocketIds -> Seq(Heard(A))]
    BY <1>12, EmptySeq DEF Server!Restart
  <2> QED BY <1>12, <2>1, <2>2 DEF Server!Restart, ServerHolds, Server!RegistryTypeOK, Unforgotten
<1>13. ASSUME NEW s \in SocketIds, Server!SocketCloses(s) \/ Server!PeerGone(s)
       PROVE  Goal
  <2>1. inbox' \in [SocketIds -> Seq(Heard(A))]
    BY <1>1, <1>13, EmptySeq DEF Server!SocketCloses, Server!PeerGone
  <2> QED BY <1>13, <2>1 DEF Server!SocketCloses, Server!PeerGone, Server!registries,
                             Server!cursor, ServerHolds, Server!RegistryTypeOK, Unforgotten
<1>14. ASSUME NEW s \in SocketIds, Server!wsConnection(s, Session, wsFrom)
       PROVE  Goal
  <2>1. Session \in Channels
    BY GlobalAsyncQueriesAssumption DEF Channels, channelOf, Jobs
  <2>2. commands' \in Seq(Commands)
    <3> DEFINE c == Server!RangeCommand(Session, Server!incrementId(wsFrom),
                                        IF lastFirehoseId = Dollar THEN Plus ELSE lastFirehoseId)
    <3>1. CASE wsFrom = NoId
      BY <1>1, <1>14, <3>1 DEF Server!wsConnection
    <3>2. CASE wsFrom # NoId
      <4>1. Server!incrementId(wsFrom) \in Ids
        BY <3>2 DEF Server!incrementId, Ids
      <4>2. c \in Commands
        BY <1>1, <4>1 DEF Server!RangeCommand, Commands
      <4>3. commands' = Append(commands, c)
        BY <1>14, <3>2 DEF Server!wsConnection
      <4> HIDE DEF c
      <4> QED BY <1>1, <4>2, <4>3, AppendProperties
    <3> QED BY <3>1, <3>2
  <2>3. /\ DOMAIN channels' \subseteq {Session} /\ DOMAIN channels' \subseteq Channels
        /\ channels' \in [DOMAIN channels' -> SUBSET SocketIds]
    BY <1>14, <2>1 DEF Server!wsConnection, Server!trackClient, ServerHolds, Server!RegistryTypeOK
  <2>4. /\ DOMAIN sockets' \subseteq SocketIds
        /\ sockets' \in [DOMAIN sockets' -> [channel : Channels, age : 0 .. 2]]
    BY <1>14, <2>1 DEF Server!wsConnection, Server!trackClient, ServerHolds, Server!RegistryTypeOK
  <2> QED BY <1>14, <2>2, <2>3, <2>4
          DEF Server!wsConnection, ServerHolds, Server!RegistryTypeOK, Unforgotten
<1> QED BY <1>6, <1>7, <1>8, <1>9, <1>10, <1>11, <1>12, <1>13, <1>14 DEF ServerStep

-----------------------------------------------------------------------------
(* The page, whose variables and operators are those of the client's module. *)
PageIs(page, p, l, r, t, f, id) ==
  page = [promise |-> p, listeners |-> l, retries |-> r, timers |-> t, fetching |-> f, lastId |-> id]

LEMMA FieldsOfPage ==
  ASSUME NEW A, NEW page \in Pages(A)
  PROVE  /\ PageIs(page, page.promise, page.listeners, page.retries, page.timers,
                   page.fetching, page.lastId)
         /\ page.promise \in [SessionJobs -> Promises] /\ page.listeners \in SUBSET SessionJobs
         /\ page.retries \in [SessionJobs -> 0 .. MaxRetries] /\ page.timers \in BagsOf(Heard(A))
         /\ page.fetching \in BagsOf(Told(A, "done")) /\ page.lastId \in Ids \cup {NoId}
BY DEF Pages, PageIs

LEMMA PageOfFields ==
  ASSUME NEW A, NEW page, NEW p \in [SessionJobs -> Promises], NEW l \in SUBSET SessionJobs,
         NEW r \in [SessionJobs -> 0 .. MaxRetries], NEW t \in BagsOf(Heard(A)),
         NEW f \in BagsOf(Told(A, "done")), NEW id \in Ids \cup {NoId},
         PageIs(page, p, l, r, t, f, id)
  PROVE  page \in Pages(A)
BY DEF Pages, PageIs

(* What an event does to the promises: one that waits is rejected if it is   *)
(* an error that was announced, the others stand.                            *)
Tells(A, page, next) ==
  \A j \in SessionJobs :
    \/ next.promise[j] = page.promise[j]
    \/ /\ page.promise[j] = "pending" /\ next.promise[j] = "rejected"
       /\ j \in Told(A, "error")

LEMMA EventHolds ==
  ASSUME NEW A, NEW page \in Pages(A), NEW x \in Heard(A)
  PROVE  /\ Client!ProcessEvent(page, x) \in Pages(A)
         /\ Tells(A, page, Client!ProcessEvent(page, x))
<1> DEFINE j       == x.event.job
           fetches == page.fetching (+) SetToBag({j})
           armed   == page.timers (+) SetToBag({x})
           cleared == [page.retries EXCEPT ![j] = 0]
           counted == [page.retries EXCEPT ![j] = page.retries[j] + 1]
           told    == [page.promise EXCEPT ![j] = IF page.promise[j] = "pending" THEN "rejected"
                                                  ELSE page.promise[j]]
<1>1. /\ j \in SessionJobs /\ x.id \in Ids /\ x.event.status \in Status /\ j \in Told(A, x.event.status)
  BY DEF Heard, Said, Entry, Events, Told, Status
<1>2. PageIs(page, page.promise, page.listeners, page.retries, page.timers, page.fetching, page.lastId)
  BY FieldsOfPage
<1>3. /\ page.promise \in [SessionJobs -> Promises] /\ page.listeners \in SUBSET SessionJobs
      /\ page.retries \in [SessionJobs -> 0 .. MaxRetries] /\ page.timers \in BagsOf(Heard(A))
      /\ page.fetching \in BagsOf(Told(A, "done")) /\ page.lastId \in Ids \cup {NoId}
  BY FieldsOfPage
<1>4. cleared \in [SessionJobs -> 0 .. MaxRetries]
  BY <1>1, <1>3, GlobalAsyncQueriesAssumption
<1>5. told \in [SessionJobs -> Promises]
  BY <1>1, <1>3 DEF Promises
<1>6. armed \in BagsOf(Heard(A))
  BY <1>3, BagAdded
<1> SUFFICES ASSUME NEW next, next = Client!ProcessEvent(page, x)
             PROVE  next \in Pages(A) /\ Tells(A, page, next)
  OBVIOUS
<1>7. CASE j \in page.listeners /\ x.event.status = "done"
  <2>1. fetches \in BagsOf(Told(A, "done"))
    BY <1>1, <1>3, <1>7, BagAdded
  <2>2. next = [page EXCEPT !.fetching = fetches, !.retries = cleared, !.lastId = x.id]
    BY <1>7, ClientBags DEF Client!ProcessEvent, Client!Listen
  <2> HIDE DEF fetches, cleared
  <2>3. PageIs(next, page.promise, page.listeners, cleared, page.timers, fetches, x.id)
    BY <1>2, <2>2 DEF PageIs
  <2>4. next \in Pages(A)
    BY <1>1, <1>3, <1>4, <2>1, <2>3, PageOfFields
  <2> QED BY <2>3, <2>4 DEF Tells, PageIs
<1>8. CASE j \in page.listeners /\ x.event.status # "done"
  <2>1. x.event.status = "error" /\ j \in Told(A, "error")
    BY <1>1, <1>8 DEF Status
  <2>2. next = [page EXCEPT !.promise = told, !.listeners = page.listeners \ {j},
                            !.retries = cleared, !.lastId = x.id]
    BY <1>8 DEF Client!ProcessEvent, Client!Listen
  <2>3. \A k \in SessionJobs :
          \/ told[k] = page.promise[k]
          \/ k = j /\ page.promise[k] = "pending" /\ told[k] = "rejected"
    BY <1>1, <1>3
  <2> HIDE DEF told, cleared
  <2>4. PageIs(next, told, page.listeners \ {j}, cleared, page.timers, page.fetching, x.id)
    BY <1>2, <2>2 DEF PageIs
  <2>5. next \in Pages(A)
    <3>1. page.listeners \ {j} \in SUBSET SessionJobs
      BY <1>3
    <3> QED BY <1>1, <1>3, <1>4, <1>5, <2>4, <3>1, PageOfFields
  <2> QED BY <2>1, <2>3, <2>4, <2>5 DEF Tells, PageIs
<1>9. CASE j \notin page.listeners
  <2>1. PICK r \in [SessionJobs -> 0 .. MaxRetries], t \in BagsOf(Heard(A)) :
           next = [page EXCEPT !.retries = r, !.timers = t, !.lastId = x.id]
    <3>1. CASE page.retries[j] < MaxRetries
      <4>1. counted \in [SessionJobs -> 0 .. MaxRetries]
        BY <1>1, <1>3, <3>1, GlobalAsyncQueriesAssumption
      <4>2. next = [page EXCEPT !.retries = counted, !.timers = armed, !.lastId = x.id]
        BY <1>9, <3>1, ClientBags DEF Client!ProcessEvent, Client!Retry
      <4> HIDE DEF counted, armed
      <4> QED BY <1>6, <4>1, <4>2
    <3>2. CASE ~(page.retries[j] < MaxRetries)
      <4>1. next = [page EXCEPT !.retries = cleared, !.lastId = x.id]
        BY <1>9, <3>2 DEF Client!ProcessEvent, Client!Retry
      <4> HIDE DEF cleared
      <4>2. next = [page EXCEPT !.retries = cleared, !.timers = page.timers, !.lastId = x.id]
        BY <1>2, <4>1 DEF PageIs
      <4> QED BY <1>3, <1>4, <4>2
    <3> QED BY <3>1, <3>2
  <2>2. PageIs(next, page.promise, page.listeners, r, t, page.fetching, x.id)
    BY <1>2, <2>1 DEF PageIs
  <2>3. next \in Pages(A)
    BY <1>1, <1>3, <2>2, PageOfFields
  <2> QED BY <2>2, <2>3 DEF Tells, PageIs
<1> QED BY <1>1, <1>7, <1>8, <1>9

(* A whole reply: the pages that the loop over its events goes through, and  *)
(* what an event preserves, the loop preserves.                              *)
LEMMA ReplySteps ==
  ASSUME NEW E, NEW events \in Seq(E), NEW G, Client!Page \in G,
         \A page \in G : \A x \in E : Client!ProcessEvent(page, x) \in G,
         Client!processEvents(events)
  PROVE  \E f \in [0 .. Len(events) -> G] :
           /\ f[0] = Client!Page
           /\ \A n \in 1 .. Len(events) : f[n] = Client!ProcessEvent(f[n - 1], events[n])
           /\ Client!Becomes(f[Len(events)])
<1> DEFINE N == Len(events)
           page[n \in 0 .. N] == IF n = 0 THEN Client!Page
                                 ELSE Client!ProcessEvent(page[n - 1], events[n])
           Step == [p \in G \X E |-> Client!ProcessEvent(p[1], p[2])]
<1>1. N \in Nat /\ events \in [1 .. N -> E]
  OBVIOUS
<1>2. Step \in [G \X E -> G]
  OBVIOUS
<1>3. PICK f \in [0 .. N -> G] :
        f[0] = Client!Page /\ \A n \in 1 .. N : f[n] = Step[<<f[n - 1], events[n]>>]
  <2> HIDE DEF Step, N
  <2>1. Stepwise(G, Client!Page, Step, events, N) # {}
    BY <1>1, <1>2, StepwiseExists
  <2> QED BY <2>1 DEF Stepwise
<1>4. page = [n \in 0 .. N |-> IF n = 0 THEN Client!Page
                               ELSE Client!ProcessEvent(page[n - 1], events[n])]
  <2> DEFINE R(n, g) == IF n = 0 THEN Client!Page ELSE Client!ProcessEvent(g[n - 1], events[n])
  <2> HIDE DEF N
  <2>1. ASSUME NEW n \in 0 .. N PROVE f[n] = R(n, f)
    <3>1. CASE n = 0
      BY <1>3, <3>1
    <3>2. CASE n # 0
      <4>1. n \in 1 .. N /\ n - 1 \in 0 .. N
        BY <1>1, <3>2
      <4>2. f[n] = Step[<<f[n - 1], events[n]>>] /\ f[n - 1] \in G /\ events[n] \in E
        BY <1>1, <1>3, <4>1
      <4>3. f[n] = Client!ProcessEvent(f[n - 1], events[n])
        BY <4>2
      <4> QED BY <3>2, <4>3
    <3> QED BY <3>1, <3>2
  <2>2. f = [n \in 0 .. N |-> R(n, f)]
    <3> HIDE DEF R
    <3> QED BY <1>3, <2>1
  <2> QED BY <2>2
<1>5. Client!Becomes(page[N])
  BY DEF Client!processEvents
<1> DEFINE Good == {n \in 0 .. N : page[n] \in G}
<1> HIDE DEF page
<1>6. 0 \in Good
  BY <1>1, <1>4
<1>7. ASSUME NEW n \in 1 .. N PROVE page[n] = Client!ProcessEvent(page[n - 1], events[n])
  <2>1. n \in 0 .. N /\ n # 0
    BY <1>1
  <2> QED BY <1>4, <2>1
<1>8. ASSUME NEW n \in 1 .. N, n - 1 \in Good PROVE n \in Good
  <2>1. n \in 0 .. N /\ events[n] \in E
    BY <1>1
  <2> QED BY <1>7, <1>8, <2>1
<1>9. \A n \in 0 .. N : page[n] \in G
  <2>1. \A n \in 0 .. N : n \in Good
    <3> HIDE DEF Good
    <3> QED BY <1>1, <1>6, <1>8, StepByStep
  <2> QED BY <2>1
<1> DEFINE pages == [n \in 0 .. N |-> page[n]]
<1>10. pages \in [0 .. N -> G] /\ pages[0] = Client!Page /\ pages[N] = page[N]
  BY <1>1, <1>4, <1>9
<1>11. \A n \in 1 .. N : pages[n] = Client!ProcessEvent(pages[n - 1], events[n])
  <2> TAKE n \in 1 .. N
  <2>1. n \in 0 .. N /\ n - 1 \in 0 .. N
    BY <1>1
  <2>2. pages[n] = page[n] /\ pages[n - 1] = page[n - 1]
    BY <2>1
  <2> HIDE DEF pages
  <2> QED BY <1>7, <2>2
<1> HIDE DEF pages
<1> QED BY <1>5, <1>10, <1>11

LEMMA ReplyInduction ==
  ASSUME NEW E, NEW events \in Seq(E), NEW G, Client!Page \in G,
         \A page \in G : \A x \in E : Client!ProcessEvent(page, x) \in G,
         Client!processEvents(events)
  PROVE  \E page \in G : Client!Becomes(page)
<1>1. PICK f \in [0 .. Len(events) -> G] : Client!Becomes(f[Len(events)])
  BY ReplySteps
<1>2. Len(events) \in 0 .. Len(events)
  BY LenProperties
<1> QED BY <1>1, <1>2

LEMMA ReplyHolds ==
  ASSUME NEW A, Client!Page \in Pages(A), NEW events \in Seq(Heard(A)),
         Client!processEvents(events)
  PROVE  \E page \in Pages(A) : Client!Becomes(page) /\ Tells(A, Client!Page, page)
<1> DEFINE G == {page \in Pages(A) : Tells(A, Client!Page, page)}
<1>1. Client!Page \in G
  BY DEF Tells
<1>2. ASSUME NEW page \in G, NEW x \in Heard(A) PROVE Client!ProcessEvent(page, x) \in G
  <2>1. Client!ProcessEvent(page, x) \in Pages(A) /\ Tells(A, page, Client!ProcessEvent(page, x))
    BY EventHolds
  <2> QED BY <2>1 DEF Tells
<1>3. PICK page \in G : Client!Becomes(page)
  <2> HIDE DEF G
  <2> QED BY <1>1, <1>2, ReplyInduction
<1> QED BY <1>3

(* The ways the promise of a chart may change in a step, once the statuses   *)
(* of A have been announced.                                                 *)
Changes(A, p, q) ==
  \A j \in SessionJobs :
    \/ q[j] = p[j]
    \/ p[j] = "idle" /\ q[j] = "requested"
    \/ p[j] = "requested" /\ q[j] = "pending"
    \/ p[j] \in {"requested", "pending"} /\ q[j] = "abandoned"
    \/ p[j] = "pending" /\ q[j] = "resolved" /\ "done" \in A[j]
    \/ /\ p[j] = "pending" /\ q[j] = "rejected"
       /\ "error" \in A[j] \/ ("cache" \in Faults /\ "done" \in A[j])

PageStep(A) ==
  \/ \E j \in SessionJobs : \/ Client!Ask(j) \/ Client!waitForAsyncData(j) \/ Client!Abandon(j)
                            \/ Client!FetchReturns(j, TRUE)
                            \/ Client!FetchReturns(j, FALSE) /\ "cache" \in Faults
  \/ \E x \in DOMAIN timers : Client!RetryTimer(x)
  \/ Client!PollTimer \/ Client!PollReturns \/ Client!PollFails
  \/ \E events \in Seq(Heard(A)) : Client!PollAnswered(events)
  \/ Client!WsOpen \/ Client!WsClose \/ Client!WsTimer
  \/ \E x \in Heard(A) : Client!WsMessage(x)
  \/ Client!Reload

(* The transports. *)
LEMMA TransportsStep ==
  ASSUME NEW A, TransportsHold(A), lastId \in Ids \cup {NoId}, PageStep(A)
  PROVE  TransportsHold(A)'
<1> USE DEF TransportsHold
<1>1. CASE UNCHANGED <<Client!pollVars, Client!wsVars>>
  BY <1>1 DEF Client!pollVars, Client!wsVars
<1>2. CASE Client!PollTimer
  BY <1>2, EmptySeq DEF Client!PollTimer, Client!loadEventsFromApi, Client!Rest, Client!wsVars
<1>3. CASE Client!PollReturns \/ Client!PollFails
  BY <1>3, EmptySeq DEF Client!PollReturns, Client!PollFails, Client!Rest, Client!wsVars
<1>4. CASE \E events \in Seq(Heard(A)) : Client!PollAnswered(events)
  BY <1>4 DEF Client!PollAnswered, Client!wsVars
<1>5. CASE Client!WsOpen \/ Client!WsClose
  BY <1>5, GlobalAsyncQueriesAssumption DEF Client!WsOpen, Client!WsClose, Client!pollVars
<1>6. CASE Client!WsTimer
  <2>1. wsRetries \in Nat /\ wsRetries + 1 \in 0 .. WsConnectMaxRetries + 1
    BY <1>6, GlobalAsyncQueriesAssumption DEF Client!WsTimer
  <2>2. CASE wsRetries + 1 <= WsConnectMaxRetries
    BY <1>6, <2>1, <2>2 DEF Client!WsTimer, Client!wsConnect, Client!pollVars
  <2>3. CASE ~(wsRetries + 1 <= WsConnectMaxRetries)
    BY <1>6, <2>1, <2>3, EmptySeq DEF Client!WsTimer, Client!loadEventsFromApi, Client!Rest
  <2> QED BY <2>2, <2>3
<1>7. CASE Client!Reload
  BY <1>7, EmptySeq, GlobalAsyncQueriesAssumption DEF Client!Reload, Client!Loaded, Client!Rest
<1> QED BY <1>1, <1>2, <1>3, <1>4, <1>5, <1>6, <1>7
     DEF PageStep, Client!Ask, Client!waitForAsyncData, Client!Abandon, Client!FetchReturns,
         Client!RetryTimer, Client!WsMessage

(* The page, and what becomes of its promises. *)
LEMMA PageStepHolds ==
  ASSUME NEW A, Client!Page \in Pages(A), pollResult \in Seq(Heard(A)), PageStep(A)
  PROVE  Client!Page' \in Pages(A) /\ Changes(A, promise, promise')
<1> DEFINE Goal == Client!Page' \in Pages(A) /\ Changes(A, promise, promise')
<1>1. /\ promise \in [SessionJobs -> Promises] /\ listeners \in SUBSET SessionJobs
      /\ retries \in [SessionJobs -> 0 .. MaxRetries] /\ timers \in BagsOf(Heard(A))
      /\ fetching \in BagsOf(Told(A, "done")) /\ lastId \in Ids \cup {NoId}
  BY FieldsOfPage DEF Client!Page
<1>2. ASSUME promise' \in [SessionJobs -> Promises], listeners' \in SUBSET SessionJobs,
             retries' \in [SessionJobs -> 0 .. MaxRetries], timers' \in BagsOf(Heard(A)),
             fetching' \in BagsOf(Told(A, "done")), lastId' \in Ids \cup {NoId},
             Changes(A, promise, promise')
      PROVE  Goal
  BY <1>2 DEF Pages, Client!Page
<1>3. CASE UNCHANGED Client!pageVars
  <2>1. Changes(A, promise, promise')
    BY <1>3 DEF Client!pageVars, Changes
  <2> QED BY <1>1, <1>2, <1>3, <2>1 DEF Client!pageVars
<1>4. ASSUME NEW j \in SessionJobs, Client!Ask(j) \/ Client!waitForAsyncData(j) \/ Client!Abandon(j)
      PROVE  Goal
  <2>1. /\ UNCHANGED <<retries, timers, fetching, lastId>>
        /\ promise' \in [SessionJobs -> Promises] /\ listeners' \in SUBSET SessionJobs
        /\ Changes(A, promise, promise')
    BY <1>1, <1>4 DEF Client!Ask, Client!waitForAsyncData, Client!Abandon, Promises, Changes
  <2> QED BY <1>1, <1>2, <2>1
<1>5. ASSUME NEW j \in SessionJobs, NEW ok \in BOOLEAN, Client!FetchReturns(j, ok),
             ok \/ "cache" \in Faults
      PROVE  Goal
  <2>1. "done" \in A[j]
    BY <1>1, <1>5 DEF Client!FetchReturns, Client!BagIn, Client!BagToSet, BagsOf, Told
  <2>2. fetching' \in BagsOf(Told(A, "done"))
    BY <1>1, <1>5, ClientBags, BagReduced DEF Client!FetchReturns
  <2>3. /\ UNCHANGED <<retries, timers, lastId>>
        /\ promise' \in [SessionJobs -> Promises] /\ listeners' \in SUBSET SessionJobs
        /\ \A k \in SessionJobs \ {j} : promise'[k] = promise[k]
        /\ \/ promise'[j] = promise[j]
           \/ promise[j] = "pending" /\ promise'[j] = (IF ok THEN "resolved" ELSE "rejected")
    BY <1>1, <1>5 DEF Client!FetchReturns, Promises
  <2>4. Changes(A, promise, promise')
    BY <1>5, <2>1, <2>3 DEF Changes
  <2> QED BY <1>1, <1>2, <2>2, <2>3, <2>4
<1>6. ASSUME NEW page \in Pages(A), Client!Becomes(page), Tells(A, Client!Page, page)
      PROVE  Goal
  <2>1. Changes(A, promise, promise')
    BY <1>6 DEF Client!Becomes, Tells, Told, Changes, Client!Page
  <2> QED BY <1>2, <1>6, <2>1, FieldsOfPage DEF Client!Becomes
<1>7. CASE Client!PollReturns \/ \E x \in Heard(A) : Client!WsMessage(x)
  <2>1. PICK events \in Seq(Heard(A)) : Client!processEvents(events)
    <3>1. CASE Client!PollReturns
      BY <3>1 DEF Client!PollReturns
    <3>2. ASSUME NEW x \in Heard(A), Client!WsMessage(x)
          PROVE  \E events \in Seq(Heard(A)) : Client!processEvents(events)
      <4>1. <<x>> \in Seq(Heard(A)) /\ Client!processEvents(<<x>>)
        BY <3>2 DEF Client!WsMessage
      <4> QED BY <4>1
    <3> QED BY <1>7, <3>1, <3>2
  <2>2. PICK page \in Pages(A) : Client!Becomes(page) /\ Tells(A, Client!Page, page)
    BY <2>1, ReplyHolds
  <2> QED BY <1>6, <2>2
<1>8. ASSUME NEW x \in DOMAIN timers, Client!RetryTimer(x)
      PROVE  Goal
  <2> DEFINE left  == timers (-) SetToBag({x})
             taken == [promise |-> promise, listeners |-> listeners, retries |-> retries,
                       timers |-> left, fetching |-> fetching, lastId |-> lastId]
             page  == Client!ProcessEvent(taken, x)
  <2>1. left \in BagsOf(Heard(A)) /\ x \in Heard(A)
    BY <1>1, BagReduced DEF BagsOf
  <2>2. Client!Becomes(page)
    <3>1. Client!SetToBag({x}) = SetToBag({x}) /\ Client!Page.timers = timers
      BY ClientBags DEF Client!Page
    <3>2. Client!(-)(Client!Page.timers, Client!SetToBag({x})) = left
      BY <3>1, ClientBags
    <3> HIDE DEF left
    <3>3. [Client!Page EXCEPT !.timers = left] = taken
      BY DEF Client!Page
    <3> HIDE DEF taken
    <3> QED BY <1>8, <3>2, <3>3 DEF Client!RetryTimer
  <2> HIDE DEF left
  <2>3. taken \in Pages(A) /\ taken.promise = Client!Page.promise
    BY <1>1, <2>1 DEF Pages, Client!Page
  <2> HIDE DEF taken
  <2>4. page \in Pages(A) /\ Tells(A, taken, page)
    BY <2>1, <2>3, EventHolds
  <2> HIDE DEF page
  <2>5. Tells(A, Client!Page, page)
    BY <2>3, <2>4 DEF Tells
  <2> QED BY <1>6, <2>2, <2>4, <2>5
<1>9. CASE Client!Reload
  <2>1. /\ promise' \in [SessionJobs -> Promises] /\ listeners' \in SUBSET SessionJobs
        /\ retries' \in [SessionJobs -> 0 .. MaxRetries] /\ lastId' = lastId
        /\ timers' = EmptyBag /\ fetching' = EmptyBag
        /\ Changes(A, promise, promise')
    BY <1>1, <1>9, ClientBags, GlobalAsyncQueriesAssumption DEF Client!Reload, Promises, Changes
  <2> QED BY <1>1, <1>2, <2>1, NoBag
<1> QED BY <1>3, <1>4, <1>5, <1>7, <1>8, <1>9
     DEF PageStep, Client!PollTimer, Client!PollFails, Client!PollAnswered, Client!WsOpen,
         Client!WsClose, Client!WsTimer

(* A poll's answer holds events of the page's channel. *)
LEMMA PollReads ==
  ASSUME NEW stream \in StreamsOf(Events), stream = streams[Session]
  PROVE  \E first, last \in Int :
           /\ Manager!read_events(Session, pollFrom) = SubSeq(stream.entries, first, last)
           /\ first = IF pollFrom = NoId THEN 1
                      ELSE CountBelow(stream, Manager!increment_id(pollFrom)) + 1
           /\ first \in Nat \ {0} /\ \A i \in first .. last : i \in 1 .. Len(stream.entries)
<1> DEFINE n     == Len(stream.entries)
           first == IF pollFrom = NoId THEN 1
                    ELSE CountBelow(stream, Manager!increment_id(pollFrom)) + 1
           last  == IF n < first + MaxEventCount - 1 THEN n ELSE first + MaxEventCount - 1
<1>1. n \in Nat
  BY StreamParts
<1>2. \A id : Manager!CountBelow(stream, id) = CountBelow(stream, id)
  BY DEF Manager!CountBelow, CountBelow, Manager!IdLess, IdLess, Manager!Cardinality, Cardinality
<1>3. Manager!read_events(Session, pollFrom) = SubSeq(stream.entries, first, last)
  BY <1>2 DEF Manager!read_events
<1>4. first \in 1 .. n + 1
  <2>1. \A id : CountBelow(stream, id) \in 0 .. n
    BY <1>1, CountsAreSmall
  <2> HIDE DEF n
  <2> QED BY <1>1, <2>1
<1> HIDE DEF first, n
<1>5. first \in Nat \ {0} /\ first \in Int /\ last \in Int /\ \A i \in first .. last : i \in 1 .. n
  BY <1>1, <1>4, GlobalAsyncQueriesAssumption
<1> HIDE DEF last
<1>6. first = IF pollFrom = NoId THEN 1 ELSE CountBelow(stream, Manager!increment_id(pollFrom)) + 1
  BY DEF first
<1> QED BY <1>3, <1>5, <1>6 DEF n

LEMMA SessionIsHeard ==
  ASSUME NEW A, ProducersHold(A)
  PROVE  /\ Session \in Channels /\ streams[Session] \in StreamsOf(Events)
         /\ streams[Session].entries \in Seq(Heard(A))
<1>1. Session \in Channels
  BY GlobalAsyncQueriesAssumption DEF Channels, channelOf, Jobs
<1>2. streams[Session].entries \in Seq(OnStream(A, Session)) /\ streams[Session] \in StreamsOf(Events)
  BY <1>1 DEF ProducersHold
<1>3. OnStream(A, Session) \subseteq Heard(A)
  <2> SUFFICES ASSUME NEW x \in OnStream(A, Session) PROVE x.event.job \in SessionJobs
    BY DEF OnStream, Heard
  <2>1. x.event.job \in Jobs /\ channelOf[x.event.job] = Session
    BY GlobalAsyncQueriesAssumption DEF OnStream, Said, Entry, Events
  <2> QED BY <2>1, GlobalAsyncQueriesAssumption DEF channelOf
<1> QED BY <1>1, <1>2, <1>3, SeqMonotone

LEMMA PollIsHeard ==
  ASSUME NEW A, ProducersHold(A)
  PROVE  Manager!read_events(Session, pollFrom) \in Seq(Heard(A))
<1>1. PICK stream \in StreamsOf(Events) : stream = streams[Session] /\ stream.entries \in Seq(Heard(A))
  BY SessionIsHeard
<1>2. PICK first, last \in Int :
        /\ Manager!read_events(Session, pollFrom) = SubSeq(stream.entries, first, last)
        /\ first \in Nat \ {0} /\ \A i \in first .. last : i \in 1 .. Len(stream.entries)
  BY <1>1, PollReads
<1>3. SubSeq(stream.entries, first, last) \in Seq(Heard(A))
  BY <1>1, <1>2, EntriesOfPart
<1> QED BY <1>2, <1>3

-----------------------------------------------------------------------------
(* The pipeline.  A step is one of the producers, of the server, of the page, *)
(* or of two of them; those that do not take part are left as they are.       *)
LEMMA Grows ==
  ASSUME NEW A, NEW B, More(A, B), Holds(A)
  PROVE  Holds(B)
<1>1. PageHolds(B)
  <2>1. Pages(A) \subseteq Pages(B)
    BY PagesGrow
  <2>2. Seq(Heard(A)) \subseteq Seq(Heard(B))
    BY SaidGrows, SeqMonotone
  <2> QED BY <2>1, <2>2 DEF Holds, PageHolds, TransportsHold
<1> QED BY <1>1, ProducersGrow, ServerGrows DEF Holds

LEMMA Unchanged ==
  ASSUME NEW A
  PROVE  /\ ProducersHold(A) /\ UNCHANGED managerVars => ProducersHold(A)'
         /\ ServerHolds(A) /\ UNCHANGED serverVars => ServerHolds(A)'
         /\ PageHolds(A) /\ UNCHANGED clientVars => PageHolds(A)'
<1>1. ProducersHold(A) /\ UNCHANGED managerVars => ProducersHold(A)'
  BY DEF ProducersHold, managerVars
<1>2. ServerHolds(A) /\ UNCHANGED serverVars => ServerHolds(A)'
  BY DEF ServerHolds, serverVars, Server!RegistryTypeOK
<1>3. PageHolds(A) /\ UNCHANGED clientVars => PageHolds(A)'
  BY DEF PageHolds, TransportsHold, Client!Page, clientVars
<1> QED BY <1>1, <1>2, <1>3

LEMMA PublishedWasAnnounced ==
  ASSUME NEW A, ProducersHold(A)
  PROVE  \A i \in SessionJobs : Published(i) \subseteq A[i]
<1>1. Session \in Channels
  BY GlobalAsyncQueriesAssumption DEF Channels, channelOf, Jobs
<1>2. streams[Session].entries \in Seq(OnStream(A, Session)) /\ OnStream(A, Session) \subseteq Said(A)
  BY <1>1 DEF ProducersHold, OnStream
<1>3. \A x \in Entries(Session) : x \in Said(A)
  BY <1>2, EntriesOfSeq DEF Entries, Manager!Entries, EntriesIn
<1> QED BY <1>3 DEF Published, Said

LEMMA ProducersPart ==
  ASSUME Next
  PROVE  \/ UNCHANGED managerVars
         \/ \E j \in Jobs : JobStep(j) /\ (Announce \/ UNCHANGED <<streams, announced>>)
<1>1. CASE JobNext
  BY <1>1 DEF JobNext, JobStep, Ask, Work, QueryFails, AddFails, TimesOut, WorkerLost, ManagerOnly,
              Manager!submit_job
<1>2. CASE PollNext
  BY <1>2 DEF PollNext, PollTimer, ApiReads, PollReturns, PollFails, ClientOnly
<1>3. CASE PageNext
  BY <1>3 DEF PageNext, RetryTimer, Reload, Answered, Fetched, FetchMisses, Abandon, ClientOnly
<1>4. CASE ServerNext
  BY <1>4 DEF ServerNext, Subscribe, Resend, Gc, BeginRead, AnswerRead, ReadTimesOut, AnswerRange,
              SocketCloses, RedisFails, Restart, ServerOnly
<1>5. CASE ConnectionNext
  BY <1>5 DEF ConnectionNext, Connect, Open, Receive, Break, PageNotices, Refused, WsTimer,
              ClientOnly, ServerOnly, managerVars
<1> QED BY <1>1, <1>2, <1>3, <1>4, <1>5 DEF Next

(* A message is taken from the connection's inbox by the page. *)
Received ==
  /\ socket # NoSocket /\ inbox[socket] # <<>>
  /\ inbox' = [inbox EXCEPT ![socket] = Tail(@)]
  /\ UNCHANGED <<channels, sockets, lastFirehoseId, commands, replies, readyState, link, pinged,
                 sinceCheck, socket>>

LEMMA ServerPart ==
  ASSUME NEW A, ServerHolds(A), SocketKnown, Next
  PROVE  /\ UNCHANGED serverVars \/ ServerStep \/ Received
         /\ \/ UNCHANGED socket
            \/ socket' = NoSocket
            \/ socket' \in SocketIds /\ readyState'[socket'] # "NONE"
<1> DEFINE Goal == /\ UNCHANGED serverVars \/ ServerStep \/ Received
                   /\ \/ UNCHANGED socket
                      \/ socket' = NoSocket
                      \/ socket' \in SocketIds /\ readyState'[socket'] # "NONE"
<1>1. CASE JobNext
  BY <1>1 DEF JobNext, Ask, Work, QueryFails, AddFails, TimesOut, WorkerLost, ManagerOnly
<1>2. CASE PollNext
  BY <1>2 DEF PollNext, PollTimer, ApiReads, PollReturns, PollFails, ClientOnly
<1>3. CASE PageNext
  <2>1. CASE Reload
    <3>1. UNCHANGED serverVars \/ (socket \in SocketIds /\ Server!PeerGone(socket))
      BY <2>1 DEF Reload, SocketKnown
    <3>2. UNCHANGED serverVars \/ ServerStep
      BY <3>1 DEF ServerStep
    <3> QED BY <2>1, <3>2 DEF Reload
  <2> QED BY <1>3, <2>1 DEF PageNext, RetryTimer, Answered, Fetched, FetchMisses, Abandon, ClientOnly
<1>4. CASE ServerNext
  <2>1. ServerStep /\ UNCHANGED socket
    BY <1>4 DEF ServerNext, Subscribe, Resend, Gc, BeginRead, AnswerRead, ReadTimesOut, AnswerRange,
                SocketCloses, RedisFails, Restart, ServerOnly, ServerStep
  <2> QED BY <2>1
<1>5. CASE ConnectionNext
  <2>1. CASE Connect
    <3>1. PICK s \in SocketIds : Server!wsConnection(s, Session, wsFrom) /\ socket' = s
      BY <2>1 DEF Connect
    <3>2. ServerStep
      BY <3>1 DEF ServerStep
    <3>3. readyState'[s] = "OPEN"
      BY <3>1 DEF Server!wsConnection, ServerHolds, Server!RegistryTypeOK
    <3> QED BY <3>1, <3>2, <3>3
  <2>2. CASE Receive
    BY <2>2 DEF Receive, Received
  <2>3. CASE Break
    <3>1. socket \in SocketIds /\ Server!PeerGone(socket) /\ UNCHANGED socket
      BY <2>3 DEF Break, ServerOnly, SocketKnown
    <3>2. ServerStep
      BY <3>1 DEF ServerStep
    <3> QED BY <3>1, <3>2
  <2> QED BY <1>5, <2>1, <2>2, <2>3 DEF ConnectionNext, Open, PageNotices, Refused, WsTimer, ClientOnly
<1> QED BY <1>1, <1>2, <1>3, <1>4, <1>5 DEF Next

LEMMA PagePart ==
  ASSUME NEW A, Holds(A), Next
  PROVE  UNCHANGED clientVars \/ PageStep(A)
<1>1. CASE JobNext
  BY <1>1 DEF JobNext, Ask, Work, QueryFails, AddFails, TimesOut, WorkerLost, ManagerOnly, PageStep
<1>2. CASE PollNext
  <2>1. Manager!read_events(Session, pollFrom) \in Seq(Heard(A))
    BY PollIsHeard DEF Holds
  <2> QED BY <1>2, <2>1 DEF PollNext, PollTimer, ApiReads, PollReturns, PollFails, ClientOnly, PageStep
<1>3. CASE PageNext
  BY <1>3 DEF PageNext, RetryTimer, Reload, Answered, Fetched, FetchMisses, Abandon, ClientOnly,
              Fault, PageStep
<1>4. CASE ServerNext
  BY <1>4 DEF ServerNext, Subscribe, Resend, Gc, BeginRead, AnswerRead, ReadTimesOut, AnswerRange,
              SocketCloses, RedisFails, Restart, ServerOnly
<1>5. CASE ConnectionNext
  <2>1. CASE Receive
    <3>1. socket \in SocketIds /\ inbox[socket] # <<>> /\ inbox[socket] \in Seq(Heard(A))
      BY <2>1 DEF Receive, Holds, SocketKnown, ServerHolds
    <3>2. Head(inbox[socket]) \in Heard(A)
      BY <3>1, HeadTailProperties
    <3> QED BY <2>1, <3>2 DEF Receive, PageStep
  <2> QED BY <1>5, <2>1 DEF ConnectionNext, Connect, Open, Break, PageNotices, Refused, WsTimer,
                            ClientOnly, ServerOnly, PageStep
<1> QED BY <1>1, <1>2, <1>3, <1>4, <1>5 DEF Next

(* Init. *)
LEMMA InitHolds ==
  ASSUME Init
  PROVE  PipelineInv
<1> DEFINE A == [j \in SessionJobs |-> {}]
<1>1. A \in Announcements /\ announced = A
  BY DEF Init, Announcements
<1> HIDE DEF A
<1>2. ProducersHold(A)
  <2>1. /\ task = [j \in Jobs |-> "none"] /\ status = [j \in Jobs |-> "none"] /\ now = 1
        /\ streams = [k \in Channels \cup {Full} |-> EmptyStream]
    BY DEF Init, Manager!ManagerInit, Manager!EmptyStream, EmptyStream, Channels
  <2>2. EmptyStream \in StreamsOf(Events) /\ \A k : EmptyStream.entries \in Seq(OnStream(A, k))
    BY EmptySeq DEF EmptyStream, StreamsOf, EntriesOf, Ids
  <2> QED BY <2>1, <2>2 DEF ProducersHold, Manager!TaskStates
<1>3. ServerHolds(A)
  <2>1. Session \in Channels
    BY GlobalAsyncQueriesAssumption DEF Channels, channelOf, Jobs
  <2>2. Server!RegistryTypeOK /\ DOMAIN channels \subseteq {Session}
    BY <2>1, GlobalAsyncQueriesAssumption DEF Init, Connected, Server!RegistryTypeOK
  <2>3. lastFirehoseId \in Ids \cup {Dollar} /\ commands \in Seq(Commands)
    <3>1. Server!ReadCommand(FirehoseStart) \in Commands
      BY GlobalAsyncQueriesAssumption DEF Server!ReadCommand, Commands
    <3> QED BY <3>1, GlobalAsyncQueriesAssumption DEF Init
  <2>4. /\ replies \in Seq([op : {"xread", "xrange"}, results : Seq(Said(A))])
        /\ inbox \in [SocketIds -> Seq(Heard(A))]
    BY EmptySeq DEF Init
  <2> QED BY <2>2, <2>3, <2>4 DEF ServerHolds
<1>4. PageHolds(A)
  <2>1. Client!Page \in Pages(A)
    BY ClientBags, NoBag, GlobalAsyncQueriesAssumption
       DEF Init, Client!ClientInit, Client!Page, Pages, Promises
  <2>2. TransportsHold(A)
    BY EmptySeq, GlobalAsyncQueriesAssumption
       DEF Init, Client!ClientInit, Client!Rest, TransportsHold
  <2> QED BY <2>1, <2>2 DEF PageHolds
<1>5. SocketKnown
  BY GlobalAsyncQueriesAssumption DEF Init, SocketKnown
<1> QED BY <1>1, <1>2, <1>3, <1>4, <1>5 DEF PipelineInv, Holds

(* A step keeps the invariant, and changes promises as AsyncJob allows.      *)
LEMMA NextHolds ==
  ASSUME PipelineInv, Next
  PROVE  PipelineInv' /\ Promised!Next
<1>1. PICK A \in Announcements : A = announced /\ Holds(A)
  BY DEF PipelineInv
<1>2. PICK B : B = announced'
  OBVIOUS
<1>3. /\ More(A, B)
      /\ \/ B = A /\ UNCHANGED managerVars
         \/ \E j \in Jobs : JobStep(j) /\ B = A /\ UNCHANGED streams
         \/ \E j \in Jobs : JobStep(j) /\ B = [i \in SessionJobs |-> A[i] \cup Published(i)']
  BY <1>1, <1>2, ProducersPart DEF More, Announce, managerVars
<1>4. Holds(B)
  BY <1>1, <1>3, Grows
<1>5. ProducersHold(B)'
  <2>1. CASE UNCHANGED managerVars
    BY <1>4, <2>1, Unchanged DEF Holds
  <2>2. ASSUME NEW j \in Jobs, JobStep(j), \A i \in SessionJobs : Published(i)' \subseteq B[i]
        PROVE  ProducersHold(B)'
    BY <1>1, <1>3, <2>2, ProducersStep DEF Holds
  <2>3. CASE B = A /\ UNCHANGED streams
    <3>1. \A i \in SessionJobs : Published(i)' = Published(i)
      BY <2>3 DEF Published, Entries, Manager!Entries
    <3>2. \A i \in SessionJobs : Published(i)' \subseteq B[i]
      BY <1>1, <2>3, <3>1, PublishedWasAnnounced DEF Holds
    <3> QED BY <1>3, <2>1, <2>2, <3>2
  <2>4. CASE B = [i \in SessionJobs |-> A[i] \cup Published(i)']
    BY <1>3, <2>1, <2>2, <2>4
  <2> QED BY <1>3, <2>1, <2>3, <2>4
<1>6. B \in Announcements
  <2>1. Session \in Channels
    BY GlobalAsyncQueriesAssumption DEF Channels, channelOf, Jobs
  <2>2. (streams[Session].entries)' \in Seq(OnStream(B, Session)) /\ OnStream(B, Session) \subseteq Said(B)
    BY <1>5, <2>1 DEF ProducersHold, OnStream
  <2>3. \A x \in Entries(Session)' : x.event.status \in Status
    BY <2>2, EntriesOfSeq DEF Entries, Manager!Entries, EntriesIn, Said, Entry, Events, Status
  <2>4. \A j \in SessionJobs : Published(j)' \subseteq Status
    BY <2>3 DEF Published
  <2> QED BY <1>1, <1>3, <2>4 DEF Announcements
<1>7. ServerHolds(B)' /\ SocketKnown'
  <2>1. /\ UNCHANGED serverVars \/ ServerStep \/ Received
        /\ \/ UNCHANGED socket
           \/ socket' = NoSocket
           \/ socket' \in SocketIds /\ readyState'[socket'] # "NONE"
    BY <1>4, ServerPart DEF Holds, Next
  <2>2. ServerHolds(B)' /\ Unforgotten
    <3>1. CASE UNCHANGED serverVars
      BY <1>4, <3>1, Unchanged DEF Holds, Unforgotten, serverVars
    <3>2. CASE ServerStep
      BY <1>4, <3>2, ServerStepHolds DEF Holds, PageHolds, TransportsHold
    <3>3. CASE Received
      <4>1. socket \in SocketIds /\ inbox[socket] # <<>> /\ inbox \in [SocketIds -> Seq(Heard(B))]
        BY <1>4, <3>3 DEF Holds, SocketKnown, ServerHolds, Received
      <4>2. Tail(inbox[socket]) \in Seq(Heard(B))
        BY <4>1, HeadTailProperties
      <4>3. inbox' \in [SocketIds -> Seq(Heard(B))]
        BY <3>3, <4>1, <4>2 DEF Received
      <4> QED BY <1>4, <3>3, <4>3 DEF Holds, ServerHolds, Server!RegistryTypeOK, Received, Unforgotten
    <3> QED BY <2>1, <3>1, <3>2, <3>3
  <2>3. SocketKnown'
    BY <1>4, <2>1, <2>2 DEF Holds, SocketKnown, Unforgotten
  <2> QED BY <2>2, <2>3
<1>8. PageHolds(B)' /\ Changes(A, promise, promise')
  <2>1. CASE UNCHANGED clientVars
    BY <1>4, <2>1, Unchanged DEF Holds, Changes, clientVars
  <2>2. CASE PageStep(A)
    <3>1. PageStep(B)
      <4>1. Heard(A) \subseteq Heard(B) /\ Seq(Heard(A)) \subseteq Seq(Heard(B))
        BY <1>3, SaidGrows, SeqMonotone
      <4> QED BY <2>2, <4>1 DEF PageStep
    <3>2. Client!Page \in Pages(A) /\ pollResult \in Seq(Heard(A))
      BY <1>1 DEF Holds, PageHolds, TransportsHold
    <3>3. Changes(A, promise, promise')
      BY <2>2, <3>2, PageStepHolds
    <3>4. Client!Page \in Pages(B) /\ TransportsHold(B) /\ pollResult \in Seq(Heard(B))
          /\ lastId \in Ids \cup {NoId}
      BY <1>4 DEF Holds, PageHolds, TransportsHold, Pages, Client!Page
    <3>5. Client!Page' \in Pages(B)
      BY <3>1, <3>4, PageStepHolds
    <3>6. TransportsHold(B)'
      BY <3>1, <3>4, TransportsStep
    <3> QED BY <3>3, <3>5, <3>6 DEF PageHolds
  <2> QED BY <1>1, <2>1, <2>2, PagePart DEF Next
<1>9. PipelineInv'
  BY <1>2, <1>5, <1>6, <1>7, <1>8 DEF PipelineInv, Holds
<1>10. Promised!Next
  <2>1. promise' \in [SessionJobs -> Promises]
    BY <1>8 DEF PageHolds, Pages, Client!Page
  <2>2. \A j \in SessionJobs : announced[j] \subseteq announced'[j]
    BY <1>1, <1>2, <1>3 DEF More
  <2>3. \A j \in SessionJobs :
          \/ promise'[j] = promise[j]
          \/ Promised!Asked(j) \/ Promised!Answered(j) \/ Promised!Abandoned(j)
          \/ Promised!Resolved(j) \/ Promised!Rejected(j)
    BY <1>1, <1>8 DEF Changes, Promised!Asked, Promised!Answered, Promised!Abandoned,
                      Promised!Resolved, Promised!Rejected
  <2>4. announced' \in [SessionJobs -> SUBSET {"done", "error"}]
    BY <1>2, <1>6 DEF Announcements, Status
  <2> QED BY <2>1, <2>2, <2>3, <2>4 DEF Promised!Next, Promised!Promises, Promises
<1> QED BY <1>9, <1>10

LEMMA StutterHolds ==
  ASSUME PipelineInv, UNCHANGED vars
  PROVE  PipelineInv' /\ UNCHANGED <<promise, announced>>
<1>1. PICK A \in Announcements : A = announced /\ Holds(A)
  BY DEF PipelineInv
<1>2. UNCHANGED <<managerVars, serverVars, clientVars, socket, readyState, promise, announced>>
  BY DEF vars, managerVars, serverVars, clientVars
<1>3. ProducersHold(A)' /\ ServerHolds(A)' /\ PageHolds(A)'
  BY <1>1, <1>2, Unchanged DEF Holds
<1>4. SocketKnown'
  BY <1>1, <1>2 DEF Holds, SocketKnown
<1> QED BY <1>1, <1>2, <1>3, <1>4 DEF PipelineInv, Holds

-----------------------------------------------------------------------------
(* Whatever fails, is lost, repeated or reordered between a worker and the   *)
(* page, and however Redis trims its streams: a chart's promise is settled   *)
(* at most once, only after an outcome of its own job was published, and     *)
(* according to an outcome that was.                                         *)
THEOREM PipelineImplementsAsyncJob == Spec => ImplementsAsyncJob
<1>1. Init => PipelineInv /\ Promised!Init
  BY InitHolds DEF Init, Client!ClientInit, Promised!Init
<1>2. PipelineInv /\ [Next]_vars => PipelineInv'
  BY NextHolds, StutterHolds
<1>3. PipelineInv /\ [Next]_vars => [Promised!Next]_<<promise, announced>>
  BY NextHolds, StutterHolds
<1> QED BY <1>1, <1>2, <1>3, PTL DEF Spec, ImplementsAsyncJob, Promised!Spec

(* The types, from the invariant. *)
LEMMA PipelineTypes ==
  ASSUME PipelineInv
  PROVE  TypeOK
<1>1. PICK A \in Announcements : A = announced /\ Holds(A)
  BY DEF PipelineInv
<1>2. Server!RegistryTypeOK /\ SocketKnown
  BY <1>1 DEF Holds, ServerHolds
<1>3. Manager!TypeOK
  <2>1. /\ task \in [Jobs -> Manager!TaskStates] /\ status \in [Jobs -> {"none", "done", "error"}]
        /\ now \in Nat /\ streams \in [Channels \cup {Full} -> StreamsOf(Events)]
    BY <1>1 DEF Holds, ProducersHold, Status
  <2>2. Manager!Streams = Channels \cup {Full}
    BY DEF Manager!Streams, Channels
  <2>3. ASSUME NEW k \in Channels \cup {Full}, NEW x \in Manager!Entries(k)
        PROVE  x.id \in Ids /\ x.event.job \in Jobs
    <3>1. streams[k].entries \in Seq([id : Ids, event : Events])
      BY <2>1, StreamParts
    <3>2. x \in [id : Ids, event : Events]
      BY <2>3, <3>1, EntriesOfSeq DEF Manager!Entries, EntriesIn
    <3> QED BY <3>2 DEF Events
  <2> QED BY <2>1, <2>2, <2>3 DEF Manager!TypeOK, Manager!Ids, Ids
<1>4. /\ promise \in [SessionJobs -> Promises] /\ listeners \in SUBSET SessionJobs
      /\ retries \in [SessionJobs -> 0 .. MaxRetries] /\ timers \in BagsOf(Heard(A))
      /\ fetching \in BagsOf(Told(A, "done")) /\ lastId \in Ids \cup {NoId} /\ TransportsHold(A)
  BY <1>1, FieldsOfPage DEF Holds, PageHolds, Client!Page
<1>5. {n \in Nat : n > 0} = Nat \ {0}
  OBVIOUS
<1>6. Client!IsABag(timers) /\ DOMAIN timers \subseteq Heard(A)
  BY <1>4, <1>5 DEF BagsOf, Client!IsABag
<1>7. Client!IsABag(fetching) /\ DOMAIN fetching \subseteq SessionJobs
  BY <1>4, <1>5 DEF BagsOf, Client!IsABag, Told
<1>8. Client!TypeOK
  BY <1>4, <1>6, <1>7, ClientBags DEF Client!TypeOK, Promises, TransportsHold, Heard
<1>9. DOMAIN timers \subseteq [id : Ids, event : Events]
  BY <1>6 DEF Heard, Said, Entry
<1> QED BY <1>2, <1>3, <1>8, <1>9 DEF TypeOK, SocketKnown

(* What the components hold keeps its type, whatever the others do: in       *)
(* particular the page handles only entries of the streams, and its socket   *)
(* is one that the server has known.                                         *)
THEOREM PipelineTypeOK == Spec => []TypeOK
<1>1. Init => PipelineInv
  BY InitHolds
<1>2. PipelineInv /\ [Next]_vars => PipelineInv'
  BY NextHolds, StutterHolds
<1>3. PipelineInv => TypeOK
  BY PipelineTypes
<1> QED BY <1>1, <1>2, <1>3, PTL DEF Spec

-----------------------------------------------------------------------------
(* Polling: nothing is left behind lastId. *)
Closed == {"resolved", "rejected", "abandoned"}

(* An event of job j need not be sent to the page again. *)
Handled(page, j) ==
  \/ page.promise[j] \in Closed
  \/ \E y \in DOMAIN page.timers : y.event.job = j
  \/ j \in DOMAIN page.fetching

(* What ties the variables of a page together. *)
Matches(page) ==
  /\ page.listeners = {j \in SessionJobs : page.promise[j] = "pending"}
  /\ \A j \in DOMAIN page.fetching : page.promise[j] \notin {"idle", "requested"}

Backed(page, j) == page.retries[j] # 0 => \E y \in DOMAIN page.timers : y.event.job = j

Sound(page) == Matches(page) /\ \A j \in SessionJobs : Backed(page, j)

(* The page has taken up some events: they are handled, and what was still   *)
(* is; lastId and the timers are as before or come from those events.        *)
TakenUp(page, events, next) ==
  /\ Sound(next)
  /\ next.lastId = page.lastId \/ \E x \in events : next.lastId = x.id
  /\ DOMAIN next.timers \subseteq DOMAIN page.timers \cup events
  /\ \A x \in events : Handled(next, x.event.job)
  /\ \A j \in SessionJobs : Handled(page, j) => Handled(next, j)

LEMMA EventTakenUp ==
  ASSUME NEW A, NEW page \in Pages(A), NEW x \in Heard(A), Matches(page),
         \A i \in SessionJobs \ {x.event.job} : Backed(page, i),
         \/ page.retries[x.event.job] < MaxRetries
         \/ x.event.job \in page.listeners
         \/ Handled(page, x.event.job)
  PROVE  TakenUp(page, {x}, Client!ProcessEvent(page, x))
<1> DEFINE j       == x.event.job
           fetches == page.fetching (+) SetToBag({j})
           armed   == page.timers (+) SetToBag({x})
           cleared == [page.retries EXCEPT ![j] = 0]
           counted == [page.retries EXCEPT ![j] = page.retries[j] + 1]
           told    == [page.promise EXCEPT ![j] = IF page.promise[j] = "pending" THEN "rejected"
                                                  ELSE page.promise[j]]
<1>1. j \in SessionJobs /\ x.event.status \in Status /\ j \in Told(A, x.event.status)
  BY DEF Heard, Said, Entry, Events, Told, Status
<1>2. PageIs(page, page.promise, page.listeners, page.retries, page.timers, page.fetching, page.lastId)
  BY FieldsOfPage
<1>3. /\ page.promise \in [SessionJobs -> Promises] /\ page.listeners \in SUBSET SessionJobs
      /\ page.retries \in [SessionJobs -> 0 .. MaxRetries] /\ page.timers \in BagsOf(Heard(A))
      /\ page.fetching \in BagsOf(Told(A, "done"))
  BY FieldsOfPage
<1>4. armed \in BagsOf(Heard(A)) /\ DOMAIN armed = DOMAIN page.timers \cup {x}
  <2>1. page.timers \in BagsOf(Heard(A))
    BY <1>3
  <2> QED BY <2>1, BagAdded
<1>5. /\ cleared[j] = 0 /\ \A i \in SessionJobs \ {j} : cleared[i] = page.retries[i]
      /\ \A i \in SessionJobs \ {j} : counted[i] = page.retries[i]
  BY <1>1, <1>3
<1>6. /\ told \in [SessionJobs -> Promises]
      /\ \A i \in SessionJobs \ {j} : told[i] = page.promise[i]
      /\ page.promise[j] = "pending" => told[j] = "rejected"
  BY <1>1, <1>3 DEF Promises
<1> SUFFICES ASSUME NEW next, next = Client!ProcessEvent(page, x)
             PROVE  TakenUp(page, {x}, next)
  OBVIOUS
<1>7. CASE j \in page.listeners /\ x.event.status = "done"
  <2>1. fetches \in BagsOf(Told(A, "done")) /\ DOMAIN fetches = DOMAIN page.fetching \cup {j}
    <3> DEFINE done == Told(A, "done")
    <3>1. page.fetching \in BagsOf(done) /\ j \in done
      BY <1>1, <1>3, <1>7
    <3> HIDE DEF done, j
    <3> QED BY <3>1, BagAdded DEF done
  <2>2. page.promise[j] = "pending"
    BY <1>7 DEF Matches
  <2>3. next = [page EXCEPT !.fetching = fetches, !.retries = cleared, !.lastId = x.id]
    BY <1>7, ClientBags DEF Client!ProcessEvent, Client!Listen
  <2> HIDE DEF fetches, cleared
  <2>4. PageIs(next, page.promise, page.listeners, cleared, page.timers, fetches, x.id)
    BY <1>2, <2>3 DEF PageIs
  <2>5. Sound(next)
    BY <1>5, <2>1, <2>2, <2>4 DEF PageIs, Sound, Matches, Backed
  <2> QED BY <2>1, <2>4, <2>5 DEF PageIs, TakenUp, Handled
<1>8. CASE j \in page.listeners /\ x.event.status # "done"
  <2>1. next = [page EXCEPT !.promise = told, !.listeners = page.listeners \ {j},
                            !.retries = cleared, !.lastId = x.id]
    BY <1>8 DEF Client!ProcessEvent, Client!Listen
  <2>2. page.promise[j] = "pending" /\ told[j] = "rejected"
    BY <1>6, <1>8 DEF Matches
  <2> HIDE DEF told, cleared
  <2>3. PageIs(next, told, page.listeners \ {j}, cleared, page.timers, page.fetching, x.id)
    BY <1>2, <2>1 DEF PageIs
  <2>4. page.listeners \ {j} = {i \in SessionJobs : told[i] = "pending"}
    BY <1>6, <2>2 DEF Matches
  <2>5. \A i \in DOMAIN page.fetching : told[i] \notin {"idle", "requested"}
    <3>1. DOMAIN page.fetching \subseteq SessionJobs
      BY <1>3 DEF BagsOf, Told
    <3> QED BY <1>6, <2>2, <3>1 DEF Matches
  <2>6. Sound(next)
    BY <1>5, <2>3, <2>4, <2>5 DEF PageIs, Sound, Matches, Backed
  <2>7. \A i \in SessionJobs : Handled(page, i) => Handled(next, i)
    BY <1>6, <2>2, <2>3 DEF PageIs, Handled, Closed
  <2> QED BY <2>2, <2>3, <2>6, <2>7 DEF PageIs, TakenUp, Handled, Closed
<1>9. CASE j \notin page.listeners /\ page.retries[j] < MaxRetries
  <2>1. next = [page EXCEPT !.retries = counted, !.timers = armed, !.lastId = x.id]
    BY <1>9, ClientBags DEF Client!ProcessEvent, Client!Retry
  <2> HIDE DEF counted, armed
  <2>2. PageIs(next, page.promise, page.listeners, counted, armed, page.fetching, x.id)
    BY <1>2, <2>1 DEF PageIs
  <2>3. Sound(next)
    BY <1>4, <1>5, <2>2 DEF PageIs, Sound, Matches, Backed
  <2> QED BY <1>4, <2>2, <2>3 DEF PageIs, TakenUp, Handled
<1>10. CASE j \notin page.listeners /\ ~(page.retries[j] < MaxRetries)
  <2>1. next = [page EXCEPT !.retries = cleared, !.lastId = x.id]
    BY <1>10 DEF Client!ProcessEvent, Client!Retry
  <2> HIDE DEF cleared
  <2>2. PageIs(next, page.promise, page.listeners, cleared, page.timers, page.fetching, x.id)
    BY <1>2, <2>1 DEF PageIs
  <2>3. Sound(next)
    BY <1>5, <2>2 DEF PageIs, Sound, Matches, Backed
  <2>4. Handled(page, j)
    BY <1>10
  <2> QED BY <2>2, <2>3, <2>4 DEF PageIs, TakenUp, Handled
<1> QED BY <1>7, <1>8, <1>9, <1>10

LEMMA ReplyTakenUp ==
  ASSUME NEW A, Client!Page \in Pages(A), Sound(Client!Page), MaxRetries # 0,
         NEW events \in Seq(Heard(A)), Client!processEvents(events)
  PROVE  TakenUp(Client!Page, EntriesIn(events), Client!Page')
<1> DEFINE G == {page \in Pages(A) : Sound(page)}
           N == Len(events)
           SoFar(n) == {events[i] : i \in 1 .. n}
<1>1. N \in Nat /\ \A n \in 1 .. N : events[n] \in Heard(A)
  BY LenProperties, ElementOfSeq
<1>2. ASSUME NEW page \in G, NEW x \in Heard(A)
      PROVE  /\ Client!ProcessEvent(page, x) \in G
             /\ TakenUp(page, {x}, Client!ProcessEvent(page, x))
  <2>1. x.event.job \in SessionJobs /\ page.retries \in [SessionJobs -> 0 .. MaxRetries]
    BY FieldsOfPage DEF Heard
  <2>2. page.retries[x.event.job] < MaxRetries \/ Handled(page, x.event.job)
    <3>1. CASE page.retries[x.event.job] = 0
      BY <3>1, GlobalAsyncQueriesAssumption
    <3>2. CASE page.retries[x.event.job] # 0
      BY <2>1, <3>2 DEF Sound, Backed, Handled
    <3> QED BY <3>1, <3>2
  <2>3. TakenUp(page, {x}, Client!ProcessEvent(page, x))
    BY <2>1, <2>2, EventTakenUp DEF Sound
  <2>4. Client!ProcessEvent(page, x) \in Pages(A)
    BY EventHolds
  <2> QED BY <2>3, <2>4 DEF TakenUp
<1>3. PICK f \in [0 .. N -> G] :
        /\ f[0] = Client!Page
        /\ \A n \in 1 .. N : f[n] = Client!ProcessEvent(f[n - 1], events[n])
        /\ Client!Becomes(f[N])
  <2> HIDE DEF G
  <2> QED BY <1>2, ReplySteps DEF G
<1> DEFINE Good == {n \in 0 .. N : TakenUp(f[0], SoFar(n), f[n])}
<1>4. 0 \in Good
  <2>1. SoFar(0) = {} /\ 0 \in 0 .. N /\ Sound(f[0])
    BY <1>1, <1>3
  <2> HIDE DEF SoFar
  <2> QED BY <2>1 DEF TakenUp
<1>5. ASSUME NEW n \in 1 .. N, n - 1 \in Good PROVE n \in Good
  <2>1. n - 1 \in 0 .. N /\ n \in 0 .. N /\ events[n] \in Heard(A) /\ f[n - 1] \in G
    BY <1>1
  <2>2. TakenUp(f[0], SoFar(n - 1), f[n - 1]) /\ TakenUp(f[n - 1], {events[n]}, f[n])
    <3>1. f[n] = Client!ProcessEvent(f[n - 1], events[n])
      BY <1>3
    <3> HIDE DEF G, SoFar
    <3> QED BY <1>2, <1>5, <2>1, <3>1
  <2>3. SoFar(n) = SoFar(n - 1) \cup {events[n]}
    <3>1. 1 .. n = (1 .. n - 1) \cup {n}
      BY <1>1
    <3> QED BY <3>1
  <2>4. \A x \in SoFar(n - 1) : x.event.job \in SessionJobs
    <3>1. \A i \in 1 .. n - 1 : events[i] \in Heard(A)
      BY <1>1
    <3> QED BY <3>1 DEF Heard
  <2> HIDE DEF SoFar
  <2>5. TakenUp(f[0], SoFar(n), f[n])
    BY <2>2, <2>3, <2>4 DEF TakenUp
  <2> QED BY <2>1, <2>5
<1>6. TakenUp(f[0], SoFar(N), f[N])
  <2>1. \A n \in 0 .. N : n \in Good
    <3> HIDE DEF Good
    <3> QED BY <1>1, <1>4, <1>5, StepByStep
  <2> QED BY <1>1, <2>1
<1>7. Client!Page' = f[N]
  <2>1. f[N] \in Pages(A)
    BY <1>1
  <2>2. PageIs(f[N], f[N].promise, f[N].listeners, f[N].retries, f[N].timers, f[N].fetching,
               f[N].lastId)
    BY <2>1, FieldsOfPage
  <2> QED BY <1>3, <2>2 DEF PageIs, Client!Becomes, Client!Page
<1> QED BY <1>3, <1>6, <1>7 DEF EntriesIn

(* A retry timer: its event is taken up again. *)
LEMMA TimerTakenUp ==
  ASSUME NEW A, Client!Page \in Pages(A), Sound(Client!Page),
         NEW x \in DOMAIN timers, Client!RetryTimer(x),
         promise[x.event.job] # "idle",
         promise[x.event.job] = "requested" => retries[x.event.job] < MaxRetries
  PROVE  TakenUp(Client!Page, {x}, Client!Page')
<1> DEFINE j     == x.event.job
           left  == timers (-) SetToBag({x})
           taken == [promise |-> promise, listeners |-> listeners, retries |-> retries,
                     timers |-> left, fetching |-> fetching, lastId |-> lastId]
           page  == Client!ProcessEvent(taken, x)
<1>1. /\ promise \in [SessionJobs -> Promises] /\ listeners \in SUBSET SessionJobs
      /\ retries \in [SessionJobs -> 0 .. MaxRetries] /\ timers \in BagsOf(Heard(A))
      /\ fetching \in BagsOf(Told(A, "done")) /\ lastId \in Ids \cup {NoId}
  BY FieldsOfPage DEF Client!Page
<1>2. x \in Heard(A) /\ j \in SessionJobs
  BY <1>1 DEF BagsOf, Heard
<1>3. /\ left \in BagsOf(Heard(A))
      /\ DOMAIN timers \ {x} \subseteq DOMAIN left /\ DOMAIN left \subseteq DOMAIN timers
  <2>1. timers \in BagsOf(Heard(A))
    BY <1>1
  <2> QED BY <2>1, BagReduced
<1>4. Client!Becomes(page)
  <2>1. Client!SetToBag({x}) = SetToBag({x}) /\ Client!Page.timers = timers
    BY ClientBags DEF Client!Page
  <2>2. Client!(-)(Client!Page.timers, Client!SetToBag({x})) = left
    BY <2>1, ClientBags
  <2> HIDE DEF left
  <2>3. [Client!Page EXCEPT !.timers = left] = taken
    BY DEF Client!Page
  <2> HIDE DEF taken
  <2> QED BY <2>2, <2>3 DEF Client!RetryTimer
<1> HIDE DEF left
<1>5. taken \in Pages(A)
  BY <1>1, <1>3 DEF Pages
<1>6. Matches(taken) /\ \A i \in SessionJobs \ {j} : Backed(taken, i)
  BY <1>3 DEF Sound, Matches, Backed, Client!Page
<1>7. /\ \A i \in SessionJobs \ {j} : Handled(Client!Page, i) => Handled(taken, i)
      /\ taken.lastId = lastId /\ DOMAIN taken.timers \subseteq DOMAIN timers
  BY <1>3 DEF Handled, Client!Page
<1>8. taken.retries[j] < MaxRetries \/ j \in taken.listeners \/ Handled(taken, j)
  <2>1. promise[j] \in {"requested", "pending"} \cup Closed
    BY <1>1, <1>2 DEF Promises, Closed
  <2>2. CASE promise[j] = "pending"
    BY <1>2, <2>2 DEF Sound, Matches, Client!Page
  <2> QED BY <2>1, <2>2 DEF Handled
<1> HIDE DEF taken
<1>9. page \in Pages(A) /\ TakenUp(taken, {x}, page)
  BY <1>2, <1>5, <1>6, <1>8, EventHolds, EventTakenUp
<1> HIDE DEF page
<1>10. Client!Page' = page
  <2>1. PageIs(page, page.promise, page.listeners, page.retries, page.timers, page.fetching,
               page.lastId)
    BY <1>9, FieldsOfPage
  <2> QED BY <1>4, <2>1 DEF PageIs, Client!Becomes, Client!Page
<1>11. TakenUp(Client!Page, {x}, page)
  <2>1. Client!Page.lastId = lastId /\ Client!Page.timers = timers
    BY DEF Client!Page
  <2> QED BY <1>7, <1>9, <2>1 DEF TakenUp
<1> QED BY <1>10, <1>11

(* The API resumes after an ID by adding one to its sequence number, but for *)
(* its way of writing the digit after 9 (increment_id).                      *)
Plain(id) == Manager!increment_id(id) = <<id[1], id[2] + 1>>

(* A page that resumes after an ID misses nothing: what the stream holds up  *)
(* to it is handled.                                                         *)
Safe(page, stream, id) ==
  /\ Plain(id) /\ IdLeq(id, stream.last)
  /\ \A x \in EntriesIn(stream.entries) : IdLeq(x.id, id) => Handled(page, x.event.job)

(* So it is with the last ID of the page, with the one its request resumes   *)
(* after, and with the ID of every event that its timers will bring back.    *)
PageIsSafe(page, from, stream) ==
  /\ Sound(page)
  /\ \A id \in {page.lastId, from} \ {NoId} : Safe(page, stream, id)
  /\ \A y \in DOMAIN page.timers : Safe(page, stream, y.id)

(* A reply leaves out nothing between the ID resumed after and its events.   *)
ReplyIsSafe(events, from, stream) ==
  \A y \in events :
    /\ Plain(y.id) /\ IdLeq(y.id, stream.last)
    /\ \A x \in EntriesIn(stream.entries) :
         IdLeq(x.id, y.id) => x \in events \/ (from # NoId /\ IdLeq(x.id, from))

(* A stream is trimmed at its start and extended at its end. *)
Grown(old, new) ==
  /\ InOrder(new) /\ IdLeq(old.last, new.last)
  /\ \A x \in EntriesIn(new.entries) : x \in EntriesIn(old.entries) \/ IdLess(old.last, x.id)

(* Every entry of the stream is of a job that a chart has asked for. *)
Asked(page, stream) ==
  \A x \in EntriesIn(stream.entries) :
    x.event.job \in SessionJobs /\ page.promise[x.event.job] # "idle"

LEMMA GrownIsSafe ==
  ASSUME NEW old \in StreamsOf(Events), NEW new \in StreamsOf(Events), Grown(old, new)
  PROVE  /\ \A page, id : id \in Ids /\ Safe(page, old, id) => Safe(page, new, id)
         /\ \A events, from :
              (\A y \in events : y.id \in Ids) /\ ReplyIsSafe(events, from, old)
                => ReplyIsSafe(events, from, new)
<1>1. old.last \in Ids /\ new.last \in Ids
  BY DEF StreamsOf
<1>2. ASSUME NEW id \in Ids, IdLeq(id, old.last)
      PROVE  /\ IdLeq(id, new.last)
             /\ \A x \in EntriesIn(new.entries) : IdLeq(x.id, id) => x \in EntriesIn(old.entries)
  <2>1. IdLeq(id, new.last)
    BY <1>1, <1>2, IdsAreOrdered DEF Grown, IdLeq
  <2>2. ASSUME NEW x \in EntriesIn(new.entries), IdLeq(x.id, id)
        PROVE  x \in EntriesIn(old.entries)
    <3>1. new.entries \in Seq([id : Ids, event : Events])
      BY StreamParts
    <3>2. x.id \in Ids
      <4>1. EntriesIn(new.entries) \subseteq [id : Ids, event : Events]
        BY <3>1, EntriesOfSeq
      <4> QED BY <4>1
    <3>3. IdLeq(x.id, old.last)
      BY <1>1, <1>2, <2>2, <3>2, IdsAreOrdered DEF IdLeq
    <3>4. ~IdLess(old.last, x.id)
      BY <1>1, <3>2, <3>3, IdsAreOrdered DEF IdLeq
    <3> QED BY <3>4 DEF Grown
  <2> QED BY <2>1, <2>2
<1>3. ASSUME NEW page, NEW id \in Ids, Safe(page, old, id) PROVE Safe(page, new, id)
  BY <1>2, <1>3 DEF Safe
<1>4. ASSUME NEW events, NEW from, \A y \in events : y.id \in Ids, ReplyIsSafe(events, from, old)
      PROVE  ReplyIsSafe(events, from, new)
  BY <1>2, <1>4 DEF ReplyIsSafe
<1> QED BY <1>3, <1>4

(* The page while its stream grows. *)
LEMMA GrownPageIsSafe ==
  ASSUME NEW A, NEW page \in Pages(A), NEW from \in Ids \cup {NoId},
         NEW old \in StreamsOf(Events), NEW new \in StreamsOf(Events), Grown(old, new),
         PageIsSafe(page, from, old)
  PROVE  PageIsSafe(page, from, new)
<1>1. page.lastId \in Ids \cup {NoId} /\ page.timers \in BagsOf(Heard(A))
  BY FieldsOfPage
<1>2. \A y \in DOMAIN page.timers : y.id \in Ids
  BY <1>1 DEF BagsOf, Heard, Said, Entry
<1> QED BY <1>1, <1>2, GrownIsSafe DEF PageIsSafe

(* The page when it takes up no event. *)
LEMMA MovedIsSafe ==
  ASSUME NEW page, NEW next, NEW stream, Asked(page, stream), NEW from,
         PageIsSafe(page, from, stream), Sound(next),
         next.lastId = page.lastId, DOMAIN next.timers \subseteq DOMAIN page.timers,
         \A j \in SessionJobs : page.promise[j] # "idle" /\ Handled(page, j) => Handled(next, j),
         NEW resumed \in {from, page.lastId, NoId}
  PROVE  PageIsSafe(next, resumed, stream)
<1>1. ASSUME NEW id, Safe(page, stream, id) PROVE Safe(next, stream, id)
  BY <1>1 DEF Safe, Asked
<1> QED BY <1>1 DEF PageIsSafe

(* The page when it takes up events that leave nothing behind. *)
LEMMA TakenUpIsSafe ==
  ASSUME NEW page, NEW next, NEW stream, Asked(page, stream), NEW from, NEW events,
         PageIsSafe(page, from, stream), TakenUp(page, events, next),
         \A y \in events : Safe(next, stream, y.id), NEW resumed \in {from, NoId}
  PROVE  PageIsSafe(next, resumed, stream)
<1>1. ASSUME NEW id, Safe(page, stream, id) PROVE Safe(next, stream, id)
  BY <1>1 DEF Safe, Asked, TakenUp
<1> QED BY <1>1 DEF PageIsSafe, TakenUp

(* The events of a reply leave nothing behind when they are taken up. *)
LEMMA ReplyLeavesNothing ==
  ASSUME NEW page, NEW next, NEW stream, Asked(page, stream), NEW from, NEW events,
         PageIsSafe(page, from, stream), ReplyIsSafe(events, from, stream),
         TakenUp(page, events, next)
  PROVE  \A y \in events : Safe(next, stream, y.id)
<1> SUFFICES ASSUME NEW y \in events, NEW x \in EntriesIn(stream.entries), IdLeq(x.id, y.id)
             PROVE  Handled(next, x.event.job)
  BY DEF ReplyIsSafe, Safe
<1>1. CASE x \in events
  BY <1>1 DEF TakenUp
<1>2. CASE from # NoId /\ IdLeq(x.id, from)
  <2>1. Handled(page, x.event.job)
    BY <1>2 DEF PageIsSafe, Safe
  <2> QED BY <2>1 DEF TakenUp, Asked
<1> QED BY <1>1, <1>2 DEF ReplyIsSafe

(* What the API answers leaves out nothing after the ID resumed from. *)
LEMMA PollIsSafe ==
  ASSUME NEW stream \in StreamsOf(Events), stream = streams[Session], InOrder(stream),
         \A x \in EntriesIn(stream.entries) : Plain(x.id),
         pollFrom \in Ids \cup {NoId}, pollFrom # NoId => Plain(pollFrom)
  PROVE  ReplyIsSafe(EntriesIn(Manager!read_events(Session, pollFrom)), pollFrom, stream)
<1> DEFINE e == stream.entries
           n == Len(stream.entries)
<1>1. /\ e \in Seq([id : Ids, event : Events]) /\ n \in Nat
      /\ \A i \in 1 .. n : e[i].id \in Ids
  BY StreamParts
<1>2. PICK first, last \in Int :
        /\ Manager!read_events(Session, pollFrom) = SubSeq(e, first, last)
        /\ first = IF pollFrom = NoId THEN 1
                   ELSE CountBelow(stream, Manager!increment_id(pollFrom)) + 1
        /\ first \in Nat \ {0} /\ \A i \in first .. last : i \in 1 .. n
  BY PollReads
<1>3. /\ \A i \in 1 .. n : IdLeq(e[i].id, stream.last)
      /\ \A i \in 1 .. n : \A m \in 1 .. i - 1 : IdLess(e[m].id, e[i].id)
  BY DEF InOrder
<1>4. EntriesIn(e) = {e[i] : i \in 1 .. n}
  BY DEF EntriesIn
<1>5. ASSUME NEW m \in 1 .. n, m < first
      PROVE  pollFrom # NoId /\ IdLeq(e[m].id, pollFrom)
  <2>1. pollFrom # NoId
    BY <1>1, <1>2, <1>5
  <2>2. CountBelow(stream, Manager!increment_id(pollFrom)) = CountUpTo(stream, pollFrom)
    <3>1. pollFrom \in Ids /\ Manager!increment_id(pollFrom) = <<pollFrom[1], pollFrom[2] + 1>>
      BY <2>1 DEF Plain
    <3> QED BY <3>1, BelowNextIsUpTo
  <2>3. first = CountUpTo(stream, pollFrom) + 1
    BY <1>2, <2>1, <2>2
  <2>4. CountUpTo(stream, pollFrom) \in Nat
    BY <1>1, CountsAreSmall
  <2>5. m <= CountUpTo(stream, pollFrom)
    BY <1>1, <1>5, <2>3, <2>4
  <2> QED BY <2>1, <2>5, CountTellsWhich
<1>6. EntriesIn(Manager!read_events(Session, pollFrom)) = {e[i] : i \in first .. last}
  <2>1. e \in Seq([id : Ids, event : Events])
    BY <1>1
  <2>2. first \in Nat /\ last \in Int /\ \A i \in first .. last : i \in 1 .. Len(e)
    BY <1>2
  <2>3. EntriesIn(SubSeq(e, first, last)) = {e[i] : i \in first .. last}
    <3> HIDE DEF e
    <3> QED BY <2>1, <2>2, EntriesOfPart
  <2> QED BY <1>2, <2>3
<1> HIDE DEF e, n
<1>7. ASSUME NEW i \in first .. last, NEW m \in 1 .. n, IdLeq(e[m].id, e[i].id)
      PROVE  e[m] \in {e[l] : l \in first .. last} \/ (pollFrom # NoId /\ IdLeq(e[m].id, pollFrom))
  <2>1. i \in 1 .. n
    BY <1>2
  <2>2. m <= i
    <3> SUFFICES ASSUME i < m PROVE FALSE
      BY <1>1, <2>1
    <3>1. i \in 1 .. m - 1
      BY <1>1, <2>1
    <3>2. IdLess(e[i].id, e[m].id)
      BY <1>3, <3>1
    <3> QED BY <1>1, <1>7, <2>1, <3>2, IdsAreOrdered DEF IdLeq
  <2>3. m < first \/ m \in first .. last
    BY <1>1, <1>2, <2>1, <2>2
  <2> QED BY <1>5, <2>3
<1>8. \A i \in first .. last : Plain(e[i].id) /\ IdLeq(e[i].id, stream.last)
  BY <1>2, <1>3, <1>4 DEF e
<1> SUFFICES ASSUME NEW i \in first .. last
             PROVE  /\ Plain(e[i].id) /\ IdLeq(e[i].id, stream.last)
                    /\ \A m \in 1 .. n : IdLeq(e[m].id, e[i].id) =>
                          \/ e[m] \in {e[l] : l \in first .. last}
                          \/ pollFrom # NoId /\ IdLeq(e[m].id, pollFrom)
  BY <1>4, <1>6 DEF ReplyIsSafe, e
<1> QED BY <1>7, <1>8

(* An entry x is added to a stream, which may then be trimmed. *)
Extended(old, new, x) ==
  /\ Grown(old, new) /\ new.last = x.id
  /\ x.id \in Ids /\ x.id[2] <= old.last[2] + 1
  /\ x \in EntriesIn(new.entries) /\ EntriesIn(new.entries) \subseteq EntriesIn(old.entries) \cup {x}

LEMMA AddExtends ==
  ASSUME NEW old \in StreamsOf(Events), InOrder(old), NEW t \in Nat, NEW event \in Events,
         NEW new \in Trims(XAdd(old, t, event), StreamLimit)
  PROVE  Extended(old, new, NewEntry(old, t, event))
<1> DEFINE x == NewEntry(old, t, event)
<1>1. StreamLimit \in Nat \ {0} /\ old.last \in Ids
  BY GlobalAsyncQueriesAssumption DEF StreamsOf
<1>2. InOrder(XAdd(old, t, event)) /\ XAdd(old, t, event) \in StreamsOf(Events)
  BY AddKeepsOrder, AddKeepsType
<1>3. InOrder(new) /\ new.last = XAdd(old, t, event).last
  BY <1>1, <1>2, TrimKeepsOrder
<1>4. /\ x \in EntriesIn(new.entries)
      /\ EntriesIn(new.entries) \subseteq EntriesIn(old.entries) \cup {x}
  BY <1>1, TrimmedAdd
<1>5. x.id = NewId(old, t) /\ new.last = x.id
  BY <1>3 DEF NewEntry, XAdd
<1>6. x.id \in Ids /\ IdLess(old.last, x.id)
  BY <1>1, <1>5, NewIdIsGreater
<1>7. x.id[2] <= old.last[2] + 1
  BY <1>1, <1>5 DEF NewId, Ids
<1> HIDE DEF x
<1>8. Grown(old, new)
  BY <1>3, <1>4, <1>5, <1>6 DEF Grown, IdLeq
<1>9. Extended(old, new, x)
  BY <1>4, <1>5, <1>6, <1>7, <1>8 DEF Extended
<1> QED BY <1>9 DEF x

(* What a worker does to its job while the commands it sends do not fail. *)
Runs(j) ==
  \/ Manager!Work(j) \/ Manager!QueryEnds(j, "error")
  \/ Manager!SoftTimeLimit(j) \/ Manager!WorkerLost(j)

(* Only a job of the page changes the page's stream, and only once. *)
LEMMA SessionStreamStep ==
  ASSUME NEW A, ProducersHold(A), InOrder(streams[Session]), NEW j \in Jobs, Runs(j)
  PROVE  \/ streams'[Session] = streams[Session] /\ (j \in SessionJobs => ~Manager!AddScoped(j))
         \/ /\ j \in SessionJobs /\ Manager!AddScoped(j)
            /\ \E x : /\ Extended(streams[Session], streams'[Session], x)
                      /\ x.event = Manager!Payload(j)
<1>1. Session \in Channels /\ Session \in Channels \cup {Full} /\ Full # Session
  BY GlobalAsyncQueriesAssumption DEF Channels, channelOf, Jobs
<1>2. streams \in [Channels \cup {Full} -> StreamsOf(Events)] /\ streams[Session] \in StreamsOf(Events)
      /\ now \in Nat /\ DOMAIN streams = Channels \cup {Full}
  BY <1>1 DEF ProducersHold
<1>3. CASE ~Manager!AddScoped(j) /\ ~Manager!AddFull(j)
  <2>1. UNCHANGED streams
    BY <1>3 DEF Runs, Manager!Work, Manager!StartTask, Manager!QueryEnds, Manager!SoftTimeLimit,
                Manager!WorkerLost
  <2> QED BY <1>3, <2>1
<1>4. CASE Manager!AddFull(j)
  <2>1. streams'[Session] = streams[Session]
    BY <1>1, <1>2, <1>4 DEF Manager!AddFull, Manager!Add
  <2>2. ~Manager!AddScoped(j)
    BY <1>4 DEF Manager!AddFull, Manager!AddScoped
  <2> QED BY <2>1, <2>2
<1>5. CASE Manager!AddScoped(j) /\ j \notin SessionJobs
  <2>1. channelOf[j] = Elsewhere /\ Elsewhere # Session
    BY <1>5, GlobalAsyncQueriesAssumption DEF channelOf
  <2>2. streams'[Session] = streams[Session]
    BY <1>1, <1>2, <1>5, <2>1 DEF Manager!AddScoped, Manager!Add
  <2> QED BY <1>5, <2>2
<1>6. CASE Manager!AddScoped(j) /\ j \in SessionJobs
  <2> DEFINE p == Manager!Payload(j)
  <2>1. channelOf[j] = Session /\ status[j] \in Status
    BY <1>6 DEF channelOf, Manager!AddScoped, ProducersHold
  <2>2. p \in Events
    BY <1>1, <2>1 DEF Manager!Payload, Events, Status
  <2>3. PICK t \in {now, now + 1} :
          \E trimmed \in Trims(XAdd(streams[Session], t, p), StreamLimit) :
            streams' = [streams EXCEPT ![Session] = trimmed]
    BY <1>6, <2>1, ManagerStreams DEF Manager!AddScoped, Manager!Add
  <2>4. PICK trimmed \in Trims(XAdd(streams[Session], t, p), StreamLimit) :
          streams' = [streams EXCEPT ![Session] = trimmed]
    BY <2>3
  <2>5. t \in Nat /\ streams'[Session] = trimmed
    BY <1>1, <1>2, <2>4
  <2> HIDE DEF p
  <2>6. Extended(streams[Session], streams'[Session], NewEntry(streams[Session], t, p))
    BY <1>2, <2>2, <2>5, AddExtends
  <2>7. NewEntry(streams[Session], t, p).event = p
    BY DEF NewEntry
  <2> QED BY <1>6, <2>6, <2>7 DEF p
<1> QED BY <1>3, <1>4, <1>5, <1>6

(* While the commands of the producers do not fail, a job has announced      *)
(* nothing before its task publishes, and one outcome at most after; and a   *)
(* job that no chart has asked for does not exist.                           *)
OneOutcome ==
  \A j \in SessionJobs :
    /\ task[j] \in {"none", "queued", "running", "scoped"} => announced[j] = {}
    /\ announced[j] \subseteq {status[j]}
    /\ promise[j] = "idle" => task[j] = "none"

(* What is announced in a step that extends the page's stream, or not. *)
LEMMA StreamAnnounces ==
  ASSUME NEW A, A = announced, ProducersHold(A), Announce
  PROVE  /\ streams'[Session] = streams[Session] =>
              \A i \in SessionJobs : announced'[i] = announced[i]
         /\ \A j \in SessionJobs : \A x :
              /\ Extended(streams[Session], streams'[Session], x)
              /\ x.event = Manager!Payload(j)
              => /\ announced'[j] \subseteq announced[j] \cup {status[j]} /\ announced'[j] # {}
                 /\ \A i \in SessionJobs \ {j} : announced'[i] = announced[i]
<1>1. \A i \in SessionJobs : Published(i) \subseteq announced[i]
  BY PublishedWasAnnounced
<1>2. \A i \in SessionJobs : announced'[i] = announced[i] \cup Published(i)'
  BY DEF Announce
<1>3. /\ Entries(Session) = EntriesIn(streams[Session].entries)
      /\ Entries(Session)' = EntriesIn(streams'[Session].entries)
  BY DEF Entries, Manager!Entries, EntriesIn
<1>4. ASSUME streams'[Session] = streams[Session], NEW i \in SessionJobs
      PROVE  announced'[i] = announced[i]
  <2>1. Published(i)' = Published(i)
    BY <1>3, <1>4 DEF Published
  <2> QED BY <1>1, <1>2, <2>1
<1>5. ASSUME NEW j \in SessionJobs, NEW x, Extended(streams[Session], streams'[Session], x),
             x.event = Manager!Payload(j)
      PROVE  /\ announced'[j] \subseteq announced[j] \cup {status[j]} /\ announced'[j] # {}
             /\ \A i \in SessionJobs \ {j} : announced'[i] = announced[i]
  <2>1. x.event.job = j /\ x.event.status = status[j]
    BY <1>5 DEF Manager!Payload
  <2>2. /\ x \in Entries(Session)' /\ Entries(Session)' \subseteq Entries(Session) \cup {x}
    BY <1>3, <1>5 DEF Extended
  <2>3. /\ Published(j)' \subseteq Published(j) \cup {status[j]} /\ status[j] \in Published(j)'
        /\ \A i \in SessionJobs \ {j} : Published(i)' \subseteq Published(i)
    BY <2>1, <2>2 DEF Published
  <2>4. announced'[j] \subseteq announced[j] \cup {status[j]} /\ announced'[j] # {}
    BY <1>1, <1>2, <2>3
  <2>5. \A i \in SessionJobs \ {j} : announced'[i] = announced[i]
    BY <1>1, <1>2, <2>3
  <2> QED BY <2>4, <2>5
<1> QED BY <1>4, <1>5

LEMMA OutcomesAsk ==
  ASSUME NEW A, ProducersHold(A), promise \in [SessionJobs -> Promises], OneOutcome,
         NEW j \in Jobs, Ask(j)
  PROVE  OneOutcome'
<1>1. /\ task \in [Jobs -> Manager!TaskStates] /\ SessionJobs \subseteq Jobs
  BY DEF ProducersHold, Jobs
<1>2. /\ task[j] = "none" /\ task' = [task EXCEPT ![j] = "queued"]
      /\ UNCHANGED <<status, announced>>
  BY DEF Ask, Manager!submit_job
<1>3. IF j \in SessionJobs THEN promise' = [promise EXCEPT ![j] = "requested"]
                           ELSE promise' = promise
  BY DEF Ask, Client!Ask, clientVars
<1> SUFFICES ASSUME NEW i \in SessionJobs
             PROVE  /\ task'[i] \in {"none", "queued", "running", "scoped"} => announced'[i] = {}
                    /\ announced'[i] \subseteq {status'[i]}
                    /\ promise'[i] = "idle" => task'[i] = "none"
  BY DEF OneOutcome
<1>4. CASE i = j
  BY <1>1, <1>2, <1>3, <1>4 DEF OneOutcome
<1>5. CASE i # j
  <2>1. task'[i] = task[i] /\ promise'[i] = promise[i]
    BY <1>1, <1>2, <1>3, <1>5
  <2> QED BY <1>2, <2>1 DEF OneOutcome
<1> QED BY <1>4, <1>5

LEMMA OutcomesRun ==
  ASSUME NEW A, A = announced, ProducersHold(A), InOrder(streams[Session]), OneOutcome,
         NEW j \in Jobs, Runs(j), Announce, UNCHANGED promise
  PROVE  OneOutcome'
<1>1. /\ task \in [Jobs -> Manager!TaskStates] /\ status \in [Jobs -> {"none"} \cup Status]
      /\ SessionJobs \subseteq Jobs
  BY DEF ProducersHold, Jobs
<1>2. /\ \A i \in Jobs \ {j} : task'[i] = task[i] /\ status'[i] = status[i]
      /\ task[j] # "none" /\ task'[j] # "none"
      /\ \/ task'[j] \in {"running", "scoped"} /\ task[j] \in {"queued", "running"}
         \/ task[j] = "running" /\ task'[j] \in {"timedOut", "lost"} /\ status'[j] = status[j]
         \/ task[j] \in {"scoped", "full"} /\ status'[j] = status[j]
            /\ task'[j] \in {"full", "finished", "failed", "timedOut", "lost"}
  BY <1>1 DEF Runs, Manager!Work, Manager!StartTask, Manager!QueryEnds, Manager!AddScoped,
              Manager!AddFull, Manager!SoftTimeLimit, Manager!WorkerLost, Manager!Busy
<1>3. /\ \A i \in SessionJobs \ {j} : announced'[i] = announced[i]
      /\ j \in SessionJobs =>
           announced'[j] = announced[j]
             \/ (task[j] = "scoped" /\ announced'[j] \subseteq announced[j] \cup {status[j]})
  <2>1. CASE streams'[Session] = streams[Session]
    BY <2>1, StreamAnnounces
  <2>2. CASE j \in SessionJobs /\ Manager!AddScoped(j)
             /\ \E x : /\ Extended(streams[Session], streams'[Session], x)
                       /\ x.event = Manager!Payload(j)
    <3>1. task[j] = "scoped"
      BY <2>2 DEF Manager!AddScoped
    <3> QED BY <2>2, <3>1, StreamAnnounces
  <2> QED BY <2>1, <2>2, SessionStreamStep
<1> SUFFICES ASSUME NEW i \in SessionJobs
             PROVE  /\ task'[i] \in {"none", "queued", "running", "scoped"} => announced'[i] = {}
                    /\ announced'[i] \subseteq {status'[i]}
                    /\ promise'[i] = "idle" => task'[i] = "none"
  BY DEF OneOutcome
<1>4. CASE i # j
  BY <1>1, <1>2, <1>3, <1>4 DEF OneOutcome
<1>5. CASE i = j
  BY <1>2, <1>3, <1>5 DEF OneOutcome
<1> QED BY <1>4, <1>5

(* What the page does without an event loses no event. *)
Moves(page, next) ==
  /\ Sound(next) /\ next.lastId = page.lastId /\ DOMAIN next.timers \subseteq DOMAIN page.timers
  /\ \A j \in SessionJobs : page.promise[j] # "idle" /\ Handled(page, j) => Handled(next, j)

LEMMA ChartMoves ==
  ASSUME NEW A, Client!Page \in Pages(A), Sound(Client!Page), NEW j \in SessionJobs,
         \/ Client!Ask(j) \/ Client!waitForAsyncData(j) \/ Client!Abandon(j)
         \/ \E ok \in BOOLEAN : Client!FetchReturns(j, ok)
  PROVE  Moves(Client!Page, Client!Page') /\ UNCHANGED <<pollFrom, pollResult>>
<1>1. /\ promise \in [SessionJobs -> Promises] /\ listeners \in SUBSET SessionJobs
      /\ fetching \in BagsOf(Told(A, "done"))
  BY FieldsOfPage DEF Client!Page
<1>2. /\ listeners = {i \in SessionJobs : promise[i] = "pending"}
      /\ \A i \in DOMAIN fetching : promise[i] \notin {"idle", "requested"}
      /\ \A i \in SessionJobs : retries[i] # 0 => \E y \in DOMAIN timers : y.event.job = i
      /\ DOMAIN fetching \subseteq SessionJobs
  BY <1>1 DEF Sound, Matches, Backed, Client!Page, BagsOf, Told
<1>3. UNCHANGED <<retries, timers, lastId, pollFrom, pollResult>>
  BY DEF Client!Ask, Client!waitForAsyncData, Client!Abandon, Client!FetchReturns, Client!pollVars
<1>4. ASSUME listeners' = {i \in SessionJobs : promise'[i] = "pending"},
             \A i \in DOMAIN fetching' : promise'[i] \notin {"idle", "requested"},
             \A i \in SessionJobs : promise[i] \in Closed => promise'[i] \in Closed,
             \A i \in DOMAIN fetching : i \in DOMAIN fetching' \/ promise'[i] \in Closed
      PROVE  Moves(Client!Page, Client!Page')
  <2>1. Sound(Client!Page')
    BY <1>2, <1>3, <1>4 DEF Sound, Matches, Backed, Client!Page
  <2>2. \A i \in SessionJobs : Handled(Client!Page, i) => Handled(Client!Page', i)
    BY <1>3, <1>4 DEF Handled, Client!Page
  <2> QED BY <1>3, <2>1, <2>2 DEF Moves, Client!Page
<1>5. CASE Client!Ask(j)
  <2>1. /\ promise[j] = "idle" /\ promise' = [promise EXCEPT ![j] = "requested"]
        /\ UNCHANGED <<listeners, fetching>>
    BY <1>5 DEF Client!Ask
  <2> QED BY <1>1, <1>2, <1>3, <1>4, <2>1 DEF Closed
<1>6. CASE Client!waitForAsyncData(j)
  <2>1. /\ promise[j] = "requested" /\ promise' = [promise EXCEPT ![j] = "pending"]
        /\ listeners' = listeners \cup {j} /\ UNCHANGED fetching
    BY <1>6 DEF Client!waitForAsyncData
  <2> QED BY <1>1, <1>2, <1>3, <1>4, <2>1 DEF Closed
<1>7. CASE Client!Abandon(j)
  <2>1. /\ promise[j] = "requested" /\ promise' = [promise EXCEPT ![j] = "abandoned"]
        /\ UNCHANGED <<listeners, fetching>>
    BY <1>7 DEF Client!Abandon
  <2> QED BY <1>1, <1>2, <1>3, <1>4, <2>1 DEF Closed
<1>8. ASSUME NEW ok \in BOOLEAN, Client!FetchReturns(j, ok)
      PROVE  Moves(Client!Page, Client!Page')
  <2>1. /\ j \in DOMAIN fetching /\ fetching' = fetching (-) SetToBag({j})
        /\ listeners' = listeners \ {j}
        /\ promise' = [promise EXCEPT ![j] = IF promise[j] # "pending" THEN promise[j]
                                             ELSE IF ok THEN "resolved" ELSE "rejected"]
    BY <1>8, ClientBags DEF Client!FetchReturns, Client!BagIn, Client!BagToSet
  <2>2. /\ DOMAIN fetching \ {j} \subseteq DOMAIN fetching'
        /\ DOMAIN fetching' \subseteq DOMAIN fetching
    BY <1>1, <2>1, BagReduced
  <2>3. promise'[j] \in Closed /\ \A i \in SessionJobs \ {j} : promise'[i] = promise[i]
    BY <1>1, <1>2, <2>1 DEF Closed, Promises
  <2>4. \A i \in DOMAIN fetching' : promise'[i] \notin {"idle", "requested"}
    BY <1>2, <2>2, <2>3 DEF Closed
  <2>5. listeners' = {i \in SessionJobs : promise'[i] = "pending"}
    BY <1>2, <2>1, <2>3 DEF Closed
  <2>6. \A i \in DOMAIN fetching : i \in DOMAIN fetching' \/ promise'[i] \in Closed
    BY <2>2, <2>3
  <2>7. \A i \in SessionJobs : promise[i] \in Closed => promise'[i] \in Closed
    BY <2>3
  <2> QED BY <1>4, <2>4, <2>5, <2>6, <2>7
<1> QED BY <1>3, <1>5, <1>6, <1>7, <1>8

LEMMA ReloadMoves ==
  ASSUME NEW A, Client!Page \in Pages(A), Client!Reload
  PROVE  Moves(Client!Page, Client!Page') /\ pollFrom' = NoId /\ pollResult' = <<>>
<1>1. promise \in [SessionJobs -> Promises]
  BY FieldsOfPage DEF Client!Page
<1>2. /\ promise' = [i \in SessionJobs |-> IF promise[i] \in {"requested", "pending"}
                                           THEN "abandoned" ELSE promise[i]]
      /\ listeners' = {} /\ retries' = [i \in SessionJobs |-> 0] /\ lastId' = lastId
      /\ DOMAIN timers' = {} /\ DOMAIN fetching' = {}
      /\ pollFrom' = NoId /\ pollResult' = <<>>
  BY ClientBags, NoBag DEF Client!Reload, Client!Loaded
<1>3. Sound(Client!Page')
  BY <1>1, <1>2 DEF Sound, Matches, Backed, Client!Page
<1>4. \A i \in SessionJobs : promise[i] # "idle" => promise'[i] \in Closed
  BY <1>1, <1>2 DEF Promises, Closed
<1> QED BY <1>2, <1>3, <1>4 DEF Moves, Handled, Client!Page

(* The conditions of the polling transport: the producers' commands do not   *)
(* fail, so that a job has one event; an answer does not outlast the retries *)
(* of its event; a page starts with no ID, or with that of an empty stream.  *)
PollingConditions ==
  /\ Transport = "polling" /\ MaxRetries # 0 /\ PromptAnswers
  /\ "publish" \notin Faults
  /\ StoredId \in {NoId, <<0, 0>>}

PlainIds == \A x \in Entries(Session) : Plain(x.id)

PollingInv ==
  /\ InOrder(streams[Session]) /\ OneOutcome
  /\ PageIsSafe(Client!Page, pollFrom, streams[Session])
  /\ ReplyIsSafe(EntriesIn(pollResult), pollFrom, streams[Session])

LEMMA EntriesAreAsked ==
  ASSUME NEW A, A = announced, ProducersHold(A), OneOutcome
  PROVE  Asked(Client!Page, streams[Session])
<1>1. streams[Session].entries \in Seq(Heard(A))
  BY SessionIsHeard
<1>2. EntriesIn(streams[Session].entries) \subseteq Heard(A)
  BY <1>1, EntriesOfSeq
<1>3. ASSUME NEW x \in Heard(A)
      PROVE  x.event.job \in SessionJobs /\ promise[x.event.job] # "idle"
  <2>1. x.event.job \in SessionJobs /\ announced[x.event.job] # {}
    BY DEF Heard, Said
  <2> QED BY <2>1 DEF OneOutcome
<1> QED BY <1>2, <1>3 DEF Asked, Client!Page

(* The page and its requests, while the stream stays as it is. *)
LEMMA PageStaysSafe ==
  ASSUME NEW A, A = announced, Holds(A), PollingConditions, PlainIds, PollingInv,
         PollNext \/ PageNext
  PROVE  /\ PageIsSafe(Client!Page', pollFrom', streams[Session])
         /\ ReplyIsSafe(EntriesIn(pollResult'), pollFrom', streams[Session])
<1> DEFINE stream == streams[Session]
           page   == Client!Page
           Goal   == /\ PageIsSafe(Client!Page', pollFrom', stream)
                     /\ ReplyIsSafe(EntriesIn(pollResult'), pollFrom', stream)
<1>1. /\ page \in Pages(A) /\ Sound(page) /\ page.lastId = lastId /\ page.timers = timers
      /\ Asked(page, stream) /\ stream \in StreamsOf(Events) /\ InOrder(stream)
      /\ pollFrom \in Ids \cup {NoId} /\ pollResult \in Seq(Heard(A))
      /\ PageIsSafe(page, pollFrom, stream) /\ ReplyIsSafe(EntriesIn(pollResult), pollFrom, stream)
  BY EntriesAreAsked, SessionIsHeard
     DEF Holds, PageHolds, TransportsHold, PollingInv, PageIsSafe, Client!Page
<1>2. EntriesIn(<<>>) = {} /\ \A from : ReplyIsSafe({}, from, stream)
  BY DEF EntriesIn, ReplyIsSafe
<1>3. ASSUME Moves(page, Client!Page'),
             \/ UNCHANGED <<pollFrom, pollResult>>
             \/ pollFrom' = NoId /\ pollResult' = <<>>
      PROVE  Goal
  <2>1. pollFrom' \in {pollFrom, page.lastId, NoId}
    BY <1>3
  <2>2. PageIsSafe(Client!Page', pollFrom', stream)
    BY <1>1, <1>3, <2>1, MovedIsSafe DEF Moves
  <2>3. ReplyIsSafe(EntriesIn(pollResult'), pollFrom', stream)
    BY <1>1, <1>2, <1>3
  <2> QED BY <2>2, <2>3
<1>4. ASSUME NEW events, TakenUp(page, events, Client!Page'),
             \A y \in events : Safe(Client!Page', stream, y.id),
             \/ UNCHANGED <<pollFrom, pollResult>>
             \/ pollFrom' = NoId /\ pollResult' = <<>>
      PROVE  Goal
  <2>1. pollFrom' \in {pollFrom, NoId}
    BY <1>4
  <2>2. PageIsSafe(Client!Page', pollFrom', stream)
    BY <1>1, <1>4, <2>1, TakenUpIsSafe
  <2>3. ReplyIsSafe(EntriesIn(pollResult'), pollFrom', stream)
    BY <1>1, <1>2, <1>4
  <2> QED BY <2>2, <2>3
<1>5. ASSUME UNCHANGED Client!pageVars PROVE Client!Page' = page
  BY <1>5 DEF Client!pageVars, Client!Page
<1>6. CASE PollTimer \/ PollFails
  <2>1. /\ UNCHANGED Client!pageVars /\ pollResult' = <<>> /\ pollFrom' \in {lastId, NoId}
    BY <1>6 DEF PollTimer, PollFails, ClientOnly, Client!PollTimer, Client!loadEventsFromApi,
                Client!PollFails
  <2>2. Client!Page' = page /\ pollFrom' \in {pollFrom, page.lastId, NoId}
    BY <1>1, <1>5, <2>1
  <2>3. PageIsSafe(Client!Page', pollFrom', stream)
    BY <1>1, <2>2 DEF PageIsSafe
  <2> QED BY <1>2, <2>1, <2>3
<1>7. CASE ApiReads
  <2>1. /\ UNCHANGED Client!pageVars /\ UNCHANGED pollFrom
        /\ pollResult' = Manager!read_events(Session, pollFrom)
    BY <1>7 DEF ApiReads, ClientOnly, Client!PollAnswered
  <2>2. PageIsSafe(Client!Page', pollFrom', stream)
    BY <1>1, <1>5, <2>1
  <2>3. /\ \A x \in EntriesIn(stream.entries) : Plain(x.id)
        /\ pollFrom # NoId => Plain(pollFrom)
    <3>1. \A x \in EntriesIn(stream.entries) : Plain(x.id)
      BY DEF PlainIds, Entries, Manager!Entries, EntriesIn
    <3> QED BY <1>1, <3>1 DEF PageIsSafe, Safe
  <2>4. ReplyIsSafe(EntriesIn(Manager!read_events(Session, pollFrom)), pollFrom, stream)
    BY <1>1, <2>3, PollIsSafe
  <2> QED BY <2>1, <2>2, <2>4
<1>8. CASE PollReturns
  <2>1. /\ Client!processEvents(pollResult) /\ pollFrom' = NoId /\ pollResult' = <<>>
    BY <1>8 DEF PollReturns, ClientOnly, Client!PollReturns
  <2>2. TakenUp(page, EntriesIn(pollResult), Client!Page')
    BY <1>1, <2>1, ReplyTakenUp DEF PollingConditions
  <2>3. \A y \in EntriesIn(pollResult) : Safe(Client!Page', stream, y.id)
    BY <1>1, <2>2, ReplyLeavesNothing
  <2> QED BY <1>4, <2>1, <2>2, <2>3
<1>9. CASE RetryTimer
  <2>1. PICK x \in DOMAIN timers :
          /\ Client!RetryTimer(x)
          /\ promise[x.event.job] = "requested" => retries[x.event.job] < MaxRetries
    BY <1>9 DEF RetryTimer, ClientOnly, PollingConditions
  <2>2. x \in Heard(A) /\ UNCHANGED <<pollFrom, pollResult>>
    <3>1. timers \in BagsOf(Heard(A))
      BY <1>1, FieldsOfPage
    <3> QED BY <2>1, <3>1 DEF BagsOf, Client!RetryTimer, Client!pollVars
  <2>3. promise[x.event.job] # "idle"
    BY <2>2 DEF Heard, Said, OneOutcome, PollingInv
  <2>4. TakenUp(page, {x}, Client!Page')
    BY <1>1, <2>1, <2>3, TimerTakenUp
  <2>5. Safe(page, stream, x.id)
    BY <1>1, <2>1 DEF PageIsSafe
  <2>6. Safe(Client!Page', stream, x.id)
    BY <1>1, <2>4, <2>5 DEF Safe, Asked, TakenUp
  <2> QED BY <1>4, <2>2, <2>4, <2>6
<1>10. CASE Reload
  <2>1. Moves(page, Client!Page') /\ pollFrom' = NoId /\ pollResult' = <<>>
    BY <1>1, <1>10, ReloadMoves DEF Reload
  <2> QED BY <1>3, <2>1
<1>11. ASSUME NEW j \in SessionJobs, Answered(j) \/ Fetched(j) \/ FetchMisses(j) \/ Abandon(j)
       PROVE  Goal
  <2>1. \/ Client!waitForAsyncData(j) \/ Client!Abandon(j)
        \/ \E ok \in BOOLEAN : Client!FetchReturns(j, ok)
    BY <1>11 DEF Answered, Fetched, FetchMisses, Abandon, ClientOnly
  <2>2. Moves(page, Client!Page') /\ UNCHANGED <<pollFrom, pollResult>>
    BY <1>1, <2>1, ChartMoves
  <2> QED BY <1>3, <2>2
<1> QED BY <1>6, <1>7, <1>8, <1>9, <1>10, <1>11 DEF PollNext, PageNext

(* The page and its requests, while its stream grows. *)
LEMMA JobsKeepPageSafe ==
  ASSUME NEW A, A = announced, Holds(A), "publish" \notin Faults, PollingInv,
         NEW j \in Jobs,
         Ask(j) \/ Work(j) \/ QueryFails(j) \/ AddFails(j) \/ TimesOut(j) \/ WorkerLost(j)
  PROVE  PollingInv'
<1> DEFINE old  == streams[Session]
           new  == streams'[Session]
           page == Client!Page
<1>1. /\ page \in Pages(A) /\ Sound(page) /\ Asked(page, old)
      /\ old \in StreamsOf(Events) /\ InOrder(old)
      /\ pollFrom \in Ids \cup {NoId} /\ pollResult \in Seq(Heard(A))
      /\ PageIsSafe(page, pollFrom, old) /\ ReplyIsSafe(EntriesIn(pollResult), pollFrom, old)
      /\ ProducersHold(A) /\ OneOutcome /\ promise \in [SessionJobs -> Promises]
  BY EntriesAreAsked, SessionIsHeard, FieldsOfPage
     DEF Holds, PageHolds, TransportsHold, PollingInv, PageIsSafe, Client!Page
<1>2. CASE Ask(j)
  <2>1. UNCHANGED <<streams, pollFrom, pollResult>> /\ OneOutcome'
    <3>1. UNCHANGED <<streams, pollFrom, pollResult>>
      BY <1>2 DEF Ask, Manager!submit_job, Client!Ask, Client!pollVars, clientVars
    <3> QED BY <1>1, <1>2, <3>1, OutcomesAsk
  <2>2. PageIsSafe(Client!Page', pollFrom', new)
    <3>1. CASE j \in SessionJobs
      <4>1. Client!Ask(j)
        BY <1>2, <3>1 DEF Ask
      <4>2. Moves(page, Client!Page')
        BY <1>1, <3>1, <4>1, ChartMoves
      <4>3. PageIsSafe(Client!Page', pollFrom, old)
        BY <1>1, <4>2, MovedIsSafe DEF Moves
      <4> QED BY <2>1, <4>3
    <3>2. CASE j \notin SessionJobs
      <4>1. Client!Page' = page
        BY <1>2, <3>2 DEF Ask, clientVars, Client!Page
      <4> QED BY <1>1, <2>1, <4>1
    <3> QED BY <3>1, <3>2
  <2> QED BY <1>1, <2>1, <2>2 DEF PollingInv
<1>3. CASE Work(j) \/ QueryFails(j) \/ TimesOut(j) \/ WorkerLost(j)
  <2>1. Runs(j) /\ Announce /\ UNCHANGED clientVars
    BY <1>3 DEF Work, QueryFails, TimesOut, WorkerLost, ManagerOnly, Runs
  <2>2. Client!Page' = page /\ UNCHANGED <<promise, pollFrom, pollResult>>
    BY <2>1 DEF clientVars, Client!Page
  <2>3. OneOutcome'
    BY <1>1, <2>1, <2>2, OutcomesRun
  <2>4. new \in StreamsOf(Events) /\ (new = old \/ Grown(old, new))
    <3>1. new = old \/ \E x : Extended(old, new, x)
      BY <1>1, <2>1, SessionStreamStep
    <3>2. PICK B : B = announced'
      OBVIOUS
    <3>3. \A i \in SessionJobs : B[i] = A[i] \cup Published(i)'
      BY <2>1, <3>2 DEF Announce
    <3>4. More(A, B) /\ JobStep(j)
      BY <2>1, <3>3 DEF More, Runs, JobStep
    <3>5. ProducersHold(B)'
      BY <1>1, <3>3, <3>4, ProducersStep
    <3>6. new \in StreamsOf(Events)
      BY <1>1, <3>5, SessionIsHeard DEF ProducersHold
    <3> QED BY <3>1, <3>6 DEF Extended
  <2>5. /\ PageIsSafe(page, pollFrom, new) /\ ReplyIsSafe(EntriesIn(pollResult), pollFrom, new)
        /\ InOrder(new)
    <3>1. CASE new = old
      BY <1>1, <3>1
    <3>2. CASE Grown(old, new)
      <4>1. PageIsSafe(page, pollFrom, new)
        BY <1>1, <2>4, <3>2, GrownPageIsSafe
      <4>2. \A y \in EntriesIn(pollResult) : y.id \in Ids
        <5>1. EntriesIn(pollResult) \subseteq Heard(A)
          BY <1>1, EntriesOfSeq
        <5> QED BY <5>1 DEF Heard, Said, Entry
      <4>3. ReplyIsSafe(EntriesIn(pollResult), pollFrom, new)
        BY <1>1, <2>4, <3>2, <4>2, GrownIsSafe
      <4> QED BY <3>2, <4>1, <4>3 DEF Grown
    <3> QED BY <2>4, <3>1, <3>2
  <2> QED BY <2>2, <2>3, <2>5 DEF PollingInv
<1>4. ~AddFails(j)
  BY DEF AddFails, Fault
<1> QED BY <1>2, <1>3, <1>4

LEMMA PollingInit ==
  ASSUME Init, PollingConditions
  PROVE  PollingInv
<1>1. /\ task = [j \in Jobs |-> "none"] /\ announced = [j \in SessionJobs |-> {}]
      /\ promise = [j \in SessionJobs |-> "idle"] /\ listeners = {}
      /\ retries = [j \in SessionJobs |-> 0] /\ DOMAIN timers = {} /\ DOMAIN fetching = {}
      /\ lastId = StoredId /\ pollFrom = NoId /\ pollResult = <<>>
  BY ClientBags, NoBag DEF Init, Manager!ManagerInit, Client!ClientInit
<1>2. streams[Session] = EmptyStream
  <2>1. Session \in Channels
    BY GlobalAsyncQueriesAssumption DEF Channels, channelOf, Jobs
  <2> QED BY <2>1 DEF Init, Manager!ManagerInit, Manager!EmptyStream, EmptyStream, Channels
<1>3. EmptyStream.last = <<0, 0>> /\ EntriesIn(EmptyStream.entries) = {} /\ InOrder(EmptyStream)
  BY DEF EmptyStream, EntriesIn, InOrder
<1>4. \A page : Safe(page, EmptyStream, <<0, 0>>)
  <2>1. Plain(<<0, 0>>)
    BY DEF Plain, Manager!increment_id
  <2> QED BY <1>3, <2>1 DEF Safe, IdLeq
<1>5. Sound(Client!Page)
  BY <1>1 DEF Sound, Matches, Backed, Client!Page
<1>6. PageIsSafe(Client!Page, pollFrom, EmptyStream)
  BY <1>1, <1>4, <1>5 DEF PageIsSafe, PollingConditions, Client!Page
<1>7. ReplyIsSafe(EntriesIn(pollResult), pollFrom, EmptyStream)
  BY <1>1 DEF ReplyIsSafe, EntriesIn
<1>8. OneOutcome
  BY <1>1 DEF OneOutcome, Jobs
<1> QED BY <1>2, <1>3, <1>6, <1>7, <1>8 DEF PollingInv

LEMMA PollingKept ==
  ASSUME PipelineInv, PollingConditions, PlainIds, PollingInv, [Next]_vars
  PROVE  PollingInv'
<1>1. PICK A \in Announcements : A = announced /\ Holds(A)
  BY DEF PipelineInv
<1>2. CASE UNCHANGED vars
  <2>1. UNCHANGED <<task, status, streams, announced, promise, listeners, retries, timers,
                    fetching, lastId, pollFrom, pollResult>>
    BY <1>2 DEF vars, managerVars, clientVars
  <2> QED BY <2>1 DEF PollingInv, OneOutcome, Client!Page
<1>3. CASE JobNext
  <2>1. "publish" \notin Faults
    BY DEF PollingConditions
  <2> QED BY <1>1, <1>3, <2>1, JobsKeepPageSafe DEF JobNext
<1>4. CASE PollNext \/ PageNext
  <2>1. UNCHANGED managerVars
    BY <1>4 DEF PollNext, PollTimer, ApiReads, PollReturns, PollFails, PageNext, RetryTimer, Reload,
                Answered, Fetched, FetchMisses, Abandon, ClientOnly
  <2>2. UNCHANGED <<task, status, streams, announced>>
    BY <2>1 DEF managerVars
  <2>3. /\ PageIsSafe(Client!Page', pollFrom', streams[Session])
        /\ ReplyIsSafe(EntriesIn(pollResult'), pollFrom', streams[Session])
    BY <1>1, <1>4, PageStaysSafe
  <2>4. \A j \in SessionJobs : promise'[j] = "idle" => promise[j] = "idle"
    <3>1. Changes(A, promise, promise') \/ UNCHANGED promise
      <4>1. UNCHANGED clientVars \/ PageStep(A)
        BY <1>1, <1>4, PagePart DEF Next
      <4>2. PageStep(A) => Changes(A, promise, promise')
        BY <1>1, PageStepHolds DEF Holds, PageHolds, TransportsHold
      <4> QED BY <4>1, <4>2 DEF clientVars
    <3> QED BY <3>1 DEF Changes
  <2>5. OneOutcome'
    BY <2>2, <2>4 DEF OneOutcome, PollingInv
  <2> QED BY <2>2, <2>3, <2>5 DEF PollingInv
<1> QED BY <1>2, <1>3, <1>4 DEF Next, PollingConditions

(* An event behind lastId of a chart that still waits is with a timer, or    *)
(* its result is being fetched.                                              *)
LEMMA PollingMeans ==
  ASSUME PipelineInv, PollingInv
  PROVE  NothingBehindLastId
<1>1. PICK A \in Announcements : A = announced /\ Holds(A)
  BY DEF PipelineInv
<1>2. Entries(Session) \subseteq Heard(A) /\ DOMAIN timers \subseteq Heard(A)
  <2>1. streams[Session].entries \in Seq(Heard(A))
    BY <1>1, SessionIsHeard DEF Holds
  <2>2. Entries(Session) = EntriesIn(streams[Session].entries)
    BY DEF Entries, Manager!Entries, EntriesIn
  <2>3. EntriesIn(streams[Session].entries) \subseteq Heard(A)
    BY <2>1, EntriesOfSeq
  <2>4. timers \in BagsOf(Heard(A))
    BY <1>1, FieldsOfPage DEF Holds, PageHolds, Client!Page
  <2> QED BY <2>2, <2>3, <2>4 DEF BagsOf
<1>3. ASSUME NEW x \in Heard(A), NEW y \in Heard(A), y.event.job = x.event.job
      PROVE  y.event = x.event
  <2>1. /\ x.event \in Events /\ y.event \in Events
        /\ x.event.channel = channelOf[x.event.job] /\ y.event.channel = channelOf[y.event.job]
        /\ x.event.job \in SessionJobs
        /\ x.event.status \in A[x.event.job] /\ y.event.status \in A[y.event.job]
    BY DEF Heard, Said, Entry
  <2>2. A[x.event.job] \subseteq {status[x.event.job]}
    BY <1>1, <2>1 DEF PollingInv, OneOutcome
  <2>3. x.event.status = y.event.status /\ x.event.channel = y.event.channel
    BY <1>3, <2>1, <2>2
  <2> QED BY <1>3, <2>1, <2>3 DEF Events
<1>4. ASSUME NEW x \in Entries(Session), lastId # NoId, IdLeq(x.id, lastId),
             promise[x.event.job] \in {"requested", "pending"}
      PROVE  \/ \E y \in DOMAIN timers : y.event = x.event
             \/ x.event.job \in DOMAIN fetching
  <2>1. Handled(Client!Page, x.event.job)
    BY <1>4 DEF PollingInv, PageIsSafe, Safe, Client!Page, Entries, Manager!Entries, EntriesIn
  <2>2. \/ \E y \in DOMAIN timers : y.event.job = x.event.job
        \/ x.event.job \in DOMAIN fetching
    BY <1>4, <2>1 DEF Handled, Closed, Client!Page
  <2> QED BY <1>2, <1>3, <2>2
<1> QED BY <1>4 DEF NothingBehindLastId

(* A page that polls resumes from lastId, and its chart would wait for ever  *)
(* for an event it left behind: it leaves none, however Redis trims its      *)
(* stream, whatever is lost of requests, queries, workers and results, and   *)
(* whenever it is loaded again, as long as the IDs on its stream are such    *)
(* that increment_id yields the next one.                                    *)
THEOREM PollingLeavesNothingBehind ==
  ASSUME PollingConditions
  PROVE  Spec /\ []PlainIds => []NothingBehindLastId
<1>1. Init => PipelineInv /\ PollingInv
  BY InitHolds, PollingInit
<1>2. PipelineInv /\ [Next]_vars => PipelineInv'
  BY NextHolds, StutterHolds
<1>3. PipelineInv /\ PlainIds /\ PollingInv /\ [Next]_vars => PollingInv'
  BY PollingKept
<1>4. PipelineInv /\ PollingInv => NothingBehindLastId
  BY PollingMeans
<1> QED BY <1>1, <1>2, <1>3, <1>4, PTL DEF Spec

(* The sequence number of an ID only exceeds the last one's by one, and each *)
(* job of the page adds one entry: IDs stay below the first one that         *)
(* increment_id gets wrong, whose sequence number is 19, when the page asks  *)
(* for fewer jobs than that.                                                 *)
Heralded == {j \in SessionJobs : announced[j] # {}}

SmallSequences ==
  /\ streams[Session].last[2] <= Cardinality(Heralded)
  /\ \A x \in Entries(Session) : x.id[2] <= Cardinality(Heralded)

LEMMA SmallIsPlain ==
  ASSUME NEW id \in Ids, id[2] < 19
  PROVE  Plain(id)
<1>1. id[2] \in Nat
  BY DEF Ids
<1>2. CASE id[2] < 10
  BY <1>1, <1>2 DEF Plain, Manager!increment_id
<1>3. CASE ~(id[2] < 10)
  <2>1. id[2] % 10 # 9
    BY <1>1, <1>3
  <2> QED BY <2>1 DEF Plain, Manager!increment_id
<1> QED BY <1>2, <1>3

LEMMA SmallIdsArePlain ==
  ASSUME PipelineInv, SmallSequences, IsFiniteSet(SessionJobs), Cardinality(SessionJobs) < 19
  PROVE  PlainIds
<1>1. PICK A \in Announcements : A = announced /\ Holds(A)
  BY DEF PipelineInv
<1>2. \A x \in Entries(Session) : x.id \in Ids
  <2>1. streams[Session].entries \in Seq(Heard(A))
    BY <1>1, SessionIsHeard DEF Holds
  <2>2. EntriesIn(streams[Session].entries) \subseteq Heard(A)
    BY <2>1, EntriesOfSeq
  <2> QED BY <2>2 DEF Entries, Manager!Entries, EntriesIn, Heard, Said, Entry
<1>3. Heralded \in SUBSET SessionJobs
  BY DEF Heralded
<1>4. /\ Cardinality(Heralded) <= Cardinality(SessionJobs)
      /\ Cardinality(Heralded) \in Nat /\ Cardinality(SessionJobs) \in Nat
  BY <1>3, FS_Subset, FS_CardinalityType
<1>5. ASSUME NEW x \in Entries(Session) PROVE Plain(x.id)
  <2>1. x.id \in Ids /\ x.id[2] <= Cardinality(Heralded)
    BY <1>2 DEF SmallSequences
  <2>2. x.id[2] < 19
    BY <1>4, <2>1 DEF Ids
  <2> QED BY <2>1, <2>2, SmallIsPlain
<1> QED BY <1>5 DEF PlainIds

(* The stream of the page is extended by the jobs that are announced.        *)
LEMMA StreamTells ==
  ASSUME PipelineInv, PollingConditions, PollingInv, [Next]_vars
  PROVE  \/ /\ streams'[Session] = streams[Session]
            /\ \A i \in SessionJobs : announced'[i] = announced[i]
         \/ \E j \in SessionJobs : \E x :
              /\ Extended(streams[Session], streams'[Session], x)
              /\ announced[j] = {} /\ announced'[j] # {}
              /\ \A i \in SessionJobs \ {j} : announced'[i] = announced[i]
<1>1. PICK A \in Announcements : A = announced /\ Holds(A)
  BY DEF PipelineInv
<1>2. ASSUME UNCHANGED <<streams, announced>>
      PROVE  /\ streams'[Session] = streams[Session]
             /\ \A i \in SessionJobs : announced'[i] = announced[i]
  BY <1>2
<1>3. CASE UNCHANGED vars
  BY <1>2, <1>3 DEF vars, managerVars
<1>4. CASE PollNext \/ PageNext
  BY <1>2, <1>4 DEF PollNext, PollTimer, ApiReads, PollReturns, PollFails, PageNext, RetryTimer,
                    Reload, Answered, Fetched, FetchMisses, Abandon, ClientOnly, managerVars
<1>5. CASE JobNext
  <2>1. PICK j \in Jobs : \/ Ask(j) \/ Work(j) \/ QueryFails(j) \/ AddFails(j)
                          \/ TimesOut(j) \/ WorkerLost(j)
    BY <1>5 DEF JobNext
  <2>2. CASE Ask(j)
    BY <1>2, <2>2 DEF Ask, Manager!submit_job
  <2>3. CASE Work(j) \/ QueryFails(j) \/ TimesOut(j) \/ WorkerLost(j)
    <3>1. Runs(j) /\ Announce
      BY <2>3 DEF Work, QueryFails, TimesOut, WorkerLost, ManagerOnly, Runs
    <3>2. ProducersHold(A) /\ InOrder(streams[Session]) /\ OneOutcome
      BY <1>1 DEF Holds, PollingInv
    <3>3. CASE streams'[Session] = streams[Session]
      BY <1>1, <3>1, <3>2, <3>3, StreamAnnounces
    <3>4. CASE j \in SessionJobs /\ Manager!AddScoped(j)
               /\ \E x : /\ Extended(streams[Session], streams'[Session], x)
                         /\ x.event = Manager!Payload(j)
      <4>1. announced[j] = {}
        BY <3>2, <3>4 DEF Manager!AddScoped, OneOutcome
      <4> QED BY <1>1, <3>1, <3>2, <3>4, <4>1, StreamAnnounces
    <3> QED BY <3>1, <3>2, <3>3, <3>4, SessionStreamStep
  <2>4. ~AddFails(j)
    BY DEF AddFails, Fault, PollingConditions
  <2> QED BY <2>1, <2>2, <2>3, <2>4
<1> QED BY <1>3, <1>4, <1>5 DEF Next, PollingConditions

LEMMA SmallKept ==
  ASSUME PipelineInv, PollingConditions, PollingInv, SmallSequences, [Next]_vars,
         IsFiniteSet(SessionJobs)
  PROVE  SmallSequences'
<1> DEFINE old == streams[Session]
           new == streams'[Session]
<1>1. /\ Entries(Session) = EntriesIn(old.entries)
      /\ Entries(Session)' = EntriesIn(new.entries)
  BY DEF Entries, Manager!Entries, EntriesIn
<1>2. PICK N : N = Cardinality(Heralded)
  OBVIOUS
<1>3. Heralded \in SUBSET SessionJobs /\ IsFiniteSet(Heralded) /\ N \in Nat
  <2>1. Heralded \in SUBSET SessionJobs
    BY DEF Heralded
  <2> QED BY <1>2, <2>1, FS_Subset, FS_CardinalityType
<1>4. old.last \in Ids /\ \A x \in EntriesIn(old.entries) : x.id \in Ids
  <2>1. PICK A \in Announcements : A = announced /\ Holds(A)
    BY DEF PipelineInv
  <2>2. old \in StreamsOf(Events)
    BY <2>1, SessionIsHeard DEF Holds
  <2> QED BY <2>2, StreamParts DEF StreamsOf, EntriesIn
<1>5. CASE new = old /\ \A i \in SessionJobs : announced'[i] = announced[i]
  <2>1. Heralded' = Heralded
    BY <1>5 DEF Heralded
  <2> QED BY <1>1, <1>5, <2>1 DEF SmallSequences
<1>6. ASSUME NEW j \in SessionJobs, NEW x, Extended(old, new, x),
             announced[j] = {}, announced'[j] # {},
             \A i \in SessionJobs \ {j} : announced'[i] = announced[i]
      PROVE  SmallSequences'
  <2>1. Heralded' = Heralded \cup {j} /\ j \notin Heralded
    BY <1>6 DEF Heralded
  <2>2. Cardinality(Heralded') = N + 1
    BY <1>2, <1>3, <2>1, FS_AddElement
  <2>3. /\ old.last[2] <= N /\ \A y \in EntriesIn(old.entries) : y.id[2] <= N
    BY <1>1, <1>2 DEF SmallSequences
  <2>4. x.id[2] <= N + 1 /\ new.last[2] <= N + 1
    BY <1>3, <1>4, <1>6, <2>3 DEF Extended, Ids
  <2>5. \A y \in EntriesIn(new.entries) : y.id[2] <= N + 1
    <3>1. \A y \in EntriesIn(old.entries) : y.id[2] <= N + 1
      BY <1>3, <1>4, <2>3 DEF Ids
    <3> QED BY <1>6, <2>4, <3>1 DEF Extended
  <2>6. Cardinality(Heralded)' = N + 1
    BY <2>2 DEF Cardinality
  <2> QED BY <1>1, <2>4, <2>5, <2>6 DEF SmallSequences
<1> QED BY <1>5, <1>6, StreamTells

(* A page that asks for fewer than 19 jobs: no hypothesis on the IDs is left. *)
THEOREM FewChartsLeaveNothingBehind ==
  ASSUME PollingConditions, IsFiniteSet(SessionJobs), Cardinality(SessionJobs) < 19
  PROVE  Spec => []NothingBehindLastId
<1>1. Init => PipelineInv /\ PollingInv /\ SmallSequences
  <2>1. ASSUME Init PROVE SmallSequences
    <3>1. streams[Session] = EmptyStream
      <4>1. Session \in Channels
        BY GlobalAsyncQueriesAssumption DEF Channels, channelOf, Jobs
      <4> QED BY <2>1, <4>1 DEF Init, Manager!ManagerInit, Manager!EmptyStream, EmptyStream, Channels
    <3>2. Heralded = {}
      BY <2>1 DEF Init, Heralded
    <3>3. Cardinality(Heralded) = 0
      BY <3>2, FS_EmptySet
    <3> QED BY <3>1, <3>3 DEF SmallSequences, EmptyStream, Entries, Manager!Entries
  <2> QED BY <2>1, InitHolds, PollingInit
<1>2. PipelineInv /\ [Next]_vars => PipelineInv'
  BY NextHolds, StutterHolds
<1>3. PipelineInv /\ SmallSequences => PlainIds
  BY SmallIdsArePlain
<1>4. PipelineInv /\ PollingInv /\ SmallSequences /\ [Next]_vars => PollingInv' /\ SmallSequences'
  BY <1>3, PollingKept, SmallKept
<1>5. PipelineInv /\ PollingInv => NothingBehindLastId
  BY PollingMeans
<1> QED BY <1>1, <1>2, <1>4, <1>5, PTL DEF Spec

-----------------------------------------------------------------------------
(* The web socket: nothing forwarded is missed. *)

(* The conditions of the web socket transport: one worker, whose queries     *)
(* take time, so that the two publications of a job are in one millisecond   *)
(* or in order; a page that is connected and has been sent all there is; an  *)
(* answer does not outlast the retries of its job's event; the producers'    *)
(* commands do not fail and the server does not start again; at most one     *)
(* fault if it may end the connection; and a stream for the page that holds  *)
(* all of its jobs.                                                          *)
WsConditions ==
  /\ Transport = "ws" /\ MaxRetries # 0 /\ PromptAnswers
  /\ Workers = 1 /\ QueryMs # 0
  /\ StartSocket # NoSocket /\ FirehoseStart = <<0, 0>> /\ StoredId = <<0, 0>>
  /\ "publish" \notin Faults /\ "restart" \notin Faults
  /\ Faults \cap {"drop", "reload"} = {} \/ (MaxFaults \in Nat /\ MaxFaults <= 1)
  /\ IsFiniteSet(SessionJobs) /\ Cardinality(SessionJobs) <= StreamLimit
  /\ NoId \notin Ids

(* What the firehose holds of the page's jobs, and what the channel of the   *)
(* page holds of a job.                                                      *)
Outcomes == {z \in Entries(Full) : z.event.job \in SessionJobs}
ScopedOf(j) == {y \in Entries(Session) : y.event.job = j}

(* One worker: one job at a time, and its query ends in a new millisecond. *)
OneAtATime ==
  /\ \A i, j \in Manager!Busy : i = j
  /\ \A k \in {Session, Full} :
       /\ InOrder(streams[k]) /\ streams[k].last[1] <= now
       /\ \A j \in Jobs : task[j] = "scoped" => streams[k].last[1] < now

(* A job is published on its channel first and on the firehose then, so its  *)
(* entry on the channel has the smaller ID, or the same one, and is there    *)
(* when the other one is. The channel's stream is never trimmed.             *)
Paired ==
  /\ \A z \in Outcomes :
       /\ task[z.event.job] \in {"finished", "failed"}
       /\ ScopedOf(z.event.job) # {}
       /\ \A y \in ScopedOf(z.event.job) : IdLeq(y.id, z.id)
  /\ \A j \in SessionJobs : task[j] = "full" =>
       /\ ScopedOf(j) # {}
       /\ \A y \in ScopedOf(j) : IdLess(streams[Full].last, y.id) /\ IdLeq(y.id, <<now, 0>>)
  /\ Len(streams[Session].entries) <= Cardinality(Heralded)

(* An ID of the firehose that the page may resume from: what comes after it  *)
(* on the firehose comes after it on the channel too, as one worker does not *)
(* publish one job between the two publications of another.                  *)
Known(id) ==
  /\ id \in Ids /\ IdLeq(id, streams[Full].last)
  /\ \A z \in Outcomes : IdLess(id, z.id) => \A y \in ScopedOf(z.event.job) : IdLess(id, y.id)

(* The producers' part. *)
ProducersInv ==
  /\ OneAtATime /\ Paired /\ OneOutcome
  /\ \A x \in Entries(Full) : Known(x.id)

(* A batch that was read for the loop: all that follows the cursor, up to    *)
(* the batch's own end.                                                      *)
BatchIsNext(results) ==
  /\ Sorted(results)
  /\ \A x \in EntriesIn(results) : IdLess(lastFirehoseId, x.id) /\ Known(x.id)
  /\ \A z \in Entries(Full) :
       IdLess(lastFirehoseId, z.id) /\ IdLeq(z.id, results[Len(results)].id) => z \in EntriesIn(results)

(* The server's part: one read is under way, from the cursor, which is an ID *)
(* the page may resume from.                                                 *)
CursorInv ==
  /\ \/ Server!OneRead(commands) /\ Server!NoRead(replies)
     \/ Server!NoRead(commands) /\ Server!OneRead(replies)
  /\ lastFirehoseId \in Ids /\ IdLeq(lastFirehoseId, streams[Full].last)
  /\ \A c \in EntriesIn(commands) : c.op = "xread" => c.after = lastFirehoseId
  /\ \A r \in EntriesIn(replies) :
       r.op = "xread" /\ r.results # <<>> => BatchIsNext(r.results)

(* An open socket is listed under the page's channel, and a connection that  *)
(* lasts is open at both ends.                                               *)
SocketsInv ==
  \A s \in SocketIds :
    /\ readyState[s] = "NONE" => link[s]
    /\ readyState[s] # "NONE" /\ link[s] => readyState[s] = "OPEN"
    /\ readyState[s] = "OPEN" => s \in DOMAIN sockets /\ Session \in DOMAIN channels
                                 /\ s \in channels[Session]

(* An ID the page may have got from the loop. *)
Carried(id) == Known(id) /\ IdLeq(id, lastFirehoseId)

(* The outcomes that were forwarded and that the page has not taken up. *)
Waiting == {z \in Outcomes : IdLeq(z.id, lastFirehoseId) /\ ~Handled(Client!Page, z.event.job)}

(* The range queries under way, and whether the faults are used up. *)
Ranges(q) == {c \in EntriesIn(q) : c.op = "xrange"}
NoRanges  == Ranges(commands) = {} /\ Ranges(replies) = {}

Spent == ~(faults < MaxFaults)

TimerIds == {x.id : x \in DOMAIN timers}

(* The page follows: on its first connection it is sent what the loop        *)
(* forwards and nothing else, so that what it waits for is in its inbox, in  *)
(* the order of the IDs and after all that it has processed.                 *)
Following ==
  /\ socket = StartSocket /\ wsState = "open" /\ link[socket] /\ readyState[socket] = "OPEN"
  /\ NoRanges
  /\ \A id \in {lastId} \cup TimerIds :
       Carried(id) /\ \A x \in EntriesIn(inbox[socket]) : IdLess(id, x.id)
  /\ Sorted(inbox[socket])
  /\ \A x \in EntriesIn(inbox[socket]) : Carried(x.id)
  /\ Waiting \subseteq EntriesIn(inbox[socket])

(* The page may resume from `id': all that it waits for comes later. *)
Resumable(id) == Carried(id) /\ \A z \in Waiting : IdLess(id, z.id)

(* The page is away: its connection was lost and no other made yet. What it  *)
(* waits for comes after every ID it may resume from.                        *)
Away ==
  /\ Spent
  /\ NoRanges
  /\ \/ socket = StartSocket /\ wsState = "open" /\ ~link[socket] /\ inbox[socket] = <<>>
     \/ socket = NoSocket /\ wsState \in {"closed", "connecting"}
  /\ \A id \in {lastId} \cup TimerIds : Resumable(id)
  /\ wsState = "connecting" => Resumable(wsFrom)

(* The range c holds the entry of job j. *)
Covers(c, j) ==
  /\ \E id \in Ids : c.start = Server!incrementId(id) /\ \A y \in ScopedOf(j) : IdLess(id, y.id)
  /\ c.end \in Ids /\ \A y \in ScopedOf(j) : IdLeq(y.id, c.end)

(* The entry of job j will reach the page: it is in the inbox, in the answer *)
(* to a range query, or in a range that was asked for.                       *)
OnItsWay(j) ==
  \/ \E x \in EntriesIn(inbox[socket]) : x.event.job = j
  \/ \E c \in Ranges(commands) : Covers(c, j)
  \/ \E r \in Ranges(replies) : \E x \in EntriesIn(r.results) : x.event.job = j

(* The page has connected again, for the last time, and waits for nothing    *)
(* that is not on its way.                                                   *)
Resumed ==
  /\ Spent
  /\ socket \in SocketIds /\ link[socket] /\ readyState[socket] = "OPEN"
  /\ wsState \in {"connecting", "open"}
  /\ \A z \in Waiting : OnItsWay(z.event.job)

(* The page's part: it follows, is away or has resumed; or it has given the  *)
(* web socket up, which leaves it with one poll.                             *)
PageInv ==
  \/ wsState = "gaveUp" /\ Spent
  \/ /\ poll = "off" /\ Sound(Client!Page)
     /\ Following \/ Away \/ Resumed

(* What makes NoOutcomeMissed so. *)
WsInv == faults \in Nat /\ ProducersInv /\ CursorInv /\ SocketsInv /\ PageInv

-----------------------------------------------------------------------------
(* What the producers do. *)
Publishes(k, j) ==
  \E t \in {now, now + 1} :
    /\ now' = t
    /\ streams'[k] \in Trims(XAdd(streams[k], t, Manager!Payload(j)), StreamLimit)

(* The steps of a job, and what each does to the two streams. *)
JobSteps(j) ==
  /\ \A i \in Jobs \ {j} : task'[i] = task[i] /\ status'[i] = status[i]
  /\ \/ /\ task[j] = "queued" /\ task'[j] = "running" /\ Manager!Cardinality(Manager!Busy) < Workers
        /\ UNCHANGED <<streams, now>>
     \/ /\ task[j] = "running" /\ task'[j] = "scoped"
        /\ now' = now + QueryMs /\ UNCHANGED streams
     \/ /\ j \in Manager!Busy /\ task'[j] \in {"timedOut", "lost"}
        /\ UNCHANGED <<streams, now>>
     \/ /\ j \notin SessionJobs /\ task[j] = "scoped" /\ task'[j] = "full"
        /\ now' \in {now, now + 1}
        /\ streams'[Session] = streams[Session] /\ streams'[Full] = streams[Full]
     \/ /\ j \in SessionJobs /\ task[j] = "scoped" /\ task'[j] = "full"
        /\ Publishes(Session, j) /\ streams'[Full] = streams[Full]
     \/ /\ task[j] = "full" /\ task'[j] \in {"finished", "failed"}
        /\ Publishes(Full, j) /\ streams'[Session] = streams[Session]

(* Runs is made of those steps. *)
LEMMA RunsSteps ==
  ASSUME NEW A, ProducersHold(A), NEW j \in Jobs, Runs(j)
  PROVE  JobSteps(j)
<1>1. /\ Session \in Channels \cup {Full} /\ Full \in Channels \cup {Full} /\ Full # Session
      /\ Full # Elsewhere /\ Session # Elsewhere
      /\ channelOf[j] \in Channels
      /\ channelOf[j] = IF j \in SessionJobs THEN Session ELSE Elsewhere
  BY GlobalAsyncQueriesAssumption DEF Channels, channelOf, Jobs
<1>2. /\ streams \in [Channels \cup {Full} -> StreamsOf(Events)] /\ now \in Nat
      /\ DOMAIN streams = Channels \cup {Full}
      /\ task \in [Jobs -> Manager!TaskStates] /\ status \in [Jobs -> {"none"} \cup Status]
  BY DEF ProducersHold
<1>3. \A i \in Jobs \ {j} : task'[i] = task[i] /\ status'[i] = status[i]
  BY <1>2 DEF Runs, Manager!Work, Manager!StartTask, Manager!QueryEnds, Manager!AddScoped,
              Manager!AddFull, Manager!SoftTimeLimit, Manager!WorkerLost
<1>4. CASE Manager!StartTask(j)
  BY <1>2, <1>3, <1>4 DEF Manager!StartTask, JobSteps
<1>5. CASE \E outcome \in Status : Manager!QueryEnds(j, outcome)
  BY <1>2, <1>3, <1>5 DEF Manager!QueryEnds, JobSteps
<1>6. CASE Manager!SoftTimeLimit(j) \/ Manager!WorkerLost(j)
  BY <1>2, <1>3, <1>6 DEF Manager!SoftTimeLimit, Manager!WorkerLost, JobSteps
<1>7. CASE Manager!AddScoped(j)
  <2>1. task[j] = "scoped" /\ task'[j] = "full" /\ Manager!Add(channelOf[j], j)
    BY <1>2, <1>7 DEF Manager!AddScoped
  <2>2. PICK t \in {now, now + 1} :
          now' = t /\ \E trimmed \in Trims(XAdd(streams[channelOf[j]], t, Manager!Payload(j)), StreamLimit) :
                       streams' = [streams EXCEPT ![channelOf[j]] = trimmed]
    BY <2>1, ManagerStreams DEF Manager!Add
  <2>3. PICK trimmed \in Trims(XAdd(streams[channelOf[j]], t, Manager!Payload(j)), StreamLimit) :
          streams' = [streams EXCEPT ![channelOf[j]] = trimmed]
    BY <2>2
  <2>4. CASE j \in SessionJobs
    <3>1. streams'[Session] = trimmed /\ streams'[Full] = streams[Full]
      BY <1>1, <1>2, <2>3, <2>4
    <3> QED BY <1>1, <1>3, <2>1, <2>2, <2>3, <2>4, <3>1 DEF JobSteps, Publishes
  <2>5. CASE j \notin SessionJobs
    <3>1. streams'[Session] = streams[Session] /\ streams'[Full] = streams[Full]
      BY <1>1, <1>2, <2>3, <2>5
    <3> QED BY <1>3, <2>1, <2>2, <2>5, <3>1 DEF JobSteps
  <2> QED BY <2>4, <2>5
<1>8. CASE Manager!AddFull(j)
  <2>1. task[j] = "full" /\ task'[j] \in {"finished", "failed"} /\ Manager!Add(Full, j)
    BY <1>2, <1>8 DEF Manager!AddFull
  <2>2. PICK t \in {now, now + 1} :
          now' = t /\ \E trimmed \in Trims(XAdd(streams[Full], t, Manager!Payload(j)), StreamLimit) :
                       streams' = [streams EXCEPT ![Full] = trimmed]
    BY <2>1, ManagerStreams DEF Manager!Add
  <2>3. PICK trimmed \in Trims(XAdd(streams[Full], t, Manager!Payload(j)), StreamLimit) :
          streams' = [streams EXCEPT ![Full] = trimmed]
    BY <2>2
  <2>4. streams'[Full] = trimmed /\ streams'[Session] = streams[Session]
    BY <1>1, <1>2, <2>3
  <2> QED BY <1>3, <2>1, <2>2, <2>3, <2>4 DEF JobSteps, Publishes
<1> QED BY <1>4, <1>5, <1>6, <1>7, <1>8 DEF Runs, Manager!Work, Status

(* One worker runs one job. *)
LEMMA NoneBusy ==
  ASSUME Workers = 1, Manager!Cardinality(Manager!Busy) < Workers,
         \A i, j \in Manager!Busy : i = j
  PROVE  Manager!Busy = {}
<1>1. Cardinality(Manager!Busy) < 1
  BY DEF Manager!Cardinality, Cardinality
<1>2. SUFFICES ASSUME NEW i \in Manager!Busy PROVE FALSE
  OBVIOUS
<1>3. Manager!Busy = {i}
  BY <1>2
<1>4. Cardinality({i}) = 1
  BY FS_Singleton
<1> QED BY <1>1, <1>3, <1>4

(* A job that runs, before or after a step, is the one that steps. *)
LEMMA BusyJobs ==
  ASSUME NEW A, ProducersHold(A), Workers = 1, \A i, j \in Manager!Busy : i = j,
         NEW j \in Jobs, JobSteps(j)
  PROVE  /\ j \notin Manager!Busy => Manager!Busy = {} /\ task[j] = "queued" /\ task'[j] = "running"
         /\ \A i \in Jobs : task'[i] \in {"scoped", "full"} => i = j
         /\ \A i \in Manager!Busy' : i = j
<1>1. Manager!Busy = {i \in Jobs : task[i] \in {"running", "scoped", "full"}}
      /\ Manager!Busy' = {i \in Jobs : task'[i] \in {"running", "scoped", "full"}}
  BY DEF Manager!Busy
<1>2. CASE j \in Manager!Busy
  BY <1>1, <1>2 DEF JobSteps
<1>3. CASE j \notin Manager!Busy
  <2>1. task[j] = "queued" /\ task'[j] = "running" /\ Manager!Busy = {}
    BY <1>1, <1>3, NoneBusy DEF JobSteps
  <2> QED BY <1>1, <1>3, <2>1 DEF JobSteps
<1> QED BY <1>2, <1>3

(* What is published gets the clock's ID. *)
LEMMA PublishedEntry ==
  ASSUME NEW A, ProducersHold(A), NEW k \in {Session, Full}, InOrder(streams[k]),
         NEW j \in Jobs, k = Full \/ j \in SessionJobs, status[j] \in Status, Publishes(k, j)
  PROVE  \E x :
           /\ Extended(streams[k], streams'[k], x) /\ x.event = Manager!Payload(j)
           /\ now' \in {now, now + 1}
           /\ x.id = IF now' > streams[k].last[1] THEN <<now', 0>>
                     ELSE <<streams[k].last[1], streams[k].last[2] + 1>>
           /\ Len(streams[k].entries) + 1 <= StreamLimit =>
                /\ EntriesIn(streams'[k].entries) = EntriesIn(streams[k].entries) \cup {x}
                /\ Len(streams'[k].entries) = Len(streams[k].entries) + 1
<1> DEFINE p == Manager!Payload(j)
           old == streams[k]
           new == streams'[k]
<1>1. Session \in Channels /\ Full # Session /\ channelOf[j] \in Channels
  BY GlobalAsyncQueriesAssumption DEF Channels, channelOf, Jobs
<1>2. old \in StreamsOf(Events) /\ now \in Nat
  BY <1>1 DEF ProducersHold
<1>3. p \in Events
  BY <1>1 DEF Manager!Payload, Events, Status
<1>4. PICK t \in {now, now + 1} : now' = t /\ new \in Trims(XAdd(old, t, p), StreamLimit)
  BY DEF Publishes
<1>5. t \in Nat /\ StreamLimit \in Nat \ {0}
  BY <1>2, GlobalAsyncQueriesAssumption
<1> HIDE DEF p
<1> DEFINE x == NewEntry(old, t, p)
<1>6. Extended(old, new, x)
  BY <1>2, <1>3, <1>4, <1>5, AddExtends
<1>7. x.event = p /\ x.id = NewId(old, t)
  BY DEF NewEntry
<1>8. ASSUME Len(old.entries) + 1 <= StreamLimit
      PROVE  /\ EntriesIn(new.entries) = EntriesIn(old.entries) \cup {x}
             /\ Len(new.entries) = Len(old.entries) + 1
  <2> DEFINE more == XAdd(old, t, p)
  <2>1. more \in StreamsOf(Events)
    BY <1>2, <1>3, <1>5, AddKeepsType
  <2>2. Len(old.entries) \in Nat /\ Len(more.entries) = Len(old.entries) + 1
        /\ EntriesIn(more.entries) = EntriesIn(old.entries) \cup {x}
    <3>1. Len(old.entries) \in Nat
      BY <1>2, StreamParts
    <3>2. old \in StreamsOf(Events) /\ p \in Events /\ t \in Nat
      BY <1>2, <1>3, <1>5
    <3> HIDE DEF old
    <3>3. Len(more.entries) = Len(old.entries) + 1
      BY <3>2, AddedEntries
    <3>4. EntriesIn(more.entries) = EntriesIn(old.entries) \cup {x}
      BY <3>2, AddedEntries
    <3> QED BY <3>1, <3>3, <3>4
  <2> HIDE DEF more
  <2>3. PICK m \in 0 .. Len(more.entries) :
          /\ Len(new.entries) = Len(more.entries) - m
          /\ \A i \in 1 .. Len(more.entries) - m : new.entries[i] = more.entries[m + i]
          /\ m # 0 => Len(more.entries) - m >= StreamLimit
    BY <1>4, <1>5, <2>1, TrimDropsOldest DEF more
  <2>4. m = 0
    BY <1>5, <1>8, <2>2, <2>3
  <2>5. Len(new.entries) = Len(more.entries)
        /\ \A i \in 1 .. Len(more.entries) : new.entries[i] = more.entries[i]
    BY <2>2, <2>3, <2>4
  <2>6. EntriesIn(new.entries) = EntriesIn(more.entries)
    BY <2>5 DEF EntriesIn
  <2> QED BY <2>2, <2>5, <2>6
<1> HIDE DEF x
<1>9. x.id = IF now' > old.last[1] THEN <<now', 0>> ELSE <<old.last[1], old.last[2] + 1>>
  BY <1>4, <1>7 DEF NewId
<1> QED BY <1>4, <1>6, <1>7, <1>8, <1>9 DEF p

(* The millisecond of the clock is new to the streams when a job publishes. *)
LEMMA OneAtATimeKept ==
  ASSUME NEW A, ProducersHold(A), Workers = 1, QueryMs # 0, OneAtATime,
         NEW j \in Jobs, Runs(j)
  PROVE  OneAtATime'
<1>1. JobSteps(j) /\ now \in Nat /\ QueryMs \in Nat
  BY RunsSteps, GlobalAsyncQueriesAssumption DEF ProducersHold
<1>2. /\ \A i \in Jobs : task'[i] \in {"scoped", "full"} => i = j
      /\ \A i, l \in Manager!Busy' : i = l
  BY <1>1, BusyJobs DEF OneAtATime
<1>4. now' \in Nat /\ now <= now' /\ (task'[j] = "scoped" => now < now')
  BY <1>1 DEF JobSteps, Publishes
<1>3. ASSUME NEW k \in {Session, Full}
      PROVE  /\ InOrder(streams'[k]) /\ streams'[k].last[1] <= now'
             /\ task'[j] = "scoped" => streams'[k].last[1] < now'
  <2>1. Session \in Channels
    BY GlobalAsyncQueriesAssumption DEF Channels, channelOf, Jobs
  <2>2. streams[k] \in StreamsOf(Events) /\ InOrder(streams[k]) /\ streams[k].last[1] <= now
    BY <2>1 DEF ProducersHold, OneAtATime
  <2>3. streams[k].last[1] \in Nat
    BY <2>2 DEF StreamsOf, Ids
  <2>4. CASE streams'[k] = streams[k]
    BY <1>1, <1>4, <2>2, <2>3, <2>4
  <2>5. CASE streams'[k] # streams[k]
    <3>1. Publishes(k, j) /\ (k = Full \/ j \in SessionJobs) /\ task'[j] # "scoped"
          /\ task[j] \in {"scoped", "full"}
      BY <1>1, <2>5 DEF JobSteps
    <3>2. status[j] \in Status
      BY <3>1 DEF ProducersHold
    <3>3. PICK x : /\ Extended(streams[k], streams'[k], x) /\ now' \in {now, now + 1}
                   /\ x.id = IF now' > streams[k].last[1] THEN <<now', 0>>
                             ELSE <<streams[k].last[1], streams[k].last[2] + 1>>
      BY <2>2, <3>1, <3>2, PublishedEntry
    <3>4. InOrder(streams'[k]) /\ streams'[k].last = x.id
      BY <3>3 DEF Extended, Grown
    <3>5. x.id[1] <= now'
      BY <1>1, <2>2, <2>3, <3>3
    <3> QED BY <3>1, <3>4, <3>5
  <2> QED BY <2>4, <2>5
<1> QED BY <1>2, <1>3 DEF OneAtATime

(* What a job's step does to the two streams. *)
AddsScoped(j) ==
  /\ j \in SessionJobs /\ task[j] = "scoped" /\ task'[j] = "full"
  /\ ScopedOf(j) = {} /\ now <= now' /\ now' \in Nat
  /\ \E y : /\ Entries(Session)' = Entries(Session) \cup {y}
            /\ y.event.job = j /\ y.id = <<now', 0>>
  /\ streams'[Full] = streams[Full]
  /\ Len(streams'[Session].entries) <= Cardinality(Heralded)'

AddsFull(j) ==
  /\ task[j] = "full" /\ task'[j] \in {"finished", "failed"} /\ now <= now' /\ now' \in Nat
  /\ \E z : /\ Extended(streams[Full], streams'[Full], z)
            /\ z.event.job = j
            /\ z.id = IF now' > streams[Full].last[1] THEN <<now', 0>>
                      ELSE <<streams[Full].last[1], streams[Full].last[2] + 1>>
  /\ streams'[Session] = streams[Session] /\ Heralded' = Heralded

AddsNothing(j) ==
  /\ task[j] \notin {"finished", "failed"} /\ task'[j] \notin {"finished", "failed"}
  /\ task'[j] = "full" => j \notin SessionJobs
  /\ now <= now' /\ now' \in Nat
  /\ streams'[Session] = streams[Session] /\ streams'[Full] = streams[Full]
  /\ Heralded' = Heralded

(* A step adds one entry to one of the streams or none, under the ID that    *)
(* the clock gives.                                                          *)
LEMMA StreamSteps ==
  ASSUME NEW A, A = announced, ProducersHold(A), Announce, OneAtATime, OneOutcome,
         IsFiniteSet(SessionJobs), Cardinality(SessionJobs) <= StreamLimit,
         Len(streams[Session].entries) <= Cardinality(Heralded),
         NEW j \in Jobs, Runs(j)
  PROVE  AddsScoped(j) \/ AddsFull(j) \/ AddsNothing(j)
<1>1. JobSteps(j) /\ now \in Nat /\ QueryMs \in Nat /\ task \in [Jobs -> Manager!TaskStates]
  BY RunsSteps, GlobalAsyncQueriesAssumption DEF ProducersHold
<1>2. /\ InOrder(streams[Session]) /\ InOrder(streams[Full])
      /\ streams[Session] \in StreamsOf(Events)
  BY SessionIsHeard DEF OneAtATime
<1>3. ASSUME streams'[Session] = streams[Session]
      PROVE  Heralded' = Heralded
  <2>1. \A i \in SessionJobs : announced'[i] = announced[i]
    BY <1>3, StreamAnnounces
  <2> QED BY <2>1 DEF Heralded
<1>4. CASE j \in SessionJobs /\ task[j] = "scoped" /\ task'[j] = "full"
           /\ Publishes(Session, j) /\ streams'[Full] = streams[Full]
  <2>1. status[j] \in Status
    BY <1>4 DEF ProducersHold, Jobs
  <2>2. PICK y : /\ Extended(streams[Session], streams'[Session], y) /\ y.event = Manager!Payload(j)
                 /\ now' \in {now, now + 1}
                 /\ y.id = IF now' > streams[Session].last[1] THEN <<now', 0>>
                           ELSE <<streams[Session].last[1], streams[Session].last[2] + 1>>
                 /\ Len(streams[Session].entries) + 1 <= StreamLimit =>
                      /\ EntriesIn(streams'[Session].entries) = EntriesIn(streams[Session].entries) \cup {y}
                      /\ Len(streams'[Session].entries) = Len(streams[Session].entries) + 1
    BY <1>2, <1>4, <2>1, PublishedEntry
  <2>3. announced'[j] # {} /\ \A i \in SessionJobs \ {j} : announced'[i] = announced[i]
    BY <1>4, <2>2, StreamAnnounces
  <2>4. announced[j] = {}
    BY <1>4 DEF OneOutcome
  <2>5. Heralded' = Heralded \cup {j} /\ j \notin Heralded
    BY <1>4, <2>3, <2>4 DEF Heralded
  <2>6. /\ Cardinality(Heralded') = Cardinality(Heralded) + 1
        /\ Cardinality(Heralded') <= Cardinality(SessionJobs)
        /\ Cardinality(Heralded) \in Nat /\ Cardinality(SessionJobs) \in Nat
    <3>1. Heralded \subseteq SessionJobs /\ Heralded' \subseteq SessionJobs
      BY DEF Heralded
    <3> QED BY <2>5, <3>1, FS_Subset, FS_AddElement, FS_CardinalityType
  <2>7. Len(streams[Session].entries) \in Nat /\ StreamLimit \in Nat
    BY <1>2, StreamParts, GlobalAsyncQueriesAssumption
  <2>8. /\ EntriesIn(streams'[Session].entries) = EntriesIn(streams[Session].entries) \cup {y}
        /\ Len(streams'[Session].entries) <= Cardinality(Heralded')
    BY <2>2, <2>6, <2>7
  <2>9. y.id = <<now', 0>> /\ now <= now' /\ now' \in Nat
    <3>1. streams[Session].last[1] < now /\ streams[Session].last[1] \in Nat
      BY <1>2, <1>4 DEF OneAtATime, StreamsOf, Ids, Jobs
    <3> QED BY <1>1, <2>2, <3>1
  <2>10. ScopedOf(j) = {}
    <3>1. Published(j) = {}
      BY <1>4, <2>4, PublishedWasAnnounced
    <3> QED BY <3>1 DEF Published, ScopedOf
  <2>11. y.event.job = j
    BY <2>2 DEF Manager!Payload
  <2>12. Cardinality(Heralded') = Cardinality(Heralded)'
    BY DEF Cardinality
  <2> QED BY <1>4, <2>8, <2>9, <2>10, <2>11, <2>12 DEF AddsScoped, Entries, Manager!Entries, EntriesIn
<1>5. CASE task[j] = "full" /\ task'[j] \in {"finished", "failed"}
           /\ Publishes(Full, j) /\ streams'[Session] = streams[Session]
  <2>1. status[j] \in Status
    BY <1>5 DEF ProducersHold
  <2>2. PICK z : /\ Extended(streams[Full], streams'[Full], z) /\ z.event = Manager!Payload(j)
                 /\ now' \in {now, now + 1}
                 /\ z.id = IF now' > streams[Full].last[1] THEN <<now', 0>>
                           ELSE <<streams[Full].last[1], streams[Full].last[2] + 1>>
    BY <1>2, <1>5, <2>1, PublishedEntry
  <2>3. z.event.job = j /\ now <= now' /\ now' \in Nat
    BY <1>1, <2>2 DEF Manager!Payload
  <2> QED BY <1>3, <1>5, <2>2, <2>3 DEF AddsFull
<1>6. CASE streams'[Session] = streams[Session] /\ streams'[Full] = streams[Full]
           /\ task[j] \notin {"finished", "failed"} /\ task'[j] \notin {"finished", "failed"}
           /\ (task'[j] = "full" => j \notin SessionJobs /\ task[j] # "full")
           /\ now <= now' /\ now' \in Nat
  BY <1>3, <1>6 DEF AddsNothing
<1> QED BY <1>1, <1>4, <1>5, <1>6 DEF JobSteps, Manager!Busy

(* What the others may count on in a step of the producers. *)
ProducersMove ==
  /\ streams'[Full].last \in Ids /\ IdLeq(streams[Full].last, streams'[Full].last)
  /\ \A z \in Outcomes' : /\ z \in Outcomes \/ IdLess(streams[Full].last, z.id)
                          /\ ScopedOf(z.event.job)' = ScopedOf(z.event.job)
  /\ \A x \in Entries(Full)' :
       \/ x \in Entries(Full)
       \/ IdLess(streams[Full].last, x.id) /\ x.id = streams'[Full].last
  /\ \A id : Known(id) => Known(id)'

(* The two publications of a job stay paired. *)
LEMMA PairedKept ==
  ASSUME NEW A, A = announced, ProducersHold(A), Announce, ProducersInv, Workers = 1,
         IsFiniteSet(SessionJobs), Cardinality(SessionJobs) <= StreamLimit,
         NEW j \in Jobs, Runs(j)
  PROVE  Paired' /\ ProducersMove
<1>1. /\ JobSteps(j) /\ task \in [Jobs -> Manager!TaskStates] /\ SessionJobs \subseteq Jobs
      /\ \A i \in Jobs \ {j} : task'[i] = task[i]
  BY RunsSteps DEF ProducersHold, JobSteps, Jobs
<1>2. \A i \in Jobs : task'[i] \in {"scoped", "full"} => i = j
  BY <1>1, BusyJobs DEF ProducersInv, OneAtATime
<1>3. AddsScoped(j) \/ AddsFull(j) \/ AddsNothing(j)
  BY StreamSteps DEF ProducersInv, Paired
<1>4. /\ streams[Full] \in StreamsOf(Events) /\ streams[Full].last \in Ids
      /\ \A x \in Entries(Full) : x.id \in Ids /\ IdLeq(x.id, streams[Full].last)
      /\ \A y \in Entries(Session) : y.id \in Ids
      /\ now \in Nat
  <2>1. streams[Full] \in StreamsOf(Events) /\ streams[Session] \in StreamsOf(Events) /\ now \in Nat
    BY SessionIsHeard DEF ProducersHold
  <2>2. InOrder(streams[Full])
    BY DEF ProducersInv, OneAtATime
  <2> QED BY <2>1, <2>2, StreamParts DEF StreamsOf, InOrder, Entries, Manager!Entries
<1>5. CASE AddsScoped(j)
  <2>1. /\ j \in SessionJobs /\ task[j] = "scoped" /\ now <= now' /\ now' \in Nat
        /\ ScopedOf(j) = {} /\ streams'[Full] = streams[Full]
        /\ Len(streams'[Session].entries) <= Cardinality(Heralded)'
    BY <1>5 DEF AddsScoped
  <2>2. PICK y : /\ Entries(Session)' = Entries(Session) \cup {y}
                 /\ y.event.job = j /\ y.id = <<now', 0>>
    BY <1>5 DEF AddsScoped
  <2>3. Entries(Full)' = Entries(Full) /\ Outcomes' = Outcomes
    BY <2>1 DEF Outcomes, Entries, Manager!Entries
  <2>4. \A i : ScopedOf(i)' = IF i = j THEN {y} ELSE ScopedOf(i)
    BY <2>1, <2>2 DEF ScopedOf
  <2>5. \A z \in Outcomes : z.event.job # j /\ z.event.job \in SessionJobs
                            /\ task[z.event.job] \in {"finished", "failed"}
    BY <2>1 DEF ProducersInv, Paired, Outcomes
  <2>6. \A z \in Outcomes' : z \in Outcomes /\ ScopedOf(z.event.job)' = ScopedOf(z.event.job)
                             /\ task'[z.event.job] = task[z.event.job]
    BY <1>1, <2>3, <2>4, <2>5
  <2>7. IdLess(streams[Full].last, y.id) /\ IdLeq(y.id, <<now', 0>>)
    <3>1. streams[Full].last[1] < now /\ streams[Full].last[1] \in Nat
      BY <1>1, <1>4, <2>1 DEF ProducersInv, OneAtATime, Ids
    <3> QED BY <1>4, <2>1, <2>2, <3>1 DEF IdLess, IdLeq
  <2>8. Paired'
    <3>1. \A z \in Outcomes' : /\ task'[z.event.job] \in {"finished", "failed"}
                               /\ ScopedOf(z.event.job)' # {}
                               /\ \A x \in ScopedOf(z.event.job)' : IdLeq(x.id, z.id)
      BY <2>5, <2>6 DEF ProducersInv, Paired
    <3>2. \A i \in SessionJobs : task'[i] = "full" =>
            /\ ScopedOf(i)' # {}
            /\ \A x \in ScopedOf(i)' : IdLess(streams'[Full].last, x.id) /\ IdLeq(x.id, <<now', 0>>)
      BY <1>1, <1>2, <2>1, <2>4, <2>7
    <3> QED BY <2>1, <3>1, <3>2 DEF Paired
  <2>9. \A id : Known(id) => Known(id)'
    BY <2>1, <2>3, <2>6 DEF Known
  <2> QED BY <1>4, <2>1, <2>3, <2>6, <2>8, <2>9 DEF ProducersMove, IdLeq
<1>6. CASE AddsFull(j)
  <2>1. /\ task[j] = "full" /\ task'[j] \in {"finished", "failed"} /\ now <= now' /\ now' \in Nat
        /\ streams'[Session] = streams[Session] /\ Heralded' = Heralded
    BY <1>6 DEF AddsFull
  <2>2. PICK z : /\ Extended(streams[Full], streams'[Full], z) /\ z.event.job = j
                 /\ z.id = IF now' > streams[Full].last[1] THEN <<now', 0>>
                           ELSE <<streams[Full].last[1], streams[Full].last[2] + 1>>
    BY <1>6 DEF AddsFull
  <2>3. Entries(Session)' = Entries(Session) /\ \A i : ScopedOf(i)' = ScopedOf(i)
    BY <2>1 DEF ScopedOf, Entries, Manager!Entries
  <2>4. /\ Entries(Full)' \subseteq Entries(Full) \cup {z} /\ streams'[Full].last = z.id
        /\ z.id \in Ids /\ IdLess(streams[Full].last, z.id)
    <3>1. z.id \in Ids /\ streams'[Full].last = z.id
          /\ EntriesIn(streams'[Full].entries) \subseteq EntriesIn(streams[Full].entries) \cup {z}
      BY <2>2 DEF Extended
    <3>2. streams[Full].last[1] \in Nat /\ streams[Full].last[2] \in Nat
      BY <1>4 DEF Ids
    <3>3. IdLess(streams[Full].last, z.id)
      BY <2>1, <2>2, <3>2 DEF IdLess
    <3> QED BY <3>1, <3>3 DEF Entries, Manager!Entries, EntriesIn
  <2>5. ASSUME j \in SessionJobs
        PROVE  /\ ScopedOf(j) # {}
               /\ \A y \in ScopedOf(j) : IdLess(streams[Full].last, y.id) /\ IdLeq(y.id, z.id)
    <3>1. ScopedOf(j) # {} /\ \A y \in ScopedOf(j) :
                                 IdLess(streams[Full].last, y.id) /\ IdLeq(y.id, <<now, 0>>)
      BY <2>1, <2>5 DEF ProducersInv, Paired
    <3>2. ASSUME NEW y \in ScopedOf(j) PROVE IdLeq(y.id, z.id)
      <4>1. y.id \in Ids
        BY <1>4 DEF ScopedOf
      <4>2. /\ y.id[1] \in Nat /\ y.id[2] \in Nat /\ y.id = <<y.id[1], y.id[2]>>
            /\ streams[Full].last[1] \in Nat /\ streams[Full].last[2] \in Nat
        BY <1>4, <4>1 DEF Ids
      <4>3. y.id[1] < now \/ (y.id[1] = now /\ y.id[2] = 0)
        BY <1>4, <3>1, <4>2 DEF IdLeq, IdLess
      <4>4. streams[Full].last[1] < y.id[1] \/
              (streams[Full].last[1] = y.id[1] /\ streams[Full].last[2] < y.id[2])
        BY <3>1 DEF IdLess
      <4>5. CASE now' > streams[Full].last[1]
        <5>1. z.id = <<now', 0>>
          BY <2>2, <4>5
        <5> QED BY <1>4, <2>1, <4>2, <4>3, <5>1 DEF IdLeq, IdLess
      <4>6. CASE ~(now' > streams[Full].last[1])
        BY <1>4, <2>1, <4>2, <4>3, <4>4, <4>6
      <4> QED BY <4>5, <4>6
    <3> QED BY <3>1, <3>2
  <2>6. \A x \in Outcomes' : x \in Outcomes \/ (x = z /\ j \in SessionJobs)
    BY <2>2, <2>4 DEF Outcomes
  <2>7. \A x \in Outcomes : task[x.event.job] \in {"finished", "failed"} /\ x.event.job \in SessionJobs
                            /\ task'[x.event.job] = task[x.event.job]
    BY <1>1, <2>1 DEF ProducersInv, Paired, Outcomes
  <2>8. Paired'
    <3>1. \A x \in Outcomes' : /\ task'[x.event.job] \in {"finished", "failed"}
                               /\ ScopedOf(x.event.job)' # {}
                               /\ \A y \in ScopedOf(x.event.job)' : IdLeq(y.id, x.id)
      <4> SUFFICES ASSUME NEW x \in Outcomes'
                   PROVE  /\ task'[x.event.job] \in {"finished", "failed"}
                          /\ ScopedOf(x.event.job) # {}
                          /\ \A y \in ScopedOf(x.event.job) : IdLeq(y.id, x.id)
        BY <2>3
      <4>1. CASE x \in Outcomes
        BY <2>7, <4>1 DEF ProducersInv, Paired
      <4>2. CASE x = z /\ j \in SessionJobs
        BY <2>1, <2>2, <2>5, <4>2
      <4> QED BY <2>6, <4>1, <4>2
    <3>2. \A i \in SessionJobs : task'[i] # "full"
      BY <1>1, <1>2, <2>1
    <3>3. Len(streams'[Session].entries) <= Cardinality(Heralded)'
      <4>1. Cardinality(Heralded)' = Cardinality(Heralded)
        BY <2>1 DEF Cardinality
      <4> QED BY <2>1, <4>1 DEF ProducersInv, Paired
    <3> QED BY <3>1, <3>2, <3>3 DEF Paired
  <2>9. ASSUME NEW id, Known(id) PROVE Known(id)'
    <3>1. id \in Ids /\ IdLeq(id, streams[Full].last)
      BY <2>9 DEF Known
    <3>2. IdLeq(id, z.id)
      BY <1>4, <2>4, <3>1, IdsAreOrdered DEF IdLeq
    <3>3. ASSUME NEW x \in Outcomes', IdLess(id, x.id), NEW y \in ScopedOf(x.event.job)
          PROVE  IdLess(id, y.id)
      <4>1. CASE x \in Outcomes
        BY <2>9, <3>3, <4>1 DEF Known
      <4>2. CASE x = z /\ j \in SessionJobs
        <5>1. IdLess(streams[Full].last, y.id) /\ y.id \in Ids
          BY <1>4, <2>2, <2>5, <3>3, <4>2 DEF ScopedOf
        <5> QED BY <1>4, <3>1, <5>1, IdsAreOrdered DEF IdLeq
      <4> QED BY <2>6, <4>1, <4>2
    <3> QED BY <2>3, <2>4, <3>1, <3>2, <3>3 DEF Known
  <2> QED BY <2>3, <2>4, <2>6, <2>8, <2>9 DEF ProducersMove, IdLeq
<1>7. CASE AddsNothing(j)
  <2>1. /\ task[j] \notin {"finished", "failed"} /\ (task'[j] = "full" => j \notin SessionJobs)
        /\ streams'[Session] = streams[Session] /\ streams'[Full] = streams[Full]
        /\ Heralded' = Heralded
    BY <1>7 DEF AddsNothing
  <2>2. /\ Entries(Session)' = Entries(Session) /\ \A i : ScopedOf(i)' = ScopedOf(i)
        /\ Entries(Full)' = Entries(Full) /\ Outcomes' = Outcomes
    BY <2>1 DEF ScopedOf, Entries, Manager!Entries, Outcomes
  <2>3. \A x \in Outcomes : task[x.event.job] \in {"finished", "failed"} /\ x.event.job \in SessionJobs
                            /\ task'[x.event.job] = task[x.event.job]
    BY <1>1, <2>1 DEF ProducersInv, Paired, Outcomes
  <2>4. Paired'
    <3>1. \A i \in SessionJobs : task'[i] # "full"
      BY <1>1, <1>2, <2>1
    <3>2. Cardinality(Heralded)' = Cardinality(Heralded)
      BY <2>1 DEF Cardinality
    <3>3. \A x \in Outcomes' : /\ task'[x.event.job] \in {"finished", "failed"}
                               /\ ScopedOf(x.event.job)' # {}
                               /\ \A y \in ScopedOf(x.event.job)' : IdLeq(y.id, x.id)
      BY <2>2, <2>3 DEF ProducersInv, Paired
    <3> QED BY <2>1, <3>1, <3>2, <3>3 DEF ProducersInv, Paired
  <2>5. \A id : Known(id) => Known(id)'
    BY <2>1, <2>2 DEF Known
  <2> QED BY <1>4, <2>1, <2>2, <2>4, <2>5 DEF ProducersMove, IdLeq
<1> QED BY <1>3, <1>5, <1>6, <1>7

(* The page may resume from a new entry of the firehose, too. *)
LEMMA NewIsKnown ==
  ASSUME streams[Full] \in StreamsOf(Events), streams'[Full] \in StreamsOf(Events),
         InOrder(streams[Full]), InOrder(streams'[Full]),
         \A x \in Entries(Full) : Known(x.id), ProducersMove
  PROVE  \A x \in Entries(Full)' : Known(x.id)'
<1>1. /\ streams[Full] \in StreamsOf(Events) /\ streams'[Full] \in StreamsOf(Events)
      /\ streams[Full].last \in Ids /\ streams'[Full].last \in Ids
  BY DEF StreamsOf
<1>2. \A x \in Entries(Full) : x.id \in Ids /\ IdLeq(x.id, streams[Full].last)
  BY <1>1, StreamParts DEF InOrder, Entries, Manager!Entries
<1>3. \A x \in Entries(Full)' : x.id \in Ids /\ IdLeq(x.id, streams'[Full].last)
  BY <1>1, StreamParts DEF InOrder, Entries, Manager!Entries
<1> SUFFICES ASSUME NEW x \in Entries(Full)' PROVE Known(x.id)'
  OBVIOUS
<1>4. CASE x \in Entries(Full)
  BY <1>4 DEF ProducersMove
<1>5. CASE x.id = streams'[Full].last
  <2>1. \A z \in Outcomes' : ~IdLess(x.id, z.id)
    <3>1. \A z \in Outcomes' : z \in Entries(Full)'
      BY DEF Outcomes
    <3> QED BY <1>1, <1>3, <1>5, <3>1, IdsAreOrdered DEF IdLeq
  <2> QED BY <1>3, <2>1 DEF Known
<1> QED BY <1>4, <1>5 DEF ProducersMove

(* A job's step keeps the producers' part. *)
LEMMA ProducersRun ==
  ASSUME NEW A, A = announced, ProducersHold(A), NEW B, B = announced', ProducersHold(B)', Announce,
         ProducersInv, WsConditions, NEW j \in Jobs, Runs(j), UNCHANGED promise
  PROVE  ProducersInv' /\ ProducersMove
<1>1. OneAtATime'
  BY OneAtATimeKept DEF ProducersInv, WsConditions
<1>2. Paired' /\ ProducersMove
  BY PairedKept DEF WsConditions
<1>3. OneOutcome'
  BY OutcomesRun DEF ProducersInv, OneAtATime
<1>4. /\ streams[Full] \in StreamsOf(Events) /\ streams'[Full] \in StreamsOf(Events)
      /\ InOrder(streams[Full]) /\ InOrder(streams'[Full])
  BY <1>1 DEF ProducersHold, ProducersInv, OneAtATime
<1>5. \A x \in Entries(Full)' : Known(x.id)'
  BY <1>2, <1>4, NewIsKnown DEF ProducersInv
<1> QED BY <1>1, <1>2, <1>3, <1>5 DEF ProducersInv

(* The other steps leave the streams alone. *)
LEMMA ProducersStay ==
  ASSUME NEW A, A = announced, ProducersHold(A), ProducersInv, UNCHANGED <<streams, now, announced>>,
         OneOutcome',
         UNCHANGED task \/ \E j \in Jobs : task[j] = "none" /\ task' = [task EXCEPT ![j] = "queued"]
  PROVE  ProducersInv' /\ ProducersMove /\ Outcomes' = Outcomes /\ Entries(Full)' = Entries(Full)
<1>1. task \in [Jobs -> Manager!TaskStates] /\ SessionJobs \subseteq Jobs
  BY DEF ProducersHold, Jobs
<1>2. \A i \in Jobs : \/ task'[i] = task[i]
                      \/ task[i] = "none" /\ task'[i] = "queued"
  BY <1>1
<1>3. /\ Entries(Session)' = Entries(Session) /\ Entries(Full)' = Entries(Full)
      /\ \A i : ScopedOf(i)' = ScopedOf(i)
      /\ Outcomes' = Outcomes /\ Heralded' = Heralded
  BY DEF Entries, Manager!Entries, ScopedOf, Outcomes, Heralded
<1>4. Manager!Busy' = Manager!Busy
  BY <1>2 DEF Manager!Busy
<1>5. OneAtATime'
  <2>1. \A i \in Jobs : task'[i] = "scoped" => task[i] = "scoped"
    BY <1>2
  <2> QED BY <1>4, <2>1 DEF ProducersInv, OneAtATime
<1>6. Paired'
  <2>1. \A z \in Outcomes : z.event.job \in Jobs
    BY <1>1 DEF Outcomes
  <2>2. \A z \in Outcomes : task'[z.event.job] \in {"finished", "failed"}
    BY <1>2, <2>1 DEF ProducersInv, Paired
  <2>3. \A i \in SessionJobs : task'[i] = "full" => task[i] = "full"
    BY <1>1, <1>2
  <2>4. Cardinality(Heralded)' = Cardinality(Heralded)
    BY <1>3 DEF Cardinality
  <2> QED BY <1>3, <2>2, <2>3, <2>4 DEF ProducersInv, Paired
<1>7. \A id : Known(id) => Known(id)'
  BY <1>3 DEF Known
<1>8. streams[Full].last \in Ids
  BY DEF ProducersHold, StreamsOf
<1> QED BY <1>3, <1>5, <1>6, <1>7, <1>8 DEF ProducersInv, ProducersMove, IdLeq

(* A page's step with no event of the producers keeps OneOutcome. *)
LEMMA OutcomesStay ==
  ASSUME OneOutcome, UNCHANGED <<task, status, announced>>,
         \A j \in SessionJobs : promise'[j] = "idle" => promise[j] = "idle"
  PROVE  OneOutcome'
BY DEF OneOutcome

-----------------------------------------------------------------------------
(* Queues: what is at their head, and the reads among them. *)
LEMMA QueueTail ==
  ASSUME NEW T, NEW q \in Seq(T), q # <<>>
  PROVE  /\ Tail(q) \in Seq(T) /\ Head(q) \in T /\ Len(Tail(q)) = Len(q) - 1
         /\ EntriesIn(q) = {Head(q)} \cup EntriesIn(Tail(q))
         /\ \A i \in 1 .. Len(q) - 1 : Tail(q)[i] = q[i + 1]
<1>1. Len(q) \in Nat \ {0}
  BY LenProperties, EmptySeq
<1>2. /\ Tail(q) \in Seq(T) /\ Head(q) \in T /\ Len(Tail(q)) = Len(q) - 1 /\ Head(q) = q[1]
      /\ \A i \in 1 .. Len(q) - 1 : Tail(q)[i] = q[i + 1]
  BY <1>1, HeadTailProperties
<1>3. \A i \in 1 .. Len(q) : i = 1 \/ i - 1 \in 1 .. Len(q) - 1
  BY <1>1
<1>4. \A i \in 1 .. Len(q) - 1 : i + 1 \in 1 .. Len(q)
  BY <1>1
<1>5. EntriesIn(q) \subseteq {Head(q)} \cup EntriesIn(Tail(q))
  <2> SUFFICES ASSUME NEW i \in 1 .. Len(q), i # 1 PROVE q[i] \in EntriesIn(Tail(q))
    BY <1>2 DEF EntriesIn
  <2>1. i - 1 \in 1 .. Len(q) - 1 /\ Tail(q)[i - 1] = q[i - 1 + 1] /\ i - 1 + 1 = i
    BY <1>1, <1>2, <1>3
  <2> QED BY <1>2, <2>1 DEF EntriesIn
<1>6. {Head(q)} \cup EntriesIn(Tail(q)) \subseteq EntriesIn(q)
  <2>1. 1 \in 1 .. Len(q)
    BY <1>1
  <2> QED BY <1>2, <1>4, <2>1 DEF EntriesIn
<1> QED BY <1>2, <1>5, <1>6

(* A command or a reply is added at the end. *)
LEMMA QueueAppend ==
  ASSUME NEW T, NEW q \in Seq(T), NEW x \in T
  PROVE  Append(q, x) \in Seq(T) /\ EntriesIn(Append(q, x)) = EntriesIn(q) \cup {x}
<1>1. /\ Len(q) \in Nat /\ Append(q, x) \in Seq(T) /\ Len(Append(q, x)) = Len(q) + 1
      /\ \A i \in 1 .. Len(q) : Append(q, x)[i] = q[i]
      /\ Append(q, x)[Len(q) + 1] = x
  BY LenProperties, AppendProperties
<1>2. \A i \in 1 .. Len(q) + 1 : i \in 1 .. Len(q) \/ i = Len(q) + 1
  BY <1>1
<1>3. \A i \in 1 .. Len(q) : i \in 1 .. Len(q) + 1
  BY <1>1
<1>4. Len(q) + 1 \in 1 .. Len(q) + 1
  BY <1>1
<1> QED BY <1>1, <1>2, <1>3, <1>4 DEF EntriesIn

(* The reads of a queue, as it loses its head or is added to. *)
LEMMA ReadsOfQueues ==
  ASSUME NEW T, NEW q \in Seq(T)
  PROVE  /\ q # <<>> /\ Head(q).op = "xread" =>
              ~Server!NoRead(q) /\ (Server!OneRead(q) => Server!NoRead(Tail(q)))
         /\ q # <<>> /\ Head(q).op # "xread" =>
              /\ Server!OneRead(q) => Server!OneRead(Tail(q))
              /\ Server!NoRead(q) => Server!NoRead(Tail(q))
         /\ \A x \in T :
              /\ x.op = "xread" /\ Server!NoRead(q) => Server!OneRead(Append(q, x))
              /\ x.op # "xread" =>
                   /\ Server!OneRead(q) => Server!OneRead(Append(q, x))
                   /\ Server!NoRead(q) => Server!NoRead(Append(q, x))
<1>1. Len(q) \in Nat /\ (q # <<>> => Len(q) \in Nat \ {0} /\ Head(q) = q[1])
  BY LenProperties, EmptySeq, HeadTailProperties
<1>2. ASSUME q # <<>>
      PROVE  Server!Reads(Tail(q)) = {i \in 1 .. Len(q) - 1 : i + 1 \in Server!Reads(q)}
  BY <1>1, <1>2, QueueTail DEF Server!Reads
<1>3. ASSUME NEW x \in T
      PROVE  Server!Reads(Append(q, x)) =
               IF x.op = "xread" THEN Server!Reads(q) \cup {Len(q) + 1} ELSE Server!Reads(q)
  BY AppendProperties, LenProperties DEF Server!Reads
<1>4. ASSUME q # <<>>, Head(q).op = "xread"
      PROVE  ~Server!NoRead(q) /\ (Server!OneRead(q) => Server!NoRead(Tail(q)))
  <2>1. 1 \in Server!Reads(q)
    BY <1>1, <1>4 DEF Server!Reads
  <2>2. Server!OneRead(q) => Server!Reads(q) = {1}
    BY <2>1 DEF Server!OneRead
  <2> QED BY <1>1, <1>2, <1>4, <2>1, <2>2 DEF Server!NoRead
<1>5. ASSUME q # <<>>, Head(q).op # "xread"
      PROVE  /\ Server!OneRead(q) => Server!OneRead(Tail(q))
             /\ Server!NoRead(q) => Server!NoRead(Tail(q))
  <2>1. 1 \notin Server!Reads(q) /\ Server!Reads(q) \subseteq 1 .. Len(q)
    BY <1>1, <1>5 DEF Server!Reads
  <2>2. ASSUME Server!OneRead(q) PROVE Server!OneRead(Tail(q))
    <3>1. PICK i \in Server!Reads(q) : Server!Reads(q) = {i}
      BY <2>2 DEF Server!OneRead
    <3>2. i - 1 \in 1 .. Len(q) - 1
      BY <1>1, <1>5, <2>1, <3>1
    <3>3. Server!Reads(Tail(q)) = {k \in 1 .. Len(q) - 1 : k + 1 \in {i}}
      BY <1>2, <1>5, <3>1
    <3>4. {k \in 1 .. Len(q) - 1 : k + 1 \in {i}} = {i - 1}
      BY <1>1, <2>1, <3>1, <3>2
    <3> QED BY <3>3, <3>4 DEF Server!OneRead
  <2>3. Server!NoRead(q) => Server!NoRead(Tail(q))
    BY <1>2, <1>5 DEF Server!NoRead
  <2> QED BY <2>2, <2>3
<1>6. ASSUME NEW x \in T, x.op = "xread", Server!NoRead(q) PROVE Server!OneRead(Append(q, x))
  BY <1>3, <1>6 DEF Server!NoRead, Server!OneRead
<1>7. ASSUME NEW x \in T, x.op # "xread"
      PROVE  /\ Server!OneRead(q) => Server!OneRead(Append(q, x))
             /\ Server!NoRead(q) => Server!NoRead(Append(q, x))
  BY <1>3, <1>7 DEF Server!NoRead, Server!OneRead
<1> QED BY <1>4, <1>5, <1>6, <1>7

(* Two parts in order, one after the other. *)
LEMMA SortedConcat ==
  ASSUME NEW E, NEW a \in Seq(E), NEW b \in Seq(E), Sorted(a), Sorted(b),
         \A x \in EntriesIn(a) : \A y \in EntriesIn(b) : IdLess(x.id, y.id)
  PROVE  Sorted(a \o b)
<1> DEFINE c == a \o b
<1>1. Len(a) \in Nat /\ Len(b) \in Nat
  OBVIOUS
<1>2. /\ Len(c) = Len(a) + Len(b)
      /\ \A i \in 1 .. Len(a) : c[i] = a[i]
      /\ \A i \in 1 .. Len(a) + Len(b) : i > Len(a) => c[i] = b[i - Len(a)]
  BY ConcatProperties
<1> HIDE DEF c
<1>3. ASSUME NEW i \in 1 .. Len(a) + Len(b), NEW k \in 1 .. Len(a) + Len(b), i < k
      PROVE  IdLess(c[i].id, c[k].id)
  <2>1. CASE k \in 1 .. Len(a)
    <3>1. i \in 1 .. Len(a)
      BY <1>1, <1>3, <2>1
    <3> QED BY <1>2, <1>3, <2>1, <3>1 DEF Sorted
  <2>2. CASE i \notin 1 .. Len(a)
    <3>1. /\ i > Len(a) /\ k > Len(a) /\ i - Len(a) \in 1 .. Len(b) /\ k - Len(a) \in 1 .. Len(b)
          /\ i - Len(a) < k - Len(a)
      BY <1>1, <1>3, <2>2
    <3>2. c[i] = b[i - Len(a)] /\ c[k] = b[k - Len(a)]
      BY <1>2, <3>1
    <3>3. IdLess(b[i - Len(a)].id, b[k - Len(a)].id)
      BY <3>1 DEF Sorted
    <3> QED BY <3>2, <3>3
  <2>3. CASE i \in 1 .. Len(a) /\ k \notin 1 .. Len(a)
    <3>1. k > Len(a) /\ k - Len(a) \in 1 .. Len(b)
      BY <1>1, <1>3, <2>3
    <3>2. c[i] = a[i] /\ c[k] = b[k - Len(a)]
      BY <1>2, <2>3, <3>1
    <3>3. a[i] \in EntriesIn(a) /\ b[k - Len(a)] \in EntriesIn(b)
      BY <2>3, <3>1 DEF EntriesIn
    <3> QED BY <3>2, <3>3
  <2> QED BY <2>1, <2>2, <2>3
<1> QED BY <1>2, <1>3 DEF Sorted, c

-----------------------------------------------------------------------------
(* What a socket is sent: the entries of the page's jobs, in their order. *)
Delivered(results) ==
  \A s \in SocketIds :
    IF link[s] /\ readyState[s] = "OPEN"
    THEN /\ EntriesIn(inbox'[s]) = EntriesIn(inbox[s])
                                     \cup {x \in EntriesIn(results) : x.event.job \in SessionJobs}
         /\ Sorted(inbox[s]) /\ Sorted(results)
              /\ (\A x \in EntriesIn(inbox[s]) : \A y \in EntriesIn(results) : IdLess(x.id, y.id))
              => Sorted(inbox'[s])
    ELSE inbox'[s] = inbox[s]

(* The page's channel is sent what is about its jobs. *)
LEMMA SaidToSession ==
  ASSUME NEW A, NEW x \in Said(A)
  PROVE  x.event.channel = Session <=> x.event.job \in SessionJobs
<1>1. x.event.channel = channelOf[x.event.job] /\ x.event.job \in Jobs
  BY DEF Said, Entry, Events
<1> QED BY <1>1, GlobalAsyncQueriesAssumption DEF channelOf

(* processStreamResults sends each open socket its part of the results, and  *)
(* keeps the open sockets listed.                                            *)
LEMMA Delivers ==
  ASSUME NEW A, ServerHolds(A), SocketsInv, NEW results \in Seq(Said(A)),
         Server!processStreamResults(results)
  PROVE  /\ Delivered(results)
         /\ UNCHANGED <<sockets, readyState, link>> => SocketsInv'
<1>1. PICK dirty :
         /\ channels' = Server!CleanedChannels(dirty)
         /\ inbox' = [s \in SocketIds |->
                        IF Server!IsActive(s) /\ link[s]
                        THEN inbox[s] \o Server!SentTo(s, results) ELSE inbox[s]]
  BY DEF Server!processStreamResults
<1>2. ASSUME NEW s \in SocketIds, readyState[s] = "OPEN"
      PROVE  Server!IsActive(s) /\ Session \in DOMAIN channels /\ s \in channels[Session]
  BY <1>2 DEF SocketsInv, Server!IsActive
<1>3. ASSUME UNCHANGED <<sockets, readyState, link>> PROVE SocketsInv'
  <2> SUFFICES ASSUME NEW s \in SocketIds, readyState[s] = "OPEN"
               PROVE  Session \in DOMAIN channels' /\ s \in channels'[Session]
    BY <1>3 DEF SocketsInv
  <2>1. s \in Server!ActiveIn(Session)
    BY <1>2 DEF Server!ActiveIn
  <2> QED BY <1>1, <1>2, <2>1 DEF Server!CleanedChannels
<1>4. ASSUME NEW s \in SocketIds, link[s], readyState[s] = "OPEN"
      PROVE  /\ EntriesIn(inbox'[s]) = EntriesIn(inbox[s])
                   \cup {x \in EntriesIn(results) : x.event.job \in SessionJobs}
             /\ Sorted(inbox[s]) /\ Sorted(results)
                  /\ (\A x \in EntriesIn(inbox[s]) : \A y \in EntriesIn(results) : IdLess(x.id, y.id))
                  => Sorted(inbox'[s])
  <2> DEFINE listed == {x \in EntriesIn(results) : Server!Listed(s, x)}
             sent   == Only(results, listed)
  <2>1. Server!SentTo(s, results) = sent
    BY ServerStreams DEF Server!SentTo, Server!EntriesIn, EntriesIn
  <2>2. listed = {x \in EntriesIn(results) : x.event.job \in SessionJobs}
    <3> SUFFICES ASSUME NEW x \in EntriesIn(results)
                 PROVE  Server!Listed(s, x) <=> x.event.job \in SessionJobs
      OBVIOUS
    <3>1. x \in Said(A)
      BY EntriesOfSeq
    <3>2. x.event.channel = Session <=> x.event.job \in SessionJobs
      BY <3>1, SaidToSession
    <3>3. DOMAIN channels \subseteq {Session} /\ Session \in DOMAIN channels /\ s \in channels[Session]
      BY <1>2, <1>4 DEF ServerHolds
    <3> QED BY <3>2, <3>3 DEF Server!Listed
  <2> HIDE DEF listed
  <2>3. sent \in Seq(Said(A)) /\ EntriesIn(sent) = EntriesIn(results) \cap listed
        /\ (Sorted(results) => Sorted(sent))
    BY OnlyIsExact, OnlyIsSorted
  <2> HIDE DEF sent
  <2>4. inbox[s] \in Seq(Said(A))
    <3>1. inbox[s] \in Seq(Heard(A)) /\ Heard(A) \subseteq Said(A)
      BY DEF ServerHolds, Heard
    <3> QED BY <3>1, SeqMonotone
  <2>5. inbox'[s] = inbox[s] \o sent
    BY <1>1, <1>2, <1>4, <2>1
  <2>6. EntriesIn(inbox'[s]) = EntriesIn(inbox[s]) \cup EntriesIn(sent)
    BY <2>3, <2>4, <2>5, EntriesOfConcat
  <2>7. EntriesIn(sent) = {x \in EntriesIn(results) : x.event.job \in SessionJobs}
    BY <2>2, <2>3
  <2>8. ASSUME Sorted(inbox[s]), Sorted(results),
               \A x \in EntriesIn(inbox[s]) : \A y \in EntriesIn(results) : IdLess(x.id, y.id)
        PROVE  Sorted(inbox'[s])
    <3>1. \A x \in EntriesIn(inbox[s]) : \A y \in EntriesIn(sent) : IdLess(x.id, y.id)
      BY <2>7, <2>8
    <3>2. Sorted(sent)
      BY <2>3, <2>8
    <3>3. Sorted(inbox[s] \o sent)
      BY <2>3, <2>4, <2>8, <3>1, <3>2, SortedConcat
    <3> QED BY <2>5, <3>3
  <2> QED BY <2>6, <2>7, <2>8
<1>5. ASSUME NEW s \in SocketIds, ~(link[s] /\ readyState[s] = "OPEN")
      PROVE  inbox'[s] = inbox[s]
  BY <1>1, <1>5 DEF Server!IsActive
<1> QED BY <1>3, <1>4, <1>5 DEF Delivered

-----------------------------------------------------------------------------
(* What Redis answers. *)
LEMMA SortedPart ==
  ASSUME NEW T, NEW q \in Seq(T), Sorted(q), NEW first \in Nat, NEW last \in Int,
         \A i \in first .. last : i \in 1 .. Len(q)
  PROVE  Sorted(SubSeq(q, first, last))
<1> DEFINE r == SubSeq(q, first, last)
<1>1. CASE first <= last
  <2>1. first \in 1 .. Len(q) /\ last \in 1 .. Len(q) /\ Len(q) \in Nat
    BY <1>1
  <2>2. Len(r) = last - first + 1 /\ \A i \in 1 .. last - first + 1 : r[i] = q[first + i - 1]
    BY <1>1, <2>1, SubSeqProperties
  <2> HIDE DEF r
  <2>3. ASSUME NEW i \in 1 .. last - first + 1, NEW k \in 1 .. last - first + 1, i < k
        PROVE  IdLess(r[i].id, r[k].id)
    <3>1. /\ first + i - 1 \in 1 .. Len(q) /\ first + k - 1 \in 1 .. Len(q)
          /\ first + i - 1 < first + k - 1
      BY <2>1, <2>3
    <3>2. IdLess(q[first + i - 1].id, q[first + k - 1].id)
      BY <3>1 DEF Sorted
    <3> QED BY <2>2, <3>2
  <2> QED BY <2>2, <2>3 DEF Sorted, r
<1>2. CASE ~(first <= last)
  <2>1. r = <<>>
    BY <1>2, SubSeqProperties
  <2> QED BY <2>1 DEF Sorted
<1> QED BY <1>1, <1>2

(* XREAD answers in order. *)
LEMMA ReadIsSorted ==
  ASSUME NEW E, NEW stream \in StreamsOf(E), InOrder(stream), NEW after, NEW n \in Nat
  PROVE  Sorted(XRead(stream, after, n))
<1> DEFINE q == stream.entries
           k == CountUpTo(stream, after)
           last == IF Len(q) < k + n THEN Len(q) ELSE k + n
<1>1. q \in Seq([id : Ids, event : E]) /\ Len(q) \in Nat
  BY StreamParts
<1>2. k \in 0 .. Len(q)
  BY <1>1, CountsAreSmall
<1>3. Sorted(q)
  BY <1>1 DEF InOrder, Sorted
<1>4. XRead(stream, after, n) = SubSeq(q, k + 1, last)
  BY DEF XRead
<1> HIDE DEF q, k
<1>5. k + 1 \in Nat /\ last \in Int /\ \A i \in k + 1 .. last : i \in 1 .. Len(q)
  BY <1>1, <1>2
<1> HIDE DEF last
<1> QED BY <1>1, <1>3, <1>4, <1>5, SortedPart

(* XREAD from the cursor answers what follows it. *)
LEMMA ReadIsNext ==
  ASSUME NEW A, ProducersHold(A), ProducersInv, lastFirehoseId \in Ids,
         NEW results, results = XRead(streams[Full], lastFirehoseId, StreamReadCount),
         results # <<>>
  PROVE  BatchIsNext(results)
<1>1. streams[Full] \in StreamsOf(Events) /\ InOrder(streams[Full]) /\ StreamReadCount \in Nat
  BY GlobalAsyncQueriesAssumption DEF ProducersHold, ProducersInv, OneAtATime
<1>2. EntriesIn(results) = Between(streams[Full], lastFirehoseId, results[Len(results)].id)
  BY <1>1, ReadIsExact
<1>3. Sorted(results)
  BY <1>1, ReadIsSorted
<1>4. EntriesIn(streams[Full].entries) = Entries(Full)
  BY DEF Entries, Manager!Entries, EntriesIn
<1> QED BY <1>2, <1>3, <1>4 DEF BatchIsNext, Between, ProducersInv

(* XRANGE answers the entries that the range covers. *)
LEMMA RangeCovers ==
  ASSUME NEW A, ProducersHold(A), ProducersInv, NEW j \in SessionJobs,
         NEW c, Covers(c, j), NEW y \in ScopedOf(j)
  PROVE  y \in EntriesIn(XRange(streams[Session], c.start, c.end))
<1> DEFINE stream == streams[Session]
           q      == stream.entries
           N      == Len(q)
<1>1. stream \in StreamsOf(Events) /\ InOrder(stream)
  BY SessionIsHeard DEF ProducersInv, OneAtATime
<1>2. q \in Seq([id : Ids, event : Events]) /\ N \in Nat
  BY <1>1, StreamParts
<1>3. PICK id \in Ids : c.start = <<id[1], id[2] + 1>> /\ IdLess(id, y.id)
  BY DEF Covers, Server!incrementId
<1>4. c.end \in Ids /\ c.end # Plus /\ IdLeq(y.id, c.end)
  BY RedisStreamsAssumption DEF Covers
<1>5. PICK i \in 1 .. N : y = q[i]
  BY DEF ScopedOf, Entries, Manager!Entries
<1> DEFINE low  == CountUpTo(stream, id)
           high == CountUpTo(stream, c.end)
<1>6. CountBelow(stream, c.start) = low
  BY <1>1, <1>3, BelowNextIsUpTo
<1>7. low \in 0 .. N /\ high \in 0 .. N
  BY <1>2, CountsAreSmall
<1>8. i <= high
  BY <1>1, <1>4, <1>5, CountTellsWhich
<1>9. ~(i <= low)
  <2>1. y.id \in Ids
    BY <1>1, <1>5, StreamParts
  <2>2. ~IdLeq(y.id, id)
    BY <1>3, <2>1, IdsAreOrdered DEF IdLeq
  <2> QED BY <1>1, <1>5, <2>2, CountTellsWhich
<1>10. XRange(stream, c.start, c.end) = SubSeq(q, low + 1, high)
  BY <1>4, <1>6 DEF XRange
<1> HIDE DEF low, high, N, q, stream
<1>11. i \in low + 1 .. high /\ low + 1 \in Nat /\ high \in Int
       /\ \A k \in low + 1 .. high : k \in 1 .. Len(q)
  BY <1>2, <1>5, <1>7, <1>8, <1>9 DEF N
<1>12. EntriesIn(SubSeq(q, low + 1, high)) = {q[k] : k \in low + 1 .. high}
  BY <1>2, <1>11, EntriesOfPart
<1> QED BY <1>5, <1>10, <1>11, <1>12 DEF stream

-----------------------------------------------------------------------------
(* What the page may see of a step of the server. *)
SameRanges == Ranges(commands') = Ranges(commands) /\ Ranges(replies') = Ranges(replies)

(* The server's steps: it rests; the loop forwards a batch; the answer to a  *)
(* range query is sent; or Redis serves a range query, which only a fault    *)
(* prevents.                                                                 *)
Rests == UNCHANGED <<lastFirehoseId, inbox>> /\ SameRanges

Forwards(A) ==
  /\ SameRanges
  /\ \E results \in Seq(Said(A)) :
       /\ results # <<>> /\ BatchIsNext(results) /\ Delivered(results)
       /\ lastFirehoseId' = results[Len(results)].id

Resends ==
  /\ UNCHANGED lastFirehoseId /\ Ranges(commands') = Ranges(commands)
  /\ \E r \in Ranges(replies) : Ranges(replies) \subseteq Ranges(replies') \cup {r}
                                /\ Delivered(r.results)

Serves ==
  /\ UNCHANGED <<lastFirehoseId, inbox>>
  /\ Ranges(replies) \subseteq Ranges(replies')
  /\ \E c \in Ranges(commands) :
       /\ Ranges(commands) \subseteq Ranges(commands') \cup {c}
       /\ Spent => \E r \in Ranges(replies') :
                                   r.results = XRange(streams[Session], c.start, c.end)

(* A connection that lasts stays open. *)
OpenStay == \A s \in SocketIds : link[s] /\ readyState[s] = "OPEN" => readyState'[s] = "OPEN"

(* A batch stays the next one while the cursor and the streams stay. *)
LEMMA BatchesStay ==
  ASSUME UNCHANGED <<streams, lastFirehoseId>>
  PROVE  \A results : BatchIsNext(results) => BatchIsNext(results)'
BY DEF BatchIsNext, Known, Outcomes, ScopedOf, Entries, Manager!Entries

(* What the replies hold. *)
Answers(A) == [op : {"xread", "xrange"}, results : Seq(Said(A))]

(* The loop sends the batch, moves the cursor to its end, and reads again. *)
LEMMA LoopActs ==
  ASSUME NEW A, ServerHolds(A), ProducersHold(A), CursorInv, SocketsInv, UNCHANGED streams,
         Server!subscribeToGlobalStream
  PROVE  CursorInv' /\ SocketsInv' /\ (Rests \/ Forwards(A))
<1> DEFINE results == Head(replies).results
           next    == Server!ReadCommand(lastFirehoseId')
<1>1. /\ replies \in Seq(Answers(A)) /\ replies # <<>> /\ Head(replies).op = "xread"
      /\ replies' = Tail(replies) /\ commands \in Seq(Commands)
      /\ commands' = Append(commands, next)
      /\ UNCHANGED <<sockets, readyState, link>>
  BY DEF ServerHolds, Answers, Server!subscribeToGlobalStream
<1>2. /\ Head(replies) \in Answers(A) /\ Tail(replies) \in Seq(Answers(A))
      /\ EntriesIn(replies) = {Head(replies)} \cup EntriesIn(replies')
  BY <1>1, QueueTail
<1>3. results \in Seq(Said(A))
  BY <1>2 DEF Answers
<1>4. results # <<>> => BatchIsNext(results)
  BY <1>1, <1>2 DEF CursorInv
<1>5. /\ Server!NoRead(commands) /\ Server!NoRead(replies')
      /\ \A x \in Commands : x.op = "xread" => Server!OneRead(Append(commands, x))
  BY <1>1, ReadsOfQueues DEF CursorInv
<1>6. lastFirehoseId' \in Ids /\ IdLeq(lastFirehoseId', streams[Full].last)
  <2>1. CASE results = <<>>
    BY <2>1 DEF Server!subscribeToGlobalStream, CursorInv
  <2>2. CASE results # <<>>
    <3>1. Len(results) \in 1 .. Len(results)
      BY <1>3, <2>2, EmptySeq
    <3>2. Known(results[Len(results)].id)
      BY <1>4, <2>2, <3>1 DEF BatchIsNext, EntriesIn
    <3>3. lastFirehoseId' = results[Len(results)].id
      BY <2>2 DEF Server!subscribeToGlobalStream
    <3> QED BY <3>2, <3>3 DEF Known
  <2> QED BY <2>1, <2>2
<1>7. next \in Commands /\ next.op = "xread" /\ next.after = lastFirehoseId'
  BY <1>6 DEF Server!ReadCommand, Commands
<1> HIDE DEF next
<1>8. EntriesIn(commands') = EntriesIn(commands) \cup {next}
  BY <1>1, <1>7, QueueAppend
<1>9. SameRanges
  BY <1>1, <1>2, <1>7, <1>8 DEF SameRanges, Ranges
<1>10. \A c \in EntriesIn(commands) : c.op # "xread"
  BY <1>5 DEF Server!NoRead, Server!Reads, EntriesIn
<1>11. \A r \in EntriesIn(replies') : r.op # "xread"
  BY <1>5 DEF Server!NoRead, Server!Reads, EntriesIn
<1>12. CursorInv'
  BY <1>1, <1>5, <1>6, <1>7, <1>8, <1>10, <1>11 DEF CursorInv
<1>13. CASE results = <<>>
  <2>1. UNCHANGED <<channels, lastFirehoseId, inbox>>
    BY <1>13 DEF Server!subscribeToGlobalStream
  <2>2. SocketsInv'
    BY <1>1, <2>1 DEF SocketsInv
  <2> QED BY <1>9, <1>12, <2>1, <2>2 DEF Rests
<1>14. CASE results # <<>>
  <2>1. Server!processStreamResults(results) /\ lastFirehoseId' = results[Len(results)].id
    BY <1>14 DEF Server!subscribeToGlobalStream
  <2>2. Delivered(results) /\ SocketsInv'
    BY <1>1, <1>3, <2>1, Delivers
  <2> QED BY <1>3, <1>4, <1>9, <1>12, <1>14, <2>1, <2>2 DEF Forwards
<1> QED BY <1>13, <1>14

(* The answer to a range query is sent to the channel. *)
LEMMA RangeReplyActs ==
  ASSUME NEW A, ServerHolds(A), CursorInv, SocketsInv, UNCHANGED streams,
         Server!fetchRangeFromStream
  PROVE  CursorInv' /\ SocketsInv' /\ Resends
<1> DEFINE r == Head(replies)
<1>1. /\ replies \in Seq(Answers(A)) /\ replies # <<>> /\ r.op = "xrange"
      /\ replies' = Tail(replies)
      /\ UNCHANGED <<sockets, readyState, link, commands, lastFirehoseId>>
  BY DEF ServerHolds, Answers, Server!fetchRangeFromStream
<1>2. /\ r \in Answers(A) /\ EntriesIn(replies) = {r} \cup EntriesIn(replies')
  BY <1>1, QueueTail
<1>3. r.results \in Seq(Said(A))
  BY <1>2 DEF Answers
<1>4. /\ Server!OneRead(replies) => Server!OneRead(replies')
      /\ Server!NoRead(replies) => Server!NoRead(replies')
  BY <1>1, ReadsOfQueues
<1>5. CursorInv'
  BY <1>1, <1>2, <1>4, BatchesStay DEF CursorInv
<1>6. Delivered(r.results) /\ SocketsInv'
  <2>1. CASE r.results = <<>>
    <3>1. UNCHANGED <<channels, inbox>>
      BY <2>1 DEF Server!fetchRangeFromStream
    <3>2. EntriesIn(r.results) = {}
      BY <2>1 DEF EntriesIn
    <3> QED BY <1>1, <3>1, <3>2 DEF SocketsInv, Delivered
  <2>2. CASE r.results # <<>>
    <3>1. Server!processStreamResults(r.results)
      BY <2>2 DEF Server!fetchRangeFromStream
    <3> QED BY <1>1, <1>3, <3>1, Delivers
  <2> QED BY <2>1, <2>2
<1>7. r \in Ranges(replies) /\ Ranges(replies) \subseteq Ranges(replies') \cup {r}
  BY <1>1, <1>2 DEF Ranges
<1> QED BY <1>1, <1>5, <1>6, <1>7 DEF Resends

(* Redis answers the head of the commands. *)
LEMMA ServeActs ==
  ASSUME NEW A, ServerHolds(A), CursorInv, SocketsInv, UNCHANGED streams,
         commands # <<>>, NEW op \in {"xread", "xrange"}, Head(commands).op = op,
         NEW results \in Seq(Said(A)), Server!Serve(Server!Reply(op, results)),
         op = "xread" /\ results # <<>> => BatchIsNext(results)
  PROVE  /\ CursorInv' /\ SocketsInv' /\ UNCHANGED <<lastFirehoseId, inbox, link, readyState>>
         /\ op = "xread" => SameRanges
         /\ op = "xrange" =>
              /\ Head(commands) \in Ranges(commands)
              /\ Ranges(commands) \subseteq Ranges(commands') \cup {Head(commands)}
              /\ Ranges(replies') = Ranges(replies) \cup {Server!Reply(op, results)}
<1> DEFINE r == Server!Reply(op, results)
<1>1. /\ commands \in Seq(Commands) /\ replies \in Seq(Answers(A))
      /\ commands' = Tail(commands) /\ replies' = Append(replies, r)
      /\ UNCHANGED <<channels, sockets, lastFirehoseId, readyState, link, inbox>>
  BY DEF ServerHolds, Answers, Server!Serve, Server!registries, Server!wire
<1>2. r \in Answers(A) /\ r.op = op /\ r.results = results
  BY DEF Server!Reply, Answers
<1> HIDE DEF r
<1>3. /\ EntriesIn(commands) = {Head(commands)} \cup EntriesIn(commands')
      /\ EntriesIn(replies') = EntriesIn(replies) \cup {r}
  BY <1>1, <1>2, QueueTail, QueueAppend
<1>4. /\ op = "xread" => ~Server!NoRead(commands)
                         /\ (Server!OneRead(commands) => Server!NoRead(commands'))
      /\ op # "xread" => /\ Server!OneRead(commands) => Server!OneRead(commands')
                         /\ Server!NoRead(commands) => Server!NoRead(commands')
  BY <1>1, ReadsOfQueues
<1>5. /\ op = "xread" /\ Server!NoRead(replies) => Server!OneRead(replies')
      /\ op # "xread" => /\ Server!OneRead(replies) => Server!OneRead(replies')
                         /\ Server!NoRead(replies) => Server!NoRead(replies')
  BY <1>1, <1>2, ReadsOfQueues
<1>6. /\ \/ Server!OneRead(commands') /\ Server!NoRead(replies')
         \/ Server!NoRead(commands') /\ Server!OneRead(replies')
  BY <1>4, <1>5 DEF CursorInv
<1>7. \A x \in EntriesIn(replies') : x.op = "xread" /\ x.results # <<>> => BatchIsNext(x.results)'
  BY <1>1, <1>2, <1>3, BatchesStay DEF CursorInv
<1>8. CursorInv'
  BY <1>1, <1>3, <1>6, <1>7 DEF CursorInv
<1>9. SocketsInv'
  BY <1>1 DEF SocketsInv
<1>10. op = "xread" => SameRanges
  BY <1>2, <1>3 DEF SameRanges, Ranges
<1>11. op = "xrange" =>
         /\ Head(commands) \in Ranges(commands)
         /\ Ranges(commands) \subseteq Ranges(commands') \cup {Head(commands)}
         /\ Ranges(replies') = Ranges(replies) \cup {r}
  BY <1>2, <1>3 DEF Ranges
<1> QED BY <1>1, <1>8, <1>9, <1>10, <1>11 DEF r

(* Each of the ways in which Redis answers, or fails to. *)
LEMMA RedisActs ==
  ASSUME NEW A, ServerHolds(A), ProducersHold(A), ProducersInv, CursorInv, SocketsInv,
         UNCHANGED streams,
         \/ Server!AnswerRead \/ Server!ReadTimesOut \/ Server!ReadFails
         \/ Server!AnswerRange \/ (Server!RangeFails /\ faults < MaxFaults)
  PROVE  /\ CursorInv' /\ SocketsInv' /\ UNCHANGED <<link, readyState>>
         /\ Rests \/ Serves
<1> DEFINE c == Head(commands)
<1>1. commands # <<>> /\ commands \in Seq(Commands)
  BY DEF ServerHolds, Server!AnswerRead, Server!ReadTimesOut, Server!ReadFails,
         Server!AnswerRange, Server!RangeFails, Server!Serving
<1>2. c \in Commands /\ c \in EntriesIn(commands) /\ <<>> \in Seq(Said(A))
  BY <1>1, QueueTail
<1>3. CASE Server!AnswerRead \/ Server!ReadTimesOut \/ Server!ReadFails
  <2>1. c.op = "xread" /\ c.after = lastFirehoseId
    BY <1>2, <1>3 DEF Server!AnswerRead, Server!ReadTimesOut, Server!ReadFails, Server!Serving, CursorInv
  <2>2. PICK results : /\ Server!Serve(Server!Reply("xread", results))
                       /\ \/ results = <<>>
                          \/ /\ results = XRead(streams[Full], lastFirehoseId, StreamReadCount)
                             /\ results # <<>>
    BY <1>3, <2>1, ServerStreams DEF Server!AnswerRead, Server!ReadTimesOut, Server!ReadFails
  <2>3. results \in Seq(Said(A))
    <3>1. streams[Full].entries \in Seq(OnStream(A, Full)) /\ OnStream(A, Full) \subseteq Said(A)
      BY DEF ProducersHold, OnStream
    <3>2. streams[Full].entries \in Seq(Said(A)) /\ StreamReadCount \in Nat
      BY <3>1, SeqMonotone, GlobalAsyncQueriesAssumption
    <3> QED BY <1>2, <2>2, <3>2, ReadsAreEntries
  <2>4. results # <<>> => BatchIsNext(results)
    BY <2>2, ReadIsNext DEF CursorInv
  <2>5. CursorInv' /\ SocketsInv' /\ UNCHANGED <<lastFirehoseId, inbox, link, readyState>> /\ SameRanges
    BY <1>1, <2>1, <2>2, <2>3, <2>4, ServeActs
  <2> QED BY <2>5 DEF Rests
<1>4. CASE Server!AnswerRange \/ (Server!RangeFails /\ faults < MaxFaults)
  <2>1. c.op = "xrange"
    BY <1>4 DEF Server!AnswerRange, Server!RangeFails, Server!Serving
  <2>2. c.channel = Session
    BY <1>2, <2>1 DEF Commands
  <2>3. PICK results : /\ Server!Serve(Server!Reply("xrange", results))
                       /\ \/ results = <<>> /\ faults < MaxFaults
                          \/ results = XRange(streams[Session], c.start, c.end)
    BY <1>4, <2>2, ServerStreams DEF Server!AnswerRange, Server!RangeFails
  <2>4. results \in Seq(Said(A))
    <3>1. streams[Session].entries \in Seq(OnStream(A, Session)) /\ OnStream(A, Session) \subseteq Said(A)
      BY SessionIsHeard DEF ProducersHold, OnStream
    <3>2. streams[Session].entries \in Seq(Said(A))
      BY <3>1, SeqMonotone
    <3> QED BY <1>2, <2>3, <3>2, RangesAreEntries
  <2> DEFINE r == Server!Reply("xrange", results)
  <2>5. /\ CursorInv' /\ SocketsInv' /\ UNCHANGED <<lastFirehoseId, inbox, link, readyState>>
        /\ c \in Ranges(commands) /\ Ranges(commands) \subseteq Ranges(commands') \cup {c}
        /\ Ranges(replies') = Ranges(replies) \cup {r}
    <3>1. Head(commands).op = "xrange"
      BY <2>1
    <3> HIDE DEF c
    <3> QED BY <1>1, <2>3, <2>4, <3>1, ServeActs DEF c
  <2>6. r.results = results
    BY DEF Server!Reply
  <2> HIDE DEF c, r
  <2> QED BY <2>3, <2>5, <2>6 DEF Serves, Spent
<1> QED BY <1>3, <1>4

(* Every step of the server is one of the four. *)
LEMMA ServerActs ==
  ASSUME NEW A, ServerHolds(A), ProducersHold(A), ProducersInv, CursorInv, SocketsInv,
         "restart" \notin Faults, ServerNext
  PROVE  /\ CursorInv' /\ SocketsInv' /\ UNCHANGED link /\ OpenStay
         /\ Rests \/ Forwards(A) \/ Resends \/ Serves
<1>1. UNCHANGED streams
  BY DEF ServerNext, Subscribe, Resend, Gc, BeginRead, AnswerRead, ReadTimesOut, AnswerRange,
         SocketCloses, RedisFails, Restart, ServerOnly, managerVars
<1>2. CASE Subscribe
  <2>1. Server!subscribeToGlobalStream
    BY <1>2 DEF Subscribe, ServerOnly
  <2> QED BY <1>1, <2>1, LoopActs DEF OpenStay, Server!subscribeToGlobalStream
<1>3. CASE Resend
  <2>1. Server!fetchRangeFromStream
    BY <1>3 DEF Resend, ServerOnly
  <2> QED BY <1>1, <2>1, RangeReplyActs DEF OpenStay, Server!fetchRangeFromStream
<1>4. CASE AnswerRead \/ ReadTimesOut \/ AnswerRange \/ RedisFails
  <2>1. \/ Server!AnswerRead \/ Server!ReadTimesOut \/ Server!ReadFails
        \/ Server!AnswerRange \/ (Server!RangeFails /\ faults < MaxFaults)
    BY <1>4 DEF AnswerRead, ReadTimesOut, AnswerRange, RedisFails, ServerOnly, Fault
  <2> QED BY <1>1, <2>1, RedisActs DEF OpenStay
<1>5. CASE BeginRead
  <2>1. commands # <<>> /\ Head(commands).op = "xread" /\ Head(commands).after = Dollar
    BY <1>5 DEF BeginRead, ServerOnly, Server!BeginRead, Server!Serving
  <2>2. Head(commands) \in EntriesIn(commands)
    BY <2>1, QueueTail DEF ServerHolds
  <2> QED BY <2>1, <2>2, RedisStreamsAssumption DEF CursorInv
<1>6. CASE Gc
  <2>1. /\ channels' = Server!CleanedChannels(DOMAIN channels)
        /\ UNCHANGED <<sockets, lastFirehoseId, commands, replies, readyState, link, inbox>>
    BY <1>6 DEF Gc, ServerOnly, Server!gc, Server!cursor, Server!wire
  <2>2. SocketsInv'
    <3> SUFFICES ASSUME NEW s \in SocketIds, readyState[s] = "OPEN"
                 PROVE  Session \in DOMAIN channels' /\ s \in channels'[Session]
      BY <2>1 DEF SocketsInv
    <3>1. s \in DOMAIN sockets /\ Session \in DOMAIN channels /\ s \in channels[Session]
      BY DEF SocketsInv
    <3>2. s \in Server!ActiveIn(Session)
      BY <3>1 DEF Server!ActiveIn, Server!IsActive
    <3> QED BY <2>1, <3>1, <3>2 DEF Server!CleanedChannels
  <2>3. CursorInv'
    BY <1>1, <2>1, BatchesStay DEF CursorInv
  <2> QED BY <2>1, <2>2, <2>3 DEF Rests, SameRanges, OpenStay
<1>7. CASE SocketCloses
  <2>1. PICK s \in SocketIds : Server!SocketCloses(s)
    BY <1>7 DEF SocketCloses, ServerOnly
  <2>2. /\ readyState' = [readyState EXCEPT ![s] = "CLOSED"]
        /\ ~(readyState[s] = "OPEN" /\ link[s]) /\ readyState[s] # "NONE"
        /\ UNCHANGED <<channels, sockets, lastFirehoseId, commands, replies, link, inbox>>
    BY <2>1 DEF Server!SocketCloses, Server!registries, Server!cursor
  <2>3. readyState \in [SocketIds -> {"NONE", "OPEN", "CLOSING", "CLOSED"}]
    BY DEF ServerHolds, Server!RegistryTypeOK
  <2>4. \A x \in SocketIds : readyState'[x] = IF x = s THEN "CLOSED" ELSE readyState[x]
    BY <2>2, <2>3
  <2>5. SocketsInv' /\ OpenStay
    BY <2>2, <2>4 DEF SocketsInv, OpenStay
  <2>6. CursorInv'
    BY <1>1, <2>2, BatchesStay DEF CursorInv
  <2> QED BY <2>2, <2>5, <2>6 DEF Rests, SameRanges
<1>8. ~Restart
  BY DEF Restart, Fault
<1> QED BY <1>2, <1>3, <1>4, <1>5, <1>6, <1>7, <1>8 DEF ServerNext

-----------------------------------------------------------------------------
(* What the page does with events it is told of. *)
PageDoes(events) ==
  /\ Sound(Client!Page')
  /\ lastId' = lastId \/ \E x \in events : lastId' = x.id
  /\ DOMAIN timers' \subseteq DOMAIN timers \cup events
  /\ Waiting' \subseteq {z \in Waiting : \A x \in events : x.event.job # z.event.job}

(* A chart has asked for each job that was announced. *)
LEMMA OutcomesAreAsked ==
  ASSUME NEW A, A = announced, ProducersHold(A), OneOutcome
  PROVE  \A x \in Said(A) : x.event.job \in SessionJobs => promise[x.event.job] # "idle"
<1> SUFFICES ASSUME NEW x \in Said(A), x.event.job \in SessionJobs
             PROVE  promise[x.event.job] # "idle"
  OBVIOUS
<1>1. announced[x.event.job] # {}
  BY DEF Said
<1> QED BY <1>1 DEF OneOutcome

LEMMA OutcomesAreSaid ==
  ASSUME NEW A, ProducersHold(A)
  PROVE  Outcomes \subseteq Heard(A) /\ \A z \in Outcomes : z.id \in Ids
<1>1. streams[Full].entries \in Seq(OnStream(A, Full)) /\ OnStream(A, Full) \subseteq Said(A)
  BY DEF ProducersHold, OnStream
<1>2. EntriesIn(streams[Full].entries) \subseteq Said(A)
  BY <1>1, EntriesOfSeq
<1>3. Entries(Full) \subseteq Said(A)
  BY <1>2 DEF Entries, Manager!Entries, EntriesIn
<1> QED BY <1>3 DEF Outcomes, Heard, Said, Entry

(* The page takes events up: what is about their jobs waits no longer. *)
LEMMA TakesUp ==
  ASSUME NEW events, TakenUp(Client!Page, events, Client!Page'),
         Outcomes' = Outcomes, UNCHANGED lastFirehoseId
  PROVE  PageDoes(events)
<1>1. /\ Client!Page.lastId = lastId /\ Client!Page'.lastId = lastId'
      /\ Client!Page.timers = timers /\ Client!Page'.timers = timers'
  BY DEF Client!Page
<1>2. Waiting' = {z \in Outcomes : IdLeq(z.id, lastFirehoseId) /\ ~Handled(Client!Page', z.event.job)}
  BY DEF Waiting
<1>3. \A z \in Outcomes : z.event.job \in SessionJobs
  BY DEF Outcomes
<1>4. \A z \in Waiting' : z \in Waiting /\ \A x \in events : x.event.job # z.event.job
  BY <1>2, <1>3 DEF TakenUp, Waiting
<1> QED BY <1>1, <1>4 DEF TakenUp, PageDoes

(* The page moves without an event. *)
LEMMA Moved ==
  ASSUME NEW A, A = announced, ProducersHold(A), OneOutcome, Moves(Client!Page, Client!Page'),
         Outcomes' = Outcomes, UNCHANGED lastFirehoseId
  PROVE  PageDoes({})
<1>1. /\ Client!Page.lastId = lastId /\ Client!Page'.lastId = lastId'
      /\ Client!Page.timers = timers /\ Client!Page'.timers = timers'
      /\ Client!Page.promise = promise
  BY DEF Client!Page
<1>2. Waiting' = {z \in Outcomes : IdLeq(z.id, lastFirehoseId) /\ ~Handled(Client!Page', z.event.job)}
  BY DEF Waiting
<1>3. \A z \in Outcomes : z.event.job \in SessionJobs /\ promise[z.event.job] # "idle"
  BY OutcomesAreSaid, OutcomesAreAsked DEF Heard
<1>4. \A z \in Waiting' : z \in Waiting
  BY <1>1, <1>2, <1>3 DEF Moves, Waiting
<1> QED BY <1>1, <1>4 DEF Moves, PageDoes

(* The producers leave the page as it is. *)
LEMMA NothingNewWaits ==
  ASSUME NEW A, ProducersHold(A)', NEW B, ProducersHold(B), ProducersMove, CursorInv,
         Sound(Client!Page),
         UNCHANGED <<lastFirehoseId, promise, listeners, retries, timers, fetching, lastId>>
  PROVE  PageDoes({})
<1>1. Client!Page' = Client!Page
  BY DEF Client!Page
<1>2. ASSUME NEW z \in Waiting' PROVE z \in Waiting
  <2>1. z \in Outcomes' /\ IdLeq(z.id, lastFirehoseId) /\ ~Handled(Client!Page, z.event.job)
    BY <1>1 DEF Waiting
  <2>2. z.id \in Ids /\ lastFirehoseId \in Ids /\ streams[Full].last \in Ids
        /\ IdLeq(lastFirehoseId, streams[Full].last)
    <3>1. Outcomes' \subseteq Heard(A)
      <4>1. streams'[Full].entries \in Seq(OnStream(A, Full)) /\ OnStream(A, Full) \subseteq Said(A)
        BY DEF ProducersHold, OnStream
      <4>2. EntriesIn(streams'[Full].entries) \subseteq Said(A)
        BY <4>1, EntriesOfSeq
      <4> QED BY <4>2 DEF Outcomes, Entries, Manager!Entries, EntriesIn, Heard
    <3>2. streams[Full].last \in Ids
      BY DEF ProducersHold, StreamsOf
    <3> QED BY <2>1, <3>1, <3>2 DEF CursorInv, Heard, Said, Entry
  <2>3. ~IdLess(streams[Full].last, z.id)
    BY <2>1, <2>2, IdsAreOrdered DEF IdLeq
  <2>4. z \in Outcomes
    BY <2>1, <2>3 DEF ProducersMove
  <2> QED BY <2>1, <2>4 DEF Waiting
<1> QED BY <1>1, <1>2 DEF PageDoes

-----------------------------------------------------------------------------
(* The phases, while nothing moves on the connection. *)
LEMMA CarriedStays ==
  ASSUME ProducersMove, lastFirehoseId \in Ids, lastFirehoseId' \in Ids,
         IdLeq(lastFirehoseId, lastFirehoseId')
  PROVE  \A id : Carried(id) => Carried(id)'
<1> SUFFICES ASSUME NEW id, Carried(id) PROVE Carried(id)'
  OBVIOUS
<1>1. id \in Ids /\ IdLeq(id, lastFirehoseId) /\ Known(id)'
  BY DEF Carried, Known, ProducersMove
<1>2. IdLeq(id, lastFirehoseId')
  BY <1>1, IdsAreOrdered DEF IdLeq
<1> QED BY <1>1, <1>2 DEF Carried

(* A page that follows goes on, whatever it does with its own timers. *)
LEMMA FollowingStays ==
  ASSUME ProducersMove, lastFirehoseId \in Ids, Following, StartSocket \in SocketIds,
         Rests, OpenStay, UNCHANGED <<link, socket, wsState>>,
         NEW events \in SUBSET (DOMAIN timers), PageDoes(events)
  PROVE  Following'
<1>1. \A id : Carried(id) => Carried(id)'
  BY CarriedStays DEF IdLeq, Rests
<1>2. {lastId'} \cup TimerIds' \subseteq {lastId} \cup TimerIds
  BY DEF PageDoes, TimerIds
<1>3. NoRanges'
  BY DEF Following, NoRanges, Rests, SameRanges, Ranges
<1>4. \A id \in {lastId'} \cup TimerIds' :
        Carried(id)' /\ \A x \in EntriesIn(inbox'[socket']) : IdLess(id, x.id)
  BY <1>1, <1>2 DEF Following, Rests
<1>5. \A x \in EntriesIn(inbox'[socket']) : Carried(x.id)'
  BY <1>1 DEF Following, Rests
<1>6. Waiting' \subseteq EntriesIn(inbox'[socket'])
  BY DEF Following, PageDoes, Rests
<1>7. Sorted(inbox'[socket']) /\ readyState'[socket'] = "OPEN"
  BY DEF Following, Rests, OpenStay
<1> QED BY <1>3, <1>4, <1>5, <1>6, <1>7 DEF Following

(* A page that is away stays so. *)
LEMMA AwayStays ==
  ASSUME ProducersMove, lastFirehoseId \in Ids, Away, Spent',
         Rests, UNCHANGED <<link, socket, wsState, wsFrom>>,
         NEW events \in SUBSET (DOMAIN timers), PageDoes(events)
  PROVE  Away'
<1>1. \A id : Carried(id) => Carried(id)'
  BY CarriedStays DEF IdLeq, Rests
<1>2. {lastId'} \cup TimerIds' \subseteq {lastId} \cup TimerIds
  BY DEF PageDoes, TimerIds
<1>3. NoRanges'
  BY DEF Away, NoRanges, Rests, SameRanges, Ranges
<1>4. \A id : Resumable(id) => Resumable(id)'
  BY <1>1 DEF Resumable, PageDoes
<1>5. \A id \in {lastId'} \cup TimerIds' : Resumable(id)'
  BY <1>2, <1>4 DEF Away
<1>6. wsState' = "connecting" => Resumable(wsFrom)'
  BY <1>4 DEF Away
<1> QED BY <1>3, <1>5, <1>6 DEF Away, Rests

(* What is on its way stays so. *)
LEMMA ResumedStays ==
  ASSUME ProducersMove, Resumed, Spent', Rests, OpenStay, UNCHANGED <<link, socket>>,
         wsState' \in {"connecting", "open"},
         NEW events, PageDoes(events)
  PROVE  Resumed'
<1>1. ASSUME NEW z \in Waiting' PROVE OnItsWay(z.event.job)'
  <2>1. z \in Waiting /\ z \in Outcomes'
    BY DEF PageDoes, Waiting
  <2>2. ScopedOf(z.event.job)' = ScopedOf(z.event.job)
    BY <2>1 DEF ProducersMove
  <2>3. OnItsWay(z.event.job)
    BY <2>1 DEF Resumed
  <2>4. \A c : Covers(c, z.event.job) => Covers(c, z.event.job)'
    BY <2>2 DEF Covers, Server!incrementId
  <2> QED BY <2>3, <2>4 DEF OnItsWay, Rests, SameRanges, Ranges
<1>2. readyState'[socket] = "OPEN"
  BY DEF Resumed, OpenStay
<1> QED BY <1>1, <1>2 DEF Resumed

GaveUp == wsState = "gaveUp" /\ Spent

(* All three together. *)
LEMMA PageStays ==
  ASSUME ProducersMove, lastFirehoseId \in Ids, StartSocket \in SocketIds, PageInv,
         Rests, OpenStay, UNCHANGED <<link, socket, poll, wsState, wsFrom>>, Spent => Spent',
         Sound(Client!Page) => \E events \in SUBSET (DOMAIN timers) : PageDoes(events)
  PROVE  PageInv'
<1>1. CASE GaveUp
  BY <1>1 DEF GaveUp, PageInv
<1>2. CASE ~GaveUp
  <2>1. poll = "off" /\ Sound(Client!Page) /\ (Following \/ Away \/ Resumed)
    BY <1>2 DEF GaveUp, PageInv
  <2>2. PICK events \in SUBSET (DOMAIN timers) : PageDoes(events)
    BY <2>1
  <2>3. poll' = "off" /\ Sound(Client!Page')
    BY <2>1, <2>2 DEF PageDoes
  <2>4. Following => Following'
    BY <2>2, FollowingStays
  <2>5. Away => Away'
    <3> HAVE Away
    <3>1. Spent'
      BY DEF Away
    <3> QED BY <2>2, <3>1, AwayStays
  <2>6. Resumed => Resumed'
    <3> HAVE Resumed
    <3>1. Spent' /\ wsState' \in {"connecting", "open"}
      BY DEF Resumed
    <3> QED BY <2>2, <3>1, ResumedStays
  <2> QED BY <2>1, <2>3, <2>4, <2>5, <2>6 DEF PageInv
<1> QED BY <1>1, <1>2

-----------------------------------------------------------------------------
(* The server's steps, as the page sees them. *)
LEMMA WaitingForwarded ==
  ASSUME NEW A, ProducersHold(A), lastFirehoseId \in Ids, NEW results, BatchIsNext(results),
         lastFirehoseId' = results[Len(results)].id,
         UNCHANGED <<streams, promise, listeners, retries, timers, fetching, lastId>>
  PROVE  \A z \in Waiting' : z \in Waiting \/ z \in EntriesIn(results)
<1> SUFFICES ASSUME NEW z \in Waiting', z \notin Waiting PROVE z \in EntriesIn(results)
  OBVIOUS
<1>1. /\ z \in Outcomes /\ z \in Entries(Full) /\ IdLeq(z.id, results[Len(results)].id)
      /\ ~Handled(Client!Page, z.event.job)
  BY DEF Waiting, Outcomes, Entries, Manager!Entries, Client!Page
<1>2. ~IdLeq(z.id, lastFirehoseId)
  BY <1>1 DEF Waiting
<1>3. z.id \in Ids
  BY <1>1, OutcomesAreSaid
<1>4. IdLess(lastFirehoseId, z.id)
  BY <1>2, <1>3, IdsAreOrdered DEF IdLeq
<1> QED BY <1>1, <1>4 DEF BatchIsNext

(* The loop forwards IDs that the page may resume from. *)
LEMMA ForwardsAreCarried ==
  ASSUME NEW A, NEW results \in Seq(Said(A)), results # <<>>, BatchIsNext(results),
         lastFirehoseId \in Ids, lastFirehoseId' = results[Len(results)].id, UNCHANGED streams
  PROVE  /\ lastFirehoseId' \in Ids /\ IdLess(lastFirehoseId, lastFirehoseId')
         /\ \A x \in EntriesIn(results) : Carried(x.id)'
<1>1. Len(results) \in 1 .. Len(results)
  BY EmptySeq
<1>2. results[Len(results)] \in EntriesIn(results)
  BY <1>1 DEF EntriesIn
<1>3. \A x \in EntriesIn(results) : IdLess(lastFirehoseId, x.id) /\ Known(x.id)
  BY DEF BatchIsNext
<1>4. \A id : Known(id) => Known(id)'
  BY DEF Known, Outcomes, ScopedOf, Entries, Manager!Entries
<1>5. \A x \in EntriesIn(results) : IdLeq(x.id, lastFirehoseId')
  <2> SUFFICES ASSUME NEW i \in 1 .. Len(results) PROVE IdLeq(results[i].id, results[Len(results)].id)
    BY DEF EntriesIn
  <2>1. i = Len(results) \/ i < Len(results)
    BY <1>1
  <2> QED BY <1>1, <2>1 DEF IdLeq, BatchIsNext, Sorted
<1> QED BY <1>2, <1>3, <1>4, <1>5 DEF Carried, Known

(* The loop forwards a batch to a page that follows ... *)
LEMMA FollowingForwards ==
  ASSUME NEW A, ServerHolds(A), ProducersHold(A), lastFirehoseId \in Ids, ProducersMove,
         Following, StartSocket \in SocketIds, Forwards(A), OpenStay,
         UNCHANGED <<streams, promise, listeners, retries, timers, fetching, lastId,
                     link, socket, wsState>>
  PROVE  Following'
<1>1. PICK results \in Seq(Said(A)) :
        /\ results # <<>> /\ BatchIsNext(results) /\ Delivered(results)
        /\ lastFirehoseId' = results[Len(results)].id
  BY DEF Forwards
<1> DEFINE old == EntriesIn(inbox[socket])
           new == {x \in EntriesIn(results) : x.event.job \in SessionJobs}
<1>2. /\ lastFirehoseId' \in Ids /\ IdLess(lastFirehoseId, lastFirehoseId')
      /\ \A x \in EntriesIn(results) : Carried(x.id)'
  BY <1>1, ForwardsAreCarried
<1>3. \A id : Carried(id) => Carried(id)'
  BY <1>2, CarriedStays DEF IdLeq
<1>4. \A id : Carried(id) => \A x \in EntriesIn(results) : IdLess(id, x.id)
  <2> SUFFICES ASSUME NEW id, Carried(id), NEW x \in EntriesIn(results) PROVE IdLess(id, x.id)
    OBVIOUS
  <2>1. id \in Ids /\ IdLeq(id, lastFirehoseId) /\ IdLess(lastFirehoseId, x.id) /\ x.id \in Ids
    BY <1>1 DEF Carried, Known, BatchIsNext
  <2> QED BY <2>1, IdsAreOrdered DEF IdLeq
<1>5. \A x \in old : \A y \in EntriesIn(results) : IdLess(x.id, y.id)
  BY <1>4 DEF Following
<1>6. Sorted(results)
  BY <1>1 DEF BatchIsNext
<1>7. EntriesIn(inbox'[socket']) = old \cup new /\ Sorted(inbox'[socket'])
  <2>1. socket \in SocketIds /\ link[socket] /\ readyState[socket] = "OPEN" /\ Sorted(inbox[socket])
    BY DEF Following
  <2> QED BY <1>1, <1>5, <1>6, <2>1 DEF Delivered
<1>8. NoRanges'
  BY DEF Following, NoRanges, Forwards, SameRanges, Ranges
<1>9. TimerIds' = TimerIds
  BY DEF TimerIds
<1>10. \A id \in {lastId'} \cup TimerIds' :
         Carried(id)' /\ \A x \in EntriesIn(inbox'[socket']) : IdLess(id, x.id)
  BY <1>3, <1>4, <1>7, <1>9 DEF Following
<1>11. \A x \in EntriesIn(inbox'[socket']) : Carried(x.id)'
  BY <1>2, <1>3, <1>7 DEF Following
<1>12. Waiting' \subseteq EntriesIn(inbox'[socket'])
  <2>1. \A z \in Waiting' : z \in Waiting \/ z \in EntriesIn(results)
    BY <1>1, WaitingForwarded
  <2>2. \A z \in Waiting' : z.event.job \in SessionJobs
    BY DEF Waiting, Outcomes
  <2> QED BY <1>7, <2>1, <2>2 DEF Following
<1>13. readyState'[socket'] = "OPEN"
  BY DEF Following, OpenStay
<1> QED BY <1>7, <1>8, <1>10, <1>11, <1>12, <1>13 DEF Following

(* ... to one that is away, which does not get it but may resume before it   *)
(* ...                                                                       *)
LEMMA AwayForwards ==
  ASSUME NEW A, ProducersHold(A), lastFirehoseId \in Ids, ProducersMove,
         Away, Spent', StartSocket \in SocketIds, Forwards(A),
         UNCHANGED <<streams, promise, listeners, retries, timers, fetching, lastId,
                     link, socket, wsState, wsFrom>>
  PROVE  Away'
<1>1. PICK results \in Seq(Said(A)) :
        /\ results # <<>> /\ BatchIsNext(results) /\ Delivered(results)
        /\ lastFirehoseId' = results[Len(results)].id
  BY DEF Forwards
<1>2. lastFirehoseId' \in Ids /\ IdLess(lastFirehoseId, lastFirehoseId')
  BY <1>1, ForwardsAreCarried
<1>3. \A id : Carried(id) => Carried(id)'
  BY <1>2, CarriedStays DEF IdLeq
<1>4. ASSUME NEW id, Resumable(id) PROVE Resumable(id)'
  <2>1. \A x \in EntriesIn(results) : IdLess(id, x.id)
    <3> SUFFICES ASSUME NEW x \in EntriesIn(results) PROVE IdLess(id, x.id)
      OBVIOUS
    <3>1. id \in Ids /\ IdLeq(id, lastFirehoseId) /\ IdLess(lastFirehoseId, x.id) /\ x.id \in Ids
      BY <1>1, <1>4 DEF Resumable, Carried, Known, BatchIsNext
    <3> QED BY <3>1, IdsAreOrdered DEF IdLeq
  <2>2. \A z \in Waiting' : z \in Waiting \/ z \in EntriesIn(results)
    BY <1>1, WaitingForwarded
  <2> QED BY <1>3, <1>4, <2>1, <2>2 DEF Resumable
<1>5. NoRanges'
  BY DEF Away, NoRanges, Forwards, SameRanges, Ranges
<1>6. \A id \in {lastId'} \cup TimerIds' : Resumable(id)'
  BY <1>4 DEF Away, TimerIds
<1>7. wsState' = "connecting" => Resumable(wsFrom)'
  BY <1>4 DEF Away
<1>8. socket = StartSocket /\ ~link[socket] /\ inbox[socket] = <<>> => inbox'[socket'] = <<>>
  BY <1>1 DEF Delivered
<1> QED BY <1>5, <1>6, <1>7, <1>8 DEF Away

(* ... and to one that has resumed. *)
LEMMA ResumedForwards ==
  ASSUME NEW A, ProducersHold(A), lastFirehoseId \in Ids,
         Resumed, Spent', Forwards(A), OpenStay,
         UNCHANGED <<streams, promise, listeners, retries, timers, fetching, lastId,
                     link, socket, wsState>>
  PROVE  Resumed'
<1>1. PICK results \in Seq(Said(A)) :
        /\ results # <<>> /\ BatchIsNext(results) /\ Delivered(results)
        /\ lastFirehoseId' = results[Len(results)].id
  BY DEF Forwards
<1>2. socket \in SocketIds /\ link[socket] /\ readyState[socket] = "OPEN"
  BY DEF Resumed
<1>3. EntriesIn(inbox'[socket]) = EntriesIn(inbox[socket])
                                    \cup {x \in EntriesIn(results) : x.event.job \in SessionJobs}
  BY <1>1, <1>2 DEF Delivered
<1>4. ASSUME NEW z \in Waiting' PROVE OnItsWay(z.event.job)'
  <2>1. CASE z \in Waiting
    <3>1. OnItsWay(z.event.job)
      BY <2>1 DEF Resumed
    <3>2. \A c : Covers(c, z.event.job) => Covers(c, z.event.job)'
      BY DEF Covers, Server!incrementId, ScopedOf, Entries, Manager!Entries
    <3> QED BY <1>3, <3>1, <3>2 DEF OnItsWay, Forwards, SameRanges, Ranges
  <2>2. CASE z \in EntriesIn(results)
    <3>1. z.event.job \in SessionJobs
      BY DEF Waiting, Outcomes
    <3> QED BY <1>3, <2>2, <3>1 DEF OnItsWay
  <2> QED BY <1>1, <2>1, <2>2, WaitingForwarded
<1>5. readyState'[socket] = "OPEN"
  BY <1>2 DEF OpenStay
<1> QED BY <1>2, <1>4, <1>5 DEF Resumed

-----------------------------------------------------------------------------
(* The answer to a range query puts what it holds in the inbox. *)
LEMMA ResumedResends ==
  ASSUME Resumed, Spent', Resends, OpenStay,
         UNCHANGED <<streams, promise, listeners, retries, timers, fetching, lastId,
                     link, socket, wsState>>
  PROVE  Resumed'
<1>1. PICK r \in Ranges(replies) :
        Ranges(replies) \subseteq Ranges(replies') \cup {r} /\ Delivered(r.results)
  BY DEF Resends
<1>2. socket \in SocketIds /\ link[socket] /\ readyState[socket] = "OPEN"
  BY DEF Resumed
<1>3. EntriesIn(inbox'[socket]) = EntriesIn(inbox[socket])
        \cup {x \in EntriesIn(r.results) : x.event.job \in SessionJobs}
  BY <1>1, <1>2 DEF Delivered
<1>4. Waiting' = Waiting
  BY DEF Waiting, Outcomes, Entries, Manager!Entries, Client!Page, Resends
<1>5. ASSUME NEW z \in Waiting PROVE OnItsWay(z.event.job)'
  <2>1. z.event.job \in SessionJobs
    BY DEF Waiting, Outcomes
  <2>2. OnItsWay(z.event.job)
    BY DEF Resumed
  <2>3. \A c : Covers(c, z.event.job) => Covers(c, z.event.job)'
    BY DEF Covers, Server!incrementId, ScopedOf, Entries, Manager!Entries
  <2>4. CASE \E x \in EntriesIn(inbox[socket]) : x.event.job = z.event.job
    BY <1>3, <2>4 DEF OnItsWay
  <2>5. CASE \E c \in Ranges(commands) : Covers(c, z.event.job)
    BY <2>3, <2>5 DEF OnItsWay, Resends, Ranges
  <2>6. ASSUME NEW q \in Ranges(replies), \E x \in EntriesIn(q.results) : x.event.job = z.event.job
        PROVE  OnItsWay(z.event.job)'
    <3>1. CASE q = r
      BY <1>3, <2>1, <2>6, <3>1 DEF OnItsWay
    <3>2. CASE q \in Ranges(replies')
      BY <2>6, <3>2 DEF OnItsWay, Ranges
    <3> QED BY <1>1, <3>1, <3>2
  <2> QED BY <2>2, <2>4, <2>5, <2>6 DEF OnItsWay
<1>6. readyState'[socket] = "OPEN"
  BY <1>2 DEF OpenStay
<1> QED BY <1>2, <1>4, <1>5, <1>6 DEF Resumed

(* Redis serves a range query: what the range covers is in the answer. *)
LEMMA ResumedServes ==
  ASSUME NEW A, ProducersHold(A), ProducersInv, Resumed, Spent', Serves, OpenStay,
         UNCHANGED <<streams, promise, listeners, retries, timers, fetching, lastId,
                     link, socket, wsState>>
  PROVE  Resumed'
<1>1. PICK c \in Ranges(commands) :
        /\ Ranges(commands) \subseteq Ranges(commands') \cup {c}
        /\ Spent => \E r \in Ranges(replies') : r.results = XRange(streams[Session], c.start, c.end)
  BY DEF Serves
<1>2. PICK r \in Ranges(replies') : r.results = XRange(streams[Session], c.start, c.end)
  BY <1>1 DEF Resumed
<1>3. UNCHANGED <<lastFirehoseId, inbox>> /\ Ranges(replies) \subseteq Ranges(replies')
  BY DEF Serves
<1>4. Waiting' = Waiting
  BY <1>3 DEF Waiting, Outcomes, Entries, Manager!Entries, Client!Page
<1>5. ASSUME NEW z \in Waiting PROVE OnItsWay(z.event.job)'
  <2>1. z.event.job \in SessionJobs /\ z \in Outcomes
    BY DEF Waiting, Outcomes
  <2>2. OnItsWay(z.event.job)
    BY DEF Resumed
  <2>3. \A k : Covers(k, z.event.job) => Covers(k, z.event.job)'
    BY DEF Covers, Server!incrementId, ScopedOf, Entries, Manager!Entries
  <2>4. CASE \E x \in EntriesIn(inbox[socket]) : x.event.job = z.event.job
    BY <1>3, <2>4 DEF OnItsWay
  <2>5. ASSUME NEW k \in Ranges(commands), Covers(k, z.event.job)
        PROVE  OnItsWay(z.event.job)'
    <3>1. CASE k = c
      <4>1. PICK y : y \in ScopedOf(z.event.job)
        BY <2>1 DEF ProducersInv, Paired
      <4>2. y \in EntriesIn(r.results)
        BY <1>2, <2>1, <2>5, <3>1, <4>1, RangeCovers
      <4>3. y.event.job = z.event.job
        BY <4>1 DEF ScopedOf
      <4> QED BY <1>2, <4>2, <4>3 DEF OnItsWay, Ranges
    <3>2. CASE k \in Ranges(commands')
      BY <2>3, <2>5, <3>2 DEF OnItsWay, Ranges
    <3> QED BY <1>1, <3>1, <3>2
  <2>6. CASE \E q \in Ranges(replies) : \E x \in EntriesIn(q.results) : x.event.job = z.event.job
    BY <1>3, <2>6 DEF OnItsWay, Ranges
  <2> QED BY <2>2, <2>4, <2>5, <2>6 DEF OnItsWay
<1>6. readyState'[socket] = "OPEN"
  BY DEF Resumed, OpenStay
<1> QED BY <1>4, <1>5, <1>6 DEF Resumed

(* The server moves, the page does not. *)
LEMMA ServerMovesPage ==
  ASSUME NEW A, A = announced, Holds(A), WsConditions, WsInv, ServerNext
  PROVE  WsInv'
<1>1. ServerHolds(A) /\ ProducersHold(A) /\ StartSocket \in SocketIds
  BY GlobalAsyncQueriesAssumption DEF Holds, WsConditions
<1>2. ProducersInv /\ CursorInv /\ SocketsInv /\ PageInv /\ lastFirehoseId \in Ids
  BY DEF WsInv, CursorInv
<1>3. /\ CursorInv' /\ SocketsInv' /\ UNCHANGED link /\ OpenStay
      /\ Rests \/ Forwards(A) \/ Resends \/ Serves
  BY <1>1, <1>2, ServerActs DEF WsConditions
<1>4. UNCHANGED <<managerVars, clientVars, socket>>
  BY DEF ServerNext, Subscribe, Resend, Gc, BeginRead, AnswerRead, ReadTimesOut, AnswerRange,
         SocketCloses, RedisFails, Restart, ServerOnly
<1>5. faults' \in Nat /\ (Spent => Spent')
  <2>1. UNCHANGED faults \/ (faults < MaxFaults /\ faults' = faults + 1)
    BY DEF ServerNext, Subscribe, Resend, Gc, BeginRead, AnswerRead, ReadTimesOut, AnswerRange,
           SocketCloses, RedisFails, Restart, Fault
  <2> QED BY <2>1 DEF WsInv, Spent
<1>6. UNCHANGED <<streams, now, announced, task, status, promise, listeners, retries, timers,
                  fetching, lastId, poll, wsState, wsFrom>>
  BY <1>4 DEF managerVars, clientVars
<1>7. OneOutcome'
  BY <1>2, <1>6, OutcomesStay DEF ProducersInv
<1>8. ProducersInv' /\ ProducersMove
  BY <1>1, <1>2, <1>6, <1>7, ProducersStay
<1>9. PageInv'
  <2>1. CASE Rests
    <3>1. ProducersHold(A)' /\ UNCHANGED lastFirehoseId
      BY <1>1, <1>4, <2>1, Unchanged DEF Rests
    <3>2. ASSUME Sound(Client!Page) PROVE PageDoes({})
      BY <1>1, <1>2, <1>6, <1>8, <3>1, <3>2, NothingNewWaits
    <3> QED BY <1>1, <1>2, <1>3, <1>4, <1>5, <1>6, <1>8, <2>1, <3>2, PageStays
  <2>2. CASE GaveUp
    BY <1>5, <1>6, <2>2 DEF GaveUp, PageInv
  <2>3. CASE ~Rests /\ ~GaveUp
    <3>1. poll' = "off" /\ Sound(Client!Page') /\ (Following \/ Away \/ Resumed)
      BY <1>2, <1>6, <2>3 DEF PageInv, GaveUp, Client!Page
    <3>2. ASSUME Following PROVE Following'
      <4>1. Forwards(A)
        BY <1>3, <2>3, <3>2 DEF Following, NoRanges, Resends, Serves
      <4> QED BY <1>1, <1>2, <1>3, <1>4, <1>6, <1>8, <3>2, <4>1, FollowingForwards
    <3>3. ASSUME Away PROVE Away'
      <4>1. Forwards(A) /\ Spent'
        BY <1>3, <1>5, <2>3, <3>3 DEF Away, NoRanges, Resends, Serves
      <4> QED BY <1>1, <1>2, <1>3, <1>4, <1>6, <1>8, <3>3, <4>1, AwayForwards
    <3>4. ASSUME Resumed PROVE Resumed'
      <4>1. Spent'
        BY <1>5, <3>4 DEF Resumed
      <4>2. CASE Forwards(A)
        BY <1>1, <1>2, <1>3, <1>4, <1>6, <3>4, <4>1, <4>2, ResumedForwards
      <4>3. CASE Resends
        BY <1>3, <1>4, <1>6, <3>4, <4>1, <4>3, ResumedResends
      <4>4. CASE Serves
        BY <1>1, <1>2, <1>3, <1>4, <1>6, <3>4, <4>1, <4>4, ResumedServes
      <4> QED BY <1>3, <2>3, <4>2, <4>3, <4>4
    <3> QED BY <3>1, <3>2, <3>3, <3>4 DEF PageInv
  <2> QED BY <2>1, <2>2, <2>3
<1> QED BY <1>3, <1>5, <1>8, <1>9 DEF WsInv

-----------------------------------------------------------------------------
(* What stays while the server is left alone. *)
LEMMA CursorStays ==
  ASSUME NEW A, ServerHolds(A), CursorInv, ProducersMove,
         \A x \in Entries(Full)' : Known(x.id)', streams[Full].last \in Ids,
         UNCHANGED <<lastFirehoseId, commands, replies>>
  PROVE  CursorInv'
<1>1. lastFirehoseId' \in Ids /\ IdLeq(lastFirehoseId', streams'[Full].last)
  <2>1. /\ lastFirehoseId \in Ids /\ IdLeq(lastFirehoseId, streams[Full].last)
        /\ streams'[Full].last \in Ids /\ IdLeq(streams[Full].last, streams'[Full].last)
    BY DEF CursorInv, ProducersMove
  <2> QED BY <2>1, IdsAreOrdered DEF IdLeq
<1>2. ASSUME NEW results, results # <<>>, Len(results) \in 1 .. Len(results), BatchIsNext(results)
      PROVE  BatchIsNext(results)'
  <2>1. \A x \in EntriesIn(results) : IdLess(lastFirehoseId, x.id) /\ Known(x.id)'
    BY <1>2 DEF BatchIsNext, ProducersMove
  <2>2. Known(results[Len(results)].id)
    BY <1>2 DEF BatchIsNext, EntriesIn
  <2>3. ASSUME NEW z \in Entries(Full)', IdLess(lastFirehoseId, z.id),
               IdLeq(z.id, results[Len(results)].id)
        PROVE  z \in EntriesIn(results)
    <3>1. z.id \in Ids /\ results[Len(results)].id \in Ids
          /\ IdLeq(results[Len(results)].id, streams[Full].last)
      BY <2>2 DEF Known
    <3>2. IdLeq(z.id, streams[Full].last)
      BY <2>3, <3>1, IdsAreOrdered DEF IdLeq
    <3>3. ~IdLess(streams[Full].last, z.id)
      BY <3>1, <3>2, IdsAreOrdered DEF IdLeq
    <3>4. z \in Entries(Full)
      BY <3>3 DEF ProducersMove
    <3> QED BY <1>2, <2>3, <3>4 DEF BatchIsNext
  <2> QED BY <1>2, <2>1, <2>3 DEF BatchIsNext
<1>3. \A r \in EntriesIn(replies') :
        r.op = "xread" /\ r.results # <<>> => BatchIsNext(r.results)'
  <2> SUFFICES ASSUME NEW r \in EntriesIn(replies), r.op = "xread", r.results # <<>>
               PROVE  BatchIsNext(r.results)'
    OBVIOUS
  <2>1. replies \in Seq(Answers(A))
    BY DEF ServerHolds, Answers
  <2>2. r \in Answers(A)
    BY <2>1, EntriesOfSeq
  <2>3. r.results \in Seq(Said(A))
    BY <2>2 DEF Answers
  <2>4. Len(r.results) \in 1 .. Len(r.results)
    BY <2>3, EmptySeq
  <2> QED BY <1>2, <2>4 DEF CursorInv
<1> QED BY <1>1, <1>3 DEF CursorInv

(* The producers' part, in the steps of the others. *)
LEMMA ProducersAlone ==
  ASSUME NEW A, A = announced, Holds(A), WsInv, UNCHANGED managerVars,
         \A j \in SessionJobs : promise'[j] = "idle" => promise[j] = "idle"
  PROVE  ProducersInv' /\ ProducersMove /\ Outcomes' = Outcomes
<1>1. ProducersHold(A) /\ ProducersInv
  BY DEF Holds, WsInv
<1>2. UNCHANGED <<task, status, streams, now, announced>>
  BY DEF managerVars
<1>3. OneOutcome'
  BY <1>1, <1>2, OutcomesStay DEF ProducersInv
<1> QED BY <1>1, <1>2, <1>3, ProducersStay

(* A promise does not become idle again. *)
LEMMA IdleStays ==
  ASSUME NEW A, A = announced, Holds(A), Next
  PROVE  \A j \in SessionJobs : promise'[j] = "idle" => promise[j] = "idle"
<1>1. UNCHANGED clientVars \/ PageStep(A)
  BY PagePart
<1>2. PageStep(A) => Changes(A, promise, promise')
  BY PageStepHolds DEF Holds, PageHolds, TransportsHold
<1>3. Changes(A, promise, promise') \/ UNCHANGED promise
  BY <1>1, <1>2 DEF clientVars
<1> QED BY <1>3 DEF Changes

(* Steps that the server takes no part in: what is left to show is that the  *)
(* page's part of the invariant is kept.                                     *)
LEMMA WithoutServer ==
  ASSUME NEW A, Holds(A), WsInv, ProducersInv', ProducersMove, PageInv',
         UNCHANGED <<lastFirehoseId, commands, replies>>,
         UNCHANGED <<channels, sockets, readyState, link>>,
         UNCHANGED faults \/ (faults < MaxFaults /\ faults' = faults + 1)
  PROVE  WsInv'
<1>1. streams[Full].last \in Ids /\ ServerHolds(A) /\ CursorInv /\ SocketsInv
  BY DEF Holds, ProducersHold, StreamsOf, WsInv
<1>2. CursorInv'
  BY <1>1, CursorStays DEF ProducersInv
<1>3. SocketsInv'
  BY <1>1 DEF SocketsInv
<1>4. faults' \in Nat
  BY DEF WsInv
<1> QED BY <1>2, <1>3, <1>4 DEF WsInv

-----------------------------------------------------------------------------
(* The producers' steps. *)
LEMMA JobsKeepWs ==
  ASSUME NEW A, A = announced, Holds(A), NEW B, B = announced', Holds(B)', WsConditions, WsInv,
         NEW j \in Jobs,
         Ask(j) \/ Work(j) \/ QueryFails(j) \/ AddFails(j) \/ TimesOut(j) \/ WorkerLost(j)
  PROVE  WsInv'
<1>1. /\ ProducersHold(A) /\ ProducersHold(B)' /\ StartSocket \in SocketIds /\ ProducersInv
      /\ CursorInv /\ PageInv /\ lastFirehoseId \in Ids
      /\ Client!Page \in Pages(A) /\ promise \in [SessionJobs -> Promises]
  BY FieldsOfPage, GlobalAsyncQueriesAssumption
     DEF Holds, PageHolds, WsConditions, WsInv, CursorInv, Client!Page
<1>2. /\ UNCHANGED <<serverVars, socket>>
      /\ UNCHANGED faults \/ (faults < MaxFaults /\ faults' = faults + 1)
  BY DEF Ask, Work, QueryFails, AddFails, TimesOut, WorkerLost, ManagerOnly, Fault
<1>3. /\ UNCHANGED <<channels, sockets, lastFirehoseId, commands, replies, readyState, link, inbox>>
      /\ Rests /\ OpenStay /\ (Spent => Spent')
  BY <1>2 DEF serverVars, Rests, SameRanges, Ranges, OpenStay, Spent
<1>4. ASSUME ProducersInv', ProducersMove, UNCHANGED <<poll, wsState, wsFrom>>,
             Sound(Client!Page) => PageDoes({})
      PROVE  WsInv'
  <2>1. PageInv'
    BY <1>1, <1>2, <1>3, <1>4, PageStays
  <2> QED BY <1>2, <1>3, <1>4, <2>1, WithoutServer
<1>5. CASE Ask(j)
  <2>1. /\ UNCHANGED <<streams, now, announced, poll, wsState, wsFrom>>
        /\ task[j] = "none" /\ task' = [task EXCEPT ![j] = "queued"]
    BY <1>5 DEF Ask, Manager!submit_job, Client!Ask, Client!pollVars, Client!wsVars, clientVars
  <2>2. OneOutcome'
    BY <1>1, <1>5, OutcomesAsk DEF ProducersInv
  <2>3. ProducersInv' /\ ProducersMove /\ Outcomes' = Outcomes
    BY <1>1, <2>1, <2>2, ProducersStay
  <2>4. ASSUME Sound(Client!Page) PROVE PageDoes({})
    <3>1. CASE j \in SessionJobs
      <4>1. Client!Ask(j)
        BY <1>5, <3>1 DEF Ask
      <4>2. Moves(Client!Page, Client!Page')
        BY <1>1, <2>4, <3>1, <4>1, ChartMoves
      <4> QED BY <1>1, <1>3, <2>3, <4>2, Moved DEF ProducersInv
    <3>2. CASE j \notin SessionJobs
      <4>1. UNCHANGED <<lastFirehoseId, promise, listeners, retries, timers, fetching, lastId>>
        BY <1>3, <1>5, <3>2 DEF Ask, clientVars
      <4> QED BY <1>1, <2>3, <2>4, <4>1, NothingNewWaits
    <3> QED BY <3>1, <3>2
  <2> QED BY <1>4, <2>1, <2>3, <2>4
<1>6. CASE Work(j) \/ QueryFails(j) \/ TimesOut(j) \/ WorkerLost(j)
  <2>1. Runs(j) /\ Announce /\ UNCHANGED clientVars
    BY <1>6 DEF Work, QueryFails, TimesOut, WorkerLost, ManagerOnly, Runs
  <2>2. UNCHANGED <<promise, listeners, retries, timers, fetching, lastId, poll, wsState, wsFrom>>
    BY <2>1 DEF clientVars
  <2>3. ProducersInv' /\ ProducersMove
    BY <1>1, <2>1, <2>2, ProducersRun
  <2>4. ASSUME Sound(Client!Page) PROVE PageDoes({})
    BY <1>1, <1>3, <2>2, <2>3, <2>4, NothingNewWaits
  <2> QED BY <1>4, <2>2, <2>3, <2>4
<1>7. ~AddFails(j)
  BY DEF AddFails, Fault, WsConditions
<1> QED BY <1>5, <1>6, <1>7

-----------------------------------------------------------------------------
(* The page's own steps, while its connection stays as it is. *)
LEMMA ChartsKeepWs ==
  ASSUME NEW A, A = announced, Holds(A), WsConditions, WsInv, Next,
         RetryTimer \/ \E j \in SessionJobs : Answered(j) \/ Fetched(j) \/ FetchMisses(j) \/ Abandon(j)
  PROVE  WsInv'
<1>1. /\ ProducersHold(A) /\ StartSocket \in SocketIds /\ ProducersInv
      /\ CursorInv /\ PageInv /\ lastFirehoseId \in Ids /\ Client!Page \in Pages(A)
  BY GlobalAsyncQueriesAssumption DEF Holds, PageHolds, WsConditions, WsInv, CursorInv
<1>2. /\ UNCHANGED <<managerVars, serverVars, socket, poll, wsState, wsFrom>>
      /\ UNCHANGED faults \/ (faults < MaxFaults /\ faults' = faults + 1)
  BY DEF RetryTimer, Answered, Fetched, FetchMisses, Abandon, ClientOnly, Fault, Client!RetryTimer,
         Client!waitForAsyncData, Client!FetchReturns, Client!Abandon, Client!pollVars, Client!wsVars
<1>3. /\ UNCHANGED <<channels, sockets, lastFirehoseId, commands, replies, readyState, link, inbox>>
      /\ Rests /\ OpenStay /\ (Spent => Spent')
  BY <1>2 DEF serverVars, Rests, SameRanges, Ranges, OpenStay, Spent
<1>4. \A j \in SessionJobs : promise'[j] = "idle" => promise[j] = "idle"
  BY IdleStays
<1>5. ProducersInv' /\ ProducersMove /\ Outcomes' = Outcomes
  BY <1>2, <1>4, ProducersAlone
<1>6. ASSUME Sound(Client!Page) PROVE \E events \in SUBSET (DOMAIN timers) : PageDoes(events)
  <2>1. CASE RetryTimer
    <3>1. PICK x \in DOMAIN timers :
            /\ promise[x.event.job] = "requested" => retries[x.event.job] < MaxRetries
            /\ Client!RetryTimer(x)
      BY <2>1 DEF RetryTimer, ClientOnly, WsConditions
    <3>2. promise[x.event.job] # "idle"
      <4>1. timers \in BagsOf(Heard(A))
        BY <1>1, FieldsOfPage DEF Client!Page
      <4>2. x \in Said(A) /\ x.event.job \in SessionJobs
        BY <4>1 DEF BagsOf, Heard
      <4> QED BY <1>1, <4>2, OutcomesAreAsked DEF ProducersInv
    <3>3. TakenUp(Client!Page, {x}, Client!Page')
      BY <1>1, <1>6, <3>1, <3>2, TimerTakenUp
    <3>4. PageDoes({x})
      BY <1>3, <1>5, <3>3, TakesUp
    <3> QED BY <3>4
  <2>2. CASE \E j \in SessionJobs : Answered(j) \/ Fetched(j) \/ FetchMisses(j) \/ Abandon(j)
    <3>1. PICK j \in SessionJobs :
            \/ Client!waitForAsyncData(j) \/ Client!Abandon(j)
            \/ \E ok \in BOOLEAN : Client!FetchReturns(j, ok)
      BY <2>2 DEF Answered, Fetched, FetchMisses, Abandon, ClientOnly
    <3>2. Moves(Client!Page, Client!Page')
      BY <1>1, <1>6, <3>1, ChartMoves
    <3>3. PageDoes({})
      BY <1>1, <1>3, <1>5, <3>2, Moved DEF ProducersInv
    <3> QED BY <3>3
  <2> QED BY <2>1, <2>2
<1>7. PageInv'
  BY <1>1, <1>2, <1>3, <1>5, <1>6, PageStays
<1> QED BY <1>2, <1>3, <1>5, <1>7, WithoutServer

-----------------------------------------------------------------------------
(* The connection: how a page that follows it loses it, and how one that     *)
(* lost it waits for another.                                                *)
LEMMA FollowingIsResumable ==
  ASSUME Following
  PROVE  NoRanges /\ \A id \in {lastId} \cup TimerIds : Resumable(id)
BY DEF Following, Resumable

(* A page that loses its connection, or seeks another, is away. *)
LEMMA IntoAway ==
  ASSUME ProducersMove, lastFirehoseId \in Ids, UNCHANGED <<lastFirehoseId, commands, replies>>,
         NoRanges, \A id \in {lastId} \cup TimerIds : Resumable(id),
         PageDoes({}), Spent',
         \/ socket' = StartSocket /\ wsState' = "open" /\ ~link'[socket'] /\ inbox'[socket'] = <<>>
         \/ socket' = NoSocket /\ wsState' \in {"closed", "connecting"},
         wsState' = "connecting" => wsFrom' = lastId
  PROVE  Away'
<1>1. \A id : Carried(id) => Carried(id)'
  BY CarriedStays DEF IdLeq
<1>2. {lastId'} \cup TimerIds' \subseteq {lastId} \cup TimerIds
  BY DEF PageDoes, TimerIds
<1>3. NoRanges'
  BY DEF NoRanges, Ranges
<1>4. \A id : Resumable(id) => Resumable(id)'
  BY <1>1 DEF Resumable, PageDoes
<1>5. \A id \in {lastId'} \cup TimerIds' : Resumable(id)'
  BY <1>2, <1>4
<1>6. wsState' = "connecting" => Resumable(wsFrom)'
  BY <1>4
<1> QED BY <1>3, <1>5, <1>6 DEF Away

(* One fault is all that may break or reload a page's connection. *)
LEMMA LastFault ==
  ASSUME WsConditions, WsInv, Fault("drop") \/ Fault("reload")
  PROVE  ~Spent /\ Spent'
<1>1. MaxFaults \in Nat /\ MaxFaults <= 1 /\ faults \in Nat /\ faults < MaxFaults
  BY DEF Fault, WsConditions, WsInv
<1> QED BY <1>1 DEF Fault, Spent

(* The peer of a socket goes. *)
LEMMA GoneKeeps ==
  ASSUME NEW A, ServerHolds(A), SocketsInv, socket \in SocketIds, Server!PeerGone(socket)
  PROVE  /\ SocketsInv' /\ ~link'[socket] /\ inbox'[socket] = <<>>
         /\ UNCHANGED <<lastFirehoseId, commands, replies>>
<1>1. /\ link' = [link EXCEPT ![socket] = FALSE] /\ inbox' = [inbox EXCEPT ![socket] = <<>>]
      /\ readyState[socket] = "OPEN"
      /\ UNCHANGED <<channels, sockets, lastFirehoseId, commands, replies, readyState>>
  BY DEF Server!PeerGone, Server!registries, Server!cursor
<1>2. DOMAIN link = SocketIds /\ DOMAIN inbox = SocketIds
  BY DEF ServerHolds, Server!RegistryTypeOK
<1>3. \A s \in SocketIds : link'[s] = IF s = socket THEN FALSE ELSE link[s]
  BY <1>1, <1>2
<1>4. SocketsInv'
  BY <1>1, <1>3 DEF SocketsInv
<1> QED BY <1>1, <1>2, <1>4

(* The connection breaks, or the page is loaded again: only a page that      *)
(* follows, as this is the last fault.                                       *)
LEMMA LosesConnection ==
  ASSUME NEW A, A = announced, Holds(A), WsConditions, WsInv, Next, Break \/ Reload
  PROVE  WsInv'
<1>1. /\ ProducersHold(A) /\ ServerHolds(A) /\ StartSocket \in SocketIds /\ ProducersInv
      /\ CursorInv /\ SocketsInv /\ PageInv /\ lastFirehoseId \in Ids /\ Client!Page \in Pages(A)
      /\ streams[Full].last \in Ids
  BY GlobalAsyncQueriesAssumption
     DEF Holds, PageHolds, WsConditions, WsInv, CursorInv, ProducersHold, StreamsOf
<1>2. UNCHANGED managerVars /\ (Fault("drop") \/ Fault("reload"))
  BY DEF Break, Reload, ServerOnly
<1>3. ~Spent /\ Spent' /\ faults' \in Nat
  <2>1. ~Spent /\ Spent'
    BY <1>2, LastFault
  <2> QED BY <1>2, <2>1 DEF Fault, WsInv
<1>4. poll = "off" /\ Sound(Client!Page) /\ Following
  BY <1>1, <1>3 DEF PageInv, Away, Resumed
<1>5. socket = StartSocket /\ wsState = "open" /\ link[socket] /\ readyState[socket] = "OPEN"
      /\ socket # NoSocket
  BY <1>1, <1>4, GlobalAsyncQueriesAssumption DEF Following
<1>6. Server!PeerGone(socket)
  BY <1>5 DEF Break, Reload, ServerOnly
<1>7. /\ SocketsInv' /\ ~link'[socket] /\ inbox'[socket] = <<>>
      /\ UNCHANGED <<lastFirehoseId, commands, replies>>
  BY <1>1, <1>5, <1>6, GoneKeeps
<1>8. \A j \in SessionJobs : promise'[j] = "idle" => promise[j] = "idle"
  <2>1. CASE Break
    BY <2>1 DEF Break, ServerOnly, clientVars
  <2>2. CASE Reload
    BY <2>2 DEF Reload, Client!Reload
  <2> QED BY <2>1, <2>2
<1>9. ProducersInv' /\ ProducersMove /\ Outcomes' = Outcomes
  BY <1>2, <1>8, ProducersAlone
<1>10. NoRanges /\ \A id \in {lastId} \cup TimerIds : Resumable(id)
  BY <1>4, FollowingIsResumable
<1>11. CursorInv'
  BY <1>1, <1>7, <1>9, CursorStays DEF ProducersInv
<1>12. CASE Break
  <2>1. UNCHANGED clientVars /\ UNCHANGED socket
    BY <1>12 DEF Break, ServerOnly
  <2>2. UNCHANGED <<promise, listeners, retries, timers, fetching, lastId, poll, wsState>>
    BY <2>1 DEF clientVars
  <2>3. ProducersHold(A)'
    BY <1>1, <1>2, Unchanged
  <2>4. PageDoes({})
    BY <1>1, <1>4, <1>7, <1>9, <2>2, <2>3, NothingNewWaits
  <2>5. Away'
    BY <1>1, <1>3, <1>5, <1>7, <1>9, <1>10, <2>1, <2>2, <2>4, IntoAway
  <2>6. PageInv'
    BY <1>4, <2>2, <2>4, <2>5 DEF PageInv, PageDoes
  <2> QED BY <1>3, <1>7, <1>9, <1>11, <2>6 DEF WsInv
<1>13. CASE Reload
  <2>1. /\ Client!Reload /\ socket' = NoSocket
        /\ poll' = "off" /\ wsState' = "connecting" /\ wsFrom' = lastId
    BY <1>13 DEF Reload, Client!Reload, Client!Loaded, Client!Rest, WsConditions
  <2>2. Moves(Client!Page, Client!Page')
    BY <1>1, <2>1, ReloadMoves
  <2>3. PageDoes({})
    BY <1>1, <1>7, <1>9, <2>2, Moved DEF ProducersInv
  <2>4. Away'
    BY <1>1, <1>3, <1>7, <1>9, <1>10, <2>1, <2>3, IntoAway
  <2>5. PageInv'
    BY <2>1, <2>3, <2>4 DEF PageInv, PageDoes
  <2> QED BY <1>3, <1>7, <1>9, <1>11, <2>5 DEF WsInv
<1> QED BY <1>12, <1>13

(* The page notices that its connection is gone, or its timer tries another. *)
LEMMA SeeksConnection ==
  ASSUME NEW A, A = announced, Holds(A), WsConditions, WsInv, Next,
         PageNotices \/ WsTimer \/ Open \/ Refused
  PROVE  WsInv'
<1>1. /\ ProducersHold(A) /\ StartSocket \in SocketIds /\ NoSocket \notin SocketIds /\ ProducersInv
      /\ CursorInv /\ PageInv /\ lastFirehoseId \in Ids
  BY GlobalAsyncQueriesAssumption DEF Holds, WsConditions, WsInv, CursorInv
<1>2. /\ UNCHANGED <<managerVars, serverVars>>
      /\ UNCHANGED <<promise, listeners, retries, timers, fetching, lastId>>
      /\ UNCHANGED faults \/ (faults < MaxFaults /\ faults' = faults + 1)
  BY DEF PageNotices, WsTimer, Open, Refused, ClientOnly, Fault, Client!WsClose, Client!WsTimer,
         Client!WsOpen, Client!pageVars
<1>3. /\ UNCHANGED <<channels, sockets, lastFirehoseId, commands, replies, readyState, link, inbox>>
      /\ Rests /\ OpenStay /\ (Spent => Spent')
  BY <1>2 DEF serverVars, Rests, SameRanges, Ranges, OpenStay, Spent
<1>4. ProducersInv' /\ ProducersMove /\ Outcomes' = Outcomes
  BY <1>2, ProducersAlone
<1>5. ProducersHold(A)'
  BY <1>1, <1>2, Unchanged
<1>6. wsState # "gaveUp"
  BY DEF PageNotices, WsTimer, Open, Refused, ClientOnly, Client!WsClose, Client!WsTimer, Client!WsOpen
<1>7. poll = "off" /\ Sound(Client!Page) /\ (Following \/ Away \/ Resumed)
  BY <1>1, <1>6 DEF PageInv
<1>8. PageDoes({})
  BY <1>1, <1>2, <1>3, <1>4, <1>5, <1>7, NothingNewWaits
<1>9. ASSUME PageNotices PROVE PageInv'
  <2>1. socket # NoSocket /\ ~link[socket] /\ socket' = NoSocket /\ wsState' = "closed" /\ poll' = poll
    BY <1>9 DEF PageNotices, Client!WsClose, Client!pollVars
  <2>2. Away /\ Spent'
    BY <1>3, <1>7, <2>1 DEF Following, Away, Resumed
  <2>3. Away'
    BY <1>1, <1>3, <1>4, <1>8, <2>1, <2>2, IntoAway DEF Away
  <2> QED BY <1>7, <1>8, <2>1, <2>3 DEF PageInv, PageDoes
<1>10. ASSUME WsTimer PROVE PageInv'
  <2>1. wsState = "closed" /\ socket' = socket
        /\ \/ wsState' = "connecting" /\ wsFrom' = lastId /\ poll' = poll
           \/ wsState' = "gaveUp"
    BY <1>10 DEF WsTimer, ClientOnly, Client!WsTimer, Client!wsConnect, Client!pollVars
  <2>2. Away /\ Spent' /\ socket = NoSocket
    BY <1>3, <1>7, <2>1 DEF Following, Away, Resumed
  <2>3. CASE wsState' = "connecting" /\ wsFrom' = lastId /\ poll' = poll
    <3>1. Away'
      BY <1>1, <1>3, <1>4, <1>8, <2>1, <2>2, <2>3, IntoAway DEF Away
    <3> QED BY <1>7, <1>8, <2>3, <3>1 DEF PageInv, PageDoes
  <2> QED BY <2>1, <2>2, <2>3 DEF PageInv
<1>11. ASSUME Open PROVE PageInv'
  <2>1. socket # NoSocket /\ wsState = "connecting" /\ wsState' = "open" /\ socket' = socket /\ poll' = poll
    BY <1>11 DEF Open, ClientOnly, Client!WsOpen, Client!pollVars
  <2>2. Resumed /\ Spent'
    BY <1>3, <1>7, <2>1 DEF Following, Away, Resumed
  <2>3. Resumed'
    BY <1>3, <1>4, <1>8, <2>1, <2>2, ResumedStays
  <2> QED BY <1>7, <1>8, <2>1, <2>3 DEF PageInv, PageDoes
<1>12. ~Refused
  <2> SUFFICES ASSUME Refused PROVE FALSE
    OBVIOUS
  <2>1. wsState = "connecting" /\ socket = NoSocket /\ ~Spent
    BY DEF Refused, Fault, Spent
  <2> QED BY <1>1, <1>7, <2>1 DEF Following, Away, Resumed
<1>13. PageInv'
  BY <1>9, <1>10, <1>11, <1>12
<1> QED BY <1>2, <1>3, <1>4, <1>13, WithoutServer

(* The page connects again, from the ID it resumes at: the server is asked   *)
(* for the entries between that ID and its own cursor, which are all those   *)
(* the page still waits for.                                                 *)
LEMMA RangeIsEnough ==
  ASSUME NEW A, ProducersHold(A), ProducersInv, lastFirehoseId \in Ids,
         Resumable(wsFrom), NEW z \in Waiting,
         NEW c, c.start = Server!incrementId(wsFrom), c.end = lastFirehoseId
  PROVE  Covers(c, z.event.job)
<1>1. z \in Outcomes /\ IdLeq(z.id, lastFirehoseId) /\ z.id \in Ids
  BY OutcomesAreSaid DEF Waiting
<1>2. Known(wsFrom) /\ wsFrom \in Ids /\ IdLess(wsFrom, z.id)
  BY DEF Resumable, Carried, Known
<1>3. \A y \in ScopedOf(z.event.job) : IdLess(wsFrom, y.id)
  BY <1>1, <1>2 DEF Known
<1>4. ASSUME NEW y \in ScopedOf(z.event.job) PROVE IdLeq(y.id, lastFirehoseId)
  <2>1. IdLeq(y.id, z.id)
    BY <1>1 DEF ProducersInv, Paired
  <2>2. y.id \in Ids
    <3>1. EntriesIn(streams[Session].entries) \subseteq Heard(A)
      BY SessionIsHeard, EntriesOfSeq
    <3> QED BY <3>1 DEF ScopedOf, Entries, Manager!Entries, EntriesIn, Heard, Said, Entry
  <2> QED BY <1>1, <2>1, <2>2, IdsAreOrdered DEF IdLeq
<1> QED BY <1>2, <1>3, <1>4 DEF Covers

(* The server accepts the connection and asks for the range. *)
LEMMA ConnectionActs ==
  ASSUME NEW A, ServerHolds(A), CursorInv, SocketsInv, UNCHANGED streams,
         wsFrom \in Ids, wsFrom # NoId, NEW s \in SocketIds, Server!wsConnection(s, Session, wsFrom)
  PROVE  /\ CursorInv' /\ SocketsInv' /\ UNCHANGED lastFirehoseId
         /\ link'[s] /\ readyState'[s] = "OPEN"
         /\ \E c \in Ranges(commands') : /\ c.start = Server!incrementId(wsFrom)
                                         /\ c.end = lastFirehoseId
<1>1. lastFirehoseId \in Ids /\ lastFirehoseId # Dollar
  BY RedisStreamsAssumption DEF CursorInv
<1> DEFINE c == Server!RangeCommand(Session, Server!incrementId(wsFrom), lastFirehoseId)
<1>2. /\ readyState[s] = "NONE" /\ readyState' = [readyState EXCEPT ![s] = "OPEN"]
      /\ sockets' = [x \in DOMAIN sockets \cup {s} |->
                        IF x = s THEN [channel |-> Session, age |-> 0] ELSE sockets[x]]
      /\ channels' = [d \in DOMAIN channels \cup {Session} |->
                         IF d # Session THEN channels[d]
                         ELSE IF Session \in DOMAIN channels THEN channels[Session] \cup {s} ELSE {s}]
      /\ commands' = Append(commands, c)
      /\ UNCHANGED <<lastFirehoseId, replies, link>>
  BY <1>1 DEF Server!wsConnection, Server!trackClient
<1>3. c \in Commands /\ c.op = "xrange" /\ c.start = Server!incrementId(wsFrom) /\ c.end = lastFirehoseId
  <2>1. Server!incrementId(wsFrom) \in Ids
    BY DEF Server!incrementId, Ids
  <2> QED BY <1>1, <2>1 DEF Server!RangeCommand, Commands
<1> HIDE DEF c
<1>4. commands \in Seq(Commands)
  BY DEF ServerHolds
<1>5. /\ EntriesIn(commands') = EntriesIn(commands) \cup {c}
      /\ Server!OneRead(commands) => Server!OneRead(commands')
      /\ Server!NoRead(commands) => Server!NoRead(commands')
  BY <1>2, <1>3, <1>4, QueueAppend, ReadsOfQueues
<1>6. CursorInv'
  BY <1>2, <1>3, <1>5, BatchesStay DEF CursorInv
<1>7. \A x \in SocketIds : readyState'[x] = IF x = s THEN "OPEN" ELSE readyState[x]
  BY <1>2 DEF ServerHolds, Server!RegistryTypeOK
<1>8. link[s] /\ link'[s] /\ readyState'[s] = "OPEN"
  BY <1>2, <1>7 DEF SocketsInv
<1>9. SocketsInv'
  <2> SUFFICES ASSUME NEW x \in SocketIds
               PROVE  /\ readyState'[x] = "NONE" => link'[x]
                      /\ readyState'[x] # "NONE" /\ link'[x] => readyState'[x] = "OPEN"
                      /\ readyState'[x] = "OPEN" => x \in DOMAIN sockets' /\ Session \in DOMAIN channels'
                                                    /\ x \in channels'[Session]
    BY DEF SocketsInv
  <2> QED BY <1>2, <1>7 DEF SocketsInv
<1>10. c \in Ranges(commands')
  BY <1>3, <1>5 DEF Ranges
<1> QED BY <1>2, <1>3, <1>6, <1>8, <1>9, <1>10

(* So all that the page waits for is on its way. *)
LEMMA ConnectKeepsWs ==
  ASSUME NEW A, A = announced, Holds(A), WsConditions, WsInv, Next, Connect
  PROVE  WsInv'
<1>1. /\ ProducersHold(A) /\ ServerHolds(A) /\ StartSocket \in SocketIds /\ NoSocket \notin SocketIds
      /\ ProducersInv /\ CursorInv /\ SocketsInv /\ PageInv /\ lastFirehoseId \in Ids
  BY GlobalAsyncQueriesAssumption DEF Holds, WsConditions, WsInv, CursorInv
<1>2. /\ wsState = "connecting" /\ socket = NoSocket
      /\ UNCHANGED <<managerVars, clientVars, faults>>
  BY DEF Connect
<1>3. PICK s \in SocketIds : Server!wsConnection(s, Session, wsFrom) /\ socket' = s
  BY DEF Connect
<1>4. poll = "off" /\ Sound(Client!Page) /\ Away
  BY <1>1, <1>2 DEF PageInv, Following, Resumed
<1>5. Resumable(wsFrom) /\ wsFrom \in Ids /\ wsFrom # NoId
  <2>1. Resumable(wsFrom) /\ wsFrom \in Ids
    BY <1>2, <1>4 DEF Away, Resumable, Carried, Known
  <2> QED BY <2>1 DEF WsConditions
<1>6. UNCHANGED <<streams, promise, listeners, retries, timers, fetching, lastId, poll, wsState>>
  BY <1>2 DEF managerVars, clientVars
<1>7. /\ CursorInv' /\ SocketsInv' /\ UNCHANGED lastFirehoseId
      /\ link'[s] /\ readyState'[s] = "OPEN"
      /\ \E c \in Ranges(commands') : /\ c.start = Server!incrementId(wsFrom)
                                      /\ c.end = lastFirehoseId
  BY <1>1, <1>3, <1>5, <1>6, ConnectionActs
<1>8. PICK c \in Ranges(commands') : c.start = Server!incrementId(wsFrom) /\ c.end = lastFirehoseId
  BY <1>7
<1>9. ProducersInv'
  BY <1>2, <1>6, ProducersAlone
<1>10. Waiting' = Waiting
  BY <1>6, <1>7 DEF Waiting, Outcomes, Entries, Manager!Entries, Client!Page
<1>11. ASSUME NEW z \in Waiting PROVE OnItsWay(z.event.job)'
  <2>1. Covers(c, z.event.job)
    BY <1>1, <1>5, <1>8, RangeIsEnough
  <2>2. Covers(c, z.event.job)'
    BY <1>6, <2>1 DEF Covers, Server!incrementId, ScopedOf, Entries, Manager!Entries
  <2> QED BY <1>8, <2>2 DEF OnItsWay, Ranges
<1>12. Spent' /\ faults' \in Nat
  BY <1>2, <1>4 DEF Away, Spent, WsInv
<1>13. Resumed'
  BY <1>2, <1>3, <1>6, <1>7, <1>10, <1>11, <1>12 DEF Resumed
<1>14. PageInv'
  BY <1>4, <1>6, <1>13 DEF PageInv, Client!Page
<1> QED BY <1>7, <1>9, <1>12, <1>14 DEF WsInv

(* The page receives the next of what it was sent. *)
LEMMA ReceiveKeepsWs ==
  ASSUME NEW A, A = announced, Holds(A), WsConditions, WsInv, Next, Receive
  PROVE  WsInv'
<1> DEFINE q == inbox[socket]
           x == Head(q)
<1>1. /\ ProducersHold(A) /\ ServerHolds(A) /\ StartSocket \in SocketIds /\ NoSocket \notin SocketIds
      /\ ProducersInv /\ CursorInv /\ SocketsInv /\ PageInv /\ lastFirehoseId \in Ids
      /\ Client!Page \in Pages(A)
  BY GlobalAsyncQueriesAssumption DEF Holds, PageHolds, WsConditions, WsInv, CursorInv
<1>2. /\ socket # NoSocket /\ q # <<>> /\ wsState = "open" /\ Client!processEvents(<<x>>)
      /\ inbox' = [inbox EXCEPT ![socket] = Tail(@)]
      /\ UNCHANGED <<poll, wsState, wsFrom>>
      /\ UNCHANGED <<managerVars, channels, sockets, lastFirehoseId, commands, replies, readyState,
                     link, socket, faults>>
  BY DEF Receive, Client!WsMessage, Client!pollVars, Client!wsVars
<1>3. socket \in SocketIds /\ q \in Seq(Heard(A)) /\ inbox'[socket] = Tail(q)
  BY <1>1, <1>2 DEF Holds, SocketKnown, ServerHolds
<1>4. /\ x \in Heard(A) /\ EntriesIn(q) = {x} \cup EntriesIn(Tail(q)) /\ Tail(q) \in Seq(Heard(A))
      /\ Len(Tail(q)) = Len(q) - 1 /\ \A i \in 1 .. Len(q) - 1 : Tail(q)[i] = q[i + 1]
      /\ x = q[1] /\ Len(q) \in Nat \ {0}
  BY <1>2, <1>3, QueueTail, HeadTailProperties, EmptySeq, LenProperties
<1> HIDE DEF x
<1>5. poll = "off" /\ Sound(Client!Page) /\ (Following \/ Resumed)
  BY <1>1, <1>2 DEF PageInv, Away
<1>6. \A j \in SessionJobs : promise'[j] = "idle" => promise[j] = "idle"
  BY IdleStays
<1>7. ProducersInv' /\ ProducersMove /\ Outcomes' = Outcomes
  BY <1>2, <1>6, ProducersAlone
<1>8. PageDoes({x})
  <2>1. <<x>> \in Seq(Heard(A)) /\ EntriesIn(<<x>>) = {x}
    BY <1>4 DEF EntriesIn
  <2>2. TakenUp(Client!Page, {x}, Client!Page')
    BY <1>1, <1>2, <1>5, <2>1, ReplyTakenUp DEF WsConditions
  <2> QED BY <1>2, <1>7, <2>2, TakesUp
<1>9. ASSUME Following PROVE Following'
  <2>1. \A id : Carried(id) => Carried(id)'
    BY <1>1, <1>2, <1>7, CarriedStays DEF IdLeq
  <2>2. Sorted(q) /\ \A y \in EntriesIn(q) : Carried(y.id)
    BY <1>9 DEF Following
  <2>3. \A y \in EntriesIn(Tail(q)) : IdLess(x.id, y.id)
    <3> SUFFICES ASSUME NEW i \in 1 .. Len(q) - 1 PROVE IdLess(q[1].id, q[i + 1].id)
      BY <1>4 DEF EntriesIn
    <3>1. i + 1 \in 1 .. Len(q) /\ 1 \in 1 .. Len(q) /\ 1 < i + 1
      BY <1>4
    <3> QED BY <2>2, <3>1 DEF Sorted
  <2>4. Sorted(Tail(q))
    <3> SUFFICES ASSUME NEW i \in 1 .. Len(q) - 1, NEW k \in 1 .. Len(q) - 1, i < k
                 PROVE  IdLess(q[i + 1].id, q[k + 1].id)
      BY <1>4 DEF Sorted
    <3>1. i + 1 \in 1 .. Len(q) /\ k + 1 \in 1 .. Len(q) /\ i + 1 < k + 1
      BY <1>4
    <3> QED BY <2>2, <3>1 DEF Sorted
  <2>5. {lastId'} \cup TimerIds' \subseteq {lastId} \cup TimerIds \cup {x.id}
    BY <1>8 DEF PageDoes, TimerIds
  <2>6. \A id \in {lastId} \cup TimerIds \cup {x.id} :
          Carried(id) /\ \A y \in EntriesIn(Tail(q)) : IdLess(id, y.id)
    BY <1>4, <1>9, <2>2, <2>3 DEF Following
  <2>7. \A id \in {lastId'} \cup TimerIds' :
          Carried(id)' /\ \A y \in EntriesIn(inbox'[socket']) : IdLess(id, y.id)
    BY <1>2, <1>3, <2>1, <2>5, <2>6
  <2>8. \A y \in EntriesIn(inbox'[socket']) : Carried(y.id)'
    BY <1>2, <1>3, <1>4, <2>1, <2>2
  <2>9. Waiting' \subseteq EntriesIn(inbox'[socket'])
    BY <1>2, <1>3, <1>4, <1>8, <1>9 DEF Following, PageDoes
  <2>10. NoRanges' /\ Sorted(inbox'[socket'])
    BY <1>2, <1>3, <1>9, <2>4 DEF Following, NoRanges, Ranges
  <2> QED BY <1>2, <1>9, <2>7, <2>8, <2>9, <2>10 DEF Following
<1>10. ASSUME Resumed PROVE Resumed'
  <2>1. ASSUME NEW z \in Waiting' PROVE OnItsWay(z.event.job)'
    <3>1. z \in Waiting /\ x.event.job # z.event.job /\ z \in Outcomes'
      BY <1>8 DEF PageDoes, Waiting
    <3>2. OnItsWay(z.event.job)
      BY <1>10, <3>1 DEF Resumed
    <3>3. \A c : Covers(c, z.event.job) => Covers(c, z.event.job)'
      BY <1>7, <3>1 DEF Covers, ProducersMove, Server!incrementId
    <3>4. CASE \E y \in EntriesIn(q) : y.event.job = z.event.job
      BY <1>2, <1>3, <1>4, <3>1, <3>4 DEF OnItsWay
    <3>5. CASE \/ \E c \in Ranges(commands) : Covers(c, z.event.job)
               \/ \E r \in Ranges(replies) : \E y \in EntriesIn(r.results) : y.event.job = z.event.job
      BY <1>2, <3>3, <3>5 DEF OnItsWay, Ranges
    <3> QED BY <3>2, <3>4, <3>5 DEF OnItsWay
  <2> QED BY <1>2, <1>10, <2>1 DEF Resumed, Spent
<1>11. PageInv'
  BY <1>2, <1>5, <1>8, <1>9, <1>10 DEF PageInv, PageDoes
<1> QED BY <1>2, <1>7, <1>11, WithoutServer

(* A page that has given up the web socket polls; the others do not. *)
LEMMA PollingKeepsWs ==
  ASSUME NEW A, A = announced, Holds(A), WsInv, Next, PollNext
  PROVE  WsInv'
<1>1. /\ poll # "off" /\ UNCHANGED <<managerVars, serverVars, wsState>>
      /\ UNCHANGED faults \/ (faults < MaxFaults /\ faults' = faults + 1)
  BY DEF PollNext, PollTimer, ApiReads, PollReturns, PollFails, ClientOnly, Fault, Client!PollTimer,
         Client!PollAnswered, Client!PollReturns, Client!PollFails, Client!wsVars
<1>2. ProducersInv' /\ ProducersMove
  <2>1. \A j \in SessionJobs : promise'[j] = "idle" => promise[j] = "idle"
    BY IdleStays
  <2> QED BY <1>1, <2>1, ProducersAlone
<1>3. PageInv'
  <2>1. wsState = "gaveUp" /\ Spent
    BY <1>1 DEF WsInv, PageInv
  <2> QED BY <1>1, <2>1 DEF PageInv, Spent
<1>4. /\ UNCHANGED <<lastFirehoseId, commands, replies>>
      /\ UNCHANGED <<channels, sockets, readyState, link>>
  BY <1>1 DEF serverVars
<1> QED BY <1>1, <1>2, <1>3, <1>4, WithoutServer

-----------------------------------------------------------------------------
(* At first the page follows. *)
LEMMA WsInit ==
  ASSUME Init, WsConditions
  PROVE  WsInv
<1>1. /\ task = [j \in Jobs |-> "none"] /\ announced = [j \in SessionJobs |-> {}]
      /\ promise = [j \in SessionJobs |-> "idle"] /\ listeners = {}
      /\ retries = [j \in SessionJobs |-> 0] /\ DOMAIN timers = {} /\ DOMAIN fetching = {}
      /\ lastId = <<0, 0>> /\ poll = "off" /\ wsState = "open" /\ now = 1 /\ faults = 0
  BY ClientBags, NoBag DEF Init, Manager!ManagerInit, Client!ClientInit, Client!Rest, Connected,
                           WsConditions
<1>2. /\ StartSocket \in SocketIds /\ socket = StartSocket /\ lastFirehoseId = <<0, 0>>
      /\ commands = <<Server!ReadCommand(<<0, 0>>)>> /\ replies = <<>>
      /\ readyState = [s \in SocketIds |-> IF s = StartSocket THEN "OPEN" ELSE "NONE"]
      /\ link = [s \in SocketIds |-> TRUE] /\ inbox = [s \in SocketIds |-> <<>>]
      /\ channels = [c \in {Session} |-> {StartSocket}]
      /\ sockets = [s \in {StartSocket} |-> [channel |-> Session, age |-> 0]]
  BY GlobalAsyncQueriesAssumption DEF Init, Connected, WsConditions
<1>3. streams[Session] = EmptyStream /\ streams[Full] = EmptyStream
  <2>1. Session \in Channels
    BY GlobalAsyncQueriesAssumption DEF Channels, channelOf, Jobs
  <2> QED BY <2>1 DEF Init, Manager!ManagerInit, Manager!EmptyStream, EmptyStream, Channels
<1>4. /\ EmptyStream.last = <<0, 0>> /\ EntriesIn(<<>>) = {} /\ EmptyStream.entries = <<>>
      /\ InOrder(EmptyStream) /\ <<0, 0>> \in Ids /\ <<0, 0>>[1] = 0
  BY DEF EmptyStream, EntriesIn, InOrder, Ids
<1>5. Entries(Session) = {} /\ Entries(Full) = {} /\ Outcomes = {}
  BY <1>3, <1>4 DEF Entries, Manager!Entries, Outcomes
<1>6. OneAtATime
  <2>1. Manager!Busy = {}
    BY <1>1 DEF Manager!Busy
  <2>2. \A j \in Jobs : task[j] # "scoped"
    BY <1>1
  <2> QED BY <1>1, <1>3, <1>4, <2>1, <2>2 DEF OneAtATime
<1>7. Paired
  <2>1. \A j \in SessionJobs : task[j] # "full"
    BY <1>1 DEF Jobs
  <2>2. Heralded = {}
    BY <1>1 DEF Heralded
  <2>3. Len(streams[Session].entries) = 0 /\ Cardinality(Heralded) = 0
    BY <1>3, <1>4, <2>2, FS_EmptySet
  <2> QED BY <1>5, <2>1, <2>3 DEF Paired
<1>8. OneOutcome
  BY <1>1 DEF OneOutcome, Jobs
<1>9. Known(<<0, 0>>)
  BY <1>3, <1>4, <1>5 DEF Known, IdLeq
<1>10. CursorInv
  <2>1. Server!ReadCommand(<<0, 0>>).op = "xread" /\ Server!ReadCommand(<<0, 0>>).after = <<0, 0>>
    BY DEF Server!ReadCommand
  <2>2. Server!Reads(commands) = {1} /\ Server!Reads(replies) = {}
    BY <1>2, <2>1 DEF Server!Reads
  <2>3. Server!OneRead(commands) /\ Server!NoRead(replies)
    BY <2>2 DEF Server!OneRead, Server!NoRead
  <2>4. \A c \in EntriesIn(commands) : c.after = lastFirehoseId
    BY <1>2, <2>1 DEF EntriesIn
  <2> QED BY <1>2, <1>3, <1>4, <2>3, <2>4 DEF CursorInv, IdLeq
<1>11. SocketsInv
  BY <1>2 DEF SocketsInv
<1>12. Sound(Client!Page)
  BY <1>1 DEF Sound, Matches, Backed, Client!Page
<1>13. Following
  <2>1. NoRanges
    <3>1. \A c \in EntriesIn(commands) : c.op = "xread"
      BY <1>2 DEF EntriesIn, Server!ReadCommand
    <3> QED BY <1>2, <1>4, <3>1 DEF NoRanges, Ranges
  <2>2. inbox[socket] = <<>> /\ EntriesIn(inbox[socket]) = {} /\ Sorted(inbox[socket])
    BY <1>2, <1>4 DEF Sorted
  <2>3. Carried(<<0, 0>>) /\ {lastId} \cup TimerIds = {<<0, 0>>} /\ Waiting = {}
    BY <1>1, <1>2, <1>5, <1>9 DEF Carried, IdLeq, TimerIds, Waiting
  <2> QED BY <1>1, <1>2, <2>1, <2>2, <2>3 DEF Following
<1>14. ProducersInv
  BY <1>5, <1>6, <1>7, <1>8 DEF ProducersInv
<1> QED BY <1>1, <1>10, <1>11, <1>12, <1>13, <1>14 DEF WsInv, PageInv

(* Every step keeps the invariant. *)
LEMMA WsKept ==
  ASSUME PipelineInv, WsConditions, WsInv, [Next]_vars
  PROVE  WsInv'
<1>1. PICK A \in Announcements : A = announced /\ Holds(A)
  BY DEF PipelineInv
<1>2. PICK B : B = announced' /\ Holds(B)'
  BY NextHolds, StutterHolds DEF PipelineInv
<1>3. CASE UNCHANGED vars
  <2>1. UNCHANGED <<managerVars, serverVars, clientVars, socket, faults>>
    BY <1>3 DEF vars
  <2>2. UNCHANGED <<promise, listeners, retries, timers, fetching, lastId, poll, wsState, wsFrom>>
    BY <2>1 DEF clientVars
  <2>3. /\ UNCHANGED <<channels, sockets, lastFirehoseId, commands, replies, readyState, link, inbox>>
        /\ Rests /\ OpenStay /\ (Spent => Spent')
    BY <2>1 DEF serverVars, Rests, SameRanges, Ranges, OpenStay, Spent
  <2>4. ProducersInv' /\ ProducersMove
    BY <1>1, <2>1, <2>2, ProducersAlone
  <2>5. /\ ProducersHold(A) /\ ProducersHold(A)' /\ CursorInv /\ lastFirehoseId \in Ids /\ PageInv
        /\ StartSocket \in SocketIds
    BY <1>1, <2>1, Unchanged, GlobalAsyncQueriesAssumption DEF Holds, WsInv, CursorInv, WsConditions
  <2>6. ASSUME Sound(Client!Page) PROVE PageDoes({})
    BY <2>2, <2>3, <2>4, <2>5, <2>6, NothingNewWaits
  <2>7. PageInv'
    BY <2>1, <2>2, <2>3, <2>4, <2>5, <2>6, PageStays
  <2> QED BY <1>1, <2>1, <2>3, <2>4, <2>7, WithoutServer
<1>4. CASE Next
  <2>1. CASE JobNext
    BY <1>1, <1>2, <2>1, JobsKeepWs DEF JobNext
  <2>2. CASE PollNext
    BY <1>1, <1>4, <2>2, PollingKeepsWs
  <2>3. CASE PageNext
    BY <1>1, <1>4, <2>3, ChartsKeepWs, LosesConnection DEF PageNext
  <2>4. CASE ServerNext
    BY <1>1, <2>4, ServerMovesPage
  <2>5. CASE ConnectionNext
    BY <1>1, <1>4, <2>5, ConnectKeepsWs, ReceiveKeepsWs, LosesConnection, SeeksConnection
       DEF ConnectionNext
  <2> QED BY <1>4, <2>1, <2>2, <2>3, <2>4, <2>5 DEF Next
<1> QED BY <1>3, <1>4

(* Once nothing is on its way, nothing waits. *)
LEMMA WsMeans ==
  ASSUME PipelineInv, WsConditions, WsInv
  PROVE  NoOutcomeMissed
<1> SUFFICES ASSUME Quiet, NEW x \in Entries(Full), IdLeq(x.id, lastFirehoseId),
                    x.event.job \in SessionJobs
             PROVE  promise[x.event.job] # "pending"
  BY DEF NoOutcomeMissed
<1>1. /\ wsState = "open" /\ link[socket] /\ inbox[socket] = <<>>
      /\ DOMAIN timers = {} /\ DOMAIN fetching = {}
      /\ Ranges(commands) = {} /\ \A r \in Ranges(replies) : r.results = <<>>
  BY DEF Quiet, Ranges, EntriesIn
<1>2. EntriesIn(<<>>) = {}
  BY DEF EntriesIn
<1>3. Following \/ Resumed
  BY <1>1, GlobalAsyncQueriesAssumption DEF WsInv, PageInv, Away
<1>4. Waiting = {}
  BY <1>1, <1>2, <1>3 DEF Following, Resumed, OnItsWay
<1>5. Handled(Client!Page, x.event.job)
  BY <1>4 DEF Waiting, Outcomes
<1>6. promise[x.event.job] \in Closed
  BY <1>1, <1>5 DEF Handled, Client!Page
<1> QED BY <1>6 DEF Closed

(* Over the web socket a chart does not wait for an outcome that the server  *)
(* has already passed on, once everything sent has been read: neither when   *)
(* the connection is lost, by a fault of the network or by loading the page  *)
(* again, and resumed from the last ID it has processed                      *)
(* (lastReceivedEventId), nor when queries, workers, reads and cached        *)
(* results are lost before. It is so for any number of charts, sockets and   *)
(* batches of any size, under WsConditions.                                  *)
THEOREM WebSocketMissesNothing ==
  ASSUME WsConditions
  PROVE  Spec => []NoOutcomeMissed
<1>1. Init => PipelineInv /\ WsInv
  BY InitHolds, WsInit
<1>2. PipelineInv /\ [Next]_vars => PipelineInv'
  BY NextHolds, StutterHolds
<1>3. PipelineInv /\ WsInv /\ [Next]_vars => WsInv'
  BY WsKept
<1>4. PipelineInv /\ WsInv => NoOutcomeMissed
  BY WsMeans
<1> QED BY <1>1, <1>2, <1>3, <1>4, PTL DEF Spec
=============================================================================
