--------------------------- MODULE WebSocketServer ---------------------------
(***************************************************************************)
(* The notification server of superset-websocket/src/index.ts: one Node    *)
(* process that reads every event from the global ("firehose") Redis       *)
(* stream and forwards it to the sockets of the event's channel.           *)
(*                                                                         *)
(* The process is single threaded, so one handler, one timer callback or   *)
(* one continuation after an await is one action.  Its only Redis          *)
(* connection carries both the blocking XREAD of the firehose and the      *)
(* XRANGE of reconnecting clients: commands are served, and replies come   *)
(* back, in the order in which they were sent.                             *)
(***************************************************************************)
EXTENDS RedisStreams

CONSTANTS Channels,         \* channel ids, one per browser session
          Full,             \* name of the firehose stream (GLOBAL_EVENT_STREAM_NAME)
          SocketIds,        \* the uuids trackClient draws from
          Events,           \* event payloads, records with a `channel' field
          NoId,             \* a request without `last_id'
          StreamReadCount,  \* redisStreamReadCount
          PingInterval,     \* pingSocketsIntervalMs, in ticks
          ResponseTimeout   \* socketResponseTimeoutMs, in ticks

ASSUME WebSocketServerAssumption ==
  /\ Full \notin Channels
  /\ StreamReadCount \in Nat \ {0}
  /\ PingInterval \in Nat \ {0}
  /\ ResponseTimeout \in Nat
  /\ PingInterval < ResponseTimeout

VARIABLES
  channels,        \* channel -> the socket ids listed under it (partial)
  sockets,         \* socket id -> [channel, age]; age is Date.now() - pongTs (partial)
  lastFirehoseId,  \* Dollar, or the ID of the last firehose entry forwarded
  commands,        \* Redis commands sent on the connection and not yet served
  replies,         \* Redis replies not yet handled by their continuation
  readyState,      \* ws.readyState of every socket id; "NONE" before the id is drawn
  link,            \* whether the peer is still there and answers
  pinged,          \* sockets whose peer has a ping to answer
  inbox,           \* messages sent on each socket and not read by its peer
  sinceCheck,      \* ticks since checkSockets last ran
  streams,         \* the Redis streams: one per channel, and the firehose
  now              \* the clock of the Redis server, in milliseconds

registries == <<channels, sockets>>
cursor     == <<lastFirehoseId, commands, replies>>
wire       == <<readyState, link, pinged, inbox>>
serverVars == <<channels, sockets, lastFirehoseId, commands, replies,
                readyState, link, pinged, inbox, sinceCheck>>
redis      == <<streams, now>>
vars       == <<serverVars, redis>>

-----------------------------------------------------------------------------
(* Redis commands and replies on the one connection. *)
ReadCommand(after) == [op |-> "xread", after |-> after]
RangeCommand(channel, startId, endId) ==
  [op |-> "xrange", channel |-> channel, start |-> startId, end |-> endId]
Reply(op, results) == [op |-> op, results |-> results]

(* incrementId: the ID that follows `id'. *)
incrementId(id) == <<id[1], id[2] + 1>>

-----------------------------------------------------------------------------
(* The registries. *)
IsActive(s)  == s \in DOMAIN sockets /\ readyState[s] = "OPEN"

(* SOCKET_ACTIVE_STATES also has CONNECTING, which a socket handed over by   *)
(* handleUpgrade has already left.                                           *)
ActiveIn(c)  == {s \in channels[c] : IsActive(s)}

(* cleanChannel applied to every channel of C, in any order: each call only  *)
(* reads `sockets' and the ready states, and writes its own channel.         *)
CleanedChannels(C) ==
  [c \in {d \in DOMAIN channels : d \in C => ActiveIn(d) # {}} |->
      IF c \in C THEN ActiveIn(c) ELSE channels[c]]

(* A variant that replaces the list of a channel already known. *)
trackClient_replaces(c, s) ==
  /\ readyState[s] = "NONE"
  /\ sockets' = [x \in DOMAIN sockets \cup {s} |->
                    IF x = s THEN [channel |-> c, age |-> 0] ELSE sockets[x]]
  /\ channels' = [d \in DOMAIN channels \cup {c} |->
                     IF d # c THEN channels[d] ELSE {s}]

trackClient(c, s) ==
  /\ readyState[s] = "NONE"
  /\ sockets' = [x \in DOMAIN sockets \cup {s} |->
                    IF x = s THEN [channel |-> c, age |-> 0] ELSE sockets[x]]
  /\ channels' = [d \in DOMAIN channels \cup {c} |->
                     IF d # c THEN channels[d]
                     ELSE IF c \in DOMAIN channels THEN channels[c] \cup {s} ELSE {s}]

(* processStreamResults: sendToChannel for each entry.  A send reaches an    *)
(* open socket; on any other one it is dropped silently, or it throws        *)
(* (`throwing').  A listed id that is no longer tracked, or a send that      *)
(* throws, makes sendToChannel clean the channel.  Cleaning never drops an   *)
(* open socket, so the loop over the entries sends to the same sockets       *)
(* whatever was cleaned before.                                              *)
ChannelsOf(results) == {results[i].event.channel : i \in 1 .. Len(results)}

Listed(s, x) == x.event.channel \in DOMAIN channels /\ s \in channels[x.event.channel]

SentTo(s, results) == Only(results, {x \in EntriesIn(results) : Listed(s, x)})

processStreamResults(results) ==
  \E throwing \in SUBSET {s \in DOMAIN sockets : readyState[s] # "OPEN"} :
    LET dirty == {c \in DOMAIN channels \cap ChannelsOf(results) :
                     \E s \in channels[c] : s \notin DOMAIN sockets \/ s \in throwing}
    IN  /\ channels' = CleanedChannels(dirty)
        /\ inbox' = [s \in SocketIds |->
                        IF IsActive(s) /\ link[s] THEN inbox[s] \o SentTo(s, results)
                                                  ELSE inbox[s]]

-----------------------------------------------------------------------------
(* Handlers of the server process. *)

(* A variant of wsConnection that passes `$' on as the end of the range. *)
wsConnection_dollarEnd(s, c, lastId) ==
  /\ trackClient(c, s)
  /\ readyState' = [readyState EXCEPT ![s] = "OPEN"]
  /\ commands' = IF lastId = NoId THEN commands
                 ELSE Append(commands, RangeCommand(c, incrementId(lastId), lastFirehoseId))
  /\ UNCHANGED <<lastFirehoseId, replies, link, pinged, inbox, sinceCheck>>

(* wsConnection, for a request whose JWT names channel c (httpUpgrade has    *)
(* destroyed the others) and whose `last_id' parameter is lastId.            *)
wsConnection(s, c, lastId) ==
  /\ trackClient(c, s)
  /\ readyState' = [readyState EXCEPT ![s] = "OPEN"]
  /\ commands' = IF lastId = NoId THEN commands
                 ELSE Append(commands,
                             RangeCommand(c, incrementId(lastId),
                                          IF lastFirehoseId = Dollar THEN Plus
                                                                     ELSE lastFirehoseId))
  /\ UNCHANGED <<lastFirehoseId, replies, link, pinged, inbox, sinceCheck>>

(* A variant of pong that leaves pongTs as it was. *)
pong_keepsTs(s) ==
  /\ s \in pinged
  /\ link[s]
  /\ pinged' = pinged \ {s}
  /\ UNCHANGED <<registries, cursor, readyState, link, inbox, sinceCheck>>

(* The `pong' handler; it does nothing for a socket already forgotten. *)
pong(s) ==
  /\ s \in pinged
  /\ link[s]
  /\ pinged' = pinged \ {s}
  /\ sockets' = IF s \in DOMAIN sockets THEN [sockets EXCEPT ![s].age = 0] ELSE sockets
  /\ UNCHANGED <<channels, cursor, readyState, link, inbox, sinceCheck>>

(* Variants of subscribeToGlobalStream: one ends the loop on a null reply,   *)
(* one continues from the newest entry.                                      *)
subscribeToGlobalStream_stops ==
  /\ replies # <<>> /\ Head(replies).op = "xread"
  /\ replies' = Tail(replies)
  /\ LET results == Head(replies).results IN
       IF results = <<>> THEN UNCHANGED <<channels, lastFirehoseId, inbox, commands>>
       ELSE /\ processStreamResults(results)
            /\ lastFirehoseId' = results[Len(results)].id
            /\ commands' = Append(commands, ReadCommand(lastFirehoseId'))
  /\ UNCHANGED <<sockets, readyState, link, pinged, sinceCheck>>

subscribeToGlobalStream_newest ==
  /\ replies # <<>> /\ Head(replies).op = "xread"
  /\ replies' = Tail(replies)
  /\ LET results == Head(replies).results IN
       IF results = <<>>
       THEN /\ commands' = Append(commands, ReadCommand(lastFirehoseId))
            /\ UNCHANGED <<channels, lastFirehoseId, inbox>>
       ELSE /\ processStreamResults(results)
            /\ lastFirehoseId' = streams[Full].last
            /\ commands' = Append(commands, ReadCommand(lastFirehoseId'))
  /\ UNCHANGED <<sockets, readyState, link, pinged, sinceCheck>>

(* A variant that sends the next read before the cursor moves.               *)
subscribeToGlobalStream_readsAhead ==
  /\ replies # <<>> /\ Head(replies).op = "xread"
  /\ replies' = Tail(replies)
  /\ LET results == Head(replies).results IN
       IF results = <<>> THEN UNCHANGED <<channels, lastFirehoseId, inbox>>
       ELSE processStreamResults(results) /\ lastFirehoseId' = results[Len(results)].id
  /\ commands' = Append(commands, ReadCommand(lastFirehoseId))
  /\ UNCHANGED <<sockets, readyState, link, pinged, sinceCheck>>

(* subscribeToGlobalStream, from the reply of one XREAD to the next one.  A  *)
(* null reply (timeout) or an error repeats the read from the same ID.       *)
subscribeToGlobalStream ==
  /\ replies # <<>> /\ Head(replies).op = "xread"
  /\ replies' = Tail(replies)
  /\ LET results == Head(replies).results IN
       IF results = <<>>
       THEN /\ commands' = Append(commands, ReadCommand(lastFirehoseId))
            /\ UNCHANGED <<channels, lastFirehoseId, inbox>>
       ELSE /\ processStreamResults(results)
            /\ lastFirehoseId' = results[Len(results)].id
            /\ commands' = Append(commands, ReadCommand(lastFirehoseId'))
  /\ UNCHANGED <<sockets, readyState, link, pinged, sinceCheck>>

(* fetchRangeFromStream, after its await: the events go to the whole channel. *)
fetchRangeFromStream ==
  /\ replies # <<>> /\ Head(replies).op = "xrange"
  /\ replies' = Tail(replies)
  /\ IF Head(replies).results = <<>> THEN UNCHANGED <<channels, inbox>>
     ELSE processStreamResults(Head(replies).results)
  /\ UNCHANGED <<sockets, lastFirehoseId, commands, readyState, link, pinged, sinceCheck>>

(* checkSockets, the callback of the ping timer. *)
Stale(s) == sockets[s].age >= ResponseTimeout

(* A variant of checkSockets without the response timeout. *)
checkSockets_noTimeout ==
  LET kept == {s \in DOMAIN sockets : readyState[s] = "OPEN"} IN
  /\ sinceCheck = PingInterval
  /\ sinceCheck' = 0
  /\ pinged' = pinged \cup kept
  /\ sockets' = [s \in kept |-> sockets[s]]
  /\ UNCHANGED <<channels, cursor, readyState, link, inbox>>

checkSockets ==
  LET kept == {s \in DOMAIN sockets : ~Stale(s) /\ readyState[s] = "OPEN"} IN
  /\ sinceCheck = PingInterval
  /\ sinceCheck' = 0
  /\ readyState' = [s \in SocketIds |->
                       IF s \in DOMAIN sockets /\ Stale(s) /\ readyState[s] = "OPEN"
                       THEN "CLOSING" ELSE readyState[s]]
  /\ pinged' = pinged \cup kept
  /\ sockets' = [s \in kept |-> sockets[s]]
  /\ UNCHANGED <<channels, cursor, link, inbox>>

(* The callback of the channel timer: cleanChannel on every channel. *)
gc == /\ channels' = CleanedChannels(DOMAIN channels)
      /\ UNCHANGED <<sockets, cursor, wire, sinceCheck>>

(* The process dies and starts again: the registries are module variables,   *)
(* and subscribeToGlobalStream begins at `$'.                                 *)
Restart ==
  /\ channels' = [c \in {} |-> {}]
  /\ sockets' = [s \in {} |-> {}]
  /\ lastFirehoseId' = Dollar
  /\ commands' = <<ReadCommand(Dollar)>>
  /\ replies' = <<>>
  /\ readyState' = [s \in SocketIds |->
                       IF readyState[s] = "NONE" THEN "NONE" ELSE "CLOSED"]
  /\ link' = [s \in SocketIds |-> readyState[s] = "NONE" /\ link[s]]
  /\ pinged' = {}
  /\ inbox' = [s \in SocketIds |-> <<>>]
  /\ sinceCheck' = 0

-----------------------------------------------------------------------------
(* Redis, serving the head of the command queue. *)
Serve(reply) == /\ commands' = Tail(commands)
                /\ replies' = Append(replies, reply)
                /\ UNCHANGED <<registries, lastFirehoseId, wire, sinceCheck>>

Serving(op) == commands # <<>> /\ Head(commands).op = op

(* A read from `$' waits for the entries added after this moment. *)
BeginRead ==
  /\ Serving("xread") /\ Head(commands).after = Dollar
  /\ commands' = [commands EXCEPT ![1].after = streams[Full].last]
  /\ UNCHANGED <<registries, lastFirehoseId, replies, wire, sinceCheck>>

AnswerRead ==
  /\ Serving("xread") /\ Head(commands).after # Dollar
  /\ LET results == XRead(streams[Full], Head(commands).after, StreamReadCount)
     IN  results # <<>> /\ Serve(Reply("xread", results))

(* The block times out, nothing having been added. *)
ReadTimesOut ==
  /\ Serving("xread") /\ Head(commands).after # Dollar
  /\ XRead(streams[Full], Head(commands).after, StreamReadCount) = <<>>
  /\ Serve(Reply("xread", <<>>))

(* The read fails; subscribeToGlobalStream logs the error and reads again. *)
ReadFails ==
  /\ Serving("xread")
  /\ Serve(Reply("xread", <<>>))

AnswerRange ==
  /\ Serving("xrange")
  /\ LET q == Head(commands)
     IN  Serve(Reply("xrange", XRange(streams[q.channel], q.start, q.end)))

(* The range query fails: its continuation only logs the error. *)
RangeFails ==
  /\ Serving("xrange")
  /\ Serve(Reply("xrange", <<>>))

-----------------------------------------------------------------------------
(* The peers of the sockets, and time. *)

(* The peer closes the connection, or becomes unreachable: what it has not   *)
(* read is lost, and it answers no ping.                                     *)
PeerGone(s) ==
  /\ readyState[s] = "OPEN" /\ link[s]
  /\ link' = [link EXCEPT ![s] = FALSE]
  /\ inbox' = [inbox EXCEPT ![s] = <<>>]
  /\ UNCHANGED <<registries, cursor, readyState, pinged, sinceCheck>>

(* The server's socket learns of it, or ends being terminated. *)
SocketCloses(s) ==
  /\ readyState[s] = "CLOSING" \/ (readyState[s] = "OPEN" /\ ~link[s])
  /\ readyState' = [readyState EXCEPT ![s] = "CLOSED"]
  /\ UNCHANGED <<registries, cursor, link, pinged, inbox, sinceCheck>>

(* One tick of the clock.  Timers are not late, and a peer that is there     *)
(* answers a ping within one tick.                                           *)
Tick ==
  /\ sinceCheck < PingInterval
  /\ \A s \in pinged : ~link[s]
  /\ sinceCheck' = sinceCheck + 1
  /\ sockets' = [s \in DOMAIN sockets |->
                    IF sockets[s].age < ResponseTimeout
                    THEN [sockets[s] EXCEPT !.age = @ + 1] ELSE sockets[s]]
  /\ UNCHANGED <<channels, cursor, wire>>

-----------------------------------------------------------------------------
ServerInit ==
  /\ channels = [c \in {} |-> {}]
  /\ sockets = [s \in {} |-> {}]
  /\ lastFirehoseId = Dollar
  /\ commands = <<ReadCommand(Dollar)>>
  /\ replies = <<>>
  /\ readyState = [s \in SocketIds |-> "NONE"]
  /\ link = [s \in SocketIds |-> TRUE]
  /\ pinged = {}
  /\ inbox = [s \in SocketIds |-> <<>>]
  /\ sinceCheck = 0

Init == /\ ServerInit
        /\ streams = [k \in Channels \cup {Full} |-> EmptyStream]
        /\ now = 1

(* The handlers and timers of the server process, and Redis. *)
ServerNext ==
  \/ subscribeToGlobalStream
  \/ fetchRangeFromStream
  \/ checkSockets
  \/ gc
  \/ BeginRead
  \/ AnswerRead
  \/ ReadTimesOut
  \/ ReadFails
  \/ AnswerRange
  \/ RangeFails
  \/ Tick

PeerNext ==
  \E s \in SocketIds : pong(s) \/ PeerGone(s) \/ SocketCloses(s)

(* The rest of the system, when the server is looked at alone: clients that  *)
(* connect with any ID their channel may have been sent, and workers that    *)
(* add each event to the stream of its channel and then to the firehose.     *)
IdsOf(k, c) == {x.id : x \in {streams[k].entries[i] : i \in
                   {j \in 1 .. Len(streams[k].entries) :
                       streams[k].entries[j].event.channel = c}}}

Connect ==
  \E s \in SocketIds, c \in Channels :
    \E lastId \in IdsOf(Full, c) \cup IdsOf(c, c) \cup {NoId} :
      wsConnection(s, c, lastId) /\ UNCHANGED redis

Holds(stream, event) == \E i \in 1 .. Len(stream.entries) : stream.entries[i].event = event

PublishScoped(event) ==
  /\ ~Holds(streams[event.channel], event)
  /\ streams' = [streams EXCEPT ![event.channel] = XAdd(@, now', event)]

PublishFull(event) ==
  /\ Holds(streams[event.channel], event) /\ ~Holds(streams[Full], event)
  /\ streams' = [streams EXCEPT ![Full] = XAdd(@, now', event)]

Publish ==
  /\ \E t \in {now, now + 1} : now' = t
  /\ \E event \in Events : PublishScoped(event) \/ PublishFull(event)
  /\ UNCHANGED serverVars

Running ==
  \/ (ServerNext \/ PeerNext) /\ UNCHANGED redis
  \/ Connect
  \/ Publish

Next == Running \/ (Restart /\ UNCHANGED redis)

(* Node runs a ready continuation or a due timer, and peers answer pings.    *)
Fairness ==
  /\ WF_vars(subscribeToGlobalStream /\ UNCHANGED redis)
  /\ WF_vars(fetchRangeFromStream /\ UNCHANGED redis)
  /\ WF_vars(checkSockets /\ UNCHANGED redis)
  /\ WF_vars(gc /\ UNCHANGED redis)
  /\ WF_vars(Tick /\ UNCHANGED redis)
  /\ \A s \in SocketIds : WF_vars(pong(s) /\ UNCHANGED redis)

Spec     == Init /\ [][Next]_vars
FairSpec == Spec /\ Fairness

-----------------------------------------------------------------------------
(* Type correctness: what each registry, queue and socket may hold. *)
EntryType   == [id : Ids, event : Events]
CommandType == [op : {"xread"}, after : Ids \cup {Dollar}]
                 \cup [op : {"xrange"}, channel : Channels, start : Ids,
                       end : Ids \cup {Plus}]
ReplyType   == [op : {"xread", "xrange"}, results : Seq(EntryType)]
StreamType  == [last : Ids, entries : Seq(EntryType)]

RegistryTypeOK ==
  /\ DOMAIN channels \subseteq Channels
  /\ channels \in [DOMAIN channels -> SUBSET SocketIds]
  /\ DOMAIN sockets \subseteq SocketIds
  /\ sockets \in [DOMAIN sockets -> [channel : Channels, age : 0 .. ResponseTimeout]]
  /\ readyState \in [SocketIds -> {"NONE", "OPEN", "CLOSING", "CLOSED"}]
  /\ link \in [SocketIds -> BOOLEAN]
  /\ pinged \subseteq SocketIds
  /\ sinceCheck \in 0 .. PingInterval

ConnectionTypeOK ==
  /\ lastFirehoseId \in Ids \cup {Dollar}
  /\ commands \in Seq(CommandType)
  /\ replies \in Seq(ReplyType)
  /\ streams \in [Channels \cup {Full} -> StreamType]
  /\ now \in Nat

TypeOK ==
  /\ RegistryTypeOK
  /\ ConnectionTypeOK
  /\ inbox \in [SocketIds -> Seq(EntryType)]

(* The two registries agree although trackClient, checkSockets and           *)
(* cleanChannel each update them on their own: an open socket is tracked and *)
(* listed under its channel, so sendToChannel finds it; a tracked socket is  *)
(* listed under no other channel, so no client reads another session's       *)
(* events; and no channel stays registered with an empty list.               *)
OpenSocketsListed ==
  \A s \in SocketIds : readyState[s] = "OPEN" =>
     /\ s \in DOMAIN sockets
     /\ sockets[s].channel \in DOMAIN channels
     /\ s \in channels[sockets[s].channel]

ListedAtHome ==
  \A c \in DOMAIN channels : \A s \in channels[c] :
     s \in DOMAIN sockets => sockets[s].channel = c

NoEmptyChannel == \A c \in DOMAIN channels : channels[c] # {}

RegistriesAgree == OpenSocketsListed /\ ListedAtHome /\ NoEmptyChannel

(* checkSockets never terminates a socket whose peer answers its pings, at   *)
(* whatever moment of the ping period it connected: a socket is only ever    *)
(* half closed by the server, with its peer there, after ResponseTimeout     *)
(* ticks without a pong.                                                     *)
ResponsiveStayConnected ==
  \A s \in SocketIds : readyState[s] # "NONE" /\ link[s] => readyState[s] = "OPEN"

(* Why the two hold (the inductive invariant of their proof): an id not yet  *)
(* drawn appears nowhere; and a tracked socket whose peer is there either    *)
(* was pinged by the check of this very tick, or is no older than that check.*)
FreshIdsUnused ==
  \A s \in SocketIds : readyState[s] = "NONE" =>
     /\ s \notin DOMAIN sockets
     /\ s \notin pinged
     /\ \A c \in DOMAIN channels : s \notin channels[c]

PongsKeepUp ==
  \A s \in DOMAIN sockets : link[s] =>
     IF s \in pinged THEN sinceCheck = 0 ELSE sockets[s].age <= sinceCheck

RegistryInv == /\ RegistryTypeOK
               /\ RegistriesAgree
               /\ ResponsiveStayConnected
               /\ FreshIdsUnused
               /\ PongsKeepUp

(* There is always exactly one firehose read under way, being served or      *)
(* answered, and it continues from the last ID forwarded.                    *)
Reads(q)   == {i \in 1 .. Len(q) : q[i].op = "xread"}
OneRead(q) == \E i \in Reads(q) : Reads(q) = {i}
NoRead(q)  == Reads(q) = {}

OneReadUnderWay ==
  /\ \/ OneRead(commands) /\ NoRead(replies)
     \/ NoRead(commands) /\ OneRead(replies)
  /\ lastFirehoseId # Dollar =>
       \A i \in Reads(commands) : commands[i].after = lastFirehoseId

(* The batch the loop is about to forward is exactly what the firehose holds *)
(* after the last entry forwarded, up to the end of the batch: workers may   *)
(* have added entries and clients asked for ranges since the read was sent,  *)
(* and none is skipped or forwarded twice for it.                            *)
BatchFollowsCursor ==
  \A i \in Reads(replies) :
    LET results == replies[i].results IN
    results # <<>> /\ lastFirehoseId # Dollar =>
      EntriesIn(results) = Between(streams[Full], lastFirehoseId, results[Len(results)].id)

(* A socket whose peer has vanished, noticed or not, is forgotten by the     *)
(* ping timer, and the channel timer then drops it from its channel's list.  *)
DeadSocketsForgotten ==
  \A s \in SocketIds :
     ~link[s] ~> s \notin DOMAIN sockets /\ \A c \in DOMAIN channels : s \notin channels[c]
=============================================================================
