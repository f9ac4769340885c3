----------------------- MODULE WebSocketServer_proofs -----------------------
(***************************************************************************)
(* Theorems about the notification server, for any number of channels,     *)
(* sockets and events, and any ping interval shorter than the response     *)
(* timeout.  Five inductive invariants, each with the ones before it:      *)
(*                                                                         *)
(*   RegistryInv     the registries, which change in four ways only: a     *)
(*                   connection is tracked, channels are cleaned, a pong   *)
(*                   is noted, and checkSockets forgets sockets            *)
(*   ConnectionInv   the Redis connection: what its queues hold, and that  *)
(*                   exactly one read of the firehose is under way         *)
(*   CursorInv       the batch about to be forwarded is what the firehose  *)
(*                   holds after the last entry forwarded                  *)
(*   ServerInv       what has been sent on each socket                     *)
(*   ForwardedInv    nothing is missing from it                            *)
(***************************************************************************)
EXTENDS MCWebSocketServer, RedisStreams_proofs

regVars == <<channels, sockets, readyState, link, pinged, sinceCheck>>

-----------------------------------------------------------------------------
(* Cleaning channels keeps the invariant, whichever channels are cleaned. *)
LEMMA CleaningKeepsInv ==
  ASSUME RegistryInv, NEW C,
         channels' = CleanedChannels(C),
         UNCHANGED <<sockets, readyState, link, pinged, sinceCheck>>
  PROVE  RegistryInv'
<1>1. /\ DOMAIN channels' \subseteq DOMAIN channels
      /\ \A c \in DOMAIN channels' : channels'[c] \subseteq channels[c] /\ channels'[c] # {}
  BY DEF CleanedChannels, ActiveIn, RegistryInv, RegistriesAgree, NoEmptyChannel
<1>2. \A c \in DOMAIN channels : \A s \in channels[c] :
        s \in DOMAIN sockets /\ readyState[s] = "OPEN" =>
           c \in DOMAIN channels' /\ s \in channels'[c]
  BY DEF CleanedChannels, ActiveIn, IsActive
<1>3. channels' = [c \in DOMAIN channels' |-> channels'[c]]
  BY DEF CleanedChannels
<1>4. RegistryTypeOK'
  BY <1>1, <1>3 DEF RegistryInv, RegistryTypeOK
<1>5. RegistriesAgree'
  <2>1. OpenSocketsListed'
    BY <1>2 DEF RegistryInv, RegistriesAgree, OpenSocketsListed
  <2>2. ListedAtHome'
    BY <1>1 DEF RegistryInv, RegistriesAgree, ListedAtHome
  <2>3. NoEmptyChannel'
    BY <1>1 DEF NoEmptyChannel
  <2> QED BY <2>1, <2>2, <2>3 DEF RegistriesAgree
<1>6. ResponsiveStayConnected' /\ PongsKeepUp'
  BY DEF RegistryInv, ResponsiveStayConnected, PongsKeepUp
<1>7. FreshIdsUnused'
  BY <1>1 DEF RegistryInv, FreshIdsUnused
<1> QED BY <1>4, <1>5, <1>6, <1>7 DEF RegistryInv

(* So does an action that leaves the registries and the sockets alone. *)
LEMMA StutterKeepsInv ==
  ASSUME RegistryInv, UNCHANGED regVars
  PROVE  RegistryInv'
BY DEF RegistryInv, regVars, RegistryTypeOK, RegistriesAgree, OpenSocketsListed,
       ListedAtHome, NoEmptyChannel, ResponsiveStayConnected, FreshIdsUnused, PongsKeepUp

(* Forwarding entries changes the registries by cleaning at most. *)
LEMMA ForwardingKeepsInv ==
  ASSUME RegistryInv, NEW results, processStreamResults(results),
         UNCHANGED <<sockets, readyState, link, pinged, sinceCheck>>
  PROVE  RegistryInv'
BY CleaningKeepsInv DEF processStreamResults

LEMMA ConnectionKeepsInv ==
  ASSUME RegistryInv, NEW s \in SocketIds, NEW c \in Channels, NEW lastId,
         wsConnection(s, c, lastId)
  PROVE  RegistryInv'
<1> USE DEF wsConnection, trackClient
<1>1. /\ readyState[s] = "NONE"
      /\ s \notin DOMAIN sockets /\ s \notin pinged
      /\ \A d \in DOMAIN channels : s \notin channels[d]
  BY DEF RegistryInv, FreshIdsUnused
<1>2. /\ DOMAIN sockets' = DOMAIN sockets \cup {s}
      /\ sockets'[s] = [channel |-> c, age |-> 0]
      /\ \A x \in DOMAIN sockets : sockets'[x] = sockets[x]
  BY <1>1
<1>3. /\ DOMAIN channels' = DOMAIN channels \cup {c}
      /\ \A d \in DOMAIN channels : channels[d] \subseteq channels'[d]
      /\ s \in channels'[c]
      /\ \A d \in DOMAIN channels' : \A x \in channels'[d] :
            (x = s /\ d = c) \/ (d \in DOMAIN channels /\ x \in channels[d])
  OBVIOUS
<1>4. /\ readyState'[s] = "OPEN"
      /\ \A x \in SocketIds \ {s} : readyState'[x] = readyState[x]
  BY DEF RegistryInv, RegistryTypeOK
<1>5. RegistryTypeOK'
  <2>1. sockets' \in [DOMAIN sockets' -> [channel : Channels, age : 0 .. ResponseTimeout]]
    <3>1. [channel |-> c, age |-> 0] \in [channel : Channels, age : 0 .. ResponseTimeout]
      BY WebSocketServerAssumption
    <3> QED BY <1>2, <3>1 DEF RegistryInv, RegistryTypeOK
  <2>2. channels' \in [DOMAIN channels' -> SUBSET SocketIds]
    BY <1>3 DEF RegistryInv, RegistryTypeOK
  <2>3. readyState' \in [SocketIds -> {"NONE", "OPEN", "CLOSING", "CLOSED"}]
    BY DEF RegistryInv, RegistryTypeOK
  <2> QED BY <1>2, <1>3, <2>1, <2>2, <2>3 DEF RegistryInv, RegistryTypeOK
<1>6. RegistriesAgree'
  <2>1. OpenSocketsListed'
    BY <1>2, <1>3, <1>4 DEF RegistryInv, RegistriesAgree, OpenSocketsListed
  <2>2. ListedAtHome'
    BY <1>1, <1>2, <1>3 DEF RegistryInv, RegistriesAgree, ListedAtHome
  <2>3. NoEmptyChannel'
    BY <1>3 DEF RegistryInv, RegistriesAgree, NoEmptyChannel
  <2> QED BY <2>1, <2>2, <2>3 DEF RegistriesAgree
<1>7. ResponsiveStayConnected'
  BY <1>4 DEF RegistryInv, ResponsiveStayConnected
<1>8. FreshIdsUnused'
  BY <1>2, <1>3, <1>4 DEF RegistryInv, FreshIdsUnused
<1>9. PongsKeepUp'
  BY <1>1, <1>2 DEF RegistryInv, PongsKeepUp, RegistryTypeOK
<1> QED BY <1>5, <1>6, <1>7, <1>8, <1>9 DEF RegistryInv

LEMMA PongKeepsInv ==
  ASSUME RegistryInv, NEW s \in SocketIds, pong(s)
  PROVE  RegistryInv'
<1> USE DEF pong, registries
<1>1. /\ DOMAIN sockets' = DOMAIN sockets
      /\ \A x \in DOMAIN sockets : /\ sockets'[x].channel = sockets[x].channel
                                   /\ x # s => sockets'[x] = sockets[x]
      /\ s \in DOMAIN sockets => sockets'[s].age = 0
  BY DEF RegistryInv, RegistryTypeOK
<1>2. RegistryTypeOK'
  BY WebSocketServerAssumption DEF RegistryInv, RegistryTypeOK
<1>3. RegistriesAgree'
  BY <1>1 DEF RegistryInv, RegistriesAgree, OpenSocketsListed, ListedAtHome, NoEmptyChannel
<1>4. ResponsiveStayConnected' /\ FreshIdsUnused'
  BY <1>1 DEF RegistryInv, ResponsiveStayConnected, FreshIdsUnused
<1>5. PongsKeepUp'
  BY <1>1 DEF RegistryInv, RegistryTypeOK, PongsKeepUp
<1> QED BY <1>2, <1>3, <1>4, <1>5 DEF RegistryInv

(* checkSockets: the sockets it forgets are not open, or have been silent    *)
(* for ResponseTimeout ticks; by PongsKeepUp the peer of those is not there. *)
LEMMA CheckKeepsInv ==
  ASSUME RegistryInv, checkSockets
  PROVE  RegistryInv'
<1> DEFINE kept == {s \in DOMAIN sockets : ~Stale(s) /\ readyState[s] = "OPEN"}
<1>1. /\ sinceCheck = PingInterval /\ sinceCheck' = 0
      /\ sockets' = [s \in kept |-> sockets[s]]
      /\ pinged' = pinged \cup kept
      /\ UNCHANGED <<channels, link>>
  BY DEF checkSockets
<1>2. /\ readyState' \in [SocketIds -> {"NONE", "OPEN", "CLOSING", "CLOSED"}]
      /\ \A s \in SocketIds :
           readyState'[s] = IF s \in DOMAIN sockets /\ Stale(s) /\ readyState[s] = "OPEN"
                            THEN "CLOSING" ELSE readyState[s]
  BY DEF checkSockets, RegistryInv, RegistryTypeOK
<1>3. /\ DOMAIN sockets' = kept
      /\ kept \subseteq DOMAIN sockets
      /\ \A s \in kept : sockets'[s] = sockets[s]
  BY <1>1
<1>4. \A s \in DOMAIN sockets : link[s] => ~Stale(s)
  BY <1>1, WebSocketServerAssumption
     DEF RegistryInv, RegistryTypeOK, PongsKeepUp, Stale
<1>5. RegistryTypeOK'
  BY <1>1, <1>2, <1>3, WebSocketServerAssumption DEF RegistryInv, RegistryTypeOK
<1>6. RegistriesAgree'
  <2>1. OpenSocketsListed'
    BY <1>1, <1>2, <1>3 DEF RegistryInv, RegistriesAgree, OpenSocketsListed
  <2>2. ListedAtHome' /\ NoEmptyChannel'
    BY <1>1, <1>3 DEF RegistryInv, RegistriesAgree, ListedAtHome, NoEmptyChannel
  <2> QED BY <2>1, <2>2 DEF RegistriesAgree
<1>7. ResponsiveStayConnected'
  BY <1>1, <1>2, <1>4 DEF RegistryInv, ResponsiveStayConnected
<1>8. FreshIdsUnused'
  BY <1>1, <1>2, <1>3 DEF RegistryInv, FreshIdsUnused
<1>9. PongsKeepUp'
  BY <1>1, <1>3 DEF PongsKeepUp
<1> QED BY <1>5, <1>6, <1>7, <1>8, <1>9 DEF RegistryInv

(* The peers of the sockets: a peer that leaves, a socket that closes. *)
LEMMA PeerGoneKeepsInv ==
  ASSUME RegistryInv, NEW s \in SocketIds, PeerGone(s)
  PROVE  RegistryInv'
BY DEF PeerGone, registries, RegistryInv, RegistryTypeOK, RegistriesAgree, OpenSocketsListed,
       ListedAtHome, NoEmptyChannel, ResponsiveStayConnected, FreshIdsUnused, PongsKeepUp

LEMMA SocketClosesKeepsInv ==
  ASSUME RegistryInv, NEW s \in SocketIds, SocketCloses(s)
  PROVE  RegistryInv'
<1> USE DEF SocketCloses, registries
<1>1. ~link[s] /\ readyState[s] # "NONE"
  BY DEF RegistryInv, RegistryTypeOK, ResponsiveStayConnected
<1>2. /\ readyState' \in [SocketIds -> {"NONE", "OPEN", "CLOSING", "CLOSED"}]
      /\ \A x \in SocketIds : readyState'[x] = IF x = s THEN "CLOSED" ELSE readyState[x]
  BY DEF RegistryInv, RegistryTypeOK
<1> QED BY <1>1, <1>2
     DEF RegistryInv, RegistryTypeOK, RegistriesAgree, OpenSocketsListed, ListedAtHome,
         NoEmptyChannel, ResponsiveStayConnected, FreshIdsUnused, PongsKeepUp

LEMMA TickKeepsInv ==
  ASSUME RegistryInv, Tick
  PROVE  RegistryInv'
<1> USE DEF Tick, wire
<1>1. sinceCheck' \in 0 .. PingInterval /\ sinceCheck' = sinceCheck + 1
  BY WebSocketServerAssumption DEF RegistryInv, RegistryTypeOK
<1>2. /\ DOMAIN sockets' = DOMAIN sockets
      /\ \A s \in DOMAIN sockets :
           /\ sockets'[s].channel = sockets[s].channel
           /\ sockets'[s].age \in 0 .. ResponseTimeout
           /\ sockets'[s].age <= sockets[s].age + 1
           /\ sockets'[s] \in [channel : Channels, age : 0 .. ResponseTimeout]
  BY WebSocketServerAssumption DEF RegistryInv, RegistryTypeOK
<1>3. RegistryTypeOK'
  BY <1>1, <1>2 DEF RegistryInv, RegistryTypeOK
<1>4. RegistriesAgree'
  BY <1>2 DEF RegistryInv, RegistriesAgree, OpenSocketsListed, ListedAtHome, NoEmptyChannel
<1>5. ResponsiveStayConnected' /\ FreshIdsUnused'
  BY <1>2 DEF RegistryInv, ResponsiveStayConnected, FreshIdsUnused
<1>6. PongsKeepUp'
  BY <1>1, <1>2 DEF RegistryInv, RegistryTypeOK, PongsKeepUp
<1> QED BY <1>3, <1>4, <1>5, <1>6 DEF RegistryInv

LEMMA RestartKeepsInv ==
  ASSUME RegistryInv, Restart
  PROVE  RegistryInv'
<1> USE DEF Restart
<1>1. DOMAIN channels' = {} /\ DOMAIN sockets' = {}
  OBVIOUS
<1>2. RegistryTypeOK'
  BY <1>1, WebSocketServerAssumption DEF RegistryInv, RegistryTypeOK
<1>3. ResponsiveStayConnected' /\ FreshIdsUnused' /\ PongsKeepUp'
  BY <1>1 DEF ResponsiveStayConnected, FreshIdsUnused, PongsKeepUp
<1>4. RegistriesAgree'
  BY <1>1 DEF RegistriesAgree, OpenSocketsListed, ListedAtHome, NoEmptyChannel
<1> QED BY <1>2, <1>3, <1>4 DEF RegistryInv

-----------------------------------------------------------------------------
LEMMA InitInv == Init => RegistryInv
BY WebSocketServerAssumption
   DEF Init, ServerInit, RegistryInv, RegistryTypeOK, RegistriesAgree, OpenSocketsListed,
       ListedAtHome, NoEmptyChannel, ResponsiveStayConnected, FreshIdsUnused, PongsKeepUp

LEMMA NextInv == RegistryInv /\ [Next]_vars => RegistryInv'
<1> SUFFICES ASSUME RegistryInv, [Next]_vars PROVE RegistryInv'
  OBVIOUS
<1>1. CASE subscribeToGlobalStream
  <2>1. CASE Head(replies).results = <<>>
    BY <1>1, <2>1, StutterKeepsInv DEF subscribeToGlobalStream, regVars
  <2>2. CASE Head(replies).results # <<>>
    BY <1>1, <2>2, ForwardingKeepsInv DEF subscribeToGlobalStream
  <2> QED BY <2>1, <2>2
<1>2. CASE fetchRangeFromStream
  <2>1. CASE Head(replies).results = <<>>
    BY <1>2, <2>1, StutterKeepsInv DEF fetchRangeFromStream, regVars
  <2>2. CASE Head(replies).results # <<>>
    BY <1>2, <2>2, ForwardingKeepsInv DEF fetchRangeFromStream
  <2> QED BY <2>1, <2>2
<1>3. CASE checkSockets
  BY <1>3, CheckKeepsInv
<1>4. CASE gc
  BY <1>4, CleaningKeepsInv DEF gc, wire
<1>5. CASE BeginRead \/ AnswerRead \/ ReadTimesOut \/ ReadFails \/ AnswerRange \/ RangeFails
  BY <1>5, StutterKeepsInv
     DEF BeginRead, AnswerRead, ReadTimesOut, ReadFails, AnswerRange, RangeFails, Serve,
         registries, wire, regVars
<1>6. CASE Tick
  BY <1>6, TickKeepsInv
<1>7. CASE PeerNext
  BY <1>7, PongKeepsInv, PeerGoneKeepsInv, SocketClosesKeepsInv DEF PeerNext
<1>8. CASE Restart
  BY <1>8, RestartKeepsInv
<1>9. CASE Connect
  BY <1>9, ConnectionKeepsInv DEF Connect
<1>10. CASE Publish
  BY <1>10, StutterKeepsInv DEF Publish, serverVars, regVars
<1>11. CASE UNCHANGED vars
  BY <1>11, StutterKeepsInv DEF vars, serverVars, regVars
<1> QED BY <1>1, <1>2, <1>3, <1>4, <1>5, <1>6, <1>7, <1>8, <1>9, <1>10, <1>11
     DEF Next, Running, ServerNext

(* The registries agree in every reachable state: whatever the interleaving  *)
(* of connections, forwarding, pings and cleaning, an open socket is found   *)
(* by sendToChannel, under its own channel only, and no channel is empty.    *)
THEOREM RegistriesAgreeAlways == Spec => []RegistriesAgree
<1>1. RegistryInv => RegistriesAgree
  BY DEF RegistryInv
<1> QED BY <1>1, InitInv, NextInv, PTL DEF Spec

(* checkSockets never terminates a socket whose peer answers pings within a  *)
(* tick, for every ping interval shorter than the response timeout.          *)
THEOREM ResponsiveStayConnectedAlways == Spec => []ResponsiveStayConnected
<1>1. RegistryInv => ResponsiveStayConnected
  BY DEF RegistryInv
<1> QED BY <1>1, InitInv, NextInv, PTL DEF Spec

(* The registries, the sockets' states and the ping timer keep their types. *)
THEOREM RegistryTypeOKAlways == Spec => []RegistryTypeOK
<1>1. RegistryInv => RegistryTypeOK
  BY DEF RegistryInv
<1> QED BY <1>1, InitInv, NextInv, PTL DEF Spec

-----------------------------------------------------------------------------
(* The Redis connection *)
ConnectionInv == ConnectionTypeOK /\ OneReadUnderWay

connectionVars == <<lastFirehoseId, commands, replies, streams, now>>

-----------------------------------------------------------------------------
(* How the number of reads in a queue changes. *)
LEMMA ReadsOfAppend ==
  ASSUME NEW T, NEW q \in Seq(T), NEW x \in T
  PROVE  Reads(Append(q, x)) =
           IF x.op = "xread" THEN Reads(q) \cup {Len(q) + 1} ELSE Reads(q)
BY AppendProperties, LenProperties DEF Reads

LEMMA AppendRead ==
  ASSUME NEW T, NEW q \in Seq(T), NEW x \in T, x.op = "xread", NoRead(q)
  PROVE  OneRead(Append(q, x)) /\ Reads(Append(q, x)) = {Len(q) + 1}
BY ReadsOfAppend DEF OneRead, NoRead

LEMMA AppendOther ==
  ASSUME NEW T, NEW q \in Seq(T), NEW x \in T, x.op # "xread"
  PROVE  Reads(Append(q, x)) = Reads(q)
BY ReadsOfAppend

LEMMA ReadsOfTail ==
  ASSUME NEW T, NEW q \in Seq(T), q # <<>>
  PROVE  Reads(Tail(q)) = {i \in 1 .. Len(q) - 1 : i + 1 \in Reads(q)}
BY HeadTailProperties, LenProperties, EmptySeq DEF Reads

(* Taking the read away leaves none; taking something else leaves it there. *)
LEMMA TakeRead ==
  ASSUME NEW T, NEW q \in Seq(T), q # <<>>, Head(q).op = "xread", OneRead(q)
  PROVE  NoRead(Tail(q))
<1>1. 1 \in Reads(q) /\ Len(q) \in Nat
  BY LenProperties, EmptySeq DEF Reads
<1>2. Reads(q) = {1}
  BY <1>1 DEF OneRead
<1> QED BY <1>1, <1>2, ReadsOfTail DEF NoRead

LEMMA TakeOther ==
  ASSUME NEW T, NEW q \in Seq(T), q # <<>>, Head(q).op # "xread"
  PROVE  /\ OneRead(q) => OneRead(Tail(q))
         /\ NoRead(q)  => NoRead(Tail(q))
         /\ \A i \in Reads(Tail(q)) : i + 1 \in Reads(q) /\ Tail(q)[i] = q[i + 1]
<1>1. Len(q) \in Nat \ {0} /\ Reads(q) \subseteq 1 .. Len(q) /\ 1 \notin Reads(q)
  BY LenProperties, EmptySeq DEF Reads
<1>2. ASSUME OneRead(q) PROVE OneRead(Tail(q))
  <2>1. PICK i \in Reads(q) : Reads(q) = {i}
    BY <1>2 DEF OneRead
  <2>2. i - 1 \in 1 .. Len(q) - 1
    BY <1>1, <2>1
  <2>3. Reads(Tail(q)) = {i - 1}
    BY <1>1, <2>1, <2>2, ReadsOfTail
  <2> QED BY <2>3 DEF OneRead
<1>3. NoRead(q) => NoRead(Tail(q))
  BY ReadsOfTail DEF NoRead
<1>4. \A i \in Reads(Tail(q)) : i + 1 \in Reads(q) /\ Tail(q)[i] = q[i + 1]
  BY <1>1, ReadsOfTail, HeadTailProperties
<1> QED BY <1>2, <1>3, <1>4

(* A queue cannot hold one read and none. *)
LEMMA HeadIsTheRead ==
  ASSUME NEW T, NEW q \in Seq(T), q # <<>>, Head(q).op = "xread"
  PROVE  ~NoRead(q)
BY LenProperties, EmptySeq DEF NoRead, Reads

-----------------------------------------------------------------------------
LEMMA ConnectionInit == Init => ConnectionInv
<1> SUFFICES ASSUME Init PROVE ConnectionInv
  OBVIOUS
<1>1. ReadCommand(Dollar) \in CommandType
  BY DEF ReadCommand, CommandType
<1>2. commands \in Seq(CommandType) /\ replies \in Seq(ReplyType)
  BY <1>1 DEF Init, ServerInit
<1>3. EmptyStream \in StreamType
  BY DEF EmptyStream, StreamType, Ids
<1>4. ConnectionTypeOK
  BY <1>2, <1>3 DEF Init, ServerInit, ConnectionTypeOK
<1>5. Reads(commands) = {1} /\ Reads(replies) = {}
  BY DEF Init, ServerInit, ReadCommand, Reads
<1>6. OneReadUnderWay
  BY <1>5 DEF OneReadUnderWay, OneRead, NoRead, Init, ServerInit
<1> QED BY <1>4, <1>6 DEF ConnectionInv

LEMMA UntouchedConnection ==
  ASSUME ConnectionInv, UNCHANGED connectionVars
  PROVE  ConnectionInv'
BY DEF ConnectionInv, ConnectionTypeOK, OneReadUnderWay, connectionVars, Reads, OneRead, NoRead

(* The server handles the reply of the read: the next read follows it.       *)
LEMMA LoopKeepsInv ==
  ASSUME ConnectionInv, subscribeToGlobalStream, UNCHANGED redis
  PROVE  ConnectionInv'
<1> DEFINE results == Head(replies).results
<1>1. /\ replies \in Seq(ReplyType) /\ replies # <<>> /\ Head(replies).op = "xread"
      /\ replies' = Tail(replies)
      /\ commands \in Seq(CommandType)
  BY DEF subscribeToGlobalStream, ConnectionInv, ConnectionTypeOK
<1>2. Head(replies) \in ReplyType /\ Tail(replies) \in Seq(ReplyType)
  BY <1>1, HeadTailProperties
<1>3. results \in Seq(EntryType)
  BY <1>2 DEF ReplyType
<1>4. lastFirehoseId' \in Ids \cup {Dollar}
  <2>1. CASE results = <<>>
    BY <2>1 DEF subscribeToGlobalStream, ConnectionInv, ConnectionTypeOK
  <2>2. CASE results # <<>>
    <3>1. Len(results) \in 1 .. Len(results)
      BY <1>3, <2>2, EmptySeq
    <3>2. results[Len(results)] \in EntryType
      BY <1>3, <3>1, ElementOfSeq
    <3>3. lastFirehoseId' = results[Len(results)].id
      BY <2>2 DEF subscribeToGlobalStream
    <3> QED BY <3>2, <3>3 DEF EntryType
  <2> QED BY <2>1, <2>2
<1>5. commands' = Append(commands, ReadCommand(lastFirehoseId'))
  BY DEF subscribeToGlobalStream
<1>6. ReadCommand(lastFirehoseId') \in CommandType /\ ReadCommand(lastFirehoseId').op = "xread"
  BY <1>4 DEF ReadCommand, CommandType
<1>7. commands' \in Seq(CommandType)
  BY <1>1, <1>5, <1>6, AppendProperties
<1>8. ConnectionTypeOK'
  BY <1>1, <1>2, <1>4, <1>7 DEF ConnectionInv, ConnectionTypeOK, redis
<1>9. NoRead(commands) /\ OneRead(replies)
  BY <1>1, HeadIsTheRead DEF ConnectionInv, OneReadUnderWay
<1>10. NoRead(replies')
  BY <1>1, <1>9, TakeRead
<1>11. OneRead(commands') /\ Reads(commands') = {Len(commands) + 1}
  BY <1>1, <1>5, <1>6, <1>9, AppendRead
<1>12. commands'[Len(commands) + 1] = ReadCommand(lastFirehoseId')
  BY <1>1, <1>5, <1>6, AppendProperties
<1>13. OneReadUnderWay'
  BY <1>10, <1>11, <1>12 DEF OneReadUnderWay, ReadCommand, OneRead, NoRead, Reads
<1> QED BY <1>8, <1>13 DEF ConnectionInv

(* The server handles the reply of a range query: the read is not touched.   *)
LEMMA RangeReplyKeepsInv ==
  ASSUME ConnectionInv, fetchRangeFromStream, UNCHANGED redis
  PROVE  ConnectionInv'
<1>1. /\ replies \in Seq(ReplyType) /\ replies # <<>> /\ Head(replies).op # "xread"
      /\ replies' = Tail(replies)
      /\ UNCHANGED <<commands, lastFirehoseId>>
  BY DEF fetchRangeFromStream, ConnectionInv, ConnectionTypeOK
<1>2. Tail(replies) \in Seq(ReplyType)
  BY <1>1, HeadTailProperties
<1>3. ConnectionTypeOK'
  BY <1>1, <1>2 DEF ConnectionInv, ConnectionTypeOK, redis
<1>4. (OneRead(replies) => OneRead(replies')) /\ (NoRead(replies) => NoRead(replies'))
  BY <1>1, TakeOther
<1>5. OneReadUnderWay'
  BY <1>1, <1>4 DEF ConnectionInv, OneReadUnderWay, Reads, OneRead, NoRead
<1> QED BY <1>3, <1>5 DEF ConnectionInv

(* Redis answers the head of its queue.                                      *)
LEMMA ServeKeepsInv ==
  ASSUME ConnectionInv, UNCHANGED redis, commands # <<>>,
         NEW reply \in ReplyType, reply.op = Head(commands).op, Serve(reply)
  PROVE  ConnectionInv'
<1>1. /\ commands \in Seq(CommandType) /\ replies \in Seq(ReplyType)
      /\ commands' = Tail(commands)
      /\ replies' = Append(replies, reply)
      /\ UNCHANGED lastFirehoseId
  BY DEF Serve, ConnectionInv, ConnectionTypeOK
<1>2. commands' \in Seq(CommandType) /\ replies' \in Seq(ReplyType)
  BY <1>1, HeadTailProperties, AppendProperties
<1>3. ConnectionTypeOK'
  BY <1>1, <1>2 DEF ConnectionInv, ConnectionTypeOK, redis
<1>4. CASE Head(commands).op = "xread"
  <2>1. OneRead(commands) /\ NoRead(replies)
    BY <1>1, <1>4, HeadIsTheRead DEF ConnectionInv, OneReadUnderWay
  <2>2. NoRead(commands')
    BY <1>1, <1>4, <2>1, TakeRead
  <2>3. OneRead(replies')
    BY <1>1, <1>4, <2>1, AppendRead
  <2> QED BY <2>2, <2>3, <1>3 DEF ConnectionInv, OneReadUnderWay, OneRead, NoRead
<1>5. CASE Head(commands).op # "xread"
  <2>1. /\ OneRead(commands) => OneRead(commands')
        /\ NoRead(commands) => NoRead(commands')
        /\ \A i \in Reads(commands') :
              i + 1 \in Reads(commands) /\ commands'[i] = commands[i + 1]
    BY <1>1, <1>5, TakeOther
  <2>2. Reads(replies') = Reads(replies)
    BY <1>1, <1>5, AppendOther
  <2>3. \/ OneRead(commands') /\ NoRead(replies')
        \/ NoRead(commands') /\ OneRead(replies')
    <3>1. CASE OneRead(commands) /\ NoRead(replies)
      BY <2>1, <2>2, <3>1 DEF NoRead
    <3>2. CASE NoRead(commands) /\ OneRead(replies)
      <4>1. PICK i \in Reads(replies) : Reads(replies) = {i}
        BY <3>2 DEF OneRead
      <4>2. OneRead(replies')
        BY <2>2, <4>1 DEF OneRead
      <4> QED BY <2>1, <3>2, <4>2
    <3> QED BY <3>1, <3>2 DEF ConnectionInv, OneReadUnderWay
  <2>4. lastFirehoseId' # Dollar =>
          \A i \in Reads(commands') : commands'[i].after = lastFirehoseId'
    BY <1>1, <2>1 DEF ConnectionInv, OneReadUnderWay
  <2> QED BY <1>3, <2>3, <2>4 DEF ConnectionInv, OneReadUnderWay, OneRead, NoRead, Reads
<1> QED BY <1>4, <1>5

(* What Redis answers is made of entries of its streams. *)
LEMMA RedisKeepsInv ==
  ASSUME ConnectionInv, UNCHANGED redis,
         AnswerRead \/ ReadTimesOut \/ ReadFails \/ AnswerRange \/ RangeFails
  PROVE  ConnectionInv'
<1>1. /\ commands \in Seq(CommandType)
      /\ streams \in [Channels \cup {Full} -> StreamType]
  BY DEF ConnectionInv, ConnectionTypeOK
<1>2. commands # <<>> /\ Head(commands) \in CommandType
  BY <1>1, HeadTailProperties
     DEF AnswerRead, ReadTimesOut, ReadFails, AnswerRange, RangeFails, Serving
<1>3. \A results \in Seq(EntryType) :
        /\ Reply("xread", results) \in ReplyType /\ Reply("xread", results).op = "xread"
        /\ Reply("xrange", results) \in ReplyType /\ Reply("xrange", results).op = "xrange"
  BY DEF Reply, ReplyType
<1>4. <<>> \in Seq(EntryType)
  BY EmptySeq
<1>5. CASE ReadTimesOut \/ ReadFails
  BY <1>2, <1>3, <1>4, <1>5, ServeKeepsInv DEF ReadTimesOut, ReadFails, Serving
<1>6. CASE RangeFails
  BY <1>2, <1>3, <1>4, <1>6, ServeKeepsInv DEF RangeFails, Serving
<1>7. CASE AnswerRead
  <2> DEFINE results == XRead(streams[Full], Head(commands).after, StreamReadCount)
  <2>1. streams[Full].entries \in Seq(EntryType)
    BY <1>1 DEF StreamType
  <2>2. StreamReadCount \in Nat
    BY WebSocketServerAssumption
  <2>3. results \in Seq(EntryType)
    BY <2>1, <2>2, ReadsAreEntries
  <2>4. Serve(Reply("xread", results)) /\ Head(commands).op = "xread"
    BY <1>7 DEF AnswerRead, Serving
  <2> HIDE DEF results
  <2> QED BY <1>2, <1>3, <2>3, <2>4, ServeKeepsInv
<1>8. CASE AnswerRange
  <2> DEFINE q == Head(commands)
             results == XRange(streams[q.channel], q.start, q.end)
  <2>1. Serve(Reply("xrange", results)) /\ q.op = "xrange"
    BY <1>8 DEF AnswerRange, Serving
  <2>2. q.channel \in Channels
    BY <1>2, <2>1 DEF CommandType
  <2>3. streams[q.channel].entries \in Seq(EntryType)
    BY <1>1, <2>2 DEF StreamType
  <2>4. results \in Seq(EntryType)
    BY <2>3, RangesAreEntries
  <2> HIDE DEF results
  <2> QED BY <1>2, <1>3, <2>1, <2>4, ServeKeepsInv
<1> QED BY <1>5, <1>6, <1>7, <1>8

(* A read from `$' takes its ID; the server then has forwarded nothing yet.  *)
LEMMA BeginReadKeepsInv ==
  ASSUME ConnectionInv, BeginRead, UNCHANGED redis
  PROVE  ConnectionInv'
<1> DEFINE begun == [commands[1] EXCEPT !.after = streams[Full].last]
<1>1. /\ commands \in Seq(CommandType) /\ commands # <<>>
      /\ commands[1].op = "xread" /\ commands[1].after = Dollar
      /\ commands' = [commands EXCEPT ![1] = begun]
      /\ UNCHANGED <<lastFirehoseId, replies>>
  BY DEF BeginRead, Serving, ConnectionInv, ConnectionTypeOK
<1>2. 1 \in 1 .. Len(commands)
  BY <1>1, EmptySeq
<1>3. streams[Full].last \in Ids
  BY DEF ConnectionInv, ConnectionTypeOK, StreamType
<1>4. commands[1] \in [op : {"xread"}, after : Ids \cup {Dollar}]
  BY <1>1, <1>2, ElementOfSeq DEF CommandType
<1>5. begun \in CommandType /\ begun.op = "xread"
  BY <1>3, <1>4 DEF CommandType
<1> HIDE DEF begun
<1>6. /\ commands' \in Seq(CommandType)
      /\ Len(commands') = Len(commands)
      /\ \A j \in 1 .. Len(commands) : commands'[j] = IF j = 1 THEN begun ELSE commands[j]
  BY <1>1, <1>2, <1>5, ExceptSeq
<1>7. Reads(commands') = Reads(commands)
  BY <1>1, <1>5, <1>6 DEF Reads
<1>8. ConnectionTypeOK'
  BY <1>1, <1>6 DEF ConnectionInv, ConnectionTypeOK, redis
<1>9. 1 \in Reads(commands)
  BY <1>1, <1>2 DEF Reads
<1>10. lastFirehoseId = Dollar
  BY <1>1, <1>9 DEF ConnectionInv, OneReadUnderWay
<1>11. OneReadUnderWay'
  BY <1>1, <1>7, <1>10 DEF ConnectionInv, OneReadUnderWay, OneRead, NoRead, Reads
<1> QED BY <1>8, <1>11 DEF ConnectionInv

(* The IDs a client may remember are IDs. *)
LEMMA RememberedIds ==
  ASSUME ConnectionTypeOK, NEW k \in Channels \cup {Full}, NEW c
  PROVE  IdsOf(k, c) \subseteq Ids
<1>1. streams[k].entries \in Seq(EntryType)
  BY DEF ConnectionTypeOK, StreamType
<1>2. \A i \in 1 .. Len(streams[k].entries) : streams[k].entries[i] \in EntryType
  BY <1>1, ElementOfSeq
<1> QED BY <1>2 DEF IdsOf, EntryType

LEMMA ConnectKeepsInv ==
  ASSUME ConnectionInv, Connect
  PROVE  ConnectionInv'
<1>1. PICK s \in SocketIds, c \in Channels, lastId \in Ids \cup {NoId} :
         wsConnection(s, c, lastId) /\ UNCHANGED redis
  BY RememberedIds DEF Connect, ConnectionInv
<1> DEFINE range == RangeCommand(c, incrementId(lastId),
                       IF lastFirehoseId = Dollar THEN Plus ELSE lastFirehoseId)
<1>2. CASE lastId = NoId
  BY <1>1, <1>2, UntouchedConnection DEF wsConnection, connectionVars, redis
<1>3. CASE lastId # NoId
  <2>1. /\ commands \in Seq(CommandType)
        /\ commands' = Append(commands, range)
        /\ UNCHANGED <<lastFirehoseId, replies>>
    BY <1>1, <1>3 DEF wsConnection, ConnectionInv, ConnectionTypeOK
  <2>2. range \in CommandType /\ range.op # "xread"
    <3>1. lastId \in Ids
      BY <1>1, <1>3
    <3>2. incrementId(lastId) \in Ids
      BY <3>1 DEF incrementId, Ids
    <3> QED BY <3>2 DEF RangeCommand, CommandType, ConnectionInv, ConnectionTypeOK
  <2> HIDE DEF range
  <2>3. commands' \in Seq(CommandType)
    BY <2>1, <2>2, AppendProperties
  <2>4. Reads(commands') = Reads(commands)
    BY <2>1, <2>2, AppendOther
  <2>5. \A i \in Reads(commands) : commands'[i] = commands[i]
    BY <2>1, <2>2, AppendProperties DEF Reads
  <2>6. ConnectionTypeOK'
    BY <1>1, <2>1, <2>3 DEF ConnectionInv, ConnectionTypeOK, redis
  <2>7. OneReadUnderWay'
    BY <2>1, <2>4, <2>5 DEF ConnectionInv, OneReadUnderWay, OneRead, NoRead, Reads
  <2> QED BY <2>6, <2>7 DEF ConnectionInv
<1> QED BY <1>2, <1>3

LEMMA PublishKeepsInv ==
  ASSUME ConnectionInv, Publish
  PROVE  ConnectionInv'
<1>1. /\ streams \in [Channels \cup {Full} -> StreamType]
      /\ now' \in Nat
      /\ UNCHANGED <<lastFirehoseId, commands, replies>>
  BY DEF Publish, serverVars, ConnectionInv, ConnectionTypeOK
<1>2. StreamType = StreamsOf(Events)
  BY DEF StreamType, EntryType, StreamsOf, EntriesOf
<1>3. ASSUME NEW k \in Channels \cup {Full}, NEW event \in Events
      PROVE  XAdd(streams[k], now', event) \in StreamType
  BY <1>1, <1>2, <1>3, AddKeepsType
<1>4. \E event \in Events : \E k \in {event.channel, Full} :
         streams' = [streams EXCEPT ![k] = XAdd(@, now', event)]
  BY DEF Publish, PublishScoped, PublishFull
<1>5. streams' \in [Channels \cup {Full} -> StreamType]
  <2>1. PICK event \in Events : \E k \in {event.channel, Full} :
           streams' = [streams EXCEPT ![k] = XAdd(streams[k], now', event)]
    BY <1>4
  <2>2. PICK k \in {event.channel, Full} :
           streams' = [streams EXCEPT ![k] = XAdd(streams[k], now', event)]
    BY <2>1
  <2>3. CASE k \in Channels \cup {Full}
    BY <1>1, <1>3, <2>2, <2>3
  <2>4. CASE k \notin Channels \cup {Full}
    BY <1>1, <2>2, <2>4
  <2> QED BY <2>3, <2>4
<1>6. ConnectionTypeOK'
  BY <1>1, <1>5 DEF ConnectionInv, ConnectionTypeOK
<1>7. OneReadUnderWay'
  BY <1>1 DEF ConnectionInv, OneReadUnderWay, OneRead, NoRead, Reads
<1> QED BY <1>6, <1>7 DEF ConnectionInv

(* A restart loses the queues and sends the first read.                      *)
LEMMA RestartKeepsConnection ==
  ASSUME ConnectionInv, Restart, UNCHANGED redis
  PROVE  ConnectionInv'
<1>1. ReadCommand(Dollar) \in CommandType
  BY DEF ReadCommand, CommandType
<1>2. ConnectionTypeOK'
  BY <1>1 DEF Restart, ConnectionInv, ConnectionTypeOK, redis
<1>3. Reads(<<ReadCommand(Dollar)>>) = {1} /\ Reads(<<>>) = {}
  BY DEF ReadCommand, Reads
<1>4. OneReadUnderWay'
  BY <1>3 DEF Restart, OneReadUnderWay, OneRead, NoRead, Reads
<1> QED BY <1>2, <1>4 DEF ConnectionInv

-----------------------------------------------------------------------------
LEMMA ConnectionNext == ConnectionInv /\ [Next]_vars => ConnectionInv'
<1> SUFFICES ASSUME ConnectionInv, [Next]_vars PROVE ConnectionInv'
  OBVIOUS
<1>1. CASE Publish
  BY <1>1, PublishKeepsInv
<1>2. CASE Connect
  BY <1>2, ConnectKeepsInv
<1>3. CASE Restart /\ UNCHANGED redis
  BY <1>3, RestartKeepsConnection
<1>4. CASE PeerNext /\ UNCHANGED redis
  BY <1>4, UntouchedConnection
     DEF PeerNext, pong, PeerGone, SocketCloses, registries, cursor, redis, connectionVars
<1>5. CASE UNCHANGED vars
  BY <1>5, UntouchedConnection DEF vars, serverVars, redis, connectionVars
<1>6. CASE ServerNext /\ UNCHANGED redis
  <2>1. CASE subscribeToGlobalStream
    BY <1>6, <2>1, LoopKeepsInv
  <2>2. CASE fetchRangeFromStream
    BY <1>6, <2>2, RangeReplyKeepsInv
  <2>3. CASE checkSockets \/ gc \/ Tick
    BY <1>6, <2>3, UntouchedConnection
       DEF checkSockets, gc, Tick, cursor, redis, connectionVars
  <2>4. CASE BeginRead
    BY <1>6, <2>4, BeginReadKeepsInv
  <2>5. CASE AnswerRead \/ ReadTimesOut \/ ReadFails \/ AnswerRange \/ RangeFails
    BY <1>6, <2>5, RedisKeepsInv
  <2> QED BY <1>6, <2>1, <2>2, <2>3, <2>4, <2>5 DEF ServerNext
<1> QED BY <1>1, <1>2, <1>3, <1>4, <1>5, <1>6 DEF Next, Running

(* In every reachable state exactly one read of the firehose is under way,   *)
(* and it continues from the last entry forwarded: subscribeToGlobalStream   *)
(* neither stops nor doubles, for any number of sockets, range queries,      *)
(* timeouts, errors and restarts.                                            *)
THEOREM OneReadUnderWayAlways == Spec => []OneReadUnderWay
<1>1. ConnectionInv => OneReadUnderWay
  BY DEF ConnectionInv
<1> QED BY <1>1, ConnectionInit, ConnectionNext, PTL DEF Spec

(* Commands, replies, the cursor and the streams keep their types.           *)
THEOREM ConnectionTypeOKAlways == Spec => []ConnectionTypeOK
<1>1. ConnectionInv => ConnectionTypeOK
  BY DEF ConnectionInv
<1> QED BY <1>1, ConnectionInit, ConnectionNext, PTL DEF Spec

-----------------------------------------------------------------------------
(* The cursor *)
CursorInv == /\ ConnectionInv
             /\ InOrder(streams[Full])
             /\ BatchFollowsCursor

-----------------------------------------------------------------------------
LEMMA CursorInit == Init => CursorInv
<1> SUFFICES ASSUME Init PROVE CursorInv
  OBVIOUS
<1>1. streams[Full] = EmptyStream /\ replies = <<>>
  BY DEF Init, ServerInit
<1>2. InOrder(streams[Full])
  BY <1>1 DEF InOrder, EmptyStream
<1>3. BatchFollowsCursor
  BY <1>1 DEF BatchFollowsCursor, Reads
<1> QED BY <1>2, <1>3, ConnectionInit DEF CursorInv

(* Steps that touch neither the replies, the cursor nor the streams. *)
LEMMA UntouchedCursor ==
  ASSUME CursorInv, ConnectionInv', UNCHANGED <<replies, lastFirehoseId, streams>>
  PROVE  CursorInv'
BY DEF CursorInv, BatchFollowsCursor, Reads

(* A reply that is not a read's, or an empty one, adds no batch. *)
LEMMA ServeKeepsCursor ==
  ASSUME CursorInv, ConnectionInv', UNCHANGED redis,
         NEW reply \in ReplyType, Serve(reply),
         reply.op = "xread" /\ reply.results # <<>> /\ lastFirehoseId # Dollar =>
            EntriesIn(reply.results) =
              Between(streams[Full], lastFirehoseId, reply.results[Len(reply.results)].id)
  PROVE  CursorInv'
<1>1. /\ replies \in Seq(ReplyType)
      /\ replies' = Append(replies, reply)
      /\ UNCHANGED <<lastFirehoseId, streams>>
  BY DEF Serve, redis, CursorInv, ConnectionInv, ConnectionTypeOK
<1>2. /\ Len(replies) \in Nat
      /\ \A i \in 1 .. Len(replies) : replies'[i] = replies[i]
      /\ replies'[Len(replies) + 1] = reply
      /\ Len(replies') = Len(replies) + 1
  BY <1>1, AppendProperties, LenProperties
<1>3. \A i \in Reads(replies') :
        \/ i \in Reads(replies) /\ replies'[i] = replies[i]
        \/ replies'[i] = reply /\ reply.op = "xread"
  BY <1>2 DEF Reads
<1>4. BatchFollowsCursor'
  BY <1>1, <1>3 DEF CursorInv, BatchFollowsCursor, Reads
<1> QED BY <1>1, <1>4 DEF CursorInv

(* The reply of the read: by OneReadUnderWay the read was sent with the      *)
(* cursor, and XREAD answers exactly what follows it.                        *)
LEMMA AnswerKeepsCursor ==
  ASSUME CursorInv, ConnectionInv', UNCHANGED redis, AnswerRead
  PROVE  CursorInv'
<1> DEFINE after   == Head(commands).after
           results == XRead(streams[Full], after, StreamReadCount)
<1>1. /\ commands \in Seq(CommandType) /\ commands # <<>>
      /\ Head(commands) = commands[1] /\ commands[1].op = "xread"
      /\ results # <<>> /\ Serve(Reply("xread", results))
  BY DEF AnswerRead, Serving, CursorInv, ConnectionInv, ConnectionTypeOK
<1>2. streams[Full] \in StreamsOf(Events) /\ InOrder(streams[Full])
  BY DEF CursorInv, ConnectionInv, ConnectionTypeOK, StreamType, EntryType, StreamsOf, EntriesOf
<1>3. StreamReadCount \in Nat
  BY WebSocketServerAssumption
<1>4. Reply("xread", results) \in ReplyType
  <2>1. streams[Full].entries \in Seq(EntryType)
    BY <1>2 DEF StreamsOf, EntriesOf, EntryType
  <2>2. results \in Seq(EntryType)
    BY <1>3, <2>1, ReadsAreEntries
  <2> QED BY <2>2 DEF Reply, ReplyType
<1>5. ASSUME lastFirehoseId # Dollar
      PROVE  EntriesIn(results) =
               Between(streams[Full], lastFirehoseId, results[Len(results)].id)
  <2>1. 1 \in Reads(commands)
    BY <1>1, EmptySeq DEF Reads
  <2>2. after = lastFirehoseId
    BY <1>1, <1>5, <2>1 DEF CursorInv, ConnectionInv, OneReadUnderWay
  <2>3. after \in Ids
    BY <1>5, <2>2 DEF CursorInv, ConnectionInv, ConnectionTypeOK
  <2>4. EntriesIn(results) = Between(streams[Full], after, results[Len(results)].id)
    BY <1>1, <1>2, <1>3, <2>3, ReadIsExact
  <2> QED BY <2>2, <2>4
<1> HIDE DEF results
<1>6. Reply("xread", results).results = results
  BY DEF Reply
<1> QED BY <1>1, <1>4, <1>5, <1>6, ServeKeepsCursor

LEMMA OtherAnswersKeepCursor ==
  ASSUME CursorInv, ConnectionInv', UNCHANGED redis,
         ReadTimesOut \/ ReadFails \/ AnswerRange \/ RangeFails
  PROVE  CursorInv'
<1>1. <<>> \in Seq(EntryType)
  BY EmptySeq
<1>2. /\ \A op \in {"xread", "xrange"} : Reply(op, <<>>) \in ReplyType
      /\ \A op : Reply(op, <<>>).results = <<>>
  BY <1>1 DEF Reply, ReplyType
<1>3. CASE ReadTimesOut \/ ReadFails \/ RangeFails
  BY <1>2, <1>3, ServeKeepsCursor DEF ReadTimesOut, ReadFails, RangeFails
<1>4. CASE AnswerRange
  <2> DEFINE q       == Head(commands)
             results == XRange(streams[q.channel], q.start, q.end)
  <2>1. Serve(Reply("xrange", results)) /\ q.op = "xrange" /\ commands # <<>>
    BY <1>4 DEF AnswerRange, Serving
  <2>2. q.channel \in Channels
    BY <2>1, HeadTailProperties DEF CommandType, CursorInv, ConnectionInv, ConnectionTypeOK
  <2>3. streams[q.channel].entries \in Seq(EntryType)
    BY <2>2 DEF CursorInv, ConnectionInv, ConnectionTypeOK, StreamType
  <2>4. results \in Seq(EntryType)
    BY <2>3, RangesAreEntries
  <2> HIDE DEF results
  <2>5. Reply("xrange", results) \in ReplyType /\ Reply("xrange", results).op = "xrange"
    BY <2>4 DEF Reply, ReplyType
  <2> QED BY <2>1, <2>5, ServeKeepsCursor
<1> QED BY <1>3, <1>4

(* What is added meanwhile comes after the batch. *)
LEMMA PublishKeepsCursor ==
  ASSUME CursorInv, ConnectionInv', Publish
  PROVE  CursorInv'
<1>1. /\ streams \in [Channels \cup {Full} -> StreamType]
      /\ now' \in Nat
      /\ UNCHANGED <<lastFirehoseId, replies>>
  BY DEF Publish, serverVars, CursorInv, ConnectionInv, ConnectionTypeOK
<1>2. streams[Full] \in StreamsOf(Events)
  BY <1>1 DEF StreamType, EntryType, StreamsOf, EntriesOf
<1>3. \/ streams'[Full] = streams[Full]
      \/ \E event \in Events : streams'[Full] = XAdd(streams[Full], now', event)
  <2>1. \E event \in Events : \E k \in {event.channel, Full} :
           streams' = [streams EXCEPT ![k] = XAdd(@, now', event)]
    BY DEF Publish, PublishScoped, PublishFull
  <2>2. PICK event \in Events : \E k \in {event.channel, Full} :
           streams' = [streams EXCEPT ![k] = XAdd(streams[k], now', event)]
    BY <2>1
  <2> QED BY <1>1, <2>2
<1>4. CASE streams'[Full] = streams[Full]
  BY <1>1, <1>4 DEF CursorInv, BatchFollowsCursor, Reads
<1>5. CASE \E event \in Events : streams'[Full] = XAdd(streams[Full], now', event)
  <2>1. PICK event \in Events : streams'[Full] = XAdd(streams[Full], now', event)
    BY <1>5
  <2>2. /\ InOrder(streams'[Full])
        /\ \A after \in Ids : \A upTo \in Ids : IdLeq(upTo, streams[Full].last) =>
             Between(streams'[Full], after, upTo) = Between(streams[Full], after, upTo)
    BY <1>1, <1>2, <2>1, AddKeepsOrder DEF CursorInv
  <2>3. ASSUME NEW i \in Reads(replies), replies[i].results # <<>>, lastFirehoseId # Dollar
        PROVE  LET results == replies[i].results
               IN  EntriesIn(results) =
                     Between(streams'[Full], lastFirehoseId, results[Len(results)].id)
    <3> DEFINE results == replies[i].results
               upTo    == results[Len(results)].id
    <3>1. EntriesIn(results) = Between(streams[Full], lastFirehoseId, upTo)
      BY <2>3 DEF CursorInv, BatchFollowsCursor
    <3>2. results \in Seq(EntryType)
      <4>1. replies[i] \in ReplyType
        BY ElementOfSeq DEF CursorInv, ConnectionInv, ConnectionTypeOK, Reads
      <4> QED BY <4>1 DEF ReplyType
    <3>3. Len(results) \in 1 .. Len(results)
      BY <2>3, <3>2, EmptySeq
    <3>4. results[Len(results)] \in EntriesIn(results)
      BY <3>3 DEF EntriesIn
    <3>5. upTo \in Ids
      <4>1. results[Len(results)] \in EntryType
        BY <3>2, <3>3, ElementOfSeq
      <4> QED BY <4>1 DEF EntryType
    <3>6. IdLeq(upTo, streams[Full].last)
      <4>1. results[Len(results)] \in EntriesIn(streams[Full].entries)
        BY <3>1, <3>4 DEF Between
      <4> QED BY <4>1 DEF EntriesIn, CursorInv, InOrder
    <3>7. lastFirehoseId \in Ids
      BY <2>3 DEF CursorInv, ConnectionInv, ConnectionTypeOK
    <3> QED BY <2>2, <3>1, <3>5, <3>6, <3>7
  <2>4. BatchFollowsCursor'
    BY <1>1, <2>3 DEF BatchFollowsCursor, Reads
  <2> QED BY <2>2, <2>4 DEF CursorInv
<1> QED BY <1>3, <1>4, <1>5

(* The loop forwards its batch, and has none until the next read is answered. *)
LEMMA LoopKeepsCursor ==
  ASSUME CursorInv, ConnectionInv', subscribeToGlobalStream, UNCHANGED redis
  PROVE  CursorInv'
<1>1. /\ replies \in Seq(ReplyType) /\ replies # <<>> /\ Head(replies).op = "xread"
      /\ replies' = Tail(replies)
  BY DEF subscribeToGlobalStream, CursorInv, ConnectionInv, ConnectionTypeOK
<1>2. OneRead(replies)
  BY <1>1, HeadIsTheRead DEF CursorInv, ConnectionInv, OneReadUnderWay
<1>3. NoRead(replies')
  BY <1>1, <1>2, TakeRead
<1>4. BatchFollowsCursor'
  BY <1>3 DEF NoRead, BatchFollowsCursor, Reads
<1> QED BY <1>4 DEF CursorInv, redis

LEMMA RangeReplyKeepsCursor ==
  ASSUME CursorInv, ConnectionInv', fetchRangeFromStream, UNCHANGED redis
  PROVE  CursorInv'
<1>1. /\ replies \in Seq(ReplyType) /\ replies # <<>> /\ Head(replies).op # "xread"
      /\ replies' = Tail(replies)
      /\ UNCHANGED <<lastFirehoseId, streams>>
  BY DEF fetchRangeFromStream, redis, CursorInv, ConnectionInv, ConnectionTypeOK
<1>2. \A i \in Reads(replies') : i + 1 \in Reads(replies) /\ replies'[i] = replies[i + 1]
  BY <1>1, TakeOther
<1>3. BatchFollowsCursor'
  BY <1>1, <1>2 DEF CursorInv, BatchFollowsCursor, Reads
<1> QED BY <1>1, <1>3 DEF CursorInv

-----------------------------------------------------------------------------
LEMMA CursorNext == CursorInv /\ [Next]_vars => CursorInv'
<1> SUFFICES ASSUME CursorInv, [Next]_vars PROVE CursorInv'
  OBVIOUS
<1>1. ConnectionInv'
  BY ConnectionNext DEF CursorInv
<1>2. CASE Publish
  BY <1>1, <1>2, PublishKeepsCursor
<1>3. CASE Connect
  BY <1>1, <1>3, UntouchedCursor DEF Connect, wsConnection, redis
<1>4. CASE Restart /\ UNCHANGED redis
  <2>1. replies' = <<>> /\ UNCHANGED streams
    BY <1>4 DEF Restart, redis
  <2> QED BY <1>1, <2>1 DEF CursorInv, BatchFollowsCursor, Reads
<1>5. CASE PeerNext /\ UNCHANGED redis
  BY <1>1, <1>5, UntouchedCursor
     DEF PeerNext, pong, PeerGone, SocketCloses, registries, cursor, redis
<1>6. CASE UNCHANGED vars
  BY <1>1, <1>6, UntouchedCursor DEF vars, serverVars, redis
<1>7. CASE ServerNext /\ UNCHANGED redis
  <2>1. CASE subscribeToGlobalStream
    BY <1>1, <1>7, <2>1, LoopKeepsCursor
  <2>2. CASE fetchRangeFromStream
    BY <1>1, <1>7, <2>2, RangeReplyKeepsCursor
  <2>3. CASE checkSockets \/ gc \/ Tick \/ BeginRead
    BY <1>1, <1>7, <2>3, UntouchedCursor DEF checkSockets, gc, Tick, BeginRead, cursor, redis
  <2>4. CASE AnswerRead
    BY <1>1, <1>7, <2>4, AnswerKeepsCursor
  <2>5. CASE ReadTimesOut \/ ReadFails \/ AnswerRange \/ RangeFails
    BY <1>1, <1>7, <2>5, OtherAnswersKeepCursor
  <2> QED BY <1>7, <2>1, <2>2, <2>3, <2>4, <2>5 DEF ServerNext
<1> QED BY <1>2, <1>3, <1>4, <1>5, <1>6, <1>7 DEF Next, Running

(* Whatever the workers add and the clients ask for between the sending of a *)
(* read and the handling of its reply, the batch subscribeToGlobalStream is  *)
(* about to forward is exactly the part of the firehose that follows the     *)
(* last entry forwarded: the loop skips no entry and forwards none twice.    *)
THEOREM BatchFollowsCursorAlways == Spec => []BatchFollowsCursor
<1>1. CursorInv => BatchFollowsCursor
  BY DEF CursorInv
<1> QED BY <1>1, CursorInit, CursorNext, PTL DEF Spec

-----------------------------------------------------------------------------
(* What is sent on the sockets *)
(* What a socket is sent of a batch: the entries of a channel that lists it. *)
LEMMA SentIsListed ==
  ASSUME NEW E, NEW results \in Seq(E), NEW s
  PROVE  /\ SentTo(s, results) \in Seq(E)
         /\ EntriesIn(SentTo(s, results)) = {x \in EntriesIn(results) : Listed(s, x)}
BY OnlyIsExact DEF SentTo

(* A batch is a sequence of entries, and so is what a socket is sent of it. *)
LEMMA ForwardingKeepsInboxes ==
  ASSUME inbox \in [SocketIds -> Seq(EntryType)], NEW results \in Seq(EntryType),
         processStreamResults(results)
  PROVE  inbox' \in [SocketIds -> Seq(EntryType)]
<1>1. inbox' = [s \in SocketIds |->
                   IF IsActive(s) /\ link[s] THEN inbox[s] \o SentTo(s, results)
                                             ELSE inbox[s]]
  BY DEF processStreamResults
<1>2. ASSUME NEW s \in SocketIds PROVE inbox[s] \o SentTo(s, results) \in Seq(EntryType)
  BY SentIsListed, ConcatProperties
<1> QED BY <1>1, <1>2

(* What the head of the replies brings. *)
LEMMA HeadOfReplies ==
  ASSUME ConnectionInv, replies # <<>>
  PROVE  /\ Head(replies).results \in Seq(EntryType)
         /\ Head(replies).op = "xread" => /\ 1 \in Reads(replies)
                                          /\ replies[1].results = Head(replies).results
<1>1. replies \in Seq(ReplyType) /\ Head(replies) = replies[1] /\ 1 \in 1 .. Len(replies)
  BY EmptySeq DEF ConnectionInv, ConnectionTypeOK
<1>2. replies[1] \in ReplyType
  BY <1>1, ElementOfSeq
<1> QED BY <1>1, <1>2 DEF ReplyType, Reads

(* Which actions may change what a socket was sent. *)
LEMMA InboxesKeepType ==
  ASSUME ConnectionInv, inbox \in [SocketIds -> Seq(EntryType)], [Next]_vars
  PROVE  inbox' \in [SocketIds -> Seq(EntryType)]
<1>1. <<>> \in Seq(EntryType)
  OBVIOUS
<1>2. CASE subscribeToGlobalStream \/ fetchRangeFromStream
  <2>1. replies # <<>> /\ (UNCHANGED inbox \/ processStreamResults(Head(replies).results))
    BY <1>2 DEF subscribeToGlobalStream, fetchRangeFromStream
  <2> QED BY <2>1, HeadOfReplies, ForwardingKeepsInboxes
<1>3. CASE Restart
  BY <1>1, <1>3 DEF Restart
<1>4. CASE \E s \in SocketIds : PeerGone(s)
  BY <1>1, <1>4 DEF PeerGone
<1>5. CASE UNCHANGED inbox
  BY <1>5
<1>6. \/ subscribeToGlobalStream \/ fetchRangeFromStream
      \/ Restart \/ (\E s \in SocketIds : PeerGone(s)) \/ UNCHANGED inbox
  BY DEF Next, Running, ServerNext, PeerNext, Connect, Publish, wsConnection, checkSockets, gc,
     Tick, BeginRead, AnswerRead, ReadTimesOut, ReadFails, AnswerRange, RangeFails, Serve, pong,
     SocketCloses, wire, serverVars, vars
<1> QED BY <1>2, <1>3, <1>4, <1>5, <1>6

ServerInv == RegistryInv /\ CursorInv /\ inbox \in [SocketIds -> Seq(EntryType)]

LEMMA ServerInitInv == Init => ServerInv
BY InitInv, CursorInit, EmptySeq DEF ServerInv, Init, ServerInit

LEMMA ServerNextInv == ServerInv /\ [Next]_vars => ServerInv'
BY NextInv, CursorNext, InboxesKeepType DEF ServerInv, CursorInv

(* Registries, queues, streams and what was sent on each socket keep their   *)
(* types, for any number of channels, sockets and events.                    *)
THEOREM ServerTypeOKAlways == Spec => []TypeOK
<1>1. ServerInv => TypeOK
  BY DEF ServerInv, TypeOK, RegistryInv, CursorInv, ConnectionInv
<1> QED BY <1>1, ServerInitInv, ServerNextInv, PTL DEF Spec

-----------------------------------------------------------------------------
(* No event is skipped.  A batch under way is known to the firehose, which   *)
(* is ahead of the cursor; and a socket served that connected after a first  *)
(* event was forwarded has been sent what is due to it.                      *)
BatchesKnown ==
  \A i \in Reads(replies) : \A x \in EntriesIn(replies[i].results) :
     IdLeq(x.id, streams[Full].last)

CursorBehind == lastFirehoseId # Dollar => IdLeq(lastFirehoseId, streams[Full].last)

SinceKnown == DOMAIN since = {s \in SocketIds : readyState[s] # "NONE"}

Caught(s) ==
  since[s].cursor # Dollar => lastFirehoseId # Dollar /\ Due(s) \subseteq Received(s)

ForwardedInv ==
  /\ ServerInv /\ BatchesKnown /\ CursorBehind /\ SinceKnown
  /\ \A s \in SocketIds : Served(s) => Caught(s)

(* The firehose as the invariants know it. *)
LEMMA TheFirehose ==
  ASSUME ServerInv
  PROVE  /\ streams[Full] \in StreamsOf(Events) /\ InOrder(streams[Full])
         /\ streams[Full].last \in Ids
         /\ \A x \in EntriesIn(streams[Full].entries) :
              x.id \in Ids /\ IdLeq(x.id, streams[Full].last)
<1>1. streams[Full] \in StreamsOf(Events) /\ InOrder(streams[Full])
  BY DEF ServerInv, CursorInv, ConnectionInv, ConnectionTypeOK, StreamType, EntryType,
         StreamsOf, EntriesOf
<1>2. streams[Full].entries \in Seq([id : Ids, event : Events]) /\ streams[Full].last \in Ids
  BY <1>1 DEF StreamsOf, EntriesOf
<1>3. \A i \in 1 .. Len(streams[Full].entries) :
         streams[Full].entries[i] \in [id : Ids, event : Events]
  BY <1>2, ElementOfSeq
<1> QED BY <1>1, <1>2, <1>3 DEF EntriesIn, InOrder

(* What publishing does to the firehose. *)
LEMMA FirehoseGrows ==
  ASSUME ServerInv, Publish
  PROVE  /\ streams'[Full].last \in Ids /\ IdLeq(streams[Full].last, streams'[Full].last)
         /\ \A x \in EntriesIn(streams'[Full].entries) :
              \/ x \in EntriesIn(streams[Full].entries)
              \/ (x.id \in Ids /\ IdLess(streams[Full].last, x.id))
<1>1. PICK event \in Events : \E k \in {event.channel, Full} :
         streams' = [streams EXCEPT ![k] = XAdd(streams[k], now', event)]
  BY DEF Publish, PublishScoped, PublishFull
<1>2. \/ streams'[Full] = streams[Full]
      \/ streams'[Full] = XAdd(streams[Full], now', event)
  BY <1>1 DEF ServerInv, CursorInv, ConnectionInv, ConnectionTypeOK
<1>3. CASE streams'[Full] = streams[Full]
  BY <1>3, TheFirehose DEF IdLeq
<1>4. CASE streams'[Full] = XAdd(streams[Full], now', event)
  <2>1. now' \in Nat
    BY DEF Publish, ServerInv, CursorInv, ConnectionInv, ConnectionTypeOK
  <2>2. /\ NewId(streams[Full], now') \in Ids
        /\ IdLess(streams[Full].last, NewId(streams[Full], now'))
    BY <2>1, TheFirehose, NewIdIsGreater
  <2> DEFINE x == [id |-> NewId(streams[Full], now'), event |-> event]
  <2>3. /\ streams'[Full].last = x.id
        /\ streams'[Full].entries = Append(streams[Full].entries, x)
    BY <1>4 DEF XAdd
  <2>4. streams[Full].entries \in Seq([id : Ids, event : Events])
    BY TheFirehose DEF StreamsOf, EntriesOf
  <2>5. EntriesIn(streams'[Full].entries) = EntriesIn(streams[Full].entries) \cup {x}
    <3>1. x \in [id : Ids, event : Events]
      BY <2>2
    <3> HIDE DEF x
    <3> QED BY <2>3, <2>4, <3>1, AppendProperties DEF EntriesIn
  <2> QED BY <2>2, <2>3, <2>5 DEF IdLeq
<1> QED BY <1>2, <1>3, <1>4

(* An ID up to one that comes before another does not come after that one.   *)
LEMMA NotAfter ==
  ASSUME NEW a \in Ids, NEW b \in Ids, NEW c \in Ids, IdLeq(a, b), IdLeq(b, c)
  PROVE  IdLeq(a, c) /\ ~IdLess(c, a)
BY IdsAreOrdered DEF IdLeq

(* A step that leaves the firehose and the cursor alone, keeps sockets to    *)
(* their channel and takes nothing back of what was sent.                    *)
LEMMA QuietStep ==
  ASSUME ForwardedInv, NEW s \in SocketIds, Served(s), since'[s] = since[s],
         UNCHANGED <<lastFirehoseId, streams>>,
         sockets'[s].channel = sockets[s].channel, Received(s) \subseteq Received(s)'
  PROVE  Caught(s)'
BY DEF ForwardedInv, Caught, Due

(* A socket that is served after a step was served before it, by the same    *)
(* channel, or has just connected.                                           *)
LEMMA ServedBefore ==
  ASSUME RegistryInv, Running, NEW s \in SocketIds, Served(s)', readyState[s] # "NONE"
  PROVE  Served(s) /\ sockets'[s].channel = sockets[s].channel
<1>1. readyState[s] = "OPEN" /\ link[s] /\ s \in DOMAIN sockets
      /\ sockets'[s].channel = sockets[s].channel
  <2> USE DEF Served, RegistryInv, RegistryTypeOK
  <2>1. CASE checkSockets
    BY <2>1 DEF checkSockets, RegistriesAgree, OpenSocketsListed
  <2>2. CASE Tick
    BY <2>2 DEF Tick, wire
  <2>3. CASE \E t \in SocketIds : pong(t)
    BY <2>3 DEF pong
  <2>4. CASE \E t \in SocketIds : PeerGone(t) \/ SocketCloses(t)
    BY <2>4 DEF PeerGone, SocketCloses, registries
  <2>5. CASE Connect
    BY <2>5 DEF Connect, wsConnection, trackClient
  <2>6. CASE UNCHANGED <<sockets, readyState, link>>
    BY <2>6
  <2> QED BY <2>1, <2>2, <2>3, <2>4, <2>5, <2>6
       DEF Running, ServerNext, PeerNext, Publish, subscribeToGlobalStream,
           fetchRangeFromStream, gc, BeginRead, AnswerRead, ReadTimesOut, ReadFails, AnswerRange,
           RangeFails, Serve, registries, wire, serverVars
<1> QED BY <1>1 DEF Served

(* What was sent to a socket whose peer is there stays sent. *)
LEMMA SentStaysSent ==
  ASSUME ServerInv, Running, NEW s \in SocketIds, Served(s), Served(s)'
  PROVE  Received(s) \subseteq Received(s)'
<1>1. CASE subscribeToGlobalStream \/ fetchRangeFromStream
  <2>1. replies # <<>> /\ (UNCHANGED inbox \/ processStreamResults(Head(replies).results))
    BY <1>1 DEF subscribeToGlobalStream, fetchRangeFromStream
  <2>2. CASE processStreamResults(Head(replies).results)
    <3>1. inbox'[s] = inbox[s] \o SentTo(s, Head(replies).results)
      BY <2>2 DEF processStreamResults, IsActive, Served
    <3>2. inbox[s] \in Seq(EntryType) /\ SentTo(s, Head(replies).results) \in Seq(EntryType)
      BY <2>1, HeadOfReplies, SentIsListed DEF ServerInv, CursorInv
    <3> QED BY <3>1, <3>2, EntriesOfConcat DEF Received
  <2> QED BY <2>1, <2>2 DEF Received
<1>2. CASE \E t \in SocketIds : PeerGone(t)
  BY <1>2 DEF PeerGone, Served, Received, ServerInv, RegistryInv, RegistryTypeOK
<1>3. CASE UNCHANGED inbox
  BY <1>3 DEF Received
<1>4. \/ subscribeToGlobalStream \/ fetchRangeFromStream
      \/ (\E t \in SocketIds : PeerGone(t)) \/ UNCHANGED inbox
  BY DEF Running, ServerNext, PeerNext, Connect, Publish, wsConnection, checkSockets, gc,
     Tick, BeginRead, AnswerRead, ReadTimesOut, ReadFails, AnswerRange, RangeFails, Serve, pong,
     SocketCloses, wire, serverVars
<1> QED BY <1>1, <1>2, <1>3, <1>4

(* The loop: between the old cursor and the new one the firehose holds the   *)
(* batch, and the socket is listed under its channel.                        *)
LEMMA LoopLeavesNothing ==
  ASSUME ForwardedInv, subscribeToGlobalStream, UNCHANGED streams,
         NEW s \in SocketIds, Served(s), since'[s] = since[s],
         sockets'[s].channel = sockets[s].channel, Received(s) \subseteq Received(s)'
  PROVE  Caught(s)'
<1> DEFINE results == Head(replies).results
           upTo == results[Len(results)].id
<1>1. CASE results = <<>>
  BY <1>1, QuietStep DEF subscribeToGlobalStream
<1>2. CASE results # <<>> /\ since[s].cursor # Dollar
  <2>1. /\ processStreamResults(results) /\ lastFirehoseId' = upTo
        /\ replies # <<>> /\ Head(replies).op = "xread"
    BY <1>2 DEF subscribeToGlobalStream
  <2>2. lastFirehoseId # Dollar /\ Due(s) \subseteq Received(s)
    BY <1>2 DEF ForwardedInv, Caught
  <2>3. EntriesIn(results) = Between(streams[Full], lastFirehoseId, upTo)
    BY <1>2, <2>1, <2>2, HeadOfReplies
       DEF ForwardedInv, ServerInv, CursorInv, BatchFollowsCursor
  <2>4. results \in Seq(EntryType) /\ lastFirehoseId \in Ids
    BY <2>1, <2>2, HeadOfReplies DEF ForwardedInv, ServerInv, CursorInv, ConnectionInv,
                                     ConnectionTypeOK
  <2>5. EntriesIn(SentTo(s, results)) \subseteq Received(s)'
    <3>1. inbox'[s] = inbox[s] \o SentTo(s, results)
      BY <2>1 DEF processStreamResults, IsActive, Served
    <3>2. inbox[s] \in Seq(EntryType) /\ SentTo(s, results) \in Seq(EntryType)
      BY <2>4, SentIsListed DEF ForwardedInv, ServerInv
    <3> QED BY <3>1, <3>2, EntriesOfConcat DEF Received
  <2>6. ASSUME NEW x \in Due(s)' PROVE x \in Received(s)'
    <3>1. /\ x \in EntriesIn(streams[Full].entries) /\ x.event.channel = sockets[s].channel
          /\ IdLeq(x.id, upTo) /\ IdLess(since[s].id, x.id)
      BY <2>1, <2>6 DEF Due
    <3>2. x.id \in Ids
      BY <3>1, TheFirehose DEF ForwardedInv
    <3>3. CASE IdLeq(x.id, lastFirehoseId)
      <4>1. x \in Due(s)
        BY <2>2, <3>1, <3>3 DEF Due
      <4> QED BY <2>2, <4>1
    <3>4. CASE ~IdLeq(x.id, lastFirehoseId)
      <4>1. x \in EntriesIn(results)
        BY <2>3, <2>4, <3>1, <3>2, <3>4, IdsAreOrdered DEF Between, IdLeq
      <4>2. Listed(s, x)
        BY <3>1 DEF Listed, Served, ForwardedInv, ServerInv, RegistryInv, RegistriesAgree,
                    OpenSocketsListed
      <4> QED BY <2>4, <2>5, <4>1, <4>2, SentIsListed
    <3> QED BY <3>3, <3>4
  <2>7. lastFirehoseId' # Dollar
    <3>1. Len(results) \in 1 .. Len(results)
      BY <1>2, <2>4, EmptySeq
    <3>2. results[Len(results)] \in EntryType
      BY <2>4, <3>1, ElementOfSeq
    <3> QED BY <2>1, <3>2, RedisStreamsAssumption DEF EntryType
  <2> QED BY <2>6, <2>7 DEF Caught
<1>3. CASE since[s].cursor = Dollar
  BY <1>3 DEF Caught
<1> QED BY <1>1, <1>2, <1>3

(* Nothing that is added comes at or before the cursor. *)
LEMMA PublishingAddsNothingDue ==
  ASSUME ForwardedInv, Publish,
         NEW s \in SocketIds, Served(s), since'[s] = since[s]
  PROVE  Caught(s)'
<1>1. CASE since[s].cursor = Dollar
  BY <1>1 DEF Caught
<1>2. CASE since[s].cursor # Dollar
  <2>1. /\ lastFirehoseId # Dollar /\ Due(s) \subseteq Received(s)
        /\ UNCHANGED <<lastFirehoseId, inbox, sockets>>
    BY <1>2 DEF ForwardedInv, Caught, Publish, serverVars
  <2>2. /\ lastFirehoseId \in Ids /\ streams[Full].last \in Ids
        /\ IdLeq(lastFirehoseId, streams[Full].last)
    BY <2>1, TheFirehose DEF ForwardedInv, CursorBehind, ServerInv, CursorInv, ConnectionInv,
                             ConnectionTypeOK
  <2>3. ASSUME NEW x \in EntriesIn(streams'[Full].entries), IdLeq(x.id, lastFirehoseId)
        PROVE  x \in EntriesIn(streams[Full].entries)
    <3>1. CASE x.id \in Ids /\ IdLess(streams[Full].last, x.id)
      BY <2>2, <2>3, <3>1, NotAfter
    <3> QED BY <3>1, FirehoseGrows DEF ForwardedInv
  <2>4. Due(s)' \subseteq Due(s)
    BY <1>2, <2>1, <2>3 DEF Due
  <2> QED BY <2>1, <2>4 DEF Caught, Received
<1> QED BY <1>1, <1>2

(* Nothing is due to a socket that connects. *)
LEMMA NothingDueAtFirst ==
  ASSUME ForwardedInv, Connect, NEW s \in SocketIds,
         since'[s] = [id |-> streams[Full].last, cursor |-> lastFirehoseId]
  PROVE  Caught(s)'
<1>1. UNCHANGED <<streams, lastFirehoseId>>
  BY DEF Connect, wsConnection, redis
<1>2. ASSUME lastFirehoseId # Dollar, NEW x \in Due(s)' PROVE FALSE
  <2>1. x \in EntriesIn(streams[Full].entries) /\ IdLess(streams[Full].last, x.id)
    BY <1>1, <1>2 DEF Due
  <2> QED BY <2>1, TheFirehose, NotAfter DEF ForwardedInv, IdLeq
<1> QED BY <1>1, <1>2 DEF Caught

(* The replies under way are known to the firehose, and the cursor follows.  *)
LEMMA BatchesStayKnown ==
  ASSUME ForwardedInv, ServerInv', [Next]_vars
  PROVE  BatchesKnown' /\ CursorBehind'
<1>1. /\ replies \in Seq(ReplyType) /\ Len(replies) \in Nat /\ streams[Full].last \in Ids
      /\ \A i \in 1 .. Len(replies) : replies[i].results \in Seq(EntryType)
  <2>1. \A i \in 1 .. Len(replies) : replies[i] \in ReplyType
    BY ElementOfSeq DEF ForwardedInv, ServerInv, CursorInv, ConnectionInv, ConnectionTypeOK
  <2> QED BY <2>1, TheFirehose DEF ReplyType, ForwardedInv, ServerInv, CursorInv, ConnectionInv,
                                   ConnectionTypeOK
<1>2. CASE Publish
  <2>1. UNCHANGED <<replies, lastFirehoseId>>
    BY <1>2 DEF Publish, serverVars
  <2>2. /\ streams'[Full].last \in Ids /\ IdLeq(streams[Full].last, streams'[Full].last)
    BY <1>2, FirehoseGrows DEF ForwardedInv
  <2>3. ASSUME NEW i \in Reads(replies), NEW x \in EntriesIn(replies[i].results)
        PROVE  IdLeq(x.id, streams'[Full].last)
    <3>1. IdLeq(x.id, streams[Full].last)
      BY <2>3 DEF ForwardedInv, BatchesKnown
    <3>2. x \in EntryType
      BY <1>1, ElementOfSeq DEF EntriesIn, Reads
    <3> QED BY <1>1, <2>2, <3>1, <3>2, NotAfter DEF EntryType
  <2>4. lastFirehoseId # Dollar => IdLeq(lastFirehoseId, streams'[Full].last)
    BY <1>1, <2>2, NotAfter DEF ForwardedInv, CursorBehind, ServerInv, CursorInv, ConnectionInv,
                                ConnectionTypeOK
  <2> QED BY <2>1, <2>3, <2>4 DEF BatchesKnown, CursorBehind, Reads
<1>3. CASE UNCHANGED streams
  <2>1. ASSUME NEW reply \in ReplyType, Serve(reply),
               reply.op = "xread" => EntriesIn(reply.results) \subseteq
                                       EntriesIn(streams[Full].entries)
        PROVE  BatchesKnown' /\ CursorBehind'
    <3>1. replies' = Append(replies, reply) /\ UNCHANGED lastFirehoseId
      BY <2>1 DEF Serve
    <3>2. \A i \in Reads(replies') : \/ i \in Reads(replies) /\ replies'[i] = replies[i]
                                     \/ replies'[i] = reply /\ reply.op = "xread"
      BY <1>1, <3>1, AppendProperties DEF Reads
    <3>3. \A x \in EntriesIn(streams[Full].entries) : IdLeq(x.id, streams[Full].last)
      BY TheFirehose DEF ForwardedInv
    <3> QED BY <1>3, <2>1, <3>1, <3>2, <3>3 DEF ForwardedInv, BatchesKnown, CursorBehind
  <2>2. ASSUME replies # <<>>, replies' = Tail(replies),
               \/ UNCHANGED lastFirehoseId
               \/ \E i \in Reads(replies) : \E x \in EntriesIn(replies[i].results) :
                     lastFirehoseId' = x.id
        PROVE  BatchesKnown' /\ CursorBehind'
    <3>1. \A i \in Reads(replies') : i + 1 \in Reads(replies) /\ replies'[i] = replies[i + 1]
      BY <1>1, <2>2, HeadTailProperties, EmptySeq DEF Reads
    <3> QED BY <1>3, <2>2, <3>1 DEF ForwardedInv, BatchesKnown, CursorBehind
  <2>3. CASE subscribeToGlobalStream
    <3> DEFINE results == Head(replies).results
    <3>1. /\ replies # <<>> /\ replies' = Tail(replies) /\ results \in Seq(EntryType)
          /\ 1 \in Reads(replies) /\ replies[1].results = results
      BY <2>3, HeadOfReplies DEF subscribeToGlobalStream, ForwardedInv, ServerInv, CursorInv
    <3>2. CASE results = <<>>
      BY <2>2, <2>3, <3>1, <3>2 DEF subscribeToGlobalStream
    <3>3. CASE results # <<>>
      <4>1. lastFirehoseId' = results[Len(results)].id
        BY <2>3, <3>3 DEF subscribeToGlobalStream
      <4>2. results[Len(results)] \in EntriesIn(results)
        BY <3>1, <3>3, EmptySeq DEF EntriesIn
      <4> QED BY <2>2, <3>1, <4>1, <4>2
    <3> QED BY <3>2, <3>3
  <2>4. CASE fetchRangeFromStream
    BY <2>2, <2>4 DEF fetchRangeFromStream
  <2>5. CASE AnswerRead
    <3> DEFINE results == XRead(streams[Full], Head(commands).after, StreamReadCount)
    <3>1. Serve(Reply("xread", results)) /\ commands # <<>> /\ Head(commands).op = "xread"
          /\ Head(commands).after # Dollar
      BY <2>5 DEF AnswerRead, Serving
    <3>2. streams[Full].entries \in Seq(EntryType)
      BY TheFirehose DEF ForwardedInv, StreamsOf, EntriesOf, EntryType
    <3>3. Head(commands).after \in Ids
      <4>1. commands \in Seq(CommandType)
        BY DEF ForwardedInv, ServerInv, CursorInv, ConnectionInv, ConnectionTypeOK
      <4>2. Head(commands) \in CommandType
        BY <3>1, <4>1, HeadTailProperties
      <4> QED BY <3>1, <4>2 DEF CommandType
    <3>4. results \in Seq(EntryType)
      BY <3>2, ReadsAreEntries, WebSocketServerAssumption
    <3>5. EntriesIn(results) \subseteq EntriesIn(streams[Full].entries)
      <4>1. CASE results = <<>>
        BY <4>1 DEF EntriesIn
      <4>2. CASE results # <<>>
        <5>1. EntriesIn(results) =
                Between(streams[Full], Head(commands).after, results[Len(results)].id)
          BY <3>3, <4>2, TheFirehose, ReadIsExact, WebSocketServerAssumption DEF ForwardedInv
        <5> QED BY <5>1 DEF Between
      <4> QED BY <4>1, <4>2
    <3> HIDE DEF results
    <3> QED BY <2>1, <3>1, <3>4, <3>5 DEF Reply, ReplyType
  <2>6. CASE ReadTimesOut \/ ReadFails \/ RangeFails
    <3>1. \E op \in {"xread", "xrange"} : Serve(Reply(op, <<>>))
      BY <2>6 DEF ReadTimesOut, ReadFails, RangeFails
    <3>2. PICK op \in {"xread", "xrange"} : Serve(Reply(op, <<>>))
      BY <3>1
    <3>3. Reply(op, <<>>) \in ReplyType /\ EntriesIn(Reply(op, <<>>).results) = {}
      BY DEF Reply, ReplyType, EntriesIn
    <3> QED BY <2>1, <3>2, <3>3
  <2>7. CASE AnswerRange
    <3> DEFINE q == Head(commands)
               results == XRange(streams[q.channel], q.start, q.end)
    <3>1. replies' = Append(replies, Reply("xrange", results)) /\ UNCHANGED lastFirehoseId
      BY <2>7 DEF AnswerRange, Serve
    <3> HIDE DEF results
    <3>2. replies' \in Seq(ReplyType)
      BY DEF ServerInv, CursorInv, ConnectionInv, ConnectionTypeOK
    <3>3. \A i \in Reads(replies') : i \in Reads(replies) /\ replies'[i] = replies[i]
      <4>1. /\ Len(replies') = Len(replies) + 1
            /\ \A i \in 1 .. Len(replies) : replies'[i] = replies[i]
            /\ replies'[Len(replies) + 1].op = "xrange"
        BY <1>1, <3>1 DEF Reply
      <4> QED BY <1>1, <4>1 DEF Reads
    <3> QED BY <1>3, <3>1, <3>3 DEF ForwardedInv, BatchesKnown, CursorBehind
  <2>8. CASE UNCHANGED <<replies, lastFirehoseId>>
    BY <1>3, <2>8 DEF ForwardedInv, BatchesKnown, CursorBehind, Reads
  <2>9. CASE Restart
    <3>1. Reads(replies') = {} /\ lastFirehoseId' = Dollar
      BY <2>9 DEF Restart, Reads
    <3> QED BY <3>1 DEF BatchesKnown, CursorBehind
  <2>10. \/ subscribeToGlobalStream \/ fetchRangeFromStream \/ AnswerRead \/ ReadTimesOut
         \/ ReadFails \/ RangeFails \/ AnswerRange \/ Restart \/ Publish
         \/ UNCHANGED <<replies, lastFirehoseId>>
    BY DEF Next, Running, ServerNext, PeerNext, Connect, wsConnection, checkSockets, gc, Tick,
           BeginRead, pong, PeerGone, SocketCloses, cursor, vars, serverVars
  <2> QED BY <1>2, <2>3, <2>4, <2>5, <2>6, <2>7, <2>8, <2>9, <2>10
<1>4. Publish \/ UNCHANGED streams
  BY DEF Next, Running, Connect, redis, vars
<1> QED BY <1>2, <1>3, <1>4

LEMMA ForwardedInit == MCInit => ForwardedInv
<1> SUFFICES ASSUME MCInit PROVE ForwardedInv
  OBVIOUS
<1>1. ServerInv
  BY ServerInitInv DEF MCInit
<1>2. BatchesKnown /\ CursorBehind /\ SinceKnown
  BY DEF MCInit, Init, ServerInit, BatchesKnown, CursorBehind, SinceKnown, Reads
<1>3. \A s \in SocketIds : ~Served(s)
  BY DEF MCInit, Init, ServerInit, Served
<1> QED BY <1>1, <1>2, <1>3 DEF ForwardedInv

LEMMA ForwardedNext == ForwardedInv /\ [MCNext]_mcVars => ForwardedInv'
<1> SUFFICES ASSUME ForwardedInv, [MCNext]_mcVars PROVE ForwardedInv'
  OBVIOUS
<1>1. [Next]_vars
  BY DEF MCNext, mcVars, Next
<1>2. ServerInv'
  BY <1>1, ServerNextInv DEF ForwardedInv
<1>3. BatchesKnown' /\ CursorBehind'
  BY <1>1, <1>2, BatchesStayKnown
<1>4. CASE MCNext
  <2>1. SinceKnown'
    BY <1>4 DEF MCNext, SinceKnown
  <2>2. ASSUME NEW s \in SocketIds, Served(s)' PROVE Caught(s)'
    <3>1. readyState'[s] # "NONE"
      BY <2>2 DEF Served
    <3>2. CASE Restart
      BY <2>2, <3>2 DEF Restart, Served
    <3>3. CASE Running /\ readyState[s] # "NONE"
      <4>1. since'[s] = since[s]
        BY <1>4, <3>1, <3>3 DEF MCNext, ForwardedInv, SinceKnown
      <4>2. /\ Served(s) /\ sockets'[s].channel = sockets[s].channel
            /\ Received(s) \subseteq Received(s)'
        BY <2>2, <3>3, ServedBefore, SentStaysSent DEF ForwardedInv, ServerInv
      <4>3. CASE Publish
        BY <4>1, <4>2, <4>3, PublishingAddsNothingDue
      <4>4. CASE subscribeToGlobalStream /\ UNCHANGED redis
        BY <4>1, <4>2, <4>4, LoopLeavesNothing DEF redis
      <4>5. CASE UNCHANGED <<lastFirehoseId, streams>>
        BY <4>1, <4>2, <4>5, QuietStep
      <4>6. Publish \/ (subscribeToGlobalStream /\ UNCHANGED redis)
            \/ UNCHANGED <<lastFirehoseId, streams>>
        BY <3>3 DEF Running, ServerNext, PeerNext, Connect, wsConnection, fetchRangeFromStream,
           checkSockets, gc, Tick, BeginRead, AnswerRead, ReadTimesOut, ReadFails, AnswerRange,
           RangeFails, Serve, pong, PeerGone, SocketCloses, cursor, redis
      <4> QED BY <4>3, <4>4, <4>5, <4>6
    <3>4. CASE Running /\ readyState[s] = "NONE"
      <4>1. since'[s] = [id |-> streams[Full].last, cursor |-> lastFirehoseId]
        BY <1>4, <3>1, <3>4 DEF MCNext, ForwardedInv, SinceKnown
      <4>2. Connect
        BY <3>1, <3>4 DEF Running, ServerNext, PeerNext, Publish, serverVars,
           subscribeToGlobalStream, fetchRangeFromStream, checkSockets, gc, Tick, BeginRead,
           AnswerRead, ReadTimesOut, ReadFails, AnswerRange, RangeFails, Serve, pong, PeerGone,
           SocketCloses, wire, ForwardedInv, ServerInv, RegistryInv, RegistryTypeOK
      <4> QED BY <4>1, <4>2, NothingDueAtFirst
    <3> QED BY <1>4, <3>2, <3>3, <3>4 DEF MCNext
  <2> QED BY <1>2, <1>3, <2>1, <2>2 DEF ForwardedInv
<1>5. CASE UNCHANGED mcVars
  BY <1>2, <1>3, <1>5 DEF ForwardedInv, SinceKnown, Served, Caught, Due, Received, mcVars, vars,
                          serverVars, redis
<1> QED BY <1>4, <1>5

(* README.md:48 of superset-websocket: once the loop has forwarded a first   *)
(* event, no event of its channel that the cursor has passed since is        *)
(* missing from what a socket was sent, for any number of sockets, channels  *)
(* and events, any count of XREAD, and whatever batches, range replies,      *)
(* failures, cleanings, pings and restarts come between.                     *)
THEOREM NoEventSkippedAlways == MCSpec => []NoEventSkipped
<1>1. ForwardedInv => NoEventSkipped
  BY DEF ForwardedInv, NoEventSkipped, Caught
<1> QED BY <1>1, ForwardedInit, ForwardedNext, PTL DEF MCSpec
=============================================================================
