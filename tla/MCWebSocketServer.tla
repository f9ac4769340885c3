-------------------------- MODULE MCWebSocketServer --------------------------
(***************************************************************************)
(* WebSocketServer on a small instance, with its properties.  A history    *)
(* variable records, for the properties only, when each socket connected.  *)
(***************************************************************************)
EXTENDS WebSocketServer, TLC

CONSTANTS c1, c2, j1, j2, j3, MaxMs, MaxRestarts

VARIABLES restarts, \* how often the process was restarted
          since     \* socket -> [id: last firehose ID when it connected, cursor: lastFirehoseId then]

OneEvent    == [channel : {c1}, job : {j1}]
ThreeEvents == [channel : {c1}, job : {j1, j2, j3}]

mcVars == <<vars, restarts, since>>

MCInit == /\ Init
          /\ restarts = 0
          /\ since = [s \in {} |-> {}]

MCNext ==
  /\ \/ Running /\ restarts' = restarts
     \/ Restart /\ UNCHANGED redis /\ restarts < MaxRestarts /\ restarts' = restarts + 1
  /\ since' = [s \in {t \in SocketIds : readyState'[t] # "NONE"} |->
                  IF s \in DOMAIN since THEN since[s]
                  ELSE [id |-> streams[Full].last, cursor |-> lastFirehoseId]]

MCSpec     == MCInit /\ [][MCNext]_mcVars
MCFairSpec == MCSpec /\ Fairness

(* Bounds: the clock; and, where the firehose is the subject, the time       *)
(* stands still, so that no socket is pinged.                                *)
ClockBound == now <= MaxMs
TimeStands == sinceCheck = 0

(* A bound on the Redis connection: the firehose read and one range query.   *)
OneRange == Len(commands) + Len(replies) <= 2

(* Sockets are interchangeable, and so are the jobs the events are about. *)
Perms == {p @@ q : p \in Permutations(SocketIds), q \in Permutations({j1, j2, j3})}

-----------------------------------------------------------------------------
(* The firehose entries of the channel of s added after it connected and     *)
(* passed by the server's cursor.                                            *)
Due(s) ==
  {x \in EntriesIn(streams[Full].entries) :
     /\ x.event.channel = sockets[s].channel
     /\ lastFirehoseId # Dollar /\ IdLeq(x.id, lastFirehoseId)
     /\ IdLess(since[s].id, x.id)}

Received(s) == EntriesIn(inbox[s])

Served(s) == s \in DOMAIN sockets /\ readyState[s] = "OPEN" /\ link[s]

(* README.md:48 of superset-websocket says that the global event stream      *)
(* "assumes responsibility for sending subsequent events to the connected    *)
(* socket(s)".  For sockets that connect once the server has forwarded a     *)
(* first event, so that its read no longer starts at `$': however the        *)
(* batches of XREAD, timeouts, cleaning and other sockets interleave, no     *)
(* entry between a socket's connection and the cursor is missing from what   *)
(* it was sent.                                                              *)
NoEventSkipped ==
  \A s \in SocketIds :
     Served(s) /\ since[s].cursor # Dollar => Due(s) \subseteq Received(s)
=============================================================================
