------------------------- MODULE EmbeddedDashboard -------------------------
(***************************************************************************)
(* A dashboard embedded in the page of another application                 *)
(* (superset-embedded-sdk/src/index.ts), the page in its iframe            *)
(* (superset-frontend/src/embedded/index.tsx), and the switchboard, the    *)
(* remote calls between them over a MessageChannel.                        *)
(*                                                                         *)
(* The host fetches guest tokens and sends them to the frame, again before *)
(* each one expires.  Time passes only when no timer is due and nothing is *)
(* under way for longer than Latency.  A message to a frame that has been  *)
(* left or reloaded is lost: the host keeps the port of the first load.    *)
(***************************************************************************)
EXTENDS Integers, Sequences

CONSTANTS
  Calls,                     \* bound: the get calls the host makes, numbered in order
  Ttls,                      \* how long a guest token may last
  REFRESH_TIMING_BUFFER, MIN_REFRESH_WAIT,
  Latency,                   \* what a fetch, or loading the frame, takes at most
  MaxTime, MaxLoads          \* bounds on time and on the loads of the frame

ASSUME EmbeddedAssumption ==
  /\ Calls \subseteq Nat \ {0}
  /\ {REFRESH_TIMING_BUFFER, MIN_REFRESH_WAIT, Latency, MaxTime} \subseteq Nat
  /\ MaxLoads \in Nat \ {0}
  /\ Latency < REFRESH_TIMING_BUFFER /\ REFRESH_TIMING_BUFFER < MIN_REFRESH_WAIT
  /\ \A ttl \in Ttls : ttl \in Nat /\ ttl >= MIN_REFRESH_WAIT + Latency

VARIABLES
  now,
  fetching,   \* when fetchGuestToken was called, or Never
  token,      \* when the first token expires, until the frame has loaded too
  refreshAt,  \* when refreshGuestToken is due, or Never
  loads,      \* how often the frame has loaded; its page has the port of the last
  mounted,
  booted,     \* embedDashboard has returned: the host uses the port of load 1
  broken,     \* a fetch was rejected: no further token will come
  toPage,     \* messages on the host's port
  toHost,     \* replies
  framed,       \* the page of the frame: has its app started, when its token expires
  executing,  \* the calls that the page is executing, as <<messageId, call>>
  incrementor,
  listening,  \* call -> the messageId its listener waits for, or 0
  promises    \* call -> the call whose result its caller got, or Failed, or 0

embeddedVars == <<now, fetching, token, refreshAt, loads, mounted, booted, broken,
                  toPage, toHost, framed, executing, incrementor, listening, promises>>
clock   == <<now, fetching, token, refreshAt, broken>>
frame   == <<loads, mounted, booted>>
calls == <<incrementor, listening, promises>>
channel == <<toPage, toHost, executing, calls>>

Never == -1
Failed == -1
NewPage == [started |-> FALSE, exp |-> Never]
Reachable == mounted /\ loads = 1    \* the host's port leads to the page

Emit(exp)    == [action |-> "emit", exp |-> exp]
Get(id, c)   == [action |-> "get", id |-> id, call |-> c]
Reply(id, r) == [id |-> id, result |-> r]

-----------------------------------------------------------------------------
getGuestTokenRefreshTiming_noBuffer(exp) ==
  IF exp - now > MIN_REFRESH_WAIT THEN exp - now ELSE MIN_REFRESH_WAIT

(* guestTokenRefresh.ts.  Its default for an exp that cannot be parsed is    *)
(* left out: tokens of this server carry a number                            *)
(* (security/manager.py:2561, create_guest_access_token).                    *)
getGuestTokenRefreshTiming(exp) ==
  (IF exp - now > MIN_REFRESH_WAIT THEN exp - now ELSE MIN_REFRESH_WAIT)
    - REFRESH_TIMING_BUFFER

(* ourPort.emit('guestToken', ...), and the timer for the next               *)
SendToken(exp) ==
  /\ toPage' = IF Reachable THEN Append(toPage, Emit(exp)) ELSE toPage
  /\ refreshAt' = now + getGuestTokenRefreshTiming(exp)
  /\ UNCHANGED <<toHost, executing, calls>>

(* The frame is put into the page, and the first token fetched.              *)
embedDashboard ==
  /\ ~mounted /\ ~booted
  /\ mounted' = TRUE /\ fetching' = now
  /\ UNCHANGED <<now, token, refreshAt, broken, loads, booted, channel, framed>>

(* The `load' event of the iframe, the first time.                           *)
Load ==
  /\ mounted /\ loads = 0 /\ loads' = 1 /\ framed' = NewPage
  /\ \/ token # Never /\ booted' = TRUE /\ token' = Never
        /\ toPage' = <<Emit(token)>>
        /\ refreshAt' = now + getGuestTokenRefreshTiming(token)
        /\ UNCHANGED <<toHost, executing, calls>>
     \/ token = Never /\ UNCHANGED <<booted, token, refreshAt, channel>>
  /\ UNCHANGED <<now, fetching, broken, mounted>>

(* The page is loaded again: it gets a port of its own, which nobody uses.   *)
LoadAgain ==
  /\ mounted /\ loads \in 1..(MaxLoads - 1) /\ loads' = loads + 1
  /\ framed' = NewPage /\ toPage' = <<>> /\ executing' = {}
  /\ UNCHANGED <<clock, mounted, booted, toHost, calls>>

unmount ==
  /\ booted /\ mounted /\ mounted' = FALSE
  /\ framed' = NewPage /\ toPage' = <<>> /\ executing' = {}
  /\ UNCHANGED <<clock, loads, booted, toHost, calls>>

FetchResolves_keeps ==
  /\ fetching # Never /\ fetching' = Never
  /\ \E ttl \in Ttls, issued \in fetching..now : token' = issued + ttl
  /\ UNCHANGED <<now, refreshAt, broken, frame, channel, framed>>

(* fetchGuestToken resolves: at the end of the first fetch embedDashboard    *)
(* waits for the frame, later ones are refreshGuestToken.                    *)
FetchResolves ==
  /\ fetching # Never /\ fetching' = Never
  /\ \E ttl \in Ttls, issued \in fetching..now :
        IF loads = 0
        THEN token' = issued + ttl /\ UNCHANGED <<refreshAt, booted, channel>>
        ELSE /\ booted' = TRUE
             /\ SendToken(issued + ttl) /\ UNCHANGED token
  /\ UNCHANGED <<now, broken, loads, mounted, framed>>

FetchRejects ==
  /\ fetching # Never /\ fetching' = Never /\ broken' = TRUE
  /\ UNCHANGED <<now, token, refreshAt, frame, channel, framed>>

refreshGuestToken ==
  /\ refreshAt = now /\ refreshAt' = Never /\ fetching' = now
  /\ UNCHANGED <<now, token, broken, frame, channel, framed>>

-----------------------------------------------------------------------------
(* Switchboard.get: the listener waits for the reply with this messageId.    *)
get(c) ==
  /\ booted /\ c = incrementor /\ incrementor' = incrementor + 1
  /\ listening' = [listening EXCEPT ![c] = incrementor]
  /\ toPage' = IF Reachable THEN Append(toPage, Get(incrementor, c)) ELSE toPage
  /\ UNCHANGED <<clock, frame, toHost, framed, executing, promises>>

(* The page receives: a token, with which it starts if it has not, or a call. *)
PageReceives ==
  /\ toPage # <<>> /\ toPage' = Tail(toPage)
  /\ LET message == Head(toPage) IN
       \/ message.action = "emit"
          /\ framed' = [started |-> TRUE, exp |-> message.exp] /\ UNCHANGED executing
       \/ message.action = "get"
          /\ executing' = executing \cup {<<message.id, message.call>>} /\ UNCHANGED framed
  /\ UNCHANGED <<clock, frame, toHost, calls>>

getMethodResult_noError(run) ==
  /\ run \in executing /\ executing' = executing \ {run}
  /\ toHost' \in {toHost, Append(toHost, Reply(run[1], run[2]))}
  /\ UNCHANGED <<clock, frame, toPage, framed, calls>>

(* A method ends, in any order: with its result, or because it threw.        *)
getMethodResult(run) ==
  /\ run \in executing /\ executing' = executing \ {run}
  /\ \E r \in {run[2], Failed} : toHost' = Append(toHost, Reply(run[1], r))
  /\ UNCHANGED <<clock, frame, toPage, framed, calls>>

HostReceives_anyListener ==
  /\ toHost # <<>> /\ toHost' = Tail(toHost)
  /\ LET answered == {c \in Calls : listening[c] # 0} IN
       /\ promises' = [c \in Calls |->
              IF c \in answered THEN Head(toHost).result ELSE promises[c]]
       /\ listening' = [c \in Calls |-> IF c \in answered THEN 0 ELSE listening[c]]
  /\ UNCHANGED <<clock, frame, toPage, framed, executing, incrementor>>

(* The listener whose messageId it is takes the reply, and is removed.       *)
HostReceives ==
  /\ toHost # <<>> /\ toHost' = Tail(toHost)
  /\ LET answered == {c \in Calls : listening[c] = Head(toHost).id} IN
       /\ promises' = [c \in Calls |->
              IF c \in answered THEN Head(toHost).result ELSE promises[c]]
       /\ listening' = [c \in Calls |-> IF c \in answered THEN 0 ELSE listening[c]]
  /\ UNCHANGED <<clock, frame, toPage, framed, executing, incrementor>>

-----------------------------------------------------------------------------
Tick ==
  /\ now < MaxTime /\ now' = now + 1
  /\ mounted \/ booted
  /\ refreshAt # now
  /\ fetching = Never \/ now < fetching + Latency
  /\ loads > 0 \/ now < Latency
  /\ toPage = <<>>
  /\ UNCHANGED <<fetching, token, refreshAt, broken, frame, channel, framed>>

EmbeddedInit ==
  /\ now = 0 /\ fetching = Never /\ token = Never /\ refreshAt = Never /\ broken = FALSE
  /\ loads = 0 /\ mounted = FALSE /\ booted = FALSE
  /\ toPage = <<>> /\ toHost = <<>> /\ executing = {} /\ incrementor = 1
  /\ framed = NewPage
  /\ listening = [c \in Calls |-> 0] /\ promises = [c \in Calls |-> 0]

Host == embedDashboard \/ FetchResolves \/ FetchRejects \/ refreshGuestToken \/ HostReceives
Frame == Load \/ PageReceives \/ \E run \in executing : getMethodResult(run)

EmbeddedNext ==
  \/ Host \/ Frame \/ Tick \/ LoadAgain \/ unmount
  \/ \E c \in Calls : get(c)

EmbeddedSpec == EmbeddedInit /\ [][EmbeddedNext]_embeddedVars

(* Timers fire, fetches end, frames load, and messages are delivered.        *)
EmbeddedFairness ==
  /\ WF_embeddedVars(FetchResolves \/ FetchRejects) /\ WF_embeddedVars(refreshGuestToken)
  /\ WF_embeddedVars(Load) /\ WF_embeddedVars(PageReceives)
  /\ WF_embeddedVars(HostReceives)
  /\ WF_embeddedVars(\E run \in executing : getMethodResult(run))

-----------------------------------------------------------------------------
EmbeddedTypeOK ==
  /\ now \in 0..MaxTime /\ loads \in 0..MaxLoads /\ incrementor \in Nat \ {0}
  /\ {fetching, token, refreshAt} \subseteq Nat \cup {Never}
  /\ {mounted, booted, broken} \subseteq BOOLEAN
  /\ toPage \in Seq([action : {"emit"}, exp : Nat] \cup
                    [action : {"get"}, id : Nat, call : Calls])
  /\ toHost \in Seq([id : Nat, result : Calls \cup {Failed}])
  /\ framed \in [started : BOOLEAN, exp : Nat \cup {Never}]
  /\ executing \subseteq Nat \X Calls
  /\ listening \in [Calls -> Nat] /\ promises \in [Calls -> Calls \cup {0, Failed}]

(* guestTokenRefresh.ts:21, "refresh guest token early to avoid failed       *)
(* superset requests": the page that the host reaches never works with a     *)
(* token that has expired, over any number of refreshes, unless a fetch was  *)
(* rejected.                                                                 *)
TokenNeverExpires ==
  Reachable /\ framed.started /\ ~broken => now < framed.exp

(* switchboard.ts: replies come in any order, and from methods that threw;   *)
(* a caller gets the result of its own call, or an error.                    *)
OwnResult ==
  \A c \in Calls : promises[c] \in {0, Failed, c}

(* What makes the first so: a token lasts until after the refresh that is    *)
(* scheduled, or under way, for it.                                          *)
Scheduled(exp) ==
  /\ refreshAt # Never /\ fetching = Never /\ now <= refreshAt
  /\ exp >= refreshAt + REFRESH_TIMING_BUFFER

Emitted == {i \in 1 .. Len(toPage) : toPage[i].action = "emit"}

ClockInv ==
  /\ loads = 0 => now <= Latency /\ refreshAt = Never /\ toPage = <<>>
  /\ token # Never => token >= MIN_REFRESH_WAIT + Latency /\ loads = 0 /\ fetching = Never
  /\ fetching # Never => fetching <= now /\ now <= fetching + Latency
  /\ ~mounted /\ ~booted => loads = 0 /\ token = Never /\ fetching = Never

TokenInv ==
  Reachable /\ ~broken =>
    /\ \A i \in Emitted : Scheduled(toPage[i].exp) /\ now < refreshAt
    /\ framed.started => now < framed.exp
    /\ framed.started /\ Emitted = {}
         => \/ Scheduled(framed.exp)
            \/ /\ fetching # Never /\ refreshAt = Never
               /\ framed.exp >= fetching + REFRESH_TIMING_BUFFER

(* And the second: what is under way for a call bears its number.            *)
ReplyInv ==
  /\ \A c \in Calls : listening[c] \in {0, c}
  /\ \A i \in 1 .. Len(toPage) : toPage[i].action = "get" => toPage[i].id = toPage[i].call
  /\ \A run \in executing : run[1] = run[2]
  /\ \A i \in 1 .. Len(toHost) :
        /\ toHost[i].id \in Calls /\ toHost[i].result \in {toHost[i].id, Failed}

(* A call made to the page is answered, unless the page has been left.       *)
CallsEnd == \A c \in Calls : listening[c] # 0 ~> listening[c] = 0 \/ ~Reachable

(* The page starts, unless it was left or the first fetch was rejected.      *)
PageStarts == mounted ~> framed.started \/ broken \/ ~mounted \/ loads > 1
=============================================================================
