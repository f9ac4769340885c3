---------------------------- MODULE Pages_proofs ----------------------------
(***************************************************************************)
(* Theorems about the pages that others drive: the embedded dashboard      *)
(* (ClockInv with TokenInv, and apart from them ReplyInv, are inductive),  *)
(* the presented one (InOrder with ReadOnce), and a query of SQL Lab       *)
(* (QueryInv).                                                             *)
(***************************************************************************)
EXTENDS MCPages, Dashboard_proofs

-----------------------------------------------------------------------------
(* The embedded dashboard: types *)

LEMMA Parameters ==
  /\ REFRESH_TIMING_BUFFER \in Nat /\ MIN_REFRESH_WAIT \in Nat /\ Latency \in Nat
  /\ Latency < REFRESH_TIMING_BUFFER /\ REFRESH_TIMING_BUFFER < MIN_REFRESH_WAIT
  /\ MaxTime \in Nat /\ MaxLoads \in Nat /\ MaxLoads >= 1
  /\ Never = -1 /\ Failed = -1
BY EmbeddedAssumption DEF Never, Failed

Messages == [action : {"emit"}, exp : Nat] \cup [action : {"get"}, id : Nat, call : Calls]
Replies  == [id : Nat, result : Calls \cup {Failed}]

ClockTypeOK ==
  /\ now \in Nat /\ now <= MaxTime
  /\ fetching \in Nat \cup {Never} /\ token \in Nat \cup {Never}
  /\ refreshAt \in Nat \cup {Never}

FrameTypeOK ==
  /\ loads \in Nat /\ loads <= MaxLoads
  /\ framed \in [started : BOOLEAN, exp : Nat \cup {Never}]

ChannelTypeOK ==
  /\ toPage \in Seq(Messages) /\ toHost \in Seq(Replies)
  /\ incrementor \in Nat \ {0} /\ executing \subseteq Nat \X Calls
  /\ listening \in [Calls -> Nat] /\ promises \in [Calls -> Calls \cup {0, Failed}]

FlagsTypeOK ==
  /\ mounted \in BOOLEAN /\ booted \in BOOLEAN /\ broken \in BOOLEAN

LEMMA TypesTogether ==
  EmbeddedTypeOK <=> ClockTypeOK /\ FrameTypeOK /\ ChannelTypeOK /\ FlagsTypeOK
<1>1. (now \in 0..MaxTime <=> now \in Nat /\ now <= MaxTime)
      /\ (loads \in 0..MaxLoads <=> loads \in Nat /\ loads <= MaxLoads)
  BY Parameters
<1>2. {fetching, token, refreshAt} \subseteq Nat \cup {Never}
        <=> /\ fetching \in Nat \cup {Never} /\ token \in Nat \cup {Never}
            /\ refreshAt \in Nat \cup {Never}
  OBVIOUS
<1>3. {mounted, booted, broken} \subseteq BOOLEAN
        <=> mounted \in BOOLEAN /\ booted \in BOOLEAN /\ broken \in BOOLEAN
  BY Zenon
<1> QED BY <1>1, <1>2, <1>3, Zenon DEF EmbeddedTypeOK, ClockTypeOK, FrameTypeOK, ChannelTypeOK,
           FlagsTypeOK, Messages, Replies

(* A token that is sent: the refresh is due later, and if it lasts for       *)
(* MIN_REFRESH_WAIT, a buffer before it expires.                             *)
LEMMA RefreshIsEarly ==
  ASSUME now \in Nat, NEW exp \in Nat
  PROVE  LET at == now + getGuestTokenRefreshTiming(exp)
         IN  /\ at \in Nat /\ at > now /\ at # Never
             /\ exp >= now + MIN_REFRESH_WAIT => exp >= at + REFRESH_TIMING_BUFFER
BY Parameters DEF getGuestTokenRefreshTiming

LEMMA EmitIsAMessage ==
  ASSUME NEW exp \in Nat PROVE Emit(exp) \in Messages
BY DEF Emit, Messages

Steps ==
  \/ embedDashboard \/ Load \/ LoadAgain \/ unmount \/ FetchResolves \/ FetchRejects
  \/ refreshGuestToken \/ (\E c \in Calls : get(c)) \/ PageReceives
  \/ (\E run \in executing : getMethodResult(run)) \/ HostReceives \/ Tick
  \/ UNCHANGED embeddedVars

LEMMA AllSteps == [EmbeddedNext]_embeddedVars => Steps
BY DEF EmbeddedNext, Host, Frame, Steps

(* How long the token lasts that a fetch resolves to.                        *)
LEMMA FetchedToken ==
  ASSUME ClockTypeOK, fetching # Never, NEW ttl \in Ttls, NEW issued \in fetching..now
  PROVE  issued + ttl \in Nat /\ issued + ttl >= fetching + MIN_REFRESH_WAIT + Latency
<1>1. ttl \in Nat /\ ttl >= MIN_REFRESH_WAIT + Latency
  BY EmbeddedAssumption
<1> QED BY <1>1, Parameters DEF ClockTypeOK

LEMMA ClockTypes ==
  ASSUME ClockTypeOK, Steps
  PROVE  ClockTypeOK'
<1>1. CASE Load
  <2>1. /\ UNCHANGED <<now, fetching>>
        /\ \/ UNCHANGED <<token, refreshAt>>
           \/ /\ token' = Never /\ token # Never
              /\ refreshAt' = now + getGuestTokenRefreshTiming(token)
    BY <1>1 DEF Load, channel
  <2> QED BY <2>1, RefreshIsEarly DEF ClockTypeOK
<1>2. CASE FetchResolves
  <2>1. PICK ttl \in Ttls : \E issued \in fetching..now :
          /\ fetching # Never /\ fetching' = Never /\ now' = now
          /\ \/ token' = issued + ttl /\ UNCHANGED refreshAt
             \/ /\ refreshAt' = now + getGuestTokenRefreshTiming(issued + ttl)
                /\ UNCHANGED token
    BY <1>2 DEF FetchResolves, SendToken
  <2>2. PICK issued \in fetching..now :
          /\ fetching # Never /\ fetching' = Never /\ now' = now
          /\ \/ token' = issued + ttl /\ UNCHANGED refreshAt
             \/ /\ refreshAt' = now + getGuestTokenRefreshTiming(issued + ttl)
                /\ UNCHANGED token
    BY <2>1
  <2>3. issued + ttl \in Nat
    BY <2>2, FetchedToken
  <2> QED BY <2>2, <2>3, RefreshIsEarly DEF ClockTypeOK
<1>3. CASE Tick
  BY <1>3, Parameters DEF ClockTypeOK, Tick
<1>4. CASE embedDashboard \/ FetchRejects \/ refreshGuestToken
  BY <1>4 DEF ClockTypeOK, embedDashboard, FetchRejects, refreshGuestToken
<1>5. CASE UNCHANGED clock
  BY <1>5 DEF ClockTypeOK, clock
<1>6. Load \/ FetchResolves \/ Tick \/ embedDashboard \/ FetchRejects \/ refreshGuestToken
      \/ UNCHANGED clock
  BY DEF Steps, LoadAgain, unmount, get, PageReceives, getMethodResult, HostReceives,
         embeddedVars, clock
<1> QED BY <1>1, <1>2, <1>3, <1>4, <1>5, <1>6

LEMMA FlagsTypes ==
  ASSUME FlagsTypeOK, Steps
  PROVE  FlagsTypeOK'
<1>1. mounted' = mounted \/ mounted' = TRUE \/ mounted' = FALSE
  BY DEF Steps, embedDashboard, Load, LoadAgain, unmount, FetchResolves, FetchRejects,
         refreshGuestToken, get, PageReceives, getMethodResult, HostReceives, Tick,
         embeddedVars, frame
<1>2. booted' = booted \/ booted' = TRUE
  BY DEF Steps, embedDashboard, Load, LoadAgain, unmount, FetchResolves, FetchRejects,
         refreshGuestToken, get, PageReceives, getMethodResult, HostReceives, Tick,
         embeddedVars, frame
<1>3. broken' = broken \/ broken' = TRUE
  BY DEF Steps, embedDashboard, Load, LoadAgain, unmount, FetchResolves, FetchRejects,
         refreshGuestToken, get, PageReceives, getMethodResult, HostReceives, Tick,
         embeddedVars, clock
<1> QED BY <1>1, <1>2, <1>3 DEF FlagsTypeOK

LEMMA MessageKinds ==
  ASSUME NEW m \in Messages
  PROVE  /\ m.action = "emit" => m.exp \in Nat
         /\ m.action = "get"  => m.id \in Nat /\ m.call \in Calls
         /\ m.action \in {"emit", "get"}
BY DEF Messages

LEMMA HeadAndTail ==
  ASSUME NEW S, NEW q \in Seq(S), q # <<>>
  PROVE  /\ Head(q) \in S /\ Head(q) = q[1] /\ Tail(q) \in Seq(S)
         /\ Len(q) >= 1 /\ Len(Tail(q)) = Len(q) - 1
         /\ \A i \in 1 .. Len(Tail(q)) : i + 1 \in 1 .. Len(q) /\ Tail(q)[i] = q[i + 1]
OBVIOUS

LEMMA FrameTypes ==
  ASSUME FrameTypeOK, ChannelTypeOK, Steps
  PROVE  FrameTypeOK'
<1>1. NewPage \in [started : BOOLEAN, exp : Nat \cup {Never}]
  BY DEF NewPage
<1>2. CASE Load
  BY <1>1, <1>2, Parameters DEF FrameTypeOK, Load
<1>3. CASE LoadAgain
  BY <1>1, <1>3, Parameters DEF FrameTypeOK, LoadAgain
<1>4. CASE unmount
  BY <1>1, <1>4 DEF FrameTypeOK, unmount
<1>5. CASE PageReceives
  <2>1. loads' = loads
    BY <1>5 DEF PageReceives, frame
  <2>2. Head(toPage) \in Messages
    BY <1>5, HeadAndTail DEF PageReceives, ChannelTypeOK
  <2>3. \/ framed' = framed
        \/ /\ Head(toPage).action = "emit"
           /\ framed' = [started |-> TRUE, exp |-> Head(toPage).exp]
    BY <1>5 DEF PageReceives
  <2>4. CASE framed' = framed
    BY <2>1, <2>4 DEF FrameTypeOK
  <2>5. CASE Head(toPage).action = "emit" /\ framed' = [started |-> TRUE, exp |-> Head(toPage).exp]
    <3>1. Head(toPage).exp \in Nat
      BY <2>2, <2>5, MessageKinds
    <3> QED BY <2>1, <2>5, <3>1 DEF FrameTypeOK
  <2> QED BY <2>3, <2>4, <2>5
<1>6. CASE UNCHANGED <<loads, framed>>
  BY <1>6 DEF FrameTypeOK
<1>7. Load \/ LoadAgain \/ unmount \/ PageReceives \/ UNCHANGED <<loads, framed>>
  BY DEF Steps, embedDashboard, FetchResolves, FetchRejects, refreshGuestToken, get,
         getMethodResult, HostReceives, Tick, embeddedVars, frame
<1> QED BY <1>2, <1>3, <1>4, <1>5, <1>6, <1>7

LEMMA ChannelTypes ==
  ASSUME ClockTypeOK, ChannelTypeOK, Steps
  PROVE  ChannelTypeOK'
<1>1. CASE Load
  <2>1. /\ UNCHANGED <<toHost, executing, calls>>
        /\ toPage' = toPage \/ (token # Never /\ toPage' = <<Emit(token)>>)
    BY <1>1 DEF Load, channel
  <2>2. token # Never => Emit(token) \in Messages
    BY EmitIsAMessage DEF ClockTypeOK
  <2>3. \A m \in Messages : <<m>> \in Seq(Messages)
    OBVIOUS
  <2>4. toPage' \in Seq(Messages)
    BY <2>1, <2>2, <2>3 DEF ChannelTypeOK
  <2> QED BY <2>1, <2>4 DEF ChannelTypeOK, calls
<1>2. CASE LoadAgain \/ unmount
  <2>1. toPage' = <<>> /\ executing' = {} /\ UNCHANGED <<toHost, calls>>
    BY <1>2 DEF LoadAgain, unmount
  <2> QED BY <2>1 DEF ChannelTypeOK, calls
<1>3. CASE FetchResolves
  <2>1. PICK ttl \in Ttls : \E issued \in fetching..now :
          /\ fetching # Never /\ UNCHANGED <<toHost, executing, calls>>
          /\ toPage' = toPage \/ toPage' = Append(toPage, Emit(issued + ttl))
    BY <1>3 DEF FetchResolves, SendToken, channel
  <2>2. PICK issued \in fetching..now :
          /\ fetching # Never /\ UNCHANGED <<toHost, executing, calls>>
          /\ toPage' = toPage \/ toPage' = Append(toPage, Emit(issued + ttl))
    BY <2>1
  <2>3. Emit(issued + ttl) \in Messages
    BY <2>2, FetchedToken, EmitIsAMessage
  <2>4. \A q \in Seq(Messages), m \in Messages : Append(q, m) \in Seq(Messages)
    OBVIOUS
  <2>5. toPage' \in Seq(Messages)
    BY <2>2, <2>3, <2>4 DEF ChannelTypeOK
  <2> QED BY <2>2, <2>5 DEF ChannelTypeOK, calls
<1>4. ASSUME NEW c \in Calls, get(c)
      PROVE  ChannelTypeOK'
  <2>1. Get(incrementor, c) \in Messages
    BY DEF ChannelTypeOK, Get, Messages
  <2>2. toPage' \in Seq(Messages)
    BY <1>4, <2>1 DEF get, ChannelTypeOK
  <2>3. listening' \in [Calls -> Nat] /\ incrementor' \in Nat \ {0}
    BY <1>4 DEF get, ChannelTypeOK
  <2> QED BY <1>4, <2>2, <2>3 DEF get, ChannelTypeOK
<1>5. CASE PageReceives
  <2>1. /\ toPage # <<>> /\ toPage' = Tail(toPage) /\ UNCHANGED <<toHost, calls>>
        /\ \/ executing' = executing
           \/ /\ Head(toPage).action = "get"
              /\ executing' = executing \cup {<<Head(toPage).id, Head(toPage).call>>}
    BY <1>5 DEF PageReceives
  <2>2. Head(toPage) \in Messages /\ toPage' \in Seq(Messages)
    BY <2>1, HeadAndTail DEF ChannelTypeOK
  <2>3. executing' \subseteq Nat \X Calls
    BY <2>1, <2>2, MessageKinds DEF ChannelTypeOK
  <2> QED BY <2>1, <2>2, <2>3 DEF ChannelTypeOK, calls
<1>6. ASSUME NEW run \in executing, getMethodResult(run)
      PROVE  ChannelTypeOK'
  <2>1. PICK r \in {run[2], Failed} : toHost' = Append(toHost, Reply(run[1], r))
    BY <1>6 DEF getMethodResult
  <2>2. run[1] \in Nat /\ run[2] \in Calls
    BY DEF ChannelTypeOK
  <2>3. Reply(run[1], r) \in Replies
    BY <2>1, <2>2 DEF Reply, Replies
  <2>4. toHost' \in Seq(Replies)
    BY <2>1, <2>3 DEF ChannelTypeOK
  <2>5. executing' \subseteq executing /\ UNCHANGED <<toPage, calls>>
    BY <1>6 DEF getMethodResult
  <2> QED BY <2>4, <2>5 DEF ChannelTypeOK, calls
<1>7. CASE HostReceives
  <2>1. /\ toHost # <<>> /\ toHost' = Tail(toHost)
        /\ UNCHANGED <<toPage, executing, incrementor>>
    BY <1>7 DEF HostReceives
  <2>2. Head(toHost) \in Replies /\ toHost' \in Seq(Replies)
    BY <2>1, HeadAndTail DEF ChannelTypeOK
  <2>3. Head(toHost).result \in Calls \cup {Failed}
    BY <2>2 DEF Replies
  <2>4. promises' \in [Calls -> Calls \cup {0, Failed}] /\ listening' \in [Calls -> Nat]
    BY <1>7, <2>3 DEF HostReceives, ChannelTypeOK
  <2> QED BY <2>1, <2>2, <2>4 DEF ChannelTypeOK
<1>8. CASE UNCHANGED channel
  BY <1>8 DEF ChannelTypeOK, channel, calls
<1>9. \/ Load \/ LoadAgain \/ unmount \/ FetchResolves \/ (\E c \in Calls : get(c))
      \/ PageReceives \/ (\E run \in executing : getMethodResult(run)) \/ HostReceives
      \/ UNCHANGED channel
  BY DEF Steps, embedDashboard, FetchRejects, refreshGuestToken, Tick, embeddedVars, channel, calls
<1> QED BY <1>1, <1>2, <1>3, <1>4, <1>5, <1>6, <1>7, <1>8, <1>9

-----------------------------------------------------------------------------
(* The embedded dashboard: its tokens *)

LEMMA ClockKeepsInv ==
  ASSUME ClockTypeOK, FrameTypeOK, ClockInv, Steps
  PROVE  ClockInv'
<1> USE Parameters
<1>1. CASE embedDashboard
  BY <1>1 DEF ClockInv, embedDashboard, ClockTypeOK, channel
<1>2. CASE Load
  BY <1>2 DEF ClockInv, Load, FrameTypeOK, ClockTypeOK
<1>3. CASE LoadAgain
  BY <1>3 DEF ClockInv, LoadAgain, FrameTypeOK, clock
<1>4. CASE unmount
  BY <1>4 DEF ClockInv, unmount, clock
<1>5. CASE FetchResolves
  <2>1. /\ fetching # Never /\ fetching' = Never
        /\ UNCHANGED <<now, broken, loads, mounted, framed>>
    BY <1>5 DEF FetchResolves
  <2>2. CASE loads = 0
    <3>1. PICK ttl \in Ttls : \E issued \in fetching..now :
            token' = issued + ttl /\ UNCHANGED <<refreshAt, booted, channel>>
      BY <1>5, <2>2 DEF FetchResolves
    <3>2. PICK issued \in fetching..now :
            token' = issued + ttl /\ UNCHANGED <<refreshAt, booted, channel>>
      BY <3>1
    <3>3. issued + ttl \in Nat /\ issued + ttl >= fetching + MIN_REFRESH_WAIT + Latency
      BY <2>1, FetchedToken
    <3>4. token' >= MIN_REFRESH_WAIT + Latency
      BY <2>1, <3>2, <3>3 DEF ClockTypeOK
    <3>5. refreshAt' = refreshAt /\ toPage' = toPage /\ booted' = booted
      BY <3>2 DEF channel
    <3>6. ~(~mounted /\ ~booted)
      BY <2>1 DEF ClockInv
    <3> QED BY <2>1, <2>2, <3>4, <3>5, <3>6 DEF ClockInv
  <2>3. CASE loads # 0
    <3>1. booted' = TRUE /\ token' = token
      BY <1>5, <2>3 DEF FetchResolves
    <3> QED BY <2>1, <2>3, <3>1 DEF ClockInv
  <2> QED BY <2>2, <2>3
<1>6. CASE FetchRejects
  BY <1>6 DEF ClockInv, FetchRejects, frame, channel
<1>7. CASE refreshGuestToken
  BY <1>7 DEF ClockInv, refreshGuestToken, frame, channel, ClockTypeOK
<1>8. CASE Tick
  BY <1>8 DEF ClockInv, Tick, frame, channel, ClockTypeOK, FrameTypeOK
<1>9. ASSUME NEW c \in Calls, get(c)
      PROVE  ClockInv'
  <2>1. loads = 0 => toPage' = toPage
    BY <1>9 DEF get, Reachable
  <2> QED BY <1>9, <2>1 DEF ClockInv, get, clock, frame
<1>10. CASE PageReceives
  <2>1. loads # 0
    BY <1>10 DEF ClockInv, PageReceives
  <2> QED BY <1>10, <2>1 DEF ClockInv, PageReceives, clock, frame
<1>11. CASE UNCHANGED <<clock, frame, toPage>>
  BY <1>11 DEF ClockInv, clock, frame
<1>12. (\E run \in executing : getMethodResult(run)) \/ HostReceives \/ UNCHANGED embeddedVars
          => UNCHANGED <<clock, frame, toPage>>
  BY DEF getMethodResult, HostReceives, embeddedVars, clock, frame
<1> QED BY <1>1, <1>2, <1>3, <1>4, <1>5, <1>6, <1>7, <1>8, <1>9, <1>10, <1>11, <1>12 DEF Steps

(* What is on its way to the page after a message was sent, or received.     *)
LEMMA EmittedBySending ==
  ASSUME ChannelTypeOK, NEW m, toPage' = Append(toPage, m)
  PROVE  /\ \A i \in Emitted' : toPage'[i] = m \/ (i \in Emitted /\ toPage'[i] = toPage[i])
         /\ m.action # "emit" => Emitted' = Emitted /\ \A i \in Emitted : toPage'[i] = toPage[i]
         /\ m.action = "emit" => Emitted' # {}
<1>1. toPage \in Seq(Messages) /\ Len(toPage) \in Nat
  BY DEF ChannelTypeOK
<1>2. /\ Len(toPage') = Len(toPage) + 1 /\ toPage'[Len(toPage) + 1] = m
      /\ \A i \in 1 .. Len(toPage) : toPage'[i] = toPage[i]
  BY <1>1
<1>3. \A i \in 1 .. Len(toPage') : i = Len(toPage) + 1 \/ i \in 1 .. Len(toPage)
  BY <1>1, <1>2
<1>4. 1 .. Len(toPage) \subseteq 1 .. Len(toPage') /\ Len(toPage) + 1 \in 1 .. Len(toPage')
  BY <1>1, <1>2
<1> HIDE DEF Messages
<1> QED BY <1>2, <1>3, <1>4, Zenon DEF Emitted

LEMMA EmittedByReceiving ==
  ASSUME ChannelTypeOK, toPage # <<>>, toPage' = Tail(toPage)
  PROVE  /\ \A i \in Emitted' : i + 1 \in Emitted /\ toPage'[i] = toPage[i + 1]
         /\ Head(toPage).action = "emit" => 1 \in Emitted /\ Head(toPage) = toPage[1]
         /\ Head(toPage).action # "emit" /\ Emitted' = {} => Emitted = {}
<1>1. toPage \in Seq(Messages) /\ Len(toPage) \in Nat
  BY DEF ChannelTypeOK
<1>2. /\ Head(toPage) = toPage[1] /\ Len(toPage) >= 1 /\ Len(toPage') = Len(toPage) - 1
      /\ \A i \in 1 .. Len(toPage') : i + 1 \in 1 .. Len(toPage) /\ toPage'[i] = toPage[i + 1]
  BY <1>1, HeadAndTail
<1>3. \A i \in 1 .. Len(toPage) : i = 1 \/ (i - 1 \in 1 .. Len(toPage') /\ (i - 1) + 1 = i)
  BY <1>1, <1>2
<1>4. 1 \in 1 .. Len(toPage)
  BY <1>1, <1>2
<1>5. \A i \in Emitted' : i + 1 \in Emitted /\ toPage'[i] = toPage[i + 1]
  BY <1>2 DEF Emitted
<1>6. Head(toPage).action = "emit" => 1 \in Emitted
  BY <1>2, <1>4 DEF Emitted
<1>7. ASSUME Head(toPage).action # "emit", Emitted' = {}, NEW i \in Emitted
      PROVE  FALSE
  <2>1. i \in 1 .. Len(toPage) /\ toPage[i].action = "emit"
    BY DEF Emitted
  <2>2. i # 1
    BY <1>2, <1>7, <2>1
  <2>3. i - 1 \in 1 .. Len(toPage') /\ toPage'[i - 1] = toPage[(i - 1) + 1] /\ (i - 1) + 1 = i
    BY <1>2, <1>3, <2>1, <2>2
  <2>4. i - 1 \in Emitted'
    BY <2>1, <2>3 DEF Emitted
  <2> QED BY <1>7, <2>4
<1> QED BY <1>2, <1>5, <1>6, <1>7

(* The page gets a token that lasts, and nothing else is on its way: the     *)
(* token lasts beyond the refresh that is scheduled with it.                 *)
LEMMA SentTokenKeepsInv ==
  ASSUME ClockTypeOK, NEW exp \in Nat, exp >= now + MIN_REFRESH_WAIT,
         now' = now, fetching' = Never,
         refreshAt' = now + getGuestTokenRefreshTiming(exp),
         \A i \in Emitted' : toPage'[i] = Emit(exp), Emitted' # {},
         ~broken' /\ framed'.started => now < framed'.exp
  PROVE  TokenInv'
<1>1. /\ refreshAt' \in Nat /\ refreshAt' > now /\ refreshAt' # Never
      /\ exp >= refreshAt' + REFRESH_TIMING_BUFFER
  BY RefreshIsEarly DEF ClockTypeOK
<1>2. now' < refreshAt' /\ Scheduled(exp)'
  BY <1>1, Parameters DEF Scheduled, ClockTypeOK
<1>3. \A i \in Emitted' : toPage'[i].exp = exp
  BY DEF Emit
<1>4. \A i \in Emitted' : Scheduled(toPage[i].exp)'
  BY <1>2, <1>3 DEF Scheduled
<1> QED BY <1>2, <1>4 DEF TokenInv

LEMMA TokenKeepsInv ==
  ASSUME ClockTypeOK, FrameTypeOK, ChannelTypeOK, ClockInv, TokenInv, Steps
  PROVE  TokenInv'
<1> USE Parameters
<1> SUFFICES ASSUME mounted', loads' = 1, ~broken'
             PROVE  TokenInv'
  BY DEF TokenInv, Reachable
<1>1. CASE Load
  <2>1. framed' = NewPage /\ now' = now /\ fetching' = fetching
    BY <1>1 DEF Load
  <2>2. ~framed'.started
    BY <2>1 DEF NewPage
  <2>3. CASE token # Never
    <3>1. /\ toPage' = <<Emit(token)>>
          /\ refreshAt' = now + getGuestTokenRefreshTiming(token)
      BY <1>1, <2>3 DEF Load
    <3>2. token \in Nat /\ token >= now + MIN_REFRESH_WAIT /\ fetching' = Never
      BY <1>1, <2>1, <2>3 DEF Load, ClockInv, ClockTypeOK
    <3>3. toPage'[1] = Emit(token) /\ Len(toPage') = 1
      BY <3>1
    <3>4. Emitted' = {1}
      BY <3>3 DEF Emitted, Emit
    <3> QED BY <2>1, <2>2, <3>1, <3>2, <3>3, <3>4, SentTokenKeepsInv
  <2>4. CASE token = Never
    <3>1. toPage' = <<>>
      BY <1>1, <2>4 DEF Load, ClockInv, channel
    <3>2. Emitted' = {}
      BY <3>1 DEF Emitted
    <3> QED BY <2>2, <3>2 DEF TokenInv
  <2> QED BY <2>3, <2>4
<1>2. ~LoadAgain /\ ~unmount /\ ~FetchRejects
  <2>1. ~LoadAgain
    <3>1. ASSUME LoadAgain PROVE loads >= 1 /\ loads' = loads + 1 /\ loads \in Nat
      BY <3>1 DEF LoadAgain, FrameTypeOK
    <3> QED BY <3>1
  <2>2. ~unmount
    BY Zenon DEF unmount
  <2>3. ~FetchRejects
    BY Zenon DEF FetchRejects
  <2> QED BY <2>1, <2>2, <2>3
<1>3. CASE embedDashboard
  BY <1>3 DEF embedDashboard, ClockInv
<1>4. ASSUME ~Load, ~embedDashboard
      PROVE  Reachable /\ ~broken
  <2>1. mounted' = mounted /\ loads' = loads
    BY <1>2, <1>4 DEF Steps, FetchResolves, refreshGuestToken, get, PageReceives,
       getMethodResult, HostReceives, Tick, embeddedVars, frame
  <2>2. broken' = broken
    BY <1>2, <1>4 DEF Steps, FetchResolves, refreshGuestToken, get, PageReceives,
       getMethodResult, HostReceives, Tick, embeddedVars, clock
  <2> QED BY <2>1, <2>2 DEF Reachable
<1>5. ASSUME Reachable, ~broken
      PROVE  /\ \A i \in Emitted : Scheduled(toPage[i].exp) /\ now < refreshAt
             /\ framed.started => now < framed.exp
             /\ framed.started /\ Emitted = {}
                  => \/ Scheduled(framed.exp)
                     \/ /\ fetching # Never /\ refreshAt = Never
                        /\ framed.exp >= fetching + REFRESH_TIMING_BUFFER
  BY <1>5 DEF TokenInv
<1>6. CASE FetchResolves
  <2>1. /\ fetching # Never /\ fetching' = Never /\ Reachable /\ loads # 0
        /\ now' = now /\ framed' = framed /\ ~broken
    BY <1>6, <1>4 DEF FetchResolves, Reachable, Load, embedDashboard
  <2>2. PICK ttl \in Ttls : \E issued \in fetching..now :
          /\ toPage' = Append(toPage, Emit(issued + ttl))
          /\ refreshAt' = now + getGuestTokenRefreshTiming(issued + ttl)
    BY <1>6, <2>1 DEF FetchResolves, SendToken
  <2>3. PICK issued \in fetching..now :
          /\ toPage' = Append(toPage, Emit(issued + ttl))
          /\ refreshAt' = now + getGuestTokenRefreshTiming(issued + ttl)
    BY <2>2
  <2>4. issued + ttl \in Nat /\ issued + ttl >= fetching + MIN_REFRESH_WAIT + Latency
    BY <2>1, FetchedToken
  <2>5. issued + ttl >= now + MIN_REFRESH_WAIT
    BY <2>1, <2>4 DEF ClockInv, ClockTypeOK
  <2>6. Emitted = {}
    BY <1>5, <2>1 DEF Scheduled
  <2>7. \A i \in Emitted' : toPage'[i] = Emit(issued + ttl)
    BY <2>3, <2>6, EmittedBySending
  <2>8. Emit(issued + ttl).action = "emit"
    BY DEF Emit
  <2>9. Emitted' # {}
    BY <2>3, <2>8, EmittedBySending
  <2> QED BY <1>5, <2>1, <2>3, <2>4, <2>5, <2>7, <2>9, SentTokenKeepsInv
<1>7. CASE refreshGuestToken
  <2>1. /\ refreshAt = now /\ refreshAt' = Never /\ fetching' = now
        /\ now' = now /\ framed' = framed /\ toPage' = toPage /\ Reachable /\ ~broken
    BY <1>7 DEF refreshGuestToken, channel, frame, Reachable
  <2>2. Emitted = {} /\ Emitted' = Emitted
    BY <1>5, <2>1 DEF Emitted, ClockTypeOK
  <2>3. framed.started => framed.exp >= now + REFRESH_TIMING_BUFFER
    BY <1>5, <2>1, <2>2 DEF Scheduled, ClockTypeOK
  <2> QED BY <1>5, <2>1, <2>2, <2>3 DEF TokenInv, ClockTypeOK
<1>8. ASSUME UNCHANGED <<clock, frame, framed>>, Emitted' = Emitted,
             \A i \in Emitted : toPage'[i] = toPage[i]
      PROVE  TokenInv'
  <2>1. Reachable /\ ~broken
    BY <1>8 DEF Reachable, clock, frame
  <2> QED BY <1>5, <1>8, <2>1 DEF TokenInv, Scheduled, clock, frame
<1>9. ASSUME NEW c \in Calls, get(c)
      PROVE  TokenInv'
  <2>1. UNCHANGED <<clock, frame, framed>> /\ toPage' = Append(toPage, Get(incrementor, c))
    BY <1>9 DEF get, Reachable, frame
  <2>2. Get(incrementor, c).action # "emit"
    BY DEF Get
  <2> QED BY <1>8, <2>1, <2>2, EmittedBySending
<1>10. CASE PageReceives
  <2>1. /\ toPage # <<>> /\ toPage' = Tail(toPage) /\ UNCHANGED <<clock, frame>>
        /\ Reachable /\ ~broken
    BY <1>10 DEF PageReceives, Reachable, clock, frame
  <2>2. /\ \A i \in Emitted' : i + 1 \in Emitted /\ toPage'[i] = toPage[i + 1]
        /\ Head(toPage).action = "emit" => 1 \in Emitted /\ Head(toPage) = toPage[1]
        /\ Head(toPage).action # "emit" /\ Emitted' = {} => Emitted = {}
    BY <2>1, EmittedByReceiving
  <2>3. \A i \in Emitted' : Scheduled(toPage'[i].exp) /\ now < refreshAt
    BY <1>5, <2>1, <2>2
  <2>4. CASE Head(toPage).action = "emit"
    <3>1. framed' = [started |-> TRUE, exp |-> Head(toPage).exp]
      BY <1>10, <2>4 DEF PageReceives
    <3>2. Scheduled(framed'.exp) /\ now < refreshAt
      BY <1>5, <2>1, <2>2, <2>4, <3>1
    <3>3. framed'.exp \in Nat
      <4>1. Head(toPage) \in Messages
        BY <2>1, HeadAndTail DEF ChannelTypeOK
      <4> QED BY <2>4, <3>1, <4>1, MessageKinds
    <3>4. now < framed'.exp
      BY <3>2, <3>3 DEF Scheduled, ClockTypeOK
    <3> QED BY <2>1, <2>3, <3>2, <3>4 DEF TokenInv, Scheduled, clock
  <2>5. CASE Head(toPage).action # "emit"
    <3>1. framed' = framed
      BY <1>10, <2>5 DEF PageReceives
    <3> QED BY <1>5, <2>1, <2>2, <2>3, <2>5, <3>1 DEF TokenInv, Scheduled, clock
  <2> QED BY <2>4, <2>5
<1>11. CASE Tick
  <2>1. /\ now' = now + 1 /\ refreshAt # now /\ toPage = <<>>
        /\ fetching = Never \/ now < fetching + Latency
        /\ UNCHANGED <<fetching, refreshAt, toPage, framed>> /\ Reachable /\ ~broken
    BY <1>11 DEF Tick, Reachable, frame, channel
  <2>2. Emitted = {} /\ Emitted' = {}
    BY <2>1 DEF Emitted
  <2>3. ASSUME framed.started
        PROVE  /\ now' < framed.exp
               /\ \/ Scheduled(framed.exp)'
                  \/ /\ fetching # Never /\ refreshAt = Never
                     /\ framed.exp >= fetching + REFRESH_TIMING_BUFFER
    <3>1. framed.exp \in Nat \cup {Never}
      BY DEF FrameTypeOK
    <3>2. CASE Scheduled(framed.exp)
      BY <2>1, <3>1, <3>2 DEF Scheduled, ClockTypeOK
    <3>3. CASE /\ fetching # Never /\ refreshAt = Never
               /\ framed.exp >= fetching + REFRESH_TIMING_BUFFER
      BY <2>1, <3>1, <3>3 DEF ClockTypeOK
    <3> QED BY <1>5, <2>1, <2>2, <2>3, <3>2, <3>3
  <2> QED BY <2>1, <2>2, <2>3 DEF TokenInv, Scheduled
<1>12. CASE (\E run \in executing : getMethodResult(run)) \/ HostReceives \/ UNCHANGED embeddedVars
  <2>1. UNCHANGED <<clock, frame, framed, toPage>>
    BY <1>12 DEF getMethodResult, HostReceives, embeddedVars, clock, frame
  <2> QED BY <1>8, <2>1 DEF Emitted
<1> QED BY <1>1, <1>2, <1>3, <1>6, <1>7, <1>9, <1>10, <1>11, <1>12 DEF Steps

-----------------------------------------------------------------------------
(* The embedded dashboard: its calls *)

LEMMA RepliesKeepInv ==
  ASSUME ChannelTypeOK, ReplyInv, OwnResult, Steps
  PROVE  ReplyInv' /\ OwnResult'
<1>1. toPage \in Seq(Messages) /\ Len(toPage) \in Nat /\ toHost \in Seq(Replies) /\ Len(toHost) \in Nat
  BY DEF ChannelTypeOK
<1>2. ASSUME NEW exp, \/ toPage' = <<>> \/ toPage' = <<Emit(exp)>>
                      \/ toPage' = Append(toPage, Emit(exp)),
             executing' \subseteq executing, UNCHANGED <<toHost, calls>>
      PROVE  ReplyInv' /\ OwnResult'
  <2>1. ASSUME NEW i \in 1 .. Len(toPage'), toPage'[i].action = "get"
        PROVE  toPage'[i].id = toPage'[i].call
    <3>1. Emit(exp).action # "get"
      BY DEF Emit
    <3>2. toPage' # <<>> /\ toPage' # <<Emit(exp)>>
      BY <2>1, <3>1
    <3>3. toPage' = Append(toPage, Emit(exp))
      BY <1>2, <3>2
    <3>4. i = Len(toPage) + 1 \/ (i \in 1 .. Len(toPage) /\ toPage'[i] = toPage[i])
      BY <1>1, <2>1, <3>3
    <3>5. toPage'[Len(toPage) + 1] = Emit(exp)
      BY <1>1, <3>3
    <3> QED BY <2>1, <3>1, <3>4, <3>5 DEF ReplyInv
  <2> QED BY <1>2, <2>1 DEF ReplyInv, OwnResult, calls
<1>3. CASE Load \/ LoadAgain \/ unmount \/ FetchResolves
  <2>1. \/ UNCHANGED <<toPage, toHost, executing, calls>>
        \/ /\ executing' \subseteq executing /\ UNCHANGED <<toHost, calls>>
           /\ \E exp : \/ toPage' = <<>> \/ toPage' = <<Emit(exp)>>
                       \/ toPage' = Append(toPage, Emit(exp))
    BY <1>3 DEF Load, LoadAgain, unmount, FetchResolves, SendToken, channel
  <2>2. CASE UNCHANGED <<toPage, toHost, executing, calls>>
    BY <2>2 DEF ReplyInv, OwnResult, calls
  <2> QED BY <1>2, <2>1, <2>2
<1>4. ASSUME NEW c \in Calls, get(c)
      PROVE  ReplyInv' /\ OwnResult'
  <2>1. /\ c = incrementor /\ listening' = [listening EXCEPT ![c] = c]
        /\ toPage' = toPage \/ toPage' = Append(toPage, Get(c, c))
        /\ UNCHANGED <<toHost, executing, promises>>
    BY <1>4 DEF get
  <2>2. \A d \in Calls : listening'[d] \in {0, d}
    BY <2>1 DEF ReplyInv, ChannelTypeOK
  <2>3. Get(c, c).id = Get(c, c).call
    BY DEF Get
  <2>4. ASSUME NEW i \in 1 .. Len(toPage'), toPage'[i].action = "get"
        PROVE  toPage'[i].id = toPage'[i].call
    <3>1. CASE toPage' = toPage
      BY <2>4, <3>1 DEF ReplyInv
    <3>2. CASE toPage' = Append(toPage, Get(c, c))
      <4>1. i = Len(toPage) + 1 \/ (i \in 1 .. Len(toPage) /\ toPage'[i] = toPage[i])
        BY <1>1, <2>4, <3>2
      <4>2. toPage'[Len(toPage) + 1] = Get(c, c)
        BY <1>1, <3>2
      <4> QED BY <2>3, <2>4, <4>1, <4>2 DEF ReplyInv
    <3> QED BY <2>1, <3>1, <3>2
  <2> QED BY <2>1, <2>2, <2>4 DEF ReplyInv, OwnResult
<1>5. CASE PageReceives
  <2>1. /\ toPage # <<>> /\ toPage' = Tail(toPage) /\ UNCHANGED <<toHost, calls>>
        /\ \/ executing' = executing
           \/ /\ Head(toPage).action = "get"
              /\ executing' = executing \cup {<<Head(toPage).id, Head(toPage).call>>}
    BY <1>5 DEF PageReceives
  <2>2. /\ Head(toPage) = toPage[1] /\ 1 \in 1 .. Len(toPage)
        /\ \A i \in 1 .. Len(toPage') : i + 1 \in 1 .. Len(toPage) /\ toPage'[i] = toPage[i + 1]
    BY <1>1, <2>1, HeadAndTail
  <2>3. \A run \in executing' : run[1] = run[2]
    BY <2>1, <2>2 DEF ReplyInv
  <2>4. \A i \in 1 .. Len(toPage') : toPage'[i].action = "get" => toPage'[i].id = toPage'[i].call
    BY <2>2 DEF ReplyInv
  <2> QED BY <2>1, <2>3, <2>4 DEF ReplyInv, OwnResult, calls
<1>6. ASSUME NEW run \in executing, getMethodResult(run)
      PROVE  ReplyInv' /\ OwnResult'
  <2>1. PICK r \in {run[2], Failed} : toHost' = Append(toHost, Reply(run[1], r))
    BY <1>6 DEF getMethodResult
  <2>2. run[1] = run[2] /\ run[2] \in Calls
    BY DEF ReplyInv, ChannelTypeOK
  <2>3. Reply(run[1], r).id = run[1] /\ Reply(run[1], r).result = r
    BY DEF Reply
  <2>4. ASSUME NEW i \in 1 .. Len(toHost')
        PROVE  toHost'[i].id \in Calls /\ toHost'[i].result \in {toHost'[i].id, Failed}
    <3>1. i = Len(toHost) + 1 \/ (i \in 1 .. Len(toHost) /\ toHost'[i] = toHost[i])
      BY <1>1, <2>1, <2>4
    <3>2. toHost'[Len(toHost) + 1] = Reply(run[1], r)
      BY <1>1, <2>1
    <3> QED BY <2>1, <2>2, <2>3, <3>1, <3>2 DEF ReplyInv
  <2>5. executing' \subseteq executing /\ UNCHANGED <<toPage, calls>>
    BY <1>6 DEF getMethodResult
  <2> QED BY <2>4, <2>5 DEF ReplyInv, OwnResult, calls
<1>7. CASE HostReceives
  <2>1. /\ toHost # <<>> /\ toHost' = Tail(toHost)
        /\ UNCHANGED <<toPage, executing, incrementor>>
    BY <1>7 DEF HostReceives
  <2>2. /\ Head(toHost) = toHost[1] /\ 1 \in 1 .. Len(toHost)
        /\ \A i \in 1 .. Len(toHost') : i + 1 \in 1 .. Len(toHost) /\ toHost'[i] = toHost[i + 1]
    BY <1>1, <2>1, HeadAndTail
  <2>3. Head(toHost).id \in Calls /\ Head(toHost).result \in {Head(toHost).id, Failed}
    BY <2>2 DEF ReplyInv
  <2>4. \A c \in Calls :
          /\ listening'[c] \in {0, listening[c]}
          /\ \/ promises'[c] = promises[c]
             \/ listening[c] = Head(toHost).id /\ promises'[c] = Head(toHost).result
    BY <1>7 DEF HostReceives
  <2>5. \A c \in Calls : c # 0
    BY EmbeddedAssumption
  <2>6. OwnResult'
    <3> SUFFICES ASSUME NEW c \in Calls PROVE promises'[c] \in {0, Failed, c}
      BY DEF OwnResult
    <3>1. CASE promises'[c] = promises[c]
      BY <3>1 DEF OwnResult
    <3>2. CASE listening[c] = Head(toHost).id /\ promises'[c] = Head(toHost).result
      <4>1. Head(toHost).id = c
        BY <2>3, <2>5, <3>2 DEF ReplyInv
      <4> QED BY <2>3, <3>2, <4>1
    <3> QED BY <2>4, <3>1, <3>2
  <2>7. \A c \in Calls : listening'[c] \in {0, c}
    BY <2>4 DEF ReplyInv
  <2>8. \A i \in 1 .. Len(toHost') :
          toHost'[i].id \in Calls /\ toHost'[i].result \in {toHost'[i].id, Failed}
    BY <2>2 DEF ReplyInv
  <2> QED BY <2>1, <2>6, <2>7, <2>8 DEF ReplyInv
<1>8. CASE UNCHANGED channel
  BY <1>8 DEF ReplyInv, OwnResult, channel, calls
<1>9. \/ Load \/ LoadAgain \/ unmount \/ FetchResolves \/ (\E c \in Calls : get(c))
      \/ PageReceives \/ (\E run \in executing : getMethodResult(run)) \/ HostReceives
      \/ UNCHANGED channel
  BY DEF Steps, embedDashboard, FetchRejects, refreshGuestToken, Tick, embeddedVars, channel, calls
<1> QED BY <1>3, <1>4, <1>5, <1>6, <1>7, <1>8, <1>9

-----------------------------------------------------------------------------
EmbeddedIInv == EmbeddedTypeOK /\ ClockInv /\ TokenInv /\ ReplyInv /\ OwnResult

LEMMA EmbeddedInitInv == EmbeddedInit => EmbeddedIInv
<1> SUFFICES ASSUME EmbeddedInit PROVE EmbeddedIInv
  OBVIOUS
<1>1. ClockTypeOK /\ FrameTypeOK /\ FlagsTypeOK
  <2>1. ClockTypeOK
    BY Parameters DEF EmbeddedInit, ClockTypeOK
  <2>2. FrameTypeOK
    BY Parameters DEF EmbeddedInit, FrameTypeOK, NewPage
  <2>3. FlagsTypeOK
    BY Zenon DEF EmbeddedInit, FlagsTypeOK
  <2> QED BY <2>1, <2>2, <2>3
<1>2. ChannelTypeOK
  BY DEF EmbeddedInit, ChannelTypeOK
<1>3. ClockInv /\ ReplyInv /\ OwnResult
  BY Parameters DEF EmbeddedInit, ClockInv, ReplyInv, OwnResult
<1>4. TokenInv
  BY DEF EmbeddedInit, TokenInv, Reachable
<1> QED BY <1>1, <1>2, <1>3, <1>4, TypesTogether DEF EmbeddedIInv

LEMMA EmbeddedNextInv == EmbeddedIInv /\ [EmbeddedNext]_embeddedVars => EmbeddedIInv'
<1> SUFFICES ASSUME EmbeddedIInv, [EmbeddedNext]_embeddedVars PROVE EmbeddedIInv'
  OBVIOUS
<1>1. ClockTypeOK /\ FrameTypeOK /\ ChannelTypeOK /\ FlagsTypeOK /\ Steps
  BY TypesTogether, AllSteps DEF EmbeddedIInv
<1>2. ClockTypeOK' /\ FrameTypeOK' /\ ChannelTypeOK' /\ FlagsTypeOK'
  BY <1>1, ClockTypes, FrameTypes, ChannelTypes, FlagsTypes
<1>3. EmbeddedTypeOK'
  BY <1>2, TypesTogether, PTL
<1>4. ClockInv' /\ TokenInv' /\ ReplyInv' /\ OwnResult'
  BY <1>1, ClockKeepsInv, TokenKeepsInv, RepliesKeepInv DEF EmbeddedIInv
<1> QED BY <1>3, <1>4 DEF EmbeddedIInv

(* guestTokenRefresh.ts:21.  For any lifetimes of tokens that outlast        *)
(* MIN_REFRESH_WAIT and a fetch, and any fetch shorter than the buffer: the  *)
(* page never works with a token that has expired.                           *)
THEOREM TokenNeverExpiresAlways == EmbeddedSpec => []TokenNeverExpires
<1>1. EmbeddedIInv => TokenNeverExpires
  BY DEF EmbeddedIInv, TokenInv, TokenNeverExpires
<1> QED BY <1>1, EmbeddedInitInv, EmbeddedNextInv, PTL DEF EmbeddedSpec

(* switchboard.ts:185-225.  Whatever the order in which any number of calls  *)
(* end and are answered, a caller gets its own result, or an error.          *)
THEOREM OwnResultAlways == EmbeddedSpec => []OwnResult
<1>1. EmbeddedIInv => OwnResult
  BY DEF EmbeddedIInv
<1> QED BY <1>1, EmbeddedInitInv, EmbeddedNextInv, PTL DEF EmbeddedSpec

(* The messages, timers and listeners keep their types.                      *)
THEOREM EmbeddedTypeOKAlways == EmbeddedSpec => []EmbeddedTypeOK
<1>1. EmbeddedIInv => EmbeddedTypeOK
  BY DEF EmbeddedIInv
<1> QED BY <1>1, EmbeddedInitInv, EmbeddedNextInv, PTL DEF EmbeddedSpec

-----------------------------------------------------------------------------
(* The presented dashboard *)

PresenterIInv ==
  PresenterTypeOK /\ OfAMount /\ InOrder /\ ReadOnce /\ AcknowledgedOnceOver

Stages == {"shown", "speech", "playing", "refused"}

LEMMA ReadingFields ==
  ASSUME NEW p, NEW stage
  PROVE  /\ Reading(p, stage).of = p /\ Reading(p, stage).stage = stage
         /\ p \in Pairs /\ stage \in Stages => Reading(p, stage) \in [of : Pairs, stage : Stages]
BY DEF Reading

LEMMA PairParts ==
  /\ \A s \in Sockets, i \in Ids : <<s, i>> \in Pairs
  /\ \A p \in Pairs : p[1] \in Sockets /\ p[2] \in Ids /\ p = <<p[1], p[2]>>
  /\ \A s, t \in Sockets, i, j \in Ids : <<s, i>> = <<t, j>> => s = t /\ i = j
BY DEF Pairs

(* Mounting, connecting, disconnecting and sending.                          *)
LEMMA ConnectionKeepsInv ==
  ASSUME PresenterIInv,
         \/ componentDidMount \/ componentWillUnmount \/ ServerSends
         \/ \E s \in Sockets : Connects(s) \/ NoToken(s) \/ Drop(s)
         \/ UNCHANGED presenterVars
  PROVE  PresenterIInv'
<1>1. UNCHANGED outcome
  BY DEF componentDidMount, componentWillUnmount, ServerSends, Connects, NoToken, Drop,
         presenterVars, outcome
<1>2. ReadOnce'
  BY <1>1 DEF outcome, PresenterIInv, ReadOnce, Handled
<1>3. /\ Instructions \in Nat /\ MaxMounts \in Nat /\ MaxDrops \in Nat
      /\ sent \in Nat /\ sent <= Instructions
      /\ inbox \in [Sockets -> Seq(Ids)]
  BY PresenterAssumption DEF PresenterIInv, PresenterTypeOK
<1>4. inbox' \in [Sockets -> Seq(Ids)] /\ sent' \in 0..Instructions /\ InOrder'
  <2>1. CASE UNCHANGED <<inbox, sent>>
    BY <1>1, <2>1 DEF PresenterIInv, PresenterTypeOK, InOrder, Handled, outcome
  <2>2. ASSUME NEW s \in Sockets, Drop(s)
        PROVE  inbox' \in [Sockets -> Seq(Ids)] /\ sent' \in 0..Instructions /\ InOrder'
    <3>1. sent' = sent /\ inbox' = [inbox EXCEPT ![s] = <<>>]
      BY <2>2 DEF Drop
    <3>2. inbox' \in [Sockets -> Seq(Ids)]
      BY <1>3, <3>1
    <3>3. inbox'[s] = <<>> /\ Len(inbox'[s]) = 0
      BY <1>3, <3>1
    <3>4. \A t \in Sockets : t # s => inbox'[t] = inbox[t]
      BY <1>3, <3>1
    <3>5. \A p : Handled(p)' <=> Handled(p)
      BY <1>1 DEF Handled, outcome
    <3>6. InOrder'
      <4> SUFFICES ASSUME NEW t \in Sockets
            PROVE /\ \A k \in 1 .. Len(inbox'[t]) : inbox'[t][k] <= sent
                  /\ \A k, l \in 1 .. Len(inbox'[t]) : k < l => inbox'[t][k] < inbox'[t][l]
                  /\ \A i \in Ids, k \in 1 .. Len(inbox'[t]) : Handled(<<t, i>>) => i < inbox'[t][k]
                  /\ \A i \in Ids : Handled(<<t, i>>) => i <= sent
        BY <3>1, <3>5 DEF InOrder
      <4>1. CASE t = s
        BY <3>3, <4>1 DEF PresenterIInv, InOrder
      <4>2. CASE t # s
        BY <3>4, <4>2 DEF PresenterIInv, InOrder
      <4> QED BY <4>1, <4>2
    <3> QED BY <1>3, <3>1, <3>2, <3>6
  <2>3. CASE ServerSends
    <3>1. /\ sent < Instructions /\ sent' = sent + 1
          /\ inbox' = [s \in Sockets |->
                 IF s \in Connected THEN Append(inbox[s], sent') ELSE inbox[s]]
      BY <2>3 DEF ServerSends
    <3>2. sent' \in Ids /\ sent' \in 0..Instructions
      BY <1>3, <3>1 DEF Ids
    <3>3. ASSUME NEW t \in Sockets
          PROVE  /\ inbox'[t] \in Seq(Ids)
                 /\ \A k \in 1 .. Len(inbox'[t]) :
                      \/ k \in 1 .. Len(inbox[t]) /\ inbox'[t][k] = inbox[t][k]
                      \/ k = Len(inbox[t]) + 1 /\ inbox'[t][k] = sent'
      <4>1. inbox[t] \in Seq(Ids)
        BY <1>3
      <4>2. CASE t \in Connected
        <5>1. inbox'[t] = Append(inbox[t], sent')
          BY <3>1, <4>2
        <5> QED BY <3>2, <4>1, <5>1
      <4>3. CASE t \notin Connected
        <5>1. inbox'[t] = inbox[t]
          BY <3>1, <4>3
        <5> QED BY <4>1, <5>1
      <4> QED BY <4>2, <4>3
    <3>4. inbox' \in [Sockets -> Seq(Ids)]
      <4>1. inbox' = [t \in Sockets |-> inbox'[t]]
        BY <3>1
      <4> QED BY <3>3, <4>1
    <3>5. \A p : Handled(p)' <=> Handled(p)
      BY <1>1 DEF Handled, outcome
    <3>6. \A t \in Sockets : Len(inbox[t]) \in Nat /\ \A k \in 1 .. Len(inbox[t]) : inbox[t][k] \in Nat
      BY <1>3 DEF Ids
    <3>7. InOrder'
      <4> SUFFICES ASSUME NEW t \in Sockets
            PROVE /\ \A k \in 1 .. Len(inbox'[t]) : inbox'[t][k] <= sent'
                  /\ \A k, l \in 1 .. Len(inbox'[t]) : k < l => inbox'[t][k] < inbox'[t][l]
                  /\ \A i \in Ids, k \in 1 .. Len(inbox'[t]) : Handled(<<t, i>>) => i < inbox'[t][k]
                  /\ \A i \in Ids : Handled(<<t, i>>) => i <= sent'
        BY <3>5 DEF InOrder
      <4>1. /\ \A k \in 1 .. Len(inbox[t]) : inbox[t][k] <= sent
            /\ \A k, l \in 1 .. Len(inbox[t]) : k < l => inbox[t][k] < inbox[t][l]
            /\ \A i \in Ids, k \in 1 .. Len(inbox[t]) : Handled(<<t, i>>) => i < inbox[t][k]
            /\ \A i \in Ids : Handled(<<t, i>>) => i <= sent
        BY DEF PresenterIInv, InOrder
      <4>2. \A i \in Ids : i \in Nat
        BY DEF Ids
      <4>3. \A k \in 1 .. Len(inbox'[t]) : inbox'[t][k] <= sent'
        BY <1>3, <3>1, <3>3, <3>6, <4>1
      <4>4. ASSUME NEW k \in 1 .. Len(inbox'[t]), NEW l \in 1 .. Len(inbox'[t]), k < l
            PROVE  inbox'[t][k] < inbox'[t][l]
        BY <1>3, <3>1, <3>3, <3>6, <4>1, <4>4
      <4>5. \A i \in Ids, k \in 1 .. Len(inbox'[t]) : Handled(<<t, i>>) => i < inbox'[t][k]
        BY <1>3, <3>1, <3>3, <4>1, <4>2
      <4>6. \A i \in Ids : Handled(<<t, i>>) => i <= sent'
        BY <1>3, <3>1, <4>1, <4>2
      <4> QED BY <4>3, <4>4, <4>5, <4>6
    <3> QED BY <3>2, <3>4, <3>7
  <2>4. UNCHANGED <<inbox, sent>> \/ (\E s \in Sockets : Drop(s)) \/ ServerSends
    BY DEF componentDidMount, componentWillUnmount, Connects, NoToken, presenterVars
  <2> QED BY <2>1, <2>2, <2>3, <2>4
<1>5. /\ onPage' \in BOOLEAN /\ mounts' \in 0..MaxMounts /\ drops' \in 0..MaxDrops
  <2>1. onPage' = onPage \/ onPage' = TRUE \/ onPage' = FALSE
    BY DEF componentDidMount, componentWillUnmount, ServerSends, Connects, NoToken, Drop,
           presenterVars
  <2>2. onPage' \in BOOLEAN
    BY <2>1 DEF PresenterIInv, PresenterTypeOK
  <2>3. mounts' = mounts \/ (mounts < MaxMounts /\ mounts' = mounts + 1)
    BY DEF componentDidMount, componentWillUnmount, ServerSends, Connects, NoToken, Drop,
           presenterVars
  <2>4. drops' = drops \/ (drops < MaxDrops /\ drops' = drops + 1)
    BY DEF componentDidMount, componentWillUnmount, ServerSends, Connects, NoToken, Drop,
           presenterVars
  <2> QED BY <1>3, <2>2, <2>3, <2>4 DEF PresenterIInv, PresenterTypeOK
<1>6. socket' \in [Sockets -> {"none", "token", "connected", "down"}]
  <2>1. socket \in [Sockets -> {"none", "token", "connected", "down"}]
    BY DEF PresenterIInv, PresenterTypeOK
  <2>2. socket' = socket \/ \E x, v : /\ v \in {"none", "token", "connected", "down"}
                                      /\ socket' = [socket EXCEPT ![x] = v]
    BY DEF componentDidMount, componentWillUnmount, ServerSends, Connects, NoToken, Drop,
           presenterVars
  <2> QED BY <2>1, <2>2
<1>7. PresenterTypeOK'
  BY <1>1, <1>4, <1>5, <1>6 DEF outcome, PresenterIInv, PresenterTypeOK
<1>8. mounts \in Nat /\ (mounts' = mounts \/ mounts' = mounts + 1)
  BY <1>3 DEF componentDidMount, componentWillUnmount, ServerSends, Connects, NoToken, Drop,
         presenterVars, PresenterIInv, PresenterTypeOK
<1>9. AcknowledgedOnceOver'
  <2> SUFFICES ASSUME NEW p \in Pairs, acked[p] > 0
               PROVE  /\ acked[p] = 1 /\ p[1] <= mounts'
                      /\ p \in (carriedOut \cup missed) \ silent
                      /\ p \notin {n.of : n \in narrations}
    BY <1>1 DEF AcknowledgedOnceOver, outcome
  <2>1. p[1] \in Nat
    BY <1>3, PairParts DEF Sockets
  <2> QED BY <1>8, <2>1 DEF PresenterIInv, AcknowledgedOnceOver
<1>10. \A s \in Sockets : socket'[s] # "none" => socket[s] # "none" \/ s <= mounts'
  <2>1. CASE componentDidMount
    BY <2>1, <1>3, <1>6, <1>8 DEF componentDidMount, PresenterIInv, PresenterTypeOK, Sockets
  <2>2. ASSUME NEW t \in Sockets, Connects(t) \/ NoToken(t) \/ Drop(t)
        PROVE  \A s \in Sockets : socket'[s] # "none" => socket[s] # "none"
    BY <2>2 DEF Connects, NoToken, Drop, Connected, PresenterIInv, PresenterTypeOK
  <2>3. CASE componentWillUnmount \/ ServerSends \/ UNCHANGED presenterVars
    BY <2>3 DEF componentWillUnmount, ServerSends, presenterVars
  <2> QED BY <2>1, <2>2, <2>3
<1>11. OfAMount'
  <2> SUFFICES ASSUME NEW s \in Sockets,
                      socket'[s] # "none" \/ \E i \in Ids : Handled(<<s, i>>)
               PROVE  s <= mounts'
    BY <1>1 DEF OfAMount, Handled, outcome
  <2>1. s \in Nat
    BY <1>3 DEF Sockets
  <2> QED BY <1>8, <1>10, <2>1 DEF PresenterIInv, OfAMount
<1> QED BY <1>2, <1>4, <1>7, <1>9, <1>11 DEF PresenterIInv

(* An instruction is carried out: it is the oldest that came to this socket, *)
(* and nothing was done about it before.                                     *)
LEMMA OnDashboardKeepsInv ==
  ASSUME PresenterIInv, NEW s \in Sockets, OnDashboard(s)
  PROVE  PresenterIInv'
<1> DEFINE p == <<s, Head(inbox[s])>>
<1>1. PresenterTypeOK /\ OfAMount /\ InOrder /\ ReadOnce /\ AcknowledgedOnceOver
  BY DEF PresenterIInv
<1>2. /\ inbox \in [Sockets -> Seq(Ids)] /\ inbox[s] \in Seq(Ids) /\ inbox[s] # <<>>
      /\ inbox' = [inbox EXCEPT ![s] = Tail(inbox[s])]
      /\ UNCHANGED <<onPage, mounts, socket, sent, drops>>
  BY <1>1 DEF PresenterTypeOK, OnDashboard
<1>3. /\ Head(inbox[s]) \in Ids /\ Head(inbox[s]) = inbox[s][1] /\ Tail(inbox[s]) \in Seq(Ids)
      /\ 1 \in 1 .. Len(inbox[s])
      /\ \A k \in 1 .. Len(Tail(inbox[s])) : /\ k + 1 \in 1 .. Len(inbox[s]) /\ 1 < k + 1
                                             /\ Tail(inbox[s])[k] = inbox[s][k + 1]
  BY <1>2
<1>4. p \in Pairs
  BY <1>3, PairParts
<1>5. ~Handled(p)
  <2>1. Handled(p) => Head(inbox[s]) < inbox[s][1]
    BY <1>1, <1>3 DEF InOrder
  <2>2. Head(inbox[s]) \in Nat
    BY <1>3 DEF Ids
  <2> QED BY <1>3, <2>1, <2>2
<1>6. p \notin carriedOut \cup missed /\ p \notin silent
  BY <1>5 DEF Handled
<1>7. acked[p] = 0 /\ \A n \in narrations : n.of # p
  <2>1. acked[p] \in Nat /\ (acked[p] > 0 => p \in carriedOut \cup missed)
    BY <1>1, <1>4 DEF PresenterTypeOK, AcknowledgedOnceOver
  <2> QED BY <1>1, <1>5, <1>6, <2>1 DEF ReadOnce
<1>8. /\ \/ /\ \/ carriedOut' = carriedOut \cup {p} /\ missed' = missed
               \/ missed' = missed \cup {p} /\ carriedOut' = carriedOut
            /\ silent' = silent
            /\ \/ acked' = [acked EXCEPT ![p] = @ + 1] /\ narrations' = narrations
               \/ /\ \E stage \in {"shown", "speech"} :
                        narrations' = narrations \cup {Reading(p, stage)}
                  /\ acked' = acked
         \/ /\ silent' = silent \cup {p} /\ acked' = acked
            /\ carriedOut' = carriedOut /\ missed' = missed
            /\ \/ narrations' = narrations
               \/ \E stage \in {"shown", "speech"} :
                     narrations' = narrations \cup {Reading(p, stage)}
  BY DEF OnDashboard, HandlerEnds, Acknowledge, Read
<1> HIDE DEF p
<1>9. \A q : Handled(q)' <=> Handled(q) \/ q = p
  BY <1>8 DEF Handled
<1>10. PresenterTypeOK'
  <2>1. inbox' \in [Sockets -> Seq(Ids)]
    BY <1>2, <1>3
  <2>2. carriedOut' \subseteq Pairs /\ missed' \subseteq Pairs /\ silent' \subseteq Pairs
    BY <1>1, <1>4, <1>8 DEF PresenterTypeOK
  <2>3. acked' \in [Pairs -> Nat]
    BY <1>1, <1>4, <1>7, <1>8 DEF PresenterTypeOK
  <2>4. narrations \subseteq [of : Pairs, stage : Stages]
    BY <1>1 DEF PresenterTypeOK, Stages
  <2>5. \A stage \in {"shown", "speech"} : Reading(p, stage) \in [of : Pairs, stage : Stages]
    BY <1>4, ReadingFields DEF Stages
  <2>6. narrations' \subseteq [of : Pairs, stage : Stages]
    BY <1>8, <2>4, <2>5
  <2> QED BY <1>1, <1>2, <2>1, <2>2, <2>3, <2>6 DEF PresenterTypeOK, Stages
<1>11. InOrder'
  <2> SUFFICES ASSUME NEW t \in Sockets
        PROVE /\ \A k \in 1 .. Len(inbox'[t]) : inbox'[t][k] <= sent'
              /\ \A k, l \in 1 .. Len(inbox'[t]) : k < l => inbox'[t][k] < inbox'[t][l]
              /\ \A i \in Ids, k \in 1 .. Len(inbox'[t]) : Handled(<<t, i>>)' => i < inbox'[t][k]
              /\ \A i \in Ids : Handled(<<t, i>>)' => i <= sent'
    BY DEF InOrder, Handled
  <2>1. /\ \A k \in 1 .. Len(inbox[t]) : inbox[t][k] <= sent
        /\ \A k, l \in 1 .. Len(inbox[t]) : k < l => inbox[t][k] < inbox[t][l]
        /\ \A i \in Ids, k \in 1 .. Len(inbox[t]) : Handled(<<t, i>>) => i < inbox[t][k]
        /\ \A i \in Ids : Handled(<<t, i>>) => i <= sent
    BY <1>1 DEF InOrder
  <2>2. CASE t # s
    <3>1. inbox'[t] = inbox[t] /\ sent' = sent
      BY <1>2, <2>2
    <3>2. \A i \in Ids : <<t, i>> # p
      BY <1>3, <2>2, PairParts DEF p
    <3>3. \A i \in Ids : Handled(<<t, i>>)' <=> Handled(<<t, i>>)
      BY <1>9, <3>2
    <3> QED BY <2>1, <3>1, <3>3
  <2>3. CASE t = s
    <3>1. inbox'[t] = Tail(inbox[s]) /\ sent' = sent
      BY <1>2, <2>3
    <3>2. \A i \in Ids : Handled(<<t, i>>)' => Handled(<<t, i>>) \/ i = inbox[s][1]
      BY <1>3, <1>9, <2>3, PairParts DEF p
    <3>3. \A k \in 1 .. Len(inbox'[t]) : /\ k + 1 \in 1 .. Len(inbox[s]) /\ 1 < k + 1
                                         /\ inbox'[t][k] = inbox[s][k + 1]
      BY <1>3, <3>1
    <3>4. \A k \in 1 .. Len(inbox'[t]) : inbox'[t][k] <= sent'
      BY <2>1, <2>3, <3>1, <3>3
    <3>5. \A k, l \in 1 .. Len(inbox'[t]) : k < l => inbox'[t][k] < inbox'[t][l]
      <4> SUFFICES ASSUME NEW k \in 1 .. Len(inbox'[t]), NEW l \in 1 .. Len(inbox'[t]), k < l
                   PROVE  inbox'[t][k] < inbox'[t][l]
        OBVIOUS
      <4>1. k + 1 < l + 1
        OBVIOUS
      <4> QED BY <2>1, <2>3, <3>3, <4>1
    <3>6. \A i \in Ids, k \in 1 .. Len(inbox'[t]) : Handled(<<t, i>>)' => i < inbox'[t][k]
      BY <1>3, <2>1, <2>3, <3>2, <3>3
    <3>7. \A i \in Ids : Handled(<<t, i>>)' => i <= sent'
      BY <1>3, <2>1, <2>3, <3>1, <3>2
    <3> QED BY <3>4, <3>5, <3>6, <3>7
  <2> QED BY <2>2, <2>3
<1>12. \A stage : Reading(p, stage).of = p /\ Reading(p, stage).stage = stage
  BY ReadingFields
<1>13. \A n \in narrations' :
          \/ n \in narrations
          \/ /\ n.of = p /\ n.stage # "refused" /\ acked'[p] = 0
             /\ \A m \in narrations' : m.of = p => m = n
  BY <1>7, <1>8, <1>12
<1>14. \A q \in Pairs : acked'[q] = acked[q] \/ (q = p /\ acked'[q] = 1 /\ narrations' = narrations
                                                   /\ p \in carriedOut' \cup missed'
                                                   /\ silent' = silent)
  BY <1>1, <1>4, <1>7, <1>8 DEF PresenterTypeOK
<1>15. \A n \in narrations : n.of \in Pairs
  BY <1>1 DEF PresenterTypeOK
<1>16. ReadOnce'
  <2>1. \A n \in narrations' : Handled(n.of)' /\ acked'[n.of] = 0
    BY <1>1, <1>7, <1>9, <1>13, <1>14, <1>15 DEF ReadOnce
  <2>2. \A n \in narrations' : n.stage = "refused" => n.of \in silent'
    BY <1>1, <1>8, <1>13 DEF ReadOnce
  <2>3. \A m, n \in narrations' : m.of = n.of => m = n
    BY <1>1, <1>7, <1>13 DEF ReadOnce
  <2> QED BY <2>1, <2>2, <2>3 DEF ReadOnce, Handled
<1>17. s <= mounts
  BY <1>1 DEF OfAMount, OnDashboard, Connected
<1>18. AcknowledgedOnceOver'
  <2> SUFFICES ASSUME NEW q \in Pairs, acked'[q] > 0
               PROVE  /\ acked'[q] = 1 /\ q[1] <= mounts'
                      /\ q \in carriedOut' \cup missed' /\ q \notin silent'
                      /\ \A n \in narrations' : n.of # q
    BY DEF AcknowledgedOnceOver
  <2>1. CASE acked'[q] = acked[q]
    <3>1. /\ acked[q] = 1 /\ q[1] <= mounts
          /\ q \in carriedOut \cup missed /\ q \notin silent
          /\ \A n \in narrations : n.of # q
      BY <1>1, <2>1 DEF AcknowledgedOnceOver
    <3>2. q # p
      BY <1>6, <3>1
    <3> QED BY <1>2, <1>8, <1>13, <2>1, <3>1, <3>2
  <2>2. CASE acked'[q] # acked[q]
    <3>1. p[1] <= mounts'
      BY <1>2, <1>17 DEF p
    <3> QED BY <1>6, <1>7, <1>14, <2>2, <3>1
  <2> QED BY <2>1, <2>2
<1>19. OfAMount'
  <2> SUFFICES ASSUME NEW t \in Sockets,
                      socket'[t] # "none" \/ \E i \in Ids : Handled(<<t, i>>)'
               PROVE  t <= mounts'
    BY DEF OfAMount, Handled
  <2>1. CASE t = s
    BY <1>2, <1>17, <2>1
  <2>2. CASE t # s
    <3>1. \A i \in Ids : <<t, i>> # p
      BY <1>3, <2>2, PairParts DEF p
    <3> QED BY <1>1, <1>2, <1>9, <3>1 DEF OfAMount
  <2> QED BY <2>1, <2>2
<1> QED BY <1>10, <1>11, <1>16, <1>18, <1>19 DEF PresenterIInv

(* Reading goes on, fails or ends: only in the end is it acknowledged, and   *)
(* only if nothing about the instruction failed.                             *)
LEMMA ReadingKeepsInv ==
  ASSUME PresenterIInv, NEW n \in narrations,
         ReadingEnds(n) \/ SpeechArrives(n) \/ SpeechFails(n)
  PROVE  PresenterIInv'
<1>1. PresenterTypeOK /\ OfAMount /\ InOrder /\ ReadOnce /\ AcknowledgedOnceOver
  BY DEF PresenterIInv
<1>2. /\ n.of \in Pairs /\ Handled(n.of) /\ acked[n.of] = 0
      /\ \A m \in narrations : m.of = n.of => m = n
  BY <1>1 DEF PresenterTypeOK, ReadOnce
<1>3. UNCHANGED <<onPage, mounts, socket, inbox, sent, drops, carriedOut, missed>>
  BY DEF ReadingEnds, SpeechArrives, SpeechFails, connection
<1>4. silent' = silent \/ silent' = silent \cup {n.of}
  BY DEF ReadingEnds, SpeechArrives, SpeechFails
<1>5. \A q : Handled(q)' <=> Handled(q)
  BY <1>2, <1>3, <1>4 DEF Handled
<1>6. InOrder'
  BY <1>1, <1>3, <1>5 DEF InOrder
<1>7. /\ \A m \in narrations' :
           \/ m \in narrations /\ m # n
           \/ m \in {Reading(n.of, "playing"), Reading(n.of, "refused")}
      /\ \/ narrations' = narrations \ {n}
         \/ narrations' = (narrations \ {n}) \cup {Reading(n.of, "playing")}
         \/ /\ narrations' = (narrations \ {n}) \cup {Reading(n.of, "refused")}
            /\ n.of \in silent'
  BY DEF ReadingEnds, SpeechArrives, SpeechFails
<1>8. \/ acked' = acked
      \/ /\ acked' = [acked EXCEPT ![n.of] = @ + 1] /\ narrations' = narrations \ {n}
         /\ n.of \notin silent /\ silent' = silent
  BY DEF ReadingEnds, SpeechArrives, SpeechFails, Acknowledge
<1>9. \A m : m \in {Reading(n.of, "playing"), Reading(n.of, "refused")} => m.of = n.of
  BY ReadingFields
<1>10. \A q \in Pairs : acked'[q] = acked[q] \/ (q = n.of /\ acked'[q] = 1)
  BY <1>1, <1>2, <1>8 DEF PresenterTypeOK
<1>11. PresenterTypeOK'
  <2>1. acked' \in [Pairs -> Nat]
    BY <1>1, <1>2, <1>8 DEF PresenterTypeOK
  <2>2. Reading(n.of, "playing") \in [of : Pairs, stage : Stages]
        /\ Reading(n.of, "refused") \in [of : Pairs, stage : Stages]
    BY <1>2, ReadingFields DEF Stages
  <2>3. narrations' \subseteq [of : Pairs, stage : Stages]
    BY <1>1, <1>7, <2>2 DEF PresenterTypeOK, Stages
  <2>4. silent' \subseteq Pairs
    BY <1>1, <1>2, <1>4 DEF PresenterTypeOK
  <2> QED BY <1>1, <1>3, <2>1, <2>3, <2>4 DEF PresenterTypeOK, Stages
<1>12. ReadOnce'
  <2>1. ASSUME NEW m \in narrations'
        PROVE  Handled(m.of)' /\ acked'[m.of] = 0
    <3>1. CASE m \in narrations /\ m # n
      <4>1. m.of # n.of /\ m.of \in Pairs /\ Handled(m.of) /\ acked[m.of] = 0
        BY <1>1, <1>2, <3>1 DEF PresenterTypeOK, ReadOnce
      <4> QED BY <1>5, <1>10, <4>1
    <3>2. CASE m \in {Reading(n.of, "playing"), Reading(n.of, "refused")} /\ m \notin narrations \ {n}
      <4>1. m.of = n.of
        BY <1>9, <3>2
      <4>2. narrations' # narrations \ {n}
        BY <3>2
      <4>3. acked' = acked
        BY <1>8, <4>2
      <4> QED BY <1>2, <1>5, <4>1, <4>3
    <3> QED BY <1>7, <3>1, <3>2
  <2>2. \A m \in narrations' : m.stage = "refused" => m.of \in silent'
    BY <1>1, <1>4, <1>7, ReadingFields DEF ReadOnce
  <2>3. \A l, m \in narrations' : l.of = m.of => l = m
    BY <1>1, <1>2, <1>7, <1>9 DEF ReadOnce
  <2> QED BY <2>1, <2>2, <2>3 DEF ReadOnce, Handled
<1>13. AcknowledgedOnceOver'
  <2> SUFFICES ASSUME NEW q \in Pairs, acked'[q] > 0
               PROVE  /\ acked'[q] = 1 /\ q[1] <= mounts'
                      /\ q \in carriedOut' \cup missed' /\ q \notin silent'
                      /\ \A m \in narrations' : m.of # q
    BY DEF AcknowledgedOnceOver
  <2>1. CASE acked'[q] = acked[q]
    <3>1. /\ acked[q] = 1 /\ q[1] <= mounts
          /\ q \in carriedOut \cup missed /\ q \notin silent
          /\ \A m \in narrations : m.of # q
      BY <1>1, <2>1 DEF AcknowledgedOnceOver
    <3>2. q # n.of
      BY <3>1
    <3> QED BY <1>3, <1>4, <1>7, <1>9, <2>1, <3>1, <3>2
  <2>2. CASE acked'[q] # acked[q]
    <3>1. q = n.of /\ acked'[q] = 1 /\ narrations' = narrations \ {n}
          /\ n.of \notin silent /\ silent' = silent
      BY <1>8, <1>10, <2>2
    <3>2. n.of \in carriedOut \cup missed
      BY <1>2, <3>1 DEF Handled
    <3>3. n.of[1] <= mounts
      BY <1>1, <1>2, PairParts DEF OfAMount
    <3> QED BY <1>2, <1>3, <3>1, <3>2, <3>3
  <2> QED BY <2>1, <2>2
<1>14. OfAMount'
  BY <1>1, <1>3, <1>5 DEF OfAMount
<1> QED BY <1>6, <1>11, <1>12, <1>13, <1>14 DEF PresenterIInv

LEMMA PresenterInitInv == PresenterInit => PresenterIInv
<1> SUFFICES ASSUME PresenterInit PROVE PresenterIInv
  OBVIOUS
<1>1. PresenterTypeOK
  <2>1. onPage \in BOOLEAN
    BY Zenon DEF PresenterInit
  <2>2. mounts \in 0..MaxMounts /\ sent \in 0..Instructions /\ drops \in 0..MaxDrops
    BY PresenterAssumption DEF PresenterInit
  <2>3. /\ inbox \in [Sockets -> Seq(Ids)]
        /\ socket \in [Sockets -> {"none", "token", "connected", "down"}]
    BY DEF PresenterInit
  <2>4. /\ acked \in [Pairs -> Nat] /\ narrations = {}
        /\ carriedOut = {} /\ missed = {} /\ silent = {}
    BY DEF PresenterInit
  <2> QED BY <2>1, <2>2, <2>3, <2>4 DEF PresenterTypeOK
<1>2. \A s \in Sockets : inbox[s] = <<>> /\ Len(inbox[s]) = 0
  BY DEF PresenterInit
<1>3. InOrder
  BY <1>2 DEF PresenterInit, InOrder, Handled
<1>4. ReadOnce /\ AcknowledgedOnceOver
  BY DEF PresenterInit, ReadOnce, AcknowledgedOnceOver
<1>5. OfAMount
  BY DEF PresenterInit, OfAMount, Handled
<1> QED BY <1>1, <1>3, <1>4, <1>5 DEF PresenterIInv

LEMMA PresenterNextInv == PresenterIInv /\ [PresenterNext]_presenterVars => PresenterIInv'
<1> SUFFICES ASSUME PresenterIInv, [PresenterNext]_presenterVars PROVE PresenterIInv'
  OBVIOUS
<1> QED BY ConnectionKeepsInv, OnDashboardKeepsInv, ReadingKeepsInv DEF PresenterNext

(* Dashboard.jsx:1653-1670.  For any instructions, mounts and broken         *)
(* connections: each socket of a page acknowledges an instruction at most    *)
(* once, when its handler has ended without throwing, found or not what it   *)
(* looked for, and it was read to the end; there is one socket to a mount,   *)
(* so that a page acknowledges no more often than it mounted the dashboard.  *)
THEOREM AcknowledgedOnceOverAlways == PresenterSpec => []AcknowledgedOnceOver
<1>1. PresenterIInv => AcknowledgedOnceOver
  BY DEF PresenterIInv
<1> QED BY <1>1, PresenterInitInv, PresenterNextInv, PTL DEF PresenterSpec

(* Sockets, their instructions and what is being read keep their types.      *)
THEOREM PresenterTypeOKAlways == PresenterSpec => []PresenterTypeOK
<1>1. PresenterIInv => PresenterTypeOK
  BY DEF PresenterIInv
<1> QED BY <1>1, PresenterInitInv, PresenterNextInv, PTL DEF PresenterSpec

-----------------------------------------------------------------------------
(* A query of SQL Lab.  QueryInv is inductive, for any number of statements, *)
(* any kinds of engines and any number of lost executions: the execution,    *)
(* requests to stop the query, and what reaches the page, each keep it.      *)

(* All of the variables are scalars, but for the answer to a poll and the    *)
(* requests for the results.                                                 *)
LEMMA PollTypes ==
  /\ NoAnswer \in [status : QueryStatus, key : BOOLEAN, back : BOOLEAN]
  /\ NoAnswer.status = "absent" /\ NoAnswer.key = FALSE /\ NoAnswer.back = FALSE
  /\ NoFetch \in [BOOLEAN -> Nat] /\ \A stopped \in BOOLEAN : NoFetch[stopped] = 0
BY DEF NoAnswer, QueryStatus, NoFetch

-----------------------------------------------------------------------------
(* The execution, from the request that creates the row to its last commit.  *)
LEMMA ExecuteKeepsInv ==
  ASSUME QueryInv, Execute
  PROVE  QueryInv'
<1> USE QueryAssumption, PollTypes
    DEF QueryInv, TypeOK, NobodyLeftRunning, AtMostOneMoreStatement, ShownResultsExist,
        Untouched, LateWhenStopped, SuccessIsTheEnd, config, row, worker, browser,
        QueryStatus, QueryState, Executing
<1>1. CASE save_new_query
  BY <1>1 DEF save_new_query
<1>2. CASE RunsOnWorker
  BY <1>2 DEF RunsOnWorker, Hand
<1>3. CASE RunsAtOnce
  BY <1>3 DEF RunsAtOnce, Hand
<1>4. CASE CannotRun
  BY <1>4 DEF CannotRun, Hand
<1>5. CASE Abandon
  BY <1>5 DEF Abandon, Answer
<1>6. CASE SetRunning
  BY <1>6 DEF SetRunning
<1>7. CASE Connect
  BY <1>7 DEF Connect
<1>8. CASE ConnectRaises
  BY <1>8 DEF ConnectRaises, Go
<1>9. CASE CheckIfStopped
  BY <1>9 DEF CheckIfStopped, Done, Answer
<1>10. CASE StartStatement
  BY <1>10 DEF StartStatement
<1>11. CASE EndStatement
  BY <1>11 DEF EndStatement
<1>12. CASE StatementRaises
  BY <1>12 DEF StatementRaises, Go
<1>13. CASE SoftTimeLimit
  BY <1>13 DEF SoftTimeLimit, Go
<1>14. CASE StoppedOrError
  BY <1>14 DEF StoppedOrError, Done, Answer
<1>15. CASE handle_query_error
  BY <1>15 DEF handle_query_error
<1>16. CASE LoopEnds
  BY <1>16 DEF LoopEnds, Go
<1>17. CASE StoreResults
  BY <1>17 DEF StoreResults, Go
<1>18. CASE StoreRaises
  BY <1>18 DEF StoreRaises, Go
<1>19. CASE CommitSuccess
  BY <1>19 DEF CommitSuccess, Done, Answer
<1> QED BY <1>1, <1>2, <1>3, <1>4, <1>5, <1>6, <1>7, <1>8, <1>9, <1>10, <1>11, <1>12,
     <1>13, <1>14, <1>15, <1>16, <1>17, <1>18, <1>19 DEF Execute

LEMMA LossKeepsInv ==
  ASSUME QueryInv, WorkerLost
  PROVE  QueryInv'
BY QueryAssumption, PollTypes
   DEF QueryInv, TypeOK, NobodyLeftRunning, AtMostOneMoreStatement, ShownResultsExist,
       Untouched, LateWhenStopped, SuccessIsTheEnd, config, row, worker, browser,
       QueryStatus, QueryState, Executing, WorkerLost, Done, Answer

-----------------------------------------------------------------------------
LEMMA StopKeepsInv ==
  ASSUME QueryInv, postStopQuery \/ Stop
  PROVE  QueryInv'
<1> USE QueryAssumption, PollTypes
    DEF QueryInv, TypeOK, NobodyLeftRunning, AtMostOneMoreStatement, ShownResultsExist,
        Untouched, LateWhenStopped, SuccessIsTheEnd, config, row, worker, browser,
        QueryStatus, QueryState, Executing
<1>1. CASE postStopQuery
  BY <1>1 DEF postStopQuery
<1>2. CASE stop_query
  BY <1>2 DEF stop_query
<1>3. CASE cancel_query
  BY <1>3 DEF cancel_query
<1>4. CASE CommitStopped
  BY <1>4 DEF CommitStopped
<1>5. CASE StopReturns
  <2>1. /\ UNCHANGED <<config, row, worker, post, poll, fetch, resultsKey, cleaned>>
        /\ stop' = "none" /\ state # "none"
    BY <1>5 DEF StopReturns
  <2>2. CASE stop = "ok"
    <3>1. state' = "stopped" /\ results' = FALSE
      BY <1>5, <2>2 DEF StopReturns
    <3>2. results' \in BOOLEAN /\ ~results'
      BY <3>1
    <3>3. TypeOK'
      BY <2>1, <3>1, <3>2
    <3>4. NobodyLeftRunning' /\ AtMostOneMoreStatement' /\ ShownResultsExist'
      BY <2>1, <3>1, <3>2
    <3>5. Untouched' /\ LateWhenStopped' /\ SuccessIsTheEnd'
      BY <2>1, <3>1, <3>2
    <3> QED BY <3>3, <3>4, <3>5
  <2>3. CASE stop # "ok"
    <3>1. UNCHANGED <<state, results>>
      BY <1>5, <2>3 DEF StopReturns
    <3> QED BY <2>1, <3>1
  <2> QED BY <2>2, <2>3
<1> QED BY <1>1, <1>2, <1>3, <1>4, <1>5 DEF Stop

-----------------------------------------------------------------------------
(* What the entry becomes when the page learns a state, and whether there is *)
(* a result: it asks for one only if it knows of it.                         *)
LEMMA BecomesKnown ==
  ASSUME NEW to, NEW key \in BOOLEAN, NEW pending \in [BOOLEAN -> Nat],
         Becomes(to, key, pending)
  PROVE  /\ state' \in {to, "fetching"} /\ resultsKey' = key
         /\ fetch' \in [BOOLEAN -> Nat]
         /\ (\E stopped \in BOOLEAN : fetch'[stopped] > 0)
              => key \/ \E stopped \in BOOLEAN : pending[stopped] > 0
<1>1. CASE key /\ ~resultsKey
  <2> DEFINE asked == to = "stopped"
  <2>1. asked \in BOOLEAN
    OBVIOUS
  <2>2. state' = "fetching" /\ resultsKey' = key /\ fetch' = [pending EXCEPT ![asked] = @ + 1]
    BY <1>1 DEF Becomes
  <2> HIDE DEF asked
  <2> QED BY <1>1, <2>1, <2>2
<1>2. CASE ~(key /\ ~resultsKey)
  BY <1>2 DEF Becomes
<1> QED BY <1>1, <1>2

(* One request for the results less under way. *)
LEMMA OneFetchLess ==
  ASSUME fetch \in [BOOLEAN -> Nat], NEW stopped \in BOOLEAN, fetch[stopped] > 0
  PROVE  [fetch EXCEPT ![stopped] = @ - 1] \in [BOOLEAN -> Nat]
OBVIOUS

LEMMA ClearKnown ==
  ASSUME QueryInv, clearInactiveQueries
  PROVE  /\ state' \in {state, "gone", "success"} /\ UNCHANGED fetch
         /\ state' = "success" => state = "success" \/ results
         /\ state = "none" => state' = "none"
         /\ resultsKey' \in BOOLEAN /\ (resultsKey' => resultsKey)
         /\ results' \in BOOLEAN /\ (results' => results)
<1>1. resultsKey \in BOOLEAN /\ results \in BOOLEAN /\ (state = "none" => ~results)
  BY DEF QueryInv, TypeOK, Untouched
<1>2. CASE /\ state \in {"pending", "running"} /\ state' = "gone"
           /\ resultsKey' = FALSE /\ results' = FALSE /\ UNCHANGED fetch
  BY <1>2
<1>3. CASE /\ state' = IF resultsKey /\ results THEN "success" ELSE state
           /\ UNCHANGED <<resultsKey, results>> /\ UNCHANGED fetch
  <2>1. CASE resultsKey /\ results
    BY <1>1, <1>3, <2>1
  <2>2. CASE ~(resultsKey /\ results)
    BY <1>1, <1>3, <2>2
  <2> QED BY <2>1, <2>2
<1> QED BY <1>2, <1>3 DEF clearInactiveQueries

LEMMA PageKeepsInv ==
  ASSUME QueryInv,
         startQuery \/ Return \/ RunLost \/ get_updated_since \/ PollFails \/ CleanOnce
  PROVE  QueryInv'
<1> USE QueryAssumption, PollTypes
    DEF QueryInv, TypeOK, NobodyLeftRunning, AtMostOneMoreStatement, ShownResultsExist,
        Untouched, LateWhenStopped, SuccessIsTheEnd, config, row, worker, browser,
        QueryStatus, QueryState, Executing
<1>1. CASE startQuery
  BY <1>1 DEF startQuery
<1>2. CASE RunReturns
  <2>1. /\ UNCHANGED <<config, row, worker, stop, poll, cleaned>>
        /\ post \in {"ok", "stopped", "failed"} /\ post' = "returned"
        /\ state # "none"
    BY <1>2 DEF RunReturns
  <2>2. CASE post = "failed"
    <3>1. state' = "failed" /\ UNCHANGED <<resultsKey, results, fetch>>
      BY <1>2, <2>2 DEF RunReturns
    <3> QED BY <2>1, <2>2, <3>1
  <2>3. CASE post = "ok" /\ ~runAsync
    <3>1. Becomes("success", resultsKey \/ store_results, fetch) /\ results' = TRUE
      BY <1>2, <2>3 DEF RunReturns
    <3>2. /\ state' \in {"success", "fetching"}
          /\ resultsKey' = (resultsKey \/ store_results) /\ fetch' \in [BOOLEAN -> Nat]
          /\ (\E stopped \in BOOLEAN : fetch'[stopped] > 0)
               => \/ resultsKey \/ store_results
                  \/ \E stopped \in BOOLEAN : fetch[stopped] > 0
      BY <3>1, BecomesKnown
    <3> QED BY <2>1, <2>3, <3>1, <3>2
  <2>4. CASE post # "failed" /\ ~(post = "ok" /\ ~runAsync)
    <3>1. UNCHANGED <<state, resultsKey, results, fetch>>
      BY <1>2, <2>4 DEF RunReturns
    <3> QED BY <2>1, <2>4, <3>1
  <2> QED BY <2>2, <2>3, <2>4
<1>3. CASE PollReturns
  <2>1. /\ UNCHANGED <<config, row, worker, stop, post, cleaned>>
        /\ poll.back /\ poll' = NoAnswer /\ poll.status \in QueryStatus /\ poll.key \in BOOLEAN
        /\ state # "none"
    BY <1>3 DEF PollReturns
  <2>2. CASE poll.status = "absent"
    <3>1. clearInactiveQueries
      BY <1>3, <2>2 DEF PollReturns
    <3> QED BY <2>1, <2>2, <3>1, ClearKnown
  <2>3. CASE poll.status # "absent" /\ state \in {"stopped", "failed"}
    <3>1. UNCHANGED <<state, resultsKey, results, fetch>>
      BY <1>3, <2>3 DEF PollReturns
    <3> QED BY <2>1, <2>3, <3>1
  <2>4. CASE poll.status # "absent" /\ state \notin {"stopped", "failed"}
    <3> DEFINE to == IF poll.status = "success" /\ state \in {"fetching", "success", "running"}
                     THEN state ELSE poll.status
    <3>1. Becomes(to, poll.key, fetch) /\ UNCHANGED results
      BY <1>3, <2>4 DEF PollReturns
    <3>2. to = state \/ to = poll.status
      OBVIOUS
    <3> HIDE DEF to
    <3>3. /\ state' \in {to, "fetching"} /\ resultsKey' = poll.key /\ fetch' \in [BOOLEAN -> Nat]
          /\ (\E stopped \in BOOLEAN : fetch'[stopped] > 0)
               => poll.key \/ \E stopped \in BOOLEAN : fetch[stopped] > 0
      BY <2>1, <3>1, BecomesKnown
    <3> QED BY <2>1, <2>4, <3>1, <3>2, <3>3
  <2> QED BY <2>2, <2>3, <2>4
<1>4. CASE FetchReturns
  <2>1. PICK stopped \in BOOLEAN :
          /\ fetch[stopped] > 0
          /\ Becomes("success", TRUE, [fetch EXCEPT ![stopped] = @ - 1])
    BY <1>4 DEF FetchReturns
  <2>2. /\ UNCHANGED <<config, row, worker, stop, post, poll, cleaned>> /\ results' = TRUE
        /\ state # "none" /\ results_key
    BY <1>4, <2>1 DEF FetchReturns
  <2>3. [fetch EXCEPT ![stopped] = @ - 1] \in [BOOLEAN -> Nat]
    BY <2>1, OneFetchLess
  <2>4. /\ state' \in {"success", "fetching"} /\ resultsKey' = TRUE
        /\ fetch' \in [BOOLEAN -> Nat]
    BY <2>1, <2>3, BecomesKnown
  <2> QED BY <2>2, <2>4
<1>5. CASE FetchFails
  <2>1. PICK stopped \in BOOLEAN :
          /\ fetch[stopped] > 0 /\ fetch' = [fetch EXCEPT ![stopped] = @ - 1]
          /\ state' = IF stopped THEN state ELSE "failed"
    BY <1>5 DEF FetchFails
  <2>2. /\ UNCHANGED <<config, row, worker, stop, post, poll, resultsKey, results, cleaned>>
        /\ state # "none" /\ results_key
    BY <1>5, <2>1 DEF FetchFails
  <2>3. fetch' \in [BOOLEAN -> Nat] /\ state' \in {state, "failed"}
    BY <2>1, OneFetchLess
  <2> QED BY <2>2, <2>3
<1>6. CASE RunLost
  BY <1>6 DEF RunLost
<1>7. CASE get_updated_since
  BY <1>7 DEF get_updated_since
<1>8. CASE PollFails
  BY <1>8 DEF PollFails
<1>9. CASE CleanOnce
  <2>1. /\ UNCHANGED <<config, row, worker, stop, post, poll>> /\ cleaned' = TRUE
        /\ clearInactiveQueries
    BY <1>9 DEF CleanOnce
  <2> QED BY <2>1, ClearKnown
<1> QED BY <1>1, <1>2, <1>3, <1>4, <1>5, <1>6, <1>7, <1>8, <1>9 DEF Return

-----------------------------------------------------------------------------
LEMMA InitInv == Init => QueryInv
<1> SUFFICES ASSUME Init PROVE QueryInv
  OBVIOUS
<1>1. left \in 0 .. Statements /\ late \in Nat /\ losses \in 0 .. MaxLosses
  BY QueryAssumption DEF Init
<1>2. TypeOK
  BY <1>1, PollTypes DEF Init, TypeOK, QueryStatus, QueryState
<1>3. /\ NobodyLeftRunning /\ AtMostOneMoreStatement /\ ShownResultsExist
      /\ Untouched /\ LateWhenStopped /\ SuccessIsTheEnd
  BY PollTypes DEF Init, NobodyLeftRunning, AtMostOneMoreStatement, ShownResultsExist,
                   Untouched, LateWhenStopped, SuccessIsTheEnd
<1> QED BY <1>2, <1>3 DEF QueryInv

LEMMA NextInv == QueryInv /\ [Next]_vars => QueryInv'
<1> SUFFICES ASSUME QueryInv, [Next]_vars PROVE QueryInv'
  OBVIOUS
<1>1. CASE UNCHANGED vars
  BY <1>1 DEF QueryInv, TypeOK, NobodyLeftRunning, AtMostOneMoreStatement,
      ShownResultsExist, Untouched, LateWhenStopped, SuccessIsTheEnd,
      vars, config, row, worker, browser
<1>2. CASE Next
  BY <1>2, ExecuteKeepsInv, LossKeepsInv, StopKeepsInv, PageKeepsInv DEF Next
<1> QED BY <1>1, <1>2

-----------------------------------------------------------------------------
(* The row, the execution, the requests and the entry keep their types.      *)
THEOREM QueryTypeOKAlways == Spec => []TypeOK
<1>1. QueryInv => TypeOK
  BY DEF QueryInv
<1> QED BY <1>1, InitInv, NextInv, PTL DEF Spec

(* sql_lab.py:435.  The row of a query whose execution is over, and was not  *)
(* killed, says neither PENDING nor RUNNING, however its requests to stop    *)
(* and its execution wrote over each other.                                  *)
THEOREM NobodyLeftRunningAlways == Spec => []NobodyLeftRunning
<1>1. QueryInv => NobodyLeftRunning
  BY DEF QueryInv
<1> QED BY <1>1, InitInv, NextInv, PTL DEF Spec

(* sql_lab.py:489.  At most one statement is started after the commit of     *)
(* STOPPED, however many the query has.                                      *)
THEOREM AtMostOneMoreStatementAlways == Spec => []AtMostOneMoreStatement
<1>1. QueryInv => AtMostOneMoreStatement
  BY DEF QueryInv
<1> QED BY <1>1, InitInv, NextInv, PTL DEF Spec

(* The page asks for results that are stored, and shows as a success only a  *)
(* query that was executed to its end, in whatever order answers reach it.   *)
THEOREM ShownResultsExistAlways == Spec => []ShownResultsExist
<1>1. QueryInv => ShownResultsExist
  BY DEF QueryInv
<1> QED BY <1>1, InitInv, NextInv, PTL DEF Spec

(* reducers/sqlLab.js.  No poll, and no request to stop it, brings a query   *)
(* back that the page shows as stopped: only the answer to its execution or  *)
(* to a fetch of its results does, or the result that the page has already.  *)
THEOREM StoppedUnlessAnsweredAlways == Spec => StoppedUnlessAnswered
<1> DEFINE ByAnswer == RunReturns \/ RunLost \/ FetchReturns \/ FetchFails
           ShownAgain == state' = "success" /\ resultsKey /\ results
<1>1. ASSUME [Next]_vars, state = "stopped", state' # "stopped"
      PROVE  ByAnswer \/ ShownAgain
  <2>1. CASE Return \/ RunLost
    <3>1. CASE PollReturns
      BY <1>1, <3>1 DEF PollReturns, clearInactiveQueries
    <3> QED BY <2>1, <3>1 DEF Return
  <2>2. CASE startQuery \/ Stop \/ postStopQuery \/ get_updated_since \/ PollFails \/ CleanOnce
    BY <1>1, <2>2 DEF startQuery, Stop, stop_query, cancel_query, CommitStopped, StopReturns,
                      postStopQuery, get_updated_since, PollFails, CleanOnce,
                      clearInactiveQueries, browser
  <2>3. CASE Execute \/ WorkerLost
    <3>1. UNCHANGED state
      BY <2>3 DEF Execute, WorkerLost, save_new_query, RunsOnWorker, RunsAtOnce, CannotRun,
           Hand, Abandon, SetRunning, Connect, ConnectRaises, CheckIfStopped, StartStatement,
           EndStatement, StatementRaises, SoftTimeLimit, StoppedOrError, handle_query_error,
           LoopEnds, StoreResults, StoreRaises, CommitSuccess, Go, browser
    <3> QED BY <1>1, <3>1
  <2>4. CASE UNCHANGED vars
    BY <1>1, <2>4 DEF vars, browser
  <2> QED BY <1>1, <2>1, <2>2, <2>3, <2>4 DEF Next
<1>2. [Next]_vars => [state = "stopped" /\ state' # "stopped"
                        => \/ RunReturns \/ RunLost \/ FetchReturns \/ FetchFails
                           \/ state' = "success" /\ resultsKey /\ results]_vars
  BY <1>1
<1> QED BY <1>2, PTL DEF Spec, StoppedUnlessAnswered

-----------------------------------------------------------------------------
(* A page runs one of its components at a time, the others keep their first  *)
(* state: the types of all of them hold together.                            *)
THEOREM PagesTypeOKAlways == MCSpec => []PagesTypeOK
<1> DEFINE AllInv == ChartsInv /\ LayoutInv /\ PresenterIInv /\ EmbeddedIInv /\ QueryInv
<1>1. MCInit => AllInv
  BY ChartsInitInv, LayoutInitInv, PresenterInitInv, EmbeddedInitInv, InitInv DEF MCInit
<1>2. AllInv /\ [MCNext]_pageVars => AllInv'
  <2> SUFFICES ASSUME AllInv, [MCNext]_pageVars PROVE AllInv'
    OBVIOUS
  <2>1. ChartsInv'
    <3>1. [ChartsNext]_chartVars
      BY DEF MCNext, Others, pageVars
    <3> QED BY <3>1, ChartsNextInv
  <2>2. LayoutInv'
    <3>1. [LayoutNext]_layoutVars
      BY DEF MCNext, Others, pageVars
    <3> QED BY <3>1, LayoutNextInv
  <2>3. PresenterIInv'
    <3>1. [PresenterNext]_presenterVars
      BY DEF MCNext, Others, pageVars
    <3> QED BY <3>1, PresenterNextInv
  <2>4. EmbeddedIInv'
    <3>1. [EmbeddedNext]_embeddedVars
      BY DEF MCNext, Others, pageVars
    <3> QED BY <3>1, EmbeddedNextInv
  <2>5. QueryInv'
    <3>1. [Next]_vars
      BY DEF MCNext, Others, pageVars
    <3> QED BY <3>1, NextInv
  <2> QED BY <2>1, <2>2, <2>3, <2>4, <2>5
<1>3. AllInv => PagesTypeOK
  BY DEF ChartsInv, LayoutInv, PresenterIInv, EmbeddedIInv, QueryInv, PagesTypeOK
<1> QED BY <1>1, <1>2, <1>3, PTL DEF MCSpec
=============================================================================
