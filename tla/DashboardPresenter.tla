------------------------- MODULE DashboardPresenter -------------------------
(***************************************************************************)
(* A dashboard that is presented from elsewhere (Dashboard.jsx,            *)
(* setupSocketConnection): a server, which is not part of the repository,  *)
(* sends instructions over socket.io; the page carries each one out, reads *)
(* its explanation aloud with a subtitle, and acknowledges it with         *)
(* `finInstruccion'.                                                       *)
(*                                                                         *)
(* The dashboard opens a socket each time it is mounted, and closes none:  *)
(* each of them then carries out and acknowledges what the server sends.   *)
(* What an instruction does to the charts is in DashboardCharts.  A        *)
(* message under way when the connection breaks is lost; what the page     *)
(* sends meanwhile, socket.io keeps until it is connected again.           *)
(***************************************************************************)
EXTENDS Naturals, Sequences

CONSTANTS
  Instructions,   \* bound: the server sends 1..Instructions, in this order
  MaxMounts,      \* bound on how often the dashboard is mounted
  MaxDrops        \* bound on broken connections

ASSUME PresenterAssumption == {Instructions, MaxMounts, MaxDrops} \subseteq Nat

VARIABLES
  onPage, mounts,
  socket,      \* socket -> "none", "token", "connected" or "down"
  inbox,       \* socket -> the instructions on their way to it
  sent, drops,
  carriedOut,  \* the <<socket, instruction>> that were carried out without failing
  missed,      \* those whose chart, tab or root was not found, which is only logged
  narrations,  \* what is being read: the socket, instruction and stage
  acked,       \* <<socket, instruction>> -> how often it was acknowledged
  silent       \* the <<socket, instruction>> that will not be acknowledged

presenterVars == <<onPage, mounts, socket, inbox, sent, drops,
                   carriedOut, missed, narrations, acked, silent>>
connection == <<onPage, mounts, socket, inbox, sent, drops>>
outcome    == <<carriedOut, missed, narrations, acked, silent>>

Sockets == 1..MaxMounts
Ids     == 1..Instructions
Connected == {s \in Sockets : socket[s] = "connected"}
Pairs   == Sockets \X Ids
Reading(p, stage) == [of |-> p, stage |-> stage]
Read(p) == \E stage \in {"shown", "speech"} :
             narrations' = narrations \cup {Reading(p, stage)}

-----------------------------------------------------------------------------
componentDidMount ==
  /\ ~onPage /\ mounts < MaxMounts
  /\ onPage' = TRUE /\ mounts' = mounts + 1
  /\ socket' = [socket EXCEPT ![mounts'] = "token"]
  /\ UNCHANGED <<inbox, sent, drops, outcome>>

componentWillUnmount ==
  /\ onPage /\ onPage' = FALSE
  /\ UNCHANGED <<mounts, socket, inbox, sent, drops, outcome>>

(* The keys and the token arrive, and the socket connects; or they do not,   *)
(* and the page never connects.  A broken connection is made again; both     *)
(* times the page joins its room.                                            *)
Connects(s) ==
  /\ socket[s] \in {"token", "down"}
  /\ socket' = [socket EXCEPT ![s] = "connected"]
  /\ UNCHANGED <<onPage, mounts, inbox, sent, drops, outcome>>

NoToken(s) ==
  /\ socket[s] = "token" /\ socket' = [socket EXCEPT ![s] = "none"]
  /\ UNCHANGED <<onPage, mounts, inbox, sent, drops, outcome>>

Drop(s) ==
  /\ s \in Connected /\ drops < MaxDrops /\ drops' = drops + 1
  /\ socket' = [socket EXCEPT ![s] = "down"] /\ inbox' = [inbox EXCEPT ![s] = <<>>]
  /\ UNCHANGED <<onPage, mounts, sent, outcome>>

ServerSends ==
  /\ sent < Instructions /\ Connected # {} /\ sent' = sent + 1
  /\ inbox' = [s \in Sockets |->
                 IF s \in Connected THEN Append(inbox[s], sent') ELSE inbox[s]]
  /\ UNCHANGED <<onPage, mounts, socket, drops, outcome>>

-----------------------------------------------------------------------------
Acknowledge(p) == acked' = [acked EXCEPT ![p] = @ + 1]

(* handleSupersetMessage: what it looks for is not found once the dashboard  *)
(* was left, and need not be before.                                         *)
HandlerEnds(p) ==
  \/ onPage /\ carriedOut' = carriedOut \cup {p} /\ UNCHANGED missed
  \/ missed' = missed \cup {p} /\ UNCHANGED carriedOut

OnDashboard_acksFirst(s) ==
  /\ s \in Connected /\ inbox[s] # <<>>
  /\ inbox' = [inbox EXCEPT ![s] = Tail(@)]
  /\ LET p == <<s, Head(inbox[s])>> IN
     /\ HandlerEnds(p) /\ Acknowledge(p)
     /\ UNCHANGED narrations \/ Read(p)
  /\ UNCHANGED <<onPage, mounts, socket, sent, drops, silent>>

(* The `dashboard' event.  The handler ends at once, or throws: it resolves  *)
(* whether the instruction was carried out or what it is about was missed.   *)
(* The explanation, if there is one, is read in every case: shown for five   *)
(* seconds when the sound is off, or turned into speech.                     *)
OnDashboard(s) ==
  /\ s \in Connected /\ inbox[s] # <<>>
  /\ inbox' = [inbox EXCEPT ![s] = Tail(@)]
  /\ LET p == <<s, Head(inbox[s])>> IN
     \/ /\ HandlerEnds(p) /\ UNCHANGED silent
        /\ \/ Acknowledge(p) /\ UNCHANGED narrations
           \/ Read(p) /\ UNCHANGED acked
     \/ /\ silent' = silent \cup {p}
        /\ Read(p) \/ UNCHANGED narrations
        /\ UNCHANGED <<carriedOut, missed, acked>>
  /\ UNCHANGED <<onPage, mounts, socket, sent, drops>>

ReadingEnds_noAck(n) ==
  /\ n.stage \in {"shown", "playing"}
  /\ narrations' = narrations \ {n}
  /\ UNCHANGED <<connection, carriedOut, missed, acked, silent>>

(* The five seconds, or the sound, are over; Promise.all has both results.   *)
ReadingEnds(n) ==
  /\ n.stage \in {"shown", "playing"}
  /\ narrations' = narrations \ {n}
  /\ IF n.of \in silent THEN UNCHANGED acked ELSE Acknowledge(n.of)
  /\ UNCHANGED <<connection, carriedOut, missed, silent>>

(* TextToSpeech resolves.  audio.play may be refused: nobody looks at that,  *)
(* the sound never ends, and the subtitle stays.                             *)
SpeechArrives(n) ==
  /\ n.stage = "speech"
  /\ \/ /\ narrations' = (narrations \ {n}) \cup {Reading(n.of, "playing")}
        /\ UNCHANGED silent
     \/ /\ narrations' = (narrations \ {n}) \cup {Reading(n.of, "refused")}
        /\ silent' = silent \cup {n.of}
  /\ UNCHANGED <<connection, carriedOut, missed, acked>>

SpeechFails(n) ==
  /\ n.stage = "speech"
  /\ narrations' = narrations \ {n} /\ silent' = silent \cup {n.of}
  /\ UNCHANGED <<connection, carriedOut, missed, acked>>

-----------------------------------------------------------------------------
PresenterInit ==
  /\ onPage = FALSE /\ mounts = 0 /\ sent = 0 /\ drops = 0
  /\ socket = [s \in Sockets |-> "none"] /\ inbox = [s \in Sockets |-> <<>>]
  /\ acked = [p \in Pairs |-> 0] /\ narrations = {}
  /\ carriedOut = {} /\ missed = {} /\ silent = {}

PresenterNext ==
  \/ componentDidMount \/ componentWillUnmount \/ ServerSends
  \/ \E s \in Sockets : Connects(s) \/ NoToken(s) \/ Drop(s) \/ OnDashboard(s)
  \/ \E n \in narrations : ReadingEnds(n) \/ SpeechArrives(n) \/ SpeechFails(n)

PresenterSpec == PresenterInit /\ [][PresenterNext]_presenterVars

(* Events are delivered, and timers, requests and sounds end.                *)
PresenterFairness ==
  /\ \A s \in Sockets : WF_presenterVars(OnDashboard(s))
  /\ \A p \in Pairs, stage \in {"shown", "speech", "playing"} :
       LET n == Reading(p, stage)
       IN  WF_presenterVars(n \in narrations
                              /\ (ReadingEnds(n) \/ SpeechArrives(n) \/ SpeechFails(n)))

-----------------------------------------------------------------------------
PresenterTypeOK ==
  /\ onPage \in BOOLEAN /\ mounts \in 0..MaxMounts /\ sent \in 0..Instructions
  /\ drops \in 0..MaxDrops
  /\ socket \in [Sockets -> {"none", "token", "connected", "down"}]
  /\ inbox \in [Sockets -> Seq(Ids)]
  /\ acked \in [Pairs -> Nat]
  /\ carriedOut \subseteq Pairs /\ missed \subseteq Pairs /\ silent \subseteq Pairs
  /\ narrations \subseteq
       [of : Pairs, stage : {"shown", "speech", "playing", "refused"}]

(* Dashboard.jsx:1653-1670.  A page says `finInstruccion' for an instruction *)
(* at most once on each of its sockets, of which it has one for every time   *)
(* the dashboard was mounted (1786-1790 closes none), and only when its      *)
(* handler has ended without throwing and it was read to the end; not again  *)
(* after a broken connection.  It does not tell the server whether the       *)
(* instruction was carried out: what was not found is acknowledged too.      *)
AcknowledgedOnceOver ==
  \A p \in Pairs : acked[p] > 0 =>
     /\ acked[p] = 1 /\ p[1] <= mounts
     /\ p \in (carriedOut \cup missed) \ silent
     /\ p \notin {n.of : n \in narrations}

(* What makes it so: a socket belongs to a mount; an instruction is read     *)
(* once at a time, it is handled before it is read or acknowledged, and what *)
(* is still to come to a socket is newer than what was handled there.        *)
Handled(p) == p \in carriedOut \cup missed \cup silent

OfAMount ==
  \A s \in Sockets :
    socket[s] # "none" \/ (\E i \in Ids : Handled(<<s, i>>)) => s <= mounts

InOrder ==
  \A s \in Sockets :
    /\ \A k \in 1 .. Len(inbox[s]) : inbox[s][k] <= sent
    /\ \A k, l \in 1 .. Len(inbox[s]) : k < l => inbox[s][k] < inbox[s][l]
    /\ \A i \in Ids, k \in 1 .. Len(inbox[s]) : Handled(<<s, i>>) => i < inbox[s][k]
    /\ \A i \in Ids : Handled(<<s, i>>) => i <= sent

ReadOnce ==
  /\ \A n \in narrations : Handled(n.of) /\ acked[n.of] = 0
  /\ \A n \in narrations : n.stage = "refused" => n.of \in silent
  /\ \A m, n \in narrations : m.of = n.of => m = n

(* Dashboard.jsx:1670, 1023-1044.  An instruction that reached a page is     *)
(* acknowledged or fails without a word, unless the connection breaks; and   *)
(* a subtitle goes, unless its sound was refused.                            *)
InstructionEnds ==
  \A s \in Sockets, i \in Ids :
    LET p == <<s, i>>
        UnderWay == \E n \in narrations : n.of = p /\ n.stage # "refused"
    IN  /\ s \in Connected /\ inbox[s] # <<>> /\ Head(inbox[s]) = i
             ~> acked[p] > 0 \/ p \in silent \/ s \notin Connected
        /\ UnderWay ~> ~UnderWay
=============================================================================
