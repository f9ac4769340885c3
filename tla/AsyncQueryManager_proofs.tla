---------------------- MODULE AsyncQueryManager_proofs ----------------------
(***************************************************************************)
(* What holds of the producers for any number of jobs, channels and        *)
(* workers, streams of any length and any limit.                           *)
(*                                                                         *)
(* ManagerInv is inductive.  ScopedFirst and StatusAgrees are what makes   *)
(* the two properties of AsyncQueryManager so: the first XADD of           *)
(* update_job has been executed when the second comes, and once an error   *)
(* was published for a job its status is an error for good.                *)
(***************************************************************************)
EXTENDS AsyncQueryManager, RedisStreams_proofs

EventsOf == [channel : Streams, job : Jobs, status : {"done", "error"}]

Types ==
  /\ task \in [Jobs -> TaskStates]
  /\ status \in [Jobs -> {"none", "done", "error"}]
  /\ streams \in [Streams -> StreamsOf(EventsOf)]
  /\ now \in Nat

(* The status a task may have at each step. *)
StatusKnown ==
  \A j \in Jobs :
     /\ task[j] \in {"none", "queued", "running"} => status[j] = "none"
     /\ task[j] \in {"scoped", "full", "failed"} => status[j] # "none"
     /\ task[j] = "finished" => status[j] = "done"

StatusAgrees ==
  \A k \in Streams : \A x \in Entries(k) :
     x.event.status = "done" \/ status[x.event.job] = "error"

Kept(k, event) == Holds(k, event) \/ AtLimit(k)

ScopedFirst ==
  \A j \in Jobs :
     /\ task[j] \in {"full", "finished"} => Kept(channelOf[j], Payload(j))
     /\ task[j] = "finished" => Kept(Full, Payload(j))

ManagerInv == Types /\ StatusKnown /\ StatusAgrees /\ ScopedFirst /\ FirehoseResendable

-----------------------------------------------------------------------------
LEMMA ChannelsAreStreams == Full \in Streams /\ \A j \in Jobs : channelOf[j] \in Streams
BY DEF Streams

(* XADD on stream k: what was kept is kept, the new event too, and no other  *)
(* event appears.                                                            *)
LEMMA AddKeeps ==
  ASSUME Types, NEW k \in Streams, NEW j \in Jobs, NEW p \in EventsOf, p = Payload(j), Add(k, j)
  PROVE  /\ streams' \in [Streams -> StreamsOf(EventsOf)] /\ now' \in Nat
         /\ \A l \in Streams : \A event : Kept(l, event) => Kept(l, event)'
         /\ Kept(k, p)'
         /\ \A l \in Streams : \A x \in Entries(l)' : x \in Entries(l) \/ x.event = p
<1>1. PICK t \in {now, now + 1} :
         \E trimmed \in Trims(XAdd(streams[k], t, p), StreamLimit) :
           now' = t /\ streams' = [streams EXCEPT ![k] = trimmed]
  BY DEF Add
<1>0. PICK trimmed \in Trims(XAdd(streams[k], t, p), StreamLimit) :
         now' = t /\ streams' = [streams EXCEPT ![k] = trimmed]
  BY <1>1
<1> DEFINE old   == streams[k]
           added == XAdd(old, t, p)
           x     == NewEntry(old, t, p)
<1>2. t \in Nat /\ old \in StreamsOf(EventsOf)
  BY DEF Types
<1>3. StreamLimit \in Nat \ {0} /\ trimmed \in Trims(XAdd(old, t, p), StreamLimit)
  BY <1>0, AsyncQueryManagerAssumption
<1> HIDE DEF old
<1>4. /\ trimmed \in StreamsOf(EventsOf)
      /\ EntriesIn(trimmed.entries) \subseteq EntriesIn(old.entries) \cup {x}
      /\ trimmed.entries = added.entries \/ Len(trimmed.entries) >= StreamLimit
  BY <1>2, <1>3, TrimmedAdd
<1>16. /\ EntriesIn(added.entries) = EntriesIn(old.entries) \cup {x}
       /\ Len(added.entries) = Len(old.entries) + 1
  BY <1>2, AddedEntries
<1>5. streams'[k] = trimmed /\ \A l \in Streams : l # k => streams'[l] = streams[l]
  BY <1>0 DEF Types
<1>6. streams' \in [Streams -> StreamsOf(EventsOf)] /\ now' \in Nat
  BY <1>0, <1>2, <1>4 DEF Types
<1>7. \A l \in Streams : Entries(l) = EntriesIn(streams[l].entries)
  BY DEF Entries, EntriesIn
<1>8. \A l \in Streams : Entries(l)' = EntriesIn(streams'[l].entries)
  BY DEF Entries, EntriesIn
<1>9. x.event = p
  BY DEF NewEntry
<1>10. Len(old.entries) \in Nat /\ Len(trimmed.entries) \in Nat /\ StreamLimit \in Nat
  BY <1>2, <1>4, StreamParts, AsyncQueryManagerAssumption
<1> HIDE DEF added, x
<1>11. AtLimit(k)' \/ Entries(k)' = Entries(k) \cup {x}
  <2>1. CASE trimmed.entries = added.entries
    BY <1>5, <1>7, <1>8, <1>16, <2>1 DEF old
  <2>2. CASE Len(trimmed.entries) >= StreamLimit
    BY <1>5, <2>2 DEF AtLimit
  <2> QED BY <1>4, <2>1, <2>2
<1>12. AtLimit(k) => AtLimit(k)'
  <2> SUFFICES ASSUME AtLimit(k) PROVE AtLimit(k)'
    OBVIOUS
  <2>1. Len(old.entries) >= StreamLimit
    BY DEF AtLimit, old
  <2>2. Len(trimmed.entries) >= StreamLimit
    BY <1>4, <1>10, <1>16, <2>1
  <2> QED BY <1>5, <2>2 DEF AtLimit
<1>13. ASSUME NEW l \in Streams, NEW event, Kept(l, event)
       PROVE  Kept(l, event)'
  <2>1. CASE l = k
    BY <1>11, <1>12, <1>13, <2>1 DEF Kept, Holds
  <2>2. CASE l # k
    <3>1. streams'[l] = streams[l]
      BY <1>5, <2>2
    <3> QED BY <1>7, <1>8, <1>13, <3>1 DEF Kept, Holds, AtLimit
  <2> QED BY <2>1, <2>2
<1>14. Kept(k, p)'
  BY <1>9, <1>11 DEF Kept, Holds
<1>15. ASSUME NEW l \in Streams, NEW y \in Entries(l)'
       PROVE  y \in Entries(l) \/ y.event = p
  <2>1. CASE l = k
    BY <1>4, <1>5, <1>7, <1>8, <1>9, <1>15, <2>1 DEF old
  <2>2. CASE l # k
    BY <1>5, <1>7, <1>8, <1>15, <2>2
  <2> QED BY <2>1, <2>2
<1> QED BY <1>6, <1>13, <1>14, <1>15

LEMMA EntriesAreEvents ==
  ASSUME Types, NEW k \in Streams, NEW x \in Entries(k)
  PROVE  x.id \in Ids /\ x.event \in EventsOf
<1>1. streams[k] \in StreamsOf(EventsOf)
  BY DEF Types
<1> QED BY <1>1, StreamParts DEF Entries

(* A command of update_job is executed; the status of its job may become an  *)
(* error.                                                                    *)
LEMMA PublishKeeps ==
  ASSUME ManagerInv, NEW j \in Jobs, NEW k \in Streams,
         \/ task[j] = "scoped" /\ k = channelOf[j]
         \/ task[j] = "full" /\ k = Full,
         Add(k, j),
         status' = status \/ status' = [status EXCEPT ![j] = "error"]
  PROVE  /\ streams' \in [Streams -> StreamsOf(EventsOf)] /\ now' \in Nat
         /\ StatusAgrees' /\ FirehoseResendable'
         /\ \A l \in Streams : \A event : Kept(l, event) => Kept(l, event)'
         /\ \A p : p = Payload(j) => Kept(k, p)'
<1>1. PICK p : p = Payload(j)
  OBVIOUS
<1>2. /\ p.channel = channelOf[j] /\ p.job = j /\ p.status = status[j]
      /\ p \in EventsOf
  BY <1>1, ChannelsAreStreams DEF Payload, EventsOf, ManagerInv, Types, StatusKnown
<1>3. /\ streams' \in [Streams -> StreamsOf(EventsOf)] /\ now' \in Nat
      /\ \A l \in Streams : \A event : Kept(l, event) => Kept(l, event)'
      /\ Kept(k, p)'
      /\ \A l \in Streams : \A x \in Entries(l)' : x \in Entries(l) \/ x.event = p
  BY <1>1, <1>2, AddKeeps DEF ManagerInv
<1>4. \A i \in Jobs : status[i] = "error" => status'[i] = "error"
  BY DEF ManagerInv, Types
<1>5. p.status = "done" \/ status[j] = "error"
  BY <1>2 DEF EventsOf
<1>6. StatusAgrees'
  <2> SUFFICES ASSUME NEW l \in Streams, NEW x \in Entries(l)'
               PROVE  x.event.status = "done" \/ status'[x.event.job] = "error"
    BY DEF StatusAgrees
  <2>1. CASE x \in Entries(l)
    <3>1. x.event \in EventsOf
      BY <2>1, EntriesAreEvents DEF ManagerInv
    <3>2. x.event.status = "done" \/ status[x.event.job] = "error"
      BY <2>1 DEF ManagerInv, StatusAgrees
    <3> QED BY <1>4, <3>1, <3>2 DEF EventsOf
  <2>2. CASE x.event = p
    BY <1>2, <1>4, <1>5, <2>2
  <2> QED BY <1>3, <2>1, <2>2
<1>7. Kept(channelOf[j], p)'
  <2>1. CASE k = channelOf[j]
    BY <1>3, <2>1
  <2>2. CASE task[j] = "full"
    <3>1. Kept(channelOf[j], p)
      BY <1>1, <2>2 DEF ManagerInv, ScopedFirst
    <3> QED BY <1>3, <3>1, ChannelsAreStreams
  <2> QED BY <2>1, <2>2
<1>8. FirehoseResendable'
  <2> SUFFICES ASSUME NEW x \in Entries(Full)'
               PROVE  Kept(x.event.channel, x.event)'
    BY DEF FirehoseResendable, Kept
  <2>1. CASE x \in Entries(Full)
    <3>1. x.event.channel \in Streams
      BY <2>1, EntriesAreEvents, ChannelsAreStreams DEF ManagerInv, EventsOf
    <3>2. Kept(x.event.channel, x.event)
      BY <2>1 DEF ManagerInv, FirehoseResendable, Kept
    <3> QED BY <1>3, <3>1, <3>2
  <2>2. CASE x.event = p
    BY <1>2, <1>7, <2>2
  <2> QED BY <1>3, <2>1, <2>2, ChannelsAreStreams
<1> QED BY <1>1, <1>3, <1>6, <1>8

-----------------------------------------------------------------------------
(* What no entry depends on is kept by a step that publishes nothing.        *)
LEMMA StreamsUnchanged ==
  ASSUME ManagerInv, UNCHANGED streams,
         \A i \in Jobs : status[i] = "error" => status'[i] = "error"
  PROVE  /\ StatusAgrees' /\ FirehoseResendable'
         /\ \A l \in Streams : \A event : Kept(l, event) => Kept(l, event)'
<1>1. \A l \in Streams : Entries(l)' = Entries(l)
  BY DEF Entries
<1>2. \A l \in Streams : \A event : Kept(l, event)' <=> Kept(l, event)
  BY <1>1 DEF Kept, Holds, AtLimit
<1>3. StatusAgrees'
  <2> SUFFICES ASSUME NEW l \in Streams, NEW x \in Entries(l)
               PROVE  x.event.status = "done" \/ status'[x.event.job] = "error"
    BY <1>1 DEF StatusAgrees
  <2>1. x.event \in EventsOf
    BY EntriesAreEvents DEF ManagerInv
  <2> QED BY <2>1 DEF ManagerInv, StatusAgrees, EventsOf
<1>4. FirehoseResendable'
  <2> SUFFICES ASSUME NEW x \in Entries(Full)
               PROVE  Kept(x.event.channel, x.event)'
    BY <1>1, ChannelsAreStreams DEF FirehoseResendable, Kept
  <2>1. x.event.channel \in Streams
    BY EntriesAreEvents, ChannelsAreStreams DEF ManagerInv, EventsOf
  <2>2. Kept(x.event.channel, x.event)
    BY DEF ManagerInv, FirehoseResendable, Kept
  <2> QED BY <1>2, <2>1, <2>2
<1> QED BY <1>2, <1>3, <1>4

(* The other tasks keep their step, their status and what they announced; so *)
(* it is enough to look at task j.                                           *)
LEMMA OneTaskMoves ==
  ASSUME ManagerInv, NEW j \in Jobs,
         NEW to \in TaskStates, NEW s \in {"none", "done", "error"},
         task' = [task EXCEPT ![j] = to], status' = [status EXCEPT ![j] = s],
         streams' \in [Streams -> StreamsOf(EventsOf)], now' \in Nat,
         StatusAgrees' /\ FirehoseResendable',
         \A l \in Streams : \A event : Kept(l, event) => Kept(l, event)',
         to \in {"none", "queued", "running"} => s = "none",
         to \in {"scoped", "full", "failed"} => s # "none",
         to = "finished" => s = "done",
         \A p : p = Payload(j) /\ to \in {"full", "finished"}
                  => s = status[j] /\ Kept(channelOf[j], p)' /\ (to = "finished" => Kept(Full, p)')
  PROVE  ManagerInv'
<1>1. Types'
  BY DEF ManagerInv, Types
<1>2. \A i \in Jobs \ {j} : task'[i] = task[i] /\ status'[i] = status[i]
  BY DEF ManagerInv, Types
<1>3. task'[j] = to /\ status'[j] = s
  BY DEF ManagerInv, Types
<1>4. StatusKnown'
  BY <1>2, <1>3 DEF ManagerInv, StatusKnown
<1>5. ScopedFirst'
  <2> SUFFICES ASSUME NEW i \in Jobs
               PROVE  /\ task'[i] \in {"full", "finished"} => Kept(channelOf[i], Payload(i))'
                      /\ task'[i] = "finished" => Kept(Full, Payload(i))'
    BY DEF ScopedFirst
  <2>1. PICK p : p = Payload(i)
    OBVIOUS
  <2>2. CASE i = j
    <3>1. SUFFICES ASSUME to \in {"full", "finished"}
                   PROVE  /\ Kept(channelOf[i], Payload(i))'
                          /\ to = "finished" => Kept(Full, Payload(i))'
      BY <1>3, <2>2
    <3>2. Payload(i)' = p
      BY <1>3, <2>1, <2>2, <3>1 DEF Payload
    <3>3. Kept(channelOf[i], p)' /\ (to = "finished" => Kept(Full, p)')
      BY <2>1, <2>2, <3>1
    <3> QED BY <3>2, <3>3 DEF Kept, Holds
  <2>3. CASE i # j
    <3>1. Payload(i)' = p
      BY <1>2, <2>1, <2>3 DEF Payload
    <3>2. /\ task[i] \in {"full", "finished"} => Kept(channelOf[i], p)
          /\ task[i] = "finished" => Kept(Full, p)
      BY <2>1 DEF ManagerInv, ScopedFirst
    <3>3. /\ task[i] \in {"full", "finished"} => Kept(channelOf[i], p)'
          /\ task[i] = "finished" => Kept(Full, p)'
      BY <3>2, ChannelsAreStreams
    <3> QED BY <1>2, <2>3, <3>1, <3>3 DEF Kept, Holds
  <2> QED BY <2>2, <2>3
<1> QED BY <1>1, <1>4, <1>5 DEF ManagerInv

-----------------------------------------------------------------------------
(* The steps of a task that publish nothing. *)
LEMMA SilentStepKeepsInv ==
  ASSUME ManagerInv, NEW j \in Jobs,
         \/ submit_job(j) \/ StartTask(j) \/ QueryEnds(j, "done") \/ QueryEnds(j, "error")
         \/ SoftTimeLimit(j) \/ WorkerLost(j)
  PROVE  ManagerInv'
<1>1. UNCHANGED streams /\ streams' \in [Streams -> StreamsOf(EventsOf)]
  BY DEF submit_job, StartTask, QueryEnds, SoftTimeLimit, WorkerLost, ManagerInv, Types
<1>2. now' \in Nat
  BY AsyncQueryManagerAssumption
     DEF submit_job, StartTask, QueryEnds, SoftTimeLimit, WorkerLost, ManagerInv, Types
<1>3. PICK to \in {"queued", "running", "scoped", "timedOut", "lost"} :
         task' = [task EXCEPT ![j] = to]
  BY DEF submit_job, StartTask, QueryEnds, SoftTimeLimit, WorkerLost
<1>4. PICK s \in {"none", "done", "error"} :
         /\ status' = [status EXCEPT ![j] = s]
         /\ status[j] = "error" => s = "error"
         /\ to \in {"queued", "running"} => s = "none"
         /\ to = "scoped" => s # "none"
  <2>1. CASE submit_job(j) \/ StartTask(j)
    <3>1. status[j] = "none"
      BY <2>1 DEF submit_job, StartTask, ManagerInv, StatusKnown
    <3>2. status' = [status EXCEPT ![j] = "none"]
      BY <2>1, <3>1 DEF submit_job, StartTask, ManagerInv, Types
    <3>3. task'[j] # "scoped"
      BY <2>1 DEF submit_job, StartTask, ManagerInv, Types
    <3>4. to # "scoped"
      BY <1>3, <3>3 DEF ManagerInv, Types
    <3> QED BY <3>1, <3>2, <3>4
  <2>2. CASE QueryEnds(j, "done") \/ QueryEnds(j, "error")
    <3>1. status[j] = "none"
      BY <2>2 DEF QueryEnds, ManagerInv, StatusKnown
    <3>2. to = "scoped"
      <4>1. task'[j] = "scoped"
        BY <2>2 DEF QueryEnds, ManagerInv, Types
      <4> QED BY <1>3, <4>1 DEF ManagerInv, Types
    <3> QED BY <2>2, <3>1, <3>2 DEF QueryEnds
  <2>3. CASE SoftTimeLimit(j) \/ WorkerLost(j)
    <3>1. UNCHANGED status /\ status[j] \in {"none", "done", "error"}
      BY <2>3 DEF SoftTimeLimit, WorkerLost, ManagerInv, Types
    <3>2. status' = [status EXCEPT ![j] = status[j]]
      BY <3>1 DEF ManagerInv, Types
    <3>3. to \in {"timedOut", "lost"}
      <4>1. task'[j] \in {"timedOut", "lost"}
        BY <2>3 DEF SoftTimeLimit, WorkerLost, ManagerInv, Types
      <4> QED BY <1>3, <4>1 DEF ManagerInv, Types
    <3> QED BY <3>1, <3>2, <3>3
  <2> QED BY <2>1, <2>2, <2>3
<1>5. \A i \in Jobs : status[i] = "error" => status'[i] = "error"
  BY <1>4 DEF ManagerInv, Types
<1>6. /\ StatusAgrees' /\ FirehoseResendable'
      /\ \A l \in Streams : \A event : Kept(l, event) => Kept(l, event)'
  BY <1>1, <1>5, StreamsUnchanged
<1>7. to \in TaskStates
  BY DEF TaskStates
<1> QED BY <1>1, <1>2, <1>3, <1>4, <1>6, <1>7, OneTaskMoves

(* The two commands of update_job. *)
LEMMA AddScopedKeepsInv ==
  ASSUME ManagerInv, NEW j \in Jobs, AddScoped(j)
  PROVE  ManagerInv'
<1>1. task[j] = "scoped" /\ Add(channelOf[j], j) /\ UNCHANGED status
  BY DEF AddScoped
<1>2. /\ streams' \in [Streams -> StreamsOf(EventsOf)] /\ now' \in Nat
      /\ StatusAgrees' /\ FirehoseResendable'
      /\ \A l \in Streams : \A event : Kept(l, event) => Kept(l, event)'
      /\ \A p : p = Payload(j) => Kept(channelOf[j], p)'
  BY <1>1, PublishKeeps, ChannelsAreStreams
<1>3. /\ status[j] \in {"none", "done", "error"} /\ status[j] # "none"
      /\ status' = [status EXCEPT ![j] = status[j]]
  BY <1>1 DEF ManagerInv, Types, StatusKnown
<1>4. task' = [task EXCEPT ![j] = "full"] /\ "full" \in TaskStates
  BY DEF AddScoped, TaskStates
<1> QED BY <1>2, <1>3, <1>4, OneTaskMoves

LEMMA AddFullKeepsInv ==
  ASSUME ManagerInv, NEW j \in Jobs, AddFull(j)
  PROVE  ManagerInv'
<1>1. task[j] = "full" /\ Add(Full, j) /\ UNCHANGED status
  BY DEF AddFull
<1>2. /\ streams' \in [Streams -> StreamsOf(EventsOf)] /\ now' \in Nat
      /\ StatusAgrees' /\ FirehoseResendable'
      /\ \A l \in Streams : \A event : Kept(l, event) => Kept(l, event)'
      /\ \A p : p = Payload(j) => Kept(Full, p)'
  BY <1>1, PublishKeeps, ChannelsAreStreams
<1>3. /\ status[j] \in {"none", "done", "error"} /\ status[j] # "none"
      /\ status' = [status EXCEPT ![j] = status[j]]
  BY <1>1 DEF ManagerInv, Types, StatusKnown
<1>4. PICK to \in {"finished", "failed"} :
         /\ task' = [task EXCEPT ![j] = to] /\ to \in TaskStates
         /\ to = "finished" => status[j] = "done"
  BY DEF AddFull, TaskStates
<1>5. \A p : p = Payload(j) => Kept(channelOf[j], p)'
  BY <1>1, <1>2, ChannelsAreStreams DEF ManagerInv, ScopedFirst
<1> QED BY <1>2, <1>3, <1>4, <1>5, OneTaskMoves

LEMMA AddFailsKeepsInv ==
  ASSUME ManagerInv, NEW j \in Jobs, AddFails(j)
  PROVE  ManagerInv'
<1>1. /\ task[j] \in {"scoped", "full"} /\ status' = [status EXCEPT ![j] = "error"]
  BY DEF AddFails
<1>2. /\ streams' \in [Streams -> StreamsOf(EventsOf)] /\ now' \in Nat
      /\ StatusAgrees' /\ FirehoseResendable'
      /\ \A l \in Streams : \A event : Kept(l, event) => Kept(l, event)'
  <2>1. CASE UNCHANGED <<streams, now>>
    <3>1. \A i \in Jobs : status[i] = "error" => status'[i] = "error"
      BY <1>1 DEF ManagerInv, Types
    <3> QED BY <2>1, <3>1, StreamsUnchanged DEF ManagerInv, Types
  <2>2. CASE task[j] = "scoped" /\ Add(channelOf[j], j)
    BY <1>1, <2>2, PublishKeeps, ChannelsAreStreams
  <2>3. CASE task[j] = "full" /\ Add(Full, j)
    BY <1>1, <2>3, PublishKeeps, ChannelsAreStreams
  <2> QED BY <1>1, <2>1, <2>2, <2>3 DEF AddFails
<1>3. PICK to \in {"scoped", "failed"} : task' = [task EXCEPT ![j] = to] /\ to \in TaskStates
  BY DEF AddFails, TaskStates
<1> QED BY <1>1, <1>2, <1>3, OneTaskMoves

-----------------------------------------------------------------------------
LEMMA InitInv == ManagerInit => ManagerInv
<1> SUFFICES ASSUME ManagerInit PROVE ManagerInv
  OBVIOUS
<1>1. EmptyStream \in StreamsOf(EventsOf) /\ EmptyStream.entries = <<>>
  BY EmptySeq DEF EmptyStream, StreamsOf, EntriesOf, Ids
<1>2. streams = [k \in Streams |-> EmptyStream]
  BY DEF ManagerInit, Streams
<1>3. Types
  BY <1>1, <1>2 DEF ManagerInit, Types, TaskStates
<1>4. \A k \in Streams : Entries(k) = {}
  BY <1>1, <1>2 DEF Entries
<1> QED BY <1>3, <1>4, ChannelsAreStreams
        DEF ManagerInit, ManagerInv, StatusKnown, StatusAgrees, ScopedFirst, FirehoseResendable

LEMMA NextInv == ManagerInv /\ [Next]_managerVars => ManagerInv'
<1> SUFFICES ASSUME ManagerInv, [Next]_managerVars PROVE ManagerInv'
  OBVIOUS
<1>1. CASE Next
  BY <1>1, SilentStepKeepsInv, AddScopedKeepsInv, AddFullKeepsInv, AddFailsKeepsInv
     DEF Next, Work
<1>2. CASE UNCHANGED managerVars
  BY <1>2 DEF managerVars, ManagerInv, Types, StatusKnown, StatusAgrees, ScopedFirst,
              FirehoseResendable, Kept, Holds, AtLimit, Entries, Payload
<1> QED BY <1>1, <1>2

(* Tasks, statuses and streams keep their types, for any number of jobs.     *)
THEOREM ManagerTypeOKAlways == Spec => []TypeOK
<1>1. ManagerInv => TypeOK
  <2> SUFFICES ASSUME ManagerInv PROVE TypeOK
    OBVIOUS
  <2>1. \A k \in Streams : \A x \in Entries(k) : x.id \in Ids /\ x.event.job \in Jobs
    BY EntriesAreEvents DEF ManagerInv, EventsOf
  <2> QED BY <2>1 DEF ManagerInv, Types, TypeOK
<1> QED BY <1>1, InitInv, NextInv, PTL DEF Spec

(* async_query_manager.py:256-257.  Whatever fails between the two commands, *)
(* and however workers interleave, what the firehose announces can be read   *)
(* again from its channel's stream, until that one is at its limit.          *)
THEOREM FirehoseResendableAlways == Spec => []FirehoseResendable
<1>1. ManagerInv => FirehoseResendable
  BY DEF ManagerInv
<1> QED BY <1>1, InitInv, NextInv, PTL DEF Spec

(* async_queries.py.  A task that ended without an exception has announced   *)
(* success on both streams, and no error on either.                          *)
THEOREM FinishedIsAnnouncedAlways == Spec => []FinishedIsAnnounced
<1>1. ManagerInv => FinishedIsAnnounced
  <2> SUFFICES ASSUME ManagerInv, NEW j \in Jobs, task[j] = "finished",
                      NEW k \in {channelOf[j], Full}
               PROVE  /\ Holds(k, Payload(j)) \/ AtLimit(k)
                      /\ \A x \in Entries(k) : x.event.job = j => x.event.status = "done"
    BY DEF FinishedIsAnnounced
  <2>1. Holds(k, Payload(j)) \/ AtLimit(k)
    BY DEF ManagerInv, ScopedFirst, Kept
  <2>2. \A x \in Entries(k) : x.event.job = j => x.event.status = "done"
    BY ChannelsAreStreams DEF ManagerInv, StatusKnown, StatusAgrees
  <2> QED BY <2>1, <2>2
<1> QED BY <1>1, InitInv, NextInv, PTL DEF Spec
=============================================================================
