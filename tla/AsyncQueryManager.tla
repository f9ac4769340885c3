-------------------------- MODULE AsyncQueryManager --------------------------
(***************************************************************************)
(* The producers of the pipeline: a web worker that turns a chart request  *)
(* into a job (superset/async_events/async_query_manager.py) and the       *)
(* Celery workers that run the job's query and publish its outcome         *)
(* (superset/tasks/async_queries.py; the two tasks of that file differ in  *)
(* the query they run and not in what they publish).                       *)
(*                                                                         *)
(* An outcome is published with two commands, first on the stream of the   *)
(* job's channel and then on the firehose; workers interleave, and a       *)
(* command, a query or a whole worker can fail between any two steps.      *)
(***************************************************************************)
EXTENDS RedisStreams

CONSTANTS Jobs,         \* job ids
          channelOf,    \* job -> channel id of the session that asked for it
          Full,         \* the firehose stream
          StreamLimit,  \* GLOBAL_ASYNC_QUERIES_REDIS_STREAM_LIMIT (and _FIREHOSE)
          NoId,         \* a request without last_id
          MaxEventCount,  \* MAX_EVENT_COUNT
          Workers,      \* number of worker processes
          QueryMs       \* milliseconds a query takes at least

ASSUME AsyncQueryManagerAssumption ==
  /\ StreamLimit \in Nat \ {0}
  /\ Workers \in Nat \ {0}
  /\ QueryMs \in Nat
  /\ MaxEventCount \in Nat \ {0}

VARIABLES
  task,     \* job -> where its Celery task stands
  status,   \* job -> the status its task is publishing, or published last
  streams,  \* the Redis streams
  now       \* the clock of the Redis server, in milliseconds

managerVars == <<task, status, streams, now>>

(* "scoped" and "full" name the XADD of update_job a task does next. *)
TaskStates == {"none", "queued", "running", "scoped", "full",
               "finished", "failed", "timedOut", "lost"}
Busy       == {j \in Jobs : task[j] \in {"running", "scoped", "full"}}

Payload(j) == [channel |-> channelOf[j], job |-> j, status |-> status[j]]

-----------------------------------------------------------------------------
(* init_job, and the .delay() of submit_chart_data_job or                    *)
(* submit_explore_json_job.                                                  *)
submit_job(j) ==
  /\ task[j] = "none"
  /\ task' = [task EXCEPT ![j] = "queued"]
  /\ UNCHANGED <<status, streams, now>>

(* A free worker takes the task off the queue and acknowledges it            *)
(* (task_acks_late is False), so that nobody runs it again.                  *)
StartTask(j) ==
  /\ task[j] = "queued"
  /\ Cardinality(Busy) < Workers
  /\ task' = [task EXCEPT ![j] = "running"]
  /\ UNCHANGED <<status, streams, now>>

(* The query ends: its result is in the cache, or it raised an exception.    *)
QueryEnds(j, outcome) ==
  /\ task[j] = "running"
  /\ task' = [task EXCEPT ![j] = "scoped"]
  /\ status' = [status EXCEPT ![j] = outcome]
  /\ now' = now + QueryMs
  /\ UNCHANGED streams

(* XADD of the job's payload, with approximate trimming, at a clock reading  *)
(* of this millisecond or the next.                                          *)
Add(k, j) ==
  \E t \in {now, now + 1} :
    /\ now' = t
    /\ \E trimmed \in Trims(XAdd(streams[k], t, Payload(j)), StreamLimit) :
         streams' = [streams EXCEPT ![k] = trimmed]

(* Variants of update_job: one publishes on the firehose first, one on the *)
(* channel only.                                                            *)
AddScoped_fullFirst(j) ==
  /\ task[j] = "scoped"
  /\ Add(Full, j)
  /\ task' = [task EXCEPT ![j] = "full"]
  /\ UNCHANGED status

AddScoped_only(j) ==
  /\ task[j] = "scoped"
  /\ Add(channelOf[j], j)
  /\ task' = [task EXCEPT ![j] = IF status[j] = "done" THEN "finished" ELSE "failed"]
  /\ UNCHANGED status

(* update_job. *)
AddScoped(j) ==
  /\ task[j] = "scoped"
  /\ Add(channelOf[j], j)
  /\ task' = [task EXCEPT ![j] = "full"]
  /\ UNCHANGED status

AddFull(j) ==
  /\ task[j] = "full"
  /\ Add(Full, j)
  /\ task' = [task EXCEPT ![j] = IF status[j] = "done" THEN "finished" ELSE "failed"]
  /\ UNCHANGED status

(* A command of update_job raises, with or without having been executed.     *)
(* While the task publishes its success this is one more exception of the    *)
(* query, answered with an error event; in the handler it ends the task.     *)
AddFails(j) ==
  /\ task[j] \in {"scoped", "full"}
  /\ \/ UNCHANGED <<streams, now>>
     \/ Add(IF task[j] = "scoped" THEN channelOf[j] ELSE Full, j)
  /\ task' = [task EXCEPT ![j] = IF status[j] = "done" THEN "scoped" ELSE "failed"]
  /\ status' = [status EXCEPT ![j] = "error"]

(* SoftTimeLimitExceeded is raised at some point of the task; it is re-raised *)
(* and no event is published.                                                 *)
SoftTimeLimit(j) ==
  /\ j \in Busy
  /\ task' = [task EXCEPT ![j] = "timedOut"]
  /\ UNCHANGED <<status, streams, now>>

(* The worker process dies. *)
WorkerLost(j) ==
  /\ j \in Busy
  /\ task' = [task EXCEPT ![j] = "lost"]
  /\ UNCHANGED <<status, streams, now>>

-----------------------------------------------------------------------------
(* The REST API (async_events/api.py) that polling clients read.  increment_id *)
(* adds one to the last decimal digit of the ID, not to its sequence number:   *)
(* after 9 it writes "10" in place of the digit.                               *)
increment_id(id) ==
  <<id[1], IF id[2] % 10 = 9 THEN (id[2] \div 10) * 100 + 10 ELSE id[2] + 1>>

read_events(channel, lastId) ==
  LET n == Len(streams[channel].entries)
      first == IF lastId = NoId THEN 1
               ELSE CountBelow(streams[channel], increment_id(lastId)) + 1
  IN  SubSeq(streams[channel].entries, first,
             IF n < first + MaxEventCount - 1 THEN n ELSE first + MaxEventCount - 1)

-----------------------------------------------------------------------------
ManagerInit ==
  /\ task = [j \in Jobs |-> "none"]
  /\ status = [j \in Jobs |-> "none"]
  /\ streams = [k \in {channelOf[j] : j \in Jobs} \cup {Full} |-> EmptyStream]
  /\ now = 1

(* What a worker does when nothing fails. *)
Work(j) == StartTask(j) \/ QueryEnds(j, "done") \/ AddScoped(j) \/ AddFull(j)

Next == \E j \in Jobs : \/ submit_job(j) \/ Work(j) \/ QueryEnds(j, "error")
                        \/ AddFails(j) \/ SoftTimeLimit(j) \/ WorkerLost(j)

Spec == ManagerInit /\ [][Next]_managerVars

-----------------------------------------------------------------------------
Streams    == {channelOf[j] : j \in Jobs} \cup {Full}
Entries(k) == {streams[k].entries[i] : i \in 1 .. Len(streams[k].entries)}
Holds(k, event) == \E x \in Entries(k) : x.event = event
AtLimit(k) == Len(streams[k].entries) >= StreamLimit

(* What each variable holds. *)
TypeOK ==
  /\ task \in [Jobs -> TaskStates]
  /\ status \in [Jobs -> {"none", "done", "error"}]
  /\ DOMAIN streams = Streams
  /\ \A k \in Streams : \A x \in Entries(k) : x.id \in Ids /\ x.event.job \in Jobs
  /\ now \in Nat

(* Whatever fails between the two commands of update_job, an event that the  *)
(* firehose announces can be read again from the stream of its channel, where *)
(* a client that was not reached looks for it (until the stream is at its    *)
(* limit and drops its oldest entries).                                      *)
FirehoseResendable ==
  \A x \in Entries(Full) :
    Holds(x.event.channel, x.event) \/ AtLimit(x.event.channel)

(* A task that ended without an exception has announced its job as done on   *)
(* both streams, for polling and for connected clients alike, and as an      *)
(* error on none, although its commands interleave with other workers'.      *)
FinishedIsAnnounced ==
  \A j \in Jobs : task[j] = "finished" =>
    \A k \in {channelOf[j], Full} :
      /\ Holds(k, Payload(j)) \/ AtLimit(k)
      /\ \A x \in Entries(k) : x.event.job = j => x.event.status = "done"
=============================================================================
