--------------------------- MODULE ReportSchedule ---------------------------
(***************************************************************************)
(* One schedule of Alerts & Reports (superset/commands/report/execute.py): *)
(* the state machine that every execution runs on the schedule's row, the  *)
(* log rows it reads back to know how long ago something happened, and the *)
(* tasks that share both: Celery beat schedules executions, several        *)
(* workers may run them at once, a worker may die between two commits, and *)
(* a nightly task prunes the logs.                                         *)
(*                                                                         *)
(* An update commits the row (update_report_schedule) and then its log     *)
(* (create_log), which reads the row's state again: two steps.  SQLAlchemy *)
(* writes a column only if its value differs from the one the session has  *)
(* loaded, so an execution that sets the state it knows writes nothing.    *)
(*                                                                         *)
(* Time is counted in ticks of the logs' end_dttm.  Of the logs only what  *)
(* the grace period and the working timeout ask is kept, as ages, capped   *)
(* at MaxAge: beyond the longest period every age reads the same.  Whether *)
(* an error is notified again (is_in_error_grace_period) is left open, for *)
(* it changes which mails are sent and not the schedule's state.           *)
(***************************************************************************)
EXTENDS Naturals

CONSTANTS
  Tasks,           \* executions that may be under way at once
  Types,           \* types the schedule may have: "ALERT", "REPORT"
  WorkingTimeouts, \* working timeouts the schedule may have
  NoTimeout,       \* working_timeout is null
  GracePeriod,     \* grace_period
  Retention,       \* log_retention
  NoLog,           \* there is no such log
  MaxAge,          \* bound: ages are counted up to it
  MaxLosses        \* bound: executions that end without their last update

ASSUME PeriodsAssumption ==
  /\ {GracePeriod, Retention, MaxAge, MaxLosses} \subseteq Nat
  /\ WorkingTimeouts \ {NoTimeout} \subseteq 0 .. MaxAge - 1
  /\ GracePeriod <= MaxAge /\ Retention < MaxAge
  /\ NoLog \notin Nat /\ NoTimeout \notin Nat
  /\ Types \subseteq {"ALERT", "REPORT"}

VARIABLES
  type, working_timeout, last_state,  \* columns of the schedule's row
  lastSuccess,   \* age of the last log with state SUCCESS, or NoLog
  lastEntered,   \* age of the last log with state WORKING and no error, or NoLog
  pc,            \* what each execution does next
  fresh,         \* whether an execution runs ReportNotTriggeredErrorState
  loaded,        \* last_state as an execution's session has loaded it
  todo,          \* the log an execution has yet to write, and what follows it
  losses         \* executions that ended without their last update, so far

rowVars  == <<type, working_timeout, last_state>>
logVars  == <<lastSuccess, lastEntered>>
taskVars == <<pc, fresh, loaded, todo>>
vars == <<rowVars, logVars, taskVars, losses>>

ReportState == {"NOOP", "WORKING", "SUCCESS", "GRACE", "ERROR"}
Age    == 0 .. MaxAge
After  == {"idle", "query", "send", "grace"}
Labels == After \cup {"enter", "working", "timedOut", "refused", "success", "onGrace",
                     "sent", "sendError", "told", "log"}
Todo   == [error : BOOLEAN, then : After]
Nothing == [error |-> FALSE, then |-> "idle"]

-----------------------------------------------------------------------------
(* What the states ask of the logs. *)
is_in_grace_period == lastSuccess # NoLog /\ lastSuccess < GracePeriod

is_on_working_timeout ==
  /\ lastEntered # NoLog
  /\ working_timeout # NoTimeout /\ lastEntered > working_timeout

-----------------------------------------------------------------------------
Goto(t, label) == pc' = [pc EXCEPT ![t] = label]

(* A step of an execution that commits nothing. *)
Step(t, from, to) ==
  /\ pc[t] = from /\ Goto(t, to)
  /\ UNCHANGED <<rowVars, logVars, fresh, loaded, todo, losses>>

(* An execution is over; what its locals held matters no more. *)
Ends(t) ==
  /\ Goto(t, "idle")
  /\ fresh' = [fresh EXCEPT ![t] = FALSE]
  /\ loaded' = [loaded EXCEPT ![t] = "NOOP"]
  /\ todo' = [todo EXCEPT ![t] = Nothing]

(* update_report_schedule_and_log(state, error), then go on at `then': the   *)
(* commit of the row; create_log follows.                                     *)
update_report_schedule(t, from, state, error, then) ==
  /\ pc[t] = from
  /\ last_state' = IF loaded[t] = state THEN last_state ELSE state
  /\ todo' = [todo EXCEPT ![t] = [error |-> error, then |-> then]]
  /\ Goto(t, "log")
  /\ UNCHANGED <<type, working_timeout, logVars, fresh, loaded, losses>>

create_log_anyWorking(t) ==
  /\ pc[t] = "log"
  /\ lastSuccess' = IF last_state = "SUCCESS" THEN 0 ELSE lastSuccess
  /\ lastEntered' = IF last_state = "WORKING" THEN 0 ELSE lastEntered
  /\ IF todo[t].then = "idle"
     THEN Ends(t)
     ELSE /\ Goto(t, todo[t].then)
          /\ loaded' = [loaded EXCEPT ![t] = last_state]
          /\ todo' = [todo EXCEPT ![t] = Nothing]
          /\ UNCHANGED fresh
  /\ UNCHANGED <<rowVars, losses>>

(* create_log: the row is read again, and so are its attributes after the    *)
(* commit of the log.                                                        *)
create_log(t) ==
  /\ pc[t] = "log"
  /\ lastSuccess' = IF last_state = "SUCCESS" THEN 0 ELSE lastSuccess
  /\ lastEntered' = IF last_state = "WORKING" /\ ~todo[t].error THEN 0 ELSE lastEntered
  /\ IF todo[t].then = "idle"
     THEN Ends(t)
     ELSE /\ Goto(t, todo[t].then)
          /\ loaded' = [loaded EXCEPT ![t] = last_state]
          /\ todo' = [todo EXCEPT ![t] = Nothing]
          /\ UNCHANGED fresh
  /\ UNCHANGED <<rowVars, losses>>

-----------------------------------------------------------------------------
(* A worker takes up an execution that Celery beat has scheduled: validate   *)
(* loads the row, and the state machine chooses the class by what it loaded. *)
(* A report that last succeeded sends at once.                               *)
Load(t) ==
  /\ pc[t] = "idle"
  /\ loaded' = [loaded EXCEPT ![t] = last_state]
  /\ fresh' = [fresh EXCEPT ![t] = last_state \in {"NOOP", "ERROR"}]
  /\ Goto(t, CASE last_state = "WORKING" -> "working"
               [] last_state \in {"NOOP", "ERROR"} -> "enter"
               [] OTHER -> IF type = "ALERT" THEN "success" ELSE "send")
  /\ UNCHANGED <<rowVars, logVars, todo, losses>>

(* ReportWorkingState.next *)
Working(t) ==
  Step(t, "working", IF is_on_working_timeout THEN "timedOut" ELSE "refused")

TimedOut(t) == update_report_schedule(t, "timedOut", "ERROR", TRUE, "idle")
Refused(t)  == update_report_schedule(t, "refused", "WORKING", TRUE, "idle")

(* ReportSuccessState.next of an alert *)
Success(t) ==
  Step(t, "success", IF is_in_grace_period THEN "onGrace" ELSE "enter")

OnGrace(t) == update_report_schedule(t, "onGrace", "GRACE", TRUE, "idle")

(* An alert runs its query first, a report sends. *)
Enter(t) ==
  update_report_schedule(t, "enter", "WORKING", FALSE,
                         IF type = "ALERT" THEN "query" ELSE "send")

(* AlertCommand.run: triggered, not triggered, or an exception *)
Triggered(t)    == Step(t, "query", "send")
NotTriggered(t) == update_report_schedule(t, "query", "NOOP", FALSE, "idle")

QueryFails(t) ==
  \/ fresh[t] /\ update_report_schedule(t, "query", "ERROR", TRUE, "grace")
  \/ ~fresh[t] /\ Step(t, "query", "sendError")

(* send() *)
Send(t)      == Step(t, "send", "sent")
Sent(t)      == update_report_schedule(t, "sent", "SUCCESS", FALSE, "idle")
SendFails_uncaught(t) ==
  pc[t] = "send" /\ Ends(t) /\ UNCHANGED <<rowVars, logVars, losses>>

SendFails(t) == update_report_schedule(t, "send", "ERROR", TRUE,
                                       IF fresh[t] THEN "grace" ELSE "idle")

(* is_in_error_grace_period: ReportNotTriggeredErrorState notifies its error *)
(* unless it did so lately.                                                   *)
ErrorGrace(t) ==
  /\ pc[t] = "grace"
  /\ \/ Ends(t)
     \/ Goto(t, "sendError") /\ UNCHANGED <<fresh, loaded, todo>>
  /\ UNCHANGED <<rowVars, logVars, losses>>

(* send_error() *)
SendError(t) == Step(t, "sendError", "told")
Told(t) == update_report_schedule(t, "told", "ERROR", TRUE, "idle")

SendErrorFails(t) ==
  fresh[t] /\ update_report_schedule(t, "sendError", "ERROR", TRUE, "idle")

(* In ReportSuccessState.next the exception of send_error ends the execution *)
(* before its update: the schedule stays WORKING.                            *)
SendErrorEscapes(t) ==
  /\ pc[t] = "sendError" /\ ~fresh[t] /\ losses < MaxLosses
  /\ Ends(t)
  /\ losses' = losses + 1
  /\ UNCHANGED <<rowVars, logVars>>

(* A worker is lost, or its hard time limit kills it. *)
WorkerLost(t) ==
  /\ pc[t] # "idle" /\ losses < MaxLosses
  /\ Ends(t)
  /\ losses' = losses + 1
  /\ UNCHANGED <<rowVars, logVars>>

-----------------------------------------------------------------------------
Older(a) == IF a = NoLog \/ a = MaxAge THEN a ELSE a + 1

Tick ==
  /\ lastSuccess' = Older(lastSuccess)
  /\ lastEntered' = Older(lastEntered)
  /\ UNCHANGED <<rowVars, taskVars, losses>>

(* AsyncPruneReportScheduleLogCommand *)
Kept(a) == IF a # NoLog /\ a > Retention THEN NoLog ELSE a

prune_log ==
  /\ lastSuccess' = Kept(lastSuccess)
  /\ lastEntered' = Kept(lastEntered)
  /\ UNCHANGED <<rowVars, taskVars, losses>>

(* UpdateReportScheduleCommand.validate: a user deactivates a working        *)
(* schedule, to activate it again later.                                     *)
Deactivate ==
  /\ last_state = "WORKING"
  /\ last_state' = "NOOP"
  /\ UNCHANGED <<type, working_timeout, logVars, taskVars, losses>>

-----------------------------------------------------------------------------
Init ==
  /\ type \in Types /\ working_timeout \in WorkingTimeouts
  /\ last_state = "NOOP"
  /\ lastSuccess = NoLog /\ lastEntered = NoLog
  /\ pc = [t \in Tasks |-> "idle"]
  /\ fresh = [t \in Tasks |-> FALSE]
  /\ loaded = [t \in Tasks |-> "NOOP"]
  /\ todo = [t \in Tasks |-> Nothing]
  /\ losses = 0

Execute(t) ==
  \/ Load(t) \/ Working(t) \/ TimedOut(t) \/ Refused(t) \/ Success(t) \/ OnGrace(t)
  \/ Enter(t) \/ Triggered(t) \/ NotTriggered(t) \/ QueryFails(t)
  \/ Send(t) \/ Sent(t) \/ SendFails(t) \/ ErrorGrace(t)
  \/ SendError(t) \/ Told(t) \/ SendErrorFails(t) \/ SendErrorEscapes(t)
  \/ create_log(t)

Next ==
  \/ \E t \in Tasks : Execute(t) \/ WorkerLost(t)
  \/ Tick \/ prune_log \/ Deactivate

Spec == Init /\ [][Next]_vars

(* Beat keeps scheduling, workers go on with what they have started, and     *)
(* time passes.                                                              *)
Fairness == WF_vars(Tick) /\ \A t \in Tasks : WF_vars(Execute(t))

FairSpec == Spec /\ Fairness

-----------------------------------------------------------------------------
TypeOK ==
  /\ type \in Types /\ working_timeout \in WorkingTimeouts
  /\ last_state \in ReportState
  /\ {lastSuccess, lastEntered} \subseteq Age \cup {NoLog}
  /\ pc \in [Tasks -> Labels]
  /\ fresh \in [Tasks -> BOOLEAN]
  /\ loaded \in [Tasks -> ReportState]
  /\ todo \in [Tasks -> Todo]
  /\ losses \in 0 .. MaxLosses

(* As long as no execution was cut short, a schedule in state WORKING has an *)
(* execution under way: whatever two executions write over each other, the   *)
(* last one to enter WORKING also leaves it.                                 *)
NeverLeftWorking ==
  last_state = "WORKING" /\ losses = 0 => \E t \in Tasks : pc[t] # "idle"

(* What makes it so: an execution whose own update will leave WORKING, since *)
(* it is about to read the row again, or has read WORKING; and an execution  *)
(* that is refused has read WORKING, so that its update writes nothing.      *)
WillLeave(t) ==
  \/ pc[t] = "log" /\ todo[t].then \in {"query", "send"}
  \/ pc[t] \in {"query", "send", "sent", "sendError", "told"} /\ loaded[t] = "WORKING"

WorkingIsOwned ==
  last_state = "WORKING" /\ losses = 0 => \E t \in Tasks : WillLeave(t)

RefusedReadWorking ==
  \A t \in Tasks : pc[t] \in {"working", "refused"} => loaded[t] = "WORKING"

ScheduleInv == TypeOK /\ WorkingIsOwned /\ RefusedReadWorking

(* schemas.py:89: "If an alert is staled at a working state, how long until  *)
(* it's state is reset to error".  A schedule that is WORKING, with the log  *)
(* that dates it, does not stay so, whichever worker was lost: unless its    *)
(* working_timeout is null, when nothing resets it.                          *)
WorkingEnds ==
  last_state = "WORKING" /\ lastEntered # NoLog /\ working_timeout # NoTimeout
    ~> last_state # "WORKING" \/ lastEntered = NoLog
=============================================================================
