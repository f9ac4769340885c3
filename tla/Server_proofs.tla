---------------------------- MODULE Server_proofs ----------------------------
(***************************************************************************)
(* What holds of two parts of the server for every value of the constants. *)
(*                                                                         *)
(* ScheduleInv is an inductive invariant of ReportSchedule, for any number *)
(* of concurrent executions and any periods.  Most actions are of two      *)
(* kinds, a step that commits nothing and an update of the row, and one    *)
(* lemma about each kind serves them all.                                  *)
(*                                                                         *)
(* OAuth2Inv is one of OAuth2Token, for any number of requests, any        *)
(* lifetimes of tokens and any expiry of the lock: the actions of one      *)
(* request are sorted by what they do to the lock.                         *)
(***************************************************************************)
EXTENDS MCServer, TLAPS

Body == {"query", "send", "sent", "sendError", "told"}

-----------------------------------------------------------------------------
(* A step that commits nothing keeps who will leave WORKING, if it stays in  *)
(* the part of an execution that ends with an update.                        *)
LEMMA StepKeepsInv ==
  ASSUME ScheduleInv, NEW t \in Tasks, NEW from, NEW to \in Labels,
         Step(t, from, to),
         from \in Body => to \in Body,
         from # "log",
         to \in {"working", "refused"} => from = "working"
  PROVE  ScheduleInv'
<1> USE DEF Step, Goto
<1>1. TypeOK'
  BY DEF ScheduleInv, TypeOK, rowVars, logVars
<1>2. RefusedReadWorking'
  BY DEF ScheduleInv, RefusedReadWorking, TypeOK
<1>3. WorkingIsOwned'
  <2> SUFFICES ASSUME last_state = "WORKING", losses = 0
               PROVE  \E u \in Tasks : WillLeave(u)'
    BY DEF WorkingIsOwned, rowVars
  <2>1. PICK u \in Tasks : WillLeave(u)
    BY DEF ScheduleInv, WorkingIsOwned
  <2>2. WillLeave(u)'
    BY <2>1 DEF WillLeave, Body, ScheduleInv, TypeOK
  <2> QED BY <2>2
<1> QED BY <1>1, <1>2, <1>3 DEF ScheduleInv

(* An update writes WORKING only as Enter does, which will leave it again.   *)
(* Any other update that finds WORKING afterwards wrote nothing, and was not *)
(* the one that will leave it.                                               *)
LEMMA UpdateKeepsInv ==
  ASSUME ScheduleInv, NEW t \in Tasks, NEW from, NEW state \in ReportState,
         NEW error \in BOOLEAN, NEW then \in After,
         update_report_schedule(t, from, state, error, then),
         from # "log",
         state = "WORKING" => from = "refused" \/ then \in {"query", "send"}
  PROVE  ScheduleInv'
<1> USE DEF update_report_schedule, Goto
<1>1. TypeOK'
  <2>1. [error |-> error, then |-> then] \in Todo
    BY DEF Todo
  <2>2. todo' \in [Tasks -> Todo]
    BY <2>1 DEF ScheduleInv, TypeOK
  <2>3. pc' \in [Tasks -> Labels] /\ last_state' \in ReportState
    BY DEF ScheduleInv, TypeOK, Labels
  <2> QED BY <2>2, <2>3 DEF ScheduleInv, TypeOK, logVars
<1>2. RefusedReadWorking'
  BY DEF ScheduleInv, RefusedReadWorking, TypeOK
<1>3. WorkingIsOwned'
  <2> SUFFICES ASSUME last_state' = "WORKING", losses = 0
               PROVE  \E u \in Tasks : WillLeave(u)'
    BY DEF WorkingIsOwned
  <2>1. CASE then \in {"query", "send"}
    <3>1. pc'[t] = "log" /\ todo'[t].then = then
      BY DEF ScheduleInv, TypeOK
    <3> QED BY <2>1, <3>1 DEF WillLeave
  <2>2. CASE then \notin {"query", "send"}
    <3>1. last_state = "WORKING" /\ (state = "WORKING" \/ loaded[t] # "WORKING")
      BY <2>2 DEF ScheduleInv, RefusedReadWorking
    <3>2. ~WillLeave(t)
      BY <2>2, <3>1 DEF WillLeave
    <3>3. PICK u \in Tasks : WillLeave(u)
      BY <3>1 DEF ScheduleInv, WorkingIsOwned
    <3>4. u # t
      BY <3>2, <3>3
    <3>5. pc'[u] = pc[u] /\ todo'[u] = todo[u] /\ loaded'[u] = loaded[u]
      BY <3>4 DEF ScheduleInv, TypeOK
    <3>6. WillLeave(u)'
      BY <3>3, <3>5 DEF WillLeave
    <3> QED BY <3>6
  <2> QED BY <2>1, <2>2
<1> QED BY <1>1, <1>2, <1>3 DEF ScheduleInv

(* The end of an execution that would not have left WORKING. *)
LEMMA EndsKeepsInv ==
  ASSUME ScheduleInv, NEW t \in Tasks, Ends(t),
         UNCHANGED rowVars, lastSuccess' \in Age \cup {NoLog}, lastEntered' \in Age \cup {NoLog},
         losses' \in 0 .. MaxLosses,
         losses' = 0 => losses = 0 /\ ~WillLeave(t)
  PROVE  ScheduleInv'
<1> USE DEF Ends, Goto, rowVars
<1>1. TypeOK'
  <2>1. Nothing \in Todo
    BY DEF Nothing, Todo, After
  <2> QED BY <2>1 DEF ScheduleInv, TypeOK, Labels, After, ReportState
<1>2. RefusedReadWorking'
  BY DEF ScheduleInv, RefusedReadWorking, TypeOK
<1>3. WorkingIsOwned'
  <2> SUFFICES ASSUME last_state = "WORKING", losses' = 0
               PROVE  \E u \in Tasks : WillLeave(u)'
    BY DEF WorkingIsOwned
  <2>1. PICK u \in Tasks : WillLeave(u)
    BY DEF ScheduleInv, WorkingIsOwned
  <2>2. pc'[u] = pc[u] /\ todo'[u] = todo[u] /\ loaded'[u] = loaded[u]
    BY <2>1 DEF ScheduleInv, TypeOK
  <2> QED BY <2>1, <2>2 DEF WillLeave
<1> QED BY <1>1, <1>2, <1>3 DEF ScheduleInv

-----------------------------------------------------------------------------
LEMMA LoadKeepsInv ==
  ASSUME ScheduleInv, NEW t \in Tasks, Load(t)
  PROVE  ScheduleInv'
<1> USE DEF Load, Goto
<1>1. /\ pc[t] = "idle" /\ pc'[t] \in {"working", "enter", "success", "send"}
      /\ pc'[t] = "working" => loaded'[t] = "WORKING"
      /\ loaded'[t] = "WORKING" => pc'[t] = "working"
      /\ pc'[t] \in Labels
      /\ loaded'[t] = last_state
  BY DEF ScheduleInv, TypeOK, Labels, After
<1>2. \A u \in Tasks \ {t} : pc'[u] = pc[u] /\ loaded'[u] = loaded[u]
  BY DEF ScheduleInv, TypeOK
<1>3. TypeOK'
  <2>1. pc' \in [Tasks -> Labels]
    BY <1>1, <1>2 DEF ScheduleInv, TypeOK
  <2> QED BY <2>1 DEF ScheduleInv, TypeOK, rowVars, logVars
<1>4. RefusedReadWorking'
  BY <1>1, <1>2 DEF ScheduleInv, RefusedReadWorking
<1>5. WorkingIsOwned'
  <2> SUFFICES ASSUME last_state = "WORKING", losses = 0
               PROVE  \E u \in Tasks : WillLeave(u)'
    BY DEF WorkingIsOwned, rowVars
  <2>1. PICK u \in Tasks : WillLeave(u)
    BY DEF ScheduleInv, WorkingIsOwned
  <2>2. u # t
    BY <1>1, <2>1 DEF WillLeave
  <2> QED BY <1>2, <2>1, <2>2 DEF WillLeave
<1> QED BY <1>3, <1>4, <1>5 DEF ScheduleInv

(* The row is read again: an execution that goes on knows the state it left, *)
(* or one that another execution has written since.                          *)
LEMMA create_logKeepsInv ==
  ASSUME ScheduleInv, NEW t \in Tasks, create_log(t)
  PROVE  ScheduleInv'
<1>1. lastSuccess' \in Age \cup {NoLog} /\ lastEntered' \in Age \cup {NoLog}
  BY PeriodsAssumption DEF create_log, ScheduleInv, TypeOK, Age
<1>2. pc[t] = "log" /\ UNCHANGED rowVars /\ UNCHANGED losses
  BY DEF create_log
<1>3. CASE todo[t].then = "idle"
  <2>1. Ends(t)
    BY <1>3 DEF create_log
  <2>2. ~WillLeave(t) /\ losses' \in 0 .. MaxLosses
    BY <1>2, <1>3 DEF WillLeave, ScheduleInv, TypeOK
  <2> QED BY <1>1, <1>2, <2>1, <2>2, EndsKeepsInv
<1>4. CASE todo[t].then # "idle"
  <2>1. /\ pc' = [pc EXCEPT ![t] = todo[t].then]
        /\ loaded' = [loaded EXCEPT ![t] = last_state]
        /\ todo' = [todo EXCEPT ![t] = Nothing]
        /\ UNCHANGED fresh
    BY <1>4 DEF create_log, Goto
  <2>2. todo[t].then \in {"query", "send", "grace"}
    BY <1>4 DEF ScheduleInv, TypeOK, Todo, After
  <2>3. TypeOK'
    <3>1. Nothing \in Todo
      BY DEF Nothing, Todo, After
    <3>2. pc' \in [Tasks -> Labels]
      BY <2>1, <2>2 DEF ScheduleInv, TypeOK, Labels, After
    <3> QED BY <1>1, <1>2, <2>1, <3>1, <3>2 DEF ScheduleInv, TypeOK, rowVars
  <2>4. RefusedReadWorking'
    BY <2>1, <2>2 DEF ScheduleInv, RefusedReadWorking, TypeOK
  <2>5. WorkingIsOwned'
    <3> SUFFICES ASSUME last_state = "WORKING", losses = 0
                 PROVE  \E u \in Tasks : WillLeave(u)'
      BY <1>2 DEF WorkingIsOwned, rowVars
    <3>1. PICK u \in Tasks : WillLeave(u)
      BY DEF ScheduleInv, WorkingIsOwned
    <3>2. CASE u = t
      <4>1. todo[t].then \in {"query", "send"}
        BY <1>2, <3>1, <3>2 DEF WillLeave
      <4>2. pc'[t] \in {"query", "send"} /\ loaded'[t] = "WORKING"
        BY <2>1, <4>1 DEF ScheduleInv, TypeOK
      <4> QED BY <4>2 DEF WillLeave
    <3>3. CASE u # t
      <4>1. pc'[u] = pc[u] /\ todo'[u] = todo[u] /\ loaded'[u] = loaded[u]
        BY <2>1, <3>3 DEF ScheduleInv, TypeOK
      <4> QED BY <3>1, <4>1 DEF WillLeave
    <3> QED BY <3>2, <3>3
  <2> QED BY <2>3, <2>4, <2>5 DEF ScheduleInv
<1> QED BY <1>3, <1>4

LEMMA ErrorGraceKeepsInv ==
  ASSUME ScheduleInv, NEW t \in Tasks, ErrorGrace(t)
  PROVE  ScheduleInv'
<1>1. pc[t] = "grace" /\ UNCHANGED <<rowVars, logVars, losses>>
  BY DEF ErrorGrace
<1>2. CASE Ends(t)
  <2>1. ~WillLeave(t) /\ losses' \in 0 .. MaxLosses
    BY <1>1 DEF WillLeave, ScheduleInv, TypeOK
  <2>2. lastSuccess' \in Age \cup {NoLog} /\ lastEntered' \in Age \cup {NoLog}
    BY <1>1 DEF ScheduleInv, TypeOK, logVars
  <2> QED BY <1>1, <1>2, <2>1, <2>2, EndsKeepsInv
<1>3. CASE Goto(t, "sendError") /\ UNCHANGED <<fresh, loaded, todo>>
  <2>1. Step(t, "grace", "sendError")
    BY <1>1, <1>3 DEF Step
  <2>2. "sendError" \in Labels
    BY DEF Labels
  <2> QED BY <2>1, <2>2, StepKeepsInv DEF Body
<1> QED BY <1>2, <1>3 DEF ErrorGrace

(* An execution cut short may have been the one that would leave WORKING: it *)
(* is counted.                                                               *)
LEMMA LossKeepsInv ==
  ASSUME ScheduleInv, NEW t \in Tasks, WorkerLost(t) \/ SendErrorEscapes(t)
  PROVE  ScheduleInv'
<1>1. /\ Ends(t) /\ losses < MaxLosses /\ losses' = losses + 1
      /\ UNCHANGED rowVars /\ UNCHANGED logVars
  BY DEF WorkerLost, SendErrorEscapes
<1>2. losses' \in 0 .. MaxLosses /\ losses' # 0
  BY <1>1, PeriodsAssumption DEF ScheduleInv, TypeOK
<1>3. lastSuccess' \in Age \cup {NoLog} /\ lastEntered' \in Age \cup {NoLog}
  BY <1>1 DEF ScheduleInv, TypeOK, logVars
<1> QED BY <1>1, <1>2, <1>3, EndsKeepsInv

(* Time, pruning and the user touch no execution. *)
LEMMA OthersKeepInv ==
  ASSUME ScheduleInv, Tick \/ prune_log \/ Deactivate \/ UNCHANGED vars
  PROVE  ScheduleInv'
<1>1. UNCHANGED taskVars /\ UNCHANGED losses /\ UNCHANGED <<type, working_timeout>>
  BY DEF Tick, prune_log, Deactivate, vars, rowVars
<1>2. last_state' = last_state \/ last_state' = "NOOP"
  BY DEF Tick, prune_log, Deactivate, vars, rowVars
<1>3. lastSuccess' \in Age \cup {NoLog} /\ lastEntered' \in Age \cup {NoLog}
  <2>1. \A a \in Age \cup {NoLog} : Older(a) \in Age \cup {NoLog}
    BY PeriodsAssumption DEF Older, Age
  <2>2. \A a \in Age \cup {NoLog} : Kept(a) \in Age \cup {NoLog}
    BY DEF Kept
  <2> QED BY <2>1, <2>2 DEF Tick, prune_log, Deactivate, vars, logVars, ScheduleInv, TypeOK
<1>4. TypeOK'
  BY <1>1, <1>2, <1>3 DEF ScheduleInv, TypeOK, taskVars, ReportState
<1>5. RefusedReadWorking'
  BY <1>1 DEF ScheduleInv, RefusedReadWorking, taskVars
<1>6. WorkingIsOwned'
  BY <1>1, <1>2 DEF ScheduleInv, WorkingIsOwned, WillLeave, taskVars
<1> QED BY <1>4, <1>5, <1>6 DEF ScheduleInv

-----------------------------------------------------------------------------
LEMMA InitInv == Init => ScheduleInv
<1> SUFFICES ASSUME Init PROVE ScheduleInv
  OBVIOUS
<1>1. Nothing \in Todo
  BY DEF Nothing, Todo, After
<1>2. TypeOK
  BY <1>1, PeriodsAssumption DEF Init, TypeOK, ReportState, Labels, After
<1>3. RefusedReadWorking /\ WorkingIsOwned
  BY DEF Init, RefusedReadWorking, WorkingIsOwned
<1> QED BY <1>2, <1>3 DEF ScheduleInv

(* A step of an execution, action by action. *)
LEMMA ExecuteKeepsInv ==
  ASSUME ScheduleInv, NEW t \in Tasks, Execute(t)
  PROVE  ScheduleInv'
<1> USE DEF Body
<1>1. Labels = {"idle", "query", "send", "grace", "enter", "working", "timedOut", "refused",
                "success", "onGrace", "sent", "sendError", "told", "log"}
      /\ After = {"idle", "query", "send", "grace"}
      /\ ReportState = {"NOOP", "WORKING", "SUCCESS", "GRACE", "ERROR"}
  BY DEF Labels, After, ReportState
<1>2. CASE Load(t)
  BY <1>2, LoadKeepsInv
<1>3. CASE Working(t)
  BY <1>1, <1>3, StepKeepsInv DEF Working
<1>4. CASE TimedOut(t)
  BY <1>1, <1>4, UpdateKeepsInv DEF TimedOut
<1>5. CASE Refused(t)
  BY <1>1, <1>5, UpdateKeepsInv DEF Refused
<1>6. CASE Success(t)
  BY <1>1, <1>6, StepKeepsInv DEF Success
<1>7. CASE OnGrace(t)
  BY <1>1, <1>7, UpdateKeepsInv DEF OnGrace
<1>8. CASE Enter(t)
  BY <1>1, <1>8, UpdateKeepsInv DEF Enter
<1>9. CASE Triggered(t)
  BY <1>1, <1>9, StepKeepsInv DEF Triggered
<1>10. CASE NotTriggered(t)
  BY <1>1, <1>10, UpdateKeepsInv DEF NotTriggered
<1>11. CASE QueryFails(t)
  <2>1. CASE update_report_schedule(t, "query", "ERROR", TRUE, "grace")
    BY <1>1, <2>1, UpdateKeepsInv
  <2>2. CASE Step(t, "query", "sendError")
    BY <1>1, <2>2, StepKeepsInv
  <2> QED BY <1>11, <2>1, <2>2 DEF QueryFails
<1>12. CASE Send(t)
  BY <1>1, <1>12, StepKeepsInv DEF Send
<1>13. CASE Sent(t)
  BY <1>1, <1>13, UpdateKeepsInv DEF Sent
<1>14. CASE SendFails(t)
  BY <1>1, <1>14, UpdateKeepsInv DEF SendFails
<1>15. CASE ErrorGrace(t)
  BY <1>15, ErrorGraceKeepsInv
<1>16. CASE SendError(t)
  BY <1>1, <1>16, StepKeepsInv DEF SendError
<1>17. CASE Told(t)
  BY <1>1, <1>17, UpdateKeepsInv DEF Told
<1>18. CASE SendErrorFails(t)
  BY <1>1, <1>18, UpdateKeepsInv DEF SendErrorFails
<1>19. CASE SendErrorEscapes(t)
  BY <1>19, LossKeepsInv
<1>20. CASE create_log(t)
  BY <1>20, create_logKeepsInv
<1> QED BY <1>2, <1>3, <1>4, <1>5, <1>6, <1>7, <1>8, <1>9, <1>10, <1>11, <1>12, <1>13,
           <1>14, <1>15, <1>16, <1>17, <1>18, <1>19, <1>20 DEF Execute

LEMMA NextInv == ScheduleInv /\ [Next]_vars => ScheduleInv'
<1> SUFFICES ASSUME ScheduleInv, [Next]_vars PROVE ScheduleInv'
  OBVIOUS
<1>1. ASSUME NEW t \in Tasks, Execute(t) PROVE ScheduleInv'
  BY <1>1, ExecuteKeepsInv
<1>2. ASSUME NEW t \in Tasks, WorkerLost(t) PROVE ScheduleInv'
  BY <1>2, LossKeepsInv
<1> QED BY <1>1, <1>2, OthersKeepInv DEF Next

-----------------------------------------------------------------------------
(* The row, the logs' ages and what executions know keep their types, for    *)
(* any number of executions and any periods.                                 *)
THEOREM TypeOKAlways == Spec => []TypeOK
<1>1. ScheduleInv => TypeOK
  BY DEF ScheduleInv
<1> QED BY <1>1, InitInv, NextInv, PTL DEF Spec

(* execute.py:693.  However many executions of a schedule read and write its *)
(* row at once, as long as none is cut short, a schedule in state WORKING    *)
(* has an execution under way.                                               *)
THEOREM NeverLeftWorkingAlways == Spec => []NeverLeftWorking
<1>1. ScheduleInv => NeverLeftWorking
  BY DEF ScheduleInv, WorkingIsOwned, WillLeave, NeverLeftWorking
<1> QED BY <1>1, InitInv, NextInv, PTL DEF Spec

-----------------------------------------------------------------------------
(* A request that takes up no lock leaves everything as it is: whoever holds *)
(* the lock goes on holding it.                                              *)
LEMMA MoveKeepsToken ==
  ASSUME OAuth2Inv, NEW r \in Requests, NEW place \in Places,
         at' = [at EXCEPT ![r] = place],
         place \in {"locked", "refresh"} => at[r] \in {"locked", "refresh"},
         tries' \in [Requests -> 0 .. max_tries], seen' \in [Requests -> Nat],
         token' \in [id : Nat, left : Nat, refresh : BOOLEAN],
         lock' = lock \/ (lock = 0 /\ lock' = NoRow),
         UNCHANGED <<grants, outlasted, lost>>
  PROVE  OAuth2Inv'
<1> USE DEF OAuth2Inv, NoRow
<1>1. Holding' \subseteq Holding
  BY DEF Holding, OAuth2TypeOK
<1>2. OAuth2TypeOK'
  <2>1. at' \in [Requests -> Places]
    BY DEF OAuth2TypeOK
  <2>2. lock' \in {NoRow} \cup 0 .. LOCK_EXPIRATION
    BY DEF OAuth2TypeOK
  <2> QED BY <2>1, <2>2 DEF OAuth2TypeOK
<1>3. OneRefreshAtATime' /\ NothingLost'
  BY <1>1 DEF OneRefreshAtATime, NothingLost
<1>4. HolderHasLock'
  <2> SUFFICES ASSUME ~outlasted, Holding' # {} PROVE lock' > 0
    BY DEF HolderHasLock
  <2>1. Holding # {} /\ lock > 0
    BY <1>1 DEF HolderHasLock
  <2> QED BY <2>1
<1> QED BY <1>2, <1>3, <1>4

(* A request that leaves as it was lets the others go on. *)
LEMMA LeaveKeepsToken ==
  ASSUME OAuth2Inv, NEW r \in Requests, Leave(r),
         token' \in [id : Nat, left : Nat, refresh : BOOLEAN],
         UNCHANGED <<lock, grants, outlasted, lost>>
  PROVE  OAuth2Inv'
<1>1. at' = [at EXCEPT ![r] = "idle"] /\ "idle" \in Places
  BY DEF Leave, At, Places
<1>2. tries' \in [Requests -> 0 .. max_tries] /\ seen' \in [Requests -> Nat]
  BY OAuth2Assumption DEF Leave, OAuth2Inv, OAuth2TypeOK
<1> QED BY <1>1, <1>2, MoveKeepsToken

(* The holder lets go of the lock: nobody else was holding it, unless a      *)
(* refresh has outlasted its lock.                                           *)
LEMMA ReleaseKeepsToken ==
  ASSUME OAuth2Inv, NEW r \in Requests, r \in Holding, Leave(r), lock' = NoRow,
         token' \in [id : Nat, left : Nat, refresh : BOOLEAN],
         UNCHANGED lost \/ (outlasted /\ lost' = TRUE),
         UNCHANGED <<grants, outlasted>>
  PROVE  OAuth2Inv'
<1> USE DEF OAuth2Inv, Leave, At
<1>1. Holding' = Holding \ {r}
  BY DEF Holding, OAuth2TypeOK
<1>2. OAuth2TypeOK'
  <2>1. at' \in [Requests -> Places] /\ tries' \in [Requests -> 0 .. max_tries]
        /\ seen' \in [Requests -> Nat]
    BY OAuth2Assumption DEF OAuth2TypeOK, Places
  <2>2. lock' \in {NoRow} \cup 0 .. LOCK_EXPIRATION
    OBVIOUS
  <2>3. lost' \in BOOLEAN
    BY Zenon DEF OAuth2TypeOK
  <2>4. outlasted' \in BOOLEAN /\ grants' \in 0 .. MaxGrants
    BY DEF OAuth2TypeOK
  <2> QED BY <2>1, <2>2, <2>3, <2>4 DEF OAuth2TypeOK
<1>3. OneRefreshAtATime' /\ NothingLost'
  BY <1>1 DEF OneRefreshAtATime, NothingLost
<1>4. ~outlasted => Holding' = {}
  BY <1>1 DEF OneRefreshAtATime
<1>5. HolderHasLock'
  BY <1>4 DEF HolderHasLock
<1> QED BY <1>2, <1>3, <1>5

(* A lock is taken only where there is none, and then nobody holds one.      *)
LEMMA CreateKeepsToken ==
  ASSUME OAuth2Inv, NEW r \in Requests, Create(r)
  PROVE  OAuth2Inv'
<1>1. CASE lock = NoRow
  <2>1. /\ at[r] = "create" /\ lock' = LOCK_EXPIRATION
        /\ at' = [at EXCEPT ![r] = "locked"]
        /\ UNCHANGED <<token, grants, tries, seen, outlasted, lost>>
    BY <1>1 DEF Create, At
  <2>2. OAuth2TypeOK'
    <3>1. at' \in [Requests -> Places]
      BY <2>1 DEF OAuth2Inv, OAuth2TypeOK, Places
    <3>2. lock' \in {NoRow} \cup 0 .. LOCK_EXPIRATION /\ lock' > 0
      BY <2>1, OAuth2Assumption DEF NoRow
    <3> QED BY <2>1, <3>1, <3>2 DEF OAuth2Inv, OAuth2TypeOK
  <2>3. ~outlasted => Holding = {}
    BY <1>1 DEF OAuth2Inv, HolderHasLock, NoRow
  <2>4. Holding' \subseteq Holding \cup {r}
    BY <2>1 DEF Holding, OAuth2Inv, OAuth2TypeOK
  <2>5. OneRefreshAtATime' /\ NothingLost'
    BY <2>1, <2>3, <2>4 DEF OAuth2Inv, OneRefreshAtATime, NothingLost
  <2>6. HolderHasLock'
    BY <2>1, OAuth2Assumption DEF HolderHasLock
  <2> QED BY <2>2, <2>5, <2>6 DEF OAuth2Inv
<1>2. CASE lock # NoRow
  <2>1. UNCHANGED <<lock, token, grants, outlasted, lost>>
    BY <1>2 DEF Create
  <2>2. CASE tries[r] < max_tries
    <3>1. at' = [at EXCEPT ![r] = "sleep"] /\ tries' = [tries EXCEPT ![r] = @ + 1]
          /\ UNCHANGED seen
      BY <1>2, <2>2 DEF Create, At
    <3>2. tries' \in [Requests -> 0 .. max_tries]
      BY <2>2, <3>1, OAuth2Assumption DEF OAuth2Inv, OAuth2TypeOK
    <3> QED BY <2>1, <3>1, <3>2, MoveKeepsToken DEF OAuth2Inv, OAuth2TypeOK, Places
  <2>3. CASE ~(tries[r] < max_tries)
    <3>1. Leave(r)
      BY <1>2, <2>3 DEF Create
    <3> QED BY <2>1, <3>1, LeaveKeepsToken DEF OAuth2Inv, OAuth2TypeOK
  <2> QED BY <2>2, <2>3
<1> QED BY <1>1, <1>2

(* A request goes on, action by action. *)
LEMMA GoesOnKeepsToken ==
  ASSUME OAuth2Inv, NEW r \in Requests, GoesOn(r)
  PROVE  OAuth2Inv'
<1>1. CASE Read(r)
  <2>1. at[r] = "read" /\ UNCHANGED <<lock, grants, outlasted, lost>>
    BY <1>1 DEF Read
  <2>2. CASE At(r, "expire") /\ seen' = [seen EXCEPT ![r] = token.id] /\ UNCHANGED <<token, tries>>
    BY <2>1, <2>2, MoveKeepsToken DEF OAuth2Inv, OAuth2TypeOK, Places, At
  <2>3. CASE Leave(r) /\ token' \in {token, NoToken}
    <3>1. token' \in [id : Nat, left : Nat, refresh : BOOLEAN]
      <4>1. NoToken \in [id : Nat, left : Nat, refresh : BOOLEAN]
        BY DEF NoToken
      <4>2. token \in [id : Nat, left : Nat, refresh : BOOLEAN]
        BY DEF OAuth2Inv, OAuth2TypeOK
      <4> QED BY <2>3, <4>1, <4>2
    <3> QED BY <2>1, <2>3, <3>1, LeaveKeepsToken
  <2> QED BY <1>1, <2>2, <2>3 DEF Read
<1>2. CASE DeleteExpired(r)
  <2>1. /\ at[r] = "expire" /\ at' = [at EXCEPT ![r] = "create"]
        /\ lock' = lock \/ (lock = 0 /\ lock' = NoRow)
        /\ UNCHANGED <<token, grants, tries, seen, outlasted, lost>>
    BY <1>2 DEF DeleteExpired, At
  <2> QED BY <2>1, MoveKeepsToken DEF OAuth2Inv, OAuth2TypeOK, Places
<1>3. CASE Create(r)
  BY <1>3, CreateKeepsToken
<1>4. CASE Retry(r)
  <2>1. /\ at' = [at EXCEPT ![r] = "read"] /\ seen' = [seen EXCEPT ![r] = 0]
        /\ UNCHANGED <<lock, token, grants, tries, outlasted, lost>>
    BY <1>4 DEF Retry, At
  <2> QED BY <2>1, MoveKeepsToken DEF OAuth2Inv, OAuth2TypeOK, Places
<1>5. CASE Refresh(r)
  <2>1. at[r] = "locked" /\ UNCHANGED <<lock, token, grants, outlasted, lost>>
    BY <1>5 DEF Refresh
  <2>2. CASE At(r, "refresh") /\ UNCHANGED <<tries, seen>>
    BY <2>1, <2>2, MoveKeepsToken DEF OAuth2Inv, OAuth2TypeOK, Places, At
  <2>3. CASE Leave(r)
    BY <2>1, <2>3, LeaveKeepsToken DEF OAuth2Inv, OAuth2TypeOK
  <2> QED BY <1>5, <2>2, <2>3 DEF Refresh
<1>6. ASSUME NEW ttl \in Lifetimes, Release(r, ttl) PROVE OAuth2Inv'
  <2>1. at[r] = "refresh" /\ Leave(r) /\ UNCHANGED <<grants, outlasted>>
    BY <1>6 DEF Release
  <2>2. r \in Holding
    BY <2>1 DEF Holding
  <2>3. CASE token.id = seen[r]
    <3>1. /\ lock' = NoRow
          /\ \/ token' = [token EXCEPT !.left = ttl] /\ UNCHANGED lost
             \/ lock = NoRow /\ UNCHANGED token /\ lost' = TRUE
      BY <1>6, <2>3 DEF Release
    <3>2. token' \in [id : Nat, left : Nat, refresh : BOOLEAN]
      BY <3>1, OAuth2Assumption DEF OAuth2Inv, OAuth2TypeOK
    <3>3. lock = NoRow => outlasted
      BY <2>2 DEF OAuth2Inv, HolderHasLock, OAuth2TypeOK, NoRow
    <3>4. UNCHANGED lost \/ (outlasted /\ lost' = TRUE)
      BY <3>1, <3>3
    <3> QED BY <2>1, <2>2, <3>1, <3>2, <3>4, ReleaseKeepsToken
  <2>4. CASE token.id # seen[r]
    BY <1>6, <2>1, <2>4, LeaveKeepsToken DEF Release, OAuth2Inv, OAuth2TypeOK
  <2> QED BY <2>3, <2>4
<1>7. CASE Revoked(r)
  <2>1. /\ r \in Holding /\ Leave(r) /\ lock' = NoRow
        /\ UNCHANGED <<token, grants, outlasted, lost>>
    BY <1>7 DEF Revoked, Holding
  <2> QED BY <2>1, ReleaseKeepsToken DEF OAuth2Inv, OAuth2TypeOK
<1>8. CASE Fails(r)
  BY <1>8, LeaveKeepsToken DEF Fails, OAuth2Inv, OAuth2TypeOK
<1> QED BY <1>1, <1>2, <1>3, <1>4, <1>5, <1>6, <1>7, <1>8 DEF GoesOn

(* Time takes the lock from its holder only with outlasted. *)
LEMMA TimeKeepsToken == OAuth2Inv /\ TimePasses => OAuth2Inv'
<1> SUFFICES ASSUME OAuth2Inv, TimePasses PROVE OAuth2Inv'
  OBVIOUS
<1> USE DEF OAuth2Inv, TimePasses
<1>1. OAuth2TypeOK'
  <2>1. lock' \in {NoRow} \cup 0 .. LOCK_EXPIRATION
    BY OAuth2Assumption DEF OAuth2TypeOK, NoRow
  <2>2. token' \in [id : Nat, left : Nat, refresh : BOOLEAN]
    BY DEF OAuth2TypeOK
  <2>3. outlasted' \in BOOLEAN
    OBVIOUS
  <2> QED BY <2>1, <2>2, <2>3 DEF OAuth2TypeOK
<1>2. Holding' = Holding
  BY DEF Holding
<1>3. outlasted => outlasted'
  OBVIOUS
<1>4. OneRefreshAtATime' /\ NothingLost'
  BY <1>2, <1>3 DEF OneRefreshAtATime, NothingLost
<1>5. HolderHasLock'
  <2> SUFFICES ASSUME ~outlasted', Holding' # {} PROVE lock' > 0
    BY DEF HolderHasLock
  <2>1. lock > 0 /\ lock' # 0
    BY <1>2, <1>3 DEF HolderHasLock
  <2> QED BY <2>1, OAuth2Assumption DEF OAuth2TypeOK, NoRow
<1> QED BY <1>1, <1>4, <1>5

LEMMA OAuth2InitInv == OAuth2Init => OAuth2Inv
<1> SUFFICES ASSUME OAuth2Init PROVE OAuth2Inv
  OBVIOUS
<1>1. OAuth2TypeOK
  <2>1. token \in [id : Nat, left : Nat, refresh : BOOLEAN]
    BY DEF OAuth2Init, NoToken
  <2>2. at \in [Requests -> Places]
    BY DEF OAuth2Init, Places
  <2>3. tries \in [Requests -> 0 .. max_tries] /\ seen \in [Requests -> Nat]
    BY OAuth2Assumption DEF OAuth2Init
  <2>4. lock \in {NoRow} \cup 0 .. LOCK_EXPIRATION /\ grants \in 0 .. MaxGrants
    BY OAuth2Assumption DEF OAuth2Init
  <2>5. outlasted \in BOOLEAN /\ lost \in BOOLEAN
    BY DEF OAuth2Init
  <2> QED BY <2>1, <2>2, <2>3, <2>4, <2>5 DEF OAuth2TypeOK
<1>2. Holding = {}
  BY DEF OAuth2Init, Holding
<1> QED BY <1>1, <1>2 DEF OAuth2Init, OAuth2Inv, OneRefreshAtATime, NothingLost, HolderHasLock

LEMMA OAuth2NextInv == OAuth2Inv /\ [OAuth2Next]_oauthVars => OAuth2Inv'
<1> SUFFICES ASSUME OAuth2Inv, [OAuth2Next]_oauthVars PROVE OAuth2Inv'
  OBVIOUS
<1>1. ASSUME NEW r \in Requests, Ask(r) PROVE OAuth2Inv'
  <2>1. /\ at' = [at EXCEPT ![r] = "read"] /\ tries' = [tries EXCEPT ![r] = 1]
        /\ UNCHANGED <<lock, token, grants, seen, outlasted, lost>>
    BY <1>1 DEF Ask, At
  <2>2. tries' \in [Requests -> 0 .. max_tries]
    BY <2>1, OAuth2Assumption DEF OAuth2Inv, OAuth2TypeOK
  <2> QED BY <2>1, <2>2, MoveKeepsToken DEF OAuth2Inv, OAuth2TypeOK, Places
<1>2. ASSUME NEW r \in Requests, GoesOn(r) PROVE OAuth2Inv'
  BY <1>2, GoesOnKeepsToken
<1>3. CASE DeleteOldToken \/ StoreToken
  <2>1. UNCHANGED <<lock, at, tries, seen, outlasted, lost>>
    BY <1>3 DEF DeleteOldToken, StoreToken
  <2>2. token' \in [id : Nat, left : Nat, refresh : BOOLEAN] /\ grants' \in 0 .. MaxGrants
    <3>1. CASE DeleteOldToken
      BY <3>1 DEF DeleteOldToken, NoToken, OAuth2Inv, OAuth2TypeOK
    <3>2. CASE StoreToken
      <4>1. grants' \in 0 .. MaxGrants /\ grants' \in Nat
        BY <3>2, OAuth2Assumption DEF StoreToken, OAuth2Inv, OAuth2TypeOK
      <4>2. PICK ttl \in Lifetimes, refresh \in BOOLEAN :
               token' = [id |-> grants', left |-> ttl, refresh |-> refresh]
        BY <3>2 DEF StoreToken
      <4>3. ttl \in Nat
        BY OAuth2Assumption
      <4> QED BY <4>1, <4>2, <4>3
    <3> QED BY <1>3, <3>1, <3>2
  <2> QED BY <2>1, <2>2 DEF OAuth2Inv, OAuth2TypeOK, OneRefreshAtATime, NothingLost,
                            HolderHasLock, Holding
<1>4. CASE UNCHANGED oauthVars
  BY <1>4 DEF oauthVars, OAuth2Inv, OAuth2TypeOK, OneRefreshAtATime, NothingLost,
              HolderHasLock, Holding
<1> QED BY <1>1, <1>2, <1>3, <1>4, TimeKeepsToken DEF OAuth2Next

(* The lock, the row of the token and what requests know keep their types.   *)
THEOREM OAuth2TypeOKAlways == OAuth2Spec => []OAuth2TypeOK
<1>1. OAuth2Inv => OAuth2TypeOK
  BY DEF OAuth2Inv
<1> QED BY <1>1, OAuth2InitInv, OAuth2NextInv, PTL DEF OAuth2Spec

(* lock.py.  However many requests find the token expired, one refreshes it  *)
(* at a time, as long as no refresh has outlasted its lock.                  *)
THEOREM OneRefreshAtATimeAlways == OAuth2Spec => []OneRefreshAtATime
<1>1. OAuth2Inv => OneRefreshAtATime
  BY DEF OAuth2Inv
<1> QED BY <1>1, OAuth2InitInv, OAuth2NextInv, PTL DEF OAuth2Spec

(* oauth2.py:58.  No new access token is dropped before a refresh has        *)
(* outlasted its lock: whoever releases the lock commits the token with it.  *)
THEOREM NothingLostAlways == OAuth2Spec => []NothingLost
<1>1. OAuth2Inv => NothingLost
  BY DEF OAuth2Inv
<1> QED BY <1>1, OAuth2InitInv, OAuth2NextInv, PTL DEF OAuth2Spec

-----------------------------------------------------------------------------
(* The server runs one of the two parts, the other keeps its first state:    *)
(* the types of both hold together.                                          *)
THEOREM ServerTypeOKAlways == MCSpec => []ServerTypeOK
<1>1. MCInit => ScheduleInv /\ OAuth2Inv
  BY InitInv, OAuth2InitInv DEF MCInit
<1>2. ScheduleInv /\ OAuth2Inv /\ [MCNext]_serverVars => ScheduleInv' /\ OAuth2Inv'
  <2>1. [MCNext]_serverVars => [Next]_vars /\ [OAuth2Next]_oauthVars
    BY DEF MCNext, Others, serverVars
  <2> QED BY <2>1, NextInv, OAuth2NextInv
<1>3. ScheduleInv /\ OAuth2Inv => ServerTypeOK
  BY DEF ScheduleInv, OAuth2Inv, ServerTypeOK
<1> QED BY <1>1, <1>2, <1>3, PTL DEF MCSpec
=============================================================================
