----------------------------- MODULE MCServer ------------------------------
(***************************************************************************)
(* Two parts of the server, one at a time: a schedule of reports with its  *)
(* executions, and the token of a database connection with the requests    *)
(* that refresh it.  They share no state: one runs and the other keeps its *)
(* first state.  Executions of a schedule that does not run are asked      *)
(* nothing; a first state of the token asks nothing of any request.        *)
(***************************************************************************)
EXTENDS ReportSchedule, OAuth2Token

VARIABLE part   \* the component that runs

serverVars == <<part, vars, oauthVars>>

Others(p) ==
  /\ part = p /\ UNCHANGED part
  /\ p # "schedule" => UNCHANGED vars
  /\ p # "token"    => UNCHANGED oauthVars

(* Alerts and reports ask the same of a null working_timeout: here only the  *)
(* reports may have one, whose executions take fewer steps.                  *)
MCInit ==
  /\ part \in {"schedule", "token"} /\ Init /\ OAuth2Init
  /\ working_timeout = NoTimeout => type = "REPORT"

MCNext ==
  \/ Next       /\ Others("schedule")
  \/ OAuth2Next /\ Others("token")

MCFairness ==
  /\ WF_vars(part = "schedule" /\ Tick)
  /\ \A t \in Tasks : WF_vars(part = "schedule" /\ Execute(t))
  /\ OAuth2Fairness

MCSpec == MCInit /\ [][MCNext]_serverVars /\ MCFairness

-----------------------------------------------------------------------------
(* The variables of both components hold what they may. *)
ServerTypeOK == TypeOK /\ OAuth2TypeOK
=============================================================================
