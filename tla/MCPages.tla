------------------------------ MODULE MCPages ------------------------------
(***************************************************************************)
(* What runs in a page, one component at a time: the charts of a dashboard,*)
(* its layout being edited, its presenter, a dashboard embedded elsewhere, *)
(* and a query of SQL Lab with what executes it.  The components share no  *)
(* state, so that one of them runs and the others keep their first state.  *)
(* Nothing is under way in a first state, and fairness asks nothing of it. *)
(***************************************************************************)
EXTENDS DashboardCharts, DashboardLayout, DashboardPresenter, EmbeddedDashboard, SqlLabQuery

CONSTANTS c1, f1, f2, v1, v2, l1, l2, l3, s1, s2

VARIABLE part   \* the component that runs

(* f2 applies to no chart *)
MCScope == [f \in {f1, f2} |-> IF f = f1 THEN {c1} ELSE {}]

(* A bound: two mounts, or two instructions, but not both. *)
MountsAndInstructions == 3

pageVars == <<part, chartVars, layoutVars, presenterVars, embeddedVars, vars>>

Others(p) ==
  /\ part = p /\ UNCHANGED part
  /\ p # "charts"    => UNCHANGED chartVars
  /\ p # "layout"    => UNCHANGED layoutVars
  /\ p # "presenter" => UNCHANGED presenterVars
  /\ p # "embedded"  => UNCHANGED embeddedVars
  /\ p # "query"     => UNCHANGED vars

(* Layouts and colour schemes are interchangeable: the first ones are fixed. *)
MCInit ==
  /\ part \in {"charts", "layout", "presenter", "embedded", "query"}
  /\ ChartsInit /\ PresenterInit /\ EmbeddedInit /\ Init
  /\ LayoutInit /\ present = l1 /\ colorScheme = s1

MCNext ==
  \/ ChartsNext    /\ Others("charts")
  \/ LayoutNext    /\ Others("layout")
  \/ PresenterNext /\ Others("presenter") /\ mounts' + sent' <= MountsAndInstructions
  \/ EmbeddedNext  /\ Others("embedded")
  \/ Next          /\ Others("query")

MCSpec ==
  /\ MCInit /\ [][MCNext]_pageVars
  /\ PresenterFairness /\ EmbeddedFairness /\ Fairness

-----------------------------------------------------------------------------
(* The variables of every component hold what they may. *)
PagesTypeOK == ChartsTypeOK /\ LayoutTypeOK /\ PresenterTypeOK /\ EmbeddedTypeOK /\ TypeOK
=============================================================================
