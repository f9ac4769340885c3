--------------------------- MODULE DashboardCharts ---------------------------
(***************************************************************************)
(* The charts of a dashboard and the filters that apply to them: the       *)
(* entries of the store (Chart/chartReducer.ts), the queries that charts   *)
(* ask (Chart/chartAction.js), and what makes them ask: a changed filter   *)
(* (Dashboard.jsx, applyCharts), a refresh, or being rendered with         *)
(* triggerQuery set (Chart/Chart.jsx).                                     *)
(*                                                                         *)
(* A handler and what React renders in consequence run without a break, so *)
(* that a visible chart asks in the same step in which it is triggered.  A *)
(* chart in a tab that is not selected is not rendered                     *)
(* (gridComponents/Chart.jsx, shouldComponentUpdate): its triggerQuery     *)
(* stays set until the tab is, or until its status ceases to be `loading'. *)
(* Answers arrive in any order: a query is never called off.               *)
(***************************************************************************)
EXTENDS Naturals

CONSTANTS
  Charts, Filters,
  Values,      \* what a filter may select
  Default,     \* what it selects when the dashboard is loaded
  Scope,       \* filter -> the charts it applies to
  Slots,       \* bound: queries of one chart that may be under way at once
  Nothing      \* no query, no answer, no form data

ASSUME DashboardAssumption ==
  /\ Scope \in [Filters -> SUBSET Charts]
  /\ Default \in Values
  /\ \A F \in SUBSET Filters : Nothing \notin [F -> Values]

VARIABLES
  dataMask,        \* filter -> the value it selects now
  appliedFilters,  \* the same, when filters were last applied
  editMode,        \* dashboardState.editMode
  visible,         \* the charts in selected tabs
  charts,          \* chart -> its entry in the store
  flight,          \* chart -> slot -> the form data of a query under way
  outdated,        \* history: charts whose last query may not be what applies: asked
                   \* in edit mode, or repeated by a refresh while another was due
  mixed            \* history: charts with a query asked while another was under way

chartVars == <<dataMask, appliedFilters, editMode, visible, charts, flight, outdated, mixed>>

FormData(c, mask) == [f \in {g \in Filters : c \in Scope[g]} |-> mask[f]]
Forms == {Nothing} \cup UNION {[F -> Values] : F \in SUBSET Filters}

Entry == [chartStatus : {"loading", "success", "rendered", "failed"},
          triggerQuery : BOOLEAN,
          latestQueryFormData : Forms,
          queriesResponse : Forms]   \* the form data that was answered

NewEntry == [chartStatus |-> "loading", triggerQuery |-> TRUE,
             latestQueryFormData |-> Nothing, queriesResponse |-> Nothing]

-----------------------------------------------------------------------------
(* exploreJSON, as far as it runs before the answer: it sends the query, and *)
(* dispatches CHART_UPDATE_STARTED, TRIGGER_QUERY and UPDATE_QUERY_FORM_DATA. *)
Asks(entry, form) ==
  [entry EXCEPT !.chartStatus = "loading", !.triggerQuery = FALSE,
                !.latestQueryFormData = form]

(* The charts cs ask, each with form[c]; entry[c] is what became of the      *)
(* entry of c before, and busy[c] of its queries under way.                  *)
Ask(cs, form, entry, busy) ==
  /\ \A c \in cs : \E s \in Slots : busy[c][s] = Nothing
  /\ charts' = [c \in Charts |-> IF c \in cs THEN Asks(entry[c], form[c]) ELSE entry[c]]
  /\ flight' = [c \in Charts |->
        IF c \in cs
        THEN [busy[c] EXCEPT ![CHOOSE s \in Slots : busy[c][s] = Nothing] = form[c]]
        ELSE busy[c]]
  /\ mixed' = (mixed \ cs) \cup {c \in cs : \E s \in Slots : busy[c][s] # Nothing}

(* The charts cs are rendered with triggerQuery set, and ask what the         *)
(* filters select.                                                           *)
runQuery(cs, entry, busy) ==
  /\ Ask(cs, [c \in Charts |-> FormData(c, dataMask')], entry, busy)
  /\ outdated' = IF editMode' THEN outdated \cup cs ELSE outdated \ cs

-----------------------------------------------------------------------------
(* applyCharts, applyFilters and refreshCharts: the charts in the scope of a *)
(* filter that changed are triggered.                                        *)
Affected(mask) == UNION {Scope[f] : f \in {g \in Filters : mask[g] # appliedFilters[g]}}

applyCharts(mask) ==
  IF editMode'
  THEN UNCHANGED <<appliedFilters, charts, flight, outdated, mixed>>
  ELSE /\ appliedFilters' = mask
       /\ runQuery(Affected(mask) \cap visible,
                   [c \in Charts |-> IF c \in Affected(mask)
                                     THEN [charts[c] EXCEPT !.triggerQuery = TRUE,
                                                            !.chartStatus = "loading"]
                                     ELSE charts[c]],
                   flight)

updateDataMask(f, v) ==
  /\ dataMask' = [dataMask EXCEPT ![f] = v]
  /\ UNCHANGED <<editMode, visible>>
  /\ applyCharts(dataMask')

setEditMode_noApply ==
  /\ editMode' = ~editMode
  /\ UNCHANGED <<dataMask, visible, appliedFilters, charts, flight, outdated, mixed>>

setEditMode ==
  /\ editMode' = ~editMode
  /\ UNCHANGED <<dataMask, visible>>
  /\ applyCharts(dataMask)

Show_noQuery(c) ==
  /\ c \notin visible /\ visible' = visible \cup {c}
  /\ UNCHANGED <<dataMask, appliedFilters, editMode, charts, flight, outdated, mixed>>

(* A tab is selected; a chart rendered with triggerQuery set asks.           *)
Show(c) ==
  /\ c \notin visible /\ visible' = visible \cup {c}
  /\ UNCHANGED <<dataMask, appliedFilters, editMode>>
  /\ runQuery({d \in {c} : charts[d].triggerQuery}, charts, flight)

Hide(c) ==
  /\ c \in visible /\ visible' = visible \ {c}
  /\ UNCHANGED <<dataMask, appliedFilters, editMode, charts, flight, outdated, mixed>>

(* refreshChart repeats the last query, with the form data that had.  It is  *)
(* called by the chart's menu, and for all charts, in whatever tab, when the *)
(* dashboard is refreshed (dashboardState.js, fetchCharts): a chart that     *)
(* waits in another tab to ask what a filter changed forgets to.             *)
refreshChart(c) ==
  /\ charts[c].latestQueryFormData # Nothing
  /\ outdated' = IF charts[c].triggerQuery THEN outdated \cup {c} ELSE outdated
  /\ UNCHANGED <<dataMask, appliedFilters, editMode, visible>>
  /\ Ask({c}, [d \in Charts |-> charts[d].latestQueryFormData], charts, flight)

-----------------------------------------------------------------------------
(* CHART_UPDATE_SUCCEEDED or CHART_UPDATE_FAILED for the query of slot s.    *)
(* The status ceases to be `loading', and the chart is rendered.             *)
Answered(c, s, status, response) ==
  LET entry == [charts EXCEPT ![c].chartStatus = status, ![c].queriesResponse = response]
  IN  /\ flight[c][s] # Nothing
      /\ UNCHANGED <<dataMask, appliedFilters, editMode, visible>>
      /\ runQuery({d \in {c} : charts[d].triggerQuery}, entry,
                  [flight EXCEPT ![c][s] = Nothing])

Succeeds(c, s) == Answered(c, s, "success", flight[c][s])
Fails_keeps(c, s)   == Answered(c, s, "failed", charts[c].queriesResponse)

Fails(c, s)    == Answered(c, s, "failed", Nothing)

(* handleRenderSuccess, handleRenderFailure *)
Rendered(c) ==
  /\ c \in visible /\ charts[c].chartStatus = "success"
  /\ \E status \in {"rendered", "failed"} :
        charts' = [charts EXCEPT ![c].chartStatus = status]
  /\ UNCHANGED <<dataMask, appliedFilters, editMode, visible, flight, outdated, mixed>>

-----------------------------------------------------------------------------
ChartsInit ==
  /\ dataMask = [f \in Filters |-> Default] /\ appliedFilters = dataMask
  /\ editMode = FALSE /\ visible = {}
  /\ charts = [c \in Charts |-> NewEntry]
  /\ flight = [c \in Charts |-> [s \in Slots |-> Nothing]]
  /\ outdated = {} /\ mixed = {}

Answers(c) == \E s \in Slots : Succeeds(c, s) \/ Fails(c, s)

ChartsNext ==
  \/ \E f \in Filters : \E v \in Values \ {dataMask[f]} : updateDataMask(f, v)
  \/ setEditMode
  \/ \E c \in Charts : Show(c) \/ Hide(c) \/ refreshChart(c) \/ Answers(c) \/ Rendered(c)

ChartsSpec == ChartsInit /\ [][ChartsNext]_chartVars

-----------------------------------------------------------------------------
ChartsTypeOK ==
  /\ dataMask \in [Filters -> Values] /\ appliedFilters \in [Filters -> Values]
  /\ editMode \in BOOLEAN /\ visible \subseteq Charts
  /\ charts \in [Charts -> Entry]
  /\ flight \in [Charts -> [Slots -> Forms]]
  /\ outdated \subseteq Charts /\ mixed \subseteq Charts

(* Dashboard.jsx:1813: "refresh charts if a filter was removed, added, or    *)
(* changed".  What a visible chart asked last is what the filters select,    *)
(* through tab changes, refreshes, overlapping queries and edit mode.  Only  *)
(* a chart that asked in edit mode, with filters not yet applied, or that    *)
(* was refreshed while it was due to ask, may differ.                        *)
ChartsUpToDate ==
  ~editMode => \A c \in visible \ outdated :
                  charts[c].latestQueryFormData = FormData(c, dataMask)

(* A chart that says it is loading has a query under way, or one to ask as   *)
(* soon as it is visible: no answer, refresh or tab change leaves it waiting *)
(* for nothing.                                                              *)
LoadingMeansWork ==
  \A c \in Charts :
     charts[c].chartStatus = "loading"
       => \/ \E s \in Slots : flight[c][s] # Nothing
          \/ charts[c].triggerQuery /\ c \notin visible

(* A result carries no mark of its query.  A chart whose queries have all    *)
(* been answered shows the answer to the last of them, or an error, unless   *)
(* that one was asked while another was under way.                           *)
ShowsLastAnswer ==
  \A c \in Charts \ mixed :
     (\A s \in Slots : flight[c][s] = Nothing)
       => charts[c].queriesResponse \in {charts[c].latestQueryFormData, Nothing}

(* What makes the last three so.  A visible chart has nothing left to ask; a *)
(* chart that has not, asked what was applied last; and as long as its       *)
(* queries did not overlap, the one under way is the last it asked.          *)
TriggeredIsHidden == \A c \in visible : ~charts[c].triggerQuery

AskedWhatApplies ==
  /\ ~editMode => appliedFilters = dataMask
  /\ \A c \in Charts \ outdated :
        ~charts[c].triggerQuery
          => charts[c].latestQueryFormData = FormData(c, appliedFilters)

FlightIsLast ==
  \A c \in Charts \ mixed : \A s \in Slots :
     flight[c][s] # Nothing => flight[c][s] = charts[c].latestQueryFormData
=============================================================================
