--------------------------- MODULE DashboardLayout ---------------------------
(***************************************************************************)
(* Editing a dashboard: the layout with its undo history                   *)
(* (reducers/undoableDashboardLayout.js over the library redux-undo, which *)
(* is external), the flags of reducers/dashboardState.js that say whether  *)
(* there is anything to save, and the save request                         *)
(* (actions/dashboardState.js, saveDashboardRequest).                      *)
(*                                                                         *)
(* A layout is one of Layouts: what distinguishes two of them is left out. *)
(* Nothing on the page is disabled while a save is under way               *)
(* (DashboardBuilder.tsx shows a spinner), so the user edits meanwhile.    *)
(***************************************************************************)
EXTENDS Naturals, Sequences

CONSTANTS
  Layouts, Schemes,   \* the layouts and the colour schemes a dashboard may have
  UNDO_LIMIT,
  NoSave              \* no save request under way

ASSUME LayoutAssumption ==
  /\ UNDO_LIMIT \in Nat
  /\ NoSave \notin Layouts \X Schemes

VARIABLES
  past, present, future,   \* dashboardLayout, as redux-undo keeps it
  colorScheme, updatedColorScheme,
  hasUnsavedChanges, maxUndoHistoryExceeded, editing,  \* dashboardState
  saving,    \* the layout and scheme of the request under way
  stored,    \* those of the dashboard on the server
  overlap    \* history: the last save stored what the page had ceased to show
             \* when its answer came, or was stored and reported as failed

flags == <<colorScheme, updatedColorScheme, hasUnsavedChanges, maxUndoHistoryExceeded, editing>>
layoutVars == <<past, present, future, flags, saving, stored, overlap>>

limit == UNDO_LIMIT + 2

-----------------------------------------------------------------------------
Pushed_noLimit(history, layout) == Append(history, layout)

(* redux-undo: a new present is pushed on the past, which drops its oldest   *)
(* entry when past and present together would exceed the limit.              *)
Pushed(history, layout) ==
  IF Len(history) + 1 >= limit THEN Append(Tail(history), layout) ELSE Append(history, layout)

insert(layout) ==
  /\ past' = Pushed(past, present) /\ present' = layout /\ future' = <<>>

undo ==
  IF past = <<>> THEN UNCHANGED <<past, present, future>>
  ELSE /\ past' = SubSeq(past, 1, Len(past) - 1)
       /\ present' = past[Len(past)]
       /\ future' = <<present>> \o future

redo ==
  IF future = <<>> THEN UNCHANGED <<past, present, future>>
  ELSE /\ past' = Append(past, present)
       /\ present' = Head(future)
       /\ future' = Tail(future)

-----------------------------------------------------------------------------
(* Header, UNSAFE_componentWillReceiveProps: after every change of the past  *)
NoticesLength ==
  maxUndoHistoryExceeded' = (maxUndoHistoryExceeded \/ Len(past') > UNDO_LIMIT)

(* updateComponents, deleteComponent, createComponent, createTopLevelTabs,   *)
(* deleteTopLevelTabs and moveComponent, with setUnsavedChangesAfterAction.  *)
Edit(layout) ==
  /\ editing /\ layout # present
  /\ insert(layout)
  /\ hasUnsavedChanges' = TRUE
  /\ NoticesLength
  /\ UNCHANGED <<colorScheme, updatedColorScheme, editing, saving, stored, overlap>>

undoLayoutAction_ignoresLimit ==
  /\ editing /\ undo
  /\ hasUnsavedChanges' =
       IF past' = <<>> /\ ~updatedColorScheme THEN FALSE ELSE hasUnsavedChanges
  /\ UNCHANGED <<colorScheme, updatedColorScheme, maxUndoHistoryExceeded, editing,
                 saving, stored, overlap>>

(* The button is disabled without a past; the keyboard is not.               *)
undoLayoutAction ==
  /\ editing /\ undo
  /\ hasUnsavedChanges' =
       IF past' = <<>> /\ ~maxUndoHistoryExceeded /\ ~updatedColorScheme
       THEN FALSE ELSE hasUnsavedChanges
  /\ UNCHANGED <<colorScheme, updatedColorScheme, maxUndoHistoryExceeded, editing,
                 saving, stored, overlap>>

redoLayoutAction ==
  /\ editing /\ redo
  /\ hasUnsavedChanges' = TRUE
  /\ NoticesLength
  /\ UNCHANGED <<colorScheme, updatedColorScheme, editing, saving, stored, overlap>>

(* Header, handleOnPropertiesChange *)
setColorScheme(scheme) ==
  /\ editing
  /\ colorScheme' = scheme /\ updatedColorScheme' = TRUE /\ hasUnsavedChanges' = TRUE
  /\ UNCHANGED <<past, present, future, maxUndoHistoryExceeded, editing,
                 saving, stored, overlap>>

setEditModeOn ==
  /\ ~editing /\ editing' = TRUE
  /\ UNCHANGED <<past, present, future, colorScheme, updatedColorScheme,
                 hasUnsavedChanges, maxUndoHistoryExceeded, saving, stored, overlap>>

(* Bound: one save is under way at a time.                                   *)
saveDashboardRequest ==
  /\ editing /\ hasUnsavedChanges /\ saving = NoSave
  /\ saving' = <<present, colorScheme>>
  /\ UNCHANGED <<past, present, future, flags, stored, overlap>>

(* ON_SAVE and clearHistory *)
saveDashboardRequestSuccess ==
  /\ saving # NoSave /\ saving' = NoSave /\ stored' = saving
  /\ hasUnsavedChanges' = FALSE /\ maxUndoHistoryExceeded' = FALSE
  /\ editing' = FALSE /\ updatedColorScheme' = FALSE
  /\ past' = <<>> /\ future' = <<>>
  /\ overlap' = (saving # <<present, colorScheme>>)
  /\ UNCHANGED <<present, colorScheme>>

(* onError: the server refused, or its answer was lost *)
SaveFails ==
  /\ saving # NoSave /\ saving' = NoSave
  /\ \/ UNCHANGED <<stored, overlap>>
     \/ stored' = saving /\ overlap' = TRUE
  /\ UNCHANGED <<past, present, future, flags>>

(* discardChanges, and any other reload of the page: the browser asks first  *)
(* when hasUnsavedChanges is set (Dashboard.onBeforeUnload).  Bound: not      *)
(* while a save is under way.                                                *)
Reload ==
  /\ saving = NoSave
  /\ past' = <<>> /\ future' = <<>> /\ present' = stored[1] /\ colorScheme' = stored[2]
  /\ hasUnsavedChanges' = FALSE /\ maxUndoHistoryExceeded' = FALSE
  /\ editing' = FALSE /\ updatedColorScheme' = FALSE /\ overlap' = FALSE
  /\ UNCHANGED <<saving, stored>>

-----------------------------------------------------------------------------
LayoutInit ==
  /\ past = <<>> /\ future = <<>> /\ present \in Layouts
  /\ colorScheme \in Schemes /\ updatedColorScheme = FALSE
  /\ hasUnsavedChanges = FALSE /\ maxUndoHistoryExceeded = FALSE /\ editing = FALSE
  /\ saving = NoSave /\ stored = <<present, colorScheme>> /\ overlap = FALSE

LayoutNext ==
  \/ \E layout \in Layouts : Edit(layout)
  \/ \E scheme \in Schemes : setColorScheme(scheme)
  \/ undoLayoutAction \/ redoLayoutAction \/ setEditModeOn
  \/ saveDashboardRequest \/ saveDashboardRequestSuccess \/ SaveFails \/ Reload

LayoutSpec == LayoutInit /\ [][LayoutNext]_layoutVars

-----------------------------------------------------------------------------
LayoutTypeOK ==
  /\ past \in Seq(Layouts) /\ future \in Seq(Layouts) /\ present \in Layouts
  /\ Len(past) < limit
  /\ colorScheme \in Schemes
  /\ {updatedColorScheme, hasUnsavedChanges, maxUndoHistoryExceeded, editing, overlap}
       \subseteq BOOLEAN
  /\ saving \in (Layouts \X Schemes) \cup {NoSave} /\ stored \in Layouts \X Schemes

(* actions/dashboardLayout.js:277-283.  When the page says that there is     *)
(* nothing to save, what it shows is what the server has: undoing takes the  *)
(* flag back only where the history still reaches the saved layout, however  *)
(* many entries it has dropped.  Only what was edited during a save, or stored *)
(* by one reported as failed, may differ.                                    *)
NothingUnsavedForgotten ==
  ~hasUnsavedChanges /\ ~overlap => stored = <<present, colorScheme>>

(* What makes it so: as long as the history has dropped nothing, its bottom  *)
(* is the saved layout; it cannot have dropped anything before the flag that *)
(* says so is set; and nothing is left to undo once the page says it is      *)
(* saved.                                                                    *)
Bottom == IF past = <<>> THEN present ELSE past[1]

HistoryInv ==
  /\ Len(past) + Len(future) < limit
  /\ Len(past) > UNDO_LIMIT => maxUndoHistoryExceeded
  /\ ~overlap =>
       /\ ~maxUndoHistoryExceeded => Bottom = stored[1]
       /\ ~updatedColorScheme     => colorScheme = stored[2]
       /\ ~hasUnsavedChanges      => past = <<>>

LayoutInv == LayoutTypeOK /\ HistoryInv /\ NothingUnsavedForgotten
=============================================================================
