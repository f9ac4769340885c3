------------------------- MODULE Dashboard_proofs -------------------------
(***************************************************************************)
(* Theorems about the two halves of a dashboard that share no state: its   *)
(* layout while it is edited (LayoutInv is inductive), and its charts and  *)
(* filters (ChartsInv is, and with it AskedWhatApplies as long as hidden   *)
(* charts are not refreshed).                                              *)
(***************************************************************************)
EXTENDS DashboardLayout, DashboardCharts, SequenceTheorems, TLAPS

-----------------------------------------------------------------------------
(* The layout and its history *)

(* What redux-undo does to a history: where its bottom is afterwards, and    *)
(* what is left of it.                                                       *)
LEMMA InsertKeepsBottom ==
  ASSUME LayoutTypeOK, NEW layout \in Layouts, insert(layout)
  PROVE  /\ past' \in Seq(Layouts) /\ present' \in Layouts /\ future' = <<>>
         /\ Len(past') = IF Len(past) + 1 >= limit THEN Len(past) ELSE Len(past) + 1
         /\ past' # <<>>
         /\ Len(past) + 1 < limit => Bottom' = Bottom
<1>1. UNDO_LIMIT \in Nat /\ limit = UNDO_LIMIT + 2
  BY LayoutAssumption DEF limit
<1>2. past \in Seq(Layouts) /\ present \in Layouts /\ Len(past) \in Nat
  BY DEF LayoutTypeOK
<1>3. CASE Len(past) + 1 >= limit
  <2>1. past # <<>> /\ past' = Append(Tail(past), present)
    BY <1>1, <1>2, <1>3 DEF insert, Pushed
  <2>2. Tail(past) \in Seq(Layouts) /\ Len(Tail(past)) = Len(past) - 1
    BY <1>2, <2>1
  <2>3. past' \in Seq(Layouts) /\ Len(past') = Len(past)
    BY <1>2, <2>1, <2>2
  <2>4. Len(past') >= 1
    BY <1>1, <1>2, <1>3, <2>3
  <2>5. past' # <<>>
    BY <2>4
  <2> QED BY <1>1, <1>2, <1>3, <2>3, <2>5 DEF insert
<1>4. CASE Len(past) + 1 < limit
  <2>1. past' = Append(past, present)
    BY <1>1, <1>2, <1>4 DEF insert, Pushed
  <2>2. past' \in Seq(Layouts) /\ Len(past') = Len(past) + 1
    BY <1>2, <2>1
  <2>3. past' # <<>>
    BY <1>2, <2>2
  <2>4. Bottom' = Bottom
    BY <1>2, <2>1, <2>3 DEF Bottom
  <2> QED BY <1>1, <1>2, <1>4, <2>2, <2>3, <2>4 DEF insert
<1> QED BY <1>1, <1>2, <1>3, <1>4

LEMMA UndoKeepsBottom ==
  ASSUME LayoutTypeOK, undo
  PROVE  /\ past' \in Seq(Layouts) /\ present' \in Layouts /\ future' \in Seq(Layouts)
         /\ Len(past') + Len(future') = Len(past) + Len(future)
         /\ Len(past') <= Len(past)
         /\ Bottom' = Bottom
         /\ past = <<>> => past' = <<>> /\ present' = present
<1>1. /\ past \in Seq(Layouts) /\ present \in Layouts /\ future \in Seq(Layouts)
      /\ Len(past) \in Nat /\ Len(future) \in Nat
  BY DEF LayoutTypeOK
<1>2. CASE past = <<>>
  BY <1>1, <1>2 DEF undo, Bottom
<1>3. CASE past # <<>>
  <2>1. /\ past' = SubSeq(past, 1, Len(past) - 1) /\ present' = past[Len(past)]
        /\ future' = <<present>> \o future
    BY <1>3 DEF undo
  <2>2. Len(past) >= 1
    BY <1>1, <1>3
  <2>3. past' \in Seq(Layouts) /\ Len(past') = Len(past) - 1 /\ present' \in Layouts
    BY <1>1, <2>1, <2>2
  <2>4. future' \in Seq(Layouts) /\ Len(future') = Len(future) + 1
    BY <1>1, <2>1
  <2>5. Bottom' = Bottom
    <3>1. CASE Len(past) = 1
      BY <1>1, <1>3, <2>1, <2>3, <3>1 DEF Bottom
    <3>2. CASE Len(past) > 1
      <4>1. Len(past') >= 1
        BY <1>1, <2>3, <3>2
      <4>2. past' # <<>>
        BY <4>1
      <4>3. \A i \in 1 .. Len(past) - 1 : past[i] \in Layouts
        BY <1>1, <3>2
      <4>4. \A i \in 1 .. Len(past) - 1 - 1 + 1 : past'[i] = past[1 + i - 1]
        BY <1>1, <2>1, <4>3, SubSeqProperties
      <4>5. past'[1] = past[1]
        BY <1>1, <3>2, <4>4
      <4> QED BY <1>3, <4>2, <4>5 DEF Bottom
    <3>3. Len(past) \in Nat
      BY <1>1
    <3>4. \A n \in Nat : n >= 1 => n = 1 \/ n > 1
      OBVIOUS
    <3>5. Len(past) = 1 \/ Len(past) > 1
      BY <2>2, <3>3, <3>4, Zenon
    <3> QED BY <3>1, <3>2, <3>5
  <2> QED BY <1>1, <1>3, <2>3, <2>4, <2>5
<1> QED BY <1>2, <1>3

LEMMA RedoKeepsBottom ==
  ASSUME LayoutTypeOK, redo
  PROVE  /\ past' \in Seq(Layouts) /\ present' \in Layouts /\ future' \in Seq(Layouts)
         /\ Len(past') + Len(future') = Len(past) + Len(future)
         /\ Bottom' = Bottom
<1>1. /\ past \in Seq(Layouts) /\ present \in Layouts /\ future \in Seq(Layouts)
      /\ Len(past) \in Nat /\ Len(future) \in Nat
  BY DEF LayoutTypeOK
<1>2. CASE future = <<>>
  BY <1>1, <1>2 DEF redo, Bottom
<1>3. CASE future # <<>>
  <2>1. past' = Append(past, present) /\ present' = Head(future) /\ future' = Tail(future)
    BY <1>3 DEF redo
  <2>2. past' \in Seq(Layouts) /\ Len(past') = Len(past) + 1 /\ past' # <<>>
    BY <1>1, <2>1
  <2>3. present' \in Layouts /\ future' \in Seq(Layouts) /\ Len(future') = Len(future) - 1
    BY <1>1, <1>3, <2>1
  <2>4. Bottom' = Bottom
    BY <1>1, <2>1, <2>2 DEF Bottom
  <2> QED BY <1>1, <2>2, <2>3, <2>4
<1> QED BY <1>2, <1>3

-----------------------------------------------------------------------------
LEMMA EditKeepsInv ==
  ASSUME LayoutInv, NEW layout \in Layouts, Edit(layout)
  PROVE  LayoutInv'
<1>1. LayoutTypeOK /\ insert(layout) /\ hasUnsavedChanges' = TRUE
  BY DEF LayoutInv, Edit
<1>2. /\ past' \in Seq(Layouts) /\ present' \in Layouts /\ future' = <<>> /\ past' # <<>>
      /\ Len(past') = IF Len(past) + 1 >= limit THEN Len(past) ELSE Len(past) + 1
      /\ Len(past) + 1 < limit => Bottom' = Bottom
  BY <1>1, InsertKeepsBottom
<1>3. UNDO_LIMIT \in Nat /\ limit = UNDO_LIMIT + 2 /\ Len(past) \in Nat /\ Len(past) < limit
  BY <1>1, LayoutAssumption DEF limit, LayoutTypeOK
<1>4. Len(past') \in Nat /\ Len(past') < limit /\ Len(future') = 0
  BY <1>2, <1>3
<1>5. /\ maxUndoHistoryExceeded' = (maxUndoHistoryExceeded \/ Len(past') > UNDO_LIMIT)
      /\ UNCHANGED <<colorScheme, updatedColorScheme, editing, saving, stored, overlap>>
  BY DEF Edit, NoticesLength
<1>6. LayoutTypeOK'
  BY <1>1, <1>2, <1>3, <1>4, <1>5 DEF LayoutTypeOK, limit
<1>7. HistoryInv'
  <2>1. Len(past') > UNDO_LIMIT \/ Bottom' = Bottom
    BY <1>2, <1>3
  <2>2. Len(past') > UNDO_LIMIT => maxUndoHistoryExceeded'
    BY <1>5
  <2>3. /\ ~overlap => (~maxUndoHistoryExceeded => Bottom = stored[1])
        /\ ~overlap => (~updatedColorScheme => colorScheme = stored[2])
    BY DEF HistoryInv, LayoutInv
  <2>4. Len(past') + Len(future') < limit'
    BY <1>3, <1>4 DEF limit
  <2>5. ~overlap' => (~maxUndoHistoryExceeded' => Bottom' = stored'[1])
    <3> SUFFICES ASSUME ~overlap, ~maxUndoHistoryExceeded' PROVE Bottom' = stored[1]
      BY <1>5
    <3>1. ~maxUndoHistoryExceeded /\ Bottom' = Bottom
      BY <1>5, <2>1
    <3> QED BY <2>3, <3>1
  <2>6. ~overlap' => (~updatedColorScheme' => colorScheme' = stored'[2])
    BY <1>5, <2>3
  <2> QED BY <1>1, <2>2, <2>4, <2>5, <2>6 DEF HistoryInv
<1>8. NothingUnsavedForgotten'
  BY <1>1 DEF NothingUnsavedForgotten
<1> QED BY <1>6, <1>7, <1>8 DEF LayoutInv

LEMMA UndoKeepsInv ==
  ASSUME LayoutInv, undoLayoutAction
  PROVE  LayoutInv'
<1>1. LayoutTypeOK /\ undo
  BY DEF LayoutInv, undoLayoutAction
<1>2. /\ past' \in Seq(Layouts) /\ present' \in Layouts /\ future' \in Seq(Layouts)
      /\ Len(past') + Len(future') = Len(past) + Len(future)
      /\ Len(past') <= Len(past)
      /\ Bottom' = Bottom
      /\ past = <<>> => past' = <<>> /\ present' = present
  BY <1>1, UndoKeepsBottom
<1>3. /\ hasUnsavedChanges' = IF past' = <<>> /\ ~maxUndoHistoryExceeded /\ ~updatedColorScheme
                              THEN FALSE ELSE hasUnsavedChanges
      /\ UNCHANGED <<colorScheme, updatedColorScheme, maxUndoHistoryExceeded, editing,
                     saving, stored, overlap>>
  BY DEF undoLayoutAction
<1>4. LayoutTypeOK'
  <2>1. Len(past') \in Nat /\ Len(past) \in Nat /\ Len(past') < limit
    BY <1>1, <1>2, LayoutAssumption DEF LayoutTypeOK, limit
  <2>2. hasUnsavedChanges' \in BOOLEAN
    BY <1>1, <1>3 DEF LayoutTypeOK
  <2> QED BY <1>1, <1>2, <1>3, <2>1, <2>2 DEF LayoutTypeOK, limit
<1>5. HistoryInv'
  <2>1. Len(past) \in Nat /\ Len(past') \in Nat /\ Len(past') <= Len(past) /\ UNDO_LIMIT \in Nat
    BY <1>1, <1>2, LayoutAssumption DEF LayoutTypeOK
  <2>2. ~overlap => (~hasUnsavedChanges' => past' = <<>>)
    BY <1>2, <1>3 DEF LayoutInv, HistoryInv
  <2> QED BY <1>2, <1>3, <2>1, <2>2 DEF LayoutInv, HistoryInv, limit
<1>6. NothingUnsavedForgotten'
  <2> SUFFICES ASSUME ~hasUnsavedChanges', ~overlap
               PROVE  stored = <<present', colorScheme>>
    BY <1>3 DEF NothingUnsavedForgotten
  <2>1. CASE ~hasUnsavedChanges
    BY <1>2, <2>1 DEF LayoutInv, HistoryInv, NothingUnsavedForgotten
  <2>2. CASE hasUnsavedChanges
    <3>1. past' = <<>> /\ ~maxUndoHistoryExceeded /\ ~updatedColorScheme
      BY <1>3, <2>2
    <3>2. present' = stored[1] /\ colorScheme = stored[2]
      BY <1>2, <3>1 DEF Bottom, LayoutInv, HistoryInv
    <3>3. stored = <<stored[1], stored[2]>>
      BY <1>1 DEF LayoutTypeOK
    <3> QED BY <3>2, <3>3
  <2> QED BY <2>1, <2>2
<1> QED BY <1>4, <1>5, <1>6 DEF LayoutInv

LEMMA RedoKeepsInv ==
  ASSUME LayoutInv, redoLayoutAction
  PROVE  LayoutInv'
<1>1. LayoutTypeOK /\ redo
  BY DEF LayoutInv, redoLayoutAction
<1>2. /\ past' \in Seq(Layouts) /\ present' \in Layouts /\ future' \in Seq(Layouts)
      /\ Len(past') + Len(future') = Len(past) + Len(future)
      /\ Bottom' = Bottom
  BY <1>1, RedoKeepsBottom
<1>3. /\ hasUnsavedChanges' = TRUE
      /\ maxUndoHistoryExceeded' = (maxUndoHistoryExceeded \/ Len(past') > UNDO_LIMIT)
      /\ UNCHANGED <<colorScheme, updatedColorScheme, editing, saving, stored, overlap>>
  BY DEF redoLayoutAction, NoticesLength
<1>4. Len(past') \in Nat /\ Len(future') \in Nat /\ Len(past') < limit
  BY <1>2, LayoutAssumption DEF LayoutInv, HistoryInv, limit
<1>5. LayoutTypeOK'
  BY <1>1, <1>2, <1>3, <1>4 DEF LayoutTypeOK, limit
<1>6. HistoryInv'
  BY <1>2, <1>3, <1>4 DEF LayoutInv, HistoryInv, limit
<1>7. NothingUnsavedForgotten'
  BY <1>3 DEF NothingUnsavedForgotten
<1> QED BY <1>5, <1>6, <1>7 DEF LayoutInv

(* Edit mode and the start of a save touch neither the history nor the other *)
(* flags, and a new colour scheme sets both flags that stand for it.         *)
LEMMA ModeKeepsInv ==
  ASSUME LayoutInv, setEditModeOn \/ saveDashboardRequest \/ UNCHANGED layoutVars
  PROVE  LayoutInv'
<1>1. UNCHANGED <<past, present, future, colorScheme, updatedColorScheme, hasUnsavedChanges,
                  maxUndoHistoryExceeded, stored, overlap>>
  BY DEF setEditModeOn, saveDashboardRequest, layoutVars, flags
<1>2. editing' \in BOOLEAN
  <2>1. editing \in BOOLEAN
    BY DEF LayoutInv, LayoutTypeOK
  <2>2. editing' = editing \/ editing' = TRUE
    BY DEF setEditModeOn, saveDashboardRequest, layoutVars, flags
  <2> QED BY <2>1, <2>2
<1>3. saving' \in (Layouts \X Schemes) \cup {NoSave}
  BY DEF setEditModeOn, saveDashboardRequest, layoutVars, LayoutInv, LayoutTypeOK
<1>4. LayoutTypeOK'
  BY <1>1, <1>2, <1>3 DEF LayoutInv, LayoutTypeOK, limit
<1>5. HistoryInv' /\ NothingUnsavedForgotten'
  BY <1>1 DEF LayoutInv, HistoryInv, NothingUnsavedForgotten, Bottom, limit
<1> QED BY <1>4, <1>5 DEF LayoutInv

LEMMA ColoursKeepInv ==
  ASSUME LayoutInv, NEW scheme \in Schemes, setColorScheme(scheme)
  PROVE  LayoutInv'
<1>1. UNCHANGED <<past, present, future, maxUndoHistoryExceeded, editing, saving, stored,
                  overlap>>
  BY DEF setColorScheme
<1>2. colorScheme' = scheme /\ updatedColorScheme' = TRUE /\ hasUnsavedChanges' = TRUE
  BY DEF setColorScheme
<1>3. LayoutTypeOK'
  BY <1>1, <1>2 DEF LayoutInv, LayoutTypeOK, limit
<1>4. HistoryInv' /\ NothingUnsavedForgotten'
  BY <1>1, <1>2 DEF LayoutInv, HistoryInv, NothingUnsavedForgotten, Bottom, limit
<1> QED BY <1>3, <1>4 DEF LayoutInv

(* A save that succeeds, and a reload, begin a new history; what was stored  *)
(* is what the page shows, or the overlap is noted.                          *)
LEMMA NewHistoryKeepsInv ==
  ASSUME LayoutInv, saveDashboardRequestSuccess \/ Reload
  PROVE  LayoutInv'
<1>1. /\ past' = <<>> /\ future' = <<>>
      /\ hasUnsavedChanges' = FALSE /\ maxUndoHistoryExceeded' = FALSE
      /\ editing' = FALSE /\ updatedColorScheme' = FALSE
  BY DEF saveDashboardRequestSuccess, Reload
<1>2. /\ present' \in Layouts /\ colorScheme' \in Schemes /\ stored' \in Layouts \X Schemes
      /\ saving' \in (Layouts \X Schemes) \cup {NoSave} /\ overlap' \in BOOLEAN
      /\ ~overlap' => stored' = <<present', colorScheme'>>
  <2>1. /\ present \in Layouts /\ colorScheme \in Schemes /\ stored \in Layouts \X Schemes
        /\ saving \in (Layouts \X Schemes) \cup {NoSave}
    BY DEF LayoutInv, LayoutTypeOK
  <2>2. CASE saveDashboardRequestSuccess
    <3>1. /\ saving \in Layouts \X Schemes /\ saving' = NoSave /\ stored' = saving
          /\ present' = present /\ colorScheme' = colorScheme
      BY <2>1, <2>2 DEF saveDashboardRequestSuccess
    <3>2. overlap' = (saving # <<present, colorScheme>>)
      BY <2>2 DEF saveDashboardRequestSuccess
    <3>3. overlap' \in BOOLEAN /\ (~overlap' => saving = <<present, colorScheme>>)
      BY <3>2
    <3> QED BY <2>1, <3>1, <3>3
  <2>3. CASE Reload
    <3>1. /\ saving' = saving /\ stored' = stored
          /\ present' = stored[1] /\ colorScheme' = stored[2] /\ overlap' = FALSE
      BY <2>3 DEF Reload
    <3>2. stored = <<stored[1], stored[2]>> /\ stored[1] \in Layouts /\ stored[2] \in Schemes
      BY <2>1
    <3> QED BY <2>1, <3>1, <3>2
  <2> QED BY <2>2, <2>3
<1>3. UNDO_LIMIT \in Nat /\ limit = UNDO_LIMIT + 2 /\ Len(past') = 0 /\ Len(future') = 0
  BY <1>1, LayoutAssumption DEF limit
<1>4. LayoutTypeOK'
  <2>1. past' \in Seq(Layouts) /\ future' \in Seq(Layouts) /\ Len(past') < limit'
    BY <1>1, <1>3 DEF limit
  <2> QED BY <1>1, <1>2, <2>1 DEF LayoutTypeOK
<1>5. ~overlap' => Bottom' = stored'[1] /\ colorScheme' = stored'[2]
  BY <1>1, <1>2 DEF Bottom
<1>6. HistoryInv'
  BY <1>1, <1>3, <1>5 DEF HistoryInv, limit
<1>7. NothingUnsavedForgotten'
  BY <1>2 DEF NothingUnsavedForgotten
<1> QED BY <1>4, <1>6, <1>7 DEF LayoutInv

LEMMA SaveFailsKeepsInv ==
  ASSUME LayoutInv, SaveFails
  PROVE  LayoutInv'
<1>1. UNCHANGED <<past, present, future, colorScheme, updatedColorScheme, hasUnsavedChanges,
                  maxUndoHistoryExceeded, editing>> /\ saving' = NoSave
  BY DEF SaveFails, flags
<1>2. \/ UNCHANGED <<stored, overlap>>
      \/ stored' = saving /\ overlap' = TRUE /\ saving # NoSave
  BY DEF SaveFails
<1>3. LayoutTypeOK'
  BY <1>1, <1>2 DEF LayoutInv, LayoutTypeOK, limit
<1>4. HistoryInv' /\ NothingUnsavedForgotten'
  BY <1>1, <1>2 DEF LayoutInv, HistoryInv, NothingUnsavedForgotten, Bottom, limit
<1> QED BY <1>3, <1>4 DEF LayoutInv

LEMMA LayoutInitInv == LayoutInit => LayoutInv
<1> SUFFICES ASSUME LayoutInit PROVE LayoutInv
  OBVIOUS
<1>1. UNDO_LIMIT \in Nat /\ limit = UNDO_LIMIT + 2 /\ Len(past) = 0 /\ Len(future) = 0
  BY LayoutAssumption DEF LayoutInit, limit
<1>2. LayoutTypeOK
  <2>1. past \in Seq(Layouts) /\ future \in Seq(Layouts) /\ Len(past) < limit
    BY <1>1 DEF LayoutInit
  <2>2. present \in Layouts /\ colorScheme \in Schemes /\ saving = NoSave
        /\ stored = <<present, colorScheme>>
    BY DEF LayoutInit
  <2>3. /\ updatedColorScheme = FALSE /\ hasUnsavedChanges = FALSE
        /\ maxUndoHistoryExceeded = FALSE /\ editing = FALSE /\ overlap = FALSE
    BY DEF LayoutInit
  <2> QED BY <2>1, <2>2, <2>3 DEF LayoutTypeOK
<1>3. HistoryInv /\ NothingUnsavedForgotten
  BY <1>1 DEF LayoutInit, HistoryInv, NothingUnsavedForgotten, Bottom
<1> QED BY <1>2, <1>3 DEF LayoutInv

LEMMA LayoutNextInv == LayoutInv /\ [LayoutNext]_layoutVars => LayoutInv'
<1> SUFFICES ASSUME LayoutInv, [LayoutNext]_layoutVars PROVE LayoutInv'
  OBVIOUS
<1> QED BY EditKeepsInv, UndoKeepsInv, RedoKeepsInv, ModeKeepsInv, ColoursKeepInv,
           NewHistoryKeepsInv, SaveFailsKeepsInv DEF LayoutNext

(* actions/dashboardLayout.js:277-283.  For any limit of the undo history,   *)
(* and any sequence of edits, undos, redos and saves that do not overlap     *)
(* with edits: a page that says it has nothing to save shows what is stored. *)
THEOREM NothingUnsavedForgottenAlways == LayoutSpec => []NothingUnsavedForgotten
<1>1. LayoutInv => NothingUnsavedForgotten
  BY DEF LayoutInv
<1> QED BY <1>1, LayoutInitInv, LayoutNextInv, PTL DEF LayoutSpec

(* The history keeps its type, and its length stays below redux-undo's limit. *)
THEOREM LayoutTypeOKAlways == LayoutSpec => []LayoutTypeOK
<1>1. LayoutInv => LayoutTypeOK
  BY DEF LayoutInv
<1> QED BY <1>1, LayoutInitInv, LayoutNextInv, PTL DEF LayoutSpec

-----------------------------------------------------------------------------
(* The charts and what they ask *)

(* What holds of one chart whatever the others do: its entry e and its       *)
(* queries q agree; overlapping are the charts whose queries do.             *)
Fine(c, e, q, overlapping, seen) ==
  /\ c \in seen => ~e.triggerQuery
  /\ e.chartStatus = "loading"
       => (\E s \in Slots : q[s] # Nothing) \/ (e.triggerQuery /\ c \notin seen)
  /\ c \notin overlapping
       => /\ \A s \in Slots : q[s] # Nothing => q[s] = e.latestQueryFormData
          /\ (\A s \in Slots : q[s] = Nothing)
               => e.queriesResponse \in {e.latestQueryFormData, Nothing}

AllFine ==
  /\ charts \in [Charts -> Entry] /\ flight \in [Charts -> [Slots -> Forms]]
  /\ mixed \subseteq Charts
  /\ \A c \in Charts : Fine(c, charts[c], flight[c], mixed, visible)

ChartsInv == ChartsTypeOK /\ AllFine

LEMMA FormDataIsAForm ==
  ASSUME NEW c \in Charts, NEW mask \in [Filters -> Values]
  PROVE  FormData(c, mask) \in Forms /\ FormData(c, mask) # Nothing
<1> DEFINE F == {g \in Filters : c \in Scope[g]}
<1>1. F \in SUBSET Filters
  OBVIOUS
<1>2. FormData(c, mask) \in [F -> Values]
  BY DEF FormData
<1>3. FormData(c, mask) # Nothing
  BY <1>1, <1>2, DashboardAssumption
<1>4. [F -> Values] \subseteq Forms
  BY <1>1 DEF Forms
<1> QED BY <1>2, <1>3, <1>4

LEMMA FormDataUnaffected ==
  ASSUME NEW c \in Charts, NEW m1 \in [Filters -> Values], NEW m2 \in [Filters -> Values],
         \A f \in Filters : c \in Scope[f] => m1[f] = m2[f]
  PROVE  FormData(c, m1) = FormData(c, m2)
BY DEF FormData

(* The charts cs ask; whatever was done to the others left them fine.        *)
LEMMA AskKeepsFine ==
  ASSUME NEW cs \in SUBSET Charts, NEW form, NEW entry \in [Charts -> Entry],
         NEW busy \in [Charts -> [Slots -> Forms]], mixed \subseteq Charts,
         \A c \in cs : form[c] \in Forms /\ form[c] # Nothing,
         \A c \in Charts \ cs : Fine(c, entry[c], busy[c], mixed, visible'),
         Ask(cs, form, entry, busy)
  PROVE  /\ AllFine'
         /\ \A c \in cs : ~charts'[c].triggerQuery /\ charts'[c].latestQueryFormData = form[c]
         /\ \A c \in Charts \ cs : charts'[c] = entry[c]
<1> DEFINE free(c) == CHOOSE s \in Slots : busy[c][s] = Nothing
<1>1. \A c \in cs : free(c) \in Slots /\ busy[c][free(c)] = Nothing
  BY DEF Ask
<1>2. \A c \in cs : /\ charts'[c] = Asks(entry[c], form[c])
                    /\ flight'[c] = [busy[c] EXCEPT ![free(c)] = form[c]]
                    /\ c \in mixed' <=> \E s \in Slots : busy[c][s] # Nothing
  BY DEF Ask
<1>3. \A c \in Charts \ cs : /\ charts'[c] = entry[c] /\ flight'[c] = busy[c]
                             /\ c \in mixed' <=> c \in mixed
  BY DEF Ask
<1>4. /\ charts' = [c \in Charts |-> charts'[c]] /\ flight' = [c \in Charts |-> flight'[c]]
      /\ mixed' \subseteq Charts
  BY DEF Ask
<1> HIDE DEF free
<1>5. ASSUME NEW c \in cs
      PROVE  /\ charts'[c] \in Entry /\ flight'[c] \in [Slots -> Forms]
             /\ ~charts'[c].triggerQuery /\ charts'[c].latestQueryFormData = form[c]
             /\ Fine(c, charts'[c], flight'[c], mixed', visible')
  <2>1. entry[c] \in Entry /\ busy[c] \in [Slots -> Forms] /\ form[c] \in Forms /\ form[c] # Nothing
    OBVIOUS
  <2>2. /\ charts'[c] \in Entry /\ ~charts'[c].triggerQuery
        /\ charts'[c].latestQueryFormData = form[c]
    BY <1>2, <2>1 DEF Asks, Entry
  <2>3. free(c) \in Slots /\ flight'[c] = [busy[c] EXCEPT ![free(c)] = form[c]]
    BY <1>1, <1>2
  <2>4. flight'[c] \in [Slots -> Forms] /\ flight'[c][free(c)] = form[c]
    BY <2>1, <2>3
  <2>5. \A s \in Slots : s # free(c) => flight'[c][s] = busy[c][s]
    BY <2>1, <2>3
  <2>6. Fine(c, charts'[c], flight'[c], mixed', visible')
    <3>1. \E s \in Slots : flight'[c][s] # Nothing
      BY <2>1, <2>3, <2>4
    <3>2. c \notin mixed'
            => \A s \in Slots :
                  flight'[c][s] # Nothing => flight'[c][s] = charts'[c].latestQueryFormData
      BY <1>2, <2>2, <2>4, <2>5
    <3> QED BY <2>2, <3>1, <3>2 DEF Fine
  <2> QED BY <2>2, <2>4, <2>6
<1>6. ASSUME NEW c \in Charts \ cs
      PROVE  /\ charts'[c] \in Entry /\ flight'[c] \in [Slots -> Forms]
             /\ Fine(c, charts'[c], flight'[c], mixed', visible')
  BY <1>3 DEF Fine
<1>7. \A c \in Charts : /\ charts'[c] \in Entry /\ flight'[c] \in [Slots -> Forms]
                        /\ Fine(c, charts'[c], flight'[c], mixed', visible')
  BY <1>5, <1>6
<1>8. AllFine'
  BY <1>4, <1>7 DEF AllFine
<1> QED BY <1>3, <1>5, <1>8

(* The charts cs are rendered with triggerQuery set.                         *)
LEMMA runQueryKeepsFine ==
  ASSUME NEW cs \in SUBSET Charts, NEW entry \in [Charts -> Entry],
         NEW busy \in [Charts -> [Slots -> Forms]], mixed \subseteq Charts,
         dataMask' \in [Filters -> Values],
         \A c \in Charts \ cs : Fine(c, entry[c], busy[c], mixed, visible'),
         runQuery(cs, entry, busy)
  PROVE  /\ AllFine'
         /\ \A c \in cs : ~charts'[c].triggerQuery
                         /\ charts'[c].latestQueryFormData = FormData(c, dataMask')
         /\ \A c \in Charts \ cs : charts'[c] = entry[c]
<1> DEFINE form == [c \in Charts |-> FormData(c, dataMask')]
<1>1. \A c \in cs : form[c] \in Forms /\ form[c] # Nothing
  BY FormDataIsAForm
<1>2. Ask(cs, form, entry, busy)
  BY DEF runQuery
<1>3. \A c \in cs : form[c] = FormData(c, dataMask')
  OBVIOUS
<1> HIDE DEF form
<1>4. /\ AllFine'
      /\ \A c \in cs : ~charts'[c].triggerQuery /\ charts'[c].latestQueryFormData = form[c]
      /\ \A c \in Charts \ cs : charts'[c] = entry[c]
  BY <1>1, <1>2, AskKeepsFine
<1> QED BY <1>3, <1>4

-----------------------------------------------------------------------------
(* Filters are applied, unless the dashboard is being edited: the charts in  *)
(* the scope of those that changed are triggered, and of these the visible   *)
(* ones ask.  The others asked what applies before and after.                *)
LEMMA ApplyKeepsInv ==
  ASSUME ChartsInv, NEW mask \in [Filters -> Values], dataMask' = mask,
         editMode' \in BOOLEAN, visible' = visible, applyCharts(mask)
  PROVE  ChartsInv' /\ (AskedWhatApplies => AskedWhatApplies')
<1>1. ChartsTypeOK /\ AllFine
  BY DEF ChartsInv
<1>2. CASE editMode'
  <2>1. UNCHANGED <<appliedFilters, charts, flight, outdated, mixed>>
    BY <1>2 DEF applyCharts
  <2>2. ChartsTypeOK'
    BY <1>1, <2>1 DEF ChartsTypeOK
  <2>3. AllFine'
    BY <1>1, <2>1 DEF AllFine, Fine
  <2>4. AskedWhatApplies => AskedWhatApplies'
    BY <1>2, <2>1 DEF AskedWhatApplies
  <2> QED BY <2>2, <2>3, <2>4 DEF ChartsInv
<1>3. CASE ~editMode'
  <2> DEFINE cs == Affected(mask) \cap visible
             entry == [c \in Charts |-> IF c \in Affected(mask)
                                        THEN [charts[c] EXCEPT !.triggerQuery = TRUE,
                                                               !.chartStatus = "loading"]
                                        ELSE charts[c]]
  <2>1. appliedFilters' = mask /\ runQuery(cs, entry, flight)
    BY <1>3 DEF applyCharts
  <2>2. cs \in SUBSET Charts /\ dataMask' \in [Filters -> Values] /\ mixed \subseteq Charts
        /\ charts \in [Charts -> Entry] /\ flight \in [Charts -> [Slots -> Forms]]
    BY <1>1 DEF ChartsTypeOK
  <2>3. entry \in [Charts -> Entry]
    BY <2>2 DEF Entry
  <2>4. ASSUME NEW c \in Charts, c \notin Affected(mask)
        PROVE  entry[c] = charts[c]
    BY <2>4
  <2>5. ASSUME NEW c \in Charts, c \in Affected(mask)
        PROVE  entry[c].triggerQuery = TRUE /\ entry[c].chartStatus = "loading"
               /\ entry[c].latestQueryFormData = charts[c].latestQueryFormData
               /\ entry[c].queriesResponse = charts[c].queriesResponse
    BY <2>2, <2>5 DEF Entry
  <2> HIDE DEF entry
  <2>6. ASSUME NEW c \in Charts \ cs
        PROVE  Fine(c, entry[c], flight[c], mixed, visible')
    <3>1. Fine(c, charts[c], flight[c], mixed, visible)
      BY <1>1 DEF AllFine
    <3>2. CASE c \in Affected(mask)
      <4>1. c \notin visible
        BY <3>2
      <4> QED BY <2>5, <3>1, <3>2, <4>1 DEF Fine
    <3>3. CASE c \notin Affected(mask)
      BY <2>4, <3>1, <3>3
    <3> QED BY <3>2, <3>3
  <2>7. /\ AllFine'
        /\ \A c \in cs : ~charts'[c].triggerQuery
                         /\ charts'[c].latestQueryFormData = FormData(c, dataMask')
        /\ \A c \in Charts \ cs : charts'[c] = entry[c]
    <3> HIDE DEF cs
    <3> QED BY <2>1, <2>2, <2>3, <2>6, runQueryKeepsFine
  <2>8. outdated' = outdated \ cs
    BY <1>3, <2>1 DEF runQuery
  <2>9. ChartsTypeOK'
    BY <1>1, <2>1, <2>2, <2>7, <2>8 DEF ChartsTypeOK, AllFine
  <2>10. ASSUME AskedWhatApplies
         PROVE  AskedWhatApplies'
    <3>1. ASSUME NEW c \in Charts \ outdated', ~charts'[c].triggerQuery
          PROVE  charts'[c].latestQueryFormData = FormData(c, mask)
      <4>1. CASE c \in cs
        BY <2>7, <4>1
      <4>2. CASE c \notin cs
        <5>1. charts'[c] = entry[c] /\ c \notin outdated
          BY <2>7, <2>8, <4>2
        <5>2. c \notin Affected(mask)
          BY <2>5, <3>1, <5>1
        <5>3. charts[c].latestQueryFormData = FormData(c, appliedFilters)
          BY <2>4, <2>10, <3>1, <5>1, <5>2 DEF AskedWhatApplies
        <5>4. \A f \in Filters : c \in Scope[f] => mask[f] = appliedFilters[f]
          BY <5>2 DEF Affected
        <5>5. FormData(c, mask) = FormData(c, appliedFilters)
          BY <1>1, <5>4, FormDataUnaffected DEF ChartsTypeOK
        <5>6. charts'[c] = charts[c]
          BY <2>4, <5>1, <5>2
        <5> QED BY <5>3, <5>5, <5>6
      <4> QED BY <4>1, <4>2
    <3> QED BY <2>1, <3>1 DEF AskedWhatApplies
  <2> QED BY <2>7, <2>9, <2>10 DEF ChartsInv
<1> QED BY <1>2, <1>3

(* A chart is shown, or answered: if it is triggered it asks, and notes that *)
(* it did so in edit mode.                                                   *)
LEMMA TriggeredAsksKeepsInv ==
  ASSUME ChartsInv, NEW c \in Charts, NEW entry \in [Charts -> Entry],
         NEW busy \in [Charts -> [Slots -> Forms]],
         UNCHANGED <<dataMask, appliedFilters, editMode>>,
         visible' \subseteq Charts,
         ~charts[c].triggerQuery => Fine(c, entry[c], busy[c], mixed, visible'),
         \A d \in Charts \ {c} : Fine(d, entry[d], busy[d], mixed, visible'),
         \A d \in Charts : /\ entry[d].triggerQuery = charts[d].triggerQuery
                           /\ entry[d].latestQueryFormData = charts[d].latestQueryFormData,
         runQuery({d \in {c} : charts[d].triggerQuery}, entry, busy)
  PROVE  ChartsInv' /\ (AskedWhatApplies => AskedWhatApplies')
<1> DEFINE cs == {d \in {c} : charts[d].triggerQuery}
<1>1. ChartsTypeOK
  BY DEF ChartsInv
<1>2. cs \in SUBSET Charts /\ mixed \subseteq Charts /\ dataMask' \in [Filters -> Values]
  BY <1>1 DEF ChartsTypeOK
<1>3. \A d \in Charts \ cs : Fine(d, entry[d], busy[d], mixed, visible')
  OBVIOUS
<1>4. runQuery(cs, entry, busy)
  OBVIOUS
<1> HIDE DEF cs
<1>5. /\ AllFine'
      /\ \A d \in cs : ~charts'[d].triggerQuery
                       /\ charts'[d].latestQueryFormData = FormData(d, dataMask')
      /\ \A d \in Charts \ cs : charts'[d] = entry[d]
  BY <1>2, <1>3, <1>4, runQueryKeepsFine
<1>6. outdated' = IF editMode THEN outdated \cup cs ELSE outdated \ cs
  BY <1>4 DEF runQuery
<1>7. ChartsTypeOK'
  BY <1>1, <1>2, <1>5, <1>6 DEF ChartsTypeOK, AllFine
<1>8. ASSUME AskedWhatApplies
      PROVE  AskedWhatApplies'
  <2>1. ASSUME NEW d \in Charts \ outdated', ~charts'[d].triggerQuery
        PROVE  charts'[d].latestQueryFormData = FormData(d, appliedFilters)
    <3>1. CASE d \in cs
      <4>1. ~editMode
        BY <1>6, <3>1
      <4>2. appliedFilters = dataMask
        BY <1>8, <4>1 DEF AskedWhatApplies
      <4> QED BY <1>5, <3>1, <4>2
    <3>2. CASE d \notin cs
      <4>1. charts'[d] = entry[d] /\ d \notin outdated
        BY <1>5, <1>6, <3>2
      <4>2. ~charts[d].triggerQuery
        BY <2>1, <4>1
      <4>3. charts[d].latestQueryFormData = FormData(d, appliedFilters)
        BY <1>8, <4>1, <4>2 DEF AskedWhatApplies
      <4> QED BY <4>1, <4>3
    <3> QED BY <3>1, <3>2
  <2>2. ~editMode => appliedFilters = dataMask
    BY <1>8 DEF AskedWhatApplies
  <2> QED BY <2>1, <2>2 DEF AskedWhatApplies
<1> QED BY <1>5, <1>7, <1>8 DEF ChartsInv

LEMMA ShowKeepsInv ==
  ASSUME ChartsInv, NEW c \in Charts, Show(c)
  PROVE  ChartsInv' /\ (AskedWhatApplies => AskedWhatApplies')
<1>1. ChartsTypeOK /\ AllFine
  BY DEF ChartsInv
<1>2. /\ c \notin visible /\ visible' = visible \cup {c}
      /\ UNCHANGED <<dataMask, appliedFilters, editMode>>
      /\ runQuery({d \in {c} : charts[d].triggerQuery}, charts, flight)
  BY DEF Show
<1>3. /\ charts \in [Charts -> Entry] /\ flight \in [Charts -> [Slots -> Forms]]
      /\ visible' \subseteq Charts
  BY <1>1, <1>2 DEF ChartsTypeOK
<1>4. \A d \in Charts : Fine(d, charts[d], flight[d], mixed, visible)
  BY <1>1 DEF AllFine
<1>5. \A d \in Charts \ {c} : Fine(d, charts[d], flight[d], mixed, visible')
  BY <1>2, <1>4 DEF Fine
<1>6. ~charts[c].triggerQuery => Fine(c, charts[c], flight[c], mixed, visible')
  BY <1>4 DEF Fine
<1> QED BY <1>2, <1>3, <1>5, <1>6, TriggeredAsksKeepsInv

LEMMA AnsweredKeepsInv ==
  ASSUME ChartsInv, NEW c \in Charts, NEW s \in Slots, NEW status, NEW response,
         status \in {"success", "failed"}, response \in {flight[c][s], Nothing},
         Answered(c, s, status, response)
  PROVE  ChartsInv' /\ (AskedWhatApplies => AskedWhatApplies')
<1> DEFINE entry == [charts EXCEPT ![c].chartStatus = status, ![c].queriesResponse = response]
           busy  == [flight EXCEPT ![c][s] = Nothing]
<1>1. ChartsTypeOK /\ AllFine
  BY DEF ChartsInv
<1>2. /\ flight[c][s] # Nothing /\ UNCHANGED <<dataMask, appliedFilters, editMode, visible>>
      /\ runQuery({d \in {c} : charts[d].triggerQuery}, entry, busy)
  BY DEF Answered
<1>3. /\ charts \in [Charts -> Entry] /\ flight \in [Charts -> [Slots -> Forms]]
      /\ visible' \subseteq Charts
  BY <1>1, <1>2 DEF ChartsTypeOK
<1>4. Nothing \in Forms /\ flight[c] \in [Slots -> Forms] /\ flight[c][s] \in Forms
  <2>1. Nothing \in Forms
    BY DEF Forms
  <2> QED BY <1>3, <2>1
<1>5. busy \in [Charts -> [Slots -> Forms]]
  BY <1>3, <1>4
<1>6. charts[c] \in Entry /\ response \in Forms
  BY <1>3, <1>4
<1>7. /\ entry[c].chartStatus = status /\ entry[c].queriesResponse = response
      /\ entry[c].triggerQuery = charts[c].triggerQuery
      /\ entry[c].latestQueryFormData = charts[c].latestQueryFormData
      /\ entry[c] \in Entry
  BY <1>3, <1>6 DEF Entry
<1>8. \A d \in Charts \ {c} : entry[d] = charts[d] /\ busy[d] = flight[d]
  BY <1>3
<1>9. entry \in [Charts -> Entry]
  <2>1. \A d \in Charts : entry[d] \in Entry
    BY <1>3, <1>7, <1>8
  <2>2. entry = [d \in Charts |-> entry[d]]
    BY <1>3
  <2> HIDE DEF entry
  <2> QED BY <2>1, <2>2
<1>10. busy[c][s] = Nothing /\ \A r \in Slots : r # s => busy[c][r] = flight[c][r]
  BY <1>3, <1>4
<1> HIDE DEF entry, busy
<1>11. \A d \in Charts : Fine(d, charts[d], flight[d], mixed, visible)
  BY <1>1 DEF AllFine
<1>12. \A d \in Charts \ {c} : Fine(d, entry[d], busy[d], mixed, visible')
  BY <1>2, <1>8, <1>11
<1>13. ASSUME ~charts[c].triggerQuery
       PROVE  Fine(c, entry[c], busy[c], mixed, visible')
  <2>1. Fine(c, charts[c], flight[c], mixed, visible)
    BY <1>11
  <2>2. entry[c].chartStatus # "loading" /\ ~entry[c].triggerQuery
    BY <1>7, <1>13
  <2>3. c \notin mixed => flight[c][s] = entry[c].latestQueryFormData
    BY <1>2, <1>7, <2>1 DEF Fine
  <2>4. c \notin mixed => entry[c].queriesResponse \in {entry[c].latestQueryFormData, Nothing}
    BY <1>7, <2>3
  <2>5. c \notin mixed
          => \A r \in Slots : busy[c][r] # Nothing => busy[c][r] = entry[c].latestQueryFormData
    BY <1>7, <1>10, <2>1 DEF Fine
  <2> QED BY <2>2, <2>4, <2>5 DEF Fine
<1>14. \A d \in Charts : /\ entry[d].triggerQuery = charts[d].triggerQuery
                         /\ entry[d].latestQueryFormData = charts[d].latestQueryFormData
  BY <1>7, <1>8
<1>15. UNCHANGED <<dataMask, appliedFilters, editMode>>
  BY <1>2
<1> QED BY <1>2, <1>3, <1>5, <1>9, <1>12, <1>13, <1>14, <1>15, TriggeredAsksKeepsInv

(* A refresh repeats the last query, which is the one that applies unless    *)
(* the chart was due to ask another.                                         *)
LEMMA refreshChartKeepsInv ==
  ASSUME ChartsInv, NEW c \in Charts, refreshChart(c)
  PROVE  ChartsInv' /\ (AskedWhatApplies => AskedWhatApplies')
<1> DEFINE form == [d \in Charts |-> charts[d].latestQueryFormData]
           cs   == {c}
<1>1. ChartsTypeOK /\ AllFine
  BY DEF ChartsInv
<1>2. /\ charts[c].latestQueryFormData # Nothing
      /\ UNCHANGED <<dataMask, appliedFilters, editMode, visible>>
      /\ outdated' = IF charts[c].triggerQuery THEN outdated \cup {c} ELSE outdated
      /\ Ask(cs, form, charts, flight)
  BY DEF refreshChart
<1>3. /\ charts \in [Charts -> Entry] /\ flight \in [Charts -> [Slots -> Forms]]
      /\ mixed \subseteq Charts /\ cs \in SUBSET Charts
  BY <1>1 DEF ChartsTypeOK
<1>4. \A d \in cs : form[d] \in Forms /\ form[d] # Nothing
  BY <1>2, <1>3 DEF Entry
<1>5. \A d \in Charts \ cs : Fine(d, charts[d], flight[d], mixed, visible')
  BY <1>1, <1>2 DEF AllFine
<1>6. form[c] = charts[c].latestQueryFormData
  OBVIOUS
<1> HIDE DEF form
<1>7. /\ AllFine'
      /\ \A d \in cs : ~charts'[d].triggerQuery /\ charts'[d].latestQueryFormData = form[d]
      /\ \A d \in Charts \ cs : charts'[d] = charts[d]
  <2> HIDE DEF cs
  <2> QED BY <1>2, <1>3, <1>4, <1>5, AskKeepsFine
<1>8. ChartsTypeOK'
  BY <1>1, <1>2, <1>7 DEF ChartsTypeOK, AllFine
<1>9. ASSUME AskedWhatApplies
      PROVE  AskedWhatApplies'
  <2>1. c \notin outdated' => ~charts[c].triggerQuery /\ c \notin outdated
    BY <1>2
  <2>2. c \notin outdated' => charts'[c].latestQueryFormData = FormData(c, appliedFilters)
    BY <1>6, <1>7, <1>9, <2>1 DEF AskedWhatApplies
  <2>3. \A d \in Charts : d # c => charts'[d] = charts[d]
    BY <1>7
  <2>4. \A d \in Charts \ outdated' :
          ~charts'[d].triggerQuery => charts'[d].latestQueryFormData = FormData(d, appliedFilters)
    BY <1>2, <1>9, <2>2, <2>3 DEF AskedWhatApplies
  <2>5. ~editMode => appliedFilters = dataMask
    BY <1>9 DEF AskedWhatApplies
  <2> QED BY <1>2, <2>4, <2>5 DEF AskedWhatApplies
<1> QED BY <1>7, <1>8, <1>9 DEF ChartsInv

LEMMA HideKeepsInv ==
  ASSUME ChartsInv, NEW c \in Charts, Hide(c)
  PROVE  ChartsInv' /\ (AskedWhatApplies => AskedWhatApplies')
<1>1. /\ visible' \subseteq visible
      /\ UNCHANGED <<dataMask, appliedFilters, editMode, charts, flight, outdated, mixed>>
  BY DEF Hide
<1>2. ChartsTypeOK'
  BY <1>1 DEF ChartsInv, ChartsTypeOK
<1>3. AllFine'
  <2>1. \A d \in Charts : Fine(d, charts[d], flight[d], mixed, visible)
                          => Fine(d, charts[d], flight[d], mixed, visible')
    BY <1>1 DEF Fine
  <2> QED BY <1>1, <2>1 DEF ChartsInv, AllFine
<1>4. AskedWhatApplies => AskedWhatApplies'
  BY <1>1 DEF AskedWhatApplies
<1> QED BY <1>2, <1>3, <1>4 DEF ChartsInv

LEMMA RenderedKeepsInv ==
  ASSUME ChartsInv, NEW c \in Charts, Rendered(c)
  PROVE  ChartsInv' /\ (AskedWhatApplies => AskedWhatApplies')
<1>1. PICK status \in {"rendered", "failed"} :
        charts' = [charts EXCEPT ![c].chartStatus = status]
  BY DEF Rendered
<1>2. UNCHANGED <<dataMask, appliedFilters, editMode, visible, flight, outdated, mixed>>
  BY DEF Rendered
<1>3. charts \in [Charts -> Entry] /\ charts[c] \in Entry
  BY DEF ChartsInv, ChartsTypeOK
<1>4. /\ charts'[c].chartStatus = status
      /\ charts'[c].triggerQuery = charts[c].triggerQuery
      /\ charts'[c].latestQueryFormData = charts[c].latestQueryFormData
      /\ charts'[c].queriesResponse = charts[c].queriesResponse
      /\ charts'[c] \in Entry
  BY <1>1, <1>3 DEF Entry
<1>5. \A d \in Charts : d # c => charts'[d] = charts[d]
  BY <1>1, <1>3
<1>6. charts' \in [Charts -> Entry]
  <2>1. \A d \in Charts : charts'[d] \in Entry
    BY <1>3, <1>4, <1>5
  <2>2. charts' = [d \in Charts |-> charts'[d]]
    BY <1>1, <1>3
  <2> QED BY <2>1, <2>2
<1>7. ChartsTypeOK'
  BY <1>2, <1>6 DEF ChartsInv, ChartsTypeOK
<1>8. ASSUME NEW d \in Charts PROVE Fine(d, charts'[d], flight[d], mixed, visible)
  <2>1. Fine(d, charts[d], flight[d], mixed, visible)
    BY DEF ChartsInv, AllFine
  <2>2. CASE d = c
    <3>1. charts'[c].chartStatus # "loading"
      BY <1>1, <1>4
    <3> QED BY <1>4, <2>1, <2>2, <3>1 DEF Fine
  <2>3. CASE d # c
    BY <1>5, <2>1, <2>3
  <2> QED BY <2>2, <2>3
<1>9. AllFine'
  BY <1>2, <1>6, <1>8 DEF AllFine, ChartsInv
<1>10. \A d \in Charts : /\ charts'[d].triggerQuery = charts[d].triggerQuery
                         /\ charts'[d].latestQueryFormData = charts[d].latestQueryFormData
  BY <1>4, <1>5
<1>11. AskedWhatApplies => AskedWhatApplies'
  BY <1>2, <1>10 DEF AskedWhatApplies
<1> QED BY <1>7, <1>9, <1>11 DEF ChartsInv

LEMMA ChartsNextInv ==
  ASSUME ChartsInv, [ChartsNext]_chartVars
  PROVE  ChartsInv' /\ (AskedWhatApplies => AskedWhatApplies')
<1>1. ASSUME NEW f \in Filters, NEW v \in Values, updateDataMask(f, v)
      PROVE  ChartsInv' /\ (AskedWhatApplies => AskedWhatApplies')
  <2>1. dataMask \in [Filters -> Values] /\ editMode \in BOOLEAN
    BY DEF ChartsInv, ChartsTypeOK
  <2>2. dataMask' \in [Filters -> Values] /\ UNCHANGED <<editMode, visible>>
        /\ applyCharts(dataMask')
    BY <1>1, <2>1 DEF updateDataMask
  <2>3. editMode' \in BOOLEAN /\ visible' = visible
    BY <2>1, <2>2
  <2> QED BY <2>2, <2>3, ApplyKeepsInv
<1>2. ASSUME setEditMode
      PROVE  ChartsInv' /\ (AskedWhatApplies => AskedWhatApplies')
  <2>1. dataMask \in [Filters -> Values] /\ dataMask' = dataMask /\ visible' = visible
        /\ applyCharts(dataMask)
    BY <1>2 DEF ChartsInv, ChartsTypeOK, setEditMode
  <2>2. editMode' \in BOOLEAN
    BY <1>2 DEF setEditMode
  <2> QED BY <2>1, <2>2, ApplyKeepsInv
<1>3. ASSUME NEW c \in Charts, Answers(c)
      PROVE  ChartsInv' /\ (AskedWhatApplies => AskedWhatApplies')
  <2>1. PICK s \in Slots : Succeeds(c, s) \/ Fails(c, s)
    BY <1>3 DEF Answers
  <2>2. CASE Succeeds(c, s)
    BY <2>2, AnsweredKeepsInv DEF Succeeds
  <2>3. CASE Fails(c, s)
    BY <2>3, AnsweredKeepsInv DEF Fails
  <2> QED BY <2>1, <2>2, <2>3
<1>4. ASSUME UNCHANGED chartVars
      PROVE  ChartsInv' /\ (AskedWhatApplies => AskedWhatApplies')
  BY <1>4 DEF chartVars, ChartsInv, ChartsTypeOK, AllFine, Fine, AskedWhatApplies
<1>5. ASSUME NEW c \in Charts,
             Show(c) \/ Hide(c) \/ refreshChart(c) \/ Answers(c) \/ Rendered(c)
      PROVE  ChartsInv' /\ (AskedWhatApplies => AskedWhatApplies')
  <2>1. CASE Show(c)
    BY <2>1, ShowKeepsInv
  <2>2. CASE Hide(c)
    BY <2>2, HideKeepsInv
  <2>3. CASE refreshChart(c)
    BY <2>3, refreshChartKeepsInv
  <2>4. CASE Answers(c)
    BY <1>3, <2>4
  <2>5. CASE Rendered(c)
    BY <2>5, RenderedKeepsInv
  <2> QED BY <1>5, <2>1, <2>2, <2>3, <2>4, <2>5
<1> QED BY <1>1, <1>2, <1>4, <1>5 DEF ChartsNext

LEMMA ChartsInitInv == ChartsInit => ChartsInv /\ AskedWhatApplies
<1> SUFFICES ASSUME ChartsInit PROVE ChartsInv /\ AskedWhatApplies
  OBVIOUS
<1>1. Nothing \in Forms
  BY DEF Forms
<1>2. NewEntry \in Entry /\ NewEntry.triggerQuery = TRUE /\ NewEntry.queriesResponse = Nothing
  BY <1>1 DEF NewEntry, Entry
<1>3. \A c \in Charts : charts[c] = NewEntry /\ \A s \in Slots : flight[c][s] = Nothing
  BY DEF ChartsInit
<1>4. charts \in [Charts -> Entry] /\ flight \in [Charts -> [Slots -> Forms]]
  BY <1>1, <1>2 DEF ChartsInit
<1>5. /\ visible = {} /\ outdated = {} /\ mixed = {} /\ editMode = FALSE
      /\ dataMask = [f \in Filters |-> Default] /\ appliedFilters = dataMask
  BY DEF ChartsInit
<1>6. ChartsTypeOK
  BY <1>4, <1>5, DashboardAssumption DEF ChartsTypeOK
<1>7. AllFine
  BY <1>2, <1>3, <1>4, <1>5 DEF AllFine, Fine
<1>8. AskedWhatApplies
  BY <1>2, <1>3, <1>5 DEF AskedWhatApplies
<1> QED BY <1>6, <1>7, <1>8 DEF ChartsInv

(* Whatever is asked and answered, the entries of the store, the queries and *)
(* the filters keep their types.                                             *)
THEOREM ChartsTypeOKAlways == ChartsSpec => []ChartsTypeOK
<1>1. ChartsInv => ChartsTypeOK
  BY DEF ChartsInv
<1>2. ChartsInit => ChartsInv
  BY ChartsInitInv
<1>3. ChartsInv /\ [ChartsNext]_chartVars => ChartsInv'
  BY ChartsNextInv
<1> QED BY <1>1, <1>2, <1>3, PTL DEF ChartsSpec

(* For any charts, filters and overlaps of queries, through refreshes of any *)
(* chart: a loading chart waits for something (chartReducer.ts,              *)
(* chartAction.js:563-586).                                                  *)
THEOREM LoadingMeansWorkAlways == ChartsSpec => []LoadingMeansWork
<1>1. ChartsInv => LoadingMeansWork
  BY DEF ChartsInv, AllFine, Fine, LoadingMeansWork
<1>2. ChartsInit => ChartsInv
  BY ChartsInitInv
<1>3. ChartsInv /\ [ChartsNext]_chartVars => ChartsInv'
  BY ChartsNextInv
<1> QED BY <1>1, <1>2, <1>3, PTL DEF ChartsSpec

(* And a chart whose queries were answered shows the answer to the last of   *)
(* them, or an error, unless they overlapped.                                *)
THEOREM ShowsLastAnswerAlways == ChartsSpec => []ShowsLastAnswer
<1>1. ChartsInv => ShowsLastAnswer
  BY DEF ChartsInv, AllFine, Fine, ShowsLastAnswer
<1>2. ChartsInit => ChartsInv
  BY ChartsInitInv
<1>3. ChartsInv /\ [ChartsNext]_chartVars => ChartsInv'
  BY ChartsNextInv
<1> QED BY <1>1, <1>2, <1>3, PTL DEF ChartsSpec

(* Dashboard.jsx:1813.  What a visible chart asked last is what the filters  *)
(* select, unless it asked in edit mode or was refreshed while due to ask.   *)
THEOREM ChartsUpToDateAlways == ChartsSpec => []ChartsUpToDate
<1> DEFINE Inv == ChartsInv /\ AskedWhatApplies
<1>1. Inv => ChartsUpToDate
  <2> SUFFICES ASSUME Inv, ~editMode, NEW c \in visible \ outdated
               PROVE  charts[c].latestQueryFormData = FormData(c, dataMask)
    BY DEF ChartsUpToDate
  <2>1. c \in Charts
    BY DEF ChartsInv, ChartsTypeOK
  <2>2. ~charts[c].triggerQuery
    BY <2>1 DEF ChartsInv, AllFine, Fine
  <2> QED BY <2>1, <2>2 DEF AskedWhatApplies
<1>2. ChartsInit => Inv
  BY ChartsInitInv
<1>3. Inv /\ [ChartsNext]_chartVars => Inv'
  BY ChartsNextInv
<1> QED BY <1>1, <1>2, <1>3, PTL DEF ChartsSpec
=============================================================================
