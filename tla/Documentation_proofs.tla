------------------------ MODULE Documentation_proofs ------------------------
(***************************************************************************)
(* Proofs about SearchPanel, for every index, set of texts and number of   *)
(* timers, and about Directory, for every number of files.  What the       *)
(* handlers of the panel do is stated over any state b of it, and over any *)
(* page r, as a handler is applied to what another one returns.            *)
(***************************************************************************)
EXTENDS SearchPanel, Directory, Lists_proofs, FiniteSetTheorems

Fields == {"value", "className", "searchActive", "focus", "link", "keyTimeout", "timers",
           "lastSearchValue", "lastResultsPage", "searchIndex", "marked", "results", "popup",
           "hideTimers", "location", "loading"}

\* The properties, of any state of the panel.
Latest(b) == b.results => b.location = <<b.lastResultsPage, b.lastSearchValue>>
Reset(b) ==
  /\ b.searchActive <=> b.className = "active"
  /\ ~ b.searchActive =>
       /\ b.value = searchLabel
       /\ ~ b.results => b.lastSearchValue = <<>> /\ b.lastResultsPage = Blank

\* What every handler keeps. Only an active panel has the focus in its field.
PanelOK(b) ==
  /\ DOMAIN b = Fields /\ b = [f \in Fields |-> b[f]]
  /\ b.searchActive \in BOOLEAN /\ b.results \in BOOLEAN
  /\ Latest(b) /\ Reset(b)
  /\ b.focus = "field" => b.searchActive

\* Only the pointer that leaves starts a timer that hides the list: of one at
\* most, handlers leave that one or none.
Unhidden(b, c) == b.hideTimers \in {0, 1} => c.hideTimers \in {0, b.hideTimers}

\* Handlers that open or close something are applied to a panel whose last
\* search may not be reset yet.
Closing(b) ==
  /\ DOMAIN b = Fields /\ b = [f \in Fields |-> b[f]]
  /\ b.searchActive \in BOOLEAN /\ b.results = FALSE
  /\ b.searchActive <=> b.className = "active"
  /\ ~ b.searchActive => b.value = searchLabel
  /\ b.focus # "field"

LEMMA ActivateOK ==
  ASSUME NEW b, PanelOK(b), NEW isActive \in BOOLEAN, b.focus # "field"
  PROVE  /\ PanelOK(Activate(b, isActive)) /\ Unhidden(b, Activate(b, isActive))
         /\ Activate(b, isActive).focus = b.focus /\ Activate(b, isActive).results = b.results
         /\ b.searchActive /\ b.results => Activate(b, isActive).searchActive
<1> DEFINE c == Activate(b, isActive)
<1> SUFFICES /\ PanelOK(c) /\ Unhidden(b, c) /\ c.focus = b.focus /\ c.results = b.results
             /\ b.searchActive /\ b.results => c.searchActive
  OBVIOUS
<1>1. /\ DOMAIN c = Fields /\ c = [f \in Fields |-> c[f]]
      /\ \A f \in Fields \ {"className", "value", "searchActive", "lastSearchValue",
                           "lastResultsPage"} : c[f] = b[f]
  BY DEF Activate, PanelOK
<1>2. /\ c.focus = b.focus /\ c.results = b.results /\ c.hideTimers = b.hideTimers
      /\ c.location = b.location
  BY <1>1 DEF Fields
<1>3. CASE isActive \/ b.results
  <2>1. /\ c.className = "active" /\ c.searchActive = (b.value = searchLabel \/ b.searchActive)
        /\ c.lastSearchValue = b.lastSearchValue /\ c.lastResultsPage = b.lastResultsPage
    BY <1>3 DEF Activate, PanelOK, Fields
  <2> HIDE DEF c
  <2> QED BY <1>1, <1>2, <2>1 DEF PanelOK, Latest, Reset, Unhidden
<1>4. CASE ~ (isActive \/ b.results)
  <2>1. /\ c.className = "inactive" /\ c.value = searchLabel /\ c.searchActive = FALSE
        /\ c.lastSearchValue = <<>> /\ c.lastResultsPage = Blank
    BY <1>4 DEF Activate, PanelOK, Fields
  <2> HIDE DEF c
  <2> QED BY <1>1, <1>2, <1>4, <2>1 DEF PanelOK, Latest, Reset, Unhidden
<1> QED BY <1>3, <1>4

LEMMA CloseOK ==
  ASSUME NEW b, Closing(b)
  PROVE  PanelOK(Activate(b, FALSE)) /\ Unhidden(b, Activate(b, FALSE))
BY DEF Activate, Closing, PanelOK, Latest, Reset, Unhidden, Fields, searchLabel

LEMMA FocusFieldOK ==
  ASSUME NEW b, PanelOK(b)
  PROVE  PanelOK(FocusField(b)) /\ Unhidden(b, FocusField(b))
<1> DEFINE c == [b EXCEPT !.focus = "field", !.link = NULL]
<1>1. CASE b.focus = "field"
  BY <1>1 DEF FocusField, Unhidden
<1>2. CASE b.focus # "field"
  <2>1. /\ DOMAIN c = Fields /\ c = [f \in Fields |-> c[f]]
        /\ \A f \in Fields \ {"focus", "link"} : c[f] = b[f]
    BY DEF PanelOK
  <2>2. FocusField(b) = Activate(c, TRUE)
    BY <1>2 DEF FocusField
  <2> HIDE DEF c
  <2>3. Unhidden(c, Activate(c, TRUE)) /\ Unhidden(b, c)
    BY <2>1 DEF Activate, Unhidden, Fields
  <2>4. PanelOK(Activate(c, TRUE))
    BY <2>1 DEF Activate, PanelOK, Latest, Reset, Fields, searchLabel
  <2> QED BY <2>2, <2>3, <2>4 DEF Unhidden
<1> QED BY <1>1, <1>2

LEMMA BlurOK ==
  ASSUME NEW b, PanelOK(b), NEW to, to # "field"
  PROVE  /\ PanelOK(Blur(b, to)) /\ Unhidden(b, Blur(b, to))
         /\ Blur(b, to).focus = to /\ Blur(b, to).results = b.results
         /\ b.searchActive /\ b.results => Blur(b, to).searchActive
<1>1. CASE b.focus = "field"
  <2> DEFINE c == [b EXCEPT !.focus = to]
  <2>1. /\ PanelOK(c) /\ Unhidden(b, c) /\ c.focus = to /\ c.results = b.results
        /\ c.searchActive = b.searchActive
    BY DEF PanelOK, Latest, Reset, Unhidden, Fields
  <2>2. /\ PanelOK(Activate(c, FALSE)) /\ Unhidden(c, Activate(c, FALSE))
        /\ Activate(c, FALSE).focus = c.focus /\ Activate(c, FALSE).results = c.results
        /\ c.searchActive /\ c.results => Activate(c, FALSE).searchActive
    BY <2>1, ActivateOK
  <2>3. Blur(b, to) = Activate(c, FALSE)
    BY <1>1 DEF Blur
  <2> HIDE DEF c
  <2> QED BY <2>1, <2>2, <2>3 DEF Unhidden
<1>2. CASE b.focus # "field"
  BY <1>2 DEF Blur, PanelOK, Latest, Reset, Unhidden, Fields
<1> QED BY <1>1, <1>2

LEMMA FocusLinkOK ==
  ASSUME NEW b, PanelOK(b), NEW r, NEW pos
  PROVE  /\ PanelOK(FocusLink(b, r, pos)) /\ Unhidden(b, FocusLink(b, r, pos))
         /\ b.searchActive => FocusLink(b, r, pos).searchActive
<1> DEFINE c == Blur(b, "results")
<1>1. CASE FocusLink(b, r, pos) = b
  BY <1>1 DEF Unhidden
<1>2. CASE b.results /\ FocusLink(b, r, pos) = [c EXCEPT !.link = pos]
  <2>1. /\ PanelOK(c) /\ Unhidden(b, c) /\ c.focus = "results"
        /\ b.searchActive => c.searchActive
    BY <1>2, BlurOK
  <2> HIDE DEF c
  <2> QED BY <1>2, <2>1 DEF PanelOK, Latest, Reset, Unhidden, Fields
<1> QED BY <1>1, <1>2 DEF FocusLink

LEMMA SearchOK ==
  ASSUME NEW b, PanelOK(b)
  PROVE  /\ PanelOK(Search(b)) /\ Unhidden(b, Search(b))
         /\ Search(b).searchActive = b.searchActive /\ Search(b).focus = b.focus
<1> DEFINE search == NoLeading(b.value)
           resultsPage == ResultsPage(b.searchIndex, search)
<1> HIDE DEF search, resultsPage
<1>1. Search(b) = IF b.searchIndex \notin Sections THEN [b EXCEPT !.keyTimeout = FALSE]
       ELSE [b EXCEPT !.keyTimeout = FALSE, !.location = <<resultsPage, search>>, !.loading = TRUE,
                      !.results = TRUE, !.lastSearchValue = search, !.lastResultsPage = resultsPage]
  BY DEF Search, search, resultsPage
<1> DEFINE c == Search(b)
<1> SUFFICES PanelOK(c) /\ Unhidden(b, c) /\ c.searchActive = b.searchActive /\ c.focus = b.focus
  OBVIOUS
<1>2. CASE c = [b EXCEPT !.keyTimeout = FALSE]
  <2>1. /\ DOMAIN c = Fields /\ c = [f \in Fields |-> c[f]]
        /\ \A f \in Fields \ {"keyTimeout"} : c[f] = b[f]
    BY <1>2 DEF PanelOK
  <2> HIDE DEF c
  <2> QED BY <2>1 DEF PanelOK, Latest, Reset, Unhidden, Fields
<1>3. CASE c = [b EXCEPT !.keyTimeout = FALSE, !.location = <<resultsPage, search>>,
                         !.loading = TRUE, !.results = TRUE, !.lastSearchValue = search,
                         !.lastResultsPage = resultsPage]
  <2>1. /\ DOMAIN c = Fields /\ c = [f \in Fields |-> c[f]]
        /\ \A f \in Fields \ {"keyTimeout", "location", "loading", "results",
                             "lastSearchValue", "lastResultsPage"} : c[f] = b[f]
    BY <1>3 DEF PanelOK
  <2>2. /\ c.results = TRUE /\ c.location = <<resultsPage, search>>
        /\ c.lastSearchValue = search /\ c.lastResultsPage = resultsPage
    BY <1>3 DEF PanelOK, Fields
  <2>3. /\ c.searchActive = b.searchActive /\ c.className = b.className /\ c.value = b.value
        /\ c.focus = b.focus /\ c.hideTimers = b.hideTimers
    BY <2>1 DEF Fields
  <2> HIDE DEF c
  <2> QED BY <2>1, <2>2, <2>3 DEF PanelOK, Latest, Reset, Unhidden
<1> QED BY <1>1, <1>2, <1>3

LEMMA OnSelectItemOK ==
  ASSUME NEW b, PanelOK(b), NEW id
  PROVE  PanelOK(OnSelectItem(b, id)) /\ Unhidden(b, OnSelectItem(b, id))
<1> DEFINE chosen == [b EXCEPT !.searchIndex = id, !.marked = {id} \intersect Sections]
<1>1. PanelOK(chosen) /\ Unhidden(b, chosen)
  BY DEF PanelOK, Latest, Reset, Unhidden, Fields
<1>2. OnSelectItem(b, id) = chosen \/ OnSelectItem(b, id) = Search(chosen)
  BY DEF OnSelectItem
<1> HIDE DEF chosen
<1> QED BY <1>1, <1>2, SearchOK DEF Unhidden

LEMMA HideResultsOK ==
  ASSUME NEW b, PanelOK(b)
  PROVE  /\ b.focus # "field" => Closing(HideResults(b))
         /\ b.searchActive => PanelOK([HideResults(b) EXCEPT !.lastSearchValue = <<>>])
         /\ Unhidden(b, HideResults(b))
         /\ Unhidden(b, [HideResults(b) EXCEPT !.lastSearchValue = <<>>])
BY DEF HideResults, Closing, PanelOK, Latest, Reset, Unhidden, Fields

LEMMA CloseResultsWindowOK ==
  ASSUME NEW b, PanelOK(b), b.focus # "field"
  PROVE  PanelOK(CloseResultsWindow(b)) /\ Unhidden(b, CloseResultsWindow(b))
<1> DEFINE c == HideResults(b)
<1>1. Closing(c) /\ Unhidden(b, c)
  BY HideResultsOK
<1>2. CloseResultsWindow(b) = Activate(c, FALSE)
  BY DEF CloseResultsWindow
<1> HIDE DEF c
<1> QED BY <1>1, <1>2, CloseOK DEF Unhidden

LEMMA CompareOK ==
  ASSUME NEW b, PanelOK(b), b.searchActive
  PROVE  PanelOK(Compare(b)) /\ Unhidden(b, Compare(b))
<1>1. \/ Compare(b) = b
      \/ Compare(b) = [b EXCEPT !.keyTimeout = TRUE, !.timers = @ + 1]
      \/ Compare(b) = [HideResults(b) EXCEPT !.lastSearchValue = <<>>]
  BY DEF Compare
<1>2. CASE Compare(b) = b
  BY <1>2 DEF Unhidden
<1>3. CASE Compare(b) = [b EXCEPT !.keyTimeout = TRUE, !.timers = @ + 1]
  BY <1>3 DEF PanelOK, Latest, Reset, Unhidden, Fields
<1>4. CASE Compare(b) = [HideResults(b) EXCEPT !.lastSearchValue = <<>>]
  BY <1>4, HideResultsOK
<1> QED BY <1>1, <1>2, <1>3, <1>4

\* The handlers of the field, of the list of sections and of the links.

LEMMA OnSearchFieldChangeOK ==
  ASSUME NEW b, PanelOK(b), b.focus = "field", NEW key
  PROVE  PanelOK(OnSearchFieldChange(b, key)) /\ Unhidden(b, OnSearchFieldChange(b, key))
<1> DEFINE killed == IF b.keyTimeout THEN [b EXCEPT !.keyTimeout = FALSE, !.timers = @ - 1] ELSE b
           down == FocusLink(killed, page, NavNext(page, 0))
           away == Blur(killed, "none")
           list == OnSearchSelectShow(killed)
<1>1. /\ PanelOK(killed) /\ Unhidden(b, killed)
      /\ killed.focus = "field" /\ killed.searchActive
  BY DEF PanelOK, Latest, Reset, Unhidden, Fields
<1>2. \/ OnSearchFieldChange(b, key) = Blur(list, "filter")
      \/ OnSearchFieldChange(b, key) = Compare(down)
      \/ OnSearchFieldChange(b, key) =
           Activate([HideResults(away) EXCEPT !.lastSearchValue = <<>>], FALSE)
      \/ OnSearchFieldChange(b, key) = Compare(killed)
  BY DEF OnSearchFieldChange
<1> HIDE DEF killed
<1>3. CASE OnSearchFieldChange(b, key) = Blur(list, "filter")
  <2>1. PanelOK(list) /\ Unhidden(killed, list)
    <3>1. PanelOK(list)
      BY <1>1 DEF OnSearchSelectShow, PanelOK, Latest, Reset, Fields
    <3>2. list.hideTimers = IF killed.hideTimers > 0 THEN killed.hideTimers - 1 ELSE 0
      BY <1>1 DEF OnSearchSelectShow, PanelOK, Fields
    <3> QED BY <3>1, <3>2 DEF Unhidden
  <2> HIDE DEF list
  <2>2. PanelOK(Blur(list, "filter")) /\ Unhidden(list, Blur(list, "filter"))
    BY <2>1, BlurOK
  <2> QED BY <1>1, <1>3, <2>1, <2>2 DEF Unhidden
<1>4. CASE OnSearchFieldChange(b, key) = Compare(down)
  <2>1. PanelOK(down) /\ Unhidden(killed, down) /\ down.searchActive
    BY <1>1, FocusLinkOK
  <2> HIDE DEF down
  <2> QED BY <1>1, <1>4, <2>1, CompareOK DEF Unhidden
<1>5. CASE OnSearchFieldChange(b, key) =
             Activate([HideResults(away) EXCEPT !.lastSearchValue = <<>>], FALSE)
  <2> DEFINE hidden == HideResults(away)
             cleared == [hidden EXCEPT !.lastSearchValue = <<>>]
  <2>1. PanelOK(away) /\ Unhidden(killed, away) /\ away.focus # "field"
    BY <1>1, BlurOK
  <2> HIDE DEF away
  <2>2. Closing(hidden) /\ Unhidden(away, hidden)
    BY <2>1, HideResultsOK
  <2> HIDE DEF hidden
  <2>3. Closing(cleared) /\ Unhidden(hidden, cleared)
    BY <2>2 DEF Closing, Unhidden, Fields
  <2> HIDE DEF cleared
  <2>4. PanelOK(Activate(cleared, FALSE)) /\ Unhidden(cleared, Activate(cleared, FALSE))
    BY <2>3, CloseOK
  <2>5. OnSearchFieldChange(b, key) = Activate(cleared, FALSE)
    BY <1>5 DEF cleared, hidden
  <2> QED BY <1>1, <2>1, <2>2, <2>3, <2>4, <2>5 DEF Unhidden
<1>6. CASE OnSearchFieldChange(b, key) = Compare(killed)
  BY <1>1, <1>6, CompareOK DEF Unhidden
<1> QED BY <1>2, <1>3, <1>4, <1>5, <1>6

LEMMA CloseSelectionWindowOK ==
  ASSUME NEW b, PanelOK(b)
  PROVE  PanelOK(CloseSelectionWindow(b)) /\ Unhidden(b, CloseSelectionWindow(b))
BY DEF CloseSelectionWindow, PanelOK, Latest, Reset, Unhidden, Fields

LEMMA OnSearchSelectKeyOK ==
  ASSUME NEW b, PanelOK(b), NEW key
  PROVE  PanelOK(OnSearchSelectKey(b, key)) /\ Unhidden(b, OnSearchSelectKey(b, key))
<1> DEFINE chosen == OnSelectItem(b, b.searchIndex)
           closed == CloseSelectionWindow(chosen)
<1>1. \/ \E id : OnSearchSelectKey(b, key) = OnSelectItem(b, id)
      \/ OnSearchSelectKey(b, key) = FocusField(closed)
      \/ OnSearchSelectKey(b, key) = b
  BY DEF OnSearchSelectKey
<1>2. PanelOK(chosen) /\ Unhidden(b, chosen)
  BY OnSelectItemOK
<1> HIDE DEF chosen
<1>3. PanelOK(closed) /\ Unhidden(chosen, closed)
  BY <1>2, CloseSelectionWindowOK
<1> HIDE DEF closed
<1>4. PanelOK(FocusField(closed)) /\ Unhidden(closed, FocusField(closed))
  BY <1>3, FocusFieldOK
<1> QED BY <1>1, <1>2, <1>3, <1>4, OnSelectItemOK DEF Unhidden

LEMMA LinkKeyOK ==
  ASSUME PanelOK(box), NEW type, NEW key, LinkKey(type, key)
  PROVE  PanelOK(box') /\ Unhidden(box, box')
<1> DEFINE r == ProcessKeys(page, type, key)
           closed == CloseResultsWindow(box)
<1> HIDE DEF r, closed
<1>1. \/ box' = box
      \/ box' = FocusField(box)
      \/ \E pos : box' = FocusLink(box, r, pos)
      \/ box' = FocusField(closed)
  BY DEF LinkKey, r, closed
<1>2. PanelOK(closed) /\ Unhidden(box, closed)
  BY CloseResultsWindowOK DEF LinkKey, closed
<1>3. CASE box' = box
  BY <1>3 DEF Unhidden
<1>4. CASE box' = FocusField(box)
  BY <1>4, FocusFieldOK
<1>5. CASE \E pos : box' = FocusLink(box, r, pos)
  BY <1>5, FocusLinkOK
<1>6. CASE box' = FocusField(closed)
  BY <1>2, <1>6, FocusFieldOK DEF Unhidden
<1> QED BY <1>1, <1>3, <1>4, <1>5, <1>6
-----------------------------------------------------------------------------
\* The invariant: what handlers keep, and that one timer at most is to hide the
\* list, and none while the pointer is over it.
PanelInv == PanelOK(box) /\ box.hideTimers \in {0, 1} /\ HoverKeepsOpen

\* The invariant holds once init_search has run.
LEMMA InitPanel == PanelInit => PanelInv
<1> SUFFICES ASSUME PanelInit  PROVE PanelInv
  OBVIOUS
<1> DEFINE b == [value |-> searchLabel, className |-> "inactive", searchActive |-> FALSE,
                 focus |-> "none", link |-> NULL, keyTimeout |-> FALSE, timers |-> 0,
                 lastSearchValue |-> <<>>, lastResultsPage |-> Blank, searchIndex |-> 0, marked |-> {},
                 results |-> FALSE, popup |-> FALSE, hideTimers |-> 0,
                 location |-> <<Blank, <<>>>>, loading |-> FALSE]
<1>1. PanelOK(b) /\ b.hideTimers = 0
  BY DEF PanelOK, Latest, Reset, Fields
<1>2. box = OnSelectItem(b, 0) /\ pointer = "away"
  BY DEF PanelInit
<1> HIDE DEF b
<1> QED BY <1>1, <1>2, OnSelectItemOK DEF PanelInv, HoverKeepsOpen, Unhidden

\* Every step keeps it.
LEMMA StepPanel == PanelInv /\ [PanelNext]_panelVars => PanelInv'
<1> SUFFICES ASSUME PanelInv, [PanelNext]_panelVars  PROVE PanelInv'
  OBVIOUS
<1> USE DEF PanelInv
\* It is enough that a step starts no timer, and does not move the pointer.
<1>1. ASSUME PanelOK(box'), Unhidden(box, box'), pointer' = pointer  PROVE PanelInv'
  BY <1>1 DEF HoverKeepsOpen, Unhidden, PanelOK, Latest, Reset
<1>2. CASE EnterField
  BY <1>1, <1>2, FocusFieldOK DEF EnterField
<1>3. CASE LeaveField
  BY <1>1, <1>3, BlurOK DEF LeaveField
<1>4. ASSUME NEW key \in FieldKeys, FieldKeyDown(key)  PROVE PanelInv'
  <2>1. PanelOK(box') /\ Unhidden(box, box')
    BY <1>4 DEF FieldKeyDown, PanelOK, Latest, Reset, Unhidden, Fields
  <2> QED BY <1>1, <1>4, <2>1 DEF FieldKeyDown
<1>5. CASE FieldKeyUp
  BY <1>1, <1>5, OnSearchFieldChangeOK DEF FieldKeyUp
<1>6. CASE OtherKeyUp
  BY <1>1, <1>6 DEF OtherKeyUp, Unhidden
<1>7. ASSUME NEW type, NEW key, LinkKey(type, key)  PROVE PanelInv'
  BY <1>1, <1>7, LinkKeyOK DEF LinkKey
<1>8. ASSUME NEW pos, FollowLink(pos)  PROVE PanelInv'
  <2>1. PanelOK(box') /\ Unhidden(box, box')
    BY <1>8 DEF FollowLink, PanelOK, Latest, Reset, Unhidden, Fields
  <2> QED BY <1>1, <1>8, <2>1 DEF FollowLink
<1>9. ASSUME NEW key, FilterKey(key)  PROVE PanelInv'
  BY <1>1, <1>9, OnSearchSelectKeyOK DEF FilterKey
<1>10. ASSUME NEW id, ClickItem(id)  PROVE PanelInv'
  <2> DEFINE b == [box EXCEPT !.focus = "filter", !.link = NULL]
  <2>1. PanelOK(b) /\ Unhidden(box, b)
    BY DEF PanelOK, Latest, Reset, Unhidden, Fields
  <2>2. box' = OnSelectItem(b, id) /\ pointer' = pointer
    BY <1>10 DEF ClickItem
  <2> HIDE DEF b
  <2>3. PanelOK(box') /\ Unhidden(box, box')
    BY <2>1, <2>2, OnSelectItemOK DEF Unhidden
  <2> QED BY <1>1, <2>2, <2>3
<1>11. CASE ClickClose
  <2> DEFINE b == CloseResultsWindow(box)
  <2>1. PanelOK(b) /\ Unhidden(box, b)
    BY <1>11, CloseResultsWindowOK DEF ClickClose
  <2>2. box' = [b EXCEPT !.focus = "none", !.link = NULL] /\ pointer' = pointer
    BY <1>11 DEF ClickClose
  <2> HIDE DEF b
  <2>3. PanelOK(box') /\ Unhidden(box, box')
    BY <2>1, <2>2 DEF PanelOK, Latest, Reset, Unhidden, Fields
  <2> QED BY <1>1, <2>2, <2>3
<1>12. CASE PointerOver
  <2>1. PanelOK(box')
    BY <1>12 DEF PointerOver, OnSearchSelectShow, PanelOK, Latest, Reset, Fields
  <2>2. box'.hideTimers = IF box.hideTimers > 0 THEN box.hideTimers - 1 ELSE 0
    BY <1>12 DEF PointerOver, OnSearchSelectShow, PanelOK, Fields
  <2> QED BY <1>12, <2>1, <2>2 DEF PointerOver, HoverKeepsOpen
<1>13. CASE PointerOut
  <2>1. PanelOK(box')
    BY <1>13 DEF PointerOut, OnSearchSelectHide, PanelOK, Latest, Reset, Fields
  <2>2. box'.hideTimers = box.hideTimers + 1
    BY <1>13 DEF PointerOut, OnSearchSelectHide, PanelOK, Fields
  <2> QED BY <1>13, <2>1, <2>2 DEF PointerOut, HoverKeepsOpen
<1>14. CASE SearchTimer
  <2> DEFINE b == [box EXCEPT !.timers = @ - 1]
  <2>1. PanelOK(b) /\ Unhidden(box, b)
    BY DEF PanelOK, Latest, Reset, Unhidden, Fields
  <2>2. box' = Search(b) /\ pointer' = pointer
    BY <1>14 DEF SearchTimer
  <2> HIDE DEF b
  <2>3. PanelOK(box') /\ Unhidden(box, box')
    BY <2>1, <2>2, SearchOK DEF Unhidden
  <2> QED BY <1>1, <2>2, <2>3
<1>15. CASE HideTimer
  <2> DEFINE b == [box EXCEPT !.hideTimers = @ - 1]
  <2>1. PanelOK(b) /\ Unhidden(box, b)
    <3>1. PanelOK(b)
      BY DEF PanelOK, Latest, Reset, Fields
    <3>2. b.hideTimers = box.hideTimers - 1 /\ box.hideTimers > 0
      BY <1>15 DEF HideTimer, PanelOK, Fields
    <3> QED BY <3>1, <3>2 DEF Unhidden
  <2>2. box' = CloseSelectionWindow(b) /\ pointer' = pointer
    BY <1>15 DEF HideTimer
  <2> HIDE DEF b
  <2>3. PanelOK(box') /\ Unhidden(box, box')
    BY <2>1, <2>2, CloseSelectionWindowOK DEF Unhidden
  <2> QED BY <1>1, <2>2, <2>3
<1>16. CASE Load
  <2>1. PanelOK(box') /\ Unhidden(box, box')
    BY <1>16 DEF Load, PanelOK, Latest, Reset, Unhidden, Fields
  <2> QED BY <1>1, <1>16, <2>1 DEF Load
<1>17. CASE UNCHANGED panelVars
  BY <1>1, <1>17 DEF panelVars, Unhidden
<1> QED BY <1>2, <1>3, <1>4, <1>5, <1>6, <1>7, <1>8, <1>9, <1>10, <1>11, <1>12, <1>13, <1>14,
           <1>15, <1>16, <1>17 DEF PanelNext

\* It holds in every state.
LEMMA PanelInvariant == PanelSpec => []PanelInv
BY InitPanel, StepPanel, PTL DEF PanelSpec

\* While results are displayed, what the panel remembers of the last search is
\* what the frame was sent to, whatever timers fired and whatever was closed
\* and opened again.
THEOREM ResultsAreOfTheLatestSearch == PanelSpec => []ShownIsLatest
<1>1. PanelInv => ShownIsLatest
  BY DEF PanelInv, PanelOK, Latest, ShownIsLatest
<1> QED BY <1>1, PanelInvariant, PTL

\* Nothing of a search survives in a panel that was put away.
THEOREM PutAwayIsReset == PanelSpec => []DormantIsReset
<1>1. PanelInv => DormantIsReset
  BY DEF PanelInv, PanelOK, Reset, DormantIsReset
<1> QED BY <1>1, PanelInvariant, PTL

\* The timer never hides the list of sections while the pointer is over it.
THEOREM ListStaysOpen == PanelSpec => []HoverKeepsOpen
<1>1. PanelInv => HoverKeepsOpen
  BY DEF PanelInv
<1> QED BY <1>1, PanelInvariant, PTL
-----------------------------------------------------------------------------
\* Greatest element, as Smallest.
LEMMA Largest ==
  ASSUME NEW n \in Nat, NEW T, T \subseteq 0..n, T # {}
  PROVE  \E x \in T : \A y \in T : x >= y
<1>1. PICK U : U = {n - y : y \in T}
  OBVIOUS
<1>2. U \subseteq Nat /\ U # {}
  <2>1. ASSUME NEW u \in U PROVE u \in Nat
    <3>1. PICK y \in T : u = n - y
      BY <1>1
    <3>2. y \in 0..n
      OBVIOUS
    <3> QED BY <3>1, <3>2
  <2> QED BY <1>1, <2>1
<1>3. PICK u \in U : \A w \in U : u <= w
  BY <1>2, Smallest
<1>4. PICK x \in T : u = n - x
  BY <1>1
<1>5. ASSUME NEW y \in T PROVE x >= y
  <2>1. PICK w \in U : w = n - y
    BY <1>1
  <2>2. u <= w /\ x \in 0..n /\ y \in 0..n
    BY <1>3
  <2> QED BY <1>4, <2>1, <2>2
<1> QED BY <1>5
-----------------------------------------------------------------------------
\* Pages. What a page is whatever is displayed of it: no entry that is hidden
\* lies between two that are shown, or none has several definitions.
PageFields == {"entries", "shown", "unfolded", "lastKey", "repeatOn"}
Contiguous(S) == \A i \in S, k \in S : \A j \in Int : i <= j /\ j <= k => j \in S
Plain(r) == \A i \in Items(r) : Definitions(r, i) = 0

PageOK(r) ==
  /\ DOMAIN r = PageFields /\ r = [f \in PageFields |-> r[f]]
  /\ r.entries \in Pages \union {<<>>}
  /\ r.shown \subseteq Items(r)
  /\ Contiguous(r.shown) \/ Plain(r)

\* What the pages hold.
LEMMA PagesAre ==
  ASSUME NEW e \in Pages \union {<<>>}
  PROVE  /\ Len(e) \in Nat
         /\ \A k \in 1..Len(e) : e[k].definitions \in Nat
         /\ \/ Len(e) <= 2
            \/ \A k \in 1..Len(e) : e[k].definitions = 1
            \/ e = all_e
<1>1. CASE e = all_0
  BY <1>1 DEF all_0, Entry
<1>2. CASE e = all_e
  BY <1>2 DEF all_e, Entry
<1>3. CASE e = all_10
  BY <1>3 DEF all_10, Entry
<1>4. CASE e \in {classes_0, classes_1, classes_2, files_1, files_2, files_3}
  BY <1>4 DEF classes_0, classes_1, classes_2, files_1, files_2, files_3, Entry
<1>5. CASE e = files_0
  BY <1>5 DEF files_0, Entry
<1>6. CASE e = <<>>
  BY <1>6
<1> QED BY <1>1, <1>2, <1>3, <1>4, <1>5, <1>6 DEF Pages

\* Its entries are counted from 0.
LEMMA ItemsAre ==
  ASSUME NEW r, PageOK(r)
  PROVE  /\ Len(r.entries) \in Nat /\ Items(r) \subseteq Nat
         /\ r.shown \subseteq Items(r) /\ r.shown \subseteq 0..Len(r.entries)
<1>1. PICK e, I, shown : e = r.entries /\ I = Items(r) /\ shown = r.shown
  OBVIOUS
<1>2. e \in Pages \union {<<>>} /\ shown \subseteq I
  BY <1>1 DEF PageOK
<1>3. Len(e) \in Nat
  BY <1>2, PagesAre
<1>4. I = 0..(Len(e) - 1)
  BY <1>1 DEF Items
<1>5. I \subseteq Nat /\ shown \subseteq 0..Len(e)
  BY <1>2, <1>3, <1>4
<1> QED BY <1>1, <1>2, <1>3, <1>5

\* Every position has a number of definitions.
LEMMA ChildrenNat ==
  ASSUME NEW r, PageOK(r), NEW i
  PROVE  Definitions(r, i) \in Nat
<1>1. PICK e : e = r.entries
  OBVIOUS
<1>2. Len(e) \in Nat /\ \A k \in 1..Len(e) : e[k].definitions \in Nat
  BY <1>1, PagesAre DEF PageOK
<1>3. CASE i \in Items(r)
  <2>1. PICK k \in 1..Len(e) : k = i + 1
    BY <1>1, <1>2, <1>3 DEF Items
  <2>2. e[k].definitions \in Nat
    BY <1>2
  <2> QED BY <1>1, <2>1, <2>2 DEF Definitions
<1>4. CASE i \notin Items(r)
  BY <1>4 DEF Definitions
<1> QED BY <1>3, <1>4

\* The links that are displayed.
LEMMA VisibleAre ==
  ASSUME NEW r, PageOK(r)
  PROVE  /\ r.shown \subseteq Int
         /\ \A i \in r.shown : <<i>> \in VisibleLinks(r)
         /\ \A i \in r.shown : ChildrenVisible(r, i) =>
              \A c \in 0..(Definitions(r, i) - 1) : <<i, c>> \in VisibleLinks(r)
         /\ \A q \in VisibleLinks(r) : \E i \in r.shown :
              \/ q = <<i>>
              \/ ChildrenVisible(r, i) /\ \E c \in 0..(Definitions(r, i) - 1) : q = <<i, c>>
<1>1. r.shown \subseteq Items(r) /\ Items(r) \subseteq Int
  BY ItemsAre
<1>2. ASSUME NEW i \in r.shown PROVE <<i>> \in VisibleLinks(r)
  <2>1. PICK q : q = <<i>>
    OBVIOUS
  <2>2. q \in Links(r) /\ Len(q) = 1 /\ q[1] = i
    BY <1>1, <2>1 DEF Links
  <2> QED BY <2>1, <2>2 DEF VisibleLinks, Displayed
<1>3. ASSUME NEW i \in r.shown, ChildrenVisible(r, i), NEW c \in 0..(Definitions(r, i) - 1)
      PROVE  <<i, c>> \in VisibleLinks(r)
  <2>1. PICK q : q = <<i, c>>
    OBVIOUS
  <2>2. q \in Links(r)
    BY <1>1, <2>1 DEF Links
  <2>3. Len(q) = 2 /\ q[1] = i
    BY <2>1
  <2> QED BY <1>3, <2>1, <2>2, <2>3 DEF VisibleLinks, Displayed
<1>4. ASSUME NEW q \in VisibleLinks(r)
      PROVE  \E i \in r.shown :
               \/ q = <<i>>
               \/ ChildrenVisible(r, i) /\ \E c \in 0..(Definitions(r, i) - 1) : q = <<i, c>>
  <2>1. q \in Links(r) /\ Displayed(r, q)
    BY DEF VisibleLinks
  <2>2. CASE \E i \in Items(r) : q = <<i>>
    <3>1. PICK i \in Items(r) : q = <<i>>
      BY <2>2
    <3>2. q[1] = i
      BY <3>1
    <3> QED BY <2>1, <3>1, <3>2 DEF Displayed
  <2>3. CASE \E i \in Items(r) : \E c \in 0..(Definitions(r, i) - 1) : q = <<i, c>>
    <3>1. PICK i \in Items(r) : \E c \in 0..(Definitions(r, i) - 1) : q = <<i, c>>
      BY <2>3
    <3>2. PICK c \in 0..(Definitions(r, i) - 1) : q = <<i, c>>
      BY <3>1
    <3>3. q[1] = i /\ Len(q) = 2
      BY <3>2
    <3> QED BY <2>1, <3>2, <3>3 DEF Displayed
  <2> QED BY <2>1, <2>2, <2>3 DEF Links
<1> QED BY <1>1, <1>2, <1>3, <1>4

\* Which link is above which, for links of entries and of definitions.
LEMMA AboveIs ==
  ASSUME NEW i \in Int, NEW j \in Int, NEW c \in Int, NEW d \in Int
  PROVE  /\ Above(<<i>>, <<j>>) <=> i < j
         /\ Above(<<i>>, <<j, d>>) <=> i <= j
         /\ Above(<<i, c>>, <<j>>) <=> i < j
         /\ Above(<<i, c>>, <<j, d>>) <=> i < j \/ (i = j /\ c < d)
<1>1. PICK p, q, s, t : p = <<i>> /\ q = <<j>> /\ s = <<i, c>> /\ t = <<j, d>>
  OBVIOUS
<1>2. /\ Len(p) = 1 /\ p[1] = i /\ Len(q) = 1 /\ q[1] = j
      /\ Len(s) = 2 /\ s[1] = i /\ s[2] = c /\ Len(t) = 2 /\ t[1] = j /\ t[2] = d
  BY <1>1
<1>3. (Above(p, q) <=> i < j) /\ (Above(p, t) <=> i <= j)
  BY <1>2 DEF Above
<1>4. (Above(s, q) <=> i < j) /\ (Above(s, t) <=> i < j \/ (i = j /\ c < d))
  BY <1>2 DEF Above
<1> QED BY <1>1, <1>3, <1>4

\* The next entry that is shown, and the last one.
LEMMA NavNextIs ==
  ASSUME NEW r, PageOK(r), NEW index \in Int
  PROVE  \/ NavNext(r, index) = NULL /\ \A k \in r.shown : k < index
         \/ \E m \in r.shown : /\ NavNext(r, index) = <<m>> /\ m >= index
                             /\ \A k \in r.shown : k < index \/ m <= k
<1>1. PICK S : S = {k \in r.shown : k >= index}
  OBVIOUS
<1>2. /\ r.shown \subseteq Nat /\ S \subseteq Nat
      /\ \A k \in r.shown : k \in S <=> k >= index
  <2>2. r.shown \subseteq Nat
    BY ItemsAre
  <2> QED BY <1>1, <2>2
<1>3. NavNext(r, index) = IF S = {} THEN NULL ELSE <<CHOOSE i \in S : \A k \in S : i <= k>>
  BY <1>1 DEF NavNext
<1>4. CASE S = {}
  <2>1. \A k \in r.shown : k < index
    BY <1>2, <1>4
  <2> QED BY <1>3, <1>4, <2>1
<1>5. CASE S # {}
  <2>1. PICK m : m = CHOOSE i \in S : \A k \in S : i <= k
    OBVIOUS
  <2>2. \E i \in S : \A k \in S : i <= k
    BY <1>2, <1>5, Smallest
  <2>3. m \in S /\ \A k \in S : m <= k
    BY <2>1, <2>2
  <2>4. m \in r.shown /\ m >= index /\ \A k \in r.shown : k < index \/ m <= k
    BY <1>1, <1>2, <2>3
  <2>5. NavNext(r, index) = <<m>>
    BY <1>3, <1>5, <2>1
  <2> QED BY <2>4, <2>5
<1> QED BY <1>4, <1>5

\* The previous entry that is shown, and the first one.
LEMMA NavPrevIs ==
  ASSUME NEW r, PageOK(r), NEW index \in Int
  PROVE  \/ NavPrev(r, index) = NULL /\ \A k \in r.shown : k > index
         \/ \E m \in r.shown : /\ NavPrev(r, index) = <<m>> /\ m <= index
                             /\ \A k \in r.shown : k > index \/ m >= k
<1>1. PICK S : S = {k \in r.shown : k <= index}
  OBVIOUS
<1>2. PICK n \in Nat : r.shown \subseteq 0..n
  <2>1. Len(r.entries) \in Nat
    BY ItemsAre
  <2>2. r.shown \subseteq 0..Len(r.entries)
    BY ItemsAre
  <2> QED BY <2>1, <2>2
<1>3. S \subseteq 0..n /\ \A k \in r.shown : k \in Int /\ (k \in S <=> k <= index)
  BY <1>1, <1>2
<1>4. NavPrev(r, index) = IF S = {} THEN NULL ELSE <<CHOOSE i \in S : \A k \in S : i >= k>>
  BY <1>1 DEF NavPrev
<1>5. CASE S = {}
  <2>1. \A k \in r.shown : k > index
    BY <1>3, <1>5
  <2> QED BY <1>4, <1>5, <2>1
<1>6. CASE S # {}
  <2>1. PICK m : m = CHOOSE i \in S : \A k \in S : i >= k
    OBVIOUS
  <2>2. \E i \in S : \A k \in S : i >= k
    BY <1>3, <1>6, Largest
  <2>3. m \in S /\ \A k \in S : m >= k
    BY <2>1, <2>2
  <2>4. m \in r.shown /\ m <= index /\ \A k \in r.shown : k > index \/ m >= k
    BY <1>1, <1>3, <2>3
  <2>5. NavPrev(r, index) = <<m>>
    BY <1>4, <1>6, <2>1
  <2> QED BY <2>4, <2>5
<1> QED BY <1>5, <1>6
-----------------------------------------------------------------------------
\* ArrowsFollowDisplay for any page and link: d is the next link below pos of
\* those in V, u the next one above.
NextBelow(V, pos, d) ==
  \/ d = NULL /\ \A q \in V : ~ Above(pos, q)
  \/ d \in V /\ Above(pos, d) /\ \A q \in V : ~ (Above(pos, q) /\ Above(q, d))
NextAbove(V, pos, u) ==
  \/ u = NULL /\ \A q \in V : ~ Above(q, pos)
  \/ u \in V /\ Above(u, pos) /\ \A q \in V : ~ (Above(q, pos) /\ Above(u, q))

\* From an entry whose definitions are folded, or from a last definition, to
\* the next entry.
LEMMA ToNextEntry ==
  ASSUME NEW r, PageOK(r), NEW i \in r.shown, NEW pos, pos[1] = i,
         \A q \in VisibleLinks(r) : Above(pos, q) => q[1] > i,
         \A j \in Int : j > i => Above(pos, <<j>>)
  PROVE  NextBelow(VisibleLinks(r), pos, NavNext(r, i + 1))
<1>1. PICK V, d : V = VisibleLinks(r) /\ d = NavNext(r, i + 1)
  OBVIOUS
<1>2. r.shown \subseteq Int /\ \A k \in r.shown : <<k>> \in V
  BY <1>1, VisibleAre
<1>3. ASSUME NEW q \in V, Above(pos, q) PROVE q[1] \in r.shown /\ q[1] > i
  <2>1. q[1] \in r.shown
    BY <1>1 DEF VisibleLinks, Displayed
  <2> QED BY <1>1, <1>3, <2>1
<1>4. \/ d = NULL /\ \A k \in r.shown : k < i + 1
      \/ \E m \in r.shown : d = <<m>> /\ m >= i + 1 /\ \A k \in r.shown : k < i + 1 \/ m <= k
  <2>1. i + 1 \in Int
    BY <1>2
  <2> QED BY <1>1, <2>1, NavNextIs
<1>5. CASE d = NULL /\ \A k \in r.shown : k < i + 1
  <2>1. ASSUME NEW q \in V, Above(pos, q) PROVE FALSE
    <3>1. PICK k \in r.shown : k = q[1] /\ k > i /\ k \in Int /\ i \in Int
      BY <1>2, <1>3, <2>1
    <3> QED BY <1>5, <3>1
  <2> QED BY <1>1, <1>5, <2>1 DEF NextBelow
<1>6. ASSUME NEW m \in r.shown, d = <<m>>, m >= i + 1, \A k \in r.shown : k < i + 1 \/ m <= k
      PROVE  NextBelow(V, pos, d)
  <2>1. m \in Int /\ i \in Int /\ m > i /\ d \in V /\ Above(pos, d)
    BY <1>2, <1>6
  <2>2. ASSUME NEW q \in V, Above(pos, q), Above(q, d) PROVE FALSE
    <3>1. PICK k \in r.shown : k = q[1] /\ k > i /\ k \in Int
      BY <1>2, <1>3, <2>2
    <3>2. Len(d) = 1 /\ d[1] = m
      BY <1>6
    <3>3. k < m
      BY <2>2, <3>1, <3>2 DEF Above
    <3>4. k < i + 1 \/ m <= k
      BY <1>6
    <3> QED BY <2>1, <3>1, <3>3, <3>4
  <2> QED BY <2>1, <2>2 DEF NextBelow
<1> QED BY <1>1, <1>4, <1>5, <1>6

\* Down leads to the next link that is displayed.
LEMMA DownIs ==
  ASSUME NEW r, PageOK(r), NEW pos \in VisibleLinks(r)
  PROVE  NextBelow(VisibleLinks(r), pos, Down(r, pos))
<1>1. PICK V, d : V = VisibleLinks(r) /\ d = Down(r, pos)
  OBVIOUS
<1> SUFFICES NextBelow(V, pos, d)
  BY <1>1
<1>2. /\ r.shown \subseteq Int
      /\ \A j \in r.shown : ChildrenVisible(r, j) =>
           \A x \in 0..(Definitions(r, j) - 1) : <<j, x>> \in V
  BY <1>1, VisibleAre
<1>3. ASSUME NEW q \in V
      PROVE  \E j \in r.shown :
               \/ q = <<j>>
               \/ ChildrenVisible(r, j) /\ \E x \in 0..(Definitions(r, j) - 1) : q = <<j, x>>
  BY <1>1, VisibleAre
<1>4. PICK i \in r.shown :
        \/ pos = <<i>>
        \/ ChildrenVisible(r, i) /\ \E c \in 0..(Definitions(r, i) - 1) : pos = <<i, c>>
  BY <1>1, <1>3
<1>5. i \in Int
  BY <1>2
<1>6. CASE pos = <<i>>
  <2>1. Len(pos) = 1 /\ pos[1] = i
    BY <1>6
  <2>2. d = IF ChildrenVisible(r, i) THEN <<i, 0>> ELSE NavNext(r, i + 1)
    BY <1>1, <2>1 DEF Down, DownFrom
  <2>3. CASE ChildrenVisible(r, i)
    <3>1. 0 \in 0..(Definitions(r, i) - 1)
      <4>1. Definitions(r, i) \in Nat /\ Definitions(r, i) > 0
        BY <2>3, ChildrenNat DEF ChildrenVisible
      <4> QED BY <4>1
    <3>2. d = <<i, 0>> /\ d \in V
      BY <1>2, <2>2, <2>3, <3>1
    <3>3. Above(pos, d)
      BY <1>5, <1>6, <3>2, AboveIs
    <3>4. ASSUME NEW q \in V, Above(pos, q), Above(q, d) PROVE FALSE
      <4>1. PICK j \in r.shown : q = <<j>> \/ \E x \in 0..(Definitions(r, j) - 1) : q = <<j, x>>
        BY <1>3
      <4>2. j \in Int
        BY <1>2
      <4>3. CASE q = <<j>>
        <5>1. i < j
          BY <1>5, <1>6, <3>4, <4>2, <4>3, AboveIs
        <5>2. PICK z \in Int : d = <<i, z>>
          BY <3>2
        <5>3. j <= i
          BY <1>5, <3>4, <4>2, <4>3, <5>2, AboveIs
        <5> QED BY <1>5, <4>2, <5>1, <5>3
      <4>4. ASSUME NEW x \in Int, x >= 0, q = <<j, x>> PROVE FALSE
        <5>1. i <= j
          BY <1>5, <1>6, <3>4, <4>2, <4>4, AboveIs
        <5>2. PICK z \in Int : z = 0 /\ d = <<i, z>>
          BY <3>2
        <5>3. j < i \/ (j = i /\ x < z)
          BY <1>5, <3>4, <4>2, <4>4, <5>2, AboveIs
        <5> QED BY <1>5, <4>2, <4>4, <5>1, <5>2, <5>3
      <4> QED BY <4>1, <4>3, <4>4
    <3> QED BY <3>2, <3>3, <3>4 DEF NextBelow
  <2>4. CASE ~ ChildrenVisible(r, i)
    <3>1. ASSUME NEW q \in V, Above(pos, q) PROVE q[1] > i
      <4>1. PICK j \in r.shown :
              q = <<j>> \/ (ChildrenVisible(r, j) /\ \E x \in 0..(Definitions(r, j) - 1) : q = <<j, x>>)
        BY <1>3
      <4>2. j \in Int
        BY <1>2
      <4>3. CASE q = <<j>>
        <5>1. i < j /\ q[1] = j
          BY <1>5, <1>6, <3>1, <4>2, <4>3, AboveIs
        <5> QED BY <1>5, <4>2, <5>1
      <4>4. ASSUME ChildrenVisible(r, j), NEW x \in Int, q = <<j, x>> PROVE q[1] > i
        <5>1. i <= j /\ q[1] = j /\ i # j
          BY <1>5, <1>6, <2>4, <3>1, <4>2, <4>4, AboveIs
        <5> QED BY <1>5, <4>2, <5>1
      <4> QED BY <4>1, <4>3, <4>4
    <3>2. \A j \in Int : j > i => Above(pos, <<j>>)
      BY <1>5, <1>6, AboveIs
    <3> QED BY <1>1, <2>1, <2>2, <2>4, <3>1, <3>2, ToNextEntry
  <2> QED BY <2>3, <2>4
<1>7. ASSUME ChildrenVisible(r, i), NEW c \in 0..(Definitions(r, i) - 1), pos = <<i, c>>
      PROVE  NextBelow(V, pos, d)
  <2>1. Len(pos) = 2 /\ pos[1] = i /\ pos[2] = c /\ c \in Int /\ c >= 0
    BY <1>7
  <2>2. PICK n \in Nat : n = Definitions(r, i) /\ c < n
    <3>1. Definitions(r, i) \in Nat
      BY ChildrenNat
    <3> QED BY <3>1
  <2>3. d = IF c + 1 < n THEN <<i, c + 1>> ELSE NavNext(r, i + 1)
    <3>1. ~ (c + 1 < n) => c + 1 >= n
      BY <2>1, <2>2
    <3> QED BY <1>1, <2>1, <2>2, <3>1 DEF Down
  <2>4. CASE c + 1 < n
    <3>1. PICK b \in 0..(n - 1) : b = c + 1
      BY <2>1, <2>2, <2>4
    <3>2. d = <<i, b>> /\ d \in V /\ b \in Int
      BY <1>2, <1>7, <2>2, <2>3, <2>4, <3>1
    <3>3. Above(pos, d)
      <4>1. c < b
        BY <2>1, <3>1
      <4> QED BY <1>5, <1>7, <2>1, <3>2, <4>1, AboveIs
    <3>4. ASSUME NEW q \in V, Above(pos, q), Above(q, d) PROVE FALSE
      <4>1. PICK j \in r.shown : q = <<j>> \/ \E x \in 0..(Definitions(r, j) - 1) : q = <<j, x>>
        BY <1>3
      <4>2. j \in Int
        BY <1>2
      <4>3. CASE q = <<j>>
        <5>1. i < j /\ j <= i
          BY <1>5, <1>7, <2>1, <3>2, <3>4, <4>2, <4>3, AboveIs
        <5> QED BY <1>5, <4>2, <5>1
      <4>4. ASSUME NEW x \in Int, q = <<j, x>> PROVE FALSE
        <5>1. (i < j \/ (i = j /\ c < x)) /\ (j < i \/ (j = i /\ x < b))
          BY <1>5, <1>7, <2>1, <3>2, <3>4, <4>2, <4>4, AboveIs
        <5> QED BY <1>5, <2>1, <3>1, <4>2, <5>1
      <4> QED BY <4>1, <4>3, <4>4
    <3> QED BY <3>2, <3>3, <3>4 DEF NextBelow
  <2>5. CASE ~ (c + 1 < n)
    <3>1. ASSUME NEW q \in V, Above(pos, q) PROVE q[1] > i
      <4>1. PICK j \in r.shown : q = <<j>> \/ \E x \in 0..(Definitions(r, j) - 1) : q = <<j, x>>
        BY <1>3
      <4>2. j \in Int
        BY <1>2
      <4>3. CASE q = <<j>>
        <5>1. i < j /\ q[1] = j
          BY <1>5, <1>7, <2>1, <3>1, <4>2, <4>3, AboveIs
        <5> QED BY <1>5, <4>2, <5>1
      <4>4. ASSUME NEW x \in 0..(Definitions(r, j) - 1), q = <<j, x>> PROVE q[1] > i
        <5>1. x \in Int /\ q[1] = j /\ (j = i => x < n)
          BY <2>2, <4>4
        <5>2. i < j \/ (i = j /\ c < x)
          BY <1>5, <1>7, <2>1, <3>1, <4>2, <4>4, <5>1, AboveIs
        <5> QED BY <1>5, <2>1, <2>2, <2>5, <4>2, <5>1, <5>2
      <4> QED BY <4>1, <4>3, <4>4
    <3>2. \A j \in Int : j > i => Above(pos, <<j>>)
      BY <1>5, <1>7, <2>1, AboveIs
    <3> QED BY <1>1, <2>1, <2>3, <2>5, <3>1, <3>2, ToNextEntry
  <2> QED BY <2>4, <2>5
<1> QED BY <1>4, <1>6, <1>7

\* Up leads to the previous link that is displayed. The code looks for the last
\* definition below newIndex rather than below the entry it found, which is the
\* same on every page the index has: shown entries are contiguous, or plain.
LEMMA UpIs ==
  ASSUME NEW r, PageOK(r), NEW pos \in VisibleLinks(r)
  PROVE  NextAbove(VisibleLinks(r), pos, Up(r, pos))
<1>1. PICK V, u : V = VisibleLinks(r) /\ u = Up(r, pos)
  OBVIOUS
<1> SUFFICES NextAbove(V, pos, u)
  BY <1>1
<1>2. /\ r.shown \subseteq Int
      /\ \A j \in r.shown : <<j>> \in V
      /\ \A j \in r.shown : ChildrenVisible(r, j) =>
           \A x \in 0..(Definitions(r, j) - 1) : <<j, x>> \in V
  BY <1>1, VisibleAre
<1>3. ASSUME NEW q \in V
      PROVE  \E j \in r.shown :
               \/ q = <<j>>
               \/ ChildrenVisible(r, j) /\ \E x \in 0..(Definitions(r, j) - 1) : q = <<j, x>>
  BY <1>1, VisibleAre
<1>4. PICK i \in r.shown :
        \/ pos = <<i>>
        \/ ChildrenVisible(r, i) /\ \E c \in 0..(Definitions(r, i) - 1) : pos = <<i, c>>
  BY <1>1, <1>3
<1>5. i \in Int
  BY <1>2
<1>6. CASE pos = <<i>>
  <2>1. Len(pos) = 1 /\ pos[1] = i
    BY <1>6
  <2>2. PICK h, f : h \in Int /\ h = i - 1 /\ f = NavPrev(r, h)
    BY <1>5
  <2>3. u = IF f # NULL /\ ChildrenVisible(r, f[1]) /\ Definitions(r, h) > 0
            THEN <<h, Definitions(r, h) - 1>> ELSE f
    BY <1>1, <2>1, <2>2 DEF Up, UpFrom
  \* Whatever is above this entry belongs to one before it.
  <2>4. ASSUME NEW q \in V, Above(q, pos)
        PROVE  \E j \in r.shown : /\ j \in Int /\ j <= h
                 /\ \/ q = <<j>>
                    \/ ChildrenVisible(r, j) /\ \E x \in 0..(Definitions(r, j) - 1) : q = <<j, x>>
    <3>1. PICK j \in r.shown :
            \/ q = <<j>>
            \/ ChildrenVisible(r, j) /\ \E x \in 0..(Definitions(r, j) - 1) : q = <<j, x>>
      BY <1>3
    <3>2. q[1] = j /\ j \in Int
      BY <1>2, <3>1
    <3>3. j < i
      BY <2>1, <2>4, <3>2 DEF Above
    <3>4. j <= h
      BY <1>5, <2>2, <3>2, <3>3
    <3> QED BY <3>1, <3>2, <3>4
  <2>5. \/ f = NULL /\ \A k \in r.shown : k > h
        \/ \E m \in r.shown : f = <<m>> /\ m <= h /\ \A k \in r.shown : k > h \/ m >= k
    BY <2>2, NavPrevIs
  <2>6. CASE f = NULL /\ \A k \in r.shown : k > h
    <3>1. ASSUME NEW q \in V, Above(q, pos) PROVE FALSE
      <4>1. PICK j \in r.shown : j \in Int /\ j <= h
        BY <2>4, <3>1
      <4>2. j > h
        BY <2>6
      <4> QED BY <2>2, <4>1, <4>2
    <3> QED BY <2>3, <2>6, <3>1 DEF NextAbove
  <2>7. ASSUME NEW m \in r.shown, f = <<m>>, m <= h, \A k \in r.shown : k > h \/ m >= k
        PROVE  NextAbove(V, pos, u)
    <3>1. m \in Int /\ m < i /\ f # NULL /\ f[1] = m
      <4>1. f # NULL /\ f[1] = m
        BY <2>7 DEF NULL
      <4>2. m \in Int /\ m < i
        BY <1>2, <1>5, <2>2, <2>7
      <4> QED BY <4>1, <4>2
    <3>2. ASSUME NEW j \in r.shown, j \in Int, j <= h PROVE j <= m
      <4>1. j > h \/ m >= j
        BY <2>7
      <4> QED BY <2>2, <3>1, <3>2, <4>1
    <3>3. CASE ChildrenVisible(r, m)
      \* The entry before this one is shown too.
      <4>1. Definitions(r, m) \in Nat /\ Definitions(r, m) > 0
        BY <3>3, ChildrenNat DEF ChildrenVisible
      <4>2. h = m
        <5>1. ~ Plain(r)
          <6>1. m \in Items(r)
            BY DEF PageOK
          <6> QED BY <4>1, <6>1 DEF Plain
        <5>2. h \in r.shown
          <6>1. m <= h /\ h <= i
            BY <1>5, <2>2, <2>7
          <6> QED BY <2>2, <5>1, <6>1 DEF PageOK, Contiguous
        <5>3. h <= m
          BY <2>2, <3>2, <5>2
        <5> QED BY <2>2, <2>7, <3>1, <5>3
      <4>3. PICK n, b : n \in Nat /\ n = Definitions(r, m) /\ b = n - 1 /\ b \in 0..(n - 1)
        BY <4>1
      <4>4. u = <<m, b>> /\ u \in V /\ b \in Int
        <5>1. u = <<m, b>>
          BY <2>3, <3>1, <3>3, <4>1, <4>2, <4>3
        <5> QED BY <1>2, <3>3, <4>3, <5>1
      <4>5. Above(u, pos)
        BY <1>5, <1>6, <3>1, <4>4, AboveIs
      <4>6. ASSUME NEW q \in V, Above(q, pos), Above(u, q) PROVE FALSE
        <5>1. PICK j \in r.shown : /\ j \in Int /\ j <= h
                /\ (q = <<j>> \/ \E x \in 0..(Definitions(r, j) - 1) : q = <<j, x>>)
          BY <2>4, <4>6
        <5>2. j <= m
          BY <3>2, <5>1
        <5>3. CASE q = <<j>>
          <6>1. m < j
            BY <3>1, <4>4, <4>6, <5>1, <5>3, AboveIs
          <6> QED BY <3>1, <5>1, <5>2, <6>1
        <5>4. ASSUME NEW x \in 0..(Definitions(r, j) - 1), q = <<j, x>> PROVE FALSE
          <6>1. x \in Int /\ (j = m => x <= b)
            <7>1. PICK l : l = Definitions(r, j)
              OBVIOUS
            <7>2. x \in 0..(l - 1) /\ (j = m => l = n)
              BY <4>3, <5>4, <7>1
            <7> QED BY <4>3, <7>2
          <6>2. Above(<<m, b>>, <<j, x>>) /\ m \in Int /\ b \in Int
            BY <3>1, <4>4, <4>6, <5>4
          <6>3. m < j \/ (m = j /\ b < x)
            BY <5>1, <6>1, <6>2, AboveIs
          <6> QED BY <3>1, <4>4, <5>1, <5>2, <6>1, <6>3
        <5> QED BY <5>1, <5>3, <5>4
      <4> QED BY <4>4, <4>5, <4>6 DEF NextAbove
    <3>4. CASE ~ ChildrenVisible(r, m)
      <4>1. u = <<m>> /\ u \in V
        BY <1>2, <2>3, <2>7, <3>1, <3>4
      <4>2. Above(u, pos)
        BY <1>5, <1>6, <3>1, <4>1, AboveIs
      <4>3. ASSUME NEW q \in V, Above(q, pos), Above(u, q) PROVE FALSE
        <5>1. PICK j \in r.shown : /\ j \in Int /\ j <= h
                /\ \/ q = <<j>>
                   \/ ChildrenVisible(r, j) /\ \E x \in 0..(Definitions(r, j) - 1) : q = <<j, x>>
          BY <2>4, <4>3
        <5>2. j <= m
          BY <3>2, <5>1
        <5>3. CASE q = <<j>>
          <6>1. m < j
            BY <3>1, <4>1, <4>3, <5>1, <5>3, AboveIs
          <6> QED BY <3>1, <5>1, <5>2, <6>1
        <5>4. ASSUME ChildrenVisible(r, j), NEW x \in Int, q = <<j, x>> PROVE FALSE
          <6>1. m <= j
            BY <3>1, <4>1, <4>3, <5>1, <5>4, AboveIs
          <6>2. m = j
            BY <3>1, <5>1, <5>2, <6>1
          <6> QED BY <3>4, <5>4, <6>2
        <5> QED BY <5>1, <5>3, <5>4
      <4> QED BY <4>1, <4>2, <4>3 DEF NextAbove
    <3> QED BY <3>3, <3>4
  <2> QED BY <2>5, <2>6, <2>7
<1>7. ASSUME ChildrenVisible(r, i), NEW c \in 0..(Definitions(r, i) - 1), pos = <<i, c>>
      PROVE  NextAbove(V, pos, u)
  <2>1. Len(pos) = 2 /\ pos[1] = i /\ pos[2] = c /\ c \in Int /\ c >= 0
    BY <1>7
  <2>2. PICK n \in Nat : n = Definitions(r, i) /\ c < n
    <3>1. Definitions(r, i) \in Nat
      BY ChildrenNat
    <3> QED BY <3>1
  <2>3. u = IF c > 0 THEN <<i, c - 1>> ELSE <<i>>
    <3>1. ~ (c > 0) => c = 0
      BY <2>1
    <3> QED BY <1>1, <2>1, <3>1 DEF Up
  <2>4. CASE c > 0
    <3>1. PICK b \in 0..(n - 1) : b = c - 1
      BY <2>1, <2>2, <2>4
    <3>2. u = <<i, b>> /\ u \in V /\ b \in Int
      BY <1>2, <1>7, <2>2, <2>3, <2>4, <3>1
    <3>3. Above(u, pos)
      <4>1. b < c
        BY <2>1, <3>1
      <4> QED BY <1>5, <1>7, <2>1, <3>2, <4>1, AboveIs
    <3>4. ASSUME NEW q \in V, Above(q, pos), Above(u, q) PROVE FALSE
      <4>1. PICK j \in r.shown : q = <<j>> \/ \E x \in 0..(Definitions(r, j) - 1) : q = <<j, x>>
        BY <1>3
      <4>2. j \in Int
        BY <1>2
      <4>3. CASE q = <<j>>
        <5>1. j <= i /\ i < j
          BY <1>5, <1>7, <2>1, <3>2, <3>4, <4>2, <4>3, AboveIs
        <5> QED BY <1>5, <4>2, <5>1
      <4>4. ASSUME NEW x \in Int, q = <<j, x>> PROVE FALSE
        <5>1. (j < i \/ (j = i /\ x < c)) /\ (i < j \/ (i = j /\ b < x))
          BY <1>5, <1>7, <2>1, <3>2, <3>4, <4>2, <4>4, AboveIs
        <5> QED BY <1>5, <2>1, <3>1, <4>2, <5>1
      <4> QED BY <4>1, <4>3, <4>4
    <3> QED BY <3>2, <3>3, <3>4 DEF NextAbove
  <2>5. CASE ~ (c > 0)
    <3>1. u = <<i>> /\ u \in V /\ c = 0
      BY <1>2, <2>1, <2>3, <2>5
    <3>2. Above(u, pos)
      BY <1>5, <1>7, <2>1, <3>1, AboveIs
    <3>3. ASSUME NEW q \in V, Above(q, pos), Above(u, q) PROVE FALSE
      <4>1. PICK j \in r.shown : q = <<j>> \/ \E x \in 0..(Definitions(r, j) - 1) : q = <<j, x>>
        BY <1>3
      <4>2. j \in Int
        BY <1>2
      <4>3. CASE q = <<j>>
        <5>1. j <= i /\ i < j
          BY <1>5, <1>7, <2>1, <3>1, <3>3, <4>2, <4>3, AboveIs
        <5> QED BY <1>5, <4>2, <5>1
      <4>4. ASSUME NEW x \in Int, x >= 0, q = <<j, x>> PROVE FALSE
        <5>1. (j < i \/ (j = i /\ x < c)) /\ i <= j
          BY <1>5, <1>7, <2>1, <3>1, <3>3, <4>2, <4>4, AboveIs
        <5> QED BY <1>5, <2>1, <3>1, <4>2, <4>4, <5>1
      <4> QED BY <4>1, <4>3, <4>4
    <3> QED BY <3>1, <3>2, <3>3 DEF NextAbove
  <2> QED BY <2>4, <2>5
<1> QED BY <1>4, <1>6, <1>7
-----------------------------------------------------------------------------
\* What the handlers keep of the text, of what the frame was sent to and of the
\* link that has the focus.
Values == Texts \union {searchLabel}
Sent(b) ==
  \E s \in Sections, t \in Values : b.location = <<ResultsPage(s, NoLeading(t)), NoLeading(t)>>

BoxOK(b) ==
  /\ DOMAIN b = Fields /\ b = [f \in Fields |-> b[f]]
  /\ b.value \in Values
  /\ b.loading => Sent(b)

LinkKept(b, c) == c.focus = "results" => b.focus = "results" /\ c.link = b.link
Keeps(b, c) == BoxOK(c) /\ LinkKept(b, c)

\* Handlers call one another.
LEMMA KeepsTwice ==
  ASSUME NEW b, NEW c, NEW d, Keeps(b, c), Keeps(c, d)
  PROVE  Keeps(b, d)
BY DEF Keeps, LinkKept

LEMMA ActivateKeeps ==
  ASSUME NEW b, BoxOK(b), NEW isActive
  PROVE  Keeps(b, Activate(b, isActive))
<1> DEFINE c == Activate(b, isActive)
<1>1. /\ DOMAIN c = Fields /\ c = [f \in Fields |-> c[f]]
      /\ \A f \in Fields \ {"className", "value", "searchActive", "lastSearchValue",
                           "lastResultsPage"} : c[f] = b[f]
  BY DEF Activate, BoxOK
<1>2. c.value \in {b.value, <<>>, searchLabel}
  BY DEF Activate, BoxOK, Fields
<1>3. c.focus = b.focus /\ c.link = b.link /\ c.location = b.location /\ c.loading = b.loading
  BY <1>1 DEF Fields
<1> HIDE DEF c
<1>4. c.value \in Values
  BY <1>2, TextsAssumption DEF BoxOK, Values
<1>5. c.loading => Sent(c)
  BY <1>3 DEF BoxOK, Sent
<1>6. Keeps(b, c)
  BY <1>1, <1>3, <1>4, <1>5 DEF Keeps, LinkKept, BoxOK
<1> QED BY <1>6 DEF c

LEMMA FocusFieldKeeps ==
  ASSUME NEW b, BoxOK(b)
  PROVE  Keeps(b, FocusField(b))
<1> DEFINE c == [b EXCEPT !.focus = "field", !.link = NULL]
<1>1. Keeps(b, c)
  BY DEF Keeps, LinkKept, BoxOK, Sent, Fields
<1>2. FocusField(b) = b \/ FocusField(b) = Activate(c, TRUE)
  BY DEF FocusField
<1>3. Keeps(b, b)
  BY DEF Keeps, LinkKept
<1> HIDE DEF c
<1>4. Keeps(c, Activate(c, TRUE))
  BY <1>1, ActivateKeeps DEF Keeps
<1>5. Keeps(b, Activate(c, TRUE))
  BY <1>1, <1>4, KeepsTwice
<1> QED BY <1>2, <1>3, <1>5

\* Only the links are in the frame.
LEMMA BlurKeeps ==
  ASSUME NEW b, BoxOK(b), NEW to
  PROVE  /\ BoxOK(Blur(b, to)) /\ Blur(b, to).focus = to
         /\ to # "results" => Keeps(b, Blur(b, to))
<1> DEFINE c == [b EXCEPT !.focus = to]
           d == [b EXCEPT !.focus = to, !.link = NULL]
<1>1. BoxOK(c) /\ BoxOK(d) /\ c.focus = to /\ d.focus = to
  BY DEF BoxOK, Sent, Fields
<1>2. Blur(b, to) = Activate(c, FALSE) \/ Blur(b, to) = d
  BY DEF Blur
<1> HIDE DEF c, d
<1>3. BoxOK(Activate(c, FALSE)) /\ Activate(c, FALSE).focus = to
  <2>1. BoxOK(Activate(c, FALSE))
    BY <1>1, ActivateKeeps DEF Keeps
  <2>2. Activate(c, FALSE).focus = c.focus
    BY <1>1 DEF Activate, BoxOK, Fields
  <2> QED BY <1>1, <2>1, <2>2
<1>4. BoxOK(Blur(b, to)) /\ Blur(b, to).focus = to
  BY <1>1, <1>2, <1>3
<1> QED BY <1>4 DEF Keeps, LinkKept

LEMMA FocusLinkKeeps ==
  ASSUME NEW b, BoxOK(b), NEW r, NEW pos
  PROVE  /\ BoxOK(FocusLink(b, r, pos))
         /\ \/ Keeps(b, FocusLink(b, r, pos))
            \/ FocusLink(b, r, pos).link \in VisibleLinks(r)
<1> DEFINE c == Blur(b, "results")
           d == [c EXCEPT !.link = pos]
<1>1. CASE FocusLink(b, r, pos) = b
  BY <1>1 DEF Keeps, LinkKept
<1>2. CASE pos \in VisibleLinks(r) /\ FocusLink(b, r, pos) = d
  <2>1. BoxOK(c)
    BY BlurKeeps
  <2> HIDE DEF c
  <2>2. BoxOK(d) /\ d.link = pos
    BY <2>1 DEF BoxOK, Sent, Fields
  <2> QED BY <1>2, <2>2
<1> QED BY <1>1, <1>2 DEF FocusLink

LEMMA SearchKeeps ==
  ASSUME NEW b, BoxOK(b)
  PROVE  Keeps(b, Search(b))
<1> DEFINE search == NoLeading(b.value)
           resultsPage == ResultsPage(b.searchIndex, search)
           c == Search(b)
<1>1. search = NoLeading(b.value) /\ resultsPage = ResultsPage(b.searchIndex, search)
  OBVIOUS
<1> HIDE DEF search, resultsPage
<1>2. c = IF b.searchIndex \notin Sections THEN [b EXCEPT !.keyTimeout = FALSE]
       ELSE [b EXCEPT !.keyTimeout = FALSE, !.location = <<resultsPage, search>>, !.loading = TRUE,
                      !.results = TRUE, !.lastSearchValue = search, !.lastResultsPage = resultsPage]
  BY DEF Search, search, resultsPage
<1> HIDE DEF c
<1>3. CASE b.searchIndex \notin Sections
  <2>1. c = [b EXCEPT !.keyTimeout = FALSE]
    BY <1>2, <1>3
  <2>2. Keeps(b, c)
    BY <2>1 DEF Keeps, LinkKept, BoxOK, Sent, Fields
  <2> QED BY <2>2 DEF c
<1>4. CASE b.searchIndex \in Sections
  <2>1. c = [b EXCEPT !.keyTimeout = FALSE, !.location = <<resultsPage, search>>, !.loading = TRUE,
                      !.results = TRUE, !.lastSearchValue = search, !.lastResultsPage = resultsPage]
    BY <1>2, <1>4
  <2>2. /\ DOMAIN c = Fields /\ c = [f \in Fields |-> c[f]]
        /\ c.value = b.value /\ c.focus = b.focus /\ c.link = b.link
        /\ c.location = <<resultsPage, search>>
    BY <2>1 DEF BoxOK, Fields
  <2>3. Sent(c)
    BY <1>1, <1>4, <2>2 DEF Sent, BoxOK
  <2>4. Keeps(b, c)
    BY <2>2, <2>3 DEF Keeps, LinkKept, BoxOK
  <2> QED BY <2>4 DEF c
<1> QED BY <1>3, <1>4

LEMMA OnSelectItemKeeps ==
  ASSUME NEW b, BoxOK(b), NEW id
  PROVE  Keeps(b, OnSelectItem(b, id))
<1> DEFINE chosen == [b EXCEPT !.searchIndex = id, !.marked = {id} \intersect Sections]
<1>1. Keeps(b, chosen)
  BY DEF Keeps, LinkKept, BoxOK, Sent, Fields
<1>2. OnSelectItem(b, id) = chosen \/ OnSelectItem(b, id) = Search(chosen)
  BY DEF OnSelectItem
<1> HIDE DEF chosen
<1>3. Keeps(chosen, Search(chosen))
  BY <1>1, SearchKeeps DEF Keeps
<1>4. Keeps(b, Search(chosen))
  BY <1>1, <1>3, KeepsTwice
<1> QED BY <1>1, <1>2, <1>4

LEMMA HideResultsKeeps ==
  ASSUME NEW b, BoxOK(b)
  PROVE  /\ Keeps(b, HideResults(b)) /\ Keeps(b, [HideResults(b) EXCEPT !.lastSearchValue = <<>>])
         /\ HideResults(b).focus # "results"
BY DEF HideResults, Keeps, LinkKept, BoxOK, Sent, Fields

LEMMA CloseResultsWindowKeeps ==
  ASSUME NEW b, BoxOK(b)
  PROVE  Keeps(b, CloseResultsWindow(b))
<1> DEFINE c == HideResults(b)
<1>1. Keeps(b, c)
  BY HideResultsKeeps
<1>2. CloseResultsWindow(b) = Activate(c, FALSE)
  BY DEF CloseResultsWindow
<1> HIDE DEF c
<1>3. Keeps(c, Activate(c, FALSE))
  BY <1>1, ActivateKeeps DEF Keeps
<1> QED BY <1>1, <1>2, <1>3, KeepsTwice

LEMMA CompareKeeps ==
  ASSUME NEW b, BoxOK(b)
  PROVE  Keeps(b, Compare(b))
<1>1. \/ Compare(b) = b
      \/ Compare(b) = [b EXCEPT !.keyTimeout = TRUE, !.timers = @ + 1]
      \/ Compare(b) = [HideResults(b) EXCEPT !.lastSearchValue = <<>>]
  BY DEF Compare
<1>2. CASE Compare(b) = b
  BY <1>2 DEF Keeps, LinkKept
<1>3. CASE Compare(b) = [b EXCEPT !.keyTimeout = TRUE, !.timers = @ + 1]
  BY <1>3 DEF Keeps, LinkKept, BoxOK, Sent, Fields
<1>4. CASE Compare(b) = [HideResults(b) EXCEPT !.lastSearchValue = <<>>]
  BY <1>4, HideResultsKeeps
<1> QED BY <1>1, <1>2, <1>3, <1>4

\* A key released in the field may have moved the focus to a link.
LEMMA OnSearchFieldChangeKeeps ==
  ASSUME NEW b, BoxOK(b), NEW key
  PROVE  LET c == OnSearchFieldChange(b, key)
         IN BoxOK(c) /\ (LinkKept(b, c) \/ c.link \in VisibleLinks(page))
<1> DEFINE killed == IF b.keyTimeout THEN [b EXCEPT !.keyTimeout = FALSE, !.timers = @ - 1] ELSE b
           down == FocusLink(killed, page, NavNext(page, 0))
           list == OnSearchSelectShow(killed)
           away == Blur(killed, "none")
           cleared == [HideResults(away) EXCEPT !.lastSearchValue = <<>>]
<1>1. Keeps(b, killed)
  BY DEF Keeps, LinkKept, BoxOK, Sent, Fields
<1>2. \/ OnSearchFieldChange(b, key) = Blur(list, "filter")
      \/ OnSearchFieldChange(b, key) = Compare(down)
      \/ OnSearchFieldChange(b, key) = Activate(cleared, FALSE)
      \/ OnSearchFieldChange(b, key) = Compare(killed)
  BY DEF OnSearchFieldChange
<1> HIDE DEF killed
<1>3. Keeps(b, Blur(list, "filter"))
  <2>1. Keeps(killed, list)
    BY <1>1 DEF OnSearchSelectShow, Keeps, LinkKept, BoxOK, Sent, Fields
  <2> HIDE DEF list
  <2>2. Keeps(list, Blur(list, "filter"))
    BY <2>1, BlurKeeps DEF Keeps
  <2>3. Keeps(b, list)
    BY <1>1, <2>1, KeepsTwice
  <2> QED BY <2>2, <2>3, KeepsTwice
<1>4. /\ BoxOK(Compare(down))
      /\ LinkKept(b, Compare(down)) \/ Compare(down).link \in VisibleLinks(page)
  <2>1. BoxOK(down) /\ (Keeps(killed, down) \/ down.link \in VisibleLinks(page))
    BY <1>1, FocusLinkKeeps DEF Keeps
  <2> HIDE DEF down
  <2>2. Keeps(down, Compare(down))
    BY <2>1, CompareKeeps
  <2>3. CASE Keeps(killed, down)
    <3>1. Keeps(b, down)
      BY <1>1, <2>3, KeepsTwice
    <3>2. Keeps(b, Compare(down))
      BY <2>2, <3>1, KeepsTwice
    <3> QED BY <3>2 DEF Keeps
  <2>4. CASE down.link \in VisibleLinks(page)
    BY <2>2, <2>4 DEF Keeps, LinkKept
  <2> QED BY <2>1, <2>3, <2>4
<1>5. Keeps(b, Activate(cleared, FALSE))
  <2>1. Keeps(killed, away)
    BY <1>1, BlurKeeps DEF Keeps
  <2> HIDE DEF away
  <2>2. Keeps(away, cleared)
    BY <2>1, HideResultsKeeps DEF Keeps
  <2> HIDE DEF cleared
  <2>3. Keeps(cleared, Activate(cleared, FALSE))
    BY <2>2, ActivateKeeps DEF Keeps
  <2>4. Keeps(b, away)
    BY <1>1, <2>1, KeepsTwice
  <2>5. Keeps(b, cleared)
    BY <2>2, <2>4, KeepsTwice
  <2> QED BY <2>3, <2>5, KeepsTwice
<1>6. Keeps(b, Compare(killed))
  <2>1. Keeps(killed, Compare(killed))
    BY <1>1, CompareKeeps DEF Keeps
  <2> QED BY <1>1, <2>1, KeepsTwice
<1> QED BY <1>2, <1>3, <1>4, <1>5, <1>6 DEF Keeps

LEMMA CloseSelectionWindowKeeps ==
  ASSUME NEW b, BoxOK(b)
  PROVE  Keeps(b, CloseSelectionWindow(b))
BY DEF CloseSelectionWindow, Keeps, LinkKept, BoxOK, Sent, Fields

LEMMA OnSearchSelectKeyKeeps ==
  ASSUME NEW b, BoxOK(b), NEW key
  PROVE  Keeps(b, OnSearchSelectKey(b, key))
<1> DEFINE chosen == OnSelectItem(b, b.searchIndex)
           closed == CloseSelectionWindow(chosen)
<1>1. \/ \E id : OnSearchSelectKey(b, key) = OnSelectItem(b, id)
      \/ OnSearchSelectKey(b, key) = FocusField(closed)
      \/ OnSearchSelectKey(b, key) = b
  BY DEF OnSearchSelectKey
<1>2. Keeps(b, chosen)
  BY OnSelectItemKeeps
<1> HIDE DEF chosen
<1>3. Keeps(b, closed)
  <2>1. Keeps(chosen, closed)
    BY <1>2, CloseSelectionWindowKeeps DEF Keeps
  <2> HIDE DEF closed
  <2> QED BY <1>2, <2>1, KeepsTwice
<1> HIDE DEF closed
<1>4. Keeps(b, FocusField(closed))
  <2>1. Keeps(closed, FocusField(closed))
    BY <1>3, FocusFieldKeeps DEF Keeps
  <2> QED BY <1>3, <2>1, KeepsTwice
<1>5. Keeps(b, b)
  BY DEF Keeps, LinkKept
<1> QED BY <1>1, <1>4, <1>5, OnSelectItemKeeps
-----------------------------------------------------------------------------
\* What is searched for has a length, whatever was typed.
LEMMA NoLeadingSeq ==
  ASSUME NEW S, NEW t \in Seq(S)
  PROVE  NoLeading(t) \in Seq(S)
<1>1. PICK n \in Nat : n = Len(t) /\ DOMAIN t = 1..n /\ \A k \in 1..n : t[k] \in S
  BY LenProperties, ElementOfSeq
<1>2. PICK I : I = {i \in 1..n : NotBlank(t[i])}
  OBVIOUS
<1>3. CASE I = {}
  <2>1. \A k \in DOMAIN t : ~ NotBlank(t[k])
    BY <1>1, <1>2, <1>3
  <2>2. NoLeading(t) = <<>>
    BY <2>1 DEF NoLeading
  <2> QED BY <2>2
<1>4. CASE I # {}
  <2>1. PICK m : m = Min(I)
    OBVIOUS
  <2>2. m \in I
    <3>1. I \subseteq Nat
      BY <1>2
    <3>2. \E x \in I : \A y \in I : x <= y
      BY <1>4, <3>1, Smallest
    <3> QED BY <2>1, <3>2 DEF Min
  <2>3. ~ \A k \in DOMAIN t : ~ NotBlank(t[k])
    BY <1>1, <1>2, <2>2
  <2>4. SelectInSeq(t, NotBlank) = m
    BY <1>1, <1>2, <1>4, <2>1 DEF SelectInSeq
  <2>5. NoLeading(t) = SubSeq(t, m, n)
    BY <1>1, <2>3, <2>4 DEF NoLeading
  <2>6. SubSeq(t, m, n) \in Seq(S)
    <3>1. m \in 1..n /\ m \in Int /\ n \in Int /\ \A i \in m..n : t[i] \in S
      BY <1>1, <1>2, <2>2
    <3> QED BY <3>1, SubSeqProperties
  <2> QED BY <2>5, <2>6
<1> QED BY <1>3, <1>4

\* So has the word Search compares names with.
LEMMA SearchedLen ==
  ASSUME NEW S, NEW t \in Seq(S)
  PROVE  Len(convertToId(NoTrailing(t))) \in Nat
<1>1. PICK n \in Nat : n = Len(t) /\ DOMAIN t = 1..n /\ \A k \in 1..n : t[k] \in S
  BY LenProperties, ElementOfSeq
<1>2. PICK I, m : I = {i \in 1..n : NotBlank(t[i])} /\ m = IF I # {} THEN Max(I) ELSE 0
  OBVIOUS
<1>3. m \in 0..n
  <2>1. CASE I = {}
    BY <1>2, <2>1
  <2>2. CASE I # {}
    <3>1. I \subseteq 0..n
      BY <1>2
    <3>2. \E x \in I : \A y \in I : x >= y
      BY <2>2, <3>1, Largest
    <3>3. m \in I
      BY <1>2, <2>2, <3>2 DEF Max
    <3> QED BY <3>1, <3>3
  <2> QED BY <2>1, <2>2
<1>4. SelectLastInSeq(t, NotBlank) = m
  BY <1>1, <1>2 DEF SelectLastInSeq
<1>5. PICK x : x = NoTrailing(t)
  OBVIOUS
<1>6. x \in Seq(S)
  <2>1. x = SubSeq(t, 1, m)
    BY <1>4, <1>5 DEF NoTrailing
  <2>2. \A i \in 1..m : t[i] \in S
    BY <1>1, <1>3
  <2> QED BY <1>3, <2>1, <2>2, SubSeqProperties
<1>7. PICK l \in Nat : l = Len(x) /\ DOMAIN x = 1..l
  BY <1>6, LenProperties
<1>8. PICK s : s = convertToId(x)
  OBVIOUS
<1>9. s = [k \in 1..l |-> Id(x[k])]
  BY <1>7, <1>8 DEF convertToId
<1>10. s \in Seq({Id(x[k]) : k \in 1..l})
  BY <1>9
<1> QED BY <1>5, <1>8, <1>10, LenProperties

\* Two entries a text leads to agree on as many pieces as it has.
LEMMA PrefixesAgree ==
  ASSUME NEW S, NEW s, Len(s) \in Nat, NEW a \in Seq(S), NEW b \in Seq(S),
         IsPrefix(s, a)
  PROVE  /\ Len(s) <= Len(a)
         /\ IsPrefix(s, b) => \A i \in 1..Len(s) : a[i] = b[i]
         /\ Len(s) <= Len(b) /\ (\A i \in 1..Len(s) : a[i] = b[i]) => IsPrefix(s, b)
<1>1. PICK n \in Nat : n = Len(s)
  OBVIOUS
<1>2. Len(a) \in Nat /\ Len(b) \in Nat /\ n <= Len(a)
  BY <1>1, LenProperties DEF IsPrefix
<1>3. ASSUME NEW c \in Seq(S), n <= Len(c)
      PROVE  /\ SubSeq(c, 1, n) \in Seq(S) /\ Len(SubSeq(c, 1, n)) = n
             /\ \A i \in 1..n : SubSeq(c, 1, n)[i] = c[i]
  <2>1. \A i \in 1..n : c[i] \in S
    <3>1. Len(c) \in Nat
      BY LenProperties
    <3>2. \A i \in 1..n : i \in 1..Len(c)
      BY <1>3, <3>1
    <3> QED BY <3>2, ElementOfSeq
  <2>2. PICK d : d = SubSeq(c, 1, n)
    OBVIOUS
  <2>3. /\ d \in Seq(S) /\ Len(d) = IF 1 <= n THEN n - 1 + 1 ELSE 0
        /\ \A i \in 1..(n - 1 + 1) : d[i] = c[1 + i - 1]
    BY <2>1, <2>2, SubSeqProperties
  <2>4. n - 1 + 1 = n /\ \A i \in 1..n : 1 + i - 1 = i
    OBVIOUS
  <2> QED BY <2>2, <2>3, <2>4
<1>4. PICK d, e : d = SubSeq(a, 1, n) /\ e = SubSeq(b, 1, n)
  OBVIOUS
<1>5. ASSUME n <= Len(b)
      PROVE  d = e <=> \A i \in 1..n : a[i] = b[i]
  <2>1. /\ d \in Seq(S) /\ Len(d) = n /\ \A i \in 1..n : d[i] = a[i]
        /\ e \in Seq(S) /\ Len(e) = n /\ \A i \in 1..n : e[i] = b[i]
    BY <1>2, <1>3, <1>4, <1>5
  <2>2. (\A i \in 1..n : a[i] = b[i]) => d = e
    BY <2>1, SeqEqual
  <2> QED BY <2>1, <2>2
<1>6. SubSeq(s, 1, n) = d /\ (IsPrefix(s, b) <=> n <= Len(b) /\ SubSeq(s, 1, n) = e)
  BY <1>1, <1>4 DEF IsPrefix
<1> QED BY <1>1, <1>2, <1>5, <1>6

\* On the page of the letter s every name begins with s and goes on in its own
\* way: a text leads to all its entries or to one of them at most.
LEMMA AllEMatches ==
  ASSUME NEW s, Len(s) \in Nat, NEW M, M = {i \in 0..3 : IsPrefix(s, all_e[i + 1].name)}
  PROVE  Contiguous(M)
<1>1. PICK a, b, c, d : /\ a = all_e[1].name /\ b = all_e[2].name
                        /\ c = all_e[3].name /\ d = all_e[4].name
  OBVIOUS
<1>2. /\ a = <<"s", "everity", "_5f", "t">> /\ b = <<"s", "imulator", "_2e", "c">>
      /\ c = <<"s", "tatus", "_5f", "t">> /\ d = <<"s", "uccess">>
  BY <1>1 DEF all_e, Entry
<1> PICK S : S = {"s", "everity", "_5f", "t", "imulator", "_2e", "c", "tatus", "uccess"}
  OBVIOUS
<1>3. \A x \in {a, b, c, d} : x \in Seq(S) /\ Len(x) \in Nat /\ Len(x) >= 2 /\ x[1] = "s"
  <2>1. /\ "s" \in S /\ "everity" \in S /\ "_5f" \in S /\ "t" \in S /\ "imulator" \in S
        /\ "_2e" \in S /\ "c" \in S /\ "tatus" \in S /\ "uccess" \in S
    OBVIOUS
  <2>2. a \in Seq(S) /\ b \in Seq(S) /\ c \in Seq(S) /\ d \in Seq(S)
    BY <1>2, <2>1
  <2>3. Len(a) = 4 /\ Len(b) = 4 /\ Len(c) = 4 /\ Len(d) = 2
    BY <1>2
  <2>4. a[1] = "s" /\ b[1] = "s" /\ c[1] = "s" /\ d[1] = "s"
    BY <1>2
  <2>5. ASSUME NEW x \in {a, b, c, d}
        PROVE  x \in Seq(S) /\ Len(x) \in Nat /\ Len(x) >= 2 /\ x[1] = "s"
    <3>1. x \in Seq(S) /\ x[1] = "s"
      BY <2>2, <2>4
    <3>2. PICK n \in Nat : n = Len(x) /\ (n = 4 \/ n = 2)
      BY <2>3
    <3>3. n >= 2
      BY <3>2
    <3> QED BY <3>1, <3>2, <3>3
  <2> QED BY <2>5
<1>4. \A x \in {a, b, c, d}, y \in {a, b, c, d} : x[2] = y[2] => x = y
  BY <1>2
<1>5. ASSUME NEW x \in {a, b, c, d}, NEW y \in {a, b, c, d}, NEW z \in {a, b, c, d},
             x # y, IsPrefix(s, x), IsPrefix(s, y)
      PROVE  IsPrefix(s, z)
  <2>1. x \in Seq(S) /\ y \in Seq(S) /\ z \in Seq(S)
    BY <1>3
  <2>2. \A i \in 1..Len(s) : x[i] = y[i]
    BY <1>5, <2>1, PrefixesAgree
  <2>3. Len(s) < 2
    <3>1. x[2] # y[2]
      BY <1>4, <1>5
    <3> QED BY <2>2, <3>1
  <2>4. Len(s) <= Len(z) /\ \A i \in 1..Len(s) : x[i] = z[i]
    <3>1. x[1] = z[1] /\ Len(z) \in Nat /\ Len(z) >= 2
      BY <1>3
    <3>2. \A i \in 1..Len(s) : i = 1
      BY <2>3
    <3> QED BY <2>3, <3>1, <3>2
  <2> QED BY <1>5, <2>1, <2>4, PrefixesAgree
<1>6. \A i \in 0..3 : all_e[i + 1].name = IF i = 0 THEN a ELSE IF i = 1 THEN b ELSE IF i = 2 THEN c ELSE d
  BY <1>1
<1>7. PICK name : name = [i \in 0..3 |-> all_e[i + 1].name]
  OBVIOUS
<1>8. /\ name[0] = a /\ name[1] = b /\ name[2] = c /\ name[3] = d
      /\ \A i \in 0..3 : name[i] \in {a, b, c, d} /\ (i \in M <=> IsPrefix(s, name[i]))
  BY <1>6, <1>7
<1>9. \A i \in 0..3, k \in 0..3 : i # k => name[i] # name[k]
  BY <1>2, <1>8
<1>10. ASSUME NEW i \in M, NEW k \in M, NEW j \in Int, i <= j, j <= k
       PROVE  j \in M
  <2>1. i \in 0..3 /\ k \in 0..3
    OBVIOUS
  <2>2. j \in 0..3
    BY <1>10, <2>1
  <2>3. CASE i = k
    <3>1. j = i
      BY <1>10, <2>1, <2>2, <2>3
    <3> QED BY <3>1
  <2>4. CASE i # k
    <3>1. name[i] # name[k] /\ IsPrefix(s, name[i]) /\ IsPrefix(s, name[k])
      BY <1>8, <1>9, <2>1, <2>4
    <3>2. IsPrefix(s, name[j])
      BY <1>5, <1>8, <2>1, <2>2, <3>1
    <3> QED BY <1>8, <2>2, <3>2
  <2> QED BY <2>3, <2>4
<1> QED BY <1>10 DEF Contiguous

\* The page of no entries.
LEMMA NoPageOK == PageOK(NoPage)
<1>1. Len(<<>>) = 0
  OBVIOUS
<1> QED BY <1>1 DEF PageOK, NoPage, createResults, PageFields, Contiguous, Items

\* Whatever is searched for on a page of the index, what is shown can be moved
\* through.
LEMMA MatchingOK ==
  ASSUME NEW e \in Pages, NEW S, NEW search \in Seq(S)
  PROVE  PageOK(Matching(createResults(e), search))
<1>1. PICK s : s = convertToId(NoTrailing(NoLeading(search)))
  OBVIOUS
<1>2. Len(s) \in Nat
  BY <1>1, NoLeadingSeq, SearchedLen
<1>3. PICK r, M : /\ r = Matching(createResults(e), search)
                  /\ M = {i \in 0..(Len(e) - 1) : IsPrefix(s, e[i + 1].name)}
  OBVIOUS
<1>4. /\ DOMAIN r = PageFields /\ r = [f \in PageFields |-> r[f]]
      /\ r.entries = e /\ r.shown = M
  BY <1>1, <1>3 DEF Matching, createResults, PageFields, Items
<1>5. r.shown \subseteq Items(r)
  BY <1>3, <1>4 DEF Items
<1>6. Contiguous(M) \/ Plain(r)
  <2>1. /\ Len(e) \in Nat
        /\ \/ Len(e) <= 2
           \/ \A k \in 1..Len(e) : e[k].definitions = 1
           \/ e = all_e
    BY PagesAre
  <2>2. CASE Len(e) <= 2
    <3>1. M \subseteq {0, 1}
      BY <1>3, <2>1, <2>2
    <3>2. ASSUME NEW i \in M, NEW k \in M, NEW j \in Int, i <= j, j <= k PROVE j = i \/ j = k
      BY <3>1, <3>2
    <3> QED BY <3>2 DEF Contiguous
  <2>3. CASE \A k \in 1..Len(e) : e[k].definitions = 1
    <3>1. ASSUME NEW i \in Items(r) PROVE Definitions(r, i) = 0
      <4>1. i + 1 \in 1..Len(e)
        BY <1>4, <2>1 DEF Items
      <4>2. e[i + 1].definitions = 1
        BY <2>3, <4>1
      <4> QED BY <1>4, <4>2 DEF Definitions
    <3> QED BY <3>1 DEF Plain
  <2>4. CASE e = all_e
    <3>1. Len(e) - 1 = 3
      BY <2>4 DEF all_e
    <3>2. M = {i \in 0..3 : IsPrefix(s, all_e[i + 1].name)}
      BY <1>3, <2>4, <3>1
    <3> QED BY <1>2, <3>2, AllEMatches
  <2> QED BY <2>1, <2>2, <2>3, <2>4
<1> QED BY <1>3, <1>4, <1>5, <1>6 DEF PageOK

\* What the keys and the clicks do to a page; its links are displayed or not
\* with the entries and the folds alone.
LEMMA PageKept ==
  ASSUME NEW r, PageOK(r), NEW p,
         DOMAIN p = PageFields, p = [f \in PageFields |-> p[f]],
         p.entries = r.entries, p.shown = r.shown
  PROVE  /\ PageOK(p)
         /\ \A pos \in VisibleLinks(r) : Len(pos) = 1 => pos \in VisibleLinks(p)
         /\ p.unfolded = r.unfolded => VisibleLinks(p) = VisibleLinks(r)
<1>1. Items(p) = Items(r) /\ \A i : Definitions(p, i) = Definitions(r, i)
  BY DEF Items, Definitions
<1>2. PageOK(p)
  <2>1. Plain(r) => Plain(p)
    BY <1>1 DEF Plain
  <2>2. p.entries \in Pages \union {<<>>} /\ p.shown \subseteq Items(p)
    BY <1>1 DEF PageOK
  <2>3. Contiguous(p.shown) \/ Plain(p)
    BY <2>1 DEF PageOK
  <2> QED BY <2>2, <2>3 DEF PageOK
<1>3. Links(p) = Links(r)
  <2>1. ASSUME NEW a, NEW b, Items(a) = Items(b), \A i : Definitions(a, i) = Definitions(b, i),
               NEW q \in Links(a)
        PROVE  q \in Links(b)
    <3>1. CASE \E i \in Items(a) : q = <<i>>
      BY <2>1, <3>1 DEF Links
    <3>2. ASSUME NEW i \in Items(a), NEW c \in 0..(Definitions(a, i) - 1), q = <<i, c>>
          PROVE  q \in Links(b)
      <4>1. i \in Items(b) /\ c \in 0..(Definitions(b, i) - 1)
        BY <2>1
      <4> QED BY <3>2, <4>1 DEF Links
    <3> QED BY <2>1, <3>1, <3>2 DEF Links
  <2>2. \A q : q \in Links(p) <=> q \in Links(r)
    BY <1>1, <2>1
  <2> QED BY <2>2
<1>4. ASSUME NEW pos \in VisibleLinks(r), Len(pos) = 1 PROVE pos \in VisibleLinks(p)
  BY <1>3, <1>4 DEF VisibleLinks, Displayed
<1>5. ASSUME p.unfolded = r.unfolded PROVE VisibleLinks(p) = VisibleLinks(r)
  <2>1. \A i : ChildrenVisible(p, i) <=> ChildrenVisible(r, i)
    BY <1>1, <1>5 DEF ChildrenVisible
  <2>2. \A pos : Displayed(p, pos) <=> Displayed(r, pos)
    BY <2>1 DEF Displayed
  <2> QED BY <1>3, <2>2 DEF VisibleLinks
<1> QED BY <1>2, <1>4, <1>5

\* What ProcessKeys remembers displays nothing else.
LEMMA KeysKept ==
  ASSUME NEW r, PageOK(r), NEW type \in {"keydown", "keypress", "keyup"}, NEW key
  PROVE  /\ PageOK(ProcessKeys(r, type, key))
         /\ VisibleLinks(ProcessKeys(r, type, key)) = VisibleLinks(r)
<1>1. PICK p : p = ProcessKeys(r, type, key)
  OBVIOUS
<1>2. /\ DOMAIN p = PageFields /\ p = [f \in PageFields |-> p[f]]
      /\ p.entries = r.entries /\ p.shown = r.shown /\ p.unfolded = r.unfolded
  BY <1>1 DEF ProcessKeys, PageOK, PageFields
<1> QED BY <1>1, <1>2, PageKept

\* What Load finds in the frame.
LEMMA LoadOK ==
  ASSUME BoxOK(box), box.loading, page' = IF box.location[1] = nomatches THEN NoPage
             ELSE Matching(createResults(searchData(box.location[1][1], box.location[1][2])),
                           box.location[2])
  PROVE  PageOK(page')
<1>1. PICK s \in Sections, t \in Values : box.location = <<ResultsPage(s, NoLeading(t)), NoLeading(t)>>
  BY DEF BoxOK, Sent
<1>2. PICK p, u, e : /\ p = ResultsPage(s, NoLeading(t)) /\ u = NoLeading(t)
                     /\ e = searchData(p[1], p[2])
  OBVIOUS
<1>3. box.location[1] = p /\ box.location[2] = u
  BY <1>1, <1>2
<1>4. page' = IF p = nomatches THEN NoPage ELSE Matching(createResults(e), u)
  BY <1>2, <1>3
<1>5. CASE p = nomatches
  BY <1>4, <1>5, NoPageOK
<1>6. CASE p # nomatches
  <2>1. e \in Pages
    BY <1>2, <1>6, PagesAssumption DEF Values
  <2>2. PICK S : t \in Seq(S)
    <3>1. searchLabel \in Seq({"Search"})
      BY DEF searchLabel
    <3> QED BY <3>1, TextsAssumption DEF Values
  <2>3. u \in Seq(S)
    BY <1>2, <2>2, NoLeadingSeq
  <2>4. PageOK(Matching(createResults(e), u))
    BY <2>1, <2>3, MatchingOK
  <2> QED BY <1>4, <1>6, <2>4
<1> QED BY <1>5, <1>6
-----------------------------------------------------------------------------
\* The invariant.
ArrowsInv ==
  /\ PageOK(page) /\ BoxOK(box)
  /\ box.focus = "results" => box.link \in VisibleLinks(page)

\* It holds once init_search has run.
LEMMA ArrowsInit == PanelInit => ArrowsInv
<1> SUFFICES ASSUME PanelInit PROVE ArrowsInv
  OBVIOUS
<1> DEFINE b == [value |-> searchLabel, className |-> "inactive", searchActive |-> FALSE,
                 focus |-> "none", link |-> NULL, keyTimeout |-> FALSE, timers |-> 0,
                 lastSearchValue |-> <<>>, lastResultsPage |-> Blank, searchIndex |-> 0, marked |-> {},
                 results |-> FALSE, popup |-> FALSE, hideTimers |-> 0,
                 location |-> <<Blank, <<>>>>, loading |-> FALSE]
<1>1. BoxOK(b) /\ b.focus = "none"
  BY DEF BoxOK, Fields, Values
<1>2. box = OnSelectItem(b, 0) /\ page = NoPage
  BY DEF PanelInit
<1> HIDE DEF b
<1>3. Keeps(b, box)
  BY <1>1, <1>2, OnSelectItemKeeps
<1> QED BY <1>1, <1>2, <1>3, NoPageOK DEF ArrowsInv, Keeps, LinkKept

\* A step that leaves the page alone, and keeps what handlers keep.
LEMMA QuietStep ==
  ASSUME ArrowsInv, page' = page, BoxOK(box'),
         LinkKept(box, box') \/ box'.link \in VisibleLinks(page)
  PROVE  ArrowsInv'
BY DEF ArrowsInv, BoxOK, LinkKept, PageOK, Sent

\* Any step, by what it leaves.
LEMMA AfterStep ==
  ASSUME PageOK(page'), BoxOK(box'), box'.focus = "results" => box'.link \in VisibleLinks(page')
  PROVE  ArrowsInv'
BY DEF ArrowsInv, BoxOK, PageOK, Sent

\* A key on a link.
LEMMA LinkKeyStep ==
  ASSUME ArrowsInv, NEW type \in {"keydown", "keypress"}, NEW key \in LinkKeys, LinkKey(type, key)
  PROVE  PageOK(page') /\ BoxOK(box') /\ (box'.focus = "results" => box'.link \in VisibleLinks(page'))
<1>1. PICK r : r = ProcessKeys(page, type, key)
  OBVIOUS
<1>2. PageOK(r) /\ VisibleLinks(r) = VisibleLinks(page) /\ box.link \in VisibleLinks(page) /\ BoxOK(box)
  BY <1>1, KeysKept DEF ArrowsInv, LinkKey
<1>3. CASE ~ Acts(page, type)
  <2>1. page' = r /\ box' = box
    BY <1>1, <1>3 DEF LinkKey
  <2> QED BY <1>2, <2>1
<1>4. CASE Acts(page, type) /\ key \in {"left", "right"}
  <2>1. page' = Unfold(r, key, box.link) /\ box' = box
    BY <1>1, <1>4 DEF LinkKey
  <2>2. PICK p : p = page'
    OBVIOUS
  <2>3. \/ p = r
        \/ Len(box.link) = 1 /\ p = [r EXCEPT !.unfolded = @ \union {box.link[1]}]
        \/ Len(box.link) = 1 /\ p = [r EXCEPT !.unfolded = @ \ {box.link[1]}]
    BY <2>1, <2>2 DEF Unfold
  <2>4. /\ DOMAIN p = PageFields /\ p = [f \in PageFields |-> p[f]]
        /\ p.entries = r.entries /\ p.shown = r.shown
    BY <1>2, <2>3 DEF PageOK, PageFields
  <2>5. PageOK(p) /\ (Len(box.link) = 1 => box.link \in VisibleLinks(p))
    BY <1>2, <2>4, PageKept
  <2>6. box.link \in VisibleLinks(p)
    BY <1>2, <2>3, <2>5
  <2> QED BY <1>2, <2>1, <2>2, <2>5, <2>6
<1>5. CASE Acts(page, type) /\ key \notin {"left", "right"}
  <2>1. page' = r
    BY <1>1, <1>5 DEF LinkKey, Unfold
  <2>2. \/ box' = FocusField(box)
        \/ \E pos : box' = FocusLink(box, r, pos)
        \/ box' = FocusField(CloseResultsWindow(box))
        \/ box' = box
    BY <1>1, <1>5 DEF LinkKey
  <2>3. BoxOK(box') /\ (LinkKept(box, box') \/ box'.link \in VisibleLinks(r))
    <3>1. CASE box' = FocusField(box)
      BY <1>2, <3>1, FocusFieldKeeps DEF Keeps
    <3>2. ASSUME NEW pos, box' = FocusLink(box, r, pos)
          PROVE  BoxOK(box') /\ (LinkKept(box, box') \/ box'.link \in VisibleLinks(r))
      BY <1>2, <3>2, FocusLinkKeeps DEF Keeps
    <3>3. CASE box' = FocusField(CloseResultsWindow(box))
      <4>1. PICK c : c = CloseResultsWindow(box)
        OBVIOUS
      <4>2. Keeps(box, c)
        BY <1>2, <4>1, CloseResultsWindowKeeps
      <4>3. Keeps(c, FocusField(c))
        BY <4>2, FocusFieldKeeps DEF Keeps
      <4>4. Keeps(box, FocusField(c))
        BY <4>2, <4>3, KeepsTwice
      <4> QED BY <3>3, <4>1, <4>4 DEF Keeps
    <3>4. CASE box' = box
      BY <1>2, <3>4 DEF LinkKept
    <3> QED BY <2>2, <3>1, <3>2, <3>3, <3>4
  <2> QED BY <1>2, <2>1, <2>3 DEF LinkKept
<1> QED BY <1>3, <1>4, <1>5

\* Every step keeps it.
LEMMA ArrowsStep == ArrowsInv /\ [PanelNext]_panelVars => ArrowsInv'
<1> SUFFICES ASSUME ArrowsInv, [PanelNext]_panelVars PROVE ArrowsInv'
  OBVIOUS
<1>0. BoxOK(box) /\ PageOK(page)
  BY DEF ArrowsInv
<1>1. CASE EnterField
  <2>1. page' = page /\ Keeps(box, box')
    BY <1>0, <1>1, FocusFieldKeeps DEF EnterField
  <2> QED BY <2>1, QuietStep DEF Keeps
<1>2. CASE LeaveField
  <2>1. page' = page /\ Keeps(box, box')
    BY <1>0, <1>2, BlurKeeps DEF LeaveField
  <2> QED BY <2>1, QuietStep DEF Keeps
<1>3. ASSUME NEW key \in FieldKeys, FieldKeyDown(key) PROVE ArrowsInv'
  <2>1. page' = page /\ (box' = box \/ \E t \in Texts : box' = [box EXCEPT !.value = t])
    BY <1>3 DEF FieldKeyDown
  <2>2. Keeps(box, box')
    BY <1>0, <2>1 DEF Keeps, LinkKept, BoxOK, Sent, Fields, Values
  <2> QED BY <2>1, <2>2, QuietStep DEF Keeps
<1>4. CASE FieldKeyUp
  <2>1. page' = page /\ box' = OnSearchFieldChange(box, held)
    BY <1>4 DEF FieldKeyUp
  <2>2. BoxOK(box') /\ (LinkKept(box, box') \/ box'.link \in VisibleLinks(page))
    BY <1>0, <2>1, OnSearchFieldChangeKeeps
  <2> QED BY <2>1, <2>2, QuietStep
<1>5. CASE OtherKeyUp
  <2>1. box' = box /\ (page' = page \/ page' = ProcessKeys(page, "keyup", held))
    BY <1>5 DEF OtherKeyUp
  <2>2. PICK p : p = page'
    OBVIOUS
  <2>3. PageOK(p) /\ VisibleLinks(p) = VisibleLinks(page)
    BY <1>0, <2>1, <2>2, KeysKept
  <2> QED BY <1>0, <2>1, <2>2, <2>3, AfterStep DEF ArrowsInv
<1>6. ASSUME NEW type \in {"keydown", "keypress"}, NEW key \in LinkKeys, LinkKey(type, key)
      PROVE  ArrowsInv'
  <2>1. PageOK(page') /\ BoxOK(box') /\ (box'.focus = "results" => box'.link \in VisibleLinks(page'))
    BY <1>6, LinkKeyStep
  <2> QED BY <2>1, AfterStep
<1>7. ASSUME NEW pos \in VisibleLinks(page), FollowLink(pos) PROVE ArrowsInv'
  <2>1. PICK p, c : p = page' /\ c = box'
    OBVIOUS
  <2>2. /\ p = Toggle(page, pos[1]) /\ c = [box EXCEPT !.focus = "results", !.link = pos]
        /\ Len(pos) = 1
    BY <1>7, <2>1 DEF FollowLink
  <2>3. /\ DOMAIN p = PageFields /\ p = [f \in PageFields |-> p[f]]
        /\ p.entries = page.entries /\ p.shown = page.shown
    BY <1>0, <2>2 DEF Toggle, PageOK, PageFields
  <2>4. PageOK(p) /\ pos \in VisibleLinks(p)
    BY <1>0, <2>2, <2>3, PageKept
  <2>5. BoxOK(c) /\ c.link = pos
    BY <1>0, <2>2 DEF BoxOK, Sent, Fields
  <2> QED BY <2>1, <2>4, <2>5, AfterStep
<1>8. ASSUME NEW key \in FilterKeys, FilterKey(key) PROVE ArrowsInv'
  <2>1. page' = page /\ Keeps(box, box')
    BY <1>0, <1>8, OnSearchSelectKeyKeeps DEF FilterKey
  <2> QED BY <2>1, QuietStep DEF Keeps
<1>9. ASSUME NEW id \in Sections, ClickItem(id) PROVE ArrowsInv'
  <2>1. PICK b : b = [box EXCEPT !.focus = "filter", !.link = NULL]
    OBVIOUS
  <2>2. page' = page /\ box' = OnSelectItem(b, id)
    BY <1>9, <2>1 DEF ClickItem
  <2>3. Keeps(box, b)
    BY <1>0, <2>1 DEF Keeps, LinkKept, BoxOK, Sent, Fields
  <2>4. Keeps(b, box')
    BY <2>2, <2>3, OnSelectItemKeeps DEF Keeps
  <2>5. Keeps(box, box')
    BY <2>3, <2>4, KeepsTwice
  <2> QED BY <2>2, <2>5, QuietStep DEF Keeps
<1>10. CASE ClickClose
  <2>1. PICK b : b = CloseResultsWindow(box)
    OBVIOUS
  <2>2. page' = page /\ box' = [b EXCEPT !.focus = "none", !.link = NULL]
    BY <1>10, <2>1 DEF ClickClose
  <2>3. Keeps(box, b)
    BY <1>0, <2>1, CloseResultsWindowKeeps
  <2>4. BoxOK(box') /\ LinkKept(box, box')
    BY <2>2, <2>3 DEF Keeps, LinkKept, BoxOK, Sent, Fields
  <2> QED BY <2>2, <2>4, QuietStep
<1>11. CASE PointerOver
  <2>1. page' = page /\ box' = [box EXCEPT !.popup = TRUE, !.hideTimers = IF @ > 0 THEN @ - 1 ELSE 0]
    BY <1>11 DEF PointerOver, OnSearchSelectShow
  <2>2. Keeps(box, box')
    BY <1>0, <2>1 DEF Keeps, LinkKept, BoxOK, Sent, Fields
  <2> QED BY <2>1, <2>2, QuietStep DEF Keeps
<1>12. CASE PointerOut
  <2>1. page' = page /\ box' = [box EXCEPT !.hideTimers = @ + 1]
    BY <1>12 DEF PointerOut, OnSearchSelectHide
  <2>2. Keeps(box, box')
    BY <1>0, <2>1 DEF Keeps, LinkKept, BoxOK, Sent, Fields
  <2> QED BY <2>1, <2>2, QuietStep DEF Keeps
<1>13. CASE SearchTimer
  <2>1. PICK b : b = [box EXCEPT !.timers = @ - 1]
    OBVIOUS
  <2>2. page' = page /\ box' = Search(b)
    BY <1>13, <2>1 DEF SearchTimer
  <2>3. Keeps(box, b)
    BY <1>0, <2>1 DEF Keeps, LinkKept, BoxOK, Sent, Fields
  <2>4. Keeps(b, box')
    BY <2>2, <2>3, SearchKeeps DEF Keeps
  <2>5. Keeps(box, box')
    BY <2>3, <2>4, KeepsTwice
  <2> QED BY <2>2, <2>5, QuietStep DEF Keeps
<1>14. CASE HideTimer
  <2>1. PICK b : b = [box EXCEPT !.hideTimers = @ - 1]
    OBVIOUS
  <2>2. page' = page /\ box' = CloseSelectionWindow(b)
    BY <1>14, <2>1 DEF HideTimer
  <2>3. Keeps(box, b)
    BY <1>0, <2>1 DEF Keeps, LinkKept, BoxOK, Sent, Fields
  <2>4. Keeps(b, box')
    BY <2>2, <2>3, CloseSelectionWindowKeeps DEF Keeps
  <2>5. Keeps(box, box')
    BY <2>3, <2>4, KeepsTwice
  <2> QED BY <2>2, <2>5, QuietStep DEF Keeps
<1>15. CASE Load
  <2>1. /\ box' = [box EXCEPT !.loading = FALSE, !.focus = IF @ = "results" THEN "none" ELSE @,
                             !.link = NULL]
        /\ PageOK(page')
    BY <1>0, <1>15, LoadOK DEF Load
  <2>2. BoxOK(box') /\ box'.focus # "results"
    BY <1>0, <2>1 DEF BoxOK, Sent, Fields
  <2> QED BY <2>1, <2>2, AfterStep
<1>16. CASE UNCHANGED panelVars
  BY <1>0, <1>16, AfterStep DEF panelVars, ArrowsInv
<1> QED BY <1>1, <1>2, <1>3, <1>4, <1>5, <1>6, <1>7, <1>8, <1>9, <1>10, <1>11, <1>12, <1>13,
           <1>14, <1>15, <1>16 DEF PanelNext

\* It holds in every state.
LEMMA ArrowsInvariant == PanelSpec => []ArrowsInv
<1>1. ArrowsInv /\ UNCHANGED panelVars => ArrowsInv'
  BY ArrowsStep
<1> QED BY ArrowsInit, ArrowsStep, PTL DEF PanelSpec

\* The arrow keys follow what is displayed, over entries that do not match and
\* definitions that are folded: NavNext, NavPrev and the loops over children of
\* search.js, for whatever is typed, loaded and unfolded.
THEOREM ArrowsLeadToTheNextLink == PanelSpec => []ArrowsFollowDisplay
<1>1. ArrowsInv => ArrowsFollowDisplay
  <2> SUFFICES ASSUME ArrowsInv, box.focus = "results" PROVE ArrowsFollowDisplay
    BY DEF ArrowsFollowDisplay
  <2>1. PICK V, pos, d, u : /\ V = VisibleLinks(page) /\ pos = box.link
                            /\ d = Down(page, pos) /\ u = Up(page, pos)
    OBVIOUS
  <2>2. NextBelow(V, pos, d) /\ NextAbove(V, pos, u)
    BY <2>1, DownIs, UpIs DEF ArrowsInv
  <2>3. PICK B, A : B = {q \in V : Above(pos, q)} /\ A = {q \in V : Above(q, pos)}
    OBVIOUS
  <2>4. IF B = {} THEN d = NULL ELSE d \in B /\ \A q \in B : ~ Above(q, d)
    BY <2>2, <2>3 DEF NextBelow
  <2>5. IF A = {} THEN u = NULL ELSE u \in A /\ \A q \in A : ~ Above(u, q)
    BY <2>2, <2>3 DEF NextAbove
  <2> QED BY <2>1, <2>3, <2>4, <2>5 DEF ArrowsFollowDisplay
<1> QED BY <1>1, ArrowsInvariant, PTL
-----------------------------------------------------------------------------
\* A prefix, place by place.
LEMMA PrefixIs ==
  ASSUME NEW s \in Seq(Int), NEW t \in Seq(Int)
  PROVE  IsPrefix(s, t) <=> Len(s) <= Len(t) /\ \A i \in 1..Len(s) : s[i] = t[i]
<1>1. Len(s) \in Nat /\ Len(t) \in Nat
  BY LenProperties
<1>2. ASSUME Len(s) <= Len(t)
      PROVE  SubSeq(s, 1, Len(s)) = SubSeq(t, 1, Len(s)) <=> \A i \in 1..Len(s) : s[i] = t[i]
  <2>1. PICK a, b : a = SubSeq(s, 1, Len(s)) /\ b = SubSeq(t, 1, Len(s))
    OBVIOUS
  <2>2. /\ a \in Seq(Int) /\ Len(a) = Len(s) /\ \A i \in 1..Len(s) : a[i] = s[i]
        /\ b \in Seq(Int) /\ Len(b) = Len(s) /\ \A i \in 1..Len(s) : b[i] = t[i]
    <3>1. \A i \in 1..Len(s) : s[i] \in Int /\ t[i] \in Int
      BY <1>1, <1>2, ElementOfSeq
    <3>2. /\ a \in Seq(Int) /\ Len(a) = IF 1 <= Len(s) THEN Len(s) - 1 + 1 ELSE 0
          /\ \A i \in 1..(Len(s) - 1 + 1) : a[i] = s[1 + i - 1]
      BY <1>1, <2>1, <3>1, SubSeqProperties
    <3>3. /\ b \in Seq(Int) /\ Len(b) = IF 1 <= Len(s) THEN Len(s) - 1 + 1 ELSE 0
          /\ \A i \in 1..(Len(s) - 1 + 1) : b[i] = t[1 + i - 1]
      BY <1>1, <1>2, <2>1, <3>1, SubSeqProperties
    <3>4. Len(s) - 1 + 1 = Len(s) /\ \A i \in 1..Len(s) : 1 + i - 1 = i
      BY <1>1
    <3> QED BY <1>1, <3>2, <3>3, <3>4
  <2>3. (\A i \in 1..Len(s) : s[i] = t[i]) => a = b
    BY <2>2, SeqEqual
  <2> QED BY <2>1, <2>2, <2>3
<1> QED BY <1>2 DEF IsPrefix

\* A prefix of two places.
LEMMA PrefixOfTwo ==
  ASSUME NEW g \in Seq(Int), NEW r \in Seq(Int), Len(g) = 2
  PROVE  IsPrefix(g, r) <=> Len(r) >= 2 /\ g[1] = r[1] /\ g[2] = r[2]
<1>1. IsPrefix(g, r) <=> Len(g) <= Len(r) /\ \A i \in 1..Len(g) : g[i] = r[i]
  BY PrefixIs
<1>2. (\A i \in 1..Len(g) : g[i] = r[i]) <=> g[1] = r[1] /\ g[2] = r[2]
  <2>1. \A i : i \in 1..Len(g) <=> i = 1 \/ i = 2
    OBVIOUS
  <2> QED BY <2>1
<1>3. Len(g) <= Len(r) <=> Len(r) >= 2
  BY LenProperties
<1> QED BY <1>1, <1>2, <1>3

\* The files of the two folders, as files.html lists them.
InnerFiles(n) == [k \in 1..n |-> <<0, 0, k - 1>>]
OuterFiles(n) == [k \in 1..n |-> <<0, k>>]

\* Their rows, one by one.
LEMMA FilesAre ==
  ASSUME NEW n \in Nat, NEW S, \A k \in 1..n : <<0, 0, k - 1>> \in S /\ <<0, k>> \in S
  PROVE  /\ InnerFiles(n) \in Seq(S) /\ Len(InnerFiles(n)) = n
         /\ \A k \in 1..n : InnerFiles(n)[k] = <<0, 0, k - 1>>
         /\ OuterFiles(n) \in Seq(S) /\ Len(OuterFiles(n)) = n
         /\ \A k \in 1..n : OuterFiles(n)[k] = <<0, k>>
<1>1. ASSUME NEW f, f \in [1..n -> S]  PROVE f \in Seq(S) /\ Len(f) = n
  BY <1>1
<1>2. InnerFiles(n) \in [1..n -> S] /\ OuterFiles(n) \in [1..n -> S]
  BY Zenon DEF InnerFiles, OuterFiles
<1>3. /\ \A k \in 1..n : InnerFiles(n)[k] = <<0, 0, k - 1>>
      /\ \A k \in 1..n : OuterFiles(n)[k] = <<0, k>>
  BY Zenon DEF InnerFiles, OuterFiles
<1> QED BY <1>1, <1>2, <1>3

\* The parts of the table, one after the other.
LEMMA PartsJoined ==
  ASSUME NEW S, NEW a \in Seq(S), NEW b \in Seq(S), NEW c \in Seq(S),
         NEW d, d = a \o b, NEW e, e = d \o c
  PROVE  /\ DOMAIN e = 1..(Len(a) + Len(b) + Len(c))
         /\ \A k \in 1..Len(a) : e[k] = a[k]
         /\ \A k \in 1..Len(b) : e[Len(a) + k] = b[k]
         /\ \A k \in 1..Len(c) : e[Len(a) + Len(b) + k] = c[k]
<1>1. PICK x, y, z \in Nat : x = Len(a) /\ y = Len(b) /\ z = Len(c)
  BY LenProperties
<1>2. d \in Seq(S) /\ Len(d) = x + y /\ \A k \in 1..(x + y) : d[k] = IF k <= x THEN a[k] ELSE b[k - x]
  BY <1>1, ConcatProperties
<1>3. e \in Seq(S) /\ Len(e) = x + y + z
      /\ \A k \in 1..(x + y + z) : e[k] = IF k <= x + y THEN d[k] ELSE c[k - (x + y)]
  BY <1>1, <1>2, ConcatProperties
<1>4. DOMAIN e = 1..(x + y + z)
  BY <1>3, LenProperties
<1>5. ASSUME NEW k \in 1..x PROVE e[k] = a[k]
  <2>1. k \in 1..(x + y + z) /\ k \in 1..(x + y) /\ k <= x /\ k <= x + y
    BY <1>1
  <2>2. e[k] = d[k] /\ d[k] = a[k]
    BY <1>2, <1>3, <2>1
  <2> QED BY <2>2
<1>6. ASSUME NEW k \in 1..y PROVE e[x + k] = b[k]
  <2>1. PICK l \in 1..(x + y) : l = x + k
    BY <1>1
  <2>2. l \in 1..(x + y + z) /\ l <= x + y /\ ~ l <= x /\ l - x = k
    BY <1>1, <2>1
  <2>3. e[l] = d[l] /\ d[l] = b[k]
    BY <1>2, <1>3, <2>2
  <2> QED BY <2>1, <2>3
<1>7. ASSUME NEW k \in 1..z PROVE e[x + y + k] = c[k]
  <2>1. PICK l \in 1..(x + y + z) : l = x + y + k
    BY <1>1
  <2>2. ~ l <= x + y /\ l - (x + y) = k
    BY <1>1, <2>1
  <2>3. e[l] = c[k]
    BY <1>3, <2>2
  <2> QED BY <2>1, <2>3
<1> QED BY <1>1, <1>4, <1>5, <1>6, <1>7

\* The table: the two folders, what the inner one holds, what the outer one
\* holds besides.
LEMMA RowIs ==
  ASSUME NEW n, n = Files[<<0, 0>>], NEW m, m = Files[<< 0 >>]
  PROVE  /\ n \in Nat \ {0} /\ m \in Nat \ {0} /\ DOMAIN row = 1..(2 + n + m)
         /\ row[1] = <<0>> /\ row[2] = <<0, 0>>
         /\ \A k \in 1..n : row[2 + k] = <<0, 0, k - 1>>
         /\ \A k \in 1..m : row[2 + n + k] = <<0, k>>
<1>1. n \in Nat \ {0} /\ m \in Nat \ {0}
  BY FilesAssumption DEF Folders
<1>2. PICK S : /\ <<0>> \in S /\ <<0, 0>> \in S
               /\ \A k \in Int : <<0, 0, k>> \in S /\ <<0, k>> \in S
  <2>1. /\ <<0>> \in Seq(Int) /\ <<0, 0>> \in Seq(Int)
        /\ \A k \in Int : <<0, 0, k>> \in Seq(Int) /\ <<0, k>> \in Seq(Int)
    OBVIOUS
  <2> QED BY <2>1
<1>3. PICK u, v : u = <<0>> /\ v = <<0, 0>>
  OBVIOUS
<1>4. PICK a, b, c : a = <<u, v>> /\ b = InnerFiles(n) /\ c = OuterFiles(m)
  OBVIOUS
<1>5. a \in Seq(S) /\ Len(a) = 2 /\ a[1] = u /\ a[2] = v
  <2>1. u \in S /\ v \in S
    BY <1>2, <1>3
  <2> QED BY <1>4, <2>1
<1>6. b \in Seq(S) /\ Len(b) = n /\ \A k \in 1..n : b[k] = <<0, 0, k - 1>>
  <2>1. ASSUME NEW k \in 1..n PROVE <<0, 0, k - 1>> \in S /\ <<0, k>> \in S
    <3>1. PICK i, j \in Int : i = k - 1 /\ j = k
      BY <1>1
    <3> QED BY <1>2, <3>1
  <2> QED BY <1>1, <1>4, <2>1, FilesAre
<1>7. c \in Seq(S) /\ Len(c) = m /\ \A k \in 1..m : c[k] = <<0, k>>
  <2>1. ASSUME NEW k \in 1..m PROVE <<0, 0, k - 1>> \in S /\ <<0, k>> \in S
    <3>1. PICK i, j \in Int : i = k - 1 /\ j = k
      BY <1>1
    <3> QED BY <1>2, <3>1
  <2> QED BY <1>1, <1>4, <2>1, FilesAre
<1>8. PICK d : d = a \o b
  OBVIOUS
<1>9. row = d \o c
  BY <1>3, <1>4, <1>8, Zenon DEF row, InnerFiles, OuterFiles
<1>10. /\ DOMAIN row = 1..(Len(a) + Len(b) + Len(c))
       /\ \A k \in 1..Len(a) : row[k] = a[k]
       /\ \A k \in 1..Len(b) : row[Len(a) + k] = b[k]
       /\ \A k \in 1..Len(c) : row[Len(a) + Len(b) + k] = c[k]
  <2>1. a \in Seq(S) /\ b \in Seq(S) /\ c \in Seq(S)
    BY <1>5, <1>6, <1>7
  <2>2. PICK e : e = row
    OBVIOUS
  <2>3. d = a \o b /\ e = d \o c
    BY <1>8, <1>9, <2>2
  <2> QED BY <2>1, <2>2, <2>3, PartsJoined
<1>11. row[1] = <<0>> /\ row[2] = <<0, 0>>
  <2>1. row[1] = a[1] /\ row[2] = a[2]
    BY <1>5, <1>10
  <2> QED BY <1>3, <1>5, <2>1
<1>12. \A k \in 1..n : row[2 + k] = <<0, 0, k - 1>>
  BY <1>5, <1>6, <1>10
<1>13. \A k \in 1..m : row[2 + n + k] = <<0, k>>
  BY <1>5, <1>6, <1>7, <1>10
<1>14. DOMAIN row = 1..(2 + n + m)
  BY <1>5, <1>6, <1>7, <1>10
<1> QED BY <1>1, <1>11, <1>12, <1>13, <1>14

\* A row and its place, when the inner folder has n files.
IsRow(r, k, n) ==
  /\ r \in Seq(Int) /\ Len(r) \in {1, 2, 3} /\ r[1] = 0
  /\ Len(r) = 1 => r = <<0>> /\ k = 1
  /\ Len(r) = 2 => r = <<0, r[2]>> /\ k = IF r[2] = 0 THEN 2 ELSE 2 + n + r[2]
  /\ Len(r) = 3 => r[2] = 0 /\ k = 3 + r[3]

\* Its rows are all different, and folders are rows.
LEMMA RowsAre ==
  /\ \A r \in Rows :
       /\ r \in Seq(Int) /\ Len(r) \in {1, 2, 3} /\ r[1] = 0
       /\ Len(r) = 1 => r = <<0>>
       /\ Len(r) = 2 => r = <<0, r[2]>>
       /\ Len(r) = 3 => r[2] = 0
  /\ \A i, k \in DOMAIN row : row[i] = row[k] => i = k
  /\ <<0>> \in Rows /\ <<0, 0>> \in Rows /\ \A k \in DOMAIN row : row[k] \in Rows
<1>1. PICK n, m : n = Files[<<0, 0>>] /\ m = Files[<<0>>]
  OBVIOUS
<1>2. /\ n \in Nat \ {0} /\ m \in Nat \ {0} /\ DOMAIN row = 1..(2 + n + m)
      /\ row[1] = <<0>> /\ row[2] = <<0, 0>>
      /\ \A k \in 1..n : row[2 + k] = <<0, 0, k - 1>>
      /\ \A k \in 1..m : row[2 + n + k] = <<0, k>>
  BY <1>1, RowIs
<1>3. ASSUME NEW k \in DOMAIN row
      PROVE  \/ k = 1 /\ row[k] = <<0>>
             \/ k = 2 /\ row[k] = <<0, 0>>
             \/ \E a \in 1..n : k = 2 + a /\ row[k] = <<0, 0, a - 1>>
             \/ \E a \in 1..m : k = 2 + n + a /\ row[k] = <<0, a>>
  <2>1. k = 1 \/ k = 2 \/ (\E a \in 1..n : k = 2 + a) \/ (\E a \in 1..m : k = 2 + n + a)
    <3>1. n \in Nat /\ m \in Nat /\ k \in 1..(2 + n + m)
      BY <1>2
    <3>2. PICK a, b \in Int : a = k - 2 /\ b = k - 2 - n
      BY <3>1
    <3>3. CASE k <= 2
      <4>1. k = 1 \/ k = 2
        BY <3>1, <3>3
      <4> QED BY <4>1
    <3>4. CASE k > 2 /\ k <= 2 + n
      <4>1. a \in 1..n /\ k = 2 + a
        BY <3>1, <3>2, <3>4
      <4> QED BY <4>1
    <3>5. CASE k > 2 + n
      <4>1. b \in 1..m /\ k = 2 + n + b
        BY <3>1, <3>2, <3>5
      <4> QED BY <4>1
    <3> QED BY <3>1, <3>3, <3>4, <3>5
  <2> QED BY <1>2, <2>1
<1>4. ASSUME NEW k \in DOMAIN row
      PROVE  IsRow(row[k], k, n)
  <2>1. PICK r : r = row[k]
    OBVIOUS
  <2>2. CASE k = 1 /\ r = <<0>>
    <3>1. r \in Seq(Int) /\ Len(r) = 1 /\ r[1] = 0
      BY <2>2
    <3> QED BY <2>1, <2>2, <3>1 DEF IsRow
  <2>3. CASE k = 2 /\ r = <<0, 0>>
    <3>1. r \in Seq(Int) /\ Len(r) = 2 /\ r[1] = 0 /\ r[2] = 0
      BY <2>3
    <3> QED BY <2>1, <2>3, <3>1 DEF IsRow
  <2>4. ASSUME NEW a \in 1..n, k = 2 + a, r = <<0, 0, a - 1>>
        PROVE  IsRow(r, k, n)
    <3>1. r \in Seq(Int) /\ Len(r) = 3 /\ r[1] = 0 /\ r[2] = 0 /\ k = 3 + r[3]
      BY <1>2, <2>4
    <3> QED BY <3>1 DEF IsRow
  <2>5. ASSUME NEW a \in 1..m, k = 2 + n + a, r = <<0, a>>
        PROVE  IsRow(r, k, n)
    <3>1. r \in Seq(Int) /\ Len(r) = 2 /\ r[1] = 0 /\ r = <<0, r[2]>> /\ r[2] # 0 /\ k = 2 + n + r[2]
      BY <1>2, <2>5
    <3> QED BY <3>1 DEF IsRow
  <2> QED BY <1>3, <2>1, <2>2, <2>3, <2>4, <2>5
<1>5. ASSUME NEW i \in DOMAIN row, NEW k \in DOMAIN row, row[i] = row[k]  PROVE i = k
  <2>1. IsRow(row[k], i, n) /\ IsRow(row[k], k, n)
    BY <1>4, <1>5
  <2> QED BY <2>1 DEF IsRow
<1>6. Rows = {row[k] : k \in DOMAIN row}
  BY DEF Rows, ToSet
<1>7. <<0>> \in Rows /\ <<0, 0>> \in Rows
  <2>1. 1 \in DOMAIN row /\ 2 \in DOMAIN row
    BY <1>2
  <2> QED BY <1>2, <1>6, <2>1
<1>8. ASSUME NEW r \in Rows
      PROVE  /\ r \in Seq(Int) /\ Len(r) \in {1, 2, 3} /\ r[1] = 0
             /\ Len(r) = 1 => r = <<0>>
             /\ Len(r) = 2 => r = <<0, r[2]>>
             /\ Len(r) = 3 => r[2] = 0
  <2>1. PICK k \in DOMAIN row : IsRow(r, k, n)
    BY <1>4, <1>6
  <2> QED BY <2>1 DEF IsRow
<1> QED BY <1>5, <1>6, <1>7, <1>8

\* What a folder holds, and what is below it.
LEMMA ChildrenAre ==
  /\ childRows(<<0>>) = {r \in Rows : Len(r) = 2} /\ childRows(<<0, 0>>) = {r \in Rows : Len(r) = 3}
  /\ Below(<<0>>) = {r \in Rows : Len(r) # 1} /\ Below(<<0, 0>>) = {r \in Rows : Len(r) = 3}
<1>1. PICK f, g : f = <<0>> /\ g = <<0, 0>>
  OBVIOUS
<1>2. /\ f \in Seq(Int) /\ Len(f) = 1 /\ f[1] = 0
      /\ g \in Seq(Int) /\ Len(g) = 2 /\ g[1] = 0 /\ g[2] = 0
  BY <1>1
<1>3. ASSUME NEW r \in Rows
      PROVE  /\ IsPrefix(f, r) /\ ((f # r) <=> (Len(r) # 1))
             /\ (Len(r) = 3 <=> IsPrefix(g, r) /\ g # r) /\ (Len(r) = 3 <=> Len(r) = 3 /\ IsPrefix(g, r))
  <2>1. /\ r \in Seq(Int) /\ Len(r) \in {1, 2, 3} /\ r[1] = 0
        /\ Len(r) = 1 => r = f
        /\ Len(r) = 2 => r = <<0, r[2]>>
        /\ Len(r) = 3 => r[2] = 0
    BY <1>1, RowsAre
  <2>2. IsPrefix(f, r) <=> Len(f) <= Len(r) /\ \A i \in 1..Len(f) : f[i] = r[i]
    BY <1>2, <2>1, PrefixIs
  <2>3. IsPrefix(g, r) <=> Len(r) >= 2 /\ g[1] = r[1] /\ g[2] = r[2]
    <3>1. g \in Seq(Int) /\ r \in Seq(Int) /\ Len(g) = 2
      BY <1>2, <2>1
    <3> QED BY <3>1, PrefixOfTwo
  <2>4. IsPrefix(f, r) /\ ((f # r) <=> (Len(r) # 1))
    BY <1>2, <2>1, <2>2
  <2>5. Len(r) = 3 => IsPrefix(g, r) /\ g # r
    <3>1. Len(r) = 3 => r[1] = 0 /\ r[2] = 0 /\ Len(r) >= 2
      BY <2>1
    <3>2. Len(g) = 2 /\ g[1] = 0 /\ g[2] = 0
      BY <1>2
    <3>3. Len(r) = 3 => g # r
      BY <3>2
    <3> QED BY <2>3, <3>1, <3>2, <3>3
  <2>6. IsPrefix(g, r) /\ g # r => Len(r) = 3
    <3>1. ASSUME IsPrefix(g, r), Len(r) = 2 PROVE g = r
      BY <1>1, <1>2, <2>1, <2>3, <3>1
    <3>2. ASSUME Len(r) = 1 PROVE ~ IsPrefix(g, r)
      BY <1>2, <2>3, <3>2
    <3> QED BY <2>1, <3>1, <3>2
  <2> QED BY <2>4, <2>5, <2>6
<1>4. childRows(f) = {r \in Rows : Len(r) = 2} /\ childRows(g) = {r \in Rows : Len(r) = 3}
  BY <1>2, <1>3 DEF childRows
<1>5. Below(f) = {r \in Rows : Len(r) # 1} /\ Below(g) = {r \in Rows : Len(r) = 3}
  BY <1>3 DEF Below, IsStrictPrefix
<1> QED BY <1>1, <1>4, <1>5

\* The first row that toggleFolder looks at is one the folder holds.
LEMMA FirstIs ==
  ASSUME NEW id \in Folders
  PROVE  firstChild(id) \in childRows(id)
<1>1. PICK w \in DOMAIN row : row[w] \in childRows(id) /\ \A i \in 1..(w - 1) : row[i] \notin childRows(id)
  <2>1. /\ 1 \in DOMAIN row /\ 2 \in DOMAIN row /\ 3 \in DOMAIN row
        /\ row[1] = <<0>> /\ row[2] = <<0, 0>> /\ \E a \in Int : row[3] = <<0, 0, a>>
    <3>1. PICK n, m : n = Files[<<0, 0>>] /\ m = Files[<<0>>]
      OBVIOUS
    <3>2. /\ n \in Nat \ {0} /\ m \in Nat \ {0} /\ DOMAIN row = 1..(2 + n + m)
          /\ row[1] = <<0>> /\ row[2] = <<0, 0>>
          /\ \A k \in 1..n : row[2 + k] = <<0, 0, k - 1>>
      BY <3>1, RowIs
    <3>3. 1 \in 1..n /\ 2 + 1 = 3 /\ 1 - 1 = 0
      BY <3>2
    <3> QED BY <3>2, <3>3
  <2>2. Len(row[1]) = 1 /\ Len(row[2]) = 2 /\ Len(row[3]) = 3 /\ \A k \in {1, 2, 3} : row[k] \in Rows
    BY <2>1, RowsAre
  <2>3. CASE id = <<0>>
    <3>1. row[2] \in childRows(id) /\ \A i \in 1..1 : row[i] \notin childRows(id)
      BY <2>2, <2>3, ChildrenAre
    <3> QED BY <2>1, <3>1
  <2>4. CASE id = <<0, 0>>
    <3>1. row[3] \in childRows(id) /\ \A i \in 1..2 : row[i] \notin childRows(id)
      BY <2>2, <2>4, ChildrenAre
    <3> QED BY <2>1, <3>1
  <2> QED BY <2>3, <2>4 DEF Folders
<1> QED BY <1>1 DEF firstChild

\* The stripes alternate, whatever is displayed.
LEMMA Alternate ==
  ASSUME NEW shown, NEW i \in DOMAIN row, NEW k \in DOMAIN row,
         i < k, row[i] \in shown, row[k] \in shown,
         \A j \in (i + 1)..(k - 1) : row[j] \notin shown
  PROVE  row[k] \in Stripes(shown) <=> row[i] \notin Stripes(shown)
<1>1. i \in Nat /\ k \in Nat /\ i >= 1
  <2>1. PICK n, m : n = Files[<<0, 0>>] /\ m = Files[<<0>>]
    OBVIOUS
  <2>2. n \in Nat /\ m \in Nat /\ DOMAIN row = 1..(2 + n + m)
    BY <2>1, RowIs
  <2> QED BY <2>2
<1>2. PICK I, K : I = {j \in 1..i : row[j] \in shown} /\ K = {j \in 1..k : row[j] \in shown}
  OBVIOUS
<1>3. K = I \union {k} /\ k \notin I
  BY <1>1, <1>2
<1>4. IsFiniteSet(I)
  <2>1. IsFiniteSet(1..i)
    BY <1>1, FS_Interval
  <2> QED BY <1>2, <2>1, FS_Subset
<1>5. Cardinality(I) \in Nat /\ Cardinality(K) = Cardinality(I) + 1
  BY <1>3, <1>4, FS_AddElement, FS_CardinalityType
<1>6. Place(shown, k) = Place(shown, i) + 1 /\ Place(shown, i) \in Nat
  BY <1>2, <1>5 DEF Place
<1>7. ASSUME NEW l \in DOMAIN row, row[l] \in shown
      PROVE  row[l] \in Stripes(shown) <=> Place(shown, l) % 2 = 1
  BY <1>7, RowsAre DEF Stripes
<1> QED BY <1>6, <1>7

\* When every row is displayed, its place is its number.
LEMMA AllStriped == Stripes(Rows) = {row[k] : k \in {i \in DOMAIN row : i % 2 = 1}}
<1>1. ASSUME NEW k \in DOMAIN row PROVE row[k] \in Rows /\ Place(Rows, k) = k
  <2>1. PICK n, m : n = Files[<<0, 0>>] /\ m = Files[<<0>>]
    OBVIOUS
  <2>2. n \in Nat /\ m \in Nat /\ DOMAIN row = 1..(2 + n + m)
    BY <2>1, RowIs
  <2>3. {i \in 1..k : row[i] \in Rows} = 1..k
    BY <2>2, RowsAre
  <2>4. Cardinality(1..k) = k
    BY <2>2, FS_Interval
  <2> QED BY <2>3, <2>4, RowsAre DEF Place
<1> QED BY <1>1 DEF Stripes
-----------------------------------------------------------------------------
\* Whether folders are open, closed or hidden, of any rows and icons.
Tells(shown, opened) ==
  /\ \A f \in Folders \intersect shown :
       IF f \in opened THEN childRows(f) \subseteq shown ELSE childRows(f) \intersect shown = {}
  /\ \A f \in Folders \ shown : childRows(f) \intersect shown = {}

DirectoryInv == Tells(visible, open) /\ even = Stripes(visible)

\* Any level leaves folders whose icons tell what they hold.
LEMMA LevelTells ==
  ASSUME NEW level \in 1..3, NEW before
  PROVE  Tells({r \in Rows : Len(r) <= level},
               {r \in Folders : Len(r) < level} \union {r \in before : Len(r) > level})
<1>1. PICK f, g : f = <<0>> /\ g = <<0, 0>>
  OBVIOUS
<1>2. /\ f \in Rows /\ g \in Rows /\ Len(f) = 1 /\ Len(g) = 2 /\ Folders = {f, g} /\ f # g
      /\ childRows(f) = {r \in Rows : Len(r) = 2} /\ childRows(g) = {r \in Rows : Len(r) = 3}
  BY <1>1, RowsAre, ChildrenAre DEF Folders
<1>3. PICK shown, opened :
        /\ shown = {r \in Rows : Len(r) <= level}
        /\ opened = {r \in Folders : Len(r) < level} \union {r \in before : Len(r) > level}
  OBVIOUS
<1> SUFFICES Tells(shown, opened)
  BY <1>3
<1>4. /\ \A r : r \in shown <=> r \in Rows /\ (level = 1 => Len(r) = 1) /\ (level = 2 => Len(r) # 3)
      /\ \A r : r \in childRows(f) <=> r \in Rows /\ Len(r) = 2
      /\ \A r : r \in childRows(g) <=> r \in Rows /\ Len(r) = 3
  <2>1. ASSUME NEW r \in Rows
        PROVE  Len(r) <= level <=> (level = 1 => Len(r) = 1) /\ (level = 2 => Len(r) # 3)
    <3>1. PICK w \in {1, 2, 3} : w = Len(r)
      BY RowsAre
    <3>2. w <= level <=> (level = 1 => w = 1) /\ (level = 2 => w # 3)
      OBVIOUS
    <3> QED BY <3>1, <3>2
  <2> QED BY <1>2, <1>3, <2>1
<1>5. /\ f \in Rows /\ g \in Rows /\ f # g /\ Len(f) = 1 /\ Len(g) = 2 /\ Folders = {f, g}
      /\ \A r \in Rows : Len(r) \in {1, 2, 3}
  BY <1>2, RowsAre
\* The icon of a folder beyond the level is what it was, but it does not show.
<1>6. /\ f \in opened <=> level # 1
      /\ level # 1 => (g \in opened <=> level = 3)
  <2>1. f \in opened <=> (1 < level \/ (f \in before /\ 1 > level))
    BY <1>2, <1>3
  <2>2. g \in opened <=> (2 < level \/ (g \in before /\ 2 > level))
    BY <1>2, <1>3
  <2> QED BY <2>1, <2>2
<1>7. CASE level = 1
  <2>1. f \in shown /\ g \notin shown /\ f \notin opened
    BY <1>4, <1>5, <1>6, <1>7
  <2>2. childRows(f) \intersect shown = {} /\ childRows(g) \intersect shown = {}
    BY <1>4, <1>5, <1>7
  <2> QED BY <1>5, <2>1, <2>2 DEF Tells
<1>8. CASE level = 2
  <2>1. f \in shown /\ g \in shown /\ f \in opened /\ g \notin opened
    BY <1>4, <1>5, <1>6, <1>8
  <2>2. childRows(f) \subseteq shown /\ childRows(g) \intersect shown = {}
    BY <1>4, <1>5, <1>8
  <2> QED BY <1>5, <2>1, <2>2 DEF Tells
<1>9. CASE level = 3
  <2>1. f \in shown /\ g \in shown /\ f \in opened /\ g \in opened
    BY <1>4, <1>5, <1>6, <1>9
  <2>2. childRows(f) \subseteq shown /\ childRows(g) \subseteq shown
    BY <1>4, <1>5, <1>9
  <2> QED BY <1>5, <2>1, <2>2 DEF Tells
<1> QED BY <1>7, <1>8, <1>9

\* A click on a folder that shows keeps them telling it.
LEMMA FolderTells ==
  ASSUME NEW shown, NEW opened, Tells(shown, opened), NEW id \in Folders, id \in shown
  PROVE  IF firstChild(id) \in shown
         THEN Tells(shown \ Below(id), opened \ {id})
         ELSE Tells(shown \union childRows(id), (opened \union {id}) \ childRows(id))
<1>1. PICK f, g : f = <<0>> /\ g = <<0, 0>>
  OBVIOUS
<1>2. /\ f \in Rows /\ g \in Rows /\ Len(f) = 1 /\ Len(g) = 2 /\ Folders = {f, g} /\ f # g
      /\ childRows(f) = {r \in Rows : Len(r) = 2} /\ childRows(g) = {r \in Rows : Len(r) = 3}
      /\ Below(f) = {r \in Rows : Len(r) # 1} /\ Below(g) = {r \in Rows : Len(r) = 3}
  BY <1>1, RowsAre, ChildrenAre DEF Folders
<1>3. firstChild(id) \in childRows(id)
  BY FirstIs
<1>4. ASSUME firstChild(id) \in shown
      PROVE  Tells(shown \ Below(id), opened \ {id})
  BY <1>2, <1>4 DEF Tells
<1>5. ASSUME firstChild(id) \notin shown
      PROVE  Tells(shown \union childRows(id), (opened \union {id}) \ childRows(id))
  <2>1. childRows(id) \intersect shown = {}
    BY <1>3, <1>5 DEF Tells
  <2> QED BY <1>2, <2>1 DEF Tells
<1> QED BY <1>4, <1>5

\* Icons, rows and stripes stay in step.
LEMMA DirectoryInvariant == DirectorySpec => []DirectoryInv
<1>1. DirectoryInit => DirectoryInv
  <2> SUFFICES ASSUME DirectoryInit PROVE Tells(Rows, Folders) /\ even = Stripes(Rows)
    BY DEF DirectoryInit, DirectoryInv
  <2> QED BY AllStriped, RowsAre DEF Tells, DirectoryInit, Folders, childRows
<1>2. DirectoryInv /\ [DirectoryNext]_directoryVars => DirectoryInv'
  <2> SUFFICES ASSUME DirectoryInv, [DirectoryNext]_directoryVars
               PROVE  Tells(visible', open') /\ even' = Stripes(visible')
    BY DEF DirectoryInv, Tells
  <2>1. ASSUME NEW level \in 1..3, toggleLevel(level)
        PROVE  Tells(visible', open') /\ even' = Stripes(visible')
    BY <2>1, LevelTells DEF toggleLevel, updateStripes
  <2>2. ASSUME NEW id \in Folders, toggleFolder(id)
        PROVE  Tells(visible', open') /\ even' = Stripes(visible')
    BY <2>2, FolderTells DEF toggleFolder, updateStripes, DirectoryInv
  <2>3. CASE UNCHANGED directoryVars
    BY <2>3 DEF directoryVars, DirectoryInv
  <2> QED BY <2>1, <2>2, <2>3 DEF DirectoryNext
<1> QED BY <1>1, <1>2, PTL DEF DirectorySpec

\* A folder that shows looks open exactly when all it holds is shown, what a
\* hidden folder holds is hidden, and the rows that show alternate, whatever
\* toggleLevel and toggleFolder of dynsections.js were called for before.
THEOREM FoldersTellTheirContents == DirectorySpec => []IconsTellContents
<1>1. DirectoryInv => IconsTellContents
  <2> SUFFICES ASSUME DirectoryInv PROVE IconsTellContents
    OBVIOUS
  <2>1. ASSUME NEW k \in DOMAIN row, NEW i \in DOMAIN row, i < k, row[i] \in visible, row[k] \in visible,
               \A j \in (i + 1)..(k - 1) : row[j] \notin visible
        PROVE  row[k] \in even <=> row[i] \notin even
    BY <2>1, Alternate DEF DirectoryInv
  <2> QED BY <2>1 DEF DirectoryInv, Tells, IconsTellContents
<1> QED BY <1>1, DirectoryInvariant, PTL
=============================================================================
