---------------------------- MODULE SearchPanel ----------------------------
(***************************************************************************)
(* The search panel of the generated documentation: the class SearchBox of *)
(* doc/html/search/search.js, its timers, and the page of results in its   *)
(* frame, with a reader who types, points and clicks.  A handler is a      *)
(* function from the panel's state to its state, as handlers call one      *)
(* another: moving the focus runs onfocus and onblur within the call.      *)
(* How a browser moves the focus and delivers events is external.  The     *)
(* mouse rests while a key is down (a bound).                              *)
(***************************************************************************)
EXTENDS SearchResults

CONSTANTS
  Texts,     \* bound: what the field may be edited to
  MaxTimers  \* bound: running timers for a search

ASSUME TextsAssumption ==
  /\ Texts \subseteq Seq(UNION {ToSet(t) : t \in Texts}) /\ <<>> \in Texts
  /\ MaxTimers \in Nat

VARIABLES
  box,      \* the panel, its fields named as in the code
  page,     \* the page in the frame
  held,     \* the key that is down
  pointer   \* "over" the icon or the list of sections, or "away" from both

panelVars == <<box, page, held, pointer>>

NoPage == createResults(<<>>)          \* nothing loaded, or nomatches.html
nomatches == <<"nomatches">>
Blank == <<>>                           \* lastResultsPage is ''

\* Keys by what handlers do with them: in the field, "down" is Enter as well.
FieldKeys == {"other", "down", "shift-down", "escape"}
LinkKeys == {"up", "down", "left", "right", "escape"}
FilterKeys == {"up", "down", "enter", "escape"}
-----------------------------------------------------------------------------
\* Handlers.

\* Mutant: the label is not put back.
Activate_Kept(b, isActive) ==
  IF isActive \/ b.results
  THEN IF b.value = searchLabel
       THEN [b EXCEPT !.className = "active", !.value = <<>>, !.searchActive = TRUE]
       ELSE [b EXCEPT !.className = "active"]
  ELSE [b EXCEPT !.className = "inactive", !.searchActive = FALSE,
                 !.lastSearchValue = <<>>, !.lastResultsPage = Blank]

\* Opens the panel, or resets it when no results are displayed.
Activate(b, isActive) ==
  IF isActive \/ b.results
  THEN IF b.value = searchLabel
       THEN [b EXCEPT !.className = "active", !.value = <<>>, !.searchActive = TRUE]
       ELSE [b EXCEPT !.className = "active"]
  ELSE [b EXCEPT !.className = "inactive", !.value = searchLabel, !.searchActive = FALSE,
                 !.lastSearchValue = <<>>, !.lastResultsPage = Blank]

\* The focus moves to the field, which runs onfocus, and elsewhere, which runs
\* onblur when it was there. A link that is not displayed does not take it.
FocusField(b) ==
  IF b.focus = "field" THEN b
  ELSE Activate([b EXCEPT !.focus = "field", !.link = NULL], TRUE)
Blur(b, to) ==
  IF b.focus = "field" THEN Activate([b EXCEPT !.focus = to], FALSE)
  ELSE [b EXCEPT !.focus = to, !.link = NULL]
FocusLink(b, r, pos) ==
  IF b.results /\ pos # NULL /\ pos \in VisibleLinks(r)
  THEN [Blur(b, "results") EXCEPT !.link = pos]
  ELSE b

\* The page for a search. An empty text is found at the first letter.
ResultsPage(section, search) ==
  LET letters == indexSectionsWithContent[section]
  IN CASE search = <<>> -> <<section, letters[1]>>
       [] search # <<>> /\ Contains(letters, FirstLetter(search[1])) ->
            <<section, FirstLetter(search[1])>>
       [] OTHER -> nomatches

\* Bound: the texts lead to pages that SearchIndex holds.
ASSUME PagesAssumption ==
  \A section \in Sections, t \in Texts \union {searchLabel} :
    LET resultsPage == ResultsPage(section, NoLeading(t))
    IN resultsPage # nomatches => searchData(resultsPage[1], resultsPage[2]) \in Pages

\* Mutant: what was searched for is not remembered when the window is open.
Search_Forgets(b) ==
  LET search == NoLeading(b.value)
      resultsPage == ResultsPage(b.searchIndex, search)
  IN IF b.searchIndex \notin Sections THEN [b EXCEPT !.keyTimeout = FALSE]
     ELSE [b EXCEPT !.keyTimeout = FALSE, !.location = <<resultsPage, search>>, !.loading = TRUE,
                    !.results = TRUE,
                    !.lastSearchValue = IF b.results THEN @ ELSE search,
                    !.lastResultsPage = resultsPage]

\* Search, which throws when the section does not exist.
Search(b) ==
  LET search == NoLeading(b.value)
      resultsPage == ResultsPage(b.searchIndex, search)
  IN IF b.searchIndex \notin Sections THEN [b EXCEPT !.keyTimeout = FALSE]
     ELSE [b EXCEPT !.keyTimeout = FALSE, !.location = <<resultsPage, search>>, !.loading = TRUE,
                    !.results = TRUE, !.lastSearchValue = search, !.lastResultsPage = resultsPage]

\* Mutant: the timer is left running.
OnSearchSelectShow_NoClear(b) == [b EXCEPT !.popup = TRUE]

\* The list of sections pops up, and the timer that hideTimeout stands for, the
\* last one started, is not to hide it any more. They end in the order they were
\* started, so it is running while any is.
OnSearchSelectShow(b) == [b EXCEPT !.popup = TRUE, !.hideTimers = IF @ > 0 THEN @ - 1 ELSE 0]

\* Starts a timer. One that is running already would be forgotten.
OnSearchSelectHide(b) == [b EXCEPT !.hideTimers = @ + 1]

\* A list that disappears cannot keep the focus.
CloseSelectionWindow(b) ==
  [b EXCEPT !.popup = FALSE, !.focus = IF @ = "filter" THEN "none" ELSE @]

\* Results that disappear cannot keep the focus either.
HideResults(b) ==
  [b EXCEPT !.results = FALSE, !.focus = IF @ = "results" THEN "none" ELSE @, !.link = NULL]

CloseResultsWindow(b) == Activate(HideResults(b), FALSE)

\* SelectItemSet marks the chosen section; a search follows if one was made.
Searches(b) == NoBlanks(b.value) # <<>> /\ b.searchActive
OnSelectItem(b, id) ==
  LET chosen == [b EXCEPT !.searchIndex = id, !.marked = {id} \intersect Sections]
  IN IF Searches(b) THEN Search(chosen) ELSE chosen

\* What follows in OnSearchFieldChange when it has not returned.
Compare(b) ==
  LET searchValue == NoBlanks(b.value)
  IN CASE searchValue = b.lastSearchValue -> b
       [] searchValue # b.lastSearchValue /\ searchValue # <<>> ->
            [b EXCEPT !.keyTimeout = TRUE, !.timers = @ + 1]
       [] OTHER -> [HideResults(b) EXCEPT !.lastSearchValue = <<>>]

\* A key is released in the field. A running timer is killed first.
OnSearchFieldChange(b, key) ==
  LET killed == IF b.keyTimeout THEN [b EXCEPT !.keyTimeout = FALSE, !.timers = @ - 1] ELSE b
  IN CASE key = "shift-down" -> Blur(OnSearchSelectShow(killed), "filter")
       [] key \in {"down", "enter"} -> Compare(FocusLink(killed, page, NavNext(page, 0)))
       [] key = "escape" ->
            Activate([HideResults(Blur(killed, "none")) EXCEPT !.lastSearchValue = <<>>], FALSE)
       [] OTHER -> Compare(killed)

\* A key is pressed in the list of sections. When the search throws, the rest
\* of the handler does not run.
OnSearchSelectKey(b, key) ==
  LET chosen == OnSelectItem(b, b.searchIndex)
  IN CASE key = "down" /\ b.searchIndex < NumSections -> OnSelectItem(b, b.searchIndex + 1)
       [] key = "up" /\ b.searchIndex > 0 -> OnSelectItem(b, b.searchIndex - 1)
       [] key \in {"enter", "escape"} ->
            IF Searches(b) /\ b.searchIndex \notin Sections THEN chosen
            ELSE FocusField(CloseSelectionWindow(chosen))
       [] OTHER -> b
-----------------------------------------------------------------------------
\* init_search, once the document is loaded.
PanelInit ==
  /\ box = OnSelectItem(
       [value |-> searchLabel, className |-> "inactive", searchActive |-> FALSE,
        focus |-> "none", link |-> NULL, keyTimeout |-> FALSE, timers |-> 0,
        lastSearchValue |-> <<>>, lastResultsPage |-> Blank, searchIndex |-> 0, marked |-> {},
        results |-> FALSE, popup |-> FALSE, hideTimers |-> 0,
        location |-> <<Blank, <<>>>>, loading |-> FALSE], 0)
  /\ page = NoPage
  /\ held = NoKey
  /\ pointer = "away"

\* The reader moves into the field, or clicks beside it.
EnterField ==
  /\ box.focus # "field" /\ held = NoKey
  /\ box' = FocusField(box)
  /\ UNCHANGED <<page, held, pointer>>
LeaveField ==
  /\ box.focus = "field" /\ held = NoKey
  /\ box' = Blur(box, "none")
  /\ UNCHANGED <<page, held, pointer>>

\* A key goes down in the field; editing changes its value at once.
FieldKeyDown(key) ==
  /\ box.focus = "field" /\ held = NoKey
  /\ held' = key
  /\ \/ key # "other" /\ box' = box
     \/ key = "other" /\ \E t \in Texts : box' = [box EXCEPT !.value = t]
  /\ UNCHANGED <<page, pointer>>

\* ... and up again, wherever the focus is by now.
FieldKeyUp ==
  /\ box.focus = "field" /\ held # NoKey
  /\ box' = OnSearchFieldChange(box, held) /\ box'.timers <= MaxTimers
  /\ held' = NoKey
  /\ UNCHANGED <<page, pointer>>
OtherKeyUp ==
  /\ box.focus # "field" /\ held # NoKey
  /\ page' = IF box.focus = "results" THEN ProcessKeys(page, "keyup", held) ELSE page
  /\ held' = NoKey
  /\ UNCHANGED <<box, pointer>>

\* Nav and NavChild: a key on a link of the results, pressed or repeated.
LinkKey(type, key) ==
  /\ box.focus = "results"
  /\ held = IF type = "keydown" THEN NoKey ELSE key
  /\ held' = key
  /\ LET r == ProcessKeys(page, type, key)
     IN \/ ~ Acts(page, type) /\ page' = r /\ box' = box
        \/ /\ Acts(page, type)
           /\ page' = Unfold(r, key, box.link)
           /\ box' = CASE key = "up" /\ Up(r, box.link) = NULL -> FocusField(box)
                       [] key = "up" /\ Up(r, box.link) # NULL -> FocusLink(box, r, Up(r, box.link))
                       [] key = "down" -> FocusLink(box, r, Down(r, box.link))
                       [] key = "escape" -> FocusField(CloseResultsWindow(box))
                       [] OTHER -> box
  /\ UNCHANGED pointer

\* A click on a link of the results, or Enter on it. (The link of a single
\* definition leads to another document.)
FollowLink(pos) ==
  /\ held = NoKey
  /\ box.results /\ box.focus # "field" /\ pos \in VisibleLinks(page)
  /\ Len(pos) = 1 /\ Definitions(page, pos[1]) > 0
  /\ page' = Toggle(page, pos[1])
  /\ box' = [box EXCEPT !.focus = "results", !.link = pos]
  /\ UNCHANGED <<held, pointer>>

\* A key in the list of sections, and a click on one of them.
FilterKey(key) ==
  /\ box.focus = "filter" /\ box.popup /\ held = NoKey
  /\ box' = OnSearchSelectKey(box, key)
  /\ held' = key
  /\ UNCHANGED <<page, pointer>>
ClickItem(id) ==
  /\ pointer = "over" /\ held = NoKey /\ box.popup /\ box.focus # "field"
  /\ box' = OnSelectItem([box EXCEPT !.focus = "filter", !.link = NULL], id)
  /\ UNCHANGED <<page, held, pointer>>

\* A click on the cross beside the field.
ClickClose ==
  /\ box.results /\ box.focus # "field" /\ held = NoKey
  /\ box' = [CloseResultsWindow(box) EXCEPT !.focus = "none", !.link = NULL]
  /\ UNCHANGED <<page, held, pointer>>

\* The pointer comes over the icon or the list, and leaves them.
PointerOver ==
  /\ pointer = "away" /\ held = NoKey
  /\ pointer' = "over"
  /\ box' = OnSearchSelectShow(box)
  /\ UNCHANGED <<page, held>>
PointerOut ==
  /\ pointer = "over" /\ held = NoKey
  /\ pointer' = "away"
  /\ box' = OnSearchSelectHide(box)
  /\ UNCHANGED <<page, held>>

\* A timer fires: the one keyTimeout stands for, or one it no longer does.
SearchTimer ==
  /\ box.timers > 0
  /\ box' = Search([box EXCEPT !.timers = @ - 1])
  /\ UNCHANGED <<page, held, pointer>>
HideTimer ==
  /\ box.hideTimers > 0
  /\ box' = CloseSelectionWindow([box EXCEPT !.hideTimers = @ - 1])
  /\ UNCHANGED <<page, held, pointer>>

\* The frame has loaded the document it was sent to, which makes its rows and
\* searches them. A link that had the focus is gone.
Load ==
  /\ box.loading
  /\ page' = IF box.location[1] = nomatches THEN NoPage
             ELSE Matching(createResults(searchData(box.location[1][1], box.location[1][2])),
                           box.location[2])
  /\ box' = [box EXCEPT !.loading = FALSE, !.focus = IF @ = "results" THEN "none" ELSE @, !.link = NULL]
  /\ UNCHANGED <<held, pointer>>

PanelNext ==
  \/ EnterField \/ LeaveField
  \/ \E key \in FieldKeys : FieldKeyDown(key)
  \/ FieldKeyUp \/ OtherKeyUp
  \/ \E type \in {"keydown", "keypress"}, key \in LinkKeys : LinkKey(type, key)
  \/ \E pos \in VisibleLinks(page) : FollowLink(pos)
  \/ \E key \in FilterKeys : FilterKey(key)
  \/ \E id \in Sections : ClickItem(id)
  \/ ClickClose
  \/ PointerOver
  \/ PointerOut
  \/ SearchTimer \/ HideTimer \/ Load

PanelSpec == PanelInit /\ [][PanelNext]_panelVars
-----------------------------------------------------------------------------
\* Properties.

\* While results are displayed, what the panel remembers of the last search is
\* what the frame was sent to: no timer, click, close or reopening leaves it
\* comparing what is typed with another search.
ShownIsLatest == box.results => box.location = <<box.lastResultsPage, box.lastSearchValue>>

\* The panel is either in use or put away, and nothing of a search survives in
\* one that was put away: the field shows its label, and unless a timer that
\* outlived the panel has searched for that, nothing was searched.
DormantIsReset ==
  /\ box.searchActive <=> box.className = "active"
  /\ ~ box.searchActive =>
       /\ box.value = searchLabel
       /\ ~ box.results => box.lastSearchValue = <<>> /\ box.lastResultsPage = Blank

\* No timer is left to hide the list of sections while the pointer is over the
\* icon or the list, however often it left and came back: of the timers that
\* were started, none was forgotten before it was stopped.
HoverKeepsOpen == pointer = "over" => box.hideTimers = 0

\* The arrow keys follow what is displayed: from the link that has the focus,
\* down leads to the next one shown and up to the previous one, over entries
\* that do not match and definitions that are folded; above the first is the
\* field.
ArrowsFollowDisplay ==
  box.focus = "results" =>
    LET visible == VisibleLinks(page)
        below == {q \in visible : Above(box.link, q)}
        above == {q \in visible : Above(q, box.link)}
        down == Down(page, box.link)
        up == Up(page, box.link)
    IN /\ IF below = {} THEN down = NULL
          ELSE down \in below /\ \A q \in below : ~ Above(q, down)
       /\ IF above = {} THEN up = NULL
          ELSE up \in above /\ \A q \in above : ~ Above(up, q)
=============================================================================
