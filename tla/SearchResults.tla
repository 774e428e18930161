--------------------------- MODULE SearchResults ---------------------------
(***************************************************************************)
(* The page of results inside the search panel's frame: the class          *)
(* SearchResults of doc/html/search/search.js.  r is the state of a page:  *)
(* its entries, those shown, those whose definitions are unfolded, and     *)
(* what ProcessKeys remembers.  The link of entry i is at position <<i>>,  *)
(* and those of its definitions, if it has several, at <<i, 0>>, <<i, 1>>, *)
(* and so on.                                                              *)
(***************************************************************************)
EXTENDS SearchIndex, Integers

NoKey == "none"   \* lastKey is 0
NULL == <<>>      \* no position

-----------------------------------------------------------------------------
\* Texts without blanks: none at all, none in front, none at the end.
NotBlank(piece) == piece # " "
NoBlanks(t) == SelectSeq(t, NotBlank)
NoLeading(t) ==
  IF \A k \in DOMAIN t : ~ NotBlank(t[k]) THEN <<>> ELSE SubSeq(t, SelectInSeq(t, NotBlank), Len(t))
NoTrailing(t) == SubSeq(t, 1, SelectLastInSeq(t, NotBlank))

\* The links Item0, Item1, ... and, below the link of entry i, its children.
Items(r) == 0..(Len(r.entries) - 1)
Definitions(r, i) ==
  IF i \in Items(r) /\ r.entries[i + 1].definitions > 1 THEN r.entries[i + 1].definitions ELSE 0

\* createResults, for the entries of a page: nothing is displayed yet.
createResults(entries) ==
  [entries |-> entries, shown |-> {}, unfolded |-> {}, lastKey |-> NoKey, repeatOn |-> FALSE]

\* Search, for the search word of the URL: the entries it is a prefix of.
Matching(r, search) ==
  [r EXCEPT !.shown = {i \in Items(r) :
    IsPrefix(convertToId(NoTrailing(NoLeading(search))), r.entries[i + 1].name)}]

\* FindChildElement has found children, and they are displayed.
ChildrenVisible(r, i) == Definitions(r, i) > 0 /\ i \in r.unfolded

\* What the link of an entry with several definitions runs.
Toggle(r, i) == [r EXCEPT !.unfolded = IF i \in @ THEN @ \ {i} ELSE @ \union {i}]
-----------------------------------------------------------------------------
\* Moving through the links with the arrow keys.

\* Mutant: hidden entries are not skipped.
NavNext_Any(r, index) == IF index \in Items(r) THEN <<index>> ELSE NULL

\* The first shown entry from index on, and the last one up to index.
NavNext(r, index) ==
  LET found == {i \in r.shown : i >= index}
  IN IF found = {} THEN NULL ELSE <<CHOOSE i \in found : \A k \in found : i <= k>>
NavPrev(r, index) ==
  LET found == {i \in r.shown : i <= index}
  IN IF found = {} THEN NULL ELSE <<CHOOSE i \in found : \A k \in found : i >= k>>

\* Up from an entry. The last child is looked for below Item newIndex.
UpFrom(r, itemIndex) ==
  LET newIndex == itemIndex - 1
      focusItem == NavPrev(r, newIndex)
  IN IF /\ focusItem # NULL
        /\ ChildrenVisible(r, focusItem[1])
        /\ Definitions(r, newIndex) > 0
     THEN <<newIndex, Definitions(r, newIndex) - 1>>
     ELSE focusItem

\* Down from an entry.
DownFrom(r, itemIndex) ==
  IF ChildrenVisible(r, itemIndex) THEN <<itemIndex, 0>> ELSE NavNext(r, itemIndex + 1)

\* Up and down, from any link; NULL says that the focus goes back to the
\* search field (up), or stays (down).
Up(r, pos) ==
  CASE Len(pos) = 1 -> UpFrom(r, pos[1])
    [] Len(pos) = 2 /\ pos[2] > 0 -> <<pos[1], pos[2] - 1>>
    [] Len(pos) = 2 /\ pos[2] = 0 -> <<pos[1]>>
Down(r, pos) ==
  CASE Len(pos) = 1 -> DownFrom(r, pos[1])
    [] Len(pos) = 2 /\ pos[2] + 1 < Definitions(r, pos[1]) -> <<pos[1], pos[2] + 1>>
    [] Len(pos) = 2 /\ pos[2] + 1 >= Definitions(r, pos[1]) -> NavNext(r, pos[1] + 1)

\* ProcessKeys: what it remembers of a key event, and whether to act on it.
ProcessKeys(r, type, key) ==
  CASE type = "keydown"  -> [r EXCEPT !.repeatOn = FALSE, !.lastKey = key]
    [] type = "keypress" -> [r EXCEPT !.repeatOn = @ \/ r.lastKey # NoKey]
    [] type = "keyup"    -> [r EXCEPT !.repeatOn = FALSE, !.lastKey = NoKey]
Acts(r, type) ==
  CASE type = "keydown"  -> TRUE
    [] type = "keypress" -> r.repeatOn /\ r.lastKey # NoKey
    [] type = "keyup"    -> FALSE

\* Right and left, on an entry.
Unfold(r, key, pos) ==
  CASE key = "right" /\ Len(pos) = 1 /\ Definitions(r, pos[1]) > 0 ->
         [r EXCEPT !.unfolded = @ \union {pos[1]}]
    [] key = "left" /\ Len(pos) = 1 -> [r EXCEPT !.unfolded = @ \ {pos[1]}]
    [] OTHER -> r
-----------------------------------------------------------------------------
\* The links a reader sees, from top to bottom.

Displayed(r, pos) == pos[1] \in r.shown /\ (Len(pos) = 2 => ChildrenVisible(r, pos[1]))

Links(r) == {<<i>> : i \in Items(r)}
              \union UNION {{<<i, c>> : c \in 0..(Definitions(r, i) - 1)} : i \in Items(r)}
VisibleLinks(r) == {pos \in Links(r) : Displayed(r, pos)}

\* Whether link p is above link q.
Above(p, q) == p[1] < q[1] \/ (p[1] = q[1] /\ Len(q) = 2 /\ (Len(p) = 1 \/ p[2] < q[2]))
=============================================================================
