----------------------------- MODULE Directory -----------------------------
(***************************************************************************)
(* The list of files of Quash's documentation, whose folders unfold and    *)
(* fold: doc/html/dynsections.js, over the rows of doc/html/files.html.    *)
(* The row with id row_0_1_ is <<0, 1>>: its folder is row_0_.             *)
(***************************************************************************)
EXTENDS Naturals, SequencesExt

CONSTANTS
  Files  \* how many files each folder lists, by the row of the folder

VARIABLES
  visible,  \* the rows displayed
  open,     \* the folders with an open icon and an arrow that points down
  even      \* the rows with a dark background

directoryVars == <<visible, open, even>>

\* From top to bottom: the folders, each before what it holds.
row == <<<<0>>, <<0, 0>>>> \o [k \in 1..Files[<<0, 0>>] |-> <<0, 0, k - 1>>]
                        \o [k \in 1..Files[<<0>>] |-> <<0, k>>]
Rows == ToSet(row)
Folders == {<<0>>, <<0, 0>>}
ASSUME FilesAssumption == Files \in [Folders -> Nat \ {0}]

\* What the regular expression and the prefix in toggleFolder select.
childRows(id) == {r \in Rows : Len(r) = Len(id) + 1 /\ IsPrefix(id, r)}
Below(id) == {r \in Rows : IsStrictPrefix(id, r)}

\* The first of them from the top.
firstChild(id) ==
  row[CHOOSE k \in DOMAIN row : row[k] \in childRows(id) /\ \A i \in 1..(k - 1) : row[i] \notin childRows(id)]

\* Of the displayed rows, the first, the third, and so on.
Place(shown, k) == Cardinality({i \in 1..k : row[i] \in shown})
Stripes(shown) ==
  {row[k] : k \in {i \in DOMAIN row : row[i] \in shown /\ Place(shown, i) % 2 = 1}}
updateStripes(shown) == even' = Stripes(shown)
-----------------------------------------------------------------------------
\* As the page is delivered.
DirectoryInit ==
  /\ visible = Rows
  /\ open = Folders
  /\ even = {row[k] : k \in {i \in DOMAIN row : i % 2 = 1}}

\* A click on a detail level: folders above it open, those at it close, and
\* rows beyond it are hidden as they are. (The icon of a file is no folder's.)
toggleLevel(level) ==
  LET shown == {r \in Rows : Len(r) <= level}
  IN /\ visible' = shown
     /\ open' = {r \in Folders : Len(r) < level} \union {r \in open : Len(r) > level}
     /\ updateStripes(shown)

\* Mutant: the folders inside keep their icons.
toggleFolder_KeepsIcons(id) ==
  LET hiding == firstChild(id) \in visible
      shown == IF hiding THEN visible \ Below(id) ELSE visible \union childRows(id)
  IN /\ id \in visible
     /\ visible' = shown
     /\ open' = IF hiding THEN open \ {id} ELSE open \union {id}
     /\ updateStripes(shown)

\* A click on a folder: its rows are hidden with everything below them, or
\* shown with their own folders closed.
toggleFolder(id) ==
  LET hiding == firstChild(id) \in visible
      shown == IF hiding THEN visible \ Below(id) ELSE visible \union childRows(id)
  IN /\ id \in visible
     /\ visible' = shown
     /\ open' = IF hiding THEN open \ {id} ELSE (open \union {id}) \ childRows(id)
     /\ updateStripes(shown)

DirectoryNext ==
  \/ \E level \in 1..3 : toggleLevel(level)
  \/ \E id \in Folders : toggleFolder(id)

DirectorySpec == DirectoryInit /\ [][DirectoryNext]_directoryVars
-----------------------------------------------------------------------------
\* Properties.

\* Whatever was folded, unfolded and levelled before, a folder that shows looks
\* open exactly when what it holds is shown, all of it; what a hidden folder
\* holds is hidden; and no two rows that follow one another look the same.
IconsTellContents ==
  /\ \A f \in Folders \intersect visible :
       IF f \in open THEN childRows(f) \subseteq visible ELSE childRows(f) \intersect visible = {}
  /\ \A f \in Folders \ visible : childRows(f) \intersect visible = {}
  /\ \A k \in DOMAIN row, i \in DOMAIN row :
       /\ i < k /\ row[i] \in visible /\ row[k] \in visible
       /\ \A j \in (i + 1)..(k - 1) : row[j] \notin visible
       => (row[k] \in even <=> row[i] \notin even)
=============================================================================
