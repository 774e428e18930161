------------------------------ MODULE MCUsers ------------------------------
(***************************************************************************)
(* For TLC, the parts that somebody uses who may do anything there is: the *)
(* scheduling library with any caller, and the pages of the documentation, *)
(* the search panel and the list of files, with any reader.  They share no *)
(* state, and a behaviour exercises one of the three.                      *)
(***************************************************************************)
EXTENDS Scheduler, SearchPanel, Directory

CONSTANT MaxTime   \* the last time at which the library is called

MCTimes == 0..MaxTime
MCRunTimes == {1, 3}
MCPriorities == {1, 2}

MCTexts == {<<>>, <<"s", "tatus", " ">>, <<"v">>}
MCFiles == [f \in {<<0>>, <<0, 0>>} |-> IF f = <<0>> THEN 8 ELSE 2]
-----------------------------------------------------------------------------
VARIABLE part  \* the part in use

allVars == <<schedVars, panelVars, directoryVars, part>>

MCInit ==
  /\ SchedInit /\ PanelInit /\ DirectoryInit
  /\ part \in {"library", "panel", "list"}
  /\ part # "library" => m_scheme = "FCFS"

\* Job numbers are only compared for equality: they are taken in their order.
\* Priorities are read under two schemes only: under the others one will do.
LibraryStep ==
  /\ part = "library" /\ SchedNext
  /\ \A j \in DOMAIN submitted' : \A k \in JobNumbers : k < j => k \in DOMAIN submitted'
  /\ m_scheme \notin {"PRI", "PPRI"} => \A j \in DOMAIN job' : job'[j].priority = 1
PanelStep == part = "panel" /\ PanelNext
ListStep == part = "list" /\ DirectoryNext

MCNext ==
  \/ LibraryStep /\ UNCHANGED <<panelVars, directoryVars, part>>
  \/ PanelStep /\ UNCHANGED <<schedVars, directoryVars, part>>
  \/ ListStep /\ UNCHANGED <<schedVars, panelVars, part>>

MCSpec == MCInit /\ [][MCNext]_allVars
=============================================================================
