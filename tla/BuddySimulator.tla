--------------------------- MODULE BuddySimulator ---------------------------
(***************************************************************************)
(* The script interpreter of memoryallocation_sim/buddy/simulator.c, over  *)
(* the allocator of module Buddy: it allocates blocks to one-letter        *)
(* variables and frees them, one command a line, until a command fails or  *)
(* the script ends.                                                        *)
(***************************************************************************)
EXTENDS Buddy

CONSTANTS
  Vars,      \* the variable names a script uses
  Amounts,   \* the numbers it asks for
  KILO,      \* what the unit k multiplies by: 1024
  INT_RANGE, \* the number of values of an int
  NULL

ASSUME SimulatorAssumption ==
  /\ KILO \in Nat \ {0} /\ INT_RANGE \in Nat \ {0} /\ INT_RANGE % 2 = 0
  /\ Amounts \subseteq -(INT_RANGE \div 2)..(INT_RANGE \div 2 - 1)
  /\ NULL \notin Nat \union [name : {"alloc", "free"}, var : Vars]

VARIABLES
  var_map,     \* mem and in_use of each variable
  status,      \* the status of the last command, or "EOF"
  cmd,         \* the command inside buddy_alloc or buddy_free, or NULL
  asked,       \* observer: the bytes each variable's last alloc asked for
  overwritten  \* observer: held pages whose variable was allocated again

simVars == <<free_area, order, live, op, var_map, status, cmd, asked, overwritten>>

\* An int after a multiplication that may have overflowed.
Wrap(n) == ((n + INT_RANGE \div 2) % INT_RANGE) - INT_RANGE \div 2

Scaled(size, unit) == IF unit \in {"k", "K"} THEN Wrap(size * KILO) ELSE size

\* parse_file reads the next command.
Ready == status = "SUCCESS" /\ cmd = NULL
-----------------------------------------------------------------------------
Init ==
  /\ BuddyInit
  /\ var_map = [v \in Vars |-> [mem |-> NULL, in_use |-> FALSE]]
  /\ status = "SUCCESS"
  /\ cmd = NULL
  /\ asked = [v \in Vars |-> 0]
  /\ overwritten = {}

\* v = alloc(size unit), up to the call of buddy_alloc.
parse_alloc(v, size, unit) ==
  /\ Ready
  /\ buddy_alloc(Scaled(size, unit))
  /\ cmd' = [name |-> "alloc", var |-> v]
  /\ asked' = [asked EXCEPT ![v] = IF unit \in {"k", "K"} THEN size * KILO ELSE size]
  /\ UNCHANGED <<var_map, status, overwritten>>

\* buddy_alloc has returned a block: the variable now points to it.
AllocSucceeds(page) ==
  /\ cmd # NULL
  /\ AllocReturn(page)
  /\ overwritten' = overwritten \union
                      {var_map[v].mem : v \in {u \in {cmd.var} : var_map[u].in_use}}
  /\ var_map' = [var_map EXCEPT ![cmd.var] = [mem |-> page, in_use |-> TRUE]]
  /\ cmd' = NULL
  /\ UNCHANGED <<status, asked>>

\* It has returned NULL, which overwrites the pointer and ends the program.
AllocFails ==
  /\ cmd # NULL
  /\ AllocNull
  /\ var_map' = [var_map EXCEPT ![cmd.var].mem = NULL]
  /\ status' = "OUTOFMEMORY"
  /\ cmd' = NULL
  /\ UNCHANGED <<asked, overwritten>>

\* free(v), up to the call of buddy_free, of a variable that is in use.
parse_free(v) ==
  /\ Ready
  /\ var_map[v].in_use
  /\ buddy_free(var_map[v].mem)
  /\ cmd' = [name |-> "free", var |-> v]
  /\ UNCHANGED <<var_map, status, asked, overwritten>>

\* ... and of one that is not.
DoubleFree(v) ==
  /\ Ready
  /\ ~ var_map[v].in_use
  /\ status' = "DOUBLEFREE"
  /\ UNCHANGED <<buddyVars, var_map, cmd, asked, overwritten>>

\* Mutant: the variable is not cleared.
FreeSucceeds_Kept ==
  /\ cmd # NULL
  /\ FreeReturn
  /\ cmd' = NULL
  /\ UNCHANGED <<var_map, status, asked, overwritten>>

\* buddy_free has returned.
FreeSucceeds ==
  /\ cmd # NULL
  /\ FreeReturn
  /\ var_map' = [var_map EXCEPT ![cmd.var] = [mem |-> NULL, in_use |-> FALSE]]
  /\ cmd' = NULL
  /\ UNCHANGED <<status, asked, overwritten>>

\* An iteration of the loops of buddy_alloc and buddy_free.
Within ==
  /\ ScanUp \/ Take \/ Split \/ Merge
  /\ UNCHANGED <<var_map, status, cmd, asked, overwritten>>

\* A line that is no command (parse_error), or the end of the script.
NoCommand ==
  /\ Ready
  /\ status' \in {"BADINPUT", "EOF"}
  /\ UNCHANGED <<buddyVars, var_map, cmd, asked, overwritten>>

\* A command inside the allocator.
Allocating ==
  \/ \E page \in Pages : AllocSucceeds(page)
  \/ AllocFails
  \/ FreeSucceeds
  \/ Within

Next ==
  \/ \E v \in Vars, size \in Amounts, unit \in {"k", ")"} : parse_alloc(v, size, unit)
  \/ \E v \in Vars : parse_free(v)
  \/ \E v \in Vars : DoubleFree(v)
  \/ Allocating
  \/ NoCommand

\* A command that has begun runs on, as any call of the allocator does.
Spec == Init /\ [][Next]_simVars /\ WF_simVars(Allocating)
-----------------------------------------------------------------------------
\* Properties.

InUse == {v \in Vars : var_map[v].in_use}

\* Between commands, a variable in use points to a block that is held, no two
\* to the same, and a block is held only for such a variable or because its
\* variable was allocated again: nothing else leaks.
HeldByVariables ==
  Ready => /\ \A v \in InUse : var_map[v].mem \in DOMAIN live \ overwritten
           /\ \A u, v \in InUse : var_map[u].mem = var_map[v].mem => u = v
           /\ DOMAIN live = overwritten \union {var_map[v].mem : v \in InUse}

\* A variable in use has at least the memory its alloc asked for.
HasWhatItAskedFor ==
  Ready => \A v \in InUse : Bytes[live[var_map[v].mem]] >= asked[v]
=============================================================================
