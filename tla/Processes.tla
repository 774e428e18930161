------------------------------ MODULE Processes ------------------------------
(***************************************************************************)
(* The part of the operating system that Quash relies on: processes,       *)
(* their numbers, and the pipes between them, as fork, pipe, dup2, kill    *)
(* and waitpid of execute.c use them.  All of it is outside src/.          *)
(*                                                                         *)
(* A program is one of four: a "source" writes Output units and ends, a    *)
(* "filter" copies its input until its end, an "idle" one ends whenever it *)
(* likes, a "forever" one only when killed.  Shell keeps a read end of     *)
(* every pipe it made, so that no writer is ever told that nobody reads    *)
(* (no SIGPIPE): only the write ends of a pipe need to be known.           *)
(***************************************************************************)
EXTENDS Integers, Sequences, FiniteSets

CONSTANTS
  Pids,       \* the process numbers there are
  NoPid,      \* -1
  Shell,      \* Quash itself, as a holder of descriptors
  MaxPipes,   \* pipes that can be made
  Capacity,   \* units a pipe can hold
  Output      \* units a source writes

ASSUME PidsAssumption == NoPid \notin Pids /\ Shell \notin Pids /\ IsFiniteSet(Pids)
ASSUME PipesAssumption == MaxPipes \in Nat /\ Capacity \in Nat \ {0} /\ Output \in Nat

VARIABLES
  proc,   \* what each process number stands for
  pipe    \* the pipes made so far

NoPipe == 0
Free == [state |-> "free", does |-> "idle", left |-> 0, in |-> NoPipe, out |-> NoPipe, job |-> 0]

Running == {p \in Pids : proc[p].state = "running"}
Zombies == {p \in Pids : proc[p].state = "zombie"}
Children == Running \union Zombies
Unused == Pids \ Children

\* A process that starts; one that writes to no pipe has nothing that can block it.
Started(does, in, out, job) ==
  [state |-> "running", does |-> does, in |-> in, out |-> out, job |-> job,
   left |-> IF does = "source" /\ out # NoPipe THEN Output ELSE 0]

\* A process that has received a fatal signal does nothing but end.
Killed(P) ==
  [p \in Pids |-> IF p \in P /\ p \in Running
                  THEN [proc[p] EXCEPT !.does = "idle", !.left = 0] ELSE proc[p]]

\* The processes a signal sent to p reaches: -1 stands for all of them.
Reaches(p) == IF p = NoPid THEN Running ELSE {p} \intersect Running

\* What waitpid(p, ...) can reap now, and whether it finds none that may come.
Reapable(p) == IF p = NoPid THEN Zombies ELSE {p} \intersect Zombies
NoSuchChild(p) == IF p = NoPid THEN Children = {} ELSE p \notin Children

Reaped(P) == [p \in Pids |-> IF p \in P THEN Free ELSE proc[p]]

WithoutWriter(h, k) == [pipe EXCEPT ![k].writers = pipe[k].writers \ {h}]
-----------------------------------------------------------------------------
ProcInit ==
  /\ proc = [p \in Pids |-> Free]
  /\ pipe = <<>>

HasRoom(k) == pipe[k].held < Capacity

Write(p) ==
  /\ p \in Running /\ proc[p].left > 0
  /\ LET k == proc[p].out
     IN /\ HasRoom(k)
        /\ pipe' = [pipe EXCEPT ![k].held = pipe[k].held + 1]
  /\ proc' = [proc EXCEPT ![p].left = proc[p].left - 1]

Read(p) ==
  /\ p \in Running /\ proc[p].does = "filter" /\ proc[p].left = 0 /\ proc[p].in # NoPipe
  /\ LET k == proc[p].in
     IN /\ pipe[k].held > 0
        /\ pipe' = [pipe EXCEPT ![k].held = pipe[k].held - 1]
  /\ proc' = [proc EXCEPT ![p].left = IF proc[p].out = NoPipe THEN 0 ELSE 1]

\* A filter ends at the end of its input: an empty pipe that nobody can write to.
AtEnd(p) ==
  \/ proc[p].in = NoPipe
  \/ pipe[proc[p].in].held = 0 /\ pipe[proc[p].in].writers = {}

Exit(p) ==
  /\ p \in Running /\ proc[p].left = 0
  /\ proc[p].does # "forever"
  /\ proc[p].does = "filter" => AtEnd(p)
  /\ proc' = [proc EXCEPT ![p].state = "zombie"]
  /\ pipe' = IF proc[p].out = NoPipe THEN pipe ELSE WithoutWriter(p, proc[p].out)

ProcessStep(p) == Write(p) \/ Read(p) \/ Exit(p)
=============================================================================
