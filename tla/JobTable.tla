------------------------------ MODULE JobTable ------------------------------
(***************************************************************************)
(* What a user of Quash may rely on about background jobs: each has an id  *)
(* of its own in the current list of jobs, leaves the list only when it is *)
(* reported complete, once, and is reported only when every process of it  *)
(* has ended.  How ids are chosen is left open.                            *)
(***************************************************************************)
EXTENDS Naturals, Sequences

VARIABLES
  listed,     \* the ids of the jobs in the list
  live,       \* the ids of jobs with a process that runs
  completed   \* the ids reported complete, in order

jobVars == <<listed, live, completed>>

Init == listed = {} /\ live = {} /\ completed = <<>>

\* The processes of a job are made before it is listed, one job at a time;
\* processes of any job end.
Launch(id) ==
  /\ live \ listed \subseteq {id} /\ id \notin listed
  /\ live' = live \union {id}
  /\ UNCHANGED <<listed, completed>>
End ==
  /\ live' \subseteq live
  /\ UNCHANGED <<listed, completed>>

\* The job that was launched is listed: some of its processes may have ended.
Start(id) ==
  /\ live \ listed \subseteq {id} /\ id \notin listed
  /\ listed' = listed \union {id}
  /\ UNCHANGED <<live, completed>>

Report(id) ==
  /\ id \in listed \ live
  /\ listed' = listed \ {id}
  /\ completed' = Append(completed, id)
  /\ UNCHANGED live

\* The id a step is about is among those of the jobs after it, or before it.
Next ==
  \/ \E id \in live' : Launch(id)
  \/ End
  \/ \E id \in listed' : Start(id)
  \/ \E id \in listed : Report(id)

Spec == Init /\ [][Next]_jobVars
=============================================================================
