---------------------------- MODULE MCSimulator ----------------------------
(***************************************************************************)
(* Small instances of Simulator for TLC: input files of a few jobs with    *)
(* distinct arrival times, listed by arrival (stride 1) or not: the job    *)
(* at place i of the file is the (i * stride % (NumJobs + 1))-th to arrive.*)
(***************************************************************************)
EXTENDS Simulator

CONSTANTS
  NumJobs,      \* jobs in an input file
  MaxArrival,   \* the latest arrival
  Horizon,      \* no simulation runs longer
  Strides       \* the orders in which files list their jobs

MCJobNumbers == 0..(NumJobs - 1)
MCNoJob == -1
MCTimes == 0..Horizon

Rows == [arrival : 0..MaxArrival, run_time : RunTimes, priority : Priorities]
Turn(i, stride) == (i * stride) % (NumJobs + 1)
MCTables ==
  {t \in [1..NumJobs -> Rows] :
     \E s \in Strides : \A i, k \in 1..NumJobs :
       Turn(i, s) < Turn(k, s) => t[i].arrival < t[k].arrival}
=============================================================================
