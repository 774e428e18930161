------------------------------ MODULE Simulator ------------------------------
(***************************************************************************)
(* The simulator, scheduler/src/simulator.c: the main loop that drives the *)
(* scheduling library through finishes, quantum expiries, arrivals and     *)
(* the run of one time unit, and keeps its own view of which job is on     *)
(* which core.  Every call into the library is one step.                   *)
(***************************************************************************)
EXTENDS Scheduler, FiniteSetsExt

CONSTANTS
  Tables,   \* the input files: sequences of [arrival, run_time, priority]
  Quanta    \* the quanta RR may be given

ASSUME TablesAssumption ==
  /\ Tables \subseteq Seq([arrival : Nat, run_time : RunTimes, priority : Priorities])
  /\ \A t \in Tables : /\ (0..(Len(t) - 1)) \subseteq JobNumbers
                       /\ \A i, k \in 1..Len(t) : t[i].arrival = t[k].arrival => i = k
ASSUME QuantaAssumption == Quanta \subseteq Nat \ {0}
ASSUME NumbersAssumption == JobNumbers \subseteq Nat /\ NoJob = -1

VARIABLES
  table,          \* the input file that was read
  jobs,           \* the array of unfinished jobs, jobs[0..active_jobs-1]
  jobs_alive,
  quantum,
  quantum_clock,
  time,
  phase,          \* where in the loop body: "finish", "quantum", "arrive"
  status,         \* "running", "done", or the error main stops with
  history         \* what happened, for the properties

simVars == <<table, jobs, jobs_alive, quantum, quantum_clock, time, phase, status, history>>
vars == <<schedVars, simVars>>

\* Indices into jobs start at 1 here.
Indices == 1..Len(jobs)
Row(id) == table[id + 1]
Submitted == 0..(Len(table) - 1)
Waiting(jb) == jb.arrived /\ jb.core_id = NoCore
-----------------------------------------------------------------------------
\* Helpers.

Selectable(js, id) == {i \in 1..Len(js) : js[i].job_id = id /\ js[i].arrived}

\* Gives the core to the first arrived job of that number, if there is one.
set_active_job(id, core, js) ==
  [i \in 1..Len(js) |->
     IF i \in Selectable(js, id) /\ \A k \in Selectable(js, id) : i <= k
     THEN [js[i] EXCEPT !.core_id = core] ELSE js[i]]

\* The last job takes the place of the deleted one.
Delete(js, i) == [k \in 1..(Len(js) - 1) |-> IF k = i THEN js[Len(js)] ELSE js[k]]

\* Mutant: whoever uses the core keeps it.
TakeCore_Shared(i, core) == [jobs EXCEPT ![i].arrived = TRUE, ![i].core_id = core]

\* Whoever uses the core leaves it to job i, which has arrived.
TakeCore(i, core) ==
  [k \in Indices |->
     IF k = i THEN [jobs[k] EXCEPT !.arrived = TRUE, !.core_id = core]
     ELSE IF jobs[k].core_id = core THEN [jobs[k] EXCEPT !.core_id = NoCore]
     ELSE jobs[k]]

FirstIn(S) == {i \in S : \A k \in S : i <= k}

\* Mutants: a job arrives again, and a quantum is too long.
Arriving_Again == {i \in Indices : jobs[i].arrival_time = time}
Expired_Late ==
  {c \in Cores : quantum_clock[c] < 0 /\ \E i \in Indices : jobs[i].core_id = c}

Finished == {i \in Indices : jobs[i].run_time = 0}
Arriving == {i \in Indices : jobs[i].arrival_time = time /\ ~ jobs[i].arrived}
\* The cores whose quantum is over, with a job the loop over jobs would find.
Expired == {c \in Cores : quantum_clock[c] = 0 /\ \E i \in Indices : jobs[i].core_id = c}

Reset(core) == IF m_scheme = "RR" THEN [quantum_clock EXCEPT ![core] = quantum]
               ELSE quantum_clock
-----------------------------------------------------------------------------
\* main.

Init ==
  /\ SchedInit
  /\ table \in Tables
  /\ jobs = [i \in 1..Len(table) |->
               [job_id |-> i - 1, arrival_time |-> table[i].arrival,
                run_time |-> table[i].run_time, priority |-> table[i].priority,
                core_id |-> NoCore, arrived |-> FALSE]]
  /\ jobs_alive = 0
  /\ quantum \in IF m_scheme = "RR" THEN Quanta ELSE {0}
  /\ quantum_clock = [c \in Cores |-> -1]
  /\ time = 0
  /\ phase = "finish"
  /\ status = "running"
  /\ history = [id \in Submitted |-> [first |-> -1, finish |-> -1, waited |-> 0, since |-> 0]]

\* 1. A job that finished in the last time unit, the first in the array.
FinishJob(i) ==
  /\ phase = "finish" /\ i \in FirstIn(Finished)
  /\ Called(time)
  /\ LET core == jobs[i].core_id
         rest == Delete(jobs, i)
     IN \E new_job_id \in JobNumbers \union {NoJob} :
          /\ scheduler_job_finished(core, time, new_job_id)
          /\ jobs' = set_active_job(new_job_id, core, rest)
          /\ status' = IF new_job_id # NoJob /\ Selectable(rest, new_job_id) = {}
                       THEN "invalid_job" ELSE status
          /\ quantum_clock' = Reset(core)
  /\ jobs_alive' = jobs_alive - 1
  /\ history' = [history EXCEPT ![jobs[i].job_id].finish = time]
  /\ UNCHANGED <<table, quantum, time, phase>>

\* The loop of part 1 is over; the simulation ends when no job is left.
EndFinish ==
  /\ phase = "finish" /\ Finished = {}
  /\ status' = IF jobs = <<>> THEN "done" ELSE status
  /\ phase' = IF m_scheme = "RR" THEN "quantum" ELSE "arrive"
  /\ UNCHANGED <<schedVars, table, jobs, jobs_alive, quantum, quantum_clock, time, history>>

\* 2. A quantum that expired in the last time unit, on the lowest such core.
ExpireQuantum(core) ==
  /\ phase = "quantum" /\ core \in FirstIn(Expired)
  /\ Called(time)
  /\ \E j \in FirstIn({i \in Indices : jobs[i].core_id = core}), new_job_id \in JobNumbers :
       LET taken == [jobs EXCEPT ![j].core_id = NoCore]
       IN /\ scheduler_quantum_expired(core, time, new_job_id)
          /\ jobs' = set_active_job(new_job_id, core, taken)
          /\ status' = IF Selectable(taken, new_job_id) = {} THEN "invalid_job" ELSE status
  /\ quantum_clock' = Reset(core)
  /\ UNCHANGED <<table, jobs_alive, quantum, time, phase, history>>

EndQuantum ==
  /\ phase = "quantum" /\ Expired = {}
  /\ phase' = "arrive"
  /\ UNCHANGED <<schedVars, table, jobs, jobs_alive, quantum, quantum_clock, time, status, history>>

\* 3. A job that arrives in this time unit; whoever is on its core leaves it.
Arrive(i) ==
  /\ phase = "arrive" /\ i \in FirstIn(Arriving)
  /\ Announced(jobs[i].job_id, time)
  /\ \E core \in Cores \union {NoCore} :
       /\ scheduler_new_job(jobs[i].job_id, time, jobs[i].run_time, jobs[i].priority, core)
       /\ IF core = NoCore
          THEN /\ jobs' = [jobs EXCEPT ![i].arrived = TRUE]
               /\ quantum_clock' = quantum_clock
          ELSE /\ jobs' = TakeCore(i, core)
               /\ quantum_clock' = Reset(core)
  /\ jobs_alive' = jobs_alive + 1
  /\ UNCHANGED <<table, quantum, time, phase, status, history>>

\* 4., 6. and 7. Every job on a core runs for one unit; the sanity checks.
RunUnit ==
  /\ phase = "arrive" /\ Arriving = {}
  /\ LET working == {i \in Indices : jobs[i].core_id # NoCore}
         on(c) == {i \in working : jobs[i].core_id = c}
         Update(id) ==
           LET i == CHOOSE k \in Indices : jobs[k].job_id = id
               h == history[id]
           IN IF i \in working
              THEN [h EXCEPT !.first = IF h.first = -1 THEN time ELSE h.first, !.since = 0]
              ELSE IF Waiting(jobs[i])
              THEN [h EXCEPT !.waited = h.waited + 1, !.since = h.since + 1]
              ELSE h
     IN /\ jobs' = [i \in Indices |-> IF i \in working
                                      THEN [jobs[i] EXCEPT !.run_time = jobs[i].run_time - 1]
                                      ELSE jobs[i]]
        /\ quantum_clock' = [c \in Cores |-> quantum_clock[c] - Cardinality(on(c))]
        /\ status' = IF \E c \in Cores : Cardinality(on(c)) > 1 THEN "assert"
                     ELSE IF jobs_alive > 0 /\ working = {} THEN "all_idle"
                     ELSE status
        /\ history' = [id \in Submitted |->
                         IF \E i \in Indices : jobs[i].job_id = id THEN Update(id) ELSE history[id]]
  /\ time' = time + 1
  /\ phase' = "finish"
  /\ UNCHANGED <<schedVars, table, jobs_alive, quantum>>

Next ==
  /\ status = "running"
  /\ \/ \E i \in Indices : FinishJob(i)
     \/ EndFinish
     \/ \E c \in Cores : ExpireQuantum(c)
     \/ EndQuantum
     \/ \E i \in Indices : Arrive(i)
     \/ RunUnit

\* main is one thread of control that nothing blocks.
Spec == Init /\ [][Next]_vars /\ WF_vars(Next)
-----------------------------------------------------------------------------
\* Properties.

\* The simulator and the library never disagree on what runs where: the two
\* sides update their views separately, from a returned core or job number.
CoresAgree ==
  \A c \in Cores :
    {jobs[i].job_id : i \in {k \in Indices : jobs[k].core_id = c}} =
      IF job_list[c] = NoJob THEN {} ELSE {job_list[c]}

\* The averages are those of what really ran: the sums the library keeps equal
\* the sums of the finished jobs' true turnarounds, waits and first runs.
StatsTrue ==
  LET done == {id \in Submitted : history[id].finish # -1}
  IN /\ stats.scheduled = Cardinality(done)
     /\ stats.turnaround =
          MapThenSumSet(LAMBDA id : history[id].finish - Row(id).arrival, done)
     /\ stats.waiting = MapThenSumSet(LAMBDA id : history[id].waited, done)
     /\ stats.response = MapThenSumSet(LAMBDA id : history[id].first - Row(id).arrival, done)

\* The schedule obeys the scheme, seen from outside: without preemption, a job
\* starts before one that was already waiting only if the scheme prefers it.
Prefers(a, b) ==
  \/ m_scheme = "SJF" /\ Row(a).run_time < Row(b).run_time
  \/ m_scheme = "PRI" /\ Row(a).priority < Row(b).priority
  \/ /\ Row(a).arrival < Row(b).arrival
     /\ \/ m_scheme = "FCFS"
        \/ m_scheme = "SJF" /\ Row(a).run_time = Row(b).run_time
        \/ m_scheme = "PRI" /\ Row(a).priority = Row(b).priority

StartsInOrder ==
  m_scheme \in {"FCFS", "SJF", "PRI"} =>
    \A a, b \in Submitted :
      /\ history[a].first > Row(b).arrival
      /\ history[b].first = -1 \/ history[b].first > history[a].first
      => a = b \/ Prefers(a, b)

\* Round robin serves everybody: a job that waits is back on a core after the
\* quanta of the jobs that can be ahead of it, shared among the cores.
RRBoundedWait ==
  m_scheme = "RR" =>
    \A id \in Submitted :
      history[id].since * NumCores <= quantum * (Len(table) - 1)

\* Every simulation ends, with every job finished.
Terminates == <>(status = "done")

\* The simulator calls the library only as the library's documentation allows.
LegalCalls == SchedSpec

\* PSJF prefers the shortest remaining time (libscheduler.c, line 96): when a
\* time unit runs, no waiting job has less left than a running one.
RunsShortestRemaining ==
  (m_scheme = "PSJF" /\ phase = "arrive" /\ Arriving = {}) =>
    \A i, k \in Indices :
      jobs[i].core_id # NoCore /\ Waiting(jobs[k]) => jobs[i].run_time <= jobs[k].run_time
=============================================================================
