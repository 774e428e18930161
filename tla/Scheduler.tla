------------------------------ MODULE Scheduler ------------------------------
(***************************************************************************)
(* The scheduling library, scheduler/src/libscheduler/libscheduler.c: an   *)
(* assignment of jobs to cores, a priority queue of the jobs that wait,    *)
(* and the sums the averages are computed from.  One action per call of    *)
(* the interface (scheduler_new_job, scheduler_job_finished,               *)
(* scheduler_quantum_expired).  The caller is any program that respects    *)
(* the assumptions the interface documents; module Simulator is the one    *)
(* caller the repository has.                                              *)
(*                                                                         *)
(* A job number stands for the pointer to its job_t: the library           *)
(* allocates one job_t per number, and DOMAIN job is the set of job_t's    *)
(* allocated and not yet freed.                                            *)
(***************************************************************************)
EXTENDS PriorityList, FiniteSets

CONSTANTS
  JobNumbers,   \* the job numbers a caller may use
  NumCores,     \* cores given to scheduler_start_up
  Schemes,      \* the schemes it may be started with
  Times,        \* the times at which the library is called
  RunTimes,     \* running times a caller may pass
  Priorities,   \* priorities a caller may pass
  NoJob         \* the NULL job_t, and -1 as a returned job number

AllSchemes == {"FCFS", "SJF", "PSJF", "PRI", "PPRI", "RR"}

ASSUME CoresAssumption == NumCores \in Nat \ {0}
ASSUME SchemesAssumption == Schemes \subseteq AllSchemes
ASSUME InputsAssumption ==
  /\ Times \subseteq Nat
  /\ RunTimes \subseteq Nat \ {0}
  /\ Priorities \subseteq Int
ASSUME NoJobAssumption == NoJob \notin JobNumbers

VARIABLES
  m_scheme,     \* the scheme, fixed at start-up
  job_list,     \* m_core.job_list: the job on each core, or NoJob
  m_job_queue,  \* the job numbers that wait, in queue order
  job,          \* the live job_t's
  stats,        \* the totals behind the three averages
  submitted,    \* caller: the time at which each job was announced
  clock         \* caller: the time of the last call

libVars == <<m_scheme, job_list, m_job_queue, job, stats>>
schedVars == <<m_scheme, job_list, m_job_queue, job, stats, submitted, clock>>

Cores == 0..(NumCores - 1)
NoCore == -1

\* Mutant: PRI preempts as well.
Preemptive_PRI == {"PSJF", "PPRI", "PRI"}

Preemptive == {"PSJF", "PPRI"}

-----------------------------------------------------------------------------
\* Helpers.

\* Mutant: the insertion time is left unset.
New_Job_Unset(time, running_time, priority) ==
  [priority |-> priority, arrival |-> time, running |-> running_time,
   remaining |-> running_time, inserted |-> -1]

New_Job(time, running_time, priority) ==
  [priority |-> priority, arrival |-> time, running |-> running_time,
   remaining |-> running_time, inserted |-> time]

OnCore(j) == \E c \in Cores : job_list[c] = j
IdleCores == {c \in Cores : job_list[c] = NoJob}

\* update_core: what is left of every job on a core, from the time it was
\* inserted; a job that arrived in this time unit is skipped.
update_core(time) ==
  [j \in DOMAIN job |->
     IF OnCore(j) /\ time # job[j].arrival
     THEN [job[j] EXCEPT !.remaining = job[j].running - (time - job[j].inserted)]
     ELSE job[j]]

\* Mutant: PRI forgets the priority.
Key_NoPRI(jb) ==
  CASE m_scheme = "SJF"  -> jb.running
    [] m_scheme = "PSJF" -> jb.remaining
    [] m_scheme = "PPRI" -> jb.priority
    [] OTHER             -> 0

\* The number the scheme orders jobs by, before arrival times decide.
Key(jb) ==
  CASE m_scheme = "SJF"              -> jb.running
    [] m_scheme = "PSJF"             -> jb.remaining
    [] m_scheme \in {"PRI", "PPRI"}  -> jb.priority
    [] OTHER                         -> 0

comparer(job1, job2) ==
  IF m_scheme = "RR" THEN 0
  ELSE IF Key(job1) # Key(job2) THEN Key(job1) - Key(job2)
  ELSE job1.arrival - job2.arrival

\* The places priqueue_offer may put j, with the job_t's of heap.
Places(heap, j) ==
  OfferIndices([i \in 1..Len(m_job_queue) |-> comparer(heap[j], heap[m_job_queue[i]])])

\* Mutant: the job is dropped.
offer_Lost(heap, j) == Places(heap, j) # {} /\ UNCHANGED m_job_queue

offer(heap, j) == \E k \in Places(heap, j) : m_job_queue' = Link(m_job_queue, k, j)

\* Mutant: a job that resumes is inserted anew.
Dispatched_Always(heap, j, time) == [heap EXCEPT ![j].inserted = time]

\* A polled job that has not run yet gets its insertion time now; one that
\* has run keeps the first.
Dispatched(heap, j, time) ==
  IF heap[j].remaining = heap[j].running THEN [heap EXCEPT ![j].inserted = time] ELSE heap

\* Mutant: the first core that is behind, not the one furthest behind.
Victims_First(heap, newJob) ==
  LET behind == {c \in Cores : comparer(heap[job_list[c]], newJob) > 0}
  IN {c \in behind : \A d \in behind : c <= d}

\* preempt_new_job's scan: the core whose job is furthest behind newJob, ties
\* going to the latest arrival.
Victims(heap, newJob) ==
  LET diff(c) == comparer(heap[job_list[c]], newJob)
      arrived(c) == heap[job_list[c]].arrival
      beats(c, d) == \/ diff(c) > diff(d)
                     \/ diff(c) = diff(d) /\ arrived(c) > arrived(d)
                     \/ diff(c) = diff(d) /\ arrived(c) = arrived(d) /\ c < d
  IN {c \in Cores : diff(c) > 0 /\ \A d \in Cores \ {c} : beats(c, d)}

\* The totals with those of a job that finishes now.
Totals(jb, time) ==
  [waiting    |-> stats.waiting + (time - jb.arrival) - jb.running,
   turnaround |-> stats.turnaround + (time - jb.arrival),
   response   |-> stats.response + jb.inserted - jb.arrival,
   scheduled  |-> stats.scheduled + 1]
-----------------------------------------------------------------------------
\* The interface.

scheduler_start_up ==
  /\ m_scheme \in Schemes
  /\ job_list = [c \in Cores |-> NoJob]
  /\ m_job_queue = <<>>
  /\ job = [j \in {} |-> NoJob]
  /\ stats = [waiting |-> 0, turnaround |-> 0, response |-> 0, scheduled |-> 0]

\* The displaced job is queued and newJob takes its core, or newJob is queued.
preempt_new_job(heap, j, core) ==
  \/ /\ core \in Victims(heap, heap[j])
     /\ offer(heap, job_list[core])
     /\ job_list' = [job_list EXCEPT ![core] = j]
  \/ /\ \A c \in Cores : comparer(heap[job_list[c]], heap[j]) <= 0
     /\ core = NoCore
     /\ offer(heap, j)
     /\ UNCHANGED job_list

\* core is the returned value.  The unbounded scan for an idle core reads past
\* job_list when there is none; wherever it stops, its index is no core.
scheduler_new_job(j, time, running_time, priority, core) ==
  LET updated == update_core(time)
      heap == [k \in DOMAIN job \union {j} |->
                 IF k = j THEN New_Job(time, running_time, priority) ELSE updated[k]]
  IN /\ job' = heap
     /\ \/ /\ core \in IdleCores /\ \A c \in IdleCores : core <= c
           /\ job_list' = [job_list EXCEPT ![core] = j]
           /\ UNCHANGED m_job_queue
        \/ /\ IdleCores = {} /\ m_scheme \notin Preemptive
           /\ core = NoCore
           /\ offer(heap, j)
           /\ UNCHANGED job_list
        \/ /\ IdleCores = {} /\ m_scheme \in Preemptive
           /\ preempt_new_job(heap, j, core)
     /\ UNCHANGED <<m_scheme, stats>>

\* Mutant: the queue is not polled.
scheduler_job_finished_NoPoll(core_id, time, next) ==
  /\ stats' = Totals(update_core(time)[job_list[core_id]], time)
  /\ next = NoJob
  /\ job_list' = [job_list EXCEPT ![core_id] = NoJob]
  /\ job' = [k \in DOMAIN job \ {job_list[core_id]} |-> update_core(time)[k]]
  /\ UNCHANGED <<m_scheme, m_job_queue>>

\* next is the returned job number.
scheduler_job_finished(core_id, time, next) ==
  LET updated == update_core(time)
      rem_job == job_list[core_id]
      heap == [k \in DOMAIN job \ {rem_job} |-> updated[k]]
  IN /\ stats' = Totals(updated[rem_job], time)
     /\ job_list' = [job_list EXCEPT ![core_id] = next]
     /\ \/ /\ m_job_queue = <<>> /\ next = NoJob
           /\ job' = heap
           /\ UNCHANGED m_job_queue
        \/ /\ m_job_queue # <<>> /\ next = Head(m_job_queue)
           /\ job' = Dispatched(heap, next, time)
           /\ m_job_queue' = Tail(m_job_queue)
     /\ UNCHANGED m_scheme

\* The old job is queued before the next one is polled, so a poll that finds
\* the queue empty (returning -1) cannot happen.
scheduler_quantum_expired(core_id, time, next) ==
  LET heap == update_core(time)
      replace_job == job_list[core_id]
  IN \E k \in Places(heap, replace_job) :
       LET queue == Link(m_job_queue, k, replace_job)
       IN /\ next = Head(queue)
          /\ m_job_queue' = Tail(queue)
          /\ job_list' = [job_list EXCEPT ![core_id] = next]
          /\ job' = Dispatched(heap, next, time)
          /\ UNCHANGED <<m_scheme, stats>>
-----------------------------------------------------------------------------
\* Every caller that respects the documented assumptions: time does not go
\* back, job numbers and arrival times are unique, a finished or expired core
\* has a job, and quanta expire under RR only.

Announced(j, time) ==
  /\ submitted' = [k \in DOMAIN submitted \union {j} |-> IF k = j THEN time ELSE submitted[k]]
  /\ clock' = time

Announce(j, time) ==
  /\ j \notin DOMAIN submitted
  /\ time >= clock
  /\ \A k \in DOMAIN submitted : submitted[k] # time
  /\ Announced(j, time)

Called(time) == clock' = time /\ UNCHANGED submitted

Call(time) == time >= clock /\ Called(time)

SchedInit == scheduler_start_up /\ submitted = [j \in {} |-> 0] /\ clock = 0

NewJob(j, time) ==
  /\ Announce(j, time)
  /\ \E running_time \in RunTimes, priority \in Priorities, core \in Cores \union {NoCore} :
       scheduler_new_job(j, time, running_time, priority, core)

JobFinished(core_id, time) ==
  /\ job_list[core_id] # NoJob
  /\ Call(time)
  /\ \E next \in JobNumbers \union {NoJob} : scheduler_job_finished(core_id, time, next)

QuantumExpired(core_id, time) ==
  /\ m_scheme = "RR"
  /\ job_list[core_id] # NoJob
  /\ Call(time)
  /\ \E next \in JobNumbers : scheduler_quantum_expired(core_id, time, next)

SchedNext ==
  \/ \E j \in JobNumbers, time \in Times : NewJob(j, time)
  \/ \E c \in Cores, time \in Times : JobFinished(c, time)
  \/ \E c \in Cores, time \in Times : QuantumExpired(c, time)

SchedSpec == SchedInit /\ [][SchedNext]_schedVars
-----------------------------------------------------------------------------
\* Properties.

JobRecord == [priority : Int, arrival : Nat, running : Nat, remaining : Int, inserted : Nat]

\* The values the library's state ranges over.
TypeOK ==
  /\ m_scheme \in AllSchemes
  /\ job_list \in [Cores -> JobNumbers \union {NoJob}]
  /\ m_job_queue \in Seq(JobNumbers)
  /\ DOMAIN job \subseteq JobNumbers /\ job \in [DOMAIN job -> JobRecord]
  /\ stats \in [waiting : Int, turnaround : Int, response : Int, scheduled : Nat]
  /\ DOMAIN submitted \subseteq JobNumbers /\ submitted \in [DOMAIN submitted -> Nat]
  /\ clock \in Nat

Queued(j) == \E i \in 1..Len(m_job_queue) : m_job_queue[i] = j

\* Every job_t the library has allocated and not freed is on exactly one core
\* or at exactly one place of the queue, and neither refers to a freed one: no
\* call loses a job, schedules it twice, or keeps a dangling pointer.
OnePlace ==
  /\ \A j \in DOMAIN job : OnCore(j) \/ Queued(j)
  /\ \A c \in Cores : job_list[c] # NoJob =>
        /\ job_list[c] \in DOMAIN job
        /\ ~ Queued(job_list[c])
        /\ \A d \in Cores : job_list[d] = job_list[c] => d = c
  /\ \A i \in 1..Len(m_job_queue) :
        /\ m_job_queue[i] \in DOMAIN job
        /\ \A k \in 1..Len(m_job_queue) : m_job_queue[k] = m_job_queue[i] => k = i

\* No core is idle while a job waits, whatever the calls and their order
\* (the simulator's sanity check depends on it).
WorkConserving == m_job_queue # <<>> => IdleCores = {}

\* The queue stays in the scheme's order although the keys of PSJF change
\* while jobs are on cores: the head that priqueue_poll takes is the best.
QueueOrdered ==
  \A i, k \in 1..Len(m_job_queue) :
    i < k => comparer(job[m_job_queue[i]], job[m_job_queue[k]]) <= 0

\* Under FCFS and under preemptive priority the jobs on the cores are always
\* the best ones: none that waits should go before one that runs.
NoInversion ==
  m_scheme \in {"FCFS", "PPRI"} =>
    \A c \in Cores, i \in 1..Len(m_job_queue) :
      job_list[c] # NoJob => comparer(job[job_list[c]], job[m_job_queue[i]]) < 0

\* What the averages add up: a job cannot be answered before it arrives nor
\* after it is finished, so response lies between zero and turnaround.
StatsSane == 0 <= stats.response /\ stats.response <= stats.turnaround

\* Under the schemes that do not preempt, a job leaves its core only by
\* finishing: no arrival and no other core's event takes a core from it.
LeavesByFinishing ==
  \A c \in Cores : job_list'[c] # job_list[c] => job_list[c] \notin DOMAIN job'

RunsToCompletion ==
  [][(m_scheme \in {"FCFS", "SJF", "PRI"}) => LeavesByFinishing]_schedVars

\* Under FCFS and RR the queue is a FIFO: no call moves a waiting job back, so
\* nobody overtakes it.
KeepsItsTurn(i) ==
  \/ \E k \in 1..i : k <= Len(m_job_queue') /\ m_job_queue'[k] = m_job_queue[i]
  \/ \E c \in Cores : job_list'[c] = m_job_queue[i]

NoOvertaking ==
  [][(m_scheme \in {"FCFS", "RR"}) => \A i \in 1..Len(m_job_queue) : KeepsItsTurn(i)]_schedVars
=============================================================================
