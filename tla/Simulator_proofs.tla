-------------------------- MODULE Simulator_proofs --------------------------
(***************************************************************************)
(* What holds of every simulation, for every set of input files, number of *)
(* cores and quantum.                                                      *)
(***************************************************************************)
EXTENDS Simulator, Scheduler_proofs, FiniteSetTheorems

\* A row of the array of jobs.
JobRow == [job_id : Nat, arrival_time : Nat, run_time : Nat, priority : Priorities,
           core_id : Cores \union {NoCore}, arrived : BOOLEAN]

\* No two rows are of the same job.
Distinct(js) == \A i, k \in 1..Len(js) : js[i].job_id = js[k].job_id => i = k

Shape ==
  /\ table \in Tables /\ jobs \in Seq(JobRow) /\ time \in Nat /\ jobs_alive \in Int
  /\ phase \in {"finish", "quantum", "arrive"} /\ (phase = "quantum" => m_scheme = "RR")
  /\ status \in {"running", "done"}

\* The array holds jobs of the input file, in any order; a job is untouched
\* until it arrives.
FromTheFile ==
  /\ Distinct(jobs)
  /\ \A i \in Indices :
       /\ jobs[i].job_id \in Submitted
       /\ jobs[i].arrival_time = Row(jobs[i].job_id).arrival
       /\ jobs[i].priority = Row(jobs[i].job_id).priority
       /\ ~ jobs[i].arrived => /\ jobs[i].run_time = Row(jobs[i].job_id).run_time
                               /\ jobs[i].core_id = NoCore

\* Jobs have arrived when their time has come, and one that has no time left to
\* run is on a core, from where part 1 takes it.
InTime ==
  /\ clock <= time
  /\ \A i \in Indices :
       /\ IF jobs[i].arrived
          THEN jobs[i].arrival_time < time \/ (phase = "arrive" /\ jobs[i].arrival_time = time)
          ELSE jobs[i].arrival_time >= time
       /\ jobs[i].run_time = 0 => phase = "finish" /\ jobs[i].core_id # NoCore

\* The library knows the jobs that have arrived, each by its time of arrival.
KnownJobs ==
  /\ DOMAIN submitted \subseteq Submitted
  /\ \A id \in DOMAIN submitted : submitted[id] = Row(id).arrival
  /\ \A i \in Indices : ~ jobs[i].arrived => jobs[i].job_id \notin DOMAIN submitted
  /\ \A id : id \in DOMAIN job <=> \E i \in Indices : jobs[i].arrived /\ jobs[i].job_id = id
  /\ IsFiniteSet(DOMAIN job) /\ jobs_alive = Cardinality(DOMAIN job)

\* The two views of the cores agree, said of rows.
SameCores ==
  \A i \in Indices :
    /\ jobs[i].core_id # NoCore => job_list[jobs[i].core_id] = jobs[i].job_id
    /\ jobs[i].arrived => \A c \in Cores : job_list[c] = jobs[i].job_id => jobs[i].core_id = c

SimInv == PlacementInv /\ Shape /\ FromTheFile /\ InTime /\ KnownJobs /\ SameCores
-----------------------------------------------------------------------------
\* The helpers.

\* Row s is row r, on core c.
Placed(s, r, c) ==
  /\ s \in JobRow /\ s.core_id = c
  /\ s.job_id = r.job_id /\ s.arrival_time = r.arrival_time /\ s.run_time = r.run_time
  /\ s.priority = r.priority /\ s.arrived = r.arrived

\* An array of n rows.
LEMMA ArrayIs ==
  ASSUME NEW S, NEW n \in Nat, NEW f \in [1..n -> S]
  PROVE  f \in Seq(S) /\ Len(f) = n
<1>1. f \in Seq(S)
  BY SeqDef
<1>2. Len(f) \in Nat /\ 1..Len(f) = 1..n
  BY <1>1, LenProperties
<1> QED BY <1>1, <1>2

\* What is known of an array and its length.
LEMMA ArrayType ==
  ASSUME NEW js \in Seq(JobRow)
  PROVE  /\ Len(js) \in Nat /\ DOMAIN js = 1..Len(js)
         /\ \A k \in 1..Len(js) : js[k] \in JobRow
BY LenProperties, ElementOfSeq

\* Whoever has the number gets the core.
LEMMA SetActiveMoves ==
  ASSUME NEW js \in Seq(JobRow), Distinct(js), NEW id, NEW core \in Cores, NEW r,
         r = set_active_job(id, core, js)
  PROVE  /\ r \in Seq(JobRow) /\ Len(r) = Len(js) /\ Distinct(r)
         /\ \A k \in 1..Len(js) :
              Placed(r[k], js[k], IF js[k].job_id = id /\ js[k].arrived THEN core ELSE js[k].core_id)
<1>1. Len(js) \in Nat /\ \A k \in 1..Len(js) : js[k] \in JobRow
  BY ArrayType
<1>2. \A k \in 1..Len(js) : r[k] = IF js[k].job_id = id /\ js[k].arrived
                                  THEN [js[k] EXCEPT !.core_id = core] ELSE js[k]
  <2>1. ASSUME NEW k \in 1..Len(js)
        PROVE  k \in Selectable(js, id) /\ (\A m \in Selectable(js, id) : k <= m)
                 <=> js[k].job_id = id /\ js[k].arrived
    <3>1. \A m \in Selectable(js, id) : m \in 1..Len(js) /\ js[m].job_id = id
      BY DEF Selectable
    <3>2. js[k].job_id = id => \A m \in Selectable(js, id) : k = m
      BY <3>1 DEF Distinct
    <3> QED BY <1>1, <3>1, <3>2 DEF Selectable
  <2> QED BY <2>1 DEF set_active_job
<1>3. \A k \in 1..Len(js) :
        Placed(r[k], js[k], IF js[k].job_id = id /\ js[k].arrived THEN core ELSE js[k].core_id)
  <2>1. ASSUME NEW s \in JobRow  PROVE Placed([s EXCEPT !.core_id = core], s, core)
    BY DEF JobRow, Placed
  <2>2. ASSUME NEW s \in JobRow  PROVE Placed(s, s, s.core_id)
    BY DEF Placed
  <2> QED BY <1>1, <1>2, <2>1, <2>2
<1>4. DOMAIN r = 1..Len(js)
  BY DEF set_active_job
<1>5. \A k \in 1..Len(js) : r[k] \in JobRow /\ r[k].job_id = js[k].job_id
  BY <1>3 DEF Placed
<1>6. r \in [1..Len(js) -> JobRow]
  BY <1>4, <1>5 DEF set_active_job
<1>7. r \in Seq(JobRow) /\ Len(r) = Len(js)
  BY <1>1, <1>6, ArrayIs
<1> QED BY <1>3, <1>5, <1>7 DEF Distinct

\* Every job but the deleted one stays in the array.
LEMMA DeleteRemoves ==
  ASSUME NEW js \in Seq(JobRow), Distinct(js), NEW i \in 1..Len(js), NEW d, d = Delete(js, i)
  PROVE  /\ d \in Seq(JobRow) /\ Len(d) = Len(js) - 1 /\ Distinct(d)
         /\ \A k \in 1..Len(d) : \E m \in 1..Len(js) : m # i /\ d[k] = js[m]
         /\ \A m \in 1..Len(js) : m # i => \E k \in 1..Len(d) : d[k] = js[m]
<1> DEFINE n == Len(js)
<1>1. n \in Nat /\ n - 1 \in Nat /\ n \in 1..n /\ \A k \in 1..n : js[k] \in JobRow
  BY ArrayType
<1>2. \A k \in 1..(n - 1) : d[k] = js[IF k = i THEN n ELSE k]
  BY DEF Delete
<1>3. \A k \in 1..(n - 1) : LET m == IF k = i THEN n ELSE k IN m \in 1..n /\ m # i
  BY <1>1
<1>4. d \in [1..(n - 1) -> JobRow]
  BY <1>1, <1>2, <1>3 DEF Delete
<1>5. d \in Seq(JobRow) /\ Len(d) = n - 1
  BY <1>1, <1>4, ArrayIs
<1>6. \A m \in 1..n : m # i => \E k \in 1..(n - 1) : d[k] = js[m]
  <2> SUFFICES ASSUME NEW m \in 1..n, m # i  PROVE \E k \in 1..(n - 1) : d[k] = js[m]
    OBVIOUS
  <2>1. CASE m = n
    <3>1. i \in 1..(n - 1)
      BY <1>1, <2>1
    <3> QED BY <1>2, <2>1, <3>1
  <2>2. CASE m # n
    <3>1. m \in 1..(n - 1)
      BY <1>1, <2>2
    <3> QED BY <1>2, <3>1
  <2> QED BY <2>1, <2>2
<1>7. Distinct(d)
  <2>1. \A k, l \in 1..(n - 1) : d[k].job_id = d[l].job_id =>
           (IF k = i THEN n ELSE k) = (IF l = i THEN n ELSE l)
    BY <1>2, <1>3 DEF Distinct
  <2>2. \A k, l \in 1..(n - 1) : (IF k = i THEN n ELSE k) = (IF l = i THEN n ELSE l) => k = l
    BY <1>1
  <2> QED BY <1>5, <2>1, <2>2 DEF Distinct
<1> QED BY <1>2, <1>3, <1>5, <1>6, <1>7
-----------------------------------------------------------------------------
\* What the invariant says of a row.

\* Numbers of jobs are numbers, and NoJob is none.
LEMMA Numbers ==
  ASSUME SimInv
  PROVE  /\ \A i \in Indices : /\ jobs[i] \in JobRow /\ jobs[i].job_id \in Nat
                               /\ jobs[i].job_id \in JobNumbers /\ jobs[i].job_id # NoJob
         /\ Len(jobs) \in Nat /\ NoJob \notin JobNumbers /\ NoCore \notin Cores
<1>1. Len(jobs) \in Nat /\ \A i \in Indices : jobs[i] \in JobRow
  BY ArrayType DEF SimInv, Shape, Indices
<1>2. \A id \in Submitted : id \in JobNumbers
  BY TablesAssumption DEF SimInv, Shape, Submitted
<1> QED BY <1>1, <1>2, NoJobAssumption, NumbersAssumption, CoresAssumption
         DEF SimInv, FromTheFile, JobRow, Cores, NoCore

\* A row on a core has arrived, and the library has its job on that core.
LEMMA OnACore ==
  ASSUME SimInv, NEW i \in Indices, jobs[i].core_id # NoCore
  PROVE  /\ jobs[i].arrived /\ jobs[i].core_id \in Cores
         /\ job_list[jobs[i].core_id] = jobs[i].job_id
         /\ jobs[i].job_id \in DOMAIN job
         /\ \A k \in Indices : jobs[k].core_id = jobs[i].core_id => k = i
<1>1. jobs[i] \in JobRow /\ jobs[i].job_id \in JobNumbers
  BY Numbers
<1>2. jobs[i].core_id \in Cores /\ jobs[i].arrived
  BY <1>1 DEF SimInv, FromTheFile, JobRow
<1>3. jobs[i].job_id \in DOMAIN job
  BY <1>1, <1>2 DEF SimInv, KnownJobs
<1>4. job_list[jobs[i].core_id] = jobs[i].job_id
  BY DEF SimInv, SameCores
<1>5. ASSUME NEW k \in Indices, jobs[k].core_id = jobs[i].core_id  PROVE k = i
  <2>1. jobs[k].job_id = jobs[i].job_id
    BY <1>4, <1>5 DEF SimInv, SameCores
  <2> QED BY <2>1 DEF SimInv, FromTheFile, Distinct, Indices
<1> QED BY <1>2, <1>3, <1>4, <1>5

\* The library's job on a core is that of a row on the core.
LEMMA RowOf ==
  ASSUME SimInv, NEW c \in Cores, job_list[c] # NoJob
  PROVE  \E i \in Indices : jobs[i].core_id = c /\ jobs[i].job_id = job_list[c]
<1>1. job_list[c] \in DOMAIN job
  BY DEF SimInv, PlacementInv, OnePlace
<1>2. PICK i \in Indices : jobs[i].arrived /\ jobs[i].job_id = job_list[c]
  BY <1>1 DEF SimInv, KnownJobs
<1> QED BY <1>2 DEF SimInv, SameCores

\* The views of the cores agree.
LEMMA Agree == SimInv => CoresAgree
<1> SUFFICES ASSUME SimInv, NEW c \in Cores
             PROVE  {jobs[i].job_id : i \in {k \in Indices : jobs[k].core_id = c}} =
                      IF job_list[c] = NoJob THEN {} ELSE {job_list[c]}
  BY DEF CoresAgree
<1>1. \A i \in Indices : jobs[i].core_id = c => job_list[c] = jobs[i].job_id /\ job_list[c] # NoJob
  BY Numbers DEF SimInv, SameCores
<1>2. job_list[c] # NoJob => \E i \in Indices : jobs[i].core_id = c /\ jobs[i].job_id = job_list[c]
  BY RowOf
<1> QED BY <1>1, <1>2

\* The simulation starts with a library and an array that agree.
LEMMA SimInitInv == Init => SimInv
<1> SUFFICES ASSUME Init  PROVE SimInv
  OBVIOUS
<1> USE DEF Init
<1>1. PlacementInv
  BY PlacementInit
<1>2. PICK n \in Nat : n = Len(table) /\ table \in Seq([arrival : Nat, run_time : RunTimes, priority : Priorities])
  BY TablesAssumption, LenProperties
<1>3. \A i \in 1..n : table[i] \in [arrival : Nat, run_time : RunTimes, priority : Priorities]
  BY <1>2, ElementOfSeq
<1>4. /\ \A i \in 1..n : /\ jobs[i].job_id = i - 1 /\ jobs[i].arrival_time = table[i].arrival
                         /\ jobs[i].run_time = table[i].run_time /\ jobs[i].priority = table[i].priority
                         /\ jobs[i].core_id = NoCore /\ jobs[i].arrived = FALSE
                         /\ jobs[i] \in JobRow
      /\ jobs \in [1..n -> JobRow]
  <2>1. \A i \in 1..n :
          [job_id |-> i - 1, arrival_time |-> table[i].arrival, run_time |-> table[i].run_time,
           priority |-> table[i].priority, core_id |-> NoCore, arrived |-> FALSE] \in JobRow
    <3> SUFFICES ASSUME NEW i \in 1..n
                 PROVE  [job_id |-> i - 1, arrival_time |-> table[i].arrival,
                         run_time |-> table[i].run_time, priority |-> table[i].priority,
                         core_id |-> NoCore, arrived |-> FALSE] \in JobRow
      OBVIOUS
    <3> HIDE DEF Init
    <3>1. PICK r \in [arrival : Nat, run_time : RunTimes, priority : Priorities] : r = table[i]
      BY <1>3
    <3>2. i - 1 \in Nat
      OBVIOUS
    <3>3. r.run_time \in RunTimes /\ r.arrival \in Nat /\ r.priority \in Priorities
      OBVIOUS
    <3>4. r.run_time \in Nat
      BY <3>3, InputsAssumption
    <3> QED BY <3>1, <3>2, <3>3, <3>4 DEF JobRow
  <2> QED BY <1>2, <2>1
<1>5. jobs \in Seq(JobRow) /\ Len(jobs) = n
  BY <1>4, ArrayIs
<1>6. Shape
  BY <1>5 DEF Shape
<1>7. FromTheFile
  <2>1. \A i \in 1..n : i - 1 \in Submitted /\ (i - 1) + 1 = i
    BY <1>2 DEF Submitted
  <2> QED BY <1>4, <1>5, <2>1 DEF FromTheFile, Distinct, Indices, Row
<1>8. InTime
  <2>1. clock = 0 /\ time = 0
    BY DEF SchedInit
  <2>2. \A i \in 1..n : jobs[i].arrival_time \in Nat /\ jobs[i].run_time # 0
    BY <1>3, <1>4, InputsAssumption
  <2> HIDE DEF Init
  <2>3. \A i \in 1..n : jobs[i].arrival_time >= time
    BY <2>1, <2>2
  <2>4. \A i \in 1..n : ~ jobs[i].arrived
    BY <1>4
  <2> QED BY <1>5, <2>1, <2>2, <2>3, <2>4 DEF InTime, Indices
<1>9. KnownJobs
  <2>1. DOMAIN job = {} /\ DOMAIN submitted = {}
    BY DEF SchedInit, scheduler_start_up
  <2> QED BY <1>4, <1>5, <2>1, FS_EmptySet DEF KnownJobs, Indices
<1>10. SameCores
  <2>1. \A c \in Cores : job_list[c] = NoJob
    BY DEF SchedInit, scheduler_start_up
  <2>2. \A i \in 1..n : ~ jobs[i].arrived /\ jobs[i].core_id = NoCore
    BY <1>4
  <2> QED BY <1>5, <2>2 DEF SameCores, Indices
<1> QED BY <1>1, <1>6, <1>7, <1>8, <1>9, <1>10 DEF SimInv
-----------------------------------------------------------------------------
\* The calls into the library.

\* Rows that only change cores stay those of the file, in time.
LEMMA RowsMoved ==
  ASSUME SimInv, jobs' \in Seq(JobRow), Distinct(jobs)', UNCHANGED <<table, time, phase>>, clock' = time,
         \A k \in Indices' : \E m \in Indices :
           /\ Placed(jobs'[k], jobs[m], jobs'[k].core_id)
           /\ ~ jobs[m].arrived => jobs'[k].core_id = NoCore
           /\ jobs[m].run_time = 0 => jobs'[k].core_id # NoCore
  PROVE  FromTheFile' /\ InTime'
<1>1. \A id : Row(id)' = Row(id)
  BY DEF Row
<1>2. Submitted' = Submitted
  BY DEF Submitted
<1>3. FromTheFile'
  <2>1. \A k \in Indices' : /\ jobs'[k].job_id \in Submitted
                            /\ jobs'[k].arrival_time = Row(jobs'[k].job_id).arrival
                            /\ jobs'[k].priority = Row(jobs'[k].job_id).priority
                            /\ ~ jobs'[k].arrived => /\ jobs'[k].run_time = Row(jobs'[k].job_id).run_time
                                                     /\ jobs'[k].core_id = NoCore
    <3> TAKE k \in Indices'
    <3>1. PICK m \in Indices : /\ Placed(jobs'[k], jobs[m], jobs'[k].core_id)
                               /\ ~ jobs[m].arrived => jobs'[k].core_id = NoCore
      OBVIOUS
    <3> QED BY <3>1 DEF SimInv, FromTheFile, Placed
  <2> QED BY <1>1, <1>2, <2>1 DEF FromTheFile
<1>4. InTime'
  <2>1. clock' <= time'
    BY DEF SimInv, Shape
  <2>2. \A k \in Indices' :
       /\ IF jobs'[k].arrived
          THEN jobs'[k].arrival_time < time \/ (phase = "arrive" /\ jobs'[k].arrival_time = time)
          ELSE jobs'[k].arrival_time >= time
       /\ jobs'[k].run_time = 0 => phase = "finish" /\ jobs'[k].core_id # NoCore
    BY DEF SimInv, InTime, Placed
  <2> QED BY <2>1, <2>2 DEF InTime
<1> QED BY <1>3, <1>4

\* A job that waits in the queue is known, and on no core.
LEMMA Waits ==
  ASSUME SimInv, m_job_queue # <<>>
  PROVE  /\ Head(m_job_queue) \in DOMAIN job
         /\ \A c \in Cores : job_list[c] # Head(m_job_queue)
<1>1. Len(m_job_queue) \in Nat /\ Len(m_job_queue) # 0 /\ Head(m_job_queue) = m_job_queue[1]
  BY LenProperties, EmptySeq DEF SimInv, PlacementInv, TypeOK
<1>2. 1 \in 1..Len(m_job_queue)
  BY <1>1
<1>3. m_job_queue[1] \in DOMAIN job /\ Queued(m_job_queue[1])
  BY <1>2 DEF SimInv, PlacementInv, OnePlace, Queued
<1>4. m_job_queue[1] # NoJob
  BY <1>3, NoJobAssumption DEF SimInv, PlacementInv, TypeOK
<1> QED BY <1>1, <1>3, <1>4 DEF SimInv, PlacementInv, OnePlace

\* Part 1: the library learns that the job on this core has finished.
LEMMA FinishCalls ==
  ASSUME Times = Nat, SimInv, NEW i \in Indices, FinishJob(i)
  PROVE  \E c \in Cores, new \in JobNumbers \union {NoJob} :
           /\ JobFinished(c, time)
           /\ jobs[i].core_id = c /\ jobs[i].run_time = 0 /\ phase = "finish"
           /\ job_list[c] = jobs[i].job_id /\ jobs[i].arrived
           /\ jobs' = set_active_job(new, c, Delete(jobs, i))
           /\ status' = IF new # NoJob /\ Selectable(Delete(jobs, i), new) = {}
                        THEN "invalid_job" ELSE status
           /\ job_list' = [job_list EXCEPT ![c] = new]
           /\ DOMAIN job' = DOMAIN job \ {jobs[i].job_id}
           /\ new = NoJob \/ (new \in DOMAIN job /\ \A d \in Cores : job_list[d] # new)
<1>1. phase = "finish" /\ jobs[i].run_time = 0
  BY DEF FinishJob, FirstIn, Finished
<1>2. PICK c \in Cores : c = jobs[i].core_id /\ job_list[c] = jobs[i].job_id /\ jobs[i].arrived
  BY <1>1, OnACore DEF SimInv, InTime
<1>3. PICK new \in JobNumbers \union {NoJob} :
        /\ scheduler_job_finished(c, time, new)
        /\ jobs' = set_active_job(new, c, Delete(jobs, i))
        /\ status' = IF new # NoJob /\ Selectable(Delete(jobs, i), new) = {}
                     THEN "invalid_job" ELSE status
  BY <1>2 DEF FinishJob
<1>4. time \in Times /\ Call(time) /\ job_list[c] # NoJob
  BY <1>2, Numbers DEF FinishJob, Call, SimInv, Shape, InTime
<1>5. JobFinished(c, time)
  BY <1>3, <1>4 DEF JobFinished
<1>6. DOMAIN job' = DOMAIN job \ {jobs[i].job_id}
  BY <1>2, <1>4, <1>5, JobFinishedPlaces DEF SimInv
<1>7. job_list' = [job_list EXCEPT ![c] = new]
  BY <1>3 DEF scheduler_job_finished
<1>8. new = NoJob \/ (new \in DOMAIN job /\ \A d \in Cores : job_list[d] # new)
  BY <1>3, Waits DEF scheduler_job_finished
<1> QED BY <1>1, <1>2, <1>3, <1>5, <1>6, <1>7, <1>8

LEMMA FinishJobInv ==
  ASSUME Times = Nat, SimInv, NEW i \in Indices, FinishJob(i)
  PROVE  SimInv' /\ SchedNext
<1>1. PICK c \in Cores, new \in JobNumbers \union {NoJob} :
           /\ JobFinished(c, time)
           /\ jobs[i].core_id = c /\ jobs[i].run_time = 0 /\ phase = "finish"
           /\ job_list[c] = jobs[i].job_id /\ jobs[i].arrived
           /\ jobs' = set_active_job(new, c, Delete(jobs, i))
           /\ status' = IF new # NoJob /\ Selectable(Delete(jobs, i), new) = {}
                        THEN "invalid_job" ELSE status
           /\ job_list' = [job_list EXCEPT ![c] = new]
           /\ DOMAIN job' = DOMAIN job \ {jobs[i].job_id}
           /\ new = NoJob \/ (new \in DOMAIN job /\ \A d \in Cores : job_list[d] # new)
  BY FinishCalls
<1>2. /\ UNCHANGED <<table, quantum, time, phase>> /\ jobs_alive' = jobs_alive - 1
      /\ clock' = time /\ submitted' = submitted
  BY DEF FinishJob, Called
<1>3. SchedNext /\ m_scheme' = m_scheme
  <2>1. time \in Times
    BY DEF SimInv, Shape
  <2> QED BY <1>1, <2>1 DEF SchedNext, JobFinished, scheduler_job_finished
<1>4. PlacementInv'
  BY <1>3, PlacementStep DEF SimInv
<1>5. jobs \in Seq(JobRow) /\ Distinct(jobs) /\ i \in 1..Len(jobs)
  BY DEF SimInv, Shape, FromTheFile, Indices
<1>6. PICK rest \in Seq(JobRow) :
        /\ rest = Delete(jobs, i) /\ Distinct(rest)
        /\ \A k \in 1..Len(rest) : \E m \in Indices : m # i /\ rest[k] = jobs[m]
        /\ \A m \in Indices : m # i => \E k \in 1..Len(rest) : rest[k] = jobs[m]
  BY <1>5, DeleteRemoves DEF Indices
<1>7. /\ jobs' \in Seq(JobRow) /\ Distinct(jobs)' /\ Len(jobs') = Len(rest)
      /\ \A k \in 1..Len(rest) :
           Placed(jobs'[k], rest[k], IF rest[k].job_id = new /\ rest[k].arrived THEN c ELSE rest[k].core_id)
  <2>1. PICK r : r = set_active_job(new, c, rest)
    OBVIOUS
  <2>2. /\ r \in Seq(JobRow) /\ Distinct(r) /\ Len(r) = Len(rest)
        /\ \A k \in 1..Len(rest) :
             Placed(r[k], rest[k], IF rest[k].job_id = new /\ rest[k].arrived THEN c ELSE rest[k].core_id)
    BY <1>6, <2>1, SetActiveMoves
  <2>3. jobs' = r
    BY <1>1, <1>6, <2>1
  <2> QED BY <2>2, <2>3 DEF Distinct
<1>8. \A m \in Indices : jobs[m].job_id = new => jobs[m].arrived /\ m # i
  <2> SUFFICES ASSUME NEW m \in Indices, jobs[m].job_id = new  PROVE jobs[m].arrived /\ m # i
    OBVIOUS
  <2>1. new \in DOMAIN job /\ new # jobs[i].job_id
    BY <1>1, Numbers
  <2>2. PICK n \in Indices : jobs[n].arrived /\ jobs[n].job_id = new
    BY <2>1 DEF SimInv, KnownJobs
  <2> QED BY <1>5, <2>1, <2>2 DEF Distinct, Indices
<1>9. /\ \A k \in Indices' : \E m \in Indices :
           m # i /\ Placed(jobs'[k], jobs[m], IF jobs[m].job_id = new THEN c ELSE jobs[m].core_id)
      /\ \A m \in Indices : m # i => \E k \in Indices' :
           Placed(jobs'[k], jobs[m], IF jobs[m].job_id = new THEN c ELSE jobs[m].core_id)
  <2> DEFINE New(m) == IF jobs[m].job_id = new THEN c ELSE jobs[m].core_id
  <2>1. Indices' = 1..Len(rest)
    BY <1>7 DEF Indices
  <2>2. ASSUME NEW k \in 1..Len(rest), NEW m \in Indices, m # i, rest[k] = jobs[m]
        PROVE  Placed(jobs'[k], jobs[m], New(m))
    <3>1. (rest[k].job_id = new /\ rest[k].arrived) <=> jobs[m].job_id = new
      BY <1>8, <2>2
    <3> QED BY <1>7, <2>2, <3>1
  <2>3. \A k \in Indices' : \E m \in Indices : m # i /\ Placed(jobs'[k], jobs[m], New(m))
    BY <1>6, <2>1, <2>2
  <2>4. \A m \in Indices : m # i => \E k \in Indices' : Placed(jobs'[k], jobs[m], New(m))
    BY <1>6, <2>1, <2>2
  <2> QED BY <2>3, <2>4
<1>10. status' = status
  <2>1. CASE new # NoJob
    <3>1. PICK m \in Indices : jobs[m].job_id = new
      BY <1>1, <2>1 DEF SimInv, KnownJobs
    <3>2. PICK k \in 1..Len(rest) : rest[k] = jobs[m]
      BY <1>6, <1>8, <3>1
    <3>3. k \in Selectable(rest, new)
      BY <1>8, <3>1, <3>2 DEF Selectable
    <3> QED BY <1>1, <1>6, <3>3
  <2> QED BY <1>1, <2>1
<1>11. Shape'
  BY <1>2, <1>3, <1>7, <1>10 DEF SimInv, Shape
<1>12. FromTheFile' /\ InTime'
  <2>1. c # NoCore
    BY Numbers
  <2>2. \A k \in Indices' : \E m \in Indices :
           /\ Placed(jobs'[k], jobs[m], jobs'[k].core_id)
           /\ ~ jobs[m].arrived => jobs'[k].core_id = NoCore
           /\ jobs[m].run_time = 0 => jobs'[k].core_id # NoCore
    BY <1>8, <1>9, <2>1 DEF Placed, SimInv, FromTheFile, InTime
  <2> QED BY <1>2, <1>7, <2>2, RowsMoved
<1>13. KnownJobs'
  <2>1. \A id : Row(id)' = Row(id)
    BY <1>2 DEF Row
  <2>2. Submitted' = Submitted
    BY <1>2 DEF Submitted
  <2>3. \A id : id \in DOMAIN job' <=> \E k \in Indices' : jobs'[k].arrived /\ jobs'[k].job_id = id
    <3>1. \A m \in Indices : jobs[m].job_id = jobs[i].job_id => m = i
      BY <1>5 DEF Distinct, Indices
    <3>2. \A id : id \in DOMAIN job' <=>
                    \E m \in Indices : m # i /\ jobs[m].arrived /\ jobs[m].job_id = id
      BY <1>1, <3>1 DEF SimInv, KnownJobs
    <3> QED BY <1>9, <3>2 DEF Placed
  <2>4. IsFiniteSet(DOMAIN job') /\ jobs_alive' = Cardinality(DOMAIN job')
    <3>1. jobs[i].job_id \in DOMAIN job
      BY <1>1 DEF SimInv, KnownJobs
    <3>2. PICK D : D = DOMAIN job
      OBVIOUS
    <3>3. IsFiniteSet(D) /\ jobs_alive = Cardinality(D)
      BY <3>2 DEF SimInv, KnownJobs
    <3>4. IsFiniteSet(D \ {jobs[i].job_id}) /\ Cardinality(D \ {jobs[i].job_id}) = Cardinality(D) - 1
      BY <3>1, <3>2, <3>3, FS_RemoveElement
    <3> QED BY <1>1, <1>2, <3>2, <3>3, <3>4
  <2>5. \A k \in Indices' : ~ jobs'[k].arrived => jobs'[k].job_id \notin DOMAIN submitted
    BY <1>9 DEF Placed, SimInv, KnownJobs
  <2> QED BY <1>2, <2>1, <2>2, <2>3, <2>4, <2>5 DEF SimInv, KnownJobs
<1>14. SameCores'
  <2>1. \A d \in Cores : job_list'[d] = IF d = c THEN new ELSE job_list[d]
    BY <1>1 DEF SimInv, PlacementInv, TypeOK
  <2>2. ASSUME NEW k \in Indices', jobs'[k].core_id # NoCore
        PROVE  job_list'[jobs'[k].core_id] = jobs'[k].job_id
    <3>1. PICK m \in Indices :
            m # i /\ Placed(jobs'[k], jobs[m], IF jobs[m].job_id = new THEN c ELSE jobs[m].core_id)
      BY <1>9
    <3>2. CASE jobs[m].job_id = new
      BY <2>1, <3>1, <3>2 DEF Placed
    <3>3. CASE jobs[m].job_id # new
      <4>1. jobs[m].core_id # NoCore /\ jobs'[k].core_id = jobs[m].core_id /\ jobs'[k].job_id = jobs[m].job_id
        BY <2>2, <3>1, <3>3 DEF Placed
      <4>2. jobs[m].core_id \in Cores /\ jobs[m].core_id # c /\ job_list[jobs[m].core_id] = jobs[m].job_id
        BY <1>1, <3>1, <4>1, OnACore
      <4> QED BY <2>1, <4>1, <4>2
    <3> QED BY <3>2, <3>3
  <2>3. ASSUME NEW k \in Indices', jobs'[k].arrived, NEW d \in Cores, job_list'[d] = jobs'[k].job_id
        PROVE  jobs'[k].core_id = d
    <3>1. PICK m \in Indices :
            m # i /\ Placed(jobs'[k], jobs[m], IF jobs[m].job_id = new THEN c ELSE jobs[m].core_id)
      BY <1>9
    <3>2. CASE d = c
      BY <2>1, <2>3, <3>1, <3>2 DEF Placed
    <3>3. CASE d # c
      <4>1. job_list[d] = jobs[m].job_id /\ jobs[m].arrived /\ jobs[m].job_id # NoJob
        BY <2>1, <2>3, <3>1, <3>3, Numbers DEF Placed
      <4>2. jobs[m].job_id # new
        BY <1>1, <4>1
      <4>3. jobs[m].core_id = d
        BY <4>1 DEF SimInv, SameCores
      <4> QED BY <3>1, <4>2, <4>3 DEF Placed
    <3> QED BY <3>2, <3>3
  <2> QED BY <2>2, <2>3 DEF SameCores
<1> QED BY <1>3, <1>4, <1>11, <1>12, <1>13, <1>14 DEF SimInv
\* Part 2: the job on an expired core goes to the back of the queue and the next
\* one, which may be the same, gets the core.
LEMMA ExpireCalls ==
  ASSUME Times = Nat, SimInv, NEW c \in Cores, ExpireQuantum(c)
  PROVE  \E j \in Indices, new \in JobNumbers :
           /\ QuantumExpired(c, time) /\ jobs[j].core_id = c /\ jobs[j].arrived
           /\ jobs' = set_active_job(new, c, [jobs EXCEPT ![j].core_id = NoCore])
           /\ status' = IF Selectable([jobs EXCEPT ![j].core_id = NoCore], new) = {}
                        THEN "invalid_job" ELSE status
           /\ job_list' = [job_list EXCEPT ![c] = new] /\ DOMAIN job' = DOMAIN job
<1>1. PICK j \in Indices, new \in JobNumbers :
        /\ jobs[j].core_id = c
        /\ scheduler_quantum_expired(c, time, new)
        /\ jobs' = set_active_job(new, c, [jobs EXCEPT ![j].core_id = NoCore])
        /\ status' = IF Selectable([jobs EXCEPT ![j].core_id = NoCore], new) = {}
                     THEN "invalid_job" ELSE status
  BY DEF ExpireQuantum, FirstIn
<1>2. c # NoCore
  BY Numbers
<1>3. job_list[c] # NoJob /\ jobs[j].arrived
  BY <1>1, <1>2, OnACore, Numbers
<1>4. m_scheme = "RR" /\ time \in Times /\ Call(time)
  BY DEF ExpireQuantum, Call, SimInv, Shape, InTime
<1>5. QuantumExpired(c, time)
  BY <1>1, <1>3, <1>4 DEF QuantumExpired
<1>6. DOMAIN job' = DOMAIN job
  BY <1>4, <1>5, QuantumExpiredPlaces DEF SimInv
<1>7. job_list' = [job_list EXCEPT ![c] = new]
  BY <1>1 DEF scheduler_quantum_expired
<1> QED BY <1>1, <1>3, <1>5, <1>6, <1>7

LEMMA ExpireQuantumInv ==
  ASSUME Times = Nat, SimInv, NEW c \in Cores, ExpireQuantum(c)
  PROVE  SimInv' /\ SchedNext
<1>1. PICK j \in Indices, new \in JobNumbers :
           /\ QuantumExpired(c, time) /\ jobs[j].core_id = c /\ jobs[j].arrived
           /\ jobs' = set_active_job(new, c, [jobs EXCEPT ![j].core_id = NoCore])
           /\ status' = IF Selectable([jobs EXCEPT ![j].core_id = NoCore], new) = {}
                        THEN "invalid_job" ELSE status
           /\ job_list' = [job_list EXCEPT ![c] = new] /\ DOMAIN job' = DOMAIN job
  BY ExpireCalls
<1>2. /\ UNCHANGED <<table, jobs_alive, quantum, time, phase>> /\ phase = "quantum"
      /\ clock' = time /\ submitted' = submitted
  BY DEF ExpireQuantum, Called
<1>3. SchedNext /\ m_scheme' = m_scheme
  <2>1. time \in Times
    BY DEF SimInv, Shape
  <2> QED BY <1>1, <2>1 DEF SchedNext, QuantumExpired, scheduler_quantum_expired
<1>4. PlacementInv'
  BY <1>3, PlacementStep DEF SimInv
<1>5. \A d \in Cores : job_list'[d] = IF d = c THEN new ELSE job_list[d]
  BY <1>1 DEF SimInv, PlacementInv, TypeOK
<1>6. new \in DOMAIN job /\ \A d \in Cores : d # c => job_list[d] # new
  <2>1. job_list'[c] = new /\ new # NoJob
    BY <1>5, NoJobAssumption
  <2> QED BY <1>1, <1>4, <1>5, <2>1 DEF PlacementInv, OnePlace
<1>7. /\ jobs \in Seq(JobRow) /\ Distinct(jobs) /\ Len(jobs) \in Nat
      /\ j \in 1..Len(jobs) /\ jobs[j] \in JobRow /\ c # NoCore
  BY Numbers DEF SimInv, Shape, FromTheFile, Indices
<1>8. PICK taken \in Seq(JobRow) :
        /\ taken = [jobs EXCEPT ![j].core_id = NoCore] /\ Distinct(taken) /\ Len(taken) = Len(jobs)
        /\ \A k \in Indices : Placed(taken[k], jobs[k], IF k = j THEN NoCore ELSE jobs[k].core_id)
  <2>1. PICK s : s = [jobs[j] EXCEPT !.core_id = NoCore]
    OBVIOUS
  <2>2. Placed(s, jobs[j], NoCore)
    BY <1>7, <2>1 DEF Placed, JobRow
  <2>3. PICK t : t = [jobs EXCEPT ![j] = s]
    OBVIOUS
  <2>4. t \in Seq(JobRow) /\ Len(t) = Len(jobs)
        /\ \A k \in Indices : t[k] = IF k = j THEN s ELSE jobs[k]
    <3>1. t \in [1..Len(jobs) -> JobRow]
      BY <1>7, <2>2, <2>3, LenProperties DEF Placed
    <3>2. \A k \in Indices : t[k] = IF k = j THEN s ELSE jobs[k]
      BY <1>7, <2>3, LenProperties DEF Indices
    <3> QED BY <1>7, <3>1, <3>2, ArrayIs
  <2>5. \A k \in Indices : Placed(t[k], jobs[k], IF k = j THEN NoCore ELSE jobs[k].core_id)
    <3>1. \A k \in Indices : Placed(jobs[k], jobs[k], jobs[k].core_id)
      BY Numbers DEF Placed
    <3> QED BY <2>2, <2>4, <3>1
  <2>6. Distinct(t)
    BY <1>7, <2>4, <2>5 DEF Distinct, Placed, Indices
  <2>7. t = [jobs EXCEPT ![j].core_id = NoCore]
    BY <2>1, <2>3
  <2> QED BY <2>4, <2>5, <2>6, <2>7
<1>9. \A m \in Indices : jobs[m].job_id = new => jobs[m].arrived
  <2>1. PICK n \in Indices : jobs[n].arrived /\ jobs[n].job_id = new
    BY <1>6 DEF SimInv, KnownJobs
  <2> QED BY <1>7, <2>1 DEF Distinct, Indices
<1> DEFINE New(k) == IF jobs[k].job_id = new THEN c ELSE IF k = j THEN NoCore ELSE jobs[k].core_id
<1>10. /\ jobs' \in Seq(JobRow) /\ Distinct(jobs)' /\ Indices' = Indices
       /\ \A k \in Indices : Placed(jobs'[k], jobs[k], New(k))
  <2>1. PICK r : r = set_active_job(new, c, taken)
    OBVIOUS
  <2>2. /\ r \in Seq(JobRow) /\ Distinct(r) /\ Len(r) = Len(taken)
        /\ \A k \in 1..Len(taken) :
             Placed(r[k], taken[k], IF taken[k].job_id = new /\ taken[k].arrived THEN c ELSE taken[k].core_id)
    <3>1. taken \in Seq(JobRow) /\ Distinct(taken)
      BY <1>8
    <3> HIDE DEF New
    <3> QED BY <2>1, <3>1, SetActiveMoves
  <2>3. jobs' = r
    BY <1>1, <1>8, <2>1
  <2>4. \A k \in Indices : Placed(r[k], jobs[k], New(k))
    <3> SUFFICES ASSUME NEW k \in Indices  PROVE Placed(r[k], jobs[k], New(k))
      OBVIOUS
    <3>1. Placed(taken[k], jobs[k], IF k = j THEN NoCore ELSE jobs[k].core_id)
      BY <1>8
    <3>2. Placed(r[k], taken[k], IF taken[k].job_id = new /\ taken[k].arrived THEN c ELSE taken[k].core_id)
      <4>1. k \in 1..Len(taken)
        BY <1>8 DEF Indices
      <4> HIDE DEF New
      <4> QED BY <2>2, <4>1
    <3>3. (taken[k].job_id = new /\ taken[k].arrived) <=> jobs[k].job_id = new
      BY <1>9, <3>1 DEF Placed
    <3> QED BY <3>1, <3>2, <3>3 DEF Placed
  <2> QED BY <1>8, <2>2, <2>3, <2>4 DEF Distinct, Indices
<1>11. status' = status
  <2>1. PICK m \in Indices : jobs[m].job_id = new /\ jobs[m].arrived
    BY <1>6 DEF SimInv, KnownJobs
  <2>2. m \in Selectable(taken, new)
    BY <1>8, <2>1 DEF Selectable, Placed, Indices
  <2> QED BY <1>1, <1>8, <2>2
<1>12. Shape'
  BY <1>2, <1>3, <1>10, <1>11 DEF SimInv, Shape
<1>13. FromTheFile' /\ InTime'
  <2>1. \A k \in Indices : jobs[k].run_time # 0
    BY <1>2 DEF SimInv, InTime
  <2>2. \A k \in Indices : ~ jobs[k].arrived => New(k) = NoCore
    BY <1>1, <1>9 DEF SimInv, FromTheFile
  <2>3. \A k \in Indices : jobs'[k].core_id = New(k)
    BY <1>10 DEF Placed
  <2>4. \A k \in Indices' : \E m \in Indices :
           /\ Placed(jobs'[k], jobs[m], jobs'[k].core_id)
           /\ ~ jobs[m].arrived => jobs'[k].core_id = NoCore
           /\ jobs[m].run_time = 0 => jobs'[k].core_id # NoCore
    BY <1>10, <2>1, <2>2, <2>3
  <2> QED BY <1>2, <1>10, <2>4, RowsMoved
<1>14. KnownJobs'
  <2>1. (\A id : Row(id)' = Row(id)) /\ Submitted' = Submitted
    BY <1>2 DEF Row, Submitted
  <2>2. \A k \in Indices : jobs'[k].arrived = jobs[k].arrived /\ jobs'[k].job_id = jobs[k].job_id
    BY <1>10 DEF Placed
  <2>3. KnownJobs
    BY DEF SimInv
  <2>4. \A id : id \in DOMAIN job' <=> \E i \in Indices' : jobs'[i].arrived /\ jobs'[i].job_id = id
    <3>1. Indices' = Indices /\ DOMAIN job' = DOMAIN job
      BY <1>1, <1>10
    <3>2. \A id : id \in DOMAIN job <=> \E i \in Indices : jobs[i].arrived /\ jobs[i].job_id = id
      BY <2>3 DEF KnownJobs
    <3> QED BY <2>2, <3>1, <3>2
  <2>5. \A i \in Indices' : ~ jobs'[i].arrived => jobs'[i].job_id \notin DOMAIN submitted'
    <3> HIDE DEF New
    <3> QED BY <1>2, <1>10, <2>2, <2>3 DEF KnownJobs
  <2>6. IsFiniteSet(DOMAIN job') /\ jobs_alive' = Cardinality(DOMAIN job')
    BY <1>1, <1>2, <2>3 DEF KnownJobs
  <2>7. DOMAIN submitted' \subseteq Submitted' /\ \A id \in DOMAIN submitted' : submitted'[id] = Row(id)'.arrival
    BY <1>2, <2>1, <2>3 DEF KnownJobs
  <2> QED BY <2>4, <2>5, <2>6, <2>7 DEF KnownJobs
<1>15. SameCores'
  <2>1. ASSUME NEW k \in Indices, New(k) # NoCore  PROVE job_list'[New(k)] = jobs[k].job_id
    <3>1. CASE jobs[k].job_id = new
      BY <1>5, <3>1
    <3>2. CASE jobs[k].job_id # new
      <4>1. k # j /\ jobs[k].core_id # NoCore /\ New(k) = jobs[k].core_id
        BY <2>1, <3>2
      <4>2. jobs[k].core_id # c /\ jobs[k].core_id \in Cores
        BY <1>1, <1>7, <4>1, OnACore
      <4> QED BY <1>5, <4>1, <4>2 DEF SimInv, SameCores
    <3> QED BY <3>1, <3>2
  <2>2. ASSUME NEW k \in Indices, jobs[k].arrived, NEW d \in Cores, job_list'[d] = jobs[k].job_id
        PROVE  New(k) = d
    <3>1. CASE d = c
      BY <1>5, <2>2, <3>1
    <3>2. CASE d # c
      <4>1. job_list[d] = jobs[k].job_id /\ jobs[k].job_id # new
        BY <1>5, <1>6, <2>2, <3>2
      <4>2. jobs[k].core_id = d
        BY <2>2, <4>1 DEF SimInv, SameCores
      <4> QED BY <1>1, <3>2, <4>1, <4>2
    <3> QED BY <3>1, <3>2
  <2>3. \A k \in Indices : /\ jobs'[k].core_id = New(k) /\ jobs'[k].arrived = jobs[k].arrived
                           /\ jobs'[k].job_id = jobs[k].job_id
    BY <1>10 DEF Placed
  <2> HIDE DEF New
  <2> QED BY <1>10, <2>1, <2>2, <2>3 DEF SameCores
<1> QED BY <1>3, <1>4, <1>12, <1>13, <1>14, <1>15 DEF SimInv

\* Part 3: the library is told of the job, which it has not heard of, and gives
\* it a core or none.
LEMMA ArriveCalls ==
  ASSUME Times = Nat, SimInv, NEW i \in Indices, Arrive(i)
  PROVE  LET id == jobs[i].job_id
         IN /\ NewJob(id, time) /\ ~ jobs[i].arrived /\ jobs[i].arrival_time = time
            /\ id \notin DOMAIN job /\ id \notin DOMAIN submitted
            /\ DOMAIN job' = DOMAIN job \union {id}
            /\ \/ /\ job_list' = job_list
                  /\ jobs' = [jobs EXCEPT ![i].arrived = TRUE]
               \/ \E core \in Cores : /\ job_list' = [job_list EXCEPT ![core] = id]
                                      /\ jobs' = TakeCore(i, core)
<1> DEFINE id == jobs[i].job_id
<1>1. PICK core \in Cores \union {NoCore} :
        /\ scheduler_new_job(id, time, jobs[i].run_time, jobs[i].priority, core)
        /\ jobs' = IF core = NoCore THEN [jobs EXCEPT ![i].arrived = TRUE] ELSE TakeCore(i, core)
  BY DEF Arrive
<1>2. ~ jobs[i].arrived /\ jobs[i].arrival_time = time
  BY DEF Arrive, FirstIn, Arriving
<1>3. /\ id \in Submitted /\ id \in Nat /\ id \in JobNumbers /\ time = Row(id).arrival
      /\ jobs[i].run_time = Row(id).run_time
  BY <1>2, Numbers DEF SimInv, FromTheFile
<1>4. PICK n \in Nat :
        /\ n = Len(table) /\ table \in Seq([arrival : Nat, run_time : RunTimes, priority : Priorities])
        /\ \A k, m \in 1..n : table[k].arrival = table[m].arrival => k = m
  BY TablesAssumption, LenProperties DEF SimInv, Shape
<1>5. jobs[i].run_time \in RunTimes /\ jobs[i].priority \in Priorities
  <2>1. id + 1 \in 1..n
    BY <1>3, <1>4 DEF Submitted
  <2>2. table[id + 1] \in [arrival : Nat, run_time : RunTimes, priority : Priorities]
    BY <1>4, <2>1, ElementOfSeq
  <2> QED BY <1>3, <2>2, Numbers DEF Row, JobRow
<1>6. id \notin DOMAIN submitted
  BY <1>2 DEF SimInv, KnownJobs
<1>7. \A k \in DOMAIN submitted : submitted[k] # time
  <2> SUFFICES ASSUME NEW k \in DOMAIN submitted, submitted[k] = time  PROVE FALSE
    OBVIOUS
  <2>1. k \in Submitted /\ Row(k).arrival = time
    BY DEF SimInv, KnownJobs
  <2>2. k \in Nat /\ k + 1 \in 1..n /\ id + 1 \in 1..n
    BY <1>3, <1>4, <2>1 DEF Submitted
  <2>3. k + 1 = id + 1
    BY <1>3, <1>4, <2>1, <2>2 DEF Row
  <2> QED BY <1>3, <1>6, <2>2, <2>3
<1>8. NewJob(id, time)
  <2>1. Announce(id, time)
    BY <1>6, <1>7 DEF Arrive, Announce, SimInv, InTime, Shape
  <2> QED BY <1>1, <1>5, <2>1 DEF NewJob
<1>9. id \notin DOMAIN job /\ DOMAIN job' = DOMAIN job \union {id}
  BY <1>3, <1>8, NewJobPlaces DEF SimInv, Shape
<1>10. job_list' = IF core = NoCore THEN job_list ELSE [job_list EXCEPT ![core] = id]
  BY <1>1, Numbers DEF scheduler_new_job, preempt_new_job, Victims, IdleCores
<1> QED BY <1>1, <1>2, <1>6, <1>8, <1>9, <1>10

\* Row s is row r, arrived, on core c.
Entered(s, r, c) ==
  /\ s \in JobRow /\ s.core_id = c /\ s.arrived
  /\ s.job_id = r.job_id /\ s.arrival_time = r.arrival_time /\ s.run_time = r.run_time
  /\ s.priority = r.priority

\* Only the row that arrives and the one it displaces change.
LEMMA ArriveRows ==
  ASSUME SimInv, NEW i \in Indices, NEW core \in Cores \union {NoCore},
         jobs' = IF core = NoCore THEN [jobs EXCEPT ![i].arrived = TRUE] ELSE TakeCore(i, core),
         jobs[i].core_id = NoCore
  PROVE  /\ jobs' \in Seq(JobRow) /\ Indices' = Indices
         /\ Entered(jobs'[i], jobs[i], core)
         /\ \A k \in Indices : k # i =>
              Placed(jobs'[k], jobs[k],
                     IF jobs[k].core_id = core THEN NoCore ELSE jobs[k].core_id)
<1>1. /\ jobs \in Seq(JobRow) /\ Len(jobs) \in Nat /\ DOMAIN jobs = Indices /\ Indices = 1..Len(jobs)
      /\ \A k \in Indices : jobs[k] \in JobRow
  BY ArrayType DEF SimInv, Shape, Indices
<1>2. PICK s : s = IF core = NoCore THEN [jobs[i] EXCEPT !.arrived = TRUE]
                   ELSE [jobs[i] EXCEPT !.arrived = TRUE, !.core_id = core]
  OBVIOUS
<1>3. Entered(s, jobs[i], core)
  <2>1. ASSUME NEW r \in JobRow, r.core_id = NoCore
        PROVE  Entered([r EXCEPT !.arrived = TRUE], r, NoCore)
    BY <2>1 DEF JobRow, Entered
  <2>2. ASSUME NEW r \in JobRow
        PROVE  Entered([r EXCEPT !.arrived = TRUE, !.core_id = core], r, core)
    BY DEF JobRow, Entered
  <2> QED BY <1>1, <1>2, <2>1, <2>2
<1>4. \A k \in Indices : k # i => jobs'[k] = IF core # NoCore /\ jobs[k].core_id = core
                                             THEN [jobs[k] EXCEPT !.core_id = NoCore] ELSE jobs[k]
  <2>1. CASE core = NoCore
    BY <1>1, <2>1
  <2>2. CASE core # NoCore
    BY <2>2 DEF TakeCore
  <2> QED BY <2>1, <2>2
<1>5. jobs'[i] = s /\ DOMAIN jobs' = Indices
  <2>1. CASE core = NoCore
    BY <1>1, <1>2, <2>1
  <2>2. CASE core # NoCore
    BY <1>2, <2>2 DEF TakeCore
  <2> QED BY <2>1, <2>2
<1>6. \A k \in Indices : k # i =>
        Placed(jobs'[k], jobs[k], IF jobs[k].core_id = core THEN NoCore ELSE jobs[k].core_id)
  <2>1. ASSUME NEW r \in JobRow  PROVE Placed([r EXCEPT !.core_id = NoCore], r, NoCore)
    BY DEF JobRow, Placed
  <2>2. ASSUME NEW r \in JobRow  PROVE Placed(r, r, r.core_id)
    BY DEF Placed
  <2>3. ASSUME NEW k \in Indices, k # i
        PROVE  Placed(jobs'[k], jobs[k], IF jobs[k].core_id = core THEN NoCore ELSE jobs[k].core_id)
    <3>1. jobs[k] \in JobRow /\ (jobs[k].core_id = core /\ core = NoCore => jobs[k].core_id = NoCore)
      BY <1>1
    <3>2. CASE core # NoCore /\ jobs[k].core_id = core
      BY <1>4, <2>1, <2>3, <3>1, <3>2
    <3>3. CASE ~ (core # NoCore /\ jobs[k].core_id = core)
      <4>1. jobs'[k] = jobs[k]
        BY <1>4, <2>3, <3>3
      <4> QED BY <2>2, <3>1, <3>3, <4>1
    <3> QED BY <3>2, <3>3
  <2> QED BY <2>3
<1>7. \A k \in Indices : jobs'[k] \in JobRow
  <2>1. jobs'[i] \in JobRow
    BY <1>3, <1>5 DEF Entered
  <2>2. \A k \in Indices : k # i => jobs'[k] \in JobRow
    BY <1>6 DEF Placed
  <2> QED BY <2>1, <2>2
<1>8. jobs' \in [1..Len(jobs) -> JobRow]
  <2>1. jobs' = [k \in Indices |-> jobs'[k]]
    <3>1. CASE core = NoCore
      BY <1>1, <3>1
    <3>2. CASE core # NoCore
      BY <3>2 DEF TakeCore
    <3> QED BY <3>1, <3>2
  <2> QED BY <1>1, <1>7, <2>1
<1>9. PICK f : f = jobs'
  OBVIOUS
<1>10. f \in Seq(JobRow) /\ Len(f) = Len(jobs)
  BY <1>1, <1>8, <1>9, ArrayIs
<1> QED BY <1>1, <1>3, <1>5, <1>6, <1>9, <1>10 DEF Indices

LEMMA ArriveInv ==
  ASSUME Times = Nat, SimInv, NEW i \in Indices, Arrive(i)
  PROVE  SimInv' /\ SchedNext
<1>1. PICK id : id = jobs[i].job_id
  OBVIOUS
<1>2. /\ NewJob(id, time) /\ ~ jobs[i].arrived /\ jobs[i].arrival_time = time
      /\ id \notin DOMAIN job /\ id \notin DOMAIN submitted
      /\ DOMAIN job' = DOMAIN job \union {id}
      /\ \/ /\ job_list' = job_list
            /\ jobs' = [jobs EXCEPT ![i].arrived = TRUE]
         \/ \E core \in Cores : /\ job_list' = [job_list EXCEPT ![core] = id]
                                /\ jobs' = TakeCore(i, core)
  BY <1>1, ArriveCalls
<1>3. PICK core \in Cores \union {NoCore} :
        /\ job_list' = IF core = NoCore THEN job_list ELSE [job_list EXCEPT ![core] = id]
        /\ jobs' = IF core = NoCore THEN [jobs EXCEPT ![i].arrived = TRUE] ELSE TakeCore(i, core)
  BY <1>2, Numbers
<1>4. /\ UNCHANGED <<table, quantum, time, phase, status>> /\ jobs_alive' = jobs_alive + 1
      /\ clock' = time /\ phase = "arrive"
      /\ submitted' = [k \in DOMAIN submitted \union {id} |-> IF k = id THEN time ELSE submitted[k]]
  BY <1>1 DEF Arrive, Announced
<1>5. id \in JobNumbers /\ id \in Submitted /\ time = Row(id).arrival /\ jobs[i].core_id = NoCore /\ id # NoJob
  BY <1>1, <1>2, Numbers DEF SimInv, FromTheFile
<1>6. SchedNext /\ m_scheme' = m_scheme
  <2>1. time \in Times
    BY DEF SimInv, Shape
  <2>2. SchedNext
    BY <1>2, <1>5, <2>1 DEF SchedNext
  <2>3. m_scheme' = m_scheme
    BY <1>2 DEF NewJob, scheduler_new_job
  <2> QED BY <2>2, <2>3
<1>7. PlacementInv'
  BY <1>6, PlacementStep DEF SimInv
<1>8. /\ jobs' \in Seq(JobRow) /\ Indices' = Indices
      /\ Entered(jobs'[i], jobs[i], core)
      /\ \A k \in Indices : k # i =>
           Placed(jobs'[k], jobs[k], IF jobs[k].core_id = core THEN NoCore ELSE jobs[k].core_id)
  BY <1>3, <1>5, ArriveRows
<1>9. \A k \in Indices : jobs'[k].job_id = jobs[k].job_id
  <2>1. jobs'[i].job_id = jobs[i].job_id
    BY <1>8 DEF Entered
  <2>2. \A k \in Indices : k # i => jobs'[k].job_id = jobs[k].job_id
    BY <1>8 DEF Placed
  <2> QED BY <2>1, <2>2
<1>10. \A k, m \in Indices : jobs[k].job_id = jobs[m].job_id => k = m
  BY DEF SimInv, FromTheFile, Distinct, Indices
<1>11. (\A n : Row(n)' = Row(n)) /\ Submitted' = Submitted
  BY <1>4 DEF Row, Submitted
<1>12. Shape'
  BY <1>4, <1>6, <1>8 DEF SimInv, Shape
<1>13. FromTheFile'
  <2>1. Distinct(jobs)'
    BY <1>8, <1>9, <1>10 DEF Distinct, Indices
  <2>2. ASSUME NEW k \in Indices
        PROVE  /\ jobs'[k].job_id \in Submitted
               /\ jobs'[k].arrival_time = Row(jobs'[k].job_id).arrival
               /\ jobs'[k].priority = Row(jobs'[k].job_id).priority
               /\ ~ jobs'[k].arrived => /\ jobs'[k].run_time = Row(jobs'[k].job_id).run_time
                                        /\ jobs'[k].core_id = NoCore
    <3>1. CASE k = i
      BY <1>8, <3>1 DEF Entered, SimInv, FromTheFile
    <3>2. CASE k # i
      <4>1. Placed(jobs'[k], jobs[k], IF jobs[k].core_id = core THEN NoCore ELSE jobs[k].core_id)
        BY <1>8, <3>2
      <4> QED BY <4>1 DEF Placed, SimInv, FromTheFile
    <3> QED BY <3>1, <3>2
  <2> QED BY <1>8, <1>11, <2>1, <2>2 DEF FromTheFile
<1>14. InTime'
  <2>1. clock' <= time'
    BY <1>4 DEF SimInv, Shape
  <2>2. ASSUME NEW k \in Indices
        PROVE  /\ IF jobs'[k].arrived
                  THEN jobs'[k].arrival_time < time \/ jobs'[k].arrival_time = time
                  ELSE jobs'[k].arrival_time >= time
               /\ jobs'[k].run_time # 0
    <3>1. jobs[k].run_time # 0 /\ jobs[k].arrived => jobs[k].arrival_time < time \/ jobs[k].arrival_time = time
      BY <1>4 DEF SimInv, InTime
    <3>2. jobs[k].run_time # 0 /\ (~ jobs[k].arrived => jobs[k].arrival_time >= time)
      BY <1>4 DEF SimInv, InTime
    <3>3. CASE k = i
      BY <1>2, <1>8, <3>2, <3>3 DEF Entered
    <3>4. CASE k # i
      <4>1. Placed(jobs'[k], jobs[k], IF jobs[k].core_id = core THEN NoCore ELSE jobs[k].core_id)
        BY <1>8, <3>4
      <4> QED BY <3>1, <3>2, <4>1 DEF Placed
    <3> QED BY <3>3, <3>4
  <2> QED BY <1>4, <1>8, <2>1, <2>2 DEF InTime
<1>15. KnownJobs'
  <2> KnownJobs
    BY DEF SimInv
  <2>1. DOMAIN submitted' = DOMAIN submitted \union {id}
    BY <1>4
  <2>2. DOMAIN submitted' \subseteq Submitted' /\ \A n \in DOMAIN submitted' : submitted'[n] = Row(n)'.arrival
    BY <1>4, <1>5, <1>11, <2>1 DEF KnownJobs
  <2>3. \A k \in Indices' : ~ jobs'[k].arrived => jobs'[k].job_id \notin DOMAIN submitted'
    <3> SUFFICES ASSUME NEW k \in Indices, ~ jobs'[k].arrived  PROVE jobs'[k].job_id \notin DOMAIN submitted'
      BY <1>8
    <3>1. k # i
      BY <1>8 DEF Entered
    <3>2. ~ jobs[k].arrived
      BY <1>8, <3>1 DEF Placed
    <3>3. jobs[k].job_id \notin DOMAIN submitted /\ jobs[k].job_id # id
      BY <1>1, <1>10, <3>1, <3>2 DEF KnownJobs
    <3> QED BY <1>9, <2>1, <3>3
  <2>4. \A n : n \in DOMAIN job' <=> \E k \in Indices' : jobs'[k].arrived /\ jobs'[k].job_id = n
    <3>1. \A k \in Indices : jobs'[k].arrived <=> jobs[k].arrived \/ k = i
      <4>1. jobs'[i].arrived
        BY <1>8 DEF Entered
      <4>2. \A k \in Indices : k # i => jobs'[k].arrived = jobs[k].arrived
        BY <1>8 DEF Placed
      <4> QED BY <4>1, <4>2
    <3>2. \A n : n \in DOMAIN job <=> \E k \in Indices : jobs[k].arrived /\ jobs[k].job_id = n
      BY DEF KnownJobs
    <3> QED BY <1>1, <1>2, <1>8, <1>9, <3>1, <3>2
  <2>5. IsFiniteSet(DOMAIN job') /\ jobs_alive' = Cardinality(DOMAIN job')
    <3>1. PICK D : D = DOMAIN job
      OBVIOUS
    <3>2. IsFiniteSet(D) /\ jobs_alive = Cardinality(D) /\ id \notin D
      BY <1>2, <3>1 DEF KnownJobs
    <3>3. IsFiniteSet(D \union {id}) /\ Cardinality(D \union {id}) = Cardinality(D) + 1
      BY <3>2, FS_AddElement
    <3> QED BY <1>2, <1>4, <3>1, <3>2, <3>3
  <2> QED BY <2>2, <2>3, <2>4, <2>5 DEF KnownJobs
<1>16. SameCores'
  <2>1. \A d \in Cores : job_list'[d] = IF core = d THEN id ELSE job_list[d]
    BY <1>3, Numbers DEF SimInv, PlacementInv, TypeOK
  <2>2. ASSUME NEW k \in Indices
        PROVE  /\ jobs'[k].core_id # NoCore => job_list'[jobs'[k].core_id] = jobs'[k].job_id
               /\ jobs'[k].arrived => \A d \in Cores : job_list'[d] = jobs'[k].job_id => jobs'[k].core_id = d
    <3>1. CASE k = i
      <4>1. jobs'[k].core_id = core /\ jobs'[k].job_id = id
        BY <1>1, <1>8, <3>1 DEF Entered
      <4>2. \A d \in Cores : job_list[d] # id
        BY <1>2, <1>5 DEF SimInv, PlacementInv, OnePlace
      <4> QED BY <2>1, <4>1, <4>2
    <3>2. CASE k # i
      <4>1. Placed(jobs'[k], jobs[k], IF jobs[k].core_id = core THEN NoCore ELSE jobs[k].core_id)
        BY <1>8, <3>2
      <4>2. jobs[k].job_id # id
        BY <1>1, <1>10, <3>2
      <4>3. ASSUME jobs'[k].core_id # NoCore  PROVE job_list'[jobs'[k].core_id] = jobs'[k].job_id
        <5>1. jobs[k].core_id # core /\ jobs[k].core_id # NoCore /\ jobs'[k].core_id = jobs[k].core_id
          BY <4>1, <4>3 DEF Placed
        <5>2. jobs[k].core_id \in Cores /\ job_list[jobs[k].core_id] = jobs[k].job_id
          BY <5>1, OnACore
        <5> QED BY <1>9, <2>1, <5>1, <5>2
      <4>4. ASSUME jobs'[k].arrived, NEW d \in Cores, job_list'[d] = jobs'[k].job_id
            PROVE  jobs'[k].core_id = d
        <5>1. core # d /\ job_list[d] = jobs[k].job_id
          BY <1>9, <2>1, <4>2, <4>4
        <5>2. jobs[k].core_id = d
          BY <4>1, <4>4, <5>1 DEF Placed, SimInv, SameCores
        <5> QED BY <4>1, <5>1, <5>2 DEF Placed
      <4> QED BY <4>3, <4>4
    <3> QED BY <3>1, <3>2
  <2> QED BY <1>8, <2>2 DEF SameCores
<1> QED BY <1>6, <1>7, <1>12, <1>13, <1>14, <1>15, <1>16 DEF SimInv

\* Part 4: nothing stops the simulation.  A core runs one job at most, and a job
\* that is alive has some core to run on, or the queue would not be served.
LEMMA RunUnitSane ==
  ASSUME SimInv, RunUnit  PROVE status' = status
<1> DEFINE working == {i \in Indices : jobs[i].core_id # NoCore}
           on(c) == {i \in working : jobs[i].core_id = c}
<1>1. \A c \in Cores : ~ (Cardinality(on(c)) > 1)
  <2> SUFFICES ASSUME NEW c \in Cores  PROVE ~ (Cardinality(on(c)) > 1)
    OBVIOUS
  <2>1. PICK S : S = on(c)
    OBVIOUS
  <2>2. \A i, k \in S : i = k
    BY <2>1, OnACore
  <2>3. CASE S = {}
    BY <2>1, <2>3, FS_EmptySet
  <2>4. CASE S # {}
    <3>1. PICK x : x \in S
      BY <2>4
    <3>2. S = {x}
      BY <2>2, <3>1
    <3>3. Cardinality({x}) = 1
      BY FS_Singleton
    <3> HIDE DEF on
    <3> QED BY <2>1, <3>2, <3>3
  <2> QED BY <2>3, <2>4
<1>2. working = {} => ~ (jobs_alive > 0)
  <2> SUFFICES ASSUME working = {}, jobs_alive > 0  PROVE FALSE
    OBVIOUS
  <2>1. DOMAIN job # {}
    BY FS_EmptySet DEF SimInv, KnownJobs
  <2>2. PICK id : id \in DOMAIN job
    BY <2>1
  <2>3. id # NoJob /\ (OnCore(id) \/ Queued(id))
    BY <2>2, NoJobAssumption DEF SimInv, PlacementInv, OnePlace, TypeOK
  <2>4. \A c \in Cores : job_list[c] = NoJob
    <3> SUFFICES ASSUME NEW c \in Cores, job_list[c] # NoJob  PROVE FALSE
      OBVIOUS
    <3>1. PICK i \in Indices : jobs[i].core_id = c
      BY RowOf
    <3>2. c # NoCore
      BY Numbers
    <3> QED BY <3>1, <3>2
  <2>5. Queued(id)
    BY <2>3, <2>4 DEF OnCore
  <2>6. m_job_queue # <<>>
    BY <2>5, LenProperties, EmptySeq DEF Queued
  <2>7. 0 \in Cores
    BY CoresAssumption DEF Cores
  <2>8. 0 \in IdleCores
    BY <2>4, <2>7 DEF IdleCores
  <2> QED BY <2>6, <2>8 DEF SimInv, PlacementInv, WorkConserving
<1>3. status' = IF \E c \in Cores : Cardinality(on(c)) > 1 THEN "assert"
                ELSE IF jobs_alive > 0 /\ working = {} THEN "all_idle" ELSE status
  BY DEF RunUnit
<1> HIDE DEF on, working
<1> QED BY <1>1, <1>2, <1>3

LEMMA RunUnitInv ==
  ASSUME SimInv, RunUnit  PROVE SimInv' /\ UNCHANGED schedVars
<1>1. /\ UNCHANGED schedVars /\ UNCHANGED <<table, jobs_alive>>
      /\ time' = time + 1 /\ phase = "arrive" /\ phase' = "finish" /\ Arriving = {}
      /\ jobs' = [i \in Indices |-> IF jobs[i].core_id # NoCore
                                    THEN [jobs[i] EXCEPT !.run_time = jobs[i].run_time - 1]
                                    ELSE jobs[i]]
  BY DEF RunUnit
<1>2. status' = status
  BY RunUnitSane
<1>3. /\ m_scheme' = m_scheme /\ job_list' = job_list /\ job' = job /\ submitted' = submitted
      /\ clock' = clock
  BY <1>1 DEF schedVars
<1>4. PlacementInv'
  BY <1>1, PlacementStep DEF SimInv
<1>5. \A i \in Indices : jobs[i].run_time # 0
  BY <1>1 DEF SimInv, InTime
<1>6. \A i \in Indices :
        /\ jobs'[i] \in JobRow
        /\ jobs'[i].job_id = jobs[i].job_id /\ jobs'[i].core_id = jobs[i].core_id
        /\ jobs'[i].arrived = jobs[i].arrived /\ jobs'[i].arrival_time = jobs[i].arrival_time
        /\ jobs'[i].priority = jobs[i].priority
        /\ jobs[i].core_id = NoCore => jobs'[i].run_time = jobs[i].run_time
  <2> SUFFICES ASSUME NEW i \in Indices
               PROVE  /\ jobs'[i] \in JobRow
                      /\ jobs'[i].job_id = jobs[i].job_id /\ jobs'[i].core_id = jobs[i].core_id
                      /\ jobs'[i].arrived = jobs[i].arrived
                      /\ jobs'[i].arrival_time = jobs[i].arrival_time
                      /\ jobs'[i].priority = jobs[i].priority
                      /\ jobs[i].core_id = NoCore => jobs'[i].run_time = jobs[i].run_time
    OBVIOUS
  <2>1. PICK r \in JobRow : r = jobs[i]
    BY Numbers
  <2>2. r.run_time - 1 \in Nat
    BY <1>5, <2>1 DEF JobRow
  <2>3. PICK s : s = [r EXCEPT !.run_time = r.run_time - 1]
    OBVIOUS
  <2>4. /\ s \in JobRow /\ s.job_id = r.job_id /\ s.core_id = r.core_id
        /\ s.arrived = r.arrived /\ s.arrival_time = r.arrival_time /\ s.priority = r.priority
    BY <2>2, <2>3 DEF JobRow
  <2>5. jobs'[i] = IF r.core_id # NoCore THEN s ELSE r
    BY <1>1, <2>1, <2>3
  <2> QED BY <2>1, <2>4, <2>5
<1>7. jobs' \in Seq(JobRow) /\ Indices' = Indices
  <2>1. jobs' \in [1..Len(jobs) -> JobRow] /\ Len(jobs) \in Nat
    BY <1>1, <1>6, Numbers DEF Indices
  <2>2. PICK f : f = jobs'
    OBVIOUS
  <2>3. f \in Seq(JobRow) /\ Len(f) = Len(jobs)
    BY <2>1, <2>2, ArrayIs
  <2> QED BY <2>2, <2>3 DEF Indices
<1>8. (\A n : Row(n)' = Row(n)) /\ Submitted' = Submitted
  BY <1>1 DEF Row, Submitted
<1>9. Shape'
  BY <1>1, <1>2, <1>7 DEF SimInv, Shape
<1>10. FromTheFile'
  <2>1. Distinct(jobs)'
    BY <1>6, <1>7 DEF SimInv, FromTheFile, Distinct, Indices
  <2>2. \A i \in Indices :
          /\ jobs'[i].job_id \in Submitted
          /\ jobs'[i].arrival_time = Row(jobs'[i].job_id).arrival
          /\ jobs'[i].priority = Row(jobs'[i].job_id).priority
          /\ ~ jobs'[i].arrived => /\ jobs'[i].run_time = Row(jobs'[i].job_id).run_time
                                   /\ jobs'[i].core_id = NoCore
    BY <1>6 DEF SimInv, FromTheFile
  <2> QED BY <1>7, <1>8, <2>1, <2>2 DEF FromTheFile
<1>11. InTime'
  <2>1. clock' <= time'
    <3>1. clock \in Int
      BY DEF SimInv, PlacementInv, TypeOK
    <3> QED BY <1>1, <1>3, <3>1 DEF SimInv, InTime, Shape
  <2>2. ASSUME NEW i \in Indices
        PROVE  /\ IF jobs'[i].arrived THEN jobs'[i].arrival_time < time + 1
                  ELSE jobs'[i].arrival_time >= time + 1
               /\ jobs'[i].run_time = 0 => jobs'[i].core_id # NoCore
    <3>1. time \in Nat /\ jobs[i].arrival_time \in Nat
      BY Numbers DEF SimInv, Shape, JobRow
    <3>2. jobs[i].arrived => jobs[i].arrival_time < time \/ jobs[i].arrival_time = time
      BY DEF SimInv, InTime
    <3>3. ~ jobs[i].arrived => jobs[i].arrival_time >= time /\ jobs[i].arrival_time # time
      BY <1>1 DEF SimInv, InTime, Arriving
    <3> QED BY <1>5, <1>6, <3>1, <3>2, <3>3
  <2> QED BY <1>1, <1>7, <2>1, <2>2 DEF InTime
<1>12. KnownJobs'
  <2> KnownJobs
    BY DEF SimInv
  <2>1. \A n : n \in DOMAIN job' <=> \E k \in Indices' : jobs'[k].arrived /\ jobs'[k].job_id = n
    <3>1. \A n : n \in DOMAIN job <=> \E k \in Indices : jobs[k].arrived /\ jobs[k].job_id = n
      BY DEF KnownJobs
    <3> QED BY <1>3, <1>6, <1>7, <3>1
  <2>2. \A i \in Indices' : ~ jobs'[i].arrived => jobs'[i].job_id \notin DOMAIN submitted'
    BY <1>3, <1>6, <1>7 DEF KnownJobs
  <2>3. IsFiniteSet(DOMAIN job') /\ jobs_alive' = Cardinality(DOMAIN job')
    BY <1>1, <1>3 DEF KnownJobs
  <2>4. DOMAIN submitted' \subseteq Submitted' /\ \A n \in DOMAIN submitted' : submitted'[n] = Row(n)'.arrival
    BY <1>3, <1>8 DEF KnownJobs
  <2> QED BY <2>1, <2>2, <2>3, <2>4 DEF KnownJobs
<1>13. SameCores'
  BY <1>3, <1>6, <1>7 DEF SimInv, SameCores
<1> QED BY <1>1, <1>4, <1>9, <1>10, <1>11, <1>12, <1>13 DEF SimInv

\* Between the parts of the loop only the phase changes.
LEMMA PhaseInv ==
  ASSUME SimInv, EndFinish \/ EndQuantum  PROVE SimInv' /\ UNCHANGED schedVars
<1>1. UNCHANGED schedVars /\ UNCHANGED <<table, jobs, jobs_alive, time>>
  BY DEF EndFinish, EndQuantum
<1>2. /\ m_scheme' = m_scheme /\ job_list' = job_list /\ job' = job /\ submitted' = submitted
      /\ clock' = clock
  BY <1>1 DEF schedVars
<1>3. PlacementInv'
  BY <1>1, PlacementStep DEF SimInv
<1>4. Indices' = Indices /\ Submitted' = Submitted /\ \A n : Row(n)' = Row(n)
  BY <1>1 DEF Indices, Submitted, Row
<1>5. Shape'
  BY <1>1, <1>2 DEF EndFinish, EndQuantum, SimInv, Shape
<1>6. FromTheFile'
  BY <1>1, <1>4 DEF SimInv, FromTheFile, Distinct
<1>7. InTime'
  <2>1. phase # "arrive" /\ phase' \in {"quantum", "arrive"}
    BY DEF EndFinish, EndQuantum
  <2>2. \A i \in Indices : jobs[i].run_time # 0
    <3>1. CASE phase = "finish"
      BY <3>1 DEF EndFinish, EndQuantum, Finished
    <3>2. CASE phase # "finish"
      BY <3>2 DEF SimInv, InTime
    <3> QED BY <3>1, <3>2
  <2> QED BY <1>1, <1>2, <1>4, <2>1, <2>2 DEF SimInv, InTime
<1>8. KnownJobs'
  BY <1>1, <1>2, <1>4 DEF SimInv, KnownJobs
<1>9. SameCores'
  BY <1>1, <1>2, <1>4 DEF SimInv, SameCores
<1> QED BY <1>1, <1>3, <1>5, <1>6, <1>7, <1>8, <1>9 DEF SimInv

LEMMA SimNextInv ==
  ASSUME Times = Nat, SimInv, [Next]_vars
  PROVE  SimInv' /\ [SchedNext]_schedVars
<1>1. ASSUME NEW i \in Indices, FinishJob(i)  PROVE SimInv' /\ SchedNext
  BY <1>1, FinishJobInv
<1>2. ASSUME NEW c \in Cores, ExpireQuantum(c)  PROVE SimInv' /\ SchedNext
  BY <1>2, ExpireQuantumInv
<1>3. ASSUME NEW i \in Indices, Arrive(i)  PROVE SimInv' /\ SchedNext
  BY <1>3, ArriveInv
<1>4. CASE EndFinish \/ EndQuantum
  BY <1>4, PhaseInv
<1>5. CASE RunUnit
  BY <1>5, RunUnitInv
<1>6. CASE UNCHANGED vars
  <2>1. UNCHANGED schedVars
    BY <1>6 DEF vars
  <2>2. PlacementInv'
    BY <2>1, PlacementStep DEF SimInv
  <2>3. (Shape /\ FromTheFile /\ InTime /\ KnownJobs /\ SameCores)'
    BY <1>6 DEF vars, simVars, schedVars, SimInv, Shape, FromTheFile, InTime, KnownJobs, SameCores,
                Indices, Submitted, Row, Distinct
  <2> QED BY <2>1, <2>2, <2>3 DEF SimInv
<1> QED BY <1>1, <1>2, <1>3, <1>4, <1>5, <1>6 DEF Next

\* The scheme is that of the start-up.
LEMMA SchemeFixed ==
  ASSUME Times = Nat, SimInv, [Next]_vars  PROVE m_scheme' = m_scheme
<1>1. [SchedNext]_schedVars
  BY SimNextInv
<1>2. ASSUME NEW j \in JobNumbers, NEW t \in Times, NewJob(j, t)  PROVE m_scheme' = m_scheme
  BY <1>2 DEF NewJob, scheduler_new_job
<1>3. ASSUME NEW c \in Cores, NEW t \in Times, JobFinished(c, t)  PROVE m_scheme' = m_scheme
  BY <1>3 DEF JobFinished, scheduler_job_finished
<1>4. ASSUME NEW c \in Cores, NEW t \in Times, QuantumExpired(c, t)  PROVE m_scheme' = m_scheme
  BY <1>4 DEF QuantumExpired, scheduler_quantum_expired
<1>5. UNCHANGED schedVars => m_scheme' = m_scheme
  BY DEF schedVars
<1> QED BY <1>1, <1>2, <1>3, <1>4, <1>5 DEF SchedNext

LEMMA SimAlways ==
  ASSUME Times = Nat  PROVE Spec => []SimInv /\ [][SchedNext]_schedVars
<1>1. SimInv /\ [Next]_vars => SimInv' /\ [SchedNext]_schedVars
  BY SimNextInv
<1> QED BY <1>1, SimInitInv, PTL DEF Spec
-----------------------------------------------------------------------------
\* Sums over finite sets.  MapThenSumSet adds g[x] for one x after another, each
\* chosen from those left.

Choice(s) == CHOOSE x \in s : TRUE

\* f adds up the subsets in D.
AddsUp(f, D, g) ==
  f = [s \in D |-> IF s = {} THEN 0 ELSE g[Choice(s)] + f[s \ {Choice(s)}]]

Sum(g, S) == (CHOOSE f : AddsUp(f, SUBSET S, g))[S]

\* The subsets of S of at most n elements.
UpTo(S, n) == {s \in SUBSET S : Cardinality(s) <= n}

LEMMA ChoiceIn == ASSUME NEW s, s # {}  PROVE Choice(s) \in s
BY DEF Choice

LEMMA TakeOne ==
  ASSUME NEW S, IsFiniteSet(S), NEW s \in SUBSET S, NEW x \in s
  PROVE  /\ IsFiniteSet(s) /\ IsFiniteSet(s \ {x}) /\ Cardinality(s) \in Nat
         /\ Cardinality(s \ {x}) \in Nat /\ Cardinality(s \ {x}) = Cardinality(s) - 1
         /\ s \ {x} \in SUBSET S
<1>1. IsFiniteSet(s)
  BY FS_Subset
<1>2. IsFiniteSet(s \ {x}) /\ Cardinality(s \ {x}) = Cardinality(s) - 1
  BY <1>1, FS_RemoveElement
<1> QED BY <1>1, <1>2, FS_CardinalityType

LEMMA AddsUpTo ==
  ASSUME NEW S, IsFiniteSet(S), NEW g, NEW n \in Nat
  PROVE  \E f : AddsUp(f, UpTo(S, n), g)
<1> SUFFICES ASSUME NEW T, T = {m \in Nat : ~ \E f : AddsUp(f, UpTo(S, m), g)}, T # {}
             PROVE  FALSE
  OBVIOUS
<1>1. PICK m \in T : \A y \in T : m <= y
  BY Smallest
<1>2. \A s \in SUBSET S : IsFiniteSet(s) /\ Cardinality(s) \in Nat /\ (Cardinality(s) = 0 => s = {})
  BY FS_Subset, FS_CardinalityType, FS_EmptySet
<1>3. CASE m = 0
  <2>1. \A s \in UpTo(S, 0) : s = {}
    BY <1>2 DEF UpTo
  <2>2. PICK f : f = [s \in UpTo(S, 0) |-> 0]
    OBVIOUS
  <2>3. f = [s \in UpTo(S, 0) |-> IF s = {} THEN 0 ELSE g[Choice(s)] + f[s \ {Choice(s)}]]
    BY <2>1, <2>2
  <2> QED BY <1>3, <2>3 DEF AddsUp
<1>4. CASE m # 0
  <2>1. m - 1 \in Nat /\ m - 1 \notin T
    BY <1>1, <1>4
  <2>2. PICK f : AddsUp(f, UpTo(S, m - 1), g)
    BY <2>1
  <2>3. PICK h : h = [s \in UpTo(S, m) |-> IF s = {} THEN 0 ELSE g[Choice(s)] + f[s \ {Choice(s)}]]
    OBVIOUS
  <2>4. ASSUME NEW s \in UpTo(S, m - 1)  PROVE s \in UpTo(S, m) /\ h[s] = f[s]
    <3>1. s \in UpTo(S, m)
      BY <1>2, <2>1 DEF UpTo
    <3>2. f[s] = IF s = {} THEN 0 ELSE g[Choice(s)] + f[s \ {Choice(s)}]
      BY <2>2 DEF AddsUp
    <3> QED BY <2>3, <3>1, <3>2
  <2>5. ASSUME NEW s \in UpTo(S, m), s # {}  PROVE h[s \ {Choice(s)}] = f[s \ {Choice(s)}]
    <3>1. s \in SUBSET S /\ Choice(s) \in s /\ Cardinality(s) <= m
      BY <2>5, ChoiceIn DEF UpTo
    <3>2. PICK x \in s : x = Choice(s)
      BY <3>1
    <3>3. s \ {x} \in SUBSET S /\ Cardinality(s \ {x}) = Cardinality(s) - 1 /\ Cardinality(s) \in Nat
      BY <3>1, TakeOne
    <3>4. s \ {x} \in UpTo(S, m - 1)
      BY <3>1, <3>3 DEF UpTo
    <3> QED BY <2>4, <3>2, <3>4
  <2>6. h = [s \in UpTo(S, m) |-> IF s = {} THEN 0 ELSE g[Choice(s)] + h[s \ {Choice(s)}]]
    BY <2>3, <2>5
  <2> QED BY <2>6 DEF AddsUp
<1> QED BY <1>3, <1>4

\* The recursion has a solution, which adds up every subset.
LEMMA FoldExists ==
  ASSUME NEW S, IsFiniteSet(S), NEW g, NEW f, f = CHOOSE h : AddsUp(h, SUBSET S, g)
  PROVE  AddsUp(f, SUBSET S, g)
<1>1. Cardinality(S) \in Nat /\ \A s \in SUBSET S : Cardinality(s) <= Cardinality(S)
  BY FS_Subset, FS_CardinalityType
<1>2. UpTo(S, Cardinality(S)) = SUBSET S
  BY <1>1 DEF UpTo
<1>3. \E h : AddsUp(h, SUBSET S, g)
  <2>1. PICK n \in Nat : n = Cardinality(S)
    BY <1>1
  <2> QED BY <1>2, <2>1, AddsUpTo
<1> QED BY <1>3

\* Two solutions agree on the sets they both add up.
LEMMA FoldsAgree ==
  ASSUME NEW A, IsFiniteSet(A), NEW B, IsFiniteSet(B), NEW g, NEW f, NEW h, NEW k,
         AddsUp(f, SUBSET A, g), AddsUp(h, SUBSET B, k),
         NEW S, S \subseteq A, S \subseteq B, \A x \in S : g[x] = k[x]
  PROVE  f[S] = h[S]
<1> SUFFICES ASSUME NEW T, T = {n \in Nat : \E s \in SUBSET S : Cardinality(s) = n /\ f[s] # h[s]},
                    T # {}
             PROVE  FALSE
  <2>1. Cardinality(S) \in Nat
    BY FS_Subset, FS_CardinalityType
  <2> QED BY <2>1
<1>1. PICK m \in T : \A y \in T : m <= y
  BY Smallest
<1>2. PICK s \in SUBSET S : Cardinality(s) = m /\ f[s] # h[s]
  BY <1>1
<1>3. /\ f[s] = IF s = {} THEN 0 ELSE g[Choice(s)] + f[s \ {Choice(s)}]
      /\ h[s] = IF s = {} THEN 0 ELSE k[Choice(s)] + h[s \ {Choice(s)}]
  BY DEF AddsUp
<1>4. s # {}
  BY <1>2, <1>3
<1>5. PICK x \in s : x = Choice(s)
  BY <1>4, ChoiceIn
<1>6. Cardinality(s \ {x}) \in Nat /\ Cardinality(s \ {x}) = m - 1 /\ s \ {x} \in SUBSET S /\ m \in Nat
  BY <1>2, TakeOne
<1>7. f[s \ {x}] # h[s \ {x}]
  BY <1>2, <1>3, <1>4, <1>5
<1>8. m - 1 \in T
  BY <1>6, <1>7
<1> QED BY <1>1, <1>6, <1>8

\* A sum depends only on what is added up.
LEMMA SumSame ==
  ASSUME NEW S, IsFiniteSet(S), NEW g, NEW k, \A x \in S : g[x] = k[x]
  PROVE  Sum(g, S) = Sum(k, S)
<1>1. PICK f, h : f = (CHOOSE r : AddsUp(r, SUBSET S, g)) /\ h = (CHOOSE r : AddsUp(r, SUBSET S, k))
  OBVIOUS
<1>2. AddsUp(f, SUBSET S, g) /\ AddsUp(h, SUBSET S, k)
  BY <1>1, FoldExists
<1>3. f[S] = h[S]
  BY <1>2, FoldsAgree
<1> QED BY <1>1, <1>3 DEF Sum

\* A sum is the share of the element chosen first and the sum of the others.
LEMMA SumChoice ==
  ASSUME NEW S, IsFiniteSet(S), NEW g
  PROVE  Sum(g, S) = IF S = {} THEN 0 ELSE g[Choice(S)] + Sum(g, S \ {Choice(S)})
<1>1. PICK f : f = CHOOSE r : AddsUp(r, SUBSET S, g)
  OBVIOUS
<1>2. AddsUp(f, SUBSET S, g)
  BY <1>1, FoldExists
<1>3. f[S] = IF S = {} THEN 0 ELSE g[Choice(S)] + f[S \ {Choice(S)}]
  BY <1>2 DEF AddsUp
<1>4. PICK R : R = S \ {Choice(S)}
  OBVIOUS
<1>5. PICK h : h = CHOOSE r : AddsUp(r, SUBSET R, g)
  OBVIOUS
<1>6. IsFiniteSet(R) /\ R \subseteq S
  BY <1>4, FS_Subset
<1>7. AddsUp(h, SUBSET R, g)
  BY <1>5, <1>6, FoldExists
<1>8. f[R] = h[R]
  BY <1>2, <1>6, <1>7, FoldsAgree
<1> QED BY <1>1, <1>3, <1>4, <1>5, <1>8 DEF Sum

\* Sums of integers are integers.
LEMMA SumType ==
  ASSUME NEW S, IsFiniteSet(S), NEW g, \A x \in S : g[x] \in Int
  PROVE  Sum(g, S) \in Int
<1> SUFFICES ASSUME NEW T, T = {n \in Nat : \E s \in SUBSET S : Cardinality(s) = n /\ Sum(g, s) \notin Int},
                    T # {}
             PROVE  FALSE
  <2>1. Cardinality(S) \in Nat
    BY FS_CardinalityType
  <2> QED BY <2>1
<1>1. PICK m \in T : \A y \in T : m <= y
  BY Smallest
<1>2. PICK s \in SUBSET S : Cardinality(s) = m /\ Sum(g, s) \notin Int
  BY <1>1
<1>3. IsFiniteSet(s)
  BY FS_Subset
<1>4. Sum(g, s) = IF s = {} THEN 0 ELSE g[Choice(s)] + Sum(g, s \ {Choice(s)})
  BY <1>3, SumChoice
<1>5. s # {}
  BY <1>2, <1>4
<1>6. PICK x \in s : x = Choice(s)
  BY <1>5, ChoiceIn
<1>7. Cardinality(s \ {x}) \in Nat /\ Cardinality(s \ {x}) = m - 1 /\ s \ {x} \in SUBSET S /\ m \in Nat
  BY <1>2, TakeOne
<1>8. Sum(g, s \ {x}) \notin Int
  BY <1>2, <1>4, <1>5, <1>6
<1>9. m - 1 \in T
  BY <1>7, <1>8
<1> QED BY <1>1, <1>7, <1>9

\* Whichever element is taken out, its share is what the sum loses.
LEMMA SumRemove ==
  ASSUME NEW S, IsFiniteSet(S), NEW g, \A y \in S : g[y] \in Int, NEW x \in S
  PROVE  Sum(g, S) = g[x] + Sum(g, S \ {x})
<1> SUFFICES ASSUME NEW T,
                    T = {n \in Nat : \E s \in SUBSET S, z \in S :
                           z \in s /\ Cardinality(s) = n /\ Sum(g, s) # g[z] + Sum(g, s \ {z})},
                    T # {}
             PROVE  FALSE
  <2>1. Cardinality(S) \in Nat /\ S \in SUBSET S
    BY FS_CardinalityType
  <2>2. ASSUME Sum(g, S) # g[x] + Sum(g, S \ {x})  PROVE FALSE
    <3>1. PICK Q : Q = {n \in Nat : \E s \in SUBSET S, z \in S :
                          z \in s /\ Cardinality(s) = n /\ Sum(g, s) # g[z] + Sum(g, s \ {z})}
      OBVIOUS
    <3>2. Cardinality(S) \in Q
      BY <2>1, <2>2, <3>1
    <3> QED BY <3>1, <3>2
  <2> QED BY <2>2
<1>1. PICK m \in T : \A y \in T : m <= y
  BY Smallest
<1>2. PICK s \in SUBSET S, z \in S : z \in s /\ Cardinality(s) = m /\ Sum(g, s) # g[z] + Sum(g, s \ {z})
  BY <1>1
<1>3. IsFiniteSet(s) /\ s # {}
  BY <1>2, FS_Subset
<1>4. PICK c \in s : c = Choice(s)
  BY <1>3, ChoiceIn
<1>5. Sum(g, s) = g[c] + Sum(g, s \ {c})
  BY <1>3, <1>4, SumChoice
<1>6. c # z
  BY <1>2, <1>5
<1>7. PICK u, v, w : u = s \ {c} /\ v = s \ {z} /\ w = (s \ {c}) \ {z}
  OBVIOUS
<1>8. /\ IsFiniteSet(u) /\ u \in SUBSET S /\ Cardinality(u) \in Nat /\ Cardinality(u) = m - 1
      /\ IsFiniteSet(v) /\ v \in SUBSET S /\ Cardinality(v) \in Nat /\ Cardinality(v) = m - 1
      /\ m \in Nat
  BY <1>2, <1>4, <1>7, TakeOne
<1>9. m - 1 \notin T
  <2>1. PICK p : p = m - 1
    OBVIOUS
  <2>2. p \in T => m <= p
    BY <1>1
  <2>3. ~ (m <= p)
    BY <1>8, <2>1
  <2> QED BY <2>1, <2>2, <2>3
<1>10. Sum(g, u) = g[z] + Sum(g, w)
  <2>1. z \in u /\ u \ {z} = w
    BY <1>2, <1>6, <1>7
  <2> QED BY <1>8, <1>9, <2>1
<1>11. Sum(g, v) = g[c] + Sum(g, w)
  <2>1. c \in v /\ c \in S /\ v \ {c} = w
    BY <1>4, <1>6, <1>7
  <2> QED BY <1>8, <1>9, <2>1
<1>12. Sum(g, w) \in Int /\ g[c] \in Int /\ g[z] \in Int
  <2>1. IsFiniteSet(w) /\ \A y \in w : g[y] \in Int
    BY <1>7, <1>8, FS_Subset
  <2> QED BY <2>1, SumType
<1> QED BY <1>2, <1>5, <1>7, <1>10, <1>11, <1>12

\* When every share falls by one, the sum falls by the number of shares.
LEMMA SumFalls ==
  ASSUME NEW S, IsFiniteSet(S), NEW g, \A x \in S : g[x] \in Int,
         NEW k, \A x \in S : k[x] = g[x] - 1
  PROVE  Sum(k, S) = Sum(g, S) - Cardinality(S)
<1> SUFFICES ASSUME NEW T,
                    T = {n \in Nat : \E s \in SUBSET S :
                           Cardinality(s) = n /\ Sum(k, s) # Sum(g, s) - Cardinality(s)},
                    T # {}
             PROVE  FALSE
  <2>1. Cardinality(S) \in Nat
    BY FS_CardinalityType
  <2> QED BY <2>1
<1>1. PICK m \in T : \A y \in T : m <= y
  BY Smallest
<1>2. PICK s \in SUBSET S : Cardinality(s) = m /\ Sum(k, s) # Sum(g, s) - Cardinality(s)
  BY <1>1
<1>3. IsFiniteSet(s)
  BY FS_Subset
<1>4. /\ Sum(g, s) = IF s = {} THEN 0 ELSE g[Choice(s)] + Sum(g, s \ {Choice(s)})
      /\ Sum(k, s) = IF s = {} THEN 0 ELSE k[Choice(s)] + Sum(k, s \ {Choice(s)})
  BY <1>3, SumChoice
<1>5. s # {}
  <2>1. s = {} => Cardinality(s) = 0
    BY FS_EmptySet
  <2>2. s = {} => Sum(k, s) = 0 /\ Sum(g, s) = 0
    BY <1>4
  <2> QED BY <1>2, <2>1, <2>2
<1>6. PICK x \in s : x = Choice(s)
  BY <1>5, ChoiceIn
<1>7. PICK r : r = s \ {x}
  OBVIOUS
<1>8. Cardinality(r) \in Nat /\ Cardinality(r) = m - 1 /\ r \in SUBSET S /\ m \in Nat /\ IsFiniteSet(r)
  BY <1>2, <1>7, TakeOne
<1>9. Sum(g, r) \in Int /\ Sum(k, r) \in Int /\ g[x] \in Int /\ k[x] = g[x] - 1
  <2>1. (\A y \in r : g[y] \in Int) /\ (\A y \in r : k[y] \in Int)
    BY <1>8
  <2> QED BY <1>8, <2>1, SumType
<1>10. Sum(g, s) = g[x] + Sum(g, r) /\ Sum(k, s) = k[x] + Sum(k, r)
  BY <1>4, <1>5, <1>6, <1>7
<1>11. Sum(k, r) # Sum(g, r) - Cardinality(r)
  BY <1>2, <1>8, <1>9, <1>10
<1>12. Cardinality(r) \in T
  BY <1>8, <1>11
<1>13. m <= Cardinality(r)
  BY <1>1, <1>12
<1> QED BY <1>8, <1>13

\* Shares between zero and q add up to at most q each.
LEMMA SumBounds ==
  ASSUME NEW S, IsFiniteSet(S), NEW q \in Nat, NEW g, \A x \in S : g[x] \in 0..q
  PROVE  0 <= Sum(g, S) /\ Sum(g, S) <= q * Cardinality(S)
<1> SUFFICES ASSUME NEW T,
                    T = {n \in Nat : \E s \in SUBSET S :
                           Cardinality(s) = n /\ ~ (0 <= Sum(g, s) /\ Sum(g, s) <= q * n)},
                    T # {}
             PROVE  FALSE
  <2>1. Cardinality(S) \in Nat
    BY FS_CardinalityType
  <2> QED BY <2>1
<1>1. PICK m \in T : \A y \in T : m <= y
  BY Smallest
<1>2. PICK s \in SUBSET S : Cardinality(s) = m /\ ~ (0 <= Sum(g, s) /\ Sum(g, s) <= q * m)
  BY <1>1
<1>3. IsFiniteSet(s)
  BY FS_Subset
<1>4. Sum(g, s) = IF s = {} THEN 0 ELSE g[Choice(s)] + Sum(g, s \ {Choice(s)})
  BY <1>3, SumChoice
<1>5. s # {}
  BY <1>2, <1>4, FS_EmptySet
<1>6. PICK x \in s : x = Choice(s)
  BY <1>5, ChoiceIn
<1>7. PICK r : r = s \ {x}
  OBVIOUS
<1>8. Cardinality(r) \in Nat /\ Cardinality(r) = m - 1 /\ r \in SUBSET S /\ m \in Nat /\ IsFiniteSet(r)
  BY <1>2, <1>7, TakeOne
<1>9. Sum(g, r) \in Int /\ g[x] \in 0..q
  <2>1. \A y \in r : g[y] \in Int
    BY <1>8
  <2> QED BY <1>8, <2>1, SumType
<1>10. Sum(g, s) = g[x] + Sum(g, r)
  BY <1>4, <1>5, <1>6, <1>7
<1>11. PICK n \in Nat : n = m - 1
  BY <1>8
<1>12. n \notin T
  <2>1. n \in T => m <= n
    BY <1>1
  <2> QED BY <1>8, <1>11, <2>1
<1>13. 0 <= Sum(g, r) /\ Sum(g, r) <= q * n
  BY <1>8, <1>11, <1>12
<1>14. q * n + q = q * m
  BY <1>8, <1>11
<1>15. q * n \in Int /\ q * m \in Int
  BY <1>8, <1>11
<1> QED BY <1>2, <1>9, <1>10, <1>13, <1>14, <1>15

\* A sum of which one share changes.
LEMMA SumChange ==
  ASSUME NEW S, IsFiniteSet(S), NEW g, \A x \in S : g[x] \in Int, NEW k, \A x \in S : k[x] \in Int,
         NEW c \in S, \A x \in S \ {c} : k[x] = g[x]
  PROVE  Sum(g, S) \in Int /\ Sum(k, S) = Sum(g, S) - g[c] + k[c]
<1>1. PICK R : R = S \ {c}
  OBVIOUS
<1>2. IsFiniteSet(R)
  BY <1>1, FS_Subset
<1>3. (\A x \in S : g[x] \in Int) /\ (\A x \in S : k[x] \in Int) /\ \A x \in R : g[x] = k[x]
  BY <1>1
<1>4. Sum(g, S) = g[c] + Sum(g, R)
  BY <1>1, <1>3, SumRemove
<1>5. Sum(k, S) = k[c] + Sum(k, R)
  BY <1>1, <1>3, SumRemove
<1>6. Sum(g, R) = Sum(k, R)
  BY <1>2, <1>3, SumSame
<1>7. Sum(g, R) \in Int
  <2>1. \A x \in R : g[x] \in Int
    BY <1>1, <1>3
  <2> QED BY <1>2, <2>1, SumType
<1> QED BY <1>3, <1>4, <1>5, <1>6, <1>7
-----------------------------------------------------------------------------
\* The books of the simulation: what the library and the simulator remember of
\* each job, which is why the totals are right.

\* The library's job_t's say what the file says.
JobsAsFiled ==
  \A j \in DOMAIN job : /\ job[j].arrival = Row(j).arrival
                        /\ job[j].running = Row(j).run_time
                        /\ job[j].priority = Row(j).priority

\* A job that has not run yet has time left, and is still in the array.
HistoryKept ==
  /\ history \in [Submitted -> [first : Int, finish : Int, waited : Int, since : Int]]
  /\ \A id \in Submitted : history[id].first < time
  /\ \A i \in Indices : history[jobs[i].job_id].first = -1 => jobs[i].run_time # 0
  /\ \A id \in Submitted : history[id].first = -1 => \E i \in Indices : jobs[i].job_id = id

\* A job on a core has started, in this time unit if it has not run yet.
Started(id) == history[id].first # -1 \/ OnCore(id)
Start(id) == IF history[id].first = -1 THEN time ELSE history[id].first

\* What a row of the file holds.
LEMMA RowsOfTheFile ==
  ASSUME SimInv, NEW id \in Submitted
  PROVE  Row(id) \in [arrival : Nat, run_time : RunTimes, priority : Priorities] /\ id \in JobNumbers
<1>1. PICK n \in Nat :
        /\ n = Len(table) /\ table \in Seq([arrival : Nat, run_time : RunTimes, priority : Priorities])
        /\ (0..(Len(table) - 1)) \subseteq JobNumbers
  BY TablesAssumption, LenProperties DEF SimInv, Shape
<1>2. id + 1 \in 1..n
  BY <1>1 DEF Submitted
<1>3. table[id + 1] \in [arrival : Nat, run_time : RunTimes, priority : Priorities]
  BY <1>1, <1>2, ElementOfSeq
<1> QED BY <1>1, <1>3 DEF Row, Submitted

\* A call changes nothing of what a job was filed with.
LEMMA FinishedFields ==
  ASSUME TypeOK, NEW c \in Cores, NEW t \in Nat, JobFinished(c, t),
         m_job_queue # <<>> => Head(m_job_queue) \in DOMAIN job \ {job_list[c]},
         DOMAIN job' = DOMAIN job \ {job_list[c]}
  PROVE  \A j \in DOMAIN job' : /\ job'[j].arrival = job[j].arrival
                                /\ job'[j].running = job[j].running
                                /\ job'[j].priority = job[j].priority
<1> DEFINE D == DOMAIN job \ {job_list[c]}
           h == [k \in D |-> update_core(t)[k]]
<1>1. h \in [D -> JobRecord] /\ \A j \in D : /\ h[j].arrival = job[j].arrival
                                              /\ h[j].running = job[j].running
                                              /\ h[j].priority = job[j].priority
  BY UpdateCoreFields
<1>2. \/ job' = h
      \/ m_job_queue # <<>> /\ job' = Dispatched(h, Head(m_job_queue), t)
  BY DEF JobFinished, scheduler_job_finished
<1>3. CASE job' = h
  BY <1>1, <1>3
<1>4. CASE m_job_queue # <<>> /\ job' = Dispatched(h, Head(m_job_queue), t)
  <2>1. PICK n \in D : n = Head(m_job_queue)
    BY <1>4
  <2>2. PICK d : d = Dispatched(h, n, t) /\ job' = d
    BY <1>4, <2>1
  <2> HIDE DEF h, D
  <2>3. \A j \in D : d[j].arrival = h[j].arrival /\ d[j].running = h[j].running /\ d[j].priority = h[j].priority
    BY <1>1, <2>2, DispatchedFields
  <2> QED BY <1>1, <2>2, <2>3 DEF D
<1> QED BY <1>2, <1>3, <1>4

\* What is on a core is in the array.
LEMMA OnCoreIsWorking ==
  ASSUME SimInv, NEW i \in Indices
  PROVE  OnCore(jobs[i].job_id) <=> jobs[i].core_id # NoCore
<1>1. ASSUME jobs[i].core_id # NoCore  PROVE OnCore(jobs[i].job_id)
  BY <1>1, OnACore DEF OnCore
<1>2. ASSUME OnCore(jobs[i].job_id)  PROVE jobs[i].core_id # NoCore
  <2>1. PICK c \in Cores : job_list[c] = jobs[i].job_id
    BY <1>2 DEF OnCore
  <2>2. PICK k \in Indices : jobs[k].core_id = c /\ jobs[k].job_id = job_list[c]
    BY <2>1, RowOf, Numbers
  <2>3. k = i
    BY <2>1, <2>2 DEF SimInv, FromTheFile, Distinct, Indices
  <2> QED BY <2>2, <2>3, Numbers
<1> QED BY <1>1, <1>2

\* What main's bookkeeping does to the record of one job.
LEMMA RecordKept ==
  ASSUME NEW h \in [first : Int, finish : Int, waited : Int, since : Int], NEW n \in Int
  PROVE  /\ LET run == [h EXCEPT !.first = n, !.since = 0]
            IN run \in [first : Int, finish : Int, waited : Int, since : Int] /\ run.first = n
         /\ LET wait == [h EXCEPT !.waited = h.waited + 1, !.since = h.since + 1]
            IN wait \in [first : Int, finish : Int, waited : Int, since : Int] /\ wait.first = h.first
<1>1. h.waited + 1 \in Int /\ h.since + 1 \in Int /\ h.first \in Int /\ h.finish \in Int /\ 0 \in Int
  OBVIOUS
<1> QED BY <1>1

\* The first run of a job is recorded in the time unit it has a core in.
LEMMA RunUnitFirsts ==
  ASSUME SimInv, HistoryKept, RunUnit
  PROVE  /\ history' \in [Submitted -> [first : Int, finish : Int, waited : Int, since : Int]]
         /\ \A id \in Submitted :
              history'[id].first = IF OnCore(id) THEN Start(id) ELSE history[id].first
<1> DEFINE Record == [first : Int, finish : Int, waited : Int, since : Int]
           working == {i \in Indices : jobs[i].core_id # NoCore}
           Update(id) ==
             LET i == CHOOSE k \in Indices : jobs[k].job_id = id
                 h == history[id]
             IN IF i \in working
                THEN [h EXCEPT !.first = IF h.first = -1 THEN time ELSE h.first, !.since = 0]
                ELSE IF Waiting(jobs[i])
                THEN [h EXCEPT !.waited = h.waited + 1, !.since = h.since + 1]
                ELSE h
<1>1. history' = [id \in Submitted |->
                    IF \E i \in Indices : jobs[i].job_id = id THEN Update(id) ELSE history[id]]
  BY DEF RunUnit
<1>2. time \in Nat /\ \A id \in Submitted : history[id] \in Record
  BY DEF SimInv, Shape, HistoryKept
<1>3. ASSUME NEW id \in Submitted
      PROVE  /\ history'[id] \in Record
             /\ history'[id].first = IF OnCore(id) THEN Start(id) ELSE history[id].first
  <2>1. PICK h \in Record : h = history[id]
    BY <1>2
  <2>2. CASE \E i \in Indices : jobs[i].job_id = id
    <3>1. PICK i \in Indices : i = CHOOSE k \in Indices : jobs[k].job_id = id
      BY <2>2
    <3>2. jobs[i].job_id = id
      BY <2>2, <3>1
    <3>3. PICK run : run = [h EXCEPT !.first = IF h.first = -1 THEN time ELSE h.first, !.since = 0]
      OBVIOUS
    <3>4. PICK wait : wait = [h EXCEPT !.waited = h.waited + 1, !.since = h.since + 1]
      OBVIOUS
    <3>5. run \in Record /\ run.first = Start(id)
      <4>1. PICK n \in Int : n = IF h.first = -1 THEN time ELSE h.first
        BY <1>2
      <4> QED BY <2>1, <3>3, <4>1, RecordKept DEF Start
    <3>6. wait \in Record /\ wait.first = h.first
      BY <3>4, RecordKept
    <3>7. history'[id] = IF i \in working THEN run ELSE IF Waiting(jobs[i]) THEN wait ELSE h
      BY <1>1, <2>1, <2>2, <3>1, <3>3, <3>4
    <3>8. OnCore(id) <=> i \in working
      BY <3>2, OnCoreIsWorking
    <3> HIDE DEF Record, working
    <3> QED BY <2>1, <3>5, <3>6, <3>7, <3>8
  <2>3. CASE ~ \E i \in Indices : jobs[i].job_id = id
    <3>1. history'[id] = h
      BY <1>1, <2>1, <2>3
    <3>2. ~ OnCore(id)
      BY <2>3, RowOf, RowsOfTheFile, NoJobAssumption DEF OnCore
    <3> QED BY <2>1, <3>1, <3>2
  <2> QED BY <2>2, <2>3
<1>4. DOMAIN history' = Submitted /\ history' = [id \in Submitted |-> history'[id]]
  BY <1>1
<1> QED BY <1>3, <1>4

\* The job is in the array of those not finished.
InArray(id) == \E i \in Indices : jobs[i].job_id = id

\* The insertion time of a job that has run is that of its first run; one that
\* has not run yet is inserted anew when it gets a core.
StampsTrue ==
  \A id \in DOMAIN job :
    IF history[id].first = -1
    THEN job[id].remaining = job[id].running /\ (OnCore(id) => job[id].inserted = time)
    ELSE job[id].inserted = history[id].first /\ (~ OnCore(id) => job[id].remaining # job[id].running)

\* A job is finished when it has left the array, and since its arrival it has
\* either run or waited.
Accounted ==
  /\ \A id \in Submitted : history[id].finish = -1 <=> InArray(id)
  /\ \A i \in Indices :
       LET id == jobs[i].job_id
       IN IF jobs[i].arrived
          THEN history[id].waited = (time - Row(id).arrival) - (Row(id).run_time - jobs[i].run_time)
          ELSE history[id].waited = 0 /\ history[id].first = -1

\* Row s is row r, whose job may have arrived now.
Follows(s, r) ==
  /\ s.job_id = r.job_id /\ s.run_time = r.run_time
  /\ \/ s.arrived = r.arrived
     \/ /\ s.arrived /\ ~ r.arrived
        /\ Row(r.job_id).arrival = time /\ r.run_time = Row(r.job_id).run_time

\* What a call leaves of the records of the jobs.
RecordsStay ==
  /\ history' \in [Submitted -> [first : Int, finish : Int, waited : Int, since : Int]]
  /\ \A id \in Submitted : history'[id].first = history[id].first /\ history'[id].waited = history[id].waited

LEMMA CallsKeepRecords ==
  ASSUME SimInv, HistoryKept, Accounted, time' = time, table' = table, RecordsStay,
         \A k \in Indices' : \E m \in Indices : Follows(jobs'[k], jobs[m]),
         \A id \in Submitted : history'[id].finish = -1 <=> InArray(id)',
         \A id \in Submitted : history[id].first = -1 => InArray(id)'
  PROVE  HistoryKept' /\ Accounted'
<1>1. (\A id : Row(id)' = Row(id)) /\ Submitted' = Submitted /\ time \in Nat
  BY DEF Row, Submitted, SimInv, Shape
<1>2. ASSUME NEW k \in Indices'
      PROVE  /\ history'[jobs'[k].job_id].first = -1 => jobs'[k].run_time # 0
             /\ IF jobs'[k].arrived
                THEN history'[jobs'[k].job_id].waited =
                       (time - Row(jobs'[k].job_id).arrival) - (Row(jobs'[k].job_id).run_time - jobs'[k].run_time)
                ELSE history'[jobs'[k].job_id].waited = 0 /\ history'[jobs'[k].job_id].first = -1
  <2>1. PICK m \in Indices : Follows(jobs'[k], jobs[m])
    OBVIOUS
  <2>2. PICK id \in Submitted : id = jobs[m].job_id
    BY DEF SimInv, FromTheFile
  <2>3. Row(id).arrival \in Nat /\ Row(id).run_time \in Int
    <3>1. Row(id).arrival \in Nat /\ Row(id).run_time \in RunTimes
      BY RowsOfTheFile
    <3>2. RunTimes \subseteq Nat
      BY InputsAssumption
    <3>3. Row(id).run_time \in Nat
      BY <3>1, <3>2
    <3> QED BY <3>1, <3>3
  <2>4. jobs'[k].job_id = id /\ jobs'[k].run_time = jobs[m].run_time
    BY <2>1, <2>2 DEF Follows
  <2>5. history'[id].first = history[id].first /\ history'[id].waited = history[id].waited
    BY DEF RecordsStay
  <2>6. history[id].first = -1 => jobs[m].run_time # 0
    BY <2>2 DEF HistoryKept
  <2>7. IF jobs[m].arrived
        THEN history[id].waited = (time - Row(id).arrival) - (Row(id).run_time - jobs[m].run_time)
        ELSE history[id].waited = 0 /\ history[id].first = -1
    BY <2>2 DEF Accounted
  <2>8. CASE jobs'[k].arrived = jobs[m].arrived
    BY <2>4, <2>5, <2>6, <2>7, <2>8
  <2>9. CASE /\ jobs'[k].arrived /\ ~ jobs[m].arrived
             /\ Row(id).arrival = time /\ jobs[m].run_time = Row(id).run_time
    BY <1>1, <2>3, <2>4, <2>5, <2>6, <2>7, <2>9
  <2> QED BY <2>1, <2>2, <2>8, <2>9 DEF Follows
<1>3. HistoryKept'
  <2>1. \A id \in Submitted : history'[id].first < time
    BY DEF HistoryKept, RecordsStay
  <2>2. \A id \in Submitted : history'[id].first = -1 => \E k \in Indices' : jobs'[k].job_id = id
    BY DEF RecordsStay, InArray
  <2> QED BY <1>1, <1>2, <2>1, <2>2 DEF HistoryKept, RecordsStay
<1>4. Accounted'
  <2>1. \A k \in Indices' :
          LET id == jobs'[k].job_id
          IN IF jobs'[k].arrived
             THEN history'[id].waited = (time - Row(id).arrival) - (Row(id).run_time - jobs'[k].run_time)
             ELSE history'[id].waited = 0 /\ history'[id].first = -1
    BY <1>2
  <2> QED BY <1>1, <2>1 DEF Accounted
<1> QED BY <1>3, <1>4

\* What update_core leaves: the record of a job that has run says so.
LEMMA UpdatedTells ==
  ASSUME SimInv, HistoryKept, StampsTrue, NEW u, u = update_core(time), NEW id \in DOMAIN job
  PROVE  /\ u[id].inserted = job[id].inserted /\ u[id] \in JobRecord
         /\ IF history[id].first = -1
            THEN u[id].remaining = u[id].running /\ (OnCore(id) => u[id].inserted = time)
            ELSE u[id].inserted = history[id].first /\ u[id].remaining # u[id].running
<1>1. time \in Nat /\ TypeOK /\ job[id] \in JobRecord
  BY DEF SimInv, Shape, PlacementInv, TypeOK
<1>2. /\ u[id] \in JobRecord /\ u[id].running = job[id].running /\ u[id].inserted = job[id].inserted
      /\ ~ OnCore(id) => u[id] = job[id]
  BY <1>1, UpdateCoreFields
<1>3. OnCore(id) => u[id].remaining = IF time # job[id].arrival
                                      THEN job[id].running - (time - job[id].inserted)
                                      ELSE job[id].remaining
  <2> SUFFICES ASSUME OnCore(id)  PROVE u[id].remaining = IF time # job[id].arrival
                                      THEN job[id].running - (time - job[id].inserted)
                                      ELSE job[id].remaining
    OBVIOUS
  <2>1. u[id] = IF time # job[id].arrival
                THEN [job[id] EXCEPT !.remaining = job[id].running - (time - job[id].inserted)]
                ELSE job[id]
    BY DEF update_core
  <2> QED BY <1>1, <2>1 DEF JobRecord
<1>4. job[id].arrival \in Nat /\ job[id].inserted \in Nat /\ job[id].running \in Nat /\ job[id].remaining \in Int
  BY <1>1 DEF JobRecord
<1>5. job[id].arrival <= job[id].inserted
  BY DEF SimInv, PlacementInv, JobsKnown
<1>6. id \in Submitted /\ history[id].first \in Int /\ history[id].first < time
  <2>1. id \in Submitted
    BY DEF SimInv, PlacementInv, JobsKnown, KnownJobs
  <2> QED BY <2>1 DEF HistoryKept
<1>7. CASE history[id].first = -1
  <2>1. job[id].remaining = job[id].running /\ (OnCore(id) => job[id].inserted = time)
    BY <1>7 DEF StampsTrue
  <2> QED BY <1>1, <1>2, <1>3, <1>4, <1>7, <2>1
<1>8. CASE history[id].first # -1
  <2>1. job[id].inserted = history[id].first /\ (~ OnCore(id) => job[id].remaining # job[id].running)
    BY <1>8 DEF StampsTrue
  <2>2. time # job[id].arrival /\ time # job[id].inserted
    BY <1>1, <1>4, <1>5, <1>6, <2>1
  <2>3. u[id].remaining # job[id].running
    <3>1. CASE OnCore(id)
      <4>1. u[id].remaining = job[id].running - (time - job[id].inserted)
        BY <1>3, <2>2, <3>1
      <4>2. PICK a \in Nat, b \in Nat, t \in Nat :
              a = job[id].running /\ b = job[id].inserted /\ t = time
        BY <1>1, <1>4
      <4>3. a - (t - b) # a
        BY <2>2, <4>2
      <4> QED BY <4>1, <4>2, <4>3
    <3>2. CASE ~ OnCore(id)
      BY <1>2, <2>1, <3>2
    <3> QED BY <3>1, <3>2
  <2> QED BY <1>2, <1>8, <2>1, <2>3
<1> QED BY <1>7, <1>8

\* A call that gives new a core, and stamps it if it has not run, keeps the
\* stamps true.
LEMMA CallsKeepStamps ==
  ASSUME SimInv, HistoryKept, StampsTrue, time' = time, NEW u, u = update_core(time), NEW new,
         \A id \in DOMAIN job' \cap DOMAIN job :
            /\ history'[id].first = history[id].first
            /\ OnCore(id)' => OnCore(id) \/ id = new
            /\ IF id = new /\ u[id].remaining = u[id].running
               THEN job'[id] = [u[id] EXCEPT !.inserted = time]
               ELSE job'[id] = u[id],
         \A id \in DOMAIN job' \ DOMAIN job :
            /\ history'[id].first = -1
            /\ job'[id].remaining = job'[id].running /\ job'[id].inserted = time
  PROVE  StampsTrue'
<1>1. ASSUME NEW id \in DOMAIN job' \cap DOMAIN job
      PROVE  IF history'[id].first = -1
             THEN job'[id].remaining = job'[id].running /\ (OnCore(id)' => job'[id].inserted = time)
             ELSE job'[id].inserted = history'[id].first /\ (~ OnCore(id)' => job'[id].remaining # job'[id].running)
  <2>1. /\ u[id] \in JobRecord
        /\ IF history[id].first = -1
           THEN u[id].remaining = u[id].running /\ (OnCore(id) => u[id].inserted = time)
           ELSE u[id].inserted = history[id].first /\ u[id].remaining # u[id].running
    BY UpdatedTells
  <2>2. CASE id = new /\ u[id].remaining = u[id].running
    <3>1. history'[id].first = -1
      BY <2>1, <2>2
    <3>2. job'[id] = [u[id] EXCEPT !.inserted = time]
      BY <2>2
    <3> QED BY <2>1, <2>2, <3>1, <3>2 DEF JobRecord
  <2>3. CASE ~ (id = new /\ u[id].remaining = u[id].running)
    <3>1. job'[id] = u[id]
      BY <2>3
    <3> QED BY <2>1, <2>3, <3>1
  <2> QED BY <2>2, <2>3
<1> QED BY <1>1 DEF StampsTrue

-----------------------------------------------------------------------------
\* The totals.

Done == {id \in Submitted : history[id].finish # -1}
Turnarounds == [id \in Submitted |-> history[id].finish - Row(id).arrival]
TimesWaited == [id \in Submitted |-> history[id].waited]
Responses == [id \in Submitted |-> history[id].first - Row(id).arrival]

\* StatsTrue, with the sums of this module.
StatsAddUp ==
  /\ stats.scheduled = Cardinality(Done)
  /\ stats.turnaround = Sum(Turnarounds, Done)
  /\ stats.waiting = Sum(TimesWaited, Done)
  /\ stats.response = Sum(Responses, Done)

LEMMA DoneFinite ==
  SimInv => IsFiniteSet(Submitted) /\ IsFiniteSet(Done) /\ Done \subseteq Submitted
<1> SUFFICES ASSUME SimInv  PROVE IsFiniteSet(Submitted) /\ IsFiniteSet(Done) /\ Done \subseteq Submitted
  OBVIOUS
<1>1. PICK n \in Nat : n = Len(table)
  BY TablesAssumption, LenProperties DEF SimInv, Shape
<1>2. IsFiniteSet(0..(n - 1))
  BY <1>1, FS_Interval
<1>3. Done \subseteq Submitted
  BY DEF Done
<1> QED BY <1>1, <1>2, <1>3, FS_Subset DEF Submitted

\* A recursion that adds up the same is a sum of this module.
LEMMA StatsAsSums == SimInv => (StatsTrue <=> StatsAddUp)
<1> SUFFICES ASSUME SimInv  PROVE StatsTrue <=> StatsAddUp
  OBVIOUS
<1>1. PICK D : D = Done /\ D \subseteq Submitted /\ IsFiniteSet(D)
  BY DoneFinite
<1>2. MapThenSumSet(LAMBDA id : history[id].finish - Row(id).arrival, D) = Sum(Turnarounds, D)
  <2> DEFINE Adds(h) == h = [s \in SUBSET D |->
                              IF s = {} THEN 0
                              ELSE history[CHOOSE x \in s : TRUE].finish - Row(CHOOSE x \in s : TRUE).arrival
                                     + h[s \ {CHOOSE x \in s : TRUE}]]
  <2>1. PICK g, f : g = Turnarounds /\ f = CHOOSE h : Adds(h)
    OBVIOUS
  <2>2. MapThenSumSet(LAMBDA id : history[id].finish - Row(id).arrival, D) = f[D]
    BY <2>1 DEF MapThenSumSet, MapThenFoldSet
  <2>3. \A s \in SUBSET D : s # {} => g[Choice(s)] = history[Choice(s)].finish - Row(Choice(s)).arrival
    BY <1>1, <2>1, ChoiceIn DEF Turnarounds
  <2>4. ASSUME NEW h  PROVE AddsUp(h, SUBSET D, g) <=> Adds(h)
    BY <2>3 DEF AddsUp, Choice
  <2> HIDE DEF Adds
  <2>5. PICK h : h = CHOOSE r : AddsUp(r, SUBSET D, g)
    OBVIOUS
  <2>6. AddsUp(h, SUBSET D, g)
    BY <1>1, <2>5, FoldExists
  <2>7. Adds(f)
    BY <2>1, <2>4, <2>6
  <2>8. f[D] = h[D]
    BY <1>1, <2>4, <2>6, <2>7, FoldsAgree
  <2> QED BY <2>1, <2>2, <2>5, <2>8 DEF Sum
<1>3. MapThenSumSet(LAMBDA id : history[id].waited, D) = Sum(TimesWaited, D)
  <2> DEFINE Adds(h) == h = [s \in SUBSET D |->
                              IF s = {} THEN 0
                              ELSE history[CHOOSE x \in s : TRUE].waited
                                     + h[s \ {CHOOSE x \in s : TRUE}]]
  <2>1. PICK g, f : g = TimesWaited /\ f = CHOOSE h : Adds(h)
    OBVIOUS
  <2>2. MapThenSumSet(LAMBDA id : history[id].waited, D) = f[D]
    BY <2>1 DEF MapThenSumSet, MapThenFoldSet
  <2>3. \A s \in SUBSET D : s # {} => g[Choice(s)] = history[Choice(s)].waited
    BY <1>1, <2>1, ChoiceIn DEF TimesWaited
  <2>4. ASSUME NEW h  PROVE AddsUp(h, SUBSET D, g) <=> Adds(h)
    BY <2>3 DEF AddsUp, Choice
  <2> HIDE DEF Adds
  <2>5. PICK h : h = CHOOSE r : AddsUp(r, SUBSET D, g)
    OBVIOUS
  <2>6. AddsUp(h, SUBSET D, g)
    BY <1>1, <2>5, FoldExists
  <2>7. Adds(f)
    BY <2>1, <2>4, <2>6
  <2>8. f[D] = h[D]
    BY <1>1, <2>4, <2>6, <2>7, FoldsAgree
  <2> QED BY <2>1, <2>2, <2>5, <2>8 DEF Sum
<1>4. MapThenSumSet(LAMBDA id : history[id].first - Row(id).arrival, D) = Sum(Responses, D)
  <2> DEFINE Adds(h) == h = [s \in SUBSET D |->
                              IF s = {} THEN 0
                              ELSE history[CHOOSE x \in s : TRUE].first - Row(CHOOSE x \in s : TRUE).arrival
                                     + h[s \ {CHOOSE x \in s : TRUE}]]
  <2>1. PICK g, f : g = Responses /\ f = CHOOSE h : Adds(h)
    OBVIOUS
  <2>2. MapThenSumSet(LAMBDA id : history[id].first - Row(id).arrival, D) = f[D]
    BY <2>1 DEF MapThenSumSet, MapThenFoldSet
  <2>3. \A s \in SUBSET D : s # {} => g[Choice(s)] = history[Choice(s)].first - Row(Choice(s)).arrival
    BY <1>1, <2>1, ChoiceIn DEF Responses
  <2>4. ASSUME NEW h  PROVE AddsUp(h, SUBSET D, g) <=> Adds(h)
    BY <2>3 DEF AddsUp, Choice
  <2> HIDE DEF Adds
  <2>5. PICK h : h = CHOOSE r : AddsUp(r, SUBSET D, g)
    OBVIOUS
  <2>6. AddsUp(h, SUBSET D, g)
    BY <1>1, <2>5, FoldExists
  <2>7. Adds(f)
    BY <2>1, <2>4, <2>6
  <2>8. f[D] = h[D]
    BY <1>1, <2>4, <2>6, <2>7, FoldsAgree
  <2> QED BY <2>1, <2>2, <2>5, <2>8 DEF Sum
<1> QED BY <1>1, <1>2, <1>3, <1>4 DEF StatsTrue, StatsAddUp, Done

\* What is added up is whole numbers.
LEMMA SharesType ==
  ASSUME SimInv, HistoryKept
  PROVE  \A id \in Submitted : Turnarounds[id] \in Int /\ TimesWaited[id] \in Int /\ Responses[id] \in Int
<1> SUFFICES ASSUME NEW id \in Submitted
             PROVE  Turnarounds[id] \in Int /\ TimesWaited[id] \in Int /\ Responses[id] \in Int
  OBVIOUS
<1>1. Row(id).arrival \in Nat
  BY RowsOfTheFile
<1>2. history[id].finish \in Int /\ history[id].first \in Int /\ history[id].waited \in Int
  BY DEF HistoryKept
<1> QED BY <1>1, <1>2 DEF Turnarounds, TimesWaited, Responses

\* As long as nobody finishes, the totals do not change.
LEMMA TotalsStay ==
  ASSUME SimInv, HistoryKept, StatsAddUp, stats' = stats, table' = table,
         \A id \in Submitted : history'[id].finish = -1 <=> history[id].finish = -1,
         \A id \in Done : history'[id] = history[id]
  PROVE  StatsAddUp'
<1>1. (\A id : Row(id)' = Row(id)) /\ Submitted' = Submitted
  BY DEF Row, Submitted
<1>2. Done' = Done
  BY <1>1 DEF Done
<1>3. PICK D : D = Done /\ D \subseteq Submitted /\ IsFiniteSet(D)
  BY DoneFinite
<1>4. Sum(Turnarounds', D) = Sum(Turnarounds, D)
  <2>1. PICK g, k : g = Turnarounds' /\ k = Turnarounds
    OBVIOUS
  <2>2. \A id \in D : g[id] = k[id]
    BY <1>1, <1>3, <2>1 DEF Turnarounds
  <2> QED BY <1>3, <2>1, <2>2, SumSame
<1>5. Sum(TimesWaited', D) = Sum(TimesWaited, D)
  <2>1. PICK g, k : g = TimesWaited' /\ k = TimesWaited
    OBVIOUS
  <2>2. \A id \in D : g[id] = k[id]
    BY <1>1, <1>3, <2>1 DEF TimesWaited
  <2> QED BY <1>3, <2>1, <2>2, SumSame
<1>6. Sum(Responses', D) = Sum(Responses, D)
  <2>1. PICK g, k : g = Responses' /\ k = Responses
    OBVIOUS
  <2>2. \A id \in D : g[id] = k[id]
    BY <1>1, <1>3, <2>1 DEF Responses
  <2> QED BY <1>3, <2>1, <2>2, SumSame
<1> QED BY <1>2, <1>3, <1>4, <1>5, <1>6 DEF StatsAddUp, Sum

\* The sum over one element more.
LEMMA SumGrows ==
  ASSUME NEW D, IsFiniteSet(D), NEW x, x \notin D, NEW g, NEW k,
         \A y \in D : k[y] = g[y] /\ g[y] \in Int, k[x] \in Int,
         NEW E, E = D \union {x}
  PROVE  Sum(k, E) = Sum(g, D) + k[x]
<1>1. IsFiniteSet(E) /\ x \in E /\ E \ {x} = D /\ \A y \in E : k[y] \in Int
  BY FS_AddElement
<1>2. Sum(k, E) = k[x] + Sum(k, D)
  <2>1. Sum(k, E) = k[x] + Sum(k, E \ {x})
    BY <1>1, SumRemove
  <2> QED BY <1>1, <2>1
<1>3. Sum(k, D) = Sum(g, D) /\ Sum(g, D) \in Int
  BY SumSame, SumType
<1> QED BY <1>2, <1>3

\* A job that finishes adds its own times to the totals.
LEMMA TotalsGrow ==
  ASSUME SimInv, HistoryKept, StatsAddUp, table' = table,
         NEW gone \in Submitted, history[gone].finish = -1, NEW t \in Nat,
         \A id \in Submitted : /\ history'[id].first = history[id].first
                               /\ history'[id].waited = history[id].waited
                               /\ history'[id].finish = IF id = gone THEN t ELSE history[id].finish,
         stats'.scheduled = stats.scheduled + 1,
         stats'.turnaround = stats.turnaround + (t - Row(gone).arrival),
         stats'.waiting = stats.waiting + history[gone].waited,
         stats'.response = stats.response + (history[gone].first - Row(gone).arrival)
  PROVE  StatsAddUp'
<1>1. (\A id : Row(id)' = Row(id)) /\ Submitted' = Submitted
  BY DEF Row, Submitted
<1>2. PICK D : D = Done /\ D \subseteq Submitted /\ IsFiniteSet(D) /\ gone \notin D
  BY DoneFinite DEF Done
<1>3. PICK E : E = Done' /\ E = D \union {gone}
  <2>1. Done' = D \union {gone}
    BY <1>1, <1>2 DEF Done
  <2> QED BY <2>1
<1>4. /\ Row(gone).arrival \in Nat /\ history[gone].first \in Int /\ history[gone].waited \in Int
      /\ \A id \in Submitted : Turnarounds[id] \in Int /\ TimesWaited[id] \in Int /\ Responses[id] \in Int
  BY RowsOfTheFile, SharesType DEF HistoryKept
<1>5. stats'.scheduled = Cardinality(Done')
  <2>1. Cardinality(D \union {gone}) = Cardinality(D) + 1
    BY <1>2, FS_AddElement
  <2> QED BY <1>2, <1>3, <2>1 DEF StatsAddUp
<1>6. stats'.turnaround = Sum(Turnarounds', Done')
  <2>1. PICK g, k : g = Turnarounds /\ k = Turnarounds'
    OBVIOUS
  <2>2. (\A id \in D : k[id] = g[id] /\ g[id] \in Int) /\ k[gone] = t - Row(gone).arrival
    BY <1>1, <1>2, <1>4, <2>1 DEF Turnarounds
  <2>3. k[gone] \in Int
    BY <1>4, <2>2
  <2>4. Sum(k, E) = Sum(g, D) + k[gone]
    BY <1>2, <1>3, <2>2, <2>3, SumGrows
  <2> QED BY <1>2, <1>3, <2>1, <2>2, <2>4 DEF StatsAddUp
<1>7. stats'.waiting = Sum(TimesWaited', Done')
  <2>1. PICK g, k : g = TimesWaited /\ k = TimesWaited'
    OBVIOUS
  <2>2. (\A id \in D : k[id] = g[id] /\ g[id] \in Int) /\ k[gone] = history[gone].waited
    BY <1>1, <1>2, <1>4, <2>1 DEF TimesWaited
  <2>3. k[gone] \in Int
    BY <1>4, <2>2
  <2>4. Sum(k, E) = Sum(g, D) + k[gone]
    BY <1>2, <1>3, <2>2, <2>3, SumGrows
  <2> QED BY <1>2, <1>3, <2>1, <2>2, <2>4 DEF StatsAddUp
<1>8. stats'.response = Sum(Responses', Done')
  <2>1. PICK g, k : g = Responses /\ k = Responses'
    OBVIOUS
  <2>2. (\A id \in D : k[id] = g[id] /\ g[id] \in Int) /\ k[gone] = history[gone].first - Row(gone).arrival
    BY <1>1, <1>2, <1>4, <2>1 DEF Responses
  <2>3. k[gone] \in Int
    BY <1>4, <2>2
  <2>4. Sum(k, E) = Sum(g, D) + k[gone]
    BY <1>2, <1>3, <2>2, <2>3, SumGrows
  <2> QED BY <1>2, <1>3, <2>1, <2>2, <2>4 DEF StatsAddUp
<1> QED BY <1>5, <1>6, <1>7, <1>8 DEF StatsAddUp
-----------------------------------------------------------------------------
\* The books of the simulation, call by call.

Books == JobsAsFiled /\ HistoryKept /\ StampsTrue /\ Accounted /\ StatsAddUp

SameJob(s, r) == s.job_id = r.job_id /\ s.run_time = r.run_time /\ s.arrived = r.arrived

LEMMA FinishRows ==
  ASSUME SimInv, NEW i \in Indices, NEW c \in Cores, NEW new,
         jobs' = set_active_job(new, c, Delete(jobs, i))
  PROVE  /\ \A k \in Indices' : \E m \in Indices : m # i /\ SameJob(jobs'[k], jobs[m])
         /\ \A m \in Indices : m # i => \E k \in Indices' : SameJob(jobs'[k], jobs[m])
<1>1. jobs \in Seq(JobRow) /\ Distinct(jobs) /\ i \in 1..Len(jobs)
  BY DEF SimInv, Shape, FromTheFile, Indices
<1>2. PICK rest \in Seq(JobRow) :
        /\ rest = Delete(jobs, i) /\ Distinct(rest)
        /\ \A k \in 1..Len(rest) : \E m \in Indices : m # i /\ rest[k] = jobs[m]
        /\ \A m \in Indices : m # i => \E k \in 1..Len(rest) : rest[k] = jobs[m]
  BY <1>1, DeleteRemoves DEF Indices
<1>3. PICK r : r = set_active_job(new, c, rest) /\ jobs' = r
  BY <1>2
<1>4. Len(r) = Len(rest) /\ \A k \in 1..Len(rest) : SameJob(r[k], rest[k])
  BY <1>2, <1>3, SetActiveMoves DEF Placed, SameJob
<1>5. Indices' = 1..Len(rest)
  BY <1>3, <1>4 DEF Indices
<1>6. ASSUME NEW k \in Indices'  PROVE \E m \in Indices : m # i /\ SameJob(jobs'[k], jobs[m])
  <2>1. PICK m \in Indices : m # i /\ rest[k] = jobs[m]
    BY <1>2, <1>5
  <2> QED BY <1>3, <1>4, <1>5, <2>1
<1>7. ASSUME NEW m \in Indices, m # i  PROVE \E k \in Indices' : SameJob(jobs'[k], jobs[m])
  <2>1. PICK k \in 1..Len(rest) : rest[k] = jobs[m]
    BY <1>2, <1>7
  <2> QED BY <1>3, <1>4, <1>5, <2>1
<1> QED BY <1>6, <1>7

\* A job that finishes has run: its times go into the totals.
LEMMA FinishJobBooks ==
  ASSUME Times = Nat, SimInv, Books, NEW i \in Indices, FinishJob(i)
  PROVE  Books'
<1>1. PICK c \in Cores, new \in JobNumbers \union {NoJob} :
           /\ JobFinished(c, time)
           /\ jobs[i].core_id = c /\ jobs[i].run_time = 0 /\ jobs[i].arrived
           /\ job_list[c] = jobs[i].job_id
           /\ jobs' = set_active_job(new, c, Delete(jobs, i))
           /\ job_list' = [job_list EXCEPT ![c] = new]
           /\ DOMAIN job' = DOMAIN job \ {jobs[i].job_id}
  BY FinishCalls
<1>2. /\ UNCHANGED <<table, time>>
      /\ history' = [history EXCEPT ![jobs[i].job_id].finish = time]
  BY DEF FinishJob
<1>3. PICK gone : gone = jobs[i].job_id /\ gone \in Submitted
  BY DEF SimInv, FromTheFile
<1>4. /\ (\A id : Row(id)' = Row(id)) /\ Submitted' = Submitted
      /\ time \in Nat /\ time \in Times
  BY <1>2 DEF Row, Submitted, SimInv, Shape
<1>5. JobsAsFiled /\ HistoryKept /\ StampsTrue /\ Accounted /\ StatsAddUp /\ TypeOK
  BY DEF Books, SimInv, PlacementInv
<1>6. /\ history' \in [Submitted -> [first : Int, finish : Int, waited : Int, since : Int]]
      /\ \A id \in Submitted : /\ history'[id].first = history[id].first
                               /\ history'[id].waited = history[id].waited
                               /\ history'[id].finish = IF id = gone THEN time ELSE history[id].finish
  <2>1. PICK h \in [first : Int, finish : Int, waited : Int, since : Int] : h = history[gone]
    BY <1>3, <1>5 DEF HistoryKept
  <2>2. PICK k : k = [h EXCEPT !.finish = time]
    OBVIOUS
  <2>3. /\ k \in [first : Int, finish : Int, waited : Int, since : Int]
        /\ k.first = h.first /\ k.waited = h.waited /\ k.finish = time
    BY <1>4, <2>2
  <2>4. history' = [history EXCEPT ![gone] = k]
    BY <1>2, <1>3, <2>1, <2>2
  <2> QED BY <1>3, <1>5, <2>1, <2>3, <2>4 DEF HistoryKept
<1>7. history[gone].first # -1 /\ history[gone].finish = -1
  BY <1>1, <1>3, <1>5 DEF HistoryKept, Accounted, InArray
<1>8. JobsAsFiled'
  <2>1. \A j \in DOMAIN job' : /\ job'[j].arrival = job[j].arrival
                               /\ job'[j].running = job[j].running
                               /\ job'[j].priority = job[j].priority
    <3>1. m_job_queue # <<>> => Head(m_job_queue) \in DOMAIN job \ {job_list[c]}
      BY Waits
    <3>2. DOMAIN job' = DOMAIN job \ {job_list[c]}
      BY <1>1
    <3> QED BY <1>1, <1>4, <1>5, <3>1, <3>2, FinishedFields
  <2>2. DOMAIN job' \subseteq DOMAIN job
    BY <1>1
  <2> QED BY <1>4, <1>5, <2>1, <2>2 DEF JobsAsFiled
<1>9. /\ \A k \in Indices' : \E m \in Indices : m # i /\ SameJob(jobs'[k], jobs[m])
      /\ \A m \in Indices : m # i => \E k \in Indices' : SameJob(jobs'[k], jobs[m])
  BY <1>1, FinishRows
<1>10. \A id : InArray(id)' <=> InArray(id) /\ id # gone
  <2>1. \A m \in Indices : jobs[m].job_id = gone <=> m = i
    BY <1>3 DEF SimInv, FromTheFile, Distinct, Indices
  <2> QED BY <1>9, <2>1 DEF InArray, SameJob
<1>11. HistoryKept' /\ Accounted'
  <2>1. RecordsStay
    BY <1>6 DEF RecordsStay
  <2>2. \A k \in Indices' : \E m \in Indices : Follows(jobs'[k], jobs[m])
    BY <1>9 DEF Follows, SameJob
  <2>3. \A id \in Submitted : history'[id].finish = -1 <=> InArray(id)'
    BY <1>4, <1>5, <1>6, <1>10 DEF Accounted
  <2>4. \A id \in Submitted : history[id].first = -1 => InArray(id)'
    BY <1>5, <1>7, <1>10 DEF HistoryKept, InArray
  <2> QED BY <1>2, <1>5, <2>1, <2>2, <2>3, <2>4, CallsKeepRecords
<1>12. StampsTrue'
  <2>1. PICK u : u = update_core(time)
    OBVIOUS
  <2>2. PICK heap : heap = [k \in DOMAIN job \ {gone} |-> u[k]]
    OBVIOUS
  <2>3. scheduler_job_finished(c, time, new)
    BY <1>1, <1>5 DEF JobFinished, scheduler_job_finished, TypeOK
  <2>4. \/ m_job_queue = <<>> /\ new = NoJob /\ job' = heap
        \/ m_job_queue # <<>> /\ new = Head(m_job_queue) /\ job' = Dispatched(heap, new, time)
    BY <1>1, <1>3, <2>1, <2>2, <2>3 DEF scheduler_job_finished
  <2>5. ASSUME NEW id \in DOMAIN job'
        PROVE  IF id = new /\ u[id].remaining = u[id].running
               THEN job'[id] = [u[id] EXCEPT !.inserted = time]
               ELSE job'[id] = u[id]
    <3>1. id \in DOMAIN heap /\ heap[id] = u[id] /\ id # NoJob
      BY <1>1, <1>3, <1>5, <2>2, NoJobAssumption DEF TypeOK
    <3>2. CASE m_job_queue = <<>>
      BY <2>4, <3>1, <3>2
    <3>3. CASE m_job_queue # <<>>
      BY <2>4, <3>1, <3>3 DEF Dispatched
    <3> QED BY <3>2, <3>3
  <2>6. \A id : OnCore(id)' => OnCore(id) \/ id = new
    BY <1>1, <1>5 DEF OnCore, TypeOK
  <2>7. \A id \in DOMAIN job' : id \in DOMAIN job /\ id \in Submitted
    BY <1>1 DEF SimInv, KnownJobs, PlacementInv, JobsKnown
  <2> QED BY <1>2, <1>5, <1>6, <2>1, <2>5, <2>6, <2>7, CallsKeepStamps
<1>13. StatsAddUp'
  <2>1. gone \in DOMAIN job /\ job[gone] \in JobRecord
    BY <1>1, <1>3, <1>5 DEF SimInv, KnownJobs, TypeOK
  <2>2. PICK jb \in JobRecord : jb = job[gone]
    BY <2>1
  <2>3. stats' = [waiting |-> stats.waiting + (time - jb.arrival) - jb.running,
                  turnaround |-> stats.turnaround + (time - jb.arrival),
                  response |-> stats.response + jb.inserted - jb.arrival,
                  scheduled |-> stats.scheduled + 1]
    <3>1. PlacementInv /\ time \in Times /\ JobFinished(c, time)
      BY <1>1, <1>4 DEF SimInv
    <3>2. stats' = [waiting |-> stats.waiting + (time - job[job_list[c]].arrival) - job[job_list[c]].running,
                    turnaround |-> stats.turnaround + (time - job[job_list[c]].arrival),
                    response |-> stats.response + job[job_list[c]].inserted - job[job_list[c]].arrival,
                    scheduled |-> stats.scheduled + 1]
      BY <3>1, JobFinishedPlaces
    <3> QED BY <1>1, <1>3, <2>2, <3>2
  <2>4. /\ jb.arrival = Row(gone).arrival /\ jb.running = Row(gone).run_time
        /\ jb.inserted = history[gone].first
    BY <1>5, <1>7, <2>1, <2>2 DEF JobsAsFiled, StampsTrue
  <2>5. history[gone].waited = (time - jb.arrival) - jb.running
    <3>1. history[gone].waited = (time - jb.arrival) - (jb.running - 0)
      BY <1>1, <1>3, <1>5, <2>4 DEF Accounted
    <3> QED BY <3>1 DEF JobRecord
  <2>6. /\ stats.waiting \in Int /\ stats.response \in Int /\ jb.arrival \in Nat
        /\ jb.running \in Nat /\ jb.inserted \in Nat
    BY <1>5 DEF TypeOK, JobRecord
  <2>7. /\ stats'.scheduled = stats.scheduled + 1
        /\ stats'.turnaround = stats.turnaround + (time - Row(gone).arrival)
        /\ stats'.waiting = stats.waiting + history[gone].waited
        /\ stats'.response = stats.response + (history[gone].first - Row(gone).arrival)
    BY <1>4, <2>3, <2>4, <2>5, <2>6
  <2>8. PICK t \in Nat : t = time
    BY <1>4
  <2> QED BY <1>2, <1>3, <1>5, <1>6, <1>7, <2>7, <2>8, TotalsGrow
<1> QED BY <1>8, <1>11, <1>12, <1>13 DEF Books

\* An expired quantum moves jobs from core to core and nothing else.
LEMMA ExpireRows ==
  ASSUME SimInv, NEW j \in Indices, NEW c \in Cores, NEW new,
         jobs' = set_active_job(new, c, [jobs EXCEPT ![j].core_id = NoCore])
  PROVE  Indices' = Indices /\ \A k \in Indices : SameJob(jobs'[k], jobs[k])
<1>1. /\ jobs \in Seq(JobRow) /\ Distinct(jobs) /\ Len(jobs) \in Nat
      /\ j \in 1..Len(jobs) /\ jobs[j] \in JobRow
  BY Numbers DEF SimInv, Shape, FromTheFile, Indices
<1>2. PICK s : s = [jobs[j] EXCEPT !.core_id = NoCore]
  OBVIOUS
<1>3. s \in JobRow /\ SameJob(s, jobs[j])
  BY <1>1, <1>2 DEF SameJob, JobRow
<1>4. PICK t : t = [jobs EXCEPT ![j] = s]
  OBVIOUS
<1>5. \A k \in Indices : t[k] = IF k = j THEN s ELSE jobs[k]
  BY <1>1, <1>4, LenProperties DEF Indices
<1>6. t \in Seq(JobRow) /\ Len(t) = Len(jobs)
  <2>1. t \in [1..Len(jobs) -> JobRow]
    BY <1>1, <1>3, <1>4, LenProperties
  <2> QED BY <1>1, <2>1, ArrayIs
<1>7. \A k \in Indices : SameJob(t[k], jobs[k])
  BY <1>3, <1>5 DEF SameJob
<1>8. Distinct(t)
  BY <1>1, <1>6, <1>7 DEF Distinct, SameJob, Indices
<1>9. PICK r : r = set_active_job(new, c, t) /\ r = jobs'
  BY <1>2, <1>4
<1>10. Len(r) = Len(t) /\ \A k \in 1..Len(t) : SameJob(r[k], t[k])
  <2>1. t \in Seq(JobRow) /\ Distinct(t) /\ r = set_active_job(new, c, t)
    BY <1>6, <1>8, <1>9
  <2>2. /\ Len(r) = Len(t)
        /\ \A k \in 1..Len(t) :
             Placed(r[k], t[k], IF t[k].job_id = new /\ t[k].arrived THEN c ELSE t[k].core_id)
    BY <2>1, SetActiveMoves
  <2> QED BY <2>2 DEF Placed, SameJob
<1>11. Indices' = Indices
  BY <1>6, <1>9, <1>10 DEF Indices
<1>12. \A k \in Indices : SameJob(jobs'[k], jobs[k])
  BY <1>6, <1>7, <1>9, <1>10 DEF Indices, SameJob
<1> QED BY <1>11, <1>12

LEMMA ExpireQuantumBooks ==
  ASSUME Times = Nat, SimInv, Books, NEW c \in Cores, ExpireQuantum(c)
  PROVE  Books'
<1>1. PICK j \in Indices, new \in JobNumbers :
           /\ QuantumExpired(c, time) /\ jobs[j].core_id = c /\ jobs[j].arrived
           /\ jobs' = set_active_job(new, c, [jobs EXCEPT ![j].core_id = NoCore])
           /\ status' = IF Selectable([jobs EXCEPT ![j].core_id = NoCore], new) = {}
                        THEN "invalid_job" ELSE status
           /\ job_list' = [job_list EXCEPT ![c] = new] /\ DOMAIN job' = DOMAIN job
  BY ExpireCalls
<1>2. UNCHANGED <<table, time, history>>
  BY DEF ExpireQuantum
<1>3. /\ (\A id : Row(id)' = Row(id)) /\ Submitted' = Submitted
      /\ time \in Nat /\ time \in Times
  BY <1>2 DEF Row, Submitted, SimInv, Shape
<1>4. JobsAsFiled /\ HistoryKept /\ StampsTrue /\ Accounted /\ StatsAddUp /\ TypeOK
  BY DEF Books, SimInv, PlacementInv
<1>5. Indices' = Indices /\ \A k \in Indices : SameJob(jobs'[k], jobs[k])
  BY <1>1, ExpireRows
<1>6. \A id : InArray(id)' <=> InArray(id)
  BY <1>5 DEF InArray, SameJob
<1>7. HistoryKept' /\ Accounted'
  <2>1. RecordsStay
    BY <1>2, <1>4 DEF RecordsStay, HistoryKept
  <2>2. \A k \in Indices' : \E m \in Indices : Follows(jobs'[k], jobs[m])
    BY <1>5 DEF Follows, SameJob
  <2>3. \A id \in Submitted : history'[id].finish = -1 <=> InArray(id)'
    BY <1>2, <1>4, <1>6 DEF Accounted
  <2>4. \A id \in Submitted : history[id].first = -1 => InArray(id)'
    BY <1>4, <1>6 DEF HistoryKept, InArray
  <2> QED BY <1>2, <1>4, <2>1, <2>2, <2>3, <2>4, CallsKeepRecords
<1>8. PICK u : u = update_core(time)
  OBVIOUS
<1>9. stats' = stats /\ job' = Dispatched(u, new, time)
  <2>1. scheduler_quantum_expired(c, time, new)
    BY <1>1, <1>4 DEF QuantumExpired, scheduler_quantum_expired, TypeOK
  <2> QED BY <1>8, <2>1 DEF scheduler_quantum_expired
<1>10. \A id \in DOMAIN job :
         IF id = new /\ u[id].remaining = u[id].running
         THEN job'[id] = [u[id] EXCEPT !.inserted = time]
         ELSE job'[id] = u[id]
  <2>1. DOMAIN u = DOMAIN job
    BY <1>8 DEF update_core
  <2> QED BY <1>9, <2>1 DEF Dispatched
<1>11. JobsAsFiled'
  <2>1. /\ u \in [DOMAIN job -> JobRecord]
        /\ \A k \in DOMAIN job : /\ u[k].arrival = job[k].arrival /\ u[k].running = job[k].running
                                 /\ u[k].priority = job[k].priority
    BY <1>3, <1>4, <1>8, UpdateCoreFields
  <2>2. \A k \in DOMAIN job : /\ job'[k].arrival = u[k].arrival /\ job'[k].running = u[k].running
                              /\ job'[k].priority = u[k].priority
    BY <1>10, <2>1 DEF JobRecord
  <2> QED BY <1>1, <1>3, <1>4, <2>1, <2>2 DEF JobsAsFiled
<1>12. StampsTrue'
  <2>1. \A id : OnCore(id)' => OnCore(id) \/ id = new
    BY <1>1, <1>4 DEF OnCore, TypeOK
  <2>2. DOMAIN job' \cap DOMAIN job = DOMAIN job /\ DOMAIN job' \ DOMAIN job = {}
    BY <1>1
  <2>3. \A id \in DOMAIN job' \cap DOMAIN job :
            /\ history'[id].first = history[id].first
            /\ OnCore(id)' => OnCore(id) \/ id = new
            /\ IF id = new /\ u[id].remaining = u[id].running
               THEN job'[id] = [u[id] EXCEPT !.inserted = time]
               ELSE job'[id] = u[id]
    BY <1>2, <1>10, <2>1, <2>2
  <2> QED BY <1>2, <1>4, <1>8, <2>2, <2>3, CallsKeepStamps
<1>13. StatsAddUp'
  BY <1>2, <1>4, <1>9, TotalsStay
<1> QED BY <1>7, <1>11, <1>12, <1>13 DEF Books

\* A job that arrives has neither run nor waited.
LEMMA ArriveBooks ==
  ASSUME Times = Nat, SimInv, Books, NEW i \in Indices, Arrive(i)
  PROVE  Books'
<1>1. PICK id : id = jobs[i].job_id /\ id \in Submitted /\ id \in JobNumbers /\ id # NoJob
  BY Numbers DEF SimInv, FromTheFile
<1>2. /\ ~ jobs[i].arrived /\ jobs[i].arrival_time = time /\ jobs[i].core_id = NoCore
      /\ jobs[i].run_time = Row(id).run_time /\ jobs[i].priority = Row(id).priority
      /\ Row(id).arrival = time /\ id \notin DOMAIN job
      /\ UNCHANGED <<table, time, history>>
  BY <1>1, ArriveCalls DEF Arrive, FirstIn, Arriving, SimInv, FromTheFile
<1>3. PICK core \in Cores \union {NoCore} :
        /\ scheduler_new_job(id, time, jobs[i].run_time, jobs[i].priority, core)
        /\ jobs' = IF core = NoCore THEN [jobs EXCEPT ![i].arrived = TRUE] ELSE TakeCore(i, core)
  BY <1>1 DEF Arrive
<1>4. (\A n : Row(n)' = Row(n)) /\ Submitted' = Submitted /\ time \in Nat
  BY <1>2 DEF Row, Submitted, SimInv, Shape
<1>5. JobsAsFiled /\ HistoryKept /\ StampsTrue /\ Accounted /\ StatsAddUp /\ TypeOK
  BY DEF Books, SimInv, PlacementInv
<1>6. PICK u : u = update_core(time)
  OBVIOUS
<1>7. PICK h : /\ job' = h /\ DOMAIN h = DOMAIN job \union {id}
               /\ h[id].arrival = time /\ h[id].running = Row(id).run_time /\ h[id].priority = Row(id).priority
               /\ h[id].remaining = h[id].running /\ h[id].inserted = time
               /\ \A k \in DOMAIN job : h[k] = u[k]
  <2>1. PICK r \in RunTimes, p \in Priorities : r = jobs[i].run_time /\ p = jobs[i].priority
    BY <1>1, <1>2, RowsOfTheFile
  <2>2. PICK h : h = NewHeap(id, time, r, p)
    OBVIOUS
  <2>3. job' = h
    BY <1>3, <2>1, <2>2 DEF scheduler_new_job, NewHeap
  <2>4. /\ DOMAIN h = DOMAIN job \union {id}
        /\ h[id] = New_Job(time, r, p)
        /\ \A k \in DOMAIN job : h[k] = u[k]
    BY <1>2, <1>6, <2>2 DEF NewHeap
  <2>5. /\ h[id].arrival = time /\ h[id].running = r /\ h[id].priority = p
        /\ h[id].remaining = r /\ h[id].inserted = time
    BY <2>4 DEF New_Job
  <2> QED BY <1>2, <2>1, <2>3, <2>4, <2>5
<1>8. JobsAsFiled'
  <2>1. \A k \in DOMAIN job : /\ h[k].arrival = job[k].arrival /\ h[k].running = job[k].running
                              /\ h[k].priority = job[k].priority
    BY <1>4, <1>5, <1>6, <1>7, UpdateCoreFields
  <2>2. \A k \in DOMAIN h : /\ h[k].arrival = Row(k).arrival /\ h[k].running = Row(k).run_time
                            /\ h[k].priority = Row(k).priority
    BY <1>2, <1>5, <1>7, <2>1 DEF JobsAsFiled
  <2> QED BY <1>4, <1>7, <2>2 DEF JobsAsFiled
<1>9. /\ Indices' = Indices
      /\ Entered(jobs'[i], jobs[i], core)
      /\ \A k \in Indices : k # i =>
           Placed(jobs'[k], jobs[k], IF jobs[k].core_id = core THEN NoCore ELSE jobs[k].core_id)
  BY <1>2, <1>3, ArriveRows
<1>10. \A k \in Indices : Follows(jobs'[k], jobs[k])
  <2>1. Follows(jobs'[i], jobs[i])
    BY <1>1, <1>2, <1>9 DEF Entered, Follows
  <2>2. \A k \in Indices : k # i => Follows(jobs'[k], jobs[k])
    BY <1>9 DEF Placed, Follows
  <2> QED BY <2>1, <2>2
<1>11. \A n : InArray(n)' <=> InArray(n)
  BY <1>9, <1>10 DEF InArray, Follows
<1>12. HistoryKept' /\ Accounted'
  <2>1. RecordsStay
    BY <1>2, <1>5 DEF RecordsStay, HistoryKept
  <2>2. \A n \in Submitted : history'[n].finish = -1 <=> InArray(n)'
    BY <1>2, <1>5, <1>11 DEF Accounted
  <2>3. \A n \in Submitted : history[n].first = -1 => InArray(n)'
    BY <1>5, <1>11 DEF HistoryKept, InArray
  <2> QED BY <1>2, <1>5, <1>9, <1>10, <2>1, <2>2, <2>3, CallsKeepRecords
<1>13. history[id].first = -1
  BY <1>1, <1>2, <1>5 DEF Accounted
<1>14. StampsTrue'
  <2>1. ASSUME NEW n \in DOMAIN job, OnCore(n)'  PROVE OnCore(n)
    <3>1. n # id /\ n \in JobNumbers
      BY <1>2, <1>5 DEF TypeOK
    <3>2. job_list' = job_list \/ \E d \in Cores : job_list' = [job_list EXCEPT ![d] = id]
      BY <1>3 DEF scheduler_new_job, preempt_new_job, IdleCores, Victims
    <3> QED BY <1>5, <2>1, <3>1, <3>2 DEF OnCore, TypeOK
  <2>2. \A n \in DOMAIN job' \ DOMAIN job :
          /\ history'[n].first = -1
          /\ job'[n].remaining = job'[n].running /\ job'[n].inserted = time
    BY <1>2, <1>7, <1>13
  <2>3. \A n \in DOMAIN job : n # id
    BY <1>2
  <2>4. \A n \in DOMAIN job' \cap DOMAIN job :
            /\ history'[n].first = history[n].first
            /\ OnCore(n)' => OnCore(n) \/ n = NoJob
            /\ IF n = NoJob /\ u[n].remaining = u[n].running
               THEN job'[n] = [u[n] EXCEPT !.inserted = time]
               ELSE job'[n] = u[n]
    <3>1. \A n \in DOMAIN job : n # NoJob
      BY <1>5, NoJobAssumption DEF TypeOK
    <3> QED BY <1>2, <1>7, <2>1, <3>1
  <2>5. PICK new : new = NoJob
    OBVIOUS
  <2> QED BY <1>2, <1>5, <1>6, <2>2, <2>4, <2>5, CallsKeepStamps
<1>15. StatsAddUp'
  <2>1. stats' = stats
    BY <1>3 DEF scheduler_new_job
  <2> QED BY <1>2, <1>5, <2>1, TotalsStay
<1> QED BY <1>8, <1>12, <1>14, <1>15 DEF Books

\* What main's bookkeeping does to one job.
LEMMA BookedUnit ==
  ASSUME SimInv, HistoryKept, RunUnit, NEW i \in Indices, NEW id, id = jobs[i].job_id
  PROVE  /\ history'[id].finish = history[id].finish
         /\ history'[id].waited = IF Waiting(jobs[i]) THEN history[id].waited + 1 ELSE history[id].waited
         /\ history'[id].since = IF jobs[i].core_id # NoCore THEN 0
                                 ELSE IF Waiting(jobs[i]) THEN history[id].since + 1
                                 ELSE history[id].since
<1> DEFINE working == {k \in Indices : jobs[k].core_id # NoCore}
           Update(n) ==
             LET k == CHOOSE m \in Indices : jobs[m].job_id = n
                 h == history[n]
             IN IF k \in working
                THEN [h EXCEPT !.first = IF h.first = -1 THEN time ELSE h.first, !.since = 0]
                ELSE IF Waiting(jobs[k])
                THEN [h EXCEPT !.waited = h.waited + 1, !.since = h.since + 1]
                ELSE h
<1>1. history' = [n \in Submitted |->
                    IF \E k \in Indices : jobs[k].job_id = n THEN Update(n) ELSE history[n]]
  BY DEF RunUnit
<1>2. id \in Submitted /\ time \in Int
  BY DEF SimInv, FromTheFile, Shape
<1>3. PICK h \in [first : Int, finish : Int, waited : Int, since : Int] : h = history[id]
  BY <1>2 DEF HistoryKept
<1>4. i = CHOOSE m \in Indices : jobs[m].job_id = id
  BY DEF SimInv, FromTheFile, Distinct, Indices
<1>5. history'[id] = IF i \in working
                     THEN [h EXCEPT !.first = IF h.first = -1 THEN time ELSE h.first, !.since = 0]
                     ELSE IF Waiting(jobs[i])
                     THEN [h EXCEPT !.waited = h.waited + 1, !.since = h.since + 1]
                     ELSE h
  BY <1>1, <1>2, <1>3, <1>4
<1>6. i \in working => ~ Waiting(jobs[i])
  BY DEF Waiting
<1>7. i \in working <=> jobs[i].core_id # NoCore
  OBVIOUS
<1> HIDE DEF working
<1>8. CASE i \in working
  BY <1>2, <1>3, <1>5, <1>6, <1>7, <1>8
<1>9. CASE i \notin working /\ Waiting(jobs[i])
  BY <1>3, <1>5, <1>7, <1>9
<1>10. CASE i \notin working /\ ~ Waiting(jobs[i])
  BY <1>3, <1>5, <1>7, <1>10
<1> QED BY <1>8, <1>9, <1>10

LEMMA RunUnitBooks ==
  ASSUME SimInv, Books, RunUnit
  PROVE  Books'
<1>1. /\ UNCHANGED schedVars /\ table' = table /\ time' = time + 1
      /\ jobs' = [i \in Indices |-> IF jobs[i].core_id # NoCore
                                    THEN [jobs[i] EXCEPT !.run_time = jobs[i].run_time - 1]
                                    ELSE jobs[i]]
  BY DEF RunUnit
<1>2. job_list' = job_list /\ job' = job /\ stats' = stats
  BY <1>1 DEF schedVars
<1>3. (\A n : Row(n)' = Row(n)) /\ Submitted' = Submitted /\ time \in Nat
  BY <1>1 DEF Row, Submitted, SimInv, Shape
<1>4. \A id : OnCore(id)' = OnCore(id)
  BY <1>2 DEF OnCore
<1>5. JobsAsFiled /\ HistoryKept /\ StampsTrue /\ Accounted /\ StatsAddUp
  BY DEF Books
<1>6. /\ history' \in [Submitted -> [first : Int, finish : Int, waited : Int, since : Int]]
      /\ \A id \in Submitted :
           history'[id].first = IF OnCore(id) THEN Start(id) ELSE history[id].first
  BY <1>5, RunUnitFirsts
<1>7. \A id \in Submitted : Start(id) \in Int /\ Start(id) <= time /\ Start(id) # -1
  BY <1>3, <1>5 DEF Start, HistoryKept
<1>8. JobsAsFiled'
  BY <1>2, <1>3, <1>5 DEF JobsAsFiled
<1>9. Indices' = Indices /\ Len(jobs) \in Nat
  <2>1. jobs' \in [Indices -> {jobs'[i] : i \in Indices}] /\ Len(jobs) \in Nat
    BY <1>1, Numbers
  <2>2. PICK f : f = jobs'
    OBVIOUS
  <2>3. PICK S : S = {jobs'[i] : i \in Indices}
    OBVIOUS
  <2>4. Len(f) = Len(jobs)
    BY <2>1, <2>2, <2>3, ArrayIs DEF Indices
  <2> QED BY <2>1, <2>2, <2>4 DEF Indices
<1>10. \A i \in Indices :
         /\ jobs'[i].job_id = jobs[i].job_id /\ jobs'[i].arrived = jobs[i].arrived
         /\ jobs'[i].run_time = IF jobs[i].core_id = NoCore THEN jobs[i].run_time ELSE jobs[i].run_time - 1
         /\ jobs[i].run_time \in Nat /\ jobs[i].job_id \in Submitted
  <2> TAKE i \in Indices
  <2>1. PICK r \in JobRow : r = jobs[i]
    BY Numbers
  <2>2. /\ [r EXCEPT !.run_time = r.run_time - 1].job_id = r.job_id
        /\ [r EXCEPT !.run_time = r.run_time - 1].arrived = r.arrived
        /\ [r EXCEPT !.run_time = r.run_time - 1].run_time = r.run_time - 1
        /\ r.run_time \in Nat
    BY DEF JobRow
  <2>3. jobs[i].job_id \in Submitted
    BY DEF SimInv, FromTheFile
  <2> QED BY <1>1, <2>1, <2>2, <2>3
<1>11. \A id : InArray(id)' <=> InArray(id)
  BY <1>9, <1>10 DEF InArray
<1>12. HistoryKept'
  <2>1. \A id \in Submitted : history'[id].first < time'
    BY <1>1, <1>3, <1>5, <1>6, <1>7 DEF HistoryKept
  <2>2. \A i \in Indices : history'[jobs'[i].job_id].first = -1 => jobs'[i].run_time # 0
    <3> SUFFICES ASSUME NEW i \in Indices, history'[jobs'[i].job_id].first = -1
                 PROVE  jobs'[i].run_time # 0
      OBVIOUS
    <3>1. jobs[i].job_id \in Submitted /\ jobs'[i].job_id = jobs[i].job_id
      BY <1>10
    <3>2. ~ OnCore(jobs[i].job_id)
      BY <1>6, <1>7, <3>1
    <3>3. jobs[i].core_id = NoCore /\ history[jobs[i].job_id].first = -1
      BY <1>6, <3>1, <3>2, OnCoreIsWorking
    <3> QED BY <1>5, <1>10, <3>3 DEF HistoryKept
  <2>3. \A id \in Submitted : history'[id].first = -1 => InArray(id)'
    <3> SUFFICES ASSUME NEW id \in Submitted, history'[id].first = -1  PROVE InArray(id)'
      OBVIOUS
    <3>1. history[id].first = -1
      BY <1>6, <1>7
    <3> QED BY <1>5, <1>11, <3>1 DEF HistoryKept, InArray
  <2> QED BY <1>3, <1>6, <1>9, <2>1, <2>2, <2>3 DEF HistoryKept, InArray
<1>13. StampsTrue'
  <2>1. ASSUME NEW id \in DOMAIN job
        PROVE  IF history'[id].first = -1
               THEN job[id].remaining = job[id].running /\ (OnCore(id) => job[id].inserted = time')
               ELSE job[id].inserted = history'[id].first /\ (~ OnCore(id) => job[id].remaining # job[id].running)
    <3>1. id \in Submitted
      BY DEF SimInv, KnownJobs, PlacementInv, JobsKnown
    <3>2. IF history[id].first = -1
          THEN job[id].remaining = job[id].running /\ (OnCore(id) => job[id].inserted = time)
          ELSE job[id].inserted = history[id].first /\ (~ OnCore(id) => job[id].remaining # job[id].running)
      BY <1>5 DEF StampsTrue
    <3>3. CASE OnCore(id)
      <4>1. history'[id].first = Start(id) /\ Start(id) # -1
        BY <1>6, <1>7, <3>1, <3>3
      <4> QED BY <3>2, <3>3, <4>1 DEF Start
    <3>4. CASE ~ OnCore(id)
      BY <1>6, <3>1, <3>2, <3>4
    <3> QED BY <3>3, <3>4
  <2> QED BY <1>2, <1>4, <2>1 DEF StampsTrue
<1>14. ASSUME NEW i \in Indices, NEW id, id = jobs[i].job_id
       PROVE  IF jobs[i].arrived
              THEN history'[id].waited = ((time + 1) - Row(id).arrival) - (Row(id).run_time - jobs'[i].run_time)
              ELSE history'[id].waited = 0 /\ history'[id].first = -1
  <2>1. history'[id].waited = IF Waiting(jobs[i]) THEN history[id].waited + 1 ELSE history[id].waited
    BY <1>5, <1>14, BookedUnit
  <2>2. id \in Submitted /\ history[id].waited \in Int
    BY <1>5, <1>10, <1>14 DEF HistoryKept
  <2>3. IF jobs[i].arrived
        THEN history[id].waited = (time - Row(id).arrival) - (Row(id).run_time - jobs[i].run_time)
        ELSE history[id].waited = 0 /\ history[id].first = -1
    BY <1>5, <1>14 DEF Accounted
  <2>4. PICK a \in Nat, r \in Nat, k \in Nat, t \in Nat :
          a = Row(id).arrival /\ r = Row(id).run_time /\ k = jobs[i].run_time /\ t = time
    <3>1. Row(id).arrival \in Nat /\ Row(id).run_time \in RunTimes
      BY <2>2, RowsOfTheFile
    <3>2. RunTimes \subseteq Nat
      BY InputsAssumption
    <3> QED BY <1>3, <1>10, <3>1, <3>2
  <2>5. CASE jobs[i].arrived
    <3>1. CASE jobs[i].core_id = NoCore
      <4>1. history'[id].waited = ((t - a) - (r - k)) + 1 /\ jobs'[i].run_time = k
        BY <1>10, <2>1, <2>3, <2>4, <2>5, <3>1 DEF Waiting
      <4>2. ((t - a) - (r - k)) + 1 = ((t + 1) - a) - (r - k)
        OBVIOUS
      <4> QED BY <2>4, <2>5, <4>1, <4>2
    <3>2. CASE jobs[i].core_id # NoCore
      <4>1. history'[id].waited = (t - a) - (r - k) /\ jobs'[i].run_time = k - 1
        BY <1>10, <2>1, <2>3, <2>4, <2>5, <3>2 DEF Waiting
      <4>2. (t - a) - (r - k) = ((t + 1) - a) - (r - (k - 1))
        OBVIOUS
      <4> QED BY <2>4, <2>5, <4>1, <4>2
    <3> QED BY <3>1, <3>2
  <2>6. CASE ~ jobs[i].arrived
    <3>1. jobs[i].core_id = NoCore
      BY <2>6 DEF SimInv, FromTheFile
    <3>2. ~ OnCore(id)
      BY <1>14, <3>1, OnCoreIsWorking
    <3> QED BY <1>6, <2>1, <2>2, <2>3, <2>6, <3>2 DEF Waiting
  <2> QED BY <2>5, <2>6
<1>15. \A id \in Submitted : /\ history'[id].finish = history[id].finish
                             /\ ~ InArray(id) => history'[id] = history[id]
  <2> TAKE id \in Submitted
  <2>1. ASSUME InArray(id)  PROVE history'[id].finish = history[id].finish
    BY <1>5, <2>1, BookedUnit DEF InArray
  <2>2. ASSUME ~ InArray(id)  PROVE history'[id] = history[id]
    BY <2>2 DEF RunUnit, InArray
  <2> QED BY <2>1, <2>2
<1>16. Accounted'
  <2>1. \A i \in Indices' :
          LET id == jobs'[i].job_id
          IN IF jobs'[i].arrived
             THEN history'[id].waited = (time' - Row(id).arrival) - (Row(id).run_time - jobs'[i].run_time)
             ELSE history'[id].waited = 0 /\ history'[id].first = -1
    BY <1>1, <1>9, <1>10, <1>14
  <2>2. \A id \in Submitted : history'[id].finish = -1 <=> InArray(id)'
    BY <1>5, <1>11, <1>15 DEF Accounted
  <2> QED BY <1>3, <2>1, <2>2 DEF Accounted
<1>17. StatsAddUp'
  <2>1. \A id \in Done : history'[id] = history[id]
    BY <1>5, <1>15 DEF Done, Accounted
  <2> QED BY <1>1, <1>2, <1>5, <1>15, <2>1, TotalsStay
<1> QED BY <1>8, <1>12, <1>13, <1>16, <1>17 DEF Books

LEMMA BooksInit == Init => Books
<1> SUFFICES ASSUME Init  PROVE Books
  OBVIOUS
<1>1. SimInv
  BY SimInitInv
<1>2. /\ DOMAIN job = {} /\ time = 0
      /\ history = [id \in Submitted |-> [first |-> -1, finish |-> -1, waited |-> 0, since |-> 0]]
      /\ stats = [waiting |-> 0, turnaround |-> 0, response |-> 0, scheduled |-> 0]
  BY DEF Init, SchedInit, scheduler_start_up
<1>3. /\ Indices = 1..Len(table)
      /\ \A i \in 1..Len(table) : /\ jobs[i].job_id = i - 1 /\ ~ jobs[i].arrived
                                  /\ jobs[i].core_id = NoCore
  <2>1. jobs \in Seq(JobRow)
    BY <1>1 DEF SimInv, Shape
  <2>2. DOMAIN jobs = 1..Len(table)
    BY DEF Init
  <2>3. \A i \in 1..Len(table) : /\ jobs[i].job_id = i - 1 /\ ~ jobs[i].arrived
                                 /\ jobs[i].core_id = NoCore
    BY DEF Init
  <2> QED BY <2>1, <2>2, <2>3, LenProperties DEF Indices
<1>4. \A id \in Submitted : InArray(id)
  <2>1. Len(table) \in Nat
    BY <1>1, TablesAssumption, LenProperties DEF SimInv, Shape
  <2>2. \A id \in Submitted : id + 1 \in 1..Len(table) /\ (id + 1) - 1 = id
    BY <2>1 DEF Submitted
  <2> QED BY <1>3, <2>2 DEF InArray
<1>5. \A id \in Submitted : /\ history[id].first = -1 /\ history[id].finish = -1
                            /\ history[id].waited = 0
  BY <1>2
<1>6. JobsAsFiled /\ StampsTrue
  BY <1>2 DEF JobsAsFiled, StampsTrue
<1>7. HistoryKept
  <2>1. \A i \in Indices : jobs[i].run_time # 0
    BY <1>1, <1>3 DEF SimInv, InTime
  <2>2. history \in [Submitted -> [first : Int, finish : Int, waited : Int, since : Int]]
    BY <1>2
  <2> QED BY <1>2, <1>4, <1>5, <2>1, <2>2 DEF HistoryKept, InArray
<1>8. Accounted
  <2>1. \A i \in Indices : jobs[i].job_id \in Submitted /\ ~ jobs[i].arrived
    BY <1>1, <1>3 DEF SimInv, FromTheFile
  <2> QED BY <1>4, <1>5, <2>1 DEF Accounted
<1>9. StatsAddUp
  <2>1. PICK D : D = Done /\ D = {}
    BY <1>5 DEF Done
  <2>2. IsFiniteSet(D) /\ Cardinality(D) = 0
    BY <2>1, FS_EmptySet
  <2>3. \A g : Sum(g, D) = 0
    BY <2>1, <2>2, SumChoice
  <2> QED BY <1>2, <2>1, <2>2, <2>3 DEF StatsAddUp
<1> QED BY <1>6, <1>7, <1>8, <1>9 DEF Books

LEMMA BooksStep ==
  ASSUME Times = Nat, SimInv, Books, [Next]_vars
  PROVE  Books'
<1>1. ASSUME NEW i \in Indices, FinishJob(i)  PROVE Books'
  BY <1>1, FinishJobBooks
<1>2. ASSUME NEW c \in Cores, ExpireQuantum(c)  PROVE Books'
  BY <1>2, ExpireQuantumBooks
<1>3. ASSUME NEW i \in Indices, Arrive(i)  PROVE Books'
  BY <1>3, ArriveBooks
<1>4. CASE RunUnit
  BY <1>4, RunUnitBooks
<1>5. CASE EndFinish \/ EndQuantum \/ UNCHANGED vars
  <2>1. UNCHANGED <<table, jobs, time, history, m_scheme, job_list, job, stats>>
    BY <1>5 DEF EndFinish, EndQuantum, vars, simVars, schedVars
  <2>2. Indices' = Indices /\ Submitted' = Submitted /\ \A n : Row(n)' = Row(n) /\ InArray(n)' = InArray(n)
    BY <2>1 DEF Indices, Submitted, Row, InArray
  <2>3. JobsAsFiled' /\ HistoryKept'
    BY <2>1, <2>2 DEF Books, JobsAsFiled, HistoryKept
  <2>4. StampsTrue'
    BY <2>1 DEF Books, StampsTrue, OnCore
  <2>5. Accounted'
    BY <2>1, <2>2 DEF Books, Accounted
  <2>6. StatsAddUp'
    BY <2>1, TotalsStay DEF Books
  <2> QED BY <2>3, <2>4, <2>5, <2>6 DEF Books
<1> QED BY <1>1, <1>2, <1>3, <1>4, <1>5 DEF Next

LEMMA BooksAlways ==
  ASSUME Times = Nat  PROVE Spec => [](SimInv /\ Books)
<1>1. SimInv /\ Books /\ [Next]_vars => (SimInv /\ Books)'
  BY SimNextInv, BooksStep
<1> QED BY <1>1, SimInitInv, BooksInit, PTL DEF Spec
-----------------------------------------------------------------------------
\* The order in which jobs start, under the schemes that do not preempt.

Unhurried == {"FCFS", "SJF", "PRI"}

\* StartsInOrder, said of jobs that have a core but have not run yet as well.
StartedInOrder ==
  \A a, b \in Submitted :
    Started(a) /\ Start(a) > Row(b).arrival /\ (Started(b) => Start(b) > Start(a))
      => a = b \/ Prefers(a, b)

StartInv == m_scheme \in Unhurried => StartedInOrder

\* The comparer of a scheme that does not preempt is the scheme's preference.
LEMMA ComparerPrefers ==
  ASSUME SimInv, m_scheme \in Unhurried, JobsAsFiled,
         NEW x \in DOMAIN job, NEW y \in DOMAIN job, x # y,
         comparer(job[x], job[y]) <= 0
  PROVE  Prefers(x, y)
<1>1. job[x] \in JobRecord /\ job[y] \in JobRecord
  BY DEF SimInv, PlacementInv, TypeOK
<1>2. job[x].arrival # job[y].arrival
  BY NeverLevel DEF SimInv
<1>3. /\ job[x].arrival = Row(x).arrival /\ job[x].running = Row(x).run_time
      /\ job[x].priority = Row(x).priority
      /\ job[y].arrival = Row(y).arrival /\ job[y].running = Row(y).run_time
      /\ job[y].priority = Row(y).priority
  BY DEF JobsAsFiled
<1>4. /\ job[x].arrival \in Int /\ job[x].running \in Int /\ job[x].priority \in Int
      /\ job[y].arrival \in Int /\ job[y].running \in Int /\ job[y].priority \in Int
  BY <1>1 DEF JobRecord
<1>5. CASE m_scheme = "FCFS"
  BY <1>2, <1>3, <1>4, <1>5 DEF comparer, Key, Prefers
<1>6. CASE m_scheme = "SJF"
  BY <1>2, <1>3, <1>4, <1>6 DEF comparer, Key, Prefers
<1>7. CASE m_scheme = "PRI"
  BY <1>2, <1>3, <1>4, <1>7 DEF comparer, Key, Prefers
<1> QED BY <1>5, <1>6, <1>7 DEF Unhurried

\* A job that has arrived before this time unit and has not started waits in
\* the queue.
LEMMA UnstartedWait ==
  ASSUME SimInv, HistoryKept, NEW b \in Submitted, ~ Started(b), time > Row(b).arrival
  PROVE  b \in DOMAIN job /\ Queued(b)
<1>1. PICK i \in Indices : jobs[i].job_id = b
  BY DEF HistoryKept, Started
<1>2. jobs[i].arrived
  <2>1. jobs[i].arrival_time = Row(b).arrival
    BY <1>1 DEF SimInv, FromTheFile
  <2>2. Row(b).arrival \in Int /\ time \in Int
    BY RowsOfTheFile DEF SimInv, Shape
  <2> QED BY <2>1, <2>2 DEF SimInv, InTime
<1>3. b \in DOMAIN job
  BY <1>1, <1>2 DEF SimInv, KnownJobs
<1> QED BY <1>3 DEF SimInv, PlacementInv, OnePlace, Started

\* The order survives a step that starts nobody before a job it prefers.
LEMMA StartsGrow ==
  ASSUME SimInv, StartedInOrder, m_scheme' = m_scheme, table' = table,
         \A id \in Submitted : /\ Started(id) => Started(id)' /\ Start(id)' = Start(id)
                               /\ Start(id) \in Int /\ Start(id)' \in Int,
         \A a, b \in Submitted : ~ Started(a) /\ Started(a)' =>
            IF Started(b)' THEN Start(b)' <= Start(a)'
            ELSE Start(a)' > Row(b).arrival => Prefers(a, b)
  PROVE  StartedInOrder'
<1>1. Submitted' = Submitted
  BY DEF Submitted
<1>2. \A id : Row(id)' = Row(id)
  BY DEF Row
<1>3. \A a, b : Prefers(a, b)' = Prefers(a, b)
  BY <1>2 DEF Prefers
<1>4. ASSUME NEW a \in Submitted, NEW b \in Submitted, Started(a)', Start(a)' > Row(b).arrival,
             Started(b)' => Start(b)' > Start(a)'
      PROVE  a = b \/ Prefers(a, b)
  <2>1. CASE Started(a)
    <3>1. Start(a) > Row(b).arrival /\ (Started(b) => Start(b) > Start(a))
      BY <1>4, <2>1
    <3> QED BY <2>1, <3>1 DEF StartedInOrder
  <2>2. CASE ~ Started(a)
    BY <1>4, <2>2
  <2> QED BY <2>1, <2>2
<1>5. \A a, b \in Submitted :
        Started(a)' /\ Start(a)' > Row(b).arrival /\ (Started(b)' => Start(b)' > Start(a)')
          => a = b \/ Prefers(a, b)
  BY <1>4
<1> QED BY <1>1, <1>2, <1>3, <1>5 DEF StartedInOrder

\* Nobody's start is changed by a step within a time unit.
LEMMA StartsWithin ==
  ASSUME SimInv, HistoryKept, StartedInOrder, m_scheme' = m_scheme, table' = table, time' = time,
         \A id \in Submitted : history'[id].first = history[id].first,
         \A id \in Submitted : Started(id) => Started(id)',
         \A a, b \in Submitted :
            ~ Started(a) /\ Started(a)' /\ ~ Started(b)' /\ time > Row(b).arrival => Prefers(a, b)
  PROVE  StartedInOrder'
<1>1. \A id \in Submitted : Start(id)' = Start(id)
  BY DEF Start
<1>2. \A id \in Submitted : Start(id) \in Int /\ Start(id) <= time
  BY DEF Start, HistoryKept, SimInv, Shape
<1>3. \A id \in Submitted : ~ Started(id) => Start(id) = time
  BY DEF Start, Started
<1>4. \A a, b \in Submitted : ~ Started(a) /\ Started(a)' =>
            IF Started(b)' THEN Start(b)' <= Start(a)'
            ELSE Start(a)' > Row(b).arrival => Prefers(a, b)
  BY <1>1, <1>2, <1>3
<1>5. \A id \in Submitted : /\ Started(id) => Started(id)' /\ Start(id)' = Start(id)
                            /\ Start(id) \in Int /\ Start(id)' \in Int
  BY <1>1, <1>2
<1> QED BY <1>4, <1>5, StartsGrow

\* The jobs wait their turn when a core falls free: the one that gets it is the
\* head of an ordered queue.
LEMMA FinishJobStarts ==
  ASSUME Times = Nat, SimInv, OrderInv, m_scheme \in Unhurried, JobsAsFiled, HistoryKept,
         StartedInOrder, NEW i \in Indices, FinishJob(i)
  PROVE  StartedInOrder'
<1>1. PICK c \in Cores, new \in JobNumbers \union {NoJob} :
           /\ JobFinished(c, time)
           /\ jobs[i].core_id = c /\ jobs[i].run_time = 0
           /\ job_list[c] = jobs[i].job_id
           /\ jobs' = set_active_job(new, c, Delete(jobs, i))
           /\ job_list' = [job_list EXCEPT ![c] = new]
           /\ DOMAIN job' = DOMAIN job \ {jobs[i].job_id}
  BY FinishCalls
<1>2. /\ UNCHANGED <<table, time>>
      /\ history' = [history EXCEPT ![jobs[i].job_id].finish = time]
  BY DEF FinishJob
<1>3. PICK gone : gone = jobs[i].job_id /\ gone \in Submitted
  BY DEF SimInv, FromTheFile
<1>4. /\ (\A id : Row(id)' = Row(id)) /\ Submitted' = Submitted
      /\ time \in Nat /\ time \in Times /\ m_scheme' = m_scheme
  BY <1>1, <1>2 DEF Row, Submitted, SimInv, Shape, JobFinished, scheduler_job_finished
<1>5. \/ m_job_queue = <<>> /\ job_list' = [job_list EXCEPT ![c] = NoJob]
      \/ /\ m_job_queue # <<>> /\ job_list' = [job_list EXCEPT ![c] = m_job_queue[1]]
  BY <1>1, <1>4, JobFinishedPlaces DEF SimInv
<1>6. \A id \in Submitted : history'[id].first = history[id].first
  <2>1. PICK h \in [first : Int, finish : Int, waited : Int, since : Int] : h = history[gone]
    BY <1>3 DEF HistoryKept
  <2>2. PICK k : k = [h EXCEPT !.finish = time]
    OBVIOUS
  <2>3. k.first = h.first
    BY <2>2
  <2>4. history' = [history EXCEPT ![gone] = k]
    BY <1>2, <1>3, <2>1, <2>2
  <2> QED BY <1>3, <2>1, <2>3, <2>4 DEF HistoryKept
<1>7. history[gone].first # -1
  BY <1>1, <1>3 DEF HistoryKept
<1>8. \A d \in Cores : d # c => job_list'[d] = job_list[d]
  BY <1>1 DEF SimInv, PlacementInv, TypeOK
<1>9. \A id : OnCore(id) /\ id # gone => OnCore(id)'
  BY <1>1, <1>3, <1>8 DEF OnCore
<1>10. ASSUME NEW id \in Submitted, Started(id)  PROVE Started(id)'
  BY <1>6, <1>7, <1>9, <1>10 DEF Started
<1>11. ASSUME NEW a \in Submitted, NEW b \in Submitted,
             ~ Started(a), Started(a)', ~ Started(b)', time > Row(b).arrival
      PROVE  Prefers(a, b)
  <2>1. ~ Started(b)
    BY <1>10, <1>11
  <2>2. b \in DOMAIN job /\ Queued(b)
    BY <1>11, <2>1, UnstartedWait
  <2>3. ~ OnCore(a) /\ OnCore(a)' /\ ~ OnCore(b)'
    BY <1>6, <1>11 DEF Started
  <2>4. /\ c \in DOMAIN job_list /\ Len(m_job_queue) \in Nat
        /\ (m_job_queue # <<>> => 1 \in 1..Len(m_job_queue))
    BY LenProperties, EmptySeq DEF SimInv, PlacementInv, TypeOK
  <2>5. m_job_queue # <<>>
    BY <2>2, LenProperties, EmptySeq DEF Queued
  <2>6. job_list' = [job_list EXCEPT ![c] = m_job_queue[1]]
    BY <1>5, <2>5
  <2>7. job_list'[c] = m_job_queue[1]
    BY <2>4, <2>6
  <2>8. a = m_job_queue[1]
    BY <1>8, <2>3, <2>7 DEF OnCore
  <2>9. PICK k \in 1..Len(m_job_queue) : m_job_queue[k] = b
    BY <2>2 DEF Queued
  <2>10. a # b
    BY <2>3
  <2>11. 1 < k
    BY <2>4, <2>8, <2>9, <2>10
  <2>12. comparer(job[a], job[b]) <= 0
    BY <2>4, <2>5, <2>8, <2>9, <2>11 DEF OrderInv, QueueOrdered
  <2>13. a \in DOMAIN job
    BY <2>4, <2>5, <2>8 DEF SimInv, PlacementInv, OnePlace
  <2> QED BY <2>2, <2>10, <2>12, <2>13, ComparerPrefers
<1> QED BY <1>2, <1>4, <1>6, <1>10, <1>11, StartsWithin

\* Without preemption a newcomer starts only on an idle core, and then nobody
\* waits that it could pass.
LEMMA ArriveStarts ==
  ASSUME Times = Nat, SimInv, m_scheme \in Unhurried, JobsAsFiled, HistoryKept,
         StartedInOrder, NEW i \in Indices, Arrive(i)
  PROVE  StartedInOrder'
<1>1. PICK id : id = jobs[i].job_id /\ id \in Submitted /\ id \in JobNumbers /\ id # NoJob
  BY Numbers DEF SimInv, FromTheFile
<1>2. /\ ~ jobs[i].arrived /\ jobs[i].arrival_time = time /\ jobs[i].core_id = NoCore
      /\ jobs[i].run_time = Row(id).run_time /\ jobs[i].priority = Row(id).priority
      /\ Row(id).arrival = time /\ id \notin DOMAIN job
      /\ UNCHANGED <<table, time, history>>
  BY <1>1, ArriveCalls DEF Arrive, FirstIn, Arriving, SimInv, FromTheFile
<1>3. PICK core \in Cores \union {NoCore} :
        /\ scheduler_new_job(id, time, jobs[i].run_time, jobs[i].priority, core)
        /\ jobs' = IF core = NoCore THEN [jobs EXCEPT ![i].arrived = TRUE] ELSE TakeCore(i, core)
  BY <1>1 DEF Arrive
<1>4. /\ (\A n : Row(n)' = Row(n)) /\ Submitted' = Submitted
      /\ time \in Nat /\ m_scheme' = m_scheme
  BY <1>2, <1>3 DEF Row, Submitted, SimInv, Shape, scheduler_new_job
<1>5. job_list' = job_list \/ \E d \in IdleCores : job_list' = [job_list EXCEPT ![d] = id]
  BY <1>3 DEF scheduler_new_job, Unhurried, Preemptive
<1>6. \A c \in Cores : job_list[c] # NoJob => job_list'[c] = job_list[c]
  BY <1>5 DEF SimInv, PlacementInv, TypeOK, IdleCores
<1>7. ASSUME NEW n \in Submitted, OnCore(n)  PROVE OnCore(n)'
  <2>1. n # NoJob
    BY RowsOfTheFile, NoJobAssumption
  <2> QED BY <1>6, <1>7, <2>1 DEF OnCore
<1>8. \A n \in Submitted : Started(n) => Started(n)'
  BY <1>2, <1>7 DEF Started
<1>9. ASSUME NEW a \in Submitted, NEW b \in Submitted,
             ~ Started(a), Started(a)', ~ Started(b)', time > Row(b).arrival
      PROVE  Prefers(a, b)
  <2>1. Queued(b)
    BY <1>8, <1>9, UnstartedWait
  <2>2. m_job_queue # <<>>
    BY <2>1, LenProperties, EmptySeq DEF Queued
  <2>3. IdleCores = {}
    BY <2>2 DEF SimInv, PlacementInv, WorkConserving
  <2>4. job_list' = job_list
    BY <1>5, <2>3
  <2> QED BY <1>2, <1>9, <2>4 DEF Started, OnCore
<1>10. \A n \in Submitted : history'[n].first = history[n].first
  BY <1>2
<1> QED BY <1>2, <1>4, <1>8, <1>9, <1>10, StartsWithin

\* Running starts nobody: a job on a core has started already.
LEMMA RunUnitStarts ==
  ASSUME SimInv, m_scheme \in Unhurried, JobsAsFiled, HistoryKept, StartedInOrder, RunUnit
  PROVE  StartedInOrder'
<1>1. /\ UNCHANGED schedVars /\ table' = table /\ time' = time + 1
  BY DEF RunUnit
<1>2. m_scheme' = m_scheme /\ job_list' = job_list /\ job' = job
  BY <1>1 DEF schedVars
<1>3. (\A n : Row(n)' = Row(n)) /\ Submitted' = Submitted /\ time \in Nat
  BY <1>1 DEF Row, Submitted, SimInv, Shape
<1>4. \A id : OnCore(id)' = OnCore(id)
  BY <1>2 DEF OnCore
<1>5. /\ history' \in [Submitted -> [first : Int, finish : Int, waited : Int, since : Int]]
      /\ \A id \in Submitted :
           history'[id].first = IF OnCore(id) THEN Start(id) ELSE history[id].first
  BY RunUnitFirsts
<1>6. \A id \in Submitted : Start(id) \in Int /\ Start(id) <= time /\ Start(id) # -1
  BY <1>3 DEF Start, HistoryKept
<1>7. ASSUME NEW id \in Submitted
      PROVE  /\ Started(id)' = Started(id)
             /\ Started(id) => Start(id)' = Start(id)
             /\ Start(id)' \in Int
  <2>1. CASE OnCore(id)
    BY <1>3, <1>4, <1>5, <1>6, <2>1 DEF Started, Start
  <2>2. CASE ~ OnCore(id)
    BY <1>1, <1>3, <1>4, <1>5, <1>6, <2>2 DEF Started, Start
  <2> QED BY <2>1, <2>2
<1> QED BY <1>1, <1>2, <1>6, <1>7, StartsGrow

LEMMA StartInitInv == Init => StartInv
<1> SUFFICES ASSUME Init  PROVE StartedInOrder
  BY DEF StartInv
<1>1. SimInv
  BY SimInitInv
<1>2. /\ \A c \in Cores : job_list[c] = NoJob
      /\ \A id \in Submitted : history[id].first = -1
  BY DEF Init, SchedInit, scheduler_start_up
<1>3. \A id \in Submitted : id # NoJob
  BY <1>1, RowsOfTheFile, NoJobAssumption
<1>4. \A id \in Submitted : ~ Started(id)
  BY <1>2, <1>3 DEF Started, OnCore
<1> QED BY <1>4 DEF StartedInOrder

LEMMA StartStep ==
  ASSUME Times = Nat, SimInv, OrderInv, Books, StartInv, [Next]_vars
  PROVE  StartInv'
<1>1. m_scheme' = m_scheme
  BY SchemeFixed
<1> SUFFICES ASSUME m_scheme \in Unhurried  PROVE StartedInOrder'
  BY <1>1 DEF StartInv
<1>3. JobsAsFiled /\ HistoryKept /\ StartedInOrder
  BY DEF StartInv, Books
<1>4. ASSUME NEW i \in Indices, FinishJob(i)  PROVE StartedInOrder'
  BY <1>3, <1>4, FinishJobStarts
<1>5. ASSUME NEW c \in Cores, ExpireQuantum(c)  PROVE FALSE
  <2>1. PICK new \in JobNumbers : QuantumExpired(c, time)
    BY <1>5, ExpireCalls
  <2> QED BY <2>1 DEF QuantumExpired, Unhurried
<1>6. ASSUME NEW i \in Indices, Arrive(i)  PROVE StartedInOrder'
  BY <1>3, <1>6, ArriveStarts
<1>7. CASE RunUnit
  BY <1>3, <1>7, RunUnitStarts
<1>8. CASE EndFinish \/ EndQuantum \/ UNCHANGED vars
  <2>1. UNCHANGED <<table, time, history, m_scheme, job_list>>
    BY <1>8 DEF EndFinish, EndQuantum, vars, simVars, schedVars
  <2> QED BY <1>3, <2>1, StartsWithin DEF Started, OnCore
<1> QED BY <1>4, <1>5, <1>6, <1>7, <1>8 DEF Next

LEMMA StartsSeen ==
  ASSUME SimInv, Books, StartInv  PROVE StartsInOrder
<1> SUFFICES ASSUME m_scheme \in Unhurried, NEW a \in Submitted, NEW b \in Submitted,
                    history[a].first > Row(b).arrival,
                    history[b].first = -1 \/ history[b].first > history[a].first
             PROVE  a = b \/ Prefers(a, b)
  BY DEF StartsInOrder, Unhurried
<1>1. HistoryKept /\ StartedInOrder
  BY DEF StartInv, Books
<1>2. history[a].first \in Int /\ history[b].first \in Int /\ history[a].first < time
  BY <1>1 DEF HistoryKept
<1>3. Row(b).arrival \in Nat
  BY RowsOfTheFile
<1>4. history[a].first # -1
  BY <1>2, <1>3
<1>5. Started(a) /\ Start(a) = history[a].first
  BY <1>4 DEF Started, Start
<1>6. Start(b) > Start(a)
  BY <1>2, <1>5 DEF Start
<1> QED BY <1>1, <1>5, <1>6 DEF StartedInOrder
-----------------------------------------------------------------------------
\* How long a job waits for its next turn under round robin.

LEMMA CoresFinite == IsFiniteSet(Cores) /\ Cardinality(Cores) = NumCores
<1>1. PICK b \in Int : b = NumCores - 1 /\ b >= 0
  BY CoresAssumption
<1>2. IsFiniteSet(0..b) /\ Cardinality(0..b) = IF 0 > b THEN 0 ELSE b - 0 + 1
  BY FS_Interval
<1> QED BY <1>1, <1>2, CoresAssumption DEF Cores

\* The cores and the queue hold different jobs of the file.
LEMMA Room ==
  SimInv => (m_job_queue # <<>> => NumCores + Len(m_job_queue) <= Len(table))
<1> SUFFICES ASSUME SimInv, m_job_queue # <<>>  PROVE NumCores + Len(m_job_queue) <= Len(table)
  OBVIOUS
<1>1. /\ m_job_queue \in Seq(JobNumbers) /\ OnePlace
      /\ \A c \in Cores : job_list[c] # NoJob
  BY DEF SimInv, PlacementInv, TypeOK, WorkConserving, IdleCores
<1>2. \A id \in DOMAIN job : id \in Submitted
  BY DEF SimInv, KnownJobs, FromTheFile
<1>3. PICK L \in Nat, n \in Nat, N \in Nat : L = Len(m_job_queue) /\ n = Len(table) /\ N = NumCores
  BY <1>1, TablesAssumption, CoresAssumption, LenProperties DEF SimInv, Shape
<1>4. PICK S : S = 0..(N + L - 1)
  OBVIOUS
<1>5. PICK f : f = [x \in S |-> IF x < N THEN job_list[x] ELSE m_job_queue[x - N + 1]]
  OBVIOUS
<1>6. ASSUME NEW x \in S, ~ (x < N)
      PROVE  x - N + 1 \in 1..L /\ f[x] = m_job_queue[x - N + 1] /\ f[x] \in Submitted /\ Queued(f[x])
  <2>1. x - N + 1 \in 1..L /\ f[x] = m_job_queue[x - N + 1]
    BY <1>3, <1>4, <1>5, <1>6
  <2>2. f[x] \in DOMAIN job /\ Queued(f[x])
    BY <1>1, <1>3, <2>1 DEF OnePlace, Queued
  <2> QED BY <1>2, <2>1, <2>2
<1>7. ASSUME NEW x \in S, x < N
      PROVE  x \in Cores /\ f[x] = job_list[x] /\ f[x] \in Submitted /\ ~ Queued(f[x])
  <2>1. x \in Cores /\ f[x] = job_list[x]
    BY <1>3, <1>4, <1>5, <1>7 DEF Cores
  <2>2. f[x] \in DOMAIN job /\ ~ Queued(f[x])
    BY <1>1, <2>1 DEF OnePlace
  <2> QED BY <1>2, <2>1, <2>2
<1>8. f \in [S -> Submitted]
  BY <1>5, <1>6, <1>7
<1>9. ASSUME NEW x \in S, NEW y \in S, f[x] = f[y]  PROVE x = y
  <2>1. CASE x < N
    <3>1. y < N
      BY <1>6, <1>7, <1>9, <2>1
    <3> QED BY <1>1, <1>7, <1>9, <2>1, <3>1 DEF OnePlace
  <2>2. CASE ~ (x < N)
    <3>1. ~ (y < N)
      BY <1>6, <1>7, <1>9, <2>2
    <3>2. x - N + 1 = y - N + 1
      BY <1>1, <1>3, <1>6, <1>9, <2>2, <3>1 DEF OnePlace
    <3> QED BY <1>3, <1>4, <3>2
  <2> QED BY <2>1, <2>2
<1>10. IsFiniteSet(S) /\ Cardinality(S) = N + L
  <2>1. N # 0
    BY <1>3, CoresAssumption
  <2> QED BY <1>3, <1>4, <2>1, FS_Interval
<1>11. IsFiniteSet(Submitted) /\ Cardinality(Submitted) = n
  <2>1. PICK b \in Int : b = n - 1
    OBVIOUS
  <2>2. Submitted = 0..b
    BY <1>3, <2>1 DEF Submitted
  <2>3. IsFiniteSet(0..b) /\ Cardinality(0..b) = IF 0 > b THEN 0 ELSE b - 0 + 1
    BY FS_Interval
  <2> QED BY <2>1, <2>2, <2>3
<1>12. ~ (Cardinality(Submitted) < Cardinality(S))
  BY <1>8, <1>9, <1>10, <1>11, FS_PigeonHole
<1> QED BY <1>3, <1>10, <1>11, <1>12

\* The clock of a core runs down to zero and starts again with the job that
\* takes the core; a job whose quantum has begun to run does not wait.
Clocked ==
  /\ quantum \in Nat \ {0} /\ quantum_clock \in [Cores -> Int]
  /\ \A c \in Cores : job_list[c] # NoJob =>
       /\ quantum_clock[c] \in 0..quantum
       /\ phase = "arrive" => quantum_clock[c] # 0
       /\ quantum_clock[c] # quantum => history[job_list[c]].since = 0

\* What a job has waited, what runs and what is queued before it fit into the
\* quanta of all other jobs.
InTurn ==
  \A i \in 1..Len(m_job_queue) :
    NumCores * history[m_job_queue[i]].since + Sum(quantum_clock, Cores) + quantum * (i - 1)
      <= quantum * (Len(table) - 1)

WaitsBounded ==
  /\ \A id \in Submitted : NumCores * history[id].since <= quantum * (Len(table) - 1)
  /\ \A i \in Indices : ~ jobs[i].arrived => history[jobs[i].job_id].since = 0

TurnsInv == m_scheme = "RR" => Clocked /\ InTurn /\ WaitsBounded

\* There is room in the bound for a job at the end of the queue.
Fits ==
  m_job_queue # <<>> =>
    /\ Sum(quantum_clock, Cores) \in Nat
    /\ Sum(quantum_clock, Cores) + quantum * (Len(m_job_queue) - 1) <= quantum * (Len(table) - 1)

LEMMA LastFits == SimInv /\ Clocked => Fits
<1> SUFFICES ASSUME SimInv, Clocked, m_job_queue # <<>>  PROVE Fits
  BY DEF Fits
<1>1. PICK L \in Nat, n \in Nat, N \in Nat, q \in Nat :
        L = Len(m_job_queue) /\ n = Len(table) /\ N = NumCores /\ q = quantum
  BY TablesAssumption, CoresAssumption, LenProperties DEF SimInv, Shape, PlacementInv, TypeOK, Clocked
<1>2. N + L <= n
  BY <1>1, Room
<1>3. \A c \in Cores : quantum_clock[c] \in 0..q
  BY <1>1 DEF SimInv, PlacementInv, WorkConserving, IdleCores, Clocked
<1>4. IsFiniteSet(Cores) /\ Cardinality(Cores) = N
  BY <1>1, CoresFinite
<1>5. Sum(quantum_clock, Cores) \in Int
  BY <1>3, <1>4, SumType
<1>6. 0 <= Sum(quantum_clock, Cores) /\ Sum(quantum_clock, Cores) <= q * N
  <2>1. 0 <= Sum(quantum_clock, Cores) /\ Sum(quantum_clock, Cores) <= q * Cardinality(Cores)
    BY <1>3, <1>4, SumBounds
  <2> QED BY <1>4, <2>1
<1>7. PICK s \in Int : s = Sum(quantum_clock, Cores)
  BY <1>5
<1>8. s + q * (L - 1) <= q * (n - 1)
  <2>1. q * N + q * (L - 1) <= q * (n - 1)
    <3>1. PICK d \in Nat : n = N + L + d
      BY <1>2
    <3>2. q * (n - 1) = q * N + q * (L - 1) + q * d /\ q * d \in Nat
      BY <3>1
    <3> QED BY <3>2
  <2> QED BY <1>6, <1>7, <2>1
<1> QED BY <1>1, <1>5, <1>6, <1>7, <1>8 DEF Fits

\* A call writes nothing about how long a job has waited.
SinceStays == \A id \in Submitted : history'[id].since = history[id].since

LEMMA CallsKeepWaits ==
  ASSUME SimInv, WaitsBounded, SinceStays, UNCHANGED <<table, quantum>>,
         \A k \in Indices' : \E m \in Indices :
           jobs'[k].job_id = jobs[m].job_id /\ (jobs[m].arrived => jobs'[k].arrived)
  PROVE  WaitsBounded'
<1>1. Submitted' = Submitted
  BY DEF Submitted
<1>2. \A m \in Indices : jobs[m].job_id \in Submitted
  BY DEF SimInv, FromTheFile
<1> QED BY <1>1, <1>2 DEF WaitsBounded, SinceStays

LEMMA CallsKeepClocked ==
  ASSUME SimInv, Clocked, SinceStays, UNCHANGED <<quantum, phase>>, NEW c \in Cores, NEW new,
         job_list' = [job_list EXCEPT ![c] = new],
         quantum_clock' = [quantum_clock EXCEPT ![c] = quantum]
  PROVE  Clocked'
<1>1. /\ quantum' \in Nat \ {0} /\ quantum_clock' \in [Cores -> Int]
  BY DEF Clocked
<1>2. ASSUME NEW d \in Cores, job_list'[d] # NoJob
      PROVE  /\ quantum_clock'[d] \in 0..quantum
             /\ phase = "arrive" => quantum_clock'[d] # 0
             /\ quantum_clock'[d] # quantum => history'[job_list'[d]].since = 0
  <2>1. CASE d = c
    BY <2>1 DEF Clocked
  <2>2. CASE d # c
    <3>1. job_list'[d] = job_list[d] /\ quantum_clock'[d] = quantum_clock[d]
      BY <2>2 DEF SimInv, PlacementInv, TypeOK, Clocked
    <3>2. job_list[d] \in Submitted
      BY <1>2, <3>1 DEF SimInv, PlacementInv, OnePlace, KnownJobs, FromTheFile
    <3> QED BY <1>2, <3>1, <3>2 DEF Clocked, SinceStays
  <2> QED BY <2>1, <2>2
<1> QED BY <1>1, <1>2 DEF Clocked

LEMMA ClockTurned ==
  ASSUME NEW c \in Cores, quantum \in Nat, quantum_clock \in [Cores -> Int],
         quantum_clock' = [quantum_clock EXCEPT ![c] = quantum]
  PROVE  /\ Sum(quantum_clock, Cores) \in Int
         /\ Sum(quantum_clock', Cores) = Sum(quantum_clock, Cores) - quantum_clock[c] + quantum
<1>1. PICK g, k, S, q : g = quantum_clock /\ k = quantum_clock' /\ S = Cores /\ q = quantum
  OBVIOUS
<1>2. (\A x \in S : g[x] \in Int) /\ (\A x \in S : k[x] \in Int) /\ \A x \in S \ {c} : k[x] = g[x]
  BY <1>1
<1>3. k[c] = q
  BY <1>1
<1>4. IsFiniteSet(S) /\ c \in S
  BY <1>1, CoresFinite
<1>5. Sum(g, S) \in Int /\ Sum(k, S) = Sum(g, S) - g[c] + k[c]
  BY <1>2, <1>4, SumChange
<1> QED BY <1>1, <1>3, <1>5

LEMMA OnePlaceLess ==
  ASSUME NEW N \in Nat, NEW w \in Int, NEW s \in Int, NEW r \in Int, NEW v \in Nat, NEW q \in Nat,
         NEW n \in Nat, NEW i \in Nat \ {0}, r = s - v + q,
         N * w + s + q * ((i + 1) - 1) <= q * (n - 1)
  PROVE  N * w + r + q * (i - 1) <= q * (n - 1)
<1>1. PICK x \in Int, y \in Int, z \in Int : x = N * w /\ y = q * (i - 1) /\ z = q * (n - 1)
  OBVIOUS
<1>2. q * ((i + 1) - 1) = y + q
  BY <1>1
<1>3. x + r + y <= z
  BY <1>1, <1>2
<1> QED BY <1>1, <1>3

\* A core that starts a new quantum while the queue moves up by one place.
LEMMA MovesUp ==
  ASSUME SimInv, HistoryKept, Clocked, InTurn, SinceStays, UNCHANGED <<table, quantum>>,
         NEW c \in Cores, job_list[c] # NoJob,
         quantum_clock' = [quantum_clock EXCEPT ![c] = quantum],
         NEW i \in Nat \ {0}, i + 1 \in 1..Len(m_job_queue), m_job_queue'[i] = m_job_queue[i + 1]
  PROVE  NumCores * history'[m_job_queue'[i]].since + Sum(quantum_clock', Cores) + quantum * (i - 1)
           <= quantum * (Len(table) - 1)
<1>1. PICK n \in Nat, N \in Nat, q \in Nat, id \in JobNumbers :
        n = Len(table) /\ N = NumCores /\ q = quantum /\ id = m_job_queue[i + 1]
  <2>1. Len(table) \in Nat /\ NumCores \in Nat /\ quantum \in Nat
    BY TablesAssumption, CoresAssumption, LenProperties DEF SimInv, Shape, Clocked
  <2>2. m_job_queue[i + 1] \in JobNumbers
    BY ElementOfSeq DEF SimInv, PlacementInv, TypeOK
  <2> QED BY <2>1, <2>2
<1>2. id \in Submitted
  BY <1>1 DEF SimInv, PlacementInv, OnePlace, KnownJobs, FromTheFile
<1>3. PICK w \in Int : w = history[id].since /\ w = history'[id].since
  BY <1>2 DEF HistoryKept, SinceStays
<1>4. PICK s \in Int, r \in Int, v \in Nat :
        s = Sum(quantum_clock, Cores) /\ r = Sum(quantum_clock', Cores) /\ v = quantum_clock[c]
        /\ r = s - v + q
  <2>1. /\ Sum(quantum_clock, Cores) \in Int
        /\ Sum(quantum_clock', Cores) = Sum(quantum_clock, Cores) - quantum_clock[c] + quantum
    BY ClockTurned DEF Clocked
  <2>2. quantum_clock[c] \in Nat
    BY DEF Clocked
  <2> QED BY <1>1, <2>1, <2>2
<1>5. N * w + s + q * ((i + 1) - 1) <= q * (n - 1)
  BY <1>1, <1>3, <1>4 DEF InTurn
<1>6. N * w + r + q * (i - 1) <= q * (n - 1)
  BY <1>4, <1>5, OnePlaceLess
<1> QED BY <1>1, <1>3, <1>4, <1>6

LEMMA FinishJobTurns ==
  ASSUME Times = Nat, SimInv, HistoryKept, m_scheme = "RR", TurnsInv, NEW i \in Indices, FinishJob(i)
  PROVE  Clocked' /\ InTurn' /\ WaitsBounded'
<1>1. PICK c \in Cores, new \in JobNumbers \union {NoJob} :
           /\ JobFinished(c, time)
           /\ jobs[i].core_id = c /\ job_list[c] = jobs[i].job_id
           /\ jobs' = set_active_job(new, c, Delete(jobs, i))
           /\ job_list' = [job_list EXCEPT ![c] = new]
  BY FinishCalls
<1>2. /\ UNCHANGED <<table, quantum, phase>>
      /\ history' = [history EXCEPT ![jobs[i].job_id].finish = time]
      /\ quantum_clock' = [quantum_clock EXCEPT ![c] = quantum]
  BY <1>1 DEF FinishJob, Reset
<1>3. Clocked /\ InTurn /\ WaitsBounded /\ PlacementInv /\ TypeOK /\ time \in Times
  BY DEF TurnsInv, SimInv, PlacementInv, Shape
<1>4. SinceStays
  <2>1. PICK gone \in Submitted : gone = jobs[i].job_id
    BY DEF SimInv, FromTheFile
  <2>2. PICK h \in [first : Int, finish : Int, waited : Int, since : Int] : h = history[gone]
    BY <2>1 DEF HistoryKept
  <2>3. PICK k : k = [h EXCEPT !.finish = time]
    OBVIOUS
  <2>4. history' = [history EXCEPT ![gone] = k]
    BY <1>2, <2>1, <2>2, <2>3
  <2>5. k.since = h.since
    BY <2>2, <2>3
  <2> QED BY <2>1, <2>2, <2>4, <2>5 DEF HistoryKept, SinceStays
<1>5. Clocked'
  BY <1>1, <1>2, <1>3, <1>4, CallsKeepClocked
<1>6. WaitsBounded'
  <2>1. \A k \in Indices' : \E m \in Indices : m # i /\ SameJob(jobs'[k], jobs[m])
    BY <1>1, FinishRows
  <2> QED BY <1>2, <1>3, <1>4, <2>1, CallsKeepWaits DEF SameJob
<1>7. InTurn'
  <2>1. \/ m_job_queue' = <<>>
        \/ m_job_queue # <<>> /\ m_job_queue' = Tail(m_job_queue)
    BY <1>1, <1>3, JobFinishedPlaces
  <2>2. CASE m_job_queue' = <<>>
    <3>1. Len(m_job_queue') = 0
      BY <2>2, EmptySeq
    <3> QED BY <3>1 DEF InTurn
  <2>3. CASE m_job_queue # <<>> /\ m_job_queue' = Tail(m_job_queue)
    <3>1. /\ Len(m_job_queue) \in Nat \ {0} /\ Len(m_job_queue') = Len(m_job_queue) - 1
          /\ \A k \in 1..(Len(m_job_queue) - 1) : m_job_queue'[k] = m_job_queue[k + 1]
      BY <1>3, <2>3, EmptySeq, LenProperties, HeadTailProperties DEF TypeOK
    <3>2. job_list[c] # NoJob
      BY <1>1, Numbers
    <3>3. ASSUME NEW k \in 1..Len(m_job_queue')
          PROVE  NumCores * history'[m_job_queue'[k]].since + Sum(quantum_clock', Cores)
                   + quantum * (k - 1) <= quantum * (Len(table) - 1)
      <4>1. k \in Nat \ {0} /\ k + 1 \in 1..Len(m_job_queue) /\ m_job_queue'[k] = m_job_queue[k + 1]
        BY <3>1
      <4> QED BY <1>2, <1>3, <1>4, <3>2, <4>1, MovesUp
    <3> QED BY <1>2, <3>3 DEF InTurn
  <2> QED BY <2>1, <2>2, <2>3
<1> QED BY <1>5, <1>6, <1>7

\* The place at the end of the queue, of a job that has just run or arrived.
LEMMA EndOfTurn ==
  ASSUME SimInv', Clocked', m_job_queue' # <<>>, history'[m_job_queue'[Len(m_job_queue')]].since = 0
  PROVE  NumCores * history'[m_job_queue'[Len(m_job_queue')]].since + Sum(quantum_clock', Cores)
           + quantum' * (Len(m_job_queue') - 1) <= quantum' * (Len(table') - 1)
<1>1. Fits'
  BY LastFits, PTL
<1>2. NumCores * 0 = 0
  BY CoresAssumption
<1> QED BY <1>1, <1>2 DEF Fits

LEMMA ExpireQuantumTurns ==
  ASSUME Times = Nat, SimInv, HistoryKept, m_scheme = "RR", TurnsInv, NEW c \in Cores, ExpireQuantum(c)
  PROVE  Clocked' /\ InTurn' /\ WaitsBounded'
<1>1. PICK j \in Indices, new \in JobNumbers :
           /\ QuantumExpired(c, time) /\ jobs[j].core_id = c /\ jobs[j].arrived
           /\ jobs' = set_active_job(new, c, [jobs EXCEPT ![j].core_id = NoCore])
           /\ status' = IF Selectable([jobs EXCEPT ![j].core_id = NoCore], new) = {}
                        THEN "invalid_job" ELSE status
           /\ job_list' = [job_list EXCEPT ![c] = new] /\ DOMAIN job' = DOMAIN job
  BY ExpireCalls
<1>2. /\ UNCHANGED <<table, quantum, phase, history>>
      /\ quantum_clock' = [quantum_clock EXCEPT ![c] = quantum]
      /\ quantum_clock[c] = 0
  BY DEF ExpireQuantum, Reset, FirstIn, Expired
<1>3. Clocked /\ InTurn /\ WaitsBounded /\ PlacementInv /\ TypeOK /\ time \in Times
  BY DEF TurnsInv, SimInv, PlacementInv, Shape
<1>4. SinceStays
  BY <1>2 DEF SinceStays
<1>5. Clocked'
  BY <1>1, <1>2, <1>3, <1>4, CallsKeepClocked
<1>6. WaitsBounded'
  <2>1. Indices' = Indices /\ \A k \in Indices : SameJob(jobs'[k], jobs[k])
    BY <1>1, ExpireRows
  <2> QED BY <1>2, <1>3, <1>4, <2>1, CallsKeepWaits DEF SameJob
<1>7. PICK f \in Seq(JobNumbers) :
        /\ Len(m_job_queue) \in Nat /\ Len(f) = Len(m_job_queue) + 1
        /\ \A i \in 1..Len(m_job_queue) : i \in 1..Len(f) /\ f[i] = m_job_queue[i]
        /\ f[Len(m_job_queue) + 1] = job_list[c]
        /\ f # <<>> /\ m_job_queue' = Tail(f)
  BY <1>1, <1>3, ExpiredLast
<1>8. PICK L \in Nat : L = Len(m_job_queue)
  BY <1>7
<1>9. Len(m_job_queue') = L /\ \A k \in 1..L : m_job_queue'[k] = f[k + 1]
  BY <1>7, <1>8, HeadTailProperties
<1>10. job_list[c] # NoJob /\ history[job_list[c]].since = 0
  <2>1. job_list[c] # NoJob
    BY <1>1 DEF QuantumExpired
  <2> QED BY <1>2, <1>3, <2>1 DEF Clocked
<1>11. ASSUME NEW k \in 1..L
       PROVE  NumCores * history'[m_job_queue'[k]].since + Sum(quantum_clock', Cores)
                + quantum * (k - 1) <= quantum * (Len(table) - 1)
  <2>1. CASE k = L
    <3>1. history'[m_job_queue'[L]].since = 0
      BY <1>2, <1>7, <1>8, <1>9, <1>10, <2>1
    <3>2. m_job_queue' # <<>>
      BY <1>9, <2>1, EmptySeq
    <3>3. SimInv'
      BY ExpireQuantumInv
    <3> QED BY <1>2, <1>5, <1>9, <2>1, <3>1, <3>2, <3>3, EndOfTurn
  <2>2. CASE k # L
    <3>1. k \in Nat \ {0} /\ k + 1 \in 1..Len(m_job_queue) /\ m_job_queue'[k] = m_job_queue[k + 1]
      BY <1>7, <1>8, <1>9, <2>2
    <3> QED BY <1>2, <1>3, <1>4, <1>10, <3>1, MovesUp
  <2> QED BY <2>1, <2>2
<1>12. InTurn'
  BY <1>2, <1>9, <1>11 DEF InTurn
<1> QED BY <1>5, <1>6, <1>12

LEMMA ArriveTurns ==
  ASSUME Times = Nat, SimInv, HistoryKept, m_scheme = "RR", TurnsInv, NEW i \in Indices, Arrive(i)
  PROVE  Clocked' /\ InTurn' /\ WaitsBounded'
<1>1. PICK id : id = jobs[i].job_id /\ id \in Submitted /\ id \in JobNumbers
  BY Numbers DEF SimInv, FromTheFile
<1>2. /\ ~ jobs[i].arrived /\ jobs[i].core_id = NoCore /\ NewJob(id, time)
      /\ UNCHANGED <<table, quantum, phase, history>>
  BY <1>1, ArriveCalls DEF Arrive, SimInv, FromTheFile
<1>3. PICK core \in Cores \union {NoCore} :
        /\ scheduler_new_job(id, time, jobs[i].run_time, jobs[i].priority, core)
        /\ jobs' = IF core = NoCore THEN [jobs EXCEPT ![i].arrived = TRUE] ELSE TakeCore(i, core)
        /\ quantum_clock' = IF core = NoCore THEN quantum_clock ELSE Reset(core)
  BY <1>1 DEF Arrive
<1>4. Clocked /\ InTurn /\ WaitsBounded /\ PlacementInv /\ TypeOK /\ time \in Times
  BY DEF TurnsInv, SimInv, PlacementInv, Shape
<1>5. SinceStays
  BY <1>2 DEF SinceStays
<1>6. WaitsBounded'
  <2>1. /\ Indices' = Indices
        /\ Entered(jobs'[i], jobs[i], core)
        /\ \A k \in Indices : k # i =>
             Placed(jobs'[k], jobs[k], IF jobs[k].core_id = core THEN NoCore ELSE jobs[k].core_id)
    BY <1>2, <1>3, ArriveRows
  <2>2. \A k \in Indices : jobs'[k].job_id = jobs[k].job_id /\ (jobs[k].arrived => jobs'[k].arrived)
    BY <2>1 DEF Entered, Placed
  <2> QED BY <1>2, <1>4, <1>5, <2>1, <2>2, CallsKeepWaits
<1>7. CASE core # NoCore
  <2>1. core \in IdleCores /\ job_list' = [job_list EXCEPT ![core] = id] /\ UNCHANGED m_job_queue
    BY <1>3, <1>7 DEF scheduler_new_job, Preemptive
  <2>2. core \in Cores /\ quantum_clock' = [quantum_clock EXCEPT ![core] = quantum]
    BY <1>3, <1>7 DEF Reset
  <2>3. Clocked'
    BY <1>2, <1>4, <1>5, <2>1, <2>2, CallsKeepClocked
  <2>4. m_job_queue' = <<>>
    BY <1>4, <2>1 DEF PlacementInv, WorkConserving
  <2>5. InTurn'
    <3>1. Len(m_job_queue') = 0
      BY <2>4, EmptySeq
    <3> QED BY <3>1 DEF InTurn
  <2> QED BY <1>6, <2>3, <2>5
<1>8. CASE core = NoCore
  <2>1. UNCHANGED <<job_list, quantum_clock>> /\ IdleCores = {}
    BY <1>3, <1>8, Numbers DEF scheduler_new_job, Preemptive, IdleCores
  <2>2. Clocked'
    BY <1>2, <1>4, <2>1 DEF Clocked
  <2>3. PICK L \in Nat : L = Len(m_job_queue)
    BY <1>4, LenProperties DEF TypeOK
  <2>4. ASSUME NEW k \in 1..L, m_job_queue'[k] = m_job_queue[k]
        PROVE  NumCores * history'[m_job_queue'[k]].since + Sum(quantum_clock', Cores)
                 + quantum * (k - 1) <= quantum * (Len(table) - 1)
    BY <1>2, <1>4, <2>1, <2>3, <2>4 DEF InTurn
  <2>5. ASSUME UNCHANGED m_job_queue  PROVE InTurn'
    BY <1>2, <2>3, <2>4, <2>5 DEF InTurn
  <2>6. ASSUME /\ Len(m_job_queue') = L + 1 /\ m_job_queue'[L + 1] = id
               /\ \A k \in 1..L : m_job_queue'[k] = m_job_queue[k]
        PROVE  InTurn'
    <3>1. history'[m_job_queue'[L + 1]].since = 0
      BY <1>1, <1>2, <1>4, <2>6 DEF WaitsBounded
    <3>2. m_job_queue' # <<>>
      BY <2>6, EmptySeq
    <3>3. SimInv'
      BY ArriveInv
    <3>4. NumCores * history'[m_job_queue'[L + 1]].since + Sum(quantum_clock', Cores)
            + quantum * ((L + 1) - 1) <= quantum * (Len(table) - 1)
      BY <1>2, <2>2, <2>6, <3>1, <3>2, <3>3, EndOfTurn
    <3>5. \A k \in 1..(L + 1) : k = L + 1 \/ k \in 1..L
      OBVIOUS
    <3> QED BY <1>2, <2>4, <2>6, <3>4, <3>5 DEF InTurn
  <2>7. InTurn'
    <3>1. m_scheme \in {"FCFS", "RR"}
      OBVIOUS
    <3> QED BY <1>1, <1>2, <1>4, <2>3, <2>5, <2>6, <3>1, NewcomerLast
  <2> QED BY <1>6, <2>2, <2>7
<1> QED BY <1>7, <1>8

\* Each busy core's clock goes down by one in a time unit.
LEMMA UnitClocks ==
  ASSUME SimInv, RunUnit, quantum_clock \in [Cores -> Int]
  PROVE  /\ quantum_clock' \in [Cores -> Int]
         /\ \A c \in Cores : quantum_clock'[c] = IF job_list[c] = NoJob THEN quantum_clock[c]
                                                 ELSE quantum_clock[c] - 1
<1> DEFINE working == {i \in Indices : jobs[i].core_id # NoCore}
           on(c) == {i \in working : jobs[i].core_id = c}
<1>1. quantum_clock' = [c \in Cores |-> quantum_clock[c] - Cardinality(on(c))]
  BY DEF RunUnit
<1>2. ASSUME NEW c \in Cores
      PROVE  Cardinality(on(c)) = IF job_list[c] = NoJob THEN 0 ELSE 1
  <2>1. PICK S : S = on(c)
    OBVIOUS
  <2>2. CASE job_list[c] = NoJob
    <3>1. S = {}
      BY <2>1, <2>2, Numbers DEF SimInv, SameCores
    <3> QED BY <2>1, <2>2, <3>1, FS_EmptySet
  <2>3. CASE job_list[c] # NoJob
    <3>1. PICK i \in Indices : jobs[i].core_id = c
      BY <2>3, RowOf
    <3>2. i \in S
      BY <2>1, <3>1, Numbers
    <3>3. \A k \in S : k = i
      BY <2>1, <3>1, Numbers, OnACore
    <3>4. S = {i}
      BY <3>2, <3>3
    <3> QED BY <2>1, <2>3, <3>4, FS_Singleton
  <2> QED BY <2>2, <2>3
<1> HIDE DEF on
<1>3. ASSUME NEW c \in Cores
      PROVE  quantum_clock'[c] = IF job_list[c] = NoJob THEN quantum_clock[c] ELSE quantum_clock[c] - 1
  BY <1>1, <1>2
<1>4. quantum_clock' \in [Cores -> Int]
  <2>1. \A c \in Cores : quantum_clock'[c] \in Int
    BY <1>3
  <2> QED BY <1>1, <2>1
<1> QED BY <1>3, <1>4

\* A time unit in which all cores are busy.
LEMMA UnitFalls ==
  ASSUME SimInv, RunUnit, quantum_clock \in [Cores -> Int], m_job_queue # <<>>
  PROVE  /\ Sum(quantum_clock, Cores) \in Int
         /\ Sum(quantum_clock', Cores) = Sum(quantum_clock, Cores) - NumCores
<1>1. PICK g, k, S : g = quantum_clock /\ k = quantum_clock' /\ S = Cores
  OBVIOUS
<1>2. \A c \in Cores : job_list[c] # NoJob
  BY DEF SimInv, PlacementInv, WorkConserving, IdleCores
<1>3. (\A x \in S : g[x] \in Int) /\ (\A x \in S : k[x] = g[x] - 1)
  BY <1>1, <1>2, UnitClocks
<1>4. IsFiniteSet(S) /\ Cardinality(S) = NumCores
  BY <1>1, CoresFinite
<1>5. Sum(g, S) \in Int
  BY <1>3, <1>4, SumType
<1>6. Sum(k, S) = Sum(g, S) - Cardinality(S)
  BY <1>3, <1>4, SumFalls
<1> QED BY <1>1, <1>4, <1>5, <1>6

\* A job in the queue has a row, and waits.
LEMMA QueuedRow ==
  ASSUME SimInv, NEW i \in 1..Len(m_job_queue)
  PROVE  \E k \in Indices : jobs[k].job_id = m_job_queue[i] /\ Waiting(jobs[k])
<1>1. m_job_queue[i] \in DOMAIN job /\ Queued(m_job_queue[i])
  BY DEF SimInv, PlacementInv, OnePlace, Queued
<1>2. PICK k \in Indices : jobs[k].arrived /\ jobs[k].job_id = m_job_queue[i]
  BY <1>1 DEF SimInv, KnownJobs
<1>3. jobs[k].core_id = NoCore
  <2> SUFFICES ASSUME jobs[k].core_id # NoCore  PROVE FALSE
    OBVIOUS
  <2>1. jobs[k].core_id \in Cores /\ job_list[jobs[k].core_id] = m_job_queue[i]
    BY <1>2, OnACore
  <2>2. m_job_queue[i] # NoJob
    BY <1>2, Numbers
  <2> QED BY <1>1, <2>1, <2>2 DEF SimInv, PlacementInv, OnePlace
<1> QED BY <1>2, <1>3 DEF Waiting

\* A job that is not on a core is in the queue.
LEMMA WaitingQueued ==
  ASSUME SimInv, NEW k \in Indices, Waiting(jobs[k])
  PROVE  \E i \in 1..Len(m_job_queue) : m_job_queue[i] = jobs[k].job_id
<1>1. jobs[k].job_id \in DOMAIN job
  BY DEF SimInv, KnownJobs, Waiting
<1>2. ~ OnCore(jobs[k].job_id)
  BY OnCoreIsWorking DEF Waiting
<1> QED BY <1>1, <1>2 DEF SimInv, PlacementInv, OnePlace, Queued

LEMMA OneUnitMore ==
  ASSUME NEW N \in Nat, NEW w \in Int, NEW s \in Int, NEW q \in Nat, NEW n \in Nat, NEW i \in Nat \ {0},
         N * w + s + q * (i - 1) <= q * (n - 1)
  PROVE  /\ N * (w + 1) + (s - N) + q * (i - 1) <= q * (n - 1)
         /\ s >= N => N * (w + 1) <= q * (n - 1)
<1>1. PICK x \in Int, y \in Int, z \in Int : x = N * w /\ y = q * (i - 1) /\ z = q * (n - 1)
  OBVIOUS
<1>2. N * (w + 1) = x + N
  BY <1>1
<1>3. y >= 0
  <2>1. PICK m \in Nat : m = i - 1
    OBVIOUS
  <2>2. q * m \in Nat
    OBVIOUS
  <2> QED BY <1>1, <2>1, <2>2
<1> QED BY <1>1, <1>2, <1>3

LEMMA RunUnitTurns ==
  ASSUME Times = Nat, SimInv, HistoryKept, m_scheme = "RR", TurnsInv, RunUnit
  PROVE  Clocked' /\ InTurn' /\ WaitsBounded'
<1>1. /\ UNCHANGED schedVars /\ UNCHANGED <<table, quantum>> /\ phase = "arrive" /\ phase' = "finish"
      /\ jobs' = [i \in Indices |-> IF jobs[i].core_id # NoCore
                                    THEN [jobs[i] EXCEPT !.run_time = jobs[i].run_time - 1]
                                    ELSE jobs[i]]
  BY DEF RunUnit
<1>2. job_list' = job_list /\ m_job_queue' = m_job_queue /\ Submitted' = Submitted
  BY <1>1 DEF schedVars, Submitted
<1>3. Clocked /\ InTurn /\ WaitsBounded
  BY DEF TurnsInv
<1>4. ASSUME NEW k \in Indices
      PROVE  /\ jobs[k].job_id \in Submitted
             /\ history'[jobs[k].job_id].since = IF jobs[k].core_id # NoCore THEN 0
                                                 ELSE IF Waiting(jobs[k]) THEN history[jobs[k].job_id].since + 1
                                                 ELSE history[jobs[k].job_id].since
  <2>1. PICK id : id = jobs[k].job_id
    OBVIOUS
  <2>2. jobs[k].job_id \in Submitted
    BY DEF SimInv, FromTheFile
  <2> QED BY <2>1, <2>2, BookedUnit
<1>5. Clocked'
  <2>1. quantum_clock' \in [Cores -> Int]
    BY <1>3, UnitClocks DEF Clocked
  <2>2. ASSUME NEW c \in Cores, job_list[c] # NoJob
        PROVE  quantum_clock'[c] \in 0..quantum /\ history'[job_list[c]].since = 0
    <3>1. quantum_clock'[c] = quantum_clock[c] - 1
      BY <1>3, <2>2, UnitClocks DEF Clocked
    <3>2. quantum_clock[c] \in 0..quantum /\ quantum_clock[c] # 0 /\ quantum \in Nat
      BY <1>1, <1>3, <2>2 DEF Clocked
    <3>3. PICK k \in Indices : jobs[k].core_id = c /\ jobs[k].job_id = job_list[c]
      BY <2>2, RowOf
    <3>4. jobs[k].core_id # NoCore
      BY <3>3, Numbers
    <3> QED BY <1>4, <3>1, <3>2, <3>3, <3>4
  <2> QED BY <1>1, <1>2, <1>3, <2>1, <2>2 DEF Clocked
<1>6. SimInv'
  BY RunUnitInv
<1>7. PICK n \in Nat, N \in Nat, q \in Nat : n = Len(table) /\ N = NumCores /\ q = quantum
  BY <1>3, TablesAssumption, CoresAssumption, LenProperties DEF SimInv, Shape, Clocked
<1>8. ASSUME NEW i \in 1..Len(m_job_queue)
      PROVE  LET id == m_job_queue[i]
             IN /\ NumCores * history'[id].since + Sum(quantum_clock', Cores) + quantum * (i - 1)
                     <= quantum * (Len(table) - 1)
                /\ NumCores * history'[id].since <= quantum * (Len(table) - 1)
  <2>1. PICK k \in Indices : jobs[k].job_id = m_job_queue[i] /\ Waiting(jobs[k])
    BY QueuedRow
  <2>2. PICK id \in Submitted : id = m_job_queue[i]
    BY <1>4, <2>1
  <2>3. PICK w \in Int : w = history[id].since
    BY <2>2 DEF HistoryKept
  <2>4. history'[id].since = w + 1
    BY <1>4, <2>1, <2>2, <2>3 DEF Waiting
  <2>5. m_job_queue # <<>>
    <3>1. m_job_queue = <<>> => Len(m_job_queue) = 0
      BY EmptySeq
    <3> QED BY <3>1
  <2>6. PICK s \in Int, r \in Int : /\ s = Sum(quantum_clock, Cores) /\ r = Sum(quantum_clock', Cores)
                                   /\ r = s - N
    BY <1>3, <1>7, <2>5, UnitFalls DEF Clocked
  <2>7. r \in Nat
    <3>1. Fits'
      BY <1>5, <1>6, LastFits, PTL
    <3> QED BY <1>2, <2>5, <2>6, <3>1 DEF Fits
  <2>8. PICK m \in Nat \ {0} : m = i
    OBVIOUS
  <2>9. N * w + s + q * (m - 1) <= q * (n - 1)
    BY <1>3, <1>7, <2>2, <2>3, <2>6, <2>8 DEF InTurn
  <2>10. /\ N * (w + 1) + (s - N) + q * (m - 1) <= q * (n - 1)
         /\ s >= N => N * (w + 1) <= q * (n - 1)
    BY <2>9, OneUnitMore
  <2>11. s >= N
    BY <2>6, <2>7
  <2> QED BY <1>7, <2>2, <2>4, <2>6, <2>8, <2>10, <2>11
<1>9. InTurn'
  BY <1>1, <1>2, <1>8 DEF InTurn
<1>10. WaitsBounded'
  <2>1. ASSUME NEW id \in Submitted
        PROVE  NumCores * history'[id].since <= quantum * (Len(table) - 1)
    <3>1. CASE ~ InArray(id)
      <4>1. history'[id] = history[id]
        BY <3>1 DEF RunUnit, InArray
      <4> QED BY <1>3, <4>1 DEF WaitsBounded
    <3>2. CASE InArray(id)
      <4>1. PICK k \in Indices : jobs[k].job_id = id
        BY <3>2 DEF InArray
      <4>2. CASE jobs[k].core_id # NoCore
        <5>1. history'[id].since = 0
          BY <1>4, <4>1, <4>2
        <5>2. q * (n - 1) \in Nat /\ N * 0 = 0
          <6>1. PICK m \in Nat : m = n - 1
            BY <1>7 DEF Submitted
          <6>2. q * m \in Nat
            OBVIOUS
          <6> QED BY <6>1, <6>2
        <5> QED BY <1>7, <5>1, <5>2
      <4>3. CASE Waiting(jobs[k])
        <5>1. PICK i \in 1..Len(m_job_queue) : m_job_queue[i] = id
          BY <4>1, <4>3, WaitingQueued
        <5> QED BY <1>8, <5>1
      <4>4. CASE jobs[k].core_id = NoCore /\ ~ Waiting(jobs[k])
        <5>1. history'[id].since = history[id].since
          BY <1>4, <4>1, <4>4
        <5> QED BY <1>3, <5>1 DEF WaitsBounded
      <4> QED BY <4>2, <4>3, <4>4
    <3> QED BY <3>1, <3>2
  <2>2. Indices' = Indices /\ \A k \in Indices : /\ jobs'[k].job_id = jobs[k].job_id
                                                /\ jobs'[k].arrived = jobs[k].arrived
    BY <1>1, Numbers, LenProperties DEF Indices, SimInv, Shape, JobRow
  <2>3. \A k \in Indices : ~ jobs[k].arrived => history'[jobs[k].job_id].since = 0
    BY <1>3, <1>4 DEF WaitsBounded, Waiting, SimInv, FromTheFile
  <2> QED BY <1>1, <1>2, <2>1, <2>2, <2>3 DEF WaitsBounded
<1> QED BY <1>5, <1>9, <1>10

LEMMA TurnsInit == Init => TurnsInv
<1> SUFFICES ASSUME Init, m_scheme = "RR"  PROVE Clocked /\ InTurn /\ WaitsBounded
  BY DEF TurnsInv
<1>1. SimInv
  BY SimInitInv
<1>2. /\ quantum \in Nat \ {0} /\ quantum_clock \in [Cores -> Int]
      /\ \A c \in Cores : job_list[c] = NoJob
  BY QuantaAssumption DEF Init, SchedInit, scheduler_start_up
<1>3. Clocked
  BY <1>2 DEF Clocked
<1>4. InTurn
  <2>1. Len(m_job_queue) = 0
    BY EmptySeq DEF Init, SchedInit, scheduler_start_up
  <2> QED BY <2>1 DEF InTurn
<1>5. WaitsBounded
  <2>1. \A id \in Submitted : history[id].since = 0
    BY DEF Init
  <2>2. \A i \in Indices : jobs[i].job_id \in Submitted
    BY <1>1 DEF SimInv, FromTheFile
  <2>3. ASSUME NEW id \in Submitted  PROVE NumCores * 0 <= quantum * (Len(table) - 1)
    <3>1. Len(table) \in Nat
      BY <1>1, TablesAssumption, LenProperties DEF SimInv, Shape
    <3>2. PICK m \in Nat : m = Len(table) - 1
      BY <3>1 DEF Submitted
    <3>3. quantum * m \in Nat /\ NumCores * 0 = 0
      BY <1>2, CoresAssumption
    <3> QED BY <3>2, <3>3
  <2> QED BY <2>1, <2>2, <2>3 DEF WaitsBounded
<1> QED BY <1>3, <1>4, <1>5

LEMMA TurnsStep ==
  ASSUME Times = Nat, SimInv, Books, TurnsInv, [Next]_vars
  PROVE  TurnsInv'
<1>1. m_scheme' = m_scheme
  BY SchemeFixed
<1> SUFFICES ASSUME m_scheme = "RR"  PROVE Clocked' /\ InTurn' /\ WaitsBounded'
  BY <1>1 DEF TurnsInv
<1>2. HistoryKept /\ Clocked /\ InTurn /\ WaitsBounded
  BY DEF Books, TurnsInv
<1>3. ASSUME NEW i \in Indices, FinishJob(i)  PROVE Clocked' /\ InTurn' /\ WaitsBounded'
  BY <1>2, <1>3, FinishJobTurns
<1>4. ASSUME NEW c \in Cores, ExpireQuantum(c)  PROVE Clocked' /\ InTurn' /\ WaitsBounded'
  BY <1>2, <1>4, ExpireQuantumTurns
<1>5. ASSUME NEW i \in Indices, Arrive(i)  PROVE Clocked' /\ InTurn' /\ WaitsBounded'
  BY <1>2, <1>5, ArriveTurns
<1>6. CASE RunUnit
  BY <1>2, <1>6, RunUnitTurns
<1>7. CASE EndFinish \/ EndQuantum \/ UNCHANGED vars
  <2>1. UNCHANGED <<table, jobs, quantum, quantum_clock, history, job_list, m_job_queue>>
    BY <1>7 DEF EndFinish, EndQuantum, vars, simVars, schedVars
  <2>2. InTurn' /\ WaitsBounded'
    BY <1>2, <2>1 DEF InTurn, WaitsBounded, Submitted, Indices
  <2>3. phase' = "arrive" => \A c \in Cores : job_list[c] # NoJob => quantum_clock[c] # 0
    <3>1. CASE EndFinish
      BY <3>1 DEF EndFinish
    <3>2. CASE UNCHANGED vars
      BY <1>2, <3>2 DEF Clocked, vars, simVars
    <3>3. CASE EndQuantum
      <4> SUFFICES ASSUME NEW c \in Cores, job_list[c] # NoJob  PROVE quantum_clock[c] # 0
        OBVIOUS
      <4>1. \E i \in Indices : jobs[i].core_id = c
        BY RowOf
      <4> QED BY <3>3, <4>1 DEF EndQuantum, Expired
    <3> QED BY <1>7, <3>1, <3>2, <3>3
  <2>4. Clocked'
    BY <1>2, <2>1, <2>3 DEF Clocked
  <2> QED BY <2>2, <2>4
<1> QED BY <1>3, <1>4, <1>5, <1>6, <1>7 DEF Next
-----------------------------------------------------------------------------
\* The theorems.  The times the library may be called at are all the numbers:
\* the simulator puts no bound on its clock.

\* The simulator uses the library as its documentation demands, so all that is
\* proved of the library holds of the library in the simulator.
THEOREM CallsAreLegal ==
  ASSUME Times = Nat  PROVE Spec => LegalCalls
<1>1. Init => SchedInit
  BY DEF Init
<1> QED BY <1>1, SimAlways, PTL DEF Spec, LegalCalls, SchedSpec

\* The simulator and the library agree at every moment on what runs where.
THEOREM ViewsAgree ==
  ASSUME Times = Nat  PROVE Spec => []CoresAgree
BY SimAlways, Agree, PTL

\* No simulation stops with an error: the library never names a job that is not
\* in the array, never has two jobs on a core, and never leaves every core idle
\* while a job is alive.
THEOREM SanityChecksPass ==
  ASSUME Times = Nat  PROVE Spec => [](status \in {"running", "done"})
<1>1. SimInv => status \in {"running", "done"}
  BY DEF SimInv, Shape
<1> QED BY <1>1, SimAlways, PTL

\* Without preemption the schedule obeys its scheme in every simulation: a job
\* that starts before one that was already waiting is preferred to it.
THEOREM StartsFollowScheme ==
  ASSUME Times = Nat  PROVE Spec => []StartsInOrder
<1>1. Init => SimInv /\ OrderInv /\ Books /\ StartInv
  BY SimInitInv, OrderInit, BooksInit, StartInitInv DEF Init
<1>2. SimInv /\ OrderInv /\ Books /\ StartInv /\ [Next]_vars => (SimInv /\ OrderInv /\ Books /\ StartInv)'
  <2>1. SimInv /\ [Next]_vars => SimInv' /\ [SchedNext]_schedVars
    BY SimNextInv
  <2>2. SimInv /\ OrderInv /\ [SchedNext]_schedVars => OrderInv'
    BY OrderStep DEF SimInv
  <2>3. SimInv /\ Books /\ [Next]_vars => Books'
    BY BooksStep
  <2>4. SimInv /\ OrderInv /\ Books /\ StartInv /\ [Next]_vars => StartInv'
    BY StartStep
  <2> QED BY <2>1, <2>2, <2>3, <2>4
<1>3. SimInv /\ Books /\ StartInv => StartsInOrder
  BY StartsSeen
<1> QED BY <1>1, <1>2, <1>3, PTL DEF Spec

\* The averages are those of what really ran: when a job finishes, what the
\* library knows of it from its own clock is what happened to it.
THEOREM AveragesTrue ==
  ASSUME Times = Nat  PROVE Spec => []StatsTrue
<1>1. SimInv /\ Books => StatsTrue
  BY StatsAsSums DEF Books
<1> QED BY <1>1, BooksAlways, PTL

\* Round robin serves everybody, for every file, number of cores and quantum: no
\* job waits longer at a time than the quanta of all others, shared by the cores.
THEOREM RoundRobinServes ==
  ASSUME Times = Nat  PROVE Spec => []RRBoundedWait
<1>1. Init => SimInv /\ Books /\ TurnsInv
  BY SimInitInv, BooksInit, TurnsInit
<1>2. SimInv /\ Books /\ TurnsInv /\ [Next]_vars => (SimInv /\ Books /\ TurnsInv)'
  BY SimNextInv, BooksStep, TurnsStep
<1>3. SimInv /\ Books /\ TurnsInv => RRBoundedWait
  <2> SUFFICES ASSUME SimInv, Books, TurnsInv, m_scheme = "RR", NEW id \in Submitted
               PROVE  history[id].since * NumCores <= quantum * (Len(table) - 1)
    BY DEF RRBoundedWait
  <2>1. NumCores * history[id].since <= quantum * (Len(table) - 1)
    BY DEF TurnsInv, WaitsBounded
  <2>2. history[id].since \in Int /\ NumCores \in Int
    BY CoresAssumption DEF Books, HistoryKept
  <2>3. history[id].since * NumCores = NumCores * history[id].since
    BY <2>2
  <2> QED BY <2>1, <2>3
<1> QED BY <1>1, <1>2, <1>3, PTL DEF Spec
=============================================================================
