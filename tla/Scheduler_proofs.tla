-------------------------- MODULE Scheduler_proofs --------------------------
(***************************************************************************)
(* Proofs about Scheduler, for every number of cores, every set of jobs    *)
(* and every legal caller.                                                 *)
(***************************************************************************)
EXTENDS Scheduler, Lists_proofs

\* A live job was announced at its arrival time, which nobody shares, and got
\* the insertion time on record between its arrival and the last call.
JobsKnown ==
  /\ \A j \in DOMAIN job :
       /\ j \in DOMAIN submitted /\ job[j].arrival = submitted[j]
       /\ job[j].arrival <= job[j].inserted /\ job[j].inserted <= clock
  /\ \A j \in DOMAIN submitted : submitted[j] <= clock
  /\ \A j, k \in DOMAIN submitted : submitted[j] = submitted[k] => j = k

\* The inductive invariant behind the theorems on placement.
PlacementInv == TypeOK /\ OnePlace /\ WorkConserving /\ JobsKnown

-----------------------------------------------------------------------------
\* Facts about the helpers.

\* update_core changes nothing but what remains.
LEMMA UpdateCoreFields ==
  ASSUME TypeOK, NEW time \in Nat
  PROVE  LET h == update_core(time)
         IN /\ h \in [DOMAIN job -> JobRecord]
            /\ \A j \in DOMAIN job : /\ h[j].arrival = job[j].arrival
                                     /\ h[j].running = job[j].running
                                     /\ h[j].inserted = job[j].inserted
                                     /\ h[j].priority = job[j].priority
                                     /\ ~ OnCore(j) => h[j] = job[j]
<1> DEFINE h == update_core(time)
<1>1. \A j \in DOMAIN job : job[j] \in JobRecord
  BY DEF TypeOK
<1>2. ASSUME NEW j \in DOMAIN job
      PROVE  /\ h[j] \in JobRecord
             /\ h[j].arrival = job[j].arrival
             /\ h[j].running = job[j].running
             /\ h[j].inserted = job[j].inserted
             /\ h[j].priority = job[j].priority
             /\ ~ OnCore(j) => h[j] = job[j]
  <2>1. h[j] = IF OnCore(j) /\ time # job[j].arrival
               THEN [job[j] EXCEPT !.remaining = job[j].running - (time - job[j].inserted)]
               ELSE job[j]
    BY DEF update_core
  <2> QED BY <1>1, <2>1 DEF JobRecord
<1>3. h \in [DOMAIN job -> JobRecord]
  BY <1>2 DEF update_core
<1> QED BY <1>2, <1>3

\* Dispatching may move a job's insertion time to now, and nothing else.
LEMMA DispatchedFields ==
  ASSUME NEW D, NEW h \in [D -> JobRecord], NEW n \in D, NEW time \in Nat,
         NEW d, d = Dispatched(h, n, time)
  PROVE  /\ d \in [D -> JobRecord]
         /\ \A j \in D : /\ d[j].arrival = h[j].arrival
                         /\ d[j].running = h[j].running
                         /\ d[j].remaining = h[j].remaining
                         /\ d[j].priority = h[j].priority
                         /\ d[j].inserted \in {h[j].inserted, time}
                         /\ j # n => d[j] = h[j]
BY DEF Dispatched, JobRecord

\* The place of an offered job is one of the queue's places.
LEMMA PlacesRange ==
  ASSUME TypeOK, NEW heap, NEW j, NEW k \in Places(heap, j)
  PROVE  k \in 1..(Len(m_job_queue) + 1)
<1> DEFINE n == Len(m_job_queue)
           cmps == [i \in 1..n |-> comparer(heap[j], heap[m_job_queue[i]])]
<1>1. n \in Nat
  BY LenProperties DEF TypeOK
<1>2. cmps \in Seq({cmps[i] : i \in 1..n})
  BY <1>1, SeqDef
<1>3. Len(cmps) = n
  BY <1>1, <1>2, LenProperties
<1> QED BY <1>3 DEF Places, OfferIndices
-----------------------------------------------------------------------------
\* What each call does to the placement of jobs, whatever its scheme.

\* The job_t's after a new job: the updated ones and the new one.
NewHeap(j, time, running_time, priority) ==
  [k \in DOMAIN job \union {j} |->
     IF k = j THEN New_Job(time, running_time, priority) ELSE update_core(time)[k]]

LEMMA NewHeapFields ==
  ASSUME TypeOK, NEW j \in JobNumbers, j \notin DOMAIN job, NEW time \in Nat,
         NEW running_time \in RunTimes, NEW priority \in Priorities
  PROVE  LET h == NewHeap(j, time, running_time, priority)
         IN /\ DOMAIN h = DOMAIN job \union {j}
            /\ h \in [DOMAIN h -> JobRecord]
            /\ h[j] = New_Job(time, running_time, priority)
            /\ \A k \in DOMAIN job : h[k] = update_core(time)[k]
<1> DEFINE h == NewHeap(j, time, running_time, priority)
<1>1. New_Job(time, running_time, priority) \in JobRecord
  BY InputsAssumption DEF New_Job, JobRecord
<1>2. \A k \in DOMAIN job : update_core(time)[k] \in JobRecord
  BY UpdateCoreFields
<1> QED BY <1>1, <1>2 DEF NewHeap

\* A new job ends up in exactly one place: an idle core, the queue, or the core
\* of a job that goes to the queue.
LEMMA NewJobPlaces ==
  ASSUME PlacementInv,
         NEW j \in JobNumbers, NEW time \in Times, NewJob(j, time)
  PROVE  /\ j \notin DOMAIN job
         /\ DOMAIN job' = DOMAIN job \union {j}
         /\ job' \in [DOMAIN job' -> JobRecord]
         /\ job'[j].arrival = time /\ job'[j].inserted = time
         /\ \A i \in DOMAIN job : /\ job'[i].arrival = job[i].arrival
                                  /\ job'[i].inserted = job[i].inserted
         /\ \/ /\ m_job_queue = <<>> /\ m_job_queue' = <<>>
               /\ \E c \in Cores : /\ job_list[c] = NoJob
                                   /\ job_list' = [job_list EXCEPT ![c] = j]
            \/ /\ IdleCores = {} /\ job_list' = job_list
               /\ \E k \in 1..(Len(m_job_queue) + 1) : m_job_queue' = Link(m_job_queue, k, j)
            \/ /\ IdleCores = {}
               /\ \E c \in Cores : 
                    /\ job_list[c] # NoJob
                    /\ job_list' = [job_list EXCEPT ![c] = j]
                    /\ \E k \in 1..(Len(m_job_queue) + 1) :
                         m_job_queue' = Link(m_job_queue, k, job_list[c])
         /\ m_scheme' = m_scheme /\ stats' = stats
<1> USE DEF PlacementInv
<1>1. j \notin DOMAIN submitted /\ j \notin DOMAIN job
  BY DEF NewJob, Announce, Announced, JobsKnown
<1>2. time \in Nat
  BY InputsAssumption
<1>3. PICK running_time \in RunTimes, priority \in Priorities, core \in Cores \union {NoCore} :
        scheduler_new_job(j, time, running_time, priority, core)
  BY DEF NewJob
<1> DEFINE h == NewHeap(j, time, running_time, priority)
<1>4. /\ job' = h
      /\ \/ /\ core \in IdleCores
            /\ job_list' = [job_list EXCEPT ![core] = j]
            /\ UNCHANGED m_job_queue
         \/ /\ IdleCores = {} /\ offer(h, j) /\ UNCHANGED job_list
         \/ /\ IdleCores = {} /\ preempt_new_job(h, j, core)
      /\ m_scheme' = m_scheme /\ stats' = stats
  BY <1>3 DEF scheduler_new_job, NewHeap
<1>5. /\ DOMAIN h = DOMAIN job \union {j}
      /\ h \in [DOMAIN h -> JobRecord]
      /\ h[j] = New_Job(time, running_time, priority)
      /\ \A k \in DOMAIN job : h[k] = update_core(time)[k]
  BY <1>1, <1>2, NewHeapFields
<1>6. h[j].arrival = time /\ h[j].inserted = time
  BY <1>5 DEF New_Job
<1>7. \A i \in DOMAIN job : h[i].arrival = job[i].arrival /\ h[i].inserted = job[i].inserted
  BY <1>2, <1>5, UpdateCoreFields
<1> HIDE DEF h
<1>8. CASE core \in IdleCores /\ job_list' = [job_list EXCEPT ![core] = j]
           /\ UNCHANGED m_job_queue
  BY <1>1, <1>4, <1>5, <1>6, <1>7, <1>8 DEF WorkConserving, IdleCores
<1>9. CASE IdleCores = {} /\ offer(h, j) /\ UNCHANGED job_list
  BY <1>1, <1>4, <1>5, <1>6, <1>7, <1>9, PlacesRange DEF offer
<1>10. CASE IdleCores = {} /\ preempt_new_job(h, j, core)
  <2>1. CASE /\ core \in Victims(h, h[j])
             /\ offer(h, job_list[core])
             /\ job_list' = [job_list EXCEPT ![core] = j]
    <3>1. core \in Cores /\ job_list[core] # NoJob
      BY <1>10, <2>1 DEF Victims, IdleCores
    <3>2. \E k \in 1..(Len(m_job_queue) + 1) : m_job_queue' = Link(m_job_queue, k, job_list[core])
      BY <2>1, PlacesRange DEF offer
    <3> QED BY <1>1, <1>4, <1>5, <1>6, <1>7, <1>10, <2>1, <3>1, <3>2
  <2>2. CASE offer(h, j) /\ UNCHANGED job_list
    BY <1>1, <1>4, <1>5, <1>6, <1>7, <1>10, <2>2, PlacesRange DEF offer
  <2> QED BY <1>10, <2>1, <2>2 DEF preempt_new_job
<1> QED BY <1>4, <1>8, <1>9, <1>10

\* A finished job's core goes to the head of the queue, if there is one.
LEMMA JobFinishedPlaces ==
  ASSUME PlacementInv, NEW c \in Cores, NEW time \in Times, JobFinished(c, time)
  PROVE  LET rem_job == job_list[c]
         IN /\ rem_job \in DOMAIN job
            /\ DOMAIN job' = DOMAIN job \ {rem_job}
            /\ job' \in [DOMAIN job' -> JobRecord]
            /\ \A i \in DOMAIN job' : /\ job'[i].arrival = job[i].arrival
                                      /\ job'[i].inserted \in {job[i].inserted, time}
            /\ \/ /\ m_job_queue = <<>> /\ m_job_queue' = <<>>
                  /\ job_list' = [job_list EXCEPT ![c] = NoJob]
               \/ /\ m_job_queue # <<>> /\ m_job_queue' = Tail(m_job_queue)
                  /\ job_list' = [job_list EXCEPT ![c] = m_job_queue[1]]
            /\ stats' = [waiting |-> stats.waiting + (time - job[rem_job].arrival) - job[rem_job].running,
                         turnaround |-> stats.turnaround + (time - job[rem_job].arrival),
                         response |-> stats.response + job[rem_job].inserted - job[rem_job].arrival,
                         scheduled |-> stats.scheduled + 1]
            /\ m_scheme' = m_scheme
<1> USE DEF PlacementInv
<1> DEFINE rem_job == job_list[c]
           h == [k \in DOMAIN job \ {rem_job} |-> update_core(time)[k]]
<1>1. time \in Nat
  BY InputsAssumption
<1>2. rem_job \in DOMAIN job
  BY DEF JobFinished, OnePlace
<1>3. PICK next \in JobNumbers \union {NoJob} : scheduler_job_finished(c, time, next)
  BY DEF JobFinished
<1>4. /\ h \in [DOMAIN job \ {rem_job} -> JobRecord]
      /\ \A i \in DOMAIN job \ {rem_job} : /\ h[i].arrival = job[i].arrival
                                           /\ h[i].inserted = job[i].inserted
      /\ update_core(time)[rem_job].arrival = job[rem_job].arrival
      /\ update_core(time)[rem_job].running = job[rem_job].running
      /\ update_core(time)[rem_job].inserted = job[rem_job].inserted
  BY <1>1, <1>2, UpdateCoreFields
<1>5. /\ stats' = [waiting |-> stats.waiting + (time - job[rem_job].arrival) - job[rem_job].running,
                   turnaround |-> stats.turnaround + (time - job[rem_job].arrival),
                   response |-> stats.response + job[rem_job].inserted - job[rem_job].arrival,
                   scheduled |-> stats.scheduled + 1]
      /\ job_list' = [job_list EXCEPT ![c] = next]
      /\ m_scheme' = m_scheme
  BY <1>3, <1>4 DEF scheduler_job_finished, Totals
<1>6. \/ m_job_queue = <<>> /\ next = NoJob /\ job' = h /\ UNCHANGED m_job_queue
      \/ /\ m_job_queue # <<>> /\ next = Head(m_job_queue)
         /\ job' = Dispatched(h, next, time) /\ m_job_queue' = Tail(m_job_queue)
  BY <1>3 DEF scheduler_job_finished
<1> HIDE DEF h
<1>7. CASE m_job_queue = <<>> /\ next = NoJob /\ job' = h /\ UNCHANGED m_job_queue
  BY <1>2, <1>4, <1>5, <1>7
<1>8. CASE /\ m_job_queue # <<>> /\ next = Head(m_job_queue)
           /\ job' = Dispatched(h, next, time) /\ m_job_queue' = Tail(m_job_queue)
  <2>1. 1 \in 1..Len(m_job_queue) /\ next = m_job_queue[1]
    BY <1>8, EmptySeq, LenProperties DEF TypeOK
  <2>2. next \in DOMAIN job \ {rem_job}
    BY <2>1 DEF OnePlace, Queued, JobFinished
  <2>3. /\ job' \in [DOMAIN job \ {rem_job} -> JobRecord]
        /\ \A i \in DOMAIN job \ {rem_job} : /\ job'[i].arrival = job[i].arrival
                                             /\ job'[i].inserted \in {job[i].inserted, time}
    <3> DEFINE D == DOMAIN job \ {rem_job}
    <3>1. h \in [D -> JobRecord] /\ next \in D /\ job' = Dispatched(h, next, time)
      BY <1>4, <1>8, <2>2
    <3> HIDE DEF D
    <3>2. /\ job' \in [D -> JobRecord]
          /\ \A i \in D : /\ job'[i].arrival = h[i].arrival
                          /\ job'[i].inserted \in {h[i].inserted, time}
      BY <1>1, <3>1, DispatchedFields
    <3> QED BY <1>4, <3>2 DEF D
  <2> QED BY <1>2, <1>5, <1>8, <2>1, <2>3
<1> QED BY <1>6, <1>7, <1>8

\* An expired core's job goes to the queue and the head of the queue, perhaps
\* that same job, takes the core.
LEMMA QuantumExpiredPlaces ==
  ASSUME PlacementInv, NEW c \in Cores, NEW time \in Times, QuantumExpired(c, time)
  PROVE  LET replace_job == job_list[c]
         IN /\ replace_job \in DOMAIN job
            /\ DOMAIN job' = DOMAIN job
            /\ job' \in [DOMAIN job' -> JobRecord]
            /\ \A i \in DOMAIN job' : /\ job'[i].arrival = job[i].arrival
                                      /\ job'[i].inserted \in {job[i].inserted, time}
            /\ \E k \in 1..(Len(m_job_queue) + 1) :
                 LET queue == Link(m_job_queue, k, replace_job)
                 IN /\ m_job_queue' = Tail(queue)
                    /\ job_list' = [job_list EXCEPT ![c] = queue[1]]
            /\ stats' = stats /\ m_scheme' = m_scheme
<1> USE DEF PlacementInv
<1> DEFINE replace_job == job_list[c]
           h == update_core(time)
<1>1. time \in Nat
  BY InputsAssumption
<1>2. replace_job \in DOMAIN job /\ replace_job \in JobNumbers
  BY DEF QuantumExpired, OnePlace, TypeOK
<1>3. PICK next \in JobNumbers, k \in Places(h, replace_job) :
        /\ next = Head(Link(m_job_queue, k, replace_job))
        /\ m_job_queue' = Tail(Link(m_job_queue, k, replace_job))
        /\ job_list' = [job_list EXCEPT ![c] = next]
        /\ job' = Dispatched(h, next, time)
        /\ UNCHANGED <<m_scheme, stats>>
  BY DEF QuantumExpired, scheduler_quantum_expired
<1>4. k \in 1..(Len(m_job_queue) + 1)
  BY PlacesRange
<1> DEFINE queue == Link(m_job_queue, k, replace_job)
<1>5. /\ Len(m_job_queue) \in Nat
      /\ queue \in Seq(JobNumbers)
      /\ Len(queue) = Len(m_job_queue) + 1
      /\ \A i \in 1..Len(queue) :
           \/ queue[i] = replace_job
           \/ \E m \in 1..Len(m_job_queue) : queue[i] = m_job_queue[m]
  <2>1. m_job_queue \in Seq(JobNumbers)
    BY DEF TypeOK
  <2> HIDE DEF queue, replace_job
  <2>2. queue \in Seq(JobNumbers) /\ Len(queue) = Len(m_job_queue) + 1
    BY <1>2, <1>4, <2>1, LinkType DEF queue
  <2>3. \A i \in 1..Len(queue) :
           \/ queue[i] = replace_job
           \/ \E m \in 1..Len(m_job_queue) : queue[i] = m_job_queue[m]
    BY <1>2, <1>4, <2>1, LinkElements DEF queue
  <2> QED BY <2>1, <2>2, <2>3, LenProperties
<1>6. next = queue[1] /\ 1 \in 1..Len(queue)
  BY <1>3, <1>5
<1>7. next \in DOMAIN job
  BY <1>2, <1>5, <1>6 DEF OnePlace
<1>8. h \in [DOMAIN job -> JobRecord] /\ \A i \in DOMAIN job : /\ h[i].arrival = job[i].arrival
                                                               /\ h[i].inserted = job[i].inserted
  BY <1>1, UpdateCoreFields
<1> HIDE DEF h, queue
<1>9. /\ job' \in [DOMAIN job -> JobRecord]
      /\ \A i \in DOMAIN job : /\ job'[i].arrival = job[i].arrival
                               /\ job'[i].inserted \in {job[i].inserted, time}
  <2>1. /\ job' \in [DOMAIN job -> JobRecord]
        /\ \A i \in DOMAIN job : /\ job'[i].arrival = h[i].arrival
                                 /\ job'[i].inserted \in {h[i].inserted, time}
    BY <1>1, <1>3, <1>7, <1>8, DispatchedFields
  <2> QED BY <1>8, <2>1
<1> QED BY <1>2, <1>3, <1>4, <1>6, <1>9 DEF queue
-----------------------------------------------------------------------------
\* The invariant is inductive.

LEMMA PlacementInit == SchedInit => PlacementInv
<1> SUFFICES ASSUME SchedInit PROVE PlacementInv
  OBVIOUS
<1> USE DEF SchedInit, scheduler_start_up
<1>1. m_job_queue \in Seq(JobNumbers) /\ Len(m_job_queue) = 0
  BY EmptySeq
<1>2. TypeOK
  BY <1>1, SchemesAssumption DEF TypeOK, Cores
<1>3. OnePlace
  BY <1>1 DEF OnePlace
<1>4. WorkConserving /\ JobsKnown
  BY DEF WorkConserving, JobsKnown
<1> QED BY <1>2, <1>3, <1>4 DEF PlacementInv

LEMMA NewJobPlacement ==
  ASSUME PlacementInv, NEW j \in JobNumbers, NEW time \in Times, NewJob(j, time)
  PROVE  PlacementInv'
<1> USE DEF PlacementInv
<1> DEFINE q == m_job_queue
<1>1. time \in Nat /\ j # NoJob
  BY InputsAssumption, NoJobAssumption
<1>2. /\ j \notin DOMAIN submitted /\ time >= clock
      /\ \A k \in DOMAIN submitted : submitted[k] # time
      /\ submitted' = [k \in DOMAIN submitted \union {j} |-> IF k = j THEN time ELSE submitted[k]]
      /\ clock' = time
  BY DEF NewJob, Announce, Announced
<1>3. /\ j \notin DOMAIN job
      /\ DOMAIN job' = DOMAIN job \union {j}
      /\ job' \in [DOMAIN job' -> JobRecord]
      /\ job'[j].arrival = time /\ job'[j].inserted = time
      /\ \A i \in DOMAIN job : /\ job'[i].arrival = job[i].arrival
                               /\ job'[i].inserted = job[i].inserted
      /\ m_scheme' = m_scheme /\ stats' = stats
  BY NewJobPlaces
<1>4. q \in Seq(JobNumbers) /\ Len(q) \in Nat
  BY LenProperties DEF TypeOK
<1>5. JobsKnown'
  <2>1. \A i \in DOMAIN job : job[i].arrival \in Nat /\ job[i].inserted \in Nat
    BY DEF TypeOK, JobRecord
  <2>2. \A k \in DOMAIN submitted : submitted[k] \in Nat
    BY DEF TypeOK
  <2> QED BY <1>1, <1>2, <1>3, <2>1, <2>2 DEF JobsKnown, TypeOK
<1>6. CASE /\ q = <<>> /\ q' = <<>>
           /\ \E c \in Cores : job_list[c] = NoJob /\ job_list' = [job_list EXCEPT ![c] = j]
  <2>1. PICK c \in Cores : job_list[c] = NoJob /\ job_list' = [job_list EXCEPT ![c] = j]
    BY <1>6
  <2>2. Len(q) = 0 /\ Len(q') = 0 /\ q' = q
    BY <1>6, EmptySeq
  <2>3. TypeOK'
    BY <1>1, <1>2, <1>3, <2>1, <2>2 DEF TypeOK
  <2>4. OnePlace'
    <3>1. \A d \in Cores : job_list'[d] = IF d = c THEN j ELSE job_list[d]
      BY <2>1 DEF TypeOK
    <3>2. \A d \in Cores : job_list[d] # j
      BY <1>1, <1>3 DEF OnePlace
    <3>3. \A i \in DOMAIN job' : \E d \in Cores : job_list'[d] = i
      <4> TAKE i \in DOMAIN job'
      <4>1. CASE i = j
        BY <3>1, <4>1
      <4>2. CASE i # j
        <5>1. PICK d \in Cores : job_list[d] = i
          BY <1>3, <2>2, <4>2 DEF OnePlace, OnCore, Queued
        <5>2. d # c
          BY <2>1, <5>1, <1>3, <4>2, NoJobAssumption DEF TypeOK
        <5> QED BY <3>1, <5>1, <5>2
      <4> QED BY <4>1, <4>2
    <3> QED BY <1>1, <1>3, <2>2, <3>1, <3>2, <3>3 DEF OnePlace, OnCore, Queued
  <2>5. WorkConserving'
    BY <1>6 DEF WorkConserving
  <2> QED BY <1>5, <2>3, <2>4, <2>5
<1>7. CASE /\ IdleCores = {} /\ job_list' = job_list
           /\ \E k \in 1..(Len(q) + 1) : q' = Link(q, k, j)
  <2>1. PICK k \in 1..(Len(q) + 1) : q' = Link(q, k, j)
    BY <1>7
  <2>2. q' \in Seq(JobNumbers)
    BY <1>4, <2>1, LinkType
  <2>3. /\ \E i \in 1..Len(q') : q'[i] = j
        /\ \A m \in 1..Len(q) : \E i \in 1..Len(q') : q'[i] = q[m]
        /\ \A i \in 1..Len(q') : q'[i] = j \/ \E m \in 1..Len(q) : q'[i] = q[m]
    BY <1>4, <2>1, LinkElements
  <2>4. \A i, m \in 1..Len(q') : q'[i] = q'[m] => i = m
    <3>1. \A i \in 1..Len(q) : q[i] # j
      BY <1>3 DEF OnePlace
    <3>2. \A i, m \in 1..Len(q) : q[i] = q[m] => i = m
      BY DEF OnePlace
    <3> QED BY <1>4, <2>1, <3>1, <3>2, LinkDistinct
  <2>5. TypeOK'
    BY <1>1, <1>2, <1>3, <1>7, <2>2 DEF TypeOK
  <2>6. OnePlace'
    <3>1. \A i \in DOMAIN job' : OnCore(i)' \/ Queued(i)'
      BY <1>3, <1>7, <2>3 DEF OnePlace, OnCore, Queued
    <3>2. \A c \in Cores : job_list'[c] # NoJob =>
            /\ job_list'[c] \in DOMAIN job'
            /\ ~ Queued(job_list[c])'
            /\ \A d \in Cores : job_list'[d] = job_list'[c] => d = c
      BY <1>3, <1>7, <2>3 DEF OnePlace, Queued
    <3>3. \A i \in 1..Len(q') : q'[i] \in DOMAIN job'
      BY <1>3, <2>3 DEF OnePlace
    <3> QED BY <1>7, <2>4, <3>1, <3>2, <3>3 DEF OnePlace, Queued
  <2>7. WorkConserving'
    BY <1>7 DEF WorkConserving, IdleCores
  <2> QED BY <1>5, <2>5, <2>6, <2>7
<1>8. CASE /\ IdleCores = {}
           /\ \E c \in Cores :
                /\ job_list[c] # NoJob
                /\ job_list' = [job_list EXCEPT ![c] = j]
                /\ \E k \in 1..(Len(q) + 1) : q' = Link(q, k, job_list[c])
  <2>1. PICK c \in Cores, k \in 1..(Len(q) + 1) :
          /\ job_list[c] # NoJob
          /\ job_list' = [job_list EXCEPT ![c] = j]
          /\ q' = Link(q, k, job_list[c])
    BY <1>8
  <2> DEFINE old == job_list[c]
  <2>2. old \in DOMAIN job /\ old \in JobNumbers /\ old # j
    BY <1>3, <2>1 DEF OnePlace, TypeOK
  <2>3. q' \in Seq(JobNumbers)
    BY <1>4, <2>1, <2>2, LinkType
  <2>4. /\ \E i \in 1..Len(q') : q'[i] = old
        /\ \A m \in 1..Len(q) : \E i \in 1..Len(q') : q'[i] = q[m]
        /\ \A i \in 1..Len(q') : q'[i] = old \/ \E m \in 1..Len(q) : q'[i] = q[m]
    <3>1. q' = Link(q, k, old)
      BY <2>1
    <3> HIDE DEF old
    <3>2. q \in Seq(JobNumbers) /\ old \in JobNumbers /\ k \in 1..(Len(q) + 1)
      BY <1>4, <2>2
    <3> HIDE DEF q, PlacementInv
    <3>3. \E i \in 1..Len(q') : q'[i] = old
      BY <3>1, <3>2, LinkHas
    <3>4. \A m \in 1..Len(q) : \E i \in 1..Len(q') : q'[i] = q[m]
      BY <3>1, <3>2, LinkKeeps
    <3>5. \A i \in 1..Len(q') : q'[i] = old \/ \E m \in 1..Len(q) : q'[i] = q[m]
      BY <3>1, <3>2, LinkOnly
    <3> QED BY <3>3, <3>4, <3>5
  <2>5. \A i, m \in 1..Len(q') : q'[i] = q'[m] => i = m
    <3>1. \A i \in 1..Len(q) : q[i] # old
      BY <2>1 DEF OnePlace, Queued
    <3>2. \A i, m \in 1..Len(q) : q[i] = q[m] => i = m
      BY DEF OnePlace
    <3>3. q' = Link(q, k, old)
      BY <2>1
    <3> HIDE DEF old
    <3>4. q \in Seq(JobNumbers) /\ old \in JobNumbers /\ k \in 1..(Len(q) + 1)
      BY <1>4, <2>2
    <3> HIDE DEF q, PlacementInv
    <3> QED BY <3>1, <3>2, <3>3, <3>4, LinkInjective
  <2>6. \A d \in Cores : job_list'[d] = IF d = c THEN j ELSE job_list[d]
    BY <2>1 DEF TypeOK
  <2>7. TypeOK'
    BY <1>1, <1>2, <1>3, <2>1, <2>3 DEF TypeOK
  <2>8. OnePlace'
    <3>1. \A i \in DOMAIN job' : OnCore(i)' \/ Queued(i)'
      <4> TAKE i \in DOMAIN job'
      <4>1. CASE i = j
        BY <2>6, <4>1 DEF OnCore
      <4>2. CASE i = old
        BY <2>4, <4>2 DEF Queued
      <4>3. CASE i # j /\ i # old /\ OnCore(i)
        BY <2>6, <4>3 DEF OnCore
      <4>4. CASE i # j /\ Queued(i)
        BY <2>4, <4>4 DEF Queued
      <4> QED BY <1>3, <4>1, <4>2, <4>3, <4>4 DEF OnePlace
    <3>2. \A i \in 1..Len(q') : q'[i] \in DOMAIN job' /\ q'[i] # j
      BY <1>3, <2>2, <2>4 DEF OnePlace
    <3>3. \A d \in Cores : job_list[d] # j
      BY <1>1, <1>3 DEF OnePlace
    <3>4. ASSUME NEW d \in Cores, job_list'[d] # NoJob
          PROVE  /\ job_list'[d] \in DOMAIN job'
                 /\ \A i \in 1..Len(q') : q'[i] # job_list'[d]
                 /\ \A e \in Cores : job_list'[e] = job_list'[d] => e = d
      <4>1. CASE d = c
        BY <1>3, <2>6, <3>2, <3>3, <4>1
      <4>2. CASE d # c
        BY <1>3, <2>1, <2>4, <2>6, <3>3, <3>4, <4>2 DEF OnePlace, Queued
      <4> QED BY <4>1, <4>2
    <3> QED BY <2>5, <3>1, <3>2, <3>4 DEF OnePlace, Queued
  <2>9. WorkConserving'
    <3>1. \A d \in Cores : job_list'[d] # NoJob
      BY <1>1, <1>8, <2>6 DEF IdleCores
    <3> QED BY <3>1 DEF WorkConserving, IdleCores
  <2> QED BY <1>5, <2>7, <2>8, <2>9
<1> QED BY <1>6, <1>7, <1>8, NewJobPlaces

\* What is known of the jobs survives a call that announces none, keeps their
\* arrival times, and moves insertion times to now at most.
LEMMA JobsKnownStep ==
  ASSUME TypeOK, JobsKnown, NEW time \in Nat, Call(time),
         DOMAIN job' \subseteq DOMAIN job,
         \A i \in DOMAIN job' : /\ job'[i].arrival = job[i].arrival
                                /\ job'[i].inserted \in {job[i].inserted, time}
  PROVE  JobsKnown'
<1>1. \A i \in DOMAIN job : job[i].arrival \in Nat /\ job[i].inserted \in Nat
  BY DEF TypeOK, JobRecord
<1>2. \A k \in DOMAIN submitted : submitted[k] \in Nat
  BY DEF TypeOK
<1>3. clock' = time /\ time >= clock /\ submitted' = submitted /\ clock \in Nat
  BY DEF Call, Called, TypeOK
<1> QED BY <1>1, <1>2, <1>3 DEF JobsKnown

LEMMA JobFinishedPlacement ==
  ASSUME PlacementInv, NEW c \in Cores, NEW time \in Times, JobFinished(c, time)
  PROVE  PlacementInv'
<1> USE DEF PlacementInv
<1> DEFINE q == m_job_queue
           rem_job == job_list[c]
<1>1. /\ time \in Nat /\ Call(time) /\ rem_job # NoJob
      /\ clock' = time /\ submitted' = submitted
  BY InputsAssumption DEF JobFinished, Call, Called
<1>2. /\ rem_job \in DOMAIN job
      /\ DOMAIN job' = DOMAIN job \ {rem_job}
      /\ job' \in [DOMAIN job' -> JobRecord]
      /\ \A i \in DOMAIN job' : /\ job'[i].arrival = job[i].arrival
                                /\ job'[i].inserted \in {job[i].inserted, time}
      /\ stats' = [waiting |-> stats.waiting + (time - job[rem_job].arrival) - job[rem_job].running,
                   turnaround |-> stats.turnaround + (time - job[rem_job].arrival),
                   response |-> stats.response + job[rem_job].inserted - job[rem_job].arrival,
                   scheduled |-> stats.scheduled + 1]
      /\ m_scheme' = m_scheme
  BY JobFinishedPlaces
<1>3. q \in Seq(JobNumbers) /\ Len(q) \in Nat
  BY LenProperties DEF TypeOK
<1>4. JobsKnown'
  BY <1>1, <1>2, JobsKnownStep
<1>5. stats' \in [waiting : Int, turnaround : Int, response : Int, scheduled : Nat]
  <2>1. /\ job[rem_job].arrival \in Nat /\ job[rem_job].inserted \in Nat
        /\ job[rem_job].running \in Nat
    BY <1>2 DEF TypeOK, JobRecord
  <2>2. /\ stats.waiting \in Int /\ stats.turnaround \in Int /\ stats.response \in Int
        /\ stats.scheduled \in Nat
    BY DEF TypeOK
  <2> QED BY <1>1, <1>2, <2>1, <2>2
<1>6. \A i \in 1..Len(q) : q[i] # rem_job
  BY <1>1 DEF OnePlace, Queued
<1>7. CASE q = <<>> /\ q' = <<>> /\ job_list' = [job_list EXCEPT ![c] = NoJob]
  <2>1. Len(q) = 0 /\ Len(q') = 0 /\ q' = q
    BY <1>7, EmptySeq
  <2>2. \A d \in Cores : job_list'[d] = IF d = c THEN NoJob ELSE job_list[d]
    BY <1>7 DEF TypeOK
  <2>3. TypeOK'
    BY <1>1, <1>2, <1>5, <1>7, <2>1 DEF TypeOK
  <2>4. OnePlace'
    BY <1>2, <2>1, <2>2 DEF OnePlace, OnCore, Queued
  <2>5. WorkConserving'
    BY <1>7 DEF WorkConserving
  <2> QED BY <1>4, <2>3, <2>4, <2>5
<1>8. CASE q # <<>> /\ q' = Tail(q) /\ job_list' = [job_list EXCEPT ![c] = q[1]]
  <2>1. /\ q' \in Seq(JobNumbers) /\ Len(q') = Len(q) - 1
        /\ \A i \in 1..Len(q') : q'[i] = q[i + 1]
        /\ 1 \in 1..Len(q) /\ q[1] \in JobNumbers
    BY <1>3, <1>8, HeadTailProperties, EmptySeq, ElementOfSeq
  <2>2. \A d \in Cores : job_list'[d] = IF d = c THEN q[1] ELSE job_list[d]
    BY <1>8 DEF TypeOK
  <2>3. TypeOK'
    BY <1>1, <1>2, <1>5, <1>8, <2>1 DEF TypeOK
  <2>4. \A i \in 2..Len(q) : i - 1 \in 1..Len(q') /\ q'[i - 1] = q[i]
    BY <1>3, <2>1
  <2>5. \A i \in 1..Len(q') : i + 1 \in 1..Len(q) /\ i + 1 # 1
    BY <1>3, <2>1
  <2>6. OnePlace'
    <3>1. \A i \in DOMAIN job' : OnCore(i)' \/ Queued(i)'
      <4> TAKE i \in DOMAIN job'
      <4>1. CASE OnCore(i)
        BY <1>2, <2>2, <4>1 DEF OnCore
      <4>2. CASE i = q[1]
        BY <2>2, <4>2 DEF OnCore
      <4>3. CASE Queued(i) /\ i # q[1]
        <5>1. PICK m \in 1..Len(q) : q[m] = i
          BY <4>3 DEF Queued
        <5>2. m \in 2..Len(q)
          BY <1>3, <4>3, <5>1
        <5> QED BY <2>4, <5>1, <5>2 DEF Queued
      <4> QED BY <1>2, <4>1, <4>2, <4>3 DEF OnePlace
    <3>2. \A i \in 1..Len(q') : q'[i] \in DOMAIN job' /\ q'[i] # q[1]
      BY <1>2, <1>6, <2>1, <2>5 DEF OnePlace
    <3>3. \A i, m \in 1..Len(q') : q'[i] = q'[m] => i = m
      BY <1>3, <2>1, <2>5 DEF OnePlace
    <3>4. ASSUME NEW d \in Cores, job_list'[d] # NoJob
          PROVE  /\ job_list'[d] \in DOMAIN job'
                 /\ \A i \in 1..Len(q') : q'[i] # job_list'[d]
                 /\ \A e \in Cores : job_list'[e] = job_list'[d] => e = d
      <4>1. \A e \in Cores : job_list[e] # q[1]
        BY <2>1, NoJobAssumption DEF OnePlace, Queued
      <4>2. CASE d = c
        BY <1>2, <1>6, <2>1, <2>2, <3>2, <4>1, <4>2 DEF OnePlace
      <4>3. CASE d # c
        BY <1>1, <1>2, <2>1, <2>2, <2>5, <3>4, <4>1, <4>3 DEF OnePlace, Queued
      <4> QED BY <4>2, <4>3
    <3> QED BY <3>1, <3>2, <3>3, <3>4 DEF OnePlace, Queued
  <2>7. WorkConserving'
    <3>1. \A d \in Cores : job_list'[d] # NoJob
      BY <1>8, <2>1, <2>2, NoJobAssumption DEF WorkConserving, IdleCores
    <3> QED BY <3>1 DEF WorkConserving, IdleCores
  <2> QED BY <1>4, <2>3, <2>6, <2>7
<1> QED BY <1>7, <1>8, JobFinishedPlaces

LEMMA QuantumExpiredPlacement ==
  ASSUME PlacementInv, NEW c \in Cores, NEW time \in Times, QuantumExpired(c, time)
  PROVE  PlacementInv'
<1> USE DEF PlacementInv
<1> DEFINE q == m_job_queue
           old == job_list[c]
<1>1. /\ time \in Nat /\ Call(time) /\ old # NoJob
      /\ clock' = time /\ submitted' = submitted
  BY InputsAssumption DEF QuantumExpired, Call, Called
<1>2. /\ old \in DOMAIN job
      /\ DOMAIN job' = DOMAIN job
      /\ job' \in [DOMAIN job' -> JobRecord]
      /\ \A i \in DOMAIN job' : /\ job'[i].arrival = job[i].arrival
                                /\ job'[i].inserted \in {job[i].inserted, time}
      /\ \E k \in 1..(Len(q) + 1) : /\ q' = Tail(Link(q, k, old))
                                    /\ job_list' = [job_list EXCEPT ![c] = Link(q, k, old)[1]]
      /\ stats' = stats /\ m_scheme' = m_scheme
  BY QuantumExpiredPlaces
<1>3. q \in Seq(JobNumbers) /\ Len(q) \in Nat /\ old \in JobNumbers
  BY <1>2, LenProperties DEF TypeOK
<1>4. JobsKnown'
  BY <1>1, <1>2, JobsKnownStep
<1>5. PICK k \in 1..(Len(q) + 1) : /\ q' = Tail(Link(q, k, old))
                                   /\ job_list' = [job_list EXCEPT ![c] = Link(q, k, old)[1]]
  BY <1>2
<1> DEFINE l == Link(q, k, old)
<1>6. \A i \in 1..Len(q) : q[i] # old
  BY <1>1 DEF OnePlace, Queued
<1>7. /\ l \in Seq(JobNumbers) /\ Len(l) = Len(q) + 1
      /\ \E i \in 1..Len(l) : l[i] = old
      /\ \A m \in 1..Len(q) : \E i \in 1..Len(l) : l[i] = q[m]
      /\ \A i \in 1..Len(l) : l[i] = old \/ \E m \in 1..Len(q) : l[i] = q[m]
      /\ \A i, m \in 1..Len(l) : l[i] = l[m] => i = m
  <2>1. \A i, m \in 1..Len(q) : q[i] = q[m] => i = m
    BY DEF OnePlace
  <2>2. q \in Seq(JobNumbers) /\ old \in JobNumbers /\ k \in 1..(Len(q) + 1)
    BY <1>3
  <2> HIDE DEF q, old, PlacementInv
  <2>3. l \in Seq(JobNumbers) /\ Len(l) = Len(q) + 1
    BY <2>2, LinkType
  <2>4. /\ \E i \in 1..Len(l) : l[i] = old
        /\ \A m \in 1..Len(q) : \E i \in 1..Len(l) : l[i] = q[m]
        /\ \A i \in 1..Len(l) : l[i] = old \/ \E m \in 1..Len(q) : l[i] = q[m]
    <3>1. l = Link(q, k, old)
      OBVIOUS
    <3> HIDE DEF l
    <3>2. \E i \in 1..Len(l) : l[i] = old
      BY <2>2, <3>1, LinkHas
    <3>3. \A m \in 1..Len(q) : \E i \in 1..Len(l) : l[i] = q[m]
      BY <2>2, <3>1, LinkKeeps
    <3>4. \A i \in 1..Len(l) : l[i] = old \/ \E m \in 1..Len(q) : l[i] = q[m]
      BY <2>2, <3>1, LinkOnly
    <3> QED BY <3>2, <3>3, <3>4
  <2>5. \A i, m \in 1..Len(l) : l[i] = l[m] => i = m
    BY <1>6, <2>1, <2>2, LinkDistinct
  <2> QED BY <2>3, <2>4, <2>5
<1>8. q' = Tail(l) /\ job_list' = [job_list EXCEPT ![c] = l[1]]
  BY <1>5
<1> HIDE DEF l
<1>9. /\ q' \in Seq(JobNumbers) /\ Len(q') = Len(l) - 1
      /\ \A i \in 1..Len(q') : q'[i] = l[i + 1] /\ i + 1 \in 1..Len(l)
      /\ 1 \in 1..Len(l) /\ l[1] \in JobNumbers
  BY <1>3, <1>7, <1>8, HeadTailProperties, EmptySeq, ElementOfSeq
<1>10. \A i \in 2..Len(l) : i - 1 \in 1..Len(q') /\ q'[i - 1] = l[i]
  BY <1>3, <1>7, <1>9
<1>11. \A d \in Cores : job_list'[d] = IF d = c THEN l[1] ELSE job_list[d]
  BY <1>8 DEF TypeOK
<1>12. TypeOK'
  BY <1>1, <1>2, <1>8, <1>9 DEF TypeOK
<1>13. OnePlace'
  <2>1. ASSUME NEW i \in DOMAIN job'  PROVE OnCore(i)' \/ Queued(i)'
    <3>1. CASE \E m \in 1..Len(l) : l[m] = i
      <4>1. PICK m \in 1..Len(l) : l[m] = i
        BY <3>1
      <4>2. CASE m = 1
        BY <1>11, <4>1, <4>2 DEF OnCore
      <4>3. CASE m # 1
        <5>1. m \in 2..Len(l)
          BY <1>3, <1>7, <4>3
        <5> QED BY <1>10, <4>1, <5>1 DEF Queued
      <4> QED BY <4>2, <4>3
    <3>2. CASE OnCore(i) /\ i # old
      BY <1>11, <3>2 DEF OnCore
    <3> QED BY <1>2, <1>7, <3>1, <3>2 DEF OnePlace, Queued
  <2>2. \A i \in 1..Len(l) : l[i] \in DOMAIN job
    <3>1. \A i \in 1..Len(l) : l[i] = old \/ \E m \in 1..Len(q) : l[i] = q[m]
      BY <1>7
    <3>2. \A m \in 1..Len(q) : q[m] \in DOMAIN job
      BY DEF OnePlace
    <3> HIDE DEF q, old
    <3> QED BY <1>2, <3>1, <3>2
  <2>3. \A i, m \in 1..Len(q') : q'[i] = q'[m] => i = m
    <3> TAKE i, m \in 1..Len(q')
    <3> HAVE q'[i] = q'[m]
    <3>1. i + 1 \in 1..Len(l) /\ m + 1 \in 1..Len(l) /\ l[i + 1] = l[m + 1]
      BY <1>9
    <3>2. i + 1 = m + 1
      BY <1>7, <3>1
    <3>3. i \in Int /\ m \in Int
      OBVIOUS
    <3> QED BY <3>2, <3>3
  <2>4. \A i \in 1..Len(q') : q'[i] # l[1]
    <3> TAKE i \in 1..Len(q')
    <3>1. i \in Nat \ {0}
      BY <1>3, <1>7, <1>9
    <3>2. i + 1 # 1
      BY <3>1
    <3> QED BY <1>7, <1>9, <3>2
  <2>5. ASSUME NEW d \in Cores, d # c, job_list[d] # NoJob
        PROVE  \A i \in 1..Len(l) : l[i] # job_list[d]
    <3>1. job_list[d] # old
      BY <2>5 DEF OnePlace
    <3>2. \A m \in 1..Len(q) : q[m] # job_list[d]
      BY <2>5 DEF OnePlace, Queued
    <3>3. \A i \in 1..Len(l) : l[i] = old \/ \E m \in 1..Len(q) : l[i] = q[m]
      BY <1>7
    <3> HIDE DEF PlacementInv
    <3> QED BY <3>1, <3>2, <3>3
  <2>6. ASSUME NEW d \in Cores, job_list'[d] # NoJob
        PROVE  /\ job_list'[d] \in DOMAIN job'
               /\ \A i \in 1..Len(q') : q'[i] # job_list'[d]
               /\ \A e \in Cores : job_list'[e] = job_list'[d] => e = d
    <3>1. CASE d = c
      BY <1>2, <1>9, <1>11, <2>2, <2>4, <2>5, <2>6, <3>1
    <3>2. CASE d # c
      BY <1>2, <1>9, <1>11, <2>5, <2>6, <3>2 DEF OnePlace
    <3> QED BY <3>1, <3>2
  <2> QED BY <1>2, <1>9, <2>1, <2>2, <2>3, <2>6 DEF OnePlace, Queued
<1>14. WorkConserving'
  <2>1. CASE q = <<>>
    <3>1. Len(q') = 0
      BY <1>7, <1>9, <2>1, EmptySeq
    <3> QED BY <1>9, <3>1, EmptySeq DEF WorkConserving
  <2>2. CASE q # <<>>
    <3>1. \A d \in Cores : job_list'[d] # NoJob
      BY <1>9, <1>11, <2>2, NoJobAssumption DEF WorkConserving, IdleCores
    <3> QED BY <3>1 DEF WorkConserving, IdleCores
  <2> QED BY <2>1, <2>2
<1> QED BY <1>4, <1>12, <1>13, <1>14

LEMMA PlacementStep == PlacementInv /\ [SchedNext]_schedVars => PlacementInv'
<1> SUFFICES ASSUME PlacementInv, [SchedNext]_schedVars  PROVE PlacementInv'
  OBVIOUS
<1>1. CASE \E j \in JobNumbers, time \in Times : NewJob(j, time)
  BY <1>1, NewJobPlacement
<1>2. CASE \E c \in Cores, time \in Times : JobFinished(c, time)
  BY <1>2, JobFinishedPlacement
<1>3. CASE \E c \in Cores, time \in Times : QuantumExpired(c, time)
  BY <1>3, QuantumExpiredPlacement
<1>4. CASE UNCHANGED schedVars
  BY <1>4 DEF schedVars, PlacementInv, TypeOK, OnePlace, WorkConserving, JobsKnown,
              OnCore, Queued, IdleCores
<1> QED BY <1>1, <1>2, <1>3, <1>4 DEF SchedNext

LEMMA PlacementAlways == SchedSpec => []PlacementInv
BY PlacementInit, PlacementStep, PTL DEF SchedSpec

\* Type correctness of the library's state, whatever the legal calls.
THEOREM TypeCorrect == SchedSpec => []TypeOK
BY PlacementAlways, PTL DEF PlacementInv

\* The library never loses a job, never schedules one twice and never keeps a
\* pointer to a freed job_t.
THEOREM EveryJobInOnePlace == SchedSpec => []OnePlace
BY PlacementAlways, PTL DEF PlacementInv

\* No call leaves a core idle while a job waits.
THEOREM NeverIdleWhileWaiting == SchedSpec => []WorkConserving
BY PlacementAlways, PTL DEF PlacementInv
\* What is proved inductive here, on top of PlacementInv.
OrderInv == QueueOrdered /\ NoInversion

-----------------------------------------------------------------------------
\* The comparer.

LEMMA ComparerInt ==
  ASSUME NEW a \in JobRecord, NEW b \in JobRecord
  PROVE  comparer(a, b) \in Int
<1>1. Key(a) \in Int /\ Key(b) \in Int
  BY DEF Key, JobRecord
<1> QED BY <1>1 DEF comparer, JobRecord

\* Swapping its arguments turns the sign.
LEMMA ComparerAntisymmetric ==
  ASSUME NEW a \in JobRecord, NEW b \in JobRecord
  PROVE  /\ comparer(a, b) >= 0 => comparer(b, a) <= 0
         /\ comparer(a, b) > 0 => comparer(b, a) < 0
         /\ comparer(a, b) <= 0 => comparer(b, a) >= 0
<1>1. Key(a) \in Int /\ Key(b) \in Int
  BY DEF Key, JobRecord
<1> QED BY <1>1 DEF comparer, JobRecord

LEMMA ComparerTransitive ==
  ASSUME NEW a \in JobRecord, NEW b \in JobRecord, NEW c \in JobRecord
  PROVE  /\ comparer(a, b) <= 0 /\ comparer(b, c) <= 0 => comparer(a, c) <= 0
         /\ comparer(a, b) < 0 /\ comparer(b, c) <= 0 => comparer(a, c) < 0
<1>1. Key(a) \in Int /\ Key(b) \in Int /\ Key(c) \in Int
  BY DEF Key, JobRecord
<1> QED BY <1>1 DEF comparer, JobRecord

\* Under the schemes that do not look at what remains, two jobs that arrive at
\* different times never tie, and what remains does not matter.
LEMMA ComparerStatic ==
  ASSUME NEW a \in JobRecord, NEW b \in JobRecord, m_scheme \in {"FCFS", "PPRI"}
  PROVE  /\ a.arrival # b.arrival => comparer(a, b) # 0
         /\ comparer(a, b) = IF m_scheme = "PPRI" /\ a.priority # b.priority
                             THEN a.priority - b.priority ELSE a.arrival - b.arrival
<1>1. /\ Key(a) = IF m_scheme = "PPRI" THEN a.priority ELSE 0
      /\ Key(b) = IF m_scheme = "PPRI" THEN b.priority ELSE 0
  BY DEF Key
<1> QED BY <1>1 DEF comparer, JobRecord

-----------------------------------------------------------------------------
\* Offering to the queue.

Ordered(queue, heap) ==
  \A i, k \in 1..Len(queue) : i < k => comparer(heap[queue[i]], heap[queue[k]]) <= 0

\* priqueue_offer puts the new element behind everything it does not precede
\* and before the first element it precedes.
LEMMA PlacesSplit ==
  ASSUME TypeOK, NEW heap, NEW j, NEW k \in Places(heap, j)
  PROVE  /\ k \in 1..(Len(m_job_queue) + 1)
         /\ \A i \in 1..(k - 1) : comparer(heap[j], heap[m_job_queue[i]]) >= 0
         /\ k <= Len(m_job_queue) => comparer(heap[j], heap[m_job_queue[k]]) < 0
<1> DEFINE n == Len(m_job_queue)
           cmps == [i \in 1..n |-> comparer(heap[j], heap[m_job_queue[i]])]
<1>1. n \in Nat
  BY LenProperties DEF TypeOK
<1>2. cmps \in Seq({cmps[i] : i \in 1..n})
  BY <1>1, SeqDef
<1>3. Len(cmps) = n
  BY <1>1, <1>2, LenProperties
<1>4. \A i \in 1..n : cmps[i] = comparer(heap[j], heap[m_job_queue[i]])
  OBVIOUS
<1>5. k \in OfferIndices(cmps)
  BY DEF Places
<1> HIDE DEF cmps
<1> QED BY <1>1, <1>3, <1>4, <1>5 DEF OfferIndices

LEMMA RecordFields ==
  ASSUME NEW r \in JobRecord
  PROVE  r.arrival \in Int /\ r.priority \in Int
BY DEF JobRecord

LEMMA OfferKeepsOrder ==
  ASSUME TypeOK, NEW D, NEW heap \in [D -> JobRecord], NEW j \in D \intersect JobNumbers,
         \A i \in 1..Len(m_job_queue) : m_job_queue[i] \in D,
         Ordered(m_job_queue, heap),
         NEW k \in Places(heap, j), NEW f, f = Link(m_job_queue, k, j)
  PROVE  Ordered(f, heap)
<1> DEFINE q == m_job_queue
<1>1. q \in Seq(JobNumbers) /\ Len(q) \in Nat
  BY LenProperties DEF TypeOK
<1>2. /\ k \in 1..(Len(q) + 1)
      /\ \A i \in 1..(k - 1) : comparer(heap[j], heap[q[i]]) >= 0
      /\ k <= Len(q) => comparer(heap[j], heap[q[k]]) < 0
  BY PlacesSplit
<1>3. /\ Len(f) = Len(q) + 1
      /\ \A i \in 1..(Len(q) + 1) : f[i] = IF i < k THEN q[i] ELSE IF i = k THEN j ELSE q[i - 1]
  <2>1. Link(q, k, j) = f
    OBVIOUS
  <2>2. j \in JobNumbers
    OBVIOUS
  <2>3. q \in Seq(JobNumbers) /\ k \in 1..(Len(q) + 1)
    BY <1>1, <1>2
  <2> HIDE DEF q
  <2> QED BY <2>1, <2>2, <2>3, LinkPlaces
<1>4. \A i \in 1..Len(q) : heap[q[i]] \in JobRecord
  OBVIOUS
<1>5. heap[j] \in JobRecord
  OBVIOUS
<1>6. \A i \in k..Len(q) : comparer(heap[j], heap[q[i]]) <= 0
  <2> TAKE i \in k..Len(q)
  <2>1. k \in 1..Len(q) /\ i \in 1..Len(q) /\ k <= Len(q)
    BY <1>1, <1>2
  <2>2. comparer(heap[j], heap[q[k]]) \in Int /\ comparer(heap[j], heap[q[k]]) < 0
    BY <1>2, <1>4, <1>5, <2>1, ComparerInt
  <2>3. CASE i = k
    BY <2>2, <2>3
  <2>4. CASE i > k
    <3>1. comparer(heap[q[k]], heap[q[i]]) <= 0
      BY <2>1, <2>4 DEF Ordered
    <3>2. comparer(heap[j], heap[q[k]]) <= 0
      BY <2>2
    <3> QED BY <1>4, <1>5, <2>1, <3>1, <3>2, ComparerTransitive
  <2> QED BY <1>1, <1>2, <2>3, <2>4
<1>7. \A i \in 1..(k - 1) : comparer(heap[q[i]], heap[j]) <= 0
  <2> TAKE i \in 1..(k - 1)
  <2>1. i \in 1..Len(q)
    BY <1>1, <1>2
  <2> QED BY <1>2, <1>4, <1>5, <2>1, ComparerAntisymmetric
<1>8. ASSUME NEW a \in 1..Len(f), NEW b \in 1..Len(f), a < b
      PROVE  comparer(heap[f[a]], heap[f[b]]) <= 0
  <2>1. CASE b < k
    <3>1. a \in 1..Len(q) /\ b \in 1..Len(q) /\ f[a] = q[a] /\ f[b] = q[b]
      BY <1>1, <1>2, <1>3, <1>8, <2>1
    <3> QED BY <1>8, <3>1 DEF Ordered
  <2>2. CASE b = k
    <3>1. a \in 1..(k - 1) /\ f[a] = q[a] /\ f[b] = j
      BY <1>1, <1>2, <1>3, <1>8, <2>2
    <3> QED BY <1>7, <3>1
  <2>3. CASE a = k
    <3>1. b - 1 \in k..Len(q) /\ f[a] = j /\ f[b] = q[b - 1]
      BY <1>1, <1>2, <1>3, <1>8, <2>3
    <3> QED BY <1>6, <3>1
  <2>4. CASE a < k /\ b > k
    <3>1. a \in 1..Len(q) /\ b - 1 \in 1..Len(q) /\ f[a] = q[a] /\ f[b] = q[b - 1] /\ a <= b - 1
      BY <1>1, <1>2, <1>3, <1>8, <2>4
    <3>2. a < b - 1
      BY <1>2, <2>4
    <3> QED BY <3>1, <3>2 DEF Ordered
  <2>5. CASE a > k
    <3>1. a - 1 \in 1..Len(q) /\ b - 1 \in 1..Len(q) /\ f[a] = q[a - 1] /\ f[b] = q[b - 1]
          /\ a - 1 < b - 1
      BY <1>1, <1>2, <1>3, <1>8, <2>5
    <3> QED BY <3>1 DEF Ordered
  <2> QED BY <1>1, <1>2, <1>3, <2>1, <2>2, <2>3, <2>4, <2>5
<1> QED BY <1>8 DEF Ordered
-----------------------------------------------------------------------------
\* What the calls do to the order.  Better(heap, x, y): x goes strictly first.

Better(heap, x, y) == comparer(heap[x], heap[y]) < 0

\* NoInversion for a given assignment, queue and heap.
Uninverted(list, queue, heap) ==
  m_scheme \in {"FCFS", "PPRI"} =>
    \A c \in Cores, i \in 1..Len(queue) : list[c] # NoJob => Better(heap, list[c], queue[i])

LEMMA OrderInvPrime ==
  ASSUME m_scheme' = m_scheme, Ordered(m_job_queue', job'),
         Uninverted(job_list', m_job_queue', job')
  PROVE  OrderInv'
<1>1. QueueOrdered'
  BY DEF QueueOrdered, Ordered, comparer, Key
<1>2. NoInversion'
  BY DEF NoInversion, Uninverted, Better, comparer, Key
<1> QED BY <1>1, <1>2 DEF OrderInv

LEMMA OrderInvNow ==
  OrderInv <=> Ordered(m_job_queue, job) /\ Uninverted(job_list, m_job_queue, job)
BY DEF OrderInv, QueueOrdered, Ordered, NoInversion, Uninverted, Better

\* Jobs that arrived at different times are never level under FCFS and PPRI.
LEMMA NeverLevel ==
  ASSUME PlacementInv, NEW x \in DOMAIN job, NEW y \in DOMAIN job, x # y
  PROVE  /\ job[x].arrival # job[y].arrival
         /\ m_scheme \in {"FCFS", "PPRI"} => comparer(job[x], job[y]) # 0
<1>1. job[x] \in JobRecord /\ job[y] \in JobRecord
  BY DEF PlacementInv, TypeOK
<1>2. job[x].arrival # job[y].arrival
  BY DEF PlacementInv, JobsKnown
<1> QED BY <1>1, <1>2, ComparerStatic

LEMMA JobFinishedOrder ==
  ASSUME PlacementInv, OrderInv, NEW c \in Cores, NEW time \in Times, JobFinished(c, time)
  PROVE  OrderInv'
<1> DEFINE q == m_job_queue
           rem_job == job_list[c]
           h == [k \in DOMAIN job \ {rem_job} |-> update_core(time)[k]]
<1>1. time \in Nat /\ TypeOK /\ OnePlace /\ rem_job # NoJob
  BY InputsAssumption DEF PlacementInv, JobFinished
<1>2. PICK next \in JobNumbers \union {NoJob} : scheduler_job_finished(c, time, next)
  BY DEF JobFinished
<1>3. /\ job_list' = [job_list EXCEPT ![c] = next] /\ m_scheme' = m_scheme
      /\ \/ m_job_queue = <<>> /\ next = NoJob /\ job' = h /\ UNCHANGED m_job_queue
         \/ /\ m_job_queue # <<>> /\ next = Head(m_job_queue)
            /\ job' = Dispatched(h, next, time) /\ m_job_queue' = Tail(m_job_queue)
  BY <1>2 DEF scheduler_job_finished
<1>4. \A d \in Cores : job_list'[d] = IF d = c THEN next ELSE job_list[d]
  BY <1>1, <1>3 DEF TypeOK
<1>5. CASE m_job_queue = <<>> /\ UNCHANGED m_job_queue
  <2>1. Len(m_job_queue') = 0
    BY <1>5, EmptySeq
  <2>2. Ordered(m_job_queue', job') /\ Uninverted(job_list', m_job_queue', job')
    BY <2>1 DEF Ordered, Uninverted
  <2> QED BY <1>3, <2>2, OrderInvPrime
<1>6. CASE /\ q # <<>> /\ next = Head(q)
           /\ job' = Dispatched(h, next, time) /\ q' = Tail(q)
  <2>1. /\ q \in Seq(JobNumbers) /\ Len(q) \in Nat
        /\ q' \in Seq(JobNumbers) /\ Len(q') = Len(q) - 1
        /\ \A i \in 1..Len(q') : q'[i] = q[i + 1] /\ i + 1 \in 1..Len(q) /\ i + 1 > 1
        /\ 1 \in 1..Len(q) /\ next = q[1]
    BY <1>1, <1>6, HeadTailProperties, EmptySeq, LenProperties DEF TypeOK
  <2>2. /\ \A i \in 1..Len(q) : q[i] \in DOMAIN job \ {rem_job} /\ ~ OnCore(q[i])
        /\ \A i \in 2..Len(q) : q[i] # next
    <3>1. \A i \in 1..Len(q) : q[i] \in DOMAIN job /\ q[i] # NoJob
      BY <1>1, <2>1, NoJobAssumption, ElementOfSeq DEF OnePlace
    <3>2. \A i \in 1..Len(q), d \in Cores : job_list[d] # q[i]
      BY <1>1, <3>1 DEF OnePlace, Queued
    <3>3. \A i \in 2..Len(q) : i \in 1..Len(q) /\ i # 1
      BY <2>1
    <3>4. \A i \in 2..Len(q) : q[i] # q[1]
      BY <1>1, <2>1, <3>3 DEF OnePlace
    <3> QED BY <2>1, <3>1, <3>2, <3>4 DEF OnCore
  <2> DEFINE D == DOMAIN job \ {rem_job}
  <2>3. h \in [D -> JobRecord] /\ next \in D /\ job' = Dispatched(h, next, time)
    BY <1>1, <1>6, <2>1, <2>2, UpdateCoreFields
  <2>4. \A i \in D : /\ h[i].arrival = job[i].arrival /\ h[i].priority = job[i].priority
                     /\ ~ OnCore(i) => h[i] = job[i]
    BY <1>1, UpdateCoreFields
  <2> HIDE DEF D, h
  <2>5. /\ job' \in [D -> JobRecord]
        /\ \A i \in D : /\ job'[i].arrival = h[i].arrival /\ job'[i].priority = h[i].priority
                        /\ i # next => job'[i] = h[i]
    BY <1>1, <2>3, DispatchedFields
  <2>6. \A i \in 1..Len(q') : job'[q'[i]] = job[q[i + 1]] /\ q'[i] \in D
    <3> TAKE i \in 1..Len(q')
    <3>1. i + 1 \in 2..Len(q) /\ i + 1 \in 1..Len(q) /\ q'[i] = q[i + 1]
      BY <2>1
    <3> QED BY <2>2, <2>4, <2>5, <3>1 DEF D
  <2>7. Ordered(q', job')
    <3>1. \A i, k \in 1..Len(q') : i < k =>
            comparer(job[q[i + 1]], job[q[k + 1]]) <= 0
      <4> TAKE i, k \in 1..Len(q')
      <4> HAVE i < k
      <4>1. i + 1 \in 1..Len(q) /\ k + 1 \in 1..Len(q) /\ i + 1 < k + 1
        BY <2>1
      <4>2. Ordered(q, job)
        BY OrderInvNow
      <4> QED BY <4>1, <4>2 DEF Ordered
    <3> QED BY <2>6, <3>1 DEF Ordered
  <2>8. Uninverted(job_list', q', job')
    <3> SUFFICES ASSUME m_scheme \in {"FCFS", "PPRI"},
                        NEW d \in Cores, NEW i \in 1..Len(q'), job_list'[d] # NoJob
                 PROVE  Better(job', job_list'[d], q'[i])
      BY DEF Uninverted
    <3>1. /\ i + 1 \in 1..Len(q) /\ i + 1 \in 2..Len(q) /\ q'[i] = q[i + 1] /\ 1 < i + 1
          /\ q[i + 1] \in DOMAIN job /\ q[i + 1] \in D /\ q[1] \in DOMAIN job
      BY <2>1, <2>2 DEF D
    <3>2. job'[q'[i]] = job[q[i + 1]]
      BY <2>6
    <3>3. /\ job[q[i + 1]] \in JobRecord /\ job[q[1]] \in JobRecord
          /\ \A j \in D : job[j] \in JobRecord /\ job'[j] \in JobRecord
      BY <1>1, <2>5, <3>1 DEF TypeOK, D
    <3>4. job_list'[d] \in D
      <4>1. CASE d = c
        BY <1>4, <2>3, <4>1
      <4>2. CASE d # c
        BY <1>1, <1>4, <4>2 DEF OnePlace, D
      <4> QED BY <4>1, <4>2
    <3>5. comparer(job[job_list'[d]], job[q[i + 1]]) < 0
      <4>1. CASE d = c
        <5>1. comparer(job[q[1]], job[q[i + 1]]) <= 0
          BY <2>1, <3>1, OrderInvNow DEF Ordered
        <5>2. comparer(job[q[1]], job[q[i + 1]]) # 0
          BY <2>1, <2>2, <3>1, NeverLevel
        <5>3. comparer(job[q[1]], job[q[i + 1]]) \in Int
          BY <3>3, ComparerInt
        <5> QED BY <1>4, <2>1, <4>1, <5>1, <5>2, <5>3
      <4>2. CASE d # c
        BY <1>4, <3>1, <4>2, OrderInvNow DEF Uninverted, Better
      <4> QED BY <4>1, <4>2
    <3>6. comparer(job'[job_list'[d]], job[q[i + 1]]) = comparer(job[job_list'[d]], job[q[i + 1]])
      <4>1. /\ job'[job_list'[d]].arrival = job[job_list'[d]].arrival
            /\ job'[job_list'[d]].priority = job[job_list'[d]].priority
        BY <2>4, <2>5, <3>4
      <4> QED BY <3>3, <3>4, <4>1, ComparerStatic
    <3> QED BY <3>2, <3>5, <3>6 DEF Better
  <2> QED BY <1>3, <2>7, <2>8, OrderInvPrime
<1> QED BY <1>3, <1>5, <1>6

LEMMA QuantumExpiredOrder ==
  ASSUME NEW c \in Cores, NEW time \in Times, QuantumExpired(c, time)
  PROVE  OrderInv'
<1>1. m_scheme = "RR" /\ m_scheme' = m_scheme
  BY DEF QuantumExpired, scheduler_quantum_expired
<1>2. Ordered(m_job_queue', job')
  BY <1>1 DEF Ordered, comparer
<1>3. Uninverted(job_list', m_job_queue', job')
  BY <1>1 DEF Uninverted
<1> QED BY <1>1, <1>2, <1>3, OrderInvPrime

\* The heap h a new job j is compared in: the jobs' static fields are as they
\* were, those that wait are untouched, and j is the latest to arrive.
Extends(h, j) ==
  /\ h \in [DOMAIN job \union {j} -> JobRecord]
  /\ \A i \in DOMAIN job : /\ h[i].arrival = job[i].arrival
                           /\ h[i].arrival < h[j].arrival
  /\ \A i \in 1..Len(m_job_queue) : /\ m_job_queue[i] \in DOMAIN job
                                    /\ h[m_job_queue[i]] = job[m_job_queue[i]]
  /\ \A x, y \in DOMAIN job : m_scheme \in {"FCFS", "PPRI"} =>
       comparer(h[x], h[y]) = comparer(job[x], job[y])

LEMMA NewHeapOrder ==
  ASSUME PlacementInv, NEW j \in JobNumbers, j \notin DOMAIN job, NEW time \in Nat,
         Announce(j, time), NEW running_time \in RunTimes, NEW priority \in Priorities
  PROVE  Extends(NewHeap(j, time, running_time, priority), j)
<1> DEFINE h == NewHeap(j, time, running_time, priority)
<1>1. TypeOK /\ OnePlace
  BY DEF PlacementInv
<1>2. /\ h \in [DOMAIN job \union {j} -> JobRecord]
      /\ h[j] = New_Job(time, running_time, priority)
      /\ \A k \in DOMAIN job : h[k] = update_core(time)[k]
  <2>1. /\ DOMAIN h = DOMAIN job \union {j}
        /\ h \in [DOMAIN h -> JobRecord]
        /\ h[j] = New_Job(time, running_time, priority)
        /\ \A k \in DOMAIN job : h[k] = update_core(time)[k]
    BY <1>1, NewHeapFields
  <2> QED BY <2>1
<1>3. ASSUME NEW i \in DOMAIN job
      PROVE  /\ h[i].arrival = job[i].arrival /\ h[i].priority = job[i].priority
             /\ h[i].arrival < h[j].arrival
             /\ ~ OnCore(i) => h[i] = job[i]
  <2>1. h[i].arrival = job[i].arrival /\ h[i].priority = job[i].priority
        /\ (~ OnCore(i) => h[i] = job[i])
    BY <1>1, <1>2, UpdateCoreFields
  <2>2. h[j].arrival = time
    BY <1>2 DEF New_Job
  <2>3. /\ i \in DOMAIN submitted /\ job[i].arrival = submitted[i]
        /\ submitted[i] <= clock /\ submitted[i] # time /\ clock <= time
        /\ submitted[i] \in Nat /\ clock \in Nat
    BY DEF PlacementInv, JobsKnown, Announce, Announced, TypeOK
  <2> QED BY <2>1, <2>2, <2>3
<1>4. \A i \in 1..Len(m_job_queue) : m_job_queue[i] \in DOMAIN job /\ ~ OnCore(m_job_queue[i])
  <2>1. \A i \in 1..Len(m_job_queue) : m_job_queue[i] \in DOMAIN job /\ m_job_queue[i] # NoJob
    BY <1>1, NoJobAssumption, ElementOfSeq DEF OnePlace, TypeOK
  <2> QED BY <1>1, <2>1 DEF OnePlace, Queued, OnCore
<1>5. ASSUME NEW x \in DOMAIN job, NEW y \in DOMAIN job, m_scheme \in {"FCFS", "PPRI"}
      PROVE  comparer(h[x], h[y]) = comparer(job[x], job[y])
  <2>1. /\ h[x] \in JobRecord /\ h[y] \in JobRecord
        /\ job[x] \in JobRecord /\ job[y] \in JobRecord
    BY <1>1, <1>2 DEF TypeOK
  <2> QED BY <1>3, <1>5, <2>1, ComparerStatic
<1> QED BY <1>2, <1>3, <1>4, <1>5 DEF Extends

\* A newcomer that preempts nobody goes before nobody who runs.
LEMMA QueuedNewcomer ==
  ASSUME PlacementInv, OrderInv, NEW j \in JobNumbers, j \notin DOMAIN job,
         NEW h, Extends(h, j),
         m_scheme = "PPRI" => \A c \in Cores : comparer(h[job_list[c]], h[j]) <= 0,
         offer(h, j)
  PROVE  Ordered(m_job_queue', h) /\ Uninverted(job_list, m_job_queue', h)
<1> USE DEF Extends
<1> DEFINE q == m_job_queue
           D == DOMAIN job \union {j}
<1>1. TypeOK /\ OnePlace /\ q \in Seq(JobNumbers)
  BY DEF PlacementInv, TypeOK
<1>2. PICK k \in Places(h, j) : q' = Link(q, k, j)
  BY DEF offer
<1>3. Ordered(q, h)
  BY OrderInvNow DEF Ordered
<1>4. Ordered(q', h)
  BY <1>1, <1>2, <1>3, OfferKeepsOrder
<1>5. \A i \in 1..Len(q') : q'[i] = j \/ \E m \in 1..Len(q) : q'[i] = q[m]
  BY <1>1, <1>2, PlacesRange, LinkElements
<1>6. ASSUME m_scheme \in {"FCFS", "PPRI"}, NEW c \in Cores, job_list[c] # NoJob,
             NEW i \in 1..Len(q')
      PROVE  Better(h, job_list[c], q'[i])
  <2>1. job_list[c] \in DOMAIN job
    BY <1>1, <1>6 DEF OnePlace
  <2>2. CASE q'[i] = j
    <3>1. h[job_list[c]] \in JobRecord /\ h[j] \in JobRecord
      BY <2>1
    <3>2. comparer(h[job_list[c]], h[j]) \in Int
      BY <3>1, ComparerInt
    <3>3. h[job_list[c]].arrival < h[j].arrival
      BY <2>1
    <3>4. h[job_list[c]].arrival \in Nat /\ h[j].arrival \in Nat
      BY <3>1 DEF JobRecord
    <3>5. comparer(h[job_list[c]], h[j]) # 0
      BY <1>6, <3>1, <3>3, <3>4, ComparerStatic
    <3>6. m_scheme = "FCFS" => comparer(h[job_list[c]], h[j]) < 0
      BY <1>6, <3>1, <3>3, <3>4, ComparerStatic
    <3> QED BY <1>6, <2>2, <3>2, <3>5, <3>6 DEF Better
  <2>3. CASE \E m \in 1..Len(q) : q'[i] = q[m]
    <3>1. PICK m \in 1..Len(q) : q'[i] = q[m]
      BY <2>3
    <3>2. Better(job, job_list[c], q[m])
      BY <1>6, OrderInvNow DEF Uninverted
    <3>3. q[m] \in DOMAIN job
      OBVIOUS
    <3> QED BY <1>6, <2>1, <3>1, <3>2, <3>3 DEF Better
  <2> QED BY <1>5, <2>2, <2>3
<1> QED BY <1>4, <1>6 DEF Uninverted

\* A newcomer that takes the core of the job furthest behind it leaves only
\* better jobs on cores than the one it sent to the queue.
LEMMA PreemptingNewcomer ==
  ASSUME PlacementInv, OrderInv, NEW j \in JobNumbers, j \notin DOMAIN job,
         NEW h, Extends(h, j),
         m_scheme # "FCFS", IdleCores = {},
         NEW v \in Victims(h, h[j]), offer(h, job_list[v]),
         NEW list, list = [job_list EXCEPT ![v] = j]
  PROVE  Ordered(m_job_queue', h) /\ Uninverted(list, m_job_queue', h)
<1> USE DEF Extends
<1> DEFINE q == m_job_queue
           D == DOMAIN job \union {j}
           old == job_list[v]
<1>1. TypeOK /\ OnePlace /\ q \in Seq(JobNumbers)
  BY DEF PlacementInv, TypeOK
<1>2. \A c \in Cores : job_list[c] # NoJob /\ job_list[c] \in DOMAIN job
  BY <1>1 DEF IdleCores, OnePlace
<1>3. v \in Cores /\ old \in DOMAIN job /\ old \in JobNumbers /\ old \in D /\ old # j
  BY <1>1, <1>2 DEF Victims, TypeOK
<1>4. \A c \in Cores : list[c] = IF c = v THEN j ELSE job_list[c]
  BY <1>1 DEF TypeOK
<1>5. PICK k \in Places(h, old) : q' = Link(q, k, old)
  BY DEF offer
<1>6. Ordered(q, h)
  BY OrderInvNow DEF Ordered
<1> HIDE DEF old
<1>7. Ordered(q', h)
  BY <1>1, <1>3, <1>5, <1>6, OfferKeepsOrder
<1>8. \A i \in 1..Len(q') : q'[i] = old \/ \E m \in 1..Len(q) : q'[i] = q[m]
  BY <1>1, <1>3, <1>5, PlacesRange, LinkElements
<1>9. ASSUME m_scheme = "PPRI", NEW c \in Cores  PROVE Better(h, list[c], old)
  <2>1. h[old] \in JobRecord /\ h[j] \in JobRecord /\ h[job_list[c]] \in JobRecord
    BY <1>2, <1>3
  <2>2. comparer(h[old], h[j]) > 0
    BY <1>3 DEF Victims, old
  <2>3. CASE c = v
    BY <1>4, <2>1, <2>2, <2>3, ComparerAntisymmetric DEF Better
  <2>4. CASE c # v
    <3> DEFINE x == job_list[c]
               diff(y) == comparer(h[y], h[j])
    <3>1. x # old /\ x \in DOMAIN job
      BY <1>1, <1>2, <1>3, <2>4 DEF OnePlace, old
    <3>2. h[x].arrival # h[old].arrival
      BY <1>3, <3>1, NeverLevel
    <3>3. \/ diff(old) > diff(x)
          \/ diff(old) = diff(x) /\ h[old].arrival > h[x].arrival
      BY <1>3, <2>4, <3>2 DEF Victims, old
    <3>4. /\ diff(old) = IF h[old].priority # h[j].priority
                         THEN h[old].priority - h[j].priority ELSE h[old].arrival - h[j].arrival
          /\ diff(x) = IF h[x].priority # h[j].priority
                       THEN h[x].priority - h[j].priority ELSE h[x].arrival - h[j].arrival
          /\ comparer(h[x], h[old]) = IF h[x].priority # h[old].priority
                                      THEN h[x].priority - h[old].priority
                                      ELSE h[x].arrival - h[old].arrival
      BY <1>9, <2>1, ComparerStatic
    <3>5. h[old].arrival < h[j].arrival /\ h[x].arrival < h[j].arrival
      BY <1>3, <3>1
    <3>6. comparer(h[x], h[old]) < 0
      <4> HIDE DEF x, diff
      <4>1. /\ h[x].arrival \in Int /\ h[old].arrival \in Int /\ h[j].arrival \in Int
            /\ h[x].priority \in Int /\ h[old].priority \in Int /\ h[j].priority \in Int
        <5>1. h[x] \in JobRecord /\ h[old] \in JobRecord /\ h[j] \in JobRecord
          BY <2>1 DEF x
        <5> QED BY <5>1, RecordFields
      <4>2. diff(old) > 0
        BY <2>2 DEF diff
      <4> QED BY <3>2, <3>3, <3>4, <3>5, <4>1, <4>2
    <3> QED BY <1>4, <2>4, <3>6 DEF Better
  <2> QED BY <2>3, <2>4
<1>10. ASSUME m_scheme \in {"FCFS", "PPRI"}, NEW c \in Cores, NEW i \in 1..Len(q')
       PROVE  Better(h, list[c], q'[i])
  <2>1. m_scheme = "PPRI"
    BY <1>10
  <2>2. CASE q'[i] = old
    BY <1>9, <2>1, <2>2
  <2>3. CASE \E m \in 1..Len(q) : q'[i] = q[m]
    <3>1. PICK m \in 1..Len(q) : q'[i] = q[m]
      BY <2>3
    <3>2. q[m] \in DOMAIN job
      OBVIOUS
    <3>3. \A d \in Cores : Better(h, job_list[d], q[m])
      BY <1>2, <1>10, <3>2, OrderInvNow DEF Uninverted, Better
    <3>4. CASE c # v
      BY <1>4, <3>1, <3>3, <3>4
    <3>5. CASE c = v
      <4>1. Better(h, j, old)
        BY <1>3, <1>4, <1>9, <2>1
      <4>2. Better(h, old, q[m])
        BY <1>3, <3>3 DEF old
      <4>3. h[j] \in JobRecord /\ h[old] \in JobRecord /\ h[q[m]] \in JobRecord
        BY <1>3, <3>2
      <4>4. comparer(h[old], h[q[m]]) \in Int
        BY <4>3, ComparerInt
      <4>5. comparer(h[j], h[q[m]]) < 0
        BY <4>1, <4>2, <4>3, <4>4, ComparerTransitive DEF Better
      <4> QED BY <1>4, <3>1, <3>5, <4>5 DEF Better
    <3> QED BY <3>4, <3>5
  <2> QED BY <1>8, <2>2, <2>3
<1> QED BY <1>7, <1>10 DEF Uninverted

LEMMA NewJobOrder ==
  ASSUME PlacementInv, OrderInv, NEW j \in JobNumbers, NEW time \in Times, NewJob(j, time)
  PROVE  OrderInv'
<1>1. /\ j \notin DOMAIN job /\ time \in Nat /\ Announce(j, time)
      /\ TypeOK /\ WorkConserving
  BY InputsAssumption DEF PlacementInv, JobsKnown, NewJob, Announce, Announced
<1>2. PICK running_time \in RunTimes, priority \in Priorities, core \in Cores \union {NoCore} :
        scheduler_new_job(j, time, running_time, priority, core)
  BY DEF NewJob
<1> DEFINE h == NewHeap(j, time, running_time, priority)
<1>3. /\ job' = h /\ m_scheme' = m_scheme
      /\ \/ core \in IdleCores /\ UNCHANGED m_job_queue
         \/ IdleCores = {} /\ m_scheme \notin Preemptive /\ offer(h, j) /\ UNCHANGED job_list
         \/ IdleCores = {} /\ m_scheme \in Preemptive /\ preempt_new_job(h, j, core)
  BY <1>2 DEF scheduler_new_job, NewHeap
<1>4. Extends(h, j)
  BY <1>1, NewHeapOrder
<1> HIDE DEF h
<1>5. CASE core \in IdleCores /\ UNCHANGED m_job_queue
  <2>1. Len(m_job_queue') = 0
    BY <1>1, <1>5, EmptySeq DEF WorkConserving
  <2> QED BY <1>3, <2>1, OrderInvPrime DEF Ordered, Uninverted
<1>6. CASE IdleCores = {} /\ m_scheme \notin Preemptive /\ offer(h, j) /\ UNCHANGED job_list
  <2>1. m_scheme # "PPRI"
    BY <1>6 DEF Preemptive
  <2>2. Ordered(m_job_queue', h) /\ Uninverted(job_list, m_job_queue', h)
    BY <1>1, <1>4, <1>6, <2>1, QueuedNewcomer
  <2> QED BY <1>3, <1>6, <2>2, OrderInvPrime
<1>7. CASE IdleCores = {} /\ m_scheme \in Preemptive /\ preempt_new_job(h, j, core)
  <2>1. CASE /\ core \in Victims(h, h[j]) /\ offer(h, job_list[core])
             /\ job_list' = [job_list EXCEPT ![core] = j]
    <3>1. m_scheme # "FCFS"
      BY <1>7 DEF Preemptive
    <3>2. Ordered(m_job_queue', h) /\ Uninverted(job_list', m_job_queue', h)
      BY <1>1, <1>4, <1>7, <2>1, <3>1, PreemptingNewcomer
    <3> QED BY <1>3, <3>2, OrderInvPrime
  <2>2. CASE /\ \A c \in Cores : comparer(h[job_list[c]], h[j]) <= 0
             /\ offer(h, j) /\ UNCHANGED job_list
    <3>1. Ordered(m_job_queue', h) /\ Uninverted(job_list, m_job_queue', h)
      BY <1>1, <1>4, <2>2, QueuedNewcomer
    <3> QED BY <1>3, <2>2, <3>1, OrderInvPrime
  <2> QED BY <1>7, <2>1, <2>2 DEF preempt_new_job
<1> QED BY <1>3, <1>5, <1>6, <1>7

LEMMA OrderInit == SchedInit => OrderInv
<1> SUFFICES ASSUME SchedInit PROVE OrderInv
  OBVIOUS
<1>1. Len(m_job_queue) = 0
  BY EmptySeq DEF SchedInit, scheduler_start_up
<1> QED BY <1>1 DEF OrderInv, QueueOrdered, NoInversion

LEMMA OrderStep == PlacementInv /\ OrderInv /\ [SchedNext]_schedVars => OrderInv'
<1> SUFFICES ASSUME PlacementInv, OrderInv, [SchedNext]_schedVars  PROVE OrderInv'
  OBVIOUS
<1>1. CASE \E j \in JobNumbers, time \in Times : NewJob(j, time)
  BY <1>1, NewJobOrder
<1>2. CASE \E c \in Cores, time \in Times : JobFinished(c, time)
  BY <1>2, JobFinishedOrder
<1>3. CASE \E c \in Cores, time \in Times : QuantumExpired(c, time)
  BY <1>3, QuantumExpiredOrder
<1>4. CASE UNCHANGED schedVars
  <2>1. /\ m_scheme' = m_scheme /\ job_list' = job_list
        /\ m_job_queue' = m_job_queue /\ job' = job
    BY <1>4 DEF schedVars
  <2> QED BY <2>1, OrderInvNow, OrderInvPrime
<1> QED BY <1>1, <1>2, <1>3, <1>4 DEF SchedNext

LEMMA OrderAlways == SchedSpec => []OrderInv
BY OrderInit, OrderStep, PlacementAlways, PTL DEF SchedSpec

\* Whatever happens to the keys of jobs on cores, the queue is in order, so the
\* head that priqueue_poll takes is a best waiting job.
THEOREM QueueAlwaysOrdered == SchedSpec => []QueueOrdered
BY OrderAlways, PTL DEF OrderInv

\* Under FCFS and PPRI no job ever waits that should go before a running one.
THEOREM NeverInverted == SchedSpec => []NoInversion
BY OrderAlways, PTL DEF OrderInv
-----------------------------------------------------------------------------
\* The sums behind the averages.

LEMMA StatsStep == PlacementInv /\ StatsSane /\ [SchedNext]_schedVars => StatsSane'
<1> SUFFICES ASSUME PlacementInv, StatsSane, [SchedNext]_schedVars  PROVE StatsSane'
  OBVIOUS
<1>1. CASE \E j \in JobNumbers, time \in Times : NewJob(j, time)
  BY <1>1, NewJobPlaces DEF StatsSane
<1>2. CASE \E c \in Cores, time \in Times : JobFinished(c, time)
  <2>1. PICK c \in Cores, time \in Times : JobFinished(c, time)
    BY <1>2
  <2> DEFINE r == job[job_list[c]]
  <2>2. /\ job_list[c] \in DOMAIN job
        /\ stats'.turnaround = stats.turnaround + (time - r.arrival)
        /\ stats'.response = stats.response + r.inserted - r.arrival
    <3>1. /\ job_list[c] \in DOMAIN job
          /\ stats' = [waiting |-> stats.waiting + (time - job[job_list[c]].arrival)
                                                 - job[job_list[c]].running,
                       turnaround |-> stats.turnaround + (time - job[job_list[c]].arrival),
                       response |-> stats.response + job[job_list[c]].inserted
                                                   - job[job_list[c]].arrival,
                       scheduled |-> stats.scheduled + 1]
      BY <2>1, JobFinishedPlaces
    <3> QED BY <3>1
  <2>3. time \in Nat /\ time >= clock
    BY <2>1, InputsAssumption DEF JobFinished, Call, Called
  <2>4. /\ r.arrival <= r.inserted /\ r.inserted <= clock
        /\ r.arrival \in Nat /\ r.inserted \in Nat /\ clock \in Nat
        /\ stats.turnaround \in Int /\ stats.response \in Int
    BY <2>2 DEF PlacementInv, JobsKnown, TypeOK, JobRecord
  <2> HIDE DEF r
  <2> QED BY <2>2, <2>3, <2>4 DEF StatsSane
<1>3. CASE \E c \in Cores, time \in Times : QuantumExpired(c, time)
  BY <1>3, QuantumExpiredPlaces DEF StatsSane
<1>4. CASE UNCHANGED schedVars
  BY <1>4 DEF schedVars, StatsSane
<1> QED BY <1>1, <1>2, <1>3, <1>4 DEF SchedNext

\* Response times add up to something between zero and the turnaround times.
THEOREM AveragesSane == SchedSpec => []StatsSane
<1>1. SchedInit => StatsSane
  BY DEF SchedInit, scheduler_start_up, StatsSane
<1> QED BY <1>1, StatsStep, PlacementAlways, PTL DEF SchedSpec
-----------------------------------------------------------------------------
\* What a call may never do.

\* A core that loses its job without preemption loses it to no other job.
LEMMA LeavesStep ==
  ASSUME PlacementInv, [SchedNext]_schedVars, m_scheme \in {"FCFS", "SJF", "PRI"}
  PROVE  LeavesByFinishing
<1>1. CASE \E j \in JobNumbers, time \in Times : NewJob(j, time)
  <2>1. PICK j \in JobNumbers, time \in Times : NewJob(j, time)
    BY <1>1
  <2>2. PICK core \in Cores \union {NoCore} :
          \/ core \in IdleCores /\ job_list' = [job_list EXCEPT ![core] = j]
          \/ UNCHANGED job_list
    BY <2>1 DEF NewJob, scheduler_new_job, Preemptive
  <2>3. NoJob \notin DOMAIN job'
    <3>1. DOMAIN job' = DOMAIN job \union {j}
      BY <2>1, NewJobPlaces
    <3> QED BY <3>1, NoJobAssumption DEF PlacementInv, TypeOK
  <2> QED BY <2>2, <2>3 DEF LeavesByFinishing, IdleCores, PlacementInv, TypeOK
<1>2. CASE \E c \in Cores, time \in Times : JobFinished(c, time)
  <2>1. PICK c \in Cores, time \in Times : JobFinished(c, time)
    BY <1>2
  <2>2. /\ DOMAIN job' = DOMAIN job \ {job_list[c]}
        /\ \A d \in Cores : d # c => job_list'[d] = job_list[d]
    BY <2>1, JobFinishedPlaces DEF PlacementInv, TypeOK
  <2> QED BY <2>2 DEF LeavesByFinishing
<1>3. CASE \E c \in Cores, time \in Times : QuantumExpired(c, time)
  BY <1>3 DEF QuantumExpired
<1>4. CASE UNCHANGED schedVars
  BY <1>4 DEF schedVars, LeavesByFinishing
<1> QED BY <1>1, <1>2, <1>3, <1>4 DEF SchedNext

\* Under the schemes that do not preempt, no call takes a core from a job that
\* has not finished.
THEOREM NeverPreempted == SchedSpec => RunsToCompletion
<1>1. PlacementInv /\ [SchedNext]_schedVars =>
        [(m_scheme \in {"FCFS", "SJF", "PRI"}) => LeavesByFinishing]_schedVars
  BY LeavesStep
<1> QED BY <1>1, PlacementAlways, PTL DEF SchedSpec, RunsToCompletion

\* Under FCFS a newcomer, under RR any job, is offered behind all that wait.
LEMMA OfferedLast ==
  ASSUME TypeOK, NEW heap, NEW j, NEW k \in Places(heap, j),
         \A i \in 1..Len(m_job_queue) : comparer(heap[j], heap[m_job_queue[i]]) \in Nat
  PROVE  k = Len(m_job_queue) + 1
<1>1. /\ k \in 1..(Len(m_job_queue) + 1) /\ Len(m_job_queue) \in Nat
      /\ k <= Len(m_job_queue) => comparer(heap[j], heap[m_job_queue[k]]) < 0
  BY PlacesSplit, LenProperties DEF TypeOK
<1>2. ASSUME k <= Len(m_job_queue)  PROVE FALSE
  <2>1. k \in 1..Len(m_job_queue)
    BY <1>1, <1>2
  <2>2. PICK n \in Nat : n = comparer(heap[j], heap[m_job_queue[k]])
    BY <2>1
  <2>3. n < 0
    BY <1>1, <1>2, <2>2
  <2> QED BY <2>3
<1> QED BY <1>1, <1>2

\* Behind all that wait, it takes nobody's place.
LEMMA LinkedLast ==
  ASSUME TypeOK, NEW j \in JobNumbers, NEW k, k = Len(m_job_queue) + 1,
         NEW f, f = Link(m_job_queue, k, j)
  PROVE  /\ Len(m_job_queue) \in Nat /\ f \in Seq(JobNumbers) /\ Len(f) = Len(m_job_queue) + 1
         /\ \A i \in 1..Len(m_job_queue) : i \in 1..Len(f) /\ f[i] = m_job_queue[i]
         /\ f[Len(m_job_queue) + 1] = j
<1>1. PICK q \in Seq(JobNumbers) : q = m_job_queue
  BY DEF TypeOK
<1>2. Len(q) \in Nat
  BY LenProperties
<1>3. PICK m \in 1..(Len(q) + 1) : m = Len(q) + 1
  BY <1>2
<1>4. Link(q, m, j) = f
  BY <1>1, <1>3
<1>5. /\ f \in Seq(JobNumbers) /\ Len(f) = Len(q) + 1
      /\ \A i \in 1..(Len(q) + 1) : f[i] = IF i < m THEN q[i] ELSE IF i = m THEN j ELSE q[i - 1]
  <2>1. Link(q, m, j) \in Seq(JobNumbers)
    BY LinkType
  <2> QED BY <1>4, <2>1, LinkPlaces
<1>6. \A i \in 1..Len(q) : i \in 1..(Len(q) + 1) /\ i < m
  BY <1>2, <1>3
<1>7. f[m] = j
  BY <1>5
<1> QED BY <1>1, <1>2, <1>3, <1>4, <1>5, <1>6, <1>7

\* When the head leaves for a core, all others move up by one.
LEMMA HeadServed ==
  ASSUME TypeOK, NEW f \in Seq(JobNumbers), f # <<>>, m_job_queue' = Tail(f),
         NEW c \in Cores, job_list' = [job_list EXCEPT ![c] = f[1]],
         \A i \in 1..Len(m_job_queue) : i \in 1..Len(f) /\ f[i] = m_job_queue[i]
  PROVE  \A i \in 1..Len(m_job_queue) : KeepsItsTurn(i)
<1>1. /\ Len(f) \in Nat \ {0} /\ Len(m_job_queue') = Len(f) - 1
      /\ \A i \in 1..(Len(f) - 1) : m_job_queue'[i] = f[i + 1]
  BY EmptySeq, LenProperties, HeadTailProperties
<1>2. TAKE i \in 1..Len(m_job_queue)
<1>3. i \in 1..Len(f) /\ f[i] = m_job_queue[i]
  OBVIOUS
<1>4. CASE i = 1
  <2>1. job_list'[c] = f[i]
    BY <1>4 DEF TypeOK
  <2> QED BY <1>3, <2>1 DEF KeepsItsTurn
<1>5. CASE i # 1
  <2>1. i - 1 \in 1..i /\ i - 1 \in 1..(Len(f) - 1) /\ (i - 1) + 1 = i
    BY <1>1, <1>3, <1>5
  <2>2. i - 1 <= Len(m_job_queue') /\ m_job_queue'[i - 1] = m_job_queue[i]
    BY <1>1, <1>3, <2>1
  <2> QED BY <2>1, <2>2 DEF KeepsItsTurn
<1> QED BY <1>4, <1>5

LEMMA TurnKept ==
  ASSUME NEW i \in 1..Len(m_job_queue), i <= Len(m_job_queue'), m_job_queue'[i] = m_job_queue[i]
  PROVE  KeepsItsTurn(i)
<1>1. i \in 1..i
  OBVIOUS
<1> QED BY <1>1 DEF KeepsItsTurn

\* A newcomer that gets no core is the last in the queue.
LEMMA NewcomerLast ==
  ASSUME PlacementInv, m_scheme \in {"FCFS", "RR"},
         NEW j \in JobNumbers, NEW time \in Times, NewJob(j, time)
  PROVE  /\ Len(m_job_queue) \in Nat
         /\ \/ UNCHANGED m_job_queue
            \/ /\ Len(m_job_queue') = Len(m_job_queue) + 1
               /\ \A i \in 1..Len(m_job_queue) : m_job_queue'[i] = m_job_queue[i]
               /\ m_job_queue'[Len(m_job_queue) + 1] = j
<1>1. /\ j \notin DOMAIN job /\ time \in Nat /\ Announce(j, time) /\ TypeOK
  BY InputsAssumption DEF PlacementInv, JobsKnown, NewJob, Announce, Announced
<1>2. PICK running_time \in RunTimes, priority \in Priorities, core \in Cores \union {NoCore} :
        scheduler_new_job(j, time, running_time, priority, core)
  BY DEF NewJob
<1> DEFINE h == NewHeap(j, time, running_time, priority)
<1>3. UNCHANGED m_job_queue \/ offer(h, j)
  BY <1>2 DEF scheduler_new_job, NewHeap, Preemptive
<1>4. Extends(h, j)
  BY <1>1, NewHeapOrder
<1> HIDE DEF h
<1>5. CASE UNCHANGED m_job_queue
  BY <1>1, <1>5, LenProperties DEF TypeOK
<1>6. CASE offer(h, j)
  <2>1. PICK k \in Places(h, j) : m_job_queue' = Link(m_job_queue, k, j)
    BY <1>6 DEF offer
  <2>2. ASSUME NEW i \in 1..Len(m_job_queue)
        PROVE  comparer(h[j], h[m_job_queue[i]]) \in Nat
    <3>1. PICK x \in JobRecord : x = h[j]
      BY <1>4 DEF Extends
    <3>2. PICK y \in JobRecord : y = h[m_job_queue[i]] /\ y.arrival < x.arrival
      BY <1>4, <3>1 DEF Extends
    <3>3. x.arrival \in Nat /\ y.arrival \in Nat
      BY DEF JobRecord
    <3>4. comparer(x, y) = IF m_scheme = "RR" THEN 0 ELSE x.arrival - y.arrival
      BY DEF comparer, Key
    <3> QED BY <3>1, <3>2, <3>3, <3>4
  <2>3. k = Len(m_job_queue) + 1
    BY <1>1, <2>2, OfferedLast
  <2>4. /\ Len(m_job_queue) \in Nat /\ Len(m_job_queue') = Len(m_job_queue) + 1
        /\ \A i \in 1..Len(m_job_queue) : m_job_queue'[i] = m_job_queue[i]
        /\ m_job_queue'[Len(m_job_queue) + 1] = j
    BY <1>1, <2>1, <2>3, LinkedLast
  <2> QED BY <2>4
<1> QED BY <1>3, <1>5, <1>6

LEMMA NewJobTurns ==
  ASSUME PlacementInv, m_scheme \in {"FCFS", "RR"},
         NEW j \in JobNumbers, NEW time \in Times, NewJob(j, time)
  PROVE  \A i \in 1..Len(m_job_queue) : KeepsItsTurn(i)
<1>1. Len(m_job_queue) \in Nat
  BY NewcomerLast
<1>2. CASE UNCHANGED m_job_queue
  BY <1>1, <1>2, TurnKept
<1>3. CASE /\ Len(m_job_queue') = Len(m_job_queue) + 1
           /\ \A i \in 1..Len(m_job_queue) : m_job_queue'[i] = m_job_queue[i]
  BY <1>1, <1>3, TurnKept
<1> QED BY <1>2, <1>3, NewcomerLast

LEMMA JobFinishedTurns ==
  ASSUME PlacementInv, NEW c \in Cores, NEW time \in Times, JobFinished(c, time)
  PROVE  \A i \in 1..Len(m_job_queue) : KeepsItsTurn(i)
<1>1. TypeOK /\ Len(m_job_queue) \in Nat
  BY LenProperties DEF PlacementInv, TypeOK
<1>2. \/ m_job_queue = <<>>
      \/ /\ m_job_queue # <<>> /\ m_job_queue' = Tail(m_job_queue)
         /\ job_list' = [job_list EXCEPT ![c] = m_job_queue[1]]
  BY JobFinishedPlaces
<1>3. CASE m_job_queue = <<>>
  <2>1. Len(m_job_queue) = 0
    BY <1>3, EmptySeq
  <2> QED BY <2>1
<1>4. CASE /\ m_job_queue # <<>> /\ m_job_queue' = Tail(m_job_queue)
           /\ job_list' = [job_list EXCEPT ![c] = m_job_queue[1]]
  <2>1. PICK f \in Seq(JobNumbers) : f = m_job_queue
    BY <1>1 DEF TypeOK
  <2> QED BY <1>1, <1>4, <2>1, HeadServed
<1> QED BY <1>2, <1>3, <1>4

\* The job of an expired quantum goes to the end of the queue before the head
\* of the queue gets its core.
LEMMA ExpiredLast ==
  ASSUME PlacementInv, NEW c \in Cores, NEW time \in Times, QuantumExpired(c, time)
  PROVE  \E f \in Seq(JobNumbers) :
           /\ Len(m_job_queue) \in Nat /\ Len(f) = Len(m_job_queue) + 1
           /\ \A i \in 1..Len(m_job_queue) : i \in 1..Len(f) /\ f[i] = m_job_queue[i]
           /\ f[Len(m_job_queue) + 1] = job_list[c]
           /\ f # <<>> /\ m_job_queue' = Tail(f) /\ job_list' = [job_list EXCEPT ![c] = f[1]]
<1>1. TypeOK /\ m_scheme = "RR" /\ job_list[c] \in JobNumbers
  BY DEF PlacementInv, QuantumExpired, TypeOK
<1>2. PICK next \in JobNumbers, k \in Places(update_core(time), job_list[c]) :
        /\ next = Head(Link(m_job_queue, k, job_list[c]))
        /\ m_job_queue' = Tail(Link(m_job_queue, k, job_list[c]))
        /\ job_list' = [job_list EXCEPT ![c] = next]
  BY DEF QuantumExpired, scheduler_quantum_expired
<1>3. PICK j \in JobNumbers : j = job_list[c]
  BY <1>1
<1>4. k = Len(m_job_queue) + 1
  <2>1. \A i \in 1..Len(m_job_queue) :
          comparer(update_core(time)[job_list[c]], update_core(time)[m_job_queue[i]]) \in Nat
    BY <1>1 DEF comparer
  <2>2. PICK h : h = update_core(time)
    OBVIOUS
  <2> QED BY <1>1, <1>3, <2>1, <2>2, OfferedLast
<1>5. PICK f : f = Link(m_job_queue, k, j)
  OBVIOUS
<1>6. /\ Len(m_job_queue) \in Nat /\ f \in Seq(JobNumbers) /\ Len(f) = Len(m_job_queue) + 1
      /\ \A i \in 1..Len(m_job_queue) : i \in 1..Len(f) /\ f[i] = m_job_queue[i]
      /\ f[Len(m_job_queue) + 1] = j
  BY <1>1, <1>4, <1>5, LinkedLast
<1>7. f # <<>> /\ Head(f) = f[1] /\ m_job_queue' = Tail(f)
      /\ job_list' = [job_list EXCEPT ![c] = f[1]]
  <2>1. f # <<>>
    BY <1>6, EmptySeq
  <2> QED BY <1>2, <1>3, <1>5, <2>1
<1> QED BY <1>3, <1>6, <1>7

LEMMA QuantumExpiredTurns ==
  ASSUME PlacementInv, NEW c \in Cores, NEW time \in Times, QuantumExpired(c, time)
  PROVE  \A i \in 1..Len(m_job_queue) : KeepsItsTurn(i)
<1>1. TypeOK
  BY DEF PlacementInv
<1>2. PICK f \in Seq(JobNumbers) :
        /\ \A i \in 1..Len(m_job_queue) : i \in 1..Len(f) /\ f[i] = m_job_queue[i]
        /\ f # <<>> /\ m_job_queue' = Tail(f) /\ job_list' = [job_list EXCEPT ![c] = f[1]]
  BY ExpiredLast
<1> QED BY <1>1, <1>2, HeadServed

\* Under FCFS and RR no call moves a waiting job back.
THEOREM NeverOvertaken == SchedSpec => NoOvertaking
<1> DEFINE Turns == \A i \in 1..Len(m_job_queue) : KeepsItsTurn(i)
<1>1. PlacementInv /\ [SchedNext]_schedVars => [(m_scheme \in {"FCFS", "RR"}) => Turns]_schedVars
  <2> SUFFICES ASSUME PlacementInv, [SchedNext]_schedVars, m_scheme \in {"FCFS", "RR"}
               PROVE  Turns \/ UNCHANGED schedVars
    OBVIOUS
  <2> QED BY NewJobTurns, JobFinishedTurns, QuantumExpiredTurns DEF SchedNext
<1> QED BY <1>1, PlacementAlways, PTL DEF SchedSpec, NoOvertaking
=============================================================================
