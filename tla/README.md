# Verification of operating-systems-sims

TLA+ models, TLC runs and TLAPS proofs for the simulators of this repository.
Source paths below are relative to `src/`. `PROJECT.json` maps every definition to
the lines it stands for and lists the runs, the hazards they are aimed at and the
theorems.

## 1. The system

Five independent programs, and the HTML documentation of two of them with its
scripts. None is multi-threaded; what is hard in most is long sequences of calls
over shared state, two components that each keep a view of the same thing, and
data structures whose invariants span several calls. Quash is concurrent: the
shell, its children and the kernel's pipes. The documentation's scripts are
handlers that keys, the pointer, timers and page loads run in any order.

| Component | State | Operations | Hard behaviour | What makes it correct |
|---|---|---|---|---|
| **Scheduling library** `scheduler/src/libscheduler` | scheme; job on each core; queue of waiting jobs; `job_t`s; sums for the averages | `scheduler_start_up`, `_new_job`, `_job_finished`, `_quantum_expired` | keys change while jobs are queued; preemption picks a victim; `job_t`s are freed | a job is in one place; no core idles while a job waits; the queue and the cores obey the scheme; the averages are true |
| **Priority queue** `scheduler/src/libpriqueue` | linked nodes, head, size | offer, peek, poll, at, remove, remove_at, size, destroy | walks over links, ties, repeated elements | it is a sequence in order; no leak, no dangling link |
| **Simulator** `scheduler/src/simulator.c` | jobs array, time, quantum clocks, its own view of the cores | one loop: finishes, expiries, arrivals, one time unit | several events in one time unit; array permuted while scanned; view updated from returned values | agrees with the library, never stops with an error, ends, calls the library legally |
| **Buddy allocator** `memoryallocation_sim/buddy/buddy.c`, `list.h` | free lists by order, order in each `page_t` | `buddy_alloc`, `buddy_free` | chains of splits and merges; stale orders | memory is partitioned and coalesced; what callers see is an allocator |
| **Buddy simulator** `memoryallocation_sim/buddy/simulator.c` | variables | alloc and free commands | a variable overwritten, freed twice, an amount that overflows | frees only what is held; leaks only what is overwritten |
| **Quash** `shell_simulation/src` | job queue, pid queue of the script, two pipes | `run_script`, `create_process`, `check_jobs_bg_status`, `run_kill`, `run_jobs`, ... | children exit at any time; pipe ends inherited; fork or pipe fails | every script ends; each background job is reported once; kills reach the right processes |
| **Quash deque** `shell_simulation/src/deque.h` | ring buffer | push, pop, peek, update, apply, as_array | full ring, wrap-around, growth | it is a sequence |
| **Quash memory pool** `shell_simulation/src/parsing/memory_pool.c` | pools of doubling size | allocate, destroy | an allocation that does not fit | blocks are disjoint |
| **Cache simulator** `cache_simulation/C/cachesim.c` | array of blocks, hits, misses, the buffer that was read | one loop: read an address, `RoundRobin` | rows indexed beyond their end; `feof` true one read late | hits and misses are those of the addresses; a set is filled before a block is evicted |
| **ALU** `alu_simulation` | 32 registers, LO and HI among them; the instruction | decode, execute, write back | operands that are destinations, widths, overflow, division by zero, tokens that are no number | each instruction computes what its code names |
| **Documentation: search** `*/doc/html/search` | field, focus, open lists, two timers, last search; the page in the frame, its rows and open entries | handlers of keys, clicks, the pointer, timers, loads | timers that outlive what started them; handlers that call handlers through the focus | what is shown is what was searched; a panel put away is reset; arrows follow what is displayed |
| **Documentation: list of files** `*/doc/html/dynsections.js` | rows and icons displayed | fold or unfold a folder, choose a level | nested folders, rows and icons changed apart | icons say what is displayed |

The simulator calls the library synchronously; the library calls the priority
queue and is called back by it through `comparer`. The buddy simulator calls the
allocator, which uses `list.h`. Quash calls the parser, which allocates from the
memory pool; its queues are deques. The main program of the ALU decodes and then
executes each instruction. The search panel sends its frame to a page of results
and moves the focus there; the page's keys move it back and close the panel. The
list of files is on another page.

## 2. The modules

```
Lists <- PriorityList <- Scheduler <- Simulator          (MCUsers, MCSimulator)
             +- PriorityQueue  <--refines-- PriQueue     (MCComponents)
Lists, BuddyBlocks <- Buddy <- BuddySimulator            (MCBuddySimulator)
       BuddyBlocks <- Allocator <--refines-- Buddy
Processes, Pipeline <- Quash --refines--> JobTable       (MCQuash, MCComponents)
DequeSequence <--refines-- Deque;  MemoryPool            (MCComponents)
Cache;  ALU                                              (MCComponents, MCCache, MCALU)
SearchIndex <- SearchResults <- SearchPanel;  Directory  (MCUsers)

Lists_proofs <- Scheduler_proofs <- Simulator_proofs
             <- Buddy_proofs <- BuddySimulator_proofs
             <- Components_proofs    (Cache, MemoryPool, Deque, PriQueue)
             <- Documentation_proofs (SearchPanel, Directory)
Quash_proofs
```

* **Lists** - linking and unlinking on sequences, for both list implementations.
* **PriorityList** - `OfferIndices`, where `priqueue_offer` puts an element.
* **Scheduler** - the library: `job_list`, `m_job_queue` and `job` are the C
  variables of those names (a job number stands for the pointer to its `job_t`),
  `stats` holds the four totals. One action per call of the interface;
  `update_core`, the preemption scan and the poll that follows are part of it. What
  a call returns is a parameter of its action, so that a caller can use it.
  `submitted` and `clock` are the caller's memory: `NewJob`, `JobFinished` and
  `QuantumExpired` are the calls the library's comments allow.
* **Simulator** - the main loop, one step per call into the library and per end of
  a part. It uses the library's actions *without* the caller's guards, and the run
  `simulator` checks that they hold (`LegalCalls`): the library's runs and
  theorems therefore apply to the program as it is. `history` observes what really
  ran, for the properties.
* **PriQueue** - the linked list; a node is an address from `malloc`. **PriorityQueue**
  is what it promises; the run checks the refinement, with the queue read off
  the links.
* **BuddyBlocks** - the macros. Addresses are offsets in `g_memory`, pages are indices in
  `g_pages`; `Bytes[o]` is `1 << o`.
* **Buddy** - one action per loop iteration of `buddy_alloc` and `buddy_free`, `op`
  holding the locals. `live` observes what callers hold. **Allocator** is the promise:
  an aligned block of the smallest sufficient order, apart from all others, refused
  only when there is none; every request is answered.
* **BuddySimulator** - scripts over Buddy, with `int` overflow (`Wrap`).
* **Processes** - the operating system as Quash uses it (outside `src/`): process numbers
  that are free, running or zombies and are reused once reaped; pipes of bounded
  capacity with the holders of their write ends. A program is a source that writes
  and ends, a filter that copies its input to the end, one that ends when it likes,
  or one that ends only when killed.
* **Pipeline** - the holders and flags the grammar makes of a line: where `&` goes, and
  what a pipe does to redirections.
* **Quash** - the shell as one process among its children. Every system call of
  `check_jobs_bg_status`, `create_process` and the wait of `run_script` is a step, and
  children write, read and exit between any two. `pid_q`, `job_q`, `pipes`, `i`,
  `current_job`, `num` are the C variables of those names; `script` is the array of
  holders. **JobTable** is what a user may rely on: a job has an id of its own in the
  current list, leaves the list only by being reported complete, once, and is reported
  only when every process of it has ended. How ids are chosen is left open there: what
  the README of Quash says of it, the shell does not do (see the findings).
* **Deque** - the ring buffer, one action per function of the macro; **DequeSequence** is
  the sequence it promises to be. `last` holds what the last call returned. `deque.h`
  documents `update_front` and `update_back` twice: lines 554-577 say that the destructor
  is called on the element that is replaced, lines 580-603 that it is not. The code
  calls none, and so does the model.
* **MemoryPool** - the allocator of the parser, an action per call and per iteration.
* **Cache** - an iteration of the main loop is an action: the address is taken apart and
  goes through `RoundRobin`. `cache` is the memory of the array, because the code has
  the line as the second index, beyond a row's end. `trace` observes the addresses.
* **ALU** - an action per instruction read from the file. `MIPS_Decode` takes bit fields
  out of a number; what C leaves undefined (a shift by the width or more) is a choice.
  What an instruction may write to its destination is one operator a format (`ToRd`,
  `ToRt`); `Multiply` and `Divide` write to LO and HI. `ComputesWhatItNames` says what
  each code must write, unknown codes included; the three in `Misnamed` (MFHI, MFLO,
  MULTU) do something else than their names, and of them it says only that no other
  register changes. `DoesAsCommented` is what the comments say.
* **SearchIndex** - the sections and pages of entries the scripts of the buddy allocator's
  documentation hold. **SearchResults** - the page of results: rows that match, entries
  that unfold, and where each arrow key leads. **SearchPanel** - the panel, `box` holding
  the fields of `SearchBox`. Handlers call one another and set the focus, which
  runs further handlers *within* the call: so a handler is a function from the
  panel's state to its state, and an action is the delivery of an event. `keyTimeout`
  says whether the code still knows of a search timer, `timers` how many are running,
  those it has forgotten included. `hideTimers` counts the timers that hide the list of
  sections in the same way; of these the code knows of the last one.
* **Directory** - the list of files: which rows and icons show; what the page's
  jQuery selectors return is a set of rows. Choosing a level sets the icons of the rows
  it shows; a row it hides keeps the icon it had (`dynsections.js:42-44`), so that a
  hidden folder may look open over rows that are hidden too. What sets that right is that
  unfolding a folder closes the folders in it.

Each module defines, next to a definition, its *mutants*: the form it would have
with a plausible bug. They are used by no specification; a mutant replaces its
original to show that a property notices.

## 3. What the runs check

| Run | Instance | Checks |
|---|---|---|
| `users` | whoever uses a part may do anything there is. The library: 4 jobs, 2 cores, all schemes, calls at times 0..4. The panel: 2 sections, 3 texts, 2 timers. The list of files: a folder of 8 files and one of 2 | placement, order, inversion, no preemption and no overtaking where the scheme forbids them; what is shown was searched, a panel put away is reset, the list stays under the pointer, arrows and icons follow what is displayed |
| `simulator` | 2 cores, 4 jobs listed by arrival or in a mixed order, arrivals 0..4, run times 1 or 4, quanta 1 and 2 | agreement of the two views of the cores, true averages, starts in scheme order, bounded waiting under RR, termination, legal calls |
| `simulator_psjf` | 1 core, run times 2, 3, 6 | finding: PSJF does not run the shortest remaining job |
| `components` | six programs that run alone. Quash: 2 lines of up to 3 commands, 4 process numbers, pipes of capacity 1 and sources that write 2. A queue of up to 4 elements of 3 objects of which 2 tie; rings of up to 6 slots and 3 elements; pools from 1 byte and requests of 0, 1, 5; a cache of 4 lines and 3 tags; an ALU of 8 bits | pipes connect neighbours, the shell waits for all of a line, every line ends; queue and deque are sequences; blocks are disjoint and calls return; hits are repetitions; each instruction computes what it names, but for three |
| `buddy` | 8 pages, 4 orders; any caller, with sizes of every order, zero and too large, or a script over 2 variables | partition, coalescing, recorded orders, refinement of Allocator, every call returns; what variables hold and what leaks |
| `buddy_overflow` | an `int` of 64 values | finding: an overflowing amount gets too small a block |
| `quash_jobs` | 4 lines, 4 process numbers, background jobs of one or two processes, kills, exit | process numbers are the job's own, no child is forgotten, each job is reported once and as soon as it is checked, in order; refinement of JobTable |
| `quash_job_ids` | 2 background jobs | finding: ids go on growing when the list is empty again |
| `quash_no_sigpipe` | a source and a reader that ends early | finding: the shell hangs |
| `quash_kill_failed_fork` | forks that may fail, a kill | finding: a kill reaches processes of other jobs |
| `cache_evicts_early` | sets of three ways, three addresses | finding: a block is evicted from a set with room |
| `alu_comments` | the ALU as in `components` | finding: five instructions are not what the comments beside them say |

Parts that share no state are checked in one run where they are small (`users`,
`components`, `buddy`), so that the states of one are not multiplied by those of
another: the variable `part` says which one a behaviour exercises, and the others stay as
they began. In `users` job numbers, which are only compared for equality, are taken in
their order, and priorities differ under the two schemes that read them.

Which run reaches what. An amount that overflows occurs in `buddy_overflow` only: the
amounts of `buddy` are those for which `HasWhatItAskedFor` should and does hold. fork fails in
`quash_kill_failed_fork` only (`ForkMayFail`): the other properties of Quash are checked
and proved of sessions in which it does not.

Why the bounds are enough. Two cores and four jobs make two jobs wait, so that order in
the queue, the choice among victims, and several events in one time unit all occur;
running times 1 and 4 give ties, jobs that finish within a quantum, and jobs preempted
more than once. Eight pages have merges that cascade over three orders and both
directions (the freed block is the lower or the upper buddy). Four nodes have every
position of a removed element, runs of equal elements included. In Quash four process
numbers let a number be reused while other jobs live, and let every process of a line
outlive the others; a source that writes more than a pipe holds makes every place where
a pipe can block occur; three commands use both pairs of descriptors and one of them
twice. Rings start from capacities 1 and 3, grow, and visit every offset. Three
addresses, the last of which is what the buffer holds at the end of the file, meet every
case of a cache (empty, same block, another block of the line, another line, a cut-off
address, an empty file), and three in `cache_evicts_early` fill less than a set; two
instructions make the second read what the first wrote, LO and HI included; eight bits
overflow as 32 do. The texts searched match nothing, all of a page or a part of it that
begins in its middle, with a blank at the end, and entries with one definition and with
two. Two timers are one the panel knows of and one it has forgotten. The list of files
has the shape of the page that is shipped. In the panel the mouse rests while a key is
down, and in the field the key down stands for Enter too, which is handled alike.
Counters: `Times`/`MaxTime` bound the calls of the library in `users`; the simulator
needs no bound beyond its input (`Horizon` only gives TLC a finite `Times`); `MaxSize`
bounds the queue; `MaxTrace` a file of addresses, `MaxExecuted` one of instructions;
`Texts` what is typed, `MaxTimers` the timers, `NumSections` the sections on offer;
`MaxLines`, `MaxPipes` a session; `MaxLength` the deque, `MaxPools` the pools at the
beginning of a call. `CHECK_DEADLOCK` is off where a caller or a reader may stop, a
script or a program ends, or the simulation is over.

Fairness. `Simulator!Spec` has `WF(Next)`: one thread that nothing blocks. `Buddy` and
`PriQueue` have weak fairness of the iterations inside a call only - a call that has
begun runs on - and none of the calls; `MemoryPool` likewise, and `BuddySimulator` for
the call of the allocator its script is in. `Quash!FairSpec` has weak fairness of the
shell's steps once it has a line and of each process: the kernel runs every process that
is ready. It assumes nothing of the user (no line need be entered) nor of blocked calls;
a program that ends only when killed is never made to. `Scheduler`, `Cache`, `ALU` and
the documentation need none: a reader may do nothing, and no property is that a timer
fires.

### Findings

* **PSJF** (`scheduler/src/libscheduler/libscheduler.c:55-66`, `326`, `238`): time a
  job waits after it has been preempted is counted as time it ran, because the
  insertion time is not reset when it resumes. With (arrival, run time) = (0,6), (1,2),
  (3,3), job 0 with 5 units left runs at time 3 while job 2 with 3 waits. The comment
  at line 96 claims shortest remaining time first, and the expected outputs of
  `examples` agree with the comment.
* **Overflow** (`memoryallocation_sim/buddy/simulator.c:123`): `a=alloc(4194304k)` is
  granted one page.
* **A writer without readers** (`shell_simulation/src/execute.c:427`): the shell closes the write end of a pipe
  and keeps the read end. `yes | head -1` hangs it, as the compiled program does: the
  writer gets no SIGPIPE, blocks when the pipe is full, and the shell waits for it. The
  project's README wants the behaviour of csh and bash.
* **A failed fork** (`execute.c:393`, `241`): -1 is queued as a process of the job, and
  killing the job signals every process there is.
* **Early eviction** (`cache_simulation/C/cachesim.c:112`): both branches in the loop over
  the ways of a set return in its first round. Only the first way is ever looked at, and
  the code after the loop, which replaces in turn, is not reached; two blocks
  of a line evict each other while two ways are empty. The comments there describe a
  search for an empty line and then a replacement.
* **Job ids** (`shell_simulation/src/execute.c:476`): ids come from a counter that only
  grows. The project's README (`shell_simulation/README.md:318-321`) has a new job take
  the id above the largest in the current list; with the list empty again, the second
  job gets 2.
* **Instructions and their comments** (`alu_simulation/ALUSimulator.c`): MFHI and MFLO
  (lines 110, 115) write the number of the register, 31 or 30, and not its content, which
  the comments at 108 and 114 ask for: what DIV leaves cannot be moved. MULTU (127)
  divides; the comment at 125 says that it multiplies. Of SLTI and SLTIU (263, 271) the
  comments at 261 and 269 say that they shift; they compare, as their names say, so there
  it is the comment that is wrong. Each of these alone violates `DoesAsCommented`; the
  trace that TLC reports is of MFHI.

Read, not run: `execute.c:480` keeps the number of a pipeline's *last* process for the
start message and the list of jobs, where the comment at line 132 says the first. In
`alu_simulation` a token that is no number makes the last instruction run again for
ever; SRA shifts zeros in and SLT compares without a sign, which the model has too. In
the panel, Shift+Down kills the timer of a search that is due, and a text with a blank
inside is searched again at every key. The last section's index may be exceeded by one
with the key down, and the next search throws: the model ends the handler there, and the
properties hold all the same.

### Assumptions of the models

Running times in input files are above zero (a zero one calls
`scheduler_job_finished` with core -1) and arrival times are unique, as the library
assumes. The scan at `libscheduler.c:259` reads past the array when every core is
busy; its result is the same whatever it finds, which is what is modelled. `malloc`
and `realloc` succeed, except in MemoryPool. The sums are integers, not `float`. Printing is left out.

For the documentation: the browser delivers `onfocus` and `onblur` within the
call that moves the focus, keys go to what has the focus when they arrive, and a timer
that was cleared does not fire. That the arrows lead to the next entry that
shows relies on the pages' being sorted: the entries a text matches follow one
another in every page that is shipped (the code looks for the children to
enter next to the entry it leaves, `search.js:606`).

For Quash: the signals a user sends are fatal; the numbers of reaped processes
go to children of the shell (a foreign process that takes one cannot be seen); a
redirected file or the terminal is an input at its end, and an output that never
blocks; the shell never runs out of descriptors. Since the shell keeps every read
end, only write ends are tracked.

## 4. What is proved

Each theorem below is about a component's own specification, for every value of
its constants; what composes components in a run adds no step to any of them. Most
safety properties are not inductive, so a proof names the invariant that is, shows
that every action keeps it (one lemma or one step an action), and reads the
property off it. Each of these invariants was checked by TLC on the run's instance before
it was proved (QueueInv with the sequence that the links give for the one that exists).

**Lists.** `Lists_proofs` has what `Link` and `Unlink` return, contain and keep
distinct; the proofs about the scheduler, the allocator and the linked list cite it. It
also has `Smallest`, that a nonempty set of numbers has a least one. That is the induction
of all these proofs: what a fold, a sum or a walk over data does for every length is shown
by a least counterexample.

**The scheduling library** - for every set of jobs, number of cores, scheme and sequence
of legal calls (`CoresAssumption`, `SchemesAssumption`, `InputsAssumption`,
`NoJobAssumption`).

* `Scheduler_proofs`: `[]TypeOK`, `[]OnePlace`, `[]WorkConserving`. The inductive
  invariant `PlacementInv` joins them and `JobsKnown` (a live job has been announced, so
  that a new number is not in use): OnePlace alone does not survive a new job without
  it, nor WorkConserving a finish without OnePlace.
* Also there: `[]QueueOrdered` and `[]NoInversion` from `OrderInv` over
  `PlacementInv`: a queued job's key is not changed by `update_core` because it is on
  no core, and `priqueue_offer` links at an index that keeps the order; the victim
  scan takes the worst of the cores, so the displaced job is behind all that stay.
  `[]StatsSane` from PlacementInv. The action properties `RunsToCompletion` and
  `NoOvertaking`, call by call: a job leaves a core only through the call that names
  the core, unless it is preempted; under FCFS and RR a new element goes behind all others.

**The simulator** - for every set of input files, number of cores and quantum, whatever
values the other constants have (`TablesAssumption`, `QuantaAssumption`,
`NumbersAssumption`, and `Times = Nat`: the simulator puts no bound on its clock).

* `Simulator_proofs`: `Spec => LegalCalls`, which makes every theorem about the library
  one about the simulator; `[]CoresAgree`; and that `status` is never an error, so none of
  the program's sanity checks fails. `SimInv` joins the library's `PlacementInv` with
  what the loop knows: `FromTheFile` and `InTime` say which jobs are in the array, which
  of them have arrived, and that a job with no time left is on a core in part 1 and
  nowhere later - so that the core `scheduler_job_finished` gets is one -; `KnownJobs`
  that the library knows exactly those that have arrived, by their arrival times, which
  makes the next announcement legal and `jobs_alive` right; `SameCores` is the agreement,
  row by row. That all cores are idle while a job is alive is excluded by
  `WorkConserving` and `OnePlace` of the library.
* `[]StartsInOrder`, on top of the library's `OrderInv`. The property speaks of jobs that
  have run; `StartedInOrder` says it of jobs that have a core and have not run yet as
  well, because that is when the order is decided. It is inductive with `JobsAsFiled`
  (the library's job_t's still say what the file says) and `HistoryKept` (a job that has
  not run has time left and is in the array, so that deletions lose none). A core that
  falls free goes to the head of an ordered queue; a newcomer takes an idle core only
  when nobody waits (`WorkConserving`); running a time unit starts nobody.
* `[]StatsTrue`. The totals are sums over the jobs that have finished. `Books` joins
  `JobsAsFiled` and `HistoryKept` with what makes each addition the right one: the times
  the library stamped on a live job are those of what happened to it (`StampsTrue`),
  a job is finished or still in the array, and has run or waited ever since it arrived
  (`Accounted`), and the totals are the sums so far (`StatsAddUp`). That one more job adds its term to a sum, and that
  nothing else matters to it, is shown by a least counterexample.
* `[]RRBoundedWait`. `TurnsInv` strengthens it place by place (`InTurn`): the time all
  cores have had since a job was queued, what is left of the quanta of the jobs on cores,
  and a quantum for each job ahead of it in the queue are together at most the quanta of
  all other jobs. A time unit takes from the second what it adds to the first, since no
  core is idle; a quantum that ends takes from the third what it adds to the second; and
  a job that is queued fits in at the end (`LastFits`), because a job is in one place.

**The buddy allocator** - for every page size, number of orders and set of requested sizes
(`OrdersAssumption`, `BytesAssumption`: the size of a block doubles with its order;
`SizesAssumption`).

* `Buddy_proofs` begins with the arithmetic. The buddy of an aligned block is aligned, is
  another block, and its buddy is the first; two halves tile their block and nothing
  else does; aligned blocks are nested or apart.
* Then `[]Partition`, `[]Coalesced`, `[]OrderRecorded`. `BuddyInv` says that
  the blocks on the lists, in callers' hands and in the hands of the call in progress
  are a *tiling* (aligned, pairwise disjoint, covering memory), that no page is listed
  twice, that no two buddies are listed, and that the orders are right. Two parts
  are about the loops: `Scanned`, that the lists below the one `buddy_alloc` looks at
  are empty, without which the half a split puts on a list might meet its buddy there;
  and that the block `buddy_free` carries is not on a list while it looks for its buddy.
  `PromiseKept` is the refinement of Allocator but for its fairness: a request is
  refused only when no block is free that it fits in, because a block of a higher order
  would have been on a list that was scanned.

**The buddy simulator** - for every set of variables and amounts, and every width of an
`int` (`SimulatorAssumption`); `Serves` says that `Sizes`, on which only the
allocator's most general caller depends, has the sizes scripts ask for.

* `BuddySimulator_proofs`: a script's steps are steps of a caller of the allocator, so
  that the theorems above hold for scripts; `[]HeldByVariables`; and `[]HasWhatItAskedFor`
  if `NoOverflow`: the run `buddy_overflow` shows what happens otherwise. `ScriptInv` joins
  `BuddyInv` with `InCommand`, that the allocator is in the call of the command in
  progress, and `Held`, HeldByVariables within commands: the variable that is being
  freed is left out, and nothing is said once a command has failed - a failed alloc clears
  the pointer of a variable that stays in use. A block that is granted is not held
  already, because the invariant of the allocator tiles the memory (`InFlightApart`).

**Quash** - for every set of command lines, of process numbers, capacity of pipes and number
of them (`LinesAssumption`: a line is a nonempty sequence of commands;
`PidsAssumption`, `PipesAssumption`).

* `Quash_proofs`, about what the grammar makes of a line: whatever its length, each command
  but the last writes to a pipe and each but the first reads from one, without
  a redirection in the way, and an `&` at the end is on the first (`CmdsLinked`).
  `cmds` is a fold. That the function it unrolls to exists and has these values is shown
  from its values for the n last commands, by the least n for which they would fail.
  `[]NeverWaitsForBackground` follows.
* While fork does not fail (`~ ForkMayFail`): `[]OwnPids`, `[]KillsOwn`,
  `[]NoLostChild`, `[]ForegroundDone`, `[]CheckIsThorough`, and `KeepsJobTable`, the whole
  refinement of JobTable, from one invariant. `ShellInv` says what each point of the
  program knows of the locals (`Phases`); that the queue is a rotation of an ordered
  one, split where the check is (`InOrder`); that each list holds different, unreaped
  children of its own job (`AllOwn`) and the lists together all there are
  (`NoneLost`) - each needs the other: a number is reused for a new child only because
  no list holds it, and a child is reaped only from the list that does -; that what was
  reported is on no list (`Reported`); and that each job that was over when the line
  was entered is reported, yet to be looked at, or being looked at with no process found
  alive so far (`OverKept`). `[]PipesConnect` adds `Connected`: the next process will
  find the read end of the last pipe in the descriptors of the other parity.
  The hypothesis cannot be dropped: `quash_kill_failed_fork` shows what a failed
  fork does to `KillsOwn`, by way of a list that holds no process's number.

**The sequential components** are all in `Components_proofs`.

* The cache, for every size, associativity and file of addresses (`CacheAssumption`):
  `[]CountsRepeats`. The counts follow from the content of
  the cache, so the invariant says what that is: `HoldsLast`, the first block of each
  line's column is the last address of that line. Proved with `CacheTypeOK` and the
  lemmas that one more address does not change which earlier ones were repetitions.
* The memory pool, for every set of sizes: `[]BlocksApart`, from `BlocksBelowNext`, that
  what was handed out of a pool lies below its `next`. The sizes of the pools, powers of
  two, are only compared, so nothing is assumed of them.
* The ring buffer, for every set of values and of initial capacities: `DequeSpec =>
  IsSequence`, the whole refinement. `DequeInv` says only that front and back are indices
  of the ring; the work is in `RingElements`, the elements in terms of the ring, front
  and back: the remainders that deque.h computes are a wrap around by at most one ring
  (`WrapIs`), a push or a pop moves one end and leaves the other elements where they
  were, and `resize` copies both arcs of a full ring into order.
* The linked list, for every set of nodes and objects and every comparer
  (`CompareAssumption`; `NullAssumption` and `NullCallAssumption`: NULL is neither an
  object, a node nor the record of a call): `[]ListOK`, and `AnswersLikeSequence`, the
  refinement of PriorityQueue but for its fairness. `QueueInv` says that some
  sequence of nodes *is* the list (`IsList`: each points to the next, none occurs twice,
  they are all there are), and, while `priqueue_remove` runs, that no object up to where
  its second loop stands is the one to remove (`RemovalOn`). Linking a node in and
  taking one out are `Link` and `Unlink` of that sequence (`ListLink`, `ListUnlink`), and
  of its objects. The place where the walk of `priqueue_offer` stops is one of
  `OfferIndices` (`OffersOne`), which is what Scheduler uses: its queue is therefore the
  one that the list implements.

**The documentation** - for every number of sections, set of texts and number of timers
(`TextsAssumption`) whose searches lead to pages that SearchIndex holds
(`PagesAssumption`), and every number of files in each folder (`FilesAssumption`).

* `Documentation_proofs`, the panel: `[]ShownIsLatest`, `[]DormantIsReset`,
  `[]HoverKeepsOpen`. Handlers are applied to what other handlers return, so each is
  proved, as a function, to keep `PanelOK` - the first two properties, and that
  only an active panel has the focus in its field, without which putting a
  panel away is not closing it - and never to start a timer that hides the list
  (`Unhidden`). `PanelInv` is `PanelOK(box)`, `HoverKeepsOpen`, and that one such timer
  at most is running, which is why none can be forgotten; one step per event.
* The arrow keys: `[]ArrowsFollowDisplay`. `DownIs` and `UpIs` are about any link of any
  page that is `PageOK`: the entries shown are contiguous, or no entry has several
  definitions. This is what the code needs: going up it looks for the last definition of
  the entry just above (`newIndex`), which need not be the one it has found to show.
  Pages and texts provide it: on `all_e`, the only one of more than two entries
  with several definitions, all names begin with the same piece and go on in different
  ways, so that a text leads to all of them, one or none (`AllEMatches`). `ArrowsInv` adds
  that the frame is sent to such a page only (`Sent`) and that the link with the focus is
  displayed; every handler leaves the focus on that link or takes it away, or has
  moved it to one that is (`Keeps`).
* The list of files: `[]IconsTellContents`, from `DirectoryInv` - `Tells`, and that the
  stripes are those `updateStripes` would make now. The rows are all different (`RowsAre`),
  and the next displayed row has the next place (`Alternate`).

Only model-checked:

* liveness (`Terminates`, `Returns`, `LinesEnd`, the fairness in Allocator and PriorityQueue): fairness and
  ENABLED are beyond TLAPS here;
* ALU, which needs the operators of `Bitwise`: they cannot be used in a proof.

## 5. Plan

1. Done: scheduler library, simulator, priority queue, buddy system.
2. Done: Quash - jobs, pipes and kills over concurrent processes, deque, memory pool.
3. Done: cache, ALU, the documentation's scripts; proofs about the cache and the panel.
4. Quash further: `cd` and `export`, which change the directory and environment the
   children inherit; descriptors as a bounded resource.
5. Done: proofs about the allocator and its refinement, the shell and its refinement, the
   two simulators over their libraries, and what a call of the library may never do.
6. Done: proofs of the averages and the bounded wait, of the linked list and the ring
   buffer as sequences, and of the memory pool.
7. Done: proofs about the arrow keys and the list of files. With them every invariant a
   run checks is a theorem, but for the ALU's.

### Not modelled

* Quash: `cd` and `export`, whose state no other part of the shell reads; `echo`, `pwd` and
  what `jobs` prints; the generated lexer and parser; strings and the records of commands.
* Documentation: where things are on the screen (`getXPos`, `getYPos`, sizes and
  colours); `toggleVisibility` and `toggleInherit`, which no page that is shipped
  calls; pages of the index beyond those in SearchIndex, which are more data of the same
  form; the vendored jQuery. Quash's documentation has the same `search.js`.
* `RegisterFile_Cycle` of the ALU, which nothing calls; option parsing, printing,
  prose and assets everywhere.
