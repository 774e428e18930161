-------------------------------- MODULE Quash --------------------------------
(***************************************************************************)
(* The shell, shell_simulation/src: main (quash.c), run_script and what it *)
(* calls (execute.c).  The shell is one process; its children run between  *)
(* any two of its steps, and a step is at most one system call, except for *)
(* the kills of one command.                                               *)
(***************************************************************************)
EXTENDS Processes, Pipeline

CONSTANTS
  Lines,         \* the command lines a user may enter
  MaxLines,      \* lines entered in a session
  ForkMayFail    \* whether fork may return -1

ASSUME LinesAssumption == Lines \subseteq Seq(Command) \ {<<>>}

VARIABLES
  state_running,  \* state.running
  pc,             \* "parse", then in run_script "check", "create", "parent", "wait"; "exited"
  script,         \* the holders of the line
  i,              \* the command being started, from 0
  pipes,          \* the descriptors of the last two pipes
  pid_q, job_q, job_number,
  current_job, left, num, m_front,   \* locals of check_jobs_bg_status
  lines,          \* lines entered, for the bound
  completed,      \* jobs reported complete, for the properties
  over            \* jobs all of whose processes had ended when the line was read

checkVars == <<current_job, left, num, m_front>>
lineVars == <<state_running, script, lines, over>>
shellVars == <<lineVars, checkVars, pc, i, pipes, pid_q, job_q, job_number, completed>>
vars == <<proc, pipe, shellVars>>

NoJob == [job_id |-> 0, pid_q |-> <<>>, pid |-> NoPid]

Holder == script[i + 1]
Has(flag) == flag \in Holder.flags
Background == "BACKGROUND" \in script[1].flags
\* exit is obeyed only when it is all of the line.
IsExit == Len(script) = 1 /\ script[1].cmd.type = "EXIT"

JobIds(q) == {q[k].job_id : k \in 1..Len(q)}
Alive(id) == \E p \in Running : proc[p].job = id
-----------------------------------------------------------------------------
\* main, and the beginning of run_script.

Init ==
  /\ ProcInit
  /\ state_running = TRUE /\ pc = "parse"
  /\ script = <<>> /\ i = 0 /\ pipes = [k \in 0..1 |-> NoPipe]
  /\ pid_q = <<>> /\ job_q = <<>> /\ job_number = 1
  /\ current_job = NoJob /\ left = 0 /\ num = 0 /\ m_front = NoPid
  /\ lines = 0 /\ completed = <<>> /\ over = {}

JobsToCheck == Len(job_q)

\* parse returns a line; the last one may end with the input.
run_script(line) ==
  /\ pc = "parse" /\ state_running /\ lines < MaxLines
  /\ script' = cmds(line)
  /\ state_running' \in BOOLEAN
  /\ pid_q' = <<>>
  /\ left' = JobsToCheck
  /\ i' = 0
  /\ pc' = "check"
  /\ lines' = lines + 1
  /\ over' = {id \in JobIds(job_q) : ~ Alive(id)}
  /\ UNCHANGED <<proc, pipe, pipes, job_q, job_number, current_job, num, m_front, completed>>

\* parse returns NULL at the end of the input.
EndOfInput ==
  /\ pc = "parse" /\ state_running
  /\ state_running' = FALSE
  /\ UNCHANGED <<proc, pipe, script, lines, over, checkVars, pc, i, pipes, pid_q, job_q,
                 job_number, completed>>

Return ==
  /\ pc = "parse" /\ ~ state_running
  /\ pc' = "exited"
  /\ UNCHANGED <<proc, pipe, lineVars, checkVars, i, pipes, pid_q, job_q, job_number, completed>>
-----------------------------------------------------------------------------
\* check_jobs_bg_status.

CheckJob ==
  /\ pc = "check" /\ current_job = NoJob /\ left > 0
  /\ current_job' = Head(job_q)
  /\ job_q' = Tail(job_q)
  /\ num' = Len(current_job'.pid_q)
  /\ m_front' = Head(current_job'.pid_q)
  /\ UNCHANGED <<proc, pipe, lineVars, left, pc, i, pipes, pid_q, job_number, completed>>

\* Mutant: a child that has ended but is not reaped counts as running.
StillRuns_Ended(p) == ~ NoSuchChild(p)

\* waitpid(p, WNOHANG) returns 0.
StillRuns(p) == ~ NoSuchChild(p) /\ Reapable(p) = {}

\* Mutants: every process number is kept, or none.
Requeue_Always(p, rest) == Append(rest, p)
Requeue_Never(p, rest) == rest

Requeue(p, rest) == IF StillRuns(p) THEN Append(rest, p) ELSE rest

CheckPid ==
  /\ pc = "check" /\ num > 0
  /\ LET p == Head(current_job.pid_q)
     IN /\ current_job' = [current_job EXCEPT !.pid_q = Requeue(p, Tail(current_job.pid_q))]
        /\ IF StillRuns(p) \/ Reapable(p) = {} THEN proc' = proc
           ELSE \E z \in Reapable(p) : proc' = Reaped({z})
  /\ num' = num - 1
  /\ UNCHANGED <<pipe, lineVars, left, m_front, pc, i, pipes, pid_q, job_q, job_number, completed>>

\* Mutant: a job with one process left is complete.
Complete_OneLeft(q) == Len(q) <= 1

Complete(q) == q = <<>>

CheckedJob ==
  /\ pc = "check" /\ num = 0 /\ current_job # NoJob
  /\ IF Complete(current_job.pid_q)
     THEN completed' = Append(completed, current_job.job_id) /\ job_q' = job_q
     ELSE completed' = completed /\ job_q' = Append(job_q, current_job)
  /\ current_job' = NoJob
  /\ left' = left - 1
  /\ UNCHANGED <<proc, pipe, lineVars, num, m_front, pc, i, pipes, pid_q, job_number>>

\* Every job has been checked; exit ends the main loop.
Checked ==
  /\ pc = "check" /\ current_job = NoJob /\ left = 0
  /\ IF IsExit THEN state_running' = FALSE /\ pc' = "parse"
     ELSE UNCHANGED state_running /\ pc' = "create"
  /\ UNCHANGED <<proc, pipe, script, lines, over, checkVars, i, pipes, pid_q, job_q, job_number, completed>>
-----------------------------------------------------------------------------
\* create_process.

\* child_run_command: the child of a command that acts on the shell does nothing.
child_run_command(cmd) ==
  IF cmd.type \in {"EXPORT", "CD", "KILL", "EXIT"} THEN "idle" ELSE cmd.does

\* Mutant: the wrong one of the two pipes is read.
ReadEnd_Own(ps) == ps[i % 2]

\* The pipe a command reads is the one the command before it writes.
ReadEnd(ps) == ps[(i + 1) % 2]

\* A redirection comes after the pipe and replaces it.
Stdin(ps) == IF Has("PIPE_IN") /\ ~ Has("REDIRECT_IN") THEN ReadEnd(ps) ELSE NoPipe
Stdout(ps) == IF Has("PIPE_OUT") /\ ~ Has("REDIRECT_OUT") THEN ps[i % 2] ELSE NoPipe

\* pipe and fork, and what the child does before its program runs.
Fork ==
  /\ pc = "create" /\ i < Len(script)
  /\ LET k == Len(pipe) + 1
         ps == IF Has("PIPE_OUT") THEN [pipes EXCEPT ![i % 2] = k] ELSE pipes
         made(W) == IF Has("PIPE_OUT") THEN Append(pipe, [held |-> 0, writers |-> W]) ELSE pipe
         job == IF Background THEN job_number ELSE 0
     IN /\ Has("PIPE_OUT") => k <= MaxPipes
        /\ pipes' = ps
        /\ \/ \E p \in Unused :
                /\ proc' = [proc EXCEPT ![p] =
                              Started(child_run_command(Holder.cmd), Stdin(ps), Stdout(ps), job)]
                /\ pipe' = made({Shell} \union (IF Stdout(ps) = k THEN {p} ELSE {}))
                /\ pid_q' = Append(pid_q, p)
           \/ /\ ForkMayFail
              /\ proc' = proc
              /\ pipe' = made({Shell})
              /\ pid_q' = Append(pid_q, NoPid)
  /\ pc' = "parent"
  /\ UNCHANGED <<lineVars, checkVars, i, job_q, job_number, completed>>

\* Mutant: the write end of the pipe stays open.
CloseWriteEnd_Never == pipe

\* The processes that a kill of job id reaches.
run_kill(id) ==
  UNION {UNION {Reaches(p) : p \in ToSet(job_q[k].pid_q)} :
           k \in {n \in 1..Len(job_q) : job_q[n].job_id = id}}

CloseWriteEnd == IF Has("PIPE_OUT") THEN WithoutWriter(Shell, pipes[i % 2]) ELSE pipe

\* The parent's branch, parent_run_command included.
Parent ==
  /\ pc = "parent"
  /\ pipe' = CloseWriteEnd
  /\ proc' = IF Holder.cmd.type = "KILL" THEN Killed(run_kill(Holder.cmd.job)) ELSE proc
  /\ i' = i + 1
  /\ pc' = "create"
  /\ UNCHANGED <<lineVars, checkVars, pipes, pid_q, job_q, job_number, completed>>
-----------------------------------------------------------------------------
\* The rest of run_script.

\* Every command has been started: a foreground line is waited for, a background
\* one becomes a job.
Launched ==
  /\ pc = "create" /\ i = Len(script)
  /\ IF Background
     THEN /\ job_q' = Append(job_q, [job_id |-> job_number, pid_q |-> pid_q, pid |-> Last(pid_q)])
          /\ job_number' = job_number + 1
          /\ pid_q' = <<>>
          /\ pc' = "parse"
     ELSE pc' = "wait" /\ UNCHANGED <<job_q, job_number, pid_q>>
  /\ UNCHANGED <<proc, pipe, lineVars, checkVars, i, pipes, completed>>

\* Mutant: a child that has not ended is not waited for.
Waited_NoHang(p) == TRUE

\* waitpid(p, 0) returns.
Waited(p) == NoSuchChild(p) \/ Reapable(p) # {}

Wait ==
  /\ pc = "wait" /\ pid_q # <<>>
  /\ LET p == Head(pid_q)
     IN /\ Waited(p)
        /\ IF Reapable(p) = {} THEN proc' = proc
           ELSE \E z \in Reapable(p) : proc' = Reaped({z})
  /\ pid_q' = Tail(pid_q)
  /\ UNCHANGED <<pipe, lineVars, checkVars, pc, i, pipes, job_q, job_number, completed>>

WaitDone ==
  /\ pc = "wait" /\ pid_q = <<>>
  /\ pc' = "parse"
  /\ UNCHANGED <<proc, pipe, lineVars, checkVars, i, pipes, pid_q, job_q, job_number, completed>>

ShellStep ==
  \/ CheckJob \/ CheckPid \/ CheckedJob \/ Checked
  \/ Fork \/ Parent \/ Launched \/ Wait \/ WaitDone

Next ==
  \/ \E line \in Lines : run_script(line)
  \/ EndOfInput \/ Return
  \/ ShellStep
  \/ \E p \in Pids : ProcessStep(p) /\ UNCHANGED shellVars

Spec == Init /\ [][Next]_vars

\* The shell runs on once it has a line, and a process that can go on does.
FairSpec ==
  /\ Spec
  /\ WF_vars(ShellStep)
  /\ \A p \in Pids : WF_vars(ProcessStep(p) /\ UNCHANGED shellVars)
-----------------------------------------------------------------------------
\* Properties.

Jobs == {job_q[k] : k \in 1..Len(job_q)} \union (IF current_job = NoJob THEN {} ELSE {current_job})

\* Every process number a job keeps still stands for a process of that job:
\* waitpid on it and kill to it (lines 117, 241) never meet a reused number.
OwnPids ==
  \A job \in Jobs, p \in UNION {ToSet(j.pid_q) : j \in Jobs} :
    p \in ToSet(job.pid_q) => p \in Children /\ proc[p].job = job.job_id

\* kill sends a signal to the processes of the job it names and no other
\* (line 228), in the step in which the parent runs it.
KillsOwn ==
  pc = "parent" /\ Holder.cmd.type = "KILL" =>
    \A p \in run_kill(Holder.cmd.job) : proc[p].job = Holder.cmd.job

\* No child is forgotten: each is waited for by the line or kept by a job, so
\* that it does not stay a zombie.
NoLostChild ==
  Children \subseteq ToSet(pid_q) \union UNION {ToSet(job.pid_q) : job \in Jobs}

\* The shell asks for the next line only when nothing of a foreground line is
\* left, running or unreaped (line 464).
ForegroundDone == pc = "parse" => \A p \in Children : proc[p].job # 0

\* A job that was over when a line was entered is reported before the line
\* runs, and after the rotations of the check the jobs that are left are kept,
\* and listed, in the order they were started.
CheckIsThorough ==
  pc = "create" =>
    /\ over \subseteq ToSet(completed)
    /\ \A k, n \in 1..Len(job_q) : k < n => job_q[k].job_id < job_q[n].job_id

\* Each process of a line reads the pipe that the one before it writes, and
\* no two pipes of a line are the same (lines 386-405, two pairs of descriptors).
PipesConnect ==
  pc = "create" =>
    \A k \in 1..(Len(pid_q) - 1) :
      /\ proc[pid_q[k]].out # NoPipe /\ proc[pid_q[k]].out = proc[pid_q[k + 1]].in
      /\ \A n \in 1..(k - 1) : proc[pid_q[n]].out # proc[pid_q[k]].out

\* An & anywhere in a line keeps the shell from waiting for it.
NeverWaitsForBackground ==
  pc = "wait" => \A k \in 1..Len(script) : "BACKGROUND" \notin script[k].flags

\* The user's view of background jobs: each has an id of its own in the current
\* list and is reported once, when all of its processes have ended (README.md,
\* lines 315-316, and lines 110-148 of execute.c).
Listed == {job.job_id : job \in Jobs}
Table == INSTANCE JobTable WITH
  listed <- Listed,
  live <- {proc[p].job : p \in Running} \ {0},
  completed <- completed
KeepsJobTable == Table!Spec

\* The id of a new background job is one greater than the largest in the list
\* (README.md, lines 319-321).
NumbersAfterLargest ==
  [][Listed' \ Listed \subseteq {Max(Listed \union {0}) + 1}]_vars

\* A foreground line ends when its processes do: its pipes never keep them.
LinesEnd == (pc # "parse") ~> (pc \in {"parse", "exited"})
=============================================================================
