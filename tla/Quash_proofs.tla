---------------------------- MODULE Quash_proofs ----------------------------
(***************************************************************************)
(* What holds of Quash for every set of command lines and processes.       *)
(***************************************************************************)
EXTENDS Quash, SequenceTheorems, WellFoundedInduction, TLAPS

\* A nonempty set of natural numbers has a least element, and Min is it.
LEMMA MinLeast ==
  ASSUME NEW K \in SUBSET Nat, K # {}
  PROVE  Min(K) \in K /\ \A k \in K : Min(K) <= k
<1>1. PICK x \in K : \A y \in K : ~(y < x)
  <2>1. \E x \in K : \A y \in K : ~(<<y, x>> \in OpToRel(<, Nat))
    BY NatLessThanWellFounded, WFMin
  <2> QED BY <2>1 DEF OpToRel
<1>2. \E k \in K : \A y \in K : k <= y
  BY <1>1
<1> QED BY <1>2, Zenon DEF Min

Flags == Redirections \union {"PIPE_IN", "PIPE_OUT", "BACKGROUND"}
Holders == [cmd : Program, flags : SUBSET Flags]

\* What run_script relies on in the holders of a line.
Linked(h) ==
  /\ h \in Seq(Holders) /\ h # <<>>
  /\ \A k \in 1..Len(h) : "BACKGROUND" \in h[k].flags => "BACKGROUND" \in h[1].flags
  /\ \A k \in 1..(Len(h) - 1) :
       /\ "PIPE_OUT" \in h[k].flags /\ "REDIRECT_OUT" \notin h[k].flags
       /\ "PIPE_IN" \in h[k + 1].flags /\ "REDIRECT_IN" \notin h[k + 1].flags

\* The command at the end of a line reads from the pipe before it and redirects as it says.
LEMMA TopLinked ==
  ASSUME NEW t \in Command
  PROVE  cmd_top(t) \in Holders /\ Linked(<<cmd_top(t)>>)
<1>1. cmd_top(t) \in Holders
  <2>1. PICK f : f = t.redir \union (IF t.bg THEN {"BACKGROUND"} ELSE {})
    OBVIOUS
  <2>2. f \in SUBSET Flags /\ t.cmd \in Program
    BY <2>1 DEF Flags, Command
  <2>3. cmd_top(t) = [cmd |-> t.cmd, flags |-> f]
    BY <2>1 DEF cmd_top
  <2> QED BY <2>2, <2>3 DEF Holders
<1>2. PICK h : h = <<cmd_top(t)>>
  OBVIOUS
<1>3. h \in Seq(Holders) /\ Len(h) = 1 /\ h # <<>>
  BY <1>1, <1>2
<1>4. Linked(h)
  BY <1>3 DEF Linked
<1> QED BY <1>1, <1>2, <1>4

\* A command put before a linked line writes to the pipe the next one reads from.
LEMMA PipedLinked ==
  ASSUME NEW t \in Holders, NEW rest, Linked(rest)
  PROVE  Linked(Piped(t, rest)) /\ Len(Piped(t, rest)) = Len(rest) + 1
<1> DEFINE bg == rest[1].flags \intersect {"BACKGROUND"}
           a == [t EXCEPT !.flags = (t.flags \ {"REDIRECT_APPEND", "REDIRECT_OUT"}) \union {"PIPE_OUT"} \union bg]
           b == [rest[1] EXCEPT !.flags = (rest[1].flags \ {"REDIRECT_IN"}) \union {"PIPE_IN"}]
<1>1. rest \in Seq(Holders) /\ rest # <<>> /\ Len(rest) \in Nat \ {0} /\ rest[1] \in Holders
  BY LenProperties, EmptySeq, ElementOfSeq DEF Linked
<1>2. /\ a \in Holders /\ a.flags = (t.flags \ {"REDIRECT_APPEND", "REDIRECT_OUT"}) \union {"PIPE_OUT"} \union bg
      /\ b \in Holders /\ b.flags = (rest[1].flags \ {"REDIRECT_IN"}) \union {"PIPE_IN"}
  <2>1. ASSUME NEW h \in Holders, NEW f \in SUBSET Flags
        PROVE  [h EXCEPT !.flags = f] \in Holders /\ [h EXCEPT !.flags = f].flags = f
    BY DEF Holders
  <2>2. t.flags \in SUBSET Flags /\ rest[1].flags \in SUBSET Flags
    BY <1>1 DEF Holders
  <2>3. PICK f : f = (t.flags \ {"REDIRECT_APPEND", "REDIRECT_OUT"}) \union {"PIPE_OUT"} \union bg
    OBVIOUS
  <2>4. PICK g : g = (rest[1].flags \ {"REDIRECT_IN"}) \union {"PIPE_IN"}
    OBVIOUS
  <2>5. f \in SUBSET Flags
    BY <2>2, <2>3 DEF Flags
  <2>6. g \in SUBSET Flags
    BY <2>2, <2>4 DEF Flags
  <2>7. a = [t EXCEPT !.flags = f] /\ b = [rest[1] EXCEPT !.flags = g]
    BY <2>3, <2>4
  <2>8. rest[1] \in Holders
    BY <1>1
  <2> HIDE DEF a, b
  <2>9. a \in Holders /\ a.flags = f
    BY <2>1, <2>5, <2>7
  <2>10. b \in Holders /\ b.flags = g
    BY <2>1, <2>6, <2>7, <2>8
  <2> QED BY <2>3, <2>4, <2>9, <2>10
<1> HIDE DEF a, b
<1>3. PICK f : f = <<a, b>> \o Tail(rest)
  OBVIOUS
<1>4. /\ f \in Seq(Holders) /\ Len(f) = Len(rest) + 1
      /\ f[1] = a /\ f[2] = b /\ \A k \in 3..Len(f) : f[k] = rest[k - 1]
  <2>1. <<a, b>> \in Seq(Holders) /\ Len(<<a, b>>) = 2 /\ <<a, b>>[1] = a /\ <<a, b>>[2] = b
    BY <1>2
  <2>2. Tail(rest) \in Seq(Holders) /\ Len(Tail(rest)) = Len(rest) - 1
        /\ \A k \in 1..(Len(rest) - 1) : Tail(rest)[k] = rest[k + 1]
    BY <1>1, HeadTailProperties
  <2>3. /\ f \in Seq(Holders) /\ Len(f) = 2 + Len(rest) - 1
        /\ \A k \in 1..(2 + Len(rest) - 1) : f[k] = IF k <= 2 THEN <<a, b>>[k] ELSE Tail(rest)[k - 2]
    BY <1>3, <2>1, <2>2, ConcatProperties
  <2> QED BY <1>1, <2>1, <2>2, <2>3
<1>5. \A k \in 1..Len(rest) : "BACKGROUND" \in rest[k].flags => "BACKGROUND" \in rest[1].flags
  BY DEF Linked
<1>6. ASSUME NEW k \in 1..Len(f), "BACKGROUND" \in f[k].flags  PROVE "BACKGROUND" \in f[1].flags
  <2>1. CASE k = 1
    BY <1>4, <1>6, <2>1
  <2>2. CASE k > 1
    <3>1. k - 1 \in 1..Len(rest) /\ "BACKGROUND" \in rest[k - 1].flags
      BY <1>1, <1>2, <1>4, <1>6, <2>2
    <3>2. "BACKGROUND" \in a.flags
      BY <1>2, <1>5, <3>1
    <3> QED BY <1>4, <3>2
  <2> QED BY <1>4, <2>1, <2>2
<1>7. ASSUME NEW k \in 1..(Len(f) - 1)
      PROVE  /\ "PIPE_OUT" \in f[k].flags /\ "REDIRECT_OUT" \notin f[k].flags
             /\ "PIPE_IN" \in f[k + 1].flags /\ "REDIRECT_IN" \notin f[k + 1].flags
  <2>1. \A m \in 1..(Len(rest) - 1) :
          /\ "PIPE_OUT" \in rest[m].flags /\ "REDIRECT_OUT" \notin rest[m].flags
          /\ "PIPE_IN" \in rest[m + 1].flags /\ "REDIRECT_IN" \notin rest[m + 1].flags
    BY DEF Linked
  <2>2. CASE k = 1
    BY <1>2, <1>4, <2>2
  <2>3. CASE k = 2
    <3>1. 1 \in 1..(Len(rest) - 1) /\ f[3] = rest[2]
      BY <1>1, <1>4, <2>3
    <3> QED BY <1>2, <1>4, <2>1, <2>3, <3>1
  <2>4. CASE k > 2
    <3>1. k - 1 \in 1..(Len(rest) - 1) /\ f[k] = rest[k - 1] /\ f[k + 1] = rest[(k - 1) + 1]
      BY <1>1, <1>4, <2>4
    <3> QED BY <2>1, <3>1
  <2> QED BY <1>1, <1>4, <2>2, <2>3, <2>4
<1>8. Linked(f) /\ Len(f) = Len(rest) + 1
  <2>1. f # <<>>
    BY <1>1, <1>4
  <2> QED BY <1>4, <1>6, <1>7, <2>1 DEF Linked
<1>9. Piped(t, rest) = f
  BY <1>3 DEF Piped, a, b
<1> QED BY <1>8, <1>9

\* The function by which FoldRight folds over the elements from n - m + 1 on
\* exists, so that cmds is what its definition says it is.
LEMMA CmdsLinked ==
  ASSUME NEW line \in Seq(Command), line # <<>>
  PROVE  Linked(cmds(line)) /\ Len(cmds(line)) = Len(line)
<1> DEFINE front == Front(line)
           D == DOMAIN front
           n == Len(line) - 1
           base == <<cmd_top(Last(line))>>
           Rec(f, s) == IF s = {} THEN base
                        ELSE Piped(cmd_top(front[Min(s)]), f[s \ {Min(s)}])
           Defined(f, m) == \A s \in SUBSET ((n - m + 1)..n) : f[s] = Rec(f, s)
           fold == CHOOSE iter : iter = [s \in SUBSET D |->
                     IF s = {} THEN base
                     ELSE Piped(cmd_top(front[Min(s)]), iter[s \ {Min(s)}])]
<1>1. cmds(line) = fold[D]
  BY DEF cmds, FoldRight, MapThenFoldSet
<1>2. Len(line) \in Nat \ {0} /\ n \in Nat /\ D = 1..n /\ Last(line) \in Command
      /\ \A k \in 1..n : front[k] \in Command
  <2>1. Len(line) \in Nat \ {0} /\ \A k \in 1..Len(line) : line[k] \in Command
    BY EmptySeq, ElementOfSeq
  <2>2. /\ front \in Seq(Command)
        /\ Len(front) = IF 1 <= n THEN n - 1 + 1 ELSE 0
    BY <2>1, SubSeqProperties DEF Front
  <2>3. D = 1..Len(front) /\ \A k \in 1..Len(front) : front[k] \in Command
    BY <2>2, LenProperties, ElementOfSeq
  <2> QED BY <2>1, <2>2, <2>3 DEF Last
<1> HIDE DEF front, D, n, base
<1>3. ASSUME NEW m \in Nat, m <= n, NEW s \in SUBSET ((n - m)..n), s # {}
      PROVE  Min(s) \in s /\ s \ {Min(s)} \in SUBSET ((n - m + 1)..n)
  <2>1. s \in SUBSET Nat
    BY <1>2, <1>3
  <2>2. Min(s) \in s /\ \A k \in s : Min(s) <= k
    BY <1>3, <2>1, MinLeast
  <2>3. PICK x \in s : x = Min(s)
    BY <2>2
  <2>4. \A k \in s : x <= k
    BY <2>2, <2>3
  <2>5. \A k \in s \ {x} : k \in (n - m + 1)..n
    BY <1>2, <2>4
  <2> QED BY <2>3, <2>5
<1> DEFINE Fails == {m \in 0..n : ~ \E f : Defined(f, m)}
<1>4. Fails = {}
  <2>1. SUFFICES ASSUME Fails # {}  PROVE FALSE
    OBVIOUS
  <2>2. Fails \in SUBSET Nat
    OBVIOUS
  <2> HIDE DEF Fails, Defined
  <2>3. PICK m \in Fails : \A k \in Fails : m <= k
    BY <2>1, <2>2, MinLeast
  <2>4. m \in 0..n /\ ~ \E f : Defined(f, m)
    BY <2>3 DEF Fails
  <2>5. CASE m = 0
    <3> DEFINE f == [s \in SUBSET (1..n) |-> base]
    <3>1. Defined(f, 0)
      <4>1. (n - 0 + 1)..n = {}
        BY <1>2
      <4>2. ASSUME NEW s \in SUBSET ((n - 0 + 1)..n)  PROVE f[s] = Rec(f, s)
        <5>1. s = {} /\ s \in SUBSET (1..n)
          BY <4>1
        <5> QED BY <5>1
      <4> QED BY <4>2 DEF Defined
    <3> QED BY <2>4, <2>5, <3>1
  <2>6. CASE m > 0
    <3>1. PICK k \in 0..n : k = m - 1
      BY <1>2, <2>4, <2>6
    <3>2. k \notin Fails
      BY <2>2, <2>3, <2>4, <3>1
    <3>3. PICK f : Defined(f, k)
      BY <3>1, <3>2 DEF Fails
    <3> DEFINE g == [s \in SUBSET (1..n) |-> Rec(f, s)]
    <3>4. Defined(g, m)
      <4>1. n - m + 1 = n - k /\ n - m + 1 >= 1
        BY <1>2, <2>4, <3>1
      <4>2. ASSUME NEW s \in SUBSET ((n - m + 1)..n)  PROVE g[s] = Rec(g, s)
        <5>1. s \in SUBSET (1..n)
          BY <1>2, <4>1
        <5>2. g[s] = Rec(f, s)
          BY <5>1
        <5>3. CASE s = {}
          BY <5>2, <5>3
        <5>4. CASE s # {}
          <6>1. s \ {Min(s)} \in SUBSET ((n - k + 1)..n)
            BY <1>2, <1>3, <3>1, <4>1, <5>4
          <6>2. f[s \ {Min(s)}] = Rec(f, s \ {Min(s)})
            BY <3>3, <6>1 DEF Defined
          <6>3. s \ {Min(s)} \in SUBSET (1..n)
            BY <5>1
          <6>4. g[s \ {Min(s)}] = f[s \ {Min(s)}]
            BY <6>2, <6>3
          <6> QED BY <5>2, <5>4, <6>4
        <5> QED BY <5>3, <5>4
      <4> QED BY <4>2 DEF Defined
    <3> QED BY <2>4, <3>4
  <2> QED BY <1>2, <2>4, <2>5, <2>6
<1>5. \E f : f = [s \in SUBSET D |-> IF s = {} THEN base
                                     ELSE Piped(cmd_top(front[Min(s)]), f[s \ {Min(s)}])]
  <2> HIDE DEF Fails
  <2>1. n \in 0..n /\ n \notin Fails
    BY <1>2, <1>4
  <2>2. PICK f : Defined(f, n)
    BY <2>1 DEF Fails
  <2>3. (n - n + 1)..n = D
    BY <1>2
  <2>4. \A s \in SUBSET D : f[s] = Rec(f, s)
    BY <2>2, <2>3
  <2> DEFINE g == [s \in SUBSET D |-> f[s]]
  <2>5. \A s \in SUBSET D : g[s] = Rec(g, s)
    <3>1. ASSUME NEW s \in SUBSET D  PROVE g[s] = Rec(g, s)
      <4>1. s \ {Min(s)} \in SUBSET D
        OBVIOUS
      <4>2. g[s \ {Min(s)}] = f[s \ {Min(s)}]
        BY <4>1
      <4> QED BY <2>4, <4>2
    <3> QED BY <3>1
  <2>6. g = [s \in SUBSET D |-> g[s]]
    OBVIOUS
  <2> HIDE DEF g
  <2> QED BY <2>5, <2>6
<1>6. \A s \in SUBSET D : fold[s] = Rec(fold, s)
  <2>1. fold = [s \in SUBSET D |-> IF s = {} THEN base
                                   ELSE Piped(cmd_top(front[Min(s)]), fold[s \ {Min(s)}])]
    BY <1>5
  <2> HIDE DEF fold
  <2> QED BY <2>1
<1> HIDE DEF fold, Fails
<1> DEFINE Good(m) == Linked(fold[(n - m + 1)..n]) /\ Len(fold[(n - m + 1)..n]) = m + 1
           Bad == {m \in 0..n : ~ Good(m)}
<1>7. Bad = {}
  <2>1. SUFFICES ASSUME Bad # {}  PROVE FALSE
    OBVIOUS
  <2>2. Bad \in SUBSET Nat
    OBVIOUS
  <2> HIDE DEF Bad
  <2>3. PICK m \in Bad : \A k \in Bad : m <= k
    BY <2>1, <2>2, MinLeast
  <2>4. m \in 0..n /\ ~ Good(m)
    BY <2>3 DEF Bad
  <2> DEFINE s == (n - m + 1)..n
  <2>5. s \in SUBSET D
    BY <1>2, <2>4
  <2>6. CASE m = 0
    <3>1. s = {}
      BY <1>2, <2>6
    <3>2. fold[s] = base
      BY <1>6, <2>5, <3>1
    <3>3. Linked(base) /\ Len(base) = 1
      BY <1>2, TopLinked DEF base
    <3> QED BY <2>4, <2>6, <3>2, <3>3
  <2>7. CASE m > 0
    <3>1. PICK k \in 0..n : k = m - 1
      BY <1>2, <2>4, <2>7
    <3>2. PICK x \in 1..n : x = n - m + 1
      BY <1>2, <2>4, <2>7
    <3>3. x \in s /\ \A y \in s : x <= y
      BY <1>2, <3>2
    <3>4. Min(s) = x
      <4>1. s \in SUBSET Nat /\ s # {}
        BY <1>2, <2>5, <3>3
      <4> HIDE DEF s
      <4>2. Min(s) \in s /\ \A y \in s : Min(s) <= y
        BY <4>1, MinLeast
      <4>3. PICK y \in s : y = Min(s)
        BY <4>2
      <4>4. x <= y /\ y <= x /\ x \in Nat /\ y \in Nat
        BY <3>3, <4>1, <4>2, <4>3
      <4>5. x = y
        BY <4>4
      <4> QED BY <4>3, <4>5
    <3>5. s # {}
      BY <3>3
    <3>6. s \ {x} = (n - k + 1)..n
      <4>1. x = n - m + 1 /\ n - k + 1 = x + 1
        BY <1>2, <2>4, <3>1, <3>2
      <4>2. \A y : y \in s \ {x} <=> y \in (n - k + 1)..n
        BY <1>2, <2>4, <4>1
      <4> QED BY <4>2
    <3>7. fold[s] = Piped(cmd_top(front[x]), fold[(n - k + 1)..n])
      BY <1>6, <2>5, <3>4, <3>5, <3>6
    <3>8. Good(k)
      BY <2>2, <2>3, <2>4, <3>1 DEF Bad
    <3>9. PICK rest : rest = fold[(n - k + 1)..n]
      OBVIOUS
    <3>10. Linked(rest) /\ Len(rest) = k + 1
      BY <3>8, <3>9
    <3>11. PICK t \in Holders : t = cmd_top(front[x])
      BY <1>2, TopLinked
    <3>12. Linked(Piped(t, rest)) /\ Len(Piped(t, rest)) = Len(rest) + 1
      BY <3>10, PipedLinked
    <3> QED BY <2>4, <3>1, <3>7, <3>9, <3>10, <3>11, <3>12
  <2> QED BY <1>2, <2>4, <2>6, <2>7
<1>8. n \in 0..n /\ (n - n + 1)..n = D
  BY <1>2
<1>9. Good(n)
  BY <1>7, <1>8
<1> QED BY <1>1, <1>2, <1>8, <1>9 DEF n
-----------------------------------------------------------------------------
\* The records of processes, jobs and pipes.
Procs == [state : {"free", "running", "zombie"}, does : Kinds, left : Nat, in : Nat, out : Nat, job : Nat]
JobSet == [job_id : Nat, pid_q : Seq(Pids), pid : Pids \union {NoPid}]
PipeSet == [held : Int, writers : SUBSET (Pids \union {Shell})]

Typed ==
  /\ proc \in [Pids -> Procs] /\ pipe \in Seq(PipeSet)
  /\ pc \in {"parse", "check", "create", "parent", "wait", "exited"}
  /\ script \in Seq(Holders) /\ i \in Nat /\ pipes \in [0..1 -> Nat]
  /\ pid_q \in Seq(Pids) /\ job_q \in Seq(JobSet) /\ job_number \in Nat \ {0}
  /\ current_job \in JobSet /\ left \in Nat /\ num \in Nat
  /\ completed \in Seq(Nat) /\ over \in SUBSET Nat

\* The jobs at the head of the queue that the check has not taken out yet.
Unchecked == IF current_job = NoJob THEN left ELSE left - 1

\* What each point of the program knows of the locals.
Phases ==
  /\ pc \in {"check", "create", "parent", "wait"} => Linked(script)
  /\ pc = "create" => Len(pid_q) = i /\ i <= Len(script)
  /\ pc = "parent" => Len(pid_q) = i + 1 /\ i < Len(script)
  /\ pc \in {"parse", "check", "exited"} => pid_q = <<>>
  /\ pc = "check" => i = 0
  /\ pc = "wait" => ~ Background
  /\ pc # "check" => current_job = NoJob /\ left = 0
  /\ IF current_job = NoJob THEN num = 0 ELSE left > 0
  /\ Unchecked <= Len(job_q)
  /\ num <= Len(current_job.pid_q)

\* The check rotates the queue: the jobs it has kept, the one it holds and those
\* it has not reached yet are each in order, and these three in this order.
InOrder ==
  /\ \A k, n \in 1..Len(job_q) :
       k < n => IF k <= Unchecked /\ Unchecked < n THEN job_q[n].job_id < job_q[k].job_id
                ELSE job_q[k].job_id < job_q[n].job_id
  /\ current_job # NoJob =>
       \A k \in 1..Len(job_q) : IF k <= Unchecked THEN current_job.job_id < job_q[k].job_id
                                ELSE job_q[k].job_id < current_job.job_id
  /\ \A job \in Jobs : job.job_id \in 1..(job_number - 1)

NoneTwice(q) == \A k, n \in 1..Len(q) : q[k] = q[n] => k = n

\* The list q holds different children, each started for job id.
Own(q, id) == NoneTwice(q) /\ \A k \in 1..Len(q) : q[k] \in Children /\ proc[q[k]].job = id

LineJob == IF Background THEN job_number ELSE 0

AllOwn == Own(pid_q, LineJob) /\ \A job \in Jobs : Own(job.pid_q, job.job_id)

\* A job that was over at the start of the check is reported, or about to be.
Reported ==
  /\ ToSet(completed) \subseteq 1..(job_number - 1)
  /\ \A job \in Jobs : job.job_id \notin ToSet(completed)
OverKept ==
  /\ over \subseteq 1..(job_number - 1) /\ \A id \in over : ~ Alive(id)
  /\ pc = "check" =>
       \A id \in over :
         \/ id \in ToSet(completed)
         \/ current_job # NoJob /\ id = current_job.job_id /\ Len(current_job.pid_q) = num
         \/ \E k \in 1..Unchecked : job_q[k].job_id = id
  /\ pc \in {"create", "parent"} => over \subseteq ToSet(completed)

\* The processes made so far are connected, and the next one finds the pipe of
\* the last one where it looks for it.
Connected ==
  pc \in {"create", "parent"} =>
    /\ \A k \in 1..Len(pid_q) : k < Len(script) => proc[pid_q[k]].out \in 1..Len(pipe)
    /\ \A k, n \in 1..Len(pid_q) :
         k < n /\ n < Len(script) => proc[pid_q[k]].out < proc[pid_q[n]].out
    /\ \A k \in 1..(Len(pid_q) - 1) : proc[pid_q[k]].out = proc[pid_q[k + 1]].in
    /\ pid_q # <<>> /\ Len(pid_q) < Len(script) =>
         pipes[(Len(pid_q) + 1) % 2] = proc[pid_q[Len(pid_q)]].out

\* Every child is listed, by the line or by a job.
On(q, p) == \E k \in 1..Len(q) : q[k] = p
NoneLost == \A p \in Children : On(pid_q, p) \/ \E job \in Jobs : On(job.pid_q, p)

ShellInv ==
  /\ Typed /\ Phases /\ InOrder /\ AllOwn /\ NoneLost /\ Reported /\ OverKept

-----------------------------------------------------------------------------
\* What the steps do to the processes.

\* No process comes or goes, and each keeps its job and its ends of pipes.
Harmless ==
  /\ proc' \in [Pids -> Procs]
  /\ Children' = Children /\ Running' \subseteq Running
  /\ \A p \in Pids : /\ proc'[p].job = proc[p].job
                     /\ proc'[p].in = proc[p].in /\ proc'[p].out = proc[p].out

\* Processes that stay as they are harm nobody.
LEMMA SameHarmless ==
  ASSUME Typed, UNCHANGED proc
  PROVE  Harmless
BY DEF Typed, Harmless, Children, Running, Zombies

\* Without a writer a pipe is still a set of processes.
LEMMA WithoutWriterType ==
  ASSUME Typed, NEW h, NEW k
  PROVE  WithoutWriter(h, k) \in Seq(PipeSet) /\ Len(WithoutWriter(h, k)) = Len(pipe)
<1>1. pipe \in Seq(PipeSet) /\ Len(pipe) \in Nat /\ DOMAIN pipe = 1..Len(pipe)
  BY LenProperties DEF Typed
<1>2. PICK r : r = [pipe[k] EXCEPT !.writers = pipe[k].writers \ {h}]
  OBVIOUS
<1>3. WithoutWriter(h, k) = [pipe EXCEPT ![k] = r]
  BY <1>2 DEF WithoutWriter
<1>4. CASE k \in DOMAIN pipe
  <2>1. pipe[k] \in PipeSet
    BY <1>1, <1>4
  <2>2. r \in PipeSet
    BY <1>2, <2>1 DEF PipeSet
  <2> QED BY <1>1, <1>3, <1>4, <2>2, ExceptSeq
<1>5. CASE k \notin DOMAIN pipe
  <2>1. [pipe EXCEPT ![k] = r] = pipe
    BY <1>1, <1>5
  <2> QED BY <1>1, <1>3, <2>1
<1> QED BY <1>4, <1>5

\* What a process does by itself: it starts no child of the shell, and reaps none.
LEMMA ProcessHarmless ==
  ASSUME Typed, NEW p \in Pids, ProcessStep(p)
  PROVE  Harmless /\ pipe' \in Seq(PipeSet) /\ Len(pipe') = Len(pipe)
<1>1. /\ proc \in [Pids -> Procs] /\ pipe \in Seq(PipeSet) /\ Len(pipe) \in Nat
      /\ DOMAIN pipe = 1..Len(pipe)
  BY LenProperties DEF Typed
<1> DEFINE Alike(r, s) == /\ s \in Procs /\ s.job = r.job /\ s.in = r.in /\ s.out = r.out
                          /\ (s.state = "free" <=> r.state = "free")
                          /\ (s.state = "running" => r.state = "running")
<1>2. ASSUME NEW s \in Procs, Alike(proc[p], s), proc' = [proc EXCEPT ![p] = s]
      PROVE  Harmless
  <2>1. proc' \in [Pids -> Procs] /\ \A q \in Pids : Alike(proc[q], proc'[q])
    BY <1>1, <1>2
  <2>2. \A q \in Pids : proc[q].state \in {"free", "running", "zombie"}
                        /\ proc'[q].state \in {"free", "running", "zombie"}
    BY <1>1, <2>1 DEF Procs
  <2> QED BY <2>1, <2>2 DEF Harmless, Children, Running, Zombies
<1>3. ASSUME NEW k, NEW r \in PipeSet, k \in DOMAIN pipe => pipe' = [pipe EXCEPT ![k] = r],
             k \notin DOMAIN pipe => pipe' = pipe
      PROVE  pipe' \in Seq(PipeSet) /\ Len(pipe') = Len(pipe)
  BY <1>1, <1>3, ExceptSeq
<1>4. CASE Write(p)
  <2>1. PICK k : k = proc[p].out
    OBVIOUS
  <2>2. /\ pipe' = [pipe EXCEPT ![k].held = pipe[k].held + 1]
        /\ proc' = [proc EXCEPT ![p].left = proc[p].left - 1] /\ proc[p].left > 0
    BY <1>4, <2>1 DEF Write
  <2>3. Harmless
    <3>1. proc[p] \in Procs /\ proc[p].left - 1 \in Nat
      BY <1>1, <2>2 DEF Procs
    <3>2. PICK s : s = [proc[p] EXCEPT !.left = proc[p].left - 1]
      OBVIOUS
    <3>3. s \in Procs /\ Alike(proc[p], s)
      BY <3>1, <3>2 DEF Procs
    <3>4. proc' = [proc EXCEPT ![p] = s]
      BY <2>2, <3>2
    <3> QED BY <1>2, <3>3, <3>4
  <2>4. CASE k \in DOMAIN pipe
    <3>1. pipe[k] \in PipeSet
      BY <1>1, <2>4
    <3>2. PICK r : r = [pipe[k] EXCEPT !.held = pipe[k].held + 1]
      OBVIOUS
    <3>3. r \in PipeSet
      BY <3>1, <3>2 DEF PipeSet
    <3>4. pipe' = [pipe EXCEPT ![k] = r]
      BY <2>2, <3>2
    <3> QED BY <1>3, <2>3, <2>4, <3>3, <3>4
  <2>5. CASE k \notin DOMAIN pipe
    <3>1. pipe' = pipe
      BY <1>1, <2>2, <2>5
    <3> QED BY <1>1, <2>3, <3>1
  <2> QED BY <2>4, <2>5
<1>5. CASE Read(p)
  <2>1. PICK k : k = proc[p].in
    OBVIOUS
  <2>2. PICK n \in {0, 1} : n = IF proc[p].out = NoPipe THEN 0 ELSE 1
    OBVIOUS
  <2>3. /\ pipe' = [pipe EXCEPT ![k].held = pipe[k].held - 1]
        /\ proc' = [proc EXCEPT ![p].left = n]
    BY <1>5, <2>1, <2>2 DEF Read
  <2>4. Harmless
    <3>1. PICK s : s = [proc[p] EXCEPT !.left = n]
      OBVIOUS
    <3>2. proc[p] \in Procs
      BY <1>1
    <3>3. s \in Procs /\ Alike(proc[p], s)
      BY <3>1, <3>2 DEF Procs
    <3>4. proc' = [proc EXCEPT ![p] = s]
      BY <2>3, <3>1
    <3> QED BY <1>2, <3>3, <3>4
  <2>5. CASE k \in DOMAIN pipe
    <3>1. pipe[k] \in PipeSet
      BY <1>1, <2>5
    <3>2. PICK r : r = [pipe[k] EXCEPT !.held = pipe[k].held - 1]
      OBVIOUS
    <3>3. r \in PipeSet
      BY <3>1, <3>2 DEF PipeSet
    <3>4. pipe' = [pipe EXCEPT ![k] = r]
      BY <2>3, <3>2
    <3> QED BY <1>3, <2>4, <2>5, <3>3, <3>4
  <2>6. CASE k \notin DOMAIN pipe
    <3>1. pipe' = pipe
      BY <1>1, <2>3, <2>6
    <3> QED BY <1>1, <2>4, <3>1
  <2> QED BY <2>5, <2>6
<1>6. CASE Exit(p)
  <2>1. PICK k : k = proc[p].out
    OBVIOUS
  <2>2. /\ proc' = [proc EXCEPT ![p].state = "zombie"] /\ p \in Running
        /\ pipe' = IF k = NoPipe THEN pipe ELSE WithoutWriter(p, k)
    BY <1>6, <2>1 DEF Exit
  <2>3. Harmless
    <3>1. PICK s : s = [proc[p] EXCEPT !.state = "zombie"]
      OBVIOUS
    <3>2. proc[p] \in Procs /\ proc[p].state = "running"
      BY <1>1, <2>2 DEF Running
    <3>3. s \in Procs /\ Alike(proc[p], s)
      BY <3>1, <3>2 DEF Procs
    <3>4. proc' = [proc EXCEPT ![p] = s]
      BY <2>2, <3>1
    <3> QED BY <1>2, <3>3, <3>4
  <2>4. pipe' \in Seq(PipeSet) /\ Len(pipe') = Len(pipe)
    BY <1>1, <2>2, WithoutWriterType DEF Typed
  <2> QED BY <2>3, <2>4
<1> QED BY <1>4, <1>5, <1>6 DEF ProcessStep

\* A signal only ends processes.
LEMMA KilledHarmless ==
  ASSUME Typed, NEW P, proc' = Killed(P)
  PROVE  Harmless
<1>1. proc \in [Pids -> Procs]
  BY DEF Typed
<1>2. ASSUME NEW p \in Pids
      PROVE  /\ proc'[p] \in Procs /\ proc'[p].state = proc[p].state /\ proc'[p].job = proc[p].job
             /\ proc'[p].in = proc[p].in /\ proc'[p].out = proc[p].out
  <2>1. proc[p] \in Procs
    BY <1>1
  <2>2. proc'[p] = proc[p] \/ proc'[p] = [proc[p] EXCEPT !.does = "idle", !.left = 0]
    BY DEF Killed
  <2>3. PICK s : s = [proc[p] EXCEPT !.does = "idle", !.left = 0]
    OBVIOUS
  <2>4. s \in Procs /\ s.state = proc[p].state /\ s.job = proc[p].job
        /\ s.in = proc[p].in /\ s.out = proc[p].out
    BY <2>1, <2>3 DEF Procs, Kinds
  <2> QED BY <2>1, <2>2, <2>3, <2>4
<1>3. proc' \in [Pids -> Procs]
  BY <1>2 DEF Killed
<1> QED BY <1>2, <1>3 DEF Harmless, Children, Running, Zombies

\* A free slot of the process table is a process.
LEMMA FreeType == Free \in Procs /\ Free.state = "free"
BY DEF Free, Procs, NoPipe, Kinds

\* Reaping a zombie takes this one child away.
LEMMA ReapedOne ==
  ASSUME Typed, NEW z \in Zombies, proc' = Reaped({z})
  PROVE  /\ proc' \in [Pids -> Procs] /\ Children' = Children \ {z} /\ Running' = Running
         /\ \A p \in Pids \ {z} : proc'[p] = proc[p]
<1>1. proc \in [Pids -> Procs] /\ z \in Pids /\ proc[z].state = "zombie"
  BY DEF Typed, Zombies
<1>2. \A p \in Pids : proc'[p] = IF p = z THEN Free ELSE proc[p]
  BY DEF Reaped
<1>3. proc' \in [Pids -> Procs]
  BY <1>1, <1>2, FreeType DEF Reaped
<1>4. proc'[z].state = "free" /\ \A p \in Pids \ {z} : proc'[p] = proc[p]
  BY <1>1, <1>2, FreeType
<1>5. \A p \in Pids : /\ p \in Children' <=> p \in Children /\ p # z
                      /\ p \in Running' <=> p \in Running
  BY <1>1, <1>4 DEF Children, Running, Zombies
<1>6. Children' \subseteq Pids /\ Children \subseteq Pids /\ Running' \subseteq Pids /\ Running \subseteq Pids
  BY DEF Children, Running, Zombies
<1>7. Children' = Children \ {z}
  BY <1>5, <1>6
<1>8. Running' = Running
  BY <1>5, <1>6
<1> QED BY <1>3, <1>4, <1>7, <1>8

\* What waitpid finds of a child, whether it hangs or not.
LEMMA WaitpidFinds ==
  ASSUME NEW p \in Children, p # NoPid
  PROVE  /\ ~ NoSuchChild(p) /\ Reapable(p) = {p} \intersect Zombies
         /\ StillRuns(p) <=> p \notin Zombies
         /\ Waited(p) <=> p \in Zombies
BY DEF NoSuchChild, Reapable, StillRuns, Waited

\* A process that starts adds this one child.
LEMMA StartedOne ==
  ASSUME Typed, NEW p \in Unused, NEW s \in Procs, s.state = "running",
         proc' = [proc EXCEPT ![p] = s]
  PROVE  /\ proc' \in [Pids -> Procs] /\ Children' = Children \union {p} /\ p \notin Children
         /\ Running' = Running \union {p}
         /\ proc'[p] = s /\ \A q \in Pids \ {p} : proc'[q] = proc[q]
<1>1. proc \in [Pids -> Procs] /\ p \in Pids /\ p \notin Children
  BY DEF Typed, Unused
<1>2. proc' \in [Pids -> Procs] /\ proc'[p] = s /\ \A q \in Pids \ {p} : proc'[q] = proc[q]
  BY <1>1
<1>3. \A q \in Pids : /\ q \in Children' <=> q \in Children \/ q = p
                      /\ q \in Running' <=> q \in Running \/ q = p
  BY <1>1, <1>2 DEF Children, Running, Zombies
<1>4. Children' \subseteq Pids /\ Children \subseteq Pids /\ Running' \subseteq Pids /\ Running \subseteq Pids
  BY DEF Children, Running, Zombies
<1>5. Children' = Children \union {p}
  BY <1>1, <1>3, <1>4
<1>6. Running' = Running \union {p}
  BY <1>1, <1>3, <1>4
<1> QED BY <1>1, <1>2, <1>5, <1>6

\* A list keeps what it owns through a harmless step, and no job comes alive.
LEMMA HarmlessOwn ==
  ASSUME Harmless
  PROVE  /\ \A q, id : Own(q, id) => Own(q, id)'
         /\ \A id : Alive(id)' => Alive(id)
<1>1. Children' = Children /\ Running' \subseteq Running /\ \A p \in Pids : proc'[p].job = proc[p].job
  BY DEF Harmless
<1>2. Children \subseteq Pids /\ Running \subseteq Pids
  BY DEF Children, Running, Zombies
<1>3. ASSUME NEW q, NEW id, Own(q, id)  PROVE Own(q, id)'
  BY <1>1, <1>2, <1>3 DEF Own
<1>4. ASSUME NEW id, Alive(id)'  PROVE Alive(id)
  BY <1>1, <1>2, <1>4 DEF Alive
<1> QED BY <1>3, <1>4
-----------------------------------------------------------------------------
\* The inductive invariant, action by action.

\* The shell starts with no jobs and no children.
LEMMA InitInv == Init => ShellInv
<1> SUFFICES ASSUME Init  PROVE ShellInv
  OBVIOUS
<1> USE DEF Init
<1>1. Children = {} /\ Running = {} /\ Jobs = {}
  BY FreeType DEF ProcInit, Children, Running, Zombies, Jobs
<1>2. NoJob \in JobSet /\ current_job = NoJob /\ NoJob.pid_q = <<>>
  BY DEF NoJob, JobSet
<1>3. Typed
  BY <1>2, FreeType DEF Typed, ProcInit, NoPipe
<1>4. Phases /\ InOrder
  BY <1>1, <1>2 DEF Phases, InOrder, Unchecked
<1>5. AllOwn /\ NoneLost
  BY <1>1 DEF AllOwn, Own, NoneTwice, NoneLost
<1>6. Reported /\ OverKept
  BY <1>1 DEF Reported, OverKept, ToSet
<1> QED BY <1>3, <1>4, <1>5, <1>6 DEF ShellInv

\* A step that does no harm and leaves the jobs alone keeps the lists right,
\* whatever it does with the line, if the line's list is right.
LEMMA Frame ==
  ASSUME ShellInv, Harmless, UNCHANGED <<job_q, current_job, job_number, completed>>,
         Own(pid_q, LineJob)', \A p : On(pid_q, p) => On(pid_q', p)
  PROVE  AllOwn' /\ NoneLost' /\ Reported'
<1>1. Jobs' = Jobs
  BY DEF Jobs
<1>2. AllOwn'
  <2>1. \A job \in Jobs : Own(job.pid_q, job.job_id)'
    BY HarmlessOwn DEF ShellInv, AllOwn
  <2>2. \A job \in Jobs' : Own(job.pid_q, job.job_id)'
    BY <1>1, <2>1
  <2> QED BY <2>2 DEF AllOwn
<1>3. NoneLost'
  BY <1>1 DEF ShellInv, Harmless, NoneLost
<1>4. Reported'
  BY <1>1 DEF ShellInv, Reported
<1> QED BY <1>2, <1>3, <1>4

\* A step that leaves the order of the queue alone.
LEMMA OrderFrame ==
  ASSUME InOrder, UNCHANGED <<job_q, current_job, left, job_number>>
  PROVE  InOrder' /\ Unchecked' = Unchecked
<1>1. Jobs' = Jobs /\ Unchecked' = Unchecked
  BY DEF Jobs, Unchecked
<1> QED BY <1>1 DEF InOrder

\* The line's list stays right as long as it is the same line's.
LEMMA SameLine ==
  ASSUME ShellInv, Harmless, UNCHANGED <<script, pid_q, job_number>>
  PROVE  Own(pid_q, LineJob)'
<1>1. LineJob' = LineJob
  BY DEF LineJob, Background
<1>2. PICK q, id : q = pid_q /\ id = LineJob
  OBVIOUS
<1>3. Own(q, id)'
  BY <1>1, <1>2, HarmlessOwn DEF ShellInv, AllOwn
<1> QED BY <1>1, <1>2, <1>3 DEF Own

\* A process running, writing or ending leaves the shell's lists alone.
LEMMA ProcessInv ==
  ASSUME ShellInv, NEW p \in Pids, ProcessStep(p), UNCHANGED shellVars
  PROVE  ShellInv'
<1> USE DEF shellVars, lineVars, checkVars
<1>1. Harmless /\ pipe' \in Seq(PipeSet)
  BY ProcessHarmless DEF ShellInv
<1>2. Typed'
  BY <1>1 DEF ShellInv, Typed, Harmless
<1>3. Phases'
  BY DEF ShellInv, Phases, Unchecked, Background
<1>4. InOrder' /\ Unchecked' = Unchecked
  BY OrderFrame DEF ShellInv
<1>5. AllOwn' /\ NoneLost' /\ Reported'
  <2>1. Own(pid_q, LineJob)'
    BY <1>1, SameLine
  <2> QED BY <1>1, <2>1, Frame
<1>6. OverKept'
  BY <1>1, <1>4, HarmlessOwn DEF ShellInv, OverKept
<1> QED BY <1>2, <1>3, <1>4, <1>5, <1>6 DEF ShellInv

\* A stutter changes nothing the invariant reads.
LEMMA StutterInv ==
  ASSUME ShellInv, UNCHANGED vars
  PROVE  ShellInv'
<1> USE DEF vars, shellVars, lineVars, checkVars
<1>1. Jobs' = Jobs /\ Children' = Children /\ Running' = Running /\ Unchecked' = Unchecked
      /\ LineJob' = LineJob
  BY DEF Jobs, Children, Running, Zombies, Unchecked, LineJob, Background
<1>2. Typed'
  BY DEF ShellInv, Typed
<1>3. Phases' /\ InOrder' /\ Reported'
  BY <1>1 DEF ShellInv, Phases, InOrder, Reported, Background
<1>4. AllOwn' /\ NoneLost'
  BY <1>1 DEF ShellInv, AllOwn, Own, NoneLost
<1>5. OverKept'
  BY <1>1 DEF ShellInv, OverKept, Alive
<1> QED BY <1>2, <1>3, <1>4, <1>5 DEF ShellInv

\* A line is taken up when no child of an earlier one is in hand.
LEMMA run_scriptInv ==
  ASSUME ShellInv, NEW line \in Lines, run_script(line)
  PROVE  ShellInv'
<1> USE DEF run_script
<1>1. Harmless
  BY SameHarmless DEF ShellInv
<1>2. line \in Seq(Command) /\ line # <<>>
  BY LinesAssumption
<1>3. Linked(script') /\ script' \in Seq(Holders)
  BY <1>2, CmdsLinked DEF Linked
<1>4. /\ current_job = NoJob /\ left = 0 /\ num = 0
      /\ Len(job_q) \in Nat /\ job_q \in Seq(JobSet)
  BY LenProperties DEF ShellInv, Phases, Typed
<1>5. over' \in SUBSET (1..(job_number - 1)) /\ \A id \in over' : ~ Alive(id)
  <2>1. \A k \in 1..Len(job_q) : job_q[k].job_id \in 1..(job_number - 1)
    BY DEF ShellInv, InOrder, Jobs
  <2> QED BY <2>1 DEF JobIds
<1>6. Typed'
  BY <1>3, <1>4, <1>5 DEF ShellInv, Typed, JobsToCheck
<1>7. Phases' /\ Unchecked' = Len(job_q)
  BY <1>3, <1>4, EmptySeq DEF ShellInv, Phases, Unchecked, JobsToCheck
<1>8. InOrder'
  <2>1. Jobs' = Jobs /\ Unchecked = 0
    BY <1>4 DEF Jobs, Unchecked
  <2>2. \A k, n \in 1..Len(job_q) : k < n => job_q[k].job_id < job_q[n].job_id
    BY <1>4, <2>1 DEF ShellInv, InOrder
  <2> QED BY <1>4, <1>7, <2>1, <2>2 DEF ShellInv, InOrder
<1>9. AllOwn' /\ NoneLost' /\ Reported'
  <2>1. Own(pid_q, LineJob)'
    BY DEF Own, NoneTwice
  <2>2. pid_q = <<>>
    BY DEF ShellInv, Phases
  <2> QED BY <1>1, <2>1, <2>2, Frame
<1>10. OverKept'
  <2>1. ASSUME NEW id \in over'  PROVE \E k \in 1..Unchecked' : job_q'[k].job_id = id
    BY <1>7, <2>1 DEF JobIds
  <2>2. \A id \in over' : ~ Alive(id)'
    BY <1>1, <1>5, HarmlessOwn
  <2> QED BY <1>5, <2>1, <2>2 DEF OverKept
<1> QED BY <1>6, <1>7, <1>8, <1>9, <1>10 DEF ShellInv

\* A step of the shell that leaves the processes and its lists as they are.
LEMMA QuietStep ==
  ASSUME ShellInv, UNCHANGED <<proc, pipe, script, over, checkVars, i, pipes, pid_q, job_q,
                               job_number, completed>>,
         Phases', pc' \in {"parse", "create", "exited"},
         pc' = "create" => over \subseteq ToSet(completed)
  PROVE  ShellInv'
<1> USE DEF checkVars
<1>1. Harmless
  BY SameHarmless DEF ShellInv
<1>2. Typed'
  BY DEF ShellInv, Typed
<1>3. InOrder' /\ Unchecked' = Unchecked
  BY OrderFrame DEF ShellInv
<1>4. AllOwn' /\ NoneLost' /\ Reported'
  <2>1. Own(pid_q, LineJob)'
    BY <1>1, SameLine
  <2> QED BY <1>1, <2>1, Frame
<1>5. OverKept'
  BY <1>1, HarmlessOwn DEF ShellInv, OverKept
<1> QED BY <1>2, <1>3, <1>4, <1>5 DEF ShellInv

\* The end of the input, of the main loop and of a wait leave everything else alone.
LEMMA ReturnsInv ==
  ASSUME ShellInv, EndOfInput \/ Return \/ WaitDone
  PROVE  ShellInv'
<1>1. UNCHANGED <<proc, pipe, script, over, checkVars, i, pipes, pid_q, job_q, job_number, completed>>
  BY DEF EndOfInput, Return, WaitDone, lineVars, checkVars
<1>2. Phases' /\ pc' \in {"parse", "exited"}
  <2>1. CASE EndOfInput
    BY <2>1 DEF EndOfInput, ShellInv, Phases, Unchecked, checkVars
  <2>2. CASE Return
    BY <2>2 DEF Return, ShellInv, Phases, Unchecked, lineVars, checkVars
  <2>3. CASE WaitDone
    BY <2>3 DEF WaitDone, ShellInv, Phases, Unchecked, lineVars, checkVars
  <2> QED BY <2>1, <2>2, <2>3
<1> QED BY <1>1, <1>2, QuietStep

\* When no job is left to check, every job that is over has been reported.
LEMMA CheckedInv ==
  ASSUME ShellInv, Checked
  PROVE  ShellInv'
<1> USE DEF Checked
<1>1. UNCHANGED <<proc, pipe, script, over, checkVars, i, pipes, pid_q, job_q, job_number, completed>>
      /\ pc' \in {"parse", "create"}
  OBVIOUS
<1>2. Phases'
  <2>1. Len(script) \in Nat /\ pid_q = <<>> /\ i = 0 /\ Linked(script)
    BY LenProperties DEF ShellInv, Typed, Phases
  <2> QED BY <2>1, <1>1 DEF ShellInv, Phases, Unchecked, checkVars
<1>3. over \subseteq ToSet(completed)
  <2>1. Unchecked = 0
    BY DEF Unchecked
  <2> QED BY <2>1 DEF ShellInv, OverKept
<1> QED BY <1>1, <1>2, <1>3, QuietStep

\* After a fork the shell closes its write end, and may signal a job (Parent).
LEMMA ParentInv ==
  ASSUME ShellInv, Parent
  PROVE  ShellInv'
<1> USE DEF Parent, lineVars, checkVars
<1>1. Harmless
  BY KilledHarmless, SameHarmless DEF ShellInv
<1>2. pipe' \in Seq(PipeSet)
  BY WithoutWriterType DEF CloseWriteEnd, ShellInv, Typed
<1>3. Typed'
  BY <1>1, <1>2 DEF ShellInv, Typed, Harmless
<1>4. Phases'
  BY DEF ShellInv, Phases, Typed, Unchecked, Background
<1>5. InOrder' /\ Unchecked' = Unchecked
  BY OrderFrame DEF ShellInv
<1>6. AllOwn' /\ NoneLost' /\ Reported'
  <2>1. Own(pid_q, LineJob)'
    BY <1>1, SameLine
  <2> QED BY <1>1, <2>1, Frame
<1>7. OverKept'
  BY <1>1, HarmlessOwn DEF ShellInv, OverKept
<1> QED BY <1>3, <1>4, <1>5, <1>6, <1>7 DEF ShellInv

\* What Fork does when fork does not fail.
LEMMA ForkStep ==
  ASSUME ShellInv, ~ ForkMayFail, Fork
  PROVE  /\ pipes' \in [0..1 -> Nat] /\ pipe' \in Seq(PipeSet)
         /\ IF Has("PIPE_OUT")
            THEN pipes' = [pipes EXCEPT ![i % 2] = Len(pipe) + 1] /\ Len(pipe') = Len(pipe) + 1
            ELSE pipes' = pipes /\ Len(pipe') = Len(pipe)
         /\ \E p \in Unused, s \in Procs :
              /\ s.state = "running" /\ s.job = LineJob
              /\ s.in = Stdin(pipes') /\ s.out = Stdout(pipes')
              /\ proc' = [proc EXCEPT ![p] = s]
              /\ pid_q' = Append(pid_q, p)
<1> DEFINE k == Len(pipe) + 1
           ps == IF Has("PIPE_OUT") THEN [pipes EXCEPT ![i % 2] = k] ELSE pipes
           made(W) == IF Has("PIPE_OUT") THEN Append(pipe, [held |-> 0, writers |-> W]) ELSE pipe
           start == Started(child_run_command(Holder.cmd), Stdin(ps), Stdout(ps), LineJob)
<1>1. /\ pipes' = ps
      /\ \E p \in Unused :
           /\ proc' = [proc EXCEPT ![p] = start]
           /\ pipe' = made({Shell} \union (IF Stdout(ps) = k THEN {p} ELSE {}))
           /\ pid_q' = Append(pid_q, p)
  BY DEF Fork, LineJob
<1>2. PICK p \in Unused :
           /\ proc' = [proc EXCEPT ![p] = start]
           /\ pipe' = made({Shell} \union (IF Stdout(ps) = k THEN {p} ELSE {}))
           /\ pid_q' = Append(pid_q, p)
  BY <1>1
<1>3. /\ pipe \in Seq(PipeSet) /\ Len(pipe) \in Nat /\ k \in Nat /\ pipes \in [0..1 -> Nat]
      /\ i \in Nat /\ i % 2 \in 0..1 /\ (i + 1) % 2 \in 0..1 /\ job_number \in Nat
      /\ p \in Pids /\ script \in Seq(Holders) /\ i + 1 \in 1..Len(script)
  BY LenProperties DEF ShellInv, Typed, Fork, Unused
<1>4. ps \in [0..1 -> Nat]
  BY <1>3
<1>5. Holder \in Holders
  BY <1>3, ElementOfSeq DEF Holder
<1>6. child_run_command(Holder.cmd) \in Kinds
  <2>1. Holder.cmd \in Program
    BY <1>5 DEF Holders
  <2> QED BY <2>1 DEF child_run_command, Program, Kinds
<1>7. Stdin(ps) \in Nat /\ Stdout(ps) \in Nat
  BY <1>3, <1>4 DEF Stdin, Stdout, ReadEnd, NoPipe
<1>8. ASSUME NEW does \in Kinds, NEW in \in Nat, NEW out \in Nat, NEW job \in Nat
      PROVE  /\ Started(does, in, out, job) \in Procs
             /\ Started(does, in, out, job).state = "running"
             /\ Started(does, in, out, job).job = job
             /\ Started(does, in, out, job).in = in
             /\ Started(does, in, out, job).out = out
  BY PipesAssumption DEF Started, Procs
<1>9. LineJob \in Nat
  BY <1>3 DEF LineJob
<1> HIDE DEF ps
<1>10. PICK s : s = start
  OBVIOUS
<1>11. s \in Procs /\ s.state = "running" /\ s.job = LineJob /\ s.in = Stdin(ps) /\ s.out = Stdout(ps)
  <2>1. PICK does \in Kinds : does = child_run_command(Holder.cmd)
    BY <1>6
  <2>2. PICK in \in Nat, out \in Nat, job \in Nat : in = Stdin(ps) /\ out = Stdout(ps) /\ job = LineJob
    BY <1>7, <1>9
  <2>3. s = Started(does, in, out, job)
    BY <1>10, <2>1, <2>2
  <2> QED BY <1>8, <2>2, <2>3
<1>12. pipe' \in Seq(PipeSet) /\ Len(pipe') = IF Has("PIPE_OUT") THEN k ELSE Len(pipe)
  <2>1. PICK W \in SUBSET (Pids \union {Shell}) : W = {Shell} \union (IF Stdout(ps) = k THEN {p} ELSE {})
    BY <1>3
  <2>2. [held |-> 0, writers |-> W] \in PipeSet
    BY DEF PipeSet
  <2>3. PICK r \in PipeSet : r = [held |-> 0, writers |-> W]
    BY <2>2
  <2>4. pipe' = IF Has("PIPE_OUT") THEN Append(pipe, r) ELSE pipe
    BY <1>2, <2>1, <2>3
  <2> QED BY <1>3, <2>4, AppendProperties
<1>13. Stdin(pipes') = Stdin(ps) /\ Stdout(pipes') = Stdout(ps)
  BY <1>1 DEF Stdin, Stdout, ReadEnd
<1> QED BY <1>1, <1>2, <1>3, <1>4, <1>10, <1>11, <1>12, <1>13 DEF ps

\* Fork puts the new child at the end of the list of the line, and nowhere else.
LEMMA ForkInv ==
  ASSUME ShellInv, ~ ForkMayFail, Fork
  PROVE  ShellInv'
<1>1. /\ pc = "create" /\ pc' = "parent" /\ i < Len(script)
      /\ UNCHANGED <<lineVars, checkVars, i, job_q, job_number, completed>>
  BY DEF Fork
<1> USE DEF lineVars, checkVars
<1>2. PICK p \in Unused, s \in Procs :
              /\ s.state = "running" /\ s.job = LineJob
              /\ proc' = [proc EXCEPT ![p] = s]
              /\ pid_q' = Append(pid_q, p)
  BY ForkStep
<1>3. /\ proc' \in [Pids -> Procs] /\ Children' = Children \union {p} /\ p \notin Children
      /\ Running' = Running \union {p} /\ p \in Pids
      /\ proc'[p] = s /\ \A q \in Pids \ {p} : proc'[q] = proc[q]
  BY <1>2, StartedOne DEF ShellInv, Unused
<1>4. /\ pid_q \in Seq(Pids) /\ Len(pid_q) \in Nat /\ pid_q' \in Seq(Pids)
      /\ Len(pid_q') = Len(pid_q) + 1 /\ pid_q'[Len(pid_q) + 1] = p
      /\ \A k \in 1..Len(pid_q) : pid_q'[k] = pid_q[k]
  BY <1>2, <1>3, LenProperties, AppendProperties DEF ShellInv, Typed
<1>5. Jobs' = Jobs /\ LineJob' = LineJob /\ Children \subseteq Pids /\ Running \subseteq Pids
  BY <1>1 DEF Jobs, LineJob, Background, Children, Running, Zombies
<1>6. Typed'
  BY <1>1, <1>3, <1>4, ForkStep DEF ShellInv, Typed
<1>7. Phases'
  BY <1>1, <1>4 DEF ShellInv, Phases, Unchecked
<1>8. InOrder' /\ Unchecked' = Unchecked
  BY <1>1, OrderFrame DEF ShellInv
<1>9. AllOwn'
  <2>1. ASSUME NEW q, NEW id, Own(q, id)  PROVE Own(q, id)'
    BY <1>3, <1>5, <2>1 DEF Own
  <2>2. \A job \in Jobs' : Own(job.pid_q, job.job_id)'
    BY <1>5, <2>1 DEF ShellInv, AllOwn
  <2>3. Own(pid_q, LineJob)
    BY DEF ShellInv, AllOwn
  <2>4. NoneTwice(pid_q)'
    <3>1. ASSUME NEW k \in 1..Len(pid_q'), NEW n \in 1..Len(pid_q'), pid_q'[k] = pid_q'[n]
          PROVE  k = n
      BY <1>3, <1>4, <2>3, <3>1 DEF Own, NoneTwice
    <3> QED BY <3>1 DEF NoneTwice
  <2>5. ASSUME NEW k \in 1..Len(pid_q')
        PROVE  pid_q'[k] \in Children' /\ proc'[pid_q'[k]].job = LineJob
    BY <1>2, <1>3, <1>4, <1>5, <2>3 DEF Own
  <2>6. Own(pid_q, LineJob)'
    BY <1>5, <2>4, <2>5 DEF Own
  <2> QED BY <2>2, <2>6 DEF AllOwn
<1>10. NoneLost'
  <2>1. ASSUME NEW q \in Children'  PROVE On(pid_q', q) \/ \E job \in Jobs : On(job.pid_q, q)
    <3>1. CASE q = p
      BY <1>4, <3>1 DEF On
    <3>2. CASE q \in Children
      <4>1. On(pid_q, q) => On(pid_q', q)
        BY <1>4 DEF On
      <4> QED BY <3>2, <4>1 DEF ShellInv, NoneLost
    <3> QED BY <1>3, <3>1, <3>2
  <2> QED BY <1>5, <2>1 DEF NoneLost
<1>11. Reported'
  BY <1>1, <1>5 DEF ShellInv, Reported
<1>12. OverKept'
  <2>1. ASSUME NEW id \in over  PROVE ~ Alive(id)'
    <3>1. id \in 1..(job_number - 1) /\ ~ Alive(id) /\ job_number \in Nat
      BY DEF ShellInv, OverKept, Typed
    <3>2. id # LineJob
      BY <3>1 DEF LineJob
    <3> QED BY <1>2, <1>3, <1>5, <3>1, <3>2 DEF Alive
  <2> QED BY <1>1, <2>1 DEF ShellInv, OverKept
<1> QED BY <1>6, <1>7, <1>8, <1>9, <1>10, <1>11, <1>12 DEF ShellInv

\* The first element leaves a list.
LEMMA TailOn ==
  ASSUME NEW S, NEW q \in Seq(S), q # <<>>
  PROVE  /\ Head(q) \in S /\ Head(q) = q[1] /\ Tail(q) \in Seq(S) /\ Len(Tail(q)) = Len(q) - 1
         /\ Len(q) \in Nat \ {0}
         /\ \A k \in 1..Len(Tail(q)) : Tail(q)[k] = q[k + 1]
         /\ \A p : On(q, p) <=> p = Head(q) \/ On(Tail(q), p)
         /\ NoneTwice(q) => NoneTwice(Tail(q)) /\ ~ On(Tail(q), Head(q))
<1>1. Len(q) \in Nat \ {0} /\ Head(q) = q[1]
  BY EmptySeq
<1>2. PICK t : t = Tail(q)
  OBVIOUS
<1>3. Head(q) \in S /\ t \in Seq(S) /\ Len(t) = Len(q) - 1 /\ \A k \in 1..Len(t) : t[k] = q[k + 1]
  BY <1>2, HeadTailProperties
<1>4. ASSUME NEW p  PROVE On(q, p) <=> p = Head(q) \/ On(t, p)
  <2>1. ASSUME On(q, p), p # Head(q)  PROVE On(t, p)
    <3>1. PICK k \in 1..Len(q) : q[k] = p
      BY <2>1 DEF On
    <3>2. k - 1 \in 1..Len(t) /\ t[k - 1] = p
      BY <1>1, <1>3, <2>1, <3>1
    <3> QED BY <3>2 DEF On
  <2>2. ASSUME On(t, p)  PROVE On(q, p)
    <3>1. PICK k \in 1..Len(t) : t[k] = p
      BY <2>2 DEF On
    <3>2. k + 1 \in 1..Len(q) /\ q[k + 1] = p
      BY <1>1, <1>3, <3>1
    <3> QED BY <3>2 DEF On
  <2>3. 1 \in 1..Len(q)
    BY <1>1
  <2> QED BY <1>1, <2>1, <2>2, <2>3 DEF On
<1>5. ASSUME NoneTwice(q)  PROVE NoneTwice(t) /\ ~ On(t, Head(q))
  <2>1. \A k \in 1..Len(t) : k + 1 \in 1..Len(q) /\ t[k] = q[k + 1]
    BY <1>1, <1>3
  <2>2. 1 \in 1..Len(q) /\ Head(q) = q[1]
    BY <1>1
  <2>3. NoneTwice(t)
    <3>1. \A k, m \in 1..Len(t) : t[k] = t[m] => k + 1 = m + 1
      BY <1>5, <2>1 DEF NoneTwice
    <3> QED BY <1>1, <3>1 DEF NoneTwice
  <2>4. ~ On(t, Head(q))
    <3>1. \A k \in 1..Len(t) : t[k] = q[1] => k + 1 = 1
      BY <1>5, <2>1, <2>2 DEF NoneTwice
    <3> QED BY <1>1, <2>2, <3>1 DEF On
  <2> QED BY <2>3, <2>4
<1> QED BY <1>1, <1>2, <1>3, <1>4, <1>5

\* One more element comes last.
LEMMA AppendOn ==
  ASSUME NEW S, NEW q \in Seq(S), NEW x \in S
  PROVE  /\ Append(q, x) \in Seq(S) /\ Len(q) \in Nat /\ Len(Append(q, x)) = Len(q) + 1
         /\ Append(q, x)[Len(q) + 1] = x /\ \A k \in 1..Len(q) : Append(q, x)[k] = q[k]
         /\ \A p : On(Append(q, x), p) <=> p = x \/ On(q, p)
         /\ NoneTwice(q) /\ ~ On(q, x) => NoneTwice(Append(q, x))
<1>1. Len(q) \in Nat
  BY LenProperties
<1>2. PICK t : t = Append(q, x)
  OBVIOUS
<1>3. t \in Seq(S) /\ Len(t) = Len(q) + 1 /\ t[Len(q) + 1] = x /\ \A k \in 1..Len(q) : t[k] = q[k]
  BY <1>1, <1>2, AppendProperties
<1>4. ASSUME NEW p  PROVE On(t, p) <=> p = x \/ On(q, p)
  <2>1. Len(q) + 1 \in 1..Len(t) /\ \A k \in 1..Len(q) : k \in 1..Len(t)
    BY <1>1, <1>3
  <2>2. \A k \in 1..Len(t) : k \in 1..Len(q) \/ k = Len(q) + 1
    BY <1>1, <1>3
  <2> QED BY <1>3, <2>1, <2>2 DEF On
<1>5. ASSUME NoneTwice(q), ~ On(q, x)  PROVE NoneTwice(t)
  <2>1. \A k \in 1..Len(t) : k \in 1..Len(q) \/ k = Len(q) + 1
    BY <1>1, <1>3
  <2> QED BY <1>3, <1>5, <2>1 DEF NoneTwice, On
<1> QED BY <1>1, <1>2, <1>3, <1>4, <1>5

\* A list of children of one job, in terms of what is on it.
LEMMA OwnOn ==
  \A q, id : Own(q, id) <=> NoneTwice(q) /\ \A p : On(q, p) => p \in Children /\ proc[p].job = id
BY DEF Own, On

\* No job is a job without processes.
LEMMA NoJobType == NoJob \in JobSet /\ NoJob.job_id = 0 /\ NoJob.pid_q = <<>>
BY DEF NoJob, JobSet

\* A job leaves the front of the queue to be checked.
LEMMA CheckJobInv ==
  ASSUME ShellInv, CheckJob
  PROVE  ShellInv' /\ Listed' = Listed
<1> USE DEF lineVars
<1>1. /\ pc = "check" /\ current_job = NoJob /\ left > 0
      /\ current_job' = Head(job_q) /\ job_q' = Tail(job_q) /\ num' = Len(current_job'.pid_q)
      /\ UNCHANGED <<proc, pipe, lineVars, left, pc, i, pipes, pid_q, job_number, completed>>
  BY DEF CheckJob
<1>2. /\ job_q \in Seq(JobSet) /\ left \in Nat /\ Unchecked = left /\ left <= Len(job_q) /\ job_q # <<>>
  BY <1>1, EmptySeq DEF ShellInv, Typed, Phases, Unchecked
<1>3. /\ current_job' \in JobSet /\ current_job' = job_q[1] /\ job_q' \in Seq(JobSet)
      /\ Len(job_q) \in Nat \ {0} /\ Len(job_q') = Len(job_q) - 1
      /\ \A k \in 1..Len(job_q') : job_q'[k] = job_q[k + 1]
  BY <1>1, <1>2, TailOn
<1>4. current_job'.job_id \in 1..(job_number - 1) /\ current_job' # NoJob
      /\ current_job'.pid_q \in Seq(Pids) /\ Len(current_job'.pid_q) \in Nat
  <2>1. job_q[1] \in Jobs
    BY <1>3 DEF Jobs
  <2>2. current_job'.job_id \in 1..(job_number - 1)
    BY <1>3, <2>1 DEF ShellInv, InOrder
  <2>3. current_job'.pid_q \in Seq(Pids)
    BY <1>3 DEF JobSet
  <2> QED BY <2>2, <2>3, NoJobType, LenProperties
<1>5. Unchecked' = left - 1
  BY <1>1, <1>4 DEF Unchecked
<1>6. Jobs' = Jobs
  <2>1. \A k \in 1..Len(job_q) : k = 1 \/ (k - 1 \in 1..Len(job_q') /\ job_q[k] = job_q'[k - 1])
    BY <1>3
  <2>2. \A k \in 1..Len(job_q') : k + 1 \in 1..Len(job_q)
    BY <1>3
  <2>3. 1 \in 1..Len(job_q)
    BY <1>3
  <2>4. \A job : job \in Jobs <=> \E k \in 1..Len(job_q) : job = job_q[k]
    BY <1>1 DEF Jobs
  <2>5. \A job : job \in Jobs' <=> job = current_job' \/ \E k \in 1..Len(job_q') : job = job_q'[k]
    BY <1>4 DEF Jobs
  <2>6. \A job : job \in Jobs' <=> job \in Jobs
    BY <1>3, <2>1, <2>2, <2>3, <2>4, <2>5
  <2> QED BY <2>6
<1>7. Typed'
  BY <1>1, <1>3, <1>4 DEF ShellInv, Typed
<1>8. Phases'
  BY <1>1, <1>2, <1>3, <1>4, <1>5 DEF ShellInv, Phases
<1>9. InOrder'
  <2>1. \A k, n \in 1..Len(job_q) :
          k < n => IF k <= left /\ left < n THEN job_q[n].job_id < job_q[k].job_id
                   ELSE job_q[k].job_id < job_q[n].job_id
    BY <1>2 DEF ShellInv, InOrder
  <2>2. ASSUME NEW k \in 1..Len(job_q'), NEW n \in 1..Len(job_q'), k < n
        PROVE  IF k <= left - 1 /\ left - 1 < n THEN job_q'[n].job_id < job_q'[k].job_id
               ELSE job_q'[k].job_id < job_q'[n].job_id
    <3>1. k + 1 \in 1..Len(job_q) /\ n + 1 \in 1..Len(job_q) /\ k + 1 < n + 1
          /\ (k <= left - 1 <=> k + 1 <= left) /\ (left - 1 < n <=> left < n + 1)
      BY <1>2, <1>3, <2>2
    <3> QED BY <1>3, <2>1, <3>1
  <2>3. ASSUME NEW k \in 1..Len(job_q')
        PROVE  IF k <= left - 1 THEN current_job'.job_id < job_q'[k].job_id
               ELSE job_q'[k].job_id < current_job'.job_id
    <3>1. 1 \in 1..Len(job_q) /\ k + 1 \in 1..Len(job_q) /\ 1 < k + 1 /\ 1 <= left
          /\ (k <= left - 1 <=> ~ (left < k + 1))
      BY <1>1, <1>2, <1>3
    <3> QED BY <1>3, <2>1, <3>1
  <2>4. \A job \in Jobs' : job.job_id \in 1..(job_number' - 1)
    BY <1>1, <1>6 DEF ShellInv, InOrder
  <2> QED BY <1>5, <2>2, <2>3, <2>4 DEF InOrder
<1>10. Children' = Children /\ Running' = Running /\ LineJob' = LineJob
  BY <1>1 DEF Children, Running, Zombies, LineJob, Background
<1>11. AllOwn' /\ NoneLost'
  BY <1>1, <1>6, <1>10 DEF ShellInv, AllOwn, Own, NoneLost
<1>12. Reported'
  BY <1>1, <1>6 DEF ShellInv, Reported
<1>13. OverKept'
  <2>1. \A id \in over : ~ Alive(id)'
    BY <1>1, <1>10 DEF ShellInv, OverKept, Alive
  <2>2. ASSUME NEW id \in over, id \notin ToSet(completed)
        PROVE  id = current_job'.job_id \/ \E k \in 1..(left - 1) : job_q'[k].job_id = id
    <3>1. PICK k \in 1..left : job_q[k].job_id = id
      BY <1>1, <1>2, <2>2 DEF ShellInv, OverKept
    <3>2. CASE k = 1
      BY <1>3, <3>1, <3>2
    <3>3. CASE k > 1
      <4>1. k - 1 \in 1..(left - 1) /\ k - 1 \in 1..Len(job_q') /\ (k - 1) + 1 = k
        BY <1>2, <1>3, <3>3
      <4>2. job_q'[k - 1].job_id = id
        BY <1>3, <3>1, <4>1
      <4> QED BY <4>1, <4>2
    <3> QED BY <3>2, <3>3
  <2> QED BY <1>1, <1>4, <1>5, <2>1, <2>2 DEF ShellInv, OverKept
<1>14. Listed' = Listed
  BY <1>6 DEF Listed
<1> QED BY <1>7, <1>8, <1>9, <1>11, <1>12, <1>13, <1>14 DEF ShellInv

\* Reaping the child p takes it from the lists it is not on.
LEMMA ReapedOwn ==
  ASSUME Typed, NEW z \in Zombies, proc' = Reaped({z})
  PROVE  /\ \A q, id : Own(q, id) /\ ~ On(q, z) => Own(q, id)'
         /\ \A id : Alive(id)' => Alive(id)
<1>1. /\ Children' = Children \ {z} /\ Running' = Running
      /\ \A p \in Pids \ {z} : proc'[p] = proc[p]
  BY ReapedOne
<1>2. Children \subseteq Pids /\ Running \subseteq Pids /\ z \notin Running
  BY DEF Children, Running, Zombies
<1>3. ASSUME NEW q, NEW id, Own(q, id), ~ On(q, z)  PROVE Own(q, id)'
  BY <1>1, <1>2, <1>3 DEF Own, On
<1>4. ASSUME NEW id, Alive(id)'  PROVE Alive(id)
  BY <1>1, <1>2, <1>4 DEF Alive
<1> QED BY <1>3, <1>4

\* What a step of the check does with the first process number of a job: it
\* goes to the end of the list, or its process is reaped.
LEMMA CheckPidStep ==
  ASSUME ShellInv, CheckPid
  PROVE  /\ current_job # NoJob /\ current_job.pid_q # <<>>
         /\ Head(current_job.pid_q) \in Children
         /\ \/ /\ current_job' = [current_job EXCEPT !.pid_q = Append(Tail(current_job.pid_q), Head(current_job.pid_q))]
               /\ Head(current_job.pid_q) \in Running
               /\ proc' = proc
            \/ /\ current_job' = [current_job EXCEPT !.pid_q = Tail(current_job.pid_q)]
               /\ Head(current_job.pid_q) \in Zombies
               /\ proc' = Reaped({Head(current_job.pid_q)})
<1> DEFINE L == current_job.pid_q
           p == Head(L)
<1>1. pc = "check" /\ num > 0 /\ num <= Len(L) /\ num \in Nat /\ current_job # NoJob
      /\ current_job \in JobSet
  BY DEF CheckPid, ShellInv, Phases, Typed
<1>2. L \in Seq(Pids) /\ L # <<>>
  BY <1>1, EmptySeq DEF JobSet
<1>3. On(L, p) /\ p \in Pids
  BY <1>2, TailOn
<1>4. Own(L, current_job.job_id)
  <2>1. current_job \in Jobs
    BY <1>1 DEF Jobs
  <2> QED BY <2>1 DEF ShellInv, AllOwn
<1>5. p \in Children /\ p # NoPid
  BY <1>3, <1>4, PidsAssumption DEF Own, On
<1>6. PICK x : x = p
  OBVIOUS
<1>7. /\ ~ NoSuchChild(x) /\ Reapable(x) = {x} \intersect Zombies
      /\ StillRuns(x) <=> x \notin Zombies
  BY <1>5, <1>6, WaitpidFinds
<1>8. /\ current_job' = [current_job EXCEPT !.pid_q = Requeue(x, Tail(L))]
      /\ IF StillRuns(x) \/ Reapable(x) = {} THEN proc' = proc
         ELSE \E z \in Reapable(x) : proc' = Reaped({z})
  BY <1>6 DEF CheckPid
<1>9. CASE x \in Zombies
  <2>1. ~ StillRuns(x) /\ Reapable(x) = {x}
    BY <1>7, <1>9
  <2>2. proc' = Reaped({x}) /\ Requeue(x, Tail(L)) = Tail(L)
    BY <1>8, <2>1 DEF Requeue
  <2> QED BY <1>1, <1>2, <1>5, <1>6, <1>8, <1>9, <2>2
<1>10. CASE x \notin Zombies
  <2>1. StillRuns(x) /\ x \in Running
    BY <1>5, <1>6, <1>7, <1>10 DEF Children
  <2>2. proc' = proc /\ Requeue(x, Tail(L)) = Append(Tail(L), x)
    BY <1>8, <2>1 DEF Requeue
  <2> QED BY <1>1, <1>2, <1>5, <1>6, <1>8, <2>1, <2>2
<1> QED BY <1>9, <1>10

\* The job that the check holds is none of those in the queue.
LEMMA HeldApart ==
  ASSUME ShellInv, current_job # NoJob
  PROVE  \A k \in 1..Len(job_q) : job_q[k].job_id # current_job.job_id
<1>1. job_q \in Seq(JobSet) /\ current_job \in JobSet
  BY DEF ShellInv, Typed
<1>2. \A k \in 1..Len(job_q) : job_q[k] \in JobSet
  BY <1>1, ElementOfSeq
<1>3. \A k \in 1..Len(job_q) : job_q[k].job_id \in Nat
  BY <1>2 DEF JobSet
<1>4. current_job.job_id \in Nat
  BY <1>1 DEF JobSet
<1> QED BY <1>3, <1>4 DEF ShellInv, InOrder

\* Each process of the job is asked for once, and dropped only when it was reaped.
LEMMA CheckPidInv ==
  ASSUME ShellInv, CheckPid
  PROVE  ShellInv' /\ Listed' = Listed
<1> USE DEF lineVars
<1>0. PICK L, R, id0 : L = current_job.pid_q /\ R = current_job'.pid_q /\ id0 = current_job.job_id
  OBVIOUS
<1>1. /\ pc = "check" /\ num > 0 /\ num' = num - 1
      /\ UNCHANGED <<pipe, lineVars, left, m_front, pc, i, pipes, pid_q, job_q, job_number, completed>>
  BY DEF CheckPid
<1>2. current_job \in JobSet /\ current_job # NoJob /\ current_job \in Jobs
      /\ num \in Nat /\ num <= Len(L) /\ left \in Nat \ {0} /\ job_q \in Seq(JobSet)
      /\ id0 \in 1..(job_number - 1) /\ L \in Seq(Pids) /\ Own(L, id0) /\ L # <<>>
      /\ L = current_job.pid_q /\ id0 = current_job.job_id
  <2>1. current_job \in JobSet /\ current_job # NoJob /\ current_job \in Jobs
    BY CheckPidStep DEF ShellInv, Typed, Jobs
  <2> QED BY <1>0, <2>1, CheckPidStep DEF ShellInv, Typed, Phases, InOrder, AllOwn, JobSet
<1>3. PICK p \in Pids : p = Head(L)
  BY <1>2, TailOn
<1>4. /\ p \in Children
      /\ \/ /\ current_job' = [current_job EXCEPT !.pid_q = Append(Tail(L), p)]
            /\ p \in Running /\ proc' = proc
         \/ /\ current_job' = [current_job EXCEPT !.pid_q = Tail(L)]
            /\ p \in Zombies /\ proc' = Reaped({p})
  BY <1>0, <1>3, CheckPidStep
<1>5. /\ Tail(L) \in Seq(Pids) /\ Len(Tail(L)) = Len(L) - 1 /\ Len(L) \in Nat \ {0}
      /\ \A q : On(L, q) <=> q = p \/ On(Tail(L), q)
      /\ NoneTwice(Tail(L)) /\ ~ On(Tail(L), p)
  BY <1>2, <1>3, TailOn DEF Own
<1>6. PICK t \in Seq(Pids) : t = Tail(L)
  BY <1>5
<1>7. /\ Append(t, p) \in Seq(Pids) /\ Len(Append(t, p)) = Len(L)
      /\ \A q : On(Append(t, p), q) <=> On(L, q)
      /\ NoneTwice(Append(t, p))
  <2>1. PICK a : a = Append(t, p)
    OBVIOUS
  <2>2. /\ a \in Seq(Pids) /\ Len(a) = Len(t) + 1
        /\ \A q : On(a, q) <=> q = p \/ On(t, q)
        /\ NoneTwice(t) /\ ~ On(t, p) => NoneTwice(a)
    BY <2>1, AppendOn
  <2>3. Len(t) + 1 = Len(L) /\ NoneTwice(t) /\ ~ On(t, p) /\ \A q : On(L, q) <=> q = p \/ On(t, q)
    BY <1>5, <1>6
  <2> QED BY <2>1, <2>2, <2>3
<1>8. current_job' \in JobSet /\ current_job'.job_id = id0 /\ current_job' # NoJob
      /\ (R = Append(t, p) \/ R = t) /\ R \in Seq(Pids)
      /\ (R = t <=> p \in Zombies) /\ R = current_job'.pid_q
  <2>1. ASSUME NEW q \in Seq(Pids)
        PROVE  /\ [current_job EXCEPT !.pid_q = q] \in JobSet
               /\ [current_job EXCEPT !.pid_q = q].job_id = id0
               /\ [current_job EXCEPT !.pid_q = q].pid_q = q
    BY <1>2 DEF JobSet
  <2>2. PICK a \in Seq(Pids) : a = Append(t, p)
    BY <1>7
  <2>3. a # t
    BY <1>5, <1>6, <1>7, <2>2
  <2>4. ~ (p \in Running /\ p \in Zombies)
    BY DEF Running, Zombies
  <2>5. CASE current_job' = [current_job EXCEPT !.pid_q = a] /\ p \in Running
    <3>1. PICK c : c = [current_job EXCEPT !.pid_q = a]
      OBVIOUS
    <3>2. c \in JobSet /\ c.job_id = id0 /\ c.pid_q = a
      BY <2>1, <3>1
    <3>3. c # NoJob
      BY <1>2, <3>2, NoJobType
    <3> QED BY <1>0, <3>3, <2>2, <2>3, <2>4, <2>5, <3>1, <3>2
  <2>6. CASE current_job' = [current_job EXCEPT !.pid_q = t] /\ p \in Zombies
    <3>1. PICK c : c = [current_job EXCEPT !.pid_q = t]
      OBVIOUS
    <3>2. c \in JobSet /\ c.job_id = id0 /\ c.pid_q = t
      BY <2>1, <3>1
    <3>3. c # NoJob
      BY <1>2, <3>2, NoJobType
    <3> QED BY <1>0, <3>3, <2>2, <2>3, <2>4, <2>6, <3>1, <3>2
  <2> QED BY <1>4, <1>6, <2>2, <2>5, <2>6
<1>9. \A job \in Jobs' : job = current_job' \/ job \in Jobs \ {current_job}
  <2>1. \A k \in 1..Len(job_q) : job_q[k].job_id # id0
    BY <1>2, HeldApart
  <2> QED BY <1>1, <1>2, <2>1 DEF Jobs
<1>10. \A job \in Jobs \ {current_job} : job \in Jobs' /\ job.job_id # id0
  <2>1. \A job \in Jobs \ {current_job} : \E k \in 1..Len(job_q) : job = job_q[k]
    BY DEF Jobs
  <2>2. \A k \in 1..Len(job_q) : job_q[k] \in Jobs'
    BY <1>1 DEF Jobs
  <2>3. \A k \in 1..Len(job_q) : job_q[k].job_id # id0
    BY <1>2, HeldApart
  <2> QED BY <2>1, <2>2, <2>3
<1>11. current_job' \in Jobs'
  BY <1>8 DEF Jobs
<1>12. /\ proc' \in [Pids -> Procs] /\ Running' = Running
       /\ Children' = IF p \in Zombies THEN Children \ {p} ELSE Children
       /\ \A id : Alive(id)' => Alive(id)
       /\ \A q, id : Own(q, id) /\ ~ On(q, p) => Own(q, id)'
       /\ p \notin Zombies => proc' = proc
  <2>1. CASE p \in Zombies
    BY <1>4, <2>1, ReapedOne, ReapedOwn DEF ShellInv, Running, Zombies
  <2>2. CASE p \notin Zombies
    <3>1. proc' = proc
      BY <1>4, <2>2
    <3>2. Harmless
      BY <3>1, SameHarmless DEF ShellInv
    <3>3. Children' = Children /\ Running' = Running
      BY <3>1 DEF Children, Running, Zombies
    <3> QED BY <2>2, <3>1, <3>2, <3>3, HarmlessOwn DEF Harmless
  <2> QED BY <2>1, <2>2
<1>13. Typed'
  BY <1>1, <1>2, <1>8, <1>12 DEF ShellInv, Typed
<1>14. Unchecked' = Unchecked /\ Unchecked = left - 1
  BY <1>1, <1>2, <1>8 DEF Unchecked
<1>15. Phases'
  <2>1. num' <= Len(current_job'.pid_q)
    <3>1. num - 1 <= Len(L) - 1 /\ num \in Nat /\ Len(L) \in Nat
      BY <1>2, <1>5
    <3>2. Len(R) = Len(L) \/ Len(R) = Len(L) - 1
      BY <1>5, <1>6, <1>7, <1>8
    <3>3. num' = num - 1 /\ current_job'.pid_q = R
      BY <1>1, <1>8
    <3>4. num - 1 <= Len(R)
      BY <3>1, <3>2
    <3> QED BY <3>3, <3>4
  <2>2. current_job # NoJob /\ pc = "check"
    BY <1>1, <1>2
  <2> QED BY <1>1, <1>2, <1>8, <1>14, <2>1, <2>2 DEF ShellInv, Phases
<1>16. InOrder'
  <2>1. \A job \in Jobs' : job.job_id \in 1..(job_number' - 1)
    BY <1>1, <1>2, <1>8, <1>9 DEF ShellInv, InOrder
  <2> QED BY <1>1, <1>2, <1>8, <1>14, <2>1 DEF ShellInv, InOrder
<1>17. AllOwn'
  <2>1. Own(pid_q, LineJob)'
    BY <1>1 DEF ShellInv, Phases, Own, NoneTwice
  <2>2. ASSUME NEW job \in Jobs \ {current_job}  PROVE Own(job.pid_q, job.job_id)'
    <3>1. Own(job.pid_q, job.job_id)
      BY DEF ShellInv, AllOwn
    <3>2. ~ On(job.pid_q, p)
      <4>1. proc[p].job = id0
        BY <1>2, <1>5, OwnOn
      <4> QED BY <1>10, <3>1, <4>1, OwnOn
    <3> QED BY <1>12, <3>1, <3>2
  <2>3. Own(R, id0)'
    <3>1. CASE p \in Zombies
      <4>1. Own(t, id0) /\ ~ On(t, p)
        BY <1>2, <1>5, <1>6, OwnOn
      <4>2. Own(t, id0)'
        BY <1>12, <4>1
      <4> QED BY <1>1, <1>8, <3>1, <4>2 DEF Own
    <3>2. CASE p \notin Zombies
      <4>1. R = Append(t, p)
        BY <1>8, <3>2
      <4>2. Own(Append(t, p), id0)
        BY <1>2, <1>7, OwnOn
      <4> QED BY <1>1, <1>8, <1>12, <3>2, <4>1, <4>2 DEF Own
    <3> QED BY <3>1, <3>2
  <2>4. \A job \in Jobs' : Own(job.pid_q, job.job_id)'
    BY <1>8, <1>9, <2>2, <2>3 DEF Own
  <2> QED BY <2>1, <2>4 DEF AllOwn
<1>18. NoneLost'
  <2>1. ASSUME NEW q \in Children'  PROVE \E job \in Jobs' : On(job.pid_q, q)
    <3>1. q \in Children /\ (p \in Zombies => q # p)
      BY <1>12
    <3>2. PICK job \in Jobs : On(job.pid_q, q)
      <4>1. pid_q = <<>> /\ ~ On(pid_q, q)
        BY <1>1 DEF ShellInv, Phases, On
      <4> QED BY <3>1, <4>1 DEF ShellInv, NoneLost
    <3>3. CASE job = current_job
      <4>1. On(R, q)
        BY <1>2, <1>5, <1>6, <1>7, <1>8, <3>1, <3>2, <3>3
      <4> QED BY <1>8, <1>11, <4>1
    <3>4. CASE job # current_job
      BY <1>10, <3>2, <3>4
    <3> QED BY <3>3, <3>4
  <2> QED BY <2>1 DEF NoneLost
<1>19. Reported'
  BY <1>1, <1>2, <1>8, <1>9 DEF ShellInv, Reported
<1>20. OverKept'
  <2>1. \A id \in over : ~ Alive(id)'
    BY <1>12 DEF ShellInv, OverKept
  <2>2. ASSUME id0 \in over, Len(L) = num  PROVE Len(R) = num'
    <3>1. p \notin Running
      <4>1. proc[p].job = id0 /\ ~ Alive(id0)
        BY <1>2, <1>5, <2>2, OwnOn DEF ShellInv, OverKept
      <4> QED BY <4>1 DEF Alive
    <3>2. p \in Zombies
      BY <1>4, <3>1 DEF Children
    <3> QED BY <1>1, <1>5, <1>6, <1>8, <2>2, <3>2
  <2>3. /\ over' = over /\ completed' = completed /\ pc = "check" /\ pc' = "check"
        /\ job_q' = job_q /\ Unchecked' = Unchecked /\ current_job # NoJob /\ current_job' # NoJob
        /\ current_job.job_id = id0 /\ current_job'.job_id = id0
        /\ current_job.pid_q = L /\ current_job'.pid_q = R
    BY <1>0, <1>1, <1>2, <1>8, <1>14 DEF lineVars
  <2>4. /\ over \subseteq 1..(job_number - 1)
        /\ \A id \in over :
             \/ id \in ToSet(completed)
             \/ id = id0 /\ Len(L) = num
             \/ \E k \in 1..Unchecked : job_q[k].job_id = id
    BY <2>3 DEF ShellInv, OverKept
  <2>5. \A id \in over : \/ id \in ToSet(completed)
                         \/ id = id0 /\ Len(R) = num'
                         \/ \E k \in 1..Unchecked : job_q[k].job_id = id
    BY <2>2, <2>4
  <2> QED BY <1>1, <2>1, <2>3, <2>4, <2>5 DEF OverKept
<1>21. Listed' = Listed
  <2>1. current_job \in Jobs /\ current_job.job_id = id0 /\ current_job'.job_id = id0
    BY <1>0, <1>1, <1>2, <1>8 DEF Jobs
  <2>2. \A id : id \in Listed <=> \E job \in Jobs : id = job.job_id
    BY DEF Listed
  <2>3. \A id : id \in Listed' <=> \E job \in Jobs' : id = job.job_id
    BY DEF Listed
  <2>4. ASSUME NEW id \in Listed  PROVE id \in Listed'
    <3>1. PICK job \in Jobs : id = job.job_id
      BY <2>2
    <3> QED BY <1>10, <1>11, <2>1, <2>3, <3>1
  <2>5. ASSUME NEW id \in Listed'  PROVE id \in Listed
    <3>1. PICK job \in Jobs' : id = job.job_id
      BY <2>3
    <3> QED BY <1>9, <2>1, <2>2, <3>1
  <2> QED BY <2>4, <2>5
<1> QED BY <1>13, <1>15, <1>16, <1>17, <1>18, <1>19, <1>20, <1>21 DEF ShellInv

\* The elements of a sequence as a set, one after another.
LEMMA ToSetAppend ==
  ASSUME NEW S, NEW q \in Seq(S), NEW x \in S
  PROVE  ToSet(Append(q, x)) = ToSet(q) \union {x}
<1>1. PICK t : t = Append(q, x)
  OBVIOUS
<1>2. /\ DOMAIN q = 1..Len(q) /\ DOMAIN t = 1..Len(t) /\ \A p : On(t, p) <=> p = x \/ On(q, p)
  BY <1>1, AppendOn, LenProperties
<1>3. \A p : p \in ToSet(t) <=> p \in ToSet(q) \union {x}
  BY <1>2 DEF ToSet, On
<1> QED BY <1>1, <1>3

\* The job checked goes to the back of the queue, or is reported and dropped.
LEMMA CheckedJobInv ==
  ASSUME ShellInv, CheckedJob
  PROVE  /\ ShellInv'
         /\ Listed' = IF current_job.pid_q = <<>> THEN Listed \ {current_job.job_id} ELSE Listed
<1> USE DEF lineVars
<1>1. /\ pc = "check" /\ num = 0 /\ current_job # NoJob /\ current_job' = NoJob /\ left' = left - 1
      /\ UNCHANGED <<proc, pipe, lineVars, num, m_front, pc, i, pipes, pid_q, job_number>>
  BY DEF CheckedJob
<1>2. PICK c \in JobSet, id0 \in Nat : c = current_job /\ id0 = current_job.job_id
  BY DEF ShellInv, Typed, JobSet
<1>3. /\ c \in Jobs /\ id0 \in 1..(job_number - 1) /\ id0 = c.job_id /\ id0 \in Nat
      /\ job_q \in Seq(JobSet) /\ completed \in Seq(Nat) /\ left \in Nat \ {0}
      /\ Unchecked = left - 1 /\ left - 1 <= Len(job_q) /\ Len(job_q) \in Nat
      /\ job_number \in Nat
  <2>1. c \in Jobs /\ id0 = c.job_id
    BY <1>1, <1>2 DEF Jobs
  <2>2. id0 \in 1..(job_number - 1)
    BY <2>1 DEF ShellInv, InOrder
  <2>3. Unchecked = left - 1
    BY <1>1 DEF Unchecked
  <2> QED BY <1>1, <2>1, <2>2, <2>3, LenProperties DEF ShellInv, Typed, Phases
<1>4. \A k \in 1..Len(job_q) : job_q[k].job_id # id0
  BY <1>1, <1>2, HeldApart
<1>5. \/ /\ c.pid_q = <<>> /\ completed' = Append(completed, id0) /\ job_q' = job_q
      \/ /\ c.pid_q # <<>> /\ completed' = completed /\ job_q' = Append(job_q, c)
  BY <1>2 DEF CheckedJob, Complete
<1>6. job_q' \in Seq(JobSet) /\ completed' \in Seq(Nat)
  <2>1. Append(job_q, c) \in Seq(JobSet)
    BY <1>3, AppendOn
  <2>2. Append(completed, id0) \in Seq(Nat)
    BY <1>3, AppendOn
  <2> QED BY <1>3, <1>5, <2>1, <2>2
<1>7. Unchecked' = left - 1
  BY <1>1 DEF Unchecked
<1>8. /\ Len(job_q') \in Nat /\ Len(job_q) <= Len(job_q') /\ Len(job_q') <= Len(job_q) + 1
      /\ \A k \in 1..Len(job_q) : k \in 1..Len(job_q') /\ job_q'[k] = job_q[k]
      /\ \A k \in 1..Len(job_q') : \/ k \in 1..Len(job_q) /\ job_q'[k] = job_q[k]
                                   \/ k = Len(job_q) + 1 /\ job_q'[k] = c
      /\ c.pid_q # <<>> => \E k \in 1..Len(job_q') : job_q'[k] = c
  <2>1. CASE job_q' = job_q /\ c.pid_q = <<>>
    BY <1>3, <2>1
  <2>2. CASE job_q' = Append(job_q, c)
    <3>1. PICK t : t = Append(job_q, c)
      OBVIOUS
    <3>2. Len(t) = Len(job_q) + 1 /\ t[Len(job_q) + 1] = c
          /\ \A k \in 1..Len(job_q) : t[k] = job_q[k]
      BY <1>3, <3>1, AppendOn
    <3>3. Len(job_q) + 1 \in 1..Len(t) /\ \A k \in 1..Len(job_q) : k \in 1..Len(t)
      BY <1>3, <3>2
    <3>4. \A k \in 1..Len(t) : k \in 1..Len(job_q) \/ k = Len(job_q) + 1
      BY <1>3, <3>2
    <3> QED BY <1>3, <2>2, <3>1, <3>2, <3>3, <3>4
  <2> QED BY <1>5, <2>1, <2>2
<1>9. \A job : job \in Jobs' <=> job \in Jobs /\ (job = c => c.pid_q # <<>>)
  <2>1. \A job : job \in Jobs <=> job = c \/ \E k \in 1..Len(job_q) : job = job_q[k]
    BY <1>1, <1>2 DEF Jobs
  <2>2. \A job : job \in Jobs' <=> \E k \in 1..Len(job_q') : job = job_q'[k]
    BY <1>1 DEF Jobs
  <2>3. \A k \in 1..Len(job_q) : job_q[k] # c
    BY <1>3, <1>4
  <2>4. CASE c.pid_q = <<>>
    <3>1. job_q' = job_q
      BY <1>5, <2>4
    <3> QED BY <2>1, <2>2, <2>3, <2>4, <3>1
  <2>5. CASE c.pid_q # <<>>
    <3>1. ASSUME NEW job \in Jobs'  PROVE job \in Jobs
      <4>1. PICK k \in 1..Len(job_q') : job = job_q'[k]
        BY <2>2
      <4> QED BY <1>8, <2>1, <4>1
    <3>2. ASSUME NEW job \in Jobs  PROVE job \in Jobs'
      <4>1. CASE job = c
        BY <1>8, <2>2, <2>5, <4>1
      <4>2. CASE \E k \in 1..Len(job_q) : job = job_q[k]
        <5>1. PICK k \in 1..Len(job_q) : job = job_q[k]
          BY <4>2
        <5>2. k \in 1..Len(job_q') /\ job_q'[k] = job
          BY <1>8, <5>1
        <5> QED BY <2>2, <5>2
      <4> QED BY <2>1, <4>1, <4>2
    <3> QED BY <2>5, <3>1, <3>2
  <2> QED BY <2>4, <2>5
<1>10. Children' = Children /\ Running' = Running /\ LineJob' = LineJob
  BY <1>1 DEF Children, Running, Zombies, LineJob, Background
<1>11. Typed'
  BY <1>1, <1>3, <1>6, NoJobType DEF ShellInv, Typed
<1>12. Phases'
  <2>1. left' \in Nat /\ Unchecked' <= Len(job_q') /\ num' <= Len(current_job'.pid_q)
    BY <1>1, <1>3, <1>7, <1>8, NoJobType
  <2> QED BY <1>1, <2>1 DEF ShellInv, Phases
<1>13. InOrder'
  <2>1. ASSUME NEW k \in 1..Len(job_q'), NEW n \in 1..Len(job_q'), k < n
        PROVE  IF k <= left - 1 /\ left - 1 < n THEN job_q'[n].job_id < job_q'[k].job_id
               ELSE job_q'[k].job_id < job_q'[n].job_id
    <3>1. k \in 1..Len(job_q) /\ job_q'[k] = job_q[k]
      <4>1. k < Len(job_q) + 1
        BY <1>3, <1>8, <2>1
      <4>2. k \in 1..Len(job_q)
        BY <1>3, <4>1
      <4> QED BY <1>8, <4>2
    <3>2. CASE n \in 1..Len(job_q) /\ job_q'[n] = job_q[n]
      BY <1>3, <2>1, <3>1, <3>2 DEF ShellInv, InOrder
    <3>3. CASE n = Len(job_q) + 1 /\ job_q'[n] = c
      <4>1. left - 1 < n
        BY <1>3, <3>3
      <4>2. IF k <= left - 1 THEN id0 < job_q[k].job_id ELSE job_q[k].job_id < id0
        BY <1>1, <1>2, <1>3, <3>1 DEF ShellInv, InOrder
      <4> QED BY <1>3, <3>1, <3>3, <4>1, <4>2
    <3>4. \/ n \in 1..Len(job_q) /\ job_q'[n] = job_q[n]
          \/ n = Len(job_q) + 1 /\ job_q'[n] = c
      BY <1>8
    <3> QED BY <3>2, <3>3, <3>4
  <2>2. \A job \in Jobs' : job.job_id \in 1..(job_number' - 1)
    BY <1>1, <1>9 DEF ShellInv, InOrder
  <2> QED BY <1>1, <1>7, <2>1, <2>2 DEF InOrder
<1>14. AllOwn'
  <2>1. Own(pid_q, LineJob)'
    BY <1>1, <1>10 DEF ShellInv, AllOwn, Own
  <2>2. \A job \in Jobs' : Own(job.pid_q, job.job_id)'
    BY <1>1, <1>9, <1>10 DEF ShellInv, AllOwn, Own
  <2> QED BY <2>1, <2>2 DEF AllOwn
<1>15. NoneLost'
  <2>1. \A p : c.pid_q = <<>> => ~ On(c.pid_q, p)
    BY DEF On
  <2> QED BY <1>1, <1>9, <1>10, <2>1 DEF ShellInv, NoneLost
<1>16. ToSet(Append(completed, id0)) = ToSet(completed) \union {id0}
  BY <1>3, ToSetAppend
<1>17. Reported'
  <2>1. CASE c.pid_q = <<>>
    <3>1. ToSet(completed') = ToSet(completed) \union {id0}
      BY <1>5, <1>16, <2>1
    <3>2. \A job \in Jobs' : job.job_id # id0
      BY <1>1, <1>4, <1>5, <2>1 DEF Jobs
    <3> QED BY <1>1, <1>3, <1>9, <3>1, <3>2 DEF ShellInv, Reported
  <2>2. CASE c.pid_q # <<>>
    BY <1>1, <1>5, <1>9, <2>2 DEF ShellInv, Reported
  <2> QED BY <2>1, <2>2
<1>18. OverKept'
  <2>1. \A id \in over : ~ Alive(id)'
    BY <1>1, <1>10 DEF ShellInv, OverKept, Alive
  <2>2. ASSUME NEW id \in over
        PROVE  id \in ToSet(completed') \/ \E k \in 1..(left - 1) : job_q'[k].job_id = id
    <3>1. ToSet(completed) \subseteq ToSet(completed')
      BY <1>5, <1>16
    <3>2. CASE \E k \in 1..Unchecked : job_q[k].job_id = id
      <4>1. PICK k \in 1..Unchecked : job_q[k].job_id = id
        BY <3>2
      <4>2. k \in 1..(left - 1) /\ k \in 1..Len(job_q)
        BY <1>3, <4>1
      <4> QED BY <1>8, <4>1, <4>2
    <3>3. CASE id = id0 /\ Len(c.pid_q) = 0
      <4>1. c.pid_q \in Seq(Pids)
        BY DEF JobSet
      <4>2. c.pid_q = <<>>
        BY <3>3, <4>1, EmptySeq
      <4>3. ToSet(completed') = ToSet(completed) \union {id0}
        BY <1>5, <1>16, <4>2
      <4> QED BY <3>3, <4>3
    <3>4. CASE id \in ToSet(completed)
      BY <3>1, <3>4
    <3> QED BY <1>1, <1>2, <3>2, <3>3, <3>4 DEF ShellInv, OverKept
  <2> QED BY <1>1, <1>7, <2>1, <2>2 DEF ShellInv, OverKept
<1>19. \A id : id \in Listed' <=> id \in Listed /\ (id = id0 => c.pid_q # <<>>)
  <2>1. \A id : id \in Listed <=> \E job \in Jobs : id = job.job_id
    BY DEF Listed
  <2>2. \A id : id \in Listed' <=> \E job \in Jobs' : id = job.job_id
    BY DEF Listed
  <2>3. \A job \in Jobs : job.job_id = id0 => job = c
    BY <1>2, <1>4 DEF Jobs
  <2> QED BY <1>3, <1>9, <2>1, <2>2, <2>3
<1>20. CASE c.pid_q = <<>>
  <2>1. Listed' = Listed \ {id0}
    BY <1>19, <1>20
  <2> QED BY <1>2, <1>11, <1>12, <1>13, <1>14, <1>15, <1>17, <1>18, <1>20, <2>1 DEF ShellInv
<1>21. CASE c.pid_q # <<>>
  <2>1. Listed' = Listed
    BY <1>19, <1>21
  <2> QED BY <1>2, <1>11, <1>12, <1>13, <1>14, <1>15, <1>17, <1>18, <1>21, <2>1 DEF ShellInv
<1> QED BY <1>20, <1>21

\* Waiting for a child of the foreground takes it from the list when it is reaped.
LEMMA WaitInv ==
  ASSUME ShellInv, Wait
  PROVE  ShellInv'
<1> USE DEF lineVars, checkVars
<1>1. /\ pc = "wait" /\ pid_q # <<>> /\ pid_q' = Tail(pid_q)
      /\ UNCHANGED <<pipe, lineVars, checkVars, pc, i, pipes, job_q, job_number, completed>>
  BY DEF Wait
<1>2. LineJob = 0 /\ current_job = NoJob /\ pid_q \in Seq(Pids) /\ Own(pid_q, 0)
  BY <1>1 DEF ShellInv, Phases, LineJob, AllOwn, Typed
<1>3. PICK p \in Pids : p = Head(pid_q)
  BY <1>1, <1>2, TailOn
<1>4. /\ pid_q' \in Seq(Pids) /\ NoneTwice(pid_q') /\ ~ On(pid_q', p)
      /\ \A q : On(pid_q, q) <=> q = p \/ On(pid_q', q)
  BY <1>1, <1>2, <1>3, TailOn DEF Own
<1>5. p \in Children /\ proc[p].job = 0 /\ p # NoPid
  BY <1>2, <1>4, OwnOn, PidsAssumption
<1>6. p \in Zombies /\ proc' = Reaped({p})
  <2>1. /\ ~ NoSuchChild(p) /\ Reapable(p) = {p} \intersect Zombies /\ (Waited(p) <=> p \in Zombies)
    BY <1>5, WaitpidFinds
  <2>2. /\ Waited(p)
        /\ IF Reapable(p) = {} THEN proc' = proc
           ELSE \E z \in Reapable(p) : proc' = Reaped({z})
    BY <1>3 DEF Wait
  <2> QED BY <2>1, <2>2
<1>7. /\ proc' \in [Pids -> Procs] /\ Children' = Children \ {p} /\ Running' = Running
      /\ \A q, id : Own(q, id) /\ ~ On(q, p) => Own(q, id)'
      /\ \A id : Alive(id)' => Alive(id)
  BY <1>6, ReapedOne, ReapedOwn DEF ShellInv
<1>8. Jobs' = Jobs /\ LineJob' = 0
  BY <1>1, <1>2 DEF Jobs, LineJob, Background
<1>9. Typed'
  BY <1>1, <1>4, <1>7 DEF ShellInv, Typed
<1>10. Phases'
  BY <1>1, <1>2 DEF ShellInv, Phases, Unchecked, Background
<1>11. InOrder' /\ Unchecked' = Unchecked
  BY <1>1, OrderFrame DEF ShellInv
<1>12. AllOwn'
  <2>1. PICK t : t = pid_q'
    OBVIOUS
  <2>2. Own(t, 0) /\ ~ On(t, p)
    BY <1>2, <1>4, <2>1, OwnOn
  <2>3. Own(t, 0)'
    BY <1>7, <2>2
  <2>4. Own(pid_q, LineJob)'
    BY <1>8, <2>1, <2>3 DEF Own
  <2>5. ASSUME NEW job \in Jobs  PROVE Own(job.pid_q, job.job_id)'
    <3>1. Own(job.pid_q, job.job_id) /\ job.job_id # 0
      BY DEF ShellInv, AllOwn, InOrder
    <3>2. ~ On(job.pid_q, p)
      BY <1>5, <3>1, OwnOn
    <3> QED BY <1>7, <3>1, <3>2
  <2> QED BY <1>8, <2>4, <2>5 DEF AllOwn
<1>13. NoneLost'
  BY <1>4, <1>7, <1>8 DEF ShellInv, NoneLost
<1>14. Reported'
  BY <1>1, <1>8 DEF ShellInv, Reported
<1>15. OverKept'
  BY <1>1, <1>7, <1>11 DEF ShellInv, OverKept
<1> QED BY <1>9, <1>10, <1>11, <1>12, <1>13, <1>14, <1>15 DEF ShellInv

\* A launched line becomes a job of the queue, or is waited for.
LEMMA LaunchedInv ==
  ASSUME ShellInv, Launched
  PROVE  ShellInv' /\ Listed' = IF Background THEN Listed \union {job_number} ELSE Listed
<1> USE DEF lineVars, checkVars
<1>1. /\ pc = "create" /\ i = Len(script)
      /\ UNCHANGED <<proc, pipe, lineVars, checkVars, i, pipes, completed>>
  BY DEF Launched
<1>2. Harmless
  BY <1>1, SameHarmless DEF ShellInv
<1>3. CASE ~ Background
  <2>1. pc' = "wait" /\ UNCHANGED <<job_q, job_number, pid_q>>
    BY <1>3 DEF Launched
  <2>2. Typed'
    BY <1>1, <2>1 DEF ShellInv, Typed
  <2>3. Phases'
    BY <1>1, <1>3, <2>1 DEF ShellInv, Phases, Unchecked, Background
  <2>4. InOrder'
    BY <1>1, <2>1, OrderFrame DEF ShellInv
  <2>5. AllOwn' /\ NoneLost' /\ Reported'
    <3>1. Own(pid_q, LineJob)'
      BY <1>1, <1>2, <2>1, SameLine
    <3> QED BY <1>1, <1>2, <2>1, <3>1, Frame
  <2>6. OverKept'
    BY <1>1, <1>2, <2>1, HarmlessOwn DEF ShellInv, OverKept
  <2>7. Listed' = Listed
    BY <1>1, <2>1 DEF Listed, Jobs
  <2> QED BY <1>3, <2>2, <2>3, <2>4, <2>5, <2>6, <2>7 DEF ShellInv
<1>4. CASE Background
  <2>1. PICK c : c = [job_id |-> job_number, pid_q |-> pid_q, pid |-> Last(pid_q)]
    OBVIOUS
  <2>2. /\ job_q' = Append(job_q, c) /\ job_number' = job_number + 1 /\ pid_q' = <<>> /\ pc' = "parse"
    BY <1>4, <2>1 DEF Launched
  <2>3. /\ pid_q \in Seq(Pids) /\ Len(pid_q) = Len(script) /\ Linked(script)
        /\ job_q \in Seq(JobSet) /\ Len(job_q) \in Nat /\ job_number \in Nat \ {0}
        /\ current_job = NoJob /\ left = 0 /\ num = 0 /\ Unchecked = 0
    BY <1>1, LenProperties DEF ShellInv, Typed, Phases, Unchecked
  <2>4. c \in JobSet /\ c.job_id = job_number /\ c.pid_q = pid_q
    <3>1. Len(pid_q) \in 1..Len(pid_q)
      BY <2>3, EmptySeq DEF Linked
    <3>2. Last(pid_q) \in Pids
      BY <2>3, <3>1, ElementOfSeq DEF Last
    <3> QED BY <2>1, <2>3, <3>2 DEF JobSet
  <2>5. PICK t : t = Append(job_q, c)
    OBVIOUS
  <2>6. /\ t \in Seq(JobSet) /\ Len(t) = Len(job_q) + 1 /\ t[Len(job_q) + 1] = c
        /\ \A k \in 1..Len(job_q) : t[k] = job_q[k]
    BY <2>3, <2>4, <2>5, AppendOn
  <2>7. /\ Len(job_q) + 1 \in 1..Len(t) /\ \A k \in 1..Len(job_q) : k \in 1..Len(t)
        /\ \A k \in 1..Len(t) : k \in 1..Len(job_q) \/ k = Len(job_q) + 1
    BY <2>3, <2>6
  <2>8. \A job : job \in Jobs' <=> job \in Jobs \/ job = c
    <3>1. \A job : job \in Jobs <=> \E k \in 1..Len(job_q) : job = job_q[k]
      BY <2>3 DEF Jobs
    <3>2. \A job : job \in Jobs' <=> \E k \in 1..Len(t) : job = t[k]
      BY <1>1, <2>2, <2>3, <2>5 DEF Jobs
    <3>3. ASSUME NEW job \in Jobs'  PROVE job \in Jobs \/ job = c
      BY <2>6, <2>7, <3>1, <3>2
    <3>4. ASSUME NEW job \in Jobs  PROVE job \in Jobs'
      BY <2>6, <2>7, <3>1, <3>2
    <3>5. c \in Jobs'
      BY <2>6, <2>7, <3>2
    <3> QED BY <3>3, <3>4, <3>5
  <2>9. Unchecked' = 0
    BY <1>1, <2>3 DEF Unchecked
  <2>10. Typed'
    BY <1>1, <2>2, <2>3, <2>5, <2>6 DEF ShellInv, Typed
  <2>11. Phases'
    <3>1. Unchecked' <= Len(job_q') /\ Len(job_q') \in Nat
      BY <2>2, <2>3, <2>5, <2>6, <2>9
    <3> QED BY <1>1, <2>2, <2>3, <3>1 DEF ShellInv, Phases
  <2>12. \A job \in Jobs : job.job_id \in 1..(job_number - 1)
    BY DEF ShellInv, InOrder
  <2>13. InOrder'
    <3>1. \A k, n \in 1..Len(job_q) : k < n => job_q[k].job_id < job_q[n].job_id
      BY <2>3 DEF ShellInv, InOrder
    <3>2. \A k \in 1..Len(job_q) : job_q[k].job_id \in 1..(job_number - 1)
      BY <2>12 DEF Jobs
    <3>3. ASSUME NEW k \in 1..Len(t), NEW n \in 1..Len(t), k < n
          PROVE  t[k].job_id < t[n].job_id
      <4>1. k \in 1..Len(job_q)
        BY <2>3, <2>6, <3>3
      <4>2. CASE n \in 1..Len(job_q)
        BY <2>6, <3>1, <3>3, <4>1, <4>2
      <4>3. CASE n = Len(job_q) + 1
        BY <2>3, <2>4, <2>6, <3>2, <4>1, <4>3
      <4> QED BY <2>7, <4>2, <4>3
    <3>4. \A job \in Jobs' : job.job_id \in 1..(job_number' - 1)
      BY <2>2, <2>3, <2>4, <2>8, <2>12
    <3>5. \A k, n \in 1..Len(t) : ~ (k <= 0 /\ 0 < n)
      BY <2>3, <2>6
    <3> QED BY <1>1, <2>2, <2>3, <2>5, <2>9, <3>3, <3>4, <3>5 DEF InOrder
  <2>14. Children' = Children /\ LineJob = job_number
    BY <1>1, <1>4 DEF Children, Running, Zombies, LineJob
  <2>15. AllOwn'
    <3>1. Own(pid_q, LineJob)'
      BY <2>2 DEF Own, NoneTwice
    <3>2. Own(c.pid_q, c.job_id)
      BY <2>4, <2>14 DEF ShellInv, AllOwn
    <3>3. \A job \in Jobs' : Own(job.pid_q, job.job_id)
      BY <2>8, <3>2 DEF ShellInv, AllOwn
    <3>4. \A job \in Jobs' : Own(job.pid_q, job.job_id)'
      BY <1>1, <2>14, <3>3 DEF Own
    <3> QED BY <3>1, <3>4 DEF AllOwn
  <2>16. NoneLost'
    BY <2>4, <2>8, <2>14 DEF ShellInv, NoneLost
  <2>17. ToSet(completed) \subseteq 1..(job_number - 1) /\ over \subseteq 1..(job_number - 1)
    BY DEF ShellInv, Reported, OverKept
  <2>18. Reported'
    BY <1>1, <2>2, <2>3, <2>4, <2>8, <2>17 DEF ShellInv, Reported
  <2>19. OverKept'
    <3>1. over \subseteq 1..(job_number' - 1)
      BY <2>2, <2>3, <2>17
    <3> QED BY <1>1, <1>2, <2>2, <3>1, HarmlessOwn DEF ShellInv, OverKept
  <2>20. Listed' = Listed \union {job_number}
    BY <2>4, <2>8 DEF Listed
  <2> QED BY <1>4, <2>10, <2>11, <2>13, <2>15, <2>16, <2>18, <2>19, <2>20 DEF ShellInv
<1> QED BY <1>3, <1>4

\* Every step keeps the invariant, as long as fork does not fail.
LEMMA NextInv ==
  ASSUME ShellInv, ~ ForkMayFail, [Next]_vars
  PROVE  ShellInv'
<1>1. CASE \E line \in Lines : run_script(line)
  BY <1>1, run_scriptInv
<1>2. CASE EndOfInput \/ Return \/ WaitDone
  BY <1>2, ReturnsInv
<1>3. CASE CheckJob
  BY <1>3, CheckJobInv
<1>4. CASE CheckPid
  BY <1>4, CheckPidInv
<1>5. CASE CheckedJob
  BY <1>5, CheckedJobInv
<1>6. CASE Checked
  BY <1>6, CheckedInv
<1>7. CASE Fork
  BY <1>7, ForkInv
<1>8. CASE Parent
  BY <1>8, ParentInv
<1>9. CASE Launched
  BY <1>9, LaunchedInv
<1>10. CASE Wait
  BY <1>10, WaitInv
<1>11. CASE \E p \in Pids : ProcessStep(p) /\ UNCHANGED shellVars
  BY <1>11, ProcessInv
<1>12. CASE UNCHANGED vars
  BY <1>12, StutterInv
<1> QED BY <1>1, <1>2, <1>3, <1>4, <1>5, <1>6, <1>7, <1>8, <1>9, <1>10, <1>11, <1>12
        DEF Next, ShellStep

\* The invariant holds in every state, as long as fork does not fail.
THEOREM ShellInvHolds ==
  ASSUME ~ ForkMayFail
  PROVE  Spec => []ShellInv
<1>1. ShellInv /\ [Next]_vars => ShellInv'
  BY NextInv
<1> QED BY <1>1, InitInv, PTL DEF Spec
-----------------------------------------------------------------------------
\* What follows for the shell, as long as fork does not fail.

\* Quash.OwnPids: waitpid and kill never meet the number of a process that is
\* not, or no longer, one of the job's (execute.c, lines 117 and 241).
THEOREM NumbersAreTheJobs ==
  ASSUME ~ ForkMayFail
  PROVE  Spec => []OwnPids
<1>1. ShellInv => OwnPids
  <2> SUFFICES ASSUME ShellInv, NEW job \in Jobs, NEW p \in ToSet(job.pid_q)
               PROVE  p \in Children /\ proc[p].job = job.job_id
    BY DEF OwnPids
  <2>1. job.pid_q \in Seq(Pids)
    <3>1. \A k \in 1..Len(job_q) : job_q[k] \in JobSet
      BY ElementOfSeq DEF ShellInv, Typed
    <3>2. job \in JobSet
      BY <3>1 DEF Jobs, ShellInv, Typed
    <3> QED BY <3>2 DEF JobSet
  <2>2. On(job.pid_q, p)
    BY <2>1, LenProperties DEF ToSet, On
  <2> QED BY <2>2, OwnOn DEF ShellInv, AllOwn
<1> QED BY <1>1, ShellInvHolds, PTL

\* Quash.KillsOwn, which a failed fork breaks: kill reaches processes of the
\* job it names and no other (execute.c, line 228).
THEOREM KillsReachTheJob ==
  ASSUME ~ ForkMayFail
  PROVE  Spec => []KillsOwn
<1>1. ShellInv => KillsOwn
  <2> SUFFICES ASSUME ShellInv, NEW id, NEW p \in run_kill(id)  PROVE proc[p].job = id
    BY DEF KillsOwn
  <2>0. PICK k \in 1..Len(job_q) : job_q[k].job_id = id /\ \E q \in ToSet(job_q[k].pid_q) : p \in Reaches(q)
    BY DEF run_kill
  <2>1. PICK q \in ToSet(job_q[k].pid_q) : p \in Reaches(q)
    BY <2>0
  <2>2. job_q[k] \in JobSet /\ job_q[k] \in Jobs
    BY ElementOfSeq DEF ShellInv, Typed, Jobs
  <2>3. On(job_q[k].pid_q, q)
    BY <2>2, LenProperties DEF JobSet, ToSet, On
  <2>4. q \in Children /\ proc[q].job = id
    BY <2>0, <2>2, <2>3, OwnOn DEF ShellInv, AllOwn
  <2>5. q # NoPid
    BY <2>4, PidsAssumption DEF Children, Running, Zombies
  <2> QED BY <2>1, <2>4, <2>5 DEF Reaches
<1> QED BY <1>1, ShellInvHolds, PTL

\* Quash.NoLostChild: no child is forgotten and left a zombie.
THEOREM NoChildIsLost ==
  ASSUME ~ ForkMayFail
  PROVE  Spec => []NoLostChild
<1>1. ShellInv => NoLostChild
  <2> SUFFICES ASSUME ShellInv, NEW p \in Children
               PROVE  p \in ToSet(pid_q) \/ \E job \in Jobs : p \in ToSet(job.pid_q)
    BY DEF NoLostChild
  <2>1. ASSUME NEW q \in Seq(Pids), On(q, p)  PROVE p \in ToSet(q)
    BY <2>1, LenProperties DEF On, ToSet
  <2>2. \A job \in Jobs : job.pid_q \in Seq(Pids)
    <3>1. \A k \in 1..Len(job_q) : job_q[k] \in JobSet
      BY ElementOfSeq DEF ShellInv, Typed
    <3>2. \A job \in Jobs : job \in JobSet
      BY <3>1 DEF Jobs, ShellInv, Typed
    <3> QED BY <3>2 DEF JobSet
  <2> QED BY <2>1, <2>2 DEF ShellInv, Typed, NoneLost
<1> QED BY <1>1, ShellInvHolds, PTL

\* Quash.ForegroundDone: nothing of a foreground line is left, running or
\* unreaped, when the next line is asked for (execute.c, line 464).
THEOREM ForegroundIsDone ==
  ASSUME ~ ForkMayFail
  PROVE  Spec => []ForegroundDone
<1>1. ShellInv => ForegroundDone
  <2> SUFFICES ASSUME ShellInv, pc = "parse", NEW p \in Children  PROVE proc[p].job # 0
    BY DEF ForegroundDone
  <2>1. ~ On(pid_q, p)
    BY DEF ShellInv, Phases, On
  <2>2. PICK job \in Jobs : On(job.pid_q, p)
    BY <2>1 DEF ShellInv, NoneLost
  <2>3. job.job_id # 0
    BY DEF ShellInv, InOrder
  <2> QED BY <2>2, <2>3, OwnOn DEF ShellInv, AllOwn
<1> QED BY <1>1, ShellInvHolds, PTL

\* Quash.CheckIsThorough: what was over when a line was entered is reported
\* before the line runs, and the rotations leave the jobs in order.
THEOREM ChecksAreThorough ==
  ASSUME ~ ForkMayFail
  PROVE  Spec => []CheckIsThorough
<1>1. ShellInv => CheckIsThorough
  <2> SUFFICES ASSUME ShellInv, pc = "create"
               PROVE  /\ over \subseteq ToSet(completed)
                      /\ \A k, n \in 1..Len(job_q) : k < n => job_q[k].job_id < job_q[n].job_id
    BY DEF CheckIsThorough
  <2>1. Unchecked = 0
    BY DEF ShellInv, Phases, Unchecked
  <2>2. over \subseteq ToSet(completed)
    BY DEF ShellInv, OverKept
  <2>3. \A k \in 1..Len(job_q) : ~ (k <= 0)
    BY LenProperties DEF ShellInv, Typed
  <2> QED BY <2>1, <2>2, <2>3 DEF ShellInv, InOrder
<1> QED BY <1>1, ShellInvHolds, PTL

\* A job whose list is empty has no process that runs.
LEMMA NoneRuns ==
  ASSUME ShellInv, pc = "check", current_job # NoJob, current_job.pid_q = <<>>
  PROVE  ~ Alive(current_job.job_id)
<1> SUFFICES ASSUME NEW p \in Running, proc[p].job = current_job.job_id  PROVE FALSE
  BY DEF Alive
<1>1. p \in Children /\ ~ On(pid_q, p)
  BY DEF Children, ShellInv, Phases, On
<1>2. PICK job \in Jobs : On(job.pid_q, p)
  BY <1>1 DEF ShellInv, NoneLost
<1>3. job.job_id = current_job.job_id
  BY <1>2, OwnOn DEF ShellInv, AllOwn
<1>4. job = current_job
  BY <1>3, HeldApart DEF Jobs
<1> QED BY <1>2, <1>4 DEF On

\* A process that runs belongs to the line or to a job in the list, and the job
\* that is being made is not in the list.
LEMMA NoneHidden ==
  ASSUME ShellInv
  PROVE  /\ \A p \in Running : proc[p].job = LineJob \/ proc[p].job \in Listed
         /\ job_number \notin Listed /\ job_number \in Nat \ {0} /\ 0 \notin Listed
<1>1. \A id \in Listed : id \in 1..(job_number - 1)
  BY DEF ShellInv, InOrder, Listed
<1>2. job_number \in Nat \ {0}
  BY DEF ShellInv, Typed
<1>3. ASSUME NEW p \in Running  PROVE proc[p].job = LineJob \/ proc[p].job \in Listed
  <2>1. p \in Children
    BY DEF Children
  <2>2. CASE On(pid_q, p)
    BY <2>2, OwnOn DEF ShellInv, AllOwn
  <2>3. CASE ~ On(pid_q, p)
    <3>1. PICK job \in Jobs : On(job.pid_q, p)
      BY <2>1, <2>3 DEF ShellInv, NoneLost
    <3>2. proc[p].job = job.job_id
      BY <3>1, OwnOn DEF ShellInv, AllOwn
    <3> QED BY <3>1, <3>2 DEF Listed
  <2> QED BY <2>2, <2>3
<1> QED BY <1>1, <1>2, <1>3

Live == {proc[p].job : p \in Running} \ {0}

\* The jobs that live, in terms of Alive.
LEMMA LiveAlive == /\ \A id : id \in Live <=> id # 0 /\ Alive(id)
                   /\ \A id : id \in Live' <=> id # 0 /\ Alive(id)'
BY DEF Live, Alive

\* Only the job that is being made lives without being in the list.
LEMMA LiveListed ==
  ASSUME ShellInv
  PROVE  Live \ Listed \subseteq {job_number} /\ (~ Background => Live \subseteq Listed)
BY NoneHidden DEF Live, LineJob

\* A step that lists and reports nothing, and starts nothing, ends jobs at most.
LEMMA EndsAtMost ==
  ASSUME Listed' = Listed, UNCHANGED completed, \A id : Alive(id)' => Alive(id)
  PROVE  Table!Next \/ UNCHANGED Table!jobVars
<1>1. Live' \subseteq Live
  BY LiveAlive
<1>2. Table!End
  BY <1>1 DEF Table!End, Live
<1> QED BY <1>2 DEF Table!Next

\* A job that is launched lives.
LEMMA LaunchShows == \A id : Table!Launch(id) /\ id \in Live' => Table!Next
BY DEF Table!Next, Live

\* Each step is a step of the table of jobs, or does not show.
LEMMA TableStep ==
  ASSUME ShellInv, ~ ForkMayFail, [Next]_vars
  PROVE  Table!Next \/ UNCHANGED Table!jobVars
<1>0. ASSUME UNCHANGED <<job_q, current_job>>  PROVE Listed' = Listed
  BY <1>0 DEF Listed, Jobs
<1>1. ASSUME Harmless, Listed' = Listed, UNCHANGED completed
      PROVE  Table!Next \/ UNCHANGED Table!jobVars
  BY <1>1, HarmlessOwn, EndsAtMost
<1>2. ASSUME UNCHANGED <<proc, completed>>, Listed' = Listed
      PROVE  Table!Next \/ UNCHANGED Table!jobVars
  BY <1>1, <1>2, SameHarmless DEF ShellInv
<1>3. CASE \E line \in Lines : run_script(line)
  BY <1>0, <1>2, <1>3 DEF run_script
<1>4. CASE EndOfInput \/ Return \/ WaitDone \/ Checked
  BY <1>0, <1>2, <1>4 DEF EndOfInput, Return, WaitDone, Checked, checkVars
<1>5. CASE CheckJob
  BY <1>2, <1>5, CheckJobInv DEF CheckJob
<1>6. CASE CheckPid
  <2>1. Listed' = Listed /\ UNCHANGED completed
    BY <1>6, CheckPidInv DEF CheckPid
  <2>2. PICK p : p = Head(current_job.pid_q)
    OBVIOUS
  <2>3. proc' = proc \/ (p \in Zombies /\ proc' = Reaped({p}))
    BY <1>6, <2>2, CheckPidStep
  <2>4. CASE proc' = proc
    BY <1>2, <2>1, <2>4
  <2>5. CASE p \in Zombies /\ proc' = Reaped({p})
    BY <2>1, <2>5, ReapedOwn, EndsAtMost DEF ShellInv
  <2> QED BY <2>3, <2>4, <2>5
<1>7. CASE CheckedJob
  <2>1. pc = "check" /\ num = 0 /\ current_job # NoJob /\ UNCHANGED proc
    BY <1>7 DEF CheckedJob
  <2>2. CASE current_job.pid_q # <<>>
    BY <1>2, <1>7, <2>1, <2>2, CheckedJobInv DEF CheckedJob, Complete
  <2>3. CASE current_job.pid_q = <<>>
    <3>1. PICK id : id = current_job.job_id
      OBVIOUS
    <3>2. completed' = Append(completed, id) /\ Listed' = Listed \ {id}
      BY <1>7, <2>3, <3>1, CheckedJobInv DEF CheckedJob, Complete
    <3>3. id \in Listed
      BY <2>1, <3>1 DEF Listed, Jobs
    <3>4. id \notin Live /\ Live' = Live
      BY <2>1, <2>3, <3>1, NoneRuns, LiveAlive DEF Live, Running
    <3>5. Table!Report(id)
      BY <3>2, <3>3, <3>4 DEF Table!Report, Live
    <3> QED BY <3>3, <3>5 DEF Table!Next
  <2> QED BY <2>2, <2>3
<1>8. CASE Fork
  <2>1. Listed' = Listed /\ UNCHANGED completed
    BY <1>0, <1>8 DEF Fork, checkVars
  <2>2. PICK p \in Unused, s \in Procs : /\ s.state = "running" /\ s.job = LineJob
                                         /\ proc' = [proc EXCEPT ![p] = s]
    BY <1>8, ForkStep
  <2>3. /\ Running' = Running \union {p} /\ proc'[p] = s /\ p \notin Running
        /\ \A q \in Pids \ {p} : proc'[q] = proc[q]
    BY <2>2, StartedOne DEF ShellInv, Children
  <2>4. \A id : Alive(id)' <=> Alive(id) \/ id = LineJob
    BY <2>2, <2>3 DEF Alive, Running
  <2>5. CASE Background
    <3>0. PICK id : id = job_number
      OBVIOUS
    <3>1. Live' = Live \union {id}
      BY <2>4, <2>5, <3>0, LiveAlive, NoneHidden DEF LineJob
    <3>2. Live \ Listed \subseteq {id} /\ id \notin Listed
      BY <3>0, LiveListed, NoneHidden
    <3>3. Table!Launch(id)
      BY <2>1, <3>1, <3>2 DEF Table!Launch, Live
    <3>4. id \in Live'
      BY <3>1
    <3> QED BY <3>3, <3>4, LaunchShows
  <2>6. CASE ~ Background
    <3>1. Live' = Live
      BY <2>4, <2>6, LiveAlive DEF LineJob
    <3> QED BY <2>1, <3>1 DEF Table!jobVars, Live
  <2> QED BY <2>5, <2>6
<1>9. CASE Parent
  <2>1. Harmless
    BY <1>9, KilledHarmless, SameHarmless DEF Parent, ShellInv
  <2> QED BY <1>0, <1>1, <1>9, <2>1 DEF Parent, checkVars
<1>10. CASE Launched
  <2>1. UNCHANGED <<proc, completed>>
    BY <1>10 DEF Launched
  <2>2. CASE ~ Background
    BY <1>2, <1>10, <2>1, <2>2, LaunchedInv
  <2>3. CASE Background
    <3>1. Listed' = Listed \union {job_number}
      BY <1>10, <2>3, LaunchedInv
    <3>2. Live' = Live
      BY <2>1 DEF Live, Running
    <3>3. Table!Start(job_number)
      BY <2>1, <3>1, <3>2, LiveListed, NoneHidden DEF Table!Start, Live
    <3>4. job_number \in Listed'
      BY <3>1
    <3> QED BY <3>3, <3>4 DEF Table!Next
  <2> QED BY <2>2, <2>3
<1>11. CASE Wait
  <2>1. Listed' = Listed /\ UNCHANGED completed
    BY <1>0, <1>11 DEF Wait, checkVars
  <2>2. proc' = proc \/ \E z \in Zombies : proc' = Reaped({z})
    BY <1>11 DEF Wait, Reapable
  <2>3. CASE proc' = proc
    BY <1>2, <2>1, <2>3
  <2>4. CASE \E z \in Zombies : proc' = Reaped({z})
    BY <2>1, <2>4, ReapedOwn, EndsAtMost DEF ShellInv
  <2> QED BY <2>2, <2>3, <2>4
<1>12. CASE \E p \in Pids : ProcessStep(p) /\ UNCHANGED shellVars
  BY <1>0, <1>1, <1>12, ProcessHarmless DEF shellVars, checkVars, ShellInv
<1>13. CASE UNCHANGED vars
  BY <1>0, <1>2, <1>13 DEF vars, shellVars, checkVars
<1> QED BY <1>3, <1>4, <1>5, <1>6, <1>7, <1>8, <1>9, <1>10, <1>11, <1>12, <1>13 DEF Next, ShellStep

\* Quash.KeepsJobTable: every job has an id of its own in the current list,
\* leaves it only by being reported, once, and is reported only when all of its
\* processes have ended (README.md, lines 315-316; execute.c, lines 110-148).
THEOREM JobTableIsKept ==
  ASSUME ~ ForkMayFail
  PROVE  Spec => KeepsJobTable
<1>1. Init => Table!Init
  <2> SUFFICES ASSUME Init  PROVE Table!Init
    OBVIOUS
  <2>1. Live = {}
    BY FreeType DEF Init, ProcInit, Live, Running
  <2>2. Listed = {}
    BY DEF Init, Listed, Jobs
  <2>3. completed = <<>>
    BY DEF Init
  <2> QED BY <2>1, <2>2, <2>3 DEF Table!Init, Live
<1>2. ShellInv /\ [Next]_vars => [Table!Next]_(Table!jobVars)
  BY TableStep
<1> QED BY <1>1, <1>2, ShellInvHolds, PTL DEF Spec, KeepsJobTable, Table!Spec
-----------------------------------------------------------------------------
\* What follows for the line, whatever its length.

\* The holders of a line are as cmds makes them, and only a foreground line is
\* waited for.  This holds whether fork fails or not.
LineInv ==
  /\ pc \in {"check", "create", "parent", "wait"} => Linked(script)
  /\ pc = "wait" => ~ Background

\* Quash.NeverWaitsForBackground: an & anywhere in a line, of any length, keeps
\* the shell from waiting for it (parse.y, line 113, and execute.c, line 462).
THEOREM BackgroundIsNotWaitedFor == Spec => []NeverWaitsForBackground
<1>1. Init => LineInv
  BY DEF Init, LineInv
<1>2. LineInv /\ [Next]_vars => LineInv'
  <2> SUFFICES ASSUME LineInv, [Next]_vars  PROVE LineInv'
    OBVIOUS
  <2> USE DEF LineInv, Background
  <2>1. ASSUME NEW line \in Lines, run_script(line)  PROVE LineInv'
    <3>1. line \in Seq(Command) /\ line # <<>>
      BY LinesAssumption
    <3> QED BY <2>1, <3>1, CmdsLinked DEF run_script
  <2>2. CASE EndOfInput \/ Return \/ CheckJob \/ CheckPid \/ CheckedJob
    BY <2>2 DEF EndOfInput, Return, CheckJob, CheckPid, CheckedJob, lineVars
  <2>3. CASE Checked \/ Fork \/ Parent
    BY <2>3 DEF Checked, Fork, Parent, lineVars
  <2>4. CASE Launched
    BY <2>4 DEF Launched, lineVars
  <2>5. CASE Wait \/ WaitDone
    BY <2>5 DEF Wait, WaitDone, lineVars
  <2>6. CASE UNCHANGED shellVars
    BY <2>6 DEF shellVars, lineVars
  <2> QED BY <2>1, <2>2, <2>3, <2>4, <2>5, <2>6 DEF Next, ShellStep, vars
<1>3. LineInv => NeverWaitsForBackground
  BY DEF LineInv, Background, Linked, NeverWaitsForBackground
<1> QED BY <1>1, <1>2, <1>3, PTL DEF Spec

\* A step that keeps the line, its processes and their pipes keeps them connected.
LEMMA ConnectedFrame ==
  ASSUME ShellInv, Connected, Harmless, pc' \in {"create", "parent"}, pc \in {"create", "parent"},
         UNCHANGED <<script, pid_q, pipes>>, Len(pipe') = Len(pipe)
  PROVE  Connected'
<1>1. \A k \in 1..Len(pid_q) : pid_q[k] \in Pids
  BY ElementOfSeq DEF ShellInv, Typed
<1>2. \A k \in 1..Len(pid_q) : /\ proc'[pid_q[k]].out = proc[pid_q[k]].out
                               /\ proc'[pid_q[k]].in = proc[pid_q[k]].in
  BY <1>1 DEF Harmless
<1>3. \A k \in 1..(Len(pid_q) - 1) : k \in 1..Len(pid_q) /\ k + 1 \in 1..Len(pid_q)
  BY LenProperties DEF ShellInv, Typed
<1>4. pid_q # <<>> => Len(pid_q) \in 1..Len(pid_q)
  BY EmptySeq DEF ShellInv, Typed
<1> QED BY <1>2, <1>3, <1>4 DEF Connected

\* The process that Fork makes reads the pipe of the one before it, and writes
\* to a pipe of its own.
LEMMA ForkConnected ==
  ASSUME ShellInv, ~ ForkMayFail, Connected, Fork
  PROVE  Connected'
<1> DEFINE n == Len(pid_q)
<1>1. /\ pc = "create" /\ pc' = "parent" /\ i = n /\ i < Len(script) /\ script' = script
      /\ i \in Nat /\ Len(script) \in Nat /\ Len(pipe) \in Nat /\ Linked(script)
      /\ pid_q \in Seq(Pids)
  BY LenProperties DEF Fork, lineVars, ShellInv, Typed, Phases
<1>2. PICK p \in Unused, s \in Procs :
              /\ s.state = "running" /\ s.in = Stdin(pipes') /\ s.out = Stdout(pipes')
              /\ proc' = [proc EXCEPT ![p] = s] /\ pid_q' = Append(pid_q, p)
  BY ForkStep
<1>3. p \in Pids /\ p \notin Children /\ proc'[p] = s /\ \A q \in Pids \ {p} : proc'[q] = proc[q]
  BY <1>2, StartedOne DEF ShellInv, Unused
<1>4. PICK t \in Seq(Pids) : t = pid_q'
  BY <1>1, <1>2, <1>3, AppendOn
<1>5. /\ Len(t) = n + 1 /\ t[n + 1] = p
      /\ \A k \in 1..n : t[k] = pid_q[k] /\ t[k] \in Pids /\ t[k] # p
  <2>1. Len(t) = n + 1 /\ t[n + 1] = p /\ \A k \in 1..n : t[k] = pid_q[k]
    BY <1>1, <1>2, <1>3, <1>4, AppendOn
  <2>2. \A k \in 1..n : pid_q[k] \in Children /\ pid_q[k] \in Pids
    BY <1>1, ElementOfSeq DEF ShellInv, AllOwn, Own
  <2> QED BY <1>3, <2>1, <2>2
<1>6. \A k \in 1..n : proc'[t[k]] = proc[pid_q[k]]
  BY <1>3, <1>5
<1>7. proc'[t[n + 1]] = s
  BY <1>3, <1>5
<1>8. /\ n < Len(script) - 1 => Has("PIPE_OUT") /\ ~ Has("REDIRECT_OUT")
      /\ n > 0 => Has("PIPE_IN") /\ ~ Has("REDIRECT_IN")
  <2>1. n < Len(script) - 1 => n + 1 \in 1..(Len(script) - 1)
    BY <1>1
  <2>2. n > 0 => n \in 1..(Len(script) - 1)
    BY <1>1
  <2> QED BY <1>1, <2>1, <2>2 DEF Linked, Has, Holder
<1>9. /\ i % 2 \in 0..1 /\ (i + 1) % 2 \in 0..1 /\ i % 2 # (i + 1) % 2
      /\ pipes \in [0..1 -> Nat]
  <2>1. \A m \in Nat : m % 2 \in 0..1 /\ m % 2 # (m + 1) % 2
    OBVIOUS
  <2>2. i + 1 \in Nat
    BY <1>1
  <2> QED BY <1>1, <2>1, <2>2 DEF ShellInv, Typed
<1>10. /\ pipes'[(i + 1) % 2] = pipes[(i + 1) % 2]
       /\ Has("PIPE_OUT") => pipes'[i % 2] = Len(pipe) + 1 /\ Len(pipe') = Len(pipe) + 1
       /\ Len(pipe') \in Nat /\ Len(pipe') >= Len(pipe)
  <2>1. IF Has("PIPE_OUT")
        THEN pipes' = [pipes EXCEPT ![i % 2] = Len(pipe) + 1] /\ Len(pipe') = Len(pipe) + 1
        ELSE pipes' = pipes /\ Len(pipe') = Len(pipe)
    BY ForkStep
  <2> QED BY <1>1, <1>9, <2>1
<1>11. n > 0 => s.in = pipes[(n + 1) % 2]
  BY <1>1, <1>2, <1>8, <1>10 DEF Stdin, ReadEnd
<1>12. n < Len(script) - 1 => s.out = Len(pipe) + 1 /\ s.out = pipes'[n % 2] /\ Len(pipe') = Len(pipe) + 1
  BY <1>1, <1>2, <1>8, <1>10 DEF Stdout
<1>13. /\ \A k \in 1..n : k < Len(script) => proc[pid_q[k]].out \in 1..Len(pipe)
       /\ \A k, m \in 1..n : k < m /\ m < Len(script) => proc[pid_q[k]].out < proc[pid_q[m]].out
       /\ \A k \in 1..(n - 1) : proc[pid_q[k]].out = proc[pid_q[k + 1]].in
       /\ n > 0 => pipes[(n + 1) % 2] = proc[pid_q[n]].out
  <2>1. n > 0 => pid_q # <<>>
    BY EmptySeq
  <2> QED BY <1>1, <2>1 DEF Connected
<1> HIDE DEF n
<1>14. n \in Nat /\ n < Len(script)
  BY <1>1
<1>15. ASSUME NEW k \in 1..(n + 1), k < Len(script)  PROVE proc'[t[k]].out \in 1..Len(pipe')
  <2>1. CASE k \in 1..n
    <3>1. proc[pid_q[k]].out \in 1..Len(pipe)
      BY <1>13, <1>15, <2>1
    <3>2. proc[pid_q[k]].out \in 1..Len(pipe')
      BY <1>1, <1>10, <3>1
    <3> QED BY <1>6, <2>1, <3>2
  <2>2. CASE k = n + 1
    BY <1>1, <1>7, <1>10, <1>12, <1>14, <1>15, <2>2
  <2> QED BY <1>14, <2>1, <2>2
<1>16. ASSUME NEW k \in 1..(n + 1), NEW m \in 1..(n + 1), k < m, m < Len(script)
       PROVE  proc'[t[k]].out < proc'[t[m]].out
  <2>1. k \in 1..n
    BY <1>14, <1>16
  <2>2. CASE m \in 1..n
    BY <1>6, <1>13, <1>16, <2>1, <2>2
  <2>3. CASE m = n + 1
    <3>1. proc[pid_q[k]].out \in 1..Len(pipe) /\ s.out = Len(pipe) + 1
      BY <1>1, <1>12, <1>13, <1>14, <1>16, <2>1, <2>3
    <3>2. proc'[t[k]].out = proc[pid_q[k]].out /\ proc'[t[m]].out = s.out
      BY <1>6, <1>7, <2>1, <2>3
    <3>3. proc[pid_q[k]].out < s.out
      BY <1>1, <3>1
    <3> QED BY <3>2, <3>3
  <2> QED BY <1>14, <2>2, <2>3
<1>17. ASSUME NEW k \in 1..n  PROVE proc'[t[k]].out = proc'[t[k + 1]].in
  <2>1. CASE k < n
    <3>1. k \in 1..(n - 1) /\ k + 1 \in 1..n
      BY <1>14, <2>1
    <3> QED BY <1>6, <1>13, <3>1
  <2>2. CASE k = n
    BY <1>6, <1>7, <1>11, <1>13, <1>14, <2>2
  <2> QED BY <1>14, <2>1, <2>2
<1>18. n + 1 < Len(script) => pipes'[(n + 1 + 1) % 2] = proc'[t[n + 1]].out
  <2>1. (n + 1 + 1) % 2 = n % 2
    BY <1>14
  <2> QED BY <1>1, <1>7, <1>12, <1>14, <2>1
<1>19. Len(t) - 1 = n
  BY <1>5, <1>14
<1> QED BY <1>1, <1>4, <1>5, <1>15, <1>16, <1>17, <1>18, <1>19 DEF Connected

\* Every step keeps the processes of the line connected.
LEMMA ConnectedStep ==
  ASSUME ShellInv, ~ ForkMayFail, Connected, [Next]_vars
  PROVE  Connected'
<1>1. CASE \E line \in Lines : run_script(line)
  BY <1>1 DEF run_script, Connected
<1>2. CASE EndOfInput \/ Return \/ CheckJob \/ CheckPid \/ CheckedJob
  BY <1>2 DEF EndOfInput, Return, CheckJob, CheckPid, CheckedJob, Connected
<1>3. CASE Checked
  <2>1. pid_q' = <<>>
    BY <1>3 DEF Checked, ShellInv, Phases
  <2>2. Len(pid_q') = 0
    BY <2>1
  <2> QED BY <2>1, <2>2 DEF Connected
<1>4. CASE Fork
  BY <1>4, ForkConnected
<1>5. CASE Parent
  <2>1. Harmless /\ Len(pipe') = Len(pipe)
    BY <1>5, KilledHarmless, SameHarmless, WithoutWriterType DEF Parent, CloseWriteEnd, ShellInv
  <2> QED BY <1>5, <2>1, ConnectedFrame DEF Parent, lineVars
<1>6. CASE Launched \/ Wait \/ WaitDone
  BY <1>6 DEF Launched, Wait, WaitDone, Connected
<1>7. CASE \E p \in Pids : ProcessStep(p) /\ UNCHANGED shellVars
  <2>1. Harmless /\ Len(pipe') = Len(pipe) /\ UNCHANGED shellVars
    BY <1>7, ProcessHarmless DEF ShellInv
  <2> QED BY <2>1, ConnectedFrame DEF shellVars, lineVars, Connected
<1>8. CASE UNCHANGED vars
  BY <1>8 DEF vars, shellVars, lineVars, Connected
<1> QED BY <1>1, <1>2, <1>3, <1>4, <1>5, <1>6, <1>7, <1>8 DEF Next, ShellStep

\* Quash.PipesConnect: each process of a line, of any length, reads the pipe
\* that the one before it writes, although the shell remembers two pipes only
\* (execute.c, lines 386-405).
THEOREM PipesAreConnected ==
  ASSUME ~ ForkMayFail
  PROVE  Spec => []PipesConnect
<1>1. Init => Connected
  BY DEF Init, Connected
<1>2. ShellInv /\ Connected /\ [Next]_vars => Connected'
  BY ConnectedStep
<1>3. ShellInv /\ Connected => PipesConnect
  <2> SUFFICES ASSUME ShellInv, Connected, pc = "create", NEW k \in 1..(Len(pid_q) - 1)
               PROVE  /\ proc[pid_q[k]].out # NoPipe /\ proc[pid_q[k]].out = proc[pid_q[k + 1]].in
                      /\ \A n \in 1..(k - 1) : proc[pid_q[n]].out # proc[pid_q[k]].out
    BY DEF PipesConnect
  <2>1. Len(pid_q) \in Nat /\ Len(pid_q) <= Len(script) /\ Len(script) \in Nat /\ Len(pipe) \in Nat
    BY LenProperties DEF ShellInv, Typed, Phases
  <2>2. k \in 1..Len(pid_q) /\ k < Len(script) /\ \A n \in 1..(k - 1) : n \in 1..Len(pid_q) /\ n < k
    BY <2>1
  <2>3. proc[pid_q[k]].out \in 1..Len(pipe) /\ proc[pid_q[k]].out = proc[pid_q[k + 1]].in
    BY <2>2 DEF Connected
  <2>4. ASSUME NEW n \in 1..(k - 1)  PROVE proc[pid_q[n]].out # proc[pid_q[k]].out
    <3>1. n \in 1..Len(pid_q) /\ n < k /\ n < Len(script)
      BY <2>1, <2>2
    <3>2. proc[pid_q[n]].out < proc[pid_q[k]].out /\ proc[pid_q[n]].out \in 1..Len(pipe)
      BY <2>2, <3>1 DEF Connected
    <3>3. \A a, b \in 1..Len(pipe) : a < b => a # b
      BY <2>1
    <3> QED BY <2>3, <3>2, <3>3
  <2> QED BY <2>1, <2>3, <2>4 DEF NoPipe
<1> QED BY <1>1, <1>2, <1>3, ShellInvHolds, PTL DEF Spec
=============================================================================
