---------------------------- MODULE MCComponents ----------------------------
(***************************************************************************)
(* The programs that run alone, for TLC.  They share no state, and a       *)
(* behaviour exercises one of them: the command lines of Quash; the        *)
(* priority queue with up to four of three objects, two of which tie;      *)
(* rings of up to six slots, from every offset; pools of a few bytes; a    *)
(* cache of four lines; and an ALU of eight bits.                          *)
(***************************************************************************)
EXTENDS MCQuash, PriQueue, Deque, MemoryPool, MCCache, MCALU

CONSTANTS n1, n2, n3, n4, a, b, c

MCNodes == {n1, n2, n3, n4}
MCObjects == {a, b, c}
MCRank == a :> 1 @@ b :> 1 @@ c :> 2
MCCompare == [p \in MCObjects \X MCObjects |-> MCRank[p[1]] - MCRank[p[2]]]
-----------------------------------------------------------------------------
VARIABLE part  \* the component at work

simpleVars == <<queueVars, dequeVars, poolVars, cacheVars, aluVars>>
allVars == <<vars, simpleVars, part>>

MCInit ==
  /\ Init /\ priqueue_init /\ DequeInit /\ PoolInit /\ buildCache /\ ALUInit
  /\ part \in {"shell", "queue", "deque", "pool", "cache", "alu"}

\* A step of the shell or of its processes.
InShell(A) == part = "shell" /\ A /\ UNCHANGED <<simpleVars, part>>
QueueStep == part = "queue" /\ QueueNext
DequeStep == part = "deque" /\ DequeNext
PoolStep == part = "pool" /\ PoolNext
CacheStep == part = "cache" /\ CacheNext
ALUStep == part = "alu" /\ ALUNext

MCNext ==
  \/ InShell(Next)
  \/ QueueStep /\ UNCHANGED <<vars, dequeVars, poolVars, cacheVars, aluVars, part>>
  \/ DequeStep /\ UNCHANGED <<vars, queueVars, poolVars, cacheVars, aluVars, part>>
  \/ PoolStep /\ UNCHANGED <<vars, queueVars, dequeVars, cacheVars, aluVars, part>>
  \/ CacheStep /\ UNCHANGED <<vars, queueVars, dequeVars, poolVars, aluVars, part>>
  \/ ALUStep /\ UNCHANGED <<vars, queueVars, dequeVars, poolVars, cacheVars, part>>

\* With the fairness of the shell, its processes, and the loops of the others.
MCSpec ==
  /\ MCInit /\ [][MCNext]_allVars
  /\ WF_allVars(InShell(ShellStep))
  /\ \A p \in Pids : WF_allVars(InShell(ProcessStep(p) /\ UNCHANGED shellVars))
  /\ WF_allVars(Removing /\ UNCHANGED <<vars, dequeVars, poolVars, cacheVars, aluVars, part>>)
  /\ WF_allVars(Iteration /\ UNCHANGED <<vars, queueVars, dequeVars, cacheVars, aluVars, part>>)
=============================================================================
