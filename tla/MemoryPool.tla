----------------------------- MODULE MemoryPool -----------------------------
(***************************************************************************)
(* The parser's allocator, shell_simulation/src/parsing/memory_pool.c:     *)
(* blocks are cut off pools, which only grow and are freed all at once.    *)
(* One action per call and, within memory_pool_alloc and the last ditch    *)
(* effort when malloc fails, per iteration.  A block is                    *)
(* [pool, from, size]: which pool, and where in it.                        *)
(***************************************************************************)
EXTENDS Integers, Sequences, SequencesExt

CONSTANTS
  InitSizes,       \* sizes main may initialize the pool with
  Sizes,           \* sizes the parser asks for
  MaxPools,        \* bound: no call begins with more pools
  MallocMayFail    \* whether malloc may return NULL

ASSUME SizesAssumption == InitSizes \subseteq Nat /\ Sizes \subseteq Nat

VARIABLES
  pool_deq,    \* the pools, oldest first; a pool without memory has size 0
  stage,       \* "none", "ready", "alloc", "low", or "exited"
  size,        \* what the call in progress asks for, and at least needs
  failed_requested_size,
  blocks       \* what the parser has been given, for the properties

poolVars == <<pool_deq, stage, size, failed_requested_size, blocks>>

Pool(n) == [size |-> n, next |-> 0]
Push(n) == pool_deq' = Append(pool_deq, Pool(n))
-----------------------------------------------------------------------------
PoolInit ==
  /\ pool_deq = <<>> /\ stage = "none" /\ blocks = {}
  /\ size = 0 /\ failed_requested_size = 0

\* The first pool; the attempts after a failure are those of LowMemory.
initialize_memory_pool(n) ==
  LET init == IF n = 0 THEN 1 ELSE n
  IN /\ stage = "none"
     /\ \/ Push(init) /\ stage' = "ready" /\ UNCHANGED <<size, failed_requested_size>>
        \/ /\ MallocMayFail
           /\ stage' = "low" /\ size' = 1 /\ failed_requested_size' = init
           /\ pool_deq' = pool_deq
     /\ UNCHANGED blocks

memory_pool_alloc(n) ==
  /\ stage = "ready" /\ Len(pool_deq) <= MaxPools
  /\ stage' = "alloc" /\ size' = n
  /\ UNCHANGED <<pool_deq, failed_requested_size, blocks>>

\* Mutants: the end of the pool is off by one; nothing stands for a size that
\* is too small, so that the next is no larger.
Fits_OffByOne == Last(pool_deq).next + size <= Last(pool_deq).size + 1
Skip_Nothing == pool_deq' = pool_deq

Fits == Last(pool_deq).next + size <= Last(pool_deq).size
NewPoolSize == pool_deq[1].size * 2 ^ Len(pool_deq)
Skip == Push(0)

\* Another pool, or one without memory when not even that would be enough.
NewPool ==
  /\ stage = "alloc" /\ ~ Fits
  /\ \/ NewPoolSize < size /\ Skip /\ UNCHANGED <<stage, failed_requested_size>>
     \/ NewPoolSize >= size /\ Push(NewPoolSize) /\ UNCHANGED <<stage, failed_requested_size>>
     \/ /\ MallocMayFail /\ NewPoolSize >= size
        /\ stage' = "low" /\ failed_requested_size' = NewPoolSize
        /\ pool_deq' = pool_deq
  /\ UNCHANGED <<size, blocks>>

Advanced == [pool_deq EXCEPT ![Len(pool_deq)].next = Last(pool_deq).next + size]

AllocReturn ==
  /\ stage = "alloc" /\ Fits
  /\ blocks' = blocks \union
       {[pool |-> Len(pool_deq), from |-> Last(pool_deq).next, size |-> size]}
  /\ pool_deq' = Advanced
  /\ stage' = "ready"
  /\ UNCHANGED <<size, failed_requested_size>>

Halved == IF failed_requested_size \div 2 < size THEN size ELSE failed_requested_size \div 2

\* One attempt with half as much; the program exits when there is no less to try.
LowMemory ==
  /\ stage = "low"
  /\ \/ failed_requested_size <= size /\ stage' = "exited" /\ UNCHANGED <<pool_deq, failed_requested_size>>
     \/ /\ failed_requested_size > size
        /\ failed_requested_size' = Halved
        /\ \/ /\ Push(Halved)
              /\ stage' = IF pool_deq = <<>> THEN "ready" ELSE "alloc"
           \/ pool_deq' = pool_deq /\ stage' = stage
  /\ UNCHANGED <<size, blocks>>

destroy_memory_pool ==
  /\ stage = "ready"
  /\ pool_deq' = <<>> /\ blocks' = {} /\ stage' = "none"
  /\ UNCHANGED <<size, failed_requested_size>>

Iteration == NewPool \/ AllocReturn \/ LowMemory

PoolNext ==
  \/ \E n \in InitSizes : initialize_memory_pool(n)
  \/ \E n \in Sizes : memory_pool_alloc(n)
  \/ Iteration
  \/ destroy_memory_pool

PoolSpec == PoolInit /\ [][PoolNext]_poolVars /\ WF_poolVars(Iteration)
-----------------------------------------------------------------------------
\* Properties.

\* No two blocks share a byte, and none reaches beyond its pool.
BlocksApart ==
  /\ \A b \in blocks : b.from + b.size <= pool_deq[b.pool].size
  /\ \A b, c \in blocks :
       b.pool = c.pool /\ b # c => b.from + b.size <= c.from \/ c.from + c.size <= b.from

\* A call returns or the program exits, for every size asked for.
Returns == (stage \in {"alloc", "low"}) ~> (stage \in {"ready", "exited"})
=============================================================================
