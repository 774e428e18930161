------------------------------ MODULE PriQueue ------------------------------
(***************************************************************************)
(* scheduler/src/libpriqueue/libpriqueue.c: a singly linked list and its   *)
(* size.  A node is an address that malloc returns.  One action per        *)
(* function, and one per iteration of the loops of priqueue_remove.        *)
(***************************************************************************)
EXTENDS Integers, Sequences, FiniteSets

CONSTANTS
  Nodes,    \* the addresses malloc can return
  Objects,  \* what the caller's pointers point to
  Compare,  \* the comparer: Compare[x, y] < 0 when x goes before y
  MaxSize,  \* bound on the queue, for model checking
  NULL

\* The comparer orders the objects, ties allowed.
ASSUME CompareAssumption ==
  /\ Compare \in [Objects \X Objects -> Int]
  /\ \A x, y \in Objects : Compare[x, y] < 0 <=> Compare[y, x] > 0
  /\ \A x, y, z \in Objects : Compare[x, y] <= 0 /\ Compare[y, z] <= 0 => Compare[x, z] <= 0
ASSUME NullAssumption == NULL \notin Objects \union Nodes
\* NULL is no record of a call either.
ASSUME NullCallAssumption ==
  NULL \notin [ptr : Objects, num_elements_deleted : Nat, find_remove : Nodes \union {NULL}]
                \union [ptr : Objects, count : Nat]
ASSUME MaxSizeAssumption == MaxSize \in Nat /\ MaxSize <= Cardinality(Nodes)

VARIABLES
  m_size, m_head,  \* of the priqueue_t
  node,            \* the allocated nodes: m_object and m_next
  remove,          \* the locals of priqueue_remove while it runs, or NULL
  ret              \* what the last call returned

queueVars == <<m_size, m_head, node, remove, ret>>

\* The node that index steps along m_next from m_head lead to.
Walk[index \in 0..MaxSize] == IF index = 0 THEN m_head ELSE node[Walk[index - 1]].m_next

Promise == INSTANCE PriorityQueue WITH
             queue <- [i \in 1..m_size |-> node[Walk[i - 1]].m_object],
             removing <- IF remove = NULL THEN NULL
                         ELSE [ptr |-> remove.ptr, count |-> remove.num_elements_deleted]

Ready == remove = NULL
-----------------------------------------------------------------------------
\* The nodes with a new one at n, and without the one at n.
new_node(n, ptr, next) ==
  [m \in DOMAIN node \union {n} |->
     IF m = n THEN [m_object |-> ptr, m_next |-> next] ELSE node[m]]

free(n) == [m \in DOMAIN node \ {n} |-> node[m]]

priqueue_init ==
  /\ m_size = 0 /\ m_head = NULL /\ node = [n \in {} |-> NULL]
  /\ remove = NULL /\ ret = NULL

\* Mutant: ties go first.
Stops_TiesFirst(ptr, n) ==
  node[n].m_next # NULL => Compare[ptr, node[node[n].m_next].m_object] <= 0

\* The walk of priqueue_offer stops at a node whose successor is NULL or goes
\* behind ptr.
Stops(ptr, n) ==
  node[n].m_next # NULL => Compare[ptr, node[node[n].m_next].m_object] < 0

priqueue_offer(ptr, n) ==
  /\ Ready /\ m_size < MaxSize
  /\ n \notin DOMAIN node
  /\ \/ /\ m_size # 0 => Compare[ptr, node[m_head].m_object] < 0
        /\ node' = new_node(n, ptr, IF m_size = 0 THEN NULL ELSE m_head)
        /\ m_head' = n
        /\ ret' = 0
     \/ /\ m_size # 0 /\ Compare[ptr, node[m_head].m_object] >= 0
        /\ \E i \in 0..(m_size - 1) :
             /\ Stops(ptr, Walk[i]) /\ \A k \in 0..(i - 1) : ~ Stops(ptr, Walk[k])
             /\ node' = [new_node(n, ptr, node[Walk[i]].m_next) EXCEPT ![Walk[i]].m_next = n]
             /\ ret' = i + 1
        /\ UNCHANGED m_head
  /\ m_size' = m_size + 1
  /\ UNCHANGED remove

priqueue_peek ==
  /\ Ready
  /\ ret' = IF m_size = 0 THEN NULL ELSE node[m_head].m_object
  /\ UNCHANGED <<m_size, m_head, node, remove>>

\* The head's node is freed and its object handed over.
TakeHead ==
  /\ m_head' = node[m_head].m_next
  /\ node' = free(m_head)
  /\ m_size' = m_size - 1

priqueue_poll ==
  /\ Ready
  /\ \/ m_size = 0 /\ ret' = NULL /\ UNCHANGED <<m_size, m_head, node>>
     \/ m_size # 0 /\ ret' = node[m_head].m_object /\ TakeHead
  /\ UNCHANGED remove

priqueue_at(index) ==
  /\ Ready
  /\ ret' = IF index < 0 \/ index >= m_size THEN NULL ELSE node[Walk[index]].m_object
  /\ UNCHANGED <<m_size, m_head, node, remove>>

\* Mutant: m_size is not decremented.
TakeNext_Uncounted(n) ==
  LET del_node == node[n].m_next
  IN /\ node' = [free(del_node) EXCEPT ![n].m_next = node[del_node].m_next]
     /\ UNCHANGED <<m_size, m_head>>

\* The node behind n is unlinked and freed.
TakeNext(n) ==
  LET del_node == node[n].m_next
  IN /\ node' = [free(del_node) EXCEPT ![n].m_next = node[del_node].m_next]
     /\ m_size' = m_size - 1
     /\ UNCHANGED m_head

priqueue_remove_at(index) ==
  /\ Ready
  /\ \/ /\ index < 0 \/ index >= m_size
        /\ ret' = NULL
        /\ UNCHANGED <<m_size, m_head, node>>
     \/ index = 0 /\ m_size > 0 /\ ret' = node[m_head].m_object /\ TakeHead
     \/ index > 0 /\ index < m_size /\ ret' = node[Walk[index]].m_object /\ TakeNext(Walk[index - 1])
  /\ UNCHANGED remove

priqueue_remove(ptr) ==
  /\ Ready
  /\ remove' = [ptr |-> ptr, num_elements_deleted |-> 0, find_remove |-> NULL]
  /\ UNCHANGED <<m_size, m_head, node, ret>>

\* The first loop, which polls while ptr is at the head.
RemoveAtHead ==
  /\ ~ Ready /\ remove.find_remove = NULL
  /\ m_size > 0 /\ node[m_head].m_object = remove.ptr
  /\ TakeHead
  /\ remove' = [remove EXCEPT !.num_elements_deleted = @ + 1]
  /\ UNCHANGED ret

\* It ends: the second loop starts at the head, unless the list is empty.
HeadDone ==
  /\ ~ Ready /\ remove.find_remove = NULL
  /\ m_size > 0 /\ node[m_head].m_object # remove.ptr
  /\ remove' = [remove EXCEPT !.find_remove = m_head]
  /\ UNCHANGED <<m_size, m_head, node, ret>>

\* The second loop stays where it is when it removes the node behind, and
\* steps on otherwise.
RemoveBehind ==
  /\ ~ Ready /\ remove.find_remove # NULL
  /\ LET next == node[remove.find_remove].m_next
     IN /\ next # NULL
        /\ \/ /\ node[next].m_object = remove.ptr
              /\ TakeNext(remove.find_remove)
              /\ remove' = [remove EXCEPT !.num_elements_deleted = @ + 1]
           \/ /\ node[next].m_object # remove.ptr
              /\ remove' = [remove EXCEPT !.find_remove = next]
              /\ UNCHANGED <<m_size, m_head, node>>
  /\ UNCHANGED ret

RemoveReturn ==
  /\ ~ Ready
  /\ IF remove.find_remove = NULL THEN m_size = 0 ELSE node[remove.find_remove].m_next = NULL
  /\ ret' = remove.num_elements_deleted
  /\ remove' = NULL
  /\ UNCHANGED <<m_size, m_head, node>>

priqueue_size ==
  /\ Ready
  /\ ret' = m_size
  /\ UNCHANGED <<m_size, m_head, node, remove>>

\* Polls until m_size is zero.
priqueue_destroy ==
  /\ Ready
  /\ m_size' = 0
  /\ m_head' = IF m_size = 0 THEN m_head ELSE node[Walk[m_size - 1]].m_next
  /\ node' = [n \in DOMAIN node \ {Walk[i] : i \in 0..(m_size - 1)} |-> node[n]]
  /\ UNCHANGED <<remove, ret>>

Removing == RemoveAtHead \/ HeadDone \/ RemoveBehind \/ RemoveReturn

QueueNext ==
  \/ \E ptr \in Objects, n \in Nodes : priqueue_offer(ptr, n)
  \/ \E ptr \in Objects : priqueue_remove(ptr)
  \/ \E index \in -1..MaxSize : priqueue_at(index) \/ priqueue_remove_at(index)
  \/ priqueue_peek
  \/ priqueue_poll
  \/ priqueue_size
  \/ priqueue_destroy
  \/ Removing

QueueSpec == priqueue_init /\ [][QueueNext]_queueVars /\ WF_queueVars(Removing)
-----------------------------------------------------------------------------
\* Properties.

\* m_next leads from m_head through m_size different allocated nodes to NULL,
\* and to every allocated node: no function leaves a dangling pointer, a
\* cycle, a wrong size or a leaked node.
ListOK ==
  /\ \A i \in 0..(m_size - 1) : Walk[i] \in DOMAIN node
  /\ Walk[m_size] = NULL
  /\ DOMAIN node = {Walk[i] : i \in 0..(m_size - 1)}
  /\ Cardinality(DOMAIN node) = m_size

\* Every function answers as if the queue were a sequence.
IsPriorityQueue == Promise!Spec
=============================================================================
