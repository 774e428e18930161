--------------------------- MODULE PriorityQueue ---------------------------
(***************************************************************************)
(* What libpriqueue documents of a priority queue, with no nodes: the      *)
(* queue is a sequence and every function answers from it.                 *)
(***************************************************************************)
EXTENDS PriorityList

CONSTANTS
  Objects,  \* what the caller's pointers point to
  Compare,  \* the comparer: Compare[x, y] < 0 when x goes before y
  MaxSize,  \* bound on the queue, for model checking
  NULL

VARIABLES
  queue,     \* the queued objects
  removing,  \* the call of Remove in progress, or NULL
  ret        \* what the last call returned

queueVars == <<queue, removing, ret>>

Valid(index) == index \in 0..(Len(queue) - 1)
At(index) == IF Valid(index) THEN queue[index + 1] ELSE NULL

Init == queue = <<>> /\ removing = NULL /\ ret = NULL

\* peek and at, and size.
Read ==
  /\ removing = NULL
  /\ ret' \in {At(index) : index \in -1..MaxSize} \union {Len(queue)}
  /\ UNCHANGED <<queue, removing>>

Offer(ptr) ==
  /\ removing = NULL /\ Len(queue) < MaxSize
  /\ \E k \in OfferIndices([i \in 1..Len(queue) |-> Compare[ptr, queue[i]]]) :
       queue' = Link(queue, k, ptr) /\ ret' = k - 1
  /\ UNCHANGED removing

\* Also poll, which removes at 0.
RemoveAt(index) ==
  /\ removing = NULL
  /\ queue' = IF Valid(index) THEN Unlink(queue, index + 1) ELSE queue
  /\ ret' = At(index)
  /\ UNCHANGED removing

Remove(ptr) ==
  /\ removing = NULL
  /\ removing' = [ptr |-> ptr, count |-> 0]
  /\ UNCHANGED <<queue, ret>>

RemoveFirst ==
  /\ removing # NULL
  /\ \E k \in 1..Len(queue) :
       /\ queue[k] = removing.ptr /\ \A i \in 1..(k - 1) : queue[i] # removing.ptr
       /\ queue' = Unlink(queue, k)
  /\ removing' = [removing EXCEPT !.count = @ + 1]
  /\ UNCHANGED ret

\* Remove returns how many it removed, when no instance is left.
RemoveReturn ==
  /\ removing # NULL
  /\ \A k \in 1..Len(queue) : queue[k] # removing.ptr
  /\ ret' = removing.count
  /\ removing' = NULL
  /\ UNCHANGED queue

Destroy == removing = NULL /\ queue' = <<>> /\ UNCHANGED <<removing, ret>>

Next ==
  \/ Read
  \/ \E ptr \in Objects : Offer(ptr) \/ Remove(ptr)
  \/ \E index \in -1..MaxSize : RemoveAt(index)
  \/ RemoveFirst
  \/ RemoveReturn
  \/ Destroy

Spec == Init /\ [][Next]_queueVars /\ WF_queueVars(RemoveFirst \/ RemoveReturn)
=============================================================================
