---------------------------- MODULE PriorityList ----------------------------
(***************************************************************************)
(* What libpriqueue promises, on sequences: the queue is kept ordered by   *)
(* its comparer and an element goes behind the elements it ties with.      *)
(* Scheduler uses this operator for m_job_queue; module PriQueue has the   *)
(* linked list that implements it.                                         *)
(***************************************************************************)
EXTENDS Lists

\* Mutants: always behind the last, and before the elements it ties with.
OfferIndices_AtEnd(cmps) == {Len(cmps) + 1}
OfferIndices_TiesFirst(cmps) ==
  {k \in 1..(Len(cmps) + 1) : /\ \A i \in 1..(k - 1) : cmps[i] > 0
                              /\ k <= Len(cmps) => cmps[k] <= 0}

\* Where priqueue_offer links a new element, given what the comparer says of
\* the new element against each element already queued: before the first one
\* it precedes strictly, or behind the last. Exactly one index qualifies.
OfferIndices(cmps) ==
  {k \in 1..(Len(cmps) + 1) : /\ \A i \in 1..(k - 1) : cmps[i] >= 0
                              /\ k <= Len(cmps) => cmps[k] < 0}
=============================================================================
