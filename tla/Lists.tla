------------------------------- MODULE Lists -------------------------------
(***************************************************************************)
(* Linking an element into a list and unlinking one, on sequences: what    *)
(* the pointer assignments of libpriqueue (singly linked) and of list.h    *)
(* (circular, doubly linked) do to the order of the elements.              *)
(***************************************************************************)
EXTENDS Integers, Sequences

\* q with x linked in as its k-th element.
Link(q, k, x) ==
  [i \in 1..(Len(q) + 1) |-> IF i < k THEN q[i] ELSE IF i = k THEN x ELSE q[i - 1]]

\* q with its k-th element unlinked.
Unlink(q, k) == [i \in 1..(Len(q) - 1) |-> IF i < k THEN q[i] ELSE q[i + 1]]
=============================================================================
