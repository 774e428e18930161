----------------------------- MODULE Allocator -----------------------------
(***************************************************************************)
(* What the buddy allocator promises its callers, with no free lists: a    *)
(* request is granted an aligned block of the smallest order that holds    *)
(* it, apart from every block still held, and is refused only when memory  *)
(* has no such block left.                                                 *)
(***************************************************************************)
EXTENDS BuddyBlocks

CONSTANTS
  Sizes,     \* the sizes callers ask for, in bytes
  NoRequest

VARIABLES
  held,     \* the blocks callers hold: first page -> order
  request   \* the size of the request in progress, or NoRequest

allocatorVars == <<held, request>>

\* o is the smallest order whose blocks hold size bytes.
Fits(size, o) == Bytes[o] >= size /\ (o > MIN_ORDER => Bytes[o - 1] < size)

\* The aligned blocks of order o that no caller holds a page of.
Available(o) ==
  {p \in Pages : /\ p % Span(o) = 0
                 /\ \A q \in DOMAIN held : Block(p, o) \cap Block(q, held[q]) = {}}

Init == held = [p \in {} |-> 0] /\ request = NoRequest

Ask(size) == request = NoRequest /\ request' = size /\ UNCHANGED held

Grant ==
  /\ request # NoRequest
  /\ \E o \in Orders : \E p \in Available(o) :
       /\ Fits(request, o)
       /\ held' = [q \in DOMAIN held \union {p} |-> IF q = p THEN o ELSE held[q]]
  /\ request' = NoRequest

Refuse ==
  /\ request # NoRequest
  /\ \A o \in Orders : Fits(request, o) => Available(o) = {}
  /\ request' = NoRequest
  /\ UNCHANGED held

Release(p) ==
  /\ request = NoRequest
  /\ held' = [q \in DOMAIN held \ {p} |-> held[q]]
  /\ UNCHANGED request

Next ==
  \/ \E size \in Sizes : Ask(size)
  \/ Grant
  \/ Refuse
  \/ \E p \in DOMAIN held : Release(p)

\* Every request is answered; callers need neither ask nor release.
Spec == Init /\ [][Next]_allocatorVars /\ WF_allocatorVars(Grant \/ Refuse)
=============================================================================
