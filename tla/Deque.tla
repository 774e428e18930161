-------------------------------- MODULE Deque --------------------------------
(***************************************************************************)
(* The ring buffer of shell_simulation/src/deque.h: cap slots of which one *)
(* stays empty, the elements from front up to back, modulo cap.  A macro   *)
(* there defines these functions for a type; the variant of                *)
(* parsing/memory_pool.h differs only in where the slots are allocated.    *)
(*                                                                         *)
(* The asserts and the abort of a pop from an empty deque are the guards:  *)
(* the callers must not run into them.  destroy of a deque that was given  *)
(* up already does nothing.                                                *)
(***************************************************************************)
EXTENDS Integers, Sequences

CONSTANTS
  Values,     \* the elements
  Junk,       \* what malloc leaves in a slot
  InitCaps,   \* initial capacities
  MaxLength   \* bound: nothing is pushed on a deque of this length

ASSUME ValuesAssumption == Junk \notin Values
ASSUME CapsAssumption == InitCaps \subseteq Nat /\ MaxLength \in Nat

VARIABLES
  data,         \* the slots 0..cap-1, or NoData
  cap, front, back,
  destructor,   \* whether there is one
  last          \* the last call, and what it returned or passed to a function

ring == <<data, cap, front, back>>
dequeVars == <<data, cap, front, back, destructor, last>>

NoData == <<>>
Valid == data # NoData

Did(call, result) == last' = [call |-> call, result |-> result]
-----------------------------------------------------------------------------
\* Helpers.

\* back - front + cap is not negative: size_t and Int agree.
length == (back - front + cap) % cap
is_empty == front = back

\* The element i places behind the front, and all of them.
Slot(i) == data[(front + i) % cap]
Elements == [k \in 1..length |-> Slot(k - 1)]

malloc(n) == [i \in 0..(n - 1) |-> Junk]

\* Mutant: the slot before the first is not the last one.
Before_NoWrap(i, c) == i - 1

\* The slot before slot i of c.
Before(i, c) == (i + c - 1) % c

\* __reallign: the elements from slot 0 on.
Realigned ==
  IF front = 0 THEN data
  ELSE [i \in 0..(cap - 1) |-> IF i < length THEN Slot(i) ELSE Junk]

\* Mutant: the ring is copied as it lies.
Grown_AsItLies == [i \in 0..(2 * cap - 1) |-> IF i < cap - 1 THEN data[i] ELSE Junk]

Full == front = (back + 1) % cap
Grown == [i \in 0..(2 * cap - 1) |-> IF i < cap - 1 THEN Slot(i) ELSE Junk]

\* __on_push: the ring with room for one more.
OnPush ==
  IF Full THEN [data |-> Grown, cap |-> 2 * cap, front |-> 0, back |-> cap - 1]
  ELSE [data |-> data, cap |-> cap, front |-> front, back |-> back]

Destroyed(q) == IF destructor THEN q ELSE <<>>

Released == data' = NoData /\ cap' = 0 /\ front' = 0 /\ back' = 0 /\ UNCHANGED destructor
Looks == Valid /\ UNCHANGED <<ring, destructor>>
NotEmpty == Valid /\ ~ is_empty
-----------------------------------------------------------------------------
DequeInit ==
  /\ data = NoData /\ cap = 0 /\ front = 0 /\ back = 0 /\ destructor = FALSE
  /\ last = [call |-> "none", result |-> <<>>]

new_destructable(init_cap, d) ==
  /\ ~ Valid
  /\ cap' = IF init_cap > 0 THEN init_cap ELSE 1
  /\ data' = malloc(cap')
  /\ front' = 0 /\ back' = 0
  /\ destructor' = d
  /\ Did("new", <<>>)

destroy == Valid /\ Released /\ Did("destroy", Destroyed(Elements))

as_array == Valid /\ Released /\ Did("as_array", [k \in 1..length |-> Realigned[k - 1]])

empty ==
  /\ Valid
  /\ front' = 0 /\ back' = 0
  /\ UNCHANGED <<data, cap, destructor>>
  /\ Did("empty", Destroyed(Elements))

apply == Looks /\ Did("apply", Elements)
length_of == Looks /\ Did("length", <<length>>)

push_front(v) ==
  /\ Valid /\ length < MaxLength
  /\ cap' = OnPush.cap
  /\ front' = Before(OnPush.front, OnPush.cap)
  /\ back' = OnPush.back
  /\ data' = [OnPush.data EXCEPT ![front'] = v]
  /\ UNCHANGED destructor /\ Did("push_front", <<>>)

push_back(v) ==
  /\ Valid /\ length < MaxLength
  /\ cap' = OnPush.cap
  /\ front' = OnPush.front
  /\ back' = (OnPush.back + 1) % OnPush.cap
  /\ data' = [OnPush.data EXCEPT ![OnPush.back] = v]
  /\ UNCHANGED destructor /\ Did("push_back", <<>>)

pop_front ==
  /\ NotEmpty
  /\ front' = (front + 1) % cap
  /\ UNCHANGED <<data, cap, back, destructor>>
  /\ Did("pop_front", <<data[front]>>)

pop_back ==
  /\ NotEmpty
  /\ back' = Before(back, cap)
  /\ UNCHANGED <<data, cap, front, destructor>>
  /\ Did("pop_back", <<data[back']>>)

peek_front == NotEmpty /\ Looks /\ Did("peek_front", <<data[front]>>)
peek_back == NotEmpty /\ Looks /\ Did("peek_back", <<data[Before(back, cap)]>>)

\* Overwrites slot idx.
Overwrite(idx, v) ==
  /\ data' = [data EXCEPT ![idx] = v]
  /\ UNCHANGED <<cap, front, back, destructor>>

update_front(v) == NotEmpty /\ Overwrite(front, v) /\ Did("update_front", <<>>)
update_back(v) == NotEmpty /\ Overwrite(Before(back, cap), v) /\ Did("update_back", <<>>)

update_and_destroy_front(v) ==
  NotEmpty /\ Overwrite(front, v) /\ Did("replace_front", Destroyed(<<data[front]>>))
update_and_destroy_back(v) ==
  LET idx == Before(back, cap)
  IN NotEmpty /\ Overwrite(idx, v) /\ Did("replace_back", Destroyed(<<data[idx]>>))

DequeNext ==
  \/ \E init_cap \in InitCaps, d \in BOOLEAN : new_destructable(init_cap, d)
  \/ destroy \/ as_array \/ empty \/ apply \/ length_of
  \/ pop_front \/ pop_back \/ peek_front \/ peek_back
  \/ \E v \in Values :
       \/ push_front(v) \/ push_back(v)
       \/ update_front(v) \/ update_back(v)
       \/ update_and_destroy_front(v) \/ update_and_destroy_back(v)

DequeSpec == DequeInit /\ [][DequeNext]_dequeVars
-----------------------------------------------------------------------------
\* Properties.

\* The ring is a sequence, whatever its offset, wrap-around and growth.
Sequence == INSTANCE DequeSequence WITH
  valid <- Valid,
  destructs <- destructor,
  contents <- IF Valid THEN Elements ELSE <<>>
IsSequence == Sequence!Spec
=============================================================================
