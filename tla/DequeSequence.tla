---------------------------- MODULE DequeSequence ----------------------------
(***************************************************************************)
(* What a deque of shell_simulation/src/deque.h promises: it is a sequence *)
(* that is pushed, popped, read and overwritten at both ends.              *)
(***************************************************************************)
EXTENDS Integers, Sequences

CONSTANT Values

VARIABLES
  valid,        \* whether the structure may be used
  destructs,    \* whether it has a destructor
  contents,
  last          \* the last call, and what it returned or passed to a function

seqVars == <<valid, destructs, contents, last>>

Did(call, result) == last' = [call |-> call, result |-> result]
Destroyed(q) == IF destructs THEN q ELSE <<>>
Front(q) == SubSeq(q, 1, Len(q) - 1)
LastOf(q) == <<q[Len(q)]>>

Keep == UNCHANGED <<valid, destructs>>
Known == UNCHANGED <<valid, destructs, contents>>
GiveUp == valid' = FALSE /\ contents' = <<>> /\ UNCHANGED destructs
NotEmpty == contents # <<>>

Init ==
  /\ valid = FALSE /\ destructs = FALSE /\ contents = <<>>
  /\ last = [call |-> "none", result |-> <<>>]

New ==
  /\ ~ valid /\ valid' = TRUE /\ destructs' \in BOOLEAN
  /\ contents' = <<>> /\ Did("new", <<>>)

\* The structure is given up, or handed over as an array.
Destroy == valid /\ GiveUp /\ Did("destroy", Destroyed(contents))
AsArray == valid /\ GiveUp /\ Did("as_array", contents)

Empty == valid /\ contents' = <<>> /\ Keep /\ Did("empty", Destroyed(contents))

Push(v) ==
  /\ valid /\ Keep
  /\ \/ contents' = <<v>> \o contents /\ Did("push_front", <<>>)
     \/ contents' = Append(contents, v) /\ Did("push_back", <<>>)

Pop ==
  /\ valid /\ NotEmpty /\ Keep
  /\ \/ contents' = Tail(contents) /\ Did("pop_front", <<Head(contents)>>)
     \/ contents' = Front(contents) /\ Did("pop_back", LastOf(contents))

Read ==
  /\ valid /\ Known
  /\ \/ Did("length", <<Len(contents)>>)
     \/ Did("apply", contents)
     \/ NotEmpty /\ Did("peek_front", <<Head(contents)>>)
     \/ NotEmpty /\ Did("peek_back", LastOf(contents))

Update(v) ==
  /\ valid /\ NotEmpty /\ Keep
  /\ \/ /\ contents' = <<v>> \o Tail(contents)
        /\ Did("update_front", <<>>) \/ Did("replace_front", Destroyed(<<Head(contents)>>))
     \/ /\ contents' = Front(contents) \o <<v>>
        /\ Did("update_back", <<>>) \/ Did("replace_back", Destroyed(LastOf(contents)))

Next ==
  \/ New \/ Destroy \/ AsArray \/ Empty \/ Pop \/ Read
  \/ \E v \in Values : Push(v) \/ Update(v)

Spec == Init /\ [][Next]_seqVars
=============================================================================
