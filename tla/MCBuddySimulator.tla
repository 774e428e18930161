------------------------- MODULE MCBuddySimulator -------------------------
(***************************************************************************)
(* The buddy allocator for TLC, in blocks of up to four orders of pages of *)
(* two bytes.  A behaviour has one of its callers: any one there may be,   *)
(* or a script.  A k is four bytes; an int has 64 values, so that 16k      *)
(* overflows it as 4194304k does 32 bits.  Sizes has what scripts ask for, *)
(* which reaches every order, and sizes that none can hold.                *)
(***************************************************************************)
EXTENDS BuddySimulator

MCBytes == [o \in 0..MAX_ORDER |-> 2 ^ o]
MCAmounts == {0, 2, 5}
MCAmountsLarge == {1, 16}
MCSizes == {Scaled(n, unit) : n \in Amounts, unit \in {"k", ")"}} \union {16}
-----------------------------------------------------------------------------
VARIABLE part  \* the caller

\* With any caller, no script is there.
MCInit ==
  \/ part = "script" /\ Init
  \/ /\ part = "any caller" /\ BuddyInit
     /\ status = "NOSCRIPT" /\ cmd = NULL
     /\ var_map = <<>> /\ asked = <<>> /\ overwritten = {}

AnyCaller == part = "any caller" /\ BuddyNext
Script == part = "script" /\ Next

MCNext ==
  \/ AnyCaller /\ UNCHANGED <<var_map, status, cmd, asked, overwritten, part>>
  \/ Script /\ UNCHANGED part

MCSpec ==
  /\ MCInit /\ [][MCNext]_<<simVars, part>>
  /\ WF_<<simVars, part>>(part = "any caller" /\ Step
                          /\ UNCHANGED <<var_map, status, cmd, asked, overwritten, part>>)
  /\ WF_<<simVars, part>>(part = "script" /\ Allocating /\ UNCHANGED part)
=============================================================================
