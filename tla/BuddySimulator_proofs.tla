----------------------- MODULE BuddySimulator_proofs -----------------------
(***************************************************************************)
(* What holds of every script, for every set of variables and amounts and  *)
(* every width of an int.                                                  *)
(***************************************************************************)
EXTENDS BuddySimulator, Buddy_proofs

\* The variables that are to point to a block: those in use, but for the one
\* that is being freed.
Entrusted == {v \in InUse : ~ (cmd # NULL /\ cmd.name = "free" /\ cmd.var = v)}

ScriptTyped ==
  /\ var_map \in [Vars -> [mem : Pages \union {NULL}, in_use : BOOLEAN]]
  /\ asked \in [Vars -> Int]
  /\ cmd \in [name : {"alloc", "free"}, var : Vars] \union {NULL}

\* The allocator is in the call the command has made, if it has made one.
InCommand ==
  IF cmd = NULL THEN op = Idle
  ELSE /\ status = "SUCCESS"
       /\ IF cmd.name = "alloc" THEN op.pc \in {"scan", "split"} ELSE op.pc = "merge"

\* HeldByVariables, also within commands, until one fails: a failed alloc clears
\* the pointer and leaves the variable in use.
Held ==
  status = "SUCCESS" =>
    /\ \A v \in Entrusted : var_map[v].mem \in DOMAIN live \ overwritten
    /\ \A u, v \in Entrusted : var_map[u].mem = var_map[v].mem => u = v
    /\ DOMAIN live = overwritten \union {var_map[v].mem : v \in Entrusted}

ScriptInv == BuddyInv /\ ScriptTyped /\ InCommand /\ Held

\* The block of a variable that the command in progress is not about is as large
\* as was asked, and the allocator knows what an alloc in progress asked for.
Enough ==
  status = "SUCCESS" =>
    /\ \A v \in InUse : (cmd # NULL => cmd.var # v) => Bytes[live[var_map[v].mem]] >= asked[v]
    /\ cmd # NULL /\ cmd.name = "alloc" => op.size = asked[cmd.var]
\* Sizes, what the most general caller of the allocator asks for, has the sizes a
\* script asks for.  The simulator itself does not depend on Sizes.
Serves == \A n \in Amounts, unit \in {"k", ")"} : Scaled(n, unit) \in Sizes

\* No amount overflows an int.
NoOverflow == \A n \in Amounts : Wrap(n * KILO) = n * KILO
-----------------------------------------------------------------------------
LEMMA ScriptInitInv == Init => ScriptInv /\ Enough
<1> SUFFICES ASSUME Init  PROVE ScriptInv /\ Enough
  OBVIOUS
<1> USE DEF Init
<1>1. BuddyInv
  BY BuddyInitInv
<1>2. InUse = {} /\ Entrusted = {}
  BY DEF InUse, Entrusted
<1>3. ScriptTyped
  BY DEF ScriptTyped
<1>4. InCommand
  BY DEF InCommand, BuddyInit
<1>5. Held
  BY <1>2 DEF Held, BuddyInit
<1>6. Enough
  BY <1>2 DEF Enough
<1> QED BY <1>1, <1>3, <1>4, <1>5, <1>6 DEF ScriptInv

\* NULL is no command.
LEMMA Commands ==
  ASSUME NEW n \in {"alloc", "free"}, NEW v \in Vars
  PROVE  [name |-> n, var |-> v] # NULL
BY SimulatorAssumption

\* In what follows an action of a script is shown to be one of a caller of the
\* allocator, and to keep the invariant.

\* v = alloc(size unit) begins.
LEMMA ParseAllocInv ==
  ASSUME Serves, ScriptInv, NEW v \in Vars, NEW size \in Amounts, NEW unit \in {"k", ")"},
         parse_alloc(v, size, unit)
  PROVE  ScriptInv' /\ BuddyNext
<1>1. PICK given_size \in Sizes : given_size = Scaled(size, unit)
  BY DEF Serves
<1>2. op = Idle /\ Ask(given_size) /\ cmd = NULL /\ status = "SUCCESS"
  BY <1>1 DEF parse_alloc, Ready, ScriptInv, InCommand, Ask
<1>3. BuddyNext
  BY <1>2 DEF BuddyNext
<1>4. BuddyInv'
  BY <1>3, BuddyNextInv DEF ScriptInv
<1>5. cmd' = [name |-> "alloc", var |-> v] /\ cmd' # NULL /\ cmd'.name = "alloc" /\ cmd'.var = v
  BY Commands DEF parse_alloc
<1>6. /\ UNCHANGED <<var_map, status, overwritten, live>> /\ op'.pc = "scan"
      /\ asked' = [asked EXCEPT ![v] = IF unit \in {"k", "K"} THEN size * KILO ELSE size]
  BY DEF parse_alloc, buddy_alloc
<1>7. ScriptTyped'
  <2>1. (IF unit \in {"k", "K"} THEN size * KILO ELSE size) \in Int
    <3>1. size \in Int /\ KILO \in Int
      BY SimulatorAssumption
    <3> QED BY <3>1
  <2>2. asked' \in [Vars -> Int]
    BY <1>6, <2>1 DEF ScriptInv, ScriptTyped
  <2> QED BY <1>5, <1>6, <2>2 DEF ScriptInv, ScriptTyped
<1>8. InCommand'
  BY <1>2, <1>5, <1>6 DEF InCommand
<1>9. Held'
  <2>1. Entrusted = InUse /\ Entrusted' = InUse
    BY <1>2, <1>5, <1>6 DEF Entrusted, InUse
  <2> QED BY <1>6, <2>1 DEF Held, ScriptInv
<1> QED BY <1>3, <1>4, <1>7, <1>8, <1>9 DEF ScriptInv

\* free(v) begins: its block is held, so that the call is legal.
LEMMA ParseFreeInv ==
  ASSUME ScriptInv, NEW v \in Vars, parse_free(v)
  PROVE  ScriptInv' /\ BuddyNext
<1>1. op = Idle /\ cmd = NULL /\ status = "SUCCESS" /\ v \in InUse
  BY DEF parse_free, Ready, ScriptInv, InCommand, InUse
<1>2. Entrusted = InUse
  BY <1>1 DEF Entrusted
<1>3. PICK index : index = var_map[v].mem
  OBVIOUS
<1>4. index \in DOMAIN live \ overwritten /\ index \in Pages
  BY <1>1, <1>2, <1>3 DEF ScriptInv, Held, BuddyInv, Typed
<1>5. Release(index)
  BY <1>1, <1>3, <1>4 DEF Release, parse_free
<1>6. BuddyNext
  BY <1>4, <1>5 DEF BuddyNext
<1>7. BuddyInv'
  BY <1>6, BuddyNextInv DEF ScriptInv
<1>8. cmd' = [name |-> "free", var |-> v] /\ cmd' # NULL /\ cmd'.name = "free" /\ cmd'.var = v
  BY Commands DEF parse_free
<1>9. /\ UNCHANGED <<var_map, status, asked, overwritten>> /\ op'.pc = "merge"
      /\ DOMAIN live' = DOMAIN live \ {index}
  BY <1>3 DEF parse_free, buddy_free
<1>10. ScriptTyped'
  BY <1>8, <1>9 DEF ScriptInv, ScriptTyped
<1>11. InCommand'
  BY <1>1, <1>8, <1>9 DEF InCommand
<1>12. Held'
  <2>1. Entrusted' = InUse \ {v}
    BY <1>8, <1>9 DEF Entrusted, InUse
  <2>2. /\ \A u \in InUse : var_map[u].mem \in DOMAIN live \ overwritten
        /\ \A u, w \in InUse : var_map[u].mem = var_map[w].mem => u = w
        /\ DOMAIN live = overwritten \union {var_map[u].mem : u \in InUse}
    BY <1>1, <1>2 DEF Held, ScriptInv
  <2>3. \A u \in InUse \ {v} : var_map[u].mem # index
    BY <1>1, <1>3, <2>2
  <2>4. DOMAIN live' = overwritten \union {var_map[u].mem : u \in InUse \ {v}}
    <3>1. ASSUME NEW p \in DOMAIN live'
          PROVE  p \in overwritten \/ \E u \in InUse \ {v} : p = var_map[u].mem
      <4>1. p \in DOMAIN live /\ p # index
        BY <1>9
      <4> QED BY <1>3, <2>2, <4>1
    <3>2. overwritten \subseteq DOMAIN live'
      BY <1>4, <1>9, <2>2
    <3>3. ASSUME NEW u \in InUse \ {v}  PROVE var_map[u].mem \in DOMAIN live'
      BY <1>9, <2>2, <2>3
    <3> DEFINE M == {var_map[u].mem : u \in InUse \ {v}}
    <3>4. M \subseteq DOMAIN live'
      BY <3>3
    <3>5. DOMAIN live' \subseteq overwritten \union M
      BY <3>1
    <3>6. DOMAIN live' = overwritten \union M
      <4> HIDE DEF M
      <4> QED BY <3>2, <3>4, <3>5
    <3> QED BY <3>6
  <2>5. \A u \in Entrusted' : var_map'[u].mem \in DOMAIN live' \ overwritten'
    BY <1>9, <2>1, <2>2, <2>3
  <2>6. \A u, w \in Entrusted' : var_map'[u].mem = var_map'[w].mem => u = w
    BY <1>9, <2>1, <2>2
  <2>7. DOMAIN live' = overwritten' \union {var_map'[u].mem : u \in Entrusted'}
    BY <1>9, <2>1, <2>4
  <2> QED BY <2>5, <2>6, <2>7 DEF Held
<1> QED BY <1>6, <1>7, <1>10, <1>11, <1>12 DEF ScriptInv

\* An iteration of a loop of the allocator is none of the script's business.
LEMMA WithinInv ==
  ASSUME ScriptInv, Within
  PROVE  ScriptInv' /\ BuddyNext
<1>1. BuddyNext
  BY DEF Within, BuddyNext, Step
<1>2. BuddyInv'
  BY <1>1, BuddyNextInv DEF ScriptInv
<1>3. UNCHANGED <<var_map, status, cmd, asked, overwritten>>
  BY DEF Within
<1>4. live' = live
  BY DEF Within, ScanUp, Take, Split, Merge
<1>5. ScriptTyped'
  BY <1>3 DEF ScriptInv, ScriptTyped
<1>6. InCommand'
  <2>1. op \in {Idle}
    \union [pc : {"scan"}, size : Sizes, insert_order : Orders \union {-1}, check_free : Int]
    \union [pc : {"split"}, size : Sizes, new_page : Pages, insert_order : Orders,
            check_free : Orders]
    \union [pc : {"merge"}, index : Pages, order : Orders]
    BY DEF ScriptInv, BuddyInv, Typed, OpTyped
  <2>2. /\ ScanUp => op.pc = "scan" /\ op'.pc = "scan"
        /\ Take => op.pc = "scan" /\ op'.pc = "split"
        /\ Split => op.pc = "split" /\ op'.pc = "split"
        /\ Merge => op.pc = "merge" /\ op'.pc = "merge"
    <3>1. ASSUME ScanUp  PROVE op.pc = "scan" /\ op'.pc = "scan"
      <4>1. op.pc = "scan" /\ op' = [op EXCEPT !.check_free = @ + 1]
        BY <3>1 DEF ScanUp
      <4>2. op \in [pc : {"scan"}, size : Sizes, insert_order : Orders \union {-1}, check_free : Int]
        BY <2>1, <4>1 DEF Idle
      <4> QED BY <4>1, <4>2
    <3>2. ASSUME Take  PROVE op.pc = "scan" /\ op'.pc = "split"
      BY <3>2 DEF Take
    <3>3. ASSUME Split  PROVE op.pc = "split" /\ op'.pc = "split"
      <4>1. op.pc = "split" /\ op' = [op EXCEPT !.check_free = op.check_free - 1]
        BY <3>3 DEF Split
      <4>2. op \in [pc : {"split"}, size : Sizes, new_page : Pages, insert_order : Orders,
                    check_free : Orders]
        BY <2>1, <4>1 DEF Idle
      <4> QED BY <4>1, <4>2
    <3>4. ASSUME Merge  PROVE op.pc = "merge" /\ op'.pc = "merge"
      <4>1. op \in [pc : {"merge"}, index : Pages, order : Orders]
        BY <2>1, <3>4 DEF Merge, Idle
      <4>2. PICK i, o : op' = [op EXCEPT !.index = i, !.order = o]
        BY <3>4 DEF Merge
      <4> QED BY <4>1, <4>2
    <3> QED BY <3>1, <3>2, <3>3, <3>4
  <2>3. op # Idle
    BY <2>2 DEF Within, Idle
  <2> QED BY <1>3, <2>2, <2>3 DEF Within, ScriptInv, InCommand
<1>7. Held'
  BY <1>3, <1>4 DEF ScriptInv, Held, Entrusted, InUse
<1> QED BY <1>1, <1>2, <1>5, <1>6, <1>7 DEF ScriptInv

\* buddy_alloc returns a block.  It is apart from all that are held; what the
\* variable held before leaks.
LEMMA AllocSucceedsInv ==
  ASSUME ScriptInv, NEW page \in Pages, AllocSucceeds(page)
  PROVE  /\ ScriptInv' /\ BuddyNext
         /\ cmd # NULL /\ cmd.name = "alloc" /\ cmd.var \in Vars /\ status = "SUCCESS"
         /\ page \notin DOMAIN live
<1>1. cmd # NULL /\ AllocReturn(page) /\ op.pc = "split"
  BY DEF AllocSucceeds, AllocReturn
<1>2. PICK v \in Vars : v = cmd.var /\ cmd.name = "alloc"
  BY <1>1 DEF ScriptInv, ScriptTyped, InCommand
<1>3. BuddyNext
  BY <1>1 DEF BuddyNext, Step
<1>4. BuddyInv'
  BY <1>3, BuddyNextInv DEF ScriptInv
<1>5. /\ var_map' = [var_map EXCEPT ![v] = [mem |-> page, in_use |-> TRUE]]
      /\ cmd' = NULL /\ UNCHANGED <<status, asked>> /\ op' = Idle
      /\ DOMAIN live' = DOMAIN live \union {page}
      /\ overwritten' = overwritten \union {var_map[w].mem : w \in {u \in {v} : var_map[u].in_use}}
      /\ status = "SUCCESS"
  BY <1>1, <1>2 DEF AllocSucceeds, AllocReturn, ScriptInv, InCommand
<1>6. page \notin DOMAIN live
  <2>1. PICK b : b = [first |-> op.new_page, order |-> op.check_free]
    OBVIOUS
  <2>2. InFlight = {b} /\ b.first = page
    BY <1>1, <2>1 DEF InFlight, AllocReturn
  <2> QED BY <2>2, InFlightApart DEF ScriptInv
<1>7. /\ \A u \in Vars : var_map'[u] = IF u = v THEN [mem |-> page, in_use |-> TRUE] ELSE var_map[u]
      /\ var_map' \in [Vars -> [mem : Pages \union {NULL}, in_use : BOOLEAN]]
  BY <1>5 DEF ScriptInv, ScriptTyped
<1>8. ScriptTyped' /\ InCommand'
  BY <1>5, <1>7 DEF ScriptInv, ScriptTyped, InCommand
<1>9. Held'
  <2>1. Entrusted = InUse /\ Entrusted' = InUse \union {v}
    BY <1>1, <1>2, <1>5, <1>7 DEF Entrusted, InUse
  <2>2. /\ \A u \in InUse : var_map[u].mem \in DOMAIN live \ overwritten
        /\ \A u, w \in InUse : var_map[u].mem = var_map[w].mem => u = w
        /\ DOMAIN live = overwritten \union {var_map[u].mem : u \in InUse}
    BY <1>5, <2>1 DEF Held, ScriptInv
  <2>3. /\ var_map'[v].mem = page
        /\ \A u \in InUse : u # v => var_map'[u].mem = var_map[u].mem
    BY <1>7 DEF InUse
  <2>4. overwritten' = overwritten \union {var_map[u].mem : u \in InUse \intersect {v}}
    BY <1>5 DEF InUse
  <2>5. \A u \in InUse \union {v} : var_map'[u].mem \in DOMAIN live' \ overwritten'
    BY <1>5, <1>6, <2>2, <2>3, <2>4
  <2>6. \A u, w \in InUse \union {v} : var_map'[u].mem = var_map'[w].mem => u = w
    BY <1>6, <2>2, <2>3
  <2>7. DOMAIN live' = overwritten' \union {var_map'[u].mem : u \in InUse \union {v}}
    <3>1. \A p \in DOMAIN live' : p \in overwritten' \/ \E u \in InUse \union {v} : p = var_map'[u].mem
      BY <1>5, <2>2, <2>3, <2>4
    <3>2. overwritten' \subseteq DOMAIN live'
      BY <1>5, <2>2, <2>4
    <3> QED BY <2>5, <3>1, <3>2
  <2> QED BY <2>1, <2>5, <2>6, <2>7 DEF Held
<1> QED BY <1>1, <1>2, <1>3, <1>4, <1>5, <1>6, <1>8, <1>9 DEF ScriptInv

\* buddy_alloc returns NULL: the script is over.
LEMMA AllocFailsInv ==
  ASSUME ScriptInv, AllocFails
  PROVE  ScriptInv' /\ BuddyNext /\ status' # "SUCCESS"
<1>1. cmd # NULL /\ AllocNull /\ cmd' = NULL /\ status' = "OUTOFMEMORY" /\ UNCHANGED asked
      /\ var_map' = [var_map EXCEPT ![cmd.var].mem = NULL]
  BY DEF AllocFails
<1>2. BuddyNext
  BY <1>1 DEF BuddyNext, Step
<1>3. BuddyInv'
  BY <1>2, BuddyNextInv DEF ScriptInv
<1>4. ScriptTyped'
  <2>1. PICK v \in Vars : v = cmd.var
    BY <1>1 DEF ScriptInv, ScriptTyped
  <2>2. PICK r \in [mem : Pages \union {NULL}, in_use : BOOLEAN] : r = var_map[v]
    BY DEF ScriptInv, ScriptTyped
  <2>3. PICK s \in [mem : Pages \union {NULL}, in_use : BOOLEAN] : s = [r EXCEPT !.mem = NULL]
    OBVIOUS
  <2>4. var_map' = [var_map EXCEPT ![v] = s]
    BY <1>1, <2>1, <2>2, <2>3
  <2> QED BY <1>1, <2>3, <2>4 DEF ScriptInv, ScriptTyped
<1>5. InCommand'
  BY <1>1 DEF InCommand, AllocNull
<1>6. Held'
  BY <1>1 DEF Held
<1> QED BY <1>1, <1>2, <1>3, <1>4, <1>5, <1>6 DEF ScriptInv

\* buddy_free returns.
LEMMA FreeSucceedsInv ==
  ASSUME ScriptInv, FreeSucceeds
  PROVE  /\ ScriptInv' /\ BuddyNext
         /\ cmd # NULL /\ cmd.name = "free" /\ cmd.var \in Vars /\ live' = live
<1>1. cmd # NULL /\ FreeReturn /\ op.pc = "merge" /\ cmd' = NULL /\ op' = Idle /\ live' = live
      /\ UNCHANGED <<status, asked, overwritten>>
      /\ var_map' = [var_map EXCEPT ![cmd.var] = [mem |-> NULL, in_use |-> FALSE]]
  BY DEF FreeSucceeds, FreeReturn
<1>2. PICK v \in Vars : v = cmd.var /\ cmd.name = "free"
  BY <1>1 DEF ScriptInv, ScriptTyped, InCommand
<1>3. BuddyNext
  BY <1>1 DEF BuddyNext, Step
<1>4. BuddyInv'
  BY <1>3, BuddyNextInv DEF ScriptInv
<1>5. /\ \A u \in Vars : var_map'[u] = IF u = v THEN [mem |-> NULL, in_use |-> FALSE] ELSE var_map[u]
      /\ var_map' \in [Vars -> [mem : Pages \union {NULL}, in_use : BOOLEAN]]
  BY <1>1, <1>2 DEF ScriptInv, ScriptTyped
<1>6. ScriptTyped' /\ InCommand'
  BY <1>1, <1>5 DEF ScriptInv, ScriptTyped, InCommand
<1>7. Held'
  <2>1. Entrusted = InUse \ {v} /\ Entrusted' = InUse \ {v}
    BY <1>1, <1>2, <1>5 DEF Entrusted, InUse
  <2>2. \A u \in InUse \ {v} : var_map'[u].mem = var_map[u].mem
    BY <1>5 DEF InUse
  <2> QED BY <1>1, <2>1, <2>2 DEF Held, ScriptInv
<1> QED BY <1>1, <1>2, <1>3, <1>4, <1>6, <1>7 DEF ScriptInv

\* What ends the script or is no command leaves memory and variables alone.
LEMMA NoCallInv ==
  ASSUME ScriptInv, NoCommand \/ \E v \in Vars : DoubleFree(v)
  PROVE  ScriptInv' /\ UNCHANGED buddyVars /\ status' # "SUCCESS"
<1>1. /\ UNCHANGED <<buddyVars, var_map, cmd, asked, overwritten>> /\ status' # "SUCCESS" /\ cmd = NULL
  BY DEF NoCommand, DoubleFree, Ready
<1>2. BuddyInv'
  BY <1>1, BuddyNextInv DEF ScriptInv
<1>3. ScriptTyped' /\ InCommand' /\ Held'
  BY <1>1 DEF ScriptInv, ScriptTyped, InCommand, Held, buddyVars
<1> QED BY <1>1, <1>2, <1>3 DEF ScriptInv

LEMMA ScriptNextInv ==
  ASSUME Serves, ScriptInv, [Next]_simVars
  PROVE  ScriptInv' /\ [BuddyNext]_buddyVars
<1>1. CASE UNCHANGED simVars
  <2>1. UNCHANGED buddyVars
    BY <1>1 DEF simVars, buddyVars
  <2>2. BuddyInv'
    BY <2>1, BuddyNextInv DEF ScriptInv
  <2>3. ScriptTyped' /\ InCommand' /\ Held'
    BY <1>1 DEF simVars, ScriptInv, ScriptTyped, InCommand, Held, Entrusted, InUse
  <2> QED BY <2>1, <2>2, <2>3 DEF ScriptInv
<1>2. ASSUME NEW v \in Vars, NEW size \in Amounts, NEW unit \in {"k", ")"}, parse_alloc(v, size, unit)
      PROVE  ScriptInv' /\ BuddyNext
  BY <1>2, ParseAllocInv
<1>3. ASSUME NEW v \in Vars, parse_free(v)  PROVE ScriptInv' /\ BuddyNext
  BY <1>3, ParseFreeInv
<1>4. CASE NoCommand \/ \E v \in Vars : DoubleFree(v)
  BY <1>4, NoCallInv
<1>5. ASSUME Allocating  PROVE ScriptInv' /\ BuddyNext
  BY <1>5, AllocSucceedsInv, AllocFailsInv, FreeSucceedsInv, WithinInv DEF Allocating
<1> QED BY <1>1, <1>2, <1>3, <1>4, <1>5 DEF Next
-----------------------------------------------------------------------------
\* A block is as large as was asked.

LEMMA ParseAllocEnough ==
  ASSUME NoOverflow, ScriptInv, Enough,
         NEW v \in Vars, NEW size \in Amounts, NEW unit \in {"k", ")"},
         parse_alloc(v, size, unit)
  PROVE  Enough'
<1>1. /\ cmd' = [name |-> "alloc", var |-> v] /\ UNCHANGED <<var_map, status, live>>
      /\ asked' = [asked EXCEPT ![v] = IF unit \in {"k", "K"} THEN size * KILO ELSE size]
      /\ op'.size = Scaled(size, unit) /\ cmd = NULL /\ status = "SUCCESS"
  BY DEF parse_alloc, buddy_alloc, Ready
<1>2. Scaled(size, unit) = IF unit \in {"k", "K"} THEN size * KILO ELSE size
  BY DEF NoOverflow, Scaled
<1>3. \A u \in Vars : asked'[u] = IF u = v THEN Scaled(size, unit) ELSE asked[u]
  BY <1>1, <1>2 DEF ScriptInv, ScriptTyped
<1>4. cmd'.name = "alloc" /\ cmd'.var = v /\ cmd' # NULL /\ InUse' = InUse
  BY <1>1, Commands DEF InUse
<1>5. \A u \in InUse : Bytes[live[var_map[u].mem]] >= asked[u] /\ u \in Vars
  BY <1>1 DEF Enough, InUse
<1>6. ASSUME NEW u \in InUse, u # v  PROVE Bytes[live[var_map[u].mem]] >= asked'[u]
  BY <1>3, <1>5, <1>6
<1> QED BY <1>1, <1>3, <1>4, <1>6 DEF Enough

LEMMA ParseFreeEnough ==
  ASSUME ScriptInv, Enough, NEW v \in Vars, parse_free(v)
  PROVE  Enough'
<1>1. /\ cmd' = [name |-> "free", var |-> v] /\ UNCHANGED <<var_map, status, asked>>
      /\ live' = [p \in DOMAIN live \ {var_map[v].mem} |-> live[p]]
      /\ cmd = NULL /\ status = "SUCCESS" /\ v \in InUse
  BY DEF parse_free, buddy_free, Ready, InUse
<1>2. cmd'.name = "free" /\ cmd'.var = v /\ cmd' # NULL /\ InUse' = InUse /\ Entrusted = InUse
  BY <1>1, Commands DEF InUse, Entrusted
<1>3. ASSUME NEW u \in InUse, u # v  PROVE Bytes[live'[var_map[u].mem]] >= asked[u]
  <2>1. var_map[u].mem \in DOMAIN live \ {var_map[v].mem}
    BY <1>1, <1>2, <1>3 DEF ScriptInv, Held
  <2>2. live'[var_map[u].mem] = live[var_map[u].mem]
    BY <1>1, <2>1
  <2> QED BY <1>1, <2>2 DEF Enough
<1> QED BY <1>1, <1>2, <1>3 DEF Enough

LEMMA AllocSucceedsEnough ==
  ASSUME ScriptInv, Enough, NEW page \in Pages, AllocSucceeds(page)
  PROVE  Enough'
<1>1. /\ cmd # NULL /\ cmd.name = "alloc" /\ cmd.var \in Vars /\ status = "SUCCESS"
      /\ page \notin DOMAIN live
  BY AllocSucceedsInv
<1>2. PICK v \in Vars : v = cmd.var
  BY <1>1
<1>3. /\ var_map' = [var_map EXCEPT ![v] = [mem |-> page, in_use |-> TRUE]]
      /\ cmd' = NULL /\ UNCHANGED <<status, asked>> /\ op.pc = "split"
      /\ live' = [p \in DOMAIN live \union {page} |-> IF p = page THEN op.insert_order ELSE live[p]]
  BY <1>2 DEF AllocSucceeds, AllocReturn
<1>4. op.size \in Sizes /\ op.insert_order \in Orders /\ op.insert_order = get_order_size(op.size)
  BY <1>3 DEF ScriptInv, BuddyInv, Typed, OpTyped, Scanned, Idle
<1>5. Bytes[op.insert_order] >= op.size
  <2>1. PICK size \in Int : size = op.size
    BY <1>4, SizesAssumption
  <2>2. op.insert_order # -1
    BY <1>4, OrdersAssumption DEF Orders
  <2> QED BY <1>4, <2>1, <2>2, OrderOfSize
<1>6. op.size = asked[v]
  BY <1>1, <1>2 DEF Enough
<1>7. \A u \in Vars : var_map'[u] = IF u = v THEN [mem |-> page, in_use |-> TRUE] ELSE var_map[u]
  BY <1>3 DEF ScriptInv, ScriptTyped
<1>8. ASSUME NEW u \in InUse'  PROVE Bytes[live'[var_map'[u].mem]] >= asked[u]
  <2>1. u \in Vars /\ (u # v => u \in InUse)
    BY <1>7, <1>8 DEF InUse
  <2>2. CASE u = v
    <3>1. var_map'[u].mem = page /\ live'[page] = op.insert_order
      BY <1>3, <1>7, <2>2
    <3> QED BY <1>5, <1>6, <2>2, <3>1
  <2>3. CASE u # v
    <3>1. u \in Entrusted /\ var_map'[u].mem = var_map[u].mem
      BY <1>1, <1>7, <2>1, <2>3 DEF Entrusted
    <3>2. var_map[u].mem \in DOMAIN live
      BY <1>1, <3>1 DEF ScriptInv, Held
    <3>3. live'[var_map[u].mem] = live[var_map[u].mem]
      BY <1>1, <1>3, <3>2
    <3>4. Bytes[live[var_map[u].mem]] >= asked[u]
      BY <1>1, <1>2, <2>1, <2>3 DEF Enough
    <3> QED BY <3>1, <3>3, <3>4
  <2> QED BY <2>2, <2>3
<1> QED BY <1>3, <1>8 DEF Enough

LEMMA FreeSucceedsEnough ==
  ASSUME ScriptInv, Enough, FreeSucceeds
  PROVE  Enough'
<1>1. cmd # NULL /\ cmd.name = "free" /\ cmd.var \in Vars /\ live' = live
  BY FreeSucceedsInv
<1>2. PICK v \in Vars : v = cmd.var
  BY <1>1
<1>3. /\ var_map' = [var_map EXCEPT ![v] = [mem |-> NULL, in_use |-> FALSE]]
      /\ cmd' = NULL /\ UNCHANGED <<status, asked>>
  BY <1>2 DEF FreeSucceeds
<1>4. \A u \in Vars : var_map'[u] = IF u = v THEN [mem |-> NULL, in_use |-> FALSE] ELSE var_map[u]
  BY <1>3 DEF ScriptInv, ScriptTyped
<1>5. \A u \in InUse' : u \in InUse /\ u # v /\ var_map'[u] = var_map[u]
  BY <1>4 DEF InUse
<1> QED BY <1>1, <1>2, <1>3, <1>5 DEF Enough

LEMMA WithinEnough ==
  ASSUME ScriptInv, Enough, Within
  PROVE  Enough'
<1>1. UNCHANGED <<var_map, status, cmd, asked, overwritten>>
  BY DEF Within
<1>2. live' = live
  BY DEF Within, ScanUp, Take, Split, Merge
<1>3. op.pc \in {"scan", "split"} => op'.size = op.size
  <2>1. op \in {Idle}
    \union [pc : {"scan"}, size : Sizes, insert_order : Orders \union {-1}, check_free : Int]
    \union [pc : {"split"}, size : Sizes, new_page : Pages, insert_order : Orders,
            check_free : Orders]
    \union [pc : {"merge"}, index : Pages, order : Orders]
    BY DEF ScriptInv, BuddyInv, Typed, OpTyped
  <2>2. CASE ScanUp
    <3>1. op.pc = "scan" /\ op' = [op EXCEPT !.check_free = op.check_free + 1]
      BY <2>2 DEF ScanUp
    <3>2. op \in [pc : {"scan"}, size : Sizes, insert_order : Orders \union {-1}, check_free : Int]
      BY <2>1, <3>1 DEF Idle
    <3> QED BY <3>1, <3>2
  <2>3. CASE Take
    BY <2>3 DEF Take
  <2>4. CASE Split
    <3>1. op.pc = "split" /\ op' = [op EXCEPT !.check_free = op.check_free - 1]
      BY <2>4 DEF Split
    <3>2. op \in [pc : {"split"}, size : Sizes, new_page : Pages, insert_order : Orders,
                  check_free : Orders]
      BY <2>1, <3>1 DEF Idle
    <3> QED BY <3>1, <3>2
  <2>5. CASE Merge
    BY <2>5 DEF Merge
  <2> QED BY <2>2, <2>3, <2>4, <2>5 DEF Within
<1>4. cmd # NULL /\ cmd.name = "alloc" => op'.size = op.size
  BY <1>3 DEF ScriptInv, InCommand
<1> QED BY <1>1, <1>2, <1>4 DEF Enough, InUse

LEMMA EnoughStep ==
  ASSUME NoOverflow, ScriptInv, Enough, [Next]_simVars
  PROVE  Enough'
<1>1. CASE UNCHANGED simVars
  BY <1>1 DEF simVars, Enough, InUse
<1>2. ASSUME NEW v \in Vars, NEW size \in Amounts, NEW unit \in {"k", ")"}, parse_alloc(v, size, unit)
      PROVE  Enough'
  BY <1>2, ParseAllocEnough
<1>3. ASSUME NEW v \in Vars, parse_free(v)  PROVE Enough'
  BY <1>3, ParseFreeEnough
<1>4. CASE NoCommand \/ \E v \in Vars : DoubleFree(v)
  BY <1>4, NoCallInv DEF Enough
<1>5. CASE Allocating
  <2>1. CASE AllocFails
    BY <2>1, AllocFailsInv DEF Enough
  <2> QED BY <1>5, <2>1, AllocSucceedsEnough, FreeSucceedsEnough, WithinEnough DEF Allocating
<1> QED BY <1>1, <1>2, <1>3, <1>4, <1>5 DEF Next
-----------------------------------------------------------------------------
LEMMA ScriptAlways ==
  ASSUME Serves  PROVE Spec => []ScriptInv /\ [][BuddyNext]_buddyVars
<1>1. ScriptInv /\ [Next]_simVars => ScriptInv' /\ [BuddyNext]_buddyVars
  BY ScriptNextInv
<1>2. Init => ScriptInv
  BY ScriptInitInv
<1> QED BY <1>1, <1>2, PTL DEF Spec

\* A script uses the allocator as any caller may: it frees only what it holds,
\* and makes one call at a time.  All that is proved of the allocator's safety
\* holds for scripts.
THEOREM ScriptsAreCallers ==
  ASSUME Serves  PROVE Spec => BuddyInit /\ [][BuddyNext]_buddyVars
<1>1. Init => BuddyInit
  BY DEF Init
<1> QED BY <1>1, ScriptAlways, PTL DEF Spec

\* Between commands the variables in use point to blocks that are held, each to
\* its own, and all that leaks is what a variable held when it was allocated again.
THEOREM NothingElseLeaks ==
  ASSUME Serves  PROVE Spec => []HeldByVariables
<1>1. ScriptInv => HeldByVariables
  <2> SUFFICES ASSUME ScriptInv, Ready  PROVE HeldByVariables
    BY DEF HeldByVariables
  <2>1. status = "SUCCESS" /\ Entrusted = InUse
    BY DEF Ready, Entrusted
  <2> QED BY <2>1 DEF ScriptInv, Held, HeldByVariables
<1> QED BY <1>1, ScriptAlways, PTL

\* Unless an amount overflows an int, a variable in use has the memory its alloc
\* asked for.
THEOREM BlocksAreLargeEnough ==
  ASSUME Serves, NoOverflow  PROVE Spec => []HasWhatItAskedFor
<1>1. Init => ScriptInv /\ Enough
  BY ScriptInitInv
<1>2. (ScriptInv /\ Enough) /\ [Next]_simVars => (ScriptInv /\ Enough)'
  BY ScriptNextInv, EnoughStep
<1>3. ScriptInv /\ Enough => HasWhatItAskedFor
  BY DEF Enough, HasWhatItAskedFor, Ready
<1> QED BY <1>1, <1>2, <1>3, PTL DEF Spec
=============================================================================
