------------------------------- MODULE Buddy -------------------------------
(***************************************************************************)
(* The buddy allocator, memoryallocation_sim/buddy/buddy.c: one action per *)
(* iteration of the loops of buddy_alloc and buddy_free, over the lists of *)
(* free pages and the order recorded in each page_t.                       *)
(***************************************************************************)
EXTENDS Lists, BuddyBlocks

CONSTANTS
  Sizes,     \* the sizes callers ask for
  NoRequest  \* no call of buddy_alloc in progress

ASSUME SizesAssumption == Sizes \subseteq Int /\ NoRequest \notin Sizes

VARIABLES
  free_area,  \* the pages that start a free block, by order, in list order
  order,      \* g_pages[i].order
  live,       \* the blocks callers hold: first page -> order
  op          \* the call in progress: where it is, and its locals

buddyVars == <<free_area, order, live, op>>

Promise == INSTANCE Allocator WITH
             held <- live,
             request <- IF op.pc \in {"scan", "split"} THEN op.size ELSE NoRequest

\* Mutants: a block must be larger than the size, or may be half of it.
get_order_size_Larger(given_size) ==
  IF \A i \in Orders : Bytes[i] <= given_size THEN -1
  ELSE CHOOSE i \in Orders : /\ Bytes[i] > given_size
                             /\ \A k \in MIN_ORDER..(i - 1) : Bytes[k] <= given_size
get_order_size_Smaller(given_size) ==
  IF \A i \in Orders : 2 * Bytes[i] <= given_size THEN -1
  ELSE CHOOSE i \in Orders : /\ 2 * Bytes[i] > given_size
                             /\ \A k \in MIN_ORDER..(i - 1) : 2 * Bytes[k] <= given_size

get_order_size(given_size) ==
  IF \A i \in Orders : Bytes[i] < given_size THEN -1
  ELSE CHOOSE i \in Orders : /\ Bytes[i] >= given_size
                             /\ \A k \in MIN_ORDER..(i - 1) : Bytes[k] < given_size

\* Mutant: only the head of the list is looked at.
BuddyIndices_Head(address, o) ==
  {k \in 1..Len(free_area[o]) : k = 1 /\ PAGE_TO_ADDR(free_area[o][k]) = BUDDY_ADDR(address, o)}

\* Where the buddy of the block at address is in the free list of order o: a
\* set of at most one index unless a page was listed twice.
BuddyIndices(address, o) ==
  {k \in 1..Len(free_area[o]) : PAGE_TO_ADDR(free_area[o][k]) = BUDDY_ADDR(address, o)}

Idle == [pc |-> "idle"]
-----------------------------------------------------------------------------
buddy_init ==
  /\ free_area = [o \in Orders |-> IF o = MAX_ORDER THEN <<0>> ELSE <<>>]
  /\ order = [p \in Pages |-> IF p = 0 THEN MAX_ORDER ELSE -1]

\* buddy_alloc is called.
buddy_alloc(size) ==
  /\ op' = [pc |-> "scan", size |-> size, insert_order |-> get_order_size(size),
            check_free |-> get_order_size(size)]
  /\ UNCHANGED <<free_area, order, live>>

\* Mutant: check_free is not incremented.
ScanUp_Stuck ==
  /\ op.pc = "scan" /\ op.insert_order > 0 /\ op.check_free <= MAX_ORDER
  /\ free_area[op.check_free] = <<>>
  /\ UNCHANGED buddyVars

\* The list of order check_free is empty: look one order up.
ScanUp ==
  /\ op.pc = "scan" /\ op.insert_order > 0 /\ op.check_free <= MAX_ORDER
  /\ free_area[op.check_free] = <<>>
  /\ op' = [op EXCEPT !.check_free = @ + 1]
  /\ UNCHANGED <<free_area, order, live>>

\* It is not: list_del_init of its first page.
Take ==
  /\ op.pc = "scan" /\ op.insert_order > 0 /\ op.check_free <= MAX_ORDER
  /\ free_area[op.check_free] # <<>>
  /\ op' = [pc |-> "split", size |-> op.size, new_page |-> Head(free_area[op.check_free]),
            insert_order |-> op.insert_order, check_free |-> op.check_free]
  /\ free_area' = [free_area EXCEPT ![op.check_free] = Tail(@)]
  /\ UNCHANGED <<order, live>>

\* The right half goes to the list of the order below.
Split ==
  /\ op.pc = "split" /\ op.insert_order < op.check_free
  /\ LET half == op.check_free - 1
         buddy_page == ADDR_TO_PAGE(BUDDY_ADDR(PAGE_TO_ADDR(op.new_page), half))
     IN /\ order' = [order EXCEPT ![buddy_page] = half]
        /\ free_area' = [free_area EXCEPT ![half] = Link(@, 1, buddy_page)]
        /\ op' = [op EXCEPT !.check_free = half]
  /\ UNCHANGED live

\* Mutant: the order of the block handed out is not recorded.
AllocReturn_Unrecorded(ret_page) ==
  /\ op.pc = "split" /\ op.insert_order = op.check_free
  /\ ret_page = op.new_page
  /\ live' = [p \in DOMAIN live \union {ret_page} |->
                IF p = ret_page THEN op.insert_order ELSE live[p]]
  /\ op' = Idle
  /\ UNCHANGED <<free_area, order>>

\* buddy_alloc returns the address of page ret_page.
AllocReturn(ret_page) ==
  /\ op.pc = "split" /\ op.insert_order = op.check_free
  /\ ret_page = op.new_page
  /\ order' = [order EXCEPT ![ret_page] = op.insert_order]
  /\ live' = [p \in DOMAIN live \union {ret_page} |->
                IF p = ret_page THEN op.insert_order ELSE live[p]]
  /\ op' = Idle
  /\ UNCHANGED free_area

\* buddy_alloc returns NULL: no order fits, or every list was empty.
AllocNull ==
  /\ op.pc = "scan"
  /\ op.insert_order <= 0 \/ op.check_free > MAX_ORDER
  /\ op' = Idle
  /\ UNCHANGED <<free_area, order, live>>

\* buddy_free is called with the address of page index.
buddy_free(index) ==
  /\ op' = [pc |-> "merge", index |-> index, order |-> order[index]]
  /\ live' = [p \in DOMAIN live \ {index} |-> live[p]]
  /\ UNCHANGED <<free_area, order>>

\* Mutant: the buddy stays on its list.
Merge_Listed ==
  /\ op.pc = "merge" /\ op.order <= MAX_ORDER
  /\ \E k \in BuddyIndices(PAGE_TO_ADDR(op.index), op.order) :
       op' = [op EXCEPT !.index = IF @ > free_area[op.order][k]
                                  THEN free_area[op.order][k] ELSE @,
                        !.order = @ + 1]
  /\ UNCHANGED <<free_area, order, live>>

\* The buddy is free: it leaves its list and the merged block, which starts
\* at the lower of the two addresses, goes one order up.
Merge ==
  /\ op.pc = "merge" /\ op.order <= MAX_ORDER
  /\ \E k \in BuddyIndices(PAGE_TO_ADDR(op.index), op.order) :
       /\ free_area' = [free_area EXCEPT ![op.order] = Unlink(@, k)]
       /\ op' = [op EXCEPT !.index = IF @ > free_area[op.order][k]
                                     THEN free_area[op.order][k] ELSE @,
                           !.order = @ + 1]
  /\ UNCHANGED <<order, live>>

\* It is not: the block goes to the list of its order, and buddy_free returns.
\* (The loop has no other exit: a block of order MAX_ORDER has no buddy.)
FreeReturn ==
  /\ op.pc = "merge" /\ op.order <= MAX_ORDER
  /\ BuddyIndices(PAGE_TO_ADDR(op.index), op.order) = {}
  /\ order' = [order EXCEPT ![op.index] = -1]
  /\ free_area' = [free_area EXCEPT ![op.order] = Link(@, 1, op.index)]
  /\ op' = Idle
  /\ UNCHANGED live

-----------------------------------------------------------------------------
\* Any one-threaded caller that frees only what it holds.

BuddyInit == buddy_init /\ live = [p \in {} |-> 0] /\ op = Idle

Ask(size) == op = Idle /\ buddy_alloc(size)

Release(index) == op = Idle /\ index \in DOMAIN live /\ buddy_free(index)

Step ==
  \/ ScanUp
  \/ Take
  \/ Split
  \/ \E ret_page \in Pages : AllocReturn(ret_page)
  \/ AllocNull
  \/ Merge
  \/ FreeReturn

BuddyNext ==
  \/ \E size \in Sizes : Ask(size)
  \/ \E index \in Pages : Release(index)
  \/ Step

\* A call that has begun runs on: nothing else is scheduled in the process.
BuddySpec == BuddyInit /\ [][BuddyNext]_buddyVars /\ WF_buddyVars(Step)
-----------------------------------------------------------------------------
\* Properties.

\* The block taken off the lists by the call in progress.
InFlight ==
  CASE op.pc = "split" -> {[first |-> op.new_page, order |-> op.check_free]}
    [] op.pc = "merge" -> {[first |-> op.index, order |-> op.order]}
    [] OTHER -> {}

FreeBlocks == UNION {{[first |-> free_area[o][k], order |-> o] : k \in 1..Len(free_area[o])}
                      : o \in Orders}
LiveBlocks == {[first |-> p, order |-> live[p]] : p \in DOMAIN live}
Blocks == FreeBlocks \union LiveBlocks \union InFlight

\* Through every split and merge, each page of memory is in exactly one block:
\* free, held by a caller, or in the hands of the call in progress, and no
\* block is listed twice. No call leaks a page or hands one out twice.
Partition ==
  /\ \A p \in Pages : \E b \in Blocks : p \in Block(b.first, b.order)
  /\ \A b, c \in Blocks :
       b # c => Block(b.first, b.order) \cap Block(c.first, c.order) = {}
  /\ FreeBlocks \cap LiveBlocks = {} /\ InFlight \cap (FreeBlocks \union LiveBlocks) = {}
  /\ \A o \in Orders : \A i, k \in 1..Len(free_area[o]) :
       free_area[o][i] = free_area[o][k] => i = k

\* The free lists never hold two buddies: what can be merged is merged, and a
\* split never leaves both halves behind.
Coalesced ==
  \A o \in Orders \ {MAX_ORDER} : \A i, k \in 1..Len(free_area[o]) :
    PAGE_TO_ADDR(free_area[o][k]) # BUDDY_ADDR(PAGE_TO_ADDR(free_area[o][i]), o)

\* The order that buddy_free will read from the page_t of a held block is the
\* order the block was handed out with, whatever was split and merged since.
OrderRecorded == \A p \in DOMAIN live : order[p] = live[p]

\* Callers get what module Allocator promises: the free lists, the splitting
\* and the merging never show, and a request is refused only when no aligned
\* block of its order is free of held pages.
KeepsPromise == Promise!Spec

\* Every call returns.
CallsReturn == (op # Idle) ~> (op = Idle)
=============================================================================
