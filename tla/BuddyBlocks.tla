---------------------------- MODULE BuddyBlocks ----------------------------
(***************************************************************************)
(* Pages and blocks of the buddy system: the macros of buddy.c.  A page is *)
(* its index in g_pages, an address its offset in g_memory.                *)
(***************************************************************************)
EXTENDS Integers

CONSTANTS
  MIN_ORDER, MAX_ORDER, \* orders of the smallest and of the largest block
  Bytes                 \* Bytes[o] is 1 << o

ASSUME OrdersAssumption ==
  MIN_ORDER \in Nat \ {0} /\ MAX_ORDER \in Nat /\ MIN_ORDER <= MAX_ORDER

\* The laws of 1 << o.
ASSUME BytesAssumption ==
  /\ Bytes \in [0..MAX_ORDER -> Nat \ {0}]
  /\ Bytes[0] = 1 /\ Bytes[1] = 2
  /\ \A o, k \in 0..MAX_ORDER : o + k <= MAX_ORDER => Bytes[o + k] = Bytes[o] * Bytes[k]

Orders == MIN_ORDER..MAX_ORDER
PAGE_SIZE == Bytes[MIN_ORDER]

\* The pages of a block of order o, of the whole memory, and of the block of
\* order o that starts at page p.
Span(o) == Bytes[o] \div PAGE_SIZE
Pages == 0..(Span(MAX_ORDER) - 1)
Block(p, o) == p..(p + Span(o) - 1)

PAGE_TO_ADDR(page_idx) == page_idx * PAGE_SIZE
ADDR_TO_PAGE(addr) == addr \div PAGE_SIZE

\* addr ^ (1 << o)
BUDDY_ADDR(addr, o) ==
  IF (addr \div Bytes[o]) % 2 = 0 THEN addr + Bytes[o] ELSE addr - Bytes[o]
=============================================================================
