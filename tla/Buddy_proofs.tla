---------------------------- MODULE Buddy_proofs ----------------------------
(***************************************************************************)
(* Safety of the buddy allocator, for every page size, every number of     *)
(* orders and every set of sizes: the blocks tile memory, buddies merge,   *)
(* the recorded orders are right, and callers get what module Allocator    *)
(* promises.                                                               *)
(***************************************************************************)
EXTENDS Buddy, Lists_proofs, WellFoundedInduction, TLAPS

-----------------------------------------------------------------------------
\* The arithmetic of the macros: what a buddy is, and that splitting a block and
\* merging two buddies keep the blocks a tiling of memory.

\* Of two multiples the larger has the larger factor.
LEMMA MultLess ==
  ASSUME NEW a \in Int, NEW b \in Int, NEW s \in Nat \ {0}, a * s < b * s
  PROVE  a < b
BY SMT

\* The larger factor gives the larger multiple.
LEMMA MultLeq ==
  ASSUME NEW a \in Int, NEW b \in Int, NEW s \in Nat \ {0}, a <= b
  PROVE  a * s <= b * s
BY SMT

\* Dividing a multiple of d by d.
LEMMA DivOfProduct ==
  ASSUME NEW m \in Nat, NEW d \in Nat \ {0}
  PROVE  (m * d) \div d = m /\ (m * d) % d = 0
BY SMT

\* The ring laws, for the steps that name their terms.
LEMMA MultLaws ==
  ASSUME NEW a \in Int, NEW b \in Int, NEW c \in Int
  PROVE  (a * b) * c = a * (b * c) /\ (a + b) * c = a * c + b * c /\ a * b \in Int
BY SMT

\* No remainder: a multiple.
LEMMA ModZero ==
  ASSUME NEW p \in Nat, NEW d \in Nat \ {0}, p % d = 0
  PROVE  \E m \in Nat : p = m * d
<1>1. p = ((p \div d) * d) + (p % d) /\ p \div d \in Nat
  BY SMT
<1> QED BY <1>1

\* The span of a block is a power of two pages, and its pages fill its bytes.
LEMMA SpanIs ==
  ASSUME NEW o \in Orders
  PROVE  /\ PAGE_SIZE \in Nat \ {0}
         /\ Span(o) = Bytes[o - MIN_ORDER] /\ Span(o) \in Nat \ {0}
         /\ Bytes[o] = Span(o) * PAGE_SIZE /\ Bytes[o] \in Nat \ {0}
<1>1. /\ o \in 0..MAX_ORDER /\ MIN_ORDER \in 0..MAX_ORDER /\ o - MIN_ORDER \in 0..MAX_ORDER
      /\ (o - MIN_ORDER) + MIN_ORDER = o /\ o <= MAX_ORDER
  BY OrdersAssumption DEF Orders
<1>2. /\ PAGE_SIZE \in Nat \ {0} /\ Bytes[o - MIN_ORDER] \in Nat \ {0} /\ Bytes[o] \in Nat \ {0}
  BY <1>1, BytesAssumption DEF PAGE_SIZE
<1>3. Bytes[o] = Bytes[o - MIN_ORDER] * PAGE_SIZE
  <2>1. Bytes[(o - MIN_ORDER) + MIN_ORDER] = Bytes[o - MIN_ORDER] * Bytes[MIN_ORDER]
    BY <1>1, BytesAssumption
  <2> QED BY <1>1, <2>1 DEF PAGE_SIZE
<1>4. Span(o) = Bytes[o - MIN_ORDER]
  BY <1>2, <1>3, DivOfProduct DEF Span
<1> QED BY <1>2, <1>3, <1>4

\* A larger block is a whole number of smaller ones.
LEMMA SpanDivides ==
  ASSUME NEW o \in Orders, NEW k \in Orders, o <= k
  PROVE  Bytes[k - o] \in Nat \ {0} /\ Span(k) = Bytes[k - o] * Span(o)
<1>1. /\ k - o \in 0..MAX_ORDER /\ o - MIN_ORDER \in 0..MAX_ORDER
      /\ (k - o) + (o - MIN_ORDER) = k - MIN_ORDER /\ k - MIN_ORDER <= MAX_ORDER
  BY OrdersAssumption DEF Orders
<1>2. Bytes[(k - o) + (o - MIN_ORDER)] = Bytes[k - o] * Bytes[o - MIN_ORDER]
  BY <1>1, BytesAssumption
<1> QED BY <1>1, <1>2, SpanIs, BytesAssumption

\* A block is two of the order below.
LEMMA SpanNext ==
  ASSUME NEW o \in Orders, o # MAX_ORDER
  PROVE  o + 1 \in Orders /\ Span(o + 1) = 2 * Span(o)
<1>1. o + 1 \in Orders /\ (o + 1) - o = 1 /\ Span(o) \in Nat
  BY SpanIs, OrdersAssumption DEF Orders
<1>2. Span(o + 1) = Bytes[(o + 1) - o] * Span(o)
  BY <1>1, SpanDivides DEF Orders
<1> QED BY <1>1, <1>2, BytesAssumption

\* PAGE_TO_ADDR and ADDR_TO_PAGE: the address of a page gives the page back,
\* and different pages have different addresses.
LEMMA PageAddr ==
  ASSUME NEW p \in Nat
  PROVE  /\ PAGE_TO_ADDR(p) \in Nat /\ ADDR_TO_PAGE(PAGE_TO_ADDR(p)) = p
         /\ \A q \in Nat : PAGE_TO_ADDR(q) = PAGE_TO_ADDR(p) => q = p
<1>1. PAGE_SIZE \in Nat \ {0}
  BY SpanIs, OrdersAssumption DEF Orders
<1>2. \A q \in Nat : q * PAGE_SIZE \in Nat /\ (q * PAGE_SIZE) \div PAGE_SIZE = q
  BY <1>1, DivOfProduct
<1> QED BY <1>2 DEF PAGE_TO_ADDR, ADDR_TO_PAGE

\* Block number m of order o, of two buddies the left one if m is even.
\* BUDDY_ADDR: of the blocks of one order, number 2j and number 2j + 1 are each
\* other's buddies.
LEMMA BuddyAddr ==
  ASSUME NEW o \in Orders, NEW j \in Nat, NEW p \in Nat, p = (2 * j) * Span(o)
  PROVE  /\ BUDDY_ADDR(PAGE_TO_ADDR(p), o) = PAGE_TO_ADDR(p + Span(o))
         /\ BUDDY_ADDR(PAGE_TO_ADDR(p + Span(o)), o) = PAGE_TO_ADDR(p)
<1> DEFINE s == Span(o)
           z == PAGE_SIZE
           b == Bytes[o]
<1>1. s \in Nat \ {0} /\ z \in Nat \ {0} /\ b \in Nat \ {0} /\ b = s * z /\ p = (2 * j) * s
  BY SpanIs
<1>2. PAGE_TO_ADDR(p) = p * z /\ PAGE_TO_ADDR(p + Span(o)) = (p + s) * z
  BY DEF PAGE_TO_ADDR
<1> HIDE DEF s, z, b
<1>3. p * z = (2 * j) * b /\ (p + s) * z = (2 * j + 1) * b
  <2>1. ((2 * j) * s) * z = (2 * j) * (s * z)
    BY <1>1, MultLaws
  <2>2. (p + s) * z = p * z + s * z
    BY <1>1, MultLaws
  <2>3. (2 * j + 1) * b = (2 * j) * b + 1 * b /\ 1 * b = b
    BY <1>1, MultLaws
  <2> QED BY <1>1, <2>1, <2>2, <2>3
<1>4. /\ (p * z) \div b = 2 * j /\ (p * z) + b = (p + s) * z
      /\ ((p + s) * z) \div b = 2 * j + 1
  <2>1. (2 * j) \in Nat /\ 2 * j + 1 \in Nat
    OBVIOUS
  <2>2. ((2 * j) * b) \div b = 2 * j /\ ((2 * j + 1) * b) \div b = 2 * j + 1
    BY <1>1, <2>1, DivOfProduct
  <2>3. (2 * j + 1) * b = (2 * j) * b + 1 * b /\ 1 * b = b
    BY <1>1, MultLaws
  <2> QED BY <1>3, <2>2, <2>3
<1>5. (2 * j) % 2 = 0 /\ (2 * j + 1) % 2 = 1
  OBVIOUS
<1>6. ((p + s) * z) - b = p * z /\ p * z \in Nat /\ b \in Nat
  <2>1. p * z \in Int /\ b \in Int
    BY <1>1, MultLaws
  <2> QED BY <1>1, <1>4, <2>1
<1> QED BY <1>2, <1>4, <1>5, <1>6 DEF BUDDY_ADDR, b

\* A page where a block of order o may start.
Aligned(p, o) == \E m \in Nat : p = m * Span(o)

\* An aligned block is the left or the right half of the block above it.
LEMMA Halves ==
  ASSUME NEW o \in Orders, NEW p \in Nat, Aligned(p, o)
  PROVE  \E j \in Nat : \/ p = (2 * j) * Span(o)
                        \/ p = (2 * j) * Span(o) + Span(o)
<1>1. PICK m \in Nat : p = m * Span(o)
  BY DEF Aligned
<1>2. \E j \in Nat : m = 2 * j \/ m = 2 * j + 1
  <2>1. m \div 2 \in Nat /\ (m = 2 * (m \div 2) \/ m = 2 * (m \div 2) + 1)
    OBVIOUS
  <2> QED BY <2>1
<1>3. PICK j \in Nat : m = 2 * j \/ m = 2 * j + 1
  BY <1>2
<1>4. Span(o) \in Nat \ {0}
  BY SpanIs
<1>5. (2 * j + 1) * Span(o) = (2 * j) * Span(o) + Span(o)
  BY <1>4
<1> QED BY <1>1, <1>3, <1>5

-----------------------------------------------------------------------------
\* The pages of block b, a record of its first page and its order.
Cells(b) == Block(b.first, b.order)

\* b is aligned and inside memory.
WellPlaced(b) ==
  /\ b = [first |-> b.first, order |-> b.order]
  /\ b.first \in Pages /\ b.order \in Orders
  /\ Aligned(b.first, b.order) /\ b.first + Span(b.order) <= Span(MAX_ORDER)

\* The blocks of B are each in their place and cover memory once.
Tiling(B) ==
  /\ \A b \in B : WellPlaced(b)
  /\ \A p \in Pages : \E b \in B : p \in Cells(b)
  /\ \A b, c \in B : b # c => Cells(b) \cap Cells(c) = {}

\* Pages are naturals.
LEMMA PagesNat == Pages \subseteq Nat /\ MAX_ORDER \in Orders /\ Span(MAX_ORDER) \in Nat \ {0}
<1>1. MAX_ORDER \in Orders
  BY OrdersAssumption DEF Orders
<1> QED BY <1>1, SpanIs DEF Pages

\* The pages of a block in its place: an interval inside memory.
LEMMA CellsOf ==
  ASSUME NEW b, WellPlaced(b)
  PROVE  /\ \A p \in Int : p \in Cells(b) <=> b.first <= p /\ p < b.first + Span(b.order)
         /\ Cells(b) \subseteq Pages /\ b.first \in Cells(b)
         /\ b.first \in Nat /\ Span(b.order) \in Nat \ {0}
<1>1. Span(b.order) \in Nat \ {0} /\ b.first \in Nat /\ Span(MAX_ORDER) \in Nat
  BY SpanIs, PagesNat DEF WellPlaced
<1> QED BY <1>1 DEF Cells, Block, WellPlaced, Pages

\* Splitting a block of a tiling leaves a tiling, of new blocks.
LEMMA SplitTiling ==
  ASSUME NEW B, Tiling(B), NEW b \in B, NEW o \in Orders, b.order = o + 1,
         NEW l, l = [first |-> b.first, order |-> o],
         NEW r, r = [first |-> b.first + Span(o), order |-> o]
  PROVE  Tiling((B \ {b}) \union {l, r}) /\ l \notin B /\ r \notin B /\ l # r
<1>1. WellPlaced(b) /\ b.first \in Nat /\ Span(b.order) \in Nat /\ b.order \in Orders
  BY CellsOf DEF Tiling, WellPlaced
<1>2. o # MAX_ORDER /\ Span(o + 1) = 2 * Span(o) /\ Span(o) \in Nat \ {0}
  <2>1. o # MAX_ORDER
    BY <1>1, OrdersAssumption DEF Orders
  <2> QED BY <2>1, SpanNext, SpanIs
<1>3. WellPlaced(l) /\ WellPlaced(r)
  <2>1. PICK m \in Nat : b.first = m * Span(o + 1)
    BY <1>1 DEF WellPlaced, Aligned
  <2>2. m * (2 * Span(o)) = (2 * m) * Span(o)
    BY <1>2, MultLaws
  <2>3. (2 * m + 1) * Span(o) = (2 * m) * Span(o) + Span(o)
    <3>1. (2 * m + 1) * Span(o) = (2 * m) * Span(o) + 1 * Span(o) /\ 1 * Span(o) = Span(o)
      BY <1>2, MultLaws
    <3> QED BY <3>1
  <2>4. Aligned(b.first, o) /\ Aligned(b.first + Span(o), o)
    <3>1. 2 * m \in Nat /\ 2 * m + 1 \in Nat
      OBVIOUS
    <3> QED BY <1>2, <2>1, <2>2, <2>3, <3>1 DEF Aligned
  <2>5. b.first + Span(o) \in Pages /\ b.first \in Pages
        /\ b.first + Span(o) <= Span(MAX_ORDER) /\ (b.first + Span(o)) + Span(o) <= Span(MAX_ORDER)
    BY <1>1, <1>2, PagesNat DEF WellPlaced, Pages
  <2> QED BY <2>4, <2>5 DEF WellPlaced
<1>4. /\ Cells(l) \union Cells(r) = Cells(b) /\ Cells(l) \cap Cells(r) = {}
      /\ l.first \in Cells(b) /\ r.first \in Cells(b) /\ l.first # r.first
      /\ l.order # b.order /\ r.order # b.order
  BY <1>1, <1>2, <1>3, CellsOf, PagesNat DEF Cells, Block, Orders
<1>5. \A c \in B : WellPlaced(c) /\ c.first \in Cells(c)
  BY CellsOf DEF Tiling
<1>6. l \notin B /\ r \notin B
  BY <1>4, <1>5 DEF Tiling
<1>7. \A p \in Pages : \E c \in (B \ {b}) \union {l, r} : p \in Cells(c)
  BY <1>4 DEF Tiling
<1>8. \A c \in B \ {b} : Cells(c) \cap Cells(b) = {}
  BY DEF Tiling
<1>9. ASSUME NEW c \in (B \ {b}) \union {l, r}, NEW d \in (B \ {b}) \union {l, r}, c # d
      PROVE  Cells(c) \cap Cells(d) = {}
  BY <1>4, <1>8, <1>9 DEF Tiling
<1> QED BY <1>3, <1>4, <1>5, <1>6, <1>7, <1>9 DEF Tiling

\* Merging two buddies of a tiling leaves a tiling, with a new block.
LEMMA MergeTiling ==
  ASSUME NEW B, Tiling(B), NEW o \in Orders, o # MAX_ORDER, NEW l \in B, NEW r \in B,
         l.order = o, r.order = o, r.first = l.first + Span(o),
         NEW j \in Nat, l.first = (2 * j) * Span(o),
         NEW b, b = [first |-> l.first, order |-> o + 1]
  PROVE  Tiling((B \ {l, r}) \union {b}) /\ b \notin B
<1>1. WellPlaced(l) /\ WellPlaced(r) /\ l.first \in Nat
  BY CellsOf DEF Tiling
<1>2. o + 1 \in Orders /\ Span(o + 1) = 2 * Span(o) /\ Span(o) \in Nat \ {0}
  BY SpanNext, SpanIs
<1>3. WellPlaced(b)
  <2>1. j * (2 * Span(o)) = (2 * j) * Span(o)
    BY <1>2, MultLaws
  <2>2. Aligned(b.first, o + 1)
    BY <1>2, <2>1 DEF Aligned
  <2>3. b.first \in Pages /\ b.first + Span(o + 1) <= Span(MAX_ORDER)
    BY <1>1, <1>2, PagesNat DEF WellPlaced
  <2> QED BY <1>2, <2>2, <2>3 DEF WellPlaced
<1>4. /\ Cells(l) \union Cells(r) = Cells(b)
      /\ b.first \in Cells(l) /\ b.order # o /\ r.first # l.first
  BY <1>1, <1>2, <1>3, CellsOf, PagesNat DEF Cells, Block, Orders
<1>5. \A c \in B : WellPlaced(c) /\ c.first \in Cells(c)
  BY CellsOf DEF Tiling
<1>6. b \notin B
  BY <1>3, <1>4, CellsOf DEF Tiling
<1>7. \A p \in Pages : \E c \in (B \ {l, r}) \union {b} : p \in Cells(c)
  BY <1>4 DEF Tiling
<1>8. \A c \in B \ {l, r} : Cells(c) \cap Cells(b) = {}
  BY <1>4 DEF Tiling
<1>9. ASSUME NEW c \in (B \ {l, r}) \union {b}, NEW d \in (B \ {l, r}) \union {b}, c # d
      PROVE  Cells(c) \cap Cells(d) = {}
  BY <1>8, <1>9 DEF Tiling
<1> QED BY <1>3, <1>5, <1>6, <1>7, <1>9 DEF Tiling
-----------------------------------------------------------------------------
\* p and q are the first pages of the two halves of a block of order o + 1.
Twins(p, q, o) ==
  \E j \in Nat : \/ p = (2 * j) * Span(o) /\ q = p + Span(o)
                 \/ q = (2 * j) * Span(o) /\ p = q + Span(o)

\* The exclusive or of BUDDY_ADDR finds the other half.
LEMMA BuddyIsTwin ==
  ASSUME NEW o \in Orders, NEW p \in Nat, Aligned(p, o), NEW q \in Nat
  PROVE  PAGE_TO_ADDR(q) = BUDDY_ADDR(PAGE_TO_ADDR(p), o) <=> Twins(p, q, o)
<1>1. Span(o) \in Nat \ {0}
  BY SpanIs
<1>2. ASSUME Twins(p, q, o)  PROVE PAGE_TO_ADDR(q) = BUDDY_ADDR(PAGE_TO_ADDR(p), o)
  <2>1. PICK j \in Nat : \/ p = (2 * j) * Span(o) /\ q = p + Span(o)
                         \/ q = (2 * j) * Span(o) /\ p = q + Span(o)
    BY <1>2 DEF Twins
  <2> QED BY <2>1, BuddyAddr
<1>3. ASSUME PAGE_TO_ADDR(q) = BUDDY_ADDR(PAGE_TO_ADDR(p), o)  PROVE Twins(p, q, o)
  <2>1. PICK j \in Nat : p = (2 * j) * Span(o) \/ p = (2 * j) * Span(o) + Span(o)
    BY Halves
  <2>2. (2 * j) * Span(o) \in Nat /\ (2 * j) * Span(o) + Span(o) \in Nat
    BY <1>1, SMT
  <2>3. CASE p = (2 * j) * Span(o)
    <3>1. PAGE_TO_ADDR(q) = PAGE_TO_ADDR(p + Span(o))
      BY <1>3, <2>3, BuddyAddr
    <3>2. q = p + Span(o)
      BY <1>1, <3>1, PageAddr
    <3> QED BY <2>3, <3>2 DEF Twins
  <2>4. CASE p = (2 * j) * Span(o) + Span(o)
    <3>1. PAGE_TO_ADDR(q) = PAGE_TO_ADDR((2 * j) * Span(o))
      BY <1>3, <2>2, <2>4, BuddyAddr
    <3>2. q = (2 * j) * Span(o)
      BY <2>2, <3>1, PageAddr
    <3> QED BY <2>4, <3>2 DEF Twins
  <2> QED BY <2>1, <2>3, <2>4
<1> QED BY <1>2, <1>3

\* Of two aligned blocks that meet, the smaller is inside the larger.
LEMMA Nested ==
  ASSUME NEW o \in Orders, NEW k \in Orders, o <= k, NEW p \in Nat, NEW q \in Nat,
         Aligned(p, o), Aligned(q, k), NEW x, x \in Block(p, o), x \in Block(q, k)
  PROVE  Block(p, o) \subseteq Block(q, k) /\ q <= p /\ p + Span(o) <= q + Span(k)
<1> DEFINE s == Span(o)
           c == Bytes[k - o]
<1>1. s \in Nat \ {0} /\ c \in Nat \ {0} /\ Span(k) = c * s
  BY SpanIs, SpanDivides
<1>2. PICK m \in Nat : p = m * s
  BY DEF Aligned
<1>3. PICK n \in Nat : q = n * (c * s)
  BY <1>1 DEF Aligned
<1>4. x \in Int /\ p <= x /\ x < p + s /\ q <= x /\ x < q + c * s
  BY <1>1, <1>2, <1>3 DEF Block
<1> HIDE DEF s, c
<1>5. /\ n * c \in Nat /\ q = (n * c) * s /\ p + s = (m + 1) * s
      /\ q + c * s = (n * c + c) * s
  <2>1. n * c \in Nat /\ n * c \in Int
    BY <1>1, SMT
  <2>2. (n * c) * s = n * (c * s)
    BY <1>1, MultLaws
  <2>3. (m + 1) * s = m * s + 1 * s /\ 1 * s = s
    BY <1>1, MultLaws
  <2>4. (n * c + c) * s = (n * c) * s + c * s
    BY <1>1, <2>1, MultLaws
  <2> QED BY <1>2, <1>3, <2>1, <2>2, <2>3, <2>4
<1>6. c * s \in Int /\ p \in Int /\ q \in Int
  BY <1>1, MultLaws
<1>7. n * c < m + 1 /\ m < n * c + c
  <2>1. (n * c) * s < (m + 1) * s /\ m * s < (n * c + c) * s
    BY <1>1, <1>2, <1>4, <1>5, <1>6
  <2>2. n * c \in Int /\ m + 1 \in Int /\ m \in Int /\ n * c + c \in Int
    BY <1>1, <1>5
  <2> QED BY <1>1, <2>1, <2>2, MultLess
<1>8. n * c <= m /\ m + 1 <= n * c + c
  BY <1>1, <1>5, <1>7
<1>9. (n * c) * s <= m * s /\ (m + 1) * s <= (n * c + c) * s
  <2>1. n * c \in Int /\ m + 1 \in Int /\ m \in Int /\ n * c + c \in Int
    BY <1>1, <1>5
  <2> QED BY <1>1, <1>8, <2>1, MultLeq
<1>10. q <= p /\ p + s <= q + c * s
  BY <1>2, <1>5, <1>9
<1>11. p..(p + s - 1) \subseteq q..(q + c * s - 1)
  BY <1>1, <1>6, <1>10
<1> QED BY <1>1, <1>10, <1>11 DEF Block, s

\* The twin of a block that is inside a larger aligned block.
LEMMA TwinInside ==
  ASSUME NEW o \in Orders, NEW k \in Orders, o < k, NEW p \in Nat, NEW q \in Nat,
         Aligned(p, o), Aligned(q, k), NEW x, x \in Block(p, o), x \in Block(q, k)
  PROVE  \E t \in Nat : Twins(p, t, o) /\ Aligned(t, o) /\ Block(t, o) \subseteq Block(q, k)
<1>1. o # MAX_ORDER /\ o + 1 \in Orders /\ o + 1 <= k
      /\ Span(o + 1) = 2 * Span(o) /\ Span(o) \in Nat \ {0}
  <2>1. o # MAX_ORDER /\ o + 1 <= k
    BY OrdersAssumption DEF Orders
  <2> QED BY <2>1, SpanNext, SpanIs
<1>2. PICK j \in Nat : p = (2 * j) * Span(o) \/ p = (2 * j) * Span(o) + Span(o)
  BY Halves
<1> DEFINE l == (2 * j) * Span(o)
<1>3. l \in Nat /\ 2 * j \in Nat /\ 2 * j + 1 \in Nat
  BY <1>1, SMT
<1>4. Aligned(l, o + 1)
  <2>1. j * (2 * Span(o)) = (2 * j) * Span(o)
    BY <1>1, MultLaws
  <2> QED BY <1>1, <2>1 DEF Aligned
<1>5. Aligned(l, o) /\ Aligned(l + Span(o), o)
  <2>1. (2 * j + 1) * Span(o) = (2 * j) * Span(o) + 1 * Span(o) /\ 1 * Span(o) = Span(o)
    BY <1>1, MultLaws
  <2> QED BY <1>3, <2>1 DEF Aligned
<1> HIDE DEF l
<1>6. /\ Block(l, o + 1) = Block(l, o) \union Block(l + Span(o), o)
      /\ x \in Block(l, o + 1)
  BY <1>1, <1>2, <1>3 DEF Block, l
<1>7. Block(l, o + 1) \subseteq Block(q, k)
  BY <1>1, <1>3, <1>4, <1>6, Nested
<1>8. CASE p = l
  <2>1. Twins(p, l + Span(o), o)
    BY <1>8 DEF Twins, l
  <2> QED BY <1>1, <1>3, <1>5, <1>6, <1>7, <2>1
<1>9. CASE p = l + Span(o)
  <2>1. Twins(p, l, o)
    BY <1>9 DEF Twins, l
  <2> QED BY <1>3, <1>5, <1>6, <1>7, <2>1
<1> QED BY <1>2, <1>8, <1>9 DEF l

\* Twins are in one block of the order above.
LEMMA TwinsTogether ==
  ASSUME NEW o \in Orders, NEW k \in Orders, o < k, NEW p \in Nat, NEW t \in Nat, Twins(p, t, o),
         NEW q \in Nat, Aligned(q, k), t \in Block(q, k)
  PROVE  p \in Block(q, k)
<1>1. Span(o) \in Nat \ {0} /\ Span(o + 1) = 2 * Span(o) /\ o + 1 \in Orders /\ o + 1 <= k
  <2>1. o # MAX_ORDER /\ o + 1 <= k
    BY OrdersAssumption DEF Orders
  <2> QED BY <2>1, SpanNext, SpanIs
<1>2. PICK j \in Nat : \/ p = (2 * j) * Span(o) /\ t = p + Span(o)
                       \/ t = (2 * j) * Span(o) /\ p = t + Span(o)
  BY DEF Twins
<1> DEFINE l == (2 * j) * Span(o)
<1>3. l \in Nat
  BY <1>1, SMT
<1>4. Aligned(l, o + 1)
  <2>1. j * (2 * Span(o)) = (2 * j) * Span(o)
    BY <1>1, MultLaws
  <2> QED BY <1>1, <2>1 DEF Aligned
<1>5. p \in Block(l, o + 1) /\ t \in Block(l, o + 1)
  <2> HIDE DEF l
  <2>1. (p = l /\ t = l + Span(o)) \/ (t = l /\ p = l + Span(o))
    BY <1>2 DEF l
  <2> QED BY <1>1, <1>3, <2>1 DEF Block
<1> QED BY <1>1, <1>3, <1>4, <1>5, Nested

\* Every aligned block is inside memory.
LEMMA InMemory ==
  ASSUME NEW o \in Orders, NEW p \in Pages, Aligned(p, o)
  PROVE  /\ p + Span(o) <= Span(MAX_ORDER) /\ Block(p, o) \subseteq Pages /\ p \in Block(p, o)
         /\ WellPlaced([first |-> p, order |-> o])
<1>1. /\ MAX_ORDER \in Orders /\ p \in Nat /\ Span(o) \in Nat \ {0}
      /\ Span(MAX_ORDER) \in Nat \ {0} /\ o <= MAX_ORDER
  BY PagesNat, SpanIs, OrdersAssumption DEF Orders
<1>2. Aligned(0, MAX_ORDER)
  <2>1. 0 = 0 * Span(MAX_ORDER)
    BY <1>1
  <2> QED BY <2>1 DEF Aligned
<1>3. p \in Block(p, o) /\ p \in Block(0, MAX_ORDER) /\ Block(0, MAX_ORDER) = Pages
  BY <1>1 DEF Block, Pages
<1>4. Block(p, o) \subseteq Block(0, MAX_ORDER) /\ p + Span(o) <= 0 + Span(MAX_ORDER)
  BY <1>1, <1>2, <1>3, Nested
<1> QED BY <1>1, <1>3, <1>4 DEF WellPlaced

\* A tiling whose blocks outside L are smaller than order o and hold no twins
\* has no room for an aligned block of order o that meets no block of L: a
\* smallest block in that room has its twin beside it in the room, whole or in
\* parts, and parts would be smaller.
LEMMA NoRoom ==
  ASSUME NEW B, Tiling(B), NEW L \in SUBSET B, NEW o \in Orders,
         NEW p \in Pages, Aligned(p, o), \A b \in L : Block(p, o) \cap Cells(b) = {},
         \A b \in B \ L : b.order < o,
         \A b, c \in B \ L : b.order = c.order => ~Twins(b.first, c.first, b.order)
  PROVE  FALSE
<1> DEFINE room == Block(p, o)
           K == {k \in Nat : \E b \in B \ L : b.order = k /\ b.first \in room}
<1>1. p \in Nat /\ o \in Nat /\ room \subseteq Pages /\ p \in room
  <2>1. p \in Nat /\ o \in Nat
    BY PagesNat, OrdersAssumption DEF Orders
  <2> QED BY <2>1, InMemory
<1>2. ASSUME NEW b \in B
      PROVE  /\ WellPlaced(b) /\ b.order \in Orders /\ b.order \in Nat /\ b.first \in Nat
             /\ Aligned(b.first, b.order) /\ b.first \in Cells(b)
             /\ Cells(b) = Block(b.first, b.order)
  <2>1. WellPlaced(b)
    BY DEF Tiling
  <2>2. b.order \in Orders /\ b.order \in Nat /\ Aligned(b.first, b.order)
    BY <2>1, OrdersAssumption DEF WellPlaced, Orders
  <2> QED BY <2>1, <2>2, CellsOf DEF Cells
<1>3. ASSUME NEW y \in room
      PROVE  \E b \in B \ L : y \in Cells(b) /\ Cells(b) \subseteq room /\ b.first \in room
  <2>1. PICK b \in B : y \in Cells(b)
    BY <1>1, <1>3 DEF Tiling
  <2>2. b \notin L
    BY <2>1, <1>3
  <2>3. b.order < o /\ b.order <= o
    <3>1. b.order < o
      BY <2>2
    <3> QED BY <3>1, <1>1, <1>2
  <2>4. y \in Block(b.first, b.order) /\ y \in Block(p, o)
    BY <1>2, <1>3, <2>1
  <2>5. Block(b.first, b.order) \subseteq Block(p, o)
    BY <1>1, <1>2, <2>3, <2>4, Nested
  <2> QED BY <1>2, <2>1, <2>2, <2>5
<1>4. K # {}
  BY <1>1, <1>2, <1>3
<1> HIDE DEF K
<1>5. PICK k \in K : \A i \in K : ~(i < k)
  <2>1. IsWellFoundedOn(OpToRel(<, Nat), Nat)
    BY NatLessThanWellFounded
  <2>2. K \subseteq Nat
    BY DEF K
  <2>3. \E x \in K : \A y \in K : ~(<<y, x>> \in OpToRel(<, Nat))
    BY <1>4, <2>1, <2>2, WFMin
  <2> QED BY <2>2, <2>3 DEF OpToRel
<1>6. PICK f \in B \ L : f.order = k /\ f.first \in room
  BY DEF K
<1>7. f.first \in Block(f.first, f.order) /\ f.order < o /\ f.order \in Orders /\ f.first \in Nat
      /\ Aligned(f.first, f.order)
  <2>1. f \in B /\ f.order < o
    BY <1>6
  <2> QED BY <1>2, <2>1
<1>8. PICK t \in Nat : Twins(f.first, t, f.order) /\ Aligned(t, f.order)
                       /\ Block(t, f.order) \subseteq room
  BY <1>1, <1>6, <1>7, TwinInside
<1>9. t \in Block(t, f.order)
  BY <1>7, SpanIs DEF Block
<1>10. PICK g \in B \ L : t \in Cells(g) /\ g.first \in room
  BY <1>3, <1>8, <1>9
<1>11. /\ g \in B /\ g.order \in Orders /\ g.order \in Nat /\ g.first \in Nat
       /\ Aligned(g.first, g.order) /\ g.first \in Cells(g)
       /\ Cells(g) = Block(g.first, g.order) /\ ~(g.order < f.order) /\ f.order \in Nat
  BY <1>2, <1>5, <1>6, <1>10 DEF K
<1>12. CASE g.order = f.order
  <2>1. t <= g.first /\ g.first <= t
    BY <1>7, <1>8, <1>9, <1>10, <1>11, <1>12, Nested
  <2>2. t = g.first
    BY <1>8, <1>11, <2>1
  <2> QED BY <1>6, <1>8, <1>10, <1>12, <2>2
<1>13. CASE f.order < g.order
  <2>1. f.first \in Cells(g)
    BY <1>7, <1>8, <1>10, <1>11, <1>13, TwinsTogether
  <2>2. f.first \in Cells(f) /\ f \in B /\ f # g
    <3>1. f \in B /\ f # g
      BY <1>6, <1>11, <1>13
    <3> QED BY <1>2, <3>1
  <2> QED BY <1>11, <2>1, <2>2 DEF Tiling
<1> QED BY <1>11, <1>12, <1>13
-----------------------------------------------------------------------------
\* The blocks on lists fa, one list for each order.
BlocksOn(fa) == UNION {{[first |-> fa[o][k], order |-> o] : k \in 1..Len(fa[o])} : o \in Orders}

LEMMA BlocksOnElements ==
  ASSUME NEW fa, NEW b
  PROVE  b \in BlocksOn(fa) <=>
           \E o \in Orders : \E p \in Listed(fa[o]) : b = [first |-> p, order |-> o]
BY DEF BlocksOn, Listed

\* Lists ga are lists fa with page p more, or less, on the list of order o.
OneMore(fa, ga, o, p) ==
  (\A k \in Orders : k # o => ga[k] = fa[k]) /\ Listed(ga[o]) = Listed(fa[o]) \union {p}
OneLess(fa, ga, o, p) ==
  (\A k \in Orders : k # o => ga[k] = fa[k]) /\ Listed(ga[o]) = Listed(fa[o]) \ {p}

LEMMA BlocksOnMore ==
  ASSUME NEW fa, NEW ga, NEW o \in Orders, NEW p, OneMore(fa, ga, o, p)
  PROVE  BlocksOn(ga) = BlocksOn(fa) \union {[first |-> p, order |-> o]}
<1> USE DEF OneMore
<1>1. ASSUME NEW b \in BlocksOn(ga)  PROVE b \in BlocksOn(fa) \union {[first |-> p, order |-> o]}
  <2>1. PICK k \in Orders : \E q \in Listed(ga[k]) : b = [first |-> q, order |-> k]
    BY <1>1, BlocksOnElements
  <2> QED BY <2>1, BlocksOnElements
<1>2. ASSUME NEW b \in BlocksOn(fa)  PROVE b \in BlocksOn(ga)
  <2>1. PICK k \in Orders : \E q \in Listed(fa[k]) : b = [first |-> q, order |-> k]
    BY <1>2, BlocksOnElements
  <2> QED BY <2>1, BlocksOnElements
<1>3. [first |-> p, order |-> o] \in BlocksOn(ga)
  BY BlocksOnElements
<1> QED BY <1>1, <1>2, <1>3

LEMMA BlocksOnLess ==
  ASSUME NEW fa, NEW ga, NEW o \in Orders, NEW p, OneLess(fa, ga, o, p)
  PROVE  BlocksOn(ga) = BlocksOn(fa) \ {[first |-> p, order |-> o]}
<1> USE DEF OneLess
<1>1. ASSUME NEW b \in BlocksOn(ga)  PROVE b \in BlocksOn(fa) \ {[first |-> p, order |-> o]}
  <2>1. PICK k \in Orders : \E q \in Listed(ga[k]) : b = [first |-> q, order |-> k]
    BY <1>1, BlocksOnElements
  <2>2. PICK q \in Listed(ga[k]) : b = [first |-> q, order |-> k]
    BY <2>1
  <2>3. q \in Listed(fa[k]) /\ ~(k = o /\ q = p)
    BY <2>2
  <2> QED BY <2>2, <2>3, BlocksOnElements
<1>2. ASSUME NEW b \in BlocksOn(fa) \ {[first |-> p, order |-> o]}  PROVE b \in BlocksOn(ga)
  <2>1. PICK k \in Orders : \E q \in Listed(fa[k]) : b = [first |-> q, order |-> k]
    BY <1>2, BlocksOnElements
  <2> QED BY <1>2, <2>1, BlocksOnElements
<1> QED BY <1>1, <1>2

\* The order buddy_alloc starts at: the smallest that holds the size, or -1.
LEMMA OrderOfSize ==
  ASSUME NEW size \in Int
  PROVE  \/ /\ get_order_size(size) = -1
            /\ \A o \in Orders : Bytes[o] < size
         \/ /\ get_order_size(size) \in Orders
            /\ Bytes[get_order_size(size)] >= size
            /\ \A o \in Orders : o < get_order_size(size) => Bytes[o] < size
<1> DEFINE K == {o \in Orders : ~(Bytes[o] < size)}
<1>1. CASE K = {}
  BY <1>1 DEF get_order_size
<1>2. CASE K # {}
  <2>1. \A o \in Orders : o \in Nat /\ o \in Int /\ Bytes[o] \in Nat
    BY SpanIs, OrdersAssumption DEF Orders
  <2>2. PICK m \in K : \A y \in K : ~(<<y, m>> \in OpToRel(<, Nat))
    <3>1. IsWellFoundedOn(OpToRel(<, Nat), Nat) /\ K \subseteq Nat
      BY <2>1, NatLessThanWellFounded
    <3> HIDE DEF K
    <3> QED BY <1>2, <3>1, WFMin
  <2>3. \A y \in K : ~(y < m)
    BY <2>1, <2>2 DEF OpToRel
  <2>4. m \in Orders /\ Bytes[m] >= size /\ \A k \in MIN_ORDER..(m - 1) : Bytes[k] < size
    <3>1. m \in Orders /\ Bytes[m] >= size
      BY <2>1
    <3>2. ASSUME NEW k \in MIN_ORDER..(m - 1)  PROVE Bytes[k] < size
      <4>1. k \in Orders /\ k < m
        BY <3>1, OrdersAssumption DEF Orders
      <4> QED BY <2>3, <4>1
    <3> QED BY <3>1, <3>2
  <2> DEFINE r == CHOOSE i \in Orders : /\ Bytes[i] >= size
                                        /\ \A k \in MIN_ORDER..(i - 1) : Bytes[k] < size
  <2>5. r \in Orders /\ Bytes[r] >= size /\ \A k \in MIN_ORDER..(r - 1) : Bytes[k] < size
    <3> HIDE DEF K
    <3> QED BY <2>4
  <2>6. get_order_size(size) = r
    BY <1>2 DEF get_order_size
  <2> HIDE DEF r
  <2>7. ASSUME NEW o \in Orders, o < r  PROVE Bytes[o] < size
    <3>1. o \in MIN_ORDER..(r - 1)
      BY <2>5, <2>7, OrdersAssumption DEF Orders
    <3> QED BY <2>5, <3>1
  <2> QED BY <2>5, <2>6, <2>7
<1> QED BY <1>1, <1>2
-----------------------------------------------------------------------------
\* The inductive invariant.

\* A call in progress: where it may be and what its locals may be.
OpTyped ==
  op \in {Idle}
    \union [pc : {"scan"}, size : Sizes, insert_order : Orders \union {-1}, check_free : Int]
    \union [pc : {"split"}, size : Sizes, new_page : Pages, insert_order : Orders,
            check_free : Orders]
    \union [pc : {"merge"}, index : Pages, order : Orders]

Typed ==
  /\ free_area \in [Orders -> Seq(Pages)]
  /\ order \in [Pages -> Orders \union {-1}]
  /\ live \in [DOMAIN live -> Orders] /\ DOMAIN live \subseteq Pages
  /\ OpTyped

\* buddy_alloc looks for its block from the smallest order upwards, and has
\* found every list below check_free empty: a split therefore never puts the
\* second of two buddies on a list.
Scanned ==
  op.pc \in {"scan", "split"} =>
    /\ op.insert_order = get_order_size(op.size)
    /\ op.insert_order = -1 => op.check_free = -1
    /\ op.insert_order # -1 =>
         /\ op.insert_order <= op.check_free /\ op.check_free <= MAX_ORDER + 1
         /\ \A o \in Orders : op.insert_order <= o /\ o < op.check_free => free_area[o] = <<>>

Apart == FreeBlocks \cap LiveBlocks = {} /\ InFlight \cap (FreeBlocks \union LiveBlocks) = {}
ListedOnce == \A o \in Orders : NoneTwice(free_area[o])

\* Coalesced, said of pages: no two halves of a block are on a list.
NoTwins ==
  \A o \in Orders : o # MAX_ORDER =>
    \A p, q \in Listed(free_area[o]) : ~Twins(p, q, o)

BuddyInv ==
  Typed /\ Scanned /\ Tiling(Blocks) /\ Apart /\ ListedOnce /\ NoTwins /\ OrderRecorded

LEMMA FreeBlocksAre == FreeBlocks = BlocksOn(free_area)
BY DEF FreeBlocks, BlocksOn

\* What the invariant says of the blocks.
LEMMA BlocksTyped ==
  ASSUME BuddyInv
  PROVE  /\ \A o \in Orders : \A p \in Listed(free_area[o]) :
              [first |-> p, order |-> o] \in FreeBlocks /\ p \in Pages /\ p \in Nat
         /\ \A p \in DOMAIN live : [first |-> p, order |-> live[p]] \in LiveBlocks
         /\ \A b \in Blocks : WellPlaced(b) /\ b.first \in Cells(b) /\ b.first \in Nat
<1>1. \A b \in Blocks : WellPlaced(b) /\ b.first \in Cells(b) /\ b.first \in Nat
  BY CellsOf DEF BuddyInv, Tiling
<1>2. \A o \in Orders : \A p \in Listed(free_area[o]) : [first |-> p, order |-> o] \in FreeBlocks
  BY FreeBlocksAre, BlocksOnElements
<1>3. ASSUME NEW o \in Orders, NEW p \in Listed(free_area[o])  PROVE p \in Pages
  <2>1. [first |-> p, order |-> o] \in Blocks
    BY <1>2, <1>3 DEF Blocks
  <2> QED BY <1>1, <2>1 DEF WellPlaced
<1> QED BY <1>1, <1>2, <1>3, PagesNat DEF LiveBlocks
-----------------------------------------------------------------------------
\* At first the one block is the whole memory.
LEMMA BuddyInitInv == BuddyInit => BuddyInv
<1> SUFFICES ASSUME BuddyInit  PROVE BuddyInv
  OBVIOUS
<1> USE DEF BuddyInit, buddy_init
<1>1. MAX_ORDER \in Orders /\ 0 \in Pages /\ -1 \notin Orders
  BY PagesNat, OrdersAssumption DEF Pages, Orders
<1>2. Typed /\ op = Idle
  BY <1>1 DEF Typed, OpTyped
<1>3. InFlight = {} /\ LiveBlocks = {} /\ Scanned
  BY <1>2 DEF InFlight, LiveBlocks, Scanned, Idle
<1> DEFINE b == [first |-> 0, order |-> MAX_ORDER]
<1>4. \A o \in Orders : free_area[o] = IF o = MAX_ORDER THEN <<0>> ELSE <<>>
  OBVIOUS
<1>5. /\ Listed(free_area[MAX_ORDER]) = {0}
      /\ \A o \in Orders : o # MAX_ORDER => Listed(free_area[o]) = {}
  BY <1>1, <1>4 DEF Listed
<1>6. FreeBlocks = {b}
  <2>1. ASSUME NEW c \in FreeBlocks  PROVE c = b
    <3>1. \E o \in Orders : \E p \in Listed(free_area[o]) : c = [first |-> p, order |-> o]
      BY <2>1, FreeBlocksAre, BlocksOnElements
    <3> QED BY <3>1, <1>5
  <2>2. b \in FreeBlocks
    BY <1>1, <1>5, FreeBlocksAre, BlocksOnElements
  <2> QED BY <2>1, <2>2
<1>7. Blocks = {b}
  BY <1>3, <1>6 DEF Blocks
<1>8. Tiling({b})
  <2>1. Aligned(0, MAX_ORDER)
    <3>1. 0 = 0 * Span(MAX_ORDER)
      BY <1>1, SpanIs
    <3> QED BY <3>1 DEF Aligned
  <2>2. WellPlaced(b)
    BY <1>1, <2>1, InMemory
  <2>3. Cells(b) = Pages
    BY <1>1, SpanIs DEF Cells, Block, Pages
  <2> QED BY <2>2, <2>3 DEF Tiling
<1>9. ListedOnce /\ NoTwins
  <2>1. \A o \in Orders : Len(free_area[o]) \in {0, 1}
    BY <1>4
  <2>2. ListedOnce
    BY <2>1 DEF ListedOnce, NoneTwice
  <2> QED BY <1>5, <2>2 DEF NoTwins
<1>10. Apart /\ OrderRecorded
  BY <1>3 DEF Apart, OrderRecorded
<1> QED BY <1>2, <1>3, <1>7, <1>8, <1>9, <1>10 DEF BuddyInv

\* buddy_alloc begins.
LEMMA AskInv ==
  ASSUME BuddyInv, NEW size \in Sizes, Ask(size)
  PROVE  BuddyInv'
<1> USE DEF Ask, buddy_alloc
<1>1. Typed' /\ op'.pc = "scan" /\ op.pc = "idle"
  <2>1. get_order_size(size) \in Orders \union {-1} /\ get_order_size(size) \in Int
    BY OrderOfSize, SizesAssumption, OrdersAssumption DEF Orders
  <2> QED BY <2>1 DEF BuddyInv, Typed, OpTyped, Idle
<1>2. Scanned'
  <2>1. /\ op'.insert_order = get_order_size(size) /\ op'.size = size
        /\ op'.check_free = get_order_size(size)
    OBVIOUS
  <2>2. get_order_size(size) = -1 \/ get_order_size(size) \in Orders
    BY OrderOfSize, SizesAssumption
  <2>3. get_order_size(op'.size) = op'.insert_order
    BY <2>1
  <2> QED BY <1>1, <2>1, <2>2, <2>3, OrdersAssumption DEF Scanned, Orders, get_order_size
<1>3. InFlight' = {} /\ InFlight = {} /\ FreeBlocks' = FreeBlocks /\ LiveBlocks' = LiveBlocks
  BY <1>1 DEF InFlight, FreeBlocks, LiveBlocks
<1>4. Blocks' = Blocks /\ Apart'
  BY <1>3 DEF Blocks, Apart, BuddyInv
<1>5. Tiling(Blocks)'
  BY <1>4 DEF Tiling, BuddyInv
<1>6. ListedOnce' /\ NoTwins' /\ OrderRecorded'
  BY DEF BuddyInv, ListedOnce, NoTwins, OrderRecorded
<1> QED BY <1>1, <1>2, <1>4, <1>5, <1>6 DEF BuddyInv

\* A list is empty.
LEMMA ScanUpInv ==
  ASSUME BuddyInv, ScanUp
  PROVE  BuddyInv'
<1> USE DEF ScanUp
<1>1. /\ op \in [pc : {"scan"}, size : Sizes, insert_order : Orders \union {-1}, check_free : Int]
      /\ op.insert_order \in Orders /\ op.check_free \in Orders
      /\ op.insert_order <= op.check_free
  <2>1. op \in [pc : {"scan"}, size : Sizes, insert_order : Orders \union {-1}, check_free : Int]
    BY DEF BuddyInv, Typed, OpTyped, Idle
  <2> QED BY <2>1, OrdersAssumption DEF BuddyInv, Scanned, Orders
<1>2. /\ op' \in [pc : {"scan"}, size : Sizes, insert_order : Orders \union {-1}, check_free : Int]
      /\ op'.pc = "scan" /\ op'.size = op.size /\ op'.insert_order = op.insert_order
      /\ op'.check_free = op.check_free + 1
  BY <1>1
<1>3. Typed'
  BY <1>2 DEF BuddyInv, Typed, OpTyped
<1>4. Scanned'
  <2>1. \A o \in Orders : o < op.check_free + 1 => o < op.check_free \/ o = op.check_free
    BY <1>1, OrdersAssumption DEF Orders
  <2>2. op'.insert_order = get_order_size(op'.size)
    BY <1>2 DEF BuddyInv, Scanned
  <2>3. op'.insert_order # -1 /\ op'.insert_order <= op'.check_free
        /\ op'.check_free <= MAX_ORDER + 1
    BY <1>1, <1>2, OrdersAssumption DEF Orders
  <2>4. \A o \in Orders : op'.insert_order <= o /\ o < op'.check_free => free_area'[o] = <<>>
    BY <1>1, <1>2, <2>1, <2>3 DEF BuddyInv, Scanned
  <2> QED BY <2>2, <2>3, <2>4 DEF Scanned, get_order_size
<1>5. InFlight' = {} /\ InFlight = {} /\ FreeBlocks' = FreeBlocks /\ LiveBlocks' = LiveBlocks
  BY <1>2 DEF InFlight, FreeBlocks, LiveBlocks
<1>6. Blocks' = Blocks /\ Apart'
  BY <1>5 DEF Blocks, Apart, BuddyInv
<1>7. Tiling(Blocks)'
  BY <1>6 DEF Tiling, BuddyInv
<1>8. ListedOnce' /\ NoTwins' /\ OrderRecorded'
  BY DEF BuddyInv, ListedOnce, NoTwins, OrderRecorded
<1> QED BY <1>3, <1>4, <1>6, <1>7, <1>8 DEF BuddyInv

\* The first page of a list leaves it, in the hands of the call.
LEMMA TakeInv ==
  ASSUME BuddyInv, Take
  PROVE  BuddyInv'
<1> USE DEF Take
<1>1. /\ op \in [pc : {"scan"}, size : Sizes, insert_order : Orders \union {-1}, check_free : Int]
      /\ op.insert_order \in Orders /\ op.check_free \in Orders
      /\ op.insert_order <= op.check_free
  <2>1. op \in [pc : {"scan"}, size : Sizes, insert_order : Orders \union {-1}, check_free : Int]
    BY DEF BuddyInv, Typed, OpTyped, Idle
  <2> QED BY <2>1, OrdersAssumption DEF BuddyInv, Scanned, Orders
<1> DEFINE k == op.check_free
           q == free_area[k]
           b == [first |-> Head(q), order |-> k]
<1>2. q \in Seq(Pages) /\ q # <<>> /\ NoneTwice(q)
  BY <1>1 DEF BuddyInv, Typed, ListedOnce
<1>3. /\ Tail(q) \in Seq(Pages) /\ NoneTwice(Tail(q)) /\ Head(q) \in Listed(q)
      /\ Listed(Tail(q)) = Listed(q) \ {Head(q)}
  BY <1>2, TailListed
<1>4. Head(q) \in Pages
  BY <1>1, <1>3, BlocksTyped
<1>5. /\ free_area'[k] = Tail(q) /\ \A o \in Orders : o # k => free_area'[o] = free_area[o]
      /\ free_area' \in [Orders -> Seq(Pages)]
  BY <1>1, <1>3 DEF BuddyInv, Typed
<1>6. /\ op' \in [pc : {"split"}, size : Sizes, new_page : Pages, insert_order : Orders,
                  check_free : Orders]
      /\ op'.pc = "split" /\ op'.size = op.size /\ op'.insert_order = op.insert_order
      /\ op'.check_free = k /\ op'.new_page = Head(q)
  BY <1>1, <1>4
<1>7. Typed'
  BY <1>5, <1>6 DEF BuddyInv, Typed, OpTyped
<1>8. Scanned'
  <2>1. op'.insert_order = get_order_size(op'.size)
    BY <1>6 DEF BuddyInv, Scanned
  <2>2. op'.insert_order # -1 /\ op'.insert_order <= op'.check_free
        /\ op'.check_free <= MAX_ORDER + 1
    BY <1>1, <1>6, OrdersAssumption DEF Orders
  <2>3. \A o \in Orders : o < k => o # k
    BY <1>1, OrdersAssumption DEF Orders
  <2>4. \A o \in Orders : op'.insert_order <= o /\ o < op'.check_free => free_area'[o] = <<>>
    BY <1>1, <1>5, <1>6, <2>2, <2>3 DEF BuddyInv, Scanned
  <2> QED BY <2>1, <2>2, <2>4 DEF Scanned, get_order_size
<1>9. /\ FreeBlocks' = FreeBlocks \ {b} /\ LiveBlocks' = LiveBlocks
      /\ InFlight' = {b} /\ InFlight = {} /\ b \in FreeBlocks
  <2>1. BlocksOn(free_area') = BlocksOn(free_area) \ {b}
    <3>1. PICK x \in Pages : x = Head(q)
      BY <1>4
    <3>2. k \in Orders /\ OneLess(free_area, free_area', k, x)
      BY <1>1, <1>3, <1>5, <3>1 DEF OneLess
    <3> HIDE DEF q, k, Take
    <3>3. BlocksOn(free_area') = BlocksOn(free_area) \ {[first |-> x, order |-> k]}
      BY <3>2, BlocksOnLess
    <3> QED BY <3>1, <3>3
  <2>2. FreeBlocks' = BlocksOn(free_area')
    BY DEF FreeBlocks, BlocksOn
  <2>3. InFlight' = {b} /\ InFlight = {} /\ LiveBlocks' = LiveBlocks
    BY <1>1, <1>6 DEF InFlight, LiveBlocks
  <2>4. b \in FreeBlocks
    BY <1>1, <1>3, BlocksTyped
  <2> QED BY <2>1, <2>2, <2>3, <2>4, FreeBlocksAre
<1> HIDE DEF b
<1>10. Blocks' = Blocks /\ Apart'
  BY <1>9 DEF Blocks, Apart, BuddyInv
<1>11. Tiling(Blocks)'
  BY <1>10 DEF Tiling, BuddyInv
<1>12. ListedOnce' /\ OrderRecorded'
  BY <1>3, <1>5 DEF BuddyInv, ListedOnce, OrderRecorded, NoneTwice
<1>13. NoTwins'
  <2>1. \A o \in Orders : Listed(free_area'[o]) \subseteq Listed(free_area[o])
    BY <1>3, <1>5
  <2> QED BY <2>1 DEF NoTwins, BuddyInv, Listed
<1> QED BY <1>7, <1>8, <1>10, <1>11, <1>12, <1>13 DEF BuddyInv

\* The block in the hands of a call meets no other.
LEMMA InFlightApart ==
  ASSUME BuddyInv, NEW b, InFlight = {b}
  PROVE  /\ b \in Blocks /\ b \notin FreeBlocks /\ b \notin LiveBlocks
         /\ b.first \notin DOMAIN live
<1>1. b \in Blocks /\ b \notin FreeBlocks /\ b \notin LiveBlocks
  BY DEF BuddyInv, Apart, Blocks
<1>2. ASSUME b.first \in DOMAIN live  PROVE FALSE
  <2> DEFINE c == [first |-> b.first, order |-> live[b.first]]
  <2>1. c \in LiveBlocks /\ c \in Blocks /\ c # b
    BY <1>1, <1>2, BlocksTyped DEF Blocks
  <2>2. c.first \in Cells(c) /\ b.first \in Cells(b) /\ c.first = b.first
    BY <1>1, <2>1, BlocksTyped
  <2> QED BY <1>1, <2>1, <2>2 DEF BuddyInv, Tiling
<1> QED BY <1>1, <1>2

\* The right half goes to the list below, which was empty.
LEMMA SplitInv ==
  ASSUME BuddyInv, Split
  PROVE  BuddyInv'
<1> USE DEF Split
<1>1. op \in [pc : {"split"}, size : Sizes, new_page : Pages, insert_order : Orders,
              check_free : Orders]
  BY DEF BuddyInv, Typed, OpTyped, Idle
<1> DEFINE half == op.check_free - 1
           p == op.new_page
           s == Span(half)
           b == [first |-> p, order |-> op.check_free]
           l == [first |-> p, order |-> half]
           r == [first |-> p + s, order |-> half]
<1>2. /\ half \in Orders /\ half # MAX_ORDER /\ op.check_free = half + 1
      /\ op.insert_order <= half /\ half < op.check_free /\ op.insert_order # -1
  BY <1>1, OrdersAssumption DEF Orders
<1>3. s \in Nat \ {0} /\ p \in Nat
  BY <1>1, <1>2, SpanIs, PagesNat
<1>4. InFlight = {b}
  BY DEF InFlight
<1>5. WellPlaced(b) /\ p \notin DOMAIN live /\ b \in Blocks /\ b \notin FreeBlocks
      /\ b \notin LiveBlocks
  BY <1>4, InFlightApart, BlocksTyped
<1>6. PICK j \in Nat : p = (2 * j) * s
  <2>1. PICK m \in Nat : p = m * Span(half + 1)
    BY <1>2, <1>5 DEF WellPlaced, Aligned
  <2>2. Span(half + 1) = 2 * s
    BY <1>2, SpanNext
  <2>3. m * (2 * s) = (2 * m) * s
    <3> HIDE DEF s
    <3> QED BY <1>3, MultLaws
  <2> QED BY <2>1, <2>2, <2>3
<1>7. ADDR_TO_PAGE(BUDDY_ADDR(PAGE_TO_ADDR(p), half)) = p + s
  <2> HIDE DEF half
  <2>1. BUDDY_ADDR(PAGE_TO_ADDR(p), half) = PAGE_TO_ADDR(p + s)
    BY <1>2, <1>3, <1>6, BuddyAddr
  <2> QED BY <1>3, <2>1, PageAddr
<1>8. /\ Tiling((Blocks \ {b}) \union {l, r}) /\ l \notin Blocks /\ r \notin Blocks /\ l # r
  <2>1. Tiling(Blocks)
    BY DEF BuddyInv
  <2> HIDE DEF half, Split
  <2> QED BY <1>2, <1>5, <2>1, SplitTiling
<1>9. p + s \in Pages /\ r.first = p + s /\ WellPlaced(r)
  <2>1. r \in (Blocks \ {b}) \union {l, r} /\ r.first = p + s
    OBVIOUS
  <2>2. WellPlaced(r)
    <3> HIDE DEF l, r, b
    <3> QED BY <1>8, <2>1 DEF Tiling
  <2> QED BY <2>1, <2>2 DEF WellPlaced
<1>10. /\ order' = [order EXCEPT ![p + s] = half]
       /\ free_area' = [free_area EXCEPT ![half] = Link(@, 1, p + s)]
       /\ op' = [op EXCEPT !.check_free = half]
  BY <1>7
<1>11. /\ op' \in [pc : {"split"}, size : Sizes, new_page : Pages, insert_order : Orders,
                   check_free : Orders]
       /\ op'.pc = "split" /\ op'.size = op.size /\ op'.insert_order = op.insert_order
       /\ op'.check_free = half /\ op'.new_page = p
  BY <1>1, <1>2, <1>10
<1> DEFINE q == free_area[half]
<1>12. q = <<>> /\ q \in Seq(Pages) /\ Listed(q) = {} /\ NoneTwice(q)
  <2>1. q = <<>>
    BY <1>2 DEF BuddyInv, Scanned
  <2> QED BY <1>2, <2>1 DEF BuddyInv, Typed, Listed, NoneTwice
<1>13. /\ Link(q, 1, p + s) \in Seq(Pages) /\ NoneTwice(Link(q, 1, p + s))
       /\ Listed(Link(q, 1, p + s)) = Listed(q) \union {p + s}
  <2>1. PICK x \in Pages : x = p + s
    BY <1>9
  <2>2. PICK y \in Seq(Pages) : y = q
    BY <1>12
  <2>3. x \notin Listed(y) /\ NoneTwice(y)
    BY <1>12, <2>2
  <2>4. /\ Link(y, 1, x) \in Seq(Pages) /\ NoneTwice(Link(y, 1, x))
        /\ Listed(Link(y, 1, x)) = Listed(y) \union {x}
    BY <2>3, LinkListed
  <2> QED BY <2>1, <2>2, <2>4
<1>14. /\ free_area'[half] = Link(q, 1, p + s)
       /\ \A o \in Orders : o # half => free_area'[o] = free_area[o]
       /\ free_area' \in [Orders -> Seq(Pages)]
  BY <1>2, <1>10, <1>13 DEF BuddyInv, Typed
<1>15. Typed'
  <2>1. order' \in [Pages -> Orders \union {-1}]
    BY <1>2, <1>9, <1>10 DEF BuddyInv, Typed
  <2> QED BY <1>11, <1>14, <2>1 DEF BuddyInv, Typed, OpTyped
<1>16. Scanned'
  <2>1. op'.insert_order = get_order_size(op'.size)
    BY <1>11 DEF BuddyInv, Scanned
  <2>2. op'.insert_order # -1 /\ op'.insert_order <= op'.check_free
        /\ op'.check_free <= MAX_ORDER + 1
    BY <1>2, <1>11, OrdersAssumption DEF Orders
  <2>3. \A o \in Orders : o < half => o # half /\ o < op.check_free
    BY <1>1, OrdersAssumption DEF Orders
  <2>4. \A o \in Orders : op'.insert_order <= o /\ o < op'.check_free => free_area'[o] = <<>>
    BY <1>2, <1>11, <1>14, <2>2, <2>3 DEF BuddyInv, Scanned
  <2> QED BY <2>1, <2>2, <2>4 DEF Scanned, get_order_size
<1>17. /\ FreeBlocks' = FreeBlocks \union {r} /\ LiveBlocks' = LiveBlocks /\ InFlight' = {l}
  <2>1. BlocksOn(free_area') = BlocksOn(free_area) \union {r}
    <3>1. PICK x \in Pages : x = p + s
      BY <1>9
    <3>2. half \in Orders /\ OneMore(free_area, free_area', half, x)
      BY <1>2, <1>13, <1>14, <3>1 DEF OneMore
    <3> HIDE DEF half, Split, s
    <3>3. BlocksOn(free_area') = BlocksOn(free_area) \union {[first |-> x, order |-> half]}
      BY <3>2, BlocksOnMore
    <3> QED BY <3>1, <3>3
  <2>2. FreeBlocks' = BlocksOn(free_area')
    BY DEF FreeBlocks, BlocksOn
  <2>3. InFlight' = {l} /\ LiveBlocks' = LiveBlocks
    BY <1>11 DEF InFlight, LiveBlocks
  <2> QED BY <2>1, <2>2, <2>3, FreeBlocksAre
<1>18. Blocks' = (Blocks \ {b}) \union {l, r} /\ Apart'
  <2> HIDE DEF b, l, r, Split
  <2> QED BY <1>4, <1>5, <1>8, <1>17 DEF Blocks, Apart, BuddyInv
<1>19. Tiling(Blocks)'
  BY <1>8, <1>18 DEF Tiling
<1>20. OrderRecorded'
  <2>1. p + s \notin DOMAIN live
    <3>1. ASSUME p + s \in DOMAIN live  PROVE FALSE
      <4> DEFINE c == [first |-> p + s, order |-> live[p + s]]
      <4>1. c \in LiveBlocks /\ c \in Blocks /\ c # b
        BY <1>5, <3>1, BlocksTyped DEF Blocks
      <4>2. c.first \in Cells(c) /\ c.first = p + s
        BY <4>1, BlocksTyped
      <4>3. p + s \in Cells(b)
        BY <1>2, <1>3, <1>5, CellsOf, SpanNext
      <4> QED BY <1>5, <4>1, <4>2, <4>3 DEF BuddyInv, Tiling
    <3> QED BY <3>1
  <2>2. \A x \in DOMAIN live : order'[x] = order[x]
    BY <1>10, <2>1 DEF BuddyInv, Typed
  <2> QED BY <2>2 DEF OrderRecorded, BuddyInv
<1>21. ListedOnce'
  BY <1>12, <1>13, <1>14 DEF BuddyInv, ListedOnce, NoneTwice
<1>22. NoTwins'
  <2>1. ASSUME NEW o \in Orders, o # MAX_ORDER, NEW x \in Listed(free_area'[o]),
               NEW y \in Listed(free_area'[o])
        PROVE  ~Twins(x, y, o)
    <3>1. CASE o # half
      BY <1>14, <2>1, <3>1 DEF NoTwins, BuddyInv
    <3>2. CASE o = half
      <4>1. x = p + s /\ y = p + s
        BY <1>12, <1>13, <1>14, <2>1, <3>2
      <4> HIDE DEF half
      <4> QED BY <1>3, <3>2, <4>1 DEF Twins
    <3> QED BY <3>1, <3>2
  <2> QED BY <2>1 DEF NoTwins, Listed
<1> QED BY <1>15, <1>16, <1>18, <1>19, <1>20, <1>21, <1>22 DEF BuddyInv

\* The block goes to the caller.
LEMMA AllocReturnInv ==
  ASSUME BuddyInv, NEW ret_page \in Pages, AllocReturn(ret_page)
  PROVE  BuddyInv'
<1> USE DEF AllocReturn
<1>1. op \in [pc : {"split"}, size : Sizes, new_page : Pages, insert_order : Orders,
              check_free : Orders]
  BY DEF BuddyInv, Typed, OpTyped, Idle
<1> DEFINE o == op.insert_order
           b == [first |-> ret_page, order |-> o]
<1>2. o \in Orders /\ InFlight = {b}
  BY <1>1 DEF InFlight
<1>3. ret_page \notin DOMAIN live /\ b \in Blocks /\ b \notin FreeBlocks /\ b \notin LiveBlocks
  BY <1>2, InFlightApart
<1>4. /\ DOMAIN live' = DOMAIN live \union {ret_page} /\ live'[ret_page] = o
      /\ \A p \in DOMAIN live : live'[p] = live[p]
      /\ live' \in [DOMAIN live' -> Orders] /\ DOMAIN live' \subseteq Pages
  BY <1>2, <1>3 DEF BuddyInv, Typed
<1>5. /\ order' \in [Pages -> Orders \union {-1}] /\ order'[ret_page] = o
      /\ \A p \in Pages : p # ret_page => order'[p] = order[p]
  BY <1>2 DEF BuddyInv, Typed
<1>6. op' = Idle /\ op'.pc = "idle"
  BY DEF Idle
<1>7. Typed' /\ Scanned'
  BY <1>4, <1>5, <1>6 DEF BuddyInv, Typed, OpTyped, Scanned
<1>8. LiveBlocks' = LiveBlocks \union {b} /\ FreeBlocks' = FreeBlocks /\ InFlight' = {}
  <2>1. LiveBlocks' = {[first |-> p, order |-> live'[p]] : p \in DOMAIN live'}
    BY DEF LiveBlocks
  <2>2. LiveBlocks' = LiveBlocks \union {b}
    BY <1>4, <2>1 DEF LiveBlocks
  <2> QED BY <1>6, <2>2 DEF FreeBlocks, InFlight
<1> HIDE DEF b
<1>9. Blocks' = Blocks /\ Apart'
  BY <1>2, <1>3, <1>8 DEF Blocks, Apart, BuddyInv
<1>10. Tiling(Blocks)'
  BY <1>9 DEF Tiling, BuddyInv
<1>11. OrderRecorded'
  BY <1>4, <1>5, <1>3 DEF OrderRecorded, BuddyInv, Typed
<1>12. ListedOnce' /\ NoTwins'
  BY DEF BuddyInv, ListedOnce, NoTwins
<1> QED BY <1>7, <1>9, <1>10, <1>11, <1>12 DEF BuddyInv

\* NULL.
LEMMA AllocNullInv ==
  ASSUME BuddyInv, AllocNull
  PROVE  BuddyInv'
<1> USE DEF AllocNull
<1>1. op' = Idle /\ op'.pc = "idle" /\ op.pc = "scan"
  BY DEF Idle
<1>2. Typed' /\ Scanned'
  BY <1>1 DEF BuddyInv, Typed, OpTyped, Scanned
<1>3. InFlight' = {} /\ InFlight = {} /\ FreeBlocks' = FreeBlocks /\ LiveBlocks' = LiveBlocks
  BY <1>1 DEF InFlight, FreeBlocks, LiveBlocks
<1>4. Blocks' = Blocks /\ Apart'
  BY <1>3 DEF Blocks, Apart, BuddyInv
<1>5. Tiling(Blocks)'
  BY <1>4 DEF Tiling, BuddyInv
<1>6. ListedOnce' /\ NoTwins' /\ OrderRecorded'
  BY DEF BuddyInv, ListedOnce, NoTwins, OrderRecorded
<1> QED BY <1>1, <1>2, <1>4, <1>5, <1>6 DEF BuddyInv

\* buddy_free begins: the order it reads is the block's.
LEMMA ReleaseInv ==
  ASSUME BuddyInv, NEW index \in Pages, Release(index)
  PROVE  BuddyInv'
<1> USE DEF Release, buddy_free
<1> DEFINE b == [first |-> index, order |-> live[index]]
<1>1. index \in DOMAIN live /\ live[index] \in Orders /\ order[index] = live[index]
  BY DEF BuddyInv, Typed, OrderRecorded
<1>2. /\ op' \in [pc : {"merge"}, index : Pages, order : Orders] /\ op'.pc = "merge"
      /\ op'.index = index /\ op'.order = live[index] /\ op.pc = "idle"
  BY <1>1 DEF Idle
<1>3. /\ DOMAIN live' = DOMAIN live \ {index} /\ \A p \in DOMAIN live' : live'[p] = live[p]
      /\ live' \in [DOMAIN live' -> Orders] /\ DOMAIN live' \subseteq Pages
  BY DEF BuddyInv, Typed
<1>4. Typed' /\ Scanned'
  BY <1>2, <1>3 DEF BuddyInv, Typed, OpTyped, Scanned
<1>5. /\ LiveBlocks' = LiveBlocks \ {b} /\ b \in LiveBlocks /\ FreeBlocks' = FreeBlocks
      /\ InFlight' = {b} /\ InFlight = {}
  <2>1. LiveBlocks' = {[first |-> p, order |-> live'[p]] : p \in DOMAIN live'}
    BY DEF LiveBlocks
  <2>2. LiveBlocks' = LiveBlocks \ {b}
    BY <1>3, <2>1 DEF LiveBlocks
  <2>3. b \in LiveBlocks
    BY <1>1 DEF LiveBlocks
  <2> QED BY <1>2, <2>2, <2>3 DEF FreeBlocks, InFlight
<1> HIDE DEF b
<1>6. Blocks' = Blocks /\ Apart'
  BY <1>5 DEF Blocks, Apart, BuddyInv
<1>7. Tiling(Blocks)'
  BY <1>6 DEF Tiling, BuddyInv
<1>8. ListedOnce' /\ NoTwins' /\ OrderRecorded'
  BY <1>3 DEF BuddyInv, ListedOnce, NoTwins, OrderRecorded
<1> QED BY <1>4, <1>6, <1>7, <1>8 DEF BuddyInv

\* The page found in the free list is the twin of the block in hand.
LEMMA FoundTwin ==
  ASSUME BuddyInv, op.pc = "merge"
  PROVE  /\ op \in [pc : {"merge"}, index : Pages, order : Orders]
         /\ \A k \in 1..Len(free_area[op.order]) :
              k \in BuddyIndices(PAGE_TO_ADDR(op.index), op.order)
                <=> Twins(op.index, free_area[op.order][k], op.order)
<1>1. op \in [pc : {"merge"}, index : Pages, order : Orders]
  BY DEF BuddyInv, Typed, OpTyped, Idle
<1>2. op.order \in Orders /\ op.index \in Nat
  BY <1>1, PagesNat
<1>3. Aligned(op.index, op.order)
  <2> DEFINE b == [first |-> op.index, order |-> op.order]
  <2>1. b \in Blocks /\ b.first = op.index /\ b.order = op.order
    BY DEF InFlight, Blocks
  <2>2. WellPlaced(b)
    BY <2>1, BlocksTyped
  <2> QED BY <2>1, <2>2 DEF WellPlaced
<1>4. ASSUME NEW k \in 1..Len(free_area[op.order])
      PROVE  k \in BuddyIndices(PAGE_TO_ADDR(op.index), op.order)
               <=> Twins(op.index, free_area[op.order][k], op.order)
  <2>1. free_area[op.order][k] \in Listed(free_area[op.order])
    BY DEF Listed
  <2>2. free_area[op.order][k] \in Nat
    BY <1>2, <2>1, BlocksTyped
  <2>3. PAGE_TO_ADDR(free_area[op.order][k]) = BUDDY_ADDR(PAGE_TO_ADDR(op.index), op.order)
          <=> Twins(op.index, free_area[op.order][k], op.order)
    BY <1>2, <1>3, <2>2, BuddyIsTwin
  <2> QED BY <2>3 DEF BuddyIndices
<1> QED BY <1>1, <1>4

\* The twin leaves its list and the block in hand grows to both.
LEMMA MergeInv ==
  ASSUME BuddyInv, Merge
  PROVE  BuddyInv'
<1>1. op.pc = "merge" /\ op \in [pc : {"merge"}, index : Pages, order : Orders]
  BY FoundTwin DEF Merge
<1>2. PICK k \in BuddyIndices(PAGE_TO_ADDR(op.index), op.order) :
        /\ free_area' = [free_area EXCEPT ![op.order] = Unlink(@, k)]
        /\ op' = [op EXCEPT !.index = IF @ > free_area[op.order][k]
                                      THEN free_area[op.order][k] ELSE @,
                            !.order = @ + 1]
  BY DEF Merge
<1>3. PICK o \in Orders : o = op.order
  BY <1>1
<1>4. PICK q \in Seq(Pages) : q = free_area[o] /\ NoneTwice(q)
  BY DEF BuddyInv, Typed, ListedOnce
<1>5. k \in 1..Len(q) /\ q[k] \in Listed(q)
  BY <1>2, <1>3, <1>4 DEF BuddyIndices, Listed
<1>6. PICK t \in Pages : t = q[k]
  BY <1>3, <1>4, <1>5, BlocksTyped
<1>7. PICK p \in Pages : p = op.index
  BY <1>1
<1>8. Twins(p, t, o) /\ p \in Nat /\ t \in Nat
  BY <1>1, <1>2, <1>3, <1>4, <1>5, <1>6, <1>7, FoundTwin, PagesNat
<1> DEFINE b == [first |-> p, order |-> o]
           c == [first |-> t, order |-> o]
           low == IF p > t THEN t ELSE p
           m == [first |-> low, order |-> o + 1]
<1>9. InFlight = {b} /\ b \in Blocks /\ b \notin FreeBlocks /\ b \notin LiveBlocks
  <2>1. InFlight = {b}
    BY <1>1, <1>3, <1>7 DEF InFlight
  <2> HIDE DEF b
  <2> QED BY <2>1, InFlightApart
<1>10. c \in FreeBlocks /\ c \in Blocks
  BY <1>4, <1>5, <1>6, BlocksTyped DEF Blocks
<1>11. WellPlaced(b) /\ WellPlaced(c)
  BY <1>9, <1>10, BlocksTyped
<1>12. Span(o) \in Nat \ {0}
  BY SpanIs
<1>13. PICK j \in Nat : \/ p = (2 * j) * Span(o) /\ t = p + Span(o)
                        \/ t = (2 * j) * Span(o) /\ p = t + Span(o)
  BY <1>8 DEF Twins
<1>14. o # MAX_ORDER
  <2>1. p + Span(o) <= Span(MAX_ORDER) /\ t + Span(o) <= Span(MAX_ORDER)
    BY <1>11 DEF WellPlaced
  <2> QED BY <1>8, <1>12, <1>13, <2>1
<1>15. Tiling((Blocks \ {b, c}) \union {m}) /\ m \notin Blocks /\ low \in Pages /\ o + 1 \in Orders
  <2>1. Tiling(Blocks) /\ o + 1 \in Orders
    BY <1>14, SpanNext DEF BuddyInv
  <2>2. CASE p = (2 * j) * Span(o) /\ t = p + Span(o)
    <3>1. low = p /\ m = [first |-> b.first, order |-> o + 1]
      BY <1>8, <1>12, <2>2
    <3>2. b.order = o /\ c.order = o /\ c.first = b.first + Span(o)
          /\ b.first = (2 * j) * Span(o)
      BY <2>2
    <3> HIDE DEF b, c, m, low
    <3>3. Tiling((Blocks \ {b, c}) \union {m}) /\ m \notin Blocks
      BY <1>9, <1>10, <1>14, <2>1, <3>1, <3>2, MergeTiling
    <3> QED BY <2>1, <3>1, <3>3
  <2>3. CASE t = (2 * j) * Span(o) /\ p = t + Span(o)
    <3>1. low = t /\ m = [first |-> c.first, order |-> o + 1]
      BY <1>8, <1>12, <2>3
    <3>2. b.order = o /\ c.order = o /\ b.first = c.first + Span(o)
          /\ c.first = (2 * j) * Span(o)
      BY <2>3
    <3> HIDE DEF b, c, m, low
    <3>3. Tiling((Blocks \ {c, b}) \union {m}) /\ m \notin Blocks
      BY <1>9, <1>10, <1>14, <2>1, <3>1, <3>2, MergeTiling
    <3>4. {c, b} = {b, c}
      OBVIOUS
    <3> QED BY <2>1, <3>1, <3>3, <3>4
  <2> QED BY <1>13, <2>2, <2>3
<1>16. op' = [op EXCEPT !.index = low, !.order = o + 1]
  BY <1>2, <1>3, <1>4, <1>6, <1>7
<1>17. /\ op' \in [pc : {"merge"}, index : Pages, order : Orders] /\ op'.pc = "merge"
       /\ op'.index = low /\ op'.order = o + 1
  <2> HIDE DEF low
  <2> QED BY <1>1, <1>15, <1>16
<1>18. /\ Unlink(q, k) \in Seq(Pages) /\ NoneTwice(Unlink(q, k))
       /\ Listed(Unlink(q, k)) = Listed(q) \ {t}
  BY <1>4, <1>5, <1>6, UnlinkListed
<1>19. /\ free_area'[o] = Unlink(q, k) /\ \A i \in Orders : i # o => free_area'[i] = free_area[i]
       /\ free_area' \in [Orders -> Seq(Pages)]
  BY <1>2, <1>3, <1>4, <1>18 DEF BuddyInv, Typed
<1>20. UNCHANGED <<order, live>>
  BY DEF Merge
<1>21. Typed' /\ Scanned'
  BY <1>17, <1>19, <1>20 DEF BuddyInv, Typed, OpTyped, Scanned
<1>22. FreeBlocks' = FreeBlocks \ {c} /\ LiveBlocks' = LiveBlocks /\ InFlight' = {m}
  <2>1. OneLess(free_area, free_area', o, t)
    BY <1>4, <1>18, <1>19 DEF OneLess
  <2>2. BlocksOn(free_area') = BlocksOn(free_area) \ {[first |-> t, order |-> o]}
    BY <2>1, BlocksOnLess
  <2>3. FreeBlocks' = BlocksOn(free_area')
    BY DEF FreeBlocks, BlocksOn
  <2>4. LiveBlocks' = LiveBlocks /\ InFlight' = {m}
    BY <1>17, <1>20 DEF LiveBlocks, InFlight
  <2> QED BY <2>2, <2>3, <2>4, FreeBlocksAre
<1>23. c \notin LiveBlocks
  BY <1>10 DEF BuddyInv, Apart
<1> HIDE DEF b, c, m
<1>24. Blocks' = (Blocks \ {b, c}) \union {m} /\ Apart'
  BY <1>9, <1>10, <1>15, <1>22, <1>23 DEF Blocks, Apart, BuddyInv
<1>25. Tiling(Blocks)'
  BY <1>15, <1>24 DEF Tiling
<1>26. ListedOnce' /\ OrderRecorded'
  BY <1>18, <1>19, <1>20 DEF BuddyInv, ListedOnce, OrderRecorded, NoneTwice
<1>27. NoTwins'
  <2>1. \A i \in Orders : Listed(free_area'[i]) \subseteq Listed(free_area[i])
    BY <1>4, <1>18, <1>19
  <2> QED BY <2>1 DEF NoTwins, BuddyInv, Listed
<1> QED BY <1>21, <1>24, <1>25, <1>26, <1>27 DEF BuddyInv

\* The block goes to the list of its order, where its twin is not.
LEMMA FreeReturnInv ==
  ASSUME BuddyInv, FreeReturn
  PROVE  BuddyInv'
<1>1. op.pc = "merge" /\ op \in [pc : {"merge"}, index : Pages, order : Orders]
  BY FoundTwin DEF FreeReturn
<1>2. PICK o \in Orders : o = op.order
  BY <1>1
<1>3. PICK p \in Pages : p = op.index
  BY <1>1
<1>4. PICK q \in Seq(Pages) : q = free_area[o] /\ NoneTwice(q)
  BY DEF BuddyInv, Typed, ListedOnce
<1> DEFINE b == [first |-> p, order |-> o]
<1>5. /\ InFlight = {b} /\ b \in Blocks /\ b \notin FreeBlocks /\ b \notin LiveBlocks
      /\ p \notin DOMAIN live
  <2>1. InFlight = {b} /\ b.first = p
    BY <1>1, <1>2, <1>3 DEF InFlight
  <2> HIDE DEF b
  <2> QED BY <2>1, InFlightApart
<1>6. p \notin Listed(q)
  BY <1>4, <1>5, BlocksTyped
<1>7. /\ Link(q, 1, p) \in Seq(Pages) /\ NoneTwice(Link(q, 1, p))
      /\ Listed(Link(q, 1, p)) = Listed(q) \union {p}
  BY <1>4, <1>6, LinkListed
<1>8. /\ free_area'[o] = Link(q, 1, p) /\ \A i \in Orders : i # o => free_area'[i] = free_area[i]
      /\ free_area' \in [Orders -> Seq(Pages)]
      /\ order' \in [Pages -> Orders \union {-1}]
      /\ \A i \in Pages : i # p => order'[i] = order[i]
      /\ op' = Idle /\ op'.pc = "idle" /\ live' = live
  <2>1. /\ free_area' = [free_area EXCEPT ![o] = Link(q, 1, p)]
        /\ order' = [order EXCEPT ![p] = -1]
        /\ op' = Idle /\ live' = live
    BY <1>2, <1>3, <1>4 DEF FreeReturn
  <2>2. /\ free_area \in [Orders -> Seq(Pages)] /\ order \in [Pages -> Orders \union {-1}]
    BY DEF BuddyInv, Typed
  <2>3. /\ free_area'[o] = Link(q, 1, p)
        /\ \A i \in Orders : i # o => free_area'[i] = free_area[i]
        /\ free_area' \in [Orders -> Seq(Pages)]
    <3>1. PICK f \in Seq(Pages) : f = Link(q, 1, p)
      BY <1>7
    <3>2. free_area' = [free_area EXCEPT ![o] = f]
      BY <2>1, <3>1
    <3> QED BY <2>2, <3>1, <3>2
  <2>4. /\ order' \in [Pages -> Orders \union {-1}]
        /\ \A i \in Pages : i # p => order'[i] = order[i]
    BY <2>1, <2>2
  <2> QED BY <2>1, <2>3, <2>4 DEF Idle
<1>9. Typed' /\ Scanned'
  <2>1. live' \in [DOMAIN live' -> Orders] /\ DOMAIN live' \subseteq Pages
    BY <1>8 DEF BuddyInv, Typed
  <2>2. OpTyped' /\ Scanned'
    BY <1>8 DEF OpTyped, Scanned
  <2> QED BY <1>8, <2>1, <2>2 DEF Typed
<1>10. FreeBlocks' = FreeBlocks \union {b} /\ LiveBlocks' = LiveBlocks /\ InFlight' = {}
  <2>1. OneMore(free_area, free_area', o, p)
    <3>1. Listed(free_area'[o]) = Listed(free_area[o]) \union {p}
      BY <1>4, <1>7, <1>8
    <3>2. \A i \in Orders : i # o => free_area'[i] = free_area[i]
      BY <1>8
    <3> QED BY <3>1, <3>2 DEF OneMore
  <2>2. BlocksOn(free_area') = BlocksOn(free_area) \union {b}
    <3> HIDE DEF OneMore
    <3>1. b = [first |-> p, order |-> o]
      OBVIOUS
    <3> HIDE DEF b
    <3> QED BY <2>1, <3>1, BlocksOnMore
  <2>3. FreeBlocks' = BlocksOn(free_area')
    BY DEF FreeBlocks, BlocksOn
  <2>4. LiveBlocks' = LiveBlocks /\ InFlight' = {}
    BY <1>8 DEF LiveBlocks, InFlight
  <2> QED BY <2>2, <2>3, <2>4, FreeBlocksAre
<1> HIDE DEF b
<1>11. Blocks' = Blocks /\ Apart'
  BY <1>5, <1>10 DEF Blocks, Apart, BuddyInv
<1>12. Tiling(Blocks)'
  BY <1>11 DEF Tiling, BuddyInv
<1>13. ListedOnce' /\ OrderRecorded'
  BY <1>5, <1>7, <1>8 DEF BuddyInv, Typed, ListedOnce, OrderRecorded, NoneTwice
<1>14. NoTwins'
  <2>1. \A x \in Listed(q) : ~Twins(p, x, o) /\ ~Twins(x, p, o)
    <3>1. ASSUME NEW x \in Listed(q)  PROVE ~Twins(p, x, o)
      <4>1. PICK k \in 1..Len(q) : x = q[k]
        BY <3>1 DEF Listed
      <4> QED BY <1>1, <1>2, <1>3, <1>4, <4>1, FoundTwin DEF FreeReturn
    <3> QED BY <3>1 DEF Twins
  <2>2. ~Twins(p, p, o)
    BY SpanIs, PagesNat DEF Twins
  <2>3. ASSUME NEW i \in Orders, i # MAX_ORDER, NEW x \in Listed(free_area'[i]),
               NEW y \in Listed(free_area'[i])
        PROVE  ~Twins(x, y, i)
    <3>1. CASE i # o
      BY <1>8, <2>3, <3>1 DEF NoTwins, BuddyInv
    <3>2. CASE i = o
      <4>1. x \in Listed(q) \union {p} /\ y \in Listed(q) \union {p}
        BY <1>7, <1>8, <2>3, <3>2
      <4>2. CASE x = p \/ y = p
        BY <2>1, <2>2, <3>2, <4>1, <4>2
      <4>3. CASE x \in Listed(q) /\ y \in Listed(q)
        BY <1>4, <2>3, <3>2, <4>3 DEF NoTwins, BuddyInv
      <4> QED BY <4>1, <4>2, <4>3
    <3> QED BY <3>1, <3>2
  <2> QED BY <2>3 DEF NoTwins, Listed
<1> QED BY <1>9, <1>11, <1>12, <1>13, <1>14 DEF BuddyInv

LEMMA BuddyNextInv == BuddyInv /\ [BuddyNext]_buddyVars => BuddyInv'
<1> SUFFICES ASSUME BuddyInv, [BuddyNext]_buddyVars  PROVE BuddyInv'
  OBVIOUS
<1>1. CASE UNCHANGED buddyVars
  BY <1>1 DEF buddyVars, BuddyInv, Typed, OpTyped, Scanned, Tiling, Blocks, FreeBlocks, LiveBlocks,
              InFlight, Apart, ListedOnce, NoTwins, OrderRecorded
<1>2. CASE BuddyNext
  BY <1>2, AskInv, ReleaseInv, ScanUpInv, TakeInv, SplitInv, AllocReturnInv, AllocNullInv, MergeInv,
     FreeReturnInv DEF BuddyNext, Step
<1> QED BY <1>1, <1>2

\* The invariant holds of every behaviour.
THEOREM BuddyInvHolds == BuddySpec => []BuddyInv
<1> QED BY BuddyInitInv, BuddyNextInv, PTL DEF BuddySpec
-----------------------------------------------------------------------------
\* The invariant says more than the three the runs check.
LEMMA BuddyInvSays == BuddyInv => Partition /\ Coalesced /\ OrderRecorded
<1> SUFFICES ASSUME BuddyInv  PROVE Partition /\ Coalesced /\ OrderRecorded
  OBVIOUS
<1>1. Partition
  <2>1. /\ \A p \in Pages : \E b \in Blocks : p \in Block(b.first, b.order)
        /\ \A b, c \in Blocks :
             b # c => Block(b.first, b.order) \cap Block(c.first, c.order) = {}
    BY DEF BuddyInv, Tiling, Cells
  <2> QED BY <2>1 DEF BuddyInv, Partition, Apart, ListedOnce, NoneTwice
<1>2. ASSUME NEW o \in Orders \ {MAX_ORDER}, NEW i \in 1..Len(free_area[o]),
             NEW k \in 1..Len(free_area[o])
      PROVE  PAGE_TO_ADDR(free_area[o][k]) # BUDDY_ADDR(PAGE_TO_ADDR(free_area[o][i]), o)
  <2>1. free_area[o][i] \in Listed(free_area[o]) /\ free_area[o][k] \in Listed(free_area[o])
    BY DEF Listed
  <2>2. PICK p \in Nat : p = free_area[o][i] /\ p \in Listed(free_area[o])
    BY <2>1, BlocksTyped
  <2>3. PICK q \in Nat : q = free_area[o][k] /\ q \in Listed(free_area[o])
    BY <2>1, BlocksTyped
  <2>4. Aligned(p, o)
    <3> DEFINE b == [first |-> p, order |-> o]
    <3>1. b \in Blocks /\ b.first = p /\ b.order = o
      BY <2>2, BlocksTyped DEF Blocks
    <3>2. WellPlaced(b)
      BY <3>1, BlocksTyped
    <3> QED BY <3>1, <3>2 DEF WellPlaced
  <2>5. ~Twins(p, q, o)
    BY <2>2, <2>3 DEF NoTwins, BuddyInv
  <2>6. PAGE_TO_ADDR(q) # BUDDY_ADDR(PAGE_TO_ADDR(p), o)
    BY <2>4, <2>5, BuddyIsTwin
  <2> QED BY <2>2, <2>3, <2>6
<1>3. Coalesced
  BY <1>2 DEF Coalesced
<1> QED BY <1>1, <1>3 DEF BuddyInv

\* Through every split and merge, each page is in exactly one block.
THEOREM PagesPartitioned == BuddySpec => []Partition
<1>1. BuddyInv => Partition
  BY BuddyInvSays
<1> QED BY <1>1, BuddyInvHolds, PTL

\* What can be merged is merged.
THEOREM BuddiesCoalesced == BuddySpec => []Coalesced
<1>1. BuddyInv => Coalesced
  BY BuddyInvSays
<1> QED BY <1>1, BuddyInvHolds, PTL

\* buddy_free reads the order that buddy_alloc handed out.
THEOREM OrdersRecorded == BuddySpec => []OrderRecorded
<1>1. BuddyInv => OrderRecorded
  BY BuddyInvSays
<1> QED BY <1>1, BuddyInvHolds, PTL
-----------------------------------------------------------------------------
\* The allocator implements what module Allocator promises.

\* A larger order is not fewer bytes.
LEMMA BytesMonotone ==
  ASSUME NEW i \in Orders, NEW k \in Orders, i <= k
  PROVE  Bytes[i] <= Bytes[k]
<1>1. /\ i \in 0..MAX_ORDER /\ k - i \in 0..MAX_ORDER /\ (k - i) + i = k /\ k <= MAX_ORDER
  BY OrdersAssumption DEF Orders
<1>2. Bytes[(k - i) + i] = Bytes[k - i] * Bytes[i]
  BY <1>1, BytesAssumption
<1>3. PICK x \in Nat \ {0} : x = Bytes[i]
  BY <1>1, BytesAssumption
<1>4. PICK y \in Nat \ {0} : y = Bytes[k - i]
  BY <1>1, BytesAssumption
<1>5. x <= y * x
  <2>1. 1 * x <= y * x /\ 1 * x = x
    BY MultLeq, SMT
  <2> QED BY <2>1
<1> QED BY <1>1, <1>2, <1>3, <1>4, <1>5

\* The promise is about the same blocks.
LEMMA SameBlocks ==
  /\ Promise!Orders = Orders
  /\ \A o : \A p : p \in Promise!Available(o) <=>
       /\ p \in Pages /\ p % Span(o) = 0
       /\ \A q \in DOMAIN live : Block(p, o) \cap Block(q, live[q]) = {}
<1>1. Promise!Orders = Orders /\ Promise!Pages = Pages /\ \A o : Promise!Span(o) = Span(o)
  BY DEF Promise!Orders, Orders, Promise!Pages, Pages, Promise!Span, Span, Promise!PAGE_SIZE,
         PAGE_SIZE
<1>2. \A p, o : Promise!Block(p, o) = Block(p, o)
  BY <1>1 DEF Promise!Block, Block
<1> QED BY <1>1, <1>2 DEF Promise!Available

\* An order fits a size just when buddy_alloc starts at it.
LEMMA FitsIs ==
  ASSUME NEW size \in Int, NEW o \in Orders
  PROVE  Promise!Fits(size, o) <=> get_order_size(size) = o
<1> DEFINE g == get_order_size(size)
<1>1. -1 \notin Orders /\ \A i \in Orders : i \in Int /\ i >= MIN_ORDER
  BY OrdersAssumption DEF Orders
<1>2. /\ o > MIN_ORDER => o - 1 \in Orders /\ o - 1 < o
      /\ \A i \in Orders : i < o => o > MIN_ORDER /\ i <= o - 1
  BY OrdersAssumption DEF Orders
<1>3. \A i \in Orders : Bytes[i] \in Int
  BY SpanIs
<1>4. ASSUME g = o  PROVE Promise!Fits(size, o)
  BY <1>1, <1>2, <1>4, OrderOfSize DEF Promise!Fits
<1>5. ASSUME Promise!Fits(size, o)  PROVE g = o
  <2>1. Bytes[o] >= size /\ (o > MIN_ORDER => Bytes[o - 1] < size)
    BY <1>5 DEF Promise!Fits
  <2>2. PICK i \in Orders : i = g
    BY <1>3, <2>1, OrderOfSize
  <2>3. Bytes[i] >= size /\ \A k \in Orders : k < i => Bytes[k] < size
    BY <1>1, <2>2, OrderOfSize
  <2>4. ~(o < i)
    BY <1>3, <2>1, <2>3
  <2>5. ASSUME i < o  PROVE FALSE
    <3>1. o - 1 \in Orders /\ i <= o - 1 /\ Bytes[o - 1] < size
      BY <1>2, <2>1, <2>5
    <3>2. Bytes[i] <= Bytes[o - 1]
      BY <3>1, BytesMonotone
    <3> QED BY <1>3, <2>3, <3>1, <3>2
  <2> QED BY <1>1, <2>2, <2>4, <2>5
<1> QED BY <1>4, <1>5

\* A block handed out is one the promise allows.
LEMMA AllocReturnGrants ==
  ASSUME BuddyInv, NEW ret_page \in Pages, AllocReturn(ret_page)
  PROVE  Promise!Grant
<1>1. op \in [pc : {"split"}, size : Sizes, new_page : Pages, insert_order : Orders,
              check_free : Orders]
  BY DEF AllocReturn, BuddyInv, Typed, OpTyped, Idle
<1>2. PICK o \in Orders : o = op.insert_order
  BY <1>1
<1>3. PICK size \in Sizes : size = op.size
  BY <1>1
<1> DEFINE b == [first |-> ret_page, order |-> o]
<1>4. InFlight = {b} /\ b.first = ret_page /\ b.order = o
  BY <1>1, <1>2 DEF InFlight, AllocReturn
<1>5. b \in Blocks /\ b \notin LiveBlocks /\ WellPlaced(b)
  <2> HIDE DEF b
  <2> QED BY <1>4, InFlightApart, BlocksTyped
<1>6. ret_page % Span(o) = 0
  <2>1. PICK m \in Nat : ret_page = m * Span(o)
    BY <1>4, <1>5 DEF WellPlaced, Aligned
  <2>2. Span(o) \in Nat \ {0}
    BY SpanIs
  <2> QED BY <2>1, <2>2, DivOfProduct
<1>7. ASSUME NEW q \in DOMAIN live  PROVE Block(ret_page, o) \cap Block(q, live[q]) = {}
  <2> DEFINE c == [first |-> q, order |-> live[q]]
  <2>1. c \in LiveBlocks /\ c \in Blocks /\ c.first = q /\ c.order = live[q]
    BY <1>7, BlocksTyped DEF Blocks
  <2>2. b # c
    BY <1>5, <2>1
  <2>3. Cells(b) \cap Cells(c) = {}
    BY <1>5, <2>1, <2>2 DEF BuddyInv, Tiling
  <2> QED BY <1>4, <2>1, <2>3 DEF Cells
<1>8. ret_page \in Promise!Available(o)
  BY <1>6, <1>7, SameBlocks
<1>9. Promise!Fits(size, o)
  <2>1. get_order_size(size) = o /\ size \in Int
    BY <1>1, <1>2, <1>3, SizesAssumption, OrdersAssumption DEF BuddyInv, Scanned
  <2> QED BY <2>1, FitsIs
<1>10. size # NoRequest /\ op'.pc = "idle" /\ op.pc = "split"
  BY <1>1, SizesAssumption DEF AllocReturn, Idle
<1>11. live' = [q \in DOMAIN live \union {ret_page} |-> IF q = ret_page THEN o ELSE live[q]]
  BY <1>2 DEF AllocReturn
<1>12. o \in Promise!Orders
  BY SameBlocks
<1> QED BY <1>3, <1>8, <1>9, <1>10, <1>11, <1>12 DEF Promise!Grant

\* A request refused has no block left.
LEMMA AllocNullRefuses ==
  ASSUME BuddyInv, AllocNull
  PROVE  Promise!Refuse
<1>1. op \in [pc : {"scan"}, size : Sizes, insert_order : Orders \union {-1}, check_free : Int]
  BY DEF AllocNull, BuddyInv, Typed, OpTyped, Idle
<1>2. PICK size \in Sizes : size = op.size
  BY <1>1
<1>3. size # NoRequest /\ op'.pc = "idle" /\ op.pc = "scan" /\ live' = live
  BY <1>1, SizesAssumption DEF AllocNull, Idle
<1>4. ASSUME NEW o \in Promise!Orders, Promise!Fits(size, o), NEW p \in Promise!Available(o)
      PROVE  FALSE
  <2> o \in Orders
    BY SameBlocks
  <2>1. get_order_size(size) = o
    BY <1>4, FitsIs, SizesAssumption
  <2>2. op.insert_order = o /\ o > 0 /\ o # -1 /\ op.check_free > MAX_ORDER
    BY <1>1, <1>2, <2>1, OrdersAssumption DEF BuddyInv, Scanned, AllocNull, Orders
  <2>3. ASSUME NEW k \in Orders, ~(k < o)  PROVE Listed(free_area[k]) = {}
    <3>1. o <= k /\ k < op.check_free
      BY <1>1, <2>2, <2>3, OrdersAssumption DEF Orders
    <3>2. free_area[k] = <<>>
      BY <1>1, <2>2, <3>1 DEF BuddyInv, Scanned
    <3> QED BY <3>2 DEF Listed
  <2>4. Blocks \ LiveBlocks = FreeBlocks /\ LiveBlocks \in SUBSET Blocks
    BY <1>1 DEF Blocks, InFlight, BuddyInv, Apart
  <2>5. ASSUME NEW b \in FreeBlocks
        PROVE  b.order \in Orders /\ b.first \in Listed(free_area[b.order]) /\ b.order < o
               /\ b.order # MAX_ORDER
    <3>1. PICK k \in Orders : \E x \in Listed(free_area[k]) : b = [first |-> x, order |-> k]
      BY FreeBlocksAre, BlocksOnElements
    <3>2. b.order = k /\ b.first \in Listed(free_area[k])
      BY <3>1
    <3>3. k < o
      BY <2>3, <3>2
    <3> QED BY <3>2, <3>3, OrdersAssumption DEF Orders
  <2>6. p \in Pages /\ Aligned(p, o)
    <3>1. p \in Pages /\ p % Span(o) = 0 /\ p \in Nat /\ Span(o) \in Nat \ {0}
      BY PagesNat, SpanIs, SameBlocks
    <3> QED BY <3>1, ModZero DEF Aligned
  <2>7. \A b \in LiveBlocks : Block(p, o) \cap Cells(b) = {}
    BY SameBlocks DEF LiveBlocks, Cells
  <2>8. \A b, c \in FreeBlocks : b.order = c.order => ~Twins(b.first, c.first, b.order)
    BY <2>5 DEF BuddyInv, NoTwins
  <2>9. Tiling(Blocks)
    BY DEF BuddyInv
  <2>10. \A b \in Blocks \ LiveBlocks : b.order < o
    BY <2>4, <2>5
  <2>11. \A b, c \in Blocks \ LiveBlocks : b.order = c.order => ~Twins(b.first, c.first, b.order)
    BY <2>4, <2>8
  <2>12. PICK B : B = Blocks
    OBVIOUS
  <2>13. PICK L \in SUBSET B : L = LiveBlocks
    BY <2>4, <2>12
  <2>14. Tiling(B) /\ (\A b \in L : Block(p, o) \cap Cells(b) = {})
         /\ (\A b \in B \ L : b.order < o)
         /\ \A b, c \in B \ L : b.order = c.order => ~Twins(b.first, c.first, b.order)
    BY <2>7, <2>9, <2>10, <2>11, <2>12, <2>13
  <2>15. PICK x \in Pages : x = p /\ Aligned(x, o)
    BY <2>6
  <2>16. \A b \in L : Block(x, o) \cap Cells(b) = {}
    BY <2>14, <2>15
  <2> QED BY <2>14, <2>15, <2>16, NoRoom
<1>5. \A o \in Promise!Orders : Promise!Fits(size, o) => Promise!Available(o) = {}
  BY <1>4
<1> QED BY <1>2, <1>3, <1>5 DEF Promise!Refuse

\* Every step of the allocator is a step of the promise, or none of it.
LEMMA StepKeepsPromise ==
  BuddyInv /\ [BuddyNext]_buddyVars => [Promise!Next]_(Promise!allocatorVars)
<1> SUFFICES ASSUME BuddyInv, [BuddyNext]_buddyVars
             PROVE  [Promise!Next]_(Promise!allocatorVars)
  OBVIOUS
<1> USE DEF Promise!allocatorVars
<1>1. CASE UNCHANGED buddyVars
  BY <1>1 DEF buddyVars
<1>2. ASSUME NEW size \in Sizes, Ask(size)  PROVE Promise!Next
  <2>1. op.pc = "idle" /\ op'.pc = "scan" /\ op'.size = size /\ live' = live
    BY <1>2 DEF Ask, buddy_alloc, Idle
  <2>2. Promise!Ask(size)
    BY <2>1 DEF Promise!Ask
  <2> QED BY <2>2 DEF Promise!Next
<1>3. ASSUME NEW index \in Pages, Release(index)  PROVE Promise!Next
  <2>1. op.pc = "idle" /\ op'.pc = "merge" /\ index \in DOMAIN live
        /\ live' = [p \in DOMAIN live \ {index} |-> live[p]]
    BY <1>3 DEF Release, buddy_free, Idle
  <2>2. Promise!Release(index)
    BY <2>1 DEF Promise!Release
  <2> QED BY <2>1, <2>2 DEF Promise!Next
<1>4. CASE ScanUp \/ Take \/ Split
  <2>1. /\ op.pc \in {"scan", "split"} /\ op'.pc \in {"scan", "split"} /\ op'.size = op.size
        /\ live' = live
    <3>1. \/ op \in [pc : {"scan"}, size : Sizes, insert_order : Orders \union {-1},
                     check_free : Int]
          \/ op \in [pc : {"split"}, size : Sizes, new_page : Pages, insert_order : Orders,
                     check_free : Orders]
      BY <1>4 DEF ScanUp, Take, Split, BuddyInv, Typed, OpTyped, Idle
    <3> QED BY <1>4, <3>1 DEF ScanUp, Take, Split
  <2> QED BY <2>1
<1>5. ASSUME NEW ret_page \in Pages, AllocReturn(ret_page)  PROVE Promise!Next
  BY <1>5, AllocReturnGrants DEF Promise!Next
<1>6. CASE AllocNull
  BY <1>6, AllocNullRefuses DEF Promise!Next
<1>7. CASE Merge \/ FreeReturn
  <2>1. op.pc = "merge" /\ op'.pc \in {"merge", "idle"} /\ live' = live
    <3>1. op.pc = "merge" /\ op \in [pc : {"merge"}, index : Pages, order : Orders]
      BY <1>7, FoundTwin DEF Merge, FreeReturn
    <3>2. CASE Merge
      <4>1. PICK i, o : op' = [op EXCEPT !.index = i, !.order = o]
        BY <3>2 DEF Merge
      <4> QED BY <3>1, <3>2, <4>1 DEF Merge
    <3>3. CASE FreeReturn
      BY <3>1, <3>3 DEF FreeReturn, Idle
    <3> QED BY <1>7, <3>2, <3>3
  <2> QED BY <2>1
<1> QED BY <1>1, <1>2, <1>3, <1>4, <1>5, <1>6, <1>7 DEF BuddyNext, Step

\* Callers get what module Allocator promises, but that a call must return:
\* the safety part of KeepsPromise.
THEOREM PromiseKept ==
  BuddySpec => Promise!Init /\ [][Promise!Next]_(Promise!allocatorVars)
<1>1. BuddyInit => Promise!Init
  BY DEF BuddyInit, Promise!Init, Idle
<1> QED BY <1>1, StepKeepsPromise, BuddyInvHolds, PTL DEF BuddySpec
=============================================================================
