-------------------------- MODULE Components_proofs --------------------------
(*****************************************************************************)
(* Proofs about the sequential components, each on its own: the cache, for   *)
(* every size of it and every file of addresses; the parser's pools; the     *)
(* ring buffer, which implements a sequence; and the linked list, which      *)
(* implements a sequence too.                                                *)
(*****************************************************************************)
EXTENDS PriQueue, Deque, MemoryPool, Cache, Lists_proofs, FiniteSetTheorems

-----------------------------------------------------------------------------
(*****************************************************************************)
(* Cache: the counts are those of a cache with one block a line.             *)
(*****************************************************************************)

\* The values the state ranges over.
CacheTypeOK ==
  /\ cache \in [Slots -> Blocks]
  /\ hits \in Nat /\ misses \in Nat /\ limit \in Nat
  /\ eof \in BOOLEAN
  /\ trace \in Seq(Addresses)

\* The block of a line is the one of the last address of that line.
HoldsLast ==
  \A j \in LineNumbers :
    /\ cache[j].valid = 1 =>
         \E k \in 1..Len(trace) :
           /\ ParseLineFromAddress(trace[k]) = j /\ ParseTagFromAddress(trace[k]) = cache[j].tag
           /\ \A m \in (k + 1)..Len(trace) : ParseLineFromAddress(trace[m]) # j
    /\ cache[j].valid # 1 =>
         \A m \in 1..Len(trace) : ParseLineFromAddress(trace[m]) # j

\* The inductive invariant.
CacheInv == CacheTypeOK /\ HoldsLast /\ CountsRepeats

-----------------------------------------------------------------------------
\* Facts about the helpers.

LEMMA DivMod ==
  ASSUME NEW a \in Nat, NEW b \in Nat \ {0}
  PROVE  a \div b \in Nat /\ a % b \in 0..(b - 1)
  BY SMT

LEMMA ProductPositive ==
  ASSUME NEW a \in Nat \ {0}, NEW b \in Nat \ {0}
  PROVE  a * b \in Nat \ {0} /\ a <= a * b
  BY SMT

\* Every address has a line and a tag, and every line its place in row 0.
LEMMA Parsed ==
  ASSUME NEW a \in Addresses
  PROVE  /\ ParseLineFromAddress(a) \in LineNumbers /\ ParseTagFromAddress(a) \in Tags
         /\ BuildCacheBlockFromTagAndLine(ParseTagFromAddress(a), ParseLineFromAddress(a)) \in Blocks
<1>1. BlockSize_Nbr * Lines_Nbr \in Nat \ {0}
  BY CacheAssumption, ProductPositive
<1>2. BlockSize_Nbr * Lines_Nbr * Tag_Nbr \in Nat \ {0}
  BY <1>1, CacheAssumption, ProductPositive
<1>3. a \in Nat
  BY <1>2 DEF Addresses
<1>4. a \div BlockSize_Nbr \in Nat /\ a \div (BlockSize_Nbr * Lines_Nbr) \in Nat
  BY <1>1, <1>3, CacheAssumption, DivMod
<1>5. ParseLineFromAddress(a) \in LineNumbers
  BY <1>4, CacheAssumption, DivMod DEF ParseLineFromAddress, LineNumbers
<1>6. ParseTagFromAddress(a) \in Tags
  BY <1>4, CacheAssumption, DivMod DEF ParseTagFromAddress, Tags
<1> QED BY <1>5, <1>6 DEF BuildCacheBlockFromTagAndLine, Blocks

LEMMA PlaceOfLine ==
  ASSUME NEW j \in LineNumbers
  PROVE  At(0, j) = j /\ j \in Slots
<1>1. Lines_Nbr <= Lines_Nbr * CacheAssociativity /\ Lines_Nbr * CacheAssociativity \in Nat
  BY CacheAssumption, ProductPositive
<1>2. j \in Nat /\ j < Lines_Nbr
  BY CacheAssumption DEF LineNumbers
<1>3. 0 * CacheAssociativity = 0
  BY CacheAssumption
<1> QED BY <1>1, <1>2, <1>3, CacheAssumption DEF At, Slots

\* An address hits exactly when it repeats the block its line saw last.
LEMMA HitsRepeat ==
  ASSUME CacheTypeOK, HoldsLast, NEW a \in Addresses, NEW t, t = Append(trace, a),
         NEW j, j = ParseLineFromAddress(a), NEW tag, tag = ParseTagFromAddress(a)
  PROVE  (cache[j].valid = 1 /\ cache[j].tag = tag) <=> Repeats(t, Len(trace) + 1)
<1> DEFINE n == Len(trace)
<1>1. n \in Nat /\ t[n + 1] = a /\ \A m \in 1..n : t[m] = trace[m]
  BY DEF CacheTypeOK
<1>2. j \in LineNumbers
  BY Parsed
<1>3. ASSUME cache[j].valid = 1, cache[j].tag = tag
      PROVE  Repeats(t, n + 1)
  <2>1. PICK k \in 1..n :
          /\ ParseLineFromAddress(trace[k]) = j /\ ParseTagFromAddress(trace[k]) = cache[j].tag
          /\ \A m \in (k + 1)..n : ParseLineFromAddress(trace[m]) # j
    BY <1>2, <1>3 DEF HoldsLast
  <2>2. SameLine(t[k], t[n + 1]) /\ SameTag(t[k], t[n + 1])
    BY <1>1, <1>3, <2>1 DEF SameLine, SameTag
  <2>3. \A m \in (k + 1)..n : ~ SameLine(t[m], t[n + 1])
    BY <1>1, <2>1 DEF SameLine
  <2>4. n + 1 - 1 = n
    BY <1>1
  <2> QED BY <1>1, <2>2, <2>3, <2>4 DEF Repeats
<1>4. ASSUME Repeats(t, n + 1)
      PROVE  cache[j].valid = 1 /\ cache[j].tag = tag
  <2>1. PICK k \in 1..n :
          /\ SameLine(t[k], t[n + 1]) /\ SameTag(t[k], t[n + 1])
          /\ \A m \in (k + 1)..n : ~ SameLine(t[m], t[n + 1])
    BY <1>1, <1>4 DEF Repeats
  <2>2. /\ ParseLineFromAddress(trace[k]) = j /\ ParseTagFromAddress(trace[k]) = tag
        /\ \A m \in (k + 1)..n : ParseLineFromAddress(trace[m]) # j
    BY <1>1, <2>1 DEF SameLine, SameTag
  <2>3. cache[j].valid = 1
    BY <1>1, <1>2, <2>2 DEF HoldsLast
  <2>4. PICK i \in 1..n :
          /\ ParseLineFromAddress(trace[i]) = j /\ ParseTagFromAddress(trace[i]) = cache[j].tag
          /\ \A m \in (i + 1)..n : ParseLineFromAddress(trace[m]) # j
    BY <1>2, <2>3 DEF HoldsLast
  <2>5. i = k
    BY <1>1, <2>2, <2>4
  <2> QED BY <2>2, <2>3, <2>4, <2>5
<1> QED BY <1>3, <1>4

\* Another address changes nothing about those before it.
LEMMA RepeatedAppend ==
  ASSUME NEW s \in Seq(Addresses), NEW a \in Addresses, NEW t, t = Append(s, a)
  PROVE  Repeated(t) = IF Repeats(t, Len(s) + 1) THEN Repeated(s) \union {Len(s) + 1} ELSE Repeated(s)
<1> DEFINE n == Len(s)
<1>1. n \in Nat /\ Len(t) = n + 1 /\ \A m \in 1..n : t[m] = s[m]
  OBVIOUS
<1>2. ASSUME NEW m \in 1..n
      PROVE  Repeats(t, m) <=> Repeats(s, m)
  <2>1. \A k \in 1..m : t[k] = s[k]
    BY <1>1
  <2>2. m - 1 < m /\ m \in Nat
    BY <1>1
  <2>3. \A k \in 1..(m - 1) :
          /\ t[k] = s[k] /\ t[m] = s[m]
          /\ \A i \in (k + 1)..(m - 1) : t[i] = s[i]
    BY <2>1, <2>2
  <2> QED BY <2>3 DEF Repeats
<1>3. \A m : m \in 1..(n + 1) <=> m \in 1..n \/ m = n + 1
  BY <1>1
<1> QED BY <1>1, <1>2, <1>3 DEF Repeated

LEMMA RepeatedFinite ==
  ASSUME NEW s \in Seq(Addresses)
  PROVE  IsFiniteSet(Repeated(s)) /\ Len(s) + 1 \notin Repeated(s)
<1>1. IsFiniteSet(1..Len(s))
  BY FS_Interval
<1>2. Repeated(s) \in SUBSET (1..Len(s))
  BY DEF Repeated
<1>3. Len(s) + 1 \notin 1..Len(s)
  OBVIOUS
<1> QED BY <1>1, <1>2, <1>3, FS_Subset

-----------------------------------------------------------------------------
\* Processing an address preserves the invariant.
LEMMA ProcessKeepsInv ==
  ASSUME CacheInv, NEW a \in Addresses, Process(a), eof' \in BOOLEAN
  PROVE  CacheInv'
<1> DEFINE j == ParseLineFromAddress(a)
           tag == ParseTagFromAddress(a)
           line == BuildCacheBlockFromTagAndLine(tag, j)
           n == Len(trace)
           hit == cache[j].valid = 1 /\ cache[j].tag = tag
<1> USE DEF CacheInv
<1>1. j \in LineNumbers /\ line \in Blocks /\ j \in Slots /\ At(0, j) = j
  BY Parsed, PlaceOfLine
<1>2. line.valid = 1 /\ line.tag = tag
  BY DEF BuildCacheBlockFromTagAndLine
<1>3. /\ trace' = Append(trace, a) /\ limit' = limit + 1
      /\ IF hit THEN hits' = hits + 1 /\ cache' = cache /\ misses' = misses
         ELSE hits' = hits /\ cache' = [cache EXCEPT ![j] = line] /\ misses' = misses + 1
  <2>1. RoundRobin(line, j) /\ trace' = Append(trace, a) /\ limit' = limit + 1
    BY DEF Process
  <2> QED BY <1>1, <1>2, <2>1 DEF RoundRobin, Holds
<1>4. CacheTypeOK'
  BY <1>1, <1>3 DEF CacheTypeOK
<1>5. n \in Nat /\ Len(trace') = n + 1 /\ trace'[n + 1] = a /\ \A m \in 1..n : trace'[m] = trace[m]
  BY <1>3 DEF CacheTypeOK
<1>6. HoldsLast'
  <2> SUFFICES ASSUME NEW i \in LineNumbers
               PROVE  /\ cache'[i].valid = 1 =>
                           \E k \in 1..Len(trace') :
                             /\ ParseLineFromAddress(trace'[k]) = i
                             /\ ParseTagFromAddress(trace'[k]) = cache'[i].tag
                             /\ \A m \in (k + 1)..Len(trace') : ParseLineFromAddress(trace'[m]) # i
                      /\ cache'[i].valid # 1 =>
                           \A m \in 1..Len(trace') : ParseLineFromAddress(trace'[m]) # i
    BY DEF HoldsLast
  <2>1. CASE i = j
    <3>1. cache'[j].valid = 1 /\ cache'[j].tag = tag
      BY <1>1, <1>2, <1>3 DEF CacheTypeOK
    <3>2. n + 1 \in 1..Len(trace') /\ (n + 1 + 1)..Len(trace') = {}
      BY <1>5
    <3> QED BY <1>5, <2>1, <3>1, <3>2
  <2>2. CASE i # j
    <3>1. cache'[i] = cache[i] /\ i \in Slots
      BY <1>3, <2>2, PlaceOfLine DEF CacheTypeOK
    <3>2. \A m \in 1..Len(trace') : m \in 1..n \/ m = n + 1
      BY <1>5
    <3>3. ASSUME cache[i].valid = 1
          PROVE  \E k \in 1..Len(trace') :
                   /\ ParseLineFromAddress(trace'[k]) = i
                   /\ ParseTagFromAddress(trace'[k]) = cache'[i].tag
                   /\ \A m \in (k + 1)..Len(trace') : ParseLineFromAddress(trace'[m]) # i
      <4>1. PICK k \in 1..n :
              /\ ParseLineFromAddress(trace[k]) = i /\ ParseTagFromAddress(trace[k]) = cache[i].tag
              /\ \A m \in (k + 1)..n : ParseLineFromAddress(trace[m]) # i
        BY <3>3 DEF HoldsLast
      <4>2. k \in 1..Len(trace') /\ trace'[k] = trace[k]
        BY <1>5
      <4>3. ASSUME NEW m \in (k + 1)..Len(trace')
            PROVE  ParseLineFromAddress(trace'[m]) # i
        <5>1. m \in (k + 1)..n \/ m = n + 1
          BY <1>5
        <5>2. CASE m \in (k + 1)..n
          <6>1. m \in 1..n
            BY <1>5, <5>2
          <6> QED BY <1>5, <4>1, <5>2, <6>1
        <5> QED BY <1>5, <2>2, <5>1, <5>2
      <4> QED BY <3>1, <4>1, <4>2, <4>3
    <3>4. ASSUME cache[i].valid # 1, NEW m \in 1..Len(trace')
          PROVE  ParseLineFromAddress(trace'[m]) # i
      BY <1>5, <2>2, <3>2, <3>4 DEF HoldsLast
    <3> QED BY <3>1, <3>3, <3>4
  <2> QED BY <2>1, <2>2
<1>7. CountsRepeats'
  <2>1. trace \in Seq(Addresses) /\ hits \in Nat /\ misses \in Nat /\ limit \in Nat
    BY DEF CacheTypeOK
  <2>2. hit <=> Repeats(trace', n + 1)
    BY <1>3, HitsRepeat
  <2>3. Repeated(trace') = IF hit THEN Repeated(trace) \union {n + 1} ELSE Repeated(trace)
    BY <1>3, <2>1, <2>2, RepeatedAppend
  <2>4. Cardinality(Repeated(trace) \union {n + 1}) = Cardinality(Repeated(trace)) + 1
    BY <2>1, RepeatedFinite, FS_AddElement
  <2>5. hits' = Cardinality(Repeated(trace'))
    BY <1>3, <2>3, <2>4 DEF CountsRepeats
  <2>6. hits' + misses' = hits + misses + 1
    BY <1>3, <2>1
  <2> QED BY <1>3, <1>5, <2>1, <2>5, <2>6 DEF CountsRepeats
<1> QED BY <1>4, <1>6, <1>7

\* The statistics are those of a cache with one block a line (module Cache,
\* CountsRepeats), whatever its size and the file: RoundRobin never uses
\* another way.
THEOREM CacheCounts == CacheSpec => []CountsRepeats
<1>1. buildCache => CacheInv
  <2> SUFFICES ASSUME buildCache PROVE CacheInv
    OBVIOUS
  <2>1. 0 \in Tags /\ 0 \in LineNumbers
    BY CacheAssumption DEF Tags, LineNumbers
  <2>2. CacheTypeOK
    <3>1. [valid |-> 0, tag |-> 0, line |-> 0] \in Blocks
      BY <2>1 DEF Blocks
    <3>2. cache \in [Slots -> Blocks]
      BY <3>1 DEF buildCache
    <3>3. trace \in Seq(Addresses)
      BY DEF buildCache
    <3> QED BY <3>2, <3>3 DEF buildCache, CacheTypeOK
  <2>3. HoldsLast
    BY PlaceOfLine DEF buildCache, HoldsLast
  <2>4. Repeated(trace) = {}
    BY DEF buildCache, Repeated
  <2>5. CountsRepeats
    BY <2>4, FS_EmptySet DEF buildCache, CountsRepeats
  <2> QED BY <2>2, <2>3, <2>5 DEF CacheInv
<1>2. CacheInv /\ [CacheNext]_cacheVars => CacheInv'
  <2> SUFFICES ASSUME CacheInv, [CacheNext]_cacheVars PROVE CacheInv'
    OBVIOUS
  <2>1. ASSUME NEW address \in Addresses, ReadAddress(address) PROVE CacheInv'
    <3>1. Process(address) /\ eof' \in BOOLEAN
      BY <2>1 DEF ReadAddress, CacheInv, CacheTypeOK
    <3> QED BY <3>1, ProcessKeepsInv
  <2>2. CASE ReadPastEnd
    <3>1. PICK address \in Addresses : Process(address)
      BY <2>2 DEF ReadPastEnd
    <3>2. eof' \in BOOLEAN
      BY <2>2 DEF ReadPastEnd
    <3> QED BY <3>1, <3>2, ProcessKeepsInv
  <2>3. CASE UNCHANGED cacheVars
    BY <2>3 DEF cacheVars, CacheInv, CacheTypeOK, HoldsLast, CountsRepeats
  <2> QED BY <2>1, <2>2, <2>3 DEF CacheNext
<1>3. CacheInv => CountsRepeats
  BY DEF CacheInv
<1> QED BY <1>1, <1>2, <1>3, PTL DEF CacheSpec
-----------------------------------------------------------------------------
(*****************************************************************************)
(* MemoryPool: the blocks stay apart.                                        *)
(*****************************************************************************)

\* The values the state ranges over.  Of the sizes of the pools nothing is
\* needed: where a pool ends is compared, never computed with.
PoolTypeOK ==
  /\ \E S : pool_deq \in Seq([size : S, next : Nat])
  /\ stage \in {"none", "ready", "alloc", "low", "exited"}
  /\ size \in Nat
  /\ blocks \subseteq [pool : Nat, from : Nat, size : Nat]

\* There is a pool to allocate from, and every block lies in the part of its
\* pool that was handed out.
BlocksBelowNext ==
  /\ stage \in {"ready", "alloc"} => pool_deq # <<>>
  /\ \A b \in blocks : b.pool \in 1..Len(pool_deq) /\ b.from + b.size <= pool_deq[b.pool].next

\* The inductive invariant.
PoolInv == PoolTypeOK /\ BlocksBelowNext /\ BlocksApart

\* One more pool disturbs no block.
LEMMA PushKeepsInv ==
  ASSUME PoolInv, NEW n, Push(n), blocks' = blocks, size' \in Nat,
         stage' \in {"none", "ready", "alloc", "low", "exited"}
  PROVE  PoolInv'
<1> USE DEF PoolInv
<1>1. PICK S : pool_deq \in Seq([size : S, next : Nat])
  BY DEF PoolTypeOK
<1>2. PICK T : T = S \union {n}
  OBVIOUS
<1>3. pool_deq \in Seq([size : T, next : Nat])
  <2>1. [size : S, next : Nat] \subseteq [size : T, next : Nat]
    BY <1>2
  <2> QED BY <1>1, <2>1, SeqMonotonic
<1>4. Pool(n) \in [size : T, next : Nat]
  BY <1>2 DEF Pool
<1>5. /\ pool_deq' \in Seq([size : T, next : Nat])
      /\ Len(pool_deq) \in Nat /\ Len(pool_deq') = Len(pool_deq) + 1
      /\ \A i \in 1..Len(pool_deq) : pool_deq'[i] = pool_deq[i]
  BY <1>3, <1>4 DEF Push
<1>6. PoolTypeOK'
  BY <1>5 DEF PoolTypeOK
<1>7. \A b \in blocks : b.pool \in 1..Len(pool_deq') /\ pool_deq'[b.pool] = pool_deq[b.pool]
  BY <1>5 DEF BlocksBelowNext
<1>8. pool_deq' # <<>>
  BY <1>5
<1>9. BlocksBelowNext'
  BY <1>7, <1>8 DEF BlocksBelowNext
<1>10. BlocksApart'
  BY <1>7 DEF BlocksApart
<1> QED BY <1>6, <1>9, <1>10

\* A block cut off the last pool lies behind its other blocks, and fits.
LEMMA AllocReturnKeepsInv ==
  ASSUME PoolInv, AllocReturn
  PROVE  PoolInv'
<1> USE DEF PoolInv
<1>1. PICK S : pool_deq \in Seq([size : S, next : Nat])
  BY DEF PoolTypeOK
<1>2. PICK k : k = Len(pool_deq)
  OBVIOUS
<1>3. pool_deq # <<>> /\ k \in Nat /\ k \in 1..k
  BY <1>1, <1>2 DEF BlocksBelowNext, AllocReturn
<1>4. PICK at : at = pool_deq[k].next
  OBVIOUS
<1>5. at \in Nat /\ size \in Nat /\ pool_deq[k] \in [size : S, next : Nat]
  <2>1. pool_deq[k] \in [size : S, next : Nat]
    BY <1>1, <1>2, <1>3, ElementOfSeq
  <2> QED BY <1>4, <2>1 DEF PoolTypeOK
<1>6. Last(pool_deq) = pool_deq[k]
  BY <1>2 DEF Last
<1>7. PICK new : new = [pool |-> k, from |-> at, size |-> size]
  OBVIOUS
<1>8. /\ pool_deq' = [pool_deq EXCEPT ![k] = [pool_deq[k] EXCEPT !.next = at + size]]
      /\ blocks' = blocks \union {new}
      /\ stage' = "ready" /\ size' = size
      /\ at + size <= pool_deq[k].size
  BY <1>2, <1>4, <1>6, <1>7 DEF AllocReturn, Advanced, Fits
<1>9. [pool_deq[k] EXCEPT !.next = at + size] \in [size : S, next : Nat]
  BY <1>5
<1>10. /\ pool_deq' \in Seq([size : S, next : Nat]) /\ Len(pool_deq') = k
       /\ \A i \in 1..k : pool_deq'[i] = IF i = k THEN [pool_deq[k] EXCEPT !.next = at + size]
                                         ELSE pool_deq[i]
  BY <1>1, <1>2, <1>3, <1>8, <1>9
<1>11. /\ pool_deq'[k].next = at + size
       /\ \A i \in 1..k : pool_deq'[i].size = pool_deq[i].size
       /\ \A i \in 1..k : i # k => pool_deq'[i].next = pool_deq[i].next
  BY <1>3, <1>5, <1>10
<1>12. new \in [pool : Nat, from : Nat, size : Nat]
  BY <1>3, <1>5, <1>7
<1>13. PoolTypeOK'
  BY <1>5, <1>8, <1>10, <1>12 DEF PoolTypeOK
<1>14. \A b \in blocks : /\ b.pool \in 1..k /\ b.from \in Nat /\ b.size \in Nat
                         /\ b.from + b.size <= pool_deq[b.pool].next
                         /\ b.from + b.size <= pool_deq[b.pool].size
  BY <1>2 DEF BlocksBelowNext, BlocksApart, PoolTypeOK
<1>15. new.pool = k /\ new.from = at /\ new.size = size
  BY <1>7
<1>16. BlocksBelowNext'
  <2>1. pool_deq' # <<>>
    BY <1>3, <1>10
  <2>2. ASSUME NEW b \in blocks PROVE b.pool \in 1..k /\ b.from + b.size <= pool_deq'[b.pool].next
    <3>1. CASE b.pool = k
      BY <1>3, <1>4, <1>5, <1>11, <1>14, <3>1
    <3>2. CASE b.pool # k
      BY <1>11, <1>14, <3>2
    <3> QED BY <3>1, <3>2
  <2>3. new.pool \in 1..k /\ new.from + new.size <= pool_deq'[new.pool].next
    BY <1>3, <1>5, <1>11, <1>15
  <2> QED BY <1>8, <1>10, <2>1, <2>2, <2>3 DEF BlocksBelowNext
<1>17. BlocksApart'
  <2>1. \A b \in blocks' : b.from + b.size <= pool_deq'[b.pool].size
    BY <1>3, <1>8, <1>11, <1>14, <1>15
  <2>2. \A b \in blocks : b.pool = k => b.from + b.size <= new.from
    BY <1>4, <1>14, <1>15
  <2>3. \A b, c \in blocks' :
          b.pool = c.pool /\ b # c => b.from + b.size <= c.from \/ c.from + c.size <= b.from
    BY <1>8, <1>15, <2>2 DEF BlocksApart
  <2> QED BY <2>1, <2>3 DEF BlocksApart
<1> QED BY <1>13, <1>16, <1>17

\* The blocks the parser is given are apart and within their pools, whatever
\* sizes it asks for, however many pools that takes, and whenever malloc
\* fails.
THEOREM BlocksStayApart == PoolSpec => []BlocksApart
<1>1. PoolInit => PoolInv
  <2> SUFFICES ASSUME PoolInit PROVE PoolInv
    OBVIOUS
  <2>1. pool_deq \in Seq([size : {}, next : Nat])
    BY DEF PoolInit
  <2> QED BY <2>1 DEF PoolInit, PoolInv, PoolTypeOK, BlocksBelowNext, BlocksApart
<1>2. PoolInv /\ [PoolNext]_poolVars => PoolInv'
  <2> SUFFICES ASSUME PoolInv, [PoolNext]_poolVars PROVE PoolInv'
    OBVIOUS
  <2> USE DEF PoolInv
  <2>1. ASSUME pool_deq' = pool_deq, blocks' = blocks, size' \in Nat,
               stage' \in {"none", "ready", "alloc", "low", "exited"},
               stage' \in {"ready", "alloc"} => pool_deq # <<>>
        PROVE  PoolInv'
    BY <2>1 DEF PoolTypeOK, BlocksBelowNext, BlocksApart
  <2>2. ASSUME NEW n \in InitSizes, initialize_memory_pool(n) PROVE PoolInv'
    <3>1. PICK init : init = IF n = 0 THEN 1 ELSE n
      OBVIOUS
    <3>2. CASE Push(init) /\ stage' = "ready" /\ UNCHANGED size /\ UNCHANGED blocks
      BY <3>2, PushKeepsInv DEF PoolTypeOK
    <3>3. CASE stage' = "low" /\ size' = 1 /\ pool_deq' = pool_deq /\ UNCHANGED blocks
      BY <3>3, <2>1
    <3> QED BY <2>2, <3>1, <3>2, <3>3 DEF initialize_memory_pool
  <2>3. ASSUME NEW n \in Sizes, memory_pool_alloc(n) PROVE PoolInv'
    BY <2>1, <2>3, SizesAssumption DEF memory_pool_alloc, BlocksBelowNext
  <2>4. CASE NewPool
    <3>1. CASE Push(0) /\ UNCHANGED <<stage, size, blocks>>
      BY <3>1, PushKeepsInv DEF PoolTypeOK
    <3>2. CASE Push(NewPoolSize) /\ UNCHANGED <<stage, size, blocks>>
      <4>1. PICK n : n = NewPoolSize
        OBVIOUS
      <4>2. Push(n)
        BY <3>2, <4>1
      <4> QED BY <3>2, <4>2, PushKeepsInv DEF PoolTypeOK
    <3>3. CASE stage' = "low" /\ pool_deq' = pool_deq /\ UNCHANGED <<size, blocks>>
      BY <2>1, <3>3 DEF PoolTypeOK
    <3> QED BY <2>4, <3>1, <3>2, <3>3 DEF NewPool, Skip
  <2>5. CASE AllocReturn
    BY <2>5, AllocReturnKeepsInv
  <2>6. CASE LowMemory
    <3>1. CASE stage' = "exited" /\ UNCHANGED <<pool_deq, size, blocks>>
      BY <2>1, <3>1 DEF PoolTypeOK
    <3>2. CASE Push(Halved) /\ stage' \in {"ready", "alloc"} /\ UNCHANGED <<size, blocks>>
      <4>1. PICK n : n = Halved
        OBVIOUS
      <4>2. Push(n)
        BY <3>2, <4>1
      <4> QED BY <3>2, <4>2, PushKeepsInv DEF PoolTypeOK
    <3>3. CASE pool_deq' = pool_deq /\ stage' = stage /\ stage = "low" /\ UNCHANGED <<size, blocks>>
      BY <2>1, <3>3 DEF PoolTypeOK
    <3> QED BY <2>6, <3>1, <3>2, <3>3 DEF LowMemory
  <2>7. CASE destroy_memory_pool
    <3>1. pool_deq' \in Seq([size : {}, next : Nat])
      BY <2>7 DEF destroy_memory_pool
    <3> QED BY <2>7, <3>1 DEF destroy_memory_pool, PoolTypeOK, BlocksBelowNext, BlocksApart
  <2>8. CASE UNCHANGED poolVars
    BY <2>1, <2>8 DEF poolVars, PoolTypeOK, BlocksBelowNext
  <2> QED BY <2>2, <2>3, <2>4, <2>5, <2>6, <2>7, <2>8 DEF PoolNext, Iteration
<1>3. PoolInv => BlocksApart
  BY DEF PoolInv
<1> QED BY <1>1, <1>2, <1>3, PTL DEF PoolSpec
-----------------------------------------------------------------------------
(*****************************************************************************)
(* Deque: the ring buffer is a sequence. The steps are those of              *)
(* DequeSequence, from the elements between front and back.                  *)
(*****************************************************************************)

\* A ring of c slots d, with the elements from f up to b.
Entries == Values \union {Junk}
IsRing(d, c, f, b) ==
  c \in Nat \ {0} /\ f \in 0..(c - 1) /\ b \in 0..(c - 1) /\ d \in [0..(c - 1) -> Entries]

\* The remainders that deque.h computes are of numbers below two rings.
Wrap(x, c) == IF x < c THEN x ELSE x - c
RingLength(c, f, b) == Wrap(b - f + c, c)
RingElements(d, c, f, b) == [k \in 1..RingLength(c, f, b) |-> d[Wrap(f + k - 1, c)]]

LEMMA WrapIs ==
  ASSUME NEW c \in Nat \ {0}, NEW x \in 0..(2 * c - 1)
  PROVE  x % c = Wrap(x, c)
  BY SMT DEF Wrap

LEMMA ElementsAre ==
  ASSUME NEW d, NEW c, NEW f, NEW b, IsRing(d, c, f, b)
  PROVE  /\ (b - f + c) % c = RingLength(c, f, b)
         /\ RingLength(c, f, b) \in 0..(c - 1)
         /\ \A i \in 0..(c - 1) : (f + i) % c = Wrap(f + i, c) /\ Wrap(f + i, c) \in 0..(c - 1)
         /\ [k \in 1..((b - f + c) % c) |-> d[(f + (k - 1)) % c]] = RingElements(d, c, f, b)
<1>1. c \in Nat \ {0} /\ f \in 0..(c - 1) /\ b \in 0..(c - 1)
  BY DEF IsRing
<1>2. (b - f + c) % c = RingLength(c, f, b) /\ RingLength(c, f, b) \in 0..(c - 1)
  <2>1. PICK x : x = b - f + c
    OBVIOUS
  <2>2. x \in 0..(2 * c - 1) /\ x # 0
    BY <1>1, <2>1
  <2>3. x % c = Wrap(x, c)
    BY <1>1, <2>2, WrapIs
  <2>4. Wrap(x, c) \in 0..(c - 1)
    BY <1>1, <2>2 DEF Wrap
  <2> QED BY <2>1, <2>3, <2>4, Zenon DEF RingLength
<1>3. ASSUME NEW i \in 0..(c - 1)
      PROVE  (f + i) % c = Wrap(f + i, c) /\ Wrap(f + i, c) \in 0..(c - 1)
  <2>1. PICK x : x = f + i
    OBVIOUS
  <2>2. x \in 0..(2 * c - 1) /\ x < 2 * c - 1
    BY <1>1, <2>1
  <2>3. x % c = Wrap(x, c)
    BY <1>1, <2>2, WrapIs
  <2>4. Wrap(x, c) \in 0..(c - 1)
    BY <1>1, <2>2 DEF Wrap
  <2> QED BY <2>1, <2>3, <2>4, Zenon
<1>4. \A k \in 1..RingLength(c, f, b) : k - 1 \in 0..(c - 1) /\ f + (k - 1) = f + k - 1
  BY <1>1, <1>2
<1>5. \A k \in 1..RingLength(c, f, b) : (f + (k - 1)) % c = Wrap(f + k - 1, c)
  BY <1>3, <1>4
<1> QED BY <1>2, <1>3, <1>5 DEF RingElements

LEMMA ElementsSeq ==
  ASSUME NEW d, NEW c, NEW f, NEW b, IsRing(d, c, f, b),
         NEW q, q = RingElements(d, c, f, b), NEW n, n = RingLength(c, f, b)
  PROVE  /\ q \in Seq(Entries) /\ Len(q) = n /\ n \in 0..(c - 1)
         /\ \A k \in 1..n : q[k] = d[Wrap(f + k - 1, c)]
         /\ n = 0 <=> f = b
<1>1. n \in 0..(c - 1)
  BY ElementsAre
<1>2. \A k \in 1..n : Wrap(f + k - 1, c) \in 0..(c - 1)
  BY <1>1 DEF IsRing, Wrap
<1>3. q = [k \in 1..n |-> d[Wrap(f + k - 1, c)]]
  BY DEF RingElements
<1>4. q \in [1..n -> Entries]
  BY <1>2, <1>3 DEF IsRing
<1>5. q \in Seq(Entries) /\ Len(q) = n
  BY <1>1, <1>4, LenProperties, SeqDef
<1>6. n = 0 <=> f = b
  BY DEF RingLength, Wrap, IsRing
<1> QED BY <1>1, <1>3, <1>5, <1>6
\* The slots before and behind a slot.
Behind(i, c) == (i + 1) % c
Put(d, i, v) == [d EXCEPT ![i] = v]

LEMMA RingSteps ==
  ASSUME NEW c \in Nat \ {0}, NEW i \in 0..(c - 1)
  PROVE  /\ Before(i, c) = IF i = 0 THEN c - 1 ELSE i - 1
         /\ Behind(i, c) = IF i = c - 1 THEN 0 ELSE i + 1
<1>1. PICK x, y : x = i + c - 1 /\ y = i + 1
  OBVIOUS
<1>2. x \in 0..(2 * c - 1) /\ y \in 0..(2 * c - 1)
  BY <1>1
<1>3. x % c = Wrap(x, c) /\ y % c = Wrap(y, c)
  BY <1>2, WrapIs
<1>4. /\ Wrap(x, c) = IF i = 0 THEN c - 1 ELSE i - 1
      /\ Wrap(y, c) = IF i = c - 1 THEN 0 ELSE i + 1
  BY <1>1 DEF Wrap
<1>5. Before(i, c) = x % c /\ Behind(i, c) = y % c
  BY <1>1, Zenon DEF Before, Behind
<1> QED BY <1>3, <1>4, <1>5, Zenon
\* Two sequences with the same elements, and what the ends of one are.
LEMMA Ends ==
  ASSUME NEW S, NEW p \in Seq(S), NEW q \in Seq(S), NEW v \in S
  PROVE  /\ Len(q) = Len(p) + 1 /\ q[1] = v /\ (\A k \in 1..Len(p) : q[k + 1] = p[k])
              => q = <<v>> \o p
         /\ Len(q) = Len(p) + 1 /\ q[Len(q)] = v /\ (\A k \in 1..Len(p) : q[k] = p[k])
              => q = Append(p, v) /\ q = p \o <<v>>
         /\ p # <<>> /\ Len(q) = Len(p) - 1 /\ (\A k \in 1..Len(q) : q[k] = p[k + 1])
              => q = Tail(p)
         /\ p # <<>> /\ Len(q) = Len(p) - 1 /\ (\A k \in 1..Len(q) : q[k] = p[k])
              => q = SubSeq(p, 1, Len(p) - 1)
<1>1. Len(p) \in Nat /\ Len(q) \in Nat
  BY LenProperties
<1>2. /\ <<v>> \in Seq(S) /\ Len(<<v>>) = 1 /\ <<v>>[1] = v
  OBVIOUS
<1>3. ASSUME Len(q) = Len(p) + 1, q[1] = v, \A k \in 1..Len(p) : q[k + 1] = p[k]
      PROVE  q = <<v>> \o p
  <2>1. PICK t : t = <<v>> \o p
    OBVIOUS
  <2>2. /\ t \in Seq(S) /\ Len(t) = 1 + Len(p)
        /\ \A i \in 1..(1 + Len(p)) : t[i] = IF i <= 1 THEN <<v>>[i] ELSE p[i - 1]
    BY <1>2, <2>1, ConcatProperties
  <2>3. ASSUME NEW i \in 1..Len(t) PROVE t[i] = q[i]
    <3>1. CASE i = 1
      BY <1>1, <1>2, <1>3, <2>2, <3>1
    <3>2. CASE i # 1
      <4>1. PICK k : k = i - 1
        OBVIOUS
      <4>2. k \in 1..Len(p) /\ i = k + 1
        BY <1>1, <2>2, <3>2, <4>1
      <4>3. t[i] = p[k]
        BY <1>1, <2>2, <3>2, <4>1
      <4> QED BY <1>3, <4>2, <4>3
    <3> QED BY <3>1, <3>2
  <2>4. Len(t) = Len(q) /\ t \in Seq(S)
    BY <1>1, <1>3, <2>2
  <2>5. t = q
    BY <2>3, <2>4, SeqEqual
  <2> QED BY <2>1, <2>5
<1>4. ASSUME Len(q) = Len(p) + 1, q[Len(q)] = v, \A k \in 1..Len(p) : q[k] = p[k]
      PROVE  q = Append(p, v) /\ q = p \o <<v>>
  <2>1. PICK t : t = p \o <<v>>
    OBVIOUS
  <2>2. /\ t \in Seq(S) /\ Len(t) = Len(p) + 1
        /\ \A i \in 1..(Len(p) + 1) : t[i] = IF i <= Len(p) THEN p[i] ELSE <<v>>[i - Len(p)]
    BY <1>2, <2>1, ConcatProperties
  <2>3. ASSUME NEW i \in 1..Len(t) PROVE t[i] = q[i]
    BY <1>1, <1>2, <1>4, <2>2
  <2>4. q = t
    BY <1>1, <1>4, <2>2, <2>3, SeqEqual
  <2>5. PICK u : u = Append(p, v)
    OBVIOUS
  <2>6. /\ u \in Seq(S) /\ Len(u) = Len(p) + 1
        /\ \A i \in 1..(Len(p) + 1) : u[i] = IF i <= Len(p) THEN p[i] ELSE v
    BY <1>1, <2>5
  <2>7. \A i \in 1..Len(u) : u[i] = q[i]
    BY <1>1, <1>4, <2>6
  <2>8. q = u
    BY <1>1, <1>4, <2>6, <2>7, SeqEqual
  <2> QED BY <2>1, <2>4, <2>5, <2>8
<1>5. ASSUME p # <<>>, Len(q) = Len(p) - 1, \A k \in 1..Len(q) : q[k] = p[k + 1]
      PROVE  q = Tail(p)
  <2>1. PICK t : t = Tail(p)
    OBVIOUS
  <2>2. t \in Seq(S) /\ Len(t) = Len(p) - 1 /\ \A i \in 1..Len(t) : t[i] = p[i + 1]
    BY <1>5, <2>1, HeadTailProperties
  <2> QED BY <1>5, <2>1, <2>2, SeqEqual
<1>6. ASSUME p # <<>>, Len(q) = Len(p) - 1, \A k \in 1..Len(q) : q[k] = p[k]
      PROVE  q = SubSeq(p, 1, Len(p) - 1)
  <2>1. PICK t, n : t = SubSeq(p, 1, n) /\ n = Len(p) - 1
    OBVIOUS
  <2>2. n \in Nat /\ \A i \in 1..n : p[i] \in S
    BY <1>1, <1>6, <2>1, ElementOfSeq
  <2>3. t \in Seq(S) /\ Len(t) = n /\ \A i \in 1..n : t[i] = p[i]
    <3>1. /\ t \in Seq(S) /\ Len(t) = IF 1 <= n THEN n - 1 + 1 ELSE 0
          /\ \A i \in 1..(n - 1 + 1) : t[i] = p[1 + i - 1]
      BY <2>1, <2>2, SubSeqProperties
    <3>2. n - 1 + 1 = n /\ \A i \in 1..n : 1 + i - 1 = i
      BY <2>2
    <3> QED BY <2>2, <3>1, <3>2
  <2> QED BY <1>6, <2>1, <2>3, SeqEqual
<1> QED BY <1>3, <1>4, <1>5, <1>6

\* A push where there is room, at the front and at the back.
LEMMA RingPushFront ==
  ASSUME NEW d, NEW c, NEW f, NEW b, IsRing(d, c, f, b), NEW v \in Entries, f # Behind(b, c),
         NEW g, g = Before(f, c), NEW e, e = Put(d, g, v),
         NEW p, p = RingElements(d, c, f, b)
  PROVE  IsRing(e, c, g, b) /\ RingElements(e, c, g, b) = <<v>> \o p
<1>1. c \in Nat \ {0} /\ f \in 0..(c - 1) /\ b \in 0..(c - 1) /\ d \in [0..(c - 1) -> Entries]
  BY DEF IsRing
<1>2. PICK n : n = RingLength(c, f, b)
  OBVIOUS
<1>3. /\ p \in Seq(Entries) /\ Len(p) = n /\ n \in 0..(c - 1)
      /\ \A k \in 1..n : p[k] = d[Wrap(f + k - 1, c)]
  BY <1>2, ElementsSeq
<1>4. Before(f, c) = (IF f = 0 THEN c - 1 ELSE f - 1) /\ Behind(b, c) = (IF b = c - 1 THEN 0 ELSE b + 1)
  BY <1>1, RingSteps
<1>5. g = IF f = 0 THEN c - 1 ELSE f - 1
  BY <1>4
<1>6. e = Put(d, g, v)
  OBVIOUS
<1>7. /\ g \in 0..(c - 1) /\ IsRing(e, c, g, b)
      /\ e[g] = v /\ \A i \in 0..(c - 1) : i # g => e[i] = d[i]
  BY <1>1, <1>5, <1>6 DEF IsRing, Put
<1>8. PICK q, m : q = RingElements(e, c, g, b) /\ m = RingLength(c, g, b)
  OBVIOUS
<1>9. /\ q \in Seq(Entries) /\ Len(q) = m /\ m \in 0..(c - 1)
      /\ \A k \in 1..m : q[k] = e[Wrap(g + k - 1, c)]
  BY <1>7, <1>8, ElementsSeq
<1>10. m = n + 1
  BY <1>1, <1>2, <1>4, <1>5, <1>8 DEF RingLength, Wrap
<1>11. q[1] = v
  <2>1. Wrap(g + 1 - 1, c) = g
    BY <1>1, <1>7 DEF Wrap
  <2> QED BY <1>3, <1>7, <1>9, <1>10, <2>1
<1>12. ASSUME NEW k \in 1..n PROVE q[k + 1] = p[k]
  <2>1. /\ Wrap(g + (k + 1) - 1, c) = Wrap(f + k - 1, c)
        /\ Wrap(f + k - 1, c) \in 0..(c - 1) /\ Wrap(f + k - 1, c) # g
    BY <1>1, <1>3, <1>5, <1>9, <1>10 DEF Wrap
  <2>2. PICK l \in 1..m : l = k + 1
    BY <1>3, <1>10
  <2>3. PICK w \in 0..(c - 1) : w = Wrap(f + k - 1, c) /\ w = Wrap(g + l - 1, c) /\ w # g
    BY <2>1, <2>2
  <2>4. q[l] = e[w]
    BY <1>9, <2>3
  <2>5. e[w] = d[w]
    BY <1>7, <2>3
  <2>6. p[k] = d[w]
    BY <1>3, <2>3
  <2> QED BY <2>2, <2>4, <2>5, <2>6
<1>13. q = <<v>> \o p
  BY <1>3, <1>9, <1>10, <1>11, <1>12, Ends
<1> QED BY <1>6, <1>7, <1>8, <1>13

LEMMA RingPushBack ==
  ASSUME NEW d, NEW c, NEW f, NEW b, IsRing(d, c, f, b), NEW v \in Entries, f # Behind(b, c),
         NEW g, g = Behind(b, c), NEW e, e = Put(d, b, v),
         NEW p, p = RingElements(d, c, f, b)
  PROVE  IsRing(e, c, f, g) /\ RingElements(e, c, f, g) = Append(p, v)
<1>1. c \in Nat \ {0} /\ f \in 0..(c - 1) /\ b \in 0..(c - 1) /\ d \in [0..(c - 1) -> Entries]
  BY DEF IsRing
<1>2. PICK n : n = RingLength(c, f, b)
  OBVIOUS
<1>3. /\ p \in Seq(Entries) /\ Len(p) = n /\ n \in 0..(c - 1)
      /\ \A k \in 1..n : p[k] = d[Wrap(f + k - 1, c)]
  BY <1>2, ElementsSeq
<1>4. Before(f, c) = (IF f = 0 THEN c - 1 ELSE f - 1) /\ Behind(b, c) = (IF b = c - 1 THEN 0 ELSE b + 1)
  BY <1>1, RingSteps
<1>5. g = IF b = c - 1 THEN 0 ELSE b + 1
  BY <1>4
<1>6. e = Put(d, b, v)
  OBVIOUS
<1>7. /\ g \in 0..(c - 1) /\ IsRing(e, c, f, g)
      /\ e[b] = v /\ \A i \in 0..(c - 1) : i # b => e[i] = d[i]
  BY <1>1, <1>5, <1>6 DEF IsRing, Put
<1>8. PICK q, m : q = RingElements(e, c, f, g) /\ m = RingLength(c, f, g)
  OBVIOUS
<1>9. /\ q \in Seq(Entries) /\ Len(q) = m /\ m \in 0..(c - 1)
      /\ \A k \in 1..m : q[k] = e[Wrap(f + k - 1, c)]
  BY <1>7, <1>8, ElementsSeq
<1>10. m = n + 1
  BY <1>1, <1>2, <1>4, <1>5, <1>8 DEF RingLength, Wrap
<1>11. q[Len(q)] = v
  <2>1. Wrap(f + (n + 1) - 1, c) = b
    BY <1>1, <1>2 DEF RingLength, Wrap
  <2> QED BY <1>3, <1>7, <1>9, <1>10, <2>1
<1>12. ASSUME NEW k \in 1..n PROVE q[k] = p[k]
  <2>1. Wrap(f + k - 1, c) \in 0..(c - 1) /\ Wrap(f + k - 1, c) # b
    BY <1>1, <1>2, <1>3 DEF RingLength, Wrap
  <2>2. k \in 1..m
    BY <1>3, <1>10
  <2> QED BY <1>3, <1>7, <1>9, <2>1, <2>2
<1>13. q = Append(p, v)
  BY <1>3, <1>9, <1>10, <1>11, <1>12, Ends
<1> QED BY <1>6, <1>7, <1>8, <1>13

\* A pop, at the front and at the back.
LEMMA RingPop ==
  ASSUME NEW d, NEW c, NEW f, NEW b, IsRing(d, c, f, b), f # b,
         NEW p, p = RingElements(d, c, f, b)
  PROVE  /\ \A g : g = Behind(f, c) =>
              IsRing(d, c, g, b) /\ RingElements(d, c, g, b) = Tail(p)
         /\ \A g : g = Before(b, c) =>
              IsRing(d, c, f, g) /\ RingElements(d, c, f, g) = SubSeq(p, 1, Len(p) - 1)
<1>1. c \in Nat \ {0} /\ f \in 0..(c - 1) /\ b \in 0..(c - 1) /\ d \in [0..(c - 1) -> Entries]
  BY DEF IsRing
<1>2. PICK n : n = RingLength(c, f, b)
  OBVIOUS
<1>3. /\ p \in Seq(Entries) /\ Len(p) = n /\ n \in 0..(c - 1) /\ n # 0
      /\ \A k \in 1..n : p[k] = d[Wrap(f + k - 1, c)]
  BY <1>2, ElementsSeq
<1>4. p # <<>>
  BY <1>3
<1>5. Behind(f, c) = (IF f = c - 1 THEN 0 ELSE f + 1) /\ Before(b, c) = (IF b = 0 THEN c - 1 ELSE b - 1)
  BY <1>1, RingSteps
<1>6. PICK v : v \in Entries
  BY DEF Entries
<1>7. ASSUME NEW g, g = Behind(f, c)
      PROVE  IsRing(d, c, g, b) /\ RingElements(d, c, g, b) = Tail(p)
  <2>1. g = IF f = c - 1 THEN 0 ELSE f + 1
    BY <1>5, <1>7
  <2>2. g \in 0..(c - 1) /\ IsRing(d, c, g, b)
    BY <1>1, <2>1 DEF IsRing
  <2>3. PICK q, m : q = RingElements(d, c, g, b) /\ m = RingLength(c, g, b)
    OBVIOUS
  <2>4. q \in Seq(Entries) /\ Len(q) = m /\ \A k \in 1..m : q[k] = d[Wrap(g + k - 1, c)]
    BY <2>2, <2>3, ElementsSeq
  <2>5. m = n - 1
    BY <1>1, <1>2, <1>3, <2>1, <2>3 DEF RingLength, Wrap
  <2>6. ASSUME NEW k \in 1..m PROVE q[k] = p[k + 1]
    <3>1. PICK l \in 1..n : l = k + 1
      BY <1>3, <2>5
    <3>2. Wrap(g + k - 1, c) = Wrap(f + l - 1, c)
      BY <1>1, <1>3, <2>1, <2>5, <3>1 DEF Wrap
    <3>3. p[l] = d[Wrap(f + l - 1, c)]
      BY <1>3
    <3>4. q[k] = d[Wrap(g + k - 1, c)]
      BY <2>4
    <3> QED BY <3>1, <3>2, <3>3, <3>4
  <2>7. p \in Seq(Entries) /\ q \in Seq(Entries) /\ Len(q) = Len(p) - 1
    BY <1>3, <2>4, <2>5
  <2>8. \A k \in 1..Len(q) : q[k] = p[k + 1]
    BY <2>4, <2>6
  <2>9. q = Tail(p)
    BY <1>4, <1>6, <2>7, <2>8, Ends
  <2> QED BY <2>2, <2>3, <2>9
<1>8. ASSUME NEW g, g = Before(b, c)
      PROVE  IsRing(d, c, f, g) /\ RingElements(d, c, f, g) = SubSeq(p, 1, Len(p) - 1)
  <2>1. g = IF b = 0 THEN c - 1 ELSE b - 1
    BY <1>5, <1>8
  <2>2. g \in 0..(c - 1) /\ IsRing(d, c, f, g)
    BY <1>1, <2>1 DEF IsRing
  <2>3. PICK q, m : q = RingElements(d, c, f, g) /\ m = RingLength(c, f, g)
    OBVIOUS
  <2>4. q \in Seq(Entries) /\ Len(q) = m /\ \A k \in 1..m : q[k] = d[Wrap(f + k - 1, c)]
    BY <2>2, <2>3, ElementsSeq
  <2>5. m = n - 1
    BY <1>1, <1>2, <1>3, <2>1, <2>3 DEF RingLength, Wrap
  <2>6. ASSUME NEW k \in 1..m PROVE q[k] = p[k]
    <3>1. k \in 1..n
      BY <1>3, <2>5
    <3>2. p[k] = d[Wrap(f + k - 1, c)]
      BY <1>3, <3>1
    <3> QED BY <2>4, <3>2
  <2>7. p \in Seq(Entries) /\ q \in Seq(Entries) /\ Len(q) = Len(p) - 1
    BY <1>3, <2>4, <2>5
  <2>8. \A k \in 1..Len(q) : q[k] = p[k]
    BY <2>4, <2>6
  <2>9. q = SubSeq(p, 1, Len(p) - 1)
    BY <1>4, <1>6, <2>7, <2>8, Ends
  <2> QED BY <2>2, <2>3, <2>9
<1> QED BY <1>7, <1>8

\* What the ends hold, and what overwriting them does.
LEMMA RingEnds ==
  ASSUME NEW d, NEW c, NEW f, NEW b, IsRing(d, c, f, b), f # b,
         NEW g, g = Before(b, c), NEW p, p = RingElements(d, c, f, b)
  PROVE  p # <<>> /\ Head(p) = d[f] /\ p[Len(p)] = d[g]
<1>1. c \in Nat \ {0} /\ f \in 0..(c - 1) /\ b \in 0..(c - 1) /\ d \in [0..(c - 1) -> Entries]
  BY DEF IsRing
<1>2. PICK n : n = RingLength(c, f, b)
  OBVIOUS
<1>3. /\ p \in Seq(Entries) /\ Len(p) = n /\ n \in 0..(c - 1) /\ n # 0
      /\ \A k \in 1..n : p[k] = d[Wrap(f + k - 1, c)]
  BY <1>2, ElementsSeq
<1>4. g = IF b = 0 THEN c - 1 ELSE b - 1
  BY <1>1, RingSteps
<1>5. g \in 0..(c - 1)
  BY <1>1, <1>4
<1>6. \A k \in 1..n : /\ Wrap(f + k - 1, c) \in 0..(c - 1)
                      /\ Wrap(f + k - 1, c) = f <=> k = 1
                      /\ Wrap(f + k - 1, c) = g <=> k = n
  BY <1>1, <1>2, <1>3, <1>4 DEF RingLength, Wrap
<1>7. p # <<>> /\ Head(p) = d[f] /\ p[Len(p)] = d[g]
  <2>1. p # <<>> /\ 1 \in 1..n /\ n \in 1..n
    BY <1>3
  <2>2. Head(p) = p[1]
    OBVIOUS
  <2> QED BY <1>3, <1>6, <2>1, <2>2
<1> QED BY <1>7

LEMMA RingOverwriteFront ==
  ASSUME NEW d, NEW c, NEW f, NEW b, IsRing(d, c, f, b), f # b,
         NEW g, g = Before(b, c), NEW p, p = RingElements(d, c, f, b),
         NEW v \in Entries, NEW e, e = Put(d, f, v)
  PROVE  IsRing(e, c, f, b) /\ RingElements(e, c, f, b) = <<v>> \o Tail(p)
<1>1. c \in Nat \ {0} /\ f \in 0..(c - 1) /\ b \in 0..(c - 1) /\ d \in [0..(c - 1) -> Entries]
  BY DEF IsRing
<1>2. PICK n : n = RingLength(c, f, b)
  OBVIOUS
<1>3. /\ p \in Seq(Entries) /\ Len(p) = n /\ n \in 0..(c - 1) /\ n # 0
      /\ \A k \in 1..n : p[k] = d[Wrap(f + k - 1, c)]
  BY <1>2, ElementsSeq
<1>4. g = IF b = 0 THEN c - 1 ELSE b - 1
  BY <1>1, RingSteps
<1>5. g \in 0..(c - 1)
  BY <1>1, <1>4
<1>6. \A k \in 1..n : /\ Wrap(f + k - 1, c) \in 0..(c - 1)
                      /\ Wrap(f + k - 1, c) = f <=> k = 1
                      /\ Wrap(f + k - 1, c) = g <=> k = n
  BY <1>1, <1>2, <1>3, <1>4 DEF RingLength, Wrap
<1>7. p # <<>> /\ Head(p) = d[f] /\ p[Len(p)] = d[g]
  BY RingEnds
<1>8. e = Put(d, f, v)
  OBVIOUS
<1>9. IsRing(e, c, f, b) /\ e[f] = v /\ \A i \in 0..(c - 1) : i # f => e[i] = d[i]
  BY <1>1, <1>8 DEF IsRing, Put
<1>10. PICK q : q = RingElements(e, c, f, b)
  OBVIOUS
<1>11. q \in Seq(Entries) /\ Len(q) = n /\ \A k \in 1..n : q[k] = e[Wrap(f + k - 1, c)]
  BY <1>2, <1>9, <1>10, ElementsSeq
<1>12. PICK t : t = Tail(p)
  OBVIOUS
<1>13. t \in Seq(Entries) /\ Len(t) = n - 1 /\ \A k \in 1..(n - 1) : t[k] = p[k + 1]
  BY <1>3, <1>7, <1>12, HeadTailProperties
<1>14. q[1] = v
  <2>1. 1 \in 1..n /\ Wrap(f + 1 - 1, c) = f
    BY <1>3, <1>6
  <2> QED BY <1>9, <1>11, <2>1
<1>15. ASSUME NEW k \in 1..(n - 1) PROVE q[k + 1] = t[k]
  <2>1. PICK i : i = k + 1
    OBVIOUS
  <2>2. i \in 1..n /\ i # 1
    BY <1>3, <2>1
  <2>3. q[i] = p[i]
    BY <1>3, <1>6, <1>9, <1>11, <2>2
  <2> QED BY <1>13, <2>1, <2>3
<1>16. q = <<v>> \o t
  BY <1>3, <1>11, <1>13, <1>14, <1>15, Ends
<1> QED BY <1>8, <1>9, <1>10, <1>12, <1>16

LEMMA RingOverwriteBack ==
  ASSUME NEW d, NEW c, NEW f, NEW b, IsRing(d, c, f, b), f # b,
         NEW g, g = Before(b, c), NEW p, p = RingElements(d, c, f, b),
         NEW v \in Entries, NEW e, e = Put(d, g, v)
  PROVE  IsRing(e, c, f, b) /\ RingElements(e, c, f, b) = SubSeq(p, 1, Len(p) - 1) \o <<v>>
<1>1. c \in Nat \ {0} /\ f \in 0..(c - 1) /\ b \in 0..(c - 1) /\ d \in [0..(c - 1) -> Entries]
  BY DEF IsRing
<1>2. PICK n : n = RingLength(c, f, b)
  OBVIOUS
<1>3. /\ p \in Seq(Entries) /\ Len(p) = n /\ n \in 0..(c - 1) /\ n # 0
      /\ \A k \in 1..n : p[k] = d[Wrap(f + k - 1, c)]
  BY <1>2, ElementsSeq
<1>4. g = IF b = 0 THEN c - 1 ELSE b - 1
  BY <1>1, RingSteps
<1>5. g \in 0..(c - 1)
  BY <1>1, <1>4
<1>6. \A k \in 1..n : /\ Wrap(f + k - 1, c) \in 0..(c - 1)
                      /\ Wrap(f + k - 1, c) = f <=> k = 1
                      /\ Wrap(f + k - 1, c) = g <=> k = n
  BY <1>1, <1>2, <1>3, <1>4 DEF RingLength, Wrap
<1>7. p # <<>> /\ Head(p) = d[f] /\ p[Len(p)] = d[g]
  BY RingEnds
<1>8. e = Put(d, g, v)
  OBVIOUS
<1>9. IsRing(e, c, f, b) /\ e[g] = v /\ \A i \in 0..(c - 1) : i # g => e[i] = d[i]
  BY <1>1, <1>5, <1>8 DEF IsRing, Put
<1>10. PICK q : q = RingElements(e, c, f, b)
  OBVIOUS
<1>11. q \in Seq(Entries) /\ Len(q) = n /\ \A k \in 1..n : q[k] = e[Wrap(f + k - 1, c)]
  BY <1>2, <1>9, <1>10, ElementsSeq
<1>12. PICK t, m : t = SubSeq(p, 1, m) /\ m = Len(p) - 1
  OBVIOUS
<1>13. t \in Seq(Entries) /\ Len(t) = n - 1 /\ \A k \in 1..(n - 1) : t[k] = p[k]
  <2>1. m = n - 1 /\ m \in Nat /\ \A i \in 1..m : p[i] \in Entries
    BY <1>3, <1>12, ElementOfSeq
  <2>2. /\ t \in Seq(Entries) /\ Len(t) = IF 1 <= m THEN m - 1 + 1 ELSE 0
        /\ \A i \in 1..(m - 1 + 1) : t[i] = p[1 + i - 1]
    BY <1>12, <2>1, SubSeqProperties
  <2>3. m - 1 + 1 = m /\ \A i \in 1..m : 1 + i - 1 = i
    BY <2>1
  <2> QED BY <2>1, <2>2, <2>3
<1>14. q[n] = v
  <2>1. n \in 1..n /\ Wrap(f + n - 1, c) = g
    BY <1>3, <1>6
  <2> QED BY <1>9, <1>11, <2>1
<1>15. ASSUME NEW k \in 1..(n - 1) PROVE q[k] = t[k]
  <2>1. k \in 1..n /\ k # n
    BY <1>3
  <2>2. q[k] = p[k]
    BY <1>3, <1>6, <1>9, <1>11, <2>1
  <2> QED BY <1>13, <2>2
<1>16. q = t \o <<v>>
  BY <1>3, <1>11, <1>13, <1>14, <1>15, Ends
<1> QED BY <1>8, <1>9, <1>10, <1>12, <1>16

\* Two rings with the same elements, one of them from its first slot on.
LEMMA RingCopied ==
  ASSUME NEW d, NEW c, NEW f, NEW b, IsRing(d, c, f, b),
         NEW e, NEW m, NEW o, NEW z, IsRing(e, m, o, z), o = 0, RingLength(c, f, b) = z,
         \A i \in 0..(z - 1) : e[i] = d[Wrap(f + i, c)]
  PROVE  RingElements(e, m, o, z) = RingElements(d, c, f, b)
<1>1. PICK q, l : q = RingElements(e, m, o, z) /\ l = RingLength(m, o, z)
  OBVIOUS
<1>2. q \in Seq(Entries) /\ Len(q) = l /\ \A k \in 1..l : q[k] = e[Wrap(o + k - 1, m)]
  BY <1>1, ElementsSeq
<1>3. PICK p : p = RingElements(d, c, f, b)
  OBVIOUS
<1>4. p \in Seq(Entries) /\ Len(p) = z /\ \A k \in 1..z : p[k] = d[Wrap(f + k - 1, c)]
  BY <1>3, ElementsSeq
<1>5. c \in Nat /\ f \in Nat /\ m \in Nat \ {0} /\ z \in 0..(m - 1)
  BY DEF IsRing
<1>6. l = z
  BY <1>1, <1>5 DEF RingLength, Wrap
<1>7. ASSUME NEW k \in 1..z PROVE q[k] = p[k]
  <2>1. PICK i : i = k - 1
    OBVIOUS
  <2>2. i \in 0..(z - 1) /\ f + k - 1 = f + i
    BY <1>5, <2>1
  <2>3. Wrap(o + k - 1, m) = i
    BY <1>5, <2>1, <2>2 DEF Wrap
  <2> QED BY <1>2, <1>4, <1>6, <2>2, <2>3
<1> QED BY <1>1, <1>2, <1>3, <1>4, <1>6, <1>7, SeqEqual

\* A full ring is copied to the start of one twice as large, which is not full.
Copied(d, c, f) == [i \in 0..(2 * c - 1) |-> IF i < c - 1 THEN d[(f + i) % c] ELSE Junk]

LEMMA RingGrows ==
  ASSUME NEW d, NEW c, NEW f, NEW b, IsRing(d, c, f, b), f = Behind(b, c),
         NEW e, e = Copied(d, c, f)
  PROVE  /\ IsRing(e, 2 * c, 0, c - 1) /\ 0 # Behind(c - 1, 2 * c)
         /\ RingElements(e, 2 * c, 0, c - 1) = RingElements(d, c, f, b)
<1>1. c \in Nat \ {0} /\ f \in 0..(c - 1) /\ b \in 0..(c - 1) /\ d \in [0..(c - 1) -> Entries]
  BY DEF IsRing
<1>2. PICK n, p : n = RingLength(c, f, b) /\ p = RingElements(d, c, f, b)
  OBVIOUS
<1>3. /\ p \in Seq(Entries) /\ Len(p) = n /\ n \in 0..(c - 1)
      /\ \A k \in 1..n : p[k] = d[Wrap(f + k - 1, c)]
  BY <1>2, ElementsSeq
<1>4. f = IF b = c - 1 THEN 0 ELSE b + 1
  BY <1>1, RingSteps
<1>5. n = c - 1
  BY <1>1, <1>2, <1>4 DEF RingLength, Wrap
<1>6. \A i \in 0..(c - 1) : (f + i) % c = Wrap(f + i, c) /\ Wrap(f + i, c) \in 0..(c - 1)
  BY ElementsAre
<1>7. PICK m, z, o : m = 2 * c /\ z = c - 1 /\ o = 0
  OBVIOUS
<1>8. m \in Nat \ {0} /\ o \in 0..(m - 1) /\ z \in 0..(m - 1) /\ z # m - 1
  BY <1>1, <1>7
<1>9. IsRing(e, m, o, z)
  <2>1. ASSUME NEW i \in 0..(m - 1) PROVE e[i] \in Entries
    <3>1. i \in 0..(2 * c - 1) /\ e[i] = IF i < c - 1 THEN d[(f + i) % c] ELSE Junk
      BY <1>7 DEF Copied
    <3>2. CASE i < c - 1
      <4>1. i \in 0..(c - 1)
        BY <1>1, <1>8, <3>2
      <4> QED BY <1>1, <1>6, <3>1, <3>2, <4>1
    <3>3. CASE ~ (i < c - 1)
      BY <3>1, <3>3 DEF Entries
    <3> QED BY <3>2, <3>3
  <2>2. e = [i \in 0..(m - 1) |-> e[i]]
    BY <1>7 DEF Copied
  <2>3. e \in [0..(m - 1) -> Entries]
    BY <2>1, <2>2
  <2> QED BY <1>8, <2>3 DEF IsRing
<1>10. 0 # Behind(z, m)
  <2>1. Behind(z, m) = IF z = m - 1 THEN 0 ELSE z + 1
    BY <1>8, RingSteps
  <2> QED BY <1>8, <2>1
<1>11. ASSUME NEW i \in 0..(z - 1) PROVE e[i] = d[Wrap(f + i, c)]
  <2>1. i \in 0..(2 * c - 1) /\ i < c - 1 /\ i \in 0..(c - 1)
    BY <1>1, <1>7
  <2> QED BY <1>6, <2>1 DEF Copied
<1>12. RingElements(e, m, o, z) = RingElements(d, c, f, b)
  <2>1. RingLength(c, f, b) = z
    BY <1>2, <1>5, <1>7
  <2> QED BY <1>7, <1>9, <1>11, <2>1, RingCopied
<1> QED BY <1>7, <1>9, <1>10, <1>12
-----------------------------------------------------------------------------
\* The state as a ring, and what it holds.
Contents == IF Valid THEN Elements ELSE <<>>

\* The inductive invariant.
DequeInv == destructor \in BOOLEAN /\ (Valid => IsRing(data, cap, front, back))

LEMMA RingNotEmpty ==
  ASSUME NEW d, NEW c, NEW f, NEW b, IsRing(d, c, f, b)
  PROVE  d # <<>>
<1>1. 0 \in DOMAIN d
  BY DEF IsRing
<1> QED BY <1>1

LEMMA ContentsNow ==
  ASSUME DequeInv, Valid
  PROVE  /\ IsRing(data, cap, front, back)
         /\ length = RingLength(cap, front, back) /\ length \in 0..(cap - 1)
         /\ Elements = RingElements(data, cap, front, back) /\ Contents = Elements
         /\ \A i \in 0..(cap - 1) : Slot(i) = data[Wrap(front + i, cap)]
<1>1. PICK d, c, f, b : d = data /\ c = cap /\ f = front /\ b = back
  OBVIOUS
<1>2. IsRing(d, c, f, b)
  BY <1>1 DEF DequeInv
<1>3. /\ (b - f + c) % c = RingLength(c, f, b) /\ RingLength(c, f, b) \in 0..(c - 1)
      /\ \A i \in 0..(c - 1) : (f + i) % c = Wrap(f + i, c)
      /\ [k \in 1..((b - f + c) % c) |-> d[(f + (k - 1)) % c]] = RingElements(d, c, f, b)
  BY <1>2, ElementsAre
<1>4. Elements = [k \in 1..((b - f + c) % c) |-> d[(f + (k - 1)) % c]]
  BY <1>1, Zenon DEF Elements, length, Slot
<1>5. length = (b - f + c) % c
  BY <1>1 DEF length
<1>6. \A i \in 0..(c - 1) : Slot(i) = d[Wrap(f + i, c)]
  BY <1>1, <1>3 DEF Slot
<1>7. Contents = Elements
  BY DEF Contents
<1> QED BY <1>1, <1>2, <1>3, <1>4, <1>5, <1>6, <1>7

LEMMA ContentsNext ==
  ASSUME NEW d, NEW c, NEW f, NEW b, IsRing(d, c, f, b),
         data' = d, cap' = c, front' = f, back' = b, destructor' \in BOOLEAN
  PROVE  DequeInv' /\ Valid' /\ Contents' = RingElements(d, c, f, b)
<1>1. [k \in 1..((b - f + c) % c) |-> d[(f + (k - 1)) % c]] = RingElements(d, c, f, b)
  BY ElementsAre
<1>2. Elements' = [k \in 1..((b - f + c) % c) |-> d[(f + (k - 1)) % c]]
  BY Zenon DEF Elements, length, Slot
<1>3. Valid'
  BY RingNotEmpty DEF Valid, NoData
<1>4. Contents' = Elements'
  BY <1>3 DEF Contents
<1>5. DequeInv'
  BY DEF DequeInv
<1> QED BY <1>1, <1>2, <1>3, <1>4, <1>5

\* The ring a push writes into has a free slot and the same elements.
LEMMA RoomToPush ==
  ASSUME DequeInv, Valid
  PROVE  \E d, c, f, b :
           /\ OnPush = [data |-> d, cap |-> c, front |-> f, back |-> b]
           /\ IsRing(d, c, f, b) /\ f # Behind(b, c) /\ RingElements(d, c, f, b) = Contents
<1>1. PICK d, c, f, b : d = data /\ c = cap /\ f = front /\ b = back
  OBVIOUS
<1>2. IsRing(d, c, f, b) /\ Contents = RingElements(d, c, f, b)
  BY <1>1, ContentsNow
<1>3. CASE ~ Full
  BY <1>1, <1>2, <1>3 DEF OnPush, Full, Behind
<1>4. CASE Full
  <2>1. f = Behind(b, c)
    BY <1>1, <1>4 DEF Full, Behind
  <2>2. PICK e : e = Copied(d, c, f)
    OBVIOUS
  <2>3. /\ IsRing(e, 2 * c, 0, c - 1) /\ 0 # Behind(c - 1, 2 * c)
        /\ RingElements(e, 2 * c, 0, c - 1) = RingElements(d, c, f, b)
    BY <1>2, <2>1, <2>2, RingGrows
  <2>4. Grown = e
    BY <1>1, <2>2, Zenon DEF Grown, Slot, Copied
  <2>5. OnPush = [data |-> e, cap |-> 2 * c, front |-> 0, back |-> c - 1]
    BY <1>1, <1>4, <2>4 DEF OnPush
  <2> QED BY <1>2, <2>3, <2>5
<1> QED BY <1>3, <1>4

\* The array that a deque is handed over as.
LEMMA RealignedIs ==
  ASSUME DequeInv, Valid
  PROVE  [k \in 1..length |-> Realigned[k - 1]] = Contents
<1>1. /\ length = RingLength(cap, front, back) /\ length \in 0..(cap - 1)
      /\ Contents = Elements
      /\ \A i \in 0..(cap - 1) : Slot(i) = data[Wrap(front + i, cap)]
  BY ContentsNow
<1>2. cap \in Nat \ {0} /\ front \in 0..(cap - 1)
  BY ContentsNow DEF IsRing
<1>3. ASSUME NEW k \in 1..length PROVE Realigned[k - 1] = Slot(k - 1)
  <2>1. PICK i : i = k - 1
    OBVIOUS
  <2>2. i \in 0..(cap - 1) /\ i < length
    BY <1>1, <1>2, <2>1
  <2>3. CASE front = 0
    <3>1. Wrap(front + i, cap) = i
      BY <1>2, <2>2, <2>3 DEF Wrap
    <3> QED BY <1>1, <2>1, <2>2, <2>3, <3>1 DEF Realigned
  <2>4. CASE front # 0
    <3>1. Realigned[i] = Slot(i)
      BY <2>2, <2>4 DEF Realigned
    <3> QED BY <2>1, <3>1
  <2> QED BY <2>3, <2>4
<1>4. [k \in 1..length |-> Realigned[k - 1]] = [k \in 1..length |-> Slot(k - 1)]
  BY <1>3, Zenon
<1> QED BY <1>1, <1>4 DEF Elements
-----------------------------------------------------------------------------
\* Every call does to the contents what the sequence does.
DequeStep == DequeInv' /\ [Sequence!Next]_(Sequence!seqVars)

LEMMA RemovalSteps ==
  ASSUME DequeInv, destroy \/ as_array
  PROVE  DequeStep
<1>1. Valid /\ data' = <<>> /\ destructor' = destructor
  BY DEF destroy, as_array, Released, NoData
<1>2. ~ Valid' /\ Contents' = <<>>
  BY <1>1 DEF Valid, NoData, Contents
<1>3. DequeInv'
  BY <1>1, <1>2 DEF DequeInv
<1>4. CASE destroy
  <2>1. Did("destroy", Destroyed(Contents))
    BY <1>1, <1>4 DEF destroy, Contents
  <2>2. Sequence!Destroy
    BY <1>1, <1>2, <2>1 DEF Sequence!Destroy, Sequence!GiveUp, Sequence!Did, Sequence!Destroyed,
                           Did, Destroyed, Contents
  <2> QED BY <1>3, <2>2 DEF DequeStep, Sequence!Next
<1>5. CASE as_array
  <2>1. Did("as_array", Contents)
    BY <1>1, <1>5, RealignedIs DEF as_array
  <2>2. Sequence!AsArray
    BY <1>1, <1>2, <2>1 DEF Sequence!AsArray, Sequence!GiveUp, Sequence!Did, Did, Contents
  <2> QED BY <1>3, <2>2 DEF DequeStep, Sequence!Next
<1> QED BY <1>4, <1>5

LEMMA ReadSteps ==
  ASSUME DequeInv, apply \/ length_of \/ peek_front \/ peek_back
  PROVE  DequeStep
<1>1. Valid /\ UNCHANGED <<data, cap, front, back, destructor>>
  BY DEF apply, length_of, peek_front, peek_back, Looks, NotEmpty, ring
<1>2. DequeInv' /\ Valid' /\ Contents' = Contents
  BY <1>1 DEF DequeInv, Valid, Contents, Elements, length, Slot
<1>3. PICK d, c, f, b, p : d = data /\ c = cap /\ f = front /\ b = back /\ p = Contents
  OBVIOUS
<1>4. IsRing(d, c, f, b) /\ p = RingElements(d, c, f, b) /\ length = RingLength(c, f, b)
  BY <1>1, <1>3, ContentsNow
<1>5. Len(p) = length
  BY <1>4, ElementsSeq
<1>6. CASE apply
  <2>1. Did("apply", Contents)
    BY <1>1, <1>6 DEF apply, Contents
  <2>2. Sequence!Read
    BY <1>1, <1>2, <2>1 DEF Sequence!Read, Sequence!Known, Sequence!Did, Did, Contents
  <2> QED BY <1>2, <2>2 DEF DequeStep, Sequence!Next
<1>7. CASE length_of
  <2>1. Did("length", <<Len(Contents)>>)
    BY <1>3, <1>5, <1>7 DEF length_of
  <2>2. Sequence!Read
    BY <1>1, <1>2, <2>1 DEF Sequence!Read, Sequence!Known, Sequence!Did, Did, Contents
  <2> QED BY <1>2, <2>2 DEF DequeStep, Sequence!Next
<1>8. ASSUME peek_front \/ peek_back PROVE DequeStep
  <2>1. f # b
    BY <1>3, <1>8 DEF peek_front, peek_back, NotEmpty, is_empty
  <2>2. PICK g : g = Before(b, c)
    OBVIOUS
  <2>3. p # <<>> /\ Head(p) = d[f] /\ p[Len(p)] = d[g]
    BY <1>4, <2>1, <2>2, RingEnds
  <2>4. Did("peek_front", <<Head(Contents)>>) \/ Did("peek_back", <<Contents[Len(Contents)]>>)
    BY <1>3, <1>8, <2>2, <2>3 DEF peek_front, peek_back
  <2>5. Sequence!Read
    BY <1>1, <1>2, <1>3, <2>3, <2>4
       DEF Sequence!Read, Sequence!Known, Sequence!Did, Sequence!NotEmpty, Sequence!LastOf, Did, Contents
  <2> QED BY <1>2, <2>5 DEF DequeStep, Sequence!Next
<1> QED BY <1>6, <1>7, <1>8

LEMMA PushSteps ==
  ASSUME DequeInv, NEW v \in Values, push_front(v) \/ push_back(v)
  PROVE  DequeStep
<1>1. Valid /\ destructor' = destructor /\ destructor' \in BOOLEAN
  BY DEF push_front, push_back, DequeInv
<1>2. PICK d, c, f, b :
        /\ OnPush = [data |-> d, cap |-> c, front |-> f, back |-> b]
        /\ IsRing(d, c, f, b) /\ f # Behind(b, c) /\ RingElements(d, c, f, b) = Contents
  BY <1>1, RoomToPush
<1>3. PICK p : p = Contents
  OBVIOUS
<1>4. v \in Entries
  BY DEF Entries
<1>5. CASE push_front(v)
  <2>1. PICK g : g = Before(f, c)
    OBVIOUS
  <2>2. PICK e : e = Put(d, g, v)
    OBVIOUS
  <2>3. IsRing(e, c, g, b) /\ RingElements(e, c, g, b) = <<v>> \o p
    <3>1. p = RingElements(d, c, f, b)
      BY <1>2, <1>3
    <3> QED BY <1>2, <1>4, <2>1, <2>2, <3>1, RingPushFront
  <2>4. data' = e /\ cap' = c /\ front' = g /\ back' = b /\ Did("push_front", <<>>)
    BY <1>2, <1>5, <2>1, <2>2 DEF push_front, Put
  <2>5. DequeInv' /\ Valid' /\ Contents' = <<v>> \o Contents
    BY <1>1, <1>3, <2>3, <2>4, ContentsNext
  <2>6. Sequence!Push(v)
    BY <1>1, <2>4, <2>5 DEF Sequence!Push, Sequence!Keep, Sequence!Did, Did, Contents
  <2> QED BY <2>5, <2>6 DEF DequeStep, Sequence!Next
<1>6. CASE push_back(v)
  <2>1. PICK g : g = Behind(b, c)
    OBVIOUS
  <2>2. PICK e : e = Put(d, b, v)
    OBVIOUS
  <2>3. IsRing(e, c, f, g) /\ RingElements(e, c, f, g) = Append(p, v)
    <3>1. p = RingElements(d, c, f, b)
      BY <1>2, <1>3
    <3> QED BY <1>2, <1>4, <2>1, <2>2, <3>1, RingPushBack
  <2>4. data' = e /\ cap' = c /\ front' = f /\ back' = g /\ Did("push_back", <<>>)
    BY <1>2, <1>6, <2>1, <2>2 DEF push_back, Put, Behind
  <2>5. DequeInv' /\ Valid' /\ Contents' = Append(Contents, v)
    BY <1>1, <1>3, <2>3, <2>4, ContentsNext
  <2>6. Sequence!Push(v)
    BY <1>1, <2>4, <2>5 DEF Sequence!Push, Sequence!Keep, Sequence!Did, Did, Contents
  <2> QED BY <2>5, <2>6 DEF DequeStep, Sequence!Next
<1> QED BY <1>5, <1>6

LEMMA PopSteps ==
  ASSUME DequeInv, pop_front \/ pop_back
  PROVE  DequeStep
<1>1. Valid /\ destructor' = destructor /\ destructor' \in BOOLEAN /\ ~ is_empty
  BY DEF pop_front, pop_back, DequeInv, NotEmpty
<1>2. PICK d, c, f, b, p : d = data /\ c = cap /\ f = front /\ b = back /\ p = Contents
  OBVIOUS
<1>3. IsRing(d, c, f, b) /\ p = RingElements(d, c, f, b) /\ f # b
  BY <1>1, <1>2, ContentsNow DEF is_empty
<1>4. PICK g, h : g = Before(b, c) /\ h = Behind(f, c)
  OBVIOUS
<1>5. p # <<>> /\ Head(p) = d[f] /\ p[Len(p)] = d[g]
  BY <1>3, <1>4, RingEnds
<1>6. /\ IsRing(d, c, h, b) /\ RingElements(d, c, h, b) = Tail(p)
      /\ IsRing(d, c, f, g) /\ RingElements(d, c, f, g) = SubSeq(p, 1, Len(p) - 1)
  BY <1>3, <1>4, RingPop
<1>7. CASE pop_front
  <2>1. data' = d /\ cap' = c /\ front' = h /\ back' = b /\ Did("pop_front", <<Head(p)>>)
    BY <1>2, <1>4, <1>5, <1>7 DEF pop_front, Behind
  <2>2. DequeInv' /\ Valid' /\ Contents' = Tail(p)
    BY <1>1, <1>6, <2>1, ContentsNext
  <2>3. Sequence!Pop
    BY <1>1, <1>2, <1>5, <2>1, <2>2 DEF Sequence!Pop, Sequence!Keep, Sequence!NotEmpty, Sequence!Did, Did, Contents
  <2> QED BY <2>2, <2>3 DEF DequeStep, Sequence!Next
<1>8. CASE pop_back
  <2>1. data' = d /\ cap' = c /\ front' = f /\ back' = g /\ Did("pop_back", <<p[Len(p)]>>)
    BY <1>2, <1>4, <1>5, <1>8 DEF pop_back
  <2>2. DequeInv' /\ Valid' /\ Contents' = SubSeq(p, 1, Len(p) - 1)
    BY <1>1, <1>6, <2>1, ContentsNext
  <2>3. Sequence!Pop
    BY <1>1, <1>2, <1>5, <2>1, <2>2
       DEF Sequence!Pop, Sequence!Keep, Sequence!NotEmpty, Sequence!Front, Sequence!LastOf, Sequence!Did,
           Did, Contents
  <2> QED BY <2>2, <2>3 DEF DequeStep, Sequence!Next
<1> QED BY <1>7, <1>8

LEMMA UpdateSteps ==
  ASSUME DequeInv, NEW v \in Values,
         \/ update_front(v) \/ update_and_destroy_front(v)
         \/ update_back(v) \/ update_and_destroy_back(v)
  PROVE  DequeStep
<1>1. Valid /\ destructor' = destructor /\ destructor' \in BOOLEAN /\ ~ is_empty
  BY DEF update_front, update_back, update_and_destroy_front, update_and_destroy_back, Overwrite,
         DequeInv, NotEmpty
<1>2. PICK d, c, f, b, p : d = data /\ c = cap /\ f = front /\ b = back /\ p = Contents
  OBVIOUS
<1>3. IsRing(d, c, f, b) /\ p = RingElements(d, c, f, b) /\ f # b /\ v \in Entries
  BY <1>1, <1>2, ContentsNow DEF is_empty, Entries
<1>4. PICK g : g = Before(b, c)
  OBVIOUS
<1>5. PICK x, y : x = Put(d, f, v) /\ y = Put(d, g, v)
  OBVIOUS
<1>6. /\ p # <<>> /\ Head(p) = d[f] /\ p[Len(p)] = d[g]
      /\ IsRing(x, c, f, b) /\ RingElements(x, c, f, b) = <<v>> \o Tail(p)
      /\ IsRing(y, c, f, b) /\ RingElements(y, c, f, b) = SubSeq(p, 1, Len(p) - 1) \o <<v>>
  <2>1. p # <<>> /\ Head(p) = d[f] /\ p[Len(p)] = d[g]
    BY <1>3, <1>4, RingEnds
  <2>2. IsRing(x, c, f, b) /\ RingElements(x, c, f, b) = <<v>> \o Tail(p)
    BY <1>3, <1>4, <1>5, RingOverwriteFront
  <2>3. IsRing(y, c, f, b) /\ RingElements(y, c, f, b) = SubSeq(p, 1, Len(p) - 1) \o <<v>>
    BY <1>3, <1>4, <1>5, RingOverwriteBack
  <2> QED BY <2>1, <2>2, <2>3
<1>7. CASE update_front(v) \/ update_and_destroy_front(v)
  <2>1. /\ data' = x /\ cap' = c /\ front' = f /\ back' = b
        /\ Did("update_front", <<>>) \/ Did("replace_front", Destroyed(<<Head(p)>>))
    BY <1>2, <1>5, <1>6, <1>7 DEF update_front, update_and_destroy_front, Overwrite, Put
  <2>2. DequeInv' /\ Valid' /\ Contents' = <<v>> \o Tail(p)
    BY <1>1, <1>6, <2>1, ContentsNext
  <2>3. Sequence!Update(v)
    BY <1>1, <1>2, <1>6, <2>1, <2>2
       DEF Sequence!Update, Sequence!Keep, Sequence!NotEmpty, Sequence!Did, Sequence!Destroyed,
           Did, Destroyed, Contents
  <2> QED BY <2>2, <2>3 DEF DequeStep, Sequence!Next
<1>8. CASE update_back(v) \/ update_and_destroy_back(v)
  <2>1. /\ data' = y /\ cap' = c /\ front' = f /\ back' = b
        /\ Did("update_back", <<>>) \/ Did("replace_back", Destroyed(<<p[Len(p)]>>))
    BY <1>2, <1>4, <1>5, <1>6, <1>8 DEF update_back, update_and_destroy_back, Overwrite, Put
  <2>2. DequeInv' /\ Valid' /\ Contents' = SubSeq(p, 1, Len(p) - 1) \o <<v>>
    BY <1>1, <1>6, <2>1, ContentsNext
  <2>3. Sequence!Update(v)
    BY <1>1, <1>2, <1>6, <2>1, <2>2
       DEF Sequence!Update, Sequence!Keep, Sequence!NotEmpty, Sequence!Did, Sequence!Destroyed,
           Sequence!Front, Sequence!LastOf, Did, Destroyed, Contents
  <2> QED BY <2>2, <2>3 DEF DequeStep, Sequence!Next
<1> QED BY <1>7, <1>8

LEMMA NewSteps ==
  ASSUME DequeInv, NEW n \in InitCaps, NEW d \in BOOLEAN, new_destructable(n, d)
  PROVE  DequeStep
<1>1. PICK c, m, o : c = (IF n > 0 THEN n ELSE 1) /\ m = malloc(c) /\ o = 0
  OBVIOUS
<1>2. /\ ~ Valid /\ data' = m /\ cap' = c /\ front' = o /\ back' = o /\ destructor' = d
      /\ Did("new", <<>>)
  BY <1>1 DEF new_destructable
<1>3. c \in Nat \ {0}
  BY <1>1, CapsAssumption
<1>4. IsRing(m, c, o, o)
  BY <1>1, <1>3 DEF IsRing, malloc, Entries
<1>5. RingLength(c, o, o) = 0
  BY <1>1, <1>3 DEF RingLength, Wrap
<1>6. PICK q : q = RingElements(m, c, o, o)
  OBVIOUS
<1>7. q \in Seq(Entries) /\ Len(q) = 0
  BY <1>4, <1>5, <1>6, ElementsSeq
<1>8. q = <<>>
  BY <1>7, EmptySeq
<1>9. DequeInv' /\ Valid' /\ Contents' = <<>>
  BY <1>2, <1>4, <1>6, <1>8, ContentsNext
<1>10. Sequence!New
  BY <1>2, <1>9 DEF Sequence!New, Sequence!Did, Did, Contents
<1> QED BY <1>9, <1>10 DEF DequeStep, Sequence!Next

LEMMA EmptySteps ==
  ASSUME DequeInv, empty
  PROVE  DequeStep
<1>1. PICK d, c, o : d = data /\ c = cap /\ o = 0
  OBVIOUS
<1>2. /\ Valid /\ data' = d /\ cap' = c /\ front' = o /\ back' = o
      /\ destructor' = destructor /\ destructor' \in BOOLEAN
      /\ Did("empty", Destroyed(Contents))
  BY <1>1 DEF empty, Contents, DequeInv
<1>3. IsRing(d, c, o, o) /\ c \in Nat \ {0}
  BY <1>1, <1>2 DEF IsRing, DequeInv
<1>4. RingLength(c, o, o) = 0
  BY <1>1, <1>3 DEF RingLength, Wrap
<1>5. PICK q : q = RingElements(d, c, o, o)
  OBVIOUS
<1>6. q \in Seq(Entries) /\ Len(q) = 0
  BY <1>3, <1>4, <1>5, ElementsSeq
<1>7. q = <<>>
  BY <1>6, EmptySeq
<1>8. DequeInv' /\ Valid' /\ Contents' = <<>>
  BY <1>2, <1>3, <1>5, <1>7, ContentsNext
<1>9. Sequence!Empty
  BY <1>2, <1>8 DEF Sequence!Empty, Sequence!Keep, Sequence!Did, Sequence!Destroyed, Did, Destroyed, Contents
<1> QED BY <1>8, <1>9 DEF DequeStep, Sequence!Next

\* The ring buffer is a sequence, pushed, popped, read and overwritten at both
\* ends: for every initial capacity, and wherever the ring starts, wraps around
\* or has grown, each call does to the elements, and returns, what it does on
\* a sequence.
THEOREM RingIsSequence == DequeSpec => IsSequence
<1>1. DequeInit => DequeInv /\ Sequence!Init
  BY DEF DequeInit, DequeInv, Valid, NoData, Sequence!Init
<1>2. DequeInv /\ [DequeNext]_dequeVars => DequeInv' /\ [Sequence!Next]_(Sequence!seqVars)
  <2> SUFFICES ASSUME DequeInv, [DequeNext]_dequeVars PROVE DequeStep
    BY DEF DequeStep
  <2>1. CASE UNCHANGED dequeVars
    BY <2>1 DEF dequeVars, DequeStep, DequeInv, Valid, Elements, length, Slot, Sequence!seqVars
  <2>2. CASE DequeNext
    BY <2>2, NewSteps, RemovalSteps, EmptySteps, ReadSteps, PopSteps, PushSteps, UpdateSteps DEF DequeNext
  <2> QED BY <2>1, <2>2
<1> QED BY <1>1, <1>2, PTL DEF DequeSpec, IsSequence, Sequence!Spec
-----------------------------------------------------------------------------
(*****************************************************************************)
(* PriQueue: the nodes form a list, and its objects are the sequence of      *)
(* PriorityQueue.                                                            *)
(*****************************************************************************)

\* A walk along m_next exists, however long.
IsWalk(g, k, h, nd) == g = [i \in 0..k |-> IF i = 0 THEN h ELSE nd[g[i - 1]].m_next]

LEMMA WalkExists ==
  ASSUME NEW M \in Nat, NEW h, NEW nd
  PROVE  \E g : IsWalk(g, M, h, nd)
<1>1. PICK T : T = {k \in Nat : ~ \E g : IsWalk(g, k, h, nd)}
  OBVIOUS
<1>2. SUFFICES ASSUME T # {} PROVE FALSE
  BY <1>1
<1>3. PICK x \in T : \A y \in T : x <= y
  BY <1>1, <1>2, Smallest
<1>4. x # 0
  <2>1. PICK g : g = [i \in 0..0 |-> h]
    OBVIOUS
  <2>2. IsWalk(g, 0, h, nd)
    BY <2>1 DEF IsWalk
  <2> QED BY <1>1, <2>2
<1>5. PICK y \in Nat : x = y + 1
  BY <1>1, <1>4
<1>6. PICK g : IsWalk(g, y, h, nd)
  BY <1>1, <1>3, <1>5
<1>7. PICK f : f = [i \in 0..x |-> IF i = x THEN nd[g[y]].m_next ELSE g[i]]
  OBVIOUS
<1>8. ASSUME NEW i \in 0..x
      PROVE  f[i] = IF i = 0 THEN h ELSE nd[f[i - 1]].m_next
  <2>1. CASE i = x
    <3>1. f[i] = nd[g[y]].m_next /\ f[y] = g[y] /\ i - 1 = y
      BY <1>5, <1>7, <2>1
    <3> QED BY <1>4, <2>1, <3>1
  <2>2. CASE i # x
    <3>1. i \in 0..y /\ f[i] = g[i]
      BY <1>5, <1>7, <2>2
    <3>2. CASE i = 0
      BY <1>6, <3>1, <3>2 DEF IsWalk
    <3>3. CASE i # 0
      <4>1. PICK k \in 0..x : k = i - 1 /\ k # x
        BY <1>5, <2>2, <3>1, <3>3
      <4>2. f[k] = g[k]
        BY <1>7, <4>1
      <4>3. g[i] = nd[g[i - 1]].m_next
        BY <1>6, <3>1, <3>3 DEF IsWalk
      <4> QED BY <3>1, <3>3, <4>1, <4>2, <4>3
    <3> QED BY <3>2, <3>3
  <2> QED BY <2>1, <2>2
<1>9. f = [i \in 0..x |-> f[i]]
  BY <1>7
<1>10. [i \in 0..x |-> f[i]] = [i \in 0..x |-> IF i = 0 THEN h ELSE nd[f[i - 1]].m_next]
  BY <1>8, Zenon
<1>11. IsWalk(f, x, h, nd)
  BY <1>9, <1>10, Zenon DEF IsWalk
<1> QED BY <1>1, <1>11

LEMMA WalkIs ==
  /\ Walk[0] = m_head
  /\ \A i \in 1..MaxSize : Walk[i] = node[Walk[i - 1]].m_next
<1>1. MaxSize \in Nat
  BY MaxSizeAssumption
<1>2. \E g : g = [index \in 0..MaxSize |-> IF index = 0 THEN m_head ELSE node[g[index - 1]].m_next]
  <2>1. \E g : IsWalk(g, MaxSize, m_head, node)
    <3>1. PICK M, h, nd : M = MaxSize /\ h = m_head /\ nd = node
      OBVIOUS
    <3> QED BY <1>1, <3>1, WalkExists
  <2> QED BY <2>1 DEF IsWalk
<1>3. Walk = [index \in 0..MaxSize |-> IF index = 0 THEN m_head ELSE node[Walk[index - 1]].m_next]
  BY <1>2, Zenon DEF Walk
<1>4. \A i \in 0..MaxSize : Walk[i] = IF i = 0 THEN m_head ELSE node[Walk[i - 1]].m_next
  BY <1>3, Zenon
<1> QED BY <1>1, <1>4
-----------------------------------------------------------------------------
\* The nodes form the list q from hd on; the objects on it.
NodeRecords == [m_object : Objects, m_next : Nodes \union {NULL}]
IsList(q, hd, nd) ==
  /\ q \in Seq(Nodes) /\ NoneTwice(q)
  /\ nd \in [Listed(q) -> NodeRecords]
  /\ hd = IF Len(q) = 0 THEN NULL ELSE q[1]
  /\ \A i \in 1..Len(q) : nd[q[i]].m_next = IF i = Len(q) THEN NULL ELSE q[i + 1]
ObjectsOf(q, nd) == [i \in 1..Len(q) |-> nd[q[i]].m_object]

\* The nodes of a list and their order.
LEMMA OnList ==
  ASSUME NEW q, NEW hd, NEW nd, IsList(q, hd, nd)
  PROVE  /\ Len(q) \in Nat /\ DOMAIN nd = Listed(q)
         /\ \A i \in 1..Len(q) : q[i] \in DOMAIN nd /\ q[i] \in Nodes /\ nd[q[i]] \in NodeRecords
         /\ \A m \in DOMAIN nd : \E i \in 1..Len(q) : m = q[i]
         /\ \A i, k \in 1..Len(q) : q[i] = q[k] => i = k
         /\ Len(ObjectsOf(q, nd)) = Len(q) /\ ObjectsOf(q, nd) \in Seq(Objects)
         /\ \A i \in 1..Len(q) : ObjectsOf(q, nd)[i] = nd[q[i]].m_object
<1>1. q \in Seq(Nodes) /\ nd \in [Listed(q) -> NodeRecords]
  BY DEF IsList
<1>2. Len(q) \in Nat /\ DOMAIN nd = Listed(q) /\ \A i \in 1..Len(q) : q[i] \in Nodes
  BY <1>1, LenProperties, ElementOfSeq
<1>3. \A i \in 1..Len(q) : q[i] \in Listed(q) /\ nd[q[i]] \in NodeRecords
  BY <1>1 DEF Listed
<1>4. \A m \in DOMAIN nd : \E i \in 1..Len(q) : m = q[i]
  BY <1>2 DEF Listed
<1>5. \A i, k \in 1..Len(q) : q[i] = q[k] => i = k
  BY DEF IsList, NoneTwice
<1>6. PICK o : o = ObjectsOf(q, nd)
  OBVIOUS
<1>7. o = [i \in 1..Len(q) |-> nd[q[i]].m_object]
  BY <1>6 DEF ObjectsOf
<1>8. o \in [1..Len(q) -> Objects]
  BY <1>3, <1>7 DEF NodeRecords
<1>9. o \in Seq(Objects) /\ Len(o) = Len(q)
  BY <1>2, <1>8, LenProperties, SeqDef
<1> QED BY <1>2, <1>3, <1>4, <1>5, <1>6, <1>7, <1>9

\* Two lists of objects are the same when they agree place by place.
LEMMA SameObjects ==
  ASSUME NEW q, NEW nd, NEW p, Len(q) \in Nat, Len(p) = Len(q), p \in Seq(Objects),
         \A i \in 1..Len(q) : nd[q[i]].m_object = p[i]
  PROVE  ObjectsOf(q, nd) = p
<1>1. p = [i \in 1..Len(q) |-> p[i]]
  <2>1. p \in [1..Len(q) -> Objects]
    BY LenProperties
  <2> QED BY <2>1
<1>2. ObjectsOf(q, nd) = [i \in 1..Len(q) |-> p[i]]
  BY Zenon DEF ObjectsOf
<1> QED BY <1>1, <1>2, Zenon

\* The pointers of a list with a node linked in.
LEMMA LinkPoints ==
  ASSUME NEW N \in Nat, NEW k \in 1..(N + 1), NEW q, NEW n, NEW f, NEW nd, NEW nd2,
         \A i \in 1..(N + 1) : f[i] = IF i < k THEN q[i] ELSE IF i = k THEN n ELSE q[i - 1],
         \A i \in 1..N : nd[q[i]].m_next = IF i = N THEN NULL ELSE q[i + 1],
         nd2[n].m_next = IF k = N + 1 THEN NULL ELSE q[k],
         \A i \in 1..N : nd2[q[i]].m_next = IF i + 1 = k THEN n ELSE nd[q[i]].m_next,
         NEW i \in 1..(N + 1)
  PROVE  nd2[f[i]].m_next = IF i = N + 1 THEN NULL ELSE f[i + 1]
<1>1. CASE i + 1 < k
  <2>1. i \in 1..N /\ i # N /\ f[i] = q[i] /\ f[i + 1] = q[i + 1] /\ i # N + 1
    BY <1>1
  <2> QED BY <1>1, <2>1
<1>2. CASE i + 1 = k
  <2>1. i \in 1..N /\ f[i] = q[i] /\ f[i + 1] = n /\ i # N + 1
    BY <1>2
  <2> QED BY <1>2, <2>1
<1>3. CASE i = k
  <2>1. f[i] = n
    BY <1>3
  <2>2. CASE i # N + 1
    <3>1. PICK j \in 1..(N + 1) : j = i + 1
      BY <2>2
    <3>2. f[j] = q[i]
      BY <1>3, <3>1
    <3> QED BY <1>3, <2>1, <2>2, <3>1, <3>2
  <2>3. CASE i = N + 1
    BY <1>3, <2>1, <2>3
  <2> QED BY <2>2, <2>3
<1>4. CASE i > k
  <2>1. PICK j \in 1..N : i = j + 1
    <3>1. i - 1 \in 1..N /\ i = (i - 1) + 1
      BY <1>4
    <3> QED BY <3>1
  <2>2. f[i] = q[j] /\ j + 1 # k
    BY <1>4, <2>1
  <2>3. CASE j = N
    BY <2>1, <2>2, <2>3
  <2>4. CASE j # N
    <3>1. PICK h \in 1..(N + 1) : h = i + 1
      BY <2>1, <2>4
    <3>2. f[h] = q[i]
      BY <1>4, <3>1
    <3> QED BY <2>1, <2>2, <2>4, <3>1, <3>2
  <2> QED BY <2>3, <2>4
<1> QED BY <1>1, <1>2, <1>3, <1>4

\* The nodes nd2 are those of the list q and the new node n with object x, which
\* is linked in as the k-th: it points to what follows, and the one before it to
\* it.
NodesLinked(q, nd, n, x, k, nd2) ==
  /\ nd2 = [m \in DOMAIN nd \union {n} |-> nd2[m]]
  /\ nd2[n] \in NodeRecords /\ nd2[n].m_object = x
  /\ nd2[n].m_next = IF k = Len(q) + 1 THEN NULL ELSE q[k]
  /\ \A i \in 1..Len(q) : /\ nd2[q[i]] \in NodeRecords
                          /\ nd2[q[i]].m_object = nd[q[i]].m_object
                          /\ nd2[q[i]].m_next = IF i + 1 = k THEN n ELSE nd[q[i]].m_next

LEMMA ListLink ==
  ASSUME NEW q, NEW hd, NEW nd, IsList(q, hd, nd), NEW n \in Nodes, n \notin DOMAIN nd,
         NEW x \in Objects, NEW k \in 1..(Len(q) + 1),
         NEW nd2, NodesLinked(q, nd, n, x, k, nd2),
         NEW f, f = Link(q, k, n)
  PROVE  IsList(f, f[1], nd2) /\ Len(f) = Len(q) + 1 /\ (k # 1 => f[1] = hd) /\ (k = 1 => f[1] = n)
<1>1. PICK N \in Nat : N = Len(q)
  BY OnList
<1>2. /\ q \in Seq(Nodes) /\ DOMAIN nd = Listed(q)
      /\ \A i \in 1..N : q[i] \in DOMAIN nd /\ q[i] \in Nodes
  BY <1>1, OnList DEF IsList
<1>3. f \in Seq(Nodes) /\ Len(f) = N + 1
  BY <1>1, <1>2, LinkType, SMTT(30)
<1>4. \A i \in 1..(N + 1) : f[i] = IF i < k THEN q[i] ELSE IF i = k THEN n ELSE q[i - 1]
  BY <1>1, <1>2, LinkPlaces
<1>5. NoneTwice(f)
  <2>1. \A i, m \in 1..Len(q) : q[i] = q[m] => i = m
    BY OnList
  <2>2. \A i \in 1..Len(q) : q[i] # n
    BY <1>1, <1>2
  <2>3. \A i, m \in 1..Len(f) : f[i] = f[m] => i = m
    BY <1>2, <2>1, <2>2, LinkInjective
  <2> QED BY <2>3 DEF NoneTwice
<1>6. Listed(f) = Listed(q) \union {n}
  <2>1. \E i \in 1..Len(f) : f[i] = n
    BY <1>2, LinkHas
  <2>2. \A m \in 1..Len(q) : \E i \in 1..Len(f) : f[i] = q[m]
    BY <1>2, LinkKeeps
  <2>3. \A i \in 1..Len(f) : f[i] = n \/ \E m \in 1..Len(q) : f[i] = q[m]
    BY <1>2, LinkOnly
  <2>4. Listed(f) \subseteq Listed(q) \union {n}
    BY <2>3 DEF Listed
  <2>5. n \in Listed(f) /\ \A m \in 1..Len(q) : q[m] \in Listed(f)
    BY <2>1, <2>2 DEF Listed
  <2>6. Listed(q) \subseteq Listed(f)
    BY <2>5 DEF Listed
  <2> QED BY <2>4, <2>5, <2>6
<1>7. nd2 \in [Listed(f) -> NodeRecords]
  <2>1. \A m \in Listed(f) : nd2[m] \in NodeRecords
    BY <1>6 DEF NodesLinked, Listed
  <2>2. nd2 = [m \in Listed(f) |-> nd2[m]]
    BY <1>2, <1>6 DEF NodesLinked
  <2> QED BY <2>1, <2>2
<1>8. (k = 1 => f[1] = n) /\ (k # 1 => f[1] = hd)
  <2>1. CASE k = 1
    BY <1>1, <1>4, <2>1
  <2>2. CASE k # 1
    <3>1. N # 0 /\ f[1] = q[1]
      BY <1>1, <1>4, <2>2
    <3> QED BY <1>1, <2>2, <3>1 DEF IsList
  <2> QED BY <2>1, <2>2
<1>9. \A i \in 1..N : nd[q[i]].m_next = IF i = N THEN NULL ELSE q[i + 1]
  BY <1>1 DEF IsList
<1>10. /\ nd2[n].m_next = IF k = N + 1 THEN NULL ELSE q[k]
       /\ \A i \in 1..N : nd2[q[i]].m_next = IF i + 1 = k THEN n ELSE nd[q[i]].m_next
  BY <1>1 DEF NodesLinked
<1>11. k \in 1..(N + 1)
  BY <1>1
<1>12. ASSUME NEW i \in 1..(N + 1)
       PROVE  nd2[f[i]].m_next = IF i = N + 1 THEN NULL ELSE f[i + 1]
  BY <1>4, <1>9, <1>10, <1>11, LinkPoints
<1>13. IsList(f, f[1], nd2)
  <2>1. f[1] = IF Len(f) = 0 THEN NULL ELSE f[1]
    BY <1>1, <1>3
  <2>2. \A i \in 1..Len(f) : nd2[f[i]].m_next = IF i = Len(f) THEN NULL ELSE f[i + 1]
    BY <1>3, <1>12
  <2> QED BY <1>3, <1>5, <1>7, <2>1, <2>2 DEF IsList
<1> QED BY <1>1, <1>3, <1>8, <1>13

\* The objects on it.
LEMMA ListLinkObjects ==
  ASSUME NEW q, NEW hd, NEW nd, IsList(q, hd, nd), NEW n \in Nodes, n \notin DOMAIN nd,
         NEW x \in Objects, NEW k \in 1..(Len(q) + 1),
         NEW nd2, NodesLinked(q, nd, n, x, k, nd2),
         NEW f, f = Link(q, k, n), NEW o, o = ObjectsOf(q, nd)
  PROVE  ObjectsOf(f, nd2) = Link(o, k, x)
<1>1. PICK N \in Nat : N = Len(q)
  BY OnList
<1>2. q \in Seq(Nodes) /\ o \in Seq(Objects) /\ Len(o) = N /\ \A i \in 1..N : o[i] = nd[q[i]].m_object
  BY <1>1, OnList DEF IsList
<1>3. PICK p : p = Link(o, k, x)
  OBVIOUS
<1>4. k \in 1..(Len(o) + 1)
  BY <1>1, <1>2
<1>5. p \in Seq(Objects) /\ Len(p) = N + 1
  BY <1>2, <1>3, <1>4, LinkType, SMTT(30)
<1>6. \A i \in 1..(N + 1) : p[i] = IF i < k THEN o[i] ELSE IF i = k THEN x ELSE o[i - 1]
  <2>1. \A i \in 1..(Len(o) + 1) : p[i] = IF i < k THEN o[i] ELSE IF i = k THEN x ELSE o[i - 1]
    BY <1>2, <1>3, <1>4, LinkPlaces, SMTT(30)
  <2> QED BY <1>2, <2>1
<1>7. \A i \in 1..(N + 1) : f[i] = IF i < k THEN q[i] ELSE IF i = k THEN n ELSE q[i - 1]
  BY <1>1, <1>2, LinkPlaces
<1>8. Len(f) = N + 1
  BY <1>1, <1>2, LinkPlaces
<1>9. nd2[n].m_object = x /\ \A i \in 1..N : nd2[q[i]].m_object = nd[q[i]].m_object
  BY <1>1 DEF NodesLinked
<1>10. ASSUME NEW i \in 1..(N + 1) PROVE nd2[f[i]].m_object = p[i]
  <2>1. CASE i < k
    <3>1. i \in 1..N /\ f[i] = q[i] /\ p[i] = o[i]
      BY <1>2, <1>4, <1>6, <1>7, <2>1
    <3> QED BY <1>2, <1>9, <3>1
  <2>2. CASE i = k
    BY <1>6, <1>7, <1>9, <2>2
  <2>3. CASE i > k
    <3>1. PICK j \in Nat : i = j + 1
      OBVIOUS
    <3>2. j \in 1..N /\ f[i] = q[j] /\ p[i] = o[j]
      BY <1>2, <1>4, <1>6, <1>7, <2>3, <3>1
    <3> QED BY <1>2, <1>9, <3>2
  <2> QED BY <1>2, <1>4, <2>1, <2>2, <2>3
<1>11. \A i \in 1..Len(f) : nd2[f[i]].m_object = p[i]
  BY <1>8, <1>10
<1> QED BY <1>3, <1>5, <1>8, <1>11, SameObjects
\* The list without its k-th node: the one before it points to what follows.
NodesUnlinked(q, nd, k, nd2) ==
  /\ nd2 = [m \in DOMAIN nd \ {q[k]} |-> nd2[m]]
  /\ \A i \in 1..Len(q) : i # k =>
       /\ nd2[q[i]] \in NodeRecords
       /\ nd2[q[i]].m_object = nd[q[i]].m_object
       /\ nd2[q[i]].m_next = IF i + 1 = k THEN nd[q[k]].m_next ELSE nd[q[i]].m_next

LEMMA UnlinkPlaces ==
  ASSUME NEW S, NEW q \in Seq(S), NEW k \in 1..Len(q), NEW f, f = Unlink(q, k)
  PROVE  /\ f \in Seq(S) /\ Len(f) = Len(q) - 1
         /\ \A i \in 1..(Len(q) - 1) : f[i] = IF i < k THEN q[i] ELSE q[i + 1]
BY UnlinkType, SMTT(30)

LEMMA UnlinkPoints ==
  ASSUME NEW N \in Nat, NEW k \in 1..N, NEW q, NEW f, NEW nd, NEW nd2,
         \A i \in 1..(N - 1) : f[i] = IF i < k THEN q[i] ELSE q[i + 1],
         \A i \in 1..N : nd[q[i]].m_next = IF i = N THEN NULL ELSE q[i + 1],
         \A i \in 1..N : i # k =>
           nd2[q[i]].m_next = IF i + 1 = k THEN nd[q[k]].m_next ELSE nd[q[i]].m_next,
         NEW i \in 1..(N - 1)
  PROVE  nd2[f[i]].m_next = IF i = N - 1 THEN NULL ELSE f[i + 1]
<1>1. CASE i + 1 < k
  <2>1. i \in 1..N /\ i # N /\ f[i] = q[i] /\ i # N - 1 /\ i # k
    BY <1>1
  <2>2. PICK j \in 1..(N - 1) : j = i + 1
    BY <1>1
  <2>3. f[j] = q[j]
    BY <1>1, <2>2
  <2> QED BY <1>1, <2>1, <2>2, <2>3
<1>2. CASE i + 1 = k
  <2>1. i \in 1..N /\ f[i] = q[i] /\ i # k
    BY <1>2
  <2>2. nd2[q[i]].m_next = IF k = N THEN NULL ELSE q[k + 1]
    BY <1>2, <2>1
  <2>3. CASE k # N
    <3>1. k \in 1..(N - 1) /\ f[k] = q[k + 1]
      BY <2>3
    <3> QED BY <1>2, <2>1, <2>2, <2>3, <3>1
  <2>4. CASE k = N
    BY <1>2, <2>1, <2>2, <2>4
  <2> QED BY <2>3, <2>4
<1>3. CASE i >= k
  <2>1. PICK j \in 1..N : j = i + 1 /\ j # k /\ j + 1 # k
    BY <1>3
  <2>2. f[i] = q[j]
    BY <1>3, <2>1
  <2>3. nd2[q[j]].m_next = IF j = N THEN NULL ELSE q[j + 1]
    BY <2>1
  <2>4. CASE j # N
    <3>1. j \in 1..(N - 1) /\ f[j] = q[j + 1]
      BY <1>3, <2>1, <2>4
    <3> QED BY <2>1, <2>2, <2>3, <2>4, <3>1
  <2>5. CASE j = N
    BY <2>1, <2>2, <2>3, <2>5
  <2> QED BY <2>4, <2>5
<1> QED BY <1>1, <1>2, <1>3

LEMMA ListUnlink ==
  ASSUME NEW q, NEW hd, NEW nd, IsList(q, hd, nd), NEW k \in 1..Len(q),
         NEW nd2, NodesUnlinked(q, nd, k, nd2), NEW f, f = Unlink(q, k),
         NEW hd2, hd2 = IF k = 1 THEN nd[q[k]].m_next ELSE hd
  PROVE  IsList(f, hd2, nd2) /\ Len(f) = Len(q) - 1
<1>1. PICK N \in Nat : N = Len(q)
  BY OnList
<1>2. /\ q \in Seq(Nodes) /\ DOMAIN nd = Listed(q) /\ k \in 1..N
      /\ \A i \in 1..N : q[i] \in DOMAIN nd /\ q[i] \in Nodes
  BY <1>1, OnList DEF IsList
<1>3. NoneTwice(q) /\ \A i, m \in 1..N : q[i] = q[m] => i = m
  BY <1>1, OnList DEF IsList
<1>4. f \in Seq(Nodes) /\ NoneTwice(f) /\ Listed(f) = Listed(q) \ {q[k]}
  <2>1. q \in Seq(Nodes) /\ k \in 1..Len(q) /\ NoneTwice(q)
    BY <1>2, <1>3
  <2>2. /\ Unlink(q, k) \in Seq(Nodes) /\ NoneTwice(Unlink(q, k))
        /\ Listed(Unlink(q, k)) = Listed(q) \ {q[k]}
    BY <2>1, UnlinkListed
  <2>3. f = Unlink(q, k)
    OBVIOUS
  <2> QED BY <2>2, <2>3
<1>5. Len(f) = N - 1 /\ \A i \in 1..(N - 1) : f[i] = IF i < k THEN q[i] ELSE q[i + 1]
  BY <1>1, <1>2, UnlinkPlaces
<1>6. nd2 \in [Listed(f) -> NodeRecords]
  <2>1. nd2 = [m \in Listed(f) |-> nd2[m]]
    BY <1>2, <1>4 DEF NodesUnlinked
  <2>2. ASSUME NEW m \in Listed(f) PROVE nd2[m] \in NodeRecords
    <3>1. PICK i \in 1..N : m = q[i] /\ i # k
      BY <1>1, <1>4 DEF Listed
    <3> QED BY <1>1, <3>1 DEF NodesUnlinked
  <2> QED BY <2>1, <2>2
<1>7. \A i \in 1..N : nd[q[i]].m_next = IF i = N THEN NULL ELSE q[i + 1]
  BY <1>1 DEF IsList
<1>8. \A i \in 1..N : i # k =>
        nd2[q[i]].m_next = IF i + 1 = k THEN nd[q[k]].m_next ELSE nd[q[i]].m_next
  BY <1>1 DEF NodesUnlinked
<1>9. \A i \in 1..Len(f) : nd2[f[i]].m_next = IF i = Len(f) THEN NULL ELSE f[i + 1]
  <2>1. ASSUME NEW i \in 1..(N - 1)
        PROVE  nd2[f[i]].m_next = IF i = N - 1 THEN NULL ELSE f[i + 1]
    <3>1. k \in 1..N
      BY <1>2
    <3>2. \A m \in 1..(N - 1) : f[m] = IF m < k THEN q[m] ELSE q[m + 1]
      BY <1>5
    <3> QED BY <3>1, <3>2, <1>7, <1>8, UnlinkPoints, SMTT(30)
  <2> QED BY <1>5, <2>1
<1>10. hd2 = IF Len(f) = 0 THEN NULL ELSE f[1]
  <2>1. CASE k = 1
    <3>1. hd2 = IF N = 1 THEN NULL ELSE q[2]
      BY <1>2, <1>7, <2>1
    <3>2. N # 1 => 1 \in 1..(N - 1)
      BY <1>2
    <3>3. N # 1 => f[1] = q[2]
      BY <1>5, <2>1, <3>2
    <3> QED BY <1>2, <1>5, <3>1, <3>3
  <2>2. CASE k # 1
    <3>1. 1 \in 1..(N - 1) /\ 1 < k
      BY <1>2, <2>2
    <3>2. f[1] = q[1]
      BY <1>5, <3>1
    <3>3. hd = q[1]
      BY <1>1, <1>2 DEF IsList
    <3> QED BY <1>5, <2>2, <3>1, <3>2, <3>3
  <2> QED BY <2>1, <2>2
<1>11. IsList(f, hd2, nd2)
  BY <1>4, <1>6, <1>9, <1>10 DEF IsList
<1> QED BY <1>1, <1>5, <1>11

LEMMA ListUnlinkObjects ==
  ASSUME NEW q, NEW hd, NEW nd, IsList(q, hd, nd), NEW k \in 1..Len(q),
         NEW nd2, NodesUnlinked(q, nd, k, nd2), NEW f, f = Unlink(q, k),
         NEW o, o = ObjectsOf(q, nd)
  PROVE  ObjectsOf(f, nd2) = Unlink(o, k)
<1>1. PICK N \in Nat : N = Len(q)
  BY OnList
<1>2. q \in Seq(Nodes) /\ o \in Seq(Objects) /\ Len(o) = N /\ \A i \in 1..N : o[i] = nd[q[i]].m_object
  <2>1. q \in Seq(Nodes)
    BY DEF IsList
  <2>2. /\ Len(o) = Len(q) /\ o \in Seq(Objects)
        /\ \A i \in 1..Len(q) : o[i] = nd[q[i]].m_object
    BY OnList
  <2> QED BY <1>1, <2>1, <2>2
<1>3. PICK p : p = Unlink(o, k)
  OBVIOUS
<1>4. k \in 1..N /\ k \in 1..Len(o)
  BY <1>1, <1>2
<1>5. /\ p \in Seq(Objects) /\ Len(p) = Len(o) - 1
      /\ \A i \in 1..(Len(o) - 1) : p[i] = IF i < k THEN o[i] ELSE o[i + 1]
  <2>1. o \in Seq(Objects) /\ k \in 1..Len(o)
    BY <1>2, <1>4
  <2> QED BY <1>3, <2>1, UnlinkPlaces, SMTT(30)
<1>6. Len(f) = N - 1 /\ \A i \in 1..(N - 1) : f[i] = IF i < k THEN q[i] ELSE q[i + 1]
  <2>1. Len(f) = Len(q) - 1 /\ \A i \in 1..(Len(q) - 1) : f[i] = IF i < k THEN q[i] ELSE q[i + 1]
    BY <1>2, UnlinkPlaces, SMTT(30)
  <2> QED BY <1>1, <2>1
<1>7. \A i \in 1..N : i # k => nd2[q[i]].m_object = nd[q[i]].m_object
  BY <1>1 DEF NodesUnlinked
<1>8. ASSUME NEW i \in 1..(N - 1) PROVE nd2[f[i]].m_object = p[i]
  <2>1. CASE i < k
    <3>1. i \in 1..N /\ i # k /\ f[i] = q[i] /\ p[i] = o[i]
      BY <1>2, <1>5, <1>6, <2>1
    <3> QED BY <1>2, <1>7, <3>1
  <2>2. CASE i >= k
    <3>1. PICK j \in 1..N : j = i + 1 /\ j # k
      BY <1>4, <2>2
    <3>2. f[i] = q[j] /\ p[i] = o[j]
      BY <1>2, <1>5, <1>6, <2>2, <3>1
    <3> QED BY <1>2, <1>7, <3>1, <3>2
  <2> QED BY <1>4, <2>1, <2>2
<1>9. \A i \in 1..Len(f) : nd2[f[i]].m_object = p[i]
  BY <1>6, <1>8
<1>10. Len(f) \in Nat /\ Len(p) = Len(f)
  BY <1>2, <1>4, <1>5, <1>6
<1> QED BY <1>3, <1>5, <1>9, <1>10, SameObjects
-----------------------------------------------------------------------------
\* A removal in progress has left the objects up to find_remove behind.
RemovalOn(q) ==
  remove # NULL =>
    /\ remove \in [ptr : Objects, num_elements_deleted : Nat, find_remove : Nodes \union {NULL}]
    /\ remove.find_remove # NULL =>
         \E j \in 1..Len(q) :
           q[j] = remove.find_remove /\ \A i \in 1..j : node[q[i]].m_object # remove.ptr

\* The inductive invariant: the nodes form a list, of the size that is kept.
QueueOn(q) ==
  /\ IsList(q, m_head, node) /\ Len(q) = m_size /\ m_size <= MaxSize
  /\ RemovalOn(q)
QueueInv == \E q : QueueOn(q)

\* The walk passes the nodes of the list and ends at NULL.
LEMMA WalkLeads ==
  ASSUME NEW q, QueueOn(q)
  PROVE  /\ m_size \in Nat /\ m_size <= MaxSize /\ Len(q) = m_size
         /\ \A i \in 0..m_size : Walk[i] = IF i = m_size THEN NULL ELSE q[i + 1]
<1>1. IsList(q, m_head, node) /\ Len(q) = m_size /\ m_size <= MaxSize /\ MaxSize \in Nat
  BY MaxSizeAssumption DEF QueueOn
<1>2. m_size \in Nat
  BY <1>1, OnList
<1>3. PICK T : T = {i \in 0..m_size : Walk[i] # IF i = m_size THEN NULL ELSE q[i + 1]}
  OBVIOUS
<1>4. CASE T = {}
  BY <1>1, <1>2, <1>3, <1>4
<1>5. CASE T # {}
  <2>1. PICK x \in T : \A y \in T : x <= y
    BY <1>2, <1>3, <1>5, Smallest
  <2>2. x \in 0..m_size
    BY <1>3, <2>1
  <2>3. x # 0
    <3>1. Walk[0] = m_head
      BY WalkIs
    <3>2. m_head = IF 0 = m_size THEN NULL ELSE q[0 + 1]
      BY <1>1, <1>2 DEF IsList
    <3> QED BY <1>3, <2>1, <3>1, <3>2
  <2>4. PICK y \in 0..m_size : x = y + 1 /\ y # m_size
    BY <1>2, <2>2, <2>3
  <2>5. Walk[y] = q[x]
    BY <1>2, <1>3, <2>1, <2>2, <2>4
  <2>6. Walk[x] = node[Walk[y]].m_next
    <3>1. x \in 1..MaxSize /\ x - 1 = y
      BY <1>1, <1>2, <2>2, <2>4
    <3> QED BY <3>1, WalkIs
  <2>7. node[q[x]].m_next = IF x = m_size THEN NULL ELSE q[x + 1]
    BY <1>1, <1>2, <2>2, <2>3 DEF IsList
  <2> QED BY <1>3, <2>1, <2>5, <2>6, <2>7
<1> QED BY <1>4, <1>5

LEMMA ListCounted ==
  ASSUME NEW q, NEW hd, NEW nd, IsList(q, hd, nd)
  PROVE  Cardinality(DOMAIN nd) = Len(q)
<1>1. q \in Seq(Nodes) /\ Len(q) \in Nat /\ DOMAIN nd = Listed(q) /\ NoneTwice(q)
  BY OnList DEF IsList
<1>2. q = [i \in 1..Len(q) |-> q[i]]
  BY <1>1, LenProperties
<1>3. q \in Bijection(1..Len(q), Listed(q))
  BY <1>1, <1>2 DEF Bijection, Injection, Surjection, IsInjective, Listed, NoneTwice
<1> QED BY <1>1, <1>3, FS_CountingElements DEF ExistsBijection

LEMMA ListHolds == QueueInv => ListOK
<1> SUFFICES ASSUME NEW q, QueueOn(q) PROVE ListOK
  BY DEF QueueInv
<1>1. /\ m_size \in Nat /\ Len(q) = m_size
      /\ \A i \in 0..m_size : Walk[i] = IF i = m_size THEN NULL ELSE q[i + 1]
  BY WalkLeads
<1>2. IsList(q, m_head, node)
  BY DEF QueueOn
<1>3. \A i \in 0..(m_size - 1) : i + 1 \in 1..Len(q) /\ Walk[i] = q[i + 1]
  BY <1>1
<1>4. DOMAIN node = Listed(q) /\ \A i \in 1..Len(q) : q[i] \in DOMAIN node
  BY <1>2, OnList
<1>5. \A i \in 0..(m_size - 1) : Walk[i] \in DOMAIN node
  BY <1>3, <1>4
<1>6. Walk[m_size] = NULL
  BY <1>1
<1>7. DOMAIN node = {Walk[i] : i \in 0..(m_size - 1)}
  <2>1. ASSUME NEW m \in DOMAIN node PROVE \E i \in 0..(m_size - 1) : m = Walk[i]
    <3>1. PICK k \in 1..Len(q) : m = q[k]
      BY <1>4 DEF Listed
    <3>2. PICK i \in 0..(m_size - 1) : k = i + 1
      BY <1>1
    <3> QED BY <1>3, <3>1, <3>2
  <2> QED BY <1>5, <2>1
<1>8. Cardinality(DOMAIN node) = m_size
  BY <1>1, <1>2, ListCounted
<1> QED BY <1>5, <1>6, <1>7, <1>8 DEF ListOK

\* What the specification of the queue sees.
AbstractQueue == [i \in 1..m_size |-> node[Walk[i - 1]].m_object]
AbstractRemoving ==
  IF remove = NULL THEN NULL ELSE [ptr |-> remove.ptr, count |-> remove.num_elements_deleted]

MapsTo == \A q : QueueOn(q) => AbstractQueue = ObjectsOf(q, node)

LEMMA Maps == MapsTo
<1> SUFFICES ASSUME NEW q, QueueOn(q) PROVE AbstractQueue = ObjectsOf(q, node)
  BY DEF MapsTo
<1>1. /\ m_size \in Nat /\ Len(q) = m_size
      /\ \A i \in 0..m_size : Walk[i] = IF i = m_size THEN NULL ELSE q[i + 1]
  BY WalkLeads
<1>2. ASSUME NEW i \in 1..m_size PROVE Walk[i - 1] = q[i]
  <2>1. PICK k \in 0..m_size : k = i - 1 /\ k # m_size
    BY <1>1
  <2>2. k + 1 = i
    BY <2>1
  <2> QED BY <1>1, <2>1, <2>2
<1> QED BY <1>1, <1>2, Zenon DEF AbstractQueue, ObjectsOf
LEMMA MapsAfter == MapsTo'
  BY Maps, PTL

\* What a step does to the abstract queue.
LEMMA MapsStep ==
  ASSUME NEW q, QueueOn(q), NEW f, QueueOn(f)'
  PROVE  /\ AbstractQueue = ObjectsOf(q, node) /\ AbstractQueue' = ObjectsOf(f, node')
         /\ Len(AbstractQueue) = m_size /\ AbstractQueue \in Seq(Objects)
<1>1. AbstractQueue = ObjectsOf(q, node)
  BY Maps DEF MapsTo
<1>2. AbstractQueue' = ObjectsOf(f, node')
  BY MapsAfter DEF MapsTo
<1>3. IsList(q, m_head, node) /\ Len(q) = m_size
  BY DEF QueueOn
<1>4. Len(ObjectsOf(q, node)) = m_size /\ ObjectsOf(q, node) \in Seq(Objects)
  BY <1>3, OnList
<1> QED BY <1>1, <1>2, <1>4

QueueStep == QueueInv' /\ [Promise!Next]_(Promise!queueVars)

\* A node behind another is freed and bypassed.
Bypassed(nd, a, d, nxt) == [[m \in DOMAIN nd \ {d} |-> nd[m]] EXCEPT ![a].m_next = nxt]

BypassedIs(nd, a, d, nxt, nd2) ==
  /\ nd2 = [m \in DOMAIN nd \ {d} |-> nd2[m]]
  /\ nd2[a] \in NodeRecords /\ nd2[a].m_object = nd[a].m_object /\ nd2[a].m_next = nxt
  /\ \A m \in DOMAIN nd : m # a /\ m # d => nd2[m] = nd[m]

LEMMA NextTaken ==
  ASSUME NEW nd, NEW a \in DOMAIN nd, NEW d, a # d, nd[a] \in NodeRecords,
         NEW nxt \in Nodes \union {NULL}, NEW nd2, nd2 = Bypassed(nd, a, d, nxt)
  PROVE  BypassedIs(nd, a, d, nxt, nd2)
<1>0. PICK e : e = [m \in DOMAIN nd \ {d} |-> nd[m]]
  OBVIOUS
<1>1. DOMAIN e = DOMAIN nd \ {d} /\ a \in DOMAIN e /\ e[a] = nd[a]
  BY <1>0
<1>2. nd2 = [m \in DOMAIN e |-> IF m = a THEN [e[a] EXCEPT !.m_next = nxt] ELSE e[m]]
  BY <1>0 DEF Bypassed
<1>3. DOMAIN nd2 = DOMAIN nd \ {d} /\ nd2[a] = [nd[a] EXCEPT !.m_next = nxt]
  BY <1>1, <1>2
<1>4. nd2 = [m \in DOMAIN nd \ {d} |-> nd2[m]]
  BY <1>1, <1>2
<1>5. nd2[a] \in NodeRecords /\ nd2[a].m_object = nd[a].m_object /\ nd2[a].m_next = nxt
  <2>1. PICK r : r = nd[a]
    OBVIOUS
  <2>2. [r EXCEPT !.m_next = nxt] \in NodeRecords
    BY <2>1 DEF NodeRecords
  <2>3. [r EXCEPT !.m_next = nxt].m_object = r.m_object /\ [r EXCEPT !.m_next = nxt].m_next = nxt
    BY <2>1 DEF NodeRecords
  <2> QED BY <1>3, <2>1, <2>2, <2>3
<1>6. ASSUME NEW m \in DOMAIN nd, m # a, m # d PROVE nd2[m] = nd[m]
  <2>1. m \in DOMAIN e /\ e[m] = nd[m]
    BY <1>0, <1>6
  <2> QED BY <1>2, <1>6, <2>1
<1> QED BY <1>4, <1>5, <1>6 DEF BypassedIs

\* Taking a node out of the list, wherever it is.
LEMMA TakesOne ==
  ASSUME NEW q, IsList(q, m_head, node), Len(q) = m_size, NEW k \in 1..m_size,
         k = 1 => TakeHead, k # 1 => TakeNext(q[k - 1])
  PROVE  \E f : /\ f = Unlink(q, k) /\ IsList(f, m_head', node') /\ Len(f) = m_size'
                /\ m_size' = m_size - 1
                /\ \A o : o = ObjectsOf(q, node) => ObjectsOf(f, node') = Unlink(o, k)
<1>1. PICK nd, hd, nd2, hd2, f, N :
        nd = node /\ hd = m_head /\ nd2 = node' /\ hd2 = m_head' /\ f = Unlink(q, k) /\ N = Len(q)
  OBVIOUS
<1>2. /\ N \in Nat /\ k \in 1..N /\ IsList(q, hd, nd)
      /\ \A i \in 1..N : q[i] \in DOMAIN nd /\ q[i] \in Nodes /\ nd[q[i]] \in NodeRecords
      /\ \A i, m \in 1..N : q[i] = q[m] => i = m
  BY <1>1, OnList
<1>3. /\ \A i \in 1..N : nd[q[i]].m_next = IF i = N THEN NULL ELSE q[i + 1]
      /\ N # 0 => hd = q[1]
  BY <1>1, <1>2 DEF IsList
<1>4. m_size' = m_size - 1
  BY DEF TakeHead, TakeNext
<1>5. NodesUnlinked(q, nd, k, nd2) /\ hd2 = IF k = 1 THEN nd[q[k]].m_next ELSE hd
  <2>1. CASE k = 1
    <3>1. nd2 = [m \in DOMAIN nd \ {q[1]} |-> nd[m]] /\ hd2 = nd[q[1]].m_next
      BY <1>1, <1>2, <1>3, <2>1 DEF TakeHead, free
    <3>2. \A i \in 1..N : i # 1 => q[i] \in DOMAIN nd \ {q[1]} /\ i + 1 # 1
      BY <1>2
    <3>3. \A i \in 1..N : i # 1 => nd2[q[i]] = nd[q[i]]
      BY <3>1, <3>2
    <3>4. nd2 = [m \in DOMAIN nd \ {q[1]} |-> nd2[m]]
      BY <3>1
    <3> QED BY <1>1, <1>2, <2>1, <3>1, <3>2, <3>3, <3>4 DEF NodesUnlinked
  <2>2. CASE k # 1
    <3>1. PICK j \in 1..N : k = j + 1 /\ j = k - 1
      BY <1>2, <2>2
    <3>2. nd[q[j]].m_next = q[k]
      BY <1>2, <1>3, <3>1
    <3>3. PICK x, d, nxt : x = q[j] /\ d = q[k] /\ nxt = nd[d].m_next
      OBVIOUS
    <3>4. nd2 = Bypassed(nd, x, d, nxt) /\ hd2 = hd
      <4>1. TakeNext(x)
        BY <2>2, <3>1, <3>3
      <4>2. node[x].m_next = d
        BY <1>1, <3>2, <3>3
      <4>3. node' = [free(d) EXCEPT ![x].m_next = node[d].m_next] /\ m_head' = m_head
        BY <4>1, <4>2 DEF TakeNext
      <4> QED BY <1>1, <3>3, <4>3 DEF Bypassed, free
    <3>5. /\ x \in DOMAIN nd /\ x # d /\ nd[x] \in NodeRecords /\ nd[d] \in NodeRecords
          /\ nxt \in Nodes \union {NULL}
      BY <1>2, <3>1, <3>3 DEF NodeRecords
    <3>6. /\ nd2 = [m \in DOMAIN nd \ {d} |-> nd2[m]]
          /\ nd2[x] \in NodeRecords /\ nd2[x].m_object = nd[x].m_object /\ nd2[x].m_next = nxt
          /\ \A m \in DOMAIN nd : m # x /\ m # d => nd2[m] = nd[m]
      <4>1. BypassedIs(nd, x, d, nxt, nd2)
        BY <3>4, <3>5, NextTaken
      <4> QED BY <4>1 DEF BypassedIs
    <3>7. ASSUME NEW i \in 1..N, i # k
          PROVE  /\ nd2[q[i]] \in NodeRecords
                 /\ nd2[q[i]].m_object = nd[q[i]].m_object
                 /\ nd2[q[i]].m_next = IF i + 1 = k THEN nd[q[k]].m_next ELSE nd[q[i]].m_next
      <4>1. CASE i = j
        BY <3>1, <3>3, <3>6, <4>1
      <4>2. CASE i # j
        <5>1. q[i] \in DOMAIN nd /\ q[i] # x /\ q[i] # d /\ i + 1 # k
          BY <1>2, <3>1, <3>3, <3>7, <4>2
        <5>2. nd2[q[i]] = nd[q[i]]
          BY <3>6, <5>1
        <5> QED BY <1>2, <5>1, <5>2
      <4> QED BY <4>1, <4>2
    <3>8. NodesUnlinked(q, nd, k, nd2)
      BY <1>1, <3>3, <3>6, <3>7 DEF NodesUnlinked
    <3> QED BY <2>2, <3>4, <3>8
  <2> QED BY <2>1, <2>2
<1>6. IsList(f, hd2, nd2) /\ Len(f) = N - 1
  BY <1>1, <1>2, <1>5, ListUnlink
<1>7. ASSUME NEW o, o = ObjectsOf(q, nd) PROVE ObjectsOf(f, nd2) = Unlink(o, k)
  BY <1>1, <1>2, <1>5, <1>7, ListUnlinkObjects
<1> QED BY <1>1, <1>4, <1>6, <1>7

\* Removing one at an index.
LEMMA DoesRemoveAt ==
  ASSUME NEW k \in 1..m_size, m_size \in Nat, m_size <= MaxSize, Len(AbstractQueue) = m_size,
         Ready, UNCHANGED remove,
         AbstractQueue' = Unlink(AbstractQueue, k), ret' = AbstractQueue[k]
  PROVE  Promise!Next
<1>1. PICK index : index = k - 1
  OBVIOUS
<1>2. index \in -1..MaxSize /\ index \in 0..(m_size - 1) /\ index + 1 = k
  BY <1>1, MaxSizeAssumption
<1>3. Promise!RemoveAt(index)
  BY <1>2 DEF Promise!RemoveAt, Promise!Valid, Promise!At, Promise!Unlink, Unlink, Ready,
              AbstractQueue
<1> QED BY <1>2, <1>3 DEF Promise!Next
\* A node is linked in at the head, and behind another.
Added(nd, n, x, next) ==
  [m \in DOMAIN nd \union {n} |-> IF m = n THEN [m_object |-> x, m_next |-> next] ELSE nd[m]]
AddedBehind(nd, a, n, x, next) == [Added(nd, n, x, next) EXCEPT ![a].m_next = n]
AddedIs(nd, n, x, next, nd2) ==
  /\ nd2 = [m \in DOMAIN nd \union {n} |-> nd2[m]]
  /\ nd2[n] \in NodeRecords /\ nd2[n].m_object = x /\ nd2[n].m_next = next
  /\ \A m \in DOMAIN nd : nd2[m] = nd[m]
AddedBehindIs(nd, a, n, x, next, nd2) ==
  /\ nd2 = [m \in DOMAIN nd \union {n} |-> nd2[m]]
  /\ nd2[n] \in NodeRecords /\ nd2[n].m_object = x /\ nd2[n].m_next = next
  /\ nd2[a] \in NodeRecords /\ nd2[a].m_object = nd[a].m_object /\ nd2[a].m_next = n
  /\ \A m \in DOMAIN nd : m # a => nd2[m] = nd[m]

LEMMA NodeAdded ==
  ASSUME NEW nd, NEW n \in Nodes, n \notin DOMAIN nd, NEW x \in Objects,
         NEW next \in Nodes \union {NULL}, NEW nd2, nd2 = Added(nd, n, x, next)
  PROVE  AddedIs(nd, n, x, next, nd2)
<1>1. PICK r : r = [m_object |-> x, m_next |-> next]
  OBVIOUS
<1>2. r \in NodeRecords /\ r.m_object = x /\ r.m_next = next
  BY <1>1 DEF NodeRecords
<1>3. nd2 = [m \in DOMAIN nd \union {n} |-> IF m = n THEN r ELSE nd[m]]
  BY <1>1, Zenon DEF Added
<1>4. nd2[n] = r /\ \A m \in DOMAIN nd : nd2[m] = nd[m]
  BY <1>3
<1>5. nd2 = [m \in DOMAIN nd \union {n} |-> nd2[m]]
  BY <1>3
<1> QED BY <1>2, <1>4, <1>5 DEF AddedIs

LEMMA NodeAddedBehind ==
  ASSUME NEW nd, NEW n \in Nodes, n \notin DOMAIN nd, NEW x \in Objects,
         NEW next \in Nodes \union {NULL}, NEW a \in DOMAIN nd, nd[a] \in NodeRecords,
         NEW nd2, nd2 = AddedBehind(nd, a, n, x, next)
  PROVE  AddedBehindIs(nd, a, n, x, next, nd2)
<1>1. PICK e : e = Added(nd, n, x, next)
  OBVIOUS
<1>2. AddedIs(nd, n, x, next, e)
  BY <1>1, NodeAdded
<1>3. /\ DOMAIN e = DOMAIN nd \union {n} /\ a # n
      /\ e[n] \in NodeRecords /\ e[n].m_object = x /\ e[n].m_next = next
      /\ \A m \in DOMAIN nd : e[m] = nd[m]
  BY <1>2 DEF AddedIs
<1>4. PICK r : r = nd[a]
  OBVIOUS
<1>5. nd2 = [e EXCEPT ![a] = [r EXCEPT !.m_next = n]]
  BY <1>1, <1>3, <1>4 DEF AddedBehind
<1>6. PICK r2 : r2 = [r EXCEPT !.m_next = n]
  OBVIOUS
<1>7. r2 \in NodeRecords /\ r2.m_object = r.m_object /\ r2.m_next = n
  BY <1>4, <1>6 DEF NodeRecords
<1>8. nd2 = [e EXCEPT ![a] = r2]
  BY <1>5, <1>6, Zenon
<1>9. nd2[a] = r2 /\ nd2[n] = e[n] /\ \A m \in DOMAIN nd : m # a => nd2[m] = e[m]
  BY <1>3, <1>8
<1>10. nd2 = [m \in DOMAIN nd \union {n} |-> nd2[m]]
  BY <1>3, <1>8
<1> QED BY <1>3, <1>4, <1>7, <1>9, <1>10 DEF AddedBehindIs

\* Offering at the head, and behind the j-th node.
LEMMA OffersAtHead ==
  ASSUME NEW q, NEW hd, NEW nd, IsList(q, hd, nd), NEW n \in Nodes, n \notin DOMAIN nd,
         NEW x \in Objects, NEW next, next = IF Len(q) = 0 THEN NULL ELSE hd,
         NEW nd2, nd2 = Added(nd, n, x, next)
  PROVE  NodesLinked(q, nd, n, x, 1, nd2)
<1>1. PICK N \in Nat : N = Len(q)
  BY OnList
<1>2. /\ \A i \in 1..N : q[i] \in DOMAIN nd /\ q[i] \in Nodes /\ nd[q[i]] \in NodeRecords
      /\ next = IF N = 0 THEN NULL ELSE q[1]
  BY <1>1, OnList DEF IsList
<1>3. next \in Nodes \union {NULL}
  BY <1>1, <1>2
<1>4. AddedIs(nd, n, x, next, nd2)
  BY <1>3, NodeAdded
<1>5. \A i \in 1..N : nd2[q[i]] = nd[q[i]] /\ i + 1 # 1
  BY <1>2, <1>4 DEF AddedIs
<1>6. nd2[n].m_next = IF 1 = N + 1 THEN NULL ELSE q[1]
  BY <1>1, <1>2, <1>4 DEF AddedIs
<1>7. /\ nd2 = [m \in DOMAIN nd \union {n} |-> nd2[m]]
      /\ nd2[n] \in NodeRecords /\ nd2[n].m_object = x
  BY <1>4 DEF AddedIs
<1> QED BY <1>1, <1>2, <1>5, <1>6, <1>7 DEF NodesLinked

LEMMA OffersBehind ==
  ASSUME NEW q, NEW hd, NEW nd, IsList(q, hd, nd), NEW n \in Nodes, n \notin DOMAIN nd,
         NEW x \in Objects, NEW j \in 1..Len(q), NEW next, next = nd[q[j]].m_next,
         NEW a, a = q[j], NEW nd2, nd2 = AddedBehind(nd, a, n, x, next),
         NEW k, k = j + 1
  PROVE  NodesLinked(q, nd, n, x, k, nd2)
<1>1. PICK N \in Nat : N = Len(q)
  BY OnList
<1>2. /\ \A i \in 1..N : q[i] \in DOMAIN nd /\ q[i] \in Nodes /\ nd[q[i]] \in NodeRecords
      /\ \A i, m \in 1..N : q[i] = q[m] => i = m
      /\ next = IF j = N THEN NULL ELSE q[j + 1]
  BY <1>1, OnList DEF IsList
<1>3. next \in Nodes \union {NULL}
  BY <1>1, <1>2
<1>4. a \in DOMAIN nd /\ nd[a] \in NodeRecords
  BY <1>1, <1>2
<1>6. AddedBehindIs(nd, a, n, x, next, nd2)
  BY <1>3, <1>4, NodeAddedBehind
<1>7. ASSUME NEW i \in 1..N
      PROVE  /\ nd2[q[i]] \in NodeRecords
             /\ nd2[q[i]].m_object = nd[q[i]].m_object
             /\ nd2[q[i]].m_next = IF i + 1 = k THEN n ELSE nd[q[i]].m_next
  <2>1. CASE i = j
    BY <1>4, <1>6, <2>1 DEF AddedBehindIs
  <2>2. CASE i # j
    <3>1. q[i] \in DOMAIN nd /\ q[i] # a /\ i + 1 # k
      BY <1>1, <1>2, <1>4, <2>2
    <3>2. nd2[q[i]] = nd[q[i]]
      BY <1>6, <3>1 DEF AddedBehindIs
    <3> QED BY <1>2, <3>1, <3>2
  <2> QED BY <2>1, <2>2
<1>8. nd2[n].m_next = IF k = N + 1 THEN NULL ELSE q[k]
  BY <1>1, <1>2, <1>6 DEF AddedBehindIs
<1>9. /\ nd2 = [m \in DOMAIN nd \union {n} |-> nd2[m]]
      /\ nd2[n] \in NodeRecords /\ nd2[n].m_object = x
  BY <1>6 DEF AddedBehindIs
<1> QED BY <1>1, <1>7, <1>8, <1>9 DEF NodesLinked
\* What the comparer says of x against each of the objects o.
CompareTo(x, y) == Compare[x, y]
Compared(x, o) == [i \in 1..Len(o) |-> Compare[x, o[i]]]

LEMMA ComparedIs ==
  ASSUME NEW o, Len(o) \in Nat, NEW x, NEW c, c = Compared(x, o)
  PROVE  Len(c) = Len(o) /\ \A i \in 1..Len(o) : c[i] = CompareTo(x, o[i])
<1>1. c = [i \in 1..Len(o) |-> CompareTo(x, o[i])]
  BY Zenon DEF Compared, CompareTo
<1> QED BY <1>1

LEMMA OfferPlace ==
  ASSUME NEW N \in Nat, NEW c, Len(c) = N, NEW k \in 1..(N + 1),
         \A i \in 1..(k - 1) : c[i] >= 0, k <= N => c[k] < 0
  PROVE  k \in Promise!OfferIndices(c)
BY DEF Promise!OfferIndices

\* The walk of priqueue_offer stops where the next object goes behind ptr.
LEMMA StopsWhere ==
  ASSUME NEW q, IsList(q, m_head, node), NEW ptr \in Objects, NEW c, c = Compared(ptr, ObjectsOf(q, node)),
         NEW i \in 1..Len(q)
  PROVE  Stops(ptr, q[i]) <=> (i # Len(q) => c[i + 1] < 0)
<1>1. PICK N, o : N = Len(q) /\ o = ObjectsOf(q, node)
  OBVIOUS
<1>2. /\ N \in Nat /\ Len(o) = N
      /\ \A m \in 1..N : q[m] \in Nodes /\ o[m] = node[q[m]].m_object
  BY <1>1, OnList
<1>3. \A m \in 1..N : c[m] = CompareTo(ptr, o[m])
  BY <1>1, <1>2, ComparedIs
<1>4. node[q[i]].m_next = IF i = N THEN NULL ELSE q[i + 1]
  BY <1>1 DEF IsList
<1>5. PICK a : a = node[q[i]].m_next
  OBVIOUS
<1>6. Stops(ptr, q[i]) <=> (a # NULL => CompareTo(ptr, node[a].m_object) < 0)
  BY <1>5 DEF Stops, CompareTo
<1>7. CASE i = N
  BY <1>1, <1>4, <1>5, <1>6, <1>7
<1>8. CASE i # N
  <2>1. PICK l \in 1..N : l = i + 1
    BY <1>1, <1>2, <1>8
  <2>2. a = q[l] /\ a # NULL /\ o[l] = node[a].m_object
    BY <1>2, <1>4, <1>5, <1>8, <2>1, NullAssumption
  <2>3. CompareTo(ptr, node[a].m_object) = c[l]
    BY <1>3, <2>2
  <2> QED BY <1>1, <1>6, <1>8, <2>1, <2>2, <2>3
<1> QED BY <1>7, <1>8

\* priqueue_offer links the node where Promise!OfferIndices says.
LEMMA OffersOne ==
  ASSUME NEW q, QueueOn(q), NEW ptr \in Objects, NEW n \in Nodes, priqueue_offer(ptr, n)
  PROVE  \E f : \E k \in 1..(m_size + 1) :
            /\ f = Link(q, k, n) /\ IsList(f, m_head', node') /\ Len(f) = m_size'
            /\ m_size' = m_size + 1 /\ ret' = k - 1
            /\ \A o : o = ObjectsOf(q, node) => /\ k \in Promise!OfferIndices(Compared(ptr, o))
                                               /\ ObjectsOf(f, node') = Link(o, k, ptr)
<1>1. PICK nd, hd, nd2, hd2, N, o, c :
        /\ nd = node /\ hd = m_head /\ nd2 = node' /\ hd2 = m_head' /\ N = m_size
        /\ o = ObjectsOf(q, node) /\ c = Compared(ptr, o)
  OBVIOUS
<1>2. /\ N \in Nat /\ Len(q) = N /\ IsList(q, hd, nd) /\ n \notin DOMAIN nd
      /\ m_size' = N + 1
      /\ \A i \in 0..N : Walk[i] = IF i = N THEN NULL ELSE q[i + 1]
  BY <1>1, WalkLeads DEF QueueOn, priqueue_offer
<1>3. /\ \A i \in 1..N : nd[q[i]] \in NodeRecords /\ q[i] \in DOMAIN nd /\ q[i] \in Nodes
      /\ Len(o) = N /\ o \in Seq(Objects)
      /\ \A i \in 1..N : o[i] = nd[q[i]].m_object
  <2>1. /\ \A i \in 1..Len(q) : q[i] \in DOMAIN nd /\ q[i] \in Nodes /\ nd[q[i]] \in NodeRecords
        /\ Len(ObjectsOf(q, nd)) = Len(q) /\ ObjectsOf(q, nd) \in Seq(Objects)
        /\ \A i \in 1..Len(q) : ObjectsOf(q, nd)[i] = nd[q[i]].m_object
    BY <1>2, OnList
  <2>2. o = ObjectsOf(q, nd) /\ Len(q) = N
    BY <1>1, <1>2
  <2>3. \A i \in 1..N : nd[q[i]] \in NodeRecords /\ q[i] \in DOMAIN nd /\ q[i] \in Nodes
    BY <2>1, <2>2
  <2>4. Len(o) = N /\ o \in Seq(Objects)
    BY <2>1, <2>2
  <2>5. \A i \in 1..N : o[i] = nd[q[i]].m_object
    BY <2>1, <2>2
  <2> QED BY <2>3, <2>4, <2>5
<1>4. /\ hd = IF N = 0 THEN NULL ELSE q[1]
      /\ Len(c) = N /\ \A i \in 1..N : c[i] = CompareTo(ptr, o[i]) /\ c[i] \in Int
  <2>1. hd = IF N = 0 THEN NULL ELSE q[1]
    BY <1>2 DEF IsList
  <2>2. Len(c) = N /\ \A i \in 1..N : c[i] = CompareTo(ptr, o[i])
    BY <1>1, <1>2, <1>3, ComparedIs
  <2>3. ASSUME NEW i \in 1..N PROVE CompareTo(ptr, o[i]) \in Int
    <3>1. o[i] \in Objects
      BY <1>2, <1>3, ElementOfSeq
    <3> QED BY <3>1, CompareAssumption DEF CompareTo
  <2> QED BY <2>1, <2>2, <2>3
<1>5. SUFFICES \E k \in 1..(N + 1) :
        /\ NodesLinked(q, nd, n, ptr, k, nd2) /\ hd2 = (IF k = 1 THEN n ELSE hd)
        /\ ret' = k - 1 /\ k \in Promise!OfferIndices(c)
  <2>1. PICK k \in 1..(N + 1) :
          /\ NodesLinked(q, nd, n, ptr, k, nd2) /\ hd2 = (IF k = 1 THEN n ELSE hd)
          /\ ret' = k - 1 /\ k \in Promise!OfferIndices(c)
    BY <1>5
  <2>2. PICK f : f = Link(q, k, n)
    OBVIOUS
  <2>3. k \in 1..(Len(q) + 1)
    BY <1>2
  <2>4. IsList(f, f[1], nd2) /\ Len(f) = Len(q) + 1 /\ (k # 1 => f[1] = hd) /\ (k = 1 => f[1] = n)
    BY <1>2, <2>1, <2>2, <2>3, ListLink
  <2>5. ObjectsOf(f, nd2) = Link(o, k, ptr)
    BY <1>1, <1>2, <2>1, <2>2, <2>3, ListLinkObjects
  <2>6. f[1] = hd2
    BY <2>1, <2>4
  <2> QED BY <1>1, <1>2, <2>1, <2>2, <2>4, <2>5, <2>6
<1>6. CASE /\ m_size # 0 => Compare[ptr, node[m_head].m_object] < 0
           /\ node' = new_node(n, ptr, IF m_size = 0 THEN NULL ELSE m_head)
           /\ m_head' = n
           /\ ret' = 0
  <2>1. PICK next : next = IF Len(q) = 0 THEN NULL ELSE hd
    OBVIOUS
  <2>2. nd2 = Added(nd, n, ptr, next)
    BY <1>1, <1>2, <1>6, <2>1 DEF Added, new_node
  <2>3. NodesLinked(q, nd, n, ptr, 1, nd2)
    BY <1>2, <2>1, <2>2, OffersAtHead
  <2>4. PICK k \in 1..(N + 1) : k = 1
    BY <1>2
  <2>5. 1 <= N => c[1] < 0
    <3>1. m_size # 0 => CompareTo(ptr, node[m_head].m_object) < 0
      BY <1>6 DEF CompareTo
    <3> QED BY <1>1, <1>2, <1>3, <1>4, <3>1
  <2>6. k \in Promise!OfferIndices(c)
    <3>1. \A i \in 1..(k - 1) : c[i] >= 0
      BY <2>4
    <3>2. k <= N => c[k] < 0
      BY <2>4, <2>5
    <3> QED BY <1>2, <1>4, <3>1, <3>2, OfferPlace
  <2>7. hd2 = n /\ ret' = 0
    BY <1>1, <1>6
  <2>8. NodesLinked(q, nd, n, ptr, k, nd2)
    BY <2>3, <2>4
  <2>9. hd2 = (IF k = 1 THEN n ELSE hd) /\ ret' = k - 1
    BY <2>4, <2>7
  <2> QED BY <2>6, <2>8, <2>9
<1>7. CASE /\ m_size # 0 /\ Compare[ptr, node[m_head].m_object] >= 0
           /\ \E i \in 0..(m_size - 1) :
                /\ Stops(ptr, Walk[i]) /\ \A k \in 0..(i - 1) : ~ Stops(ptr, Walk[k])
                /\ node' = [new_node(n, ptr, node[Walk[i]].m_next) EXCEPT ![Walk[i]].m_next = n]
                /\ ret' = i + 1
           /\ UNCHANGED m_head
  <2>1. PICK i \in 0..(m_size - 1) :
          /\ Stops(ptr, Walk[i]) /\ \A m \in 0..(i - 1) : ~ Stops(ptr, Walk[m])
          /\ node' = [new_node(n, ptr, node[Walk[i]].m_next) EXCEPT ![Walk[i]].m_next = n]
          /\ ret' = i + 1
    BY <1>7
  <2>2. PICK j \in 1..N : j = i + 1
    BY <1>1, <1>2
  <2>3. PICK k \in 1..(N + 1) : k = j + 1
    BY <1>2
  <2>4. PICK a, next : a = q[j] /\ next = nd[q[j]].m_next
    OBVIOUS
  <2>5. Walk[i] = a
    BY <1>1, <1>2, <2>2, <2>4
  <2>6. nd2 = AddedBehind(nd, a, n, ptr, next)
    <3>1. node' = [new_node(n, ptr, node[a].m_next) EXCEPT ![a].m_next = n]
      BY <2>1, <2>5
    <3> QED BY <1>1, <2>4, <3>1 DEF AddedBehind, Added, new_node
  <2>7. NodesLinked(q, nd, n, ptr, k, nd2)
    BY <1>2, <2>2, <2>3, <2>4, <2>6, OffersBehind
  <2>8. hd2 = hd /\ k # 1 /\ ret' = k - 1
    <3>1. m_head' = m_head /\ ret' = i + 1
      BY <1>7, <2>1, Zenon
    <3> QED BY <1>1, <2>2, <2>3, <3>1
  <2>9. \A m \in 1..N : Stops(ptr, q[m]) <=> (m # N => c[m + 1] < 0)
    BY <1>1, <1>2, StopsWhere
  <2>10. c[1] >= 0
    <3>1. CompareTo(ptr, node[m_head].m_object) >= 0 /\ m_size # 0
      BY <1>7 DEF CompareTo
    <3> QED BY <1>1, <1>2, <1>3, <1>4, <3>1
  <2>11. ASSUME NEW m \in 1..(k - 1) PROVE c[m] >= 0
    <3>1. CASE m = 1
      BY <2>10, <3>1
    <3>2. CASE m # 1
      <4>1. PICK l \in 0..(i - 1) : m = l + 2
        BY <2>2, <2>3, <3>2
      <4>2. PICK h \in 1..N : h = l + 1 /\ h + 1 = m /\ h # N
        BY <1>1, <1>2, <2>2, <2>3, <4>1
      <4>3. Walk[l] = q[h]
        BY <1>1, <1>2, <4>1, <4>2
      <4>4. ~ Stops(ptr, q[h])
        BY <2>1, <4>1, <4>3
      <4>5. ~ (c[m] < 0) /\ c[m] \in Int
        BY <1>4, <2>9, <4>2, <4>4
      <4> QED BY <4>5
    <3> QED BY <3>1, <3>2
  <2>12. k <= N => c[k] < 0
    <3>1. Stops(ptr, q[j])
      BY <2>1, <2>4, <2>5
    <3> QED BY <1>2, <2>3, <2>9, <3>1
  <2>13. k \in Promise!OfferIndices(c)
    BY <1>2, <1>4, <2>11, <2>12, OfferPlace
  <2> QED BY <2>7, <2>8, <2>13
<1> QED BY <1>6, <1>7 DEF priqueue_offer
-----------------------------------------------------------------------------
\* What the abstract queue answers, and how its actions look from here.
LEMMA Answers ==
  ASSUME NEW q, QueueOn(q)
  PROVE  /\ \A i \in 0..(m_size - 1) : node[Walk[i]].m_object = AbstractQueue[i + 1]
         /\ m_size # 0 => node[m_head].m_object = AbstractQueue[1]
         /\ m_size \in Nat /\ m_size <= MaxSize
         /\ Len(AbstractQueue) = m_size /\ AbstractQueue \in Seq(Objects)
<1>1. m_size \in Nat /\ m_size <= MaxSize /\ Len(q) = m_size /\ IsList(q, m_head, node)
  BY WalkLeads DEF QueueOn
<1>2. AbstractQueue = ObjectsOf(q, node)
  BY Maps DEF MapsTo
<1>3. Len(AbstractQueue) = m_size /\ AbstractQueue \in Seq(Objects)
  BY <1>1, <1>2, OnList
<1>4. \A i \in 1..m_size : AbstractQueue[i] = node[q[i]].m_object
  <2>1. \A i \in 1..Len(q) : ObjectsOf(q, node)[i] = node[q[i]].m_object
    BY <1>1, OnList
  <2> QED BY <1>1, <1>2, <2>1
<1>5. \A i \in 0..m_size : Walk[i] = IF i = m_size THEN NULL ELSE q[i + 1]
  BY WalkLeads
<1>6. ASSUME NEW i \in 0..(m_size - 1) PROVE node[Walk[i]].m_object = AbstractQueue[i + 1]
  BY <1>1, <1>4, <1>5
<1>7. m_size # 0 => m_head = q[1]
  BY <1>1 DEF IsList
<1> QED BY <1>1, <1>3, <1>4, <1>6, <1>7

LEMMA DoesRead ==
  ASSUME Ready, UNCHANGED remove, m_size \in Nat, Len(AbstractQueue) = m_size,
         AbstractQueue' = AbstractQueue,
         NEW index \in -1..MaxSize,
         ret' = (IF index \in 0..(m_size - 1) THEN AbstractQueue[index + 1] ELSE NULL) \/ ret' = m_size
  PROVE  Promise!Next
<1>1. Promise!Read
  BY DEF Promise!Read, Promise!Valid, Promise!At, Ready, AbstractQueue
<1> QED BY <1>1 DEF Promise!Next

LEMMA DoesOffer ==
  ASSUME Ready, UNCHANGED remove, m_size < MaxSize, Len(AbstractQueue) = m_size,
         NEW ptr \in Objects, NEW k, k \in Promise!OfferIndices(Compared(ptr, AbstractQueue)),
         AbstractQueue' = Link(AbstractQueue, k, ptr), ret' = k - 1
  PROVE  Promise!Next
<1>1. Promise!Offer(ptr)
  BY Zenon DEF Promise!Offer, Ready, AbstractQueue, Compared, Promise!Link, Link
<1> QED BY <1>1 DEF Promise!Next

\* Nothing happens to the list.
LEMMA KeepsList ==
  ASSUME NEW q, QueueOn(q), UNCHANGED <<m_size, m_head, node>>, RemovalOn(q)'
  PROVE  QueueOn(q)' /\ QueueInv' /\ AbstractQueue' = AbstractQueue
<1>1. QueueOn(q)'
  BY DEF QueueOn
<1>2. AbstractQueue' = ObjectsOf(q, node') /\ AbstractQueue = ObjectsOf(q, node)
  BY <1>1, MapsStep
<1> QED BY <1>1, <1>2 DEF QueueInv

LEMMA QueueReads ==
  ASSUME QueueInv, Ready, UNCHANGED <<m_size, m_head, node, remove>>, NEW index \in -1..MaxSize,
         \/ ret' = IF index < 0 \/ index >= m_size THEN NULL ELSE node[Walk[index]].m_object
         \/ ret' = m_size
  PROVE  QueueStep
<1>1. PICK q : QueueOn(q)
  BY DEF QueueInv
<1>2. RemovalOn(q)'
  BY DEF RemovalOn, Ready
<1>3. QueueInv' /\ AbstractQueue' = AbstractQueue
  BY <1>1, <1>2, KeepsList
<1>4. /\ \A i \in 0..(m_size - 1) : node[Walk[i]].m_object = AbstractQueue[i + 1]
      /\ m_size \in Nat /\ Len(AbstractQueue) = m_size
  BY <1>1, Answers
<1>5. MaxSize \in Nat
  BY MaxSizeAssumption
<1>6. ret' = (IF index \in 0..(m_size - 1) THEN AbstractQueue[index + 1] ELSE NULL) \/ ret' = m_size
  BY <1>4, <1>5
<1>7. Promise!Next
  BY <1>3, <1>4, <1>6, DoesRead
<1> QED BY <1>3, <1>7 DEF QueueStep

LEMMA QueueOffers ==
  ASSUME QueueInv, NEW ptr \in Objects, NEW n \in Nodes, priqueue_offer(ptr, n)
  PROVE  QueueStep
<1>1. PICK q : QueueOn(q)
  BY DEF QueueInv
<1>2. PICK f : \E k \in 1..(m_size + 1) :
            /\ f = Link(q, k, n) /\ IsList(f, m_head', node') /\ Len(f) = m_size'
            /\ m_size' = m_size + 1 /\ ret' = k - 1
            /\ \A o : o = ObjectsOf(q, node) => /\ k \in Promise!OfferIndices(Compared(ptr, o))
                                               /\ ObjectsOf(f, node') = Link(o, k, ptr)
  BY <1>1, OffersOne
<1>3. PICK k \in 1..(m_size + 1) :
            /\ IsList(f, m_head', node') /\ Len(f) = m_size'
            /\ m_size' = m_size + 1 /\ ret' = k - 1
            /\ \A o : o = ObjectsOf(q, node) => /\ k \in Promise!OfferIndices(Compared(ptr, o))
                                               /\ ObjectsOf(f, node') = Link(o, k, ptr)
  BY <1>2
<1>4. Ready /\ UNCHANGED remove /\ m_size < MaxSize
  BY DEF priqueue_offer
<1>5. m_size \in Nat /\ Len(AbstractQueue) = m_size
  BY <1>1, Answers
<1>6. QueueOn(f)'
  <2>1. RemovalOn(f)'
    BY <1>4 DEF RemovalOn, Ready
  <2>2. m_size' <= MaxSize
    BY <1>3, <1>4, <1>5, MaxSizeAssumption
  <2> QED BY <1>3, <2>1, <2>2 DEF QueueOn
<1>7. AbstractQueue = ObjectsOf(q, node) /\ AbstractQueue' = ObjectsOf(f, node')
  BY <1>1, <1>6, MapsStep
<1>8. /\ k \in Promise!OfferIndices(Compared(ptr, AbstractQueue))
      /\ AbstractQueue' = Link(AbstractQueue, k, ptr)
  BY <1>3, <1>7, Zenon
<1>9. Promise!Next
  BY <1>3, <1>4, <1>5, <1>8, DoesOffer
<1> QED BY <1>6, <1>9 DEF QueueStep, QueueInv

\* Taking a node out, seen by the abstract queue.
LEMMA TakesOff ==
  ASSUME NEW q, QueueOn(q), NEW k \in 1..m_size, k = 1 => TakeHead, k # 1 => TakeNext(q[k - 1])
  PROVE  \E f : /\ f = Unlink(q, k)
                /\ RemovalOn(f)' => QueueInv' /\ AbstractQueue' = Unlink(AbstractQueue, k)
                /\ IsList(f, m_head', node') /\ Len(f) = m_size - 1
                /\ ObjectsOf(f, node') = Unlink(AbstractQueue, k)
<1>1. IsList(q, m_head, node) /\ Len(q) = m_size /\ m_size \in Nat /\ m_size <= MaxSize
  BY WalkLeads DEF QueueOn
<1>2. PICK f : /\ f = Unlink(q, k) /\ IsList(f, m_head', node') /\ Len(f) = m_size'
               /\ m_size' = m_size - 1
               /\ \A o : o = ObjectsOf(q, node) => ObjectsOf(f, node') = Unlink(o, k)
  BY <1>1, TakesOne
<1>3. AbstractQueue = ObjectsOf(q, node)
  BY Maps DEF MapsTo
<1>4. ObjectsOf(f, node') = Unlink(AbstractQueue, k)
  BY <1>2, <1>3, Zenon
<1>5. ASSUME RemovalOn(f)' PROVE QueueInv' /\ AbstractQueue' = Unlink(AbstractQueue, k)
  <2>1. m_size' <= MaxSize
    BY <1>1, <1>2, MaxSizeAssumption
  <2>2. QueueOn(f)'
    BY <1>2, <1>5, <2>1 DEF QueueOn
  <2>3. AbstractQueue' = ObjectsOf(f, node')
    BY <2>2, MapsStep
  <2> QED BY <1>4, <2>2, <2>3 DEF QueueInv
<1> QED BY <1>2, <1>4, <1>5

LEMMA QueueTakes ==
  ASSUME NEW q, QueueOn(q), Ready, UNCHANGED remove,
         NEW k \in 1..m_size, k = 1 => TakeHead, k # 1 => TakeNext(q[k - 1]),
         ret' = AbstractQueue[k]
  PROVE  QueueStep
<1>1. PICK f : /\ f = Unlink(q, k)
               /\ RemovalOn(f)' => QueueInv' /\ AbstractQueue' = Unlink(AbstractQueue, k)
  BY TakesOff
<1>2. RemovalOn(f)'
  BY DEF RemovalOn, Ready
<1>3. m_size \in Nat /\ m_size <= MaxSize /\ Len(AbstractQueue) = m_size
  BY Answers
<1>4. Promise!Next
  BY <1>1, <1>2, <1>3, DoesRemoveAt
<1> QED BY <1>1, <1>2, <1>4 DEF QueueStep

LEMMA QueuePolls == QueueInv /\ priqueue_poll => QueueStep
<1> SUFFICES ASSUME QueueInv, priqueue_poll PROVE QueueStep
  OBVIOUS
<1>1. PICK q : QueueOn(q)
  BY DEF QueueInv
<1>2. /\ m_size \in Nat /\ m_size <= MaxSize /\ MaxSize \in Nat
      /\ m_size # 0 => node[m_head].m_object = AbstractQueue[1]
  BY <1>1, Answers, MaxSizeAssumption
<1>3. CASE m_size = 0
  <2>1. Ready /\ UNCHANGED <<m_size, m_head, node, remove>> /\ ret' = NULL
    BY <1>3 DEF priqueue_poll
  <2>2. PICK index \in -1..MaxSize : index = -1
    BY <1>2
  <2>3. ret' = IF index < 0 \/ index >= m_size THEN NULL ELSE node[Walk[index]].m_object
    BY <2>1, <2>2
  <2> QED BY <2>1, <2>3, QueueReads
<1>4. CASE m_size # 0
  <2>1. Ready /\ UNCHANGED remove /\ TakeHead /\ ret' = node[m_head].m_object
    BY <1>4 DEF priqueue_poll
  <2>2. PICK k \in 1..m_size : k = 1
    BY <1>2, <1>4
  <2>3. ret' = AbstractQueue[k]
    BY <1>2, <1>4, <2>1, <2>2
  <2> QED BY <1>1, <2>1, <2>2, <2>3, QueueTakes
<1> QED BY <1>3, <1>4

LEMMA QueueRemovesAt ==
  ASSUME QueueInv, NEW index \in -1..MaxSize, priqueue_remove_at(index)
  PROVE  QueueStep
<1>1. PICK q : QueueOn(q)
  BY DEF QueueInv
<1>2. /\ m_size \in Nat /\ m_size <= MaxSize /\ MaxSize \in Nat
      /\ m_size # 0 => node[m_head].m_object = AbstractQueue[1]
      /\ \A i \in 0..(m_size - 1) : node[Walk[i]].m_object = AbstractQueue[i + 1]
      /\ \A i \in 0..m_size : Walk[i] = IF i = m_size THEN NULL ELSE q[i + 1]
  BY <1>1, Answers, WalkLeads, MaxSizeAssumption
<1>3. Ready /\ UNCHANGED remove
  BY DEF priqueue_remove_at
<1>4. CASE (index < 0 \/ index >= m_size) /\ ret' = NULL /\ UNCHANGED <<m_size, m_head, node>>
  BY <1>3, <1>4, QueueReads
<1>5. CASE index = 0 /\ m_size > 0 /\ ret' = node[m_head].m_object /\ TakeHead
  <2>1. PICK k \in 1..m_size : k = 1
    BY <1>2, <1>5
  <2>2. ret' = AbstractQueue[k]
    BY <1>2, <1>5, <2>1
  <2> QED BY <1>1, <1>3, <1>5, <2>1, <2>2, QueueTakes
<1>6. CASE /\ index > 0 /\ index < m_size /\ ret' = node[Walk[index]].m_object
           /\ TakeNext(Walk[index - 1])
  <2>1. PICK i \in 0..m_size : i = index - 1 /\ i # m_size
    BY <1>2, <1>6
  <2>2. PICK k \in 1..m_size : k = index + 1 /\ k # 1 /\ k - 1 = i + 1
    BY <1>2, <1>6, <2>1
  <2>3. Walk[i] = q[k - 1]
    BY <1>2, <2>1, <2>2
  <2>4. TakeNext(q[k - 1])
    BY <1>6, <2>1, <2>3
  <2>5. ret' = AbstractQueue[k]
    BY <1>2, <1>6, <2>2
  <2> QED BY <1>1, <1>3, <2>2, <2>4, <2>5, QueueTakes
<1> QED BY <1>4, <1>5, <1>6 DEF priqueue_remove_at
-----------------------------------------------------------------------------
\* A call of priqueue_remove in progress, as the abstract queue sees it.
RemoveRecords == [ptr : Objects, num_elements_deleted : Nat, find_remove : Nodes \union {NULL}]

LEMMA CallSeen ==
  ASSUME NEW q, RemovalOn(q), remove # NULL
  PROVE  /\ remove \in RemoveRecords /\ AbstractRemoving # NULL
         /\ AbstractRemoving = [ptr |-> remove.ptr, count |-> remove.num_elements_deleted]
         /\ AbstractRemoving.ptr = remove.ptr /\ AbstractRemoving.count = remove.num_elements_deleted
<1>1. remove \in RemoveRecords
  BY DEF RemovalOn, RemoveRecords
<1>2. AbstractRemoving = [ptr |-> remove.ptr, count |-> remove.num_elements_deleted]
  BY DEF AbstractRemoving
<1>3. AbstractRemoving \in [ptr : Objects, count : Nat]
  BY <1>1, <1>2 DEF RemoveRecords
<1>4. AbstractRemoving # NULL
  BY <1>3, NullCallAssumption
<1> QED BY <1>1, <1>2, <1>4

\* One more removed; and the second loop at another node.
LEMMA CallCounts ==
  ASSUME remove # NULL, remove \in RemoveRecords,
         remove' = [remove EXCEPT !.num_elements_deleted = @ + 1]
  PROVE  /\ remove' # NULL /\ remove' \in RemoveRecords /\ remove'.ptr = remove.ptr
         /\ remove'.find_remove = remove.find_remove
         /\ AbstractRemoving' = [AbstractRemoving EXCEPT !.count = @ + 1]
<1>1. PICK r, r2 : r = remove /\ r2 = remove'
  OBVIOUS
<1>2. r2 = [r EXCEPT !.num_elements_deleted = @ + 1] /\ r \in RemoveRecords
  BY <1>1
<1>3. /\ r2 \in RemoveRecords /\ r2.ptr = r.ptr /\ r2.find_remove = r.find_remove
      /\ r2.num_elements_deleted = r.num_elements_deleted + 1
  BY <1>2 DEF RemoveRecords
<1>4. r2 # NULL
  BY <1>3, NullCallAssumption DEF RemoveRecords
<1>5. /\ AbstractRemoving = [ptr |-> r.ptr, count |-> r.num_elements_deleted]
      /\ AbstractRemoving' = [ptr |-> r2.ptr, count |-> r2.num_elements_deleted]
  BY <1>1, <1>4 DEF AbstractRemoving
<1>6. AbstractRemoving' = [AbstractRemoving EXCEPT !.count = @ + 1]
  BY <1>3, <1>5
<1> QED BY <1>1, <1>3, <1>4, <1>6

LEMMA CallMoves ==
  ASSUME remove # NULL, remove \in RemoveRecords, NEW n \in Nodes,
         remove' = [remove EXCEPT !.find_remove = n]
  PROVE  /\ remove' # NULL /\ remove' \in RemoveRecords /\ remove'.ptr = remove.ptr
         /\ remove'.find_remove = n
         /\ AbstractRemoving' = AbstractRemoving
<1>1. PICK r, r2 : r = remove /\ r2 = remove'
  OBVIOUS
<1>2. r2 = [r EXCEPT !.find_remove = n] /\ r \in RemoveRecords
  BY <1>1
<1>3. /\ r2 \in RemoveRecords /\ r2.ptr = r.ptr /\ r2.find_remove = n
      /\ r2.num_elements_deleted = r.num_elements_deleted
  BY <1>2 DEF RemoveRecords
<1>4. r2 # NULL
  BY <1>3, NullCallAssumption DEF RemoveRecords
<1>5. AbstractRemoving' = AbstractRemoving
  BY <1>1, <1>3, <1>4 DEF AbstractRemoving
<1> QED BY <1>1, <1>3, <1>4, <1>5

LEMMA DoesRemoveFirst ==
  ASSUME AbstractRemoving # NULL, UNCHANGED ret, m_size \in Nat, Len(AbstractQueue) = m_size,
         AbstractRemoving' = [AbstractRemoving EXCEPT !.count = @ + 1],
         NEW k \in 1..m_size, AbstractQueue[k] = AbstractRemoving.ptr,
         \A i \in 1..(k - 1) : AbstractQueue[i] # AbstractRemoving.ptr,
         AbstractQueue' = Unlink(AbstractQueue, k)
  PROVE  Promise!Next
<1>1. k \in 1..Len(AbstractQueue)
  OBVIOUS
<1>2. Promise!RemoveFirst
  BY <1>1, Zenon DEF Promise!RemoveFirst, AbstractQueue, AbstractRemoving, Promise!Unlink, Unlink
<1> QED BY <1>2 DEF Promise!Next

LEMMA DoesReturn ==
  ASSUME AbstractRemoving # NULL, AbstractRemoving' = NULL, ret' = AbstractRemoving.count,
         m_size \in Nat, Len(AbstractQueue) = m_size, AbstractQueue' = AbstractQueue,
         \A k \in 1..m_size : AbstractQueue[k] # AbstractRemoving.ptr
  PROVE  Promise!Next
<1>1. \A k \in 1..Len(AbstractQueue) : AbstractQueue[k] # AbstractRemoving.ptr
  OBVIOUS
<1>2. Promise!RemoveReturn
  BY <1>1, Zenon DEF Promise!RemoveReturn, AbstractQueue, AbstractRemoving
<1> QED BY <1>2 DEF Promise!Next

\* What the second loop knows, in terms of the objects.
LEMMA LeftBehind ==
  ASSUME NEW q, QueueOn(q), remove # NULL, remove.find_remove # NULL
  PROVE  \E j \in 1..m_size :
           /\ q[j] = remove.find_remove
           /\ \A i \in 1..j : AbstractQueue[i] # remove.ptr
<1>1. /\ m_size \in Nat /\ Len(q) = m_size /\ IsList(q, m_head, node)
      /\ AbstractQueue = ObjectsOf(q, node)
  BY WalkLeads, Maps DEF QueueOn, MapsTo
<1>2. \A i \in 1..m_size : AbstractQueue[i] = node[q[i]].m_object
  <2>1. \A i \in 1..Len(q) : ObjectsOf(q, node)[i] = node[q[i]].m_object
    BY <1>1, OnList
  <2> QED BY <1>1, <2>1
<1>3. PICK j \in 1..m_size : q[j] = remove.find_remove /\ \A i \in 1..j : node[q[i]].m_object # remove.ptr
  BY <1>1 DEF QueueOn, RemovalOn
<1> QED BY <1>1, <1>2, <1>3

LEMMA QueueRemove ==
  ASSUME QueueInv, NEW ptr \in Objects, priqueue_remove(ptr)
  PROVE  QueueStep
<1>1. PICK q : QueueOn(q)
  BY DEF QueueInv
<1>2. /\ Ready /\ UNCHANGED <<m_size, m_head, node, ret>>
      /\ remove' = [ptr |-> ptr, num_elements_deleted |-> 0, find_remove |-> NULL]
  BY DEF priqueue_remove
<1>3. remove' \in RemoveRecords /\ remove'.find_remove = NULL
  BY <1>2 DEF RemoveRecords
<1>4. remove' # NULL
  BY <1>3, NullCallAssumption DEF RemoveRecords
<1>5. RemovalOn(q)'
  BY <1>3 DEF RemovalOn, RemoveRecords
<1>6. QueueInv' /\ AbstractQueue' = AbstractQueue
  BY <1>1, <1>2, <1>5, KeepsList
<1>7. AbstractRemoving = NULL /\ AbstractRemoving' = [ptr |-> ptr, count |-> 0]
  BY <1>2, <1>4 DEF AbstractRemoving, Ready
<1>8. Promise!Remove(ptr)
  BY <1>2, <1>6, <1>7, Zenon DEF Promise!Remove, AbstractQueue, AbstractRemoving
<1>9. Promise!Next
  BY <1>8 DEF Promise!Next
<1> QED BY <1>6, <1>9 DEF QueueStep

LEMMA QueueRemovesAtHead == QueueInv /\ RemoveAtHead => QueueStep
<1> SUFFICES ASSUME QueueInv, RemoveAtHead PROVE QueueStep
  OBVIOUS
<1>1. PICK q : QueueOn(q)
  BY DEF QueueInv
<1>2. /\ remove # NULL /\ remove.find_remove = NULL /\ m_size > 0
      /\ node[m_head].m_object = remove.ptr /\ TakeHead /\ UNCHANGED ret
      /\ remove' = [remove EXCEPT !.num_elements_deleted = @ + 1]
  BY DEF RemoveAtHead, Ready
<1>3. /\ m_size \in Nat /\ Len(AbstractQueue) = m_size
      /\ m_size # 0 => node[m_head].m_object = AbstractQueue[1]
  BY <1>1, Answers
<1>4. RemovalOn(q)
  BY <1>1 DEF QueueOn
<1>5. remove \in RemoveRecords /\ AbstractRemoving # NULL /\ AbstractRemoving.ptr = remove.ptr
  BY <1>2, <1>4, CallSeen
<1>6. /\ remove' \in RemoveRecords /\ remove'.find_remove = remove.find_remove
      /\ AbstractRemoving' = [AbstractRemoving EXCEPT !.count = @ + 1]
  BY <1>2, <1>5, CallCounts
<1>7. PICK k \in 1..m_size : k = 1
  BY <1>2, <1>3
<1>8. PICK f : RemovalOn(f)' => QueueInv' /\ AbstractQueue' = Unlink(AbstractQueue, k)
  BY <1>1, <1>2, <1>7, TakesOff
<1>9. RemovalOn(f)'
  BY <1>2, <1>6 DEF RemovalOn, RemoveRecords
<1>10. AbstractQueue[k] = AbstractRemoving.ptr /\ \A i \in 1..(k - 1) : AbstractQueue[i] # AbstractRemoving.ptr
  BY <1>2, <1>3, <1>5, <1>7
<1>11. Promise!Next
  BY <1>2, <1>3, <1>5, <1>6, <1>8, <1>9, <1>10, DoesRemoveFirst
<1> QED BY <1>8, <1>9, <1>11 DEF QueueStep

\* The abstract queue does not see where the second loop is.
LEMMA QueueMoves ==
  ASSUME NEW q, QueueOn(q), remove # NULL, NEW j \in 1..m_size,
         remove' = [remove EXCEPT !.find_remove = q[j]],
         UNCHANGED <<m_size, m_head, node, ret>>,
         \A i \in 1..j : AbstractQueue[i] # remove.ptr
  PROVE  QueueStep
<1>1. /\ m_size \in Nat /\ Len(q) = m_size /\ IsList(q, m_head, node) /\ RemovalOn(q)
      /\ AbstractQueue = ObjectsOf(q, node)
  BY WalkLeads, Maps DEF QueueOn, MapsTo
<1>2. \A i \in 1..m_size : AbstractQueue[i] = node[q[i]].m_object /\ q[i] \in Nodes
  <2>1. \A i \in 1..Len(q) : ObjectsOf(q, node)[i] = node[q[i]].m_object /\ q[i] \in Nodes
    BY <1>1, OnList
  <2> QED BY <1>1, <2>1
<1>3. remove \in RemoveRecords
  BY <1>1, CallSeen
<1>4. PICK n \in Nodes : n = q[j]
  BY <1>2
<1>5. remove' = [remove EXCEPT !.find_remove = n]
  BY <1>4
<1>6. /\ remove' \in RemoveRecords /\ remove'.ptr = remove.ptr /\ remove'.find_remove = n
      /\ AbstractRemoving' = AbstractRemoving
  BY <1>3, <1>5, CallMoves
<1>7. \A i \in 1..j : node[q[i]].m_object # remove.ptr
  BY <1>1, <1>2
<1>8. RemovalOn(q)'
  <2>1. j \in 1..Len(q) /\ q[j] = remove'.find_remove
    BY <1>1, <1>4, <1>6
  <2>2. \A i \in 1..j : node'[q[i]].m_object # remove'.ptr
    BY <1>6, <1>7
  <2> QED BY <1>6, <2>1, <2>2 DEF RemovalOn, RemoveRecords
<1>9. QueueInv' /\ AbstractQueue' = AbstractQueue
  BY <1>8, KeepsList
<1>10. UNCHANGED Promise!queueVars
  BY <1>6, <1>9, Zenon DEF Promise!queueVars, AbstractQueue, AbstractRemoving
<1> QED BY <1>9, <1>10 DEF QueueStep

LEMMA QueueHeadDone == QueueInv /\ HeadDone => QueueStep
<1> SUFFICES ASSUME QueueInv, HeadDone PROVE QueueStep
  OBVIOUS
<1>1. PICK q : QueueOn(q)
  BY DEF QueueInv
<1>2. /\ remove # NULL /\ m_size > 0 /\ node[m_head].m_object # remove.ptr
      /\ remove' = [remove EXCEPT !.find_remove = m_head]
      /\ UNCHANGED <<m_size, m_head, node, ret>>
  BY DEF HeadDone, Ready
<1>3. /\ m_size \in Nat /\ Len(q) = m_size
      /\ m_size # 0 => node[m_head].m_object = AbstractQueue[1] /\ m_head = q[1]
  BY <1>1, Answers DEF QueueOn, IsList
<1>4. PICK j \in 1..m_size : j = 1
  BY <1>2, <1>3
<1>5. \A i \in 1..j : AbstractQueue[i] # remove.ptr
  BY <1>2, <1>3, <1>4
<1>6. remove' = [remove EXCEPT !.find_remove = q[j]]
  BY <1>2, <1>3, <1>4
<1> QED BY <1>1, <1>2, <1>5, <1>6, QueueMoves

LEMMA QueueRemovesBehind == QueueInv /\ RemoveBehind => QueueStep
<1> SUFFICES ASSUME QueueInv, RemoveBehind PROVE QueueStep
  OBVIOUS
<1>1. PICK q : QueueOn(q)
  BY DEF QueueInv
<1>2. remove # NULL /\ remove.find_remove # NULL /\ UNCHANGED ret
  BY DEF RemoveBehind, Ready
<1>3. PICK j \in 1..m_size : q[j] = remove.find_remove /\ \A i \in 1..j : AbstractQueue[i] # remove.ptr
  BY <1>1, <1>2, LeftBehind
<1>4. /\ m_size \in Nat /\ Len(q) = m_size /\ IsList(q, m_head, node) /\ RemovalOn(q)
      /\ AbstractQueue = ObjectsOf(q, node) /\ Len(AbstractQueue) = m_size
      /\ AbstractQueue \in Seq(Objects)
  BY <1>1, WalkLeads, Maps, Answers DEF QueueOn, MapsTo
<1>5. \A i \in 1..m_size : AbstractQueue[i] = node[q[i]].m_object
  <2>1. \A i \in 1..Len(q) : ObjectsOf(q, node)[i] = node[q[i]].m_object
    BY <1>4, OnList
  <2> QED BY <1>4, <2>1
<1>6. node[q[j]].m_next = IF j = m_size THEN NULL ELSE q[j + 1]
  BY <1>4 DEF IsList
<1>7. node[q[j]].m_next # NULL
  BY <1>3 DEF RemoveBehind
<1>8. PICK k \in 1..m_size : k = j + 1
  BY <1>4, <1>6, <1>7
<1>9. PICK next : next = node[remove.find_remove].m_next
  OBVIOUS
<1>10. next = q[k] /\ node[next].m_object = AbstractQueue[k]
  BY <1>3, <1>5, <1>6, <1>7, <1>8, <1>9
<1>11. CASE /\ node[next].m_object = remove.ptr
            /\ TakeNext(remove.find_remove)
            /\ remove' = [remove EXCEPT !.num_elements_deleted = @ + 1]
  <2>1. remove \in RemoveRecords /\ AbstractRemoving # NULL /\ AbstractRemoving.ptr = remove.ptr
    BY <1>2, <1>4, CallSeen
  <2>2. /\ remove' \in RemoveRecords /\ remove'.find_remove = remove.find_remove
        /\ remove'.ptr = remove.ptr
        /\ AbstractRemoving' = [AbstractRemoving EXCEPT !.count = @ + 1]
    BY <1>2, <1>11, <2>1, CallCounts
  <2>3. k # 1 /\ TakeNext(q[k - 1])
    BY <1>3, <1>8, <1>11
  <2>4. PICK f : /\ f = Unlink(q, k)
                 /\ RemovalOn(f)' => QueueInv' /\ AbstractQueue' = Unlink(AbstractQueue, k)
                 /\ IsList(f, m_head', node') /\ Len(f) = m_size - 1
                 /\ ObjectsOf(f, node') = Unlink(AbstractQueue, k)
    BY <1>1, <2>3, TakesOff
  <2>5. RemovalOn(f)'
    <3>1. j \in 1..Len(f)
      BY <1>4, <1>8, <2>4
    <3>2. f[j] = q[j]
      BY <1>4, <1>8, <2>4, <3>1 DEF Unlink
    <3>3. \A i \in 1..j : node'[f[i]].m_object # remove'.ptr
      <4> SUFFICES ASSUME NEW i \in 1..j PROVE node'[f[i]].m_object # remove'.ptr
        OBVIOUS
      <4>1. i \in 1..Len(f) /\ i < k /\ i \in 1..(Len(AbstractQueue) - 1)
        BY <1>4, <1>8, <2>4, <3>1
      <4>2. node'[f[i]].m_object = ObjectsOf(f, node')[i]
        BY <2>4, <4>1, OnList
      <4>3. Unlink(AbstractQueue, k)[i] = AbstractQueue[i]
        BY <4>1, Zenon DEF Unlink
      <4> QED BY <1>3, <2>2, <2>4, <4>2, <4>3
    <3> QED BY <1>3, <2>2, <3>1, <3>2, <3>3 DEF RemovalOn, RemoveRecords
  <2>6. AbstractQueue[k] = AbstractRemoving.ptr /\ \A i \in 1..(k - 1) : AbstractQueue[i] # AbstractRemoving.ptr
    BY <1>3, <1>8, <1>10, <1>11, <2>1
  <2>7. Promise!Next
    BY <1>2, <1>4, <2>1, <2>2, <2>4, <2>5, <2>6, DoesRemoveFirst
  <2> QED BY <2>4, <2>5, <2>7 DEF QueueStep
<1>12. CASE /\ node[next].m_object # remove.ptr
            /\ remove' = [remove EXCEPT !.find_remove = next]
            /\ UNCHANGED <<m_size, m_head, node>>
  <2>1. \A i \in 1..k : AbstractQueue[i] # remove.ptr
    BY <1>3, <1>8, <1>10, <1>12
  <2>2. remove' = [remove EXCEPT !.find_remove = q[k]]
    BY <1>10, <1>12
  <2> QED BY <1>1, <1>2, <1>12, <2>1, <2>2, QueueMoves
<1> QED BY <1>9, <1>11, <1>12 DEF RemoveBehind

LEMMA QueueReturns == QueueInv /\ RemoveReturn => QueueStep
<1> SUFFICES ASSUME QueueInv, RemoveReturn PROVE QueueStep
  OBVIOUS
<1>1. PICK q : QueueOn(q)
  BY DEF QueueInv
<1>2. /\ remove # NULL /\ remove' = NULL /\ ret' = remove.num_elements_deleted
      /\ UNCHANGED <<m_size, m_head, node>>
  BY DEF RemoveReturn, Ready
<1>3. /\ m_size \in Nat /\ Len(q) = m_size /\ IsList(q, m_head, node) /\ RemovalOn(q)
      /\ Len(AbstractQueue) = m_size
      /\ \A i \in 1..m_size : q[i] \in Nodes
  <2>1. /\ m_size \in Nat /\ Len(q) = m_size /\ IsList(q, m_head, node) /\ RemovalOn(q)
        /\ Len(AbstractQueue) = m_size
    BY <1>1, Answers DEF QueueOn
  <2> QED BY <2>1, OnList
<1>4. /\ AbstractRemoving # NULL /\ AbstractRemoving.ptr = remove.ptr
      /\ AbstractRemoving.count = remove.num_elements_deleted
  BY <1>2, <1>3, CallSeen
<1>5. \A i \in 1..m_size : AbstractQueue[i] # remove.ptr
  <2>1. CASE remove.find_remove = NULL
    <3>1. m_size = 0
      BY <2>1 DEF RemoveReturn
    <3> QED BY <3>1
  <2>2. CASE remove.find_remove # NULL
    <3>1. PICK j \in 1..m_size : /\ q[j] = remove.find_remove
                                 /\ \A i \in 1..j : AbstractQueue[i] # remove.ptr
      BY <1>1, <1>2, <2>2, LeftBehind
    <3>2. node[q[j]].m_next = NULL
      BY <2>2, <3>1 DEF RemoveReturn
    <3>3. node[q[j]].m_next = IF j = m_size THEN NULL ELSE q[j + 1]
      BY <1>3 DEF IsList
    <3>4. j = m_size
      <4>1. SUFFICES ASSUME j # m_size PROVE FALSE
        OBVIOUS
      <4>2. j + 1 \in 1..m_size
        BY <1>3, <4>1
      <4> QED BY <1>3, <3>2, <3>3, <4>1, <4>2, NullAssumption
    <3> QED BY <3>1, <3>4
  <2> QED BY <2>1, <2>2
<1>6. RemovalOn(q)'
  BY <1>2 DEF RemovalOn
<1>7. QueueInv' /\ AbstractQueue' = AbstractQueue
  BY <1>1, <1>2, <1>6, KeepsList
<1>8. AbstractRemoving' = NULL
  BY <1>2 DEF AbstractRemoving
<1>9. Promise!Next
  BY <1>2, <1>3, <1>4, <1>5, <1>7, <1>8, DoesReturn
<1> QED BY <1>7, <1>9 DEF QueueStep
\* The empty list.
LEMMA EmptyList ==
  ASSUME NEW nd, nd = [m \in {} |-> nd[m]]
  PROVE  IsList(<<>>, NULL, nd) /\ ObjectsOf(<<>>, nd) = <<>> /\ Len(<<>>) = 0
<1>1. PICK q : q = <<>>
  OBVIOUS
<1>2. q \in Seq(Nodes) /\ Len(q) = 0
  BY <1>1
<1>3. Listed(q) = {}
  BY <1>2 DEF Listed
<1>4. nd \in [Listed(q) -> NodeRecords]
  BY <1>3
<1>5. NoneTwice(q)
  BY <1>2 DEF NoneTwice
<1>6. IsList(q, NULL, nd)
  BY <1>2, <1>4, <1>5 DEF IsList
<1>7. ObjectsOf(q, nd) = <<>>
  <2>1. q \in Seq(Objects) /\ Len(q) \in Nat
    BY <1>1
  <2>2. \A i \in 1..Len(q) : nd[q[i]].m_object = q[i]
    BY <1>2
  <2>3. ObjectsOf(q, nd) = q
    BY <2>1, <2>2, SameObjects
  <2> QED BY <1>1, <2>3
<1> QED BY <1>1, <1>2, <1>6, <1>7

LEMMA QueueDestroys == QueueInv /\ priqueue_destroy => QueueStep
<1> SUFFICES ASSUME QueueInv, priqueue_destroy PROVE QueueStep
  OBVIOUS
<1>1. PICK q : QueueOn(q)
  BY DEF QueueInv
<1>2. /\ Ready /\ UNCHANGED <<remove, ret>> /\ m_size' = 0
      /\ m_head' = IF m_size = 0 THEN m_head ELSE node[Walk[m_size - 1]].m_next
      /\ node' = [n \in DOMAIN node \ {Walk[i] : i \in 0..(m_size - 1)} |-> node[n]]
  BY DEF priqueue_destroy
<1>3. /\ m_size \in Nat /\ m_size <= MaxSize /\ MaxSize \in Nat
      /\ m_size = 0 => m_head = NULL
  BY <1>1, WalkLeads, MaxSizeAssumption DEF QueueOn, IsList
<1>4. DOMAIN node = {Walk[i] : i \in 0..(m_size - 1)} /\ Walk[m_size] = NULL
  BY ListHolds DEF ListOK
<1>5. node' = [n \in {} |-> node'[n]]
  BY <1>2, <1>4
<1>6. m_head' = NULL
  <2>1. CASE m_size = 0
    BY <1>2, <1>3, <2>1
  <2>2. CASE m_size # 0
    <3>1. m_size \in 1..MaxSize
      BY <1>3, <2>2
    <3>2. Walk[m_size] = node[Walk[m_size - 1]].m_next
      BY <3>1, WalkIs
    <3> QED BY <1>2, <1>4, <2>2, <3>2
  <2> QED BY <2>1, <2>2
<1>7. PICK nd, f : nd = node' /\ f = <<>>
  OBVIOUS
<1>8. nd = [m \in {} |-> nd[m]]
  BY <1>5, <1>7
<1>9. IsList(f, NULL, nd) /\ ObjectsOf(f, nd) = <<>> /\ Len(f) = 0
  BY <1>7, <1>8, EmptyList
<1>10. QueueOn(f)'
  <2>1. RemovalOn(f)'
    BY <1>2 DEF RemovalOn, Ready
  <2>2. IsList(f, m_head', node')
    BY <1>6, <1>7, <1>9
  <2> QED BY <1>2, <1>3, <1>9, <2>1, <2>2 DEF QueueOn
<1>11. AbstractQueue' = <<>>
  <2>1. AbstractQueue' = ObjectsOf(f, node')
    BY <1>1, <1>10, MapsStep
  <2> QED BY <1>7, <1>9, <2>1
<1>12. Promise!Destroy
  BY <1>2, <1>11, Zenon DEF Promise!Destroy, AbstractQueue, AbstractRemoving, Ready
<1>13. Promise!Next
  BY <1>12 DEF Promise!Next
<1> QED BY <1>10, <1>13 DEF QueueStep, QueueInv

LEMMA QueueRests == QueueInv /\ UNCHANGED queueVars => QueueStep
<1> SUFFICES ASSUME QueueInv, UNCHANGED queueVars PROVE QueueStep
  OBVIOUS
<1>1. PICK q : QueueOn(q)
  BY DEF QueueInv
<1>2. UNCHANGED <<m_size, m_head, node, remove, ret>>
  BY DEF queueVars
<1>3. RemovalOn(q)'
  BY <1>1, <1>2 DEF QueueOn, RemovalOn
<1>4. QueueInv' /\ AbstractQueue' = AbstractQueue
  BY <1>1, <1>2, <1>3, KeepsList
<1>5. UNCHANGED Promise!queueVars
  BY <1>2, <1>4, Zenon DEF Promise!queueVars, AbstractQueue
<1> QED BY <1>4, <1>5 DEF QueueStep

\* It holds when the queue is made, and every call keeps it and looks like a
\* call of the abstract queue, or like nothing.
LEMMA QueueInit == priqueue_init => QueueInv /\ Promise!Init
<1> SUFFICES ASSUME priqueue_init PROVE QueueInv /\ Promise!Init
  OBVIOUS
<1>1. m_size = 0 /\ m_head = NULL /\ node = [n \in {} |-> NULL] /\ remove = NULL /\ ret = NULL
  BY DEF priqueue_init
<1>2. PICK nd, f : nd = node /\ f = <<>>
  OBVIOUS
<1>3. nd = [m \in {} |-> nd[m]]
  BY <1>1, <1>2
<1>4. IsList(f, NULL, nd) /\ ObjectsOf(f, nd) = <<>> /\ Len(f) = 0
  BY <1>2, <1>3, EmptyList
<1>5. QueueOn(f)
  <2>1. RemovalOn(f)
    BY <1>1 DEF RemovalOn
  <2> QED BY <1>1, <1>2, <1>4, <2>1, MaxSizeAssumption DEF QueueOn
<1>6. AbstractQueue = <<>>
  <2>1. AbstractQueue = ObjectsOf(f, node)
    BY <1>5, Maps DEF MapsTo
  <2> QED BY <1>2, <1>4, <2>1
<1>7. Promise!Init
  BY <1>1, <1>6, Zenon DEF Promise!Init, AbstractQueue
<1> QED BY <1>5, <1>7 DEF QueueInv

LEMMA QueueSteps == QueueInv /\ [QueueNext]_queueVars => QueueStep
<1> SUFFICES ASSUME QueueInv, [QueueNext]_queueVars PROVE QueueStep
  OBVIOUS
<1>1. ASSUME NEW ptr \in Objects, NEW n \in Nodes, priqueue_offer(ptr, n) PROVE QueueStep
  BY <1>1, QueueOffers
<1>2. ASSUME NEW ptr \in Objects, priqueue_remove(ptr) PROVE QueueStep
  BY <1>2, QueueRemove
<1>3. ASSUME NEW index \in -1..MaxSize, priqueue_at(index) PROVE QueueStep
  <2>1. /\ Ready /\ UNCHANGED <<m_size, m_head, node, remove>>
        /\ ret' = IF index < 0 \/ index >= m_size THEN NULL ELSE node[Walk[index]].m_object
    BY <1>3 DEF priqueue_at
  <2> QED BY <2>1, QueueReads
<1>4. ASSUME NEW index \in -1..MaxSize, priqueue_remove_at(index) PROVE QueueStep
  BY <1>4, QueueRemovesAt
<1>5. PICK q : QueueOn(q)
  BY DEF QueueInv
<1>6. m_size \in Nat /\ m_size <= MaxSize /\ MaxSize \in Nat
  BY <1>5, Answers, MaxSizeAssumption
<1>7. ASSUME priqueue_peek PROVE QueueStep
  <2>1. /\ Ready /\ UNCHANGED <<m_size, m_head, node, remove>>
        /\ ret' = IF m_size = 0 THEN NULL ELSE node[m_head].m_object
    BY <1>7 DEF priqueue_peek
  <2>2. PICK index \in -1..MaxSize : index = 0
    BY <1>6
  <2>3. Walk[index] = m_head
    BY <2>2, WalkIs
  <2>4. ret' = IF index < 0 \/ index >= m_size THEN NULL ELSE node[Walk[index]].m_object
    BY <1>6, <2>1, <2>2, <2>3
  <2> QED BY <2>1, <2>4, QueueReads
<1>8. ASSUME priqueue_size PROVE QueueStep
  <2>1. /\ Ready /\ UNCHANGED <<m_size, m_head, node, remove>> /\ ret' = m_size
    BY <1>8 DEF priqueue_size
  <2>2. PICK index : index \in -1..MaxSize
    BY <1>6
  <2> QED BY <2>1, <2>2, QueueReads
<1>9. QED
  BY <1>1, <1>2, <1>3, <1>4, <1>7, <1>8, QueuePolls, QueueDestroys, QueueRemovesAtHead,
     QueueHeadDone, QueueRemovesBehind, QueueReturns, QueueRests DEF QueueNext, Removing

THEOREM ListAlwaysOK == QueueSpec => []ListOK
<1>1. QueueInv /\ [QueueNext]_queueVars => QueueInv'
  BY QueueSteps DEF QueueStep
<1> QED BY <1>1, QueueInit, ListHolds, PTL DEF QueueSpec

THEOREM AnswersLikeSequence == QueueSpec => Promise!Init /\ [][Promise!Next]_(Promise!queueVars)
<1>1. QueueInv /\ [QueueNext]_queueVars => QueueInv' /\ [Promise!Next]_(Promise!queueVars)
  BY QueueSteps DEF QueueStep
<1> QED BY <1>1, QueueInit, PTL DEF QueueSpec
=============================================================================
