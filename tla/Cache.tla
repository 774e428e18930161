------------------------------- MODULE Cache -------------------------------
(***************************************************************************)
(* The cache simulator, cache_simulation/C/cachesim.c: it runs a file of   *)
(* memory addresses through a cache and counts hits and misses.  cache is  *)
(* the array's memory, row after row, as RoundRobin indexes it with the    *)
(* way first and the line second.                                          *)
(***************************************************************************)
EXTENDS Integers, Sequences, FiniteSets

CONSTANTS
  BlockSize_Nbr, Lines_Nbr, Tag_Nbr,  \* bytes of a block, lines, tags
  CacheAssociativity,
  Short,     \* the addresses below it are those of fewer than four bytes
  MaxTrace   \* bound: addresses in a file

ASSUME CacheAssumption ==
  /\ BlockSize_Nbr \in Nat \ {0} /\ Lines_Nbr \in Nat \ {0} /\ Tag_Nbr \in Nat \ {0}
  /\ CacheAssociativity \in Nat \ {0} /\ Short \in Nat \ {0} /\ MaxTrace \in Nat

VARIABLES
  cache,         \* the blocks, each with valid, tag and line
  hits, misses,
  limit,         \* addresses processed
  eof,           \* feof
  trace          \* observer: the addresses processed

cacheVars == <<cache, hits, misses, limit, eof, trace>>

Addresses == 0..(BlockSize_Nbr * Lines_Nbr * Tag_Nbr - 1)
LineNumbers == 0..(Lines_Nbr - 1)
Tags == 0..(Tag_Nbr - 1)
Blocks == [valid : {0, 1}, tag : Tags, line : LineNumbers]

ParseLineFromAddress(MyAddress) == (MyAddress \div BlockSize_Nbr) % Lines_Nbr
ParseTagFromAddress(MyAddress) == (MyAddress \div (BlockSize_Nbr * Lines_Nbr)) % Tag_Nbr

BuildCacheBlockFromTagAndLine(tag, line) == [valid |-> 1, tag |-> tag, line |-> line]

\* Where the array has cache[i][j]: with a line for j, beyond row i.
Slots == 0..(Lines_Nbr * CacheAssociativity - 1)
At(i, j) == i * CacheAssociativity + j
Holds(k, line) == cache[k].valid = 1 /\ cache[k].tag = line.tag
-----------------------------------------------------------------------------
buildCache ==
  /\ cache = [k \in Slots |-> [valid |-> 0, tag |-> 0, line |-> 0]]
  /\ hits = 0 /\ misses = 0 /\ limit = 0 /\ eof = FALSE /\ trace = <<>>

\* Mutant: the tag alone is compared.
RoundRobin_AnyValid(line, j) ==
  \/ /\ cache[At(0, j)].tag = line.tag
     /\ hits' = hits + 1
     /\ UNCHANGED <<cache, misses>>
  \/ /\ cache[At(0, j)].tag # line.tag
     /\ cache' = [cache EXCEPT ![At(0, j)] = line]
     /\ misses' = misses + 1
     /\ UNCHANGED hits

\* Both branches of the loop return, so that it never goes beyond i = 0; what
\* follows the loop is not reached and RRstate stays as it is.
RoundRobin(line, j) ==
  \/ /\ Holds(At(0, j), line)
     /\ hits' = hits + 1
     /\ UNCHANGED <<cache, misses>>
  \/ /\ ~ Holds(At(0, j), line)
     /\ cache' = [cache EXCEPT ![At(0, j)] = line]
     /\ misses' = misses + 1
     /\ UNCHANGED hits

Process(address) ==
  LET cache_Line == ParseLineFromAddress(address)
      cache_Tag == ParseTagFromAddress(address)
  IN /\ RoundRobin(BuildCacheBlockFromTagAndLine(cache_Tag, cache_Line), cache_Line)
     /\ limit' = limit + 1
     /\ trace' = Append(trace, address)

\* fread fills the buffer.
ReadAddress(address) ==
  /\ ~ eof /\ Len(trace) < MaxTrace
  /\ Process(address)
  /\ UNCHANGED eof

\* fread meets the end of the file, with some bytes of an address or none left.
\* The buffer was zeroed in the iteration before, or, in the first, was never
\* written, and is processed as an address.
ReadPastEnd ==
  /\ ~ eof /\ eof' = TRUE
  /\ \E address \in Addresses : (limit = 0 \/ address < Short) /\ Process(address)

CacheNext == (\E address \in Addresses : ReadAddress(address)) \/ ReadPastEnd

CacheSpec == buildCache /\ [][CacheNext]_cacheVars
-----------------------------------------------------------------------------
\* Properties.

SameLine(a, b) == ParseLineFromAddress(a) = ParseLineFromAddress(b)
SameTag(a, b) == ParseTagFromAddress(a) = ParseTagFromAddress(b)

\* The n-th address of t is of the block that its line saw last.
Repeats(t, n) ==
  \E k \in 1..(n - 1) :
    /\ SameLine(t[k], t[n]) /\ SameTag(t[k], t[n])
    /\ \A m \in (k + 1)..(n - 1) : ~ SameLine(t[m], t[n])
Repeated(t) == {n \in 1..Len(t) : Repeats(t, n)}

\* The statistics are those of a cache with one block a line: an address hits
\* when the last address of its line was of the same block, and each address
\* is counted once.
CountsRepeats ==
  /\ hits = Cardinality(Repeated(trace))
  /\ hits + misses = Len(trace) /\ limit = Len(trace)

\* A block that was read is in the cache unless its set was full.
EvictsWhenFull ==
  \A n \in 1..Len(trace) :
    LET j == ParseLineFromAddress(trace[n])
        ways == {At(i, j) : i \in 0..(CacheAssociativity - 1)} \intersect Slots
    IN \/ \E k \in ways : cache[k].valid = 1 /\ cache[k].tag = ParseTagFromAddress(trace[n])
       \/ \A k \in ways : cache[k].valid = 1
=============================================================================
