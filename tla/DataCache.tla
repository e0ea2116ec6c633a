-------------------------------- MODULE DataCache --------------------------------
(***************************************************************************)
(* The processor's write-back data cache and the functions of the HAL that *)
(* flush it.  A load or store brings the whole line of its address into    *)
(* the cache; a store stays there.  I/O accesses and devices use the       *)
(* memory and leave the cache as it is.  A line may leave the cache at any *)
(* time, for an address that needs its place.                              *)
(***************************************************************************)
EXTENDS Naturals

CONSTANTS
  Size,         \* addresses
  LineSize      \* addresses in a line: ALT_CPU_DCACHE_LINE_SIZE

ASSUME CacheAssumption == Size \in Nat \ {0} /\ LineSize \in Nat \ {0}

VARIABLES
  memory,               \* what a device sees
  present, dirty,       \* lines in the cache, and those written there
  copy                  \* their contents

cacheVars == <<memory, present, dirty, copy>>

Addresses == 0..(Size - 1)
line(a) == a \div LineSize
Lines == {line(a) : a \in Addresses}

\* What a load of the processor returns.
seen(a) == IF line(a) \in present THEN copy[a] ELSE memory[a]

\* The contents once the lines of A are in the cache.
filled(A) ==
  [a \in Addresses |->
     IF line(a) \in {line(b) : b \in A} \ present THEN memory[a] ELSE copy[a]]

Load(a) ==
  /\ present' = present \cup {line(a)}
  /\ copy' = filled({a})
  /\ UNCHANGED <<memory, dirty>>

\* f gives the values stored.
Store(f) ==
  LET touched == {line(a) : a \in DOMAIN f}
  IN  /\ present' = present \cup touched
      /\ dirty' = dirty \cup touched
      /\ copy' = [a \in Addresses |-> IF a \in DOMAIN f THEN f[a]
                                      ELSE filled(DOMAIN f)[a]]
      /\ UNCHANGED memory

\* IOWR_8DIRECT, an address with bit 31 set, or a device.
StoreUncached(a, value) ==
  /\ memory' = [memory EXCEPT ![a] = value]
  /\ UNCHANGED <<present, dirty, copy>>

\* flushda and initda: what is not in the cache is left alone.
Drop(L, writesBack) ==
  /\ memory' = [a \in Addresses |->
                  IF writesBack /\ line(a) \in L \cap dirty THEN copy[a]
                  ELSE memory[a]]
  /\ present' = present \ L
  /\ dirty' = dirty \ L
  /\ copy' = [a \in Addresses |-> IF line(a) \in L THEN 0 ELSE copy[a]]

Evict == \E l \in present : Drop({l}, TRUE)

-----------------------------------------------------------------------------
\* The loop of the three flush functions: one address in each LineSize from
\* start on, and one more when start is not the first of its line.
rounds(len) == (len + LineSize - 1) \div LineSize

\* mutant: the line an unaligned region has left is forgotten
flushedLinesShort(start, len) ==
  {line(start + (k - 1) * LineSize) : k \in 1..rounds(len)}

flushedLines(start, len) ==
  LET last == IF start % LineSize = 0 THEN rounds(len) ELSE rounds(len) + 1
  IN  {line(start + (k - 1) * LineSize) : k \in 1..last}

alt_dcache_flush(start, len) == Drop(flushedLines(start, len), TRUE)
alt_dcache_flush_no_writeback(start, len) == Drop(flushedLines(start, len), FALSE)
alt_dcache_flush_all == Drop(Lines, TRUE)

CacheTypeOK(Values) ==
  /\ memory \in [Addresses -> Values] /\ copy \in [Addresses -> Values]
  /\ present \subseteq Lines /\ dirty \subseteq present

CacheInit(value) ==
  /\ memory = [a \in Addresses |-> value]
  /\ present = {} /\ dirty = {}
  /\ copy = [a \in Addresses |-> 0]
=============================================================================
