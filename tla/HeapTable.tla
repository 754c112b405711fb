------------------------------ MODULE HeapTable ------------------------------
(***************************************************************************)
(* The block table of the kernel heap (heap.c) as operators on a table     *)
(* "tab": a function from block numbers to one-byte entries.  The module   *)
(* has no state of its own; Heap and HeapScan build on it.                 *)
(*                                                                         *)
(* Addresses are byte addresses.  A request of `size` bytes is assumed to  *)
(* be below 2^31 - BlockSize, so that ALIGN_BLOCK does not wrap.           *)
(***************************************************************************)
EXTENDS Integers

CONSTANTS
  BlockSize,    \* PHIX_HEAP_BLOCK_SIZE
  TotalBlocks,  \* table->total
  HeapStart,    \* PHIX_HEAP_SADDRESS
  TableAddress  \* PHIX_HEAP_TABLE_ADDRESS, where the table itself is stored

Blocks  == 0 .. TotalBlocks - 1
HeapEnd == HeapStart + TotalBlocks * BlockSize

NULL   == 0
ENOMEM == 3
EINVAL == 2

FREE     == 0
TAKEN    == 1
IS_FIRST == 128   \* 1 << 7
HAS_NEXT == 256   \* 1 << 8

\* An entry is an unsigned char: what is stored is the value modulo 2^8.
Entry(x)     == x % 256
HEAP_TYPE(e) == e % 16
HasNext(e)   == (e \div HAS_NEXT) % 2 = 1

ALIGN_BLOCK(x) == ((x + BlockSize - 1) \div BlockSize) * BlockSize
BlocksFor(size) == ALIGN_BLOCK(size) \div BlockSize

heap_validate_alignment(p) == p % BlockSize = 0
heap_validate_table(p, end, total) ==
  IF total # (end - p) \div BlockSize THEN -EINVAL ELSE 0

\* heap_create() fails on a misaligned region or a table of the wrong size;
\* kheap_init() then panics, so that no later operation runs.
heap_create(p, end, total) ==
  IF ~heap_validate_alignment(p) \/ ~heap_validate_alignment(end)
    THEN -EINVAL
    ELSE heap_validate_table(p, end, total)

\* The table heap_create() leaves behind.
FreshTable == [b \in Blocks |-> FREE]

ASSUME HeapConfig ==
  /\ BlockSize    \in Nat \ {0}
  /\ TotalBlocks  \in Nat \ {0}
  /\ HeapStart    \in Nat \ {0}
  /\ TableAddress \in Nat

ASSUME kheap_init == heap_create(HeapStart, HeapEnd, TotalBlocks) = 0

-----------------------------------------------------------------------------
IsFree(e) == HEAP_TYPE(e) = FREE

FreeRun(tab, s, n) == \A b \in s .. s + n - 1 : IsFree(tab[b])

\* The starts of the free runs of n blocks, and the starts from which every
\* block up to the end of the table is free.
Fits(tab, n) == {s \in Blocks : s + n <= TotalBlocks /\ FreeRun(tab, s, n)}
Tails(tab)   == {s \in Blocks : FreeRun(tab, s, TotalBlocks - s)}

Least(S) == CHOOSE m \in S : \A x \in S : m <= x

\* mutant: the scan forgets to restart at a taken block
get_start_block_never_restarts(tab, n) ==
  LET free == {b \in Blocks : IsFree(tab[b])}
  IN  IF free # {} THEN Least(free) ELSE -ENOMEM

\* mutant: the scan goes on behind the first run that fits
get_start_block_last_fit(tab, n) ==
  IF n > 0 /\ Fits(tab, n) # {}
    THEN CHOOSE s \in Fits(tab, n) : \A t \in Fits(tab, n) : t <= s
    ELSE IF Tails(tab) # {} THEN Least(Tails(tab)) ELSE -ENOMEM

(***************************************************************************)
(* The result of the scan.  When no run of n blocks exists (or n = 0, which *)
(* the counter never equals after its first increment) the loop leaves bs  *)
(* at the start of the free run that touches the end of the table, and the *)
(* function returns it although the run is too short.                      *)
(***************************************************************************)
heap_get_start_block(tab, n) ==
  IF n > 0 /\ Fits(tab, n) # {} THEN Least(Fits(tab, n))
  ELSE IF Tails(tab) # {}       THEN Least(Tails(tab))
  ELSE -ENOMEM

heap_block_to_address(b) == HeapStart + b * BlockSize
heap_address_to_block(p) == (p - HeapStart) \div BlockSize

\* mutant: the last block of the run stays free
mark_taken_stops_early(tab, start, n) ==
  [b \in Blocks |->
     IF b \notin start .. start + n - 2 THEN tab[b]
     ELSE Entry(TAKEN + (IF b = start THEN IS_FIRST ELSE 0))]

(***************************************************************************)
(* Entries start .. start+n-1 become taken.  The C loop also writes past   *)
(* the table when the run was too short; those bytes are never read back   *)
(* as entries, so only the entries of the table are kept.                  *)
(***************************************************************************)
heap_mark_blocks_taken(tab, start, n) ==
  LET end == start + n - 1
      next(more) == IF more THEN HAS_NEXT ELSE 0
  IN  [b \in Blocks |->
         IF b \notin start .. end THEN tab[b]
         ELSE IF b = start        THEN Entry(TAKEN + IS_FIRST + next(n > 1))
         ELSE                          Entry(TAKEN + next(b # end))]

\* mutant: the loop tests the entry after it has moved on
mark_free_one_too_many(tab, start) ==
  [b \in Blocks |->
     IF b >= start /\ \A c \in start .. b - 2 : HasNext(tab[c])
       THEN FREE ELSE tab[b]]

\* Entries are freed from start on, for as long as the entry before says so.
heap_mark_blocks_free(tab, start) ==
  [b \in Blocks |->
     IF b >= start /\ \A c \in start .. b - 1 : HasNext(tab[c])
       THEN FREE ELSE tab[b]]

heap_free(tab, p) ==
  IF p = NULL THEN tab ELSE heap_mark_blocks_free(tab, heap_address_to_block(p))

\* memset(NULL, 0, size): the low memory it clears may hold the table.
ClearLowMemory(tab, size) ==
  [b \in Blocks |-> IF TableAddress + b < size THEN FREE ELSE tab[b]]
=============================================================================
