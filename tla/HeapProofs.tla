----------------------------- MODULE HeapProofs -----------------------------
(***************************************************************************)
(* The kernel heap hands no byte out twice, for every heap size, block     *)
(* size and set of admissible request sizes; and the loop that looks for   *)
(* free blocks finds the ones the heap is given.                           *)
(***************************************************************************)
EXTENDS Heap, HeapScan, WellFoundedInduction, TLAPS

-----------------------------------------------------------------------------
(* Arithmetic and the operators of HeapTable.                              *)

LEMMA DivMul ==
  ASSUME NEW b \in Nat, NEW k \in Nat \ {0}
  PROVE  (b * k) \div k = b
OBVIOUS

LEMMA DivBounds ==
  ASSUME NEW a \in Nat, NEW k \in Nat \ {0}
  PROVE  /\ a \div k \in Nat
         /\ (a \div k) * k <= a
         /\ a < (a \div k) * k + k
OBVIOUS

LEMMA MulMonotone ==
  ASSUME NEW a \in Int, NEW b \in Int, a <= b, NEW k \in Nat
  PROVE  a * k <= b * k
OBVIOUS

LEMMA LeastInSet ==
  ASSUME NEW S \in SUBSET Nat, S # {}
  PROVE  Least(S) \in S
<1>1. PICK x \in S : \A y \in S : ~ (<<y, x>> \in OpToRel(<, Nat))
  BY NatLessThanWellFounded, WFMin
<1>2. ASSUME NEW y \in S PROVE ~(y < x)
  BY <1>1 DEF OpToRel
<1>3. \A y \in S : x <= y
  BY <1>2
<1> QED BY <1>3 DEF Least

\* A block number survives the round trip through its address.
LEMMA BlockOfAddress ==
  ASSUME NEW b \in Blocks
  PROVE  heap_address_to_block(heap_block_to_address(b)) = b
<1>1. b \in Nat /\ BlockSize \in Nat \ {0} /\ HeapStart \in Nat
  BY HeapConfig DEF Blocks
<1>2. b * BlockSize \in Nat
  BY <1>1
<1>3. (HeapStart + b * BlockSize) - HeapStart = b * BlockSize
  BY <1>1, <1>2
<1> QED BY <1>1, <1>3, DivMul DEF heap_address_to_block, heap_block_to_address

\* The blocks of a request hold the bytes asked for.
LEMMA BlocksSuffice ==
  ASSUME NEW size \in Nat
  PROVE  /\ BlocksFor(size) \in Nat
         /\ size <= BlocksFor(size) * BlockSize
         /\ size > 0 => BlocksFor(size) > 0
<1> DEFINE q == (size + BlockSize - 1) \div BlockSize
<1>1. BlockSize \in Nat \ {0} /\ size + BlockSize - 1 \in Nat
  BY HeapConfig
<1>2. /\ q \in Nat
      /\ size + BlockSize - 1 < q * BlockSize + BlockSize
  BY <1>1, DivBounds
<1>3. BlocksFor(size) = q
  BY <1>1, <1>2, DivMul DEF BlocksFor, ALIGN_BLOCK
<1> HIDE DEF q
<1>4. size <= q * BlockSize
  BY <1>1, <1>2
<1>5. size > 0 => q > 0
  BY <1>1, <1>2, <1>4
<1> QED BY <1>2, <1>3, <1>4, <1>5

\* What the scan hands out lies in the table, and those of its blocks that
\* exist are free.
LEMMA StartBlockIsFree ==
  ASSUME NEW tab, NEW n \in Nat,
         heap_get_start_block(tab, n) >= 0
  PROVE  LET s == heap_get_start_block(tab, n) IN
           /\ s \in Blocks
           /\ \A b \in (s .. s + n - 1) \cap Blocks : IsFree(tab[b])
<1> DEFINE s == heap_get_start_block(tab, n)
<1>0. TotalBlocks \in Nat
  BY HeapConfig
<1>1. CASE n > 0 /\ Fits(tab, n) # {}
  <2>1. Fits(tab, n) \in SUBSET Nat
    BY <1>0 DEF Fits, Blocks
  <2>2. s \in Fits(tab, n)
    BY <1>1, <2>1, LeastInSet DEF heap_get_start_block
  <2> QED BY <2>2 DEF Fits, FreeRun
<1>2. CASE ~(n > 0 /\ Fits(tab, n) # {}) /\ Tails(tab) # {}
  <2>1. Tails(tab) \in SUBSET Nat
    BY <1>0 DEF Tails, Blocks
  <2>2. s \in Tails(tab)
    BY <1>2, <2>1, LeastInSet DEF heap_get_start_block
  <2> HIDE DEF s
  <2>3. s \in Blocks /\ \A b \in s .. s + (TotalBlocks - s) - 1 : IsFree(tab[b])
    BY <2>2 DEF Tails, FreeRun
  <2>4. \A b \in (s .. s + n - 1) \cap Blocks : b \in s .. s + (TotalBlocks - s) - 1
    BY <1>0, <2>3 DEF Blocks
  <2>5. s \in Blocks /\ \A b \in (s .. s + n - 1) \cap Blocks : IsFree(tab[b])
    BY <2>3, <2>4
  <2> QED BY <2>5 DEF s
<1>3. CASE ~(n > 0 /\ Fits(tab, n) # {}) /\ Tails(tab) = {}
  <2>1. s = -3
    BY <1>3 DEF heap_get_start_block, ENOMEM
  <2> QED BY <2>1
<1> QED BY <1>1, <1>2, <1>3

\* An entry is one byte, so it never says that another block follows.
LEMMA NoNext ==
  ASSUME NEW e \in 0 .. 255
  PROVE  ~HasNext(e)
<1>1. e \div 256 = 0
  OBVIOUS
<1> QED BY <1>1 DEF HasNext, HAS_NEXT

\* Hence freeing clears exactly one entry.
LEMMA FreeClearsOne ==
  ASSUME NEW tab \in [Blocks -> 0 .. 255], NEW start \in Blocks
  PROVE  heap_mark_blocks_free(tab, start) =
           [b \in Blocks |-> IF b = start THEN FREE ELSE tab[b]]
<1>1. ASSUME NEW b \in Blocks
      PROVE  (b >= start /\ \A c \in start .. b - 1 : HasNext(tab[c])) <=> b = start
  <2>1. b \in Int /\ start \in Int
    BY DEF Blocks
  <2>2. CASE b > start
    <3>1. start \in start .. b - 1
      BY <2>1, <2>2
    <3>2. ~HasNext(tab[start])
      BY NoNext
    <3> QED BY <2>1, <2>2, <3>1, <3>2
  <2>3. CASE b <= start
    BY <2>1, <2>3
  <2> QED BY <2>1, <2>2, <2>3
<1> QED BY <1>1 DEF heap_mark_blocks_free

LEMMA MarkedIsTaken ==
  ASSUME NEW tab \in [Blocks -> 0 .. 255], NEW s \in Blocks, NEW n \in Nat
  PROVE  LET new == heap_mark_blocks_taken(tab, s, n) IN
           /\ new \in [Blocks -> 0 .. 255]
           /\ \A b \in Blocks : b \in s .. s + n - 1 => ~IsFree(new[b])
           /\ \A b \in Blocks : b \notin s .. s + n - 1 => new[b] = tab[b]
<1> DEFINE new == heap_mark_blocks_taken(tab, s, n)
<1>1. /\ Entry(TAKEN + IS_FIRST + HAS_NEXT) = 129
      /\ Entry(TAKEN + IS_FIRST + 0) = 129
      /\ Entry(TAKEN + HAS_NEXT) = 1
      /\ Entry(TAKEN + 0) = 1
  BY DEF Entry, TAKEN, IS_FIRST, HAS_NEXT
<1>2. new = [b \in Blocks |-> IF b \notin s .. s + n - 1 THEN tab[b]
                              ELSE IF b = s THEN 129 ELSE 1]
  BY <1>1 DEF heap_mark_blocks_taken
<1>3. ~IsFree(129) /\ ~IsFree(1)
  BY DEF IsFree, HEAP_TYPE, FREE
<1> QED BY <1>2, <1>3

-----------------------------------------------------------------------------
(* The invariant.  LiveDisjoint is not inductive: it speaks of bytes, and  *)
(* the table knows blocks only.  BlocksDisjoint says the same of the blocks *)
(* of the table, and LiveIsTaken is why the next allocation keeps it.      *)

BlocksDisjoint ==
  \A a, b \in live : a # b => BlocksOf(a) \cap BlocksOf(b) \cap Blocks = {}

IInv == TypeOK /\ LiveIsTaken /\ BlocksDisjoint

LEMMA InitIInv == Init => IInv
BY DEF Init, IInv, TypeOK, LiveIsTaken, BlocksDisjoint, FreshTable, FREE

\* A live allocation starts at a block of the table and covers it.
LEMMA FirstBlock ==
  ASSUME Admissible, TypeOK, NEW a \in live
  PROVE  /\ First(a) \in Blocks
         /\ First(a) \in BlocksOf(a)
         /\ a.p = heap_block_to_address(First(a))
         /\ BlocksFor(a.size) \in Nat
         /\ a.size \in Nat \ {0}
         /\ a.size <= BlocksFor(a.size) * BlockSize
<1>1. a.size \in Sizes /\ a.size \in Nat \ {0}
  <2>1. a \in Allocation
    BY DEF TypeOK
  <2>2. a.size \in Sizes
    BY <2>1 DEF Allocation
  <2> QED BY <2>2, HeapConfig DEF Admissible
<1>2. PICK b \in Blocks : a.p = heap_block_to_address(b)
  BY DEF TypeOK, Allocation
<1>3. First(a) = b
  BY <1>2, BlockOfAddress DEF First
<1>4. BlocksFor(a.size) \in Nat /\ BlocksFor(a.size) > 0
  BY <1>1, BlocksSuffice
<1>5. b \in b .. b + BlocksFor(a.size) - 1
  BY <1>4 DEF Blocks
<1> QED BY <1>1, <1>2, <1>3, <1>4, <1>5, BlocksSuffice DEF BlocksOf

LEMMA MallocIInv ==
  ASSUME Admissible, IInv, NEW size \in Sizes, heap_malloc(size)
  PROVE  IInv'
<1> DEFINE n     == BlocksFor(size)
           start == heap_get_start_block(entries, n)
           new   == [p |-> heap_block_to_address(start), size |-> size]
<1>1. size \in Nat /\ n \in Nat
  BY SizesAreNaturals, BlocksSuffice
<1>2. /\ start >= 0
      /\ entries' = heap_mark_blocks_taken(entries, start, n)
      /\ live' = live \cup {new}
  BY DEF heap_malloc
<1>3. /\ start \in Blocks
      /\ \A b \in (start .. start + n - 1) \cap Blocks : IsFree(entries[b])
  BY <1>1, <1>2, StartBlockIsFree
<1>4. BlocksOf(new) = start .. start + n - 1
  BY <1>3, BlockOfAddress DEF BlocksOf, First
<1>5. new \in Allocation
  BY <1>3 DEF Allocation
<1> HIDE DEF n, start, new
<1>6. /\ entries' \in [Blocks -> 0 .. 255]
      /\ \A b \in Blocks : b \in start .. start + n - 1 => ~IsFree(entries'[b])
      /\ \A b \in Blocks : b \notin start .. start + n - 1 => entries'[b] = entries[b]
  <2>1. entries \in [Blocks -> 0 .. 255]
    BY DEF IInv, TypeOK
  <2> DEFINE tab == heap_mark_blocks_taken(entries, start, n)
  <2>2. /\ tab \in [Blocks -> 0 .. 255]
        /\ \A b \in Blocks : b \in start .. start + n - 1 => ~IsFree(tab[b])
        /\ \A b \in Blocks : b \notin start .. start + n - 1 => tab[b] = entries[b]
    BY <1>1, <1>3, <2>1, MarkedIsTaken
  <2> HIDE DEF tab
  <2>3. entries' = tab
    BY <1>2 DEF tab
  <2> QED BY <2>2, <2>3
<1>7. TypeOK'
  BY <1>2, <1>6, <1>5 DEF IInv, TypeOK
<1>8. LiveIsTaken'
  <2> SUFFICES ASSUME NEW a \in live', NEW b \in BlocksOf(a) \cap Blocks
               PROVE  ~IsFree(entries'[b])
    BY DEF LiveIsTaken, BlocksOf, First
  <2>1. CASE a = new
    BY <1>6, <1>4, <2>1
  <2>2. CASE a \in live
    BY <1>6, <2>2 DEF IInv, LiveIsTaken
  <2> QED BY <1>2, <2>1, <2>2
<1>9. BlocksDisjoint'
  <2>1. ASSUME NEW a \in live PROVE BlocksOf(a) \cap BlocksOf(new) \cap Blocks = {}
    BY <1>3, <1>4 DEF IInv, LiveIsTaken
  <2> QED BY <1>2, <2>1 DEF IInv, BlocksDisjoint, BlocksOf, First
<1> QED BY <1>7, <1>8, <1>9 DEF IInv

LEMMA FreeIInv ==
  ASSUME Admissible, IInv, NEW a \in live, kfree(a)
  PROVE  IInv'
<1>1. First(a) \in Blocks /\ First(a) \in BlocksOf(a)
  BY FirstBlock DEF IInv
<1>2. live' = live \ {a}
  BY DEF kfree
<1>3. entries' = [b \in Blocks |-> IF b = First(a) THEN FREE ELSE entries[b]]
  <2>1. a.p # NULL
    <3>1. a.p = HeapStart + First(a) * BlockSize
      BY FirstBlock DEF IInv, heap_block_to_address
    <3>2. First(a) \in Nat /\ BlockSize \in Nat /\ HeapStart \in Nat \ {0}
      BY <1>1, HeapConfig DEF Blocks
    <3>3. First(a) * BlockSize \in Nat
      BY <3>2
    <3> QED BY <3>1, <3>2, <3>3 DEF NULL
  <2>2. entries' = heap_mark_blocks_free(entries, First(a))
    BY <2>1 DEF kfree, heap_free, First
  <2> QED BY <1>1, <2>2, FreeClearsOne DEF IInv, TypeOK
<1>4. TypeOK'
  BY <1>2, <1>3 DEF IInv, TypeOK, FREE
<1>5. LiveIsTaken'
  <2> SUFFICES ASSUME NEW c \in live, c # a, NEW b \in BlocksOf(c) \cap Blocks
               PROVE  ~IsFree(entries'[b])
    BY <1>2 DEF LiveIsTaken, BlocksOf, First
  <2>1. b # First(a)
    BY <1>1 DEF IInv, BlocksDisjoint
  <2> QED BY <1>3, <2>1 DEF IInv, LiveIsTaken
<1>6. BlocksDisjoint'
  BY <1>2 DEF IInv, BlocksDisjoint, BlocksOf, First
<1> QED BY <1>4, <1>5, <1>6 DEF IInv

\* A failed kzalloc() clears less than the table's address.
LEMMA ClearMisses ==
  ASSUME Admissible, TypeOK, NEW size \in Sizes
  PROVE  ClearLowMemory(entries, size) = entries
<1>1. ASSUME NEW b \in Blocks PROVE ~(TableAddress + b < size)
  BY HeapConfig DEF Admissible, Blocks
<1> QED BY <1>1 DEF ClearLowMemory, TypeOK

LEMMA StutterIInv == IInv /\ UNCHANGED vars => IInv'
BY DEF vars, IInv, TypeOK, LiveIsTaken, BlocksDisjoint, BlocksOf, First

LEMMA NextIInv ==
  ASSUME Admissible, IInv, [Next]_vars
  PROVE  IInv'
<1>1. ASSUME NEW size \in Sizes, kmalloc(size) PROVE IInv'
  BY <1>1, MallocIInv, StutterIInv DEF kmalloc
<1>2. ASSUME NEW size \in Sizes, kzalloc(size) PROVE IInv'
  <2>1. CASE heap_malloc(size)
    BY <2>1, MallocIInv
  <2>2. CASE entries' = ClearLowMemory(entries, size) /\ UNCHANGED live
    BY <2>2, ClearMisses, StutterIInv DEF IInv, vars
  <2> QED BY <1>2, <2>1, <2>2 DEF kzalloc
<1>3. ASSUME NEW a \in live, kfree(a) PROVE IInv'
  BY <1>3, FreeIInv
<1> QED BY <1>1, <1>2, <1>3, StutterIInv DEF Next

-----------------------------------------------------------------------------
(* What follows from the invariant.                                        *)

\* Two allocations that share a byte share the first block of one of them.
LEMMA BlocksImplyBytes ==
  ASSUME Admissible, IInv
  PROVE  LiveDisjoint
<1>1. ASSUME NEW a \in live, NEW b \in live, a # b, First(a) <= First(b)
      PROVE  a.p + a.size <= b.p
  <2> DEFINE n == BlocksFor(a.size)
  <2>1. /\ First(a) \in Blocks /\ First(b) \in Blocks
        /\ First(b) \in BlocksOf(b)
        /\ a.p = heap_block_to_address(First(a))
        /\ b.p = heap_block_to_address(First(b))
        /\ n \in Nat /\ a.size \in Nat
        /\ a.size <= n * BlockSize
    BY FirstBlock DEF IInv
  <2>2. First(b) \notin First(a) .. First(a) + n - 1
    BY <1>1, <2>1 DEF IInv, BlocksDisjoint, BlocksOf
  <2> HIDE DEF n
  <2>3. First(a) \in Nat /\ First(b) \in Nat /\ BlockSize \in Nat /\ HeapStart \in Nat
    BY <2>1, HeapConfig DEF Blocks
  <2>4. First(a) + n <= First(b)
    BY <1>1, <2>1, <2>2, <2>3
  <2>5. (First(a) + n) * BlockSize <= First(b) * BlockSize
    BY <2>1, <2>3, <2>4, MulMonotone
  <2>6. First(a) * BlockSize + n * BlockSize <= First(b) * BlockSize
    BY <2>1, <2>3, <2>5
  <2> QED BY <2>1, <2>3, <2>6 DEF heap_block_to_address
<1>2. ASSUME NEW a \in live
      PROVE  a.p \in Nat /\ a.size \in Nat /\ First(a) \in Int
  <2>1. First(a) \in Nat /\ BlockSize \in Nat /\ HeapStart \in Nat
    BY FirstBlock, HeapConfig DEF IInv, Blocks
  <2>2. First(a) * BlockSize \in Nat
    BY <2>1
  <2> QED BY <2>1, <2>2, FirstBlock DEF IInv, heap_block_to_address
<1> SUFFICES ASSUME NEW a \in live, NEW b \in live, a # b
             PROVE  (a.p .. a.p + a.size - 1) \cap (b.p .. b.p + b.size - 1) = {}
  BY DEF LiveDisjoint
<1>3. CASE First(a) <= First(b)
  <2>1. a.p + a.size <= b.p
    BY <1>1, <1>3
  <2> QED BY <1>2, <2>1
<1>4. CASE First(b) <= First(a)
  <2>1. b.p + b.size <= a.p
    BY <1>1, <1>4
  <2> QED BY <1>2, <2>1
<1> QED BY <1>2, <1>3, <1>4

\* An entry of an allocation that stays live is not written.
LEMMA StepSparesLive ==
  ASSUME Admissible, IInv, [Next]_vars,
         NEW a \in live \cap live', NEW b \in BlocksOf(a) \cap Blocks
  PROVE  entries'[b] = entries[b]
<1>1. ~IsFree(entries[b])
  BY DEF IInv, LiveIsTaken
<1>2. ASSUME NEW size \in Sizes, heap_malloc(size) PROVE entries'[b] = entries[b]
  <2> DEFINE n     == BlocksFor(size)
             start == heap_get_start_block(entries, n)
  <2>1. n \in Nat /\ entries \in [Blocks -> 0 .. 255]
    BY SizesAreNaturals, BlocksSuffice DEF IInv, TypeOK
  <2>2. start >= 0 /\ entries' = heap_mark_blocks_taken(entries, start, n)
    BY <1>2 DEF heap_malloc
  <2>3. /\ start \in Blocks
        /\ \A c \in (start .. start + n - 1) \cap Blocks : IsFree(entries[c])
    BY <2>1, <2>2, StartBlockIsFree
  <2> HIDE DEF n, start
  <2>4. b \notin start .. start + n - 1
    BY <1>1, <2>3
  <2> QED BY <2>1, <2>2, <2>3, <2>4, MarkedIsTaken
<1>3. ASSUME NEW c \in live, kfree(c) PROVE entries'[b] = entries[b]
  <2>1. c # a /\ c \in live /\ a \in live
    BY <1>3 DEF kfree
  <2>2. First(c) \in Blocks /\ First(c) \in BlocksOf(c)
    BY <2>1, FirstBlock DEF IInv
  <2>3. b # First(c)
    BY <2>1, <2>2 DEF IInv, BlocksDisjoint
  <2>4. CASE c.p = NULL
    BY <1>3, <2>4 DEF kfree, heap_free
  <2>5. CASE c.p # NULL
    <3>1. entries' = heap_mark_blocks_free(entries, First(c))
      BY <1>3, <2>5 DEF kfree, heap_free, First
    <3>2. entries \in [Blocks -> 0 .. 255]
      BY DEF IInv, TypeOK
    <3> QED BY <2>2, <2>3, <3>1, <3>2, FreeClearsOne
  <2> QED BY <2>4, <2>5
<1>4. ASSUME NEW size \in Sizes, entries' = ClearLowMemory(entries, size)
      PROVE  entries'[b] = entries[b]
  BY <1>4, ClearMisses DEF IInv
<1> QED BY <1>2, <1>3, <1>4 DEF Next, kmalloc, kzalloc, vars

-----------------------------------------------------------------------------
(* The theorems.                                                           *)

\* Every entry stays a byte and every allocation starts at a block of the
\* table, live allocations are marked taken, and they share no block.
THEOREM HeapInvariant ==
  ASSUME Admissible
  PROVE  Spec => []IInv
<1>1. IInv /\ [Next]_vars => IInv'
  BY NextIInv
<1> QED BY InitIInv, <1>1, PTL DEF Spec

\* A block of a live allocation is never seen free by heap_get_start_block().
THEOREM HeapLiveIsTaken ==
  ASSUME Admissible
  PROVE  Spec => []LiveIsTaken
<1>1. IInv => LiveIsTaken
  BY DEF IInv
<1> QED BY <1>1, HeapInvariant, PTL

\* No two live allocations of the kernel heap share a byte.
THEOREM HeapLiveDisjoint ==
  ASSUME Admissible
  PROVE  Spec => []LiveDisjoint
<1>1. IInv => LiveDisjoint
  BY BlocksImplyBytes
<1> QED BY <1>1, HeapInvariant, PTL

\* No operation writes a table entry of an allocation that stays live.
THEOREM HeapNeighboursUntouched ==
  ASSUME Admissible
  PROVE  Spec => NeighboursUntouched
<1>1. IInv /\ [Next]_vars =>
        [\A a \in live \cap live' : \A b \in BlocksOf(a) \cap Blocks :
           entries'[b] = entries[b]]_vars
  BY StepSparesLive
<1> QED BY <1>1, HeapInvariant, PTL DEF Spec, NeighboursUntouched

\* A successful allocation is one the abstract allocator allows: its bytes are
\* nobody's, and neither is its address.
LEMMA MallocRefines ==
  ASSUME Admissible, IInv, NEW size \in Sizes, heap_malloc(size)
  PROVE  Promise!Next
<1> DEFINE n     == BlocksFor(size)
           start == heap_get_start_block(entries, n)
           p     == heap_block_to_address(start)
           new   == [p |-> p, size |-> size]
<1>1. start >= 0 /\ live' = live \cup {new}
  BY DEF heap_malloc
<1>2. size \in Nat \ {0} /\ n \in Nat /\ n > 0
  BY SizesAreNaturals, BlocksSuffice, HeapConfig DEF Admissible
<1>3. /\ start \in Blocks
      /\ \A b \in (start .. start + n - 1) \cap Blocks : IsFree(entries[b])
  BY <1>1, <1>2, StartBlockIsFree
<1>4. First(new) = start
  BY <1>3, BlockOfAddress DEF First
<1>5. p \in {heap_block_to_address(b) : b \in Blocks}
  BY <1>3
<1> HIDE DEF n, start
<1>6. IsFree(entries[start])
  <2>1. start \in start .. start + n - 1
    BY <1>2, <1>3 DEF Blocks
  <2> QED BY <1>3, <2>1
<1>7. ASSUME NEW a \in live PROVE First(a) # start
  BY <1>6, FirstBlock DEF IInv, LiveIsTaken
<1>8. ASSUME NEW a \in live PROVE a.p # p /\ a # new
  BY <1>4, <1>7 DEF First
<1>9. LiveDisjoint'
  <2>1. IInv'
    BY MallocIInv
  <2>2. (IInv => LiveDisjoint)'
    BY BlocksImplyBytes, PTL
  <2> QED BY <2>1, <2>2
<1>10. \A a \in live : a.p # p /\ Promise!Disjoint(a, new)
  BY <1>1, <1>8, <1>9 DEF LiveDisjoint, Promise!Disjoint, Promise!Bytes
<1>11. Promise!Alloc(p, size)
  BY <1>1, <1>10 DEF Promise!Alloc
<1> QED BY <1>5, <1>11 DEF Promise!Next

\* kmalloc, kzalloc and kfree implement the allocator the kernel relies on.
THEOREM HeapRefinesAllocator ==
  ASSUME Admissible
  PROVE  Spec => ImplementsAllocator
<1>1. Init => Promise!Init
  BY DEF Init, Promise!Init
<1>2. IInv /\ [Next]_vars => [Promise!Next]_live
  <2> SUFFICES ASSUME IInv, [Next]_vars PROVE [Promise!Next]_live
    OBVIOUS
  <2>1. ASSUME NEW size \in Sizes, heap_malloc(size) PROVE Promise!Next
    BY <2>1, MallocRefines
  <2>2. ASSUME NEW a \in live, kfree(a) PROVE Promise!Next
    BY <2>2 DEF kfree, Promise!Next, Promise!Free
  <2> QED BY <2>1, <2>2 DEF Next, kmalloc, kzalloc, vars
<1> QED BY <1>1, <1>2, HeapInvariant, PTL DEF Spec, ImplementsAllocator, Promise!Spec

-----------------------------------------------------------------------------
(***************************************************************************)
(* The loop of heap_get_start_block computes the operator that the heap    *)
(* uses, for every table of bytes, every size of the table and every count.*)
(***************************************************************************)

\* The least element of a set, once somebody shows which one it is.
LEMMA LeastIs ==
  ASSUME NEW S \in SUBSET Int, NEW m \in S, \A x \in S : m <= x
  PROVE  Least(S) = m
<1>1. \E k \in S : \A x \in S : k <= x
  OBVIOUS
<1>2. Least(S) \in S /\ \A x \in S : Least(S) <= x
  BY <1>1 DEF Least
<1>3. Least(S) <= m /\ m <= Least(S) /\ Least(S) \in Int /\ m \in Int
  BY <1>2
<1> QED BY <1>3

ScanInv == ScanTypeOK /\ CurrentRun /\ NothingMissed /\ ScanResult

LEMMA ScanInitInv == ScanInit => ScanInv
<1> SUFFICES ASSUME ScanInit PROVE ScanInv
  OBVIOUS
<1> USE HeapConfig
<1>0. total_blocks \in Nat
  BY ScanInputs DEF ScanInit
<1>1. ScanTypeOK
  <2>1. table \in [Blocks -> 0 .. 255]
    BY ScanInputs DEF ScanInit
  <2> QED BY <1>0, <2>1 DEF ScanInit, ScanTypeOK, Blocks
<1>2. CurrentRun
  BY DEF ScanInit, CurrentRun
<1>3. NothingMissed
  BY <1>0 DEF ScanInit, NothingMissed, Blocks
<1>4. ScanResult
  BY DEF ScanInit, ScanResult
<1> QED BY <1>1, <1>2, <1>3, <1>4 DEF ScanInv

\* At a taken block the run ends, and no run that is long enough ends with it.
LEMMA TakenBlockInv == ScanInv /\ TakenBlock => ScanInv'
<1> SUFFICES ASSUME ScanInv, TakenBlock PROVE ScanInv'
  OBVIOUS
<1> USE HeapConfig
<1> USE DEF ScanInv, TakenBlock, InLoop
<1>1. ScanTypeOK'
  BY DEF ScanTypeOK, Blocks
<1>2. CurrentRun'
  BY DEF ScanTypeOK, CurrentRun, Blocks
<1>3. NothingMissed'
  <2> SUFFICES ASSUME total_blocks > 0,
                      NEW s \in Blocks, s + total_blocks <= i + 1
               PROVE  ~FreeRun(table, s, total_blocks)
    BY DEF NothingMissed, ScanTypeOK
  <2>1. CASE s + total_blocks <= i
    BY <2>1 DEF NothingMissed
  <2>2. CASE s + total_blocks = i + 1
    <3>1. i \in s .. s + total_blocks - 1
      BY <2>2 DEF ScanTypeOK, Blocks
    <3> QED BY <3>1 DEF FreeRun
  <2> QED BY <2>1, <2>2 DEF ScanTypeOK, Blocks
<1>4. ScanResult'
  BY DEF ScanResult
<1> QED BY <1>1, <1>2, <1>3, <1>4 DEF ScanInv

\* A free block extends the run.  If the run is now long enough it is the first
\* such run; if not, no run that is long enough ends here.
LEMMA FreeBlockInv == ScanInv /\ FreeBlock => ScanInv'
<1> SUFFICES ASSUME ScanInv, FreeBlock PROVE ScanInv'
  OBVIOUS
<1> USE HeapConfig
<1> DEFINE start == IF bs = -1 THEN i ELSE bs
<1>0. /\ i \in Blocks /\ i < TotalBlocks
      /\ bc \in Nat /\ total_blocks \in Nat
      /\ pc = "scan"
      /\ IsFree(table[i])
      /\ bs' = start /\ bc' = bc + 1
      /\ table' = table /\ total_blocks' = total_blocks
  BY DEF ScanInv, ScanTypeOK, FreeBlock, InLoop, Blocks
<1>1. ScanTypeOK'
  BY DEF ScanInv, ScanTypeOK, FreeBlock, InLoop, Blocks
\* What is known of the run that now ends with block i.
<1>2. /\ start \in Blocks
      /\ start + bc = i
      /\ FreeRun(table, start, bc + 1)
      /\ start > 0 => ~IsFree(table[start - 1])
  <2>1. CASE bs = -1
    BY <1>0, <2>1 DEF ScanInv, CurrentRun, FreeRun, Blocks
  <2>2. CASE bs # -1
    <3>1. /\ bs \in Blocks /\ bs + bc = i
          /\ FreeRun(table, bs, bc)
          /\ bs > 0 => ~IsFree(table[bs - 1])
      BY <1>0, <2>2 DEF ScanInv, CurrentRun, ScanTypeOK
    <3>2. FreeRun(table, bs, bc + 1)
      BY <1>0, <3>1 DEF FreeRun, Blocks
    <3> QED BY <1>0, <2>2, <3>1, <3>2
  <2> QED BY <2>1, <2>2
\* A run that starts further left and reaches start contains a taken block.
<1>3. ASSUME NEW s \in Blocks, NEW n \in Nat, s < start, s + n > start - 1
      PROVE  ~FreeRun(table, s, n)
  <2>1. start - 1 \in s .. s + n - 1 /\ start > 0
    BY <1>2, <1>3 DEF Blocks
  <2> QED BY <1>2, <2>1 DEF FreeRun
<1>4. CASE bc + 1 = total_blocks
  <2>1. pc' = "done" /\ i' = i
    BY <1>4 DEF FreeBlock
  <2>2. CurrentRun' /\ NothingMissed'
    BY <2>1 DEF CurrentRun, NothingMissed
  <2>3. start \in Fits(table, total_blocks)
    BY <1>0, <1>2, <1>4 DEF Fits, Blocks
  <2>4. ASSUME NEW s \in Fits(table, total_blocks), s < start
        PROVE  FALSE
    <3>1. s \in Blocks /\ FreeRun(table, s, total_blocks)
      BY DEF Fits
    <3>2. CASE s + total_blocks <= i
      BY <1>0, <1>4, <3>1, <3>2 DEF ScanInv, NothingMissed
    <3>3. CASE s + total_blocks > i
      <4>1. s + total_blocks > start - 1
        BY <1>0, <1>2, <3>1, <3>3 DEF Blocks
      <4> QED BY <1>0, <1>3, <2>4, <3>1, <4>1
    <3> QED BY <1>0, <3>1, <3>2, <3>3 DEF Blocks
  <2>5. Least(Fits(table, total_blocks)) = start
    <3>1. Fits(table, total_blocks) \in SUBSET Int
      BY DEF Fits, Blocks
    <3>2. \A x \in Fits(table, total_blocks) : start <= x
      BY <1>2, <2>4, <3>1 DEF Blocks
    <3> QED BY <2>3, <3>1, <3>2, LeastIs
  <2>6. ScanResult'
    <3>1. total_blocks > 0 /\ Fits(table, total_blocks) # {}
      BY <1>0, <1>4, <2>3
    <3>2. heap_get_start_block(table, total_blocks) = start
      BY <2>5, <3>1 DEF heap_get_start_block
    <3>3. result' = start
      BY <1>0, <1>2 DEF result, Blocks
    <3> QED BY <1>0, <3>2, <3>3 DEF ScanResult
  <2> QED BY <1>1, <2>2, <2>6 DEF ScanInv
<1>5. CASE bc + 1 # total_blocks
  <2>1. pc' = "scan" /\ i' = i + 1
    BY <1>0, <1>5 DEF FreeBlock
  <2>2. CurrentRun'
    <3>0. /\ bs' \in Blocks /\ bs' + bc = i
          /\ bc \in Nat /\ bc' = bc + 1 /\ i' = i + 1
      BY <1>0, <1>2, <2>1
    <3>1. bs' # -1 /\ bc' > 0 /\ bs' + bc' = i'
      BY <3>0 DEF Blocks
    <3> QED BY <1>0, <1>2, <2>1, <3>1 DEF CurrentRun
  <2>3. NothingMissed'
    <3> SUFFICES ASSUME total_blocks > 0
                 PROVE  /\ bc + 1 < total_blocks
                        /\ \A s \in Blocks : s + total_blocks <= i + 1 =>
                             ~FreeRun(table, s, total_blocks)
      BY <1>0, <2>1 DEF NothingMissed
    <3>1. bc + 1 < total_blocks
      BY <1>0, <1>5 DEF ScanInv, NothingMissed
    <3>2. ASSUME NEW s \in Blocks, s + total_blocks <= i + 1
          PROVE  ~FreeRun(table, s, total_blocks)
      <4>1. CASE s + total_blocks <= i
        BY <1>0, <4>1 DEF ScanInv, NothingMissed
      <4>2. CASE s + total_blocks = i + 1
        <5>1. s < start /\ s + total_blocks > start - 1
          BY <1>0, <1>2, <3>1, <4>2 DEF Blocks
        <5> QED BY <1>0, <1>3, <5>1
      <4> QED BY <1>0, <3>2, <4>1, <4>2 DEF Blocks
    <3> QED BY <3>1, <3>2
  <2>4. ScanResult'
    BY <2>1 DEF ScanResult
  <2> QED BY <1>1, <2>2, <2>3, <2>4 DEF ScanInv
<1> QED BY <1>4, <1>5

\* At the end of the table no run is long enough, and the run the loop was
\* counting, if any, is the free tail.
LEMMA EndOfTableInv == ScanInv /\ EndOfTable => ScanInv'
<1> SUFFICES ASSUME ScanInv, EndOfTable PROVE ScanInv'
  OBVIOUS
<1> USE HeapConfig
<1>0. /\ pc = "scan" /\ pc' = "done" /\ i = TotalBlocks
      /\ table' = table /\ total_blocks' = total_blocks
      /\ bs' = bs /\ bc' = bc
      /\ total_blocks \in Nat /\ bc \in Nat
  BY DEF ScanInv, ScanTypeOK, EndOfTable
<1>1. ScanTypeOK' /\ CurrentRun' /\ NothingMissed'
  BY DEF ScanInv, ScanTypeOK, EndOfTable, CurrentRun, NothingMissed
<1>2. total_blocks > 0 => Fits(table, total_blocks) = {}
  BY <1>0 DEF Fits, ScanInv, NothingMissed
<1>3. Tails(table) \in SUBSET Int
  BY DEF Tails, Blocks
<1>4. CASE bs = -1
  <2>1. ~IsFree(table[TotalBlocks - 1])
    BY <1>0, <1>4 DEF ScanInv, CurrentRun
  <2>2. ASSUME NEW s \in Tails(table) PROVE FALSE
    <3>1. s \in Blocks /\ FreeRun(table, s, TotalBlocks - s)
      BY DEF Tails
    <3>2. TotalBlocks - 1 \in s .. s + (TotalBlocks - s) - 1
      BY <3>1 DEF Blocks
    <3> QED BY <2>1, <3>1, <3>2 DEF FreeRun
  <2>3. heap_get_start_block(table, total_blocks) = -ENOMEM
    BY <1>2, <2>2 DEF heap_get_start_block
  <2> QED BY <1>0, <1>1, <1>4, <2>3 DEF ScanInv, ScanResult, result
<1>5. CASE bs # -1
  <2>1. /\ bs \in Blocks
        /\ bs + bc = TotalBlocks
        /\ FreeRun(table, bs, bc)
        /\ bs > 0 => ~IsFree(table[bs - 1])
    BY <1>0, <1>5 DEF ScanInv, CurrentRun, ScanTypeOK
  <2>2. bs \in Tails(table)
    <3>1. TotalBlocks - bs = bc
      BY <1>0, <2>1 DEF Blocks
    <3> QED BY <2>1, <3>1 DEF Tails
  <2>3. ASSUME NEW s \in Tails(table), s < bs PROVE FALSE
    <3>1. s \in Blocks /\ FreeRun(table, s, TotalBlocks - s)
      BY DEF Tails
    <3>2. bs > 0 /\ bs - 1 \in s .. s + (TotalBlocks - s) - 1
      BY <2>1, <2>3, <3>1 DEF Blocks
    <3> QED BY <2>1, <3>1, <3>2 DEF FreeRun
  <2>4. \A x \in Tails(table) : bs <= x
    BY <1>3, <2>1, <2>3 DEF Blocks
  <2>5. Least(Tails(table)) = bs
    BY <1>3, <2>2, <2>4, LeastIs
  <2>6. heap_get_start_block(table, total_blocks) = bs
    BY <1>2, <2>2, <2>5 DEF heap_get_start_block
  <2> QED BY <1>0, <1>1, <1>5, <2>6 DEF ScanInv, ScanResult, result
<1> QED BY <1>4, <1>5

\* The inductive invariant of the loop: the run being counted is maximal to the
\* left, and no run that is long enough lies behind the cursor.
THEOREM ScanInvariant == ScanSpec => []ScanInv
<1>1. ScanInv /\ UNCHANGED scanVars => ScanInv'
  BY DEF scanVars, ScanInv, ScanTypeOK, CurrentRun, NothingMissed, ScanResult, result
<1>2. ScanInv /\ [ScanNext]_scanVars => ScanInv'
  BY <1>1, TakenBlockInv, FreeBlockInv, EndOfTableInv DEF ScanNext
<1> QED BY ScanInitInv, <1>2, PTL DEF ScanSpec

\* heap_get_start_block() returns the first run that is long enough, else the
\* free tail of the table, else -ENOMEM, for every table and every count.
THEOREM ScanCorrect == ScanSpec => []ScanResult
<1>1. ScanInv => ScanResult
  BY DEF ScanInv
<1> QED BY ScanInvariant, <1>1, PTL
=============================================================================
