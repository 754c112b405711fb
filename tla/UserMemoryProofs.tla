-------------------------- MODULE UserMemoryProofs --------------------------
(***************************************************************************)
(* What a program may write is its own, for every size of the heap, number *)
(* of processes and records, and set of admissible sizes.                  *)
(***************************************************************************)
EXTENDS UserMemory, WellFoundedInduction, TLAPS

\* The sizes for which the heap keeps its promise, see Heap: at least one byte, and
\* no more than lies in front of the block table.
Admissible == \A size \in Sizes : size \in 1 .. TableAddress

-----------------------------------------------------------------------------
(* Arithmetic: a block and its frame.                                      *)

LEMMA DivMul ==
  ASSUME NEW b \in Nat, NEW k \in Nat \ {0}
  PROVE  (b * k) \div k = b
OBVIOUS

LEMMA DivBounds ==
  ASSUME NEW a \in Nat, NEW k \in Nat \ {0}
  PROVE  /\ a \div k \in Nat
         /\ (a \div k) * k <= a
         /\ a < (a \div k) * k + k
OBVIOUS

LEMMA DivUnique ==
  ASSUME NEW a \in Nat, NEW k \in Nat \ {0}, NEW q \in Nat, q * k <= a, a < q * k + k
  PROVE  a \div k = q
OBVIOUS

LEMMA Distributes ==
  ASSUME NEW a \in Int, NEW b \in Int, NEW k \in Int
  PROVE  (a + b) * k = a * k + b * k
OBVIOUS

LEMMA DivAdd ==
  ASSUME NEW m \in Nat, NEW a \in Nat, NEW k \in Nat \ {0}
  PROVE  (m * k + a) \div k = m + (a \div k)
<1> DEFINE q == a \div k
<1>1. q \in Nat /\ q * k <= a /\ a < q * k + k
  BY DivBounds
<1> HIDE DEF q
<1>2. (m + q) * k = m * k + q * k /\ m * k \in Nat /\ q * k \in Nat /\ m + q \in Nat
  BY <1>1, Distributes
<1>3. (m + q) * k <= m * k + a /\ m * k + a < (m + q) * k + k
  BY <1>1, <1>2
<1>4. m * k + a \in Nat
  BY <1>2
<1>5. (m * k + a) \div k = m + q
  BY <1>2, <1>3, <1>4, DivUnique
<1> QED BY <1>5 DEF q

\* The frame of the first block of the heap, which begins with a page.
FirstFrame == HeapStart \div BlockSize

LEMMA HeapAligned ==
  /\ FirstFrame \in Nat
  /\ HeapStart = FirstFrame * BlockSize
<1>1. BlockSize \in Nat \ {0} /\ HeapStart \in Nat
  BY HeapConfig
<1>2. HeapStart % BlockSize = 0
  BY kheap_init DEF heap_create, heap_validate_alignment, EINVAL
<1> QED BY <1>1, <1>2 DEF FirstFrame

LEMMA FrameOfBlock ==
  ASSUME NEW b \in Blocks
  PROVE  /\ PageOf(heap_block_to_address(b)) = FirstFrame + b
         /\ heap_block_to_address(b) = (FirstFrame + b) * BlockSize
         /\ heap_address_to_block(heap_block_to_address(b)) = b
         /\ heap_block_to_address(b) \in Nat \ {0}
<1>1. b \in Nat /\ BlockSize \in Nat \ {0} /\ HeapStart \in Nat \ {0} /\ FirstFrame \in Nat
  BY HeapConfig, HeapAligned DEF Blocks
<1>2. b * BlockSize \in Nat
  BY <1>1
<1>3. heap_block_to_address(b) = (FirstFrame + b) * BlockSize
  BY <1>1, HeapAligned, Distributes DEF heap_block_to_address
<1>4. ((FirstFrame + b) * BlockSize) \div BlockSize = FirstFrame + b
  BY <1>1, DivMul
<1>5. (HeapStart + b * BlockSize) - HeapStart = b * BlockSize
  BY <1>1, <1>2
<1>6. heap_address_to_block(heap_block_to_address(b)) = b
  BY <1>1, <1>5, DivMul DEF heap_address_to_block, heap_block_to_address
<1>7. heap_block_to_address(b) \in Nat \ {0}
  BY <1>1, <1>2 DEF heap_block_to_address
<1> QED BY <1>3, <1>4, <1>6, <1>7 DEF PageOf

LEMMA BlockOfFrame ==
  ASSUME NEW b \in Blocks
  PROVE  heap_address_to_block((FirstFrame + b) * BlockSize) = b
BY FrameOfBlock

LEMMA FramesOfHeap ==
  HeapFrames = {FirstFrame + b : b \in Blocks}
BY FrameOfBlock DEF HeapFrames

LEMMA HeapInPages ==
  ASSUME NEW b \in Blocks
  PROVE  FirstFrame + b \in Pages
<1>1. /\ b \in Nat /\ b + 1 <= TotalBlocks /\ TotalBlocks \in Nat
      /\ BlockSize \in Nat \ {0} /\ FirstFrame \in Nat /\ LastPage \in Nat
  BY HeapConfig, HeapAligned, UserMemoryConfig DEF Blocks
<1>2. (FirstFrame + TotalBlocks) * BlockSize <= (LastPage + 1) * BlockSize
  BY <1>1, HeapAligned, Distributes, UserMemoryConfig DEF HeapEnd
<1>3. FirstFrame + TotalBlocks <= LastPage + 1
  BY <1>1, <1>2
<1> QED BY <1>1, <1>3 DEF Pages

LEMMA BlocksOfSize ==
  ASSUME NEW size \in Nat \ {0}
  PROVE  /\ BlocksFor(size) \in Nat \ {0}
         /\ BlocksFor(size) = (size + BlockSize - 1) \div BlockSize
<1>1. BlockSize \in Nat \ {0} /\ size + BlockSize - 1 \in Nat /\ size + BlockSize - 1 >= BlockSize
  BY HeapConfig
<1> DEFINE q == (size + BlockSize - 1) \div BlockSize
<1>2. q \in Nat /\ size + BlockSize - 1 < q * BlockSize + BlockSize
  BY <1>1, DivBounds
<1>3. BlocksFor(size) = q
  BY <1>1, <1>2, DivMul DEF BlocksFor, ALIGN_BLOCK
<1> HIDE DEF q
<1>4. q # 0
  BY <1>1, <1>2
<1> QED BY <1>2, <1>3, <1>4 DEF q

\* An allocation ends with the page in which its last block is.
LEMMA AlignedEnd ==
  ASSUME NEW b \in Blocks, NEW size \in Nat \ {0}
  PROVE  PAGE_ALIGN(heap_block_to_address(b) + size)
           = (FirstFrame + b + BlocksFor(size)) * BlockSize
<1>1. /\ b \in Nat /\ BlockSize \in Nat \ {0} /\ FirstFrame + b \in Nat
      /\ size + BlockSize - 1 \in Nat
  BY HeapConfig, HeapAligned DEF Blocks
<1> DEFINE m == FirstFrame + b
           p == heap_block_to_address(b)
           a == size + BlockSize - 1
<1>2. p = m * BlockSize
  BY FrameOfBlock
<1>3. p + size + BlockSize - 1 = m * BlockSize + a
  <2>1. m * BlockSize \in Nat
    BY <1>1
  <2> QED BY <1>1, <1>2, <2>1
<1>4. (m * BlockSize + a) \div BlockSize = m + (a \div BlockSize)
  BY <1>1, DivAdd
<1> QED BY <1>3, <1>4, BlocksOfSize DEF PAGE_ALIGN, ALIGN_BLOCK

-----------------------------------------------------------------------------
(* What the operators of the heap and of paging do.                        *)

LEMMA LeastOf ==
  ASSUME NEW S \in SUBSET Nat, S # {}
  PROVE  Least(S) \in S /\ \A x \in S : Least(S) <= x
<1>1. PICK x \in S : \A y \in S : ~ (<<y, x>> \in OpToRel(<, Nat))
  BY NatLessThanWellFounded, WFMin
<1>2. ASSUME NEW y \in S PROVE ~(y < x)
  BY <1>1 DEF OpToRel
<1>3. \A y \in S : x <= y
  BY <1>2
<1> QED BY <1>3 DEF Least

\* What the scan hands out is in the table, and free as far as it is in the table.
LEMMA StartBlockIsFree ==
  ASSUME NEW tab, NEW n \in Nat, heap_get_start_block(tab, n) >= 0
  PROVE  /\ heap_get_start_block(tab, n) \in Blocks
         /\ \A b \in Blocks : b \in heap_get_start_block(tab, n) .. heap_get_start_block(tab, n) + n - 1
              => IsFree(tab[b])
<1> DEFINE s == heap_get_start_block(tab, n)
<1>0. TotalBlocks \in Nat /\ Blocks \subseteq Nat
  BY HeapConfig DEF Blocks
<1>1. CASE n > 0 /\ Fits(tab, n) # {}
  <2>1. Fits(tab, n) \in SUBSET Nat
    BY <1>0 DEF Fits
  <2>2. s \in Fits(tab, n)
    BY <1>1, <2>1, LeastOf DEF heap_get_start_block
  <2> QED BY <2>2 DEF Fits, FreeRun
<1>2. CASE ~(n > 0 /\ Fits(tab, n) # {}) /\ Tails(tab) # {}
  <2>1. Tails(tab) \in SUBSET Nat
    BY <1>0 DEF Tails
  <2>2. s \in Tails(tab)
    BY <1>2, <2>1, LeastOf DEF heap_get_start_block
  <2> HIDE DEF s
  <2>3. s \in Blocks /\ \A b \in s .. s + (TotalBlocks - s) - 1 : IsFree(tab[b])
    BY <2>2 DEF Tails, FreeRun
  <2>4. \A b \in Blocks : b \in s .. s + n - 1 => b \in s .. s + (TotalBlocks - s) - 1
    BY <1>0, <2>3 DEF Blocks
  <2>5. s \in Blocks /\ \A b \in Blocks : b \in s .. s + n - 1 => IsFree(tab[b])
    BY <2>3, <2>4
  <2> QED BY <2>5 DEF s
<1>3. CASE ~(n > 0 /\ Fits(tab, n) # {}) /\ Tails(tab) = {}
  BY <1>3 DEF heap_get_start_block, ENOMEM
<1> QED BY <1>1, <1>2, <1>3

\* For one block the scan takes the first one that is free.
LEMMA FirstFit ==
  ASSUME NEW tab, heap_get_start_block(tab, 1) >= 0, NEW b \in Blocks,
         b < heap_get_start_block(tab, 1)
  PROVE  ~IsFree(tab[b])
<1> DEFINE s == heap_get_start_block(tab, 1)
<1>0. TotalBlocks \in Nat /\ Blocks \subseteq Nat /\ b \in Nat /\ b + 1 <= TotalBlocks
  BY HeapConfig DEF Blocks
<1> SUFFICES ASSUME IsFree(tab[b]) PROVE FALSE
  OBVIOUS
<1>1. b \in Fits(tab, 1)
  <2>1. \A c \in b .. b + 1 - 1 : c = b
    BY <1>0
  <2> QED BY <1>0, <2>1 DEF Fits, FreeRun
<1>2. Fits(tab, 1) \in SUBSET Nat
  BY <1>0 DEF Fits
<1>3. s = Least(Fits(tab, 1))
  BY <1>1 DEF heap_get_start_block
<1>4. s \in Nat /\ s <= b
  BY <1>1, <1>2, <1>3, LeastOf
<1> QED BY <1>0, <1>4

LEMMA MarkedIsTaken ==
  ASSUME NEW tab \in [Blocks -> 0 .. 255], NEW s \in Blocks, NEW n \in Nat
  PROVE  /\ heap_mark_blocks_taken(tab, s, n) \in [Blocks -> 0 .. 255]
         /\ \A b \in Blocks : b \in s .. s + n - 1 => ~IsFree(heap_mark_blocks_taken(tab, s, n)[b])
         /\ \A b \in Blocks : b \notin s .. s + n - 1 => heap_mark_blocks_taken(tab, s, n)[b] = tab[b]
<1> DEFINE new == heap_mark_blocks_taken(tab, s, n)
<1>1. /\ Entry(TAKEN + IS_FIRST + HAS_NEXT) = 129
      /\ Entry(TAKEN + IS_FIRST + 0) = 129
      /\ Entry(TAKEN + HAS_NEXT) = 1
      /\ Entry(TAKEN + 0) = 1
  BY DEF Entry, TAKEN, IS_FIRST, HAS_NEXT
<1>2. new = [b \in Blocks |-> IF b \notin s .. s + n - 1 THEN tab[b]
                              ELSE IF b = s THEN 129 ELSE 1]
  BY <1>1 DEF heap_mark_blocks_taken
<1>3. ~IsFree(129) /\ ~IsFree(1)
  BY DEF IsFree, HEAP_TYPE, FREE
<1> QED BY <1>2, <1>3

\* An entry is one byte and never says that another block follows: free frees the
\* first block of an allocation.
LEMMA FreeClearsOne ==
  ASSUME NEW tab \in [Blocks -> 0 .. 255], NEW start \in Blocks
  PROVE  heap_free(tab, heap_block_to_address(start)) =
           [b \in Blocks |-> IF b = start THEN FREE ELSE tab[b]]
<1>0. \A e \in 0 .. 255 : ~HasNext(e)
  <2>1. ASSUME NEW e \in 0 .. 255 PROVE e \div 256 = 0
    OBVIOUS
  <2> QED BY <2>1 DEF HasNext, HAS_NEXT
<1>1. ASSUME NEW b \in Blocks
      PROVE  (b >= start /\ \A c \in start .. b - 1 : HasNext(tab[c])) <=> b = start
  <2>1. b \in Int /\ start \in Int
    BY DEF Blocks
  <2>2. CASE b > start
    <3>1. start \in start .. b - 1
      BY <2>1, <2>2
    <3>2. ~HasNext(tab[start])
      BY <1>0
    <3> QED BY <2>1, <2>2, <3>1, <3>2
  <2>3. CASE b <= start
    BY <2>1, <2>3
  <2> QED BY <2>1, <2>2, <2>3
<1>2. heap_free(tab, heap_block_to_address(start)) = heap_mark_blocks_free(tab, start)
  BY FrameOfBlock DEF heap_free, NULL
<1> QED BY <1>1, <1>2 DEF heap_mark_blocks_free

\* The memory a failed kzalloc clears ends in front of the table.
LEMMA ClearKeepsTable ==
  ASSUME NEW tab \in [Blocks -> 0 .. 255], NEW size \in 1 .. TableAddress
  PROVE  ClearLowMemory(tab, size) = tab
<1>1. \A b \in Blocks : ~(TableAddress + b < size)
  BY HeapConfig DEF Blocks
<1> QED BY <1>1 DEF ClearLowMemory

\* The pages of an allocation of n blocks.
PagesFrom(b, n) == FirstFrame + b .. FirstFrame + b + n - 1

\* malloc maps the pages of the allocation, and no other, to themselves.
LEMMA MapsAllocation ==
  ASSUME NEW dir, NEW b \in Blocks, NEW size \in Nat \ {0}
  PROVE  LET p == heap_block_to_address(b) IN
           paging_map_to(dir, p, p, PAGE_ALIGN(p + size), "write")
             = [v \in Pages |-> IF v \in PagesFrom(b, BlocksFor(size))
                                THEN [frame |-> v, access |-> "write"] ELSE dir[v]]
<1> DEFINE p == heap_block_to_address(b)
           m == FirstFrame + b
           n == BlocksFor(size)
           pend == PAGE_ALIGN(p + size)
<1>1. m \in Nat /\ n \in Nat /\ BlockSize \in Nat \ {0}
  BY HeapConfig, HeapAligned, BlocksOfSize DEF Blocks
<1>2. p = m * BlockSize /\ PageOf(p) = m /\ pend = (m + n) * BlockSize
  BY FrameOfBlock, AlignedEnd
<1> HIDE DEF p, m, n, pend
<1>3. /\ (m + n) * BlockSize = m * BlockSize + n * BlockSize
      /\ m * BlockSize \in Nat /\ n * BlockSize \in Nat /\ m + n \in Nat
  BY <1>1, Distributes
<1>4. (pend - p) \div BlockSize = n /\ pend >= p
  <2>1. pend - p = n * BlockSize /\ pend >= p
    BY <1>2, <1>3
  <2> QED BY <1>1, <2>1, DivMul
<1>5. PAGING_ALIGNED(p) /\ PAGING_ALIGNED(pend)
  BY <1>1, <1>2, <1>3 DEF PAGING_ALIGNED
<1>6. ~(pend < p)
  BY <1>2, <1>3
<1>7. \A v \in Pages : m + v - m = v
  BY <1>1 DEF Pages
<1>8. paging_map_to(dir, p, p, pend, "write")
        = [v \in Pages |-> IF v \in m .. m + n - 1
                           THEN [frame |-> v, access |-> "write"] ELSE dir[v]]
  BY <1>2, <1>4, <1>5, <1>6, <1>7 DEF paging_map_to
<1>9. PagesFrom(b, BlocksFor(size)) = m .. m + n - 1
  BY DEF PagesFrom, m, n
<1> QED BY <1>8, <1>9 DEF p, pend

\* free takes pages away from the allocation on, and as many as there are from
\* address 0 to its end.
LEMMA UnmapsFromAllocation ==
  ASSUME NEW dir, NEW b \in Blocks, NEW size \in Nat \ {0}
  PROVE  LET p == heap_block_to_address(b)
             m == FirstFrame + b
         IN paging_map_to(dir, p, 0, PAGE_ALIGN(p + size), "none")
              = [v \in Pages |-> IF v \in m .. m + (m + BlocksFor(size)) - 1
                                 THEN [frame |-> v - m, access |-> "none"] ELSE dir[v]]
<1> DEFINE p == heap_block_to_address(b)
           m == FirstFrame + b
           n == BlocksFor(size)
           pend == PAGE_ALIGN(p + size)
<1>1. m \in Nat /\ n \in Nat /\ BlockSize \in Nat \ {0}
  BY HeapConfig, HeapAligned, BlocksOfSize DEF Blocks
<1>2. p = m * BlockSize /\ PageOf(p) = m /\ pend = (m + n) * BlockSize
  BY FrameOfBlock, AlignedEnd
<1> HIDE DEF p, m, n, pend
<1>3. m + n \in Nat /\ (m + n) * BlockSize \in Nat /\ m * BlockSize \in Nat
  BY <1>1
<1>4. (pend - 0) \div BlockSize = m + n /\ ~(pend < 0)
  BY <1>1, <1>2, <1>3, DivMul
<1>5. PAGING_ALIGNED(p) /\ PAGING_ALIGNED(0) /\ PAGING_ALIGNED(pend)
  BY <1>1, <1>2, <1>3 DEF PAGING_ALIGNED
<1>6. PageOf(0) = 0
  BY <1>1 DEF PageOf
<1>7. \A v \in Pages : 0 + v - m = v - m
  BY <1>1 DEF Pages
<1>8. paging_map_to(dir, p, 0, pend, "none")
        = [v \in Pages |-> IF v \in m .. m + (m + n) - 1
                           THEN [frame |-> v - m, access |-> "none"] ELSE dir[v]]
  BY <1>2, <1>4, <1>5, <1>6, <1>7 DEF paging_map_to
<1> QED BY <1>8 DEF p, m, n, pend

\* free(NULL) finds a record that is not in use and takes no page away.
LEMMA UnmapsNothing ==
  ASSUME NEW dir \in [Pages -> [frame : Pages, access : {"none", "read", "write"}]]
  PROVE  paging_map_to(dir, NULL, 0, PAGE_ALIGN(NULL + 0), "none") = dir
<1>1. BlockSize \in Nat \ {0}
  BY HeapConfig
<1>2. (0 + 0 + BlockSize - 1) \div BlockSize = 0
  BY <1>1, DivUnique
<1>3. PAGE_ALIGN(NULL + 0) = 0
  BY <1>1, <1>2 DEF PAGE_ALIGN, ALIGN_BLOCK, NULL
<1>4. (0 - 0) \div BlockSize = 0 /\ 0 \div BlockSize = 0
  BY <1>1
<1>5. \A v \in Pages : v \notin 0 .. 0 + 0 - 1
  OBVIOUS
<1> QED BY <1>3, <1>4, <1>5 DEF paging_map_to, NULL, PageOf

-----------------------------------------------------------------------------
(* The invariant.  WriteIsolation is not inductive: a page may be written  *)
(* because of one record, and free looks at that record only, so the page  *)
(* must show the frame of its own number.  ChunkStaysMapped is not either: *)
(* it rests on where the heap put the chunk, below everything the process  *)
(* got later, and on nothing below it becoming free.                       *)

InRecord(x, i) == allocations[x][i].p # NULL

RecordsDisjoint ==
  \A x, y \in Processes, i, j \in Indexes :
    <<x, i>> # <<y, j>> /\ InRecord(x, i) /\ InRecord(y, j)
      => FramesOf(allocations[x][i]) \cap FramesOf(allocations[y][j]) = {}

RecordsAreTaken ==
  \A x \in Processes, i \in Indexes, b \in Blocks :
    InRecord(x, i) /\ FirstFrame + b \in FramesOf(allocations[x][i]) => ~IsFree(entries[b])

ChunksAreTaken ==
  \A y \in Processes, b \in Blocks : chunk[y] = heap_block_to_address(b) => ~IsFree(entries[b])

ChunksNotInRecords ==
  \A x, y \in Processes, i \in Indexes :
    InRecord(x, i) /\ chunk[y] # NULL => PageOf(chunk[y]) \notin FramesOf(allocations[x][i])

\* A page that may be written shows itself, and is in a record.
WritableInRecord ==
  \A x \in Processes, v \in Pages :
    directory[x][v].access = "write" =>
      /\ directory[x][v].frame = v
      /\ \E i \in Indexes : InRecord(x, i) /\ v \in FramesOf(allocations[x][i])

RecordsAboveChunk ==
  \A x \in Processes, i \in Indexes :
    InRecord(x, i) => chunk[x] # NULL /\ PageOf(chunk[x]) < PageOf(allocations[x][i].p)

\* No block below the chunk of the process in the foreground is free.
TakenBelowChunk ==
  current # None =>
    /\ chunk[current] # NULL
    /\ \A b \in Blocks : FirstFrame + b < PageOf(chunk[current]) => ~IsFree(entries[b])

IInv == /\ TypeOK
        /\ RecordsDisjoint
        /\ RecordsAreTaken
        /\ ChunksAreTaken
        /\ ChunksNotInRecords
        /\ WritableInRecord
        /\ RecordsAboveChunk
        /\ TakenBelowChunk
        /\ ChunkStaysMapped

\* The frames of a record begin in the heap.
LEMMA RecordFrames ==
  ASSUME Admissible, TypeOK, NEW x \in Processes, NEW i \in Indexes, InRecord(x, i)
  PROVE  \E b \in Blocks :
           /\ allocations[x][i].p = heap_block_to_address(b)
           /\ allocations[x][i].size \in Nat \ {0}
           /\ BlocksFor(allocations[x][i].size) \in Nat \ {0}
           /\ FramesOf(allocations[x][i]) = PagesFrom(b, BlocksFor(allocations[x][i].size))
<1>1. allocations[x][i] \in AllocationRecord
  BY DEF TypeOK
<1>2. /\ allocations[x][i].p \in {heap_block_to_address(b) : b \in Blocks}
      /\ allocations[x][i].size \in Sizes
  BY <1>1 DEF AllocationRecord, Unused, InRecord
<1>3. PICK b \in Blocks : allocations[x][i].p = heap_block_to_address(b)
  BY <1>2
<1>4. allocations[x][i].size \in Nat \ {0}
  BY <1>2, HeapConfig DEF Admissible
<1>5. FramesOf(allocations[x][i]) = PagesFrom(b, BlocksFor(allocations[x][i].size))
  BY <1>3, FrameOfBlock DEF FramesOf, PagesFrom
<1> QED BY <1>3, <1>4, <1>5, BlocksOfSize

\* A record that is not in use is Unused.
LEMMA NotInRecord ==
  ASSUME TypeOK, NEW x \in Processes, NEW i \in Indexes, ~InRecord(x, i)
  PROVE  allocations[x][i] = Unused
<1>1. allocations[x][i] \in AllocationRecord
  BY DEF TypeOK
<1>2. \A b \in Blocks : heap_block_to_address(b) # NULL
  BY FrameOfBlock DEF NULL
<1> QED BY <1>1, <1>2 DEF AllocationRecord, InRecord

LEMMA InvInit == Init => IInv
<1> SUFFICES ASSUME Init PROVE IInv
  OBVIOUS
<1>1. /\ \A x \in Processes, i \in Indexes : ~InRecord(x, i)
      /\ \A x \in Processes : chunk[x] = NULL
      /\ \A x \in Processes, v \in Pages : directory[x][v].access = "read"
      /\ current = None
  BY DEF Init, InRecord, Unused, IdentityMap
<1>2. TypeOK
  <2>1. entries \in [Blocks -> 0 .. 255]
    BY DEF Init, FreshTable, FREE
  <2>2. allocations \in [Processes -> [Indexes -> AllocationRecord]]
    BY DEF Init, AllocationRecord
  <2>3. directory \in [Processes -> [Pages -> [frame : Pages, access : {"none", "read", "write"}]]]
    BY DEF Init, IdentityMap
  <2> QED BY <2>1, <2>2, <2>3 DEF Init, TypeOK
<1>3. ChunksAreTaken
  BY <1>1, FrameOfBlock DEF ChunksAreTaken, NULL
<1> QED BY <1>1, <1>2, <1>3 DEF IInv, RecordsDisjoint, RecordsAreTaken, ChunksNotInRecords,
          WritableInRecord, RecordsAboveChunk, TakenBelowChunk, ChunkStaysMapped

\* When blocks become taken and nothing else changes, nothing is lost.
LEMMA MoreTaken ==
  ASSUME IInv, entries' \in [Blocks -> 0 .. 255],
         \A b \in Blocks : ~IsFree(entries[b]) => ~IsFree(entries'[b]),
         UNCHANGED <<allocations, directory, chunk, current>>
  PROVE  IInv'
<1>1. TypeOK'
  BY DEF IInv, TypeOK
<1>2. RecordsDisjoint' /\ ChunksNotInRecords' /\ WritableInRecord' /\ RecordsAboveChunk'
  BY DEF IInv, RecordsDisjoint, ChunksNotInRecords, WritableInRecord, RecordsAboveChunk, InRecord
<1>3. RecordsAreTaken' /\ ChunksAreTaken' /\ TakenBelowChunk' /\ ChunkStaysMapped'
  BY DEF IInv, RecordsAreTaken, ChunksAreTaken, TakenBelowChunk, ChunkStaysMapped, InRecord
<1> QED BY <1>1, <1>2, <1>3 DEF IInv

\* A run of blocks whose part in the table is free meets no record and no chunk.  An
\* allocation that ends behind the heap has the last block of the table.
LEMMA FreeFrames ==
  ASSUME Admissible, IInv, NEW s \in Blocks, NEW n \in Nat \ {0},
         \A b \in Blocks : b \in s .. s + n - 1 => IsFree(entries[b])
  PROVE  /\ \A x \in Processes, i \in Indexes :
              InRecord(x, i) => FramesOf(allocations[x][i]) \cap PagesFrom(s, n) = {}
         /\ \A y \in Processes : chunk[y] # NULL => PageOf(chunk[y]) \notin PagesFrom(s, n)
<1>0. /\ TotalBlocks \in Nat \ {0} /\ FirstFrame \in Nat
      /\ s \in Nat /\ s <= TotalBlocks - 1 /\ TypeOK
  BY HeapConfig, HeapAligned DEF Blocks, IInv
<1>1. ASSUME NEW x \in Processes, NEW i \in Indexes, InRecord(x, i),
             NEW f \in FramesOf(allocations[x][i]), f \in PagesFrom(s, n)
      PROVE  FALSE
  <2> DEFINE k == BlocksFor(allocations[x][i].size)
  <2>1. PICK c \in Blocks : k \in Nat \ {0} /\ FramesOf(allocations[x][i]) = PagesFrom(c, k)
    BY <1>0, <1>1, RecordFrames
  <2> HIDE DEF k
  <2>2. /\ c \in Nat /\ c <= TotalBlocks - 1 /\ f \in Int
        /\ FirstFrame + c <= f /\ f <= FirstFrame + c + k - 1
        /\ FirstFrame + s <= f /\ f <= FirstFrame + s + n - 1
    BY <1>0, <1>1, <2>1 DEF PagesFrom, Blocks
  <2>3. PICK b \in Blocks : b \in s .. s + n - 1 /\ FirstFrame + b \in PagesFrom(c, k)
    <3>1. CASE f <= FirstFrame + TotalBlocks - 1
      <4>1. /\ f - FirstFrame \in Blocks
            /\ f - FirstFrame \in s .. s + n - 1
            /\ FirstFrame + (f - FirstFrame) \in PagesFrom(c, k)
        BY <1>0, <2>2, <3>1 DEF Blocks, PagesFrom
      <4> QED BY <4>1
    <3>2. CASE f > FirstFrame + TotalBlocks - 1
      <4>1. /\ TotalBlocks - 1 \in Blocks
            /\ TotalBlocks - 1 \in s .. s + n - 1
            /\ FirstFrame + (TotalBlocks - 1) \in PagesFrom(c, k)
        BY <1>0, <2>1, <2>2, <3>2 DEF Blocks, PagesFrom
      <4> QED BY <4>1
    <3> QED BY <1>0, <2>2, <3>1, <3>2
  <2>4. IsFree(entries[b])
    BY <2>3
  <2>5. ~IsFree(entries[b])
    BY <1>1, <2>1, <2>3 DEF IInv, RecordsAreTaken
  <2> QED BY <2>4, <2>5
<1>2. ASSUME NEW y \in Processes, chunk[y] # NULL, PageOf(chunk[y]) \in PagesFrom(s, n)
      PROVE  FALSE
  <2>1. PICK b \in Blocks : chunk[y] = heap_block_to_address(b)
    BY <1>0, <1>2 DEF TypeOK
  <2>2. PageOf(chunk[y]) = FirstFrame + b
    BY <2>1, FrameOfBlock
  <2>3. b \in s .. s + n - 1
    BY <1>0, <1>2, <2>2 DEF PagesFrom, Blocks
  <2> QED BY <2>1, <2>3 DEF IInv, ChunksAreTaken
<1> QED BY <1>1, <1>2

\* A load: the chunk is the first free block, and everything below it is taken.
LEMMA LoadInv ==
  ASSUME Admissible, IInv, NEW x \in Processes, process_load_switch(x)
  PROVE  IInv'
<1> DEFINE s == heap_get_start_block(entries, 1)
<1>0. /\ TypeOK /\ s \in Blocks /\ s >= 0
      /\ \A b \in Blocks : b \in s .. s + 1 - 1 => IsFree(entries[b])
  BY StartBlockIsFree DEF IInv, process_load_switch
<1>1. /\ entries' \in [Blocks -> 0 .. 255]
      /\ \A b \in Blocks : b \in s .. s + 1 - 1 => ~IsFree(entries'[b])
      /\ \A b \in Blocks : b \notin s .. s + 1 - 1 => entries'[b] = entries[b]
  <2>1. entries \in [Blocks -> 0 .. 255]
    BY <1>0 DEF TypeOK
  <2>2. entries' = heap_mark_blocks_taken(entries, s, 1)
    BY DEF process_load_switch
  <2> HIDE DEF s
  <2>3. PICK n \in Nat : n = 1
    OBVIOUS
  <2>4. /\ heap_mark_blocks_taken(entries, s, n) \in [Blocks -> 0 .. 255]
        /\ \A b \in Blocks : b \in s .. s + n - 1 => ~IsFree(heap_mark_blocks_taken(entries, s, n)[b])
        /\ \A b \in Blocks : b \notin s .. s + n - 1 => heap_mark_blocks_taken(entries, s, n)[b] = entries[b]
    BY <1>0, <2>1, MarkedIsTaken, SMTT(30)
  <2> QED BY <2>2, <2>3, <2>4
<1>2. \A b \in Blocks : ~IsFree(entries[b]) => ~IsFree(entries'[b])
  BY <1>1
<1>3. ~IsFree(entries'[s])
  <2>1. s \in s .. s + 1 - 1
    BY <1>0 DEF Blocks
  <2> QED BY <1>0, <1>1, <2>1
<1>4. \A b \in Blocks : b < s => ~IsFree(entries'[b])
  BY <1>0, <1>2, FirstFit
<1>5. /\ PageOf(heap_block_to_address(s)) = FirstFrame + s
      /\ heap_block_to_address(s) # NULL
      /\ \A b \in Blocks : heap_block_to_address(b) = heap_block_to_address(s) => b = s
  <2>1. \A b \in Blocks : heap_address_to_block(heap_block_to_address(b)) = b
    BY FrameOfBlock
  <2> QED BY <1>0, <2>1, FrameOfBlock DEF NULL
<1>6. /\ \A z \in Processes, i \in Indexes :
           InRecord(z, i) => PageOf(heap_block_to_address(s)) \notin FramesOf(allocations[z][i])
  <2>1. PageOf(heap_block_to_address(s)) \in PagesFrom(s, 1)
    BY <1>0, <1>5, HeapAligned DEF PagesFrom, Blocks
  <2> QED BY <1>0, <2>1, FreeFrames
<1> HIDE DEF s
<1>7. /\ chunk[x] = NULL
      /\ chunk' = [chunk EXCEPT ![x] = heap_block_to_address(s)]
      /\ allocations' = [allocations EXCEPT ![x] = [i \in Indexes |-> Unused]]
      /\ directory' = [directory EXCEPT ![x] = IdentityMap]
      /\ current' = x
  BY DEF process_load_switch, s
<1>8. TypeOK'
  <2>1. [i \in Indexes |-> Unused] \in [Indexes -> AllocationRecord]
    BY DEF AllocationRecord
  <2>2. IdentityMap \in [Pages -> [frame : Pages, access : {"none", "read", "write"}]]
    BY DEF IdentityMap
  <2>3. directory' \in [Processes -> [Pages -> [frame : Pages, access : {"none", "read", "write"}]]]
    BY <1>0, <1>7, <2>2 DEF TypeOK
  <2>4. allocations' \in [Processes -> [Indexes -> AllocationRecord]]
    BY <1>0, <1>7, <2>1 DEF TypeOK
  <2>5. chunk' \in [Processes -> {heap_block_to_address(b) : b \in Blocks} \cup {NULL}]
    BY <1>0, <1>7 DEF TypeOK
  <2> QED BY <1>1, <1>7, <2>3, <2>4, <2>5 DEF TypeOK
<1>9. /\ \A z \in Processes : chunk'[z] = IF z = x THEN heap_block_to_address(s) ELSE chunk[z]
      /\ \A z \in Processes, i \in Indexes :
           /\ InRecord(z, i)' => InRecord(z, i) /\ z # x
           /\ z # x => allocations'[z][i] = allocations[z][i]
      /\ \A z \in Processes : z # x => directory'[z] = directory[z]
      /\ \A v \in Pages : directory'[x][v].access = "read"
  BY <1>0, <1>7 DEF TypeOK, InRecord, Unused, IdentityMap
<1>10. RecordsDisjoint'
  BY <1>9 DEF IInv, RecordsDisjoint
<1>11. RecordsAreTaken'
  BY <1>2, <1>9 DEF IInv, RecordsAreTaken
<1>12. ChunksAreTaken'
  BY <1>2, <1>3, <1>5, <1>9 DEF IInv, ChunksAreTaken
<1>13. ChunksNotInRecords'
  BY <1>6, <1>9 DEF IInv, ChunksNotInRecords
<1>14. WritableInRecord'
  <2> SUFFICES ASSUME NEW z \in Processes, NEW v \in Pages, directory'[z][v].access = "write"
               PROVE  /\ directory'[z][v].frame = v
                      /\ \E i \in Indexes : InRecord(z, i)' /\ v \in FramesOf(allocations'[z][i])
    BY DEF WritableInRecord
  <2>1. z # x
    BY <1>9
  <2>2. directory[z][v].frame = v
        /\ \E i \in Indexes : InRecord(z, i) /\ v \in FramesOf(allocations[z][i])
    BY <1>9, <2>1 DEF IInv, WritableInRecord
  <2> QED BY <1>9, <2>1, <2>2 DEF InRecord
<1>15. RecordsAboveChunk'
  BY <1>9 DEF IInv, RecordsAboveChunk
<1>16. TakenBelowChunk'
  <2>1. ASSUME NEW b \in Blocks, FirstFrame + b < FirstFrame + s PROVE b < s
    BY <1>0, <2>1, HeapAligned DEF Blocks
  <2> QED BY <1>4, <1>5, <1>7, <1>9, <2>1 DEF TakenBelowChunk
<1>17. ChunkStaysMapped'
  <2>1. PageOf(chunk'[x]) \in Pages
    BY <1>0, <1>5, <1>9, HeapInPages
  <2> QED BY <1>9, <2>1 DEF IInv, ChunkStaysMapped
<1> QED BY <1>8, <1>10, <1>11, <1>12, <1>13, <1>14, <1>15, <1>16, <1>17 DEF IInv

\* malloc with a free record: the block is free, so it is nobody's, and it lies above
\* the chunk, up to which nothing is free.
LEMMA AllocateInv ==
  ASSUME Admissible, IInv, NEW x \in Processes, x = current, NEW size \in Sizes,
         FreeIndexes(x) # {}, Allocate(x, size), UNCHANGED <<chunk, current>>
  PROVE  IInv'
<1> DEFINE n == BlocksFor(size)
           s == heap_get_start_block(entries, n)
           p == heap_block_to_address(s)
<1>0. size \in Nat \ {0} /\ n \in Nat \ {0} /\ TypeOK
  <2>1. size \in Nat \ {0}
    BY HeapConfig DEF Admissible
  <2> QED BY <2>1, BlocksOfSize DEF IInv
<1>1. s \in Blocks /\ \A b \in Blocks : b \in s .. s + n - 1 => IsFree(entries[b])
  BY <1>0, StartBlockIsFree DEF Allocate
<1>2. PICK k \in Indexes : k = Least(FreeIndexes(x)) /\ ~InRecord(x, k)
  <2>1. FreeIndexes(x) \in SUBSET Nat
    BY DEF FreeIndexes, Indexes
  <2>2. Least(FreeIndexes(x)) \in FreeIndexes(x)
    BY <2>1, LeastOf
  <2> QED BY <2>2 DEF FreeIndexes, InRecord
<1>3. /\ entries' = heap_mark_blocks_taken(entries, s, n)
      /\ directory' = [directory EXCEPT ![x] = paging_map_to(@, p, p, PAGE_ALIGN(p + size), "write")]
      /\ allocations' = [allocations EXCEPT ![x][k] = [p |-> p, size |-> size]]
  BY <1>2 DEF Allocate
<1>4. /\ paging_map_to(directory[x], p, p, PAGE_ALIGN(p + size), "write")
           = [v \in Pages |-> IF v \in PagesFrom(s, n)
                              THEN [frame |-> v, access |-> "write"] ELSE directory[x][v]]
  BY <1>0, <1>1, MapsAllocation
<1>5. PageOf(p) = FirstFrame + s /\ p # NULL
  BY <1>1, FrameOfBlock DEF NULL
<1>6. FramesOf([p |-> p, size |-> size]) = PagesFrom(s, n)
  BY <1>5 DEF FramesOf, PagesFrom
<1>7. /\ entries' \in [Blocks -> 0 .. 255]
      /\ \A b \in Blocks : b \in s .. s + n - 1 => ~IsFree(entries'[b])
      /\ \A b \in Blocks : b \notin s .. s + n - 1 => entries'[b] = entries[b]
  <2>1. entries \in [Blocks -> 0 .. 255] /\ n \in Nat
    BY <1>0 DEF TypeOK
  <2> HIDE DEF s, n
  <2> QED BY <1>1, <1>3, <2>1, MarkedIsTaken
<1>8. /\ \A y \in Processes, i \in Indexes :
           InRecord(y, i) => FramesOf(allocations[y][i]) \cap PagesFrom(s, n) = {}
      /\ \A y \in Processes : chunk[y] # NULL => PageOf(chunk[y]) \notin PagesFrom(s, n)
  <2> HIDE DEF s, n
  <2> QED BY <1>0, <1>1, FreeFrames
<1> HIDE DEF n, s, p
<1>9. /\ \A y \in Processes, i \in Indexes :
           <<y, i>> # <<x, k>> => /\ InRecord(y, i)' <=> InRecord(y, i)
                                  /\ allocations'[y][i] = allocations[y][i]
      /\ InRecord(x, k)'
      /\ allocations'[x][k] = [p |-> p, size |-> size]
      /\ \A y \in Processes : y # x => directory'[y] = directory[y]
      /\ \A v \in Pages : directory'[x][v] = IF v \in PagesFrom(s, n)
                              THEN [frame |-> v, access |-> "write"] ELSE directory[x][v]
  <2>1. allocations'[x][k] = [p |-> p, size |-> size]
    BY <1>0, <1>2, <1>3 DEF TypeOK
  <2>2. \A y \in Processes, i \in Indexes :
           <<y, i>> # <<x, k>> => allocations'[y][i] = allocations[y][i]
    BY <1>0, <1>2, <1>3 DEF TypeOK
  <2>3. \A y \in Processes : y # x => directory'[y] = directory[y]
    BY <1>0, <1>3 DEF TypeOK
  <2>4. directory'[x] = paging_map_to(directory[x], p, p, PAGE_ALIGN(p + size), "write")
    BY <1>0, <1>3 DEF TypeOK
  <2>5. \A v \in Pages : directory'[x][v] = IF v \in PagesFrom(s, n)
                              THEN [frame |-> v, access |-> "write"] ELSE directory[x][v]
    BY <2>4, <1>4
  <2>6. InRecord(x, k)'
    BY <1>5, <2>1 DEF InRecord
  <2>7. \A y \in Processes, i \in Indexes :
           <<y, i>> # <<x, k>> => (InRecord(y, i)' <=> InRecord(y, i))
    BY <2>2 DEF InRecord
  <2> QED BY <2>1, <2>2, <2>3, <2>5, <2>6, <2>7
<1>10. FramesOf(allocations'[x][k]) = PagesFrom(s, n)
  BY <1>6, <1>9
<1>11. TypeOK'
  <2>1. [p |-> p, size |-> size] \in AllocationRecord
    BY <1>1 DEF AllocationRecord, p
  <2>2. allocations' \in [Processes -> [Indexes -> AllocationRecord]]
    BY <1>0, <1>2, <1>3, <2>1 DEF TypeOK
  <2>3. \A v \in Pages : [frame |-> v, access |-> "write"]
                           \in [frame : Pages, access : {"none", "read", "write"}]
    OBVIOUS
  <2>4. directory[x] \in [Pages -> [frame : Pages, access : {"none", "read", "write"}]]
    BY <1>0 DEF TypeOK
  <2>5. paging_map_to(directory[x], p, p, PAGE_ALIGN(p + size), "write")
          \in [Pages -> [frame : Pages, access : {"none", "read", "write"}]]
    BY <1>4, <2>3, <2>4
  <2>6. directory' \in [Processes -> [Pages -> [frame : Pages, access : {"none", "read", "write"}]]]
    BY <1>0, <1>3, <2>5 DEF TypeOK
  <2> QED BY <1>0, <1>7, <2>2, <2>6 DEF TypeOK
<1>12. \A b \in Blocks : FirstFrame + b \in PagesFrom(s, n) => b \in s .. s + n - 1
  BY <1>0, <1>1, HeapAligned DEF PagesFrom, Blocks
<1>13. \A b \in Blocks : ~IsFree(entries[b]) => ~IsFree(entries'[b])
  BY <1>7
<1>14. RecordsDisjoint'
  <2> SUFFICES ASSUME NEW y \in Processes, NEW z \in Processes, NEW i \in Indexes, NEW j \in Indexes,
                      <<y, i>> # <<z, j>>, InRecord(y, i)', InRecord(z, j)'
               PROVE  FramesOf(allocations'[y][i]) \cap FramesOf(allocations'[z][j]) = {}
    BY DEF RecordsDisjoint
  <2>1. CASE <<y, i>> = <<x, k>>
    <3>1. <<z, j>> # <<x, k>>
      BY <2>1
    <3> QED BY <1>8, <1>9, <1>10, <2>1, <3>1
  <2>2. CASE <<z, j>> = <<x, k>>
    <3>1. <<y, i>> # <<x, k>>
      BY <2>2
    <3> QED BY <1>8, <1>9, <1>10, <2>2, <3>1
  <2>3. CASE <<y, i>> # <<x, k>> /\ <<z, j>> # <<x, k>>
    BY <1>9, <2>3 DEF IInv, RecordsDisjoint
  <2> QED BY <2>1, <2>2, <2>3
<1>15. RecordsAreTaken'
  <2> SUFFICES ASSUME NEW y \in Processes, NEW i \in Indexes, NEW b \in Blocks,
                      InRecord(y, i)', FirstFrame + b \in FramesOf(allocations'[y][i])
               PROVE  ~IsFree(entries'[b])
    BY DEF RecordsAreTaken
  <2>1. CASE <<y, i>> = <<x, k>>
    BY <1>7, <1>10, <1>12, <2>1
  <2>2. CASE <<y, i>> # <<x, k>>
    BY <1>9, <1>13, <2>2 DEF IInv, RecordsAreTaken
  <2> QED BY <2>1, <2>2
<1>16. ChunksAreTaken'
  BY <1>13 DEF IInv, ChunksAreTaken
<1>17. ChunksNotInRecords'
  <2> SUFFICES ASSUME NEW y \in Processes, NEW z \in Processes, NEW i \in Indexes,
                      InRecord(y, i)', chunk[z] # NULL
               PROVE  PageOf(chunk[z]) \notin FramesOf(allocations'[y][i])
    BY DEF ChunksNotInRecords
  <2>1. CASE <<y, i>> = <<x, k>>
    BY <1>8, <1>10, <2>1
  <2>2. CASE <<y, i>> # <<x, k>>
    BY <1>9, <2>2 DEF IInv, ChunksNotInRecords
  <2> QED BY <2>1, <2>2
<1>18. WritableInRecord'
  <2> SUFFICES ASSUME NEW y \in Processes, NEW v \in Pages, directory'[y][v].access = "write"
               PROVE  /\ directory'[y][v].frame = v
                      /\ \E i \in Indexes : InRecord(y, i)' /\ v \in FramesOf(allocations'[y][i])
    BY DEF WritableInRecord
  <2>1. CASE y = x /\ v \in PagesFrom(s, n)
    <3>1. directory'[y][v] = [frame |-> v, access |-> "write"]
      BY <1>9, <2>1
    <3> QED BY <1>2, <1>9, <1>10, <2>1, <3>1
  <2>2. CASE ~(y = x /\ v \in PagesFrom(s, n))
    <3>1. directory'[y][v] = directory[y][v]
      BY <1>9, <2>2
    <3>2. directory[y][v].frame = v
          /\ \E i \in Indexes : InRecord(y, i) /\ v \in FramesOf(allocations[y][i])
      BY <3>1 DEF IInv, WritableInRecord
    <3>3. PICK i \in Indexes : InRecord(y, i) /\ v \in FramesOf(allocations[y][i])
      BY <3>2
    <3>4. <<y, i>> # <<x, k>>
      BY <1>2, <3>3
    <3> QED BY <1>9, <3>1, <3>2, <3>3, <3>4
  <2> QED BY <2>1, <2>2
<1>19. RecordsAboveChunk'
  <2>1. chunk[x] # NULL /\ PageOf(chunk[x]) < PageOf(p)
    <3>1. chunk[x] # NULL /\ \A b \in Blocks : FirstFrame + b < PageOf(chunk[x]) => ~IsFree(entries[b])
      BY <1>0, UserMemoryConfig DEF IInv, TakenBelowChunk
    <3>2. PICK c \in Blocks : chunk[x] = heap_block_to_address(c)
      BY <1>0, <3>1 DEF TypeOK
    <3>3. PageOf(chunk[x]) = FirstFrame + c /\ ~IsFree(entries[c])
      BY <3>2, FrameOfBlock DEF IInv, ChunksAreTaken
    <3>4. s \in Int /\ c \in Int /\ FirstFrame \in Int /\ IsFree(entries[s])
      BY <1>0, <1>1, HeapAligned DEF Blocks
    <3>5. s # c /\ ~(FirstFrame + s < FirstFrame + c)
      BY <1>1, <3>1, <3>3, <3>4
    <3>6. FirstFrame + c < FirstFrame + s
      BY <3>4, <3>5
    <3> QED BY <1>5, <3>1, <3>3, <3>6
  <2>2. \A y \in Processes, i \in Indexes : InRecord(y, i)' =>
          chunk[y] # NULL /\ PageOf(chunk[y]) < PageOf(allocations'[y][i].p)
    BY <1>9, <2>1 DEF IInv, RecordsAboveChunk
  <2> QED BY <2>2 DEF RecordsAboveChunk
<1>20. TakenBelowChunk'
  BY <1>13 DEF IInv, TakenBelowChunk
<1>21. ChunkStaysMapped'
  <2> SUFFICES ASSUME NEW y \in Processes, chunk[y] # NULL
               PROVE  directory'[y][PageOf(chunk[y])].access # "none"
    BY DEF ChunkStaysMapped
  <2>1. PICK c \in Blocks : chunk[y] = heap_block_to_address(c)
    BY <1>0 DEF TypeOK
  <2>2. PageOf(chunk[y]) \in Pages
    BY <2>1, FrameOfBlock, HeapInPages
  <2>3. directory'[y][PageOf(chunk[y])] = directory[y][PageOf(chunk[y])]
    BY <1>8, <1>9, <2>2
  <2> QED BY <2>3 DEF IInv, ChunkStaysMapped
<1> QED BY <1>11, <1>14, <1>15, <1>16, <1>17, <1>18, <1>19, <1>20, <1>21 DEF IInv

\* malloc without a free record gives the memory back before it is mapped; malloc
\* without memory clears bytes in front of the table only.
LEMMA MallocInv ==
  ASSUME Admissible, IInv, NEW size \in Sizes, syscall4_malloc(size)
  PROVE  IInv'
<1> DEFINE n == BlocksFor(size)
           s == heap_get_start_block(entries, n)
           p == heap_block_to_address(s)
           taken == heap_mark_blocks_taken(entries, s, n)
<1>0. /\ current \in Processes /\ process_malloc(current, size)
      /\ size \in 1 .. TableAddress /\ size \in Nat \ {0} /\ n \in Nat \ {0} /\ TypeOK
      /\ entries \in [Blocks -> 0 .. 255]
  <2>1. size \in 1 .. TableAddress /\ size \in Nat \ {0}
    BY HeapConfig DEF Admissible
  <2> QED BY <2>1, BlocksOfSize DEF IInv, TypeOK, syscall4_malloc
<1>1. CASE Allocate(current, size) /\ FreeIndexes(current) # {}
  BY <1>0, <1>1, AllocateInv DEF process_malloc
<1>2. CASE Allocate(current, size) /\ FreeIndexes(current) = {}
  <2>1. s \in Blocks /\ \A b \in Blocks : b \in s .. s + n - 1 => IsFree(entries[b])
    BY <1>0, <1>2, StartBlockIsFree DEF Allocate
  <2>2. entries' = heap_free(taken, p) /\ UNCHANGED <<allocations, directory, chunk, current>>
    BY <1>0, <1>2 DEF Allocate, process_malloc
  <2> HIDE DEF s, n
  <2>3. /\ taken \in [Blocks -> 0 .. 255]
        /\ \A b \in Blocks : b \in s .. s + n - 1 => ~IsFree(taken[b])
        /\ \A b \in Blocks : b \notin s .. s + n - 1 => taken[b] = entries[b]
    BY <1>0, <2>1, MarkedIsTaken
  <2> HIDE DEF taken
  <2>4. entries' = [b \in Blocks |-> IF b = s THEN FREE ELSE taken[b]]
    BY <2>1, <2>2, <2>3, FreeClearsOne
  <2>5. entries' \in [Blocks -> 0 .. 255]
    BY <2>3, <2>4 DEF FREE
  <2>6. IsFree(entries[s])
    <3>1. s \in s .. s + n - 1
      BY <1>0, <2>1 DEF Blocks
    <3> QED BY <2>1, <3>1
  <2>7. \A b \in Blocks : ~IsFree(entries[b]) => ~IsFree(entries'[b])
    BY <2>3, <2>4, <2>6
  <2> QED BY <2>2, <2>5, <2>7, MoreTaken
<1>3. CASE entries' = ClearLowMemory(entries, size) /\ UNCHANGED <<allocations, directory>>
  <2>1. entries' = entries
    BY <1>0, <1>3, ClearKeepsTable
  <2> QED BY <1>0, <1>3, <2>1, MoreTaken DEF process_malloc
<1> QED BY <1>0, <1>1, <1>2, <1>3 DEF process_malloc

\* The first block of a record is given back: it is no other record's and no chunk,
\* and it lies above the chunk.  The pages that are taken away begin there too, and
\* the record's are among them.
LEMMA FreeRecordInv ==
  ASSUME Admissible, IInv, NEW x \in Processes, x = current, NEW k \in Indexes, InRecord(x, k),
         directory' = [directory EXCEPT ![x] =
                         paging_map_to(@, allocations[x][k].p, 0,
                           PAGE_ALIGN(allocations[x][k].p + allocations[x][k].size), "none")],
         allocations' = [allocations EXCEPT ![x][k] = Unused],
         entries' = heap_free(entries, allocations[x][k].p),
         UNCHANGED <<chunk, current>>
  PROVE  IInv'
<1>0. TypeOK
  BY DEF IInv
<1>1. PICK b \in Blocks, n \in Nat \ {0} :
        /\ allocations[x][k].p = heap_block_to_address(b)
        /\ allocations[x][k].size \in Nat \ {0}
        /\ n = BlocksFor(allocations[x][k].size)
        /\ FramesOf(allocations[x][k]) = PagesFrom(b, n)
  BY <1>0, RecordFrames
<1> DEFINE m == FirstFrame + b
<1>2. m \in Nat /\ n \in Nat \ {0} /\ b \in Nat /\ FirstFrame \in Nat
  BY HeapAligned DEF Blocks
<1>3. PageOf(allocations[x][k].p) = m /\ m \in FramesOf(allocations[x][k])
  BY <1>1, <1>2, FrameOfBlock DEF PagesFrom
<1>4. entries' = [c \in Blocks |-> IF c = b THEN FREE ELSE entries[c]]
  BY <1>0, <1>1, FreeClearsOne DEF TypeOK
<1>5. /\ \A v \in Pages : directory'[x][v] = IF v \in m .. m + (m + n) - 1
                            THEN [frame |-> v - m, access |-> "none"] ELSE directory[x][v]
      /\ \A y \in Processes : y # x => directory'[y] = directory[y]
      /\ directory' \in [Processes -> [Pages -> [frame : Pages, access : {"none", "read", "write"}]]]
  <2> DEFINE new == [v \in Pages |-> IF v \in m .. m + (m + n) - 1
                                       THEN [frame |-> v - m, access |-> "none"] ELSE directory[x][v]]
  <2>1. paging_map_to(directory[x], allocations[x][k].p, 0,
                      PAGE_ALIGN(allocations[x][k].p + allocations[x][k].size), "none") = new
    BY <1>1, UnmapsFromAllocation
  <2>2. directory' = [directory EXCEPT ![x] = new]
    BY <1>0, <2>1 DEF TypeOK
  <2>3. \A v \in Pages : v \in m .. m + (m + n) - 1 => v - m \in Pages
    BY <1>2, UserMemoryConfig DEF Pages
  <2>4. directory[x] \in [Pages -> [frame : Pages, access : {"none", "read", "write"}]]
    BY <1>0 DEF TypeOK
  <2>5. new \in [Pages -> [frame : Pages, access : {"none", "read", "write"}]]
    <3> HIDE DEF m
    <3> QED BY <2>3, <2>4
  <2>6. \A v \in Pages : new[v] = IF v \in m .. m + (m + n) - 1
                            THEN [frame |-> v - m, access |-> "none"] ELSE directory[x][v]
    OBVIOUS
  <2> HIDE DEF new
  <2> QED BY <1>0, <2>2, <2>5, <2>6 DEF TypeOK
<1> HIDE DEF m
<1>6. /\ \A y \in Processes, i \in Indexes : InRecord(y, i)' =>
           /\ InRecord(y, i)
           /\ <<y, i>> # <<x, k>>
           /\ allocations'[y][i] = allocations[y][i]
      /\ \A y \in Processes, i \in Indexes : <<y, i>> # <<x, k>> =>
           /\ allocations'[y][i] = allocations[y][i]
           /\ InRecord(y, i)' <=> InRecord(y, i)
  <2>1. \A y \in Processes, i \in Indexes :
          <<y, i>> # <<x, k>> => allocations'[y][i] = allocations[y][i]
    BY <1>0 DEF TypeOK
  <2>2. allocations'[x][k] = Unused
    BY <1>0 DEF TypeOK
  <2> QED BY <2>1, <2>2 DEF InRecord, Unused
<1>7. TypeOK'
  <2>1. entries' \in [Blocks -> 0 .. 255]
    BY <1>0, <1>4 DEF TypeOK, FREE
  <2>2. allocations' \in [Processes -> [Indexes -> AllocationRecord]]
    BY <1>0 DEF TypeOK, AllocationRecord
  <2> QED BY <1>0, <1>5, <2>1, <2>2 DEF TypeOK
<1>8. RecordsDisjoint'
  BY <1>6 DEF IInv, RecordsDisjoint
<1>9. RecordsAreTaken'
  <2> SUFFICES ASSUME NEW y \in Processes, NEW i \in Indexes, NEW c \in Blocks,
                      InRecord(y, i)', FirstFrame + c \in FramesOf(allocations'[y][i])
               PROVE  ~IsFree(entries'[c])
    BY DEF RecordsAreTaken
  <2>1. /\ InRecord(y, i) /\ <<y, i>> # <<x, k>>
        /\ FirstFrame + c \in FramesOf(allocations[y][i])
    BY <1>6
  <2>2. FramesOf(allocations[y][i]) \cap FramesOf(allocations[x][k]) = {}
    BY <2>1 DEF IInv, RecordsDisjoint
  <2>3. c # b
    BY <1>3, <2>1, <2>2 DEF m
  <2>4. ~IsFree(entries[c])
    BY <2>1 DEF IInv, RecordsAreTaken
  <2> QED BY <1>4, <2>3, <2>4
<1>10. ChunksAreTaken'
  <2> SUFFICES ASSUME NEW y \in Processes, NEW c \in Blocks, chunk[y] = heap_block_to_address(c)
               PROVE  ~IsFree(entries'[c])
    BY DEF ChunksAreTaken
  <2>1. chunk[y] # NULL /\ PageOf(chunk[y]) = FirstFrame + c
    BY FrameOfBlock DEF NULL
  <2>2. PageOf(chunk[y]) \notin FramesOf(allocations[x][k])
    BY <2>1 DEF IInv, ChunksNotInRecords
  <2>3. c # b
    BY <1>3, <2>1, <2>2 DEF m
  <2>4. ~IsFree(entries[c])
    BY DEF IInv, ChunksAreTaken
  <2> QED BY <1>4, <2>3, <2>4
<1>11. ChunksNotInRecords'
  BY <1>6 DEF IInv, ChunksNotInRecords
<1>12. WritableInRecord'
  <2> SUFFICES ASSUME NEW y \in Processes, NEW v \in Pages, directory'[y][v].access = "write"
               PROVE  /\ directory'[y][v].frame = v
                      /\ \E i \in Indexes : InRecord(y, i)' /\ v \in FramesOf(allocations'[y][i])
    BY DEF WritableInRecord
  <2>1. ~(y = x /\ v \in m .. m + (m + n) - 1)
    <3> SUFFICES ASSUME y = x, v \in m .. m + (m + n) - 1 PROVE FALSE
      OBVIOUS
    <3>1. directory'[y][v] = [frame |-> v - m, access |-> "none"]
      BY <1>5
    <3> QED BY <3>1
  <2>2. directory'[y][v] = directory[y][v]
    BY <1>5, <2>1
  <2>3. directory[y][v].frame = v
    BY <2>2 DEF IInv, WritableInRecord
  <2>4. PICK i \in Indexes : InRecord(y, i) /\ v \in FramesOf(allocations[y][i])
    BY <2>2 DEF IInv, WritableInRecord
  <2>5. <<y, i>> # <<x, k>>
    <3> SUFFICES ASSUME y = x, i = k PROVE FALSE
      OBVIOUS
    <3>1. v \in m .. m + n - 1
      BY <1>1, <2>4 DEF PagesFrom, m
    <3>2. v \in m .. m + (m + n) - 1
      BY <1>2, <3>1 DEF m
    <3> QED BY <2>1, <3>2
  <2> QED BY <1>6, <2>2, <2>3, <2>4, <2>5
<1>13. RecordsAboveChunk'
  BY <1>6 DEF IInv, RecordsAboveChunk
<1>14. chunk[x] # NULL /\ PageOf(chunk[x]) < m
  BY <1>3 DEF IInv, RecordsAboveChunk
<1>15. TakenBelowChunk'
  <2>1. chunk[x] # NULL /\ \A c \in Blocks : FirstFrame + c < PageOf(chunk[x]) => ~IsFree(entries[c])
    BY UserMemoryConfig DEF IInv, TakenBelowChunk
  <2>2. \A c \in Blocks : FirstFrame + c < PageOf(chunk[x]) => c # b
    <3>1. PICK c \in Blocks : PageOf(chunk[x]) = FirstFrame + c
      BY <1>0, <1>14, FrameOfBlock DEF TypeOK
    <3>2. c \in Int
      BY DEF Blocks
    <3> QED BY <1>2, <1>14, <3>1, <3>2 DEF m
  <2>3. \A c \in Blocks : FirstFrame + c < PageOf(chunk[x]) => ~IsFree(entries'[c])
    BY <1>4, <2>1, <2>2
  <2> QED BY <2>1, <2>3 DEF TakenBelowChunk
<1>16. ChunkStaysMapped'
  <2> SUFFICES ASSUME NEW y \in Processes, chunk[y] # NULL
               PROVE  directory'[y][PageOf(chunk[y])].access # "none"
    BY DEF ChunkStaysMapped
  <2>1. PICK c \in Blocks : chunk[y] = heap_block_to_address(c)
    BY <1>0 DEF TypeOK
  <2>2. PageOf(chunk[y]) \in Pages /\ PageOf(chunk[y]) = FirstFrame + c /\ c \in Int
    BY <2>1, FrameOfBlock, HeapInPages DEF Blocks
  <2>3. directory'[y][PageOf(chunk[y])] = directory[y][PageOf(chunk[y])]
    <3>1. CASE y = x
      <4>1. PageOf(chunk[y]) \notin m .. m + (m + n) - 1
        BY <1>2, <1>14, <2>2, <3>1
      <4> QED BY <1>5, <2>2, <3>1, <4>1
    <3>2. CASE y # x
      BY <1>5, <3>2
    <3> QED BY <3>1, <3>2
  <2> QED BY <2>3 DEF IInv, ChunkStaysMapped
<1> QED BY <1>7, <1>8, <1>9, <1>10, <1>11, <1>12, <1>13, <1>15, <1>16 DEF IInv

\* free: the block that becomes free is the first of a record, so it is no other
\* record's and no chunk, and it lies above the chunk.  The pages that are taken away
\* begin there too, and the record's are among them.
LEMMA FreeInv ==
  ASSUME Admissible, IInv, NEW p \in {heap_block_to_address(b) : b \in Blocks} \cup {NULL},
         syscall5_free(p)
  PROVE  IInv'
<1>0. PICK x \in Processes : x = current /\ process_free(x, p)
  BY DEF IInv, TypeOK, syscall5_free
<1>t. TypeOK
  BY DEF IInv
<1> DEFINE found == {i \in Indexes : allocations[x][i].p = p}
<1>1. CASE found = {}
  BY <1>0, <1>t, <1>1, MoreTaken DEF process_free, TypeOK
<1>2. CASE found # {}
  <2>1. PICK k \in Indexes : k = Least(found) /\ allocations[x][k].p = p
    <3>1. found \in SUBSET Nat
      BY DEF Indexes
    <3>2. Least(found) \in found
      BY <1>2, <3>1, LeastOf
    <3> QED BY <3>2
  <2>2. /\ directory' = [directory EXCEPT ![x] =
                   paging_map_to(@, p, 0, PAGE_ALIGN(p + allocations[x][k].size), "none")]
        /\ allocations' = [allocations EXCEPT ![x][k] = Unused]
        /\ entries' = heap_free(entries, p)
        /\ UNCHANGED <<chunk, current>>
    BY <1>0, <1>2, <2>1 DEF process_free
  <2>3. CASE p = NULL
    <3>1. allocations[x][k] = Unused
      BY <1>t, <2>1, <2>3, NotInRecord DEF InRecord
    <3>2. allocations' = allocations
      BY <1>t, <2>2, <3>1 DEF TypeOK
    <3>3. directory[x] \in [Pages -> [frame : Pages, access : {"none", "read", "write"}]]
      BY <1>t DEF TypeOK
    <3>4. paging_map_to(directory[x], NULL, 0, PAGE_ALIGN(NULL + 0), "none") = directory[x]
      BY <3>3, UnmapsNothing
    <3>5. directory' = directory
      <4>1. allocations[x][k].size = 0
        BY <3>1 DEF Unused
      <4> QED BY <1>t, <2>2, <2>3, <3>4, <4>1 DEF TypeOK
    <3>6. entries' = entries
      BY <2>2, <2>3 DEF heap_free
    <3> QED BY <1>t, <2>2, <3>2, <3>5, <3>6, MoreTaken DEF TypeOK
  <2>4. CASE p # NULL
    BY <1>0, <1>t, <2>1, <2>2, <2>4, FreeRecordInv DEF InRecord
  <2> QED BY <2>3, <2>4
<1> QED BY <1>1, <1>2

LEMMA StepInv ==
  ASSUME Admissible
  PROVE  IInv /\ [Next]_vars => IInv'
<1> SUFFICES ASSUME IInv, [Next]_vars PROVE IInv'
  OBVIOUS
<1>1. ASSUME NEW x \in Processes, process_load_switch(x) PROVE IInv'
  BY <1>1, LoadInv
<1>2. ASSUME NEW size \in Sizes, syscall4_malloc(size) PROVE IInv'
  BY <1>2, MallocInv
<1>3. ASSUME NEW p \in {heap_block_to_address(b) : b \in Blocks} \cup {NULL}, syscall5_free(p)
      PROVE  IInv'
  BY <1>3, FreeInv
<1>4. CASE UNCHANGED vars
  BY <1>4, MoreTaken DEF IInv, TypeOK, vars
<1> QED BY <1>1, <1>2, <1>3, <1>4 DEF Next

-----------------------------------------------------------------------------
\* The strengthened invariant, for every heap, every number of processes and records,
\* and every set of admissible sizes.
THEOREM UserMemoryInvariant ==
  ASSUME Admissible
  PROVE  Spec => []IInv
<1>1. Init => IInv
  BY InvInit
<1>2. IInv /\ [Next]_vars => IInv'
  BY StepInv
<1> QED BY <1>1, <1>2, PTL DEF Spec

LEMMA OwnedInRecord ==
  ASSUME NEW x \in Processes, NEW f \in Owned(x)
  PROVE  \E i \in Indexes : InRecord(x, i) /\ f \in FramesOf(allocations[x][i])
BY DEF Owned, InRecord

\* The heap entry of a frame a process owns is the entry of one block, which is taken.
LEMMA EntryOfOwned ==
  ASSUME IInv, NEW x \in Processes, NEW f \in Owned(x) \cap HeapFrames
  PROVE  \E b \in Blocks : /\ f = FirstFrame + b
                           /\ EntryOf(f) = entries[b] /\ EntryOf(f)' = entries'[b]
                           /\ ~IsFree(entries[b])
<1>1. PICK b \in Blocks : f = FirstFrame + b
  BY FramesOfHeap
<1>2. EntryOf(f) = entries[b] /\ EntryOf(f)' = entries'[b]
  BY <1>1, BlockOfFrame DEF EntryOf
<1>3. ~IsFree(entries[b])
  BY <1>1, OwnedInRecord DEF IInv, RecordsAreTaken
<1> QED BY <1>1, <1>2, <1>3

\* The ownership of memory: no frame is in two allocations, whoever they belong to, none
\* of them holds a page directory, and the heap has every one of them as taken.
THEOREM UserMemoryOwnership ==
  ASSUME Admissible
  PROVE  Spec => []Ownership
<1>1. IInv => Ownership
  <2> SUFFICES ASSUME IInv PROVE Ownership
    OBVIOUS
  <2>1. \A x, y \in Processes, i, j \in Indexes :
          /\ <<x, i>> # <<y, j>>
          /\ allocations[x][i].p # NULL
          /\ allocations[y][j].p # NULL
          => FramesOf(allocations[x][i]) \cap FramesOf(allocations[y][j]) = {}
    BY DEF IInv, RecordsDisjoint, InRecord
  <2>2. \A x, y \in Processes : chunk[y] # NULL => PageOf(chunk[y]) \notin Owned(x)
    BY OwnedInRecord DEF IInv, ChunksNotInRecords
  <2>3. \A x \in Processes : \A f \in Owned(x) \cap HeapFrames : ~IsFree(EntryOf(f))
    BY EntryOfOwned
  <2> QED BY <2>1, <2>2, <2>3 DEF Ownership, OwnershipExclusive, IInv
<1> QED BY <1>1, UserMemoryInvariant, PTL

\* What a program can write to it has been given and has not freed.
THEOREM UserMemoryWriteIsolation ==
  ASSUME Admissible
  PROVE  Spec => []WriteIsolation
<1>1. IInv => WriteIsolation
  BY DEF IInv, WritableInRecord, WriteIsolation, Owned, InRecord
<1> QED BY <1>1, UserMemoryInvariant, PTL

\* free() takes away more pages than it is asked to, but never the page of the
\* page directory the kernel is about to switch to.
THEOREM UserMemoryChunkStaysMapped ==
  ASSUME Admissible
  PROVE  Spec => []ChunkStaysMapped
<1>1. IInv => ChunkStaysMapped
  BY DEF IInv
<1> QED BY <1>1, UserMemoryInvariant, PTL

\* What a step does not change of a process that is not in the foreground.
Untouched(x) ==
  /\ allocations'[x] = allocations[x]
  /\ directory'[x] = directory[x]
  /\ \A f \in Owned(x) \cap HeapFrames : EntryOf(f)' = EntryOf(f)

\* The scan never comes to a block that is taken, so marking leaves it as it is.
LEMMA ScanAvoidsTaken ==
  ASSUME NEW tab \in [Blocks -> 0 .. 255], NEW n \in Nat, heap_get_start_block(tab, n) >= 0,
         NEW b \in Blocks, ~IsFree(tab[b])
  PROVE  LET s     == heap_get_start_block(tab, n)
             taken == heap_mark_blocks_taken(tab, s, n)
         IN  /\ s \in Blocks /\ taken \in [Blocks -> 0 .. 255]
             /\ taken[b] = tab[b]
             /\ n # 0 => b # s
<1>1. PICK s \in Blocks :
        /\ s = heap_get_start_block(tab, n)
        /\ \A c \in Blocks : c \in s .. s + n - 1 => IsFree(tab[c])
  BY StartBlockIsFree
<1>2. b \notin s .. s + n - 1
  BY <1>1
<1>3. /\ heap_mark_blocks_taken(tab, s, n) \in [Blocks -> 0 .. 255]
      /\ \A c \in Blocks : c \notin s .. s + n - 1 => heap_mark_blocks_taken(tab, s, n)[c] = tab[c]
  BY MarkedIsTaken, SMTT(30)
<1>4. n # 0 => s \in s .. s + n - 1
  BY DEF Blocks
<1> QED BY <1>1, <1>2, <1>3, <1>4

\* A load and malloc leave the entries of taken blocks as they are.
LEMMA TakingKeepsTaken ==
  ASSUME Admissible, IInv,
         \/ \E x \in Processes : process_load_switch(x)
         \/ \E size \in Sizes : syscall4_malloc(size),
         NEW b \in Blocks, ~IsFree(entries[b])
  PROVE  entries'[b] = entries[b]
<1>0. entries \in [Blocks -> 0 .. 255]
  BY DEF IInv, TypeOK
<1>2. ASSUME NEW x \in Processes, process_load_switch(x) PROVE entries'[b] = entries[b]
  <2>1. /\ heap_get_start_block(entries, 1) >= 0
        /\ entries' = heap_mark_blocks_taken(entries, heap_get_start_block(entries, 1), 1)
    BY <1>2 DEF process_load_switch
  <2> QED BY <1>0, <2>1, ScanAvoidsTaken
<1>3. ASSUME NEW size \in Sizes, syscall4_malloc(size) PROVE entries'[b] = entries[b]
  <2>0. /\ process_malloc(current, size) /\ size \in 1 .. TableAddress
        /\ BlocksFor(size) \in Nat \ {0}
    <3>1. size \in 1 .. TableAddress /\ size \in Nat \ {0}
      BY HeapConfig DEF Admissible
    <3> QED BY <1>3, <3>1, BlocksOfSize DEF syscall4_malloc
  <2>1. CASE Allocate(current, size)
    <3> DEFINE s == heap_get_start_block(entries, BlocksFor(size))
               taken == heap_mark_blocks_taken(entries, s, BlocksFor(size))
    <3>1. s >= 0 /\ \/ entries' = taken
                    \/ entries' = heap_free(taken, heap_block_to_address(s))
      BY <2>1 DEF Allocate
    <3>2. s \in Blocks /\ taken \in [Blocks -> 0 .. 255] /\ taken[b] = entries[b] /\ b # s
      BY <1>0, <2>0, <3>1, ScanAvoidsTaken
    <3> HIDE DEF taken, s
    <3>3. heap_free(taken, heap_block_to_address(s)) = [c \in Blocks |-> IF c = s THEN FREE ELSE taken[c]]
      BY <3>2, FreeClearsOne
    <3> QED BY <3>1, <3>2, <3>3
  <2>2. CASE entries' = ClearLowMemory(entries, size)
    BY <1>0, <2>0, <2>2, ClearKeepsTable
  <2> QED BY <2>0, <2>1, <2>2 DEF process_malloc
<1> QED BY <1>2, <1>3

\* free changes the entry of one block of the process in the foreground.
LEMMA FreeKeepsOthers ==
  ASSUME Admissible, IInv, NEW p \in {heap_block_to_address(b) : b \in Blocks} \cup {NULL},
         syscall5_free(p), NEW x \in Processes, x # current,
         NEW b \in Blocks, FirstFrame + b \in Owned(x)
  PROVE  entries'[b] = entries[b]
<1>0. /\ process_free(current, p) /\ current \in Processes /\ TypeOK
      /\ entries \in [Blocks -> 0 .. 255]
  BY DEF IInv, TypeOK, syscall5_free
<1> DEFINE found == {i \in Indexes : allocations[current][i].p = p}
<1>1. CASE entries' = entries
  BY <1>1
<1>2. CASE entries' = heap_free(entries, p) /\ found # {} /\ p # NULL
  <2>1. PICK k \in Indexes : allocations[current][k].p = p
    BY <1>2
  <2>2. InRecord(current, k)
    BY <1>2, <2>1 DEF InRecord
  <2>3. PICK c \in Blocks : /\ p = heap_block_to_address(c)
                            /\ FirstFrame + c \in FramesOf(allocations[current][k])
    <3>1. PICK c \in Blocks, n \in Nat \ {0} :
            p = heap_block_to_address(c) /\ FramesOf(allocations[current][k]) = PagesFrom(c, n)
      BY <1>0, <2>1, <2>2, RecordFrames
    <3>2. FirstFrame + c \in PagesFrom(c, n)
      BY <3>1, HeapAligned DEF PagesFrom, Blocks
    <3> QED BY <3>1, <3>2
  <2>4. PICK i \in Indexes : InRecord(x, i) /\ FirstFrame + b \in FramesOf(allocations[x][i])
    BY OwnedInRecord
  <2>5. FramesOf(allocations[x][i]) \cap FramesOf(allocations[current][k]) = {}
    <3>1. <<x, i>> # <<current, k>>
      OBVIOUS
    <3> QED BY <1>0, <2>2, <2>4, <3>1 DEF IInv, RecordsDisjoint
  <2>6. b # c
    BY <2>3, <2>4, <2>5
  <2>7. entries' = [d \in Blocks |-> IF d = c THEN FREE ELSE entries[d]]
    BY <1>0, <1>2, <2>3, FreeClearsOne
  <2> QED BY <2>6, <2>7
<1> QED BY <1>0, <1>1, <1>2 DEF process_free, heap_free

\* A system call changes nothing of a process that is not in the foreground.
THEOREM UserMemoryOthersUntouched ==
  ASSUME Admissible
  PROVE  Spec => OthersUntouched
<1>1. IInv /\ [Next]_vars => [\A x \in Processes \ {current, current'} : Untouched(x)]_vars
  <2> SUFFICES ASSUME IInv, Next, NEW x \in Processes \ {current, current'}
               PROVE  Untouched(x)
    OBVIOUS
  <2>0. x \in Processes /\ x # current /\ x # current' /\ TypeOK
    BY DEF IInv
  <2>1. ASSUME NEW z \in Processes, process_load_switch(z) PROVE Untouched(x)
    <3>1. z # x /\ allocations'[x] = allocations[x] /\ directory'[x] = directory[x]
      BY <2>0, <2>1 DEF process_load_switch, TypeOK
    <3>2. \A f \in Owned(x) \cap HeapFrames : EntryOf(f)' = EntryOf(f)
      BY <2>0, <2>1, EntryOfOwned, TakingKeepsTaken
    <3> QED BY <3>1, <3>2 DEF Untouched
  <2>2. ASSUME NEW size \in Sizes, syscall4_malloc(size) PROVE Untouched(x)
    <3>1. allocations'[x] = allocations[x] /\ directory'[x] = directory[x]
      BY <2>0, <2>2 DEF syscall4_malloc, process_malloc, Allocate, TypeOK
    <3>2. \A f \in Owned(x) \cap HeapFrames : EntryOf(f)' = EntryOf(f)
      BY <2>0, <2>2, EntryOfOwned, TakingKeepsTaken
    <3> QED BY <3>1, <3>2 DEF Untouched
  <2>3. ASSUME NEW p \in {heap_block_to_address(b) : b \in Blocks} \cup {NULL}, syscall5_free(p)
        PROVE  Untouched(x)
    <3>1. allocations'[x] = allocations[x] /\ directory'[x] = directory[x]
      BY <2>0, <2>3 DEF syscall5_free, process_free, TypeOK
    <3>2. ASSUME NEW f \in Owned(x) \cap HeapFrames PROVE EntryOf(f)' = EntryOf(f)
      <4>1. PICK b \in Blocks : f = FirstFrame + b /\ EntryOf(f) = entries[b] /\ EntryOf(f)' = entries'[b]
        BY <2>0, EntryOfOwned
      <4>2. entries'[b] = entries[b]
        BY <2>0, <2>3, <4>1, FreeKeepsOthers
      <4> QED BY <4>1, <4>2
    <3> QED BY <3>1, <3>2 DEF Untouched
  <2> QED BY <2>1, <2>2, <2>3 DEF Next
<1> QED BY <1>1, UserMemoryInvariant, PTL DEF Spec, OthersUntouched, Untouched
=============================================================================
