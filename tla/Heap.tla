-------------------------------- MODULE Heap --------------------------------
(***************************************************************************)
(* The kernel heap: heap_malloc, heap_free and their kernel wrappers       *)
(* kmalloc, kzalloc, kfree.  Interrupts are off while the kernel runs, so  *)
(* each operation is one step.                                             *)
(***************************************************************************)
EXTENDS HeapTable

CONSTANT Sizes  \* the sizes in bytes that callers ask for

ASSUME SizesAreNaturals == Sizes \subseteq Nat

(***************************************************************************)
(* Nothing in kmalloc and kzalloc rejects these requests: a request for    *)
(* nothing gets a block that stays free, and the memset of a failed        *)
(* kzalloc() runs over the table when the request reaches that far.  The   *)
(* promise of the allocator is kept for the other sizes.                   *)
(***************************************************************************)
Admissible == \A size \in Sizes : size \in 1 .. TableAddress

VARIABLES
  entries,  \* kernel_heap_table.entries
  live      \* history: the allocations handed out and not yet freed

vars == <<entries, live>>

Allocation == [p : {heap_block_to_address(b) : b \in Blocks}, size : Sizes]

\* The blocks an allocation covers; the last may lie behind the table.
First(a)    == heap_address_to_block(a.p)
BlocksOf(a) == First(a) .. First(a) + BlocksFor(a.size) - 1

Init ==
  /\ entries = FreshTable
  /\ live = {}

\* The common part of kmalloc and kzalloc when the scan finds a block.
heap_malloc(size) ==
  LET n     == BlocksFor(size)
      start == heap_get_start_block(entries, n)
  IN  /\ start >= 0
      /\ entries' = heap_mark_blocks_taken(entries, start, n)
      /\ live' = live \cup {[p |-> heap_block_to_address(start), size |-> size]}

NoBlock(size) == heap_get_start_block(entries, BlocksFor(size)) < 0

kmalloc(size) ==
  \/ heap_malloc(size)
  \/ NoBlock(size) /\ UNCHANGED vars

\* kzalloc() clears the memory without looking at the pointer.
kzalloc(size) ==
  \/ heap_malloc(size)
  \/ /\ NoBlock(size)
     /\ entries' = ClearLowMemory(entries, size)
     /\ UNCHANGED live

kfree(a) ==
  /\ entries' = heap_free(entries, a.p)
  /\ live' = live \ {a}

Next ==
  \/ \E size \in Sizes : kmalloc(size)
  \/ \E size \in Sizes : kzalloc(size)
  \/ \E a \in live : kfree(a)

Spec == Init /\ [][Next]_vars

-----------------------------------------------------------------------------
TypeOK ==
  /\ entries \in [Blocks -> 0 .. 255]
  /\ live \subseteq Allocation

\* Every block of a live allocation is marked taken in the table, so that
\* heap_get_start_block() cannot hand it out again.
LiveIsTaken ==
  \A a \in live : \A b \in BlocksOf(a) \cap Blocks : ~IsFree(entries[b])

\* No two live allocations share a byte, although a run that is too short is
\* handed out at the end of the heap.
LiveDisjoint ==
  \A a, b \in live : a # b =>
    (a.p .. a.p + a.size - 1) \cap (b.p .. b.p + b.size - 1) = {}

\* An operation on one allocation never changes the table entries of another
\* one: what a live allocation's entries say is fixed until it is freed.
NeighboursUntouched ==
  [][\A a \in live \cap live' : \A b \in BlocksOf(a) \cap Blocks :
       entries'[b] = entries[b]]_vars

\* The heap implements the allocator the rest of the kernel relies on.
Promise == INSTANCE Allocator
             WITH Addresses <- {heap_block_to_address(b) : b \in Blocks}
ImplementsAllocator == Promise!Spec

-----------------------------------------------------------------------------
\* heap.h, "@param end: The end of the heap": an allocation ends before it.
WithinHeap == \A a \in live : a.p + a.size <= HeapEnd

\* kheap.h, "Free memory on the kernel heap": a block that is taken belongs to
\* an allocation that was not freed.
FreeReturnsEveryBlock ==
  \A b \in Blocks : ~IsFree(entries[b]) => \E a \in live : b \in BlocksOf(a)
=============================================================================
