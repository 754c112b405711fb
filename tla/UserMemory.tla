----------------------------- MODULE UserMemory -----------------------------
(***************************************************************************)
(* The memory a program asks for: process_malloc and process_free          *)
(* (task/process.c) with the kernel heap below them and the page           *)
(* directories (memory/paging/paging.c) that let programs reach it.        *)
(*                                                                         *)
(* A heap block and a page have the same size.  Only the process in the    *)
(* foreground makes system calls, each of them one step.                   *)
(***************************************************************************)
EXTENDS HeapTable

CONSTANTS
  Processes,       \* the slots of processes[]
  None,            \* no process
  MaxAllocations,  \* PHIX_MAX_PROGRAM_ALLOCATIONS
  Sizes,           \* the sizes in bytes that programs ask for
  LastPage         \* bound: no page behind this one is looked at

ASSUME UserMemoryConfig ==
  /\ None \notin Processes
  /\ MaxAllocations \in Nat
  /\ Sizes \subseteq Nat
  /\ LastPage \in Nat
  /\ HeapEnd <= (LastPage + 1) * BlockSize  \* the heap is in the pages looked at

Pages   == 0 .. LastPage
Indexes == 0 .. MaxAllocations - 1
PageOf(p) == p \div BlockSize

VARIABLES
  entries,      \* kernel_heap_table.entries
  allocations,  \* process->allocations
  directory,    \* process->task->page_directory
  chunk,        \* where that page directory is kept, in the kernel heap
  current       \* current_process

vars == <<entries, allocations, directory, chunk, current>>

Unused == [p |-> NULL, size |-> 0]

\* paging_new_chunk(): memory is seen where it is, and is not writable.
IdentityMap == [v \in Pages |-> [frame |-> v, access |-> "read"]]

Init ==
  /\ entries = FreshTable
  /\ allocations = [x \in Processes |-> [i \in Indexes |-> Unused]]
  /\ directory = [x \in Processes |-> IdentityMap]
  /\ chunk = [x \in Processes |-> NULL]
  /\ current = None

-----------------------------------------------------------------------------
PAGE_ALIGN(x) == ALIGN_BLOCK(x)
PAGING_ALIGNED(x) == x % BlockSize = 0

\* Consecutive pages from vaddr on show the frames from paddr up to pend.
paging_map_to(dir, vaddr, paddr, pend, access) ==
  LET count == (pend - paddr) \div BlockSize
      first == PageOf(vaddr)
  IN  IF ~PAGING_ALIGNED(vaddr) \/ ~PAGING_ALIGNED(paddr) \/ ~PAGING_ALIGNED(pend) \/ pend < paddr
        THEN dir
        ELSE [v \in Pages |->
                IF v \in first .. first + count - 1
                  THEN [frame |-> PageOf(paddr) + v - first, access |-> access]
                  ELSE dir[v]]

(***************************************************************************)
(* A process is loaded and takes the foreground for good.  Of everything a *)
(* load allocates only the last single block is kept apart, the chunk with *)
(* the page directory: with first fit no block below it is free then.  A   *)
(* load that does not find the memory is the business of Exec.             *)
(***************************************************************************)
process_load_switch(x) ==
  LET start == heap_get_start_block(entries, 1) IN
  /\ chunk[x] = NULL
  /\ start >= 0
  /\ entries' = heap_mark_blocks_taken(entries, start, 1)
  /\ chunk' = [chunk EXCEPT ![x] = heap_block_to_address(start)]
  /\ allocations' = [allocations EXCEPT ![x] = [i \in Indexes |-> Unused]]
  /\ directory' = [directory EXCEPT ![x] = IdentityMap]
  /\ current' = x

FreeIndexes(x) == {i \in Indexes : allocations[x][i].p = NULL}

\* mutant: the memory is mapped before a free index is found
malloc_maps_first(x, size) ==
  LET n     == BlocksFor(size)
      start == heap_get_start_block(entries, n)
      p     == heap_block_to_address(start)
      taken == heap_mark_blocks_taken(entries, start, n)
  IN  /\ start >= 0
      /\ directory' = [directory EXCEPT ![x] = paging_map_to(@, p, p, PAGE_ALIGN(p + size), "write")]
      /\ IF FreeIndexes(x) = {}
           THEN entries' = heap_free(taken, p) /\ UNCHANGED allocations
           ELSE /\ entries' = taken
                /\ allocations' = [allocations EXCEPT ![x][Least(FreeIndexes(x))] = [p |-> p, size |-> size]]

\* process_malloc() when the heap has a block for it.
Allocate(x, size) ==
  LET n     == BlocksFor(size)
      start == heap_get_start_block(entries, n)
      p     == heap_block_to_address(start)
      taken == heap_mark_blocks_taken(entries, start, n)
  IN  /\ start >= 0
      /\ IF FreeIndexes(x) = {}
           THEN /\ entries' = heap_free(taken, p)
                /\ UNCHANGED <<allocations, directory>>
           ELSE /\ entries' = taken
                /\ directory' = [directory EXCEPT ![x] =
                                   paging_map_to(@, p, p, PAGE_ALIGN(p + size), "write")]
                /\ allocations' = [allocations EXCEPT ![x][Least(FreeIndexes(x))] =
                                     [p |-> p, size |-> size]]

process_malloc(x, size) ==
  /\ \/ Allocate(x, size)
     \/ /\ heap_get_start_block(entries, BlocksFor(size)) < 0
        /\ entries' = ClearLowMemory(entries, size)
        /\ UNCHANGED <<allocations, directory>>
  /\ UNCHANGED <<chunk, current>>

\* mutant: memory is freed without looking it up among the allocations
free_without_lookup(x, p) ==
  LET mine == {i \in Indexes : allocations[x][i].p = p} IN
  /\ allocations' = [allocations EXCEPT ![x] = [i \in Indexes |-> IF i \in mine THEN Unused ELSE @[i]]]
  /\ entries' = heap_free(entries, p)
  /\ directory' = [directory EXCEPT ![x] = paging_map_to(@, p, p, p + BlockSize, "none")]
  /\ UNCHANGED <<chunk, current>>

\* mutant: the mapping is left in place
free_without_unmap(x, p) ==
  LET found == {i \in Indexes : allocations[x][i].p = p} IN
  /\ IF found = {} THEN UNCHANGED <<entries, allocations>>
     ELSE /\ allocations' = [allocations EXCEPT ![x][Least(found)] = Unused]
          /\ entries' = heap_free(entries, p)
  /\ UNCHANGED <<directory, chunk, current>>

\* The frames of the pages that are taken away are counted from 0 on to the
\* end of the allocation, so that more pages than its own are taken away.
\* free(NULL) finds an unused index and does nothing.
process_free(x, p) ==
  LET found == {i \in Indexes : allocations[x][i].p = p}
      index == Least(found)
  IN  /\ IF found = {} THEN UNCHANGED <<entries, allocations, directory>>
         ELSE /\ directory' = [directory EXCEPT ![x] =
                   paging_map_to(@, p, 0, PAGE_ALIGN(p + allocations[x][index].size), "none")]
              /\ allocations' = [allocations EXCEPT ![x][index] = Unused]
              /\ entries' = heap_free(entries, p)
      /\ UNCHANGED <<chunk, current>>

\* A program may pass free any pointer it likes.
syscall4_malloc(size) == current # None /\ process_malloc(current, size)
syscall5_free(p)      == current # None /\ process_free(current, p)

Next ==
  \/ \E x \in Processes : process_load_switch(x)
  \/ \E size \in Sizes : syscall4_malloc(size)
  \/ \E p \in {heap_block_to_address(b) : b \in Blocks} \cup {NULL} : syscall5_free(p)

Spec == Init /\ [][Next]_vars

-----------------------------------------------------------------------------
AllocationRecord == [p : {heap_block_to_address(b) : b \in Blocks}, size : Sizes] \cup {Unused}

TypeOK ==
  /\ entries \in [Blocks -> 0 .. 255]
  /\ allocations \in [Processes -> [Indexes -> AllocationRecord]]
  /\ directory \in [Processes -> [Pages -> [frame : Pages, access : {"none", "read", "write"}]]]
  /\ chunk \in [Processes -> {heap_block_to_address(b) : b \in Blocks} \cup {NULL}]
  /\ current \in Processes \cup {None}

\* The frames an allocation covers, and those a process has been given.
FramesOf(a) == PageOf(a.p) .. PageOf(a.p) + BlocksFor(a.size) - 1
Owned(x)    == UNION {FramesOf(allocations[x][i]) : i \in {j \in Indexes : allocations[x][j].p # NULL}}

HeapFrames == {PageOf(heap_block_to_address(b)) : b \in Blocks}
EntryOf(f) == entries[heap_address_to_block(f * BlockSize)]

\* No two allocations share a frame, whoever they belong to, none covers a
\* page directory, and the heap knows every frame of theirs as taken.
OwnershipExclusive ==
  /\ \A x, y \in Processes, i, j \in Indexes :
       /\ <<x, i>> # <<y, j>>
       /\ allocations[x][i].p # NULL
       /\ allocations[y][j].p # NULL
       => FramesOf(allocations[x][i]) \cap FramesOf(allocations[y][j]) = {}
  /\ \A x, y \in Processes : chunk[y] # NULL => PageOf(chunk[y]) \notin Owned(x)
  /\ \A x \in Processes : \A f \in Owned(x) \cap HeapFrames : ~IsFree(EntryOf(f))

\* All types, and memory that belongs to one process at most.
Ownership == TypeOK /\ OwnershipExclusive

\* A program can write to a frame only while it has been given it: nothing
\* that was freed stays writable, nothing of another process or of the kernel.
WriteIsolation ==
  \A x \in Processes, v \in Pages :
    directory[x][v].access = "write" => directory[x][v].frame \in Owned(x)

\* The kernel reads the page directory of a task through that directory itself
\* (paging_switch), so no free() may take its page away, although free() takes
\* away many more pages than it is asked to.
ChunkStaysMapped ==
  \A x \in Processes : chunk[x] # NULL => directory[x][PageOf(chunk[x])].access # "none"

\* A system call never changes anything of a process that is not in the
\* foreground: its records, its mappings and the heap entries of its memory.
OthersUntouched ==
  [][\A x \in Processes \ {current, current'} :
       /\ allocations'[x] = allocations[x]
       /\ directory'[x] = directory[x]
       /\ \A f \in Owned(x) \cap HeapFrames : EntryOf(f)' = EntryOf(f)]_vars

-----------------------------------------------------------------------------
\* process.h, "The memory alloc'd by the process": what malloc gave and free
\* did not take back can be written.
MappedWhileAllocated ==
  \A x \in Processes : \A f \in Owned(x) \cap Pages : directory[x][f].access = "write"
=============================================================================
