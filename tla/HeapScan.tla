------------------------------ MODULE HeapScan ------------------------------
(***************************************************************************)
(* The loop of heap_get_start_block (heap.c), one iteration per step, run  *)
(* on every table and every requested count.  It is what the operator      *)
(* heap_get_start_block of HeapTable claims about the loop that is checked *)
(* here; Heap uses the operator.                                           *)
(***************************************************************************)
EXTENDS HeapTable

CONSTANTS
  EntryValues,  \* the values a table entry may hold
  Counts        \* the numbers of blocks asked for

ASSUME ScanInputs ==
  /\ EntryValues \subseteq 0 .. 255
  /\ Counts \subseteq Nat

VARIABLES
  table, total_blocks,  \* the arguments: table->entries and the count
  i, bc, bs,              \* the locals of the function
  pc                      \* "scan" in the loop, "done" behind it

scanVars == <<table, total_blocks, i, bc, bs, pc>>

ScanInit ==
  /\ table \in [Blocks -> EntryValues]
  /\ total_blocks \in Counts
  /\ i = 0
  /\ bc = 0
  /\ bs = -1
  /\ pc = "scan"

InLoop == pc = "scan" /\ i < TotalBlocks

\* mutant: `continue` does not advance
TakenBlockStays ==
  /\ InLoop
  /\ ~IsFree(table[i])
  /\ bc' = 0
  /\ bs' = -1
  /\ UNCHANGED <<table, total_blocks, i, pc>>

TakenBlock ==
  /\ InLoop
  /\ ~IsFree(table[i])
  /\ bc' = 0
  /\ bs' = -1
  /\ i' = i + 1
  /\ UNCHANGED <<table, total_blocks, pc>>

\* mutant: the loop goes on past a run that is long enough
FreeBlockNeverBreaks ==
  /\ InLoop
  /\ IsFree(table[i])
  /\ bs' = IF bs = -1 THEN i ELSE bs
  /\ bc' = bc + 1
  /\ i' = i + 1
  /\ UNCHANGED <<table, total_blocks, pc>>

FreeBlock ==
  /\ InLoop
  /\ IsFree(table[i])
  /\ bs' = IF bs = -1 THEN i ELSE bs
  /\ bc' = bc + 1
  /\ IF bc + 1 = total_blocks
       THEN pc' = "done" /\ i' = i
       ELSE pc' = pc     /\ i' = i + 1
  /\ UNCHANGED <<table, total_blocks>>

EndOfTable ==
  /\ pc = "scan"
  /\ i = TotalBlocks
  /\ pc' = "done"
  /\ UNCHANGED <<table, total_blocks, i, bc, bs>>

ScanNext == TakenBlock \/ FreeBlock \/ EndOfTable

ScanSpec == ScanInit /\ [][ScanNext]_scanVars
FairScanSpec == ScanSpec /\ WF_scanVars(ScanNext)

\* What the function returns once the loop is over.
result == IF bs = -1 THEN -ENOMEM ELSE bs

-----------------------------------------------------------------------------
ScanTypeOK ==
  /\ table \in [Blocks -> 0 .. 255]
  /\ total_blocks \in Nat
  /\ i \in 0 .. TotalBlocks
  /\ bc \in Nat
  /\ bs \in Blocks \cup {-1}
  /\ pc \in {"scan", "done"}

\* The run the loop is counting: it ends at i, is free, and cannot be extended
\* to the left.
CurrentRun ==
  pc = "scan" =>
    /\ bs = -1 => bc = 0 /\ (i > 0 => ~IsFree(table[i - 1]))
    /\ bs # -1 => /\ bc > 0
                  /\ bs + bc = i
                  /\ FreeRun(table, bs, bc)
                  /\ bs > 0 => ~IsFree(table[bs - 1])

\* The loop has not walked past a run that is long enough.
NothingMissed ==
  pc = "scan" /\ total_blocks > 0 =>
    /\ bc < total_blocks
    /\ \A s \in Blocks : s + total_blocks <= i => ~FreeRun(table, s, total_blocks)

\* When the loop is over its result is the first run that is long enough, or
\* else the start of the free tail of the table, or else -ENOMEM.
ScanResult == pc = "done" => result = heap_get_start_block(table, total_blocks)

\* The loop ends for every table and every count.
ScanEnds == <>(pc = "done")
=============================================================================
