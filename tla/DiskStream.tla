----------------------------- MODULE DiskStream -----------------------------
(***************************************************************************)
(* The disk stream of disk/streamer.c over the sector reads of disk/disk.c *)
(* A read is one sector at a time: ask the controller, wait until it says  *)
(* that the data is there, copy what is wanted of the sector, and call the *)
(* function again for the rest.                                            *)
(***************************************************************************)
EXTENDS Integers

CONSTANTS SectorSize,   \* PHIX_SECTOR_SIZE
          Addresses,    \* memory
          Dests,        \* where reads may put their first byte
          Totals,       \* how many bytes they may ask for
          Seeks,        \* positions that may be sought
          DiskBytes,    \* bound: the end of the disk
          StackLevels   \* nested calls the kernel stack has room for

ASSUME SectorAssumption == SectorSize \in Nat \ {0}
ASSUME AddressAssumption == Addresses \subseteq Int
ASSUME RequestAssumption == Dests \subseteq Int /\ Totals \subseteq Nat
ASSUME SeekAssumption == Seeks \subseteq Nat
ASSUME StackAssumption == StackLevels \in Nat \ {0}
ASSUME DiskAssumption == DiskBytes \in Nat

VARIABLES pos,     \* stream->pos
          mem,     \* a byte of the disk is its position, any other byte is -1
          phase,   \* what the kernel does: "idle", "ask", "wait" or "overflow"
          out,     \* parameters of the innermost diskstreamer_read
          total,
          level,   \* how many of them are on the stack
          lba,     \* what the controller was asked for
          ready,   \* DRQ, bit 3 of the status port
          call     \* history: the read that was asked for, and memory before it

streamVars == <<pos, mem, phase, out, total, level, lba, ready, call>>

Requests == [dest : Dests, total : Totals]
Byte == Nat \cup {-1}

StreamTypeOK ==
  /\ pos \in Nat
  /\ mem \in [Addresses -> Byte]
  /\ phase \in {"idle", "ask", "wait", "overflow"}
  /\ out \in Int
  /\ total \in Nat
  /\ level \in 0..StackLevels
  /\ lba \in Nat
  /\ ready \in BOOLEAN
  /\ call \in [start : Nat, dest : Int, total : Nat, before : [Addresses -> Byte]]

StreamInit ==
  /\ pos = 0
  /\ mem = [a \in Addresses |-> -1]
  /\ phase = "idle"
  /\ out = 0 /\ total = 0 /\ level = 0
  /\ lba = 0 /\ ready = FALSE
  /\ call = [start |-> 0, dest |-> 0, total |-> 0, before |-> mem]
-----------------------------------------------------------------------------
\* diskstreamer_seek
diskstreamer_seek(p) ==
  /\ phase = "idle"
  /\ pos' = p
  /\ UNCHANGED <<mem, phase, out, total, level, lba, ready, call>>

\* Someone calls diskstreamer_read.
ReadCall(r) ==
  /\ phase = "idle"
  /\ pos + r.total <= DiskBytes
  /\ phase' = "ask"
  /\ out' = r.dest /\ total' = r.total /\ level' = 1
  /\ call' = [start |-> pos, dest |-> r.dest, total |-> r.total, before |-> mem]
  /\ UNCHANGED <<pos, mem, lba, ready>>

\* disk_read_sector, the command: an lba of 28 bits goes to the ports unchanged.
Command ==
  /\ phase = "ask"
  /\ phase' = "wait"
  /\ lba' = pos \div SectorSize
  /\ ready' = FALSE
  /\ UNCHANGED <<pos, mem, out, total, level, call>>

\* The controller has read the sector.
ControllerReady ==
  /\ phase = "wait" /\ ~ready
  /\ ready' = TRUE
  /\ UNCHANGED <<pos, mem, phase, out, total, level, lba, call>>

\* The sector as it lies in buf; what is behind buf is some other byte.
buf(i) == IF i < SectorSize THEN lba * SectorSize + i ELSE -1

\* mutant: the part of the sector before the position is not taken off
ChunkWholeSector(offset, n) == IF n >= SectorSize THEN SectorSize ELSE n

\* mutant: the chunk ends one byte before the end of the sector
ChunkShort(offset, n) ==
  IF offset + n >= SectorSize THEN SectorSize - 1 - offset ELSE n

\* total_to_read: the part of the request that this sector holds.
Chunk(offset, n) ==
  IF offset + n >= SectorSize THEN SectorSize - offset ELSE n

\* The sector is in buf: the bytes wanted are copied, the stream moves on, and
\* the function returns or calls itself.
Copy ==
  LET offset == pos % SectorSize
      n == Chunk(offset, total)
  IN /\ phase = "wait" /\ ready
     /\ mem' = [a \in Addresses |-> IF a \in out..(out + n - 1)
                                    THEN buf(offset + (a - out))
                                    ELSE mem[a]]
     /\ out' = out + n
     /\ pos' = pos + n
     /\ total' = total - n
     /\ \/ /\ total = n
           /\ phase' = "idle" /\ level' = 0
        \/ /\ total # n /\ level < StackLevels
           /\ phase' = "ask" /\ level' = level + 1
        \/ /\ total # n /\ level = StackLevels
           /\ phase' = "overflow" /\ UNCHANGED level
     /\ UNCHANGED <<lba, ready, call>>

Kernel == Command \/ Copy

StreamNext ==
  \/ \E p \in Seeks : diskstreamer_seek(p)
  \/ \E r \in Requests : ReadCall(r)
  \/ Kernel
  \/ ControllerReady

\* The kernel runs on with interrupts off, and the controller answers.
StreamFairness == WF_streamVars(Kernel) /\ WF_streamVars(ControllerReady)

StreamSpec == StreamInit /\ [][StreamNext]_streamVars
FairStreamSpec == StreamSpec /\ StreamFairness
-----------------------------------------------------------------------------
(* Properties *)

\* During a read the position, the pointer and the rest agree, and memory holds
\* the bytes read so far and is otherwise as it was before the call: what the
\* recursion of diskstreamer_read relies on at every level.
PartlyRead ==
  phase \in {"ask", "wait"} =>
    /\ pos - call.start = call.total - total
    /\ out - call.dest = call.total - total
    /\ \A a \in Addresses :
         mem[a] = IF a \in call.dest..(out - 1)
                  THEN call.start + (a - call.dest) ELSE call.before[a]

\* A read needs one level of diskstreamer_read for every sector it touches, so
\* that the stack suffices for requests of that many sectors.
Touched(from, n) == IF n = 0 THEN 1
                    ELSE (from + n - 1) \div SectorSize - from \div SectorSize + 1
StackSuffices ==
  phase = "overflow" => Touched(call.start, call.total) > StackLevels

\* diskstreamer_read is a read of a byte stream: it copies exactly the bytes
\* that were asked for, whatever sectors they lie in, and moves on by as many.
Bytes == INSTANCE ByteStream WITH
           pos <- IF phase = "idle" THEN pos ELSE call.start,
           mem <- IF phase = "idle" THEN mem ELSE call.before
RefinesByteStream == Bytes!Spec

\* A read that the stack has room for returns.
ReadReturns ==
  (phase = "ask" /\ Touched(call.start, call.total) <= StackLevels) ~> phase = "idle"
=============================================================================
