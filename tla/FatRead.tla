------------------------------ MODULE FatRead -------------------------------
(***************************************************************************)
(* Reading an open file of the FAT16 driver: seek, and the read that       *)
(* follows the clusters of the file.  The streams are byte streams, which  *)
(* DiskStream implements.                                                  *)
(***************************************************************************)
EXTENDS Integers, Sequences, SequencesExt

CONSTANTS SectorSize, SectorsPerCluster,
          ReservedSectors, FatCopies, SectorsPerFat,  \* fields of the header
          RootEntries, EntryBytes,  \* the root directory, size of an entry (32)
          DiskSectors,
          Clusters,         \* the clusters of the disk
          EndMark,          \* the table entry of the last cluster of a file
          ErrorEntries,     \* 0, 0xFF0, 0xFF6, 0xFF7, 0xFF8 and 0xFFF
          FileSizes, Offsets, BlockSizes, BlockCounts,  \* what is tried
          Dest, Addresses   \* the buffer of a read, and memory around it

ASSUME LayoutAssumption ==
  /\ {SectorSize, SectorsPerCluster, ReservedSectors, FatCopies, SectorsPerFat,
      RootEntries, EntryBytes, DiskSectors} \subseteq Nat \ {0}
  /\ Clusters \cup {EndMark} \subseteq Nat \ {0, 1} /\ 0 \in ErrorEntries
  /\ UNION {Offsets, BlockSizes, BlockCounts, Addresses} \subseteq Nat
  /\ FileSizes \subseteq Nat \ {0}
  /\ Dest \in Nat

VARIABLES file,  \* the file that is open: its clusters, in order, and its size
          fpos,  \* desc->pos
          pos,   \* where cluster_read_stream is
          mem,   \* as in ByteStream
          rd     \* the read that is going on or was made last

vars == <<file, fpos, pos, mem, rd>>

Stream == INSTANCE ByteStream WITH Requests <- {}

ClusterBytes == SectorsPerCluster * SectorSize
EIO == -1

\* fat16_get_root_directory: the root directory lies behind the copies of the
\* table, and the data behind its last sector (ending_sector_pos).
DataSector ==
  LET root_dir_sector_pos == FatCopies * SectorsPerFat + ReservedSectors
      root_dir_size == RootEntries * EntryBytes
      total_sectors == root_dir_size \div SectorSize
                         + (IF root_dir_size % SectorSize # 0 THEN 1 ELSE 0)
  IN root_dir_sector_pos + total_sectors

Whence == {"SEEK_SET", "SEEK_CUR", "SEEK_END"}
Fresh == [a \in Addresses |-> -1]

\* The allocation table as it is on the disk.
fat == [c \in 0..(CHOOSE m \in Clusters : \A d \in Clusters : d <= m) |->
          IF \E i \in DOMAIN file.chain : file.chain[i] = c
          THEN LET i == CHOOSE j \in DOMAIN file.chain : file.chain[j] = c
               IN IF i = Len(file.chain) THEN EndMark ELSE file.chain[i + 1]
          ELSE 0]

\* Sixteen bits of the disk that do not belong to the table can be any entry.
Entries == Clusters \cup ErrorEntries \cup {EndMark}

TypeOK ==
  /\ fpos \in Nat /\ pos \in Nat
  /\ mem \in [Addresses -> Nat \cup {-1}]
  /\ rd.phase \in {"none", "part", "done", "failed", "hang"}
  /\ rd.total \in Nat /\ rd.offset \in Nat
  /\ rd.block \in 0..rd.n

NoRead == [phase |-> "none", from |-> 0, size |-> 0, n |-> 0,
           block |-> 0, offset |-> 0, total |-> 0, out |-> Dest]

Init ==
  /\ \E size \in FileSizes :
     \E chain \in [1..((size + ClusterBytes - 1) \div ClusterBytes) -> Clusters] :
       /\ IsInjective(chain)
       /\ file = [chain |-> chain, size |-> size]
  /\ fpos = 0 /\ pos = 0
  /\ mem = Fresh
  /\ rd = NoRead
-----------------------------------------------------------------------------
\* fat16_seek, which tests the offset in every mode alike.  SEEK_END and an offset
\* behind the file are refused and change nothing.
fat16_seek(offset, whence) ==
  /\ rd.phase # "part" /\ rd.phase # "hang"
  /\ fpos < 2 * ClusterBytes  \* bound: seeks from the current position add up
  /\ offset < file.size
  /\ \/ whence = "SEEK_SET" /\ fpos' = offset
     \/ whence = "SEEK_CUR" /\ fpos' = fpos + offset
  /\ UNCHANGED <<file, pos, mem, rd>>

\* fread and fat16_read: n blocks of the same size, into a buffer from kzalloc.
fat16_read(size, n) ==
  /\ rd.phase # "part" /\ rd.phase # "hang"
  /\ size * n # 0
  /\ Dest + size * n - 1 \in Addresses
  /\ rd' = [phase |-> "part", from |-> fpos, size |-> size, n |-> n,
            block |-> 0, offset |-> fpos, total |-> size, out |-> Dest]
  /\ mem' = Fresh
  /\ UNCHANGED <<file, fpos, pos>>

\* mutant: the first data cluster is number 0
ClusterToSectorFromZero(cluster) == DataSector + cluster * SectorsPerCluster

fat16_cluster_to_sector(cluster) == DataSector + (cluster - 2) * SectorsPerCluster

\* fat16_get_fat_entry: the start of the table is multiplied with the offset of
\* the entry.  Where that position is in the table it reads an entry of it.
fat16_get_fat_entry(cluster) ==
  LET position == ReservedSectors * SectorSize * (cluster * 2)
      behind   == position - ReservedSectors * SectorSize
  IN IF behind % 2 = 0 /\ behind \div 2 \in DOMAIN fat
     THEN {fat[behind \div 2]} ELSE Entries

\* fat16_get_cluster_for_offset: the loop is left after its first iteration.
fat16_get_cluster_for_offset(cluster, offset) ==
  IF offset \div ClusterBytes = 0 THEN {cluster}
  ELSE {IF e \in ErrorEntries THEN EIO ELSE e : e \in fat16_get_fat_entry(cluster)}

\* mutant: always a whole cluster
PortionWhole(total) == ClusterBytes

\* total_to_read, which does not look at the offset inside of the cluster
Portion(total) == IF total > ClusterBytes THEN ClusterBytes ELSE total

\* The sectors behind the end of the disk are never delivered.
OnDisk(start, n) == IF start + n <= DiskSectors * SectorSize THEN n
                    ELSE IF start >= DiskSectors * SectorSize THEN 0
                    ELSE DiskSectors * SectorSize - start

\* The next of the blocks, when this one is complete.
NextPart(n) ==
  IF rd.total > n
    THEN [rd EXCEPT !.offset = @ + n, !.total = @ - n, !.out = @ + n]
    ELSE [rd EXCEPT !.block = @ + 1, !.out = @ + n,
            !.offset = rd.from + (rd.block + 1) * rd.size,
            !.total = IF rd.block + 1 = rd.n THEN rd.total - n ELSE rd.size,
            !.phase = IF rd.block + 1 = rd.n THEN "done" ELSE @]

\* One level of fat16_read_internal_from_stream.
fat16_read_internal_from_stream ==
  /\ rd.phase = "part"
  /\ \E cluster \in fat16_get_cluster_for_offset(file.chain[1], rd.offset) :
       \/ /\ cluster = EIO
          /\ rd' = [rd EXCEPT !.phase = "failed"]
          /\ UNCHANGED <<pos, mem>>
       \/ LET start == fat16_cluster_to_sector(cluster) * SectorSize
                         + (rd.offset % ClusterBytes)
              n     == Portion(rd.total)
              there == OnDisk(start, n)
          IN /\ cluster # EIO
             /\ mem' = Stream!Copied(mem, rd.out, start, there)
             /\ pos' = start + there
             /\ rd' = IF there < n THEN [rd EXCEPT !.phase = "hang"] ELSE NextPart(n)
  /\ UNCHANGED <<file, fpos>>

Next ==
  \/ \E o \in Offsets, w \in Whence : fat16_seek(o, w)
  \/ \E size \in BlockSizes, n \in BlockCounts : fat16_read(size, n)
  \/ fat16_read_internal_from_stream

\* The kernel runs on with interrupts off.
Spec == Init /\ [][Next]_vars /\ WF_vars(fat16_read_internal_from_stream)
-----------------------------------------------------------------------------
(* Properties *)

\* The bytes of the file, as its chain of clusters says.
ByteOfFile(o) ==
  LET cluster == file.chain[o \div ClusterBytes + 1]
  IN (DataSector + (cluster - 2) * SectorsPerCluster) * SectorSize + (o % ClusterBytes)

InBuffer(a) == a \in Dest..(Dest + rd.size * rd.n - 1)
Wanted == {a \in Addresses : InBuffer(a)}
HoldsFile == \A a \in Wanted : mem[a] = ByteOfFile(rd.from + (a - Dest))

InFirstCluster == rd.from + rd.size * rd.n <= ClusterBytes

\* A read inside of the first cluster, whatever the blocks it is asked for in,
\* gives the bytes of the file.
FirstClusterExact == rd.phase = "done" /\ InFirstCluster => HoldsFile

\* Whatever cluster the driver takes the bytes from, it writes to the buffer of
\* the caller and nowhere else: n blocks of the size are exactly filled.
StaysInBuffer ==
  \A a \in Addresses \ Wanted : mem[a] = -1

\* All types, and the buffer of the caller for the only memory that is written.
ReadInv == TypeOK /\ StaysInBuffer

\* A read inside of the first cluster comes back, with success.
ReadReturns == (rd.phase = "part" /\ InFirstCluster) ~> (rd.phase = "done")

\* fread as file.h has it: n blocks of the file, for every range of the file.
ReadsFile ==
  rd.phase = "done" /\ rd.from + rd.size * rd.n <= file.size => HoldsFile
=============================================================================
