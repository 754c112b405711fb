--------------------------- MODULE FatReadProofs ---------------------------
(***************************************************************************)
(* A read of an open file fills the buffer of the caller and nothing else, *)
(* and inside of the first cluster with the bytes of the file, for every   *)
(* layout of the disk and every read.                                      *)
(***************************************************************************)
EXTENDS FatRead, TLAPS

(***************************************************************************)
(* The invariant.  The recursion over the parts of a read keeps three      *)
(* places that must move together: where in the file it is, where in the   *)
(* buffer, and how much of the block is left.                              *)
(***************************************************************************)
Chained ==
  /\ file.size \in Nat
  /\ Len(file.chain) \in Nat \ {0} /\ file.chain \in [1..Len(file.chain) -> Clusters]

Read == [phase : {"none", "part", "done", "failed", "hang"}, from : Nat, size : Nat, n : Nat,
         block : Nat, offset : Nat, total : Nat, out : Nat]

\* How far the read is, in bytes.
Progress == rd.block * rd.size + (rd.size - rd.total)

PlacesAgree ==
  /\ rd.phase = "part" => /\ rd.block < rd.n /\ rd.total \in 1..rd.size
                          /\ rd.offset = rd.from + Progress
                          /\ rd.out = Dest + Progress
  /\ rd.phase = "done" => rd.out = Dest + rd.size * rd.n

\* What was written so far are bytes of the file.
ExactSoFar ==
  rd.phase \in {"part", "done"} /\ InFirstCluster =>
    \A a \in Addresses : a \in Dest..(rd.out - 1) => mem[a] = ByteOfFile(rd.from + (a - Dest))

IInv == /\ TypeOK
        /\ Chained
        /\ rd \in Read
        /\ PlacesAgree
        /\ StaysInBuffer
        /\ ExactSoFar
-----------------------------------------------------------------------------
(* Numbers.                                                                *)

LEMMA Products ==
  ASSUME NEW a \in Nat, NEW b \in Nat
  PROVE  /\ a * b \in Nat
         /\ a * b # 0 => a # 0 /\ b # 0
         /\ (a + 1) * b = a * b + b
         /\ \A c \in Nat : a <= c => a * b <= c * b
<1>1. a * b \in Nat /\ (a * b # 0 => a # 0 /\ b # 0) /\ (a + 1) * b = a * b + b
  OBVIOUS
<1>2. ASSUME NEW c \in Nat, a <= c PROVE a * b <= c * b
  <2>1. PICK d \in Nat : c = a + d
    <3>1. c - a \in Nat /\ c = a + (c - a)
      BY <1>2
    <3> QED BY <3>1
  <2>2. c * b = a * b + d * b /\ d * b \in Nat
    BY <2>1
  <2> QED BY <1>1, <2>2
<1> QED BY <1>1, <1>2

LEMMA Layout ==
  /\ ClusterBytes \in Nat \ {0}
  /\ DataSector \in Nat
  /\ SectorSize \in Nat \ {0} /\ SectorsPerCluster \in Nat \ {0}
<1>1. /\ {SectorSize, SectorsPerCluster, ReservedSectors, FatCopies, SectorsPerFat,
          RootEntries, EntryBytes} \subseteq Nat \ {0}
  BY LayoutAssumption
<1>2. ClusterBytes \in Nat \ {0}
  BY <1>1 DEF ClusterBytes
<1>3. FatCopies * SectorsPerFat \in Nat /\ RootEntries * EntryBytes \in Nat
  BY <1>1, Products
<1>4. DataSector \in Nat
  <2> DEFINE size == RootEntries * EntryBytes
  <2>1. size \in Nat /\ SectorSize \in Nat \ {0}
    BY <1>1, <1>3
  <2> HIDE DEF size
  <2>2. size \div SectorSize \in Nat
    BY <2>1
  <2> QED BY <1>1, <1>3, <2>2 DEF DataSector, size
<1> QED BY <1>1, <1>2, <1>4

LEMMA OffsetInCluster ==
  ASSUME NEW o \in Nat
  PROVE  /\ o % ClusterBytes \in Nat
         /\ o < ClusterBytes => o \div ClusterBytes = 0 /\ o % ClusterBytes = o
<1>1. ClusterBytes \in Nat \ {0}
  BY Layout
<1> QED BY <1>1

-----------------------------------------------------------------------------
(* The clusters.                                                           *)

\* The first cluster of the file is one of the disk, and a read never goes to a
\* cluster in front of the data.
LEMMA ClusterOfOffset ==
  ASSUME Chained, NEW o \in Nat,
         NEW cluster \in fat16_get_cluster_for_offset(file.chain[1], o), cluster # EIO
  PROVE  /\ cluster \in Nat /\ cluster >= 2
         /\ o < ClusterBytes => cluster = file.chain[1]
<1>0. Clusters \cup {EndMark} \subseteq Nat \ {0, 1} /\ 0 \in ErrorEntries
  BY LayoutAssumption
<1>1. /\ file.chain[1] \in Clusters
      /\ \A j \in DOMAIN file.chain : file.chain[j] \in Clusters
  BY DEF Chained
<1>2. CASE o \div ClusterBytes = 0
  BY <1>0, <1>1, <1>2 DEF fat16_get_cluster_for_offset
<1>3. CASE o \div ClusterBytes # 0
  <2>1. PICK e \in fat16_get_fat_entry(file.chain[1]) : cluster = IF e \in ErrorEntries THEN EIO ELSE e
    BY <1>3 DEF fat16_get_cluster_for_offset
  <2>2. e \notin ErrorEntries /\ cluster = e
    BY <2>1
  <2>3. e \in Clusters \cup {EndMark}
    <3>1. CASE e \in Entries
      BY <2>2, <3>1 DEF Entries
    <3>2. CASE \E c \in DOMAIN fat : e = fat[c]
      <4>1. PICK c \in DOMAIN fat : e = fat[c]
        BY <3>2
      <4>2. CASE \E j \in DOMAIN file.chain : file.chain[j] = c
        <5>1. PICK j \in DOMAIN file.chain :
                e = IF j = Len(file.chain) THEN EndMark ELSE file.chain[j + 1]
          BY <4>1, <4>2 DEF fat
        <5>2. DOMAIN file.chain = 1..Len(file.chain) /\ Len(file.chain) \in Nat
          BY DEF Chained
        <5>3. j # Len(file.chain) => j + 1 \in DOMAIN file.chain
          BY <5>2
        <5> QED BY <1>1, <5>1, <5>3
      <4>3. CASE ~\E j \in DOMAIN file.chain : file.chain[j] = c
        <5>1. e = 0
          BY <4>1, <4>3 DEF fat
        <5> QED BY <1>0, <2>2, <5>1
      <4> QED BY <4>2, <4>3
    <3> QED BY <2>1, <3>1, <3>2 DEF fat16_get_fat_entry
  <2>4. ~(o < ClusterBytes)
    BY <1>3, OffsetInCluster
  <2> QED BY <1>0, <2>2, <2>3, <2>4
<1> QED BY <1>2, <1>3

\* Where the bytes of a part come from.
LEMMA StartOfPart ==
  ASSUME NEW cluster \in Nat, cluster >= 2, NEW o \in Nat
  PROVE  fat16_cluster_to_sector(cluster) * SectorSize + (o % ClusterBytes) \in Nat
<1>1. cluster - 2 \in Nat /\ DataSector \in Nat /\ SectorsPerCluster \in Nat /\ SectorSize \in Nat
  BY Layout
<1>2. (cluster - 2) * SectorsPerCluster \in Nat
  BY <1>1, Products
<1>3. fat16_cluster_to_sector(cluster) \in Nat
  BY <1>1, <1>2 DEF fat16_cluster_to_sector
<1>4. fat16_cluster_to_sector(cluster) * SectorSize \in Nat
  BY <1>1, <1>3, Products
<1> QED BY <1>4, OffsetInCluster

-----------------------------------------------------------------------------
(* One part of a read.                                                     *)

LEMMA PortionFits ==
  ASSUME NEW t \in Nat \ {0}
  PROVE  /\ Portion(t) \in 1..t
         /\ t <= ClusterBytes => Portion(t) = t
BY Layout DEF Portion

\* The sectors that are there are no more than were asked for.
LEMMA OnDiskFits ==
  ASSUME NEW start \in Nat, NEW k \in Nat
  PROVE  OnDisk(start, k) \in 0..k
<1> DEFINE end == DiskSectors * SectorSize
<1>1. end \in Nat
  BY LayoutAssumption, Products
<1> HIDE DEF end
<1>2. \/ OnDisk(start, k) = k
      \/ OnDisk(start, k) = 0
      \/ start < end /\ start + k > end /\ OnDisk(start, k) = end - start
  BY <1>1 DEF OnDisk, end
<1> QED BY <1>1, <1>2

\* The read stays inside of its blocks.
LEMMA RoomInBuffer ==
  ASSUME rd \in Read, PlacesAgree, rd.phase = "part"
  PROVE  /\ rd.total \in Nat \ {0} /\ rd.out + rd.total <= Dest + rd.size * rd.n
         /\ rd.out + rd.total = Dest + (rd.block + 1) * rd.size
         /\ rd.offset + rd.total = rd.from + (rd.block + 1) * rd.size
         /\ rd.offset + rd.total <= rd.from + rd.size * rd.n
         /\ rd.out >= Dest /\ rd.offset - rd.out = rd.from - Dest
<1>1. /\ rd.block \in Nat /\ rd.size \in Nat /\ rd.n \in Nat /\ rd.total \in 1..rd.size
      /\ rd.block + 1 <= rd.n /\ Dest \in Nat /\ rd.from \in Nat
      /\ rd.offset = rd.from + Progress /\ rd.out = Dest + Progress
  BY LayoutAssumption DEF Read, PlacesAgree
<1>2. /\ rd.block * rd.size \in Nat
      /\ (rd.block + 1) * rd.size = rd.block * rd.size + rd.size
      /\ (rd.block + 1) * rd.size <= rd.n * rd.size
      /\ rd.n * rd.size = rd.size * rd.n
  <2>1. rd.block * rd.size \in Nat /\ (rd.block + 1) * rd.size = rd.block * rd.size + rd.size
    BY <1>1, Products
  <2>2. (rd.block + 1) * rd.size <= rd.n * rd.size
    <3>1. rd.block + 1 \in Nat
      BY <1>1
    <3> QED BY <1>1, <3>1, Products
  <2>3. rd.n * rd.size = rd.size * rd.n
    BY <1>1
  <2> QED BY <2>1, <2>2, <2>3
<1> DEFINE before == rd.block * rd.size
           behind == (rd.block + 1) * rd.size
           all    == rd.size * rd.n
<1>3. /\ before \in Nat /\ behind = before + rd.size /\ behind <= all
      /\ rd.offset = rd.from + before + (rd.size - rd.total)
      /\ rd.out = Dest + before + (rd.size - rd.total)
      /\ all \in Nat
  <2>1. all \in Nat
    BY <1>1, Products
  <2> QED BY <1>1, <1>2, <2>1 DEF Progress
<1> HIDE DEF before, behind, all
<1>4. /\ rd.total \in Nat \ {0} /\ rd.out + rd.total = Dest + behind
      /\ rd.offset + rd.total = rd.from + behind /\ rd.out >= Dest
      /\ rd.offset - rd.out = rd.from - Dest
  BY <1>1, <1>3
<1>5. rd.out + rd.total <= Dest + all /\ rd.offset + rd.total <= rd.from + all
  BY <1>1, <1>3, <1>4
<1> QED BY <1>4, <1>5 DEF behind, all

\* The state of the read after a part of k bytes.
LEMMA NextPartAgrees ==
  ASSUME rd \in Read, PlacesAgree, rd.phase = "part", rd.block \in 0..rd.n,
         NEW k \in Nat, k = Portion(rd.total), rd' = NextPart(k)
  PROVE  /\ rd' \in Read /\ PlacesAgree' /\ rd'.block \in 0..rd'.n
         /\ rd'.phase \in {"part", "done"}
         /\ rd'.from = rd.from /\ rd'.size = rd.size /\ rd'.n = rd.n
         /\ rd'.out = rd.out + k
<1>0. /\ rd.total \in Nat \ {0} /\ k \in 1..rd.total
      /\ rd.block \in Nat /\ rd.size \in Nat /\ rd.n \in Nat /\ rd.from \in Nat
      /\ rd.offset \in Nat /\ rd.out \in Nat /\ rd.total \in 1..rd.size /\ rd.block < rd.n
      /\ Dest \in Nat /\ (rd.block + 1) * rd.size \in Nat
  <2>1. rd.total \in Nat \ {0}
    BY RoomInBuffer
  <2>2. rd.block + 1 \in Nat /\ rd.size \in Nat
    BY DEF Read
  <2>3. (rd.block + 1) * rd.size \in Nat
    BY <2>2, Products
  <2> QED BY <2>1, <2>3, PortionFits, LayoutAssumption DEF Read, PlacesAgree
<1>1. CASE rd.total > k
  <2>1. rd' = [rd EXCEPT !.offset = @ + k, !.total = @ - k, !.out = @ + k]
    BY <1>1 DEF NextPart
  <2>2. /\ rd'.phase = "part" /\ rd'.from = rd.from /\ rd'.size = rd.size /\ rd'.n = rd.n
        /\ rd'.block = rd.block /\ rd'.offset = rd.offset + k
        /\ rd'.total = rd.total - k /\ rd'.out = rd.out + k
    BY <2>1 DEF Read
  <2>3. rd' \in Read
    <3>1. rd.offset + k \in Nat /\ rd.total - k \in Nat /\ rd.out + k \in Nat
      BY <1>0, <1>1
    <3> QED BY <2>1, <3>1 DEF Read
  <2>4. PlacesAgree'
    <3>1. rd.block * rd.size \in Nat
      BY <1>0, Products
    <3> DEFINE before == rd.block * rd.size
    <3>2. rd.offset = rd.from + (before + (rd.size - rd.total)) /\ rd.out = Dest + (before + (rd.size - rd.total))
      BY DEF PlacesAgree, Progress
    <3>3. Progress' = before + (rd.size - (rd.total - k))
      BY <2>2 DEF Progress
    <3>4. before \in Nat
      BY <3>1
    <3>5. PICK b \in Nat : b = before
      BY <3>4
    <3> HIDE DEF before
    <3>6. /\ rd.from \in Int /\ rd.size \in Int /\ rd.total \in Int /\ b \in Int /\ Dest \in Int
          /\ k \in Int /\ rd.offset = rd.from + (b + (rd.size - rd.total))
          /\ rd.out = Dest + (b + (rd.size - rd.total))
      BY <1>0, <3>2, <3>5
    <3>7. rd.offset + k = rd.from + (b + (rd.size - (rd.total - k)))
      BY <3>6
    <3>8. rd.out + k = Dest + (b + (rd.size - (rd.total - k)))
      BY <3>6
    <3>9. rd.total - k \in 1..rd.size
      BY <1>0, <1>1
    <3> QED BY <1>0, <2>2, <3>3, <3>5, <3>7, <3>8, <3>9 DEF PlacesAgree
  <2> QED BY <1>0, <2>2, <2>3, <2>4
<1>2. CASE ~(rd.total > k)
  <2>0. k = rd.total
    BY <1>0, <1>2
  <2>1. rd' = [rd EXCEPT !.block = @ + 1, !.out = @ + k,
                 !.offset = rd.from + (rd.block + 1) * rd.size,
                 !.total = IF rd.block + 1 = rd.n THEN rd.total - k ELSE rd.size,
                 !.phase = IF rd.block + 1 = rd.n THEN "done" ELSE @]
    BY <1>2 DEF NextPart
  <2>2. /\ rd'.phase = (IF rd.block + 1 = rd.n THEN "done" ELSE "part")
        /\ rd'.from = rd.from /\ rd'.size = rd.size /\ rd'.n = rd.n
        /\ rd'.block = rd.block + 1 /\ rd'.offset = rd.from + (rd.block + 1) * rd.size
        /\ rd'.total = (IF rd.block + 1 = rd.n THEN rd.total - k ELSE rd.size)
        /\ rd'.out = rd.out + k
    BY <2>1 DEF Read
  <2>3. rd' \in Read
    <3>1. /\ rd.from + (rd.block + 1) * rd.size \in Nat /\ rd.out + k \in Nat /\ rd.block + 1 \in Nat
          /\ (IF rd.block + 1 = rd.n THEN rd.total - k ELSE rd.size) \in Nat
      BY <1>0, <2>0
    <3>2. PICK t \in Nat : t = IF rd.block + 1 = rd.n THEN rd.total - k ELSE rd.size
      BY <3>1
    <3>3. PICK ph \in {"part", "done"} : ph = IF rd.block + 1 = rd.n THEN "done" ELSE rd.phase
      OBVIOUS
    <3>4. rd' = [rd EXCEPT !.block = rd.block + 1, !.out = rd.out + k,
                   !.offset = rd.from + (rd.block + 1) * rd.size, !.total = t, !.phase = ph]
      BY <2>1, <3>2, <3>3
    <3> QED BY <3>1, <3>4 DEF Read
  <2>4. PlacesAgree'
    <3>1. rd.out + k = Dest + (rd.block + 1) * rd.size
      BY <2>0, RoomInBuffer
    <3>2. CASE rd.block + 1 = rd.n
      <4>1. (rd.block + 1) * rd.size = rd.size * rd.n
        BY <1>0, <3>2
      <4> QED BY <2>2, <3>1, <3>2, <4>1 DEF PlacesAgree
    <3>3. CASE rd.block + 1 # rd.n
      <4>1. rd'.block < rd'.n /\ rd'.total \in 1..rd'.size
        BY <1>0, <2>2, <3>3
      <4>2. Progress' = (rd.block + 1) * rd.size
        <5>1. Progress' = (rd.block + 1) * rd.size + (rd.size - rd.size)
          BY <2>2, <3>3 DEF Progress
        <5> QED BY <1>0, <5>1
      <4> QED BY <2>2, <3>1, <3>3, <4>1, <4>2 DEF PlacesAgree
    <3> QED BY <3>2, <3>3
  <2> QED BY <1>0, <2>2, <2>3, <2>4
<1> QED BY <1>1, <1>2

-----------------------------------------------------------------------------
(* The steps.                                                              *)

LEMMA InvInit == Init => IInv
<1> SUFFICES ASSUME Init PROVE IInv
  OBVIOUS
<1>0. /\ rd = NoRead /\ mem = Fresh /\ fpos = 0 /\ pos = 0 /\ Dest \in Nat
      /\ Addresses \subseteq Nat
  BY LayoutAssumption DEF Init
<1>1. rd \in Read
  BY <1>0 DEF NoRead, Read
<1>2. TypeOK
  BY <1>0 DEF TypeOK, NoRead, Fresh
<1>3. Chained
  <2>1. PICK size \in FileSizes :
          \E chain \in [1..((size + ClusterBytes - 1) \div ClusterBytes) -> Clusters] :
            file = [chain |-> chain, size |-> size]
    BY DEF Init
  <2>2. PICK k \in Nat \ {0} : k = (size + ClusterBytes - 1) \div ClusterBytes
    <3>1. size \in Nat \ {0} /\ ClusterBytes \in Nat \ {0}
      BY LayoutAssumption, Layout
    <3>2. (size + ClusterBytes - 1) \div ClusterBytes \in Nat \ {0}
      BY <3>1
    <3> QED BY <3>2
  <2>3. PICK chain \in [1..k -> Clusters] : file = [chain |-> chain, size |-> size]
    BY <2>1, <2>2
  <2>4. size \in Nat /\ Len(chain) = k
    BY LayoutAssumption
  <2> QED BY <2>3, <2>4 DEF Chained
<1>4. PlacesAgree /\ StaysInBuffer /\ ExactSoFar
  BY <1>0 DEF PlacesAgree, StaysInBuffer, ExactSoFar, NoRead, Fresh
<1> QED BY <1>1, <1>2, <1>3, <1>4 DEF IInv

LEMMA SeekInv ==
  ASSUME IInv, NEW o \in Offsets, NEW w \in Whence, fat16_seek(o, w)
  PROVE  IInv'
<1>1. UNCHANGED <<file, pos, mem, rd>> /\ fpos' \in Nat
  BY LayoutAssumption DEF fat16_seek, IInv, TypeOK
<1>2. /\ TypeOK' /\ Chained' /\ (rd \in Read)'
  BY <1>1 DEF IInv, TypeOK, Chained, Read
<1>3. PlacesAgree' /\ StaysInBuffer' /\ ExactSoFar'
  BY <1>1 DEF IInv, PlacesAgree, Progress, StaysInBuffer, Wanted, InBuffer, ExactSoFar,
              InFirstCluster, ByteOfFile
<1> QED BY <1>2, <1>3 DEF IInv

LEMMA ReadStartsInv ==
  ASSUME IInv, NEW size \in BlockSizes, NEW n \in BlockCounts, fat16_read(size, n)
  PROVE  IInv'
<1>0. /\ size \in Nat /\ n \in Nat /\ size # 0 /\ n # 0 /\ Dest \in Nat
      /\ UNCHANGED <<file, fpos, pos>> /\ mem' = Fresh
      /\ rd' = [phase |-> "part", from |-> fpos, size |-> size, n |-> n,
                block |-> 0, offset |-> fpos, total |-> size, out |-> Dest]
      /\ fpos \in Nat /\ pos \in Nat /\ Addresses \subseteq Nat
  <2>1. size \in Nat /\ n \in Nat /\ Dest \in Nat /\ Addresses \subseteq Nat
    BY LayoutAssumption
  <2>2. size * n # 0
    BY DEF fat16_read
  <2>3. size # 0 /\ n # 0
    BY <2>1, <2>2, Products
  <2> QED BY <2>1, <2>3 DEF fat16_read, IInv, TypeOK
<1>1. (rd \in Read)'
  BY <1>0 DEF Read
<1>2. TypeOK'
  BY <1>0 DEF TypeOK, Fresh
<1>3. Chained'
  BY <1>0 DEF IInv, Chained
<1>4. PlacesAgree'
  <2>1. Progress' = 0
    <3>1. Progress' = 0 * size + (size - size)
      BY <1>0 DEF Progress
    <3> QED BY <1>0, <3>1
  <2> QED BY <1>0, <2>1 DEF PlacesAgree
<1>5. StaysInBuffer' /\ ExactSoFar'
  BY <1>0 DEF StaysInBuffer, ExactSoFar, Fresh
<1> QED BY <1>1, <1>2, <1>3, <1>4, <1>5 DEF IInv

\* A part writes where the read is, and no further than its block.
LEMMA PartWrites ==
  ASSUME IInv, rd.phase = "part",
         NEW cluster \in fat16_get_cluster_for_offset(file.chain[1], rd.offset), cluster # EIO,
         NEW start, start = fat16_cluster_to_sector(cluster) * SectorSize + (rd.offset % ClusterBytes),
         NEW k, k = Portion(rd.total), NEW there, there = OnDisk(start, k),
         mem' = Stream!Copied(mem, rd.out, start, there)
  PROVE  /\ start \in Nat /\ k \in Nat /\ there \in 0..k /\ k <= rd.total
         /\ mem' \in [Addresses -> Nat \cup {-1}]
         /\ \A a \in Addresses \ Wanted : mem'[a] = -1
         /\ InFirstCluster => /\ start = fat16_cluster_to_sector(file.chain[1]) * SectorSize + rd.offset
                              /\ rd.offset + k <= ClusterBytes
<1>0. /\ rd \in Read /\ PlacesAgree /\ mem \in [Addresses -> Nat \cup {-1}] /\ Chained
      /\ rd.offset \in Nat /\ rd.out \in Nat /\ Addresses \subseteq Nat /\ Dest \in Nat
      /\ rd.from \in Nat
  BY LayoutAssumption DEF IInv, TypeOK, Read
<1>1. /\ rd.total \in Nat \ {0} /\ rd.out + rd.total <= Dest + rd.size * rd.n
      /\ rd.offset + rd.total <= rd.from + rd.size * rd.n /\ rd.out >= Dest
      /\ rd.size * rd.n \in Nat
  <2>1. rd.size * rd.n \in Nat
    <3>1. rd.size \in Nat /\ rd.n \in Nat
      BY <1>0 DEF Read
    <3> QED BY <3>1, Products
  <2> QED BY <1>0, <2>1, RoomInBuffer
<1>2. cluster \in Nat /\ cluster >= 2 /\ (rd.offset < ClusterBytes => cluster = file.chain[1])
  BY <1>0, ClusterOfOffset
<1>3. start \in Nat
  BY <1>0, <1>2, StartOfPart
<1>4. k \in 1..rd.total
  BY <1>1, PortionFits
<1>5. there \in 0..k
  <2>1. k \in Nat
    BY <1>1, <1>4
  <2> QED BY <1>3, <2>1, OnDiskFits
<1>6. \A a \in Addresses : mem'[a] = IF a \in rd.out..(rd.out + there - 1)
                                     THEN start + (a - rd.out) ELSE mem[a]
  BY <1>0 DEF Stream!Copied
<1>7. mem' \in [Addresses -> Nat \cup {-1}]
  <2>1. \A a \in Addresses : a \in rd.out..(rd.out + there - 1) => start + (a - rd.out) \in Nat
    BY <1>0, <1>3, <1>5
  <2>2. mem' = [a \in Addresses |-> IF a \in rd.out..(rd.out + there - 1)
                                    THEN start + (a - rd.out) ELSE mem[a]]
    BY <1>0 DEF Stream!Copied
  <2> QED BY <1>0, <2>1, <2>2
<1>8. ASSUME NEW a \in Addresses \ Wanted PROVE mem'[a] = -1
  <2>1. a \notin rd.out..(rd.out + there - 1)
    <3>1. a \in Nat /\ ~(a \in Dest..(Dest + rd.size * rd.n - 1))
      BY <1>0 DEF Wanted, InBuffer
    <3> DEFINE all == rd.size * rd.n
    <3>2. all \in Nat /\ ~(Dest <= a /\ a <= Dest + all - 1) /\ rd.out + rd.total <= Dest + all
      BY <1>0, <1>1, <3>1
    <3> HIDE DEF all
    <3> QED BY <1>0, <1>1, <1>4, <1>5, <3>1, <3>2
  <2> QED BY <1>6, <2>1 DEF IInv, StaysInBuffer
<1>9. ASSUME InFirstCluster
      PROVE  /\ start = fat16_cluster_to_sector(file.chain[1]) * SectorSize + rd.offset
             /\ rd.offset + k <= ClusterBytes
  <2> DEFINE all == rd.size * rd.n
  <2>1. rd.offset + rd.total <= rd.from + all /\ rd.from + all <= ClusterBytes /\ all \in Nat
        /\ ClusterBytes \in Nat
    BY <1>1, <1>9, Layout DEF InFirstCluster
  <2> HIDE DEF all
  <2>2. rd.offset < ClusterBytes /\ rd.offset + k <= ClusterBytes
    BY <1>0, <1>1, <1>4, <2>1
  <2> QED BY <1>0, <1>2, <2>2, OffsetInCluster
<1> QED BY <1>1, <1>3, <1>4, <1>5, <1>7, <1>8, <1>9

\* In the first cluster a byte of the file is as far behind its start as in the file.
LEMMA FirstClusterBytes ==
  ASSUME NEW o \in Nat, o < ClusterBytes
  PROVE  ByteOfFile(o) = fat16_cluster_to_sector(file.chain[1]) * SectorSize + o
<1>1. o \div ClusterBytes = 0 /\ o % ClusterBytes = o
  BY OffsetInCluster
<1>2. o \div ClusterBytes + 1 = 1
  BY <1>1
<1> QED BY <1>1, <1>2 DEF ByteOfFile, fat16_cluster_to_sector

LEMMA PartExact ==
  ASSUME IInv, rd.phase = "part", InFirstCluster,
         NEW start, start = fat16_cluster_to_sector(file.chain[1]) * SectorSize + rd.offset,
         start \in Nat, NEW k \in Nat, k <= rd.total, rd.offset + k <= ClusterBytes,
         mem' = Stream!Copied(mem, rd.out, start, k),
         NEW a \in Addresses, a \in Dest..(rd.out + k - 1)
  PROVE  mem'[a] = ByteOfFile(rd.from + (a - Dest))
<1>0. /\ rd \in Read /\ PlacesAgree /\ mem \in [Addresses -> Nat \cup {-1}]
      /\ rd.offset \in Nat /\ rd.out \in Nat /\ a \in Nat /\ Dest \in Nat /\ rd.from \in Nat
      /\ ClusterBytes \in Nat
  BY LayoutAssumption, Layout DEF IInv, TypeOK, Read
<1>1. rd.out >= Dest /\ rd.offset - rd.out = rd.from - Dest
  BY <1>0, RoomInBuffer
<1>2. mem'[a] = IF a \in rd.out..(rd.out + k - 1) THEN start + (a - rd.out) ELSE mem[a]
  BY <1>0 DEF Stream!Copied
<1>3. CASE a \in rd.out..(rd.out + k - 1)
  <2>1. PICK o \in Nat : o = rd.from + (a - Dest)
    BY <1>0
  <2>2. o = rd.offset + (a - rd.out) /\ o < ClusterBytes
    BY <1>0, <1>1, <1>3, <2>1
  <2>3. ByteOfFile(o) = fat16_cluster_to_sector(file.chain[1]) * SectorSize + o
    BY <2>2, FirstClusterBytes
  <2> DEFINE base == fat16_cluster_to_sector(file.chain[1]) * SectorSize
  <2>4. base \in Nat
    <3>1. file.chain[1] \in Clusters
      BY DEF IInv, Chained
    <3>2. file.chain[1] \in Nat /\ file.chain[1] >= 2 /\ 0 \in Nat
      BY <3>1, LayoutAssumption
    <3>3. base + (0 % ClusterBytes) \in Nat
      BY <3>2, StartOfPart
    <3>4. 0 < ClusterBytes
      BY Layout
    <3>5. 0 % ClusterBytes = 0
      BY <3>2, <3>4, OffsetInCluster
    <3>6. SectorSize \in Nat /\ fat16_cluster_to_sector(file.chain[1]) \in Int
      BY <3>2, Layout DEF fat16_cluster_to_sector
    <3>7. base \in Int
      BY <3>6
    <3> HIDE DEF base
    <3> QED BY <3>3, <3>5, <3>7
  <2>5. start = base + rd.offset /\ ByteOfFile(o) = base + o
    BY <2>3
  <2> HIDE DEF base
  <2>6. start + (a - rd.out) = base + o
    BY <1>0, <2>2, <2>4, <2>5
  <2> QED BY <1>2, <1>3, <2>1, <2>5, <2>6
<1>4. CASE a \notin rd.out..(rd.out + k - 1)
  <2>1. a \in Dest..(rd.out - 1)
    BY <1>0, <1>1, <1>4
  <2> QED BY <1>2, <1>4, <2>1 DEF IInv, ExactSoFar
<1> QED BY <1>3, <1>4

LEMMA PartInv ==
  ASSUME IInv, fat16_read_internal_from_stream
  PROVE  IInv'
<1>0. /\ rd.phase = "part" /\ UNCHANGED <<file, fpos>> /\ rd \in Read /\ PlacesAgree /\ Chained
      /\ TypeOK /\ rd.block \in 0..rd.n
  BY DEF fat16_read_internal_from_stream, IInv, TypeOK
<1>1. PICK cluster \in fat16_get_cluster_for_offset(file.chain[1], rd.offset) :
        \/ /\ cluster = EIO
           /\ rd' = [rd EXCEPT !.phase = "failed"]
           /\ UNCHANGED <<pos, mem>>
        \/ LET start == fat16_cluster_to_sector(cluster) * SectorSize + (rd.offset % ClusterBytes)
               n     == Portion(rd.total)
               there == OnDisk(start, n)
           IN /\ cluster # EIO
              /\ mem' = Stream!Copied(mem, rd.out, start, there)
              /\ pos' = start + there
              /\ rd' = IF there < n THEN [rd EXCEPT !.phase = "hang"] ELSE NextPart(n)
  BY DEF fat16_read_internal_from_stream
<1>2. Chained'
  BY <1>0 DEF Chained
<1>3. ASSUME NEW phase \in {"failed", "hang"}, rd' = [rd EXCEPT !.phase = phase],
             mem' \in [Addresses -> Nat \cup {-1}], pos' \in Nat,
             \A a \in Addresses \ Wanted : mem'[a] = -1
      PROVE  IInv'
  <2>1. /\ rd' \in Read /\ rd'.phase = phase /\ rd'.size = rd.size /\ rd'.n = rd.n
        /\ rd'.total = rd.total /\ rd'.offset = rd.offset /\ rd'.block = rd.block
    BY <1>0, <1>3 DEF Read
  <2>2. TypeOK'
    BY <1>0, <1>3, <2>1 DEF TypeOK, Read
  <2>3. PlacesAgree' /\ ExactSoFar'
    BY <2>1 DEF PlacesAgree, ExactSoFar
  <2>4. StaysInBuffer'
    BY <1>3, <2>1 DEF StaysInBuffer, Wanted, InBuffer
  <2> QED BY <1>2, <2>1, <2>2, <2>3, <2>4 DEF IInv
<1>4. CASE cluster = EIO
  <2>1. rd' = [rd EXCEPT !.phase = "failed"] /\ mem' = mem /\ pos' = pos
    BY <1>1, <1>4
  <2>2. mem' \in [Addresses -> Nat \cup {-1}] /\ pos' \in Nat
        /\ \A a \in Addresses \ Wanted : mem'[a] = -1
    BY <2>1 DEF IInv, TypeOK, StaysInBuffer
  <2> QED BY <1>3, <2>1, <2>2
<1>5. CASE cluster # EIO
  <2>1. PICK start, k, there :
          /\ start = fat16_cluster_to_sector(cluster) * SectorSize + (rd.offset % ClusterBytes)
          /\ k = Portion(rd.total) /\ there = OnDisk(start, k)
          /\ mem' = Stream!Copied(mem, rd.out, start, there)
          /\ pos' = start + there
          /\ rd' = IF there < k THEN [rd EXCEPT !.phase = "hang"] ELSE NextPart(k)
    BY <1>1, <1>5
  <2>2. /\ start \in Nat /\ k \in Nat /\ there \in 0..k /\ k <= rd.total
        /\ mem' \in [Addresses -> Nat \cup {-1}]
        /\ \A a \in Addresses \ Wanted : mem'[a] = -1
        /\ InFirstCluster => /\ start = fat16_cluster_to_sector(file.chain[1]) * SectorSize + rd.offset
                             /\ rd.offset + k <= ClusterBytes
    BY <1>0, <1>5, <2>1, PartWrites
  <2>3. pos' \in Nat
    BY <2>1, <2>2
  <2>4. CASE there < k
    BY <1>3, <2>1, <2>2, <2>3, <2>4
  <2>5. CASE ~(there < k)
    <3>1. there = k /\ rd' = NextPart(k) /\ mem' = Stream!Copied(mem, rd.out, start, k)
      BY <2>1, <2>2, <2>5
    <3>2. /\ rd' \in Read /\ PlacesAgree' /\ rd'.block \in 0..rd'.n
          /\ rd'.phase \in {"part", "done"}
          /\ rd'.from = rd.from /\ rd'.size = rd.size /\ rd'.n = rd.n
          /\ rd'.out = rd.out + k
      BY <1>0, <2>1, <2>2, <3>1, NextPartAgrees
    <3>3. TypeOK'
      BY <1>0, <2>2, <2>3, <3>2 DEF TypeOK, Read
    <3>4. StaysInBuffer'
      BY <2>2, <3>2 DEF StaysInBuffer, Wanted, InBuffer
    <3>5. ExactSoFar'
      <4>1. InFirstCluster' <=> InFirstCluster
        BY <3>2 DEF InFirstCluster
      <4>2. ASSUME InFirstCluster, NEW a \in Addresses, a \in Dest..(rd.out + k - 1)
            PROVE  mem'[a] = ByteOfFile(rd.from + (a - Dest))
        BY <1>0, <2>2, <3>1, <4>2, PartExact
      <4>3. ASSUME InFirstCluster, NEW a \in Addresses, a \in Dest..(rd'.out - 1)
            PROVE  (mem[a] = ByteOfFile(rd.from + (a - Dest)))'
        <5>1. a \in Dest..(rd.out + k - 1)
          <6>1. rd.out \in Nat /\ Dest \in Nat
            BY <1>0, LayoutAssumption DEF Read
          <6>2. PICK o \in Nat : o = rd'.out
            BY <2>2, <3>2, <6>1
          <6>3. a \in Dest..(o - 1) /\ o = rd.out + k
            BY <3>2, <4>3, <6>2
          <6> QED BY <2>2, <6>1, <6>3
        <5>2. mem'[a] = ByteOfFile(rd.from + (a - Dest))
          BY <4>2, <4>3, <5>1
        <5>3. ByteOfFile(rd.from + (a - Dest))' = ByteOfFile(rd.from + (a - Dest))
          BY <1>0, <3>2 DEF ByteOfFile
        <5> QED BY <5>2, <5>3
      <4> QED BY <4>1, <4>3 DEF ExactSoFar
    <3> QED BY <1>2, <3>2, <3>3, <3>4, <3>5 DEF IInv
  <2> QED BY <2>4, <2>5
<1> QED BY <1>4, <1>5

LEMMA StepInv == IInv /\ [Next]_vars => IInv'
<1> SUFFICES ASSUME IInv, [Next]_vars PROVE IInv'
  OBVIOUS
<1>1. CASE UNCHANGED vars
  <2>1. UNCHANGED <<file, fpos, pos, mem, rd>>
    BY <1>1 DEF vars
  <2> QED BY <2>1 DEF IInv, TypeOK, Chained, Read, PlacesAgree, Progress, StaysInBuffer, Wanted,
                   InBuffer, ExactSoFar, InFirstCluster, ByteOfFile
<1> QED BY <1>1, SeekInv, ReadStartsInv, PartInv DEF Next

\* The strengthened invariant, for every layout of the disk, every file and every read.
THEOREM FatReadInvariant == Spec => []IInv
BY InvInit, StepInv, PTL DEF Spec

\* Whatever cluster the driver takes the bytes from, fread writes to the buffer of
\* its caller and nowhere else.
THEOREM FatReadStaysInBuffer == Spec => []ReadInv
<1>1. IInv => ReadInv
  BY DEF IInv, ReadInv
<1> QED BY <1>1, FatReadInvariant, PTL

\* fread inside of the first cluster gives the bytes of the file, whatever the
\* blocks it is asked for in.
THEOREM FatReadFirstClusterExact == Spec => []FirstClusterExact
<1>1. IInv => FirstClusterExact
  <2> SUFFICES ASSUME IInv, rd.phase = "done", InFirstCluster, NEW a \in Wanted
               PROVE  mem[a] = ByteOfFile(rd.from + (a - Dest))
    BY DEF FirstClusterExact, HoldsFile
  <2>1. a \in Addresses /\ a \in Dest..(Dest + rd.size * rd.n - 1)
    BY DEF Wanted, InBuffer
  <2>2. rd.out = Dest + rd.size * rd.n
    BY DEF IInv, PlacesAgree
  <2>3. \A b \in Addresses : b \in Dest..(rd.out - 1) => mem[b] = ByteOfFile(rd.from + (b - Dest))
    BY DEF IInv, ExactSoFar
  <2>4. a \in Dest..(rd.out - 1)
    <3> DEFINE all == rd.size * rd.n
    <3>1. a \in Dest..(Dest + all - 1) /\ rd.out = Dest + all
      BY <2>1, <2>2
    <3>2. all \in Nat /\ Dest \in Nat /\ rd.out \in Nat
      <4>1. rd \in Read
        BY DEF IInv
      <4> QED BY <4>1, Products, LayoutAssumption DEF Read
    <3> HIDE DEF all
    <3> QED BY <3>1, <3>2
  <2> QED BY <2>1, <2>3, <2>4
<1> QED BY <1>1, FatReadInvariant, PTL
=============================================================================
