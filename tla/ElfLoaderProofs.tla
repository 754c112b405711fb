--------------------------- MODULE ElfLoaderProofs ---------------------------
(***************************************************************************)
(* A loaded program has its segments, or its file, where they belong, and  *)
(* no page but its own, for every size of a page, every file and every     *)
(* number of program headers.                                              *)
(***************************************************************************)
EXTENDS ElfLoader, TLAPS

(***************************************************************************)
(* The invariant.  What the properties say of a loaded program is carried  *)
(* from program header to program header: the bounds and the pages of the  *)
(* first i - 1 headers are right, and mapping one more, or the stack, does *)
(* not change the pages of a segment that is alone in them.                *)
(***************************************************************************)
FileOK ==
  /\ Len(phdrs) \in Nat /\ phdrs \in [1..Len(phdrs) -> Headers]
  /\ header \in Header

\* The two ways of a file.
PathTaken ==
  /\ at \in {"scan", "map"} => IsElf
  /\ at = "binary" => ~IsElf

\* The bounds of the first n segments.
Bounds(n) ==
  (\A k \in 1..n : phdrs[k].vaddr # 0) =>
    IF n = 0 THEN vbase = 0 /\ vend = 0
    ELSE /\ \E k \in 1..n : vbase = phdrs[k].vaddr
         /\ \E k \in 1..n : vend = phdrs[k].vaddr + phdrs[k].memsz
         /\ \A k \in 1..n : vbase <= phdrs[k].vaddr /\ phdrs[k].vaddr + phdrs[k].memsz <= vend

BoundsAgree ==
  /\ at \in {"validate", "scan"} => Bounds(i - 1)
  /\ at = "map" => Bounds(Len(phdrs))

\* Segment k is where its program header says.
Mapped(k) ==
  /\ phdrs[k].filesz = 0 => k \in DOMAIN bss
  /\ \A b \in 0..(phdrs[k].memsz - 1) :
       LET v == phdrs[k].vaddr + b
       IN /\ v \div PageSize \in DOMAIN pages
          /\ Translated(v) = IF phdrs[k].filesz = 0 THEN bss[k] + b ELSE FileAt + phdrs[k].offset + b
          /\ pages[v \div PageSize].writable = phdrs[k].writable

SegmentsSoFar ==
  IsElf /\ at \in {"map", "stack", "done"} /\ (\A k \in DOMAIN phdrs : InPlace(phdrs[k])) =>
    \A k \in DOMAIN phdrs : Alone(k) /\ (at = "map" => k < i) => Mapped(k)

BinarySoFar ==
  ~IsElf /\ at \in {"stack", "done"} =>
    \A b \in 0..(FileSize - 1) :
      LET v == ProgramAt + b
      IN /\ v \div PageSize \in DOMAIN pages
         /\ Translated(v) = FileAt + b /\ pages[v \div PageSize].writable

IInv == /\ TypeOK
        /\ FileOK
        /\ PathTaken
        /\ BoundsAgree
        /\ MapsOwnPages
        /\ SegmentsSoFar
        /\ BinarySoFar

-----------------------------------------------------------------------------
(* Pages.                                                                  *)

LEMMA PageNat == PageSize \in Nat \ {0}
BY PagesAssumption

LEMMA PageOf ==
  ASSUME NEW x \in Nat
  PROVE  /\ x \div PageSize \in Nat /\ x % PageSize \in 0..(PageSize - 1)
         /\ x = (x \div PageSize) * PageSize + (x % PageSize)
         /\ (x \div PageSize) * PageSize \in Nat
<1>1. PageSize \in Nat \ {0}
  BY PageNat
<1>2. x \div PageSize \in Nat /\ x % PageSize \in 0..(PageSize - 1)
  BY <1>1
<1>3. x = (x \div PageSize) * PageSize + (x % PageSize)
  BY <1>1
<1>4. (x \div PageSize) * PageSize \in Nat
  BY <1>1, <1>2, <1>3
<1> QED BY <1>2, <1>3, <1>4

LEMMA PageUnique ==
  ASSUME NEW q \in Nat, NEW r \in 0..(PageSize - 1)
  PROVE  (q * PageSize + r) \div PageSize = q /\ (q * PageSize + r) % PageSize = r
<1>1. PageSize \in Nat \ {0} /\ r \in Nat /\ r < PageSize
  BY PageNat
<1>2. (q * PageSize + r) % PageSize = r
  BY <1>1
<1>3. (q * PageSize + r) \div PageSize = q
  BY <1>1
<1> QED BY <1>2, <1>3

LEMMA PageMonotone ==
  ASSUME NEW x \in Nat, NEW y \in Nat, x <= y
  PROVE  x \div PageSize <= y \div PageSize
<1>1. PageSize \in Nat \ {0}
  BY PageNat
<1> QED BY <1>1

\* Two places that lie alike in their pages go on alike.
LEMMA PagesAlike ==
  ASSUME NEW x \in Nat, NEW y \in Nat, x % PageSize = y % PageSize, NEW b \in Nat
  PROVE  /\ (x + b) \div PageSize - x \div PageSize = (y + b) \div PageSize - y \div PageSize
         /\ (x + b) % PageSize = (y + b) % PageSize
<1>0. PICK o \in Nat : o = x % PageSize
  BY PageOf, PageNat
<1>1. PICK r \in Nat : r = o + b
  OBVIOUS
<1>2. PICK q \in Nat, s \in 0..(PageSize - 1) : r = q * PageSize + s
  <2>1. r \div PageSize \in Nat /\ r % PageSize \in 0..(PageSize - 1)
        /\ r = (r \div PageSize) * PageSize + (r % PageSize)
    BY PageOf
  <2> QED BY <2>1
<1>3. ASSUME NEW z \in Nat, z % PageSize = x % PageSize
      PROVE  (z + b) \div PageSize = z \div PageSize + q /\ (z + b) % PageSize = s
  <2>1. z \div PageSize \in Nat /\ z = (z \div PageSize) * PageSize + (z % PageSize)
        /\ PageSize \in Nat
    BY PageOf, PageNat
  <2>2. PICK d \in Nat : d = z \div PageSize
    BY <2>1
  <2>3. z + b = (d + q) * PageSize + s
    <3>1. (d + q) * PageSize = d * PageSize + q * PageSize
      BY <1>2, <2>1
    <3>2. d * PageSize \in Int /\ q * PageSize \in Int
      BY <1>2, <2>1
    <3>3. z = d * PageSize + o
      BY <1>0, <1>3, <2>1, <2>2
    <3> QED BY <1>1, <1>2, <3>1, <3>2, <3>3
  <2>4. d + q \in Nat
    BY <1>2
  <2>5. ((d + q) * PageSize + s) \div PageSize = d + q /\ ((d + q) * PageSize + s) % PageSize = s
    BY <1>2, <2>4, PageUnique
  <2> QED BY <2>2, <2>3, <2>5
<1>4. (x + b) \div PageSize = x \div PageSize + q /\ (x + b) % PageSize = s
  BY <1>3
<1>5. (y + b) \div PageSize = y \div PageSize + q /\ (y + b) % PageSize = s
  BY <1>3
<1>6. x \div PageSize \in Nat /\ y \div PageSize \in Nat
  BY PageOf
<1> QED BY <1>2, <1>4, <1>5, <1>6

\* The first page that begins at x or behind it.
Over(x) == (x + PageSize - 1) \div PageSize

LEMMA OverIs ==
  ASSUME NEW x \in Nat
  PROVE  /\ Over(x) \in Nat
         /\ x # 0 => Over(x) = (x - 1) \div PageSize + 1
         /\ x % PageSize = 0 => Over(x) = x \div PageSize
         /\ x \div PageSize <= Over(x)
<1>0. PageSize \in Nat \ {0} /\ x + PageSize - 1 \in Nat
  BY PageNat
<1>1. Over(x) \in Nat
  BY <1>0, PageOf DEF Over
<1>2. ASSUME x # 0 PROVE Over(x) = (x - 1) \div PageSize + 1
  <2>1. PICK y \in Nat : y = x - 1
    BY <1>2
  <2>2. PICK d \in Nat, r \in 0..(PageSize - 1) : /\ d = y \div PageSize
                                                 /\ y = d * PageSize + r
    BY PageOf
  <2>3. x + PageSize - 1 = (d + 1) * PageSize + r
    <3>1. (d + 1) * PageSize = d * PageSize + PageSize /\ d * PageSize \in Int
      BY <1>0
    <3> QED BY <1>0, <2>1, <2>2, <3>1
  <2>4. ((d + 1) * PageSize + r) \div PageSize = d + 1
    <3>1. d + 1 \in Nat
      OBVIOUS
    <3> QED BY <3>1, PageUnique
  <2> QED BY <2>1, <2>2, <2>3, <2>4 DEF Over
<1>3. ASSUME x % PageSize = 0 PROVE Over(x) = x \div PageSize
  <2>1. PICK d \in Nat : d = x \div PageSize /\ x = d * PageSize + 0
    BY <1>3, PageOf
  <2>2. x + PageSize - 1 = d * PageSize + (PageSize - 1) /\ PageSize - 1 \in 0..(PageSize - 1)
    <3>1. d * PageSize \in Int
      BY <1>0
    <3> QED BY <1>0, <2>1, <3>1
  <2>3. (d * PageSize + (PageSize - 1)) \div PageSize = d
    BY <2>2, PageUnique
  <2> QED BY <2>1, <2>2, <2>3 DEF Over
<1>4. x \div PageSize <= Over(x)
  <2>1. x <= x + PageSize - 1
    BY <1>0
  <2> QED BY <1>0, <2>1, PageMonotone DEF Over
<1> QED BY <1>1, <1>2, <1>3, <1>4

LEMMA AlignIs ==
  ASSUME NEW x \in Nat
  PROVE  /\ PAGE_ALIGN(x) = Over(x) * PageSize
         /\ PAGE_ALIGN_LOWER(x) = (x \div PageSize) * PageSize
         /\ PAGE_ALIGN(x) \in Nat /\ PAGE_ALIGN_LOWER(x) \in Nat
         /\ PAGE_ALIGN(x) \div PageSize = Over(x)
         /\ PAGE_ALIGN_LOWER(x) \div PageSize = x \div PageSize
         /\ PAGE_ALIGN_LOWER(x) % PageSize = 0
<1>0. PageSize \in Nat \ {0}
  BY PageNat
<1>1. PAGE_ALIGN(x) = Over(x) * PageSize /\ PAGE_ALIGN_LOWER(x) = (x \div PageSize) * PageSize
  BY DEF PAGE_ALIGN, PAGE_ALIGN_LOWER, Over
<1>2. ASSUME NEW d \in Nat
      PROVE  d * PageSize \in Nat /\ (d * PageSize) \div PageSize = d /\ (d * PageSize) % PageSize = 0
  <2>1. d * PageSize \in Nat /\ d * PageSize = d * PageSize + 0 /\ 0 \in 0..(PageSize - 1)
    BY <1>0
  <2> QED BY <2>1, PageUnique
<1>3. Over(x) \in Nat /\ x \div PageSize \in Nat
  BY OverIs, PageOf
<1> QED BY <1>1, <1>2, <1>3

\* The pages from virtual address v on that paging_map_to sets for the memory from p to e.
SetPages(v, p, e) == (v \div PageSize)..(v \div PageSize + (Over(e) - p \div PageSize) - 1)

\* The page of memory that virtual page n then shows.
Shown(v, p, n) == p \div PageSize + (n - v \div PageSize)

\* The page table t with the memory from p to e mapped from virtual address v on.
MapOf(t, v, p, e, w) ==
  [n \in DOMAIN t \cup SetPages(v, p, e) |->
     IF n \in SetPages(v, p, e) THEN [page |-> Shown(v, p, n), writable |-> w] ELSE t[n]]

LEMMA MapIs ==
  ASSUME NEW t, NEW w, NEW v \in Nat, NEW p \in Nat, NEW e \in Nat, p <= e
  PROVE  paging_map_to(t, PAGE_ALIGN_LOWER(v), PAGE_ALIGN_LOWER(p), PAGE_ALIGN(e), w)
           = MapOf(t, v, p, e, w)
<1>0. PageSize \in Nat \ {0}
  BY PageNat
<1>1. /\ PAGE_ALIGN_LOWER(v) \div PageSize = v \div PageSize
      /\ PAGE_ALIGN_LOWER(p) \div PageSize = p \div PageSize
      /\ PAGE_ALIGN(e) = Over(e) * PageSize
      /\ PAGE_ALIGN_LOWER(p) = (p \div PageSize) * PageSize
  BY AlignIs
<1>2. Over(e) \in Nat /\ p \div PageSize \in Nat /\ p \div PageSize <= Over(e)
  <2>1. p \div PageSize <= e \div PageSize /\ e \div PageSize <= Over(e)
    BY PageMonotone, OverIs
  <2>2. Over(e) \in Nat /\ p \div PageSize \in Nat /\ e \div PageSize \in Nat
    BY PageOf, OverIs
  <2> QED BY <2>1, <2>2
<1>3. PICK d \in Nat : d = Over(e) - p \div PageSize
  BY <1>2
<1>4. (PAGE_ALIGN(e) - PAGE_ALIGN_LOWER(p)) \div PageSize = d
  <2>1. PICK q \in Nat, u \in Nat : q = p \div PageSize /\ u = Over(e)
    BY <1>2
  <2>2. u = q + d
    BY <1>3, <2>1
  <2>3. (q + d) * PageSize = q * PageSize + d * PageSize /\ q * PageSize \in Int /\ d * PageSize \in Int
    BY <1>0
  <2>4. u * PageSize - q * PageSize = d * PageSize + 0
    BY <2>2, <2>3
  <2>5. 0 \in 0..(PageSize - 1)
    BY <1>0
  <2>6. (d * PageSize + 0) \div PageSize = d
    BY <2>5, PageUnique
  <2> QED BY <1>1, <2>1, <2>4, <2>6
<1>5. SetPages(v, p, e) = (v \div PageSize)..(v \div PageSize + d - 1)
  BY <1>3 DEF SetPages
<1> DEFINE set == (v \div PageSize)..(v \div PageSize + d - 1)
<1>6. paging_map_to(t, PAGE_ALIGN_LOWER(v), PAGE_ALIGN_LOWER(p), PAGE_ALIGN(e), w) =
            [n \in DOMAIN t \cup set |->
               IF n \in set THEN [page |-> p \div PageSize + (n - v \div PageSize), writable |-> w]
               ELSE t[n]]
  BY <1>1, <1>4 DEF paging_map_to
<1> HIDE DEF set
<1>7. SetPages(v, p, e) = set
  BY <1>5 DEF set
<1> QED BY <1>6, <1>7, Zenon DEF Shown, MapOf

\* The pages of memory behind the pages that are set.
LEMMA SetPagesBehind ==
  ASSUME NEW v \in Nat, NEW p \in Nat, NEW e \in Nat, NEW n \in SetPages(v, p, e)
  PROVE  /\ n \in Nat /\ Shown(v, p, n) \in Nat
         /\ Shown(v, p, n) \in (p \div PageSize)..(Over(e) - 1)
<1>1. PICK a \in Nat, b \in Nat, c \in Nat : a = v \div PageSize /\ b = p \div PageSize /\ c = Over(e)
  BY PageOf, OverIs
<1>2. n \in a..(a + (c - b) - 1)
  BY <1>1 DEF SetPages
<1>3. n \in Nat /\ b + (n - a) \in Nat /\ b + (n - a) \in b..(c - 1)
  BY <1>2
<1> QED BY <1>1, <1>3 DEF Shown

\* m bytes from virtual address v on that lie in their pages as in the memory from p
\* on: the pages set are theirs, and every byte is found.
LEMMA BytesPages ==
  ASSUME NEW v \in Nat, NEW p \in Nat, NEW m \in Nat \ {0}, v % PageSize = p % PageSize
  PROVE  SetPages(v, p, p + m) = (v \div PageSize)..((v + m - 1) \div PageSize)
<1>1. PICK l \in Nat : l = m - 1
  OBVIOUS
<1>2. p + m \in Nat /\ p + m # 0 /\ p + m - 1 = p + l /\ v + m - 1 = v + l /\ v + l \in Nat /\ p + l \in Nat
  BY <1>1
<1>3. Over(p + m) = (p + l) \div PageSize + 1
  BY <1>2, OverIs
<1>4. (v + l) \div PageSize - v \div PageSize = (p + l) \div PageSize - p \div PageSize
  BY PagesAlike
<1>5. PICK a \in Nat, c \in Nat, d \in Nat, t \in Nat :
        /\ a = v \div PageSize /\ c = p \div PageSize
        /\ d = (v + l) \div PageSize /\ t = (p + l) \div PageSize
  BY <1>2, PageOf
<1>6. d - a = t - c
  BY <1>4, <1>5
<1>7. a + ((t + 1) - c) - 1 = d
  BY <1>6
<1> QED BY <1>2, <1>3, <1>5, <1>7 DEF SetPages

LEMMA BytesFound ==
  ASSUME NEW v \in Nat, NEW p \in Nat, NEW m \in Nat, v % PageSize = p % PageSize,
         NEW b \in 0..(m - 1)
  PROVE  /\ (v + b) \div PageSize \in SetPages(v, p, p + m)
         /\ Shown(v, p, (v + b) \div PageSize) * PageSize + ((v + b) % PageSize) = p + b
<1>1. /\ b \in Nat /\ m \in Nat \ {0} /\ v + b \in Nat /\ p + b \in Nat /\ v + m - 1 \in Nat
      /\ v <= v + b /\ v + b <= v + m - 1
  OBVIOUS
<1>2. PICK a \in Nat, c \in Nat, d \in Nat, n \in Nat, q \in Nat :
        /\ a = v \div PageSize /\ c = p \div PageSize /\ d = (v + m - 1) \div PageSize
        /\ n = (v + b) \div PageSize /\ q = (p + b) \div PageSize
  BY <1>1, PageOf
<1>3. SetPages(v, p, p + m) = a..d
  <2>1. SetPages(v, p, p + m) = (v \div PageSize)..((v + m - 1) \div PageSize)
    BY <1>1, BytesPages
  <2> QED BY <1>2, <2>1
<1>4. a <= n /\ n <= d
  BY <1>1, <1>2, PageMonotone
<1>5. n - a = q - c /\ (v + b) % PageSize = (p + b) % PageSize
  BY <1>1, <1>2, PagesAlike
<1>6. p + b = q * PageSize + ((p + b) % PageSize)
  BY <1>1, <1>2, PageOf
<1>7. Shown(v, p, n) = q
  <2>1. c + (n - a) = q
    BY <1>5
  <2> QED BY <1>2, <2>1 DEF Shown
<1>8. n \in a..d
  BY <1>4
<1> QED BY <1>2, <1>3, <1>5, <1>6, <1>7, <1>8

LEMMA HeaderTypes ==
  ASSUME NEW p \in Headers
  PROVE  /\ p.vaddr \in Nat /\ p.offset \in Nat /\ p.filesz \in Nat /\ p.memsz \in Nat \ {0}
         /\ p.filesz <= p.memsz /\ p.writable \in BOOLEAN
<1>1. UNION {Vaddrs, Offsets, Filesizes} \subseteq Nat /\ Memsizes \subseteq Nat \ {0}
  BY PagesAssumption
<1>2. CASE p = Note
  BY <1>2 DEF Note
<1>3. CASE p \in Phdr /\ p.filesz <= p.memsz
  <2>1. /\ p.vaddr \in Vaddrs /\ p.offset \in Offsets /\ p.filesz \in Filesizes \cup {0}
        /\ p.memsz \in Memsizes /\ p.writable \in BOOLEAN
    BY <1>3 DEF Phdr
  <2>2. /\ Vaddrs \subseteq Nat /\ Offsets \subseteq Nat /\ Filesizes \subseteq Nat
    BY <1>1
  <2>3. /\ p.vaddr \in Nat /\ p.offset \in Nat
    BY <2>1, <2>2
  <2>4. p.filesz \in Nat
    <3>1. p.filesz \in Filesizes \/ p.filesz = 0
      BY <2>1, Zenon
    <3>2. \A z \in Filesizes : z \in Nat
      BY <2>2
    <3>3. CASE p.filesz \in Filesizes
      BY <3>2, <3>3, Zenon
    <3>4. CASE p.filesz = 0
      BY <3>4
    <3> QED BY <3>1, <3>3, <3>4
  <2>5. p.memsz \in Nat \ {0}
    BY <1>1, <2>1
  <2> QED BY <1>3, <2>1, <2>3, <2>4, <2>5
<1> QED BY <1>2, <1>3 DEF Headers

LEMMA Constants ==
  /\ FileSize \in Nat /\ HeapPages \in Nat /\ StackPages \in Nat
  /\ FileAt \in Nat /\ HeapAt \in Nat /\ ProgramAt \in Nat /\ StackAt \in Nat /\ StackPhys \in Nat
  /\ FileAt % PageSize = 0 /\ HeapAt % PageSize = 0 /\ ProgramAt % PageSize = 0
  /\ StackAt % PageSize = 0 /\ StackPhys % PageSize = 0
BY PagesAssumption

\* Whole pages behind an address at the start of one.
LEMMA WholePages ==
  ASSUME NEW x \in Nat, x % PageSize = 0, NEW n \in Nat
  PROVE  /\ n * PageSize \in Nat
         /\ (x + n * PageSize) \div PageSize = x \div PageSize + n
         /\ (x + n * PageSize) % PageSize = 0
         /\ Over(x + n * PageSize) = x \div PageSize + n
<1>1. PICK d \in Nat : d = x \div PageSize /\ x = d * PageSize + 0
  BY PageOf
<1>2. n * PageSize \in Nat /\ (d + n) * PageSize = d * PageSize + n * PageSize
      /\ d * PageSize \in Nat /\ 0 \in 0..(PageSize - 1) /\ d + n \in Nat
  BY PageNat
<1>3. x + n * PageSize = (d + n) * PageSize + 0
  BY <1>1, <1>2
<1>4. ((d + n) * PageSize + 0) \div PageSize = d + n /\ ((d + n) * PageSize + 0) % PageSize = 0
  BY <1>2, PageUnique
<1>5. x + n * PageSize \in Nat
  BY <1>2
<1> QED BY <1>1, <1>2, <1>3, <1>4, <1>5, OverIs

\* Page table t has the m bytes from virtual address v on in the memory from p on.
Holds(t, v, p, m, w) ==
  \A b \in 0..(m - 1) : /\ (v + b) \div PageSize \in DOMAIN t
                        /\ t[(v + b) \div PageSize].page * PageSize + ((v + b) % PageSize) = p + b
                        /\ t[(v + b) \div PageSize].writable = w

LEMMA SegmentFound ==
  ASSUME NEW t, NEW v \in Nat, NEW p \in Nat, NEW m \in Nat, v % PageSize = p % PageSize, NEW w
  PROVE  Holds(MapOf(t, v, p, p + m, w), v, p, m, w)
<1> SUFFICES ASSUME NEW b \in 0..(m - 1), NEW f, f = MapOf(t, v, p, p + m, w)
             PROVE  /\ (v + b) \div PageSize \in DOMAIN f
                    /\ f[(v + b) \div PageSize].page * PageSize + ((v + b) % PageSize) = p + b
                    /\ f[(v + b) \div PageSize].writable = w
  BY DEF Holds
<1>1. /\ (v + b) \div PageSize \in SetPages(v, p, p + m)
      /\ Shown(v, p, (v + b) \div PageSize) * PageSize + ((v + b) % PageSize) = p + b
  BY BytesFound
<1>2. PICK n : n = (v + b) \div PageSize
  OBVIOUS
<1>3. n \in DOMAIN f /\ f[n] = [page |-> Shown(v, p, n), writable |-> w]
  BY <1>1, <1>2 DEF MapOf
<1>4. f[n].page = Shown(v, p, n) /\ f[n].writable = w
  BY <1>3
<1> QED BY <1>1, <1>2, <1>3, <1>4

\* No entry is lost, and a new one is for the pages of memory that were to be mapped.
LEMMA MappingKinds ==
  ASSUME NEW t, DOMAIN t \subseteq Nat, \A n \in DOMAIN t : t[n] \in Entry,
         NEW v \in Nat, NEW p \in Nat, NEW e \in Nat, p <= e, NEW w, w \in BOOLEAN
  PROVE  /\ DOMAIN MapOf(t, v, p, e, w) \subseteq Nat
         /\ \A n \in DOMAIN MapOf(t, v, p, e, w) :
              /\ MapOf(t, v, p, e, w)[n] \in Entry
              /\ \/ n \in DOMAIN t /\ MapOf(t, v, p, e, w)[n] = t[n]
                 \/ MapOf(t, v, p, e, w)[n].page \in (p \div PageSize)..(Over(e) - 1)
<1>1. \A n : n \in DOMAIN MapOf(t, v, p, e, w) <=> n \in DOMAIN t \cup SetPages(v, p, e)
  BY DEF MapOf
<1>3. \A n \in SetPages(v, p, e) :
        MapOf(t, v, p, e, w)[n] = [page |-> Shown(v, p, n), writable |-> w]
  BY DEF MapOf
<1>4. \A n \in DOMAIN t \ SetPages(v, p, e) : MapOf(t, v, p, e, w)[n] = t[n]
  BY DEF MapOf
<1>2. ASSUME NEW n \in SetPages(v, p, e)
      PROVE  /\ n \in Nat /\ MapOf(t, v, p, e, w)[n] \in Entry
             /\ MapOf(t, v, p, e, w)[n].page \in (p \div PageSize)..(Over(e) - 1)
  <2>1. /\ n \in Nat /\ Shown(v, p, n) \in Nat
        /\ Shown(v, p, n) \in (p \div PageSize)..(Over(e) - 1)
    BY SetPagesBehind
  <2>2. MapOf(t, v, p, e, w)[n] = [page |-> Shown(v, p, n), writable |-> w]
    BY <1>3
  <2>3. [page |-> Shown(v, p, n), writable |-> w] \in Entry
    BY <2>1 DEF Entry
  <2> QED BY <2>1, <2>2, <2>3
<1> QED BY <1>1, <1>2, <1>4

\* Behind an address at the start of a page the pages are those of address 0.
LEMMA Shifted ==
  ASSUME NEW x \in Nat, x % PageSize = 0, NEW m \in Nat
  PROVE  /\ (x + m) % PageSize = m % PageSize
         /\ Over(x + m) = x \div PageSize + Over(m)
<1>1. PICK d \in Nat : d = x \div PageSize /\ x = d * PageSize + 0
  BY PageOf
<1>2. PageSize \in Nat \ {0}
  BY PageNat
<1>3. ASSUME NEW y \in Nat
      PROVE  (x + y) \div PageSize = d + y \div PageSize /\ (x + y) % PageSize = y % PageSize
  <2>1. PICK q \in Nat, r \in 0..(PageSize - 1) :
          q = y \div PageSize /\ r = y % PageSize /\ y = q * PageSize + r
    BY PageOf
  <2>2. (d + q) * PageSize = d * PageSize + q * PageSize /\ d * PageSize \in Nat
        /\ q * PageSize \in Nat /\ d + q \in Nat
    BY <1>2
  <2>3. x + y = (d + q) * PageSize + r
    BY <1>1, <2>1, <2>2
  <2>4. ((d + q) * PageSize + r) \div PageSize = d + q /\ ((d + q) * PageSize + r) % PageSize = r
    BY <2>2, PageUnique
  <2> QED BY <2>1, <2>3, <2>4
<1>4. m + PageSize - 1 \in Nat /\ x + m + PageSize - 1 = x + (m + PageSize - 1)
  BY <1>2
<1>5. PICK z \in Nat : z = m + PageSize - 1
  BY <1>4
<1>6. (x + z) \div PageSize = d + z \div PageSize
  BY <1>3
<1>7. Over(x + m) = d + Over(m)
  BY <1>4, <1>5, <1>6 DEF Over
<1> QED BY <1>1, <1>3, <1>7

\* Where the pages of a program header begin, in virtual and in real memory.
LEMMA HeaderAt ==
  ASSUME NEW p \in Headers, NEW n \in Nat, NEW a, a = phdr_paddr(p, HeapAt + n * PageSize)
  PROVE  /\ HeapAt + n * PageSize \in Nat /\ a \in Nat
         /\ a <= a + p.memsz /\ a + p.memsz \in Nat
         /\ InPlace(p) => p.vaddr % PageSize = a % PageSize
<1>1. /\ p.vaddr \in Nat /\ p.offset \in Nat /\ p.filesz \in Nat /\ p.memsz \in Nat \ {0}
  BY HeaderTypes
<1>2. /\ FileAt \in Nat /\ HeapAt \in Nat /\ FileAt % PageSize = 0 /\ HeapAt % PageSize = 0
  BY Constants
<1>3. n * PageSize \in Nat /\ (HeapAt + n * PageSize) % PageSize = 0
  BY <1>2, WholePages
<1>4. HeapAt + n * PageSize \in Nat
  BY <1>2, <1>3
<1>5. (FileAt + p.offset) % PageSize = p.offset % PageSize /\ FileAt + p.offset \in Nat
  <2>1. PICK o \in Nat : o = p.offset
    BY <1>1
  <2>2. (FileAt + o) % PageSize = o % PageSize /\ FileAt + o \in Nat
    BY <1>2, Shifted
  <2> QED BY <2>1, <2>2
<1>6. a = IF p.filesz = 0 THEN HeapAt + n * PageSize ELSE FileAt + p.offset
  BY DEF phdr_paddr
<1>7. a \in Nat
  BY <1>4, <1>5, <1>6
<1>8. ASSUME InPlace(p) PROVE p.vaddr % PageSize = a % PageSize
  BY <1>3, <1>5, <1>6, <1>8 DEF InPlace
<1>9. a <= a + p.memsz /\ a + p.memsz \in Nat
  BY <1>1, <1>7
<1> QED BY <1>4, <1>7, <1>8, <1>9

\* The pages of memory a program header is given are in the file, when its segment
\* ends in the file, or are the next ones of the heap.
LEMMA HeaderPages ==
  ASSUME NEW p \in Headers, NEW n \in Nat, NEW a, a = phdr_paddr(p, HeapAt + n * PageSize),
         p.filesz = 0 \/ p.offset + p.memsz <= FileSize,
         NEW g \in (a \div PageSize)..(Over(a + p.memsz) - 1)
  PROVE  IF p.filesz = 0
         THEN g \in (HeapAt \div PageSize + n)..(HeapAt \div PageSize + n + Over(p.memsz) - 1)
         ELSE g \in (FileAt \div PageSize)..((FileAt + FileSize - 1) \div PageSize)
<1>1. /\ p.offset \in Nat /\ p.filesz \in Nat /\ p.memsz \in Nat /\ p.memsz # 0
  BY HeaderTypes
<1>2. /\ FileAt \in Nat /\ HeapAt \in Nat /\ HeapAt % PageSize = 0 /\ FileSize \in Nat
  BY Constants
<1>3. CASE p.filesz = 0
  <2>1. PICK x \in Nat : x = HeapAt + n * PageSize
    BY HeaderAt
  <2>2. x % PageSize = 0 /\ x \div PageSize = HeapAt \div PageSize + n
    BY <1>2, <2>1, WholePages
  <2>3. a = x
    BY <1>3, <2>1 DEF phdr_paddr
  <2>4. Over(x + p.memsz) = x \div PageSize + Over(p.memsz)
    BY <1>1, <2>2, Shifted
  <2>5. Over(p.memsz) \in Nat /\ HeapAt \div PageSize \in Nat
    BY <1>1, <1>2, PageOf, OverIs
  <2>6. PICK h \in Nat, o \in Nat : h = HeapAt \div PageSize /\ o = Over(p.memsz)
    BY <2>5
  <2>7. a \div PageSize = h + n /\ Over(a + p.memsz) = h + n + o
    BY <2>2, <2>3, <2>4, <2>6
  <2>8. g \in (h + n)..(h + n + o - 1)
    BY <2>7
  <2> QED BY <1>3, <2>6, <2>8
<1>4. CASE p.filesz # 0
  <2>1. a = FileAt + p.offset
    BY <1>4 DEF phdr_paddr
  <2>2. PICK e \in Nat : e = a + p.memsz
    BY <1>1, <1>2, <2>1
  <2>3. PICK f \in Nat : f = FileAt + FileSize - 1
    BY <1>1, <1>2, <1>4
  <2>4. e # 0 /\ a \in Nat /\ FileAt <= a /\ e - 1 \in Nat /\ e - 1 <= f
    BY <1>1, <1>2, <1>4, <2>1, <2>2, <2>3
  <2>5. Over(e) - 1 = (e - 1) \div PageSize
    <3>1. Over(e) = (e - 1) \div PageSize + 1
      BY <2>4, OverIs
    <3>2. (e - 1) \div PageSize \in Nat
      BY <2>4, PageOf
    <3> QED BY <3>1, <3>2
  <2>6. (e - 1) \div PageSize <= f \div PageSize
    BY <2>4, PageMonotone
  <2>7. FileAt \div PageSize <= a \div PageSize
    BY <1>2, <2>4, PageMonotone
  <2>8. PICK u \in Nat, c \in Nat, h \in Nat, z \in Nat :
          /\ u = FileAt \div PageSize /\ c = a \div PageSize
          /\ h = (e - 1) \div PageSize /\ z = f \div PageSize
    BY <1>2, <2>4, PageOf
  <2>9. g \in c..h
    BY <2>2, <2>5, <2>8
  <2>10. u <= c /\ h <= z
    BY <2>6, <2>7, <2>8
  <2>11. g \in u..z
    BY <2>9, <2>10
  <2> QED BY <1>4, <2>3, <2>8, <2>11
<1> QED BY <1>3, <1>4

-----------------------------------------------------------------------------
(* The steps.                                                              *)

LEMMA InitInvariant == Init => IInv
<1> SUFFICES ASSUME Init PROVE IInv
  OBVIOUS
<1>1. at = "validate" /\ i = 1 /\ vbase = 0 /\ vend = 0 /\ next = 0 /\ DOMAIN pages = {}
  BY DEF Init
<1>2. FileOK
  <2>1. CASE header = GoodHeader /\ phdrs \in UNION {[1..n -> Headers] : n \in 0..MaxHeaders}
    <3>1. header \in Header
      BY <2>1 DEF Header, GoodHeader
    <3>2. PICK n \in 0..MaxHeaders : phdrs \in [1..n -> Headers]
      BY <2>1
    <3>3. n \in Nat
      BY PagesAssumption
    <3>4. Len(phdrs) = n
      BY <3>2, <3>3
    <3> QED BY <3>1, <3>2, <3>3, <3>4 DEF FileOK
  <2>2. CASE header \in Header /\ phdrs = <<>>
    BY <2>2 DEF FileOK
  <2> QED BY <2>1, <2>2 DEF Init
<1>3. TypeOK
  <2>1. HeapPages \in Nat
    BY Constants
  <2> QED BY <1>1, <1>2, <2>1 DEF TypeOK, FileOK
<1>4. PathTaken /\ SegmentsSoFar /\ BinarySoFar
  BY <1>1 DEF PathTaken, SegmentsSoFar, BinarySoFar
<1>5. BoundsAgree
  BY <1>1 DEF BoundsAgree, Bounds
<1>6. MapsOwnPages
  BY <1>1 DEF MapsOwnPages
<1> QED BY <1>2, <1>3, <1>4, <1>5, <1>6 DEF IInv

\* Segments and the file stay where they are when neither the page table nor the bss
\* sections change.
LEMMA PagesKept ==
  ASSUME UNCHANGED <<header, phdrs, next, pages, bss>>
  PROVE  /\ FileOK => FileOK'
         /\ MapsOwnPages => MapsOwnPages'
         /\ IsElf' = IsElf
         /\ \A k : Mapped(k) => (Mapped(k))'
         /\ \A k : (Alone(k))' = Alone(k)
         /\ DOMAIN phdrs' = DOMAIN phdrs
BY DEF FileOK, MapsOwnPages, IsElf, Mapped, Alone, Translated, OwnedPages

LEMMA StepLoaded == IInv /\ elf_process_loaded => IInv'
<1> SUFFICES ASSUME IInv, elf_process_loaded PROVE IInv'
  OBVIOUS
<1>1. /\ at = "validate" /\ at' = IF IsElf THEN "scan" ELSE "binary"
      /\ UNCHANGED <<header, phdrs, i, vbase, vend, next, pages, bss>>
  BY DEF elf_process_loaded, IsElf
<1>2. FileOK' /\ MapsOwnPages' /\ IsElf' = IsElf
  BY <1>1, PagesKept DEF IInv
<1>3. TypeOK'
  BY <1>1 DEF IInv, TypeOK
<1>4. PathTaken' /\ SegmentsSoFar' /\ BinarySoFar'
  BY <1>1, <1>2 DEF PathTaken, SegmentsSoFar, BinarySoFar
<1>5. BoundsAgree'
  BY <1>1 DEF IInv, BoundsAgree, Bounds
<1> QED BY <1>2, <1>3, <1>4, <1>5 DEF IInv

\* One more segment, and the bounds are those of one more.
LEMMA StepPheader == IInv /\ elf_process_pheader => IInv'
<1> SUFFICES ASSUME IInv, elf_process_pheader PROVE IInv'
  OBVIOUS
<1>1. /\ at = "scan" /\ i <= Len(phdrs)
      /\ UNCHANGED <<header, phdrs, next, pages, bss>>
      /\ \/ at' = "scan" /\ i' = i + 1 /\ vbase' = lower_base(vbase, phdrs[i])
            /\ vend' = higher_end(vend, phdrs[i])
         \/ at' = "EINVAL" /\ UNCHANGED <<vbase, vend, i>>
  BY DEF elf_process_pheader
<1>2. FileOK' /\ MapsOwnPages' /\ IsElf' = IsElf
  BY <1>1, PagesKept DEF IInv
<1>3. Len(phdrs) \in Nat /\ i \in 1..Len(phdrs) /\ phdrs[i] \in Headers
  BY <1>1 DEF IInv, FileOK, TypeOK
<1>4. TypeOK'
  <2>1. i' \in 1..(Len(phdrs) + 1) /\ at' \in {"scan", "EINVAL"}
    BY <1>1, <1>3
  <2> QED BY <1>1, <2>1 DEF IInv, TypeOK
<1>5. PathTaken' /\ SegmentsSoFar' /\ BinarySoFar'
  BY <1>1, <1>2 DEF IInv, PathTaken, SegmentsSoFar, BinarySoFar
<1> SUFFICES BoundsAgree'
  BY <1>2, <1>4, <1>5 DEF IInv
<1>6. CASE at' = "scan"
  <2>1. i' = i + 1 /\ vbase' = lower_base(vbase, phdrs[i]) /\ vend' = higher_end(vend, phdrs[i])
    BY <1>1, <1>6
  <2>2. Bounds(i - 1)
    BY <1>1 DEF IInv, BoundsAgree
  <2>3. SUFFICES ASSUME \A k \in 1..i : phdrs[k].vaddr # 0
                 PROVE  /\ \E k \in 1..i : vbase' = phdrs[k].vaddr
                        /\ \E k \in 1..i : vend' = phdrs[k].vaddr + phdrs[k].memsz
                        /\ \A k \in 1..i : vbase' <= phdrs[k].vaddr
                                           /\ phdrs[k].vaddr + phdrs[k].memsz <= vend'
    <3>1. i' - 1 = i /\ i # 0 /\ phdrs' = phdrs
      BY <1>1, <1>3, <2>1
    <3> QED BY <1>6, <3>1 DEF BoundsAgree, Bounds
  <2>4. ASSUME NEW k \in 1..i
        PROVE  /\ phdrs[k].vaddr \in Nat /\ phdrs[k].memsz \in Nat /\ phdrs[k].memsz # 0
               /\ phdrs[k].vaddr # 0 /\ k \in Nat
    <3>1. phdrs[k] \in Headers
      BY <1>3 DEF IInv, FileOK
    <3> QED BY <1>3, <2>3, <3>1, HeaderTypes
  <2>5. CASE i = 1
    <3>1. vbase = 0 /\ vend = 0
      BY <2>2, <2>5 DEF Bounds
    <3>2. vbase' = phdrs[1].vaddr /\ vend' = phdrs[1].vaddr + phdrs[1].memsz
      BY <2>1, <2>5, <3>1 DEF lower_base, higher_end
    <3> QED BY <2>4, <2>5, <3>2
  <2>6. CASE i # 1
    <3>1. /\ i - 1 \in Nat /\ i - 1 # 0 /\ i \in 1..i /\ i \in Nat
          /\ \A k \in 1..i : k = i \/ k \in 1..(i - 1)
          /\ \A k \in 1..(i - 1) : k \in 1..i
      BY <1>3, <2>6
    <3>2. /\ \E k \in 1..(i - 1) : vbase = phdrs[k].vaddr
          /\ \E k \in 1..(i - 1) : vend = phdrs[k].vaddr + phdrs[k].memsz
          /\ \A k \in 1..(i - 1) : vbase <= phdrs[k].vaddr /\ phdrs[k].vaddr + phdrs[k].memsz <= vend
      BY <2>2, <2>3, <3>1 DEF Bounds
    <3>3. PICK kb \in 1..i : vbase = phdrs[kb].vaddr
      BY <3>1, <3>2
    <3>4. PICK ke \in 1..i : vend = phdrs[ke].vaddr + phdrs[ke].memsz
      BY <3>1, <3>2
    <3>5. vbase \in Nat /\ vbase # 0 /\ vend \in Nat /\ vend # 0
      BY <2>4, <3>3, <3>4
    <3>6. PICK a \in Nat, e \in Nat : a = phdrs[i].vaddr /\ e = phdrs[i].vaddr + phdrs[i].memsz
      BY <2>4, <3>1
    <3>7. /\ vbase' = IF vbase >= a THEN a ELSE vbase
          /\ vend' = IF vend <= e THEN e ELSE vend
      BY <2>1, <3>5, <3>6 DEF lower_base, higher_end
    <3>8. \E k \in 1..i : vbase' = phdrs[k].vaddr
      BY <3>1, <3>3, <3>6, <3>7
    <3>9. \E k \in 1..i : vend' = phdrs[k].vaddr + phdrs[k].memsz
      BY <3>1, <3>4, <3>6, <3>7
    <3>10. vbase' <= vbase /\ vbase' <= a /\ vend <= vend' /\ e <= vend' /\ vbase' \in Nat /\ vend' \in Nat
      BY <3>5, <3>7
    <3>11. ASSUME NEW k \in 1..i
           PROVE  vbase' <= phdrs[k].vaddr /\ phdrs[k].vaddr + phdrs[k].memsz <= vend'
      <4>1. PICK b \in Nat, f \in Nat : b = phdrs[k].vaddr /\ f = phdrs[k].vaddr + phdrs[k].memsz
        BY <2>4
      <4>2. CASE k = i
        BY <3>6, <3>10, <4>1, <4>2
      <4>3. CASE k \in 1..(i - 1)
        <5>1. vbase <= b /\ f <= vend
          BY <3>2, <4>1, <4>3
        <5> QED BY <3>5, <3>10, <4>1, <5>1
      <4> QED BY <3>1, <4>2, <4>3
    <3> QED BY <3>8, <3>9, <3>11
  <2> QED BY <2>5, <2>6
<1>7. CASE at' = "EINVAL"
  BY <1>7 DEF BoundsAgree, Bounds
<1> QED BY <1>1, <1>6, <1>7

LEMMA StepElfLoaded == IInv /\ elf_loaded => IInv'
<1> SUFFICES ASSUME IInv, elf_loaded PROVE IInv'
  OBVIOUS
<1>1. /\ at = "scan" /\ i > Len(phdrs) /\ at' = "map" /\ i' = 1
      /\ UNCHANGED <<header, phdrs, vbase, vend, next, pages, bss>>
  BY DEF elf_loaded
<1>2. FileOK' /\ MapsOwnPages' /\ IsElf' = IsElf
  BY <1>1, PagesKept DEF IInv
<1>3. Len(phdrs) \in Nat /\ DOMAIN phdrs = 1..Len(phdrs) /\ i = Len(phdrs) + 1 /\ IsElf
  BY <1>1 DEF IInv, FileOK, TypeOK, PathTaken
<1>4. TypeOK'
  BY <1>1, <1>3 DEF IInv, TypeOK
<1>5. PathTaken' /\ BinarySoFar'
  BY <1>1, <1>2, <1>3 DEF PathTaken, BinarySoFar
<1>6. SegmentsSoFar'
  <2>1. ASSUME NEW k \in 1..Len(phdrs) PROVE ~(k < 1)
    BY <1>3
  <2> QED BY <1>1, <1>3, <2>1 DEF SegmentsSoFar
<1>7. BoundsAgree'
  <2>1. Bounds(Len(phdrs))
    <3>1. i - 1 = Len(phdrs)
      BY <1>3
    <3> QED BY <1>1, <3>1 DEF IInv, BoundsAgree
  <2> QED BY <1>1, <2>1 DEF BoundsAgree, Bounds
<1> QED BY <1>2, <1>4, <1>5, <1>6, <1>7 DEF IInv

LEMMA StepReturns == IInv /\ process_map_elf_returns => IInv'
<1> SUFFICES ASSUME IInv, process_map_elf_returns PROVE IInv'
  OBVIOUS
<1>1. /\ at = "map" /\ i > Len(phdrs) /\ at' = "stack"
      /\ UNCHANGED <<header, phdrs, i, vbase, vend, next, pages, bss>>
  BY DEF process_map_elf_returns
<1>2. /\ FileOK' /\ MapsOwnPages' /\ IsElf' = IsElf /\ DOMAIN phdrs' = DOMAIN phdrs
      /\ \A k : Mapped(k) => (Mapped(k))'
      /\ \A k : (Alone(k))' = Alone(k)
  BY <1>1, PagesKept DEF IInv
<1>3. Len(phdrs) \in Nat /\ DOMAIN phdrs = 1..Len(phdrs) /\ i \in Nat /\ IsElf
  BY <1>1 DEF IInv, FileOK, TypeOK, PathTaken
<1>4. TypeOK' /\ PathTaken' /\ BinarySoFar' /\ BoundsAgree'
  BY <1>1, <1>2, <1>3 DEF IInv, TypeOK, PathTaken, BinarySoFar, BoundsAgree
<1>5. SegmentsSoFar'
  <2>1. \A k \in DOMAIN phdrs : k < i
    BY <1>1, <1>3
  <2>2. (\A k \in DOMAIN phdrs : InPlace(phdrs[k])) => \A k \in DOMAIN phdrs : Alone(k) => Mapped(k)
    BY <1>1, <1>3, <2>1 DEF IInv, SegmentsSoFar
  <2>3. at' = "stack" /\ phdrs' = phdrs
    BY <1>1
  <2> QED BY <1>2, <2>2, <2>3, Zenon DEF SegmentsSoFar
<1> QED BY <1>2, <1>4, <1>5 DEF IInv

\* A segment that is alone in its pages stays where it is when other pages are set.
LEMMA OthersStay ==
  ASSUME FileOK, NEW v \in Nat, NEW p \in Nat, NEW e \in Nat, NEW w,
         pages' = MapOf(pages, v, p, e, w), phdrs' = phdrs,
         NEW k \in DOMAIN phdrs, Mapped(k),
         PagesOf(phdrs[k]) \cap SetPages(v, p, e) = {},
         phdrs[k].filesz = 0 => k \in DOMAIN bss' /\ bss'[k] = bss[k]
  PROVE  (Mapped(k))'
<1>1. phdrs[k] \in Headers
  BY DEF FileOK
<1>2. /\ phdrs[k].vaddr \in Nat /\ phdrs[k].memsz \in Nat
  BY <1>1, HeaderTypes
<1>3. ASSUME NEW b \in 0..(phdrs[k].memsz - 1)
      PROVE  (phdrs[k].vaddr + b) \div PageSize \in PagesOf(phdrs[k])
  <2>1. PICK a \in Nat, m \in Nat : a = phdrs[k].vaddr /\ m = phdrs[k].memsz
    BY <1>2
  <2>2. b \in Nat /\ a + b \in Nat /\ a + m - 1 \in Nat /\ a <= a + b /\ a + b <= a + m - 1
    BY <1>3, <2>1
  <2>3. a \div PageSize <= (a + b) \div PageSize /\ (a + b) \div PageSize <= (a + m - 1) \div PageSize
    BY <2>2, PageMonotone
  <2>4. a \div PageSize \in Nat /\ (a + b) \div PageSize \in Nat /\ (a + m - 1) \div PageSize \in Nat
    BY <2>2, PageOf
  <2>5. (a + b) \div PageSize \in (a \div PageSize)..((a + m - 1) \div PageSize)
    BY <2>3, <2>4
  <2> QED BY <2>1, <2>5 DEF PagesOf
<1>4. ASSUME NEW b \in 0..(phdrs[k].memsz - 1), NEW n, n = (phdrs[k].vaddr + b) \div PageSize
      PROVE  n \in DOMAIN pages' /\ pages'[n] = pages[n]
  <2>1. n \in PagesOf(phdrs[k])
    BY <1>3, <1>4
  <2>2. n \notin SetPages(v, p, e)
    BY <2>1
  <2>3. n \in DOMAIN pages
    BY <1>4 DEF Mapped
  <2> QED BY <2>2, <2>3 DEF MapOf
<1> QED BY <1>4 DEF Mapped, Translated

\* What is mapped is the file, the next pages of the heap or the stack.
LEMMA OwnStays ==
  ASSUME MapsOwnPages, TypeOK, NEW v \in Nat, NEW p \in Nat, NEW e \in Nat, p <= e,
         NEW w, w \in BOOLEAN,
         pages' = MapOf(pages, v, p, e, w), phdrs' = phdrs, next' \in Nat, next <= next',
         (\A k \in DOMAIN phdrs : phdrs[k].filesz = 0 \/ phdrs[k].offset + phdrs[k].memsz <= FileSize)
           => \A g \in (p \div PageSize)..(Over(e) - 1) : g \in OwnedPages'
  PROVE  /\ MapsOwnPages'
         /\ DOMAIN pages' \subseteq Nat /\ \A n \in DOMAIN pages' : pages'[n] \in Entry
<1>1. DOMAIN pages \subseteq Nat /\ (\A n \in DOMAIN pages : pages[n] \in Entry) /\ next \in Nat
  BY Constants DEF TypeOK
<1>2. /\ DOMAIN pages' \subseteq Nat
      /\ \A n \in DOMAIN pages' :
           /\ pages'[n] \in Entry
           /\ \/ n \in DOMAIN pages /\ pages'[n] = pages[n]
              \/ pages'[n].page \in (p \div PageSize)..(Over(e) - 1)
  BY <1>1, MappingKinds
<1>3. OwnedPages \subseteq OwnedPages'
  <2>1. HeapAt \div PageSize \in Nat
    BY Constants, PageOf
  <2>2. PICK h \in Nat : h = HeapAt \div PageSize
    BY <2>1
  <2>3. h..(h + next - 1) \subseteq h..(h + next' - 1)
    BY <1>1
  <2> QED BY <2>2, <2>3, Zenon DEF OwnedPages
<1>4. MapsOwnPages'
  <2>1. SUFFICES ASSUME \A k \in DOMAIN phdrs :
                          phdrs[k].filesz = 0 \/ phdrs[k].offset + phdrs[k].memsz <= FileSize,
                        NEW n \in DOMAIN pages'
                 PROVE  pages'[n].page \in OwnedPages'
    BY DEF MapsOwnPages
  <2>2. CASE n \in DOMAIN pages /\ pages'[n] = pages[n]
    BY <1>3, <2>1, <2>2 DEF MapsOwnPages
  <2>3. CASE pages'[n].page \in (p \div PageSize)..(Over(e) - 1)
    BY <2>1, <2>3
  <2> QED BY <1>2, <2>2, <2>3
<1> QED BY <1>2, <1>4

\* One more segment: it is where its header says, and those before it that are alone
\* in their pages are not touched.
LEMMA StepElf == IInv /\ process_map_elf => IInv'
<1> SUFFICES ASSUME IInv, process_map_elf PROVE IInv'
  OBVIOUS
<1>0. PICK p, a, need : /\ p = phdrs[i] /\ a = phdr_paddr(p, HeapAt + next * PageSize)
                        /\ need = PAGE_ALIGN(p.memsz) \div PageSize
  OBVIOUS
<1>1. /\ at = "map" /\ i <= Len(phdrs)
      /\ UNCHANGED <<header, phdrs, vbase, vend>>
      /\ \/ at' = "ENOMEM" /\ UNCHANGED <<i, next, pages, bss>>
         \/ /\ p.filesz # 0 \/ kzalloc_finds(need)
            /\ next' = IF p.filesz = 0 THEN next + need ELSE next
            /\ bss' = IF p.filesz = 0
                      THEN [n \in DOMAIN bss \cup {i} |->
                              IF n = i THEN HeapAt + next * PageSize ELSE bss[n]] ELSE bss
            /\ pages' = paging_map_to(pages, PAGE_ALIGN_LOWER(p.vaddr), PAGE_ALIGN_LOWER(a),
                                      PAGE_ALIGN(a + p.memsz), p.writable)
            /\ i' = i + 1
            /\ at' = "map"
  BY <1>0 DEF process_map_elf
<1>2. /\ Len(phdrs) \in Nat /\ DOMAIN phdrs = 1..Len(phdrs) /\ i \in DOMAIN phdrs /\ i \in Nat
      /\ p \in Headers /\ IsElf /\ next \in Nat /\ HeapPages \in Nat /\ next <= HeapPages
  <2>1. HeapPages \in Nat
    BY Constants
  <2> QED BY <1>0, <1>1, <2>1 DEF IInv, FileOK, TypeOK, PathTaken
<1>3. FileOK' /\ IsElf' = IsElf /\ PathTaken' /\ BinarySoFar'
  BY <1>1, <1>2 DEF IInv, FileOK, IsElf, PathTaken, BinarySoFar
<1>4. CASE at' = "ENOMEM"
  <2>1. UNCHANGED <<header, phdrs, i, vbase, vend, next, pages, bss>>
    BY <1>1, <1>4
  <2>2. TypeOK' /\ MapsOwnPages'
    BY <1>4, <2>1, PagesKept DEF IInv, TypeOK
  <2> QED BY <1>3, <1>4, <2>2 DEF IInv, BoundsAgree, SegmentsSoFar
<1>5. CASE at' # "ENOMEM"
  <2>1. /\ p.vaddr \in Nat /\ p.memsz \in Nat /\ p.memsz # 0 /\ p.filesz \in Nat /\ p.writable \in BOOLEAN
    BY <1>2, HeaderTypes
  <2>2. /\ a \in Nat /\ a <= a + p.memsz /\ a + p.memsz \in Nat
        /\ InPlace(p) => p.vaddr % PageSize = a % PageSize
    BY <1>0, <1>2, HeaderAt
  <2>3. need = Over(p.memsz) /\ need \in Nat
    BY <1>0, <2>1, AlignIs, OverIs
  <2>4. pages' = MapOf(pages, p.vaddr, a, a + p.memsz, p.writable)
    <3>1. pages' = paging_map_to(pages, PAGE_ALIGN_LOWER(p.vaddr), PAGE_ALIGN_LOWER(a),
                                 PAGE_ALIGN(a + p.memsz), p.writable)
      BY <1>1, <1>5
    <3>2. PICK v \in Nat, e \in Nat, w \in BOOLEAN : v = p.vaddr /\ e = a + p.memsz /\ w = p.writable
      BY <2>1, <2>2
    <3>3. paging_map_to(pages, PAGE_ALIGN_LOWER(v), PAGE_ALIGN_LOWER(a), PAGE_ALIGN(e), w)
            = MapOf(pages, v, a, e, w)
      BY <2>2, <3>2, MapIs
    <3> QED BY <3>1, <3>2, <3>3
  <2>5. /\ i' = i + 1 /\ at' = "map" /\ phdrs' = phdrs
        /\ next' = IF p.filesz = 0 THEN next + need ELSE next
        /\ bss' = IF p.filesz = 0
                  THEN [n \in DOMAIN bss \cup {i} |->
                          IF n = i THEN HeapAt + next * PageSize ELSE bss[n]] ELSE bss
    BY <1>1, <1>5
  <2>6. next' \in 0..HeapPages /\ next <= next' /\ next' \in Nat
    <3>1. p.filesz = 0 => next + need <= HeapPages
      BY <1>1, <1>5 DEF kzalloc_finds
    <3> QED BY <1>2, <2>3, <2>5, <3>1
  <2>7. ASSUME \A k \in DOMAIN phdrs : phdrs[k].filesz = 0 \/ phdrs[k].offset + phdrs[k].memsz <= FileSize,
               NEW g \in (a \div PageSize)..(Over(a + p.memsz) - 1)
        PROVE  g \in OwnedPages'
    <3>1. p.filesz = 0 \/ p.offset + p.memsz <= FileSize
      BY <1>0, <1>2, <2>7
    <3>2. IF p.filesz = 0
          THEN g \in (HeapAt \div PageSize + next)..(HeapAt \div PageSize + next + Over(p.memsz) - 1)
          ELSE g \in (FileAt \div PageSize)..((FileAt + FileSize - 1) \div PageSize)
      BY <1>0, <1>2, <3>1, HeaderPages
    <3>3. CASE p.filesz = 0
      <4>1. PICK h \in Nat : h = HeapAt \div PageSize
        BY Constants, PageOf
      <4>2. g \in (h + next)..(h + next + need - 1)
        BY <2>3, <3>2, <3>3, <4>1
      <4>3. next' = next + need
        BY <2>5, <3>3
      <4>4. g \in h..(h + next' - 1)
        BY <1>2, <2>3, <4>2, <4>3
      <4> QED BY <4>1, <4>4 DEF OwnedPages
    <3>4. CASE p.filesz # 0
      BY <3>2, <3>4 DEF OwnedPages
    <3> QED BY <3>3, <3>4
  <2>8. /\ MapsOwnPages'
        /\ DOMAIN pages' \subseteq Nat /\ \A n \in DOMAIN pages' : pages'[n] \in Entry
    <3>1. PICK v \in Nat, e \in Nat, w \in BOOLEAN : v = p.vaddr /\ e = a + p.memsz /\ w = p.writable
      BY <2>1, <2>2
    <3>2. MapsOwnPages /\ TypeOK /\ a <= e /\ w \in BOOLEAN /\ pages' = MapOf(pages, v, a, e, w)
      BY <2>1, <2>2, <2>4, <3>1 DEF IInv
    <3>3. (\A k \in DOMAIN phdrs : phdrs[k].filesz = 0 \/ phdrs[k].offset + phdrs[k].memsz <= FileSize)
            => \A g \in (a \div PageSize)..(Over(e) - 1) : g \in OwnedPages'
      BY <2>7, <3>1
    <3> QED BY <2>2, <2>5, <2>6, <3>2, <3>3, OwnStays
  <2>9. TypeOK'
    <3>1. i' \in 1..(Len(phdrs') + 1)
      BY <1>1, <1>2, <2>5
    <3> QED BY <2>5, <2>6, <2>8, <3>1 DEF TypeOK
  <2>10. BoundsAgree'
    BY <1>1, <2>5 DEF IInv, BoundsAgree, Bounds
  <2>11. SegmentsSoFar'
    <3>1. SUFFICES ASSUME \A k \in DOMAIN phdrs : InPlace(phdrs[k]),
                          NEW k \in DOMAIN phdrs, (Alone(k))', k < i'
                   PROVE  (Mapped(k))'
      BY <2>5 DEF SegmentsSoFar
    <3>2. Alone(k)
      BY <2>5, <3>1 DEF Alone
    <3>3. SetPages(p.vaddr, a, a + p.memsz) = PagesOf(p)
      <4>1. PICK v \in Nat, m \in Nat \ {0} : v = p.vaddr /\ m = p.memsz
        BY <2>1
      <4>2. v % PageSize = a % PageSize
        BY <1>0, <1>2, <2>1, <2>2, <3>1, <4>1
      <4>3. SetPages(v, a, a + m) = (v \div PageSize)..((v + m - 1) \div PageSize)
        <5>1. a \in Nat
          BY <2>2
        <5> QED BY <4>2, <5>1, BytesPages
      <4> QED BY <4>1, <4>3 DEF PagesOf
    <3>4. CASE k = i
      <4>1. PICK v \in Nat, m \in Nat, w \in BOOLEAN : v = p.vaddr /\ m = p.memsz /\ w = p.writable
        BY <2>1
      <4>2. v % PageSize = a % PageSize
        BY <1>0, <1>2, <2>2, <3>1, <4>1
      <4>3. pages' = MapOf(pages, v, a, a + m, w)
        BY <2>4, <4>1
      <4>4. Holds(pages', v, a, m, w)
        BY <2>2, <4>2, <4>3, SegmentFound
      <4>5. a = IF p.filesz = 0 THEN HeapAt + next * PageSize ELSE FileAt + p.offset
        BY <1>0 DEF phdr_paddr
      <4>6. p.filesz = 0 => k \in DOMAIN bss' /\ bss'[k] = a
        BY <2>5, <3>4, <4>5
      <4>7. phdrs'[k] = p
        BY <1>0, <2>5, <3>4
      <4> QED BY <4>1, <4>4, <4>5, <4>6, <4>7 DEF Mapped, Translated, Holds
    <3>5. CASE k # i
      <4>1. k < i
        BY <1>2, <2>5, <3>1, <3>5
      <4>2. Mapped(k)
        BY <1>1, <1>2, <3>1, <3>2, <4>1 DEF IInv, SegmentsSoFar
      <4>3. PagesOf(phdrs[k]) \cap SetPages(p.vaddr, a, a + p.memsz) = {}
        <5>1. i \in DOMAIN phdrs \ {k}
          BY <1>2, <3>5
        <5> QED BY <1>0, <3>2, <3>3, <5>1 DEF Alone
      <4>4. phdrs[k].filesz = 0 => k \in DOMAIN bss' /\ bss'[k] = bss[k]
        <5>1. phdrs[k].filesz = 0 => k \in DOMAIN bss
          BY <4>2 DEF Mapped
        <5> QED BY <2>5, <3>5, <5>1
      <4>5. PICK v \in Nat, e \in Nat, w \in BOOLEAN : v = p.vaddr /\ e = a + p.memsz /\ w = p.writable
        BY <2>1, <2>2
      <4>6. pages' = MapOf(pages, v, a, e, w) /\ PagesOf(phdrs[k]) \cap SetPages(v, a, e) = {}
        BY <2>4, <4>3, <4>5
      <4> QED BY <2>2, <2>5, <4>2, <4>4, <4>6, OthersStay DEF IInv
    <3> QED BY <3>4, <3>5
  <2> QED BY <1>3, <2>8, <2>9, <2>10, <2>11 DEF IInv
<1> QED BY <1>4, <1>5

\* An address at the start of a page is not moved.
LEMMA Aligned ==
  ASSUME NEW x \in Nat, x % PageSize = 0
  PROVE  PAGE_ALIGN_LOWER(x) = x
<1>1. x = (x \div PageSize) * PageSize + (x % PageSize) /\ (x \div PageSize) * PageSize \in Nat
  BY PageOf
<1> QED BY <1>1 DEF PAGE_ALIGN_LOWER

LEMMA StepBinary == IInv /\ process_map_binary => IInv'
<1> SUFFICES ASSUME IInv, process_map_binary PROVE IInv'
  OBVIOUS
<1>1. /\ at = "binary" /\ at' = "stack"
      /\ UNCHANGED <<header, phdrs, i, vbase, vend, next, bss>>
      /\ pages' = paging_map_to(pages, ProgramAt, FileAt, PAGE_ALIGN(FileAt + FileSize), TRUE)
  BY DEF process_map_binary
<1>2. /\ FileAt \in Nat /\ FileSize \in Nat /\ ProgramAt \in Nat
      /\ FileAt % PageSize = 0 /\ ProgramAt % PageSize = 0
  BY Constants
<1>3. PICK e \in Nat : e = FileAt + FileSize /\ FileAt <= e
  BY <1>2
<1>4. pages' = MapOf(pages, ProgramAt, FileAt, e, TRUE)
  <2>1. PAGE_ALIGN_LOWER(ProgramAt) = ProgramAt /\ PAGE_ALIGN_LOWER(FileAt) = FileAt
    BY <1>2, Aligned
  <2>2. paging_map_to(pages, PAGE_ALIGN_LOWER(ProgramAt), PAGE_ALIGN_LOWER(FileAt), PAGE_ALIGN(e), TRUE)
          = MapOf(pages, ProgramAt, FileAt, e, TRUE)
    <3>1. ProgramAt \in Nat /\ FileAt \in Nat /\ FileAt <= e
      BY <1>2, <1>3
    <3> QED BY <3>1, MapIs
  <2> QED BY <1>1, <1>3, <2>1, <2>2
<1>5. ~IsElf /\ FileOK' /\ IsElf' = IsElf /\ PathTaken' /\ BoundsAgree'
  BY <1>1 DEF IInv, FileOK, IsElf, PathTaken, BoundsAgree
<1>6. SegmentsSoFar'
  BY <1>5 DEF SegmentsSoFar
<1>7. ASSUME NEW g \in (FileAt \div PageSize)..(Over(e) - 1) PROVE g \in OwnedPages'
  <2>1. PICK d \in Nat : d = FileAt \div PageSize
    BY <1>2, PageOf
  <2>2. CASE FileSize = 0
    <3>1. Over(e) = d
      BY <1>2, <1>3, <2>1, <2>2, OverIs
    <3> QED BY <1>7, <2>1, <3>1
  <2>3. CASE FileSize # 0
    <3>1. e # 0 /\ e - 1 \in Nat /\ e - 1 = FileAt + FileSize - 1
      BY <1>2, <1>3, <2>3
    <3>2. Over(e) = (e - 1) \div PageSize + 1
      BY <3>1, OverIs
    <3>3. PICK z \in Nat : z = (e - 1) \div PageSize
      BY <3>1, PageOf
    <3>4. g \in d..z
      BY <1>7, <2>1, <3>2, <3>3
    <3> QED BY <2>1, <3>1, <3>3, <3>4 DEF OwnedPages
  <2> QED BY <2>2, <2>3
<1>8. /\ MapsOwnPages'
      /\ DOMAIN pages' \subseteq Nat /\ \A n \in DOMAIN pages' : pages'[n] \in Entry
  <2>1. MapsOwnPages /\ TypeOK /\ phdrs' = phdrs /\ next' \in Nat /\ next <= next'
    <3>1. HeapPages \in Nat
      BY Constants
    <3> QED BY <1>1, <3>1 DEF IInv, TypeOK
  <2> QED BY <1>2, <1>3, <1>4, <1>7, <2>1, OwnStays
<1>9. TypeOK'
  BY <1>1, <1>8 DEF IInv, TypeOK
<1>10. BinarySoFar'
  <2>1. pages' = MapOf(pages, ProgramAt, FileAt, FileAt + FileSize, TRUE)
    BY <1>3, <1>4
  <2>2. ProgramAt % PageSize = FileAt % PageSize
    BY <1>2
  <2>3. Holds(pages', ProgramAt, FileAt, FileSize, TRUE)
    BY <1>2, <2>1, <2>2, SegmentFound
  <2> QED BY <2>3 DEF BinarySoFar, Translated, Holds
<1> QED BY <1>5, <1>6, <1>8, <1>9, <1>10 DEF IInv

LEMMA StepStack == IInv /\ map_stack => IInv'
<1> SUFFICES ASSUME IInv, map_stack PROVE IInv'
  OBVIOUS
<1>1. /\ at = "stack" /\ at' = "done"
      /\ UNCHANGED <<header, phdrs, i, vbase, vend, next, bss>>
      /\ pages' = paging_map_to(pages, StackAt, StackPhys,
                                PAGE_ALIGN(StackPhys + StackPages * PageSize), TRUE)
  BY DEF map_stack
<1>2. /\ StackAt \in Nat /\ StackPhys \in Nat /\ StackPages \in Nat
      /\ StackAt % PageSize = 0 /\ StackPhys % PageSize = 0
  BY Constants
<1>3. /\ StackPages * PageSize \in Nat
      /\ Over(StackPhys + StackPages * PageSize) = StackPhys \div PageSize + StackPages
      /\ (StackAt + StackPages * PageSize) \div PageSize = StackAt \div PageSize + StackPages
  BY <1>2, WholePages
<1>4. PICK e \in Nat : e = StackPhys + StackPages * PageSize /\ StackPhys <= e
  BY <1>2, <1>3
<1>5. PICK s \in Nat, q \in Nat : s = StackAt \div PageSize /\ q = StackPhys \div PageSize
  BY <1>2, PageOf
<1>6. pages' = MapOf(pages, StackAt, StackPhys, e, TRUE)
  <2>1. PAGE_ALIGN_LOWER(StackAt) = StackAt /\ PAGE_ALIGN_LOWER(StackPhys) = StackPhys
    BY <1>2, Aligned
  <2>2. paging_map_to(pages, PAGE_ALIGN_LOWER(StackAt), PAGE_ALIGN_LOWER(StackPhys), PAGE_ALIGN(e), TRUE)
          = MapOf(pages, StackAt, StackPhys, e, TRUE)
    <3>1. StackAt \in Nat /\ StackPhys \in Nat /\ StackPhys <= e
      BY <1>2, <1>4
    <3> QED BY <3>1, MapIs
  <2> QED BY <1>1, <1>4, <2>1, <2>2
<1>7. SetPages(StackAt, StackPhys, e) = s..(s + StackPages - 1)
  <2>1. s + (Over(e) - q) - 1 = s + StackPages - 1
    BY <1>2, <1>3, <1>4, <1>5
  <2> QED BY <1>5, <2>1 DEF SetPages
<1>8. FileOK' /\ IsElf' = IsElf /\ PathTaken' /\ BoundsAgree'
  BY <1>1 DEF IInv, FileOK, IsElf, PathTaken, BoundsAgree
<1>9. ASSUME NEW g \in (StackPhys \div PageSize)..(Over(e) - 1) PROVE g \in OwnedPages'
  <2>1. g \in q..(q + StackPages - 1)
    <3>1. Over(e) = q + StackPages
      BY <1>3, <1>4, <1>5
    <3>2. g \in (StackPhys \div PageSize)..(Over(e) - 1)
      BY <1>9
    <3>3. q + StackPages - 1 = Over(e) - 1
      BY <1>2, <3>1
    <3> QED BY <1>5, <3>2, <3>3, Zenon
  <2> QED BY <1>5, <2>1 DEF OwnedPages
<1>10. /\ MapsOwnPages'
       /\ DOMAIN pages' \subseteq Nat /\ \A n \in DOMAIN pages' : pages'[n] \in Entry
  <2>1. MapsOwnPages /\ TypeOK /\ phdrs' = phdrs /\ next' \in Nat /\ next <= next'
    <3>1. HeapPages \in Nat
      BY Constants
    <3> QED BY <1>1, <3>1 DEF IInv, TypeOK
  <2> QED BY <1>2, <1>4, <1>6, <1>9, <2>1, OwnStays
<1>11. TypeOK'
  BY <1>1, <1>10 DEF IInv, TypeOK
<1>12. SegmentsSoFar'
  <2>1. SUFFICES ASSUME IsElf, \A k \in DOMAIN phdrs : InPlace(phdrs[k]),
                        NEW k \in DOMAIN phdrs, (Alone(k))'
                 PROVE  (Mapped(k))'
    BY <1>1, <1>8 DEF SegmentsSoFar
  <2>2. Alone(k)
    BY <1>1, <2>1 DEF Alone
  <2>3. Mapped(k)
    BY <1>1, <2>1, <2>2 DEF IInv, SegmentsSoFar
  <2>4. PagesOf(phdrs[k]) \cap SetPages(StackAt, StackPhys, e) = {}
    BY <1>5, <1>7, <2>2 DEF Alone, StackPageSet
  <2>5. phdrs[k].filesz = 0 => k \in DOMAIN bss' /\ bss'[k] = bss[k]
    BY <1>1, <2>3 DEF Mapped
  <2> QED BY <1>1, <1>2, <1>6, <2>3, <2>4, <2>5, OthersStay DEF IInv
<1>13. BinarySoFar'
  <2>1. SUFFICES ASSUME ~IsElf, NEW b \in 0..(FileSize - 1)
                 PROVE  LET v == ProgramAt + b
                        IN /\ v \div PageSize \in DOMAIN pages'
                           /\ pages'[v \div PageSize].page * PageSize + (v % PageSize) = FileAt + b
                           /\ pages'[v \div PageSize].writable
    BY <1>8 DEF BinarySoFar, Translated
  <2>2. PICK n : n = (ProgramAt + b) \div PageSize
    OBVIOUS
  <2>3. /\ n \in DOMAIN pages /\ pages[n].page * PageSize + ((ProgramAt + b) % PageSize) = FileAt + b
        /\ pages[n].writable
    BY <1>1, <2>1, <2>2 DEF IInv, BinarySoFar, Translated
  <2>4. n \in Nat /\ s + StackPages <= n
    <3>1. PICK x \in Nat, y \in Nat : x = StackAt + StackPages * PageSize /\ y = ProgramAt + b /\ x <= y
      <4>1. StackAt + StackPages * PageSize <= ProgramAt /\ ProgramAt \in Nat /\ b \in Nat
        BY PagesAssumption, Constants
      <4> QED BY <1>2, <1>3, <4>1
    <3>2. x \div PageSize <= y \div PageSize /\ y \div PageSize \in Nat
      BY <3>1, PageMonotone, PageOf
    <3> QED BY <1>3, <1>5, <2>2, <3>1, <3>2
  <2>5. n \notin SetPages(StackAt, StackPhys, e)
    BY <1>2, <1>7, <2>4
  <2>6. n \in DOMAIN pages' /\ pages'[n] = pages[n]
    BY <1>6, <2>3, <2>5 DEF MapOf
  <2> QED BY <2>2, <2>3, <2>6
<1> QED BY <1>8, <1>10, <1>11, <1>12, <1>13 DEF IInv

LEMMA StepInvariant == IInv /\ [Next]_vars => IInv'
<1> SUFFICES ASSUME IInv, [Next]_vars PROVE IInv'
  OBVIOUS
<1>1. CASE Next
  BY <1>1, StepLoaded, StepPheader, StepElfLoaded, StepElf, StepReturns, StepBinary, StepStack DEF Next
<1>2. CASE UNCHANGED vars
  <2>1. UNCHANGED <<header, phdrs, at, i, vbase, vend, next, pages, bss>>
    BY <1>2 DEF vars
  <2>2. /\ FileOK' /\ MapsOwnPages' /\ IsElf' = IsElf /\ DOMAIN phdrs' = DOMAIN phdrs
        /\ \A k : Mapped(k) => (Mapped(k))'
        /\ \A k : (Alone(k))' = Alone(k)
    BY <2>1, PagesKept DEF IInv
  <2>3. TypeOK' /\ PathTaken'
    BY <2>1, <2>2 DEF IInv, TypeOK, PathTaken
  <2>4. BoundsAgree'
    BY <2>1 DEF IInv, BoundsAgree, Bounds
  <2>5. BinarySoFar'
    BY <2>1 DEF IInv, BinarySoFar, Translated, IsElf
  <2>6. SegmentsSoFar'
    <3>1. at' = at /\ phdrs' = phdrs /\ i' = i
      BY <2>1
    <3>2. SegmentsSoFar
      BY DEF IInv
    <3> QED BY <2>2, <3>1, <3>2, Zenon DEF SegmentsSoFar
  <2> QED BY <2>2, <2>3, <2>4, <2>5, <2>6 DEF IInv
<1> QED BY <1>1, <1>2

-----------------------------------------------------------------------------
(* The theorems.                                                           *)

\* elf_load and process_map_memory keep the invariant, in every state, for every file
\* and every number of program headers.
THEOREM ElfLoaderInvariant == Spec => []IInv
<1>1. Init => IInv
  BY InitInvariant
<1>2. IInv /\ [Next]_vars => IInv'
  BY StepInvariant
<1> QED BY <1>1, <1>2, PTL DEF Spec

\* The bounds process_load_data works with enclose the image, and no page is mapped for a
\* program but the file's, its bss sections' and its stack's.
THEOREM ElfLoaderMapsOwnPages == Spec => []ImageInv
<1>1. IInv => ImageInv
  <2>1. ASSUME IInv, at = "map", phdrs # <<>>, \A k \in DOMAIN phdrs : phdrs[k].vaddr # 0
        PROVE  /\ \E k \in DOMAIN phdrs : vbase = phdrs[k].vaddr
               /\ \E k \in DOMAIN phdrs : vend = phdrs[k].vaddr + phdrs[k].memsz
               /\ \A k \in DOMAIN phdrs : vbase <= phdrs[k].vaddr
                                          /\ phdrs[k].vaddr + phdrs[k].memsz <= vend
    <3>1. Len(phdrs) \in Nat /\ phdrs \in [1..Len(phdrs) -> Headers]
      BY <2>1 DEF IInv, FileOK
    <3>2. DOMAIN phdrs = 1..Len(phdrs) /\ Len(phdrs) # 0
      BY <2>1, <3>1
    <3>3. Bounds(Len(phdrs))
      BY <2>1 DEF IInv, BoundsAgree
    <3> QED BY <2>1, <3>2, <3>3 DEF Bounds
  <2>2. IInv => BoundsOfImage
    BY <2>1 DEF BoundsOfImage
  <2> QED BY <2>2 DEF IInv, ImageInv
<1>2. Spec => []IInv
  BY ElfLoaderInvariant
<1> QED BY <1>1, <1>2, PTL

\* A segment that is alone in its pages is where its program header says, with the right
\* to write that it asks for, when the program is loaded.
THEOREM ElfLoaderSegments == Spec => []SegmentsInPlace
<1>1. IInv => SegmentsInPlace
  <2>1. SUFFICES ASSUME IInv, Loaded, IsElf, \A k \in DOMAIN phdrs : InPlace(phdrs[k]),
                        NEW k \in DOMAIN phdrs, Alone(k)
                 PROVE  Mapped(k)
    BY DEF SegmentsInPlace, Mapped
  <2> QED BY <2>1 DEF IInv, SegmentsSoFar, Loaded
<1>2. Spec => []IInv
  BY ElfLoaderInvariant
<1> QED BY <1>1, <1>2, PTL

\* A file that is no ELF file is where PHIX_PROGRAM_VIRTUAL_ADDRESS says, byte by byte:
\* the stack, mapped last, does not lie over it.
THEOREM ElfLoaderBinary == Spec => []BinaryInPlace
<1>1. IInv => BinaryInPlace
  <2>1. ~header.signature \/ header.class = "64" \/ header.data = "MSB" => ~IsElf
    BY DEF IsElf, elf_validate_load
  <2> QED BY <2>1 DEF IInv, BinarySoFar, BinaryInPlace, Loaded
<1>2. Spec => []IInv
  BY ElfLoaderInvariant
<1> QED BY <1>1, <1>2, PTL
=============================================================================
