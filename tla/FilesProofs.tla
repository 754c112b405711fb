----------------------------- MODULE FilesProofs ----------------------------
(***************************************************************************)
(* The file layer hands a number out for one file at a time, opens what a  *)
(* path names and reads nothing but files, whatever memory is left, for    *)
(* every heap, table of descriptors, directory and path.                   *)
(***************************************************************************)
EXTENDS Files, FiniteSetTheorems, SequenceTheorems, WellFoundedInduction, TLAPS

-----------------------------------------------------------------------------
(* The inductive invariant.                                                *)

Loads == [at : {"boot", "idle", "open", "stat", "read", "wild"}, by : {"elf", "binary"},
          fd : 0..MaxFd, path : Seq(Characters)]

\* What no action changes, and the record of the load that is going on.
Shape ==
  /\ dir \in UNION {[1..n -> Entries] : n \in 0..MaxEntries}
  /\ \A p \in names : p \in Seq(Characters)
  /\ call \in Loads
  /\ (At("stat") \/ At("read")) => call.fd \in Fds

\* A descriptor has an entry of the directory, and behind its item is nothing or
\* what belongs to such an entry.
ContentsMatch ==
  \A fd \in Fds :
    table[fd] # None =>
      /\ table[fd].entry \in DOMAIN dir
      /\ table[fd].content \in IF IsDirectory(dir[table[fd].entry]) THEN {0, 2} ELSE {0, 1}

\* What the load that is going on is about to give back has been taken: the
\* elf_file, or the file descriptor and what is behind it.
BlocksHeld ==
  /\ At("boot") => used = 0
  /\ call.by = "elf" /\ (At("open") \/ At("stat") \/ At("read")) => used >= 1
  /\ (At("stat") \/ At("read")) /\ table[call.fd] # None => used >= 2 + table[call.fd].content

IInv == FilesInv /\ Shape /\ ContentsMatch /\ BlocksHeld

LEMMA FilesConfig ==
  /\ MaxFd \in Nat \ {0} /\ MaxEntries \in Nat
  /\ HeapBlocks \in Nat /\ HeapBlocks >= 5
  /\ MaxPath \in Nat
  /\ NameLength \in Nat \ {0} /\ ExtLength \in Nat \ {0}
BY FilesAssumption, PathAssumption, NameAssumption

LEMMA PathsAreWords == \A p \in Paths \cup {ShellPath} : p \in Seq(Characters)
BY FilesAssumption

-----------------------------------------------------------------------------
(* Numbers.                                                                *)

\* A set of numbers that is not empty has a least one.
LEMMA LeastExists ==
  ASSUME NEW S \in SUBSET Nat, S # {}
  PROVE  \E x \in S : \A y \in S : x <= y
<1>1. PICK x \in S : \A y \in S : ~ (<<y, x>> \in OpToRel(<, Nat))
  BY NatLessThanWellFounded, WFMin
<1>2. ASSUME NEW y \in S PROVE ~(y < x)
  BY <1>1 DEF OpToRel
<1> QED BY <1>2

LEMMA LeastInSet ==
  ASSUME NEW S \in SUBSET Nat, S # {}
  PROVE  Least(S) \in S
BY LeastExists DEF Least

-----------------------------------------------------------------------------
(* One part of a path.                                                     *)

Starts(path) == 1..(Len(path) + 1)

\* The end of a part lies behind its start, and no slash in between.
LEMMA PartEndIs ==
  ASSUME NEW path \in Seq(Characters), NEW i \in Starts(path)
  PROVE  /\ PartEnd(path, i) \in i..(Len(path) + 1)
         /\ PartEnd(path, i) = Len(path) + 1 \/ path[PartEnd(path, i)] = Slash
         /\ \A k \in i..(PartEnd(path, i) - 1) : path[k] # Slash
<1> DEFINE Ends == {e \in i..(Len(path) + 1) : e = Len(path) + 1 \/ path[e] = Slash}
<1>1. Ends \in SUBSET Nat /\ Len(path) + 1 \in Ends
  BY DEF Starts
<1>2. PICK e \in Ends : \A y \in Ends : e <= y
  BY <1>1, LeastExists
<1>3. \A k \in i..(e - 1) : path[k] # Slash
  <2> SUFFICES ASSUME NEW k \in i..(e - 1), path[k] = Slash PROVE FALSE
    OBVIOUS
  <2>1. k \in Ends /\ k < e
    BY <1>1, <1>2
  <2> QED BY <1>1, <1>2, <2>1
<1>4. \E f \in i..(Len(path) + 1) :
        /\ f = Len(path) + 1 \/ path[f] = Slash
        /\ \A k \in i..(f - 1) : path[k] # Slash
  BY <1>2, <1>3
<1> QED BY <1>4 DEF PartEnd

LEMMA PartIs ==
  ASSUME NEW path \in Seq(Characters), NEW i \in Starts(path)
  PROVE  /\ pparser_get_path_part(path, i).part \in Seq(Characters)
         /\ pparser_get_path_part(path, i).next \in Starts(path)
         /\ pparser_get_path_part(path, i).part # <<>> => pparser_get_path_part(path, i).next > i
<1> DEFINE e == PartEnd(path, i)
<1>1. e \in i..(Len(path) + 1) /\ i \in Nat \ {0} /\ Len(path) \in Nat
  BY PartEndIs DEF Starts
<1>2. SubSeq(path, i, e - 1) \in Seq(Characters)
  <2>1. \A k \in i..(e - 1) : path[k] \in Characters
    BY <1>1
  <2> QED BY <1>1, <2>1, SubSeqProperties
<1>4. SubSeq(path, i, e - 1) # <<>> => e > i
  BY <1>1, SubSeqEmpty
<1> HIDE DEF e
<1>3. pparser_get_path_part(path, i) =
        [part |-> SubSeq(path, i, e - 1), next |-> IF e <= Len(path) THEN e + 1 ELSE e]
  BY DEF pparser_get_path_part, e
<1> QED BY <1>1, <1>2, <1>3, <1>4 DEF Starts

-----------------------------------------------------------------------------
(* The list of the parts.  The function that PartsFrom chooses exists: it  *)
(* is put together from the end of the path.                               *)

\* The parts from i on, when f has those behind the first.
Rest(path, f, i) ==
  LET p == pparser_get_path_part(path, i)
  IN IF p.part = <<>> THEN <<>> ELSE <<p.part>> \o f[p.next]

\* h satisfies the equation of PartsFrom at the last k places.
PartsUpTo(path, h, k) == h = [i \in (Len(path) + 2 - k)..(Len(path) + 1) |-> Rest(path, h, i)]

\* One more place is enough for one more approximation.
LEMMA PartsStep ==
  ASSUME NEW path \in Seq(Characters), NEW k \in Nat, k + 1 <= Len(path) + 1,
         NEW f, PartsUpTo(path, f, k)
  PROVE  \E h : PartsUpTo(path, h, k + 1)
<1> DEFINE first == Len(path) + 1 - k
           h == [i \in first..(Len(path) + 1) |-> IF i = first THEN Rest(path, f, first) ELSE f[i]]
           Behind == (first + 1)..(Len(path) + 1)
<1>0. first \in Nat \ {0} /\ Len(path) \in Nat /\ first <= Len(path) + 1
  OBVIOUS
<1>1. ASSUME NEW i \in first..(Len(path) + 1) PROVE Rest(path, f, i) = Rest(path, h, i)
  <2> DEFINE p == pparser_get_path_part(path, i)
  <2>1. p.part # <<>> => p.next \in Behind
    <3>1. i \in Starts(path) /\ i \in Nat
      BY <1>0 DEF Starts
    <3>2. p.next \in Starts(path) /\ (p.part # <<>> => p.next > i)
      BY <3>1, PartIs
    <3> HIDE DEF p
    <3> QED BY <1>0, <3>1, <3>2 DEF Starts
  <2> HIDE DEF p
  <2>2. p.part # <<>> => f[p.next] = h[p.next]
    BY <1>0, <2>1
  <2> HIDE DEF h
  <2> QED BY <2>2 DEF Rest, p
<1>2. ASSUME NEW i \in Behind PROVE f[i] = Rest(path, f, i)
  <2> DEFINE F == [j \in (Len(path) + 2 - k)..(Len(path) + 1) |-> Rest(path, f, j)]
  <2>1. f = F
    BY DEF PartsUpTo
  <2>2. F[i] = Rest(path, f, i)
    BY <1>0
  <2> HIDE DEF F
  <2> QED BY <2>1, <2>2
<1>3. ASSUME NEW i \in first..(Len(path) + 1) PROVE h[i] = Rest(path, h, i)
  <2>1. h[i] = Rest(path, f, i)
    <3>1. CASE i = first
      BY <3>1
    <3>2. CASE i # first
      <4>1. i \in Behind /\ h[i] = f[i]
        BY <1>0, <3>2
      <4> QED BY <1>2, <4>1
    <3> QED BY <3>1, <3>2
  <2> HIDE DEF h
  <2> QED BY <1>1, <2>1
<1>4. h = [i \in first..(Len(path) + 1) |-> h[i]]
  OBVIOUS
<1>5. first = Len(path) + 2 - (k + 1)
  BY <1>0
<1> HIDE DEF h, first
<1>6. h = [i \in first..(Len(path) + 1) |-> Rest(path, h, i)]
  BY <1>3, <1>4
<1> QED BY <1>5, <1>6 DEF PartsUpTo

LEMMA PartsExist ==
  ASSUME NEW path \in Seq(Characters)
  PROVE  \E h : PartsUpTo(path, h, Len(path) + 1)
<1> DEFINE Wrong == {m \in 0..(Len(path) + 1) : ~\E h : PartsUpTo(path, h, m)}
<1>0. Len(path) \in Nat
  OBVIOUS
<1>6. Len(path) + 1 \in 0..(Len(path) + 1)
  BY <1>0
<1> SUFFICES ASSUME Wrong # {} PROVE FALSE
  BY <1>6
<1>1. Wrong \in SUBSET Nat
  BY <1>0
<1>2. PICK m \in Wrong : \A y \in Wrong : m <= y
  BY <1>1, LeastExists
<1>3. m \in 0..(Len(path) + 1) /\ ~\E h : PartsUpTo(path, h, m)
  BY <1>2
<1>4. CASE m = 0
  <2> DEFINE h == [i \in 1..0 |-> <<>>]
  <2>1. (Len(path) + 2 - 0)..(Len(path) + 1) = {} /\ 1..0 = {}
    BY <1>0
  <2>2. h = [i \in (Len(path) + 2 - 0)..(Len(path) + 1) |-> Rest(path, h, i)]
    BY <2>1
  <2> HIDE DEF h
  <2> QED BY <1>3, <1>4, <2>2 DEF PartsUpTo
<1>5. CASE m # 0
  <2>1. m - 1 \in Nat /\ (m - 1) + 1 = m /\ m <= Len(path) + 1 /\ m - 1 \notin Wrong /\ m - 1 \in 0..(Len(path) + 1)
    BY <1>0, <1>2, <1>3, <1>5
  <2>2. PICK f : PartsUpTo(path, f, m - 1)
    BY <2>1
  <2>3. \E h : PartsUpTo(path, h, (m - 1) + 1)
    BY <2>1, <2>2, PartsStep
  <2> QED BY <1>3, <2>1, <2>3
<1> QED BY <1>4, <1>5

\* The equation that the code computes by its loop.
LEMMA PartsFromIs ==
  ASSUME NEW path \in Seq(Characters), NEW i \in Starts(path)
  PROVE  PartsFrom(path)[i] = Rest(path, PartsFrom(path), i)
<1> DEFINE F(f) == [j \in 1..(Len(path) + 1) |-> Rest(path, f, j)]
<1>1. PartsFrom(path) = CHOOSE f : f = F(f)
  BY DEF PartsFrom, Rest
<1>2. \E f : f = F(f)
  <2>1. Len(path) + 2 - (Len(path) + 1) = 1
    OBVIOUS
  <2> QED BY <2>1, PartsExist DEF PartsUpTo
<1>3. PartsFrom(path) = F(PartsFrom(path))
  <2> HIDE DEF F
  <2> QED BY <1>1, <1>2
<1>4. F(PartsFrom(path))[i] = Rest(path, PartsFrom(path), i)
  BY DEF Starts
<1> HIDE DEF F
<1> QED BY <1>3, <1>4

LEMMA PartsAreWords ==
  ASSUME NEW path \in Seq(Characters), NEW i \in Starts(path)
  PROVE  PartsFrom(path)[i] \in Seq(Seq(Characters))
<1> DEFINE parts == PartsFrom(path)
           Wrong == {k \in Nat : \E j \in Starts(path) : k = Len(path) + 1 - j /\ parts[j] \notin Seq(Seq(Characters))}
<1>1. \A j \in Starts(path) : j \in Nat /\ Len(path) + 1 - j \in Nat
  BY DEF Starts
<1> SUFFICES ASSUME Wrong # {} PROVE FALSE
  BY <1>1
<1>2. PICK k \in Wrong : \A y \in Wrong : k <= y
  BY LeastExists
<1>3. PICK j \in Starts(path) : k = Len(path) + 1 - j /\ parts[j] \notin Seq(Seq(Characters))
  BY <1>2
<1>4. PICK part \in Seq(Characters), next \in Starts(path) :
        /\ part = pparser_get_path_part(path, j).part
        /\ next = pparser_get_path_part(path, j).next
        /\ part # <<>> => next > j
  BY PartIs
<1>5. parts[j] = IF part = <<>> THEN <<>> ELSE <<part>> \o parts[next]
  BY <1>4, PartsFromIs DEF Rest
<1> HIDE DEF parts
<1>6. <<>> \in Seq(Seq(Characters))
  OBVIOUS
<1>7. part # <<>> /\ parts[j] = <<part>> \o parts[next]
  BY <1>3, <1>5, <1>6
<1>8. parts[next] \in Seq(Seq(Characters))
  <2>1. Len(path) + 1 - next < k /\ Len(path) + 1 - next \in Nat
    <3>1. next > j
      BY <1>4, <1>7
    <3>2. next \in Nat /\ j \in Nat /\ Len(path) + 1 - next \in Nat
      BY <1>1
    <3>3. Len(path) \in Nat
      OBVIOUS
    <3> QED BY <1>3, <3>1, <3>2, <3>3
  <2> SUFFICES ASSUME parts[next] \notin Seq(Seq(Characters)) PROVE FALSE
    OBVIOUS
  <2>2. Len(path) + 1 - next \in Wrong
    BY <2>1
  <2>3. k <= Len(path) + 1 - next /\ k \in Nat
    BY <1>2, <2>2
  <2> HIDE DEF Wrong
  <2> QED BY <2>1, <2>3
<1>9. <<part>> \o parts[next] \in Seq(Seq(Characters))
  <2> DEFINE tail == parts[next]
  <2>1. <<part>> \in Seq(Seq(Characters)) /\ tail \in Seq(Seq(Characters))
    BY <1>8
  <2> HIDE DEF tail
  <2>2. <<part>> \o tail \in Seq(Seq(Characters))
    BY <2>1, ConcatProperties
  <2> QED BY <2>2 DEF tail
<1> QED BY <1>3, <1>7, <1>9

\* What pparser_parse returns fits in the memory that there is.
LEMMA ParseFits ==
  ASSUME NEW path \in Seq(Characters), NEW free \in Nat
  PROVE  /\ pparser_parse(path, free).cost \in 0..free
         /\ pparser_parse(path, free).parts \in Seq(Seq(Characters))
<1> DEFINE Refused == Len(path) > MaxPath \/ ~pparser_path_valid_format(path) \/ free = 0
           all == PartsFrom(path)[4]
           fit == (free - 1) \div 2
<1>1. CASE Refused
  <2>1. pparser_parse(path, free) = NULL
    BY <1>1 DEF pparser_parse
  <2>2. <<>> \in Seq(Seq(Characters)) /\ 0 \in 0..free
    OBVIOUS
  <2> HIDE DEF Refused
  <2> QED BY <2>1, <2>2 DEF NULL
<1>2. CASE ~Refused
  <2>1. all \in Seq(Seq(Characters))
    BY <1>2, PartsAreWords DEF pparser_path_valid_format, Starts
  <2>2. fit \in Nat /\ 1 + 2 * fit <= free
    BY <1>2
  <2>3. pparser_parse(path, free) =
          IF Len(all) <= fit THEN [parts |-> all, ok |-> TRUE, cost |-> 1 + 2 * Len(all)]
          ELSE [parts |-> SubSeq(all, 1, fit), ok |-> TRUE, cost |-> free]
    BY <1>2 DEF pparser_parse
  <2> HIDE DEF all, fit, Refused
  <2>4. Len(all) \in Nat
    BY <2>1
  <2>5. CASE Len(all) <= fit
    <3>1. 1 + 2 * Len(all) \in 0..free
      BY <2>2, <2>4, <2>5
    <3>2. pparser_parse(path, free) = [parts |-> all, ok |-> TRUE, cost |-> 1 + 2 * Len(all)]
      BY <2>3, <2>5
    <3> QED BY <2>1, <3>1, <3>2
  <2>6. CASE Len(all) > fit
    <3>1. \A j \in 1..fit : all[j] \in Seq(Characters)
      BY <2>1, <2>2, <2>4, <2>6
    <3>2. SubSeq(all, 1, fit) \in Seq(Seq(Characters))
      BY <2>2, <3>1, SubSeqProperties
    <3>3. pparser_parse(path, free) = [parts |-> SubSeq(all, 1, fit), ok |-> TRUE, cost |-> free]
      BY <2>2, <2>3, <2>4, <2>6
    <3>4. free \in 0..free
      OBVIOUS
    <3> QED BY <3>2, <3>3, <3>4
  <2> QED BY <2>2, <2>4, <2>5, <2>6
<1> QED BY <1>1, <1>2

-----------------------------------------------------------------------------
(* What fat16_open keeps and finds.                                        *)

LEMMA SubsetSize ==
  ASSUME NEW n \in Nat, NEW T \in SUBSET (1..n)
  PROVE  Cardinality(T) \in 0..n
<1> DEFINE S == 1..n
<1>1. IsFiniteSet(S) /\ Cardinality(S) = n
  BY FS_Interval
<1> HIDE DEF S
<1>2. IsFiniteSet(T) /\ Cardinality(T) <= Cardinality(S)
  <2>1. T \in SUBSET S
    BY DEF S
  <2> QED BY <1>1, <2>1, FS_Subset
<1>3. Cardinality(T) \in Nat
  BY <1>2, FS_CardinalityType
<1> QED BY <1>1, <1>2, <1>3

\* The search ends inside the directory.
LEMMA FoundIn ==
  ASSUME NEW n \in 0..MaxEntries, dir \in [1..n -> Entries], NEW name
  PROVE  fat16_find_item_in_directory(dir, name) \subseteq 1..n
<1> DEFINE live == {i \in DOMAIN dir : ~Deleted(dir[i])}
<1>1. live \in SUBSET (1..n) /\ n \in Nat
  OBVIOUS
<1> HIDE DEF live
<1>2. Cardinality(live) \in 0..n
  BY <1>1, SubsetSize
<1>3. fat16_get_total_items_for_directory(dir) = Cardinality(live)
  BY DEF fat16_get_total_items_for_directory, live
<1> QED BY <1>1, <1>2, <1>3 DEF fat16_find_item_in_directory

ContentOf(i) == IF IsDirectory(dir[i]) THEN {0, 2} ELSE {0, 1}

LEMMA ContentIs ==
  ASSUME NEW i, NEW free \in Nat
  PROVE  Content(dir[i], free) \in ContentOf(i) /\ Content(dir[i], free) \in 0..free
<1>1. CASE IsDirectory(dir[i])
  BY <1>1 DEF Content, ContentOf
<1>2. CASE ~IsDirectory(dir[i])
  BY <1>2 DEF Content, ContentOf
<1> QED BY <1>1, <1>2

LEMMA OpenIs ==
  ASSUME NEW n \in 0..MaxEntries, dir \in [1..n -> Entries], NEW parts, NEW free \in Nat
  PROVE  /\ fat16_open(parts, free).kept \in 0..free
         /\ fat16_open(parts, free).error \in {0, EIO, ENOMEM}
         /\ fat16_open(parts, free).error = 0 =>
              /\ fat16_open(parts, free).entry \in 1..n
              /\ fat16_open(parts, free).content \in ContentOf(fat16_open(parts, free).entry)
              /\ fat16_open(parts, free).kept = 2 + fat16_open(parts, free).content
<1> DEFINE found == fat16_find_item_in_directory(dir, parts[1])
           i == Least(found)
           content == Content(dir[i], free - 2)
           Absent == found = {} \/ free = 1
<1>1. CASE free = 0
  <2>1. fat16_open(parts, free) = [error |-> ENOMEM, kept |-> 0]
    BY <1>1 DEF fat16_open
  <2> QED BY <2>1 DEF EIO, ENOMEM
<1>2. CASE free # 0 /\ Absent
  <2>1. fat16_open(parts, free) = [error |-> EIO, kept |-> 0]
    BY <1>2 DEF fat16_open
  <2> QED BY <2>1 DEF EIO, ENOMEM
<1>3. CASE free # 0 /\ ~Absent
  <2>1. found \subseteq 1..n /\ found # {} /\ free - 2 \in Nat
    BY <1>3, FoundIn
  <2>2. i \in 1..n
    <3> HIDE DEF found
    <3>1. found \in SUBSET Nat
      BY <2>1
    <3> QED BY <2>1, <3>1, LeastInSet
  <2>3. fat16_open(parts, free) =
          IF Len(parts) > 1 THEN [error |-> EIO, kept |-> 1 + content]
          ELSE [error |-> 0, kept |-> 2 + content, entry |-> i, content |-> content]
    BY <1>3 DEF fat16_open
  <2> HIDE DEF i
  <2>4. content \in ContentOf(i) /\ content \in 0..(free - 2)
    BY <2>1, ContentIs
  <2> HIDE DEF content
  <2>5. 1 + content \in 0..free /\ 2 + content \in 0..free
    BY <2>1, <2>4
  <2>6. CASE Len(parts) > 1
    BY <2>3, <2>5, <2>6 DEF EIO
  <2>7. CASE ~(Len(parts) > 1)
    BY <2>2, <2>3, <2>4, <2>5, <2>7
  <2> QED BY <2>6, <2>7
<1> HIDE DEF Absent
<1> QED BY <1>1, <1>2, <1>3

-----------------------------------------------------------------------------
(* The initial states and the boot.                                        *)

LEMMA InitInv == Init => IInv
<1> SUFFICES ASSUME Init PROVE IInv
  OBVIOUS
<1> USE FilesConfig
<1>1. call = [at |-> "boot", by |-> "elf", fd |-> 0, path |-> <<>>]
  BY DEF Init, Idle
<1>2. TypeOK
  <2>1. table \in [Fds -> Descriptors \cup {None}]
    BY DEF Init
  <2>3. used \in 0..HeapBlocks
    BY DEF Init
  <2>4. mounted \in BOOLEAN
    BY Zenon DEF Init
  <2>2. last.result \in ENOMEM..MaxFd
    BY DEF Init, ENOMEM
  <2> QED BY <1>1, <2>1, <2>2, <2>3, <2>4 DEF TypeOK
<1>3. ReadsOnlyFiles
  BY <1>1 DEF ReadsOnlyFiles, At
<1>4. Shape
  <2>1. call \in Loads
    <3>1. <<>> \in Seq(Characters)
      OBVIOUS
    <3> QED BY <1>1, <3>1 DEF Loads
  <2>2. \A p \in names : p \in Seq(Characters)
    <3>1. \E p \in Paths : names = {p, ShellPath}
      BY DEF Init
    <3> QED BY <3>1, PathsAreWords
  <2>3. dir \in UNION {[1..n -> Entries] : n \in 0..MaxEntries}
    BY DEF Init
  <2> QED BY <1>1, <2>1, <2>2, <2>3 DEF Shape, At
<1>5. ContentsMatch
  BY DEF Init, ContentsMatch
<1>6. BlocksHeld
  BY <1>1 DEF Init, BlocksHeld, At
<1> QED BY <1>2, <1>3, <1>4, <1>5, <1>6 DEF IInv, FilesInv

-----------------------------------------------------------------------------
(* The actions.                                                            *)

\* A load ends, and at most one descriptor is given up.
LEMMA IdleInv ==
  ASSUME IInv, dir' = dir, names' = names, call' = Idle,
         used' \in 0..HeapBlocks, mounted' \in BOOLEAN, last'.result \in ENOMEM..MaxFd,
         table' = table \/ \E fd \in Fds : table' = [table EXCEPT ![fd] = None]
  PROVE  IInv'
<1> USE FilesConfig
<1>1. call' = [at |-> "idle", by |-> "elf", fd |-> 0, path |-> <<>>]
  BY DEF Idle
<1>2. table \in [Fds -> Descriptors \cup {None}]
  BY DEF IInv, FilesInv, TypeOK
<1>3. /\ table' \in [Fds -> Descriptors \cup {None}]
      /\ \A fd \in Fds : table'[fd] = table[fd] \/ table'[fd] = None
  BY <1>2
<1>4. TypeOK'
  <2>1. call'.at = "idle" /\ call'.by = "elf" /\ call'.fd \in 0..MaxFd
    BY <1>1
  <2> QED BY <1>3, <2>1 DEF TypeOK
<1>5. ReadsOnlyFiles'
  BY <1>1 DEF ReadsOnlyFiles, At
<1>6. Shape'
  <2>1. call' \in Loads
    <3>1. <<>> \in Seq(Characters)
      OBVIOUS
    <3> QED BY <1>1, <3>1 DEF Loads
  <2> QED BY <1>1, <2>1 DEF IInv, Shape, At
<1>7. ContentsMatch'
  <2> SUFFICES ASSUME NEW fd \in Fds, table'[fd] # None
               PROVE  /\ table'[fd].entry \in DOMAIN dir
                      /\ table'[fd].content \in IF IsDirectory(dir[table'[fd].entry]) THEN {0, 2} ELSE {0, 1}
    BY DEF ContentsMatch
  <2>1. table'[fd] = table[fd]
    BY <1>3
  <2> QED BY <2>1 DEF IInv, ContentsMatch
<1>8. BlocksHeld'
  BY <1>1 DEF BlocksHeld, At
<1> QED BY <1>4, <1>5, <1>6, <1>7, <1>8 DEF IInv, FilesInv

LEMMA FreeIs ==
  ASSUME IInv
  PROVE  Free \in Nat /\ used \in Nat /\ used + Free = HeapBlocks
<1>1. used \in 0..HeapBlocks
  BY DEF IInv, FilesInv, TypeOK
<1> QED BY <1>1, FilesConfig DEF Free

LEMMA LoadIs ==
  ASSUME IInv
  PROVE  /\ call.by = "elf" \/ call.by = "binary"
         /\ last.result \in ENOMEM..MaxFd
         /\ mounted \in BOOLEAN
         /\ call.path \in Seq(Characters)
<1>1. last.result \in ENOMEM..MaxFd /\ call.by \in {"elf", "binary"}
  BY DEF IInv, FilesInv, TypeOK
<1>2. call.path \in Seq(Characters)
  BY DEF IInv, Shape, Loads
<1>3. mounted \in BOOLEAN
  BY DEF IInv, FilesInv, TypeOK
<1> QED BY <1>1, <1>2, <1>3

LEMMA ResolveInv == IInv /\ fat16_resolve => IInv'
<1> SUFFICES ASSUME IInv, fat16_resolve PROVE IInv'
  OBVIOUS
<1>1. used = 0
  BY DEF IInv, BlocksHeld, fat16_resolve
<1>2. used' \in 0..HeapBlocks
  BY <1>1, FilesConfig DEF fat16_resolve
<1>3. mounted' \in BOOLEAN
  BY Zenon DEF fat16_resolve
<1> QED BY <1>2, <1>3, IdleInv, LoadIs DEF fat16_resolve

LEMMA LoadElfInv == ASSUME NEW p \in names PROVE IInv /\ process_load_elf(p) => IInv'
<1> SUFFICES ASSUME IInv, process_load_elf(p) PROVE IInv'
  OBVIOUS
<1> USE FilesConfig
<1>1. call' = [at |-> "open", by |-> "elf", fd |-> 0, path |-> p]
  BY DEF process_load_elf
<1>2. used' = used + 1 /\ used' \in 0..HeapBlocks /\ used' >= 1
  BY FreeIs DEF process_load_elf
<1>3. dir' = dir /\ names' = names /\ mounted' = mounted /\ table' = table /\ last' = last
  BY DEF process_load_elf
<1>4. TypeOK'
  <2>1. call'.at = "open" /\ call'.by = "elf" /\ call'.fd \in 0..MaxFd
    BY <1>1
  <2>2. table' \in [Fds -> Descriptors \cup {None}] /\ last'.result \in ENOMEM..MaxFd
    BY <1>3 DEF IInv, FilesInv, TypeOK
  <2>3. mounted' \in BOOLEAN
    BY <1>3, LoadIs
  <2> QED BY <1>2, <2>1, <2>2, <2>3 DEF TypeOK
<1>5. ReadsOnlyFiles'
  BY <1>1 DEF ReadsOnlyFiles, At
<1>6. Shape'
  <2>1. call' \in Loads
    <3>1. p \in Seq(Characters)
      BY DEF IInv, Shape
    <3> QED BY <1>1, <3>1 DEF Loads
  <2> QED BY <1>1, <1>3, <2>1 DEF IInv, Shape, At
<1>7. ContentsMatch'
  BY <1>3 DEF IInv, ContentsMatch
<1>8. BlocksHeld'
  BY <1>1, <1>2 DEF BlocksHeld, At
<1> QED BY <1>4, <1>5, <1>6, <1>7, <1>8 DEF IInv, FilesInv

\* A failing fopen gives at most the elf_file back.
LEMMA FailsInv ==
  ASSUME IInv, At("open"), NEW root, root.cost \in 0..Free, NEW kept \in 0..(Free - root.cost),
         NEW result \in {EINVAL, EIO, ENOMEM}, FopenFails(result, root, kept)
  PROVE  IInv'
<1>1. used' = used + root.cost + kept - GivesUp
  BY DEF FopenFails
<1>2. GivesUp \in 0..1 /\ GivesUp <= used
  BY FreeIs, LoadIs DEF GivesUp, IInv, BlocksHeld
<1>3. used' \in 0..HeapBlocks
  <2>1. PICK cost \in 0..Free : cost = root.cost
    OBVIOUS
  <2>2. kept \in Nat /\ cost \in Nat /\ cost + kept <= Free
    BY <2>1, FreeIs
  <2>3. Free \in Nat /\ used \in Nat /\ used + Free = HeapBlocks
    BY FreeIs
  <2>4. used' = used + cost + kept - GivesUp
    BY <1>1, <2>1
  <2> QED BY <1>2, <2>2, <2>3, <2>4
<1>4. last'.result \in ENOMEM..MaxFd
  <2>1. last'.result = result
    BY DEF FopenFails
  <2>2. result \in ENOMEM..MaxFd
    BY FilesConfig DEF EINVAL, EIO, ENOMEM
  <2> QED BY <2>1, <2>2
<1>5. dir' = dir /\ names' = names /\ mounted' = mounted /\ table' = table /\ call' = Idle
  BY DEF FopenFails
<1>6. mounted' \in BOOLEAN
  BY <1>5, LoadIs
<1> QED BY <1>3, <1>4, <1>5, <1>6, IdleInv

\* A descriptor that is handed out belongs to nobody, and what it is for lies
\* behind it.
LEMMA OpensInv ==
  ASSUME IInv, At("open"), NEW cost \in 0..Free,
         NEW entry \in DOMAIN dir, NEW content \in ContentOf(entry), NEW left \in Nat,
         left = Free - cost - (2 + content),
         NEW fd \in file_descriptor_new,
         table' = IF left = 0 THEN table
                  ELSE [table EXCEPT ![fd] = [entry |-> entry, content |-> content]],
         used' = used + cost + (2 + content) + (IF left = 0 THEN 0 ELSE 1),
         call' = [call EXCEPT !.at = "stat", !.fd = fd],
         last'.result = fd,
         dir' = dir, names' = names, mounted' = mounted
  PROVE  IInv'
<1> USE FilesConfig
<1>1. fd \in Fds /\ table[fd] = None /\ fd \in Nat
  BY DEF file_descriptor_new, Fds
<1>2. content \in 0..2 /\ content \in Nat /\ cost \in Nat
  BY FreeIs DEF ContentOf
<1>14. Free \in Nat /\ used \in Nat /\ used + Free = HeapBlocks
  BY FreeIs
<1>3. used' \in 0..HeapBlocks /\ used' >= used /\ (left # 0 => used' >= 2 + content)
  BY <1>2, <1>14
<1>4. table \in [Fds -> Descriptors \cup {None}]
  BY DEF IInv, FilesInv, TypeOK
<1>5. entry \in 1..MaxEntries
  <2>1. dir \in UNION {[1..n -> Entries] : n \in 0..MaxEntries}
    BY DEF IInv, Shape
  <2>2. PICK n \in 0..MaxEntries : dir \in [1..n -> Entries]
    BY <2>1
  <2> QED BY <2>2
<1> DEFINE desc == [entry |-> entry, content |-> content]
<1>6. desc \in Descriptors
  BY <1>2, <1>5 DEF Descriptors
<1>7. /\ table' \in [Fds -> Descriptors \cup {None}]
      /\ \A f \in Fds : table'[f] = table[f] \/ (f = fd /\ left # 0 /\ table'[f] = desc)
  <2> HIDE DEF desc
  <2>1. table' = IF left = 0 THEN table ELSE [table EXCEPT ![fd] = desc]
    BY DEF desc
  <2>2. CASE left = 0
    BY <1>4, <2>1, <2>2
  <2>3. CASE left # 0
    BY <1>1, <1>4, <1>6, <2>1, <2>3
  <2> QED BY <2>2, <2>3
<1>8. call' \in Loads /\ call'.at = "stat" /\ call'.fd = fd /\ call'.by = call.by
  <2>1. call \in Loads
    BY DEF IInv, Shape
  <2>2. fd \in 0..MaxFd
    BY <1>1 DEF Fds
  <2> QED BY <2>1, <2>2 DEF Loads
<1>9. TypeOK'
  <2>1. call'.by \in {"elf", "binary"} /\ call'.fd \in 0..MaxFd
    BY <1>8 DEF Loads
  <2>2. last'.result \in ENOMEM..MaxFd
    BY <1>1 DEF Fds, ENOMEM
  <2>3. mounted' \in BOOLEAN
    BY LoadIs
  <2> QED BY <1>3, <1>7, <1>8, <2>1, <2>2, <2>3 DEF TypeOK
<1>10. ReadsOnlyFiles'
  BY <1>8 DEF ReadsOnlyFiles, At
<1>11. Shape'
  BY <1>1, <1>8 DEF IInv, Shape, At
<1>12. ContentsMatch'
  <2> SUFFICES ASSUME NEW f \in Fds, table'[f] # None
               PROVE  /\ table'[f].entry \in DOMAIN dir
                      /\ table'[f].content \in IF IsDirectory(dir[table'[f].entry]) THEN {0, 2} ELSE {0, 1}
    BY DEF ContentsMatch
  <2>1. CASE table'[f] = table[f]
    BY <2>1 DEF IInv, ContentsMatch
  <2>2. CASE table'[f] = desc
    <3>1. table'[f].entry = entry /\ table'[f].content = content
      BY <2>2
    <3> QED BY <3>1 DEF ContentOf
  <2> QED BY <1>7, <2>1, <2>2
<1>13. BlocksHeld'
  <2>1. call.by = "elf" => used >= 1
    BY DEF IInv, BlocksHeld
  <2>2. call'.by = "elf" => used' >= 1
    BY <1>3, <1>8, <2>1, FreeIs
  <2>3. table'[fd] # None => used' >= 2 + table'[fd].content
    BY <1>1, <1>3, <1>7
  <2> QED BY <1>8, <2>2, <2>3 DEF BlocksHeld, At
<1> QED BY <1>9, <1>10, <1>11, <1>12, <1>13 DEF IInv, FilesInv

LEMMA FopenInv == IInv /\ fopen => IInv'
<1> SUFFICES ASSUME IInv, fopen PROVE IInv'
  OBVIOUS
<1> DEFINE root == pparser_parse(call.path, Free)
           open == fat16_open(root.parts, Free - root.cost)
           left == Free - root.cost - open.kept
<1>1. At("open")
  BY DEF fopen
<1>2. root.cost \in 0..Free
  BY FreeIs, LoadIs, ParseFits
<1>3. PICK n \in 0..MaxEntries : dir \in [1..n -> Entries]
  <2>1. dir \in UNION {[1..n -> Entries] : n \in 0..MaxEntries}
    BY DEF IInv, Shape
  <2> QED BY <2>1
<1>4. \/ FopenFails(EINVAL, root, 0)
      \/ FopenFails(EIO, root, 0)
      \/ open.error # 0 /\ FopenFails(open.error, root, open.kept)
      \/ open.error = 0 /\ FopenFails(ENOMEM, root, open.kept)
      \/ /\ open.error = 0
         /\ \E fd \in file_descriptor_new :
              /\ table' = IF left = 0 THEN table
                          ELSE [table EXCEPT ![fd] = [entry |-> open.entry, content |-> open.content]]
              /\ used' = used + root.cost + open.kept + (IF left = 0 THEN 0 ELSE 1)
              /\ call' = [call EXCEPT !.at = "stat", !.fd = fd]
              /\ last' = [path |-> call.path, parts |-> root.parts, result |-> fd, free |-> Free]
         /\ UNCHANGED <<dir, names, mounted>>
  BY DEF fopen
<1> HIDE DEF root
<1>5. Free - root.cost \in Nat
  <2>1. PICK cost \in 0..Free : cost = root.cost
    BY <1>2
  <2> QED BY <2>1, FreeIs
<1>6. /\ open.kept \in 0..(Free - root.cost)
      /\ open.error \in {0, EIO, ENOMEM}
      /\ open.error = 0 =>
           /\ open.entry \in 1..n
           /\ open.content \in ContentOf(open.entry)
           /\ open.kept = 2 + open.content
  BY <1>3, <1>5, OpenIs
<1> HIDE DEF open
<1>7. 0 \in 0..(Free - root.cost)
  BY <1>5
<1>8. CASE FopenFails(EINVAL, root, 0) \/ FopenFails(EIO, root, 0)
  BY <1>1, <1>2, <1>7, <1>8, FailsInv
<1>9. CASE open.error # 0 /\ FopenFails(open.error, root, open.kept)
  BY <1>1, <1>2, <1>6, <1>9, FailsInv
<1>10. CASE open.error = 0 /\ FopenFails(ENOMEM, root, open.kept)
  BY <1>1, <1>2, <1>6, <1>10, FailsInv
<1>11. ASSUME open.error = 0, NEW fd \in file_descriptor_new,
              table' = IF left = 0 THEN table
                       ELSE [table EXCEPT ![fd] = [entry |-> open.entry, content |-> open.content]],
              used' = used + root.cost + open.kept + (IF left = 0 THEN 0 ELSE 1),
              call' = [call EXCEPT !.at = "stat", !.fd = fd],
              last' = [path |-> call.path, parts |-> root.parts, result |-> fd, free |-> Free],
              UNCHANGED <<dir, names, mounted>>
       PROVE  IInv'
  <2>1. PICK cost \in 0..Free : cost = root.cost
    BY <1>2
  <2>2. PICK entry \in DOMAIN dir : entry = open.entry
    BY <1>3, <1>6, <1>11
  <2>3. PICK content \in ContentOf(entry) : content = open.content
    BY <1>6, <1>11, <2>2
  <2>4. open.kept = 2 + content /\ open.kept \in 0..(Free - cost)
    BY <1>6, <1>11, <2>1, <2>3
  <2>5. left = Free - cost - (2 + content)
    BY <2>1, <2>4
  <2> HIDE DEF left
  <2>6. left \in Nat
    <3>1. content \in Nat
      BY DEF ContentOf
    <3> QED BY <2>4, <2>5, <3>1, FreeIs
  <2>7. table' = IF left = 0 THEN table
                 ELSE [table EXCEPT ![fd] = [entry |-> entry, content |-> content]]
    BY <1>11, <2>2, <2>3
  <2>8. used' = used + cost + (2 + content) + (IF left = 0 THEN 0 ELSE 1)
    BY <1>11, <2>1, <2>4
  <2>9. last'.result = fd /\ dir' = dir /\ names' = names /\ mounted' = mounted
    BY <1>11
  <2>10. call' = [call EXCEPT !.at = "stat", !.fd = fd]
    BY <1>11
  <2> QED BY <1>1, <2>5, <2>6, <2>7, <2>8, <2>9, <2>10, OpensInv
<1> QED BY <1>4, <1>8, <1>9, <1>10, <1>11

LEMMA EndElfInv ==
  ASSUME IInv, At("stat") \/ At("read"), NEW kept \in {-1, 0, 1}, kept = 1 => Free > 0, EndElf(kept)
  PROVE  IInv'
<1>1. used >= 1
  BY DEF EndElf, IInv, BlocksHeld
<1>2. used' \in 0..HeapBlocks
  <2>1. Free \in Nat /\ used \in Nat /\ used + Free = HeapBlocks
    BY FreeIs
  <2>2. used' = used + kept
    BY DEF EndElf
  <2> QED BY <1>1, <2>1, <2>2
<1>3. dir' = dir /\ names' = names /\ mounted' = mounted /\ table' = table /\ last' = last /\ call' = Idle
  BY DEF EndElf
<1>4. mounted' \in BOOLEAN
  BY <1>3, LoadIs
<1>5. last'.result \in ENOMEM..MaxFd
  BY <1>3, LoadIs
<1> QED BY <1>2, <1>3, <1>4, <1>5, IdleInv

\* fclose clears one descriptor, or none.
LEMMA FcloseIs ==
  ASSUME NEW fd \in Fds
  PROVE  \/ fclose(fd).table = table /\ fclose(fd).freed = 0
         \/ /\ table[fd] # None
            /\ fclose(fd).table = [table EXCEPT ![fd] = None]
            /\ fclose(fd).freed = 2 + table[fd].content
<1>1. CASE file_descriptor_get(fd) = None
  BY <1>1 DEF fclose
<1>2. CASE file_descriptor_get(fd) # None
  <2>1. ~(fd <= 0 \/ fd >= MaxFd) /\ file_descriptor_get(fd) = table[fd]
    BY <1>2 DEF file_descriptor_get
  <2>2. fclose(fd) = [table |-> [table EXCEPT ![fd] = None], freed |-> 2 + table[fd].content]
    BY <1>2, <2>1 DEF fclose
  <2> QED BY <1>2, <2>1, <2>2
<1> QED BY <1>1, <1>2

LEMMA EndBinaryInv ==
  ASSUME IInv, At("stat") \/ At("read"), NEW kept \in {0, 1}, kept = 1 => Free > 0, EndBinary(kept)
  PROVE  IInv'
<1>1. Free \in Nat /\ used \in Nat /\ used + Free = HeapBlocks
  BY FreeIs
<1>2. call.fd \in Fds
  BY DEF IInv, Shape
<1>3. table[call.fd] # None => table[call.fd].content \in Nat /\ used >= 2 + table[call.fd].content
  <2>1. table[call.fd] # None => table[call.fd].content \in ContentOf(table[call.fd].entry)
    BY <1>2 DEF IInv, ContentsMatch, ContentOf
  <2>2. table[call.fd] # None => used >= 2 + table[call.fd].content
    BY DEF IInv, BlocksHeld
  <2>3. ASSUME NEW i, NEW c \in ContentOf(i) PROVE c \in Nat
    BY DEF ContentOf
  <2> QED BY <2>1, <2>2, <2>3
<1>4. fclose(call.fd).freed \in Nat /\ fclose(call.fd).freed <= used
  <2>1. CASE fclose(call.fd).freed = 0
    BY <1>1, <2>1
  <2>2. CASE table[call.fd] # None /\ fclose(call.fd).freed = 2 + table[call.fd].content
    <3>1. PICK content \in Nat : content = table[call.fd].content /\ used >= 2 + content
      BY <1>3, <2>2
    <3> QED BY <1>1, <2>2, <3>1
  <2> QED BY <1>2, <2>1, <2>2, FcloseIs
<1>5. used' \in 0..HeapBlocks
  <2>1. PICK freed \in Nat : freed = fclose(call.fd).freed /\ freed <= used
    BY <1>4
  <2>2. used' = used + kept - freed
    BY <2>1 DEF EndBinary
  <2> QED BY <1>1, <2>1, <2>2
<1>6. table' = table \/ \E fd \in Fds : table' = [table EXCEPT ![fd] = None]
  BY <1>2, FcloseIs DEF EndBinary
<1>7. dir' = dir /\ names' = names /\ mounted' = mounted /\ last' = last /\ call' = Idle
  BY DEF EndBinary
<1>8. mounted' \in BOOLEAN
  BY <1>7, LoadIs
<1>9. last'.result \in ENOMEM..MaxFd
  BY <1>7, LoadIs
<1> QED BY <1>5, <1>6, <1>7, <1>8, <1>9, IdleInv

\* fstat lets a load go on with a file that has its entry, and with nothing else.
LEMMA FstatInv == IInv /\ fstat => IInv'
<1> SUFFICES ASSUME IInv, fstat PROVE IInv'
  OBVIOUS
<1> DEFINE desc == file_descriptor_get(call.fd)
<1>1. At("stat")
  BY DEF fstat
<1>2. CASE EndElf(-1)
  BY <1>1, <1>2, EndElfInv
<1>3. CASE EndBinary(0)
  BY <1>1, <1>3, EndBinaryInv
<1>4. ASSUME desc # None, ~IsDirectory(dir[desc.entry]),
             call' = [call EXCEPT !.at = IF desc.content = 0 THEN "wild" ELSE "read"],
             UNCHANGED <<dir, names, mounted, table, used, last>>
      PROVE  IInv'
  <2>1. call \in Loads /\ call.fd \in Fds
    BY <1>1 DEF IInv, Shape
  <2>2. desc = table[call.fd]
    BY <1>4 DEF file_descriptor_get
  <2> DEFINE place == IF desc.content = 0 THEN "wild" ELSE "read"
  <2>3. place \in {"wild", "read"} /\ (place = "read" => desc.content # 0)
    OBVIOUS
  <2> HIDE DEF place
  <2>4. call' = [call EXCEPT !.at = place]
    BY <1>4 DEF place
  <2>5. call' \in Loads /\ call'.at = place /\ call'.by = call.by /\ call'.fd = call.fd
    BY <2>1, <2>3, <2>4 DEF Loads
  <2>6. dir' = dir /\ names' = names /\ mounted' = mounted /\ table' = table /\ used' = used /\ last' = last
    BY <1>4
  <2>7. TypeOK'
    <3>1. mounted' \in BOOLEAN /\ last'.result \in ENOMEM..MaxFd
      BY <2>6, LoadIs
    <3>2. table' \in [Fds -> Descriptors \cup {None}] /\ used' \in 0..HeapBlocks
      BY <2>6 DEF IInv, FilesInv, TypeOK
    <3>3. /\ call'.at \in {"boot", "idle", "open", "stat", "read", "wild"}
          /\ call'.by \in {"elf", "binary"}
          /\ call'.fd \in 0..MaxFd
      BY <2>5 DEF Loads
    <3> QED BY <3>1, <3>2, <3>3 DEF TypeOK
  <2>8. ReadsOnlyFiles'
    <3>1. file_descriptor_get(call.fd)' = desc
      BY <2>5, <2>6 DEF file_descriptor_get
    <3>2. ASSUME place = "read" PROVE desc.content = 1
      BY <1>4, <2>1, <2>2, <2>3, <3>2 DEF IInv, ContentsMatch
    <3>3. place = "read" => desc # None /\ desc.content = 1 /\ ~IsDirectory(dir'[desc.entry])
      BY <1>4, <2>6, <3>2
    <3> HIDE DEF desc
    <3> QED BY <2>5, <3>1, <3>3 DEF ReadsOnlyFiles, At
  <2>9. Shape'
    BY <2>1, <2>5, <2>6 DEF IInv, Shape, At
  <2>10. ContentsMatch'
    BY <2>6 DEF IInv, ContentsMatch
  <2>11. BlocksHeld'
    BY <1>1, <2>3, <2>5, <2>6 DEF IInv, BlocksHeld, At
  <2> QED BY <2>7, <2>8, <2>9, <2>10, <2>11 DEF IInv, FilesInv
<1> QED BY <1>2, <1>3, <1>4 DEF fstat

\* What elf_load does not know is loaded again, as a binary.
LEMMA FreadElfInv == IInv /\ fread_elf => IInv'
<1> SUFFICES ASSUME IInv, fread_elf PROVE IInv'
  OBVIOUS
<1>1. At("read") /\ call.by = "elf"
  BY DEF fread_elf
<1>2. CASE EndElf(0) \/ (Free > 0 /\ EndElf(1)) \/ EndElf(-1)
  BY <1>1, <1>2, EndElfInv
<1>3. ASSUME used' = used - 1, call' = [call EXCEPT !.at = "open", !.by = "binary", !.fd = 0],
             UNCHANGED <<dir, names, mounted, table, last>>
      PROVE  IInv'
  <2>1. call \in Loads
    BY DEF IInv, Shape
  <2>2. call' \in Loads /\ call'.at = "open" /\ call'.by = "binary"
    <3>1. 0 \in 0..MaxFd
      BY FilesConfig
    <3> QED BY <1>3, <2>1, <3>1 DEF Loads
  <2>3. used' \in 0..HeapBlocks
    <3>1. used >= 1
      BY <1>1 DEF IInv, BlocksHeld
    <3> QED BY <1>3, <3>1, FreeIs
  <2>4. dir' = dir /\ names' = names /\ mounted' = mounted /\ table' = table /\ last' = last
    BY <1>3
  <2>5. TypeOK'
    <3>1. mounted' \in BOOLEAN /\ last'.result \in ENOMEM..MaxFd
      BY <2>4, LoadIs
    <3>2. table' \in [Fds -> Descriptors \cup {None}]
      BY <2>4 DEF IInv, FilesInv, TypeOK
    <3>3. call'.fd \in 0..MaxFd
      BY <2>2 DEF Loads
    <3> QED BY <2>2, <2>3, <3>1, <3>2, <3>3 DEF TypeOK
  <2>6. ReadsOnlyFiles'
    BY <2>2 DEF ReadsOnlyFiles, At
  <2>7. Shape'
    BY <2>2, <2>4 DEF IInv, Shape, At
  <2>8. ContentsMatch'
    BY <2>4 DEF IInv, ContentsMatch
  <2>9. BlocksHeld'
    BY <2>2 DEF BlocksHeld, At
  <2> QED BY <2>5, <2>6, <2>7, <2>8, <2>9 DEF IInv, FilesInv
<1> QED BY <1>2, <1>3 DEF fread_elf

LEMMA FreadBinaryInv == IInv /\ fread_binary => IInv'
<1> SUFFICES ASSUME IInv, fread_binary PROVE IInv'
  OBVIOUS
<1>1. At("read") /\ ((Free > 0 /\ EndBinary(1)) \/ EndBinary(0))
  BY DEF fread_binary
<1> QED BY <1>1, EndBinaryInv

LEMMA StutterInv == IInv /\ UNCHANGED vars => IInv'
<1> SUFFICES ASSUME IInv, UNCHANGED vars PROVE IInv'
  OBVIOUS
<1>1. /\ dir' = dir /\ names' = names /\ mounted' = mounted /\ table' = table
      /\ used' = used /\ call' = call /\ last' = last
  BY DEF vars
<1>2. TypeOK'
  <2>1. mounted' \in BOOLEAN /\ last'.result \in ENOMEM..MaxFd
    BY <1>1, LoadIs
  <2> QED BY <1>1, <2>1 DEF IInv, FilesInv, TypeOK
<1>3. ReadsOnlyFiles'
  BY <1>1 DEF IInv, FilesInv, ReadsOnlyFiles, At, file_descriptor_get
<1>4. Shape' /\ ContentsMatch' /\ BlocksHeld'
  BY <1>1 DEF IInv, Shape, ContentsMatch, BlocksHeld, At
<1> QED BY <1>2, <1>3, <1>4 DEF IInv, FilesInv

-----------------------------------------------------------------------------
(* The theorems.                                                           *)

\* Every action of the file layer and of the loads keeps the invariant.
THEOREM FilesInvariant == Spec => []IInv
<1>1. IInv /\ [Next]_vars => IInv'
  <2> SUFFICES ASSUME IInv, [Next]_vars PROVE IInv'
    OBVIOUS
  <2>1. CASE fat16_resolve
    BY <2>1, ResolveInv
  <2>2. ASSUME NEW p \in names, process_load_elf(p) PROVE IInv'
    BY <2>2, LoadElfInv
  <2>3. CASE fopen
    BY <2>3, FopenInv
  <2>4. CASE fstat
    BY <2>4, FstatInv
  <2>5. CASE fread_elf
    BY <2>5, FreadElfInv
  <2>6. CASE fread_binary
    BY <2>6, FreadBinaryInv
  <2>7. CASE UNCHANGED vars
    BY <2>7, StutterInv
  <2> QED BY <2>1, <2>2, <2>3, <2>4, <2>5, <2>6, <2>7 DEF Next
<1> QED BY InitInv, <1>1, PTL DEF Spec

\* fat16_read, which takes the item of a descriptor for a file without asking, is
\* called for files only, and no load gives back more than it took.
THEOREM FilesReadsOnlyFiles == Spec => []FilesInv
<1>1. IInv => FilesInv
  BY DEF IInv
<1> QED BY FilesInvariant, <1>1, PTL

-----------------------------------------------------------------------------
(* The refinement: an fopen that succeeds opens, an fclose closes, and     *)
(* everything else leaves the descriptors alone.                           *)

LEMMA EndElfStep == ASSUME NEW kept, EndElf(kept) PROVE table' = table
BY DEF EndElf

LEMMA EndBinaryStep ==
  ASSUME IInv, At("stat") \/ At("read"), NEW kept, EndBinary(kept)
  PROVE  table' = table \/ \E fd \in Fds : Open!Close(fd)
<1>1. call.fd \in Fds
  BY DEF IInv, Shape
<1> QED BY <1>1, FcloseIs DEF EndBinary, Open!Close

LEMMA FopenStep ==
  ASSUME IInv, fopen
  PROVE  table' = table \/ \E fd \in Fds : \E f \in Descriptors : Open!Open(fd, f)
<1> DEFINE root == pparser_parse(call.path, Free)
           open == fat16_open(root.parts, Free - root.cost)
           left == Free - root.cost - open.kept
           desc == [entry |-> open.entry, content |-> open.content]
<1>1. \/ table' = table
      \/ /\ open.error = 0
         /\ \E fd \in file_descriptor_new : table' = IF left = 0 THEN table ELSE [table EXCEPT ![fd] = desc]
  BY DEF fopen, FopenFails
<1>2. root.cost \in 0..Free
  BY FreeIs, LoadIs, ParseFits
<1> HIDE DEF root
<1>3. Free - root.cost \in Nat
  <2>1. PICK cost \in 0..Free : cost = root.cost
    BY <1>2
  <2> QED BY <2>1, FreeIs
<1>4. PICK n \in 0..MaxEntries : dir \in [1..n -> Entries]
  <2>1. dir \in UNION {[1..n -> Entries] : n \in 0..MaxEntries}
    BY DEF IInv, Shape
  <2> QED BY <2>1
<1>5. open.error = 0 => open.entry \in 1..n /\ open.content \in ContentOf(open.entry)
  BY <1>3, <1>4, OpenIs
<1> HIDE DEF open
<1>6. ASSUME open.error = 0 PROVE desc \in Descriptors
  <2>1. open.entry \in 1..MaxEntries
    BY <1>5, <1>6, FilesConfig
  <2>2. open.content \in 0..2
    BY <1>5, <1>6 DEF ContentOf
  <2> QED BY <2>1, <2>2 DEF Descriptors
<1> HIDE DEF desc, left
<1>7. ASSUME open.error = 0, NEW fd \in file_descriptor_new, table' = [table EXCEPT ![fd] = desc]
      PROVE  \E f \in Descriptors : fd \in Fds /\ Open!Open(fd, f)
  BY <1>6, <1>7 DEF file_descriptor_new, Open!Open
<1> QED BY <1>1, <1>7

\* The loads use the descriptors as a caller of the file layer may: a number that
\* is handed out is not one of an open file, whatever fails half way.
THEOREM FilesRefinesOpenFiles == Spec => RefinesOpenFiles
<1>1. Init => Open!Init
  BY DEF Init, Open!Init
<1>2. IInv /\ [Next]_vars => [Open!Next]_table
  <2> SUFFICES ASSUME IInv, [Next]_vars
               PROVE  \/ table' = table
                      \/ \E fd \in Fds : Open!Close(fd) \/ \E f \in Descriptors : Open!Open(fd, f)
    BY DEF Open!Next
  <2>1. CASE fat16_resolve
    BY <2>1 DEF fat16_resolve
  <2>2. ASSUME NEW p \in names, process_load_elf(p) PROVE table' = table
    BY <2>2 DEF process_load_elf
  <2>3. CASE fopen
    BY <2>3, FopenStep
  <2>4. CASE fstat
    <3>1. At("stat") /\ (table' = table \/ EndElf(-1) \/ EndBinary(0))
      BY <2>4 DEF fstat
    <3> QED BY <3>1, EndElfStep, EndBinaryStep
  <2>5. CASE fread_elf
    <3>1. table' = table \/ EndElf(0) \/ EndElf(1) \/ EndElf(-1)
      BY <2>5 DEF fread_elf
    <3> QED BY <3>1, EndElfStep
  <2>6. CASE fread_binary
    <3>1. At("read") /\ (EndBinary(0) \/ EndBinary(1))
      BY <2>6 DEF fread_binary
    <3> QED BY <3>1, EndBinaryStep
  <2>7. CASE UNCHANGED vars
    BY <2>7 DEF vars
  <2> QED BY <2>1, <2>2, <2>3, <2>4, <2>5, <2>6, <2>7 DEF Next
<1> QED BY <1>1, <1>2, FilesInvariant, PTL DEF Spec, RefinesOpenFiles, Open!Spec

-----------------------------------------------------------------------------
(* The list of the parts is the list of the segments.                      *)

\* g lists the numbers in S, the least one first.
Lists(g, N, S) ==
  /\ g \in [1..N -> S]
  /\ \A m, n \in 1..N : m < n => g[m] < g[n]
  /\ \A s \in S : \E n \in 1..N : g[n] = s

LEMMA ListsSize ==
  ASSUME NEW N \in Nat, NEW S \in SUBSET Nat, NEW g, Lists(g, N, S)
  PROVE  Cardinality(S) = N
<1> DEFINE D == 1..N
<1>1. IsFiniteSet(D) /\ Cardinality(D) = N
  BY FS_Interval
<1>2. g \in [D -> S] /\ \A s \in S : \E n \in D : g[n] = s
  BY DEF Lists
<1>3. \A m, n \in D : g[m] = g[n] => m = n
  <2> SUFFICES ASSUME NEW m \in D, NEW n \in D, g[m] = g[n], m # n PROVE FALSE
    OBVIOUS
  <2>1. g[m] \in Nat /\ g[n] \in Nat /\ (m < n => g[m] < g[n]) /\ (n < m => g[n] < g[m])
    BY <1>2 DEF Lists
  <2> QED BY <2>1
<1> HIDE DEF D
<1>4. g \in Bijection(D, S)
  BY <1>2, <1>3 DEF Bijection, Injection, Surjection, IsInjective
<1>5. ExistsBijection(D, S)
  BY <1>4 DEF ExistsBijection
<1> QED BY <1>1, <1>5, FS_Bijection

\* Every member of the list has its number: as many are smaller.
Numbered(g, N, S) == \A n \in 1..N : Cardinality({s \in S : s < g[n]}) = n - 1

LEMMA ListsNumbered ==
  ASSUME NEW N \in Nat, NEW S \in SUBSET Nat, NEW g, Lists(g, N, S)
  PROVE  Numbered(g, N, S)
<1> SUFFICES ASSUME NEW n \in 1..N PROVE Cardinality({s \in S : s < g[n]}) = n - 1
  BY DEF Numbered
<1> DEFINE T == {s \in S : s < g[n]}
           h == [m \in 1..(n - 1) |-> g[m]]
<1>0. n - 1 \in Nat
  OBVIOUS
<1>1. T \in SUBSET Nat
  OBVIOUS
<1>2. g \in [1..N -> S] /\ \A m \in 1..N : g[m] \in Nat
  BY DEF Lists
<1>3. h \in [1..(n - 1) -> T]
  <2> SUFFICES ASSUME NEW m \in 1..(n - 1) PROVE g[m] \in T
    OBVIOUS
  <2>1. m \in 1..N /\ m < n
    OBVIOUS
  <2> QED BY <1>2, <2>1 DEF Lists
<1>4. \A l, m \in 1..(n - 1) : l < m => h[l] < h[m]
  BY DEF Lists
<1>5. ASSUME NEW s \in T PROVE \E m \in 1..(n - 1) : h[m] = s
  <2>1. PICK m \in 1..N : g[m] = s
    BY DEF Lists
  <2>2. g[m] < g[n] /\ g[m] \in Nat /\ g[n] \in Nat
    BY <1>2, <2>1
  <2>3. ~(n < m) /\ m # n
    BY <2>2 DEF Lists
  <2>4. m \in 1..(n - 1)
    BY <2>3
  <2> QED BY <2>1, <2>4
<1> HIDE DEF T, h
<1>6. Lists(h, n - 1, T)
  BY <1>3, <1>4, <1>5 DEF Lists
<1>7. Cardinality(T) = n - 1
  BY <1>0, <1>1, <1>6, ListsSize
<1> QED BY <1>7 DEF T

\* One more number in front of all.
LEMMA ListsMore ==
  ASSUME NEW N \in Nat, NEW S \in SUBSET Nat, NEW g, Lists(g, N, S),
         NEW i \in Nat, \A s \in S : i < s
  PROVE  Lists([n \in 1..(N + 1) |-> IF n = 1 THEN i ELSE g[n - 1]], N + 1, {i} \cup S)
<1> DEFINE h == [n \in 1..(N + 1) |-> IF n = 1 THEN i ELSE g[n - 1]]
<1>0. g \in [1..N -> S] /\ \A m \in 1..N : g[m] \in S /\ g[m] \in Nat
  BY DEF Lists
<1>1. ASSUME NEW n \in 1..(N + 1) PROVE h[n] \in {i} \cup S
  <2>1. CASE n = 1
    BY <2>1
  <2>2. CASE n # 1
    <3>1. n - 1 \in 1..N
      BY <2>2
    <3> QED BY <1>0, <2>2, <3>1
  <2> QED BY <2>1, <2>2
<1>2. ASSUME NEW m \in 1..(N + 1), NEW n \in 1..(N + 1), m < n PROVE h[m] < h[n]
  <2>0. n # 1 /\ n - 1 \in 1..N /\ h[n] = g[n - 1]
    BY <1>2
  <2>1. CASE m = 1
    <3>1. g[n - 1] \in S
      BY <1>0, <2>0
    <3> QED BY <2>0, <2>1, <3>1
  <2>2. CASE m # 1
    <3>1. m - 1 \in 1..N /\ m - 1 < n - 1 /\ h[m] = g[m - 1]
      BY <1>2, <2>2
    <3> QED BY <2>0, <3>1 DEF Lists
  <2> QED BY <2>1, <2>2
<1>3. ASSUME NEW s \in {i} \cup S PROVE \E n \in 1..(N + 1) : h[n] = s
  <2>1. CASE s = i
    <3>1. 1 \in 1..(N + 1) /\ h[1] = i
      OBVIOUS
    <3> QED BY <2>1, <3>1
  <2>2. CASE s \in S
    <3>1. PICK m \in 1..N : g[m] = s
      BY <2>2 DEF Lists
    <3>2. m + 1 \in 1..(N + 1) /\ m + 1 # 1 /\ (m + 1) - 1 = m
      OBVIOUS
    <3>3. h[m + 1] = g[m]
      BY <3>2
    <3> QED BY <3>1, <3>2, <3>3
  <2> QED BY <2>1, <2>2
<1>4. h = [n \in 1..(N + 1) |-> h[n]]
  OBVIOUS
<1>5. h \in [1..(N + 1) -> {i} \cup S]
  <2> HIDE DEF h
  <2> QED BY <1>1, <1>4
<1> HIDE DEF h
<1>6. Lists(h, N + 1, {i} \cup S)
  BY <1>2, <1>3, <1>5 DEF Lists
<1> QED BY <1>6 DEF h

LEMMA ListsNone == Lists(<<>>, 0, {})
<1>1. 1..0 = {} /\ <<>> \in [1..0 -> {}]
  OBVIOUS
<1> QED BY <1>1 DEF Lists

\* Behind the slash in front of i, and no two slashes in a row so far.
Clean(path, i) ==
  /\ i \in 4..(Len(path) + 1) /\ path[i - 1] = Slash
  /\ \A k \in 4..(i - 1) : ~(path[k] = Slash /\ path[k - 1] = Slash)

BeginsFrom(path, i) == {b \in Begins(path) : b >= i}
Word(path, b) == SubSeq(path, b, PartEnd(path, b) - 1)

\* g are the places where the parts from i on begin.
PartsBeginAt(path, i, g) ==
  LET parts == PartsFrom(path)[i]
  IN /\ Lists(g, Len(parts), BeginsFrom(path, i))
     /\ \A n \in 1..Len(parts) : parts[n] = Word(path, g[n])

\* The empty part ends the list, and there no more segments begin.
LEMMA LastPart ==
  ASSUME NEW path \in Seq(Characters), NEW i \in Starts(path),
         i = Len(path) + 1 \/ (Clean(path, i) /\ path[i] = Slash)
  PROVE  PartsBeginAt(path, i, <<>>)
<1>0. i \in Nat \ {0} /\ i <= Len(path) + 1 /\ Len(path) \in Nat
  BY DEF Starts
<1>1. PartEnd(path, i) = i
  <2>1. PartEnd(path, i) \in i..(Len(path) + 1)
    BY PartEndIs
  <2>2. i = Len(path) + 1 \/ path[i] = Slash
    OBVIOUS
  <2>3. \A k \in i..(PartEnd(path, i) - 1) : path[k] # Slash
    BY PartEndIs
  <2> QED BY <1>0, <2>1, <2>2, <2>3
<1>2. PartsFrom(path)[i] = <<>>
  <2>1. SubSeq(path, i, i - 1) = <<>>
    BY <1>0, SubSeqEmpty
  <2>2. pparser_get_path_part(path, i).part = <<>>
    BY <1>1, <2>1 DEF pparser_get_path_part
  <2> QED BY <2>2, PartsFromIs DEF Rest
<1>3. BeginsFrom(path, i) = {}
  <2> SUFFICES ASSUME NEW b \in Begins(path), b >= i PROVE FALSE
    BY DEF BeginsFrom
  <2>1. b \in 4..Len(path) /\ \A k \in 4..b : ~(path[k] = Slash /\ path[k - 1] = Slash)
    BY DEF Begins
  <2>2. CASE i = Len(path) + 1
    BY <1>0, <2>1, <2>2
  <2>3. CASE Clean(path, i) /\ path[i] = Slash
    <3>1. i \in 4..b /\ path[i - 1] = Slash
      BY <1>0, <2>1, <2>3 DEF Clean
    <3> QED BY <2>1, <2>3, <3>1
  <2> QED BY <2>2, <2>3
<1>4. Len(PartsFrom(path)[i]) = 0 /\ \A n \in 1..0 : FALSE
  BY <1>2
<1> QED BY <1>2, <1>3, <1>4, ListsNone DEF PartsBeginAt

\* A part that is not empty is one more segment.
LEMMA NextPart ==
  ASSUME NEW path \in Seq(Characters), NEW i \in Starts(path),
         Clean(path, i), i <= Len(path), path[i] # Slash
  PROVE  \E j \in Starts(path) :
           /\ j > i
           /\ j = Len(path) + 1 \/ Clean(path, j)
           /\ PartsFrom(path)[i] = <<Word(path, i)>> \o PartsFrom(path)[j]
           /\ BeginsFrom(path, i) = {i} \cup BeginsFrom(path, j)
<1> DEFINE e == PartEnd(path, i)
           j == IF e <= Len(path) THEN e + 1 ELSE e
<1>0. i \in Nat /\ i >= 4 /\ i <= Len(path) /\ Len(path) \in Nat
  BY DEF Clean
<1>1. /\ e \in i..(Len(path) + 1)
      /\ e = Len(path) + 1 \/ path[e] = Slash
      /\ \A k \in i..(e - 1) : path[k] # Slash
  BY PartEndIs
<1>2. e > i
  BY <1>0, <1>1
<1>3. Word(path, i) # <<>>
  <2>1. \A k \in i..(e - 1) : path[k] \in Characters
    BY <1>0, <1>1
  <2>2. Len(SubSeq(path, i, e - 1)) = e - 1 - i + 1
    BY <1>0, <1>1, <1>2, <2>1, SubSeqProperties
  <2>3. Len(SubSeq(path, i, e - 1)) # 0
    BY <1>0, <1>1, <1>2, <2>2
  <2>4. Word(path, i) = SubSeq(path, i, e - 1)
    BY DEF Word
  <2>5. Len(<<>>) = 0
    OBVIOUS
  <2> QED BY <2>3, <2>4, <2>5, Zenon
<1>4. PartsFrom(path)[i] = <<Word(path, i)>> \o PartsFrom(path)[j]
  <2>1. /\ pparser_get_path_part(path, i).part = Word(path, i)
        /\ pparser_get_path_part(path, i).next = j
    BY DEF pparser_get_path_part, Word
  <2> HIDE DEF j
  <2> QED BY <1>3, <2>1, PartsFromIs DEF Rest
<1> HIDE DEF e
<1>5. j \in Starts(path) /\ j > i /\ j \in Nat /\ e \in Nat /\ j >= e /\ j <= e + 1
  BY <1>0, <1>1, <1>2 DEF Starts
<1>6. \A k \in 4..e : ~(path[k] = Slash /\ path[k - 1] = Slash)
  <2> SUFFICES ASSUME NEW k \in 4..e, path[k] = Slash, path[k - 1] = Slash PROVE FALSE
    OBVIOUS
  <2>1. CASE k < i
    BY <1>0, <2>1 DEF Clean
  <2>2. CASE k >= i /\ k < e
    <3>1. k \in i..(e - 1)
      BY <1>0, <1>5, <2>2
    <3> QED BY <1>1, <3>1
  <2>3. CASE k = e
    <3>1. k - 1 \in i..(e - 1)
      BY <1>0, <1>2, <1>5, <2>3
    <3> QED BY <1>1, <3>1
  <2> QED BY <1>0, <1>5, <2>1, <2>2, <2>3
<1>7. j = Len(path) + 1 \/ Clean(path, j)
  <2>1. CASE e = Len(path) + 1
    BY <1>0, <2>1
  <2>2. CASE e <= Len(path)
    <3>1. j = e + 1 /\ j - 1 = e /\ path[e] = Slash /\ e # Len(path) + 1
      BY <1>0, <1>1, <1>5, <2>2
    <3>2. j \in 4..(Len(path) + 1)
      BY <1>0, <1>5, <2>2, <3>1
    <3> HIDE DEF j
    <3> QED BY <1>6, <3>1, <3>2 DEF Clean
  <2> QED BY <1>0, <1>1, <2>1, <2>2
<1>8. i \in Begins(path)
  <2>1. i \in 4..Len(path) /\ path[i - 1] = Slash
    BY <1>0 DEF Clean
  <2>2. \A k \in 4..i : k \in 4..e
    BY <1>0, <1>2, <1>5
  <2> QED BY <1>6, <2>1, <2>2 DEF Begins
<1> HIDE DEF j
<1>9. ASSUME NEW b \in Begins(path), b > i, b < j PROVE FALSE
  <2>1. b \in 4..Len(path) /\ path[b - 1] = Slash
    BY DEF Begins
  <2>2. b - 1 \in i..(e - 1)
    BY <1>0, <1>5, <1>9, <2>1
  <2> QED BY <1>1, <2>1, <2>2
<1>10. \A b \in Begins(path) : b \in Nat
  BY DEF Begins
<1>11. BeginsFrom(path, i) = {i} \cup BeginsFrom(path, j)
  <2>1. ASSUME NEW b \in BeginsFrom(path, i) PROVE b \in {i} \cup BeginsFrom(path, j)
    BY <1>0, <1>5, <1>9, <1>10, <2>1 DEF BeginsFrom
  <2>2. ASSUME NEW b \in BeginsFrom(path, j) PROVE b \in BeginsFrom(path, i)
    BY <1>0, <1>5, <1>10, <2>2 DEF BeginsFrom
  <2>3. i \in BeginsFrom(path, i)
    BY <1>0, <1>8 DEF BeginsFrom
  <2> QED BY <2>1, <2>2, <2>3
<1> QED BY <1>4, <1>5, <1>7, <1>11

LEMMA PartsBegin ==
  ASSUME NEW path \in Seq(Characters), NEW i \in Starts(path), Clean(path, i) \/ i = Len(path) + 1
  PROVE  \E g : PartsBeginAt(path, i, g)
<1> DEFINE Good(j) == Clean(path, j) \/ j = Len(path) + 1
           Wrong == {k \in Nat : \E j \in Starts(path) :
                       k = Len(path) + 1 - j /\ Good(j) /\ ~\E g : PartsBeginAt(path, j, g)}
<1>0. Len(path) \in Nat /\ \A j \in Starts(path) : j \in Nat /\ Len(path) + 1 - j \in Nat /\ j <= Len(path) + 1
  BY DEF Starts
<1> SUFFICES ASSUME Wrong # {} PROVE FALSE
  BY <1>0
<1>1. PICK k \in Wrong : \A y \in Wrong : k <= y
  BY LeastExists
<1>2. PICK j \in Starts(path) : k = Len(path) + 1 - j /\ Good(j) /\ ~\E g : PartsBeginAt(path, j, g)
  BY <1>1
<1>3. ~(j = Len(path) + 1 \/ (Clean(path, j) /\ path[j] = Slash))
  BY <1>2, LastPart
<1>4. Clean(path, j) /\ j <= Len(path) /\ path[j] # Slash
  <2>1. Clean(path, j) /\ j # Len(path) + 1 /\ path[j] # Slash
    BY <1>2, <1>3, Zenon
  <2>2. j \in Nat /\ j <= Len(path) + 1
    BY <1>0
  <2> HIDE DEF Good, Wrong
  <2> QED BY <1>0, <2>1, <2>2
<1>5. PICK next \in Starts(path) :
        /\ next > j
        /\ next = Len(path) + 1 \/ Clean(path, next)
        /\ PartsFrom(path)[j] = <<Word(path, j)>> \o PartsFrom(path)[next]
        /\ BeginsFrom(path, j) = {j} \cup BeginsFrom(path, next)
  BY <1>4, NextPart
<1>6. \E g : PartsBeginAt(path, next, g)
  <2> SUFFICES ASSUME ~\E g : PartsBeginAt(path, next, g) PROVE FALSE
    OBVIOUS
  <2>1. Len(path) + 1 - next \in Wrong
    BY <1>0, <1>5
  <2>2. k <= Len(path) + 1 - next
    BY <1>1, <2>1
  <2>3. /\ k = Len(path) + 1 - j /\ next > j
        /\ Len(path) \in Nat /\ j \in Nat /\ next \in Nat
    BY <1>0, <1>2, <1>5
  <2> HIDE DEF Wrong
  <2> QED BY <2>2, <2>3
<1> HIDE DEF Wrong, Good
<1>7. PICK g : PartsBeginAt(path, next, g)
  BY <1>6
<1> DEFINE tail == PartsFrom(path)[next]
           N == Len(tail)
           h == [n \in 1..(N + 1) |-> IF n = 1 THEN j ELSE g[n - 1]]
           word == Word(path, j)
<1>8. tail \in Seq(Seq(Characters)) /\ PartsFrom(path)[j] = <<word>> \o tail
  BY <1>5, PartsAreWords
<1>9. Lists(g, N, BeginsFrom(path, next)) /\ \A n \in 1..N : tail[n] = Word(path, g[n])
  BY <1>7 DEF PartsBeginAt
<1>10. BeginsFrom(path, next) \in SUBSET Nat /\ \A b \in BeginsFrom(path, next) : j < b
  <2>1. \A b \in BeginsFrom(path, next) : b \in Nat /\ b >= next
    BY DEF BeginsFrom, Begins
  <2>2. next \in Nat /\ j \in Nat /\ next > j
    BY <1>0, <1>5
  <2>3. \A b \in BeginsFrom(path, next) : j < b
    BY <2>1, <2>2
  <2> QED BY <2>1, <2>3
<1> HIDE DEF tail
<1>11. N \in Nat /\ j \in Nat
  BY <1>0, <1>8
<1>12. Lists(h, N + 1, BeginsFrom(path, j))
  <2> HIDE DEF N
  <2>1. Lists(h, N + 1, {j} \cup BeginsFrom(path, next))
    BY <1>9, <1>10, <1>11, ListsMore
  <2> QED BY <1>5, <2>1
<1>13. word \in Seq(Characters)
  <2>1. pparser_get_path_part(path, j).part = word
    BY DEF pparser_get_path_part, Word
  <2> QED BY <2>1, PartIs
<1> HIDE DEF word
<1>14. Len(<<word>> \o tail) = N + 1 /\ \A n \in 1..(N + 1) : (<<word>> \o tail)[n] = IF n = 1 THEN word ELSE tail[n - 1]
  BY <1>8, <1>13
<1>15. ASSUME NEW n \in 1..(N + 1) PROVE (<<word>> \o tail)[n] = Word(path, h[n])
  <2>1. CASE n = 1
    <3>1. h[n] = j /\ (<<word>> \o tail)[n] = word
      BY <1>14, <2>1
    <3> QED BY <3>1 DEF word
  <2>2. CASE n # 1
    <3>1. n - 1 \in 1..N
      BY <1>11, <2>2
    <3>2. h[n] = g[n - 1] /\ (<<word>> \o tail)[n] = tail[n - 1]
      BY <1>14, <2>2
    <3>3. tail[n - 1] = Word(path, g[n - 1])
      BY <1>9, <3>1
    <3> QED BY <3>2, <3>3
  <2> QED BY <2>1, <2>2
<1> HIDE DEF h, N
<1>16. PartsBeginAt(path, j, h)
  <2>1. Len(PartsFrom(path)[j]) = N + 1
    BY <1>8, <1>14
  <2> QED BY <1>8, <1>12, <1>15, <2>1 DEF PartsBeginAt
<1> QED BY <1>2, <1>16

\* A segment ends where the part ends.
LEMMA SegmentEnd ==
  ASSUME NEW path \in Seq(Characters), NEW b \in Begins(path)
  PROVE  (CHOOSE j \in b..Len(path) : IsSegment(path, b, j)) = PartEnd(path, b) - 1
<1> DEFINE e == PartEnd(path, b)
<1>0. /\ b \in 4..Len(path) /\ path[b - 1] = Slash /\ Len(path) \in Nat
      /\ ~(path[b] = Slash /\ path[b - 1] = Slash)
  BY DEF Begins
<1>1. /\ e \in b..(Len(path) + 1)
      /\ e = Len(path) + 1 \/ path[e] = Slash
      /\ \A k \in b..(e - 1) : path[k] # Slash
  BY <1>0, PartEndIs DEF Starts
<1> HIDE DEF e
<1>2. e - 1 \in b..Len(path) /\ (e - 1) + 1 = e
  BY <1>0, <1>1
<1>3. IsSegment(path, b, e - 1)
  BY <1>0, <1>1, <1>2 DEF IsSegment
<1>4. ASSUME NEW j \in b..Len(path), IsSegment(path, b, j) PROVE j = e - 1
  <2>1. CASE j < e - 1
    <3>1. j + 1 \in b..(e - 1) /\ j # Len(path)
      BY <1>0, <1>2, <2>1
    <3> QED BY <1>1, <1>4, <3>1 DEF IsSegment
  <2>2. CASE j > e - 1
    <3>1. e \in b..j /\ e # Len(path) + 1
      BY <1>0, <1>1, <2>2
    <3> QED BY <1>1, <1>4, <3>1 DEF IsSegment
  <2> QED BY <1>0, <1>1, <2>1, <2>2
<1>5. (CHOOSE j \in b..Len(path) : IsSegment(path, b, j)) = e - 1
  BY <1>2, <1>3, <1>4
<1> QED BY <1>5 DEF e

\* pparser_parse_path_part, called until it returns NULL, has found the segments.
LEMMA PartsAreSegments ==
  ASSUME NEW path \in Seq(Characters), Len(path) >= 3, path[3] = Slash
  PROVE  PartsFrom(path)[4] = Segments(path)
<1> DEFINE B == Begins(path)
           parts == PartsFrom(path)[4]
           N == Len(parts)
<1>0. Len(path) \in Nat /\ 4 \in Starts(path) /\ Clean(path, 4)
  BY DEF Starts, Clean
<1>1. PICK g : PartsBeginAt(path, 4, g)
  BY <1>0, PartsBegin
<1>2. BeginsFrom(path, 4) = B
  BY DEF BeginsFrom, Begins
<1>3. B \in SUBSET Nat
  BY DEF Begins
<1>4. parts \in Seq(Seq(Characters))
  BY <1>0, PartsAreWords
<1>5. Lists(g, N, B) /\ \A n \in 1..N : parts[n] = Word(path, g[n])
  BY <1>1, <1>2 DEF PartsBeginAt
<1> HIDE DEF B, parts
<1>6. N \in Nat /\ parts = [n \in 1..N |-> parts[n]]
  BY <1>4
<1> HIDE DEF N
<1>7. Cardinality(B) = N
  BY <1>3, <1>5, <1>6, ListsSize
<1>8. ASSUME NEW n \in 1..N
      PROVE  (CHOOSE i \in B : Cardinality({b \in B : b < i}) = n - 1) = g[n]
  <2>0. \A m \in 1..N : Cardinality({b \in B : b < g[m]}) = m - 1
    <3>1. Lists(g, N, B) /\ N \in Nat
      BY <1>5, <1>6
    <3>2. Numbered(g, N, B)
      BY <1>3, <3>1, ListsNumbered
    <3> QED BY <3>2 DEF Numbered
  <2>1. g[n] \in B /\ Cardinality({b \in B : b < g[n]}) = n - 1
    BY <1>5, <2>0 DEF Lists
  <2>2. ASSUME NEW i \in B, Cardinality({b \in B : b < i}) = n - 1 PROVE i = g[n]
    <3>1. PICK m \in 1..N : g[m] = i
      BY <1>5 DEF Lists
    <3>2. m - 1 = n - 1
      BY <2>0, <2>2, <3>1
    <3>3. m = n
      BY <1>6, <3>2
    <3> QED BY <3>1, <3>3
  <2> QED BY <2>1, <2>2
<1> DEFINE Segment(n) ==
             LET first == CHOOSE i \in B : Cardinality({b \in B : b < i}) = n - 1
                 last_ == CHOOSE j \in first..Len(path) : IsSegment(path, first, j)
             IN SubSeq(path, first, last_)
<1>9. ASSUME NEW n \in 1..N PROVE Segment(n) = parts[n]
  <2>1. g[n] \in B
    BY <1>5 DEF Lists
  <2>2. Segment(n) = SubSeq(path, g[n], CHOOSE j \in g[n]..Len(path) : IsSegment(path, g[n], j))
    BY <1>8
  <2>3. (CHOOSE j \in g[n]..Len(path) : IsSegment(path, g[n], j)) = PartEnd(path, g[n]) - 1
    BY <2>1, SegmentEnd DEF B
  <2> HIDE DEF Segment
  <2> QED BY <1>5, <2>2, <2>3 DEF Word
<1>10. Segments(path) = [n \in 1..N |-> Segment(n)]
  BY <1>7 DEF Segments, B
<1> HIDE DEF Segment
<1>11. parts = Segments(path)
  BY <1>6, <1>9, <1>10
<1> QED BY <1>11 DEF parts

-----------------------------------------------------------------------------
(* The name of an entry as the driver reads it.                            *)

\* A field is its characters and then blanks.
LEMMA FieldIs ==
  ASSUME NEW n \in Nat, NEW f \in [1..n -> STRING \ {"nul"}], Padded(f)
  PROVE  \E m \in 0..n :
           /\ Field(f) = SubSeq(f, 1, m)
           /\ \A k \in 1..m : f[k] \notin EndOfName
           /\ \A k \in (m + 1)..n : f[k] = Blank
<1> DEFINE Blanks == {k \in 1..(n + 1) : k = n + 1 \/ f[k] = Blank}
           Written == {k \in DOMAIN f : f[k] # Blank}
<1>0. Blanks \in SUBSET Nat /\ n + 1 \in Blanks /\ Len(f) = n
  OBVIOUS
<1>1. PICK e \in Blanks : \A y \in Blanks : e <= y
  BY <1>0, LeastExists
<1> DEFINE m == e - 1
<1>2. m \in 0..n /\ e = m + 1
  BY <1>1
<1>3. ASSUME NEW k \in 1..m PROVE f[k] # Blank
  <2> SUFFICES ASSUME f[k] = Blank PROVE FALSE
    OBVIOUS
  <2>1. k \in Blanks /\ k < e
    BY <1>2
  <2> QED BY <1>0, <1>1, <2>1
<1>4. ASSUME NEW k \in (m + 1)..n PROVE f[k] = Blank
  <2>1. e \in 1..n /\ k \in e..n
    BY <1>1, <1>2
  <2>2. f[e] = Blank
    BY <1>1, <2>1
  <2> QED BY <1>0, <2>1, <2>2 DEF Padded
<1> HIDE DEF m
<1>5. Written = 1..m
  <2>1. ASSUME NEW k \in Written PROVE k \in 1..m
    <3>1. k \in 1..n /\ k \notin (m + 1)..n
      BY <1>4
    <3> QED BY <1>2, <3>1
  <2>2. ASSUME NEW k \in 1..m PROVE k \in Written
    BY <1>2, <1>3
  <2> QED BY <2>1, <2>2
<1>6. Cardinality(Written) = m
  <2>1. Cardinality(1..m) = m
    BY <1>2, FS_Interval
  <2> QED BY <1>5, <2>1
<1>7. Field(f) = SubSeq(f, 1, m)
  <2> HIDE DEF Written
  <2>1. Field(f) = SubSeq(f, 1, Cardinality(Written))
    BY DEF Field, Written
  <2> QED BY <1>6, <2>1
<1>8. ASSUME NEW k \in 1..m PROVE f[k] \notin EndOfName
  BY <1>2, <1>3 DEF EndOfName
<1> QED BY <1>2, <1>4, <1>7, <1>8

LEMMA StripIs ==
  ASSUME NEW S, NEW raw \in Seq(S), NEW from \in 1..Len(raw), NEW end \in from..Len(raw),
         raw[end] \in EndOfName, \A j \in from..(end - 1) : raw[j] \notin EndOfName
  PROVE  strcpy_strip(raw, from) = SubSeq(raw, from, end - 1)
<1> DEFINE Ends(k) == raw[k] \in EndOfName /\ \A j \in from..(k - 1) : raw[j] \notin EndOfName
<1>1. Ends(end)
  OBVIOUS
<1>2. ASSUME NEW k \in from..Len(raw), Ends(k) PROVE k = end
  <2>1. k \notin from..(end - 1)
    BY <1>2
  <2>2. end \notin from..(k - 1)
    BY <1>2
  <2> QED BY <2>1, <2>2
<1>3. (CHOOSE k \in from..Len(raw) : Ends(k)) = end
  <2> HIDE DEF Ends
  <2> QED BY <1>1, <1>2
<1> QED BY <1>3 DEF strcpy_strip

LEMMA JoinIs ==
  ASSUME NEW S, NEW s \in Seq(S), NEW t \in Seq(S)
  PROVE  /\ s \o t \in Seq(S) /\ Len(s \o t) = Len(s) + Len(t)
         /\ \A k \in 1..Len(s) : (s \o t)[k] = s[k]
         /\ \A k \in 1..Len(t) : (s \o t)[Len(s) + k] = t[k]
<1>1. Len(s) \in Nat /\ Len(t) \in Nat
  OBVIOUS
<1>2. ASSUME NEW k \in 1..Len(t) PROVE (s \o t)[Len(s) + k] = t[k]
  <2>1. /\ Len(s) + k \in 1..(Len(s) + Len(t)) /\ ~(Len(s) + k <= Len(s))
        /\ (Len(s) + k) - Len(s) = k
    BY <1>1
  <2> QED BY <2>1, ConcatProperties
<1>3. ASSUME NEW k \in 1..Len(s) PROVE (s \o t)[k] = s[k]
  <2>1. k \in 1..(Len(s) + Len(t)) /\ k <= Len(s)
    BY <1>1
  <2> QED BY <2>1, ConcatProperties
<1> QED BY <1>2, <1>3, ConcatProperties

\* Whatever the bytes of an entry are.
Bytes == STRING \cup {"nul"}

LEMMA RawIs ==
  ASSUME NEW e, IsEntry(e)
  PROVE  /\ Raw(e) \in Seq(Bytes) /\ Len(Raw(e)) = NameLength + ExtLength + 2
         /\ \A k \in 1..NameLength : Raw(e)[k] = e.name[k]
         /\ \A k \in 1..ExtLength : Raw(e)[NameLength + k] = e.ext[k]
         /\ Raw(e)[NameLength + ExtLength + 1] = e.attr
<1> DEFINE Joined(r, u) ==
             /\ r \o u \in Seq(Bytes) /\ Len(r \o u) = Len(r) + Len(u)
             /\ \A k \in 1..Len(r) : (r \o u)[k] = r[k]
             /\ \A k \in 1..Len(u) : (r \o u)[Len(r) + k] = u[k]
<1>0. \A r, u \in Seq(Bytes) : Joined(r, u)
  BY JoinIs
<1>1. PICK name, ext, attr, zero :
        /\ name = e.name /\ ext = e.ext /\ attr = e.attr /\ zero = "nul" /\ zero \in Bytes
        /\ name \in [1..NameLength -> Bytes] /\ ext \in [1..ExtLength -> Bytes]
        /\ attr \in Bytes
  BY DEF IsEntry, Bytes
<1>2. /\ name \in Seq(Bytes) /\ Len(name) = NameLength
      /\ ext \in Seq(Bytes) /\ Len(ext) = ExtLength
  BY <1>1, FilesConfig
<1> DEFINE tail == <<attr, zero>>
           front == name \o ext
<1>3. Raw(e) = front \o tail
  BY <1>1 DEF Raw
<1>4. tail \in Seq(Bytes) /\ Len(tail) = 2 /\ tail[1] = attr
  BY <1>1
<1> HIDE DEF tail
<1>5. /\ front \in Seq(Bytes) /\ Len(front) = Len(name) + Len(ext)
      /\ \A k \in 1..Len(name) : front[k] = name[k]
      /\ \A k \in 1..Len(ext) : front[Len(name) + k] = ext[k]
  BY <1>0, <1>2, Zenon
<1> HIDE DEF front
<1>6. /\ front \o tail \in Seq(Bytes) /\ Len(front \o tail) = Len(front) + Len(tail)
      /\ \A k \in 1..Len(front) : (front \o tail)[k] = front[k]
      /\ \A k \in 1..Len(tail) : (front \o tail)[Len(front) + k] = tail[k]
  BY <1>0, <1>4, <1>5, Zenon
<1>7. Len(front) = NameLength + ExtLength /\ 1 \in 1..Len(tail)
  BY <1>2, <1>4, <1>5
<1>8. ASSUME NEW k \in 1..NameLength PROVE (front \o tail)[k] = name[k]
  <2>1. k \in 1..Len(front)
    BY <1>7, FilesConfig
  <2> QED BY <1>2, <1>5, <1>6, <2>1
<1>9. ASSUME NEW k \in 1..ExtLength PROVE (front \o tail)[NameLength + k] = ext[k]
  <2>1. NameLength + k \in 1..Len(front)
    BY <1>7, FilesConfig
  <2> QED BY <1>2, <1>5, <1>6, <2>1
<1>10. (front \o tail)[NameLength + ExtLength + 1] = attr
  BY <1>4, <1>6, <1>7
<1>11. Len(front \o tail) = NameLength + ExtLength + 2
  BY <1>4, <1>6, <1>7
<1> QED BY <1>1, <1>3, <1>6, <1>8, <1>9, <1>10, <1>11

\* The first m of the n bytes behind the byte "at" of the entry are written, and
\* nothing is behind them.
FieldAt(e, at, n, f, m) ==
  /\ at \in Nat /\ n \in Nat /\ at + n <= NameLength + ExtLength
  /\ \A k \in 1..n : f[k] \in Bytes /\ Raw(e)[at + k] = f[k]
  /\ m \in 0..n /\ \A k \in 1..m : f[k] \notin EndOfName
  /\ Raw(e)[at + m + 1] \in EndOfName

\* Where a field lies in the bytes of the entry, the driver finds it.
LEMMA StripFieldIs ==
  ASSUME NEW e, IsEntry(e), NEW at, NEW n, NEW f, NEW m, FieldAt(e, at, n, f, m)
  PROVE  strcpy_strip(Raw(e), at + 1) = SubSeq(f, 1, m)
<1> DEFINE raw == Raw(e)
<1>0. /\ NameLength \in Nat /\ ExtLength \in Nat /\ at \in Nat /\ n \in Nat
      /\ m \in Nat /\ m <= n /\ at + n <= NameLength + ExtLength
  BY FilesConfig DEF FieldAt
<1>1. raw \in Seq(Bytes) /\ Len(raw) = NameLength + ExtLength + 2
  BY RawIs
<1> HIDE DEF raw
<1>2. at + 1 \in 1..Len(raw) /\ at + m + 1 \in (at + 1)..Len(raw) /\ (at + m + 1) - 1 = at + m
  BY <1>0, <1>1
<1>3. \A k \in 1..n : f[k] \in Bytes /\ raw[at + k] = f[k]
  BY DEF raw, FieldAt
<1>4. ASSUME NEW j \in (at + 1)..(at + m) PROVE raw[j] \notin EndOfName
  <2>1. j - at \in 1..m /\ j - at \in 1..n /\ at + (j - at) = j
    BY <1>0
  <2>2. raw[j] = f[j - at]
    BY <1>3, <2>1
  <2> QED BY <2>1, <2>2 DEF FieldAt
<1>5. strcpy_strip(raw, at + 1) = SubSeq(raw, at + 1, at + m)
  <2>1. raw[at + m + 1] \in EndOfName
    BY DEF raw, FieldAt
  <2> QED BY <1>1, <1>2, <1>4, <2>1, StripIs
<1>6. \A k \in 1..m : k \in 1..n /\ f[k] \in Bytes /\ (at + 1) + k - 1 = at + k
  BY <1>0, <1>3
<1>7. /\ SubSeq(f, 1, m) \in Seq(Bytes)
      /\ Len(SubSeq(f, 1, m)) = m
      /\ \A k \in 1..m : SubSeq(f, 1, m)[k] = f[k]
  <2>1. \A k \in 1..m : 1 + k - 1 = k
    BY <1>0
  <2> QED BY <1>0, <1>6, <2>1, SubSeqProperties
<1>8. /\ SubSeq(raw, at + 1, at + m) \in Seq(Bytes)
      /\ Len(SubSeq(raw, at + 1, at + m)) = m
      /\ \A k \in 1..m : SubSeq(raw, at + 1, at + m)[k] = raw[at + k]
  <2>1. \A k \in (at + 1)..(at + m) : raw[k] \in Bytes
    BY <1>0, <1>1
  <2>2. \A k \in 1..m : k \in 1..((at + m) - (at + 1) + 1)
    BY <1>0
  <2>3. /\ SubSeq(raw, at + 1, at + m) \in Seq(Bytes)
        /\ Len(SubSeq(raw, at + 1, at + m)) = IF at + 1 <= at + m THEN (at + m) - (at + 1) + 1 ELSE 0
        /\ \A k \in 1..((at + m) - (at + 1) + 1) : SubSeq(raw, at + 1, at + m)[k] = raw[(at + 1) + k - 1]
    <3>1. PICK lo \in Int, hi \in Int : lo = at + 1 /\ hi = at + m
      BY <1>0
    <3>2. \A k \in lo..hi : raw[k] \in Bytes
      BY <2>1, <3>1
    <3>3. /\ SubSeq(raw, lo, hi) \in Seq(Bytes)
          /\ Len(SubSeq(raw, lo, hi)) = IF lo <= hi THEN hi - lo + 1 ELSE 0
          /\ \A k \in 1..(hi - lo + 1) : SubSeq(raw, lo, hi)[k] = raw[lo + k - 1]
      BY <3>2, SubSeqProperties
    <3> QED BY <3>1, <3>3
  <2>4. Len(SubSeq(raw, at + 1, at + m)) = m
    BY <1>0, <2>3
  <2> QED BY <1>6, <2>2, <2>3, <2>4
<1>9. SubSeq(raw, at + 1, at + m) = SubSeq(f, 1, m)
  <2>1. \A k \in 1..m : SubSeq(raw, at + 1, at + m)[k] = SubSeq(f, 1, m)[k]
    BY <1>3, <1>6, <1>7, <1>8
  <2> QED BY <1>7, <1>8, <2>1, SeqEqual
<1> QED BY <1>5, <1>9 DEF raw

\* The driver reads the name of an entry right, when no field runs into the next.
LEMMA FullNameIs ==
  ASSUME NEW e, IsEntry(e), Plain(e)
  PROVE  /\ fat16_get_full_relative_filename(e) = TrueName(e)
         /\ Len(TrueName(e)) >= 1 /\ TrueName(e)[1] = e.name[1]
<1>0. /\ NameLength \in Nat \ {0} /\ ExtLength \in Nat \ {0}
      /\ e.name \in [1..NameLength -> STRING \ {"nul"}] /\ Padded(e.name) /\ e.name[1] # Blank
      /\ e.ext \in [1..ExtLength -> STRING \ {"nul"}] /\ Padded(e.ext)
  BY FilesConfig DEF IsEntry
<1>1. PICK a \in 0..NameLength :
        /\ Field(e.name) = SubSeq(e.name, 1, a)
        /\ \A k \in 1..a : e.name[k] \notin EndOfName
        /\ \A k \in (a + 1)..NameLength : e.name[k] = Blank
  BY <1>0, FieldIs
<1>2. PICK b \in 0..ExtLength :
        /\ Field(e.ext) = SubSeq(e.ext, 1, b)
        /\ \A k \in 1..b : e.ext[k] \notin EndOfName
        /\ \A k \in (b + 1)..ExtLength : e.ext[k] = Blank
  BY <1>0, FieldIs
<1>3. a >= 1
  <2> SUFFICES ASSUME a = 0 PROVE FALSE
    OBVIOUS
  <2> QED BY <1>0, <1>1
<1>4. /\ Field(e.name) \in Seq(Bytes) /\ Len(Field(e.name)) = a
      /\ Field(e.name)[1] = e.name[1]
  <2>1. \A k \in 1..a : e.name[k] \in Bytes
    BY <1>0 DEF Bytes
  <2>2. /\ SubSeq(e.name, 1, a) \in Seq(Bytes) /\ Len(SubSeq(e.name, 1, a)) = a - 1 + 1
        /\ \A k \in 1..(a - 1 + 1) : SubSeq(e.name, 1, a)[k] = e.name[1 + k - 1]
    BY <1>3, <2>1, SubSeqProperties
  <2>3. 1 \in 1..(a - 1 + 1) /\ 1 + 1 - 1 = 1 /\ a - 1 + 1 = a
    BY <1>3
  <2> QED BY <1>1, <2>2, <2>3
<1>5. Field(e.ext) \in Seq(Bytes) /\ Len(Field(e.ext)) = b
  <2>1. \A k \in 1..b : e.ext[k] \in Bytes
    BY <1>0 DEF Bytes
  <2>2. SubSeq(e.ext, 1, b) \in Seq(Bytes) /\ Len(SubSeq(e.ext, 1, b)) = IF 1 <= b THEN b - 1 + 1 ELSE 0
    BY <2>1, SubSeqProperties
  <2> QED BY <1>2, <2>2
<1>6. /\ \A k \in 1..NameLength : Raw(e)[k] = e.name[k]
      /\ \A k \in 1..ExtLength : Raw(e)[NameLength + k] = e.ext[k]
      /\ Raw(e)[NameLength + ExtLength + 1] = e.attr
  BY RawIs
<1>7. Blank \in EndOfName
  BY DEF EndOfName
<1>8. b = 0 => e.ext[1] = Blank
  BY <1>0, <1>2
<1>9. Raw(e)[a + 1] \in EndOfName
  <2>1. CASE a < NameLength
    <3>1. a + 1 \in (a + 1)..NameLength /\ a + 1 \in 1..NameLength
      BY <1>0, <2>1
    <3> QED BY <1>1, <1>6, <1>7, <3>1
  <2>2. CASE a = NameLength
    <3>1. Field(e.ext) = <<>>
      BY <1>4, <2>2 DEF Plain
    <3>2. b = 0
      BY <1>5, <3>1
    <3>3. 1 \in 1..ExtLength
      BY <1>0
    <3> QED BY <1>6, <1>7, <1>8, <2>2, <3>2, <3>3
  <2> QED BY <1>0, <1>1, <2>1, <2>2
<1>10. Raw(e)[NameLength + b + 1] \in EndOfName
  <2>1. CASE b < ExtLength
    <3>1. b + 1 \in (b + 1)..ExtLength /\ b + 1 \in 1..ExtLength /\ NameLength + (b + 1) = NameLength + b + 1
      BY <1>0, <2>1
    <3> QED BY <1>2, <1>6, <1>7, <3>1
  <2>2. CASE b = ExtLength
    <3>1. e.attr \in EndOfName
      BY <1>5, <2>2 DEF Plain
    <3> QED BY <1>6, <2>2, <3>1
  <2> QED BY <1>0, <1>2, <2>1, <2>2
<1>11. strcpy_strip(Raw(e), 1) = Field(e.name)
  <2>1. PICK at : at = 0 /\ at \in Nat
    OBVIOUS
  <2>2. \A k \in 1..NameLength : at + k = k /\ e.name[k] \in Bytes
    BY <1>0, <2>1 DEF Bytes
  <2>3. \A k \in 1..NameLength : e.name[k] \in Bytes /\ Raw(e)[at + k] = e.name[k]
    BY <1>6, <2>2
  <2>4. /\ NameLength \in Nat /\ at + NameLength <= NameLength + ExtLength
        /\ at + a + 1 = a + 1 /\ at + 1 = 1
    BY <1>0, <2>1
  <2>5. FieldAt(e, at, NameLength, e.name, a)
    <3>1. Raw(e)[at + a + 1] \in EndOfName
      BY <1>9, <2>4, Zenon
    <3>2. a \in 0..NameLength /\ \A k \in 1..a : e.name[k] \notin EndOfName
      BY <1>1
    <3> QED BY <2>1, <2>3, <2>4, <3>1, <3>2 DEF FieldAt
  <2>6. strcpy_strip(Raw(e), at + 1) = SubSeq(e.name, 1, a)
    BY <2>5, StripFieldIs, Z3
  <2> QED BY <1>1, <2>4, <2>6
<1>12. strcpy_strip(Raw(e), NameLength + 1) = Field(e.ext)
  <2>1. \A k \in 1..ExtLength : e.ext[k] \in Bytes /\ Raw(e)[NameLength + k] = e.ext[k]
    BY <1>0, <1>6 DEF Bytes
  <2>2. NameLength \in Nat /\ ExtLength \in Nat /\ NameLength + ExtLength <= NameLength + ExtLength
    BY <1>0
  <2>3. FieldAt(e, NameLength, ExtLength, e.ext, b)
    BY <1>2, <1>10, <2>1, <2>2 DEF FieldAt
  <2>4. strcpy_strip(Raw(e), NameLength + 1) = SubSeq(e.ext, 1, b)
    BY <2>3, StripFieldIs
  <2> QED BY <1>2, <2>4
<1>13. e.ext[1] \in EndOfName <=> Field(e.ext) = <<>>
  <2>1. b = 0 <=> Field(e.ext) = <<>>
    BY <1>5
  <2>2. b # 0 => e.ext[1] \notin EndOfName
    BY <1>2
  <2> QED BY <1>7, <1>8, <2>1, <2>2
<1>14. fat16_get_full_relative_filename(e) = TrueName(e)
  BY <1>11, <1>12, <1>13 DEF fat16_get_full_relative_filename, TrueName
<1>15. Len(TrueName(e)) >= 1 /\ TrueName(e)[1] = e.name[1]
  <2> DEFINE behind == IF Field(e.ext) = <<>> THEN <<>> ELSE <<".">> \o Field(e.ext)
  <2>1. TrueName(e) = Field(e.name) \o behind
    BY DEF TrueName
  <2>2. behind \in Seq(Bytes \cup {"."})
    <3>1. PICK S : S = Bytes \cup {"."}
      OBVIOUS
    <3>2. <<>> \in Seq(S) /\ <<".">> \in Seq(S) /\ Field(e.ext) \in Seq(S)
      BY <1>5, <3>1
    <3>3. <<".">> \o Field(e.ext) \in Seq(S)
      BY <3>2, ConcatProperties
    <3> QED BY <3>1, <3>2, <3>3
  <2>3. Field(e.name) \in Seq(Bytes \cup {"."})
    BY <1>4
  <2> HIDE DEF behind
  <2>4. /\ Len(Field(e.name) \o behind) = Len(Field(e.name)) + Len(behind)
        /\ \A k \in 1..Len(Field(e.name)) : (Field(e.name) \o behind)[k] = Field(e.name)[k]
    BY <2>2, <2>3, JoinIs
  <2>5. Len(behind) \in Nat
    BY <2>2
  <2>6. 1 \in 1..Len(Field(e.name))
    BY <1>3, <1>4
  <2> QED BY <1>3, <1>4, <2>1, <2>4, <2>5, <2>6
<1> QED BY <1>14, <1>15

-----------------------------------------------------------------------------
(* What pparser_parse returns.                                             *)

LEMMA ParseIs ==
  ASSUME NEW path \in Seq(Characters), NEW free \in Nat, pparser_parse(path, free).parts # <<>>
  PROVE  /\ IsPrefix(pparser_parse(path, free).parts, Segments(path))
         /\ free >= 8 /\ Len(pparser_parse(path, free).parts) <= 1 =>
              /\ pparser_parse(path, free).parts = Segments(path)
              /\ pparser_parse(path, free).cost <= 3
<1> DEFINE all == PartsFrom(path)[4]
           fit == (free - 1) \div 2
           parsed == pparser_parse(path, free)
<1>1. parsed # NULL
  BY DEF NULL
<1>2. /\ pparser_path_valid_format(path) /\ free # 0
      /\ parsed = IF Len(all) <= fit THEN [parts |-> all, ok |-> TRUE, cost |-> 1 + 2 * Len(all)]
                  ELSE [parts |-> SubSeq(all, 1, fit), ok |-> TRUE, cost |-> free]
  BY <1>1 DEF pparser_parse
<1>3. all = Segments(path)
  BY <1>2, PartsAreSegments DEF pparser_path_valid_format
<1>4. all \in Seq(Seq(Characters))
  BY <1>2, PartsAreWords DEF pparser_path_valid_format, Starts
<1>5. fit \in Nat /\ (free >= 8 => fit >= 3)
  BY <1>2
<1> HIDE DEF all, fit, parsed
<1>6. Len(all) \in Nat
  BY <1>4
<1>7. CASE Len(all) <= fit
  <2>1. parsed.parts = all /\ parsed.cost = 1 + 2 * Len(all)
    BY <1>2, <1>7
  <2>2. IsPrefix(all, all)
    BY <1>6 DEF IsPrefix
  <2>3. Len(all) <= 1 => 1 + 2 * Len(all) <= 3
    BY <1>6
  <2> QED BY <1>3, <2>1, <2>2, <2>3 DEF parsed
<1>8. CASE Len(all) > fit
  <2>1. parsed.parts = SubSeq(all, 1, fit)
    BY <1>2, <1>5, <1>6, <1>8
  <2>2. \A j \in 1..fit : all[j] \in Seq(Characters)
    BY <1>4, <1>5, <1>6, <1>8
  <2>3. SubSeq(all, 1, fit) \in Seq(Seq(Characters)) /\ Len(SubSeq(all, 1, fit)) = fit
    BY <1>5, <2>2, SubSeqProperties
  <2>4. IsPrefix(SubSeq(all, 1, fit), all)
    <3>1. SubSeq(SubSeq(all, 1, fit), 1, fit) = SubSeq(all, 1, fit)
      BY <2>3
    <3> QED BY <1>5, <1>6, <1>8, <2>3, <3>1 DEF IsPrefix
  <2>5. ~(free >= 8 /\ Len(SubSeq(all, 1, fit)) <= 1)
    BY <1>5, <2>3
  <2> QED BY <1>3, <2>1, <2>4, <2>5 DEF parsed
<1> QED BY <1>5, <1>6, <1>7, <1>8

-----------------------------------------------------------------------------
(* What the last fopen did, as far as it can still be seen.                *)

Found(name) == fat16_find_item_in_directory(dir, name)

\* It parsed the path with the memory that there was.
LastParsed ==
  last.result \notin {0, EINVAL} =>
    /\ last.path \in Seq(Characters) /\ last.free \in Nat
    /\ last.parts = pparser_parse(last.path, last.free).parts /\ last.parts # <<>>

\* The descriptor stands for an entry that has been searched and found.
LastOpened ==
  Opened /\ table[last.result] # None =>
    Len(last.parts) = 1 /\ table[last.result].entry \in Found(last.parts[1])

\* EIO means that nothing was found, when it means neither that the disk has no
\* file system nor that memory was short.
LastMissed ==
  last.result = EIO /\ mounted /\ Roomy /\ Len(last.parts) = 1 => Found(last.parts[1]) = {}

LastInv ==
  /\ IInv
  /\ At("boot") => last.result = 0
  /\ LastParsed
  /\ LastOpened
  /\ LastMissed

\* An action that is no fopen changes nothing of this.
LEMMA QuietInv ==
  ASSUME LastInv, IInv', last' = last, dir' = dir, call'.at # "boot",
         mounted' = mounted \/ At("boot"),
         table' = table \/ \E fd \in Fds : table' = [table EXCEPT ![fd] = None]
  PROVE  LastInv'
<1>1. ~At("boot")'
  BY DEF At
<1>2. Roomy' <=> Roomy
  BY DEF Roomy
<1>3. Opened' <=> Opened
  BY DEF Opened
<1>4. LastParsed'
  BY DEF LastInv, LastParsed
<1>5. LastOpened'
  <2> SUFFICES ASSUME Opened, table'[last.result] # None
               PROVE  Len(last.parts) = 1 /\ table'[last.result].entry \in Found(last.parts[1])
    BY <1>3 DEF LastOpened, Found
  <2>1. last.result \in Fds
    BY LoadIs, FilesConfig DEF LastInv, Opened, Fds, ENOMEM
  <2>2. table \in [Fds -> Descriptors \cup {None}]
    BY DEF LastInv, IInv, FilesInv, TypeOK
  <2>3. table'[last.result] = table[last.result]
    BY <2>1, <2>2
  <2> QED BY <2>3 DEF LastInv, LastOpened
<1>6. LastMissed'
  <2>1. CASE mounted' = mounted
    BY <1>2, <2>1 DEF LastInv, LastMissed, Found
  <2>2. CASE At("boot")
    <3>1. last.result = 0
      BY <2>2 DEF LastInv
    <3> QED BY <3>1 DEF LastMissed, EIO
  <2> QED BY <2>1, <2>2
<1> QED BY <1>1, <1>4, <1>5, <1>6 DEF LastInv

\* fat16_open takes what the search has found, if it has found something.
LEMMA OpenFinds ==
  ASSUME NEW n \in 0..MaxEntries, dir \in [1..n -> Entries], NEW parts, NEW free \in Nat
  PROVE  /\ fat16_open(parts, free).error = 0 =>
              ~(Len(parts) > 1) /\ fat16_open(parts, free).entry \in Found(parts[1])
         /\ fat16_open(parts, free).error = EIO /\ free >= 2 /\ ~(Len(parts) > 1) =>
              Found(parts[1]) = {}
<1> DEFINE found == fat16_find_item_in_directory(dir, parts[1])
           i == Least(found)
           content == Content(dir[i], free - 2)
           Absent == found = {} \/ free = 1
<1>0. EIO # 0 /\ EIO # ENOMEM /\ ENOMEM # 0
  BY DEF EIO, ENOMEM
<1>1. CASE free = 0
  <2>1. fat16_open(parts, free) = [error |-> ENOMEM, kept |-> 0]
    BY <1>1 DEF fat16_open
  <2> QED BY <1>0, <2>1
<1>2. CASE free # 0 /\ Absent
  <2>1. fat16_open(parts, free) = [error |-> EIO, kept |-> 0]
    BY <1>2 DEF fat16_open
  <2> QED BY <1>0, <1>2, <2>1 DEF Found
<1>3. CASE free # 0 /\ ~Absent
  <2>1. i \in found
    <3>1. found \subseteq 1..n
      BY FoundIn
    <3> HIDE DEF found
    <3>2. found \in SUBSET Nat /\ found # {}
      BY <1>3, <3>1
    <3> QED BY <3>2, LeastInSet
  <2>2. fat16_open(parts, free) =
          IF Len(parts) > 1 THEN [error |-> EIO, kept |-> 1 + content]
          ELSE [error |-> 0, kept |-> 2 + content, entry |-> i, content |-> content]
    BY <1>3 DEF fat16_open
  <2> HIDE DEF i, content
  <2>3. CASE Len(parts) > 1
    BY <1>0, <2>2, <2>3
  <2>4. CASE ~(Len(parts) > 1)
    BY <1>0, <2>1, <2>2, <2>4 DEF Found
  <2> QED BY <2>3, <2>4
<1> HIDE DEF Absent
<1> QED BY <1>1, <1>2, <1>3

\* What an fopen leaves behind when it fails.
LEMMA FailedLast ==
  ASSUME LastInv, At("open"), IInv', NEW kept, NEW result \in {EINVAL, EIO, ENOMEM},
         NEW root, root = pparser_parse(call.path, Free),
         result # EINVAL => root.parts # <<>>,
         result = EIO /\ mounted /\ Free >= 8 /\ Len(root.parts) = 1 => Found(root.parts[1]) = {},
         FopenFails(result, root, kept)
  PROVE  LastInv'
<1>1. /\ last' = [path |-> call.path, parts |-> root.parts, result |-> result, free |-> Free]
      /\ call' = Idle /\ dir' = dir /\ mounted' = mounted
  BY DEF FopenFails
<1>2. last'.path = call.path /\ last'.parts = root.parts /\ last'.result = result /\ last'.free = Free
  BY <1>1
<1>3. ~At("boot")'
  BY <1>1 DEF At, Idle
<1>4. LastParsed'
  <2>1. call.path \in Seq(Characters) /\ Free \in Nat
    BY LoadIs, FreeIs DEF LastInv
  <2> QED BY <1>2, <2>1 DEF LastParsed
<1>5. LastOpened'
  BY <1>2 DEF LastOpened, Opened, EINVAL, EIO, ENOMEM
<1>6. LastMissed'
  BY <1>1, <1>2 DEF LastMissed, Roomy, Found
<1> QED BY <1>3, <1>4, <1>5, <1>6 DEF LastInv

\* And when it succeeds.
LEMMA OpenedLast ==
  ASSUME LastInv, IInv', NEW fd \in Fds, NEW entry, NEW content,
         NEW root, root = pparser_parse(call.path, Free), root.parts # <<>>,
         Len(root.parts) = 1, entry \in Found(root.parts[1]), table[fd] = None,
         table' = table \/ table' = [table EXCEPT ![fd] = [entry |-> entry, content |-> content]],
         call' = [call EXCEPT !.at = "stat", !.fd = fd],
         last' = [path |-> call.path, parts |-> root.parts, result |-> fd, free |-> Free],
         UNCHANGED <<dir, mounted>>
  PROVE  LastInv'
<1>1. last'.path = call.path /\ last'.parts = root.parts /\ last'.result = fd /\ last'.free = Free
  OBVIOUS
<1>2. ~At("boot")'
  <2>1. call \in Loads
    BY DEF LastInv, IInv, Shape
  <2> QED BY <2>1 DEF At, Loads
<1>3. LastParsed'
  <2>1. call.path \in Seq(Characters) /\ Free \in Nat
    BY LoadIs, FreeIs DEF LastInv
  <2> QED BY <1>1, <2>1 DEF LastParsed
<1>4. LastOpened'
  <2>1. table \in [Fds -> Descriptors \cup {None}]
    BY DEF LastInv, IInv, FilesInv, TypeOK
  <2>2. table'[fd] # None => table'[fd].entry = entry
    BY <2>1
  <2> QED BY <1>1, <2>2 DEF LastOpened, Found
<1>5. LastMissed'
  <2>1. fd # EIO
    BY FilesConfig DEF Fds, EIO
  <2> QED BY <1>1, <2>1 DEF LastMissed
<1> QED BY <1>2, <1>3, <1>4, <1>5 DEF LastInv

LEMMA FopenLast == LastInv /\ IInv' /\ fopen => LastInv'
<1> SUFFICES ASSUME LastInv, IInv', fopen PROVE LastInv'
  OBVIOUS
<1> DEFINE root == pparser_parse(call.path, Free)
           open == fat16_open(root.parts, Free - root.cost)
           left == Free - root.cost - open.kept
<1>1. At("open")
  BY DEF fopen
<1>2. \/ FopenFails(EINVAL, root, 0)
      \/ root.parts # <<>> /\ ~mounted /\ FopenFails(EIO, root, 0)
      \/ root.parts # <<>> /\ open.error # 0 /\ FopenFails(open.error, root, open.kept)
      \/ root.parts # <<>> /\ FopenFails(ENOMEM, root, open.kept)
      \/ /\ root.parts # <<>> /\ open.error = 0
         /\ \E fd \in file_descriptor_new :
              /\ table' = IF left = 0 THEN table
                          ELSE [table EXCEPT ![fd] = [entry |-> open.entry, content |-> open.content]]
              /\ call' = [call EXCEPT !.at = "stat", !.fd = fd]
              /\ last' = [path |-> call.path, parts |-> root.parts, result |-> fd, free |-> Free]
         /\ UNCHANGED <<dir, names, mounted>>
  BY DEF fopen
<1>3. Free \in Nat /\ call.path \in Seq(Characters)
  BY FreeIs, LoadIs DEF LastInv
<1>4. root.cost \in 0..Free /\ root.parts \in Seq(Seq(Characters))
  BY <1>3, ParseFits
<1>5. root.parts # <<>> /\ Free >= 8 /\ Len(root.parts) <= 1 => root.cost <= 3
  BY <1>3, ParseIs
<1>6. PICK n \in 0..MaxEntries : dir \in [1..n -> Entries]
  <2>1. dir \in UNION {[1..n -> Entries] : n \in 0..MaxEntries}
    BY DEF LastInv, IInv, Shape
  <2> QED BY <2>1
<1> HIDE DEF root
<1>7. PICK cost \in Nat : cost = root.cost /\ Free - cost \in Nat
  BY <1>3, <1>4
<1>8. /\ open.error \in {0, EIO, ENOMEM}
      /\ open.error = 0 => ~(Len(root.parts) > 1) /\ open.entry \in Found(root.parts[1])
      /\ open.error = EIO /\ Free - cost >= 2 /\ ~(Len(root.parts) > 1) => Found(root.parts[1]) = {}
  BY <1>6, <1>7, OpenIs, OpenFinds
<1> HIDE DEF open, left
<1>9. EIO # EINVAL /\ ENOMEM # EINVAL /\ EIO # ENOMEM
  BY DEF EIO, EINVAL, ENOMEM
<1>10. Len(root.parts) \in Nat /\ (root.parts # <<>> /\ ~(Len(root.parts) > 1) => Len(root.parts) = 1)
  <2>1. PICK parts \in Seq(Seq(Characters)) : parts = root.parts
    BY <1>4
  <2>2. Len(parts) \in Nat
    OBVIOUS
  <2>3. parts # <<>> => Len(parts) \in Nat \ {0}
    BY EmptySeq, Zenon
  <2>4. \A k \in Nat \ {0} : ~(k > 1) => k = 1
    OBVIOUS
  <2> QED BY <2>1, <2>2, <2>3, <2>4, Zenon
<1>11. CASE FopenFails(EINVAL, root, 0)
  BY <1>1, <1>9, <1>11, FailedLast DEF root
<1>12. CASE root.parts # <<>> /\ ~mounted /\ FopenFails(EIO, root, 0)
  <2>1. EIO \in {EINVAL, EIO, ENOMEM}
    OBVIOUS
  <2>2. EIO = EIO /\ mounted /\ Free >= 8 /\ Len(root.parts) = 1 => Found(root.parts[1]) = {}
    BY <1>12
  <2> QED BY <1>1, <1>12, <2>1, <2>2, FailedLast DEF root
<1>13. CASE root.parts # <<>> /\ open.error # 0 /\ FopenFails(open.error, root, open.kept)
  <2>1. open.error = EIO /\ Free >= 8 /\ Len(root.parts) = 1 => Found(root.parts[1]) = {}
    BY <1>3, <1>5, <1>7, <1>8, <1>13
  <2>2. open.error \in {EINVAL, EIO, ENOMEM}
    BY <1>8, <1>13
  <2> QED BY <1>1, <1>13, <2>1, <2>2, FailedLast DEF root
<1>14. CASE root.parts # <<>> /\ FopenFails(ENOMEM, root, open.kept)
  BY <1>1, <1>9, <1>14, FailedLast DEF root
<1>15. ASSUME root.parts # <<>>, open.error = 0, NEW fd \in file_descriptor_new,
              table' = IF left = 0 THEN table
                       ELSE [table EXCEPT ![fd] = [entry |-> open.entry, content |-> open.content]],
              call' = [call EXCEPT !.at = "stat", !.fd = fd],
              last' = [path |-> call.path, parts |-> root.parts, result |-> fd, free |-> Free],
              UNCHANGED <<dir, names, mounted>>
       PROVE  LastInv'
  <2>1. fd \in Fds /\ table[fd] = None
    BY DEF file_descriptor_new
  <2>2. Len(root.parts) = 1 /\ open.entry \in Found(root.parts[1])
    BY <1>8, <1>10, <1>15
  <2>3. table' = table \/ table' = [table EXCEPT ![fd] = [entry |-> open.entry, content |-> open.content]]
    BY <1>15
  <2> QED BY <1>15, <2>1, <2>2, <2>3, OpenedLast DEF root
<1> QED BY <1>2, <1>11, <1>12, <1>13, <1>14, <1>15

LEMMA EndElfLast ==
  ASSUME LastInv, IInv', NEW kept, EndElf(kept) PROVE LastInv'
<1>1. last' = last /\ dir' = dir /\ mounted' = mounted /\ table' = table /\ call'.at # "boot"
  BY DEF EndElf, Idle
<1> QED BY <1>1, QuietInv

LEMMA EndBinaryLast ==
  ASSUME LastInv, IInv', At("stat") \/ At("read"), NEW kept, EndBinary(kept) PROVE LastInv'
<1>1. call.fd \in Fds
  BY DEF LastInv, IInv, Shape
<1>2. last' = last /\ dir' = dir /\ mounted' = mounted /\ call'.at # "boot"
  BY DEF EndBinary, Idle
<1>3. table' = table \/ \E fd \in Fds : table' = [table EXCEPT ![fd] = None]
  BY <1>1, FcloseIs DEF EndBinary
<1> QED BY <1>2, <1>3, QuietInv

LEMMA GoesOnLast ==
  ASSUME LastInv, IInv', ~At("boot"), UNCHANGED <<dir, mounted, table, last>>,
         call' = call \/ call'.at # "boot"
  PROVE  LastInv'
<1>1. call'.at # "boot"
  BY DEF At
<1> QED BY <1>1, QuietInv

LEMMA StepLast == LastInv /\ IInv' /\ [Next]_vars => LastInv'
<1> SUFFICES ASSUME LastInv, IInv', [Next]_vars PROVE LastInv'
  OBVIOUS
<1>0. call \in Loads
  BY DEF LastInv, IInv, Shape
<1>1. CASE fat16_resolve
  <2>1. At("boot") /\ last' = last /\ dir' = dir /\ table' = table /\ call'.at # "boot"
    BY <1>1 DEF fat16_resolve, Idle
  <2> QED BY <2>1, QuietInv
<1>2. ASSUME NEW p \in names, process_load_elf(p) PROVE LastInv'
  <2>1. last' = last /\ dir' = dir /\ mounted' = mounted /\ table' = table /\ call'.at # "boot"
    BY <1>2 DEF process_load_elf
  <2> QED BY <2>1, QuietInv
<1>3. CASE fopen
  BY <1>3, FopenLast
<1>4. CASE fstat
  <2>1. \/ At("stat") /\ (EndElf(-1) \/ EndBinary(0))
        \/ /\ last' = last /\ dir' = dir /\ mounted' = mounted /\ table' = table
           /\ \E at \in {"wild", "read"} : call' = [call EXCEPT !.at = at]
    BY <1>4 DEF fstat
  <2>2. ASSUME NEW at \in {"wild", "read"}, call' = [call EXCEPT !.at = at],
               last' = last, dir' = dir, mounted' = mounted, table' = table
        PROVE  LastInv'
    <3>1. call'.at # "boot"
      BY <1>0, <2>2 DEF Loads
    <3> QED BY <2>2, <3>1, QuietInv
  <2> QED BY <2>1, <2>2, EndElfLast, EndBinaryLast
<1>5. CASE fread_elf
  <2>1. \/ EndElf(0) \/ EndElf(1) \/ EndElf(-1)
        \/ /\ last' = last /\ dir' = dir /\ mounted' = mounted /\ table' = table
           /\ call' = [call EXCEPT !.at = "open", !.by = "binary", !.fd = 0]
    BY <1>5 DEF fread_elf
  <2>2. ASSUME call' = [call EXCEPT !.at = "open", !.by = "binary", !.fd = 0],
               last' = last, dir' = dir, mounted' = mounted, table' = table
        PROVE  LastInv'
    <3>1. call'.at # "boot"
      BY <1>0, <2>2 DEF Loads
    <3> QED BY <2>2, <3>1, QuietInv
  <2> QED BY <2>1, <2>2, EndElfLast
<1>6. CASE fread_binary
  <2>1. At("read") /\ (EndBinary(0) \/ EndBinary(1))
    BY <1>6 DEF fread_binary
  <2> QED BY <2>1, EndBinaryLast
<1>7. CASE UNCHANGED vars
  <2>1. /\ last' = last /\ dir' = dir /\ mounted' = mounted /\ table' = table /\ call' = call
    BY <1>7 DEF vars
  <2>2. CASE At("boot")
    <3>1. last.result = 0 /\ last.result # EIO
      BY <2>2 DEF LastInv, EIO
    <3>2. LastParsed' /\ LastMissed' /\ ~Opened'
      BY <2>1, <3>1 DEF LastParsed, LastMissed, Opened
    <3> QED BY <2>1, <3>1, <3>2 DEF LastInv, LastOpened, At
  <2>3. CASE ~At("boot")
    BY <2>1, <2>3, QuietInv DEF At
  <2> QED BY <2>2, <2>3
<1> QED BY <1>1, <1>2, <1>3, <1>4, <1>5, <1>6, <1>7 DEF Next

LEMMA InitLast == Init => LastInv
<1> SUFFICES ASSUME Init PROVE LastInv
  OBVIOUS
<1>1. last.result = 0
  BY DEF Init
<1>2. LastParsed /\ LastOpened /\ LastMissed
  BY <1>1 DEF LastParsed, LastOpened, LastMissed, Opened, EIO
<1> QED BY <1>1, <1>2, InitInv DEF LastInv

\* What the history says of the last fopen is so.
THEOREM FilesLastInvariant == Spec => []LastInv
<1>1. LastInv /\ IInv' /\ [Next]_vars => LastInv'
  BY StepLast
<1> QED BY InitLast, FilesInvariant, <1>1, PTL DEF Spec

\* pparser_parse finds every segment of a path, in the order of the path, up to the
\* first empty one or to the end of memory.
THEOREM FilesParsesSegments == Spec => []ParsesSegments
<1>1. LastInv => ParsesSegments
  <2> SUFFICES ASSUME LastInv, last.result \notin {0, EINVAL}
               PROVE  /\ IsPrefix(last.parts, Segments(last.path))
                      /\ Roomy /\ Len(last.parts) <= 1 => last.parts = Segments(last.path)
    BY DEF ParsesSegments
  <2>1. /\ last.path \in Seq(Characters) /\ last.free \in Nat
        /\ last.parts = pparser_parse(last.path, last.free).parts /\ last.parts # <<>>
    BY DEF LastInv, LastParsed
  <2> QED BY <2>1, ParseIs DEF Roomy
<1> QED BY FilesLastInvariant, <1>1, PTL

-----------------------------------------------------------------------------
(* The entry that was opened, and the one that was not found.              *)

\* No part of a path has the mark of a deleted entry in it.
LEMMA PartsHaveNoMark ==
  ASSUME LastInv, last.result \notin {0, EINVAL}, Len(last.parts) = 1
  PROVE  last.parts[1] \in Seq(Characters)
<1>1. last.parts \in Seq(Seq(Characters))
  BY ParseFits DEF LastInv, LastParsed
<1>2. 1 \in 1..Len(last.parts)
  OBVIOUS
<1> QED BY <1>1, <1>2

LEMMA NoMark == ASSUME NEW c \in Characters PROVE to_lower(c) # "E5"
BY FilesAssumption DEF to_lower

LEMMA EntryIs ==
  ASSUME IInv, NEW i \in DOMAIN dir
  PROVE  IsEntry(dir[i])
<1>1. dir \in UNION {[1..n -> Entries] : n \in 0..MaxEntries}
  BY DEF IInv, Shape
<1>2. dir[i] \in Entries
  BY <1>1
<1> QED BY <1>2, FilesAssumption

\* The driver compares the names without the case, and opens the entry whose name,
\* field by field, is the one asked for; a deleted entry has no such name.
THEOREM FilesOpensWhatIsNamed == Spec => []OpensWhatIsNamed
<1>1. LastInv => OpensWhatIsNamed
  <2> SUFFICES ASSUME LastInv, Opened, table[last.result] # None
               PROVE  LET e == dir[table[last.result].entry]
                      IN Len(last.parts) = 1 /\ (Plain(e) => ~Deleted(e) /\ SameName(TrueName(e), last.parts[1]))
    BY DEF OpensWhatIsNamed
  <2> DEFINE e == dir[table[last.result].entry]
             name == last.parts[1]
  <2>1. Len(last.parts) = 1 /\ table[last.result].entry \in Found(name)
    BY DEF LastInv, LastOpened
  <2>2. last.result \in Fds /\ last.result \notin {0, EINVAL}
    BY LoadIs, FilesConfig DEF LastInv, Opened, Fds, ENOMEM, EINVAL
  <2>3. table[last.result].entry \in DOMAIN dir
    BY <2>2 DEF LastInv, IInv, ContentsMatch
  <2>4. name \in Seq(Characters)
    BY <2>1, <2>2, PartsHaveNoMark
  <2>5. IsEntry(e)
    BY <2>3, EntryIs DEF LastInv
  <2>6. SameName(fat16_get_full_relative_filename(e), name)
    BY <2>1 DEF Found, fat16_find_item_in_directory
  <2> HIDE DEF e, name
  <2>7. ASSUME Plain(e) PROVE ~Deleted(e) /\ SameName(TrueName(e), name)
    <3>1. fat16_get_full_relative_filename(e) = TrueName(e) /\ Len(TrueName(e)) >= 1 /\ TrueName(e)[1] = e.name[1]
      BY <2>5, <2>7, FullNameIs
    <3>2. SameName(TrueName(e), name)
      BY <2>6, <3>1
    <3>3. Len(TrueName(e)) = Len(name) /\ Len(name) \in Nat
      BY <2>4, <3>2 DEF SameName
    <3>4. 1 \in 1..Len(name) /\ name[1] \in Characters
      BY <2>4, <3>1, <3>3
    <3>5. to_lower(e.name[1]) = to_lower(name[1])
      BY <3>1, <3>2, <3>4 DEF SameName
    <3>6. to_lower("E5") = "E5"
      BY DEF to_lower
    <3> QED BY <3>2, <3>4, <3>5, <3>6, NoMark DEF Deleted
  <2> QED BY <2>1, <2>7 DEF e, name
<1> QED BY FilesLastInvariant, <1>1, PTL

\* The search goes as far as there are live entries, so it reaches every entry that
\* no deleted one comes before.
THEOREM FilesFindsFile == Spec => []FindsFile
<1>1. LastInv => FindsFile
  <2> SUFFICES ASSUME LastInv, last.result = EIO, mounted, Roomy, Len(last.parts) = 1,
                      NEW i \in DOMAIN dir, Plain(dir[i]), \A j \in 1..i : ~Deleted(dir[j]),
                      SameName(TrueName(dir[i]), last.parts[1])
               PROVE  FALSE
    BY DEF FindsFile
  <2>1. Found(last.parts[1]) = {}
    BY DEF LastInv, LastMissed
  <2>2. IsEntry(dir[i])
    BY EntryIs DEF LastInv
  <2>3. SameName(fat16_get_full_relative_filename(dir[i]), last.parts[1])
    BY <2>2, FullNameIs
  <2>4. PICK n \in 0..MaxEntries : dir \in [1..n -> Entries]
    <3>1. dir \in UNION {[1..n -> Entries] : n \in 0..MaxEntries}
      BY DEF LastInv, IInv, Shape
    <3> QED BY <3>1
  <2> DEFINE live == {j \in DOMAIN dir : ~Deleted(dir[j])}
  <2>5. i \in Nat /\ n \in Nat /\ i >= 1 /\ i <= n /\ live \subseteq 1..n /\ 1..i \subseteq live
    BY <2>4
  <2>6. i <= Cardinality(live)
    <3>1. IsFiniteSet(1..n) /\ Cardinality(1..i) = i
      BY <2>5, FS_Interval
    <3> HIDE DEF live
    <3>2. IsFiniteSet(live)
      BY <2>5, <3>1, FS_Subset
    <3>3. Cardinality(1..i) <= Cardinality(live)
      BY <2>5, <3>2, FS_Subset
    <3> QED BY <3>1, <3>3
  <2>7. Cardinality(live) \in Nat
    <3> HIDE DEF live
    <3>1. Cardinality(live) \in 0..n
      BY <2>5, SubsetSize
    <3> QED BY <2>5, <3>1
  <2>8. i \in 1..Cardinality(live)
    BY <2>5, <2>6, <2>7
  <2>9. i \in Found(last.parts[1])
    BY <2>3, <2>8 DEF Found, fat16_find_item_in_directory, fat16_get_total_items_for_directory
  <2> QED BY <2>1, <2>9
<1> QED BY FilesLastInvariant, <1>1, PTL
=============================================================================
