----------------------------- MODULE PathParser -----------------------------
(***************************************************************************)
(* The path parser of fs/pparser.c: "0:/a/b" is drive 0 and the parts a    *)
(* and b.  A path is a sequence of characters.  Every part costs two       *)
(* blocks of the heap, its string and its list element, the root one.      *)
(* The kernel heap is identity mapped from address 0 on, so a part that    *)
(* got no memory is written to address 0 and ends the list.                *)
(***************************************************************************)
EXTENDS Integers, Sequences, FiniteSets, SequencesExt

CONSTANTS MaxPath,  \* PHIX_MAX_PATH
          Digits    \* the characters that is_digit() accepts

ASSUME PathAssumption == MaxPath \in Nat

Slash == "/"

\* strlen may not exceed PHIX_MAX_PATH, and the drive prefix must be there.
pparser_path_valid_format(path) ==
  /\ Len(path) >= 3
  /\ path[1] \in Digits /\ path[2] = ":" /\ path[3] = Slash

\* The index of the slash that ends the part starting at i, or the end of path.
PartEnd(path, i) ==
  CHOOSE e \in i..(Len(path) + 1) :
    /\ e = Len(path) + 1 \/ path[e] = Slash
    /\ \A k \in i..(e - 1) : path[k] # Slash

\* mutant: the slash behind a part is not skipped
part_without_skip(path, i) ==
  [part |-> SubSeq(path, i, PartEnd(path, i) - 1), next |-> PartEnd(path, i)]

\* pparser_get_path_part: the characters up to the slash, which is skipped.
pparser_get_path_part(path, i) ==
  LET e == PartEnd(path, i)
  IN [part |-> SubSeq(path, i, e - 1), next |-> IF e <= Len(path) THEN e + 1 ELSE e]

\* The parts from index i on: pparser_parse_path_part again and again until it
\* returns NULL.
PartsFrom(path) ==
  LET parts[i \in 1..(Len(path) + 1)] ==
        LET p == pparser_get_path_part(path, i)
        IN IF p.part = <<>> THEN <<>> ELSE <<p.part>> \o parts[p.next]
  IN parts

NULL == [parts |-> <<>>, ok |-> FALSE, cost |-> 0]

\* pparser_parse with "free" blocks left.  The drive number it stores is the
\* result of a comparison, which is 0 for every path that it accepts.  The list
\* ends where memory does; a string that got the last block is lost.
pparser_parse(path, free) ==
  IF Len(path) > MaxPath \/ ~pparser_path_valid_format(path) \/ free = 0 THEN NULL
  ELSE LET all == PartsFrom(path)[4]
           fit == (free - 1) \div 2
       IN IF Len(all) <= fit
          THEN [parts |-> all, ok |-> TRUE, cost |-> 1 + 2 * Len(all)]
          ELSE [parts |-> SubSeq(all, 1, fit), ok |-> TRUE, cost |-> free]
-----------------------------------------------------------------------------
(* What the parts of a path are, without a loop. *)

\* path[i..j] lies between two slashes, or a slash and the end.
IsSegment(path, i, j) ==
  /\ path[i - 1] = Slash
  /\ \A k \in i..j : path[k] # Slash
  /\ j = Len(path) \/ path[j + 1] = Slash

\* Where the segments in front of the first empty one begin: behind a slash, and
\* no slash so far was followed by another.
Begins(path) ==
  {i \in 4..Len(path) :
     /\ path[i - 1] = Slash
     /\ \A k \in 4..i : ~(path[k] = Slash /\ path[k - 1] = Slash)}

\* The segments in front of the first empty one: the n-th begins where n - 1 others
\* begin before.
Segments(path) ==
  [n \in 1..Cardinality(Begins(path)) |->
     LET first == CHOOSE i \in Begins(path) : Cardinality({b \in Begins(path) : b < i}) = n - 1
         last  == CHOOSE j \in first..Len(path) : IsSegment(path, first, j)
     IN SubSeq(path, first, last)]
=============================================================================
