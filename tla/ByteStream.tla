----------------------------- MODULE ByteStream -----------------------------
(***************************************************************************)
(* What a reader of the disk expects of a stream: a position, and reads    *)
(* that copy the bytes from the position on.  A byte of the disk is named  *)
(* by its position.                                                        *)
(***************************************************************************)
EXTENDS Integers

CONSTANT Requests  \* the reads that are made: records with dest and total

VARIABLES pos,  \* where the next read starts
          mem   \* the memory that reads write to

\* Memory m after n bytes of the disk, from position "from" on, are put at dest.
Copied(m, dest, from, n) ==
  [a \in DOMAIN m |-> IF a \in dest..(dest + n - 1) THEN from + (a - dest) ELSE m[a]]

Seek == pos' \in Nat /\ UNCHANGED mem

Read(dest, n) ==
  /\ mem' = Copied(mem, dest, pos, n)
  /\ pos' = pos + n

Next == Seek \/ \E r \in Requests : Read(r.dest, r.total)

Init == pos = 0

Spec == Init /\ [][Next]_<<pos, mem>>
=============================================================================
