------------------------------ MODULE ReadLine ------------------------------
(***************************************************************************)
(* The buffer of readline in the user library, its index, and the loop as  *)
(* operators on them: Console shows it with the echo, Shell with strtok.   *)
(***************************************************************************)
EXTENDS Integers

CONSTANTS BufSize,  \* the size of the buffer
          Letters   \* the keys other than return, backspace and, in Shell, the blank

VARIABLES buf, i    \* the buffer that readline fills, and its index

ASSUME BufSizeAssumption == BufSize \in Nat \ {0}

CR      == "return"     \* 13
Erase   == "backspace"  \* 0x08
NUL     == "NUL"        \* 0x00
Unset   == "unset"      \* a byte of the stack that was never written

\* mutant: at the first character backspace does nothing but clear it
Stored_late(b, n, key) ==
  IF key = Erase /\ n > 1 THEN [buf |-> [b EXCEPT ![n - 1] = NUL], i |-> n - 1]
  ELSE [buf |-> [b EXCEPT ![n] = key], i |-> n + 1]

\* mutant: the index is taken back by one and counted up again
Stored_in_place(b, n, key) ==
  IF key = Erase /\ n >= 1 THEN [buf |-> [b EXCEPT ![n - 1] = NUL], i |-> n]
  ELSE [buf |-> [b EXCEPT ![n] = key], i |-> n + 1]

\* One key that is not CR.  With nothing to erase a backspace is a character.
Stored(b, n, key) ==
  IF key = Erase /\ n >= 1 THEN [buf |-> [b EXCEPT ![n - 1] = NUL], i |-> n - 1]
  ELSE [buf |-> [b EXCEPT ![n] = key], i |-> n + 1]

\* Whether the loop waits for another key.
Room(n) == n < BufSize - 1

Terminated(b, n) == [b EXCEPT ![n] = NUL]
=============================================================================
