------------------------------ MODULE KeyQueue ------------------------------
(***************************************************************************)
(* What a user program may expect of its keyboard: every process has a     *)
(* queue of its own, a key goes to the end of the queue of the process in  *)
(* the foreground, and getkey takes the oldest one.                        *)
(***************************************************************************)
EXTENDS Sequences

CONSTANTS Processes, Keys, NUL, None

VARIABLES
  queue,    \* the keys each process has not read yet, oldest first
  current,  \* the process in the foreground
  got       \* what the last getkey returned

vars == <<queue, current, got>>

Init ==
  /\ queue = [p \in Processes |-> << >>]
  /\ current = None
  /\ got = NUL

Type(c) ==
  /\ current # None
  /\ queue' = [queue EXCEPT ![current] = Append(@, c)]
  /\ UNCHANGED <<current, got>>

GetKey ==
  /\ current # None
  /\ queue[current] # << >>
  /\ got' = Head(queue[current])
  /\ queue' = [queue EXCEPT ![current] = Tail(@)]
  /\ UNCHANGED current

GetNothing ==
  /\ current # None
  /\ queue[current] = << >>
  /\ got' = NUL
  /\ UNCHANGED <<queue, current>>

Start(p) ==
  /\ queue[p] = << >>
  /\ current' = p
  /\ UNCHANGED <<queue, got>>

Next ==
  \/ \E c \in Keys : Type(c)
  \/ GetKey
  \/ GetNothing
  \/ \E p \in Processes : Start(p)

Spec == Init /\ [][Next]_vars
=============================================================================
