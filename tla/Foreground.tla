----------------------------- MODULE Foreground -----------------------------
(***************************************************************************)
(* What exec promises: it starts one more process in the lowest free slot  *)
(* and gives it the machine, or it changes nothing.  No process is ever    *)
(* resumed or removed.                                                     *)
(***************************************************************************)
EXTENDS Integers

CONSTANTS
  Slots,  \* the indexes of processes[]
  None    \* no process

VARIABLES
  launched,   \* the slots in use
  foreground  \* the slot of the process that runs

vars == <<launched, foreground>>

Init == launched = {} /\ foreground = None

Launch(slot) ==
  /\ slot \notin launched
  /\ \A s \in Slots \ launched : slot <= s
  /\ launched' = launched \cup {slot}
  /\ foreground' = slot

Next == \E slot \in Slots : Launch(slot)

Spec == Init /\ [][Next]_vars
=============================================================================
