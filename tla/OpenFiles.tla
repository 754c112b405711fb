----------------------------- MODULE OpenFiles ------------------------------
(***************************************************************************)
(* What the callers of the file layer expect: a number stands for one file *)
(* from the time it is handed out until it is closed.                      *)
(***************************************************************************)
CONSTANTS Fds,    \* the numbers
          Files,  \* what can be open
          Closed  \* no file

VARIABLE open

Init == open = [fd \in Fds |-> Closed]

Open(fd, f) == open[fd] = Closed /\ open' = [open EXCEPT ![fd] = f]

Close(fd) == open[fd] # Closed /\ open' = [open EXCEPT ![fd] = Closed]

Next == \E fd \in Fds : Close(fd) \/ \E f \in Files : Open(fd, f)

Spec == Init /\ [][Next]_open
=============================================================================
