----------------------------- MODULE LineEditor -----------------------------
(***************************************************************************)
(* What readline promises: a line grows at its end, a backspace takes the  *)
(* last character away, and a line that was entered stays as it is.        *)
(***************************************************************************)
EXTENDS SequencesExt, Integers

CONSTANTS Keys, Backspace, Longest
VARIABLES line, entered

Init == line = <<>> /\ entered = FALSE

Type == \E k \in Keys \ {Backspace} : line' = Append(line, k)

\* With nothing to take away a backspace is entered like a letter.
Rub == line' = IF line = <<>> THEN <<Backspace>> ELSE Front(line)

Enter == entered' = TRUE /\ UNCHANGED line

Next == ~entered /\ (((Type \/ Rub) /\ Len(line) < Longest /\ UNCHANGED entered) \/ Enter)

Spec == Init /\ [][Next]_<<line, entered>>
=============================================================================
