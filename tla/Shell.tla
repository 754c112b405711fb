------------------------------- MODULE Shell --------------------------------
(***************************************************************************)
(* The loop of the shell: readline fills the buffer on its stack, strtok,  *)
(* which keeps a pointer into that buffer between calls, splits it, and    *)
(* exec starts the program a command names.  The shell is back at once     *)
(* when exec fails; a program that started keeps the keyboard for good.    *)
(*                                                                         *)
(* A string in the buffer is its index, and 0 of C is Null.  The command   *)
(* RUN is one letter, Command, and the first three characters of a word    *)
(* are its first.                                                          *)
(***************************************************************************)
EXTENDS ReadLine, Sequences, FiniteSets

CONSTANT Command  \* the letter for RUN

Null  == -1
Space == " "
Keys  == Letters \cup {Space, Erase}

\* No letter is taken for the end of a string.
ASSUME CommandAssumption ==
  Command \in Letters /\ Letters \cap {Space, Erase, NUL, Unset} = {}

VARIABLES step,  \* what is done next
          sp,    \* the pointer that strtok keeps
          cmd, filename, \* the words that strtok found
          typed, fresh   \* the line that was read, and whether sp was null then

shellVars == <<step, buf, i, sp, cmd, filename, typed, fresh>>

Positions == 0..(BufSize - 1)

ShellTypeOK ==
  /\ step \in {"readline", "strtok", "strncmp", "filename", "exec", "gone"}
  /\ buf \in [Positions -> Keys \cup {NUL, Unset}] /\ i \in Positions
  /\ {sp, cmd, filename} \subseteq Positions \cup {Null}
  /\ typed \in Seq(Keys) /\ fresh \in BOOLEAN

ShellInit ==
  /\ step = "readline"
  /\ buf = [k \in Positions |-> Unset] /\ i = 0
  /\ sp = Null /\ cmd = Null /\ filename = Null
  /\ typed = <<>> /\ fresh = TRUE
-----------------------------------------------------------------------------
\* The first place from p on with one of a set of characters.  There is one, see
\* ReadsOnlyWritten.
Find(b, p, set) ==
  LET places == {q \in p..(BufSize - 1) : b[q] \in set}
  IN IF places = {} THEN BufSize - 1 ELSE CHOOSE q \in places : \A r \in places : q <= r

\* mutant: the pointer goes past the end of the string too
strtok_past_end(str, b, s) ==
  LET first == Find(b, IF s = Null THEN str ELSE s, (Keys \cup {NUL, Unset}) \ {Space})
      last  == Find(b, first, {Space, NUL})
  IN IF (str = Null /\ s = Null) \/ b[first] = NUL THEN [word |-> Null, sp |-> Null, buf |-> b]
     ELSE [word |-> first, sp |-> last + 1, buf |-> [b EXCEPT ![last] = NUL]]

\* mutant: the pointer is kept when no word is left
strtok_keeps_pointer(str, b, s) ==
  LET first == Find(b, IF s = Null THEN str ELSE s, (Keys \cup {NUL, Unset}) \ {Space})
      last  == Find(b, first, {Space, NUL})
  IN IF str = Null /\ s = Null THEN [word |-> Null, sp |-> Null, buf |-> b]
     ELSE IF b[first] = NUL THEN [word |-> Null, sp |-> first, buf |-> b]
     ELSE [word |-> first, sp |-> IF b[last] = NUL THEN last ELSE last + 1, buf |-> [b EXCEPT ![last] = NUL]]

\* mutant: leading delimiters belong to the word
strtok_no_skip(str, b, s) ==
  LET first == IF s = Null THEN str ELSE s
      last  == Find(b, first, {Space, NUL})
  IN IF (str = Null /\ s = Null) \/ b[first] = NUL THEN [word |-> Null, sp |-> Null, buf |-> b]
     ELSE [word |-> first, sp |-> IF b[last] = NUL THEN last ELSE last + 1, buf |-> [b EXCEPT ![last] = NUL]]

\* strtok with a blank for the only delimiter: str counts only when the pointer is
\* null.  The word ends with the string, or with a delimiter that becomes its end.
strtok(str, b, s) ==
  LET first == Find(b, IF s = Null THEN str ELSE s, (Keys \cup {NUL, Unset}) \ {Space})
      last  == Find(b, first, {Space, NUL})
  IN IF (str = Null /\ s = Null) \/ b[first] = NUL THEN [word |-> Null, sp |-> Null, buf |-> b]
     ELSE [word |-> first, sp |-> IF b[last] = NUL THEN last ELSE last + 1, buf |-> [b EXCEPT ![last] = NUL]]

\* The string that begins at p.
String(b, p) == [k \in 1..(Find(b, p, {NUL}) - p) |-> b[p + k - 1]]
-----------------------------------------------------------------------------
\* A key other than return.
ShellReadKey ==
  /\ step = "readline" /\ Room(i)
  /\ \E key \in Keys : buf' = Stored(buf, i, key).buf /\ i' = Stored(buf, i, key).i
  /\ UNCHANGED <<step, sp, cmd, filename, typed, fresh>>

\* Return, or the buffer is full.
ShellReadsLine ==
  /\ step = "readline"
  /\ buf' = Terminated(buf, i)
  /\ typed' = [k \in 1..i |-> buf[k - 1]]
  /\ fresh' = (sp = Null)
  /\ step' = "strtok"
  /\ UNCHANGED <<i, sp, cmd, filename>>

strtok_command ==
  /\ step = "strtok"
  /\ LET result == strtok(0, buf, sp)
     IN cmd' = result.word /\ sp' = result.sp /\ buf' = result.buf
  /\ step' = "strncmp"
  /\ UNCHANGED <<i, filename, typed, fresh>>

\* With no word the comparison reads address 0, which every program has mapped: the
\* interrupt vectors of the BIOS, and not the command.
IsCommand == cmd # Null /\ buf[cmd] = Command

strncmp_run ==
  /\ step = "strncmp"
  /\ step' = IF IsCommand THEN "filename" ELSE "readline"
  /\ IF IsCommand THEN UNCHANGED <<i, cmd>> ELSE i' = 0 /\ cmd' = Null
  /\ UNCHANGED <<buf, sp, filename, typed, fresh>>

strtok_filename ==
  /\ step = "filename"
  /\ LET result == strtok(Null, buf, sp)
     IN filename' = result.word /\ sp' = result.sp /\ buf' = result.buf
  /\ step' = "exec"
  /\ UNCHANGED <<i, cmd, typed, fresh>>

exec ==
  /\ step = "exec"
  /\ \/ step' = "gone" /\ UNCHANGED <<i, cmd, filename>>
     \/ step' = "readline" /\ i' = 0 /\ cmd' = Null /\ filename' = Null
  /\ UNCHANGED <<buf, sp, typed, fresh>>

Steps == ShellReadsLine \/ strtok_command \/ strncmp_run \/ strtok_filename \/ exec
ShellNext == ShellReadKey \/ Steps

\* The user ends every line, in the end; the rest is up to the shell.
ShellSpec == ShellInit /\ [][ShellNext]_shellVars /\ WF_shellVars(Steps)
-----------------------------------------------------------------------------
(* Properties *)

\* Where the words of a line begin, and where they end.
Begins(line) == {k \in DOMAIN line : line[k] # Space /\ (k = 1 \/ line[k - 1] = Space)}
End(line, k) == CHOOSE e \in k..Len(line) :
                  /\ \A m \in k..e : line[m] # Space
                  /\ e = Len(line) \/ line[e + 1] = Space

\* The n-th word of the line: n - 1 others begin before it.
Word(n) ==
  LET nth == {k \in Begins(typed) : Cardinality({m \in Begins(typed) : m < k}) = n - 1}
  IN IF nth = {} THEN <<>>
     ELSE LET begin == CHOOSE k \in nth : TRUE IN SubSeq(typed, begin, End(typed, begin))

WordAt(p) == IF p = Null THEN <<>> ELSE String(buf, p)

\* With no pointer left from an earlier line, the shell starts what the line says:
\* the second word of a line whose first word begins with the command.
RunsWhatWasTyped ==
  fresh => /\ step = "strncmp" => WordAt(cmd) = Word(1)
           /\ step = "exec" => Word(1) # <<>> /\ Word(1)[1] = Command /\ WordAt(filename) = Word(2)

\* When strtok is called with a pointer left from an earlier call, it points to a string that is wholly in the
\* buffer: strtok reads no byte that was never written, and none behind the buffer.
ReadsOnlyWritten ==
  step \in {"strtok", "filename"} /\ sp # Null =>
    \E q \in sp..(BufSize - 1) : buf[q] = NUL /\ \A r \in sp..q : buf[r] # Unset

\* All types, and a pointer that strtok can follow.
PointerInv == ShellTypeOK /\ ReadsOnlyWritten

\* However strtok was left, the shell comes to a line it reads from its start, as
\* long as lines are entered.
ShellRecovers == (step = "readline" /\ sp # Null) ~> ((step = "readline" /\ sp = Null) \/ step = "gone")
=============================================================================
