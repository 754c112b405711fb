------------------------------ MODULE Console -------------------------------
(***************************************************************************)
(* What a user sees: a program prints something and reads a line, and      *)
(* putchar echoes every key on the screen while readline stores it.        *)
(***************************************************************************)
EXTENDS Terminal, ReadLine

CONSTANTS IntMax,    \* INT_MAX
          Magnitudes, \* the numbers that are printed, with either sign
          Rows,      \* bound: the rows a line begins in
          MaxAstray  \* bound: keys after a backspace went astray

Numbers == {n \in Magnitudes \cup {-n : n \in Magnitudes} : n \in (-IntMax - 1)..IntMax}
Args == [as : {"d"}, value : Numbers] \cup [as : {"p"}, value : Numbers \cap Nat]
          \cup [as : {"c"}, value : Letters \cup {NL}] \cup [as : {"s"}, value : {<<"#", ">">>, <<>>}]

\* No letter moves the cursor or ends a string, and the row, which is never taken
\* back to the screen, does not count up to UINT16.
ASSUME ConsoleAssumption ==
  /\ IntMax \in Nat /\ Magnitudes \subseteq Nat
  /\ Letters \cap {Erase, NL, NUL, Unset} = {}
  /\ Rows \subseteq Nat
  /\ \A r \in Rows, a \in Args : r + Len(Shown(a, IntMax)) + BufSize < UINT16

VARIABLES at,        \* what is done next
          arg,       \* what is printed before the line
          term,      \* the terminal
          from, start, \* the places on the screen where the text and the line begin
          astray     \* the keys from a backspace on that found the cursor in the
                     \* first column, or nothing to erase

vars == <<at, arg, term, from, start, buf, i, astray>>

Chars == Letters \cup {Erase, NUL, Unset}
Place(t) == t.row * VGA_WIDTH + t.col

TypeOK ==
  /\ at \in {"print", "printed", "readline", "done"}
  /\ arg \in Args
  /\ term.row \in 0..(UINT16 - 1) /\ term.col \in 0..(UINT16 - 1)
  /\ i \in 0..(BufSize - 1) /\ buf \in [0..(BufSize - 1) -> Chars]

\* The cursor is where the program before left it.
Init ==
  /\ at = "print"
  /\ arg \in Args
  /\ \E r \in Rows, c \in 0..(VGA_WIDTH - 1) : term = [terminal_init EXCEPT !.row = r, !.col = c]
  /\ from = Place(term) /\ start = Place(term)
  /\ buf = [k \in 0..(BufSize - 1) |-> Unset] /\ i = 0
  /\ astray = 0

PrintText ==
  /\ at = "print"
  /\ term' = printk(term, arg, IntMax)
  /\ start' = Place(term')
  /\ at' = "printed"
  /\ UNCHANGED <<arg, from, buf, i, astray>>

readline ==
  /\ at = "printed"
  /\ at' = "readline"
  /\ UNCHANGED <<arg, term, from, start, buf, i, astray>>

\* A key other than return: putchar comes first.
ReadKey ==
  /\ at = "readline" /\ Room(i)
  /\ astray < MaxAstray
  /\ \E key \in Letters \cup {Erase} :
       /\ term' = terminal_writechar(term, key)
       /\ buf' = Stored(buf, i, key).buf /\ i' = Stored(buf, i, key).i
       /\ astray' = IF astray > 0 \/ (key = Erase /\ (term.col = 0 \/ i = 0)) THEN astray + 1 ELSE 0
  /\ UNCHANGED <<at, arg, from, start>>

\* Return, which is not echoed, or the buffer is full.
readline_returns ==
  /\ at = "readline"
  /\ buf' = Terminated(buf, i)
  /\ at' = "done"
  /\ UNCHANGED <<arg, term, from, start, i, astray>>

Next == PrintText \/ readline \/ ReadKey \/ readline_returns

Spec == Init /\ [][Next]_vars
-----------------------------------------------------------------------------
(* Properties *)

\* The number that a text of digits stands for, read from the left.
Value(text, base) ==
  LET digit(c) == (CHOOSE d \in 1..16 : Digits[d] = c) - 1
      upto[n \in 0..Len(text)] == IF n = 0 THEN 0 ELSE upto[n - 1] * base + digit(text[n])
  IN upto[Len(text)]

OnScreen == [n \in 1..(start - from) |-> term.video[from + n - 1]]
Spells(text, n, base) ==
  /\ text # <<>> /\ \A k \in DOMAIN text : text[k] \in {Digits[d] : d \in 1..base}
  /\ Value(text, base) = n
  /\ text[1] = "0" => Len(text) = 1

\* printk and printf show the number they are given: %d every number that an int can
\* have, the smallest one too, and %p every one but 0, of which it shows no digit.
NumberShown ==
  at = "printed" =>
    CASE arg.as = "d" /\ arg.value >= 0 -> Spells(OnScreen, arg.value, 10)
      [] arg.as = "d" /\ arg.value < 0  ->
           Len(OnScreen) > 1 /\ OnScreen[1] = "-" /\ Spells(Tail(OnScreen), -arg.value, 10)
      [] arg.as = "p" /\ arg.value > 0 ->
           SubSeq(OnScreen, 1, 2) = <<"0", "X">> /\ Spells(SubSeq(OnScreen, 3, Len(OnScreen)), arg.value, 16)
      [] OTHER -> TRUE

\* The echo and the buffer agree: the line stands on the screen as it is in the
\* buffer, over the ends of rows, with the cursor and nothing else behind it, until
\* a backspace finds the cursor in the first column or nothing to erase.
ScreenShowsLine ==
  at \in {"readline", "done"} /\ astray = 0 =>
    /\ Place(term) = start + i
    /\ \A k \in 0..(i - 1) : term.video[start + k] = buf[k]
    /\ \A p \in DOMAIN term.video : p >= start + i => term.video[p] = Blank

\* print and the echo write the cells of the screen only, when the text begins far
\* enough from its end and no backspace went astray.
StaysOnScreen ==
  astray = 0 /\ start + BufSize - 1 <= VGA_WIDTH * VGA_HEIGHT => DOMAIN term.video = Cells

\* What readline returns is a string in its buffer, and holds no character of an
\* earlier state of the line.
LineIsString ==
  at = "done" => /\ buf[i] = NUL
                 /\ \A k \in 0..(i - 1) : buf[k] \in Letters \cup {Erase}

\* All types, a string in the buffer, and nothing written behind the screen.
ConsoleInv == TypeOK /\ StaysOnScreen /\ LineIsString

\* readline implements the line editor.
Editor == INSTANCE LineEditor
  WITH Keys <- Letters \cup {Erase}, Backspace <- Erase, Longest <- BufSize - 1,
       line <- [k \in 1..i |-> buf[k - 1]], entered <- at = "done"
RefinesLineEditor == Editor!Spec
=============================================================================
