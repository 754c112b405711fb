------------------------------ MODULE Terminal ------------------------------
(***************************************************************************)
(* The text screen: the cursor of terminal_writechar over newline, wrap    *)
(* and backspace, and the numbers that printk and printf put on it.  A     *)
(* terminal is a record of terminal_row, terminal_col and video_mem.       *)
(***************************************************************************)
EXTENDS Integers, Sequences

CONSTANTS VGA_WIDTH, VGA_HEIGHT

UINT16 == 65536     \* the values of a uint16_t, which row and column are

\* A column fits in its 16 bits.
ASSUME ScreenAssumption == VGA_WIDTH \in 1..(UINT16 - 1) /\ VGA_HEIGHT \in Nat

NL == "newline"     \* '\n'
BS == "backspace"   \* 0x08
Blank == " "

Cells == 0..(VGA_WIDTH * VGA_HEIGHT - 1)

uint16(n) == n % UINT16

\* The row has no bound: behind the last one video_mem goes on.
terminal_putchar(t, x, y, c) ==
  LET cell == y * VGA_WIDTH + x
  IN [t EXCEPT !.video = [p \in DOMAIN t.video \cup {cell} |-> IF p = cell THEN c ELSE t.video[p]]]

\* Behind a character: one column on, or the start of the next row.
advance(t) ==
  IF uint16(t.col + 1) >= VGA_WIDTH THEN [t EXCEPT !.col = 0, !.row = uint16(@ + 1)]
  ELSE [t EXCEPT !.col = uint16(@ + 1)]

put(t, c) == advance(terminal_putchar(t, t.col, t.row, c))

\* mutant: the blank is written and the cursor stays behind it
backspace_stays(t) ==
  IF t.col = 0 /\ t.row = 0 THEN t
  ELSE put(IF t.col = 0 THEN [t EXCEPT !.row = @ - 1, !.col = VGA_WIDTH - 1]
           ELSE [t EXCEPT !.col = @ - 1], Blank)

\* Writing the blank wraps when it goes to the last column, and the column is
\* unsigned: from the first column the cursor goes to column 65535.
terminal_backspace(t) ==
  IF t.col = 0 /\ t.row = 0 THEN t
  ELSE LET back  == IF t.col = 0 THEN [t EXCEPT !.row = @ - 1, !.col = VGA_WIDTH - 1]
                    ELSE [t EXCEPT !.col = @ - 1]
       IN [put(back, Blank) EXCEPT !.col = uint16(@ - 1)]

terminal_writechar(t, c) ==
  CASE c = BS -> terminal_backspace(t)
    [] c = NL -> [t EXCEPT !.col = 0, !.row = uint16(@ + 1)]
    [] OTHER  -> put(t, c)

\* A string, character by character, the folding function of print.
print(t, text) ==
  LET after[n \in 0..Len(text)] ==
        IF n = 0 THEN t ELSE terminal_writechar(after[n - 1], text[n])
  IN after[Len(text)]

terminal_init == [row |-> 0, col |-> 0, video |-> [p \in Cells |-> Blank]]
-----------------------------------------------------------------------------
Digits == <<"0", "1", "2", "3", "4", "5", "6", "7", "8", "9", "A", "B", "C", "D", "E", "F">>
Digit(d) == IF d \in 0..15 THEN Digits[d + 1] ELSE "no digit"

\* mutant: positive numbers, which overflows for the smallest one
itoa_of_magnitude(i, IntMax) ==
  LET n     == IF i < 0 /\ -i <= IntMax THEN -i ELSE i
      rem(m) == IF m >= 0 THEN m % 10 ELSE -((-m) % 10)
      quo(m) == IF m >= 0 THEN m \div 10 ELSE -((-m) \div 10)
      text[m \in Int] == IF m = 0 THEN <<>> ELSE Append(text[quo(m)], Digit(rem(m)))
  IN (IF i < 0 THEN <<"-">> ELSE <<>>) \o (IF n = 0 THEN <<"0">> ELSE text[n])

\* itoa works on negative numbers, of which there is one more; the division is that
\* of C, toward 0.
itoa(i, IntMax) ==
  LET n == IF i >= 0 THEN -i ELSE i
      text[m \in (-IntMax - 1)..0] ==
        IF m = 0 THEN <<>> ELSE Append(text[-((-m) \div 10)], Digit((-m) % 10))
  IN (IF i < 0 THEN <<"-">> ELSE <<>>) \o (IF n = 0 THEN <<"0">> ELSE text[n])

\* decimal_to_hex: no digit for 0.
decimal_to_hex(n) ==
  LET text[m \in 0..n] == IF m = 0 THEN <<>> ELSE Append(text[m \div 16], Digit(m % 16))
  IN text[n]

\* The text of one conversion: %d, %p, %s and %c.
Shown(arg, IntMax) ==
  CASE arg.as = "d" -> itoa(arg.value, IntMax)
    [] arg.as = "p" -> <<"0", "X">> \o decimal_to_hex(arg.value)
    [] arg.as = "s" -> arg.value
    [] OTHER -> <<arg.value>>

\* printk and printf, one conversion.
printk(t, arg, IntMax) == print(t, Shown(arg, IntMax))
=============================================================================
