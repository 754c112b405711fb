---------------------------- MODULE ConsoleProofs ---------------------------
(***************************************************************************)
(* What the screen shows of a line and what the programs read of it, for   *)
(* every size of the screen and of the buffer and every number printed;    *)
(* and what the shell starts for a line that it splits with strtok.        *)
(***************************************************************************)
EXTENDS Console, Shell, FiniteSetTheorems, SequenceTheorems, WellFoundedInduction, TLAPS

-----------------------------------------------------------------------------
(* Numbers.                                                                *)

LEMMA Uint16Nat == UINT16 \in Nat /\ UINT16 >= 2
BY SMT DEF UINT16

LEMMA LeastExists ==
  ASSUME NEW S \in SUBSET Nat, S # {}
  PROVE  \E x \in S : \A y \in S : x <= y
<1>1. PICK x \in S : \A y \in S : ~ (<<y, x>> \in OpToRel(<, Nat))
  BY NatLessThanWellFounded, WFMin
<1>2. ASSUME NEW y \in S PROVE ~(y < x)
  BY <1>1 DEF OpToRel
<1> QED BY <1>2

LEMMA MulSucc == ASSUME NEW a \in Nat, NEW w \in Nat PROVE (a + 1) * w = a * w + w
OBVIOUS

LEMMA MulNat == ASSUME NEW a \in Nat, NEW w \in Nat PROVE a * w \in Nat
OBVIOUS

LEMMA MulMonotone ==
  ASSUME NEW a \in Nat, NEW b \in Nat, a <= b, NEW w \in Nat
  PROVE  a * w <= b * w
OBVIOUS

LEMMA Uint16Is ==
  ASSUME NEW n \in Int
  PROVE  /\ uint16(n) \in 0..(UINT16 - 1)
         /\ n \in 0..(UINT16 - 1) => uint16(n) = n
<1>1. PICK m \in Nat : m = UINT16 /\ m >= 2
  BY Uint16Nat
<1>2. n % m \in 0..(m - 1) /\ (n \in 0..(m - 1) => n % m = n)
  BY <1>1
<1> QED BY <1>1, <1>2 DEF uint16

LEMMA ConsoleConfig ==
  /\ VGA_WIDTH \in Nat /\ VGA_WIDTH >= 1 /\ VGA_WIDTH < UINT16
  /\ VGA_HEIGHT \in Nat
  /\ BufSize \in Nat /\ BufSize >= 1
  /\ IntMax \in Nat
  /\ Erase = BS /\ NL # BS /\ NUL # BS /\ NUL # NL /\ Unset # BS /\ Unset # NL /\ NUL # Unset
  /\ \A c \in Letters : c # Erase /\ c # BS /\ c # NL /\ c # NUL /\ c # Unset
<1>1. Erase = BS /\ NL # BS /\ NUL # BS /\ NUL # NL /\ Unset # BS /\ Unset # NL /\ NUL # Unset
  BY DEF Erase, BS, NL, NUL, Unset
<1>2. \A c \in Letters : c # Erase /\ c # BS /\ c # NL /\ c # NUL /\ c # Unset
  BY <1>1, ConsoleAssumption
<1>3. IntMax \in Nat /\ BufSize \in Nat /\ BufSize >= 1 /\ VGA_HEIGHT \in Nat
  BY ScreenAssumption, BufSizeAssumption, ConsoleAssumption
<1>4. VGA_WIDTH \in Nat /\ VGA_WIDTH >= 1 /\ VGA_WIDTH < UINT16
  <2>1. PICK m \in Nat : m = UINT16
    BY Uint16Nat
  <2>2. VGA_WIDTH \in 1..(m - 1)
    BY <2>1, ScreenAssumption
  <2> QED BY <2>1, <2>2
<1> QED BY <1>1, <1>2, <1>3, <1>4


\* A terminal, its row, column and cells.  Records with a function over any set
\* of cells in them are no set, so it is said field by field.
IsTerminal(t) ==
  /\ t = [row |-> t.row, col |-> t.col, video |-> t.video]
  /\ t.row \in 0..(UINT16 - 1) /\ t.col \in 0..(UINT16 - 1)
  /\ t.video = [p \in DOMAIN t.video |-> t.video[p]]

\* A character at the cursor, without anything said of where that is.
LEMMA PutIs ==
  ASSUME NEW t, IsTerminal(t), NEW c
  PROVE  /\ IsTerminal(put(t, c))
         /\ DOMAIN put(t, c).video = DOMAIN t.video \cup {Place(t)}
         /\ \A p \in DOMAIN t.video \cup {Place(t)} :
              put(t, c).video[p] = IF p = Place(t) THEN c ELSE t.video[p]
         /\ IF uint16(t.col + 1) >= VGA_WIDTH
            THEN put(t, c).col = 0 /\ put(t, c).row = uint16(t.row + 1)
            ELSE put(t, c).col = uint16(t.col + 1) /\ put(t, c).row = t.row
<1> DEFINE cell == Place(t)
           video == [p \in DOMAIN t.video \cup {cell} |-> IF p = cell THEN c ELSE t.video[p]]
           u == terminal_putchar(t, t.col, t.row, c)
<1>1. u = [row |-> t.row, col |-> t.col, video |-> video]
  <2>1. u = [t EXCEPT !.video = video]
    BY DEF terminal_putchar, Place
  <2> HIDE DEF u, video
  <2> QED BY <2>1 DEF IsTerminal
<1>2. /\ DOMAIN video = DOMAIN t.video \cup {cell}
      /\ \A p \in DOMAIN t.video \cup {cell} : video[p] = IF p = cell THEN c ELSE t.video[p]
      /\ video = [p \in DOMAIN video |-> video[p]]
  OBVIOUS
<1> HIDE DEF video, u, cell
<1>3. uint16(t.col + 1) \in 0..(UINT16 - 1) /\ uint16(t.row + 1) \in 0..(UINT16 - 1)
  BY Uint16Is, Uint16Nat DEF IsTerminal
<1>4. CASE uint16(t.col + 1) >= VGA_WIDTH
  <2>1. put(t, c) = [row |-> uint16(t.row + 1), col |-> 0, video |-> video]
    <3>1. put(t, c) = advance(u)
      BY DEF put, u
    <3>2. u.col = t.col /\ u.row = t.row /\ u.video = video
      BY <1>1
    <3>3. advance(u) = [u EXCEPT !.col = 0, !.row = uint16(u.row + 1)]
      BY <1>4, <3>2 DEF advance
    <3> QED BY <1>1, <3>1, <3>2, <3>3
  <2> QED BY <1>2, <1>3, <1>4, <2>1, Uint16Nat DEF IsTerminal, cell
<1>5. CASE ~(uint16(t.col + 1) >= VGA_WIDTH)
  <2>1. put(t, c) = [row |-> t.row, col |-> uint16(t.col + 1), video |-> video]
    <3>1. put(t, c) = advance(u)
      BY DEF put, u
    <3>2. u.col = t.col /\ u.row = t.row /\ u.video = video
      BY <1>1
    <3>3. advance(u) = [u EXCEPT !.col = uint16(u.col + 1)]
      BY <1>5, <3>2 DEF advance
    <3> QED BY <1>1, <3>1, <3>2, <3>3
  <2> QED BY <1>2, <1>3, <1>5, <2>1 DEF IsTerminal, cell
<1> QED BY <1>4, <1>5

\* Where the blank of a backspace goes.
Back(t) ==
  IF t.col = 0 THEN [row |-> t.row - 1, col |-> VGA_WIDTH - 1, video |-> t.video]
  ELSE [row |-> t.row, col |-> t.col - 1, video |-> t.video]

LEMMA BackspaceIs ==
  ASSUME NEW t, IsTerminal(t), ~(t.col = 0 /\ t.row = 0)
  PROVE  /\ IsTerminal(Back(t))
         /\ terminal_backspace(t) = [put(Back(t), Blank) EXCEPT !.col = uint16(put(Back(t), Blank).col - 1)]
<1>1. IsTerminal(Back(t))
  <2>1. CASE t.col = 0
    <3>1. Back(t) = [row |-> t.row - 1, col |-> VGA_WIDTH - 1, video |-> t.video]
      BY <2>1 DEF Back
    <3>2. t.row - 1 \in 0..(UINT16 - 1) /\ VGA_WIDTH - 1 \in 0..(UINT16 - 1)
      BY <2>1, ConsoleConfig, Uint16Nat DEF IsTerminal
    <3> QED BY <3>1, <3>2 DEF IsTerminal
  <2>2. CASE t.col # 0
    <3>1. Back(t) = [row |-> t.row, col |-> t.col - 1, video |-> t.video]
      BY <2>2 DEF Back
    <3>2. t.col - 1 \in 0..(UINT16 - 1)
      BY <2>2, Uint16Nat DEF IsTerminal
    <3> QED BY <3>1, <3>2 DEF IsTerminal
  <2> QED BY <2>1, <2>2
<1>2. Back(t) = IF t.col = 0 THEN [t EXCEPT !.row = t.row - 1, !.col = VGA_WIDTH - 1]
                ELSE [t EXCEPT !.col = t.col - 1]
  BY DEF Back, IsTerminal
<1> DEFINE b == IF t.col = 0 THEN [t EXCEPT !.row = t.row - 1, !.col = VGA_WIDTH - 1]
                ELSE [t EXCEPT !.col = t.col - 1]
<1>3. terminal_backspace(t) = [put(b, Blank) EXCEPT !.col = uint16(put(b, Blank).col - 1)]
  BY DEF terminal_backspace
<1>4. b = Back(t)
  BY <1>2
<1> HIDE DEF b
<1> QED BY <1>1, <1>3, <1>4

\* Whatever is written, the terminal stays one.
LEMMA WriteIsTerminal ==
  ASSUME NEW t, IsTerminal(t), NEW c
  PROVE  IsTerminal(terminal_writechar(t, c))
<1>1. CASE c = BS
  <2>1. terminal_writechar(t, c) = terminal_backspace(t)
    BY <1>1, ConsoleConfig DEF terminal_writechar
  <2>2. CASE t.col = 0 /\ t.row = 0
    BY <2>1, <2>2 DEF terminal_backspace
  <2>3. CASE ~(t.col = 0 /\ t.row = 0)
    <3> DEFINE u == put(Back(t), Blank)
    <3>1. IsTerminal(u)
      BY <2>3, BackspaceIs, PutIs
    <3>2. terminal_backspace(t) = [u EXCEPT !.col = uint16(u.col - 1)]
      BY <2>3, BackspaceIs
    <3> HIDE DEF u
    <3>3. uint16(u.col - 1) \in 0..(UINT16 - 1)
      BY <3>1, Uint16Is DEF IsTerminal
    <3>4. terminal_backspace(t) = [row |-> u.row, col |-> uint16(u.col - 1), video |-> u.video]
      BY <3>1, <3>2 DEF IsTerminal
    <3> QED BY <2>1, <3>1, <3>3, <3>4 DEF IsTerminal
  <2> QED BY <2>2, <2>3
<1>2. CASE c = NL
  <2>1. terminal_writechar(t, c) = [t EXCEPT !.col = 0, !.row = uint16(t.row + 1)]
    BY <1>2, ConsoleConfig DEF terminal_writechar
  <2>2. uint16(t.row + 1) \in 0..(UINT16 - 1)
    BY Uint16Is DEF IsTerminal
  <2>3. terminal_writechar(t, c) = [row |-> uint16(t.row + 1), col |-> 0, video |-> t.video]
    BY <2>1 DEF IsTerminal
  <2> QED BY <2>2, <2>3, Uint16Nat DEF IsTerminal
<1>3. CASE c # BS /\ c # NL
  <2>1. terminal_writechar(t, c) = put(t, c)
    BY <1>3 DEF terminal_writechar
  <2> QED BY <2>1, PutIs
<1> QED BY <1>1, <1>2, <1>3

-----------------------------------------------------------------------------
(* The places on the screen.                                               *)

LEMMA PlaceIs ==
  ASSUME NEW t, IsTerminal(t)
  PROVE  /\ t.row \in Nat /\ t.col \in Nat
         /\ t.row * VGA_WIDTH \in Nat
         /\ Place(t) = t.row * VGA_WIDTH + t.col
         /\ Place(t) \in Nat
<1>1. t.row \in Nat /\ t.col \in Nat
  BY Uint16Nat DEF IsTerminal
<1>2. t.row * VGA_WIDTH \in Nat
  BY <1>1, MulNat, ConsoleConfig
<1> QED BY <1>1, <1>2 DEF Place

\* A character moves the cursor to the next place, over the end of a row too, as
\* long as the rows are counted.
LEMMA PutMoves ==
  ASSUME NEW t, IsTerminal(t), t.col < VGA_WIDTH, t.row + 1 < UINT16, NEW c
  PROVE  /\ Place(put(t, c)) = Place(t) + 1
         /\ put(t, c).col < VGA_WIDTH
         /\ put(t, c).row <= t.row + 1
<1> DEFINE u == put(t, c)
<1>1. IsTerminal(u)
  BY PutIs
<1>2. IF uint16(t.col + 1) >= VGA_WIDTH
      THEN u.col = 0 /\ u.row = uint16(t.row + 1)
      ELSE u.col = uint16(t.col + 1) /\ u.row = t.row
  BY PutIs
<1> HIDE DEF u
<1>3. uint16(t.col + 1) = t.col + 1 /\ uint16(t.row + 1) = t.row + 1
  BY PlaceIs, Uint16Is, ConsoleConfig, Uint16Nat
<1>4. CASE t.col + 1 >= VGA_WIDTH
  <2>1. u.col = 0 /\ u.row = t.row + 1 /\ t.col + 1 = VGA_WIDTH
    BY <1>2, <1>3, <1>4, PlaceIs, ConsoleConfig
  <2>2. u.row * VGA_WIDTH = t.row * VGA_WIDTH + VGA_WIDTH
    BY <2>1, PlaceIs, MulSucc, ConsoleConfig
  <2> QED BY <2>1, <2>2, <1>1, PlaceIs, ConsoleConfig DEF u
<1>5. CASE ~(t.col + 1 >= VGA_WIDTH)
  <2>1. u.col = t.col + 1 /\ u.row = t.row
    BY <1>2, <1>3, <1>5
  <2> QED BY <2>1, <1>1, <1>5, PlaceIs, ConsoleConfig DEF u
<1> QED BY <1>4, <1>5

\* A screen on which nothing stands behind the cursor, in row r at the most.
Fresh(t, r) ==
  /\ IsTerminal(t)
  /\ t.col < VGA_WIDTH /\ t.row <= r
  /\ Cells \subseteq DOMAIN t.video
  /\ \A p \in DOMAIN t.video :
       /\ p \in Nat
       /\ p >= Place(t) => t.video[p] = Blank
       /\ p \in Cells \/ p < Place(t)

LEMMA WriteFresh ==
  ASSUME NEW t, NEW r \in Nat, Fresh(t, r), r + 1 < UINT16, NEW c, c # BS
  PROVE  Fresh(terminal_writechar(t, c), r + 1)
<1>1. IsTerminal(t) /\ t.col < VGA_WIDTH /\ t.row <= r /\ t.row + 1 < UINT16
  BY PlaceIs, Uint16Nat DEF Fresh
<1>2. CASE c = NL
  <2> DEFINE u == terminal_writechar(t, c)
  <2>1. u = [t EXCEPT !.col = 0, !.row = uint16(t.row + 1)]
    BY <1>2, ConsoleConfig DEF terminal_writechar
  <2>2. uint16(t.row + 1) = t.row + 1
    BY <1>1, PlaceIs, Uint16Is, Uint16Nat
  <2>3. IsTerminal(u)
    BY <1>1, WriteIsTerminal
  <2> HIDE DEF u
  <2>4. u.row = t.row + 1 /\ u.col = 0 /\ u.video = t.video
    BY <1>1, <2>1, <2>2 DEF IsTerminal
  <2>5. u.row * VGA_WIDTH = t.row * VGA_WIDTH + VGA_WIDTH
    BY <1>1, <2>4, PlaceIs, MulSucc, ConsoleConfig
  <2>6. Place(u) >= Place(t)
    BY <1>1, <2>3, <2>4, <2>5, PlaceIs, ConsoleConfig
  <2>7. u.col < VGA_WIDTH /\ u.row <= r + 1
    BY <1>1, <2>4, PlaceIs, ConsoleConfig
  <2>8. ASSUME NEW p \in DOMAIN u.video
        PROVE  /\ p \in Nat
               /\ p >= Place(u) => u.video[p] = Blank
               /\ p \in Cells \/ p < Place(u)
    <3>1. p \in Nat /\ (p >= Place(t) => t.video[p] = Blank) /\ (p \in Cells \/ p < Place(t))
      BY <2>4 DEF Fresh
    <3> QED BY <1>1, <2>3, <2>4, <2>6, <3>1, PlaceIs
  <2>9. Cells \subseteq DOMAIN u.video
    BY <2>4 DEF Fresh
  <2> QED BY <2>3, <2>7, <2>8, <2>9 DEF Fresh, u
<1>3. CASE c # NL
  <2> DEFINE u == put(t, c)
  <2>1. terminal_writechar(t, c) = u
    BY <1>3 DEF terminal_writechar
  <2>2. IsTerminal(u) /\ DOMAIN u.video = DOMAIN t.video \cup {Place(t)}
    BY <1>1, PutIs
  <2>3. \A p \in DOMAIN t.video \cup {Place(t)} :
          u.video[p] = IF p = Place(t) THEN c ELSE t.video[p]
    BY <1>1, PutIs
  <2>4. Place(u) = Place(t) + 1 /\ u.col < VGA_WIDTH /\ u.row <= t.row + 1
    BY <1>1, PutMoves
  <2> HIDE DEF u
  <2>5. u.row <= r + 1
    BY <1>1, <2>2, <2>4, PlaceIs
  <2>6. ASSUME NEW p \in DOMAIN u.video
        PROVE  /\ p \in Nat
               /\ p >= Place(u) => u.video[p] = Blank
               /\ p \in Cells \/ p < Place(u)
    <3>1. Place(t) \in Nat
      BY <1>1, PlaceIs
    <3>2. CASE p = Place(t)
      BY <2>4, <3>1, <3>2
    <3>3. CASE p # Place(t)
      <4>1. p \in DOMAIN t.video /\ u.video[p] = t.video[p]
        BY <2>2, <2>3, <3>3
      <4>2. p \in Nat /\ (p >= Place(t) => t.video[p] = Blank) /\ (p \in Cells \/ p < Place(t))
        BY <4>1 DEF Fresh
      <4> QED BY <2>4, <3>1, <4>1, <4>2
    <3> QED BY <3>2, <3>3
  <2>7. Cells \subseteq DOMAIN u.video
    BY <2>2 DEF Fresh
  <2> QED BY <2>1, <2>2, <2>4, <2>5, <2>6, <2>7 DEF Fresh
<1> QED BY <1>2, <1>3

-----------------------------------------------------------------------------
(* Texts.                                                                  *)

\* f is the function of print as far as m.
Printed(f, t, text, m) ==
  f = [n \in 0..m |-> IF n = 0 THEN t ELSE terminal_writechar(f[n - 1], text[n])]

LEMMA PrintedExists ==
  ASSUME NEW t, NEW text, NEW m \in Nat
  PROVE  \E f : Printed(f, t, text, m)
<1> DEFINE S == {n \in Nat : ~ \E f : Printed(f, t, text, n)}
<1>1. SUFFICES ASSUME S # {} PROVE FALSE
  OBVIOUS
<1>2. PICK n \in S : \A y \in S : n <= y
  <2> HIDE DEF S
  <2>1. S \in SUBSET Nat
    BY DEF S
  <2> QED BY <1>1, <2>1, LeastExists
<1>3. n \in Nat /\ ~ \E f : Printed(f, t, text, n)
  OBVIOUS
<1>4. n # 0
  <2> SUFFICES ASSUME n = 0 PROVE FALSE
    OBVIOUS
  <2> DEFINE f == [k \in 0..0 |-> t]
  <2>1. f = [k \in 0..0 |-> IF k = 0 THEN t ELSE terminal_writechar(f[k - 1], text[k])]
    OBVIOUS
  <2> HIDE DEF f
  <2>2. Printed(f, t, text, 0)
    BY <2>1 DEF Printed
  <2> QED BY <2>2, <1>3
<1>5. n - 1 \in Nat /\ n - 1 \notin S
  BY <1>2, <1>3, <1>4
<1>6. PICK g : Printed(g, t, text, n - 1)
  BY <1>5
<1> DEFINE f == [k \in 0..n |-> IF k = n THEN terminal_writechar(g[n - 1], text[n]) ELSE g[k]]
<1>7. ASSUME NEW k \in 0..n
      PROVE  f[k] = IF k = 0 THEN t ELSE terminal_writechar(f[k - 1], text[k])
  <2>1. CASE k = n
    <3>1. f[k] = terminal_writechar(g[n - 1], text[n]) /\ f[n - 1] = g[n - 1]
      BY <2>1, <1>3, <1>4
    <3> QED BY <2>1, <3>1, <1>4
  <2>2. CASE k # n
    <3>1. k \in 0..(n - 1) /\ f[k] = g[k] /\ (k # 0 => f[k - 1] = g[k - 1])
      BY <2>2, <1>3
    <3>2. g[k] = IF k = 0 THEN t ELSE terminal_writechar(g[k - 1], text[k])
      BY <3>1, <1>6 DEF Printed
    <3> QED BY <3>1, <3>2
  <2> QED BY <2>1, <2>2
<1>8. f = [k \in 0..n |-> f[k]]
  OBVIOUS
<1> HIDE DEF f
<1>9. Printed(f, t, text, n)
  BY <1>7, <1>8 DEF Printed
<1> QED BY <1>3, <1>9

LEMMA PrintIs ==
  ASSUME NEW t, NEW text, Len(text) \in Nat
  PROVE  \E f : Printed(f, t, text, Len(text)) /\ print(t, text) = f[Len(text)]
<1> DEFINE f == CHOOSE f : Printed(f, t, text, Len(text))
<1>1. \E g : Printed(g, t, text, Len(text))
  BY PrintedExists
<1>2. Printed(f, t, text, Len(text))
  BY <1>1
<1>3. print(t, text) = f[Len(text)]
  BY DEF print, Printed
<1> QED BY <1>2, <1>3

\* A text, however long, leaves nothing behind the cursor.
LEMMA PrintFresh ==
  ASSUME NEW t, NEW r \in Nat, Fresh(t, r), NEW text, Len(text) \in Nat,
         r + Len(text) < UINT16, \A n \in 1..Len(text) : text[n] # BS
  PROVE  Fresh(print(t, text), r + Len(text))
<1>1. PICK f : Printed(f, t, text, Len(text)) /\ print(t, text) = f[Len(text)]
  BY PrintIs
<1>2. PICK m \in Nat : m = Len(text)
  OBVIOUS
<1> DEFINE S == {n \in 0..m : ~Fresh(f[n], r + n)}
<1>3. SUFFICES S = {}
  BY <1>1, <1>2
<1>4. SUFFICES ASSUME S # {} PROVE FALSE
  OBVIOUS
<1>5. PICK n \in S : \A y \in S : n <= y
  <2>1. S \in SUBSET Nat
    OBVIOUS
  <2> HIDE DEF S
  <2> QED BY <1>4, <2>1, LeastExists
<1>6. n \in 0..m /\ ~Fresh(f[n], r + n)
  OBVIOUS
<1>7. f[n] = IF n = 0 THEN t ELSE terminal_writechar(f[n - 1], text[n])
  BY <1>1, <1>2, <1>6 DEF Printed
<1>8. n # 0
  <2> SUFFICES ASSUME n = 0 PROVE FALSE
    OBVIOUS
  <2>1. f[n] = t /\ r + n = r
    BY <1>7
  <2> QED BY <2>1, <1>6
<1>9. n - 1 \in 0..m /\ n - 1 \notin S
  BY <1>5, <1>6, <1>8
<1>10. Fresh(f[n - 1], r + (n - 1))
  BY <1>9
<1>11. r + (n - 1) \in Nat /\ (r + (n - 1)) + 1 < UINT16 /\ (r + (n - 1)) + 1 = r + n
  BY <1>2, <1>6, <1>8, Uint16Nat
<1>12. text[n] # BS
  BY <1>2, <1>6, <1>8
<1>13. Fresh(terminal_writechar(f[n - 1], text[n]), (r + (n - 1)) + 1)
  BY <1>10, <1>11, <1>12, WriteFresh
<1> QED BY <1>6, <1>7, <1>8, <1>11, <1>13

\* The digits of a number, at the end of those of a number prev[m] of a smaller size.
DigitsOf(f, D, size, prev, digit) ==
  f = [m \in D |-> IF size[m] = 0 THEN <<>> ELSE Append(f[prev[m]], digit[m])]

LEMMA DigitsTyped ==
  ASSUME NEW D, NEW G, NEW size \in [D -> Nat], NEW prev \in [D -> D], NEW digit \in [D -> G],
         \A m \in D : size[m] # 0 => size[prev[m]] < size[m],
         NEW f, DigitsOf(f, D, size, prev, digit)
  PROVE  \A m \in D : f[m] \in Seq(G)
<1> DEFINE S == {n \in Nat : \E m \in D : size[m] = n /\ f[m] \notin Seq(G)}
<1>1. SUFFICES ASSUME S # {} PROVE FALSE
  OBVIOUS
<1>2. PICK n \in S : \A y \in S : n <= y
  <2>1. S \in SUBSET Nat
    OBVIOUS
  <2> HIDE DEF S
  <2> QED BY <1>1, <2>1, LeastExists
<1>3. PICK m \in D : size[m] = n /\ f[m] \notin Seq(G)
  BY <1>2
<1>4. f[m] = IF size[m] = 0 THEN <<>> ELSE Append(f[prev[m]], digit[m])
  BY DEF DigitsOf
<1>5. size[m] # 0
  <2> SUFFICES ASSUME size[m] = 0 PROVE FALSE
    OBVIOUS
  <2>1. <<>> \in Seq(G)
    OBVIOUS
  <2> QED BY <2>1, <1>3, <1>4
<1>6. prev[m] \in D /\ size[prev[m]] \in Nat /\ size[prev[m]] < n
  BY <1>3, <1>5
<1>7. size[prev[m]] \notin S
  BY <1>2, <1>3, <1>6
<1>8. f[prev[m]] \in Seq(G)
  BY <1>6, <1>7
<1>9. Append(f[prev[m]], digit[m]) \in Seq(G)
  BY <1>8
<1> QED BY <1>3, <1>4, <1>5, <1>9

\* The digits of the numbers of size at most n.
Below(D, size, n) == {m \in D : size[m] <= n}

LEMMA DigitsExist ==
  ASSUME NEW D, NEW N \in Nat, NEW size \in [D -> 0..N], NEW prev \in [D -> D], NEW digit,
         \A m \in D : size[m] # 0 => size[prev[m]] < size[m]
  PROVE  \E f : DigitsOf(f, D, size, prev, digit)
<1> DEFINE Good(n) == \E f : DigitsOf(f, Below(D, size, n), size, prev, digit)
           S == {n \in Nat : ~Good(n)}
<1>1. Below(D, size, N) = D
  BY DEF Below
<1>2. SUFFICES N \notin S
  <2>1. ASSUME N \notin S PROVE Good(N)
    BY <2>1
  <2> QED BY <2>1, <1>1
<1>3. SUFFICES ASSUME S # {} PROVE FALSE
  OBVIOUS
<1>4. PICK n \in S : \A y \in S : n <= y
  <2>1. S \in SUBSET Nat
    OBVIOUS
  <2> HIDE DEF S
  <2> QED BY <1>3, <2>1, LeastExists
<1>5. n \in Nat /\ ~Good(n)
  OBVIOUS
<1>6. n # 0
  <2> SUFFICES ASSUME n = 0 PROVE FALSE
    OBVIOUS
  <2> DEFINE f == [m \in Below(D, size, 0) |-> <<>>]
  <2>1. ASSUME NEW m \in Below(D, size, 0) PROVE size[m] = 0
    BY <2>1 DEF Below
  <2>2. f = [m \in Below(D, size, 0) |-> IF size[m] = 0 THEN <<>> ELSE Append(f[prev[m]], digit[m])]
    BY <2>1
  <2> HIDE DEF f
  <2>3. DigitsOf(f, Below(D, size, 0), size, prev, digit)
    BY <2>2 DEF DigitsOf
  <2> QED BY <2>3, <1>5
<1>7. n - 1 \in Nat /\ n - 1 \notin S
  BY <1>4, <1>5, <1>6
<1>8. PICK g : DigitsOf(g, Below(D, size, n - 1), size, prev, digit)
  BY <1>7
<1> DEFINE B == Below(D, size, n)
           f == [m \in B |-> IF size[m] = 0 THEN <<>> ELSE Append(g[prev[m]], digit[m])]
<1>9. ASSUME NEW m \in B, size[m] # 0
      PROVE  prev[m] \in Below(D, size, n - 1) /\ prev[m] \in B
  <2>1. m \in D /\ prev[m] \in D /\ size[m] \in Nat /\ size[m] <= n /\ size[prev[m]] \in Nat
    BY <1>9 DEF Below
  <2>2. size[prev[m]] < size[m]
    BY <1>9, <2>1
  <2> QED BY <1>5, <2>1, <2>2 DEF Below
<1>10. ASSUME NEW m \in Below(D, size, n - 1) PROVE m \in B /\ f[m] = g[m]
  <2>1. m \in B
    BY <1>5, <1>10 DEF Below
  <2>2. g[m] = IF size[m] = 0 THEN <<>> ELSE Append(g[prev[m]], digit[m])
    BY <1>8 DEF DigitsOf
  <2> QED BY <2>1, <2>2
<1>11. ASSUME NEW m \in B
       PROVE  f[m] = IF size[m] = 0 THEN <<>> ELSE Append(f[prev[m]], digit[m])
  <2>1. CASE size[m] = 0
    BY <2>1
  <2>2. CASE size[m] # 0
    <3>1. f[prev[m]] = g[prev[m]]
      BY <2>2, <1>9, <1>10
    <3>2. f[m] = Append(g[prev[m]], digit[m])
      BY <2>2
    <3> HIDE DEF f
    <3> QED BY <2>2, <3>1, <3>2
  <2> QED BY <2>1, <2>2
<1>12. f = [m \in B |-> f[m]]
  OBVIOUS
<1> HIDE DEF f, B
<1>13. f = [m \in B |-> IF size[m] = 0 THEN <<>> ELSE Append(f[prev[m]], digit[m])]
  BY <1>11, <1>12
<1>14. Good(n)
  BY <1>13 DEF DigitsOf, B
<1> QED BY <1>5, <1>14

-----------------------------------------------------------------------------
(* What a text of digits stands for.                                       *)

DigitValue(c) == (CHOOSE d \in 1..16 : Digits[d] = c) - 1

LEMMA DigitsDiffer ==
  ASSUME NEW d \in 0..15
  PROVE  /\ Digit(d) = Digits[d + 1] /\ d + 1 \in 1..16
         /\ DigitValue(Digit(d)) = d
         /\ d # 0 => Digit(d) # "0"
<1>1. Digit(d) = Digits[d + 1]
  BY Zenon DEF Digit
<1>2. d + 1 \in 1..16
  OBVIOUS
<1>3. \A e \in 1..16 : Digits[e] = Digits[d + 1] => e = d + 1
  BY DEF Digits
<1>4. Digits[1] = "0"
  BY DEF Digits
<1> DEFINE e == CHOOSE e \in 1..16 : Digits[e] = Digit(d)
<1>5. e \in 1..16 /\ Digits[e] = Digit(d)
  BY <1>1, <1>2
<1>6. DigitValue(Digit(d)) = e - 1
  BY DEF DigitValue
<1> HIDE DEF e
<1>7. e = d + 1
  BY <1>1, <1>3, <1>5
<1>8. d # 0 => Digit(d) # "0"
  <2>1. 1 \in 1..16
    OBVIOUS
  <2> QED BY <1>1, <1>3, <1>4, <2>1
<1> QED BY <1>1, <1>2, <1>6, <1>7, <1>8

\* g is the function of Value as far as m.
Valued(g, text, base, m) ==
  g = [n \in 0..m |-> IF n = 0 THEN 0 ELSE g[n - 1] * base + DigitValue(text[n])]

LEMMA ValuedExists ==
  ASSUME NEW text, NEW base, NEW m \in Nat
  PROVE  \E g : Valued(g, text, base, m)
<1> DEFINE S == {n \in Nat : ~ \E g : Valued(g, text, base, n)}
<1>1. SUFFICES ASSUME S # {} PROVE FALSE
  OBVIOUS
<1>2. PICK n \in S : \A y \in S : n <= y
  <2> HIDE DEF S
  <2>1. S \in SUBSET Nat
    BY DEF S
  <2> QED BY <1>1, <2>1, LeastExists
<1>3. n \in Nat /\ ~ \E g : Valued(g, text, base, n)
  OBVIOUS
<1>4. n # 0
  <2> SUFFICES ASSUME n = 0 PROVE FALSE
    OBVIOUS
  <2> DEFINE f == [k \in 0..0 |-> 0]
  <2>1. f = [k \in 0..0 |-> IF k = 0 THEN 0 ELSE f[k - 1] * base + DigitValue(text[k])]
    OBVIOUS
  <2> HIDE DEF f
  <2>2. Valued(f, text, base, 0)
    BY <2>1 DEF Valued
  <2> QED BY <2>2, <1>3
<1>5. n - 1 \in Nat /\ n - 1 \notin S
  BY <1>2, <1>3, <1>4
<1>6. PICK g : Valued(g, text, base, n - 1)
  BY <1>5
<1> DEFINE last == g[n - 1] * base + DigitValue(text[n])
           f == [k \in 0..n |-> IF k = n THEN last ELSE g[k]]
<1>7. ASSUME NEW k \in 0..n
      PROVE  f[k] = IF k = 0 THEN 0 ELSE f[k - 1] * base + DigitValue(text[k])
  <2> HIDE DEF last
  <2>1. CASE k = n
    <3>1. f[k] = last /\ f[n - 1] = g[n - 1]
      BY <2>1, <1>3, <1>4
    <3> QED BY <2>1, <3>1, <1>4 DEF last
  <2>2. CASE k # n
    <3>1. k \in 0..(n - 1) /\ f[k] = g[k] /\ (k # 0 => f[k - 1] = g[k - 1])
      BY <2>2, <1>3
    <3>2. g[k] = IF k = 0 THEN 0 ELSE g[k - 1] * base + DigitValue(text[k])
      BY <3>1, <1>6 DEF Valued
    <3> QED BY <3>1, <3>2
  <2> QED BY <2>1, <2>2
<1>8. f = [k \in 0..n |-> f[k]]
  OBVIOUS
<1> HIDE DEF f
<1>9. Valued(f, text, base, n)
  BY <1>7, <1>8 DEF Valued
<1> QED BY <1>3, <1>9

LEMMA ValueIs ==
  ASSUME NEW text, NEW base, Len(text) \in Nat
  PROVE  \E g : Valued(g, text, base, Len(text)) /\ Value(text, base) = g[Len(text)]
<1> DEFINE g == CHOOSE g : Valued(g, text, base, Len(text))
<1>1. \E h : Valued(h, text, base, Len(text))
  BY ValuedExists
<1>2. Valued(g, text, base, Len(text))
  BY <1>1
<1>3. Value(text, base) = g[Len(text)]
  BY DEF Value, Valued, DigitValue
<1> QED BY <1>2, <1>3

LEMMA ValueOfEmpty == ASSUME NEW base PROVE Value(<<>>, base) = 0
<1>1. Len(<<>>) = 0
  OBVIOUS
<1>2. PICK g : Valued(g, <<>>, base, Len(<<>>)) /\ Value(<<>>, base) = g[Len(<<>>)]
  BY <1>1, ValueIs
<1> QED BY <1>1, <1>2 DEF Valued

LEMMA ValueOfAppend ==
  ASSUME NEW S, NEW s \in Seq(S), NEW c \in S, NEW base
  PROVE  Value(Append(s, c), base) = Value(s, base) * base + DigitValue(c)
<1> DEFINE u == Append(s, c)
<1>1. PICK m \in Nat : m = Len(s)
  OBVIOUS
<1>2. Len(u) = m + 1 /\ u[m + 1] = c /\ \A k \in 1..m : u[k] = s[k]
  BY <1>1
<1>3. PICK g : Valued(g, s, base, m) /\ Value(s, base) = g[m]
  BY <1>1, ValueIs
<1>4. PICK h : Valued(h, u, base, m + 1) /\ Value(u, base) = h[m + 1]
  <2> HIDE DEF u
  <2> QED BY <1>2, ValueIs
<1> HIDE DEF u
<1> DEFINE Apart == {n \in 0..m : h[n] # g[n]}
<1>5. Apart = {}
  <2>1. SUFFICES ASSUME Apart # {} PROVE FALSE
    OBVIOUS
  <2>2. PICK n \in Apart : \A y \in Apart : n <= y
    <3>1. Apart \in SUBSET Nat
      OBVIOUS
    <3> HIDE DEF Apart
    <3> QED BY <2>1, <3>1, LeastExists
  <2>3. n \in 0..m /\ h[n] # g[n]
    OBVIOUS
  <2>4. h[n] = IF n = 0 THEN 0 ELSE h[n - 1] * base + DigitValue(u[n])
    BY <1>4, <2>3 DEF Valued
  <2>5. g[n] = IF n = 0 THEN 0 ELSE g[n - 1] * base + DigitValue(s[n])
    BY <1>3, <2>3 DEF Valued
  <2>6. n # 0
    BY <2>3, <2>4, <2>5
  <2>7. n - 1 \in 0..m /\ n - 1 \notin Apart
    BY <2>2, <2>3, <2>6
  <2>8. h[n - 1] = g[n - 1]
    BY <2>7
  <2>9. u[n] = s[n]
    BY <1>2, <2>3, <2>6
  <2> QED BY <2>3, <2>4, <2>5, <2>6, <2>8, <2>9
<1>6. h[m] = g[m]
  BY <1>5
<1>7. h[m + 1] = h[m] * base + DigitValue(u[m + 1])
  BY <1>4 DEF Valued
<1> QED BY <1>2, <1>3, <1>4, <1>6, <1>7 DEF u

\* The digits of a base.
DigitSet(base) == {Digits[d] : d \in 1..base}

LEMMA DigitInSet ==
  ASSUME NEW base \in 2..16, NEW d \in 0..(base - 1)
  PROVE  d \in 0..15 /\ Digit(d) \in DigitSet(base)
<1>1. d \in 0..15 /\ d + 1 \in 1..base
  OBVIOUS
<1>2. Digit(d) = Digits[d + 1]
  BY <1>1, DigitsDiffer
<1> QED BY <1>1, <1>2 DEF DigitSet

LEMMA NotEmpty == ASSUME NEW s, Len(s) # 0 PROVE s # <<>>
<1>1. Len(<<>>) = 0
  OBVIOUS
<1> QED BY <1>1, Zenon

\* When every number is that of its digits but the last, times the base, plus the last,
\* its digits spell it.
LEMMA DigitsSpell ==
  ASSUME NEW base \in 2..16, NEW D, NEW size \in [D -> Nat], NEW prev \in [D -> D],
         NEW val \in [D -> 0..(base - 1)], NEW digit \in [D -> DigitSet(base)],
         \A m \in D : digit[m] = Digit(val[m]),
         \A m \in D : size[m] # 0 => size[prev[m]] < size[m] /\ size[m] = size[prev[m]] * base + val[m],
         NEW f, DigitsOf(f, D, size, prev, digit)
  PROVE  \A m \in D : /\ f[m] \in Seq(DigitSet(base))
                      /\ size[m] # 0 => Spells(f[m], size[m], base)
<1>0. ASSUME NEW m \in D
      PROVE  /\ val[m] \in Nat /\ digit[m] \in DigitSet(base)
             /\ DigitValue(digit[m]) = val[m]
             /\ val[m] # 0 => digit[m] # "0"
  <2>1. PICK v \in 0..(base - 1) : v = val[m]
    BY <1>0
  <2>2. v \in 0..15
    BY DigitInSet
  <2>3. DigitValue(Digit(v)) = v /\ (v # 0 => Digit(v) # "0")
    BY <2>2, DigitsDiffer
  <2>4. digit[m] = Digit(v) /\ digit[m] \in DigitSet(base)
    BY <1>0, <2>1
  <2> QED BY <2>1, <2>2, <2>3, <2>4
<1>1. \A m \in D : f[m] \in Seq(DigitSet(base))
  BY DigitsTyped
<1>2. \A m \in D : f[m] = IF size[m] = 0 THEN <<>> ELSE Append(f[prev[m]], digit[m])
  BY DEF DigitsOf
<1>3. \A m \in D : Value(f[m], base) = size[m]
  <2> DEFINE S == {n \in Nat : \E m \in D : size[m] = n /\ Value(f[m], base) # size[m]}
  <2>1. SUFFICES ASSUME S # {} PROVE FALSE
    OBVIOUS
  <2>2. PICK n \in S : \A y \in S : n <= y
    <3>1. S \in SUBSET Nat
      OBVIOUS
    <3> HIDE DEF S
    <3> QED BY <2>1, <3>1, LeastExists
  <2>3. PICK m \in D : size[m] = n /\ Value(f[m], base) # size[m]
    BY <2>2
  <2>4. CASE size[m] = 0
    <3>1. f[m] = <<>>
      BY <1>2, <2>4
    <3> QED BY <2>3, <2>4, <3>1, ValueOfEmpty
  <2>5. CASE size[m] # 0
    <3>1. prev[m] \in D /\ size[prev[m]] \in Nat /\ size[prev[m]] < n
      BY <2>3, <2>5
    <3>2. size[prev[m]] \notin S
      BY <2>2, <2>3, <3>1
    <3>3. Value(f[prev[m]], base) = size[prev[m]]
      BY <3>1, <3>2
    <3>4. f[m] = Append(f[prev[m]], digit[m])
      BY <1>2, <2>5
    <3>5. f[prev[m]] \in Seq(DigitSet(base)) /\ digit[m] \in DigitSet(base)
      BY <1>1, <3>1
    <3>6. Value(f[m], base) = Value(f[prev[m]], base) * base + DigitValue(digit[m])
      BY <3>4, <3>5, ValueOfAppend
    <3>7. DigitValue(digit[m]) = val[m]
      BY <1>0
    <3>8. size[m] = size[prev[m]] * base + val[m]
      BY <2>5
    <3>9. Value(f[m], base) = size[prev[m]] * base + val[m]
      BY <3>3, <3>6, <3>7
    <3> QED BY <2>3, <3>8, <3>9
  <2> QED BY <2>4, <2>5
<1>4. ASSUME NEW m \in D, size[m] # 0 PROVE f[m] # <<>>
  <2>1. f[m] = Append(f[prev[m]], digit[m]) /\ f[prev[m]] \in Seq(DigitSet(base))
    BY <1>1, <1>2, <1>4
  <2>2. PICK s \in Seq(DigitSet(base)) : s = f[prev[m]]
    BY <2>1
  <2>3. digit[m] \in DigitSet(base)
    BY <1>0
  <2>4. Append(s, digit[m]) # <<>>
    <3>1. Len(Append(s, digit[m])) # 0
      BY <2>3
    <3> QED BY <3>1, NotEmpty, Zenon
  <2> QED BY <2>1, <2>2, <2>4
<1>5. \A m \in D : size[m] # 0 => f[m][1] # "0"
  <2> DEFINE S == {n \in Nat : \E m \in D : size[m] = n /\ size[m] # 0 /\ f[m][1] = "0"}
  <2>1. SUFFICES ASSUME S # {} PROVE FALSE
    OBVIOUS
  <2>2. PICK n \in S : \A y \in S : n <= y
    <3>1. S \in SUBSET Nat
      OBVIOUS
    <3> HIDE DEF S
    <3> QED BY <2>1, <3>1, LeastExists
  <2>3. PICK m \in D : size[m] = n /\ size[m] # 0 /\ f[m][1] = "0"
    BY <2>2
  <2>4. prev[m] \in D /\ size[prev[m]] \in Nat /\ size[prev[m]] < n
    BY <2>3
  <2>5. f[m] = Append(f[prev[m]], digit[m]) /\ f[prev[m]] \in Seq(DigitSet(base))
    BY <1>1, <1>2, <2>3, <2>4
  <2>6. CASE size[prev[m]] = 0
    <3>1. f[prev[m]] = <<>>
      BY <1>2, <2>4, <2>6
    <3>2. f[m][1] = digit[m]
      <4>1. f[m] = Append(<<>>, digit[m])
        BY <2>5, <3>1
      <4>2. digit[m] \in DigitSet(base)
        BY <1>0
      <4>3. Append(<<>>, digit[m])[1] = digit[m]
        BY <4>2
      <4> QED BY <4>1, <4>3
    <3>3. val[m] # 0
      <4>1. size[m] = size[prev[m]] * base + val[m] /\ val[m] \in Nat
        BY <1>0, <2>3
      <4>2. 0 * base = 0
        OBVIOUS
      <4> QED BY <2>3, <2>6, <4>1, <4>2
    <3>4. digit[m] # "0"
      BY <1>0, <3>3
    <3> QED BY <2>3, <3>2, <3>4
  <2>7. CASE size[prev[m]] # 0
    <3>1. f[prev[m]] # <<>>
      BY <1>4, <2>4, <2>7
    <3>2. f[m][1] = f[prev[m]][1]
      BY <2>5, <3>1
    <3>3. size[prev[m]] \in S
      BY <2>3, <2>4, <2>7, <3>2
    <3> QED BY <2>2, <2>3, <2>4, <3>3
  <2> QED BY <2>6, <2>7
<1>6. ASSUME NEW m \in D, size[m] # 0 PROVE Spells(f[m], size[m], base)
  <2>1. \A k \in DOMAIN f[m] : f[m][k] \in DigitSet(base)
    BY <1>1
  <2> QED BY <1>3, <1>4, <1>5, <1>6, <2>1 DEF Spells, DigitSet
<1> QED BY <1>1, <1>6

LEMMA ZeroSpelled == Spells(<<"0">>, 0, 10) /\ <<"0">> \in Seq(DigitSet(10))
<1>1. Digit(0) = "0"
  <2>1. Digit(0) = Digits[0 + 1]
    BY DigitsDiffer
  <2> QED BY <2>1 DEF Digits
<1>2. "0" \in DigitSet(10) /\ DigitValue("0") = 0
  BY <1>1, DigitInSet, DigitsDiffer
<1>3. Value(Append(<<>>, "0"), 10) = Value(<<>>, 10) * 10 + DigitValue("0")
  <2>1. <<>> \in Seq(DigitSet(10))
    OBVIOUS
  <2> QED BY <1>2, <2>1, ValueOfAppend
<1>4. Append(<<>>, "0") = <<"0">>
  OBVIOUS
<1>5. Value(<<"0">>, 10) = 0
  BY <1>2, <1>3, <1>4, ValueOfEmpty
<1> QED BY <1>2, <1>5 DEF Spells, DigitSet

-----------------------------------------------------------------------------
(* What is shown.                                                          *)

\* The characters that numbers are made of.
Glyphs == {Digit(d) : d \in Int} \cup {"-", "0", "X"}

LEMMA DigitStaysInLine == ASSUME NEW d \in Int PROVE Digit(d) # BS /\ Digit(d) # NL
<1>1. CASE d \in 0..15
  <2>1. Digit(d) = Digits[d + 1]
    BY <1>1, Zenon DEF Digit
  <2>2. d + 1 \in 1..16
    BY <1>1
  <2>3. \A k \in 1..16 : Digits[k] # "backspace" /\ Digits[k] # "newline"
    BY DEF Digits
  <2> QED BY <2>1, <2>2, <2>3 DEF BS, NL
<1>2. CASE d \notin 0..15
  BY <1>2 DEF Digit, BS, NL
<1> QED BY <1>1, <1>2

LEMMA GlyphsStayInLine == BS \notin Glyphs /\ NL \notin Glyphs
BY DigitStaysInLine DEF Glyphs, BS, NL

LEMMA TextOfGlyphs ==
  ASSUME NEW text \in Seq(Glyphs)
  PROVE  Len(text) \in Nat /\ \A n \in 1..Len(text) : text[n] # BS /\ text[n] # NL
BY GlyphsStayInLine

LEMMA DigitSetIsGlyphs ==
  ASSUME NEW base \in 2..16
  PROVE  DigitSet(base) \subseteq Glyphs
<1> SUFFICES ASSUME NEW d \in 1..base PROVE Digits[d] \in Glyphs
  BY DEF DigitSet
<1>1. d - 1 \in 0..15 /\ (d - 1) + 1 = d /\ d - 1 \in Int
  OBVIOUS
<1>2. Digit(d - 1) = Digits[d]
  BY <1>1, DigitsDiffer
<1> QED BY <1>1, <1>2 DEF Glyphs

\* The digits of a number, whatever the two of its width.
LEMMA ItoaText ==
  ASSUME NEW n \in (-IntMax - 1)..IntMax
  PROVE  \E digits \in Seq(DigitSet(10)) :
           /\ itoa(n, IntMax) = (IF n < 0 THEN <<"-">> ELSE <<>>) \o digits
           /\ Spells(digits, IF n < 0 THEN -n ELSE n, 10)
<1> DEFINE D == (-IntMax - 1)..0
           size == [m \in D |-> -m]
           prev == [m \in D |-> -((-m) \div 10)]
           val == [m \in D |-> (-m) % 10]
           digit == [m \in D |-> Digit((-m) % 10)]
           f == CHOOSE f : f = [m \in D |-> IF m = 0 THEN <<>>
                                            ELSE Append(f[-((-m) \div 10)], Digit((-m) % 10))]
           u == IF n >= 0 THEN -n ELSE n
<1>1. IntMax \in Nat /\ IntMax + 1 \in Nat
  BY ConsoleConfig
<1>2. u \in D
  BY <1>1
<1>3. ASSUME NEW m \in D
      PROVE  /\ -m \in 0..(IntMax + 1) /\ -((-m) \div 10) \in D /\ (-m) % 10 \in 0..(10 - 1)
             /\ m # 0 => (-m) \div 10 < -m
             /\ -m = ((-m) \div 10) * 10 + ((-m) % 10)
  <2>1. PICK k \in 0..(IntMax + 1) : k = -m
    BY <1>1
  <2>2. /\ k \div 10 \in 0..k /\ k % 10 \in 0..(10 - 1) /\ (k # 0 => k \div 10 < k)
        /\ k = (k \div 10) * 10 + (k % 10)
    BY <1>1, <2>1
  <2>3. -(k \div 10) \in D
    BY <1>1, <2>1, <2>2
  <2> QED BY <2>1, <2>2, <2>3
<1>4. /\ size \in [D -> 0..(IntMax + 1)] /\ size \in [D -> Nat]
      /\ prev \in [D -> D] /\ val \in [D -> 0..(10 - 1)] /\ digit \in [D -> DigitSet(10)]
  <2>1. \A m \in D : -m \in 0..(IntMax + 1) /\ -m \in Nat
    BY <1>1, <1>3
  <2>2. size \in [D -> 0..(IntMax + 1)] /\ size \in [D -> Nat]
    BY <2>1
  <2>3. prev \in [D -> D]
    BY <1>3
  <2>4. val \in [D -> 0..(10 - 1)]
    BY <1>3
  <2>5. \A m \in D : Digit((-m) % 10) \in DigitSet(10)
    <3>1. 10 \in 2..16
      OBVIOUS
    <3> HIDE DEF D
    <3> QED BY <1>3, <3>1, DigitInSet
  <2>6. digit \in [D -> DigitSet(10)]
    BY <2>5
  <2> QED BY <2>2, <2>3, <2>4, <2>6
<1>5. ASSUME NEW m \in D, size[m] # 0
      PROVE  size[prev[m]] < size[m] /\ size[m] = size[prev[m]] * 10 + val[m]
  <2>1. size[m] = -m /\ m # 0 /\ prev[m] = -((-m) \div 10)
    BY <1>1, <1>5
  <2>2. prev[m] \in D /\ (-m) \div 10 < -m
    BY <1>3, <2>1
  <2>3. size[prev[m]] = -prev[m] /\ val[m] = (-m) % 10
    BY <2>2
  <2>4. PICK q \in Int : q = (-m) \div 10
    BY <1>1
  <2>5. PICK v \in Int : v = (-m) % 10
    BY <1>1
  <2>6. -m = q * 10 + v
    BY <1>3, <2>4, <2>5
  <2> HIDE DEF size, prev, val
  <2> QED BY <2>1, <2>2, <2>3, <2>4, <2>5, <2>6
<1>6. \A m \in D : /\ size[m] = -m /\ prev[m] = -((-m) \div 10) /\ digit[m] = Digit((-m) % 10)
                   /\ digit[m] = Digit(val[m])
                   /\ (size[m] = 0) <=> (m = 0)
  BY <1>1
<1> HIDE DEF size, prev, val, digit
<1>7. PICK g : DigitsOf(g, D, size, prev, digit)
  <2> HIDE DEF D
  <2> QED BY <1>1, <1>4, <1>5, DigitsExist
<1>8. ASSUME NEW h
      PROVE  [m \in D |-> IF m = 0 THEN <<>> ELSE Append(h[-((-m) \div 10)], Digit((-m) % 10))]
             = [m \in D |-> IF size[m] = 0 THEN <<>> ELSE Append(h[prev[m]], digit[m])]
  BY <1>6
<1>9. g = [m \in D |-> IF m = 0 THEN <<>> ELSE Append(g[-((-m) \div 10)], Digit((-m) % 10))]
  BY <1>7, <1>8 DEF DigitsOf
<1>10. f = [m \in D |-> IF m = 0 THEN <<>> ELSE Append(f[-((-m) \div 10)], Digit((-m) % 10))]
  BY <1>9
<1>11. itoa(n, IntMax) = (IF n < 0 THEN <<"-">> ELSE <<>>) \o (IF u = 0 THEN <<"0">> ELSE f[u])
  BY DEF itoa
<1> HIDE DEF f, D, u
<1>12. DigitsOf(f, D, size, prev, digit)
  BY <1>8, <1>10 DEF DigitsOf
<1>13. f[u] \in Seq(DigitSet(10)) /\ (size[u] # 0 => Spells(f[u], size[u], 10))
  <2>1. 10 \in 2..16
    OBVIOUS
  <2>2. \A m \in D : digit[m] = Digit(val[m])
    BY <1>6
  <2>3. \A m \in D : size[m] # 0 => size[prev[m]] < size[m] /\ size[m] = size[prev[m]] * 10 + val[m]
    BY <1>5
  <2>4. PICK base \in 2..16 : base = 10
    BY <2>1
  <2>5. \A m \in D : size[m] # 0 => size[prev[m]] < size[m] /\ size[m] = size[prev[m]] * base + val[m]
    BY <2>3, <2>4
  <2>6. /\ size \in [D -> Nat] /\ prev \in [D -> D]
        /\ val \in [D -> 0..(base - 1)] /\ digit \in [D -> DigitSet(base)]
    BY <1>4, <2>4
  <2>7. \A m \in D : /\ f[m] \in Seq(DigitSet(base))
                     /\ size[m] # 0 => Spells(f[m], size[m], base)
    BY <2>2, <2>5, <2>6, <1>12, DigitsSpell
  <2> QED BY <2>4, <2>7, <1>2
<1>14. size[u] = IF n < 0 THEN -n ELSE n
  BY <1>1, <1>2, <1>6 DEF u
<1> DEFINE digits == IF u = 0 THEN <<"0">> ELSE f[u]
<1>15. digits \in Seq(DigitSet(10)) /\ Spells(digits, IF n < 0 THEN -n ELSE n, 10)
  <2>1. CASE u = 0
    <3>1. (IF n < 0 THEN -n ELSE n) = 0 /\ digits = <<"0">>
      BY <1>2, <1>6, <1>14, <2>1
    <3> QED BY <3>1, ZeroSpelled
  <2>2. CASE u # 0
    <3>1. size[u] # 0 /\ digits = f[u]
      BY <1>2, <1>6, <2>2
    <3> HIDE DEF digits
    <3> QED BY <1>13, <1>14, <3>1
  <2> QED BY <2>1, <2>2
<1> QED BY <1>11, <1>15

LEMMA HexText ==
  ASSUME NEW n \in Nat
  PROVE  /\ decimal_to_hex(n) \in Seq(DigitSet(16))
         /\ n # 0 => Spells(decimal_to_hex(n), n, 16)
<1> DEFINE D == 0..n
           size == [m \in D |-> m]
           prev == [m \in D |-> m \div 16]
           val == [m \in D |-> m % 16]
           digit == [m \in D |-> Digit(m % 16)]
           f == CHOOSE f : f = [m \in D |-> IF m = 0 THEN <<>> ELSE Append(f[m \div 16], Digit(m % 16))]
<1>1. \A m \in D : /\ m \in Nat /\ m \div 16 \in D /\ m % 16 \in 0..(16 - 1)
                   /\ m # 0 => m \div 16 < m
                   /\ m = (m \div 16) * 16 + (m % 16)
  OBVIOUS
<1>2. /\ size \in [D -> 0..n] /\ size \in [D -> Nat]
      /\ prev \in [D -> D] /\ val \in [D -> 0..(16 - 1)] /\ digit \in [D -> DigitSet(16)]
  BY <1>1, DigitInSet
<1>3. \A m \in D : size[m] # 0 => size[prev[m]] < size[m] /\ size[m] = size[prev[m]] * 16 + val[m]
  BY <1>1
<1>4. \A m \in D : /\ size[m] = m /\ prev[m] = m \div 16 /\ digit[m] = Digit(m % 16)
                   /\ digit[m] = Digit(val[m])
  OBVIOUS
<1> HIDE DEF size, prev, val, digit
<1>5. PICK g : DigitsOf(g, D, size, prev, digit)
  <2> HIDE DEF D
  <2> QED BY <1>2, <1>3, DigitsExist
<1>6. ASSUME NEW h
      PROVE  [m \in D |-> IF m = 0 THEN <<>> ELSE Append(h[m \div 16], Digit(m % 16))]
             = [m \in D |-> IF size[m] = 0 THEN <<>> ELSE Append(h[prev[m]], digit[m])]
  BY <1>4
<1>7. g = [m \in D |-> IF m = 0 THEN <<>> ELSE Append(g[m \div 16], Digit(m % 16))]
  BY <1>5, <1>6 DEF DigitsOf
<1>8. f = [m \in D |-> IF m = 0 THEN <<>> ELSE Append(f[m \div 16], Digit(m % 16))]
  BY <1>7
<1>9. decimal_to_hex(n) = f[n] /\ n \in D
  BY DEF decimal_to_hex
<1> HIDE DEF f, D
<1>10. DigitsOf(f, D, size, prev, digit)
  BY <1>6, <1>8 DEF DigitsOf
<1>11. f[n] \in Seq(DigitSet(16)) /\ (size[n] # 0 => Spells(f[n], size[n], 16))
  <2>1. 16 \in 2..16
    OBVIOUS
  <2>2. \A m \in D : digit[m] = Digit(val[m])
    BY <1>4
  <2>3. \A m \in D : size[m] # 0 => size[prev[m]] < size[m] /\ size[m] = size[prev[m]] * 16 + val[m]
    BY <1>3
  <2>4. PICK base \in 2..16 : base = 16
    BY <2>1
  <2>5. \A m \in D : size[m] # 0 => size[prev[m]] < size[m] /\ size[m] = size[prev[m]] * base + val[m]
    BY <2>3, <2>4
  <2>6. /\ size \in [D -> Nat] /\ prev \in [D -> D]
        /\ val \in [D -> 0..(base - 1)] /\ digit \in [D -> DigitSet(base)]
    BY <1>2, <2>4
  <2>7. \A m \in D : /\ f[m] \in Seq(DigitSet(base))
                     /\ size[m] # 0 => Spells(f[m], size[m], base)
    BY <2>2, <2>5, <2>6, <1>10, DigitsSpell
  <2> QED BY <2>4, <2>7, <1>9
<1>12. size[n] = n
  BY <1>4, <1>9
<1> QED BY <1>9, <1>11, <1>12

LEMMA ShownIs ==
  ASSUME NEW a \in Args
  PROVE  /\ Len(Shown(a, IntMax)) \in Nat
         /\ \A n \in 1..Len(Shown(a, IntMax)) : Shown(a, IntMax)[n] # BS
         /\ a.as \in {"d", "p"} => /\ Shown(a, IntMax) \in Seq(Glyphs)
                                   /\ \A n \in 1..Len(Shown(a, IntMax)) : Shown(a, IntMax)[n] # NL
<1>1. CASE a \in [as : {"d"}, value : Numbers]
  <2>1. a.as = "d" /\ a.value \in Numbers
    BY <1>1
  <2>2. Shown(a, IntMax) = itoa(a.value, IntMax)
    BY <2>1 DEF Shown
  <2>3. a.value \in (-IntMax - 1)..IntMax
    BY <2>1 DEF Numbers
  <2>4. PICK digits \in Seq(DigitSet(10)) :
          itoa(a.value, IntMax) = (IF a.value < 0 THEN <<"-">> ELSE <<>>) \o digits
    BY <2>3, ItoaText
  <2>5. digits \in Seq(Glyphs)
    <3>1. 10 \in 2..16
      OBVIOUS
    <3>2. DigitSet(10) \subseteq Glyphs
      BY <3>1, DigitSetIsGlyphs
    <3> QED BY <3>2
  <2>6. <<"-">> \in Seq(Glyphs) /\ <<>> \in Seq(Glyphs)
    BY DEF Glyphs
  <2>7. Shown(a, IntMax) \in Seq(Glyphs)
    BY <2>2, <2>4, <2>5, <2>6
  <2> QED BY <2>7, TextOfGlyphs
<1>2. CASE a \in [as : {"p"}, value : Numbers \cap Nat]
  <2>1. a.as = "p" /\ a.value \in Nat
    BY <1>2
  <2>2. Shown(a, IntMax) = <<"0", "X">> \o decimal_to_hex(a.value)
    BY <2>1 DEF Shown
  <2>3. <<"0", "X">> \in Seq(Glyphs)
    BY DEF Glyphs
  <2>4. decimal_to_hex(a.value) \in Seq(Glyphs)
    <3>1. 16 \in 2..16
      OBVIOUS
    <3>2. DigitSet(16) \subseteq Glyphs
      BY <3>1, DigitSetIsGlyphs
    <3>3. decimal_to_hex(a.value) \in Seq(DigitSet(16))
      BY <2>1, HexText
    <3> QED BY <3>2, <3>3
  <2>5. Shown(a, IntMax) \in Seq(Glyphs)
    BY <2>2, <2>3, <2>4
  <2> QED BY <2>5, TextOfGlyphs
<1>3. CASE a \in [as : {"c"}, value : Letters \cup {NL}]
  <2>1. a.as = "c" /\ a.value \in Letters \cup {NL}
    BY <1>3
  <2>2. Shown(a, IntMax) = <<a.value>>
    BY <2>1 DEF Shown
  <2>3. a.value # BS
    BY <2>1, ConsoleConfig
  <2> QED BY <2>1, <2>2, <2>3
<1>4. CASE a \in [as : {"s"}, value : {<<"#", ">">>, <<>>}]
  <2>1. a.as = "s" /\ a.value \in {<<"#", ">">>, <<>>}
    BY <1>4
  <2>2. Shown(a, IntMax) = a.value
    BY <2>1 DEF Shown
  <2> QED BY <2>1, <2>2 DEF BS
<1> QED BY <1>1, <1>2, <1>3, <1>4 DEF Args

\* A text without newline stands on the screen from the cursor of before on.
TextShown(t, u, text, m) ==
  /\ Place(u) = Place(t) + m
  /\ \A k \in 1..m : /\ Place(t) + k - 1 \in DOMAIN u.video
                     /\ u.video[Place(t) + k - 1] = text[k]

LEMMA PutShows ==
  ASSUME NEW t, IsTerminal(t), NEW r \in Nat, NEW u, Fresh(u, r), r + 1 < UINT16,
         NEW text, NEW m \in Nat, TextShown(t, u, text, m), NEW c, c = text[m + 1]
  PROVE  TextShown(t, put(u, c), text, m + 1)
<1> DEFINE w == put(u, c)
<1>1. IsTerminal(u) /\ u.col < VGA_WIDTH /\ u.row + 1 < UINT16
  BY PlaceIs, Uint16Nat DEF Fresh
<1>2. Place(t) \in Nat /\ Place(u) = Place(t) + m
  BY PlaceIs DEF TextShown
<1>3. Place(w) = Place(u) + 1
  BY <1>1, PutMoves
<1>4. /\ DOMAIN w.video = DOMAIN u.video \cup {Place(u)}
      /\ \A p \in DOMAIN u.video \cup {Place(u)} :
           w.video[p] = IF p = Place(u) THEN c ELSE u.video[p]
  BY <1>1, PutIs
<1> HIDE DEF w
<1>5. ASSUME NEW k \in 1..(m + 1)
      PROVE  Place(t) + k - 1 \in DOMAIN w.video /\ w.video[Place(t) + k - 1] = text[k]
  <2>1. CASE k = m + 1
    <3>1. Place(t) + k - 1 = Place(u)
      BY <1>2, <2>1
    <3> QED BY <1>4, <2>1, <3>1
  <2>2. CASE k # m + 1
    <3>1. k \in 1..m /\ Place(t) + k - 1 # Place(u)
      BY <1>2, <2>2
    <3>2. Place(t) + k - 1 \in DOMAIN u.video /\ u.video[Place(t) + k - 1] = text[k]
      BY <3>1 DEF TextShown
    <3> QED BY <1>4, <3>1, <3>2
  <2> QED BY <2>1, <2>2
<1>6. Place(w) = Place(t) + (m + 1)
  BY <1>2, <1>3
<1> QED BY <1>5, <1>6 DEF TextShown, w

LEMMA PrintShows ==
  ASSUME NEW t, NEW r \in Nat, Fresh(t, r), NEW text, Len(text) \in Nat,
         r + Len(text) < UINT16,
         \A n \in 1..Len(text) : text[n] # BS /\ text[n] # NL
  PROVE  TextShown(t, print(t, text), text, Len(text))
<1>1. PICK f : Printed(f, t, text, Len(text)) /\ print(t, text) = f[Len(text)]
  BY PrintIs
<1>2. PICK m \in Nat : m = Len(text)
  OBVIOUS
<1>0. IsTerminal(t)
  BY DEF Fresh
<1> DEFINE P(n) == Fresh(f[n], r + n) /\ TextShown(t, f[n], text, n)
           S == {n \in 0..m : ~P(n)}
<1>3. SUFFICES S = {}
  BY <1>1, <1>2
<1>4. SUFFICES ASSUME S # {} PROVE FALSE
  OBVIOUS
<1>5. PICK n \in S : \A y \in S : n <= y
  <2>1. S \in SUBSET Nat
    OBVIOUS
  <2> HIDE DEF S
  <2> QED BY <1>4, <2>1, LeastExists
<1>6. n \in 0..m /\ ~P(n)
  OBVIOUS
<1>7. f[n] = IF n = 0 THEN t ELSE terminal_writechar(f[n - 1], text[n])
  BY <1>1, <1>2, <1>6 DEF Printed
<1>8. n # 0
  <2> SUFFICES ASSUME n = 0 PROVE FALSE
    OBVIOUS
  <2>1. f[n] = t /\ r + n = r
    BY <1>7
  <2>2. TextShown(t, t, text, 0)
    BY <1>0, PlaceIs DEF TextShown
  <2> QED BY <2>1, <2>2, <1>6
<1>9. n - 1 \in 0..m /\ n - 1 \notin S
  BY <1>5, <1>6, <1>8
<1>10. Fresh(f[n - 1], r + (n - 1)) /\ TextShown(t, f[n - 1], text, n - 1)
  BY <1>9
<1>11. r + (n - 1) \in Nat /\ (r + (n - 1)) + 1 < UINT16 /\ (r + (n - 1)) + 1 = r + n
  BY <1>2, <1>6, <1>8, Uint16Nat
<1>12. text[n] # BS /\ text[n] # NL
  BY <1>2, <1>6, <1>8
<1> DEFINE c == text[n]
<1>13. Fresh(terminal_writechar(f[n - 1], c), (r + (n - 1)) + 1)
  BY <1>10, <1>11, <1>12, WriteFresh
<1>14. n - 1 \in Nat /\ (n - 1) + 1 = n /\ c = text[(n - 1) + 1]
  BY <1>6, <1>8
<1>15. TextShown(t, put(f[n - 1], c), text, n)
  <2> HIDE DEF c
  <2> QED BY <1>0, <1>10, <1>11, <1>14, PutShows
<1>16. terminal_writechar(f[n - 1], c) = put(f[n - 1], c)
  BY <1>12 DEF terminal_writechar
<1>17. f[n] = put(f[n - 1], c)
  BY <1>7, <1>8, <1>16
<1> HIDE DEF c
<1> QED BY <1>6, <1>11, <1>13, <1>15, <1>16, <1>17

\* printk leaves nothing behind the cursor and its rows are counted.
LEMMA PrintkFresh ==
  ASSUME NEW t, NEW r \in Rows, Fresh(t, r), NEW a \in Args
  PROVE  \E s \in Nat : s + BufSize < UINT16 /\ Fresh(printk(t, a, IntMax), s)
<1> DEFINE text == Shown(a, IntMax)
<1>1. Len(text) \in Nat /\ \A n \in 1..Len(text) : text[n] # BS
  BY ShownIs
<1>2. r \in Nat /\ r + Len(text) + BufSize < UINT16
  BY ConsoleAssumption
<1>3. printk(t, a, IntMax) = print(t, text)
  BY DEF printk
<1> HIDE DEF text
<1>4. r + Len(text) \in Nat /\ r + Len(text) < UINT16
  BY <1>1, <1>2, ConsoleConfig, Uint16Nat
<1>5. Fresh(print(t, text), r + Len(text))
  BY <1>1, <1>2, <1>4, PrintFresh
<1> QED BY <1>2, <1>3, <1>4, <1>5

-----------------------------------------------------------------------------
(* The line on the screen.                                                 *)

\* A line of n characters in b stands on the screen from the place s on, with nothing
\* behind it and room for the rest of the buffer before the rows are counted up.
LineShown(t, s, b, n) ==
  /\ t.col < VGA_WIDTH
  /\ s \in Nat /\ s + BufSize - 1 <= (UINT16 - 1) * VGA_WIDTH
  /\ Place(t) = s + n
  /\ Cells \subseteq DOMAIN t.video
  /\ \A k \in 0..(n - 1) : s + k \in DOMAIN t.video /\ t.video[s + k] = b[k]
  /\ \A p \in DOMAIN t.video :
       /\ p \in Nat
       /\ p >= s + n => t.video[p] = Blank
       /\ p \in Cells \/ p < s + BufSize - 1

\* While the line has room the rows do not count up.
LEMMA RowIsCounted ==
  ASSUME NEW t, IsTerminal(t), NEW s, NEW b, NEW n \in Nat, LineShown(t, s, b, n),
         n < BufSize - 1
  PROVE  t.row + 1 < UINT16
<1>1. PICK m \in Nat : m = UINT16 - 1
  BY Uint16Nat
<1>2. Place(t) < m * VGA_WIDTH
  <2>1. PICK c \in Nat : c = m * VGA_WIDTH
    BY <1>1, MulNat, ConsoleConfig
  <2> QED BY <1>1, <2>1, ConsoleConfig DEF LineShown
<1>3. t.row * VGA_WIDTH < m * VGA_WIDTH
  <2>1. PICK c \in Nat : c = m * VGA_WIDTH
    BY <1>1, MulNat, ConsoleConfig
  <2> QED BY <1>2, <2>1, PlaceIs
<1>4. ~(m <= t.row)
  <2> SUFFICES ASSUME m <= t.row PROVE FALSE
    OBVIOUS
  <2>1. m * VGA_WIDTH <= t.row * VGA_WIDTH
    BY <1>1, MulMonotone, PlaceIs, ConsoleConfig
  <2>2. m * VGA_WIDTH \in Nat /\ t.row * VGA_WIDTH \in Nat
    BY <1>1, MulNat, PlaceIs, ConsoleConfig
  <2> QED BY <1>3, <2>1, <2>2
<1> QED BY <1>1, <1>4, PlaceIs, Uint16Nat

LEMMA FreshShowsLine ==
  ASSUME NEW t, NEW r \in Nat, r + BufSize < UINT16, Fresh(t, r), NEW b
  PROVE  LineShown(t, Place(t), b, 0)
<1>1. IsTerminal(t) /\ t.col < VGA_WIDTH /\ t.row <= r
  BY DEF Fresh
<1>2. Place(t) \in Nat
  BY <1>1, PlaceIs
<1>3. Place(t) + BufSize - 1 <= (UINT16 - 1) * VGA_WIDTH
  <2>1. PICK m \in Nat : m = UINT16 - 1
    BY Uint16Nat
  <2>2. t.row + BufSize \in Nat /\ t.row + BufSize <= m
    BY <1>1, <2>1, PlaceIs, ConsoleConfig, Uint16Nat
  <2>3. (t.row + BufSize) * VGA_WIDTH <= m * VGA_WIDTH
    BY <2>1, <2>2, MulMonotone, ConsoleConfig
  <2>4. (t.row + BufSize) * VGA_WIDTH = t.row * VGA_WIDTH + BufSize * VGA_WIDTH
    BY <1>1, PlaceIs, ConsoleConfig
  <2>5. BufSize * VGA_WIDTH = (BufSize - 1) * VGA_WIDTH + VGA_WIDTH
    BY ConsoleConfig
  <2>6. (BufSize - 1) * VGA_WIDTH >= BufSize - 1
    BY ConsoleConfig
  <2>7. PICK x \in Nat : x = t.row * VGA_WIDTH
    BY <1>1, PlaceIs
  <2>8. PICK y \in Nat : y = (BufSize - 1) * VGA_WIDTH
    BY ConsoleConfig, MulNat
  <2>9. PICK z \in Nat : z = m * VGA_WIDTH
    BY <2>1, ConsoleConfig, MulNat
  <2>10. x + (y + VGA_WIDTH) <= z
    BY <2>3, <2>4, <2>5, <2>7, <2>8, <2>9
  <2>11. Place(t) = x + t.col
    BY <1>1, <2>7, PlaceIs
  <2>12. y >= BufSize - 1
    BY <2>6, <2>8
  <2>13. x + t.col + BufSize - 1 <= z
    BY <1>1, <2>10, <2>12, PlaceIs, ConsoleConfig
  <2> QED BY <2>1, <2>9, <2>11, <2>13
<1>4. ASSUME NEW p \in DOMAIN t.video
      PROVE  /\ p \in Nat
             /\ p >= Place(t) + 0 => t.video[p] = Blank
             /\ p \in Cells \/ p < Place(t) + BufSize - 1
  <2>1. p \in Nat /\ (p >= Place(t) => t.video[p] = Blank) /\ (p \in Cells \/ p < Place(t))
    BY DEF Fresh
  <2> QED BY <1>2, <2>1, ConsoleConfig
<1>5. Cells \subseteq DOMAIN t.video
  BY DEF Fresh
<1>6. Place(t) = Place(t) + 0 /\ 0..(0 - 1) = {}
  BY <1>2
<1> QED BY <1>1, <1>2, <1>3, <1>4, <1>5, <1>6 DEF LineShown

\* A letter is echoed behind the line and stored at its end.
LEMMA LetterShown ==
  ASSUME NEW t, IsTerminal(t), NEW s, NEW b \in [0..(BufSize - 1) -> Chars], NEW n \in Nat,
         LineShown(t, s, b, n), n < BufSize - 1, NEW c, c # BS, c # NL
  PROVE  LineShown(terminal_writechar(t, c), s, [b EXCEPT ![n] = c], n + 1)
<1> DEFINE u == put(t, c)
           d == [b EXCEPT ![n] = c]
<1>1. terminal_writechar(t, c) = u
  BY DEF terminal_writechar
<1>2. IsTerminal(u) /\ DOMAIN u.video = DOMAIN t.video \cup {Place(t)}
  BY PutIs
<1>3. \A p \in DOMAIN t.video \cup {Place(t)} :
        u.video[p] = IF p = Place(t) THEN c ELSE t.video[p]
  BY PutIs
<1>4. t.col < VGA_WIDTH /\ t.row + 1 < UINT16
  <2>1. t.row + 1 < UINT16
    BY RowIsCounted
  <2>2. t.col < VGA_WIDTH
    BY DEF LineShown
  <2> QED BY <2>1, <2>2
<1>5. Place(u) = Place(t) + 1 /\ u.col < VGA_WIDTH
  BY <1>4, PutMoves
<1>6. s \in Nat /\ Place(t) = s + n /\ s + BufSize - 1 <= (UINT16 - 1) * VGA_WIDTH
  BY DEF LineShown
<1>7. \A k \in 0..n : d[k] = IF k = n THEN c ELSE b[k]
  BY ConsoleConfig
<1> HIDE DEF u, d
<1>8. ASSUME NEW k \in 0..((n + 1) - 1)
      PROVE  s + k \in DOMAIN u.video /\ u.video[s + k] = d[k]
  <2>1. CASE k = n
    BY <1>2, <1>3, <1>6, <1>7, <2>1
  <2>2. CASE k # n
    <3>1. k \in 0..(n - 1) /\ s + k # Place(t) /\ d[k] = b[k]
      BY <1>6, <1>7, <2>2
    <3>2. s + k \in DOMAIN t.video /\ t.video[s + k] = b[k]
      BY <3>1 DEF LineShown
    <3> QED BY <1>2, <1>3, <3>1, <3>2
  <2> QED BY <2>1, <2>2
<1>9. ASSUME NEW p \in DOMAIN u.video
      PROVE  /\ p \in Nat
             /\ p >= s + (n + 1) => u.video[p] = Blank
             /\ p \in Cells \/ p < s + BufSize - 1
  <2>1. CASE p = Place(t)
    BY <1>6, <2>1, ConsoleConfig
  <2>2. CASE p # Place(t)
    <3>1. p \in DOMAIN t.video /\ u.video[p] = t.video[p]
      BY <1>2, <1>3, <2>2
    <3>2. p \in Nat /\ (p >= s + n => t.video[p] = Blank) /\ (p \in Cells \/ p < s + BufSize - 1)
      BY <3>1 DEF LineShown
    <3> QED BY <1>6, <3>1, <3>2
  <2> QED BY <2>1, <2>2
<1>10. Cells \subseteq DOMAIN u.video
  BY <1>2 DEF LineShown
<1>11. Place(u) = s + (n + 1)
  BY <1>5, <1>6
<1> QED BY <1>1, <1>5, <1>6, <1>8, <1>9, <1>10, <1>11 DEF LineShown, d

\* A backspace in any column but the first takes the last character from both.
LEMMA EraseShown ==
  ASSUME NEW t, IsTerminal(t), t.col # 0, NEW s, NEW b \in [0..(BufSize - 1) -> Chars],
         NEW n \in Nat, n >= 1, n < BufSize - 1, LineShown(t, s, b, n)
  PROVE  LineShown(terminal_writechar(t, BS), s, [b EXCEPT ![n - 1] = NUL], n - 1)
<1> DEFINE v == Back(t)
           u == put(v, Blank)
           w == terminal_writechar(t, BS)
           d == [b EXCEPT ![n - 1] = NUL]
<1>1. w = terminal_backspace(t)
  BY ConsoleConfig DEF terminal_writechar
<1>2. v = [row |-> t.row, col |-> t.col - 1, video |-> t.video]
  BY DEF Back
<1>3. IsTerminal(v) /\ w = [u EXCEPT !.col = uint16(u.col - 1)]
  BY <1>1, BackspaceIs
<1>4. t.col < VGA_WIDTH /\ t.row + 1 < UINT16
  <2>1. t.row + 1 < UINT16
    BY RowIsCounted
  <2>2. t.col < VGA_WIDTH
    BY DEF LineShown
  <2> QED BY <2>1, <2>2
<1>5. /\ t.row \in Nat /\ t.col \in Nat /\ t.col >= 1
      /\ v.row = t.row /\ v.col = t.col - 1 /\ v.video = t.video
  BY <1>2, PlaceIs
<1>6. s \in Nat /\ Place(t) = s + n /\ s + BufSize - 1 <= (UINT16 - 1) * VGA_WIDTH
  BY DEF LineShown
<1> HIDE DEF v
<1>7. Place(v) = s + n - 1
  <2>1. PICK x \in Nat : x = t.row * VGA_WIDTH
    BY PlaceIs
  <2>2. Place(v) = v.row * VGA_WIDTH + v.col /\ Place(t) = x + t.col
    BY <1>3, <2>1, PlaceIs
  <2>3. v.row * VGA_WIDTH = x
    BY <1>5, <2>1
  <2> QED BY <1>5, <1>6, <2>2, <2>3
<1>8. IsTerminal(u) /\ DOMAIN u.video = DOMAIN t.video \cup {Place(v)}
  BY <1>3, <1>5, PutIs
<1>9. \A p \in DOMAIN t.video \cup {Place(v)} :
        u.video[p] = IF p = Place(v) THEN Blank ELSE t.video[p]
  BY <1>3, <1>5, PutIs
<1>10. u.col = t.col /\ u.row = t.row
  <2>1. uint16(v.col + 1) = t.col
    BY <1>4, <1>5, Uint16Is, Uint16Nat, ConsoleConfig
  <2>2. ~(uint16(v.col + 1) >= VGA_WIDTH)
    BY <1>4, <1>5, <2>1, ConsoleConfig
  <2>3. u.col = uint16(v.col + 1) /\ u.row = v.row
    BY <1>3, <2>2, PutIs
  <2> QED BY <1>5, <2>1, <2>3
<1>11. uint16(u.col - 1) = t.col - 1
  BY <1>4, <1>5, <1>10, Uint16Is, Uint16Nat, ConsoleConfig
<1> HIDE DEF u, w
<1>12. w.row = t.row /\ w.col = t.col - 1 /\ w.video = u.video
  BY <1>3, <1>8, <1>10, <1>11 DEF IsTerminal
<1>13. Place(w) = s + (n - 1)
  BY <1>5, <1>6, <1>12, PlaceIs DEF Place
<1>14. \A k \in 0..(n - 2) : d[k] = b[k]
  BY ConsoleConfig
<1> HIDE DEF d
<1>15. ASSUME NEW k \in 0..((n - 1) - 1)
       PROVE  s + k \in DOMAIN w.video /\ w.video[s + k] = d[k]
  <2>1. k \in 0..(n - 1) /\ k \in 0..(n - 2) /\ s + k # Place(v)
    BY <1>6, <1>7
  <2>2. s + k \in DOMAIN t.video /\ t.video[s + k] = b[k]
    BY <2>1 DEF LineShown
  <2> QED BY <1>8, <1>9, <1>12, <1>14, <2>1, <2>2
<1>16. ASSUME NEW p \in DOMAIN w.video
       PROVE  /\ p \in Nat
              /\ p >= s + (n - 1) => w.video[p] = Blank
              /\ p \in Cells \/ p < s + BufSize - 1
  <2>1. CASE p = Place(v)
    BY <1>6, <1>7, <1>9, <1>12, <2>1, ConsoleConfig
  <2>2. CASE p # Place(v)
    <3>1. p \in DOMAIN t.video /\ w.video[p] = t.video[p]
      BY <1>8, <1>9, <1>12, <2>2
    <3>2. p \in Nat /\ (p >= s + n => t.video[p] = Blank) /\ (p \in Cells \/ p < s + BufSize - 1)
      BY <3>1 DEF LineShown
    <3> QED BY <1>6, <1>7, <2>2, <3>1, <3>2
  <2> QED BY <2>1, <2>2
<1>17. Cells \subseteq DOMAIN w.video
  BY <1>8, <1>12 DEF LineShown
<1>18. w.col < VGA_WIDTH
  BY <1>4, <1>5, <1>12, ConsoleConfig
<1> QED BY <1>6, <1>13, <1>15, <1>16, <1>17, <1>18 DEF LineShown, w, d

-----------------------------------------------------------------------------
(* The invariant.                                                          *)

IInv ==
  /\ at \in {"print", "printed", "readline", "done"}
  /\ arg \in Args
  /\ IsTerminal(term)
  /\ i \in 0..(BufSize - 1) /\ buf \in [0..(BufSize - 1) -> Chars]
  /\ astray \in Nat
  /\ at \in {"print", "printed"} => i = 0 /\ astray = 0
  /\ at = "print" => start = Place(term) /\ \E r \in Rows : Fresh(term, r)
  /\ at # "print" /\ astray = 0 => LineShown(term, start, buf, i)
  /\ \A k \in 0..(i - 1) : buf[k] \in Letters \cup {Erase}
  /\ at = "done" => buf[i] = NUL

LEMMA InitIInv == Init => IInv
<1> SUFFICES ASSUME Init PROVE IInv
  OBVIOUS
<1>1. PICK r \in Rows, c \in 0..(VGA_WIDTH - 1) : term = [terminal_init EXCEPT !.row = r, !.col = c]
  BY DEF Init
<1>2. r \in Nat /\ r < UINT16 /\ c \in Nat /\ c < VGA_WIDTH /\ c < UINT16
  <2>1. r \in Nat /\ r + Len(Shown(arg, IntMax)) + BufSize < UINT16
    BY ConsoleAssumption DEF Init
  <2>2. Len(Shown(arg, IntMax)) \in Nat
    BY ShownIs DEF Init
  <2> QED BY <2>1, <2>2, ConsoleConfig, Uint16Nat
<1>3. term = [row |-> r, col |-> c, video |-> [p \in Cells |-> Blank]]
  BY <1>1 DEF terminal_init
<1>4. /\ term.row = r /\ term.col = c /\ DOMAIN term.video = Cells
      /\ \A p \in Cells : term.video[p] = Blank
      /\ term.video = [p \in DOMAIN term.video |-> term.video[p]]
  BY <1>3
<1>5. IsTerminal(term)
  BY <1>2, <1>3, <1>4, Uint16Nat DEF IsTerminal
<1>6. Fresh(term, r)
  <2>1. \A p \in Cells : p \in Nat
    BY DEF Cells
  <2> QED BY <1>2, <1>4, <1>5, <2>1 DEF Fresh
<1>7. i = 0 /\ astray = 0 /\ at = "print" /\ start = Place(term)
  BY DEF Init
<1>8. i \in 0..(BufSize - 1) /\ buf \in [0..(BufSize - 1) -> Chars]
  BY <1>7, ConsoleConfig DEF Init, Chars
<1>9. arg \in Args
  BY DEF Init
<1> QED BY <1>5, <1>6, <1>7, <1>8, <1>9 DEF IInv

LEMMA PrintTextIInv == IInv /\ PrintText => IInv'
<1> SUFFICES ASSUME IInv, PrintText PROVE IInv'
  OBVIOUS
<1>1. at = "print" /\ at' = "printed" /\ term' = printk(term, arg, IntMax) /\ start' = Place(term')
  BY DEF PrintText
<1>2. arg' = arg /\ buf' = buf /\ i' = i /\ astray' = astray
  BY DEF PrintText
<1>3. i = 0 /\ astray = 0 /\ arg \in Args
  BY <1>1 DEF IInv
<1>4. PICK r \in Rows : Fresh(term, r)
  BY <1>1 DEF IInv
<1>5. PICK s \in Nat : s + BufSize < UINT16 /\ Fresh(printk(term, arg, IntMax), s)
  BY <1>3, <1>4, PrintkFresh
<1>6. LineShown(term', start', buf', i')
  BY <1>1, <1>2, <1>3, <1>5, FreshShowsLine
<1>7. IsTerminal(term')
  BY <1>1, <1>5 DEF Fresh
<1>8. i' \in 0..(BufSize - 1) /\ buf' \in [0..(BufSize - 1) -> Chars]
  BY <1>2 DEF IInv
<1>9. 0..(i' - 1) = {}
  BY <1>2, <1>3
<1> QED BY <1>1, <1>2, <1>3, <1>6, <1>7, <1>8, <1>9 DEF IInv

LEMMA ReadlineIInv == IInv /\ readline => IInv'
<1> SUFFICES ASSUME IInv, readline PROVE IInv'
  OBVIOUS
<1>1. at = "printed" /\ at' = "readline"
  BY DEF readline
<1>2. UNCHANGED <<arg, term, start, buf, i, astray>>
  BY DEF readline
<1> QED BY <1>1, <1>2 DEF IInv

LEMMA ReadKeyIInv == IInv /\ ReadKey => IInv'
<1> SUFFICES ASSUME IInv, ReadKey PROVE IInv'
  OBVIOUS
<1>1. at = "readline" /\ at' = "readline" /\ i < BufSize - 1 /\ arg' = arg /\ start' = start
  BY DEF ReadKey, Room
<1>2. PICK key \in Letters \cup {Erase} :
        /\ term' = terminal_writechar(term, key)
        /\ buf' = Stored(buf, i, key).buf /\ i' = Stored(buf, i, key).i
        /\ astray' = IF astray > 0 \/ (key = Erase /\ (term.col = 0 \/ i = 0)) THEN astray + 1 ELSE 0
  BY DEF ReadKey
<1>3. /\ IsTerminal(term) /\ i \in Nat /\ i \in 0..(BufSize - 1)
      /\ buf \in [0..(BufSize - 1) -> Chars] /\ astray \in Nat /\ arg \in Args
  BY ConsoleConfig DEF IInv
<1>4. IsTerminal(term')
  BY <1>2, <1>3, WriteIsTerminal
<1>5. astray' \in Nat /\ (astray' = 0 => astray = 0 /\ ~(key = Erase /\ (term.col = 0 \/ i = 0)))
  BY <1>2, <1>3
<1>6. \A k \in 0..(i - 1) : buf[k] \in Letters \cup {Erase}
  BY DEF IInv
<1>7. astray = 0 => LineShown(term, start, buf, i)
  BY <1>1 DEF IInv
<1>8. /\ i' \in 0..(BufSize - 1) /\ buf' \in [0..(BufSize - 1) -> Chars]
      /\ \A k \in 0..(i' - 1) : buf'[k] \in Letters \cup {Erase}
      /\ astray' = 0 => LineShown(term', start, buf', i')
  <2>1. CASE key = Erase /\ i >= 1
    <3>1. buf' = [buf EXCEPT ![i - 1] = NUL] /\ i' = i - 1
      BY <1>2, <2>1 DEF Stored
    <3>2. i' \in 0..(BufSize - 1) /\ buf' \in [0..(BufSize - 1) -> Chars]
      BY <1>3, <2>1, <3>1, ConsoleConfig DEF Chars
    <3>3. \A k \in 0..(i' - 1) : buf'[k] = buf[k] /\ k \in 0..(i - 1)
      BY <1>3, <3>1, ConsoleConfig
    <3>4. astray' = 0 => LineShown(term', start, buf', i')
      BY <1>1, <1>2, <1>3, <1>5, <1>7, <2>1, <3>1, EraseShown, ConsoleConfig
    <3> QED BY <1>6, <3>2, <3>3, <3>4
  <2>2. CASE ~(key = Erase /\ i >= 1)
    <3>1. buf' = [buf EXCEPT ![i] = key] /\ i' = i + 1
      BY <1>2, <2>2 DEF Stored
    <3>2. i' \in 0..(BufSize - 1) /\ buf' \in [0..(BufSize - 1) -> Chars]
      BY <1>1, <1>3, <3>1, ConsoleConfig DEF Chars
    <3>3. \A k \in 0..(i' - 1) : IF k = i THEN buf'[k] = key ELSE buf'[k] = buf[k] /\ k \in 0..(i - 1)
      BY <1>3, <3>1, ConsoleConfig
    <3>4. astray' = 0 => LineShown(term', start, buf', i')
      <4> SUFFICES ASSUME astray' = 0 PROVE LineShown(term', start, buf', i')
        OBVIOUS
      <4>1. astray = 0 /\ key # Erase
        BY <1>3, <1>5, <2>2
      <4>2. key # BS /\ key # NL
        BY <4>1, ConsoleConfig
      <4>3. LineShown(term, start, buf, i)
        BY <1>7, <4>1
      <4>4. LineShown(terminal_writechar(term, key), start, [buf EXCEPT ![i] = key], i + 1)
        BY <1>1, <1>3, <4>2, <4>3, LetterShown
      <4> QED BY <1>2, <3>1, <4>4
    <3> QED BY <1>6, <3>2, <3>3, <3>4
  <2> QED BY <2>1, <2>2
<1> QED BY <1>1, <1>3, <1>4, <1>5, <1>8 DEF IInv

LEMMA ReturnIInv == IInv /\ readline_returns => IInv'
<1> SUFFICES ASSUME IInv, readline_returns PROVE IInv'
  OBVIOUS
<1>1. at = "readline" /\ at' = "done" /\ buf' = [buf EXCEPT ![i] = NUL]
  BY DEF readline_returns, Terminated
<1>2. arg' = arg /\ term' = term /\ start' = start /\ i' = i /\ astray' = astray
  BY DEF readline_returns
<1>3. i \in 0..(BufSize - 1) /\ i \in Nat /\ buf \in [0..(BufSize - 1) -> Chars]
  BY ConsoleConfig DEF IInv
<1>4. buf' \in [0..(BufSize - 1) -> Chars] /\ buf'[i] = NUL
  BY <1>1, <1>3 DEF Chars
<1>5. \A k \in 0..(i - 1) : buf'[k] = buf[k]
  BY <1>1, <1>3, ConsoleConfig
<1>6. astray = 0 => LineShown(term, start, buf', i)
  <2> SUFFICES ASSUME astray = 0 PROVE LineShown(term, start, buf', i)
    OBVIOUS
  <2>1. LineShown(term, start, buf, i)
    BY <1>1 DEF IInv
  <2> QED BY <1>5, <2>1 DEF LineShown
<1>7. \A k \in 0..(i - 1) : buf'[k] \in Letters \cup {Erase}
  BY <1>5 DEF IInv
<1>8. arg \in Args /\ IsTerminal(term) /\ astray \in Nat
  BY DEF IInv
<1> QED BY <1>1, <1>2, <1>3, <1>4, <1>6, <1>7, <1>8 DEF IInv

LEMMA NextIInv == IInv /\ [Next]_vars => IInv'
<1> SUFFICES ASSUME IInv, [Next]_vars PROVE IInv'
  OBVIOUS
<1>1. CASE PrintText
  BY <1>1, PrintTextIInv
<1>2. CASE readline
  BY <1>2, ReadlineIInv
<1>3. CASE ReadKey
  BY <1>3, ReadKeyIInv
<1>4. CASE readline_returns
  BY <1>4, ReturnIInv
<1>5. CASE UNCHANGED vars
  BY <1>5 DEF vars, IInv
<1> QED BY <1>1, <1>2, <1>3, <1>4, <1>5 DEF Next

\* Every state the program reaches satisfies the invariant.
THEOREM ConsoleInvariant == Spec => []IInv
BY InitIInv, NextIInv, PTL DEF Spec

-----------------------------------------------------------------------------
(* What it says.                                                           *)

LEMMA IInvConsoleInv == IInv => ConsoleInv
<1> SUFFICES ASSUME IInv PROVE ConsoleInv
  OBVIOUS
<1>1. TypeOK
  BY DEF IInv, IsTerminal, TypeOK
<1>2. StaysOnScreen
  <2> SUFFICES ASSUME astray = 0, start + BufSize - 1 <= VGA_WIDTH * VGA_HEIGHT
               PROVE  DOMAIN term.video = Cells
    BY DEF StaysOnScreen
  <2>1. PICK area \in Nat : area = VGA_WIDTH * VGA_HEIGHT
    BY MulNat, ConsoleConfig
  <2>2. /\ start \in Nat /\ Cells \subseteq DOMAIN term.video
        /\ \A p \in DOMAIN term.video : p \in Nat /\ (p \in Cells \/ p < start + BufSize - 1)
    <3>1. CASE at = "print"
      <4>1. PICK r \in Rows : Fresh(term, r)
        BY <3>1 DEF IInv
      <4>2. start = Place(term) /\ start \in Nat
        BY <3>1, PlaceIs DEF IInv
      <4>3. \A p \in DOMAIN term.video : p \in Nat /\ (p \in Cells \/ p < start)
        BY <4>1, <4>2 DEF Fresh
      <4>4. \A p \in Nat : p < start => p < start + BufSize - 1
        BY <4>2, ConsoleConfig
      <4> QED BY <4>1, <4>2, <4>3, <4>4 DEF Fresh
    <3>2. CASE at # "print"
      BY <3>2 DEF IInv, LineShown
    <3> QED BY <3>1, <3>2
  <2>3. \A p \in Nat : p < start + BufSize - 1 => p \in Cells
    <3>1. Cells = 0..(area - 1) /\ start + BufSize - 1 <= area
      BY <2>1 DEF Cells
    <3> HIDE DEF Cells
    <3> QED BY <2>1, <2>2, <3>1, ConsoleConfig
  <2> QED BY <2>2, <2>3
<1>3. LineIsString
  BY DEF IInv, LineIsString
<1> QED BY <1>1, <1>2, <1>3 DEF ConsoleInv

\* print and the echo stay on the screen while no backspace goes astray, and what
\* readline returns is a string that holds nothing but keys.
THEOREM ConsoleSafe == Spec => []ConsoleInv
BY ConsoleInvariant, IInvConsoleInv, PTL

\* The line on the screen is the line in the buffer, for every size of both, from
\* every place and behind every text, until a backspace goes astray.
THEOREM ConsoleShowsLine == Spec => []ScreenShowsLine
<1>1. IInv => ScreenShowsLine
  <2> SUFFICES ASSUME IInv, at \in {"readline", "done"}, astray = 0
               PROVE  /\ Place(term) = start + i
                      /\ \A k \in 0..(i - 1) : term.video[start + k] = buf[k]
                      /\ \A p \in DOMAIN term.video : p >= start + i => term.video[p] = Blank
    BY DEF ScreenShowsLine
  <2>1. LineShown(term, start, buf, i)
    BY DEF IInv
  <2> QED BY <2>1 DEF LineShown
<1> QED BY <1>1, ConsoleInvariant, PTL

-----------------------------------------------------------------------------
(* The numbers on the screen.                                              *)

\* The text of a number stands where the cursor was.
PrintInv ==
  /\ at = "print" => from = Place(term)
  /\ at = "printed" /\ arg.as \in {"d", "p"} =>
       /\ from \in Nat
       /\ start = from + Len(Shown(arg, IntMax))
       /\ \A k \in 1..Len(Shown(arg, IntMax)) :
            term.video[from + k - 1] = Shown(arg, IntMax)[k]

LEMMA PrintTextShows == IInv /\ PrintInv /\ PrintText => PrintInv'
<1> SUFFICES ASSUME IInv, PrintInv, PrintText PROVE PrintInv'
  OBVIOUS
<1>1. at = "print" /\ at' = "printed" /\ term' = printk(term, arg, IntMax) /\ start' = Place(term')
  BY DEF PrintText
<1>2. arg' = arg /\ from' = from /\ arg \in Args
  BY DEF PrintText, IInv
<1> SUFFICES ASSUME arg.as \in {"d", "p"}
             PROVE  /\ from \in Nat
                    /\ start' = from + Len(Shown(arg, IntMax))
                    /\ \A k \in 1..Len(Shown(arg, IntMax)) :
                         term'.video[from + k - 1] = Shown(arg, IntMax)[k]
  BY <1>1, <1>2 DEF PrintInv
<1> DEFINE text == Shown(arg, IntMax)
<1>3. PICK r \in Rows : Fresh(term, r)
  BY <1>1 DEF IInv
<1>4. Len(text) \in Nat /\ \A n \in 1..Len(text) : text[n] # BS /\ text[n] # NL
  BY <1>2, ShownIs
<1>5. r \in Nat /\ r + Len(text) + BufSize < UINT16
  BY <1>2, ConsoleAssumption
<1>6. term' = print(term, text)
  BY <1>1 DEF printk
<1> HIDE DEF text
<1>7. r + Len(text) < UINT16
  BY <1>4, <1>5, ConsoleConfig, Uint16Nat
<1>8. TextShown(term, print(term, text), text, Len(text))
  BY <1>3, <1>4, <1>5, <1>7, PrintShows
<1>9. from = Place(term) /\ from \in Nat
  BY <1>1, <1>3, PlaceIs DEF PrintInv, Fresh
<1>10. start' = from + Len(text) /\ \A k \in 1..Len(text) : term'.video[from + k - 1] = text[k]
  BY <1>1, <1>6, <1>8, <1>9 DEF TextShown
<1> QED BY <1>9, <1>10 DEF text

\* The numbers that were printed stand on the screen until the next step.
THEOREM PrintInvariant == Spec => []PrintInv
<1>1. Init => PrintInv
  BY DEF Init, PrintInv
<1>2. IInv /\ PrintInv /\ [Next]_vars => PrintInv'
  <2> SUFFICES ASSUME IInv, PrintInv, [Next]_vars PROVE PrintInv'
    OBVIOUS
  <2>1. CASE PrintText
    BY <2>1, PrintTextShows
  <2>2. CASE readline
    <3>1. at' = "readline"
      BY <2>2 DEF readline
    <3> QED BY <3>1 DEF PrintInv
  <2>3. CASE ReadKey
    <3>1. at' = "readline"
      BY <2>3 DEF ReadKey
    <3> QED BY <3>1 DEF PrintInv
  <2>4. CASE readline_returns
    <3>1. at' = "done"
      BY <2>4 DEF readline_returns
    <3> QED BY <3>1 DEF PrintInv
  <2>5. CASE UNCHANGED vars
    BY <2>5 DEF vars, PrintInv
  <2> QED BY <2>1, <2>2, <2>3, <2>4, <2>5 DEF Next
<1> QED BY <1>1, <1>2, ConsoleInvariant, PTL DEF Spec

LEMMA OnScreenIs ==
  ASSUME IInv, PrintInv, at = "printed", arg.as \in {"d", "p"}
  PROVE  OnScreen = Shown(arg, IntMax)
<1> DEFINE text == Shown(arg, IntMax)
<1>1. text \in Seq(Glyphs)
  BY ShownIs DEF IInv
<1>2. /\ from \in Nat /\ start = from + Len(text)
      /\ \A k \in 1..Len(text) : term.video[from + k - 1] = text[k]
  BY DEF PrintInv
<1> HIDE DEF text
<1>3. start - from = Len(text) /\ Len(text) \in Nat
  BY <1>1, <1>2
<1>4. OnScreen = [n \in 1..Len(text) |-> term.video[from + n - 1]]
  BY <1>3 DEF OnScreen
<1>5. OnScreen = [n \in 1..Len(text) |-> text[n]]
  BY <1>2, <1>4, Zenon
<1>6. text = [n \in 1..Len(text) |-> text[n]]
  BY <1>1
<1> QED BY <1>5, <1>6 DEF text

LEMMA BehindSign ==
  ASSUME NEW G, NEW s \in Seq(G), NEW c
  PROVE  /\ Len(<<c>> \o s) = 1 + Len(s)
         /\ (<<c>> \o s)[1] = c
         /\ Tail(<<c>> \o s) = s
<1>1. s \in Seq(G \cup {c}) /\ <<c>> \in Seq(G \cup {c})
  OBVIOUS
<1> DEFINE w == <<c>> \o s
<1>2. w \in Seq(G \cup {c}) /\ Len(w) = 1 + Len(s) /\ w[1] = c
  BY <1>1
<1>3. \A k \in 1..Len(s) : w[k + 1] = s[k]
  BY <1>1
<1> HIDE DEF w
<1>4. /\ Tail(w) \in Seq(G \cup {c}) /\ Len(Tail(w)) = Len(s)
      /\ \A k \in 1..Len(s) : Tail(w)[k] = s[k]
  BY <1>1, <1>2, <1>3
<1>5. Tail(w) = s
  BY <1>1, <1>4, SeqEqual
<1> QED BY <1>2, <1>5 DEF w

LEMMA BehindPrefix ==
  ASSUME NEW G, NEW s \in Seq(G), NEW c \in G, NEW d \in G
  PROVE  /\ SubSeq(<<c, d>> \o s, 1, 2) = <<c, d>>
         /\ SubSeq(<<c, d>> \o s, 3, Len(<<c, d>> \o s)) = s
<1> DEFINE w == <<c, d>> \o s
<1>1. /\ w \in Seq(G) /\ Len(w) = 2 + Len(s) /\ Len(s) \in Nat /\ w[1] = c /\ w[2] = d
      /\ \A k \in 1..Len(s) : w[k + 2] = s[k]
  OBVIOUS
<1> HIDE DEF w
<1>2. SubSeq(w, 1, 2) = <<c, d>>
  <2>1. /\ SubSeq(w, 1, 2) \in Seq(G) /\ Len(SubSeq(w, 1, 2)) = 2
        /\ SubSeq(w, 1, 2)[1] = c /\ SubSeq(w, 1, 2)[2] = d
    BY <1>1
  <2>2. <<c, d>> \in Seq(G) /\ Len(<<c, d>>) = 2 /\ <<c, d>>[1] = c /\ <<c, d>>[2] = d
    OBVIOUS
  <2>3. \A k \in 1..2 : k = 1 \/ k = 2
    OBVIOUS
  <2> QED BY <2>1, <2>2, <2>3, SeqEqual
<1>3. SubSeq(w, 3, Len(w)) = s
  <2>1. /\ SubSeq(w, 3, Len(w)) \in Seq(G) /\ Len(SubSeq(w, 3, Len(w))) = Len(s)
        /\ \A k \in 1..Len(s) : SubSeq(w, 3, Len(w))[k] = s[k]
    BY <1>1
  <2> QED BY <2>1, SeqEqual
<1> QED BY <1>2, <1>3 DEF w

\* printk and printf put on the screen the digits of the number they are given, with a
\* minus sign before one that is negative and 0X before the hexadecimal ones, for every
\* int with %d, INT_MIN too, and for every one but 0 with %p.
THEOREM ConsoleShowsNumber == Spec => []NumberShown
<1>1. IInv /\ PrintInv => NumberShown
  <2> SUFFICES ASSUME IInv, PrintInv, at = "printed" PROVE NumberShown
    BY DEF NumberShown
  <2>0. arg \in Args
    BY DEF IInv
  <2>1. CASE arg.as = "d"
    <3>1. arg.value \in (-IntMax - 1)..IntMax /\ arg.value \in Int
      BY <2>0, <2>1, ConsoleConfig DEF Args, Numbers
    <3>2. OnScreen = itoa(arg.value, IntMax)
      BY <2>1, OnScreenIs DEF Shown
    <3>3. PICK digits \in Seq(DigitSet(10)) :
            /\ itoa(arg.value, IntMax) = (IF arg.value < 0 THEN <<"-">> ELSE <<>>) \o digits
            /\ Spells(digits, IF arg.value < 0 THEN -arg.value ELSE arg.value, 10)
      BY <3>1, ItoaText
    <3>4. CASE arg.value >= 0
      <4>1. ~(arg.value < 0)
        BY <3>1, <3>4
      <4>2. itoa(arg.value, IntMax) = <<>> \o digits /\ Spells(digits, arg.value, 10)
        BY <3>3, <4>1
      <4>3. <<>> \o digits = digits
        OBVIOUS
      <4>4. Spells(OnScreen, arg.value, 10)
        BY <3>2, <4>2, <4>3
      <4> QED BY <2>1, <3>4, <4>1, <4>4 DEF NumberShown
    <3>5. CASE arg.value < 0
      <4>1. ~(arg.value >= 0)
        BY <3>1, <3>5
      <4>2. OnScreen = <<"-">> \o digits /\ Spells(digits, -arg.value, 10)
        BY <3>2, <3>3, <3>5
      <4>3. digits # <<>> /\ Len(digits) \in Nat /\ Len(digits) # 0
        BY <4>2 DEF Spells
      <4>4. Len(OnScreen) > 1 /\ OnScreen[1] = "-" /\ Tail(OnScreen) = digits
        BY <4>2, <4>3, BehindSign
      <4>5. Spells(Tail(OnScreen), -arg.value, 10)
        BY <4>2, <4>4
      <4> QED BY <2>1, <3>5, <4>1, <4>4, <4>5 DEF NumberShown
    <3> QED BY <3>1, <3>4, <3>5
  <2>2. CASE arg.as = "p" /\ arg.value > 0
    <3>1. arg.value \in Nat /\ arg.value # 0
      BY <2>0, <2>2 DEF Args, Numbers
    <3>2. OnScreen = <<"0", "X">> \o decimal_to_hex(arg.value)
      BY <2>2, OnScreenIs DEF Shown
    <3>3. /\ decimal_to_hex(arg.value) \in Seq(DigitSet(16))
          /\ Spells(decimal_to_hex(arg.value), arg.value, 16)
      BY <3>1, HexText
    <3>4. PICK hex \in Seq(DigitSet(16) \cup {"0", "X"}) : hex = decimal_to_hex(arg.value)
      BY <3>3
    <3>5. SubSeq(OnScreen, 1, 2) = <<"0", "X">> /\ SubSeq(OnScreen, 3, Len(OnScreen)) = hex
      BY <3>2, <3>4, BehindPrefix
    <3>6. Spells(SubSeq(OnScreen, 3, Len(OnScreen)), arg.value, 16)
      BY <3>3, <3>4, <3>5
    <3> QED BY <2>2, <3>5, <3>6 DEF NumberShown
  <2>3. CASE arg.as # "d" /\ ~(arg.as = "p" /\ arg.value > 0)
    BY <2>3 DEF NumberShown
  <2> QED BY <2>1, <2>2, <2>3
<1> QED BY <1>1, ConsoleInvariant, PrintInvariant, PTL

-----------------------------------------------------------------------------
(* readline implements the line editor.                                    *)

Line == [k \in 1..i |-> buf[k - 1]]

LEMMA LineIs ==
  ASSUME IInv
  PROVE  /\ i \in Nat /\ Line \in Seq(Letters \cup {Erase}) /\ Len(Line) = i
         /\ \A k \in 1..i : Line[k] = buf[k - 1]
<1>1. i \in Nat
  BY ConsoleConfig DEF IInv
<1>2. \A k \in 1..i : k - 1 \in 0..(i - 1) /\ buf[k - 1] \in Letters \cup {Erase}
  <2>1. \A k \in 1..i : k - 1 \in 0..(i - 1)
    BY <1>1
  <2> QED BY <2>1 DEF IInv
<1>3. Line \in [1..i -> Letters \cup {Erase}]
  BY <1>2 DEF Line
<1>4. Line \in Seq(Letters \cup {Erase}) /\ Len(Line) = i
  BY <1>1, <1>3
<1> QED BY <1>1, <1>4 DEF Line

LEMMA EditorInit == Init => Editor!Init
<1> SUFFICES ASSUME Init PROVE Editor!Init
  OBVIOUS
<1>1. i = 0 /\ at = "print"
  BY DEF Init
<1>2. [k \in 1..i |-> buf[k - 1]] = <<>>
  <2>1. 1..i = {}
    BY <1>1
  <2> QED BY <2>1
<1>3. (at = "done") = FALSE
  BY <1>1
<1> QED BY <1>2, <1>3 DEF Editor!Init

LEMMA AppendIs ==
  ASSUME NEW S, NEW s \in Seq(S), NEW c \in S, NEW u,
         u = [k \in 1..(Len(s) + 1) |-> IF k = Len(s) + 1 THEN c ELSE s[k]]
  PROVE  u = Append(s, c)
<1>1. u \in Seq(S) /\ Len(u) = Len(s) + 1
  <2>1. Len(s) + 1 \in Nat /\ u \in [1..(Len(s) + 1) -> S]
    OBVIOUS
  <2> QED BY <2>1
<1>2. Append(s, c) \in Seq(S) /\ Len(Append(s, c)) = Len(s) + 1
  OBVIOUS
<1>3. \A k \in 1..(Len(s) + 1) : u[k] = Append(s, c)[k]
  OBVIOUS
<1> QED BY <1>1, <1>2, <1>3, SeqEqual

LEMMA FrontIs ==
  ASSUME NEW S, NEW s \in Seq(S), Len(s) >= 1, NEW u,
         u = [k \in 1..(Len(s) - 1) |-> s[k]]
  PROVE  u = Editor!Front(s)
<1>1. PICK n \in Nat : n = Len(s) - 1
  OBVIOUS
<1>2. u \in Seq(S) /\ Len(u) = n /\ \A k \in 1..n : u[k] = s[k]
  <2>1. u \in [1..n -> S]
    BY <1>1
  <2> QED BY <1>1, <2>1
<1>3. /\ SubSeq(s, 1, n) \in Seq(S) /\ Len(SubSeq(s, 1, n)) = n
      /\ \A k \in 1..n : SubSeq(s, 1, n)[k] = s[k]
  BY <1>1
<1>4. u = SubSeq(s, 1, n)
  BY <1>2, <1>3, SeqEqual
<1> QED BY <1>1, <1>4 DEF Editor!Front

LEMMA EditorKey ==
  ASSUME IInv, IInv', ReadKey
  PROVE  Editor!Next
<1>1. at = "readline" /\ at' = "readline" /\ i < BufSize - 1
  BY DEF ReadKey, Room
<1>2. PICK key \in Letters \cup {Erase} :
        buf' = Stored(buf, i, key).buf /\ i' = Stored(buf, i, key).i
  BY DEF ReadKey
<1>3. /\ i \in Nat /\ Line \in Seq(Letters \cup {Erase}) /\ Len(Line) = i
      /\ \A k \in 1..i : Line[k] = buf[k - 1]
  BY LineIs
<1>4. buf \in [0..(BufSize - 1) -> Chars]
  BY DEF IInv
<1>5. Line' = [k \in 1..i' |-> buf'[k - 1]]
  BY DEF Line
<1>6. CASE key = Erase /\ i >= 1
  <2>1. buf' = [buf EXCEPT ![i - 1] = NUL] /\ i' = i - 1
    BY <1>2, <1>6 DEF Stored
  <2>3. \A k \in 1..(i - 1) : buf'[k - 1] = Line[k]
    <3>1. \A k \in 1..(i - 1) : k \in 1..i /\ k - 1 \in 0..(BufSize - 1) /\ k - 1 # i - 1
      BY <1>1, <1>3, ConsoleConfig
    <3> QED BY <1>3, <1>4, <2>1, <3>1
  <2>4. Line' = Editor!Front(Line)
    <3>1. Line' = [k \in 1..(Len(Line) - 1) |-> Line[k]]
      BY <1>3, <1>5, <2>1, <2>3
    <3> QED BY <1>3, <1>6, <3>1, FrontIs
  <2>5. Line # <<>>
    BY <1>3, <1>6
  <2> HIDE DEF Line
  <2>6. Line' = IF Line = <<>> THEN <<Erase>> ELSE Editor!Front(Line)
    BY <2>4, <2>5
  <2> QED BY <1>1, <1>3, <2>6 DEF Editor!Next, Editor!Rub, Line
<1>7. CASE ~(key = Erase /\ i >= 1)
  <2>1. buf' = [buf EXCEPT ![i] = key] /\ i' = i + 1
    BY <1>2, <1>7 DEF Stored
  <2>2. \A k \in 1..(i + 1) : buf'[k - 1] = IF k = i + 1 THEN key ELSE Line[k]
    <3>1. \A k \in 1..i : k - 1 \in 0..(BufSize - 1) /\ k - 1 # i /\ k # i + 1
      BY <1>1, <1>3, ConsoleConfig
    <3>2. i \in 0..(BufSize - 1) /\ (i + 1) - 1 = i
      BY <1>1, <1>3, ConsoleConfig
    <3> QED BY <1>3, <1>4, <2>1, <3>1, <3>2
  <2>3. Line' = Append(Line, key)
    <3>1. Line' = [k \in 1..(Len(Line) + 1) |-> IF k = Len(Line) + 1 THEN key ELSE Line[k]]
      BY <1>3, <1>5, <2>1, <2>2
    <3>2. PICK S : S = Letters \cup {Erase}
      OBVIOUS
    <3>3. Line \in Seq(S) /\ key \in S
      BY <1>3, <3>2
    <3> QED BY <3>1, <3>3, AppendIs
  <2>4. CASE key # Erase
    <3>1. key \in (Letters \cup {Erase}) \ {Erase}
      BY <2>4
    <3> HIDE DEF Line
    <3> QED BY <1>1, <1>3, <2>3, <3>1 DEF Editor!Next, Editor!Type, Line
  <2>5. CASE key = Erase
    <3>1. i = 0 /\ Line = <<>>
      BY <1>3, <1>7, <2>5
    <3>2. Line' = <<Erase>>
      BY <2>3, <2>5, <3>1
    <3> HIDE DEF Line
    <3>3. Line' = IF Line = <<>> THEN <<Erase>> ELSE Editor!Front(Line)
      BY <3>1, <3>2
    <3> QED BY <1>1, <1>3, <3>3 DEF Editor!Next, Editor!Rub, Line
  <2> QED BY <2>4, <2>5
<1> QED BY <1>6, <1>7

LEMMA EditorStep ==
  ASSUME IInv, IInv', [Next]_vars
  PROVE  [Editor!Next]_<<Line, at = "done">>
<1>1. CASE PrintText
  <2>1. at = "print" /\ at' = "printed" /\ buf' = buf /\ i' = i
    BY <1>1 DEF PrintText
  <2> QED BY <2>1 DEF Line
<1>2. CASE readline
  <2>1. at = "printed" /\ at' = "readline" /\ buf' = buf /\ i' = i
    BY <1>2 DEF readline
  <2> QED BY <2>1 DEF Line
<1>3. CASE ReadKey
  BY <1>3, EditorKey
<1>4. CASE readline_returns
  <2>1. at = "readline" /\ at' = "done" /\ i' = i /\ buf' = [buf EXCEPT ![i] = NUL]
    BY <1>4 DEF readline_returns, Terminated
  <2>2. i \in Nat /\ i \in 0..(BufSize - 1) /\ buf \in [0..(BufSize - 1) -> Chars]
    BY LineIs DEF IInv
  <2>3. \A k \in 1..i : buf'[k - 1] = buf[k - 1]
    BY <2>1, <2>2, ConsoleConfig
  <2>4. Line' = Line
    BY <2>1, <2>3 DEF Line
  <2>5. ~(at = "done") /\ ((at' = "done") = TRUE)
    BY <2>1
  <2> QED BY <2>4, <2>5 DEF Editor!Next, Editor!Enter, Line
<1>5. CASE UNCHANGED vars
  <2>1. at' = at /\ buf' = buf /\ i' = i
    BY <1>5 DEF vars
  <2> QED BY <2>1 DEF Line
<1> QED BY <1>1, <1>2, <1>3, <1>4, <1>5 DEF Next

\* Whatever is printed before, the buffer of readline is a line that only grows at its
\* end and shrinks by its last character, and stays as it is once it is entered.
THEOREM ConsoleRefinesLineEditor == Spec => RefinesLineEditor
<1>1. IInv /\ IInv' /\ [Next]_vars => [Editor!Next]_<<[k \in 1..i |-> buf[k - 1]], at = "done">>
  BY EditorStep DEF Line
<1> QED BY <1>1, EditorInit, ConsoleInvariant, PTL DEF Spec, RefinesLineEditor, Editor!Spec

-----------------------------------------------------------------------------
(***************************************************************************)
(* The reader of these lines: the shell follows the pointer that strtok    *)
(* keeps, from one line to the next, and stays inside what was written,    *)
(* for every size of its buffer and every set of letters.                  *)
(***************************************************************************)

\* Every byte up to q was written.
Written(q) == \A r \in 0 .. q : buf[r] # Unset

\* A string that begins at p, or the line that is being typed and covers its
\* end, ends behind written bytes only.
EndsBehind(p) ==
  \E q \in p .. BufSize - 1 : Written(q) /\ (buf[q] = NUL \/ (step = "readline" /\ q < i))

LineIsTyped == step = "readline" => \A k \in 0 .. i - 1 : buf[k] \in Keys
PointerEnds == sp # Null => EndsBehind(sp)
LineEnds    == step = "strtok" => EndsBehind(0)

ShellInv == ShellTypeOK /\ LineIsTyped /\ PointerEnds /\ LineEnds

LEMMA ShellConstants ==
  /\ BufSize \in Nat /\ BufSize >= 1
  /\ NUL \notin Keys /\ Unset \notin Keys /\ NUL # Unset /\ Erase \in Keys
  /\ Positions = 0 .. BufSize - 1 /\ Null \notin Positions
<1>1. BufSize \in Nat \ {0}
  BY BufSizeAssumption
<1>2. BufSize \in Nat /\ BufSize >= 1 /\ -1 \notin 0 .. BufSize - 1
  BY <1>1
<1>3. Letters \cap {" ", "backspace", "NUL", "unset"} = {}
  BY CommandAssumption DEF NUL, Unset, Erase, Space
<1>4. "NUL" \notin Letters \cup {" ", "backspace"} /\ "unset" \notin Letters \cup {" ", "backspace"}
  BY <1>3
<1>5. "NUL" # "unset" /\ "backspace" \in Letters \cup {" ", "backspace"}
  OBVIOUS
<1> QED BY <1>2, <1>4, <1>5 DEF NUL, Unset, Erase, Space, Keys, Positions, Null

\* Find stays behind its start, and when what it looks for is there, it stops at
\* the first one.
LEMMA FindIs ==
  ASSUME NEW b, NEW p \in Positions, NEW set
  PROVE  /\ Find(b, p, set) \in p .. BufSize - 1
         /\ \A q \in p .. BufSize - 1 :
              b[q] \in set => Find(b, p, set) <= q /\ b[Find(b, p, set)] \in set
<1> DEFINE places == {q \in p .. BufSize - 1 : b[q] \in set}
<1>1. BufSize \in Nat /\ p \in 0 .. BufSize - 1
  BY ShellConstants
<1>2. CASE places = {}
  <2>1. Find(b, p, set) = BufSize - 1
    BY <1>2 DEF Find
  <2> QED BY <1>1, <1>2, <2>1
<1>3. CASE places # {}
  <2>1. places \in SUBSET Nat
    BY <1>1
  <2>2. PICK m \in places : \A y \in places : m <= y
    <3> HIDE DEF places
    <3>1. PICK m \in places : \A y \in places : ~(<<y, m>> \in OpToRel(<, Nat))
      BY <1>3, <2>1, NatLessThanWellFounded, WFMin
    <3>2. ASSUME NEW y \in places PROVE m <= y
      <4>1. ~(y < m)
        BY <2>1, <3>1 DEF OpToRel
      <4> QED BY <2>1, <4>1
    <3> QED BY <3>2
  <2>3. Find(b, p, set) = CHOOSE q \in places : \A r \in places : q <= r
    BY <1>3 DEF Find
  <2>4. Find(b, p, set) \in places /\ \A r \in places : Find(b, p, set) <= r
    <3> HIDE DEF places
    <3> QED BY <2>2, <2>3
  <2> QED BY <2>4
<1> QED BY <1>2, <1>3

\* The pointer that strtok keeps has the end of a string in front of it.
Followable(result) ==
  /\ result.word \in Positions \cup {Null}
  /\ result.sp \in Positions \cup {Null}
  /\ result.buf \in [Positions -> Keys \cup {NUL, Unset}]
  /\ result.sp # Null =>
       \E e \in result.sp .. BufSize - 1 :
         result.buf[e] = NUL /\ \A r \in 0 .. e : result.buf[r] # Unset

\* It has, when the string that strtok was given had one.
LEMMA StrtokIs ==
  ASSUME NEW str \in {0, Null}, NEW b \in [Positions -> Keys \cup {NUL, Unset}],
         NEW s \in Positions \cup {Null},
         NEW q \in Positions, b[q] = NUL, \A r \in 0 .. q : b[r] # Unset,
         s # Null => s <= q
  PROVE  Followable(strtok(str, b, s))
<1> DEFINE result == strtok(str, b, s)
           begin  == IF s = Null THEN str ELSE s
           first  == Find(b, begin, (Keys \cup {NUL, Unset}) \ {Space})
           last   == Find(b, first, {Space, NUL})
           Stops  == (str = Null /\ s = Null) \/ b[first] = NUL
<1> USE ShellConstants
<1>1. CASE Stops
  <2>1. result = [word |-> Null, sp |-> Null, buf |-> b]
    BY <1>1 DEF strtok
  <2>2. result.word = Null /\ result.sp = Null /\ result.buf = b
    BY <2>1
  <2> HIDE DEF result
  <2>3. Followable(result)
    BY <2>2 DEF Followable
  <2> QED BY <2>3 DEF result
<1>2. CASE ~Stops
  <2>1. begin \in Positions /\ begin <= q
    BY <1>2 DEF Null
  <2>2. NUL # Space
    BY DEF NUL, Space
  <2> HIDE DEF begin
  <2>3. first \in begin .. BufSize - 1 /\ first <= q
    BY <2>1, <2>2, FindIs
  <2>4. first \in Positions /\ first >= 0
    BY <2>1, <2>3
  <2>5. b[first] # NUL
    BY <1>2
  <2> HIDE DEF first
  <2>6. last \in first .. BufSize - 1 /\ last <= q /\ b[last] \in {Space, NUL}
    BY <2>3, <2>4, FindIs
  <2>7. result = [word |-> first, sp |-> IF b[last] = NUL THEN last ELSE last + 1,
                  buf |-> [b EXCEPT ![last] = NUL]]
    BY <1>2 DEF strtok, first, begin
  <2> HIDE DEF last, result
  <2>8. last \in Positions
    BY <2>4, <2>6
  <2> DEFINE c == [b EXCEPT ![last] = NUL]
  <2>9. /\ c \in [Positions -> Keys \cup {NUL, Unset}]
        /\ \A r \in Positions : c[r] = IF r = last THEN NUL ELSE b[r]
    BY <2>8
  <2> HIDE DEF c
  <2>10. result.word = first /\ result.buf = c
    BY <2>7 DEF c
  <2>11. CASE b[last] = NUL
    <3>1. result.sp = last
      BY <2>7, <2>11
    <3>2. c[last] = NUL /\ \A r \in 0 .. last : c[r] # Unset
      BY <2>6, <2>8, <2>9
    <3>3. last \in last .. BufSize - 1
      BY <2>6, <2>8
    <3>4. Followable(result)
      BY <2>4, <2>8, <2>9, <2>10, <3>1, <3>2, <3>3 DEF Followable
    <3> QED BY <3>4 DEF result
  <2>12. CASE b[last] # NUL
    <3>1. result.sp = last + 1
      BY <2>7, <2>12
    <3>2. last < q
      BY <2>6, <2>8, <2>12
    <3>3. last + 1 \in Positions /\ q \in last + 1 .. BufSize - 1
      BY <2>8, <3>2
    <3>4. c[q] = NUL /\ \A r \in 0 .. q : c[r] # Unset
      BY <2>9, <3>2
    <3>5. Followable(result)
      BY <2>4, <2>9, <2>10, <3>1, <3>3, <3>4 DEF Followable
    <3> QED BY <3>5 DEF result
  <2> QED BY <2>11, <2>12
<1> QED BY <1>1, <1>2

Bytes == Keys \cup {NUL, Unset}

LEMMA ShellTypes ==
  ASSUME ShellInv
  PROVE  /\ buf \in [Positions -> Bytes] /\ i \in Positions
         /\ sp \in Positions \cup {Null} /\ cmd \in Positions \cup {Null}
         /\ filename \in Positions \cup {Null}
         /\ typed \in Seq(Keys)
BY DEF ShellInv, ShellTypeOK, Bytes

LEMMA ShellInitInv == ShellInit => ShellInv
<1> SUFFICES ASSUME ShellInit PROVE ShellInv
  OBVIOUS
<1> USE ShellConstants
<1>1. ShellTypeOK
  <2>1. buf \in [Positions -> Keys \cup {NUL, Unset}] /\ i \in Positions
    BY DEF ShellInit
  <2>2. {sp, cmd, filename} \subseteq Positions \cup {Null} /\ typed \in Seq(Keys)
    BY DEF ShellInit
  <2>3. fresh \in BOOLEAN
    BY Zenon DEF ShellInit
  <2> QED BY <2>1, <2>2, <2>3 DEF ShellTypeOK, ShellInit
<1>2. LineIsTyped /\ PointerEnds /\ LineEnds
  BY DEF ShellInit, LineIsTyped, PointerEnds, LineEnds
<1> QED BY <1>1, <1>2 DEF ShellInv

\* A key goes behind the line or takes its last character away; in either case
\* what the pointer needs is there or covered by the line.
LEMMA ShellReadKeyInv == ShellInv /\ ShellReadKey => ShellInv'
<1> SUFFICES ASSUME ShellInv, ShellReadKey PROVE ShellInv'
  OBVIOUS
<1> USE ShellConstants
<1>1. /\ buf \in [Positions -> Bytes] /\ i \in 0 .. BufSize - 1
      /\ step = "readline" /\ i < BufSize - 1
      /\ step' = step /\ sp' = sp /\ cmd' = cmd /\ filename' = filename /\ typed' = typed /\ fresh' = fresh
      /\ \A k \in 0 .. i - 1 : buf[k] \in Keys
  BY ShellTypes DEF ShellReadKey, Room, ShellInv, LineIsTyped
<1>2. PICK key \in Keys :
        \/ i >= 1 /\ buf' = [buf EXCEPT ![i - 1] = NUL] /\ i' = i - 1
        \/ buf' = [buf EXCEPT ![i] = key] /\ i' = i + 1
  <2>1. PICK key \in Keys : buf' = Stored(buf, i, key).buf /\ i' = Stored(buf, i, key).i
    BY DEF ShellReadKey
  <2>2. CASE key = Erase /\ i >= 1
    BY <2>1, <2>2 DEF Stored
  <2>3. CASE ~(key = Erase /\ i >= 1)
    BY <2>1, <2>3 DEF Stored
  <2> QED BY <2>2, <2>3
<1>3. PICK j \in 0 .. BufSize - 1, c \in Bytes :
        /\ buf' = [buf EXCEPT ![j] = c] /\ c # Unset
        /\ \/ j = i - 1 /\ i' = i - 1 /\ c = NUL
           \/ j = i /\ i' = i + 1 /\ c \in Keys
  <2>1. CASE i >= 1 /\ buf' = [buf EXCEPT ![i - 1] = NUL] /\ i' = i - 1
    <3>1. i - 1 \in 0 .. BufSize - 1 /\ NUL \in Bytes
      BY <1>1, <2>1 DEF Bytes
    <3> QED BY <2>1, <3>1
  <2>2. CASE buf' = [buf EXCEPT ![i] = key] /\ i' = i + 1
    <3>1. key \in Bytes
      BY DEF Bytes
    <3> QED BY <1>1, <2>2, <3>1
  <2> QED BY <1>2, <2>1, <2>2
<1>4. /\ buf' \in [Positions -> Bytes]
      /\ \A r \in Positions : buf'[r] = IF r = j THEN c ELSE buf[r]
  BY <1>1, <1>3
<1>5. i' \in Positions
  BY <1>1, <1>3
<1>6. ShellTypeOK'
  <2>1. fresh' \in BOOLEAN
    BY <1>1 DEF ShellInv, ShellTypeOK
  <2> QED BY <1>1, <1>4, <1>5, <2>1 DEF ShellInv, ShellTypeOK, Bytes
<1>7. LineIsTyped'
  BY <1>1, <1>3, <1>4 DEF LineIsTyped
<1>8. PointerEnds'
  <2> SUFFICES ASSUME sp # Null PROVE EndsBehind(sp)'
    BY <1>1 DEF PointerEnds
  <2>1. PICK q \in sp .. BufSize - 1 : Written(q) /\ (buf[q] = NUL \/ q < i)
    BY <1>1 DEF ShellInv, PointerEnds, EndsBehind
  <2>2. sp \in 0 .. BufSize - 1 /\ q \in 0 .. BufSize - 1
    BY ShellTypes
  <2>3. Written(q)'
    BY <1>3, <1>4, <2>1, <2>2 DEF Written
  <2>4. buf'[q] = NUL \/ q < i'
    BY <1>1, <1>3, <1>4, <2>1, <2>2
  <2> QED BY <1>1, <2>1, <2>3, <2>4 DEF EndsBehind
<1>9. LineEnds'
  BY <1>1 DEF LineEnds
<1> QED BY <1>6, <1>7, <1>8, <1>9 DEF ShellInv

\* The end that the line gets is an end for the pointer too, when the line has
\* grown over the one the pointer had.
LEMMA ShellReturnsInv == ShellInv /\ ShellReadsLine => ShellInv'
<1> SUFFICES ASSUME ShellInv, ShellReadsLine PROVE ShellInv'
  OBVIOUS
<1> USE ShellConstants
<1>1. /\ buf \in [Positions -> Bytes] /\ i \in 0 .. BufSize - 1
      /\ step = "readline" /\ step' = "strtok"
      /\ i' = i /\ sp' = sp /\ cmd' = cmd /\ filename' = filename
      /\ \A k \in 0 .. i - 1 : buf[k] \in Keys
  BY ShellTypes DEF ShellReadsLine, ShellInv, LineIsTyped
<1>2. buf' = [buf EXCEPT ![i] = NUL]
  BY DEF ShellReadsLine, Terminated
<1>3. /\ buf' \in [Positions -> Bytes]
      /\ \A r \in Positions : buf'[r] = IF r = i THEN NUL ELSE buf[r]
  BY <1>1, <1>2 DEF Bytes
<1>4. typed' \in Seq(Keys)
  <2>1. typed' = [k \in 1 .. i |-> buf[k - 1]]
    BY DEF ShellReadsLine
  <2>2. \A k \in 1 .. i : buf[k - 1] \in Keys
    BY <1>1
  <2>3. typed' \in [1 .. i -> Keys]
    BY <2>1, <2>2
  <2> QED BY <1>1, <2>3
<1>5. ShellTypeOK'
  <2>1. fresh' \in BOOLEAN
    BY Zenon DEF ShellReadsLine
  <2>2. {sp', cmd', filename'} \subseteq Positions \cup {Null}
    BY <1>1, ShellTypes
  <2> QED BY <1>1, <1>3, <1>4, <2>1, <2>2 DEF ShellTypeOK, Bytes
<1>6. Written(i)'
  BY <1>1, <1>3 DEF Written
<1>7. buf'[i] = NUL
  BY <1>1, <1>3
<1>8. PointerEnds'
  <2> SUFFICES ASSUME sp # Null PROVE EndsBehind(sp)'
    BY <1>1 DEF PointerEnds
  <2>1. PICK q \in sp .. BufSize - 1 : Written(q) /\ (buf[q] = NUL \/ q < i)
    BY <1>1 DEF ShellInv, PointerEnds, EndsBehind
  <2>2. sp \in 0 .. BufSize - 1 /\ q \in 0 .. BufSize - 1
    BY ShellTypes
  <2>3. CASE q < i
    <3>1. i \in sp .. BufSize - 1
      BY <1>1, <2>2, <2>3
    <3> QED BY <1>1, <1>6, <1>7, <3>1 DEF EndsBehind
  <2>4. CASE ~(q < i)
    <3>1. buf'[q] = NUL
      BY <1>3, <2>1, <2>2, <2>4
    <3>2. Written(q)'
      BY <1>3, <2>1, <2>2 DEF Written
    <3> QED BY <1>1, <2>1, <3>1, <3>2 DEF EndsBehind
  <2> QED BY <2>3, <2>4
<1>9. LineEnds'
  BY <1>1, <1>6, <1>7 DEF LineEnds, EndsBehind
<1>10. LineIsTyped'
  BY <1>1 DEF LineIsTyped
<1> QED BY <1>5, <1>8, <1>9, <1>10 DEF ShellInv

\* Both calls of strtok: afterwards the shell is somewhere else, not in readline.
LEMMA ShellStrtokInv ==
  ASSUME ShellInv, step # "readline",
         NEW str \in {0, Null}, NEW q \in Positions,
         Written(q), buf[q] = NUL, sp # Null => sp <= q,
         step' \in {"strncmp", "exec"}, i' = i, typed' = typed, fresh' = fresh,
         buf' = strtok(str, buf, sp).buf, sp' = strtok(str, buf, sp).sp,
         {cmd', filename'} \subseteq {cmd, filename, strtok(str, buf, sp).word}
  PROVE  ShellInv'
<1> USE ShellConstants
<1> DEFINE result == strtok(str, buf, sp)
<1>1. Followable(result)
  <2>1. buf \in [Positions -> Keys \cup {NUL, Unset}] /\ sp \in Positions \cup {Null}
    BY ShellTypes DEF Bytes
  <2>2. \A r \in 0 .. q : buf[r] # Unset
    BY DEF Written
  <2> QED BY <2>1, <2>2, StrtokIs
<1> HIDE DEF result
<1>2. buf' = result.buf /\ sp' = result.sp /\ {cmd', filename'} \subseteq {cmd, filename, result.word}
  BY DEF result
<1>3. ShellTypeOK'
  <2>1. fresh' \in BOOLEAN
    BY DEF ShellInv, ShellTypeOK
  <2>2. {sp', cmd', filename'} \subseteq Positions \cup {Null}
    BY <1>1, <1>2, ShellTypes DEF Followable
  <2>3. buf' \in [Positions -> Keys \cup {NUL, Unset}] /\ i' \in Positions /\ typed' \in Seq(Keys)
    BY <1>1, <1>2, ShellTypes DEF Followable
  <2> QED BY <2>1, <2>2, <2>3 DEF ShellTypeOK
<1>4. PointerEnds'
  BY <1>1, <1>2 DEF PointerEnds, EndsBehind, Followable, Written
<1>5. LineIsTyped' /\ LineEnds'
  BY DEF LineIsTyped, LineEnds
<1> QED BY <1>3, <1>4, <1>5 DEF ShellInv

LEMMA ShellCommandInv == ShellInv /\ strtok_command => ShellInv'
<1> SUFFICES ASSUME ShellInv, strtok_command PROVE ShellInv'
  OBVIOUS
<1> USE ShellConstants
<1>1. step = "strtok" /\ step' = "strncmp" /\ i' = i /\ filename' = filename /\ typed' = typed /\ fresh' = fresh
  BY DEF strtok_command
<1>2. /\ cmd' = strtok(0, buf, sp).word /\ sp' = strtok(0, buf, sp).sp
      /\ buf' = strtok(0, buf, sp).buf
  BY DEF strtok_command
<1>3. PICK q \in Positions : Written(q) /\ buf[q] = NUL /\ (sp # Null => sp <= q)
  <2>1. CASE sp = Null
    <3>1. PICK q \in 0 .. BufSize - 1 : Written(q) /\ (buf[q] = NUL \/ (step = "readline" /\ q < i))
      BY <1>1 DEF ShellInv, LineEnds, EndsBehind
    <3> QED BY <1>1, <2>1, <3>1
  <2>2. CASE sp # Null
    <3>1. PICK q \in sp .. BufSize - 1 : Written(q) /\ (buf[q] = NUL \/ (step = "readline" /\ q < i))
      BY <2>2 DEF ShellInv, PointerEnds, EndsBehind
    <3>2. sp \in Positions
      BY <2>2, ShellTypes
    <3> QED BY <1>1, <3>1, <3>2
  <2> QED BY <2>1, <2>2
<1>4. {cmd', filename'} \subseteq {cmd, filename, strtok(0, buf, sp).word}
  BY <1>1, <1>2
<1> QED BY <1>1, <1>2, <1>3, <1>4, ShellStrtokInv

LEMMA ShellFilenameInv == ShellInv /\ strtok_filename => ShellInv'
<1> SUFFICES ASSUME ShellInv, strtok_filename PROVE ShellInv'
  OBVIOUS
<1> USE ShellConstants
<1>1. step = "filename" /\ step' = "exec" /\ i' = i /\ cmd' = cmd /\ typed' = typed /\ fresh' = fresh
  BY DEF strtok_filename
<1>2. /\ filename' = strtok(Null, buf, sp).word /\ sp' = strtok(Null, buf, sp).sp
      /\ buf' = strtok(Null, buf, sp).buf
  BY DEF strtok_filename
<1>3. CASE sp = Null
  <2>1. strtok(Null, buf, sp) = [word |-> Null, sp |-> Null, buf |-> buf]
    BY <1>3 DEF strtok
  <2>2. filename' = Null /\ sp' = Null /\ buf' = buf
    BY <1>2, <2>1
  <2>3. ShellTypeOK'
    <3>1. fresh' \in BOOLEAN
      BY <1>1 DEF ShellInv, ShellTypeOK
    <3>2. {sp', cmd', filename'} \subseteq Positions \cup {Null}
      BY <1>1, <2>2, ShellTypes
    <3> QED BY <1>1, <2>2, <3>1, <3>2, ShellTypes DEF ShellTypeOK, Bytes
  <2>4. PointerEnds' /\ LineIsTyped' /\ LineEnds'
    BY <1>1, <2>2 DEF PointerEnds, LineIsTyped, LineEnds
  <2> QED BY <2>3, <2>4 DEF ShellInv
<1>4. CASE sp # Null
  <2>1. PICK q \in sp .. BufSize - 1 : Written(q) /\ (buf[q] = NUL \/ (step = "readline" /\ q < i))
    BY <1>4 DEF ShellInv, PointerEnds, EndsBehind
  <2>2. sp \in Positions
    BY <1>4, ShellTypes
  <2>3. q \in Positions /\ sp <= q /\ buf[q] = NUL
    BY <1>1, <2>1, <2>2
  <2>4. {cmd', filename'} \subseteq {cmd, filename, strtok(Null, buf, sp).word}
    BY <1>1, <1>2
  <2> QED BY <1>1, <1>2, <2>1, <2>3, <2>4, ShellStrtokInv
<1> QED BY <1>3, <1>4

\* The buffer and the pointer stay as they are.
LEMMA ShellQuietInv ==
  ASSUME ShellInv, step # "readline" \/ (step' = step /\ i' = i), step' # "strtok" \/ step' = step,
         step' \in {"readline", "strtok", "strncmp", "filename", "exec", "gone"},
         step' = "readline" => i' = 0 \/ step = step',
         i' \in Positions, buf' = buf, sp' = sp, typed' = typed, fresh' = fresh,
         {cmd', filename'} \subseteq {cmd, filename, Null}
  PROVE  ShellInv'
<1> USE ShellConstants
<1>1. ShellTypeOK'
  <2>1. fresh' \in BOOLEAN
    BY DEF ShellInv, ShellTypeOK
  <2>2. {sp', cmd', filename'} \subseteq Positions \cup {Null}
    BY ShellTypes
  <2>3. step' \in {"readline", "strtok", "strncmp", "filename", "exec", "gone"}
    OBVIOUS
  <2>4. buf' \in [Positions -> Keys \cup {NUL, Unset}] /\ typed' \in Seq(Keys)
    BY ShellTypes DEF Bytes
  <2> QED BY <2>1, <2>2, <2>3, <2>4 DEF ShellTypeOK
<1>2. CASE step # "readline"
  <2>1. PointerEnds'
    BY <1>2 DEF ShellInv, PointerEnds, EndsBehind, Written
  <2>2. LineEnds'
    BY <1>2 DEF ShellInv, LineEnds, EndsBehind, Written
  <2>3. LineIsTyped'
    BY <1>2 DEF LineIsTyped
  <2> QED BY <1>1, <2>1, <2>2, <2>3 DEF ShellInv
<1>3. CASE step = "readline"
  <2>1. step' = step /\ i' = i
    BY <1>3
  <2> QED BY <1>1, <1>3, <2>1 DEF ShellInv, PointerEnds, LineEnds, LineIsTyped, EndsBehind, Written
<1> QED BY <1>2, <1>3

\* The inductive invariant of the shell: the string that strtok's pointer stands
\* in ends behind bytes that were written, or the line being typed has reached it.
THEOREM ShellInvariant == ShellSpec => []ShellInv
<1>1. ShellInit => ShellInv
  BY ShellInitInv
<1>2. ShellInv /\ [ShellNext]_(shellVars) => ShellInv'
  <2> SUFFICES ASSUME ShellInv, [ShellNext]_(shellVars) PROVE ShellInv'
    OBVIOUS
  <2>1. CASE ShellReadKey
    BY <2>1, ShellReadKeyInv
  <2>2. CASE ShellReadsLine
    BY <2>2, ShellReturnsInv
  <2>3. CASE strtok_command
    BY <2>3, ShellCommandInv
  <2>4. CASE strtok_filename
    BY <2>4, ShellFilenameInv
  <2>0. 0 \in Positions /\ i \in Positions
    BY ShellConstants, ShellTypes
  <2>5. CASE strncmp_run
    <3>1. /\ step = "strncmp" /\ step' \in {"filename", "readline"}
          /\ (step' = "readline" => i' = 0) /\ i' \in Positions
          /\ cmd' \in {cmd, Null}
      <4>1. CASE IsCommand
        BY <2>0, <2>5, <4>1 DEF strncmp_run
      <4>2. CASE ~IsCommand
        BY <2>0, <2>5, <4>2 DEF strncmp_run
      <4> QED BY <4>1, <4>2
    <3>2. buf' = buf /\ sp' = sp /\ filename' = filename /\ typed' = typed /\ fresh' = fresh
      BY <2>5 DEF strncmp_run
    <3> QED BY <3>1, <3>2, ShellQuietInv
  <2>6. CASE exec
    <3>1. /\ step = "exec" /\ step' \in {"gone", "readline"}
          /\ (step' = "readline" => i' = 0) /\ i' \in Positions
          /\ cmd' \in {cmd, Null} /\ filename' \in {filename, Null}
      BY <2>0, <2>6 DEF exec
    <3>2. buf' = buf /\ sp' = sp /\ typed' = typed /\ fresh' = fresh
      BY <2>6 DEF exec
    <3> QED BY <3>1, <3>2, ShellQuietInv
  <2>7. CASE UNCHANGED shellVars
    <3>1. /\ step' = step /\ i' = i /\ buf' = buf /\ sp' = sp /\ cmd' = cmd /\ filename' = filename
          /\ typed' = typed /\ fresh' = fresh
      BY <2>7 DEF shellVars
    <3>2. step \in {"readline", "strtok", "strncmp", "filename", "exec", "gone"}
      BY DEF ShellInv, ShellTypeOK
    <3> QED BY <2>0, <3>1, <3>2, ShellQuietInv
  <2> QED BY <2>1, <2>2, <2>3, <2>4, <2>5, <2>6, <2>7 DEF ShellNext, Steps
<1> QED BY <1>1, <1>2, PTL DEF ShellSpec

\* When strtok is called with a pointer left from an earlier line, it reads no
\* byte that was never written, and none behind the buffer.
THEOREM ShellPointerStaysInside == ShellSpec => []PointerInv
<1>1. ShellInv => PointerInv
  <2> SUFFICES ASSUME ShellInv, step \in {"strtok", "filename"}, sp # Null
               PROVE  \E q \in sp .. BufSize - 1 : buf[q] = NUL /\ \A r \in sp .. q : buf[r] # Unset
    BY DEF ShellInv, PointerInv, ReadsOnlyWritten
  <2>1. PICK q \in sp .. BufSize - 1 : Written(q) /\ buf[q] = NUL
    BY DEF ShellInv, PointerEnds, EndsBehind
  <2>2. sp \in 0 .. BufSize - 1
    BY ShellConstants, ShellTypes
  <2> QED BY <2>1, <2>2 DEF Written
<1> QED BY <1>1, ShellInvariant, PTL

-----------------------------------------------------------------------------
(***************************************************************************)
(* A line that is read while the pointer is null: strtok finds its first   *)
(* word and then its second, and the shell starts what the line says.      *)
(***************************************************************************)

N == Len(typed)

\* typed[first + 1 .. last] is the first word behind p.
IsWord(p, first, last) ==
  /\ first \in p .. N - 1 /\ last \in first + 1 .. N
  /\ \A k \in p + 1 .. first : typed[k] = Space
  /\ \A k \in first + 1 .. last : typed[k] # Space
  /\ last = N \/ typed[last + 1] = Space

\* Where strtok goes on behind a word: the end of the string is not skipped.
Behind(last) == IF last = N THEN N ELSE last + 1

\* From p on the line is in the buffer b as it was typed.
Stores(b, p) ==
  N \in Positions /\ b[N] = NUL /\ \A k \in p + 1 .. N : b[k - 1] = typed[k]

\* The command has been found in the first word.
CommandFound(first, last) ==
  /\ IsWord(0, first, last)
  /\ cmd = first /\ buf[first] = typed[first + 1]
  /\ sp = Behind(last) /\ Stores(buf, Behind(last))
  /\ String(buf, first) = SubSeq(typed, first + 1, last)

FreshLine ==
  fresh =>
    /\ step = "strtok" => sp = Null /\ Stores(buf, 0)
    /\ step = "strncmp" => \/ cmd = Null /\ Word(1) = <<>>
                           \/ \E first, last \in 0 .. N : CommandFound(first, last)
    /\ step = "filename" => \E first, last \in 0 .. N : CommandFound(first, last) /\ typed[first + 1] = Command
    /\ step = "exec" => Word(1) # <<>> /\ Word(1)[1] = Command /\ WordAt(filename) = Word(2)

LEMMA TypedIs ==
  ASSUME typed \in Seq(Keys)
  PROVE  /\ N \in Nat /\ DOMAIN typed = 1 .. N /\ \A k \in 1 .. N : typed[k] \in Keys
         /\ \A m, k \in 0 .. N : /\ m < k => SubSeq(typed, m + 1, k) \in Seq(Keys)
                                 /\ m < k => Len(SubSeq(typed, m + 1, k)) = k - m
                                 /\ \A r \in 1 .. k - m : SubSeq(typed, m + 1, k)[r] = typed[m + r]
<1>1. N \in Nat /\ DOMAIN typed = 1 .. N /\ \A k \in 1 .. N : typed[k] \in Keys
  BY DEF N
<1> HIDE DEF N
<1>2. ASSUME NEW m \in 0 .. N, NEW k \in 0 .. N
      PROVE  /\ m < k => SubSeq(typed, m + 1, k) \in Seq(Keys)
             /\ m < k => Len(SubSeq(typed, m + 1, k)) = k - m
             /\ \A r \in 1 .. k - m : SubSeq(typed, m + 1, k)[r] = typed[m + r]
  <2>1. PICK lo \in Int : lo = m + 1
    BY <1>1
  <2>2. \A r \in lo .. k : typed[r] \in Keys
    BY <1>1, <2>1
  <2>3. /\ SubSeq(typed, lo, k) \in Seq(Keys)
        /\ Len(SubSeq(typed, lo, k)) = IF lo <= k THEN k - lo + 1 ELSE 0
        /\ \A r \in 1 .. k - lo + 1 : SubSeq(typed, lo, k)[r] = typed[lo + r - 1]
    BY <1>1, <2>2, SubSeqProperties
  <2>4. k - lo + 1 = k - m /\ (m < k => lo <= k) /\ \A r \in 1 .. k - m : lo + r - 1 = m + r
    BY <1>1, <2>1
  <2> QED BY <2>1, <2>3, <2>4
<1> QED BY <1>1, <1>2

\* The first word behind p begins and ends where it does.
LEMMA WordEnds ==
  ASSUME typed \in Seq(Keys), NEW p \in 0 .. N, NEW first, NEW last, IsWord(p, first, last)
  PROVE  End(typed, first + 1) = last
<1>1. N \in Nat /\ first \in 0 .. N - 1 /\ last \in first + 1 .. N
  BY TypedIs DEF IsWord
<1> DEFINE Ends(e) == (\A m \in first + 1 .. e : typed[m] # Space) /\ (e = N \/ typed[e + 1] = Space)
<1>2. Ends(last)
  BY DEF IsWord
<1>3. ASSUME NEW e \in first + 1 .. N, Ends(e) PROVE e = last
  <2>1. CASE e < last
    <3>1. e + 1 \in first + 1 .. last /\ e # N
      BY <1>1, <2>1
    <3> QED BY <1>2, <1>3, <3>1
  <2>2. CASE e > last
    <3>1. last + 1 \in first + 1 .. e /\ last # N
      BY <1>1, <2>2
    <3> QED BY <1>2, <1>3, <3>1
  <2> QED BY <1>1, <2>1, <2>2
<1>4. (CHOOSE e \in first + 1 .. N : Ends(e)) = last
  <2> HIDE DEF Ends
  <2> QED BY <1>1, <1>2, <1>3
<1> QED BY <1>4 DEF End, N

LEMMA NoSmaller ==
  ASSUME NEW S, NEW k, Cardinality({m \in S : m < k}) = 0, IsFiniteSet(S)
  PROVE  \A m \in S : ~(m < k)
<1> DEFINE T == {m \in S : m < k}
<1>1. T = {}
  <2>1. IsFiniteSet(T)
    BY FS_Subset
  <2> HIDE DEF T
  <2>2. Cardinality(T) = 0
    BY DEF T
  <2> QED BY <2>1, <2>2, FS_EmptySet
<1> QED BY <1>1

\* Where words begin, as far as the first two are concerned.
LEMMA BeginsIs ==
  ASSUME typed \in Seq(Keys), NEW first, NEW last, IsWord(0, first, last)
  PROVE  /\ Begins(typed) \subseteq 1 .. N /\ IsFiniteSet(Begins(typed))
         /\ first + 1 \in Begins(typed)
         /\ \A k \in Begins(typed) : k = first + 1 \/ k > last + 1
<1>1. /\ N \in Nat /\ DOMAIN typed = 1 .. N
      /\ first \in 0 .. N - 1 /\ last \in first + 1 .. N
  BY TypedIs DEF IsWord
<1>2. Begins(typed) \subseteq 1 .. N
  BY <1>1 DEF Begins
<1>3. IsFiniteSet(Begins(typed))
  <2>1. IsFiniteSet(1 .. N)
    BY <1>1, FS_Interval
  <2> QED BY <1>2, <2>1, FS_Subset, Zenon
<1>4. first + 1 \in Begins(typed)
  <2>1. first + 1 \in 1 .. N /\ first + 1 \in first + 1 .. last
    BY <1>1
  <2>2. typed[first + 1] # Space
    BY <2>1 DEF IsWord
  <2>3. first + 1 = 1 \/ typed[first] = Space
    <3>1. first = 0 \/ first \in 0 + 1 .. first
      BY <1>1
    <3> QED BY <1>1, <3>1 DEF IsWord
  <2>4. (first + 1) - 1 = first
    BY <1>1
  <2> QED BY <1>1, <2>1, <2>2, <2>3, <2>4 DEF Begins
<1>5. ASSUME NEW k \in Begins(typed), k # first + 1, ~(k > last + 1) PROVE FALSE
  <2>1. k \in 1 .. N /\ typed[k] # Space /\ (k = 1 \/ typed[k - 1] = Space)
    BY <1>1 DEF Begins
  <2>2. CASE k <= first
    <3>1. k \in 0 + 1 .. first
      BY <1>1, <2>1, <2>2
    <3> QED BY <2>1, <3>1 DEF IsWord
  <2>3. CASE k > first + 1 /\ k <= last + 1
    <3>1. k - 1 \in first + 1 .. last /\ k # 1
      BY <1>1, <2>1, <2>3
    <3> QED BY <2>1, <3>1 DEF IsWord
  <2> QED BY <1>1, <1>5, <2>1, <2>2, <2>3
<1> QED BY <1>2, <1>3, <1>4, <1>5

\* The places that Word looks for.
Nth(n) == {k \in Begins(typed) : Cardinality({m \in Begins(typed) : m < k}) = n - 1}

LEMMA NoWordIs ==
  ASSUME NEW n, Nth(n) = {} PROVE Word(n) = <<>>
BY DEF Word, Nth

LEMMA WordIs ==
  ASSUME typed \in Seq(Keys), NEW n, NEW p \in 0 .. N, NEW first, NEW last,
         IsWord(p, first, last), Nth(n) = {first + 1}
  PROVE  Word(n) = SubSeq(typed, first + 1, last)
<1>1. (CHOOSE k \in Nth(n) : TRUE) = first + 1
  OBVIOUS
<1>2. Word(n) = SubSeq(typed, first + 1, End(typed, first + 1))
  BY <1>1 DEF Word, Nth
<1> QED BY <1>2, WordEnds

LEMMA FirstNth ==
  ASSUME typed \in Seq(Keys), NEW first, NEW last, IsWord(0, first, last)
  PROVE  Nth(1) = {first + 1} /\ {m \in Begins(typed) : m < first + 1} = {}
<1> DEFINE B == Begins(typed)
           Before(k) == {m \in B : m < k}
<1>1. /\ N \in Nat /\ first \in 0 .. N - 1 /\ last \in first + 1 .. N
      /\ B \subseteq 1 .. N /\ IsFiniteSet(B) /\ first + 1 \in B
      /\ \A k \in B : k = first + 1 \/ k > last + 1
  BY TypedIs, BeginsIs DEF IsWord
<1>2. Nth(1) = {k \in B : Cardinality(Before(k)) = 0}
  BY DEF Nth
<1> HIDE DEF B
<1>3. Before(first + 1) = {}
  <2>1. ASSUME NEW m \in B, m < first + 1 PROVE FALSE
    <3>1. m \in Nat /\ (m = first + 1 \/ m > last + 1)
      BY <1>1
    <3> QED BY <1>1, <2>1, <3>1
  <2> QED BY <2>1
<1>4. Cardinality(Before(first + 1)) = 0
  BY <1>3, FS_EmptySet
<1>5. ASSUME NEW k \in B, Cardinality(Before(k)) = 0 PROVE k = first + 1
  <2>1. \A m \in B : ~(m < k)
    BY <1>1, <1>5, NoSmaller
  <2>2. ~(first + 1 < k)
    BY <1>1, <2>1
  <2> QED BY <1>1, <2>2
<1> HIDE DEF Before
<1>6. Nth(1) = {first + 1}
  BY <1>1, <1>2, <1>4, <1>5
<1> QED BY <1>3, <1>6 DEF Before, B

LEMMA SecondNth ==
  ASSUME typed \in Seq(Keys), NEW first, NEW last, IsWord(0, first, last),
         NEW begin, NEW end, IsWord(Behind(last), begin, end)
  PROVE  Nth(2) = {begin + 1}
<1> DEFINE B == Begins(typed)
           Before(k) == {m \in B : m < k}
<1>1. /\ N \in Nat /\ first \in 0 .. N - 1 /\ last \in first + 1 .. N
      /\ B \subseteq 1 .. N /\ IsFiniteSet(B) /\ first + 1 \in B
      /\ \A k \in B : k = first + 1 \/ k > last + 1
  BY TypedIs, BeginsIs DEF IsWord
<1>2. /\ last < N /\ Behind(last) = last + 1 /\ typed[last + 1] = Space
      /\ begin \in last + 1 .. N - 1 /\ end \in begin + 1 .. N
  BY <1>1 DEF IsWord, Behind
<1>3. begin + 1 \in B
  <2>1. begin + 1 \in 1 .. N /\ begin + 1 \in begin + 1 .. end /\ (begin + 1) - 1 = begin /\ DOMAIN typed = 1 .. N
    BY <1>1, <1>2, TypedIs
  <2>2. typed[begin + 1] # Space
    BY <2>1 DEF IsWord
  <2>3. typed[begin] = Space
    <3>1. begin = last + 1 \/ begin \in Behind(last) + 1 .. begin
      BY <1>1, <1>2
    <3> QED BY <1>2, <3>1 DEF IsWord
  <2> QED BY <2>1, <2>2, <2>3 DEF Begins
<1>4. ASSUME NEW k \in B, k > last + 1, k < begin + 1 PROVE FALSE
  <2>1. k \in Behind(last) + 1 .. begin
    BY <1>1, <1>2, <1>4
  <2>2. typed[k] = Space
    BY <2>1 DEF IsWord
  <2> QED BY <2>2 DEF Begins
<1>5. Nth(2) = {k \in B : Cardinality(Before(k)) = 1}
  BY DEF Nth
<1> HIDE DEF B
<1>6. Before(begin + 1) = {first + 1}
  <2>1. ASSUME NEW m \in B, m < begin + 1 PROVE m = first + 1
    BY <1>1, <1>4, <2>1
  <2>2. first + 1 < begin + 1
    BY <1>1, <1>2
  <2> QED BY <1>1, <2>1, <2>2
<1>7. Cardinality(Before(begin + 1)) = 1
  BY <1>6, FS_Singleton
<1>8. ASSUME NEW k \in B, Cardinality(Before(k)) = 1 PROVE k = begin + 1
  <2>1. IsFiniteSet(Before(k))
    BY <1>1, FS_Subset
  <2> HIDE DEF Before
  <2>2. PICK x : Before(k) = {x}
    BY <1>8, <2>1, FS_Singleton
  <2>3. CASE k = first + 1
    <3>1. x \in B /\ x < k
      BY <2>2 DEF Before
    <3> QED BY <1>1, <2>3, <3>1
  <2>4. CASE k > begin + 1
    <3>1. first + 1 \in Before(k) /\ begin + 1 \in Before(k)
      BY <1>1, <1>2, <1>3, <2>4 DEF Before
    <3> QED BY <1>1, <1>2, <2>2, <3>1
  <2> QED BY <1>1, <1>2, <1>4, <2>3, <2>4
<1> HIDE DEF Before
<1> QED BY <1>3, <1>5, <1>7, <1>8

LEMMA NoSecondNth ==
  ASSUME typed \in Seq(Keys), NEW first, NEW last, IsWord(0, first, last),
         \A k \in Behind(last) + 1 .. N : typed[k] = Space
  PROVE  Nth(2) = {}
<1> DEFINE B == Begins(typed)
<1>1. /\ N \in Nat /\ first \in 0 .. N - 1 /\ last \in first + 1 .. N
      /\ B \subseteq 1 .. N /\ IsFiniteSet(B) /\ first + 1 \in B
      /\ \A k \in B : k = first + 1 \/ k > last + 1
  BY TypedIs, BeginsIs DEF IsWord
<1>2. ASSUME NEW k \in B PROVE k = first + 1
  <2> SUFFICES ASSUME k > last + 1 PROVE FALSE
    BY <1>1
  <2>1. k \in Behind(last) + 1 .. N
    BY <1>1 DEF Behind
  <2>2. typed[k] # Space
    BY DEF Begins
  <2> QED BY <2>1, <2>2
<1>3. Cardinality({m \in B : m < first + 1}) = 0
  <2>1. {m \in B : m < first + 1} = {}
    BY FirstNth
  <2> QED BY <2>1, FS_EmptySet
<1> HIDE DEF B
<1>4. ASSUME NEW k \in B PROVE Cardinality({m \in B : m < k}) # 1
  <2>1. Cardinality({m \in B : m < k}) = 0
    BY <1>2, <1>3
  <2> QED BY <2>1
<1> QED BY <1>4 DEF Nth, B

-----------------------------------------------------------------------------
(* A call of strtok on what was typed.                                     *)

\* strtok finds nothing behind p, or the first word that is there.
FindsWord(result, b, p) ==
  \/ /\ result = [word |-> Null, sp |-> Null, buf |-> b]
     /\ \A k \in p + 1 .. N : typed[k] = Space
  \/ \E first, last \in 0 .. N :
       /\ IsWord(p, first, last)
       /\ result = [word |-> first, sp |-> Behind(last), buf |-> [b EXCEPT ![last] = NUL]]

LEMMA StrtokFinds ==
  ASSUME typed \in Seq(Keys), NEW p \in 0 .. N,
         NEW b \in [Positions -> Bytes], Stores(b, p),
         NEW str \in {0, Null}, NEW s \in {p, Null}, s = Null => p = 0 /\ str = 0
  PROVE  FindsWord(strtok(str, b, s), b, p)
<1> DEFINE set   == (Keys \cup {NUL, Unset}) \ {Space}
           first == Find(b, p, set)
           last  == Find(b, first, {Space, NUL})
           result == strtok(str, b, s)
<1> USE ShellConstants
<1>1. N \in 0 .. BufSize - 1 /\ b[N] = NUL /\ \A k \in p + 1 .. N : b[k - 1] = typed[k]
  BY DEF Stores
<1>2. N \in Nat /\ \A k \in 1 .. N : typed[k] \in Keys
  BY TypedIs
<1>3. NUL # Space /\ NUL \in set /\ \A c \in Keys : c # NUL /\ (c \in set <=> c # Space)
  <2>1. NUL # Space
    BY DEF NUL, Space
  <2>2. ASSUME NEW c \in Keys PROVE c # NUL /\ (c \in set <=> c # Space)
    OBVIOUS
  <2> QED BY <2>1, <2>2
<1>4. p \in Positions /\ N \in p .. BufSize - 1
  BY <1>1
<1>5. /\ first \in p .. BufSize - 1
      /\ \A q \in p .. BufSize - 1 : b[q] \in set => first <= q /\ b[first] \in set
  BY <1>4, FindIs
<1>6. (IF s = Null THEN str ELSE s) = p /\ ~(str = Null /\ s = Null)
  BY DEF Null
<1>7. result = IF b[first] = NUL THEN [word |-> Null, sp |-> Null, buf |-> b]
               ELSE [word |-> first, sp |-> IF b[last] = NUL THEN last ELSE last + 1,
                     buf |-> [b EXCEPT ![last] = NUL]]
  BY <1>6 DEF strtok
<1> HIDE DEF set, first, result
<1>8. first \in p .. N /\ b[first] \in set
  BY <1>1, <1>3, <1>4, <1>5
<1>9. ASSUME NEW k \in p + 1 .. first PROVE typed[k] = Space
  <2>1. k \in p + 1 .. N /\ k \in 1 .. N /\ k - 1 \in p .. BufSize - 1 /\ k - 1 < first /\ k - 1 \in Nat /\ first \in Nat
    BY <1>1, <1>2, <1>8
  <2>2. b[k - 1] \notin set
    BY <1>5, <2>1
  <2> QED BY <1>1, <1>2, <1>3, <2>1, <2>2
<1>10. CASE first = N
  <2>1. result = [word |-> Null, sp |-> Null, buf |-> b]
    BY <1>1, <1>7, <1>10
  <2> QED BY <1>9, <1>10, <2>1 DEF FindsWord, result
<1>11. CASE first # N
  <2>1. /\ first \in p .. N - 1 /\ first \in Positions /\ first \in 0 .. N
        /\ N \in first .. BufSize - 1 /\ first + 1 \in p + 1 .. N /\ (first + 1) - 1 = first
    BY <1>1, <1>2, <1>4, <1>8, <1>11
  <2>2. b[first] = typed[first + 1] /\ typed[first + 1] \in Keys
    BY <1>1, <1>2, <2>1
  <2>3. b[first] # NUL /\ b[first] # Space
    BY <1>3, <1>8, <2>2
  <2>4. /\ last \in first .. BufSize - 1
        /\ \A q \in first .. BufSize - 1 : b[q] \in {Space, NUL} => last <= q /\ b[last] \in {Space, NUL}
    BY <2>1, FindIs
  <2> HIDE DEF last
  <2>5. last \in first + 1 .. N /\ b[last] \in {Space, NUL} /\ last \in 0 .. N
    BY <1>1, <1>2, <2>1, <2>3, <2>4
  <2>6. ASSUME NEW k \in first + 1 .. last PROVE typed[k] # Space
    <3>1. /\ k \in p + 1 .. N /\ k - 1 \in first .. BufSize - 1 /\ k - 1 < last
          /\ k - 1 \in Nat /\ last \in Nat
      BY <1>1, <1>2, <2>1, <2>5
    <3>2. b[k - 1] \notin {Space, NUL}
      BY <2>4, <3>1
    <3> QED BY <1>1, <3>1, <3>2
  <2>7. last # N => typed[last + 1] = b[last] /\ b[last] # NUL
    <3> SUFFICES ASSUME last # N PROVE typed[last + 1] = b[last] /\ b[last] # NUL
      OBVIOUS
    <3>1. last + 1 \in p + 1 .. N /\ last + 1 \in 1 .. N /\ (last + 1) - 1 = last
      BY <1>2, <2>1, <2>5
    <3> QED BY <1>1, <1>2, <1>3, <3>1
  <2>8. IsWord(p, first, last)
    BY <1>9, <2>1, <2>5, <2>6, <2>7 DEF IsWord
  <2>9. (IF b[last] = NUL THEN last ELSE last + 1) = Behind(last)
    BY <1>1, <2>7 DEF Behind
  <2>10. result = [word |-> first, sp |-> Behind(last), buf |-> [b EXCEPT ![last] = NUL]]
    BY <1>7, <2>3, <2>9
  <2> QED BY <2>1, <2>5, <2>8, <2>10 DEF FindsWord, result
<1> QED BY <1>10, <1>11

\* With an end at last, the string at first in b is the word.
WordIn(b, first, last) ==
  /\ String([b EXCEPT ![last] = NUL], first) = SubSeq(typed, first + 1, last)
  /\ [b EXCEPT ![last] = NUL][first] = typed[first + 1]

\* The word that strtok returns is the string in the buffer, now that it has an end.
LEMMA WordInBuffer ==
  ASSUME typed \in Seq(Keys), NEW p \in 0 .. N,
         NEW b \in [Positions -> Bytes], Stores(b, p),
         NEW first, NEW last, IsWord(p, first, last)
  PROVE  WordIn(b, first, last)
<1> DEFINE c == [b EXCEPT ![last] = NUL]
<1> USE ShellConstants
<1>1. N \in 0 .. BufSize - 1 /\ \A k \in p + 1 .. N : b[k - 1] = typed[k]
  BY DEF Stores
<1>2. N \in Nat /\ \A k \in 1 .. N : typed[k] \in Keys
  BY TypedIs
<1>3. first \in p .. N - 1 /\ last \in first + 1 .. N /\ first \in Positions /\ last \in Positions
  BY <1>1, <1>2 DEF IsWord
<1>4. \A r \in Positions : c[r] = IF r = last THEN NUL ELSE b[r]
  BY <1>3
<1> HIDE DEF c
<1>5. ASSUME NEW k \in first + 1 .. last PROVE c[k - 1] = typed[k] /\ c[k - 1] # NUL
  <2>1. k \in p + 1 .. N /\ k \in 1 .. N /\ k - 1 \in Positions /\ k - 1 # last
    BY <1>1, <1>2, <1>3
  <2> QED BY <1>1, <1>2, <1>4, <2>1
<1>6. Find(c, first, {NUL}) = last
  <2>1. PICK e : e = Find(c, first, {NUL})
    OBVIOUS
  <2>2. e \in first .. BufSize - 1 /\ \A q \in first .. BufSize - 1 : c[q] = NUL => e <= q /\ c[e] = NUL
    <3>1. /\ Find(c, first, {NUL}) \in first .. BufSize - 1
          /\ \A q \in first .. BufSize - 1 :
               c[q] \in {NUL} => Find(c, first, {NUL}) <= q /\ c[Find(c, first, {NUL})] \in {NUL}
      BY <1>3, FindIs
    <3> QED BY <2>1, <3>1
  <2>3. last \in first .. BufSize - 1 /\ c[last] = NUL
    BY <1>1, <1>2, <1>3, <1>4
  <2>4. e \in first .. last /\ c[e] = NUL
    BY <1>3, <2>2, <2>3
  <2>5. ~(e < last)
    <3> SUFFICES ASSUME e < last PROVE FALSE
      OBVIOUS
    <3>1. e + 1 \in first + 1 .. last /\ (e + 1) - 1 = e
      BY <1>3, <2>4
    <3>2. c[(e + 1) - 1] # NUL
      BY <1>5, <3>1
    <3> QED BY <2>4, <3>1, <3>2
  <2> QED BY <1>3, <2>1, <2>4, <2>5
<1>7. String(c, first) = [k \in 1 .. last - first |-> c[first + k - 1]]
  BY <1>6 DEF String
<1>8. ASSUME NEW k \in 1 .. last - first PROVE c[first + k - 1] = typed[first + k]
  <2>1. first + k \in first + 1 .. last /\ (first + k) - 1 = first + k - 1
    BY <1>2, <1>3
  <2> QED BY <1>5, <2>1
<1>9. /\ SubSeq(typed, first + 1, last) \in Seq(Keys)
      /\ Len(SubSeq(typed, first + 1, last)) = last - first
      /\ \A k \in 1 .. last - first : SubSeq(typed, first + 1, last)[k] = typed[first + k]
  <2>1. first \in 0 .. N /\ last \in 0 .. N /\ first < last
    BY <1>2, <1>3
  <2> QED BY <2>1, TypedIs
<1>10. String(c, first) = SubSeq(typed, first + 1, last)
  <2> DEFINE word == SubSeq(typed, first + 1, last)
  <2>1. word \in Seq(Keys) /\ Len(word) = last - first /\ \A k \in 1 .. last - first : word[k] = c[first + k - 1]
    BY <1>8, <1>9
  <2> HIDE DEF word
  <2>2. word = [k \in 1 .. last - first |-> c[first + k - 1]]
    BY <2>1
  <2> QED BY <1>7, <2>2 DEF word
<1>11. c[first] = typed[first + 1]
  <2>1. first + 1 \in first + 1 .. last /\ (first + 1) - 1 = first
    BY <1>2, <1>3
  <2> QED BY <1>5, <2>1
<1> QED BY <1>10, <1>11 DEF WordIn, c

\* Behind the word the line is still as it was typed.
LEMMA StoresBehind ==
  ASSUME typed \in Seq(Keys), NEW p \in 0 .. N,
         NEW b \in [Positions -> Bytes], Stores(b, p),
         NEW first, NEW last, IsWord(p, first, last)
  PROVE  /\ Stores([b EXCEPT ![last] = NUL], Behind(last))
         /\ [b EXCEPT ![last] = NUL] \in [Positions -> Bytes]
         /\ Behind(last) \in Positions /\ Behind(last) \in 0 .. N
<1> DEFINE c == [b EXCEPT ![last] = NUL]
<1> USE ShellConstants
<1>1. N \in 0 .. BufSize - 1 /\ b[N] = NUL /\ \A k \in p + 1 .. N : b[k - 1] = typed[k]
  BY DEF Stores
<1>2. N \in Nat /\ last \in p + 1 .. N /\ last \in Positions
  BY <1>1, TypedIs DEF IsWord
<1>3. c \in [Positions -> Bytes] /\ \A r \in Positions : c[r] = IF r = last THEN NUL ELSE b[r]
  BY <1>2 DEF Bytes
<1> HIDE DEF c
<1>4. c[N] = NUL
  BY <1>1, <1>3
<1>5. ASSUME NEW k \in Behind(last) + 1 .. N PROVE c[k - 1] = typed[k]
  <2>1. k \in p + 1 .. N /\ k - 1 \in Positions /\ k - 1 # last
    BY <1>1, <1>2 DEF Behind
  <2> QED BY <1>1, <1>3, <2>1
<1>6. Behind(last) \in Positions /\ Behind(last) \in 0 .. N
  BY <1>1, <1>2 DEF Behind
<1> QED BY <1>1, <1>3, <1>4, <1>5, <1>6 DEF Stores, c

LEMMA FirstWordIs ==
  ASSUME typed \in Seq(Keys), NEW first, NEW last, IsWord(0, first, last)
  PROVE  /\ Word(1) = SubSeq(typed, first + 1, last)
         /\ Word(1) # <<>> /\ Word(1)[1] = typed[first + 1]
<1>1. N \in Nat /\ 0 \in 0 .. N /\ first \in 0 .. N /\ last \in 0 .. N /\ first < last
  BY TypedIs DEF IsWord
<1>2. Word(1) = SubSeq(typed, first + 1, last)
  BY <1>1, FirstNth, WordIs
<1>3. /\ Len(SubSeq(typed, first + 1, last)) = last - first
      /\ SubSeq(typed, first + 1, last)[1] = typed[first + 1]
  BY <1>1, TypedIs
<1>4. Len(<<>>) = 0 /\ last - first # 0
  BY <1>1
<1> QED BY <1>2, <1>3, <1>4

LEMMA NoFirstWord ==
  ASSUME typed \in Seq(Keys), \A k \in 1 .. N : typed[k] = Space
  PROVE  Word(1) = <<>>
<1>1. Begins(typed) = {}
  BY TypedIs DEF Begins
<1> QED BY <1>1, NoWordIs DEF Nth

-----------------------------------------------------------------------------
(* The steps of the shell.                                                 *)

LEMMA FreshReturns == ShellInv /\ ShellInv' /\ ShellReadsLine => FreshLine'
<1> SUFFICES ASSUME ShellInv, ShellInv', ShellReadsLine, fresh' PROVE sp' = Null /\ Stores(buf, 0)'
  BY DEF FreshLine, ShellReadsLine
<1> USE ShellConstants
<1>1. /\ buf \in [Positions -> Bytes] /\ i \in 0 .. BufSize - 1
      /\ fresh' = (sp = Null) /\ sp' = sp
      /\ typed' = [k \in 1 .. i |-> buf[k - 1]] /\ typed' \in Seq(Keys)
  BY ShellTypes DEF ShellReadsLine, ShellInv, ShellTypeOK
<1>2. buf' = [buf EXCEPT ![i] = NUL]
  BY DEF ShellReadsLine, Terminated
<1>3. N' = i
  <2>1. typed' \in [1 .. i -> Keys]
    BY <1>1
  <2> QED BY <1>1, <2>1 DEF N
<1>4. buf'[i] = NUL /\ \A k \in 1 .. i : buf'[k - 1] = typed'[k]
  BY <1>1, <1>2
<1>5. Stores(buf, 0)'
  BY <1>1, <1>3, <1>4 DEF Stores
<1> QED BY <1>1, <1>5

LEMMA FreshCommand == ShellInv /\ FreshLine /\ strtok_command => FreshLine'
<1> SUFFICES ASSUME ShellInv, FreshLine, strtok_command, fresh'
             PROVE  ((cmd = Null /\ Word(1) = <<>>) \/ \E first, last \in 0 .. N : CommandFound(first, last))'
  BY DEF FreshLine, strtok_command
<1> DEFINE result == strtok(0, buf, Null)
<1>1. /\ typed' = typed /\ typed \in Seq(Keys) /\ buf \in [Positions -> Bytes]
      /\ sp = Null /\ Stores(buf, 0)
  BY ShellTypes DEF FreshLine, strtok_command
<1>2. cmd' = result.word /\ sp' = result.sp /\ buf' = result.buf
  BY <1>1 DEF strtok_command
<1>3. 0 \in 0 .. N /\ N \in Nat
  BY <1>1, TypedIs
<1>4. FindsWord(result, buf, 0)
  BY <1>1, <1>3, StrtokFinds
<1> HIDE DEF result
<1>5. CASE result = [word |-> Null, sp |-> Null, buf |-> buf] /\ \A k \in 0 + 1 .. N : typed[k] = Space
  <2>1. \A k \in 1 .. N : typed[k] = Space
    BY <1>5
  <2>2. Word(1) = <<>>
    BY <1>1, <2>1, NoFirstWord
  <2>3. Word(1)' = Word(1)
    BY <1>1 DEF Word
  <2>4. cmd' = Null
    BY <1>2, <1>5
  <2> QED BY <2>2, <2>3, <2>4
<1>6. ASSUME NEW first \in 0 .. N, NEW last \in 0 .. N, IsWord(0, first, last),
             result = [word |-> first, sp |-> Behind(last), buf |-> [buf EXCEPT ![last] = NUL]]
      PROVE  CommandFound(first, last)'
  <2>1. cmd' = first /\ sp' = Behind(last) /\ buf' = [buf EXCEPT ![last] = NUL]
    BY <1>2, <1>6
  <2>2. String(buf', first) = SubSeq(typed, first + 1, last) /\ buf'[first] = typed[first + 1]
    <3>1. WordIn(buf, first, last)
      BY <1>1, <1>3, <1>6, WordInBuffer
    <3> QED BY <2>1, <3>1 DEF WordIn
  <2>3. Stores(buf', Behind(last))
    <3>1. Stores([buf EXCEPT ![last] = NUL], Behind(last))
      BY <1>1, <1>3, <1>6, StoresBehind
    <3> QED BY <2>1, <3>1
  <2> QED BY <1>1, <1>6, <2>1, <2>2, <2>3 DEF CommandFound, IsWord, Behind, Stores, N
<1>7. N' = N
  BY <1>1 DEF N
<1> QED BY <1>4, <1>5, <1>6, <1>7 DEF FindsWord

LEMMA FreshCompare == ShellInv /\ FreshLine /\ strncmp_run => FreshLine'
<1> SUFFICES ASSUME ShellInv, FreshLine, strncmp_run, fresh', step' = "filename"
             PROVE  (\E first, last \in 0 .. N : CommandFound(first, last) /\ typed[first + 1] = Command)'
  BY DEF FreshLine, strncmp_run
<1>1. IsCommand
  BY DEF strncmp_run
<1>2. /\ step = "strncmp" /\ fresh /\ typed' = typed /\ buf' = buf /\ sp' = sp /\ cmd' = cmd
  BY <1>1 DEF strncmp_run
<1>3. PICK first, last \in 0 .. N : CommandFound(first, last)
  BY <1>1, <1>2 DEF FreshLine, IsCommand
<1>4. typed[first + 1] = Command
  BY <1>1, <1>3 DEF CommandFound, IsCommand
<1>5. CommandFound(first, last)' /\ N' = N
  BY <1>2, <1>3 DEF CommandFound, IsWord, Behind, Stores, N
<1> QED BY <1>2, <1>3, <1>4, <1>5

LEMMA FreshFilename == ShellInv /\ FreshLine /\ strtok_filename => FreshLine'
<1> SUFFICES ASSUME ShellInv, FreshLine, strtok_filename, fresh'
             PROVE  (Word(1) # <<>> /\ Word(1)[1] = Command /\ WordAt(filename) = Word(2))'
  BY DEF FreshLine, strtok_filename
<1>1. /\ step = "filename" /\ fresh /\ typed' = typed
      /\ typed \in Seq(Keys) /\ buf \in [Positions -> Bytes]
  BY ShellTypes DEF strtok_filename
<1>2. PICK first, last \in 0 .. N : CommandFound(first, last) /\ typed[first + 1] = Command
  BY <1>1 DEF FreshLine
<1>3. IsWord(0, first, last) /\ sp = Behind(last) /\ Stores(buf, Behind(last))
  BY <1>2 DEF CommandFound
<1>4. N \in Nat /\ Behind(last) \in 0 .. N
  BY <1>1, <1>3, TypedIs DEF Behind, IsWord
<1> DEFINE p == Behind(last)
           result == strtok(Null, buf, sp)
<1>5. filename' = result.word /\ buf' = result.buf
  BY DEF strtok_filename
<1>6. FindsWord(result, buf, p)
  <2>1. sp \in {p, Null} /\ Null \in {0, Null} /\ sp # Null
    BY <1>3, <1>4 DEF Null
  <2> HIDE DEF p
  <2>2. p \in 0 .. N /\ Stores(buf, p)
    BY <1>3, <1>4 DEF p
  <2> QED BY <1>1, <2>1, <2>2, StrtokFinds
<1> HIDE DEF p, result
<1>7. WordAt(filename)' = Word(2)
  <2>1. CASE result = [word |-> Null, sp |-> Null, buf |-> buf] /\ \A k \in p + 1 .. N : typed[k] = Space
    <3>1. filename' = Null
      BY <1>5, <2>1
    <3>2. Nth(2) = {}
      BY <1>1, <1>3, <2>1, NoSecondNth DEF p
    <3>3. Word(2) = <<>>
      BY <3>2, NoWordIs
    <3> QED BY <3>1, <3>3 DEF WordAt
  <2>2. ASSUME NEW begin \in 0 .. N, NEW end \in 0 .. N, IsWord(p, begin, end),
               result = [word |-> begin, sp |-> Behind(end), buf |-> [buf EXCEPT ![end] = NUL]]
        PROVE  WordAt(filename)' = Word(2)
    <3>1. filename' = begin /\ buf' = [buf EXCEPT ![end] = NUL] /\ begin # Null
      BY <1>4, <1>5, <2>2 DEF Null
    <3>2. p \in 0 .. N /\ Stores(buf, p)
      BY <1>3, <1>4 DEF p
    <3>3. String(buf', begin) = SubSeq(typed, begin + 1, end)
      <4>1. WordIn(buf, begin, end)
        BY <1>1, <2>2, <3>2, WordInBuffer
      <4> QED BY <3>1, <4>1 DEF WordIn
    <3>4. Nth(2) = {begin + 1}
      BY <1>1, <1>3, <2>2, SecondNth DEF p
    <3>5. Word(2) = SubSeq(typed, begin + 1, end)
      BY <1>1, <2>2, <3>2, <3>4, WordIs
    <3> QED BY <3>1, <3>3, <3>5 DEF WordAt
  <2> QED BY <1>6, <2>1, <2>2 DEF FindsWord
<1>8. Word(1)' = Word(1) /\ Word(2)' = Word(2)
  BY <1>1 DEF Word
<1> QED BY <1>1, <1>2, <1>3, <1>7, <1>8, FirstWordIs

\* The inductive invariant of a line that is read while the pointer is null.
LEMMA FreshInductive ==
  /\ ShellInit => FreshLine
  /\ ShellInv /\ ShellInv' /\ FreshLine /\ [ShellNext]_(shellVars) => FreshLine'
<1>1. ShellInit => FreshLine
  BY DEF ShellInit, FreshLine
<1>2. ASSUME ShellInv, ShellInv', FreshLine, [ShellNext]_(shellVars) PROVE FreshLine'
  <2>1. CASE ShellReadKey
    BY <2>1 DEF ShellReadKey, FreshLine
  <2>2. CASE ShellReadsLine
    BY <1>2, <2>2, FreshReturns
  <2>3. CASE strtok_command
    BY <1>2, <2>3, FreshCommand
  <2>4. CASE strncmp_run
    BY <1>2, <2>4, FreshCompare
  <2>5. CASE strtok_filename
    BY <1>2, <2>5, FreshFilename
  <2>6. CASE exec
    BY <2>6 DEF exec, FreshLine
  <2>7. CASE UNCHANGED shellVars
    <3>1. /\ step' = step /\ buf' = buf /\ sp' = sp /\ cmd' = cmd /\ filename' = filename
          /\ typed' = typed /\ fresh' = fresh
      BY <2>7 DEF shellVars
    <3>2. Word(1)' = Word(1) /\ Word(2)' = Word(2)
      BY <3>1 DEF Word
    <3>3. WordAt(filename)' = WordAt(filename)
      BY <3>1 DEF WordAt
    <3>4. N' = N /\ Stores(buf, 0)' = Stores(buf, 0)
      BY <3>1 DEF Stores, N
    <3>5. ASSUME NEW first, NEW last PROVE CommandFound(first, last)' = CommandFound(first, last)
      BY <3>1 DEF CommandFound, IsWord, Stores, Behind, N
    <3> QED BY <1>2, <3>1, <3>2, <3>3, <3>4, <3>5 DEF FreshLine
  <2> QED BY <1>2, <2>1, <2>2, <2>3, <2>4, <2>5, <2>6, <2>7 DEF ShellNext, Steps
<1> QED BY <1>1, <1>2

\* A line that is read while strtok keeps no pointer is run as it was typed: the
\* first word decides and the second is started, however many blanks stand between
\* them, before or behind them.
THEOREM ShellRunsWhatWasTyped == ShellSpec => []RunsWhatWasTyped
<1>1. ShellInv /\ FreshLine => RunsWhatWasTyped
  <2> SUFFICES ASSUME ShellInv, FreshLine, fresh
               PROVE  /\ step = "strncmp" => WordAt(cmd) = Word(1)
                      /\ step = "exec" => Word(1) # <<>> /\ Word(1)[1] = Command /\ WordAt(filename) = Word(2)
    BY DEF RunsWhatWasTyped
  <2>1. ASSUME step = "strncmp" PROVE WordAt(cmd) = Word(1)
    <3>1. CASE cmd = Null /\ Word(1) = <<>>
      BY <3>1 DEF WordAt
    <3>2. ASSUME NEW first \in 0 .. N, NEW last \in 0 .. N, CommandFound(first, last)
          PROVE  WordAt(cmd) = Word(1)
      <4>1. cmd = first /\ first # Null
        BY <3>2 DEF CommandFound, Null
      <4>2. Word(1) = SubSeq(typed, first + 1, last)
        BY <3>2, FirstWordIs, ShellTypes DEF CommandFound
      <4> QED BY <3>2, <4>1, <4>2 DEF CommandFound, WordAt
    <3> QED BY <2>1, <3>1, <3>2 DEF FreshLine
  <2>2. step = "exec" => Word(1) # <<>> /\ Word(1)[1] = Command /\ WordAt(filename) = Word(2)
    BY DEF FreshLine
  <2> QED BY <2>1, <2>2
<1>2. ShellInv /\ ShellInv' /\ FreshLine /\ [ShellNext]_(shellVars) => FreshLine'
  BY FreshInductive
<1>3. ShellInit => FreshLine
  BY FreshInductive
<1>4. ShellSpec => []FreshLine
  BY <1>2, <1>3, ShellInvariant, PTL DEF ShellSpec
<1> QED BY <1>1, <1>4, ShellInvariant, PTL
=============================================================================
