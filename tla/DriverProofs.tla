--------------------------- MODULE DriverProofs -----------------------------
(***************************************************************************)
(* The two devices that the kernel drives, the keyboard and the disk.      *)
(*                                                                         *)
(* The key buffer is a queue, for every size of the buffer, as long as     *)
(* nobody types further ahead than the buffer holds; and the disk stream   *)
(* is a stream of bytes, for every size of a sector.                       *)
(***************************************************************************)
EXTENDS Keyboard, DiskStream, SequenceTheorems, TLAPS

-----------------------------------------------------------------------------
(* Slots of counters.                                                      *)

LEMMA ModInSlots ==
  ASSUME NEW k \in Nat
  PROVE  k % BufferSize \in Slots
BY KeyboardConfig DEF Slots

\* Counters less than a buffer apart use different slots.
LEMMA ModDistinct ==
  ASSUME NEW a \in Nat, NEW b \in Nat, a < b, b < a + BufferSize
  PROVE  a % BufferSize # b % BufferSize
<1> DEFINE N == BufferSize
<1>1. N \in Nat \ {0}
  BY KeyboardConfig
<1> DEFINE x == a \div N
           y == b \div N
<1>2. /\ x \in Nat /\ y \in Nat
      /\ a = x * N + (a % N) /\ b = y * N + (b % N)
  BY <1>1
<1> SUFFICES ASSUME a % N = b % N PROVE FALSE
  OBVIOUS
<1>3. a % N \in Int
  BY <1>1
<1> HIDE DEF N, x, y
<1>4. b - a = y * N - x * N
  BY <1>1, <1>2, <1>3
<1>5. b - a = (y - x) * N
  BY <1>1, <1>2, <1>4
<1>6. y - x > 0
  <2>1. CASE y - x <= 0
    <3>1. (y - x) * N <= 0
      BY <1>1, <1>2, <2>1
    <3> QED BY <1>5, <3>1
  <2> QED BY <1>2, <2>1
<1>7. (y - x) * N >= N
  BY <1>1, <1>2, <1>6
<1> QED BY <1>1, <1>5, <1>7 DEF N

-----------------------------------------------------------------------------
(* The invariant.  SlotsMatchWindow is kept by keyboard_push() only while  *)
(* the buffer has room, so the invariant carries what is still to come     *)
(* from the controller along with what is already in the buffer.           *)

Windows ==
  \A p \in Processes : reader[p] <= writer[p] /\ Unread(p) <= BufferSize

RoomForPort ==
  /\ Ahead <= MaxUnread
  /\ Len(port) <= MaxKeys
  /\ current # None => Len(port) + writer[current] <= MaxKeys

UnloadedAreFresh ==
  /\ \A p \in Processes \ loaded : reader[p] = 0 /\ writer[p] = 0
  /\ current # None => current \in loaded

IInv == TypeOK /\ Windows /\ RoomForPort /\ UnloadedAreFresh /\ SlotsMatchWindow

\* Nobody types further ahead than the buffer holds.
PacedTyping == MaxUnread <= BufferSize

LEMMA InitIInv == Init => IInv
<1> SUFFICES ASSUME Init PROVE IInv
  OBVIOUS
<1> USE KeyboardConfig DEF Init
<1>1. TypeOK
  BY DEF TypeOK, EmptyBuffer
<1>2. Windows /\ UnloadedAreFresh
  BY DEF Windows, Unread, UnloadedAreFresh
<1>3. RoomForPort
  BY DEF RoomForPort, Ahead
<1>4. SlotsMatchWindow
  BY DEF SlotsMatchWindow, EmptyBuffer
<1> QED BY <1>1, <1>2, <1>3, <1>4 DEF IInv

LEMMA KeyEventIInv ==
  ASSUME IInv, NEW code \in ScanCodes, KeyEvent(code)
  PROVE  IInv'
<1>1. /\ port \in Seq(ScanCodes) /\ port' \in Seq(ScanCodes)
      /\ Len(port) \in Nat /\ Len(port') = Len(port) + 1
  BY DEF IInv, TypeOK, KeyEvent
<1>2. UNCHANGED <<buffer, reader, writer, current, loaded, got>>
  BY DEF KeyEvent
<1>3. TypeOK'
  BY <1>1, <1>2 DEF IInv, TypeOK
<1>4. Windows' /\ UnloadedAreFresh' /\ SlotsMatchWindow'
  BY <1>2 DEF IInv, Windows, Unread, UnloadedAreFresh, SlotsMatchWindow
<1>5. RoomForPort'
  <2>1. CASE current = None
    <3>1. Len(port) < MaxUnread /\ Len(port) < MaxKeys
      BY <1>1, <2>1 DEF KeyEvent, Ahead
    <3> QED BY <1>1, <1>2, <2>1, <3>1, KeyboardConfig DEF RoomForPort, Ahead
  <2>2. CASE current # None
    <3>1. /\ current \in Processes
          /\ reader[current] \in Nat /\ writer[current] \in Nat
      BY <2>2, KeyboardConfig DEF IInv, TypeOK
    <3>2. /\ Len(port) + (writer[current] - reader[current]) < MaxUnread
          /\ Len(port) + writer[current] < MaxKeys
      BY <2>2 DEF KeyEvent, Ahead, Unread
    <3>3. /\ Len(port') + (writer[current] - reader[current]) <= MaxUnread
          /\ Len(port') + writer[current] <= MaxKeys
          /\ Len(port') <= MaxKeys
      BY <1>1, <3>1, <3>2, KeyboardConfig
    <3> QED BY <1>2, <2>2, <3>3 DEF RoomForPort, Ahead, Unread
  <2> QED BY <2>1, <2>2
<1> QED BY <1>3, <1>4, <1>5 DEF IInv

\* keyboard_push() fills the slot behind the window and extends the window.
LEMMA PushKeepsSlots ==
  ASSUME IInv, NEW c \in Keys, current # None, Unread(current) < BufferSize,
         keyboard_push(c)
  PROVE  /\ SlotsMatchWindow'
         /\ buffer' \in [Processes -> [Slots -> Keys \cup {NUL}]]
<1> DEFINE w == writer[current]
           r == reader[current]
           N == BufferSize
<1>1. /\ current \in Processes /\ c # NUL
      /\ w \in Nat /\ r \in Nat /\ r <= w /\ w < r + N
      /\ N \in Nat \ {0} /\ w % N \in Slots
  <2>1. /\ current \in Processes /\ c # NUL
        /\ w \in Nat /\ r \in Nat /\ N \in Nat \ {0}
    BY KeyboardConfig DEF IInv, TypeOK
  <2>2. r <= w /\ w - r < N
    BY <2>1 DEF IInv, Windows, Unread
  <2> QED BY <2>1, <2>2, ModInSlots
<1>2. /\ buffer' = [buffer EXCEPT ![current][w % N] = c]
      /\ writer' = [writer EXCEPT ![current] = w + 1]
      /\ reader' = reader
  BY <1>1 DEF keyboard_push, keyboard_write_index
<1>3. buffer' \in [Processes -> [Slots -> Keys \cup {NUL}]]
  BY <1>1, <1>2 DEF IInv, TypeOK
<1>4. ASSUME NEW p \in Processes, NEW s \in Slots
      PROVE  buffer'[p][s] # NUL <=> \E k \in reader'[p] .. writer'[p] - 1 : k % N = s
  <2>0. buffer[p][s] # NUL <=> \E k \in reader[p] .. writer[p] - 1 : k % N = s
    BY DEF IInv, SlotsMatchWindow
  <2>1. CASE p # current
    <3>1. buffer'[p] = buffer[p] /\ writer'[p] = writer[p] /\ reader'[p] = reader[p]
      BY <1>1, <1>2, <2>1 DEF IInv, TypeOK
    <3> QED BY <2>0, <3>1
  <2>2. CASE p = current
    <3>1. writer'[p] = w + 1 /\ reader'[p] = r
      BY <1>2, <2>2 DEF IInv, TypeOK
    <3>2. r .. (w + 1) - 1 = (r .. w - 1) \cup {w}
      BY <1>1
    <3>3. (\E k \in r .. (w + 1) - 1 : k % N = s)
            <=> (s = w % N \/ \E k \in r .. w - 1 : k % N = s)
      BY <3>2
    <3>4. CASE s = w % N
      <4>1. buffer'[p][s] = c
        BY <1>1, <1>2, <2>2, <3>4 DEF IInv, TypeOK
      <4> QED BY <1>1, <3>1, <3>3, <3>4, <4>1
    <3>5. CASE s # w % N
      <4>1. buffer'[p][s] = buffer[p][s]
        BY <1>1, <1>2, <2>2, <3>5 DEF IInv, TypeOK
      <4> QED BY <2>0, <2>2, <3>1, <3>3, <3>5, <4>1
    <3> QED BY <3>4, <3>5
  <2> QED BY <2>1, <2>2
<1> QED BY <1>3, <1>4 DEF SlotsMatchWindow

LEMMA TailOf ==
  ASSUME NEW S, NEW s \in Seq(S), Len(s) > 0
  PROVE  Tail(s) \in Seq(S) /\ Len(s) \in Nat /\ Len(Tail(s)) = Len(s) - 1
<1>1. s # << >>
  OBVIOUS
<1> QED BY <1>1

\* The two bytes the handler reads.
LEMMA PortShrinks ==
  ASSUME port \in Seq(ScanCodes), port # << >>,
         port' = Tail(port) \/ (Len(port) > 1 /\ port' = Tail(Tail(port)))
  PROVE  /\ port' \in Seq(ScanCodes)
         /\ Len(port') \in Nat /\ Len(port) \in Nat /\ Len(port') < Len(port)
<1>1. Len(port) \in Nat /\ Len(port) > 0
  OBVIOUS
<1>2. Tail(port) \in Seq(ScanCodes) /\ Len(Tail(port)) = Len(port) - 1
  BY <1>1, TailOf
<1> DEFINE t == Tail(port)
<1>3. /\ t \in Seq(ScanCodes) /\ Len(t) = Len(port) - 1
      /\ port' = t \/ (Len(port) > 1 /\ port' = Tail(t))
  BY <1>2
<1> HIDE DEF t
<1>4. CASE port' = t
  BY <1>1, <1>3, <1>4
<1>5. CASE Len(port) > 1 /\ port' = Tail(t)
  <2>1. Len(t) > 0
    BY <1>1, <1>3, <1>5
  <2> DEFINE u == Tail(t)
  <2>2. u \in Seq(ScanCodes) /\ Len(u) = Len(t) - 1
    BY <1>3, <2>1, TailOf
  <2> HIDE DEF u
  <2>3. port' = u
    BY <1>5 DEF u
  <2> QED BY <1>1, <1>3, <2>1, <2>2, <2>3
<1> QED BY <1>3, <1>4, <1>5

LEMMA InterruptIInv ==
  ASSUME PacedTyping, IInv, ps2_keyboard_handle_interrupt
  PROVE  IInv'
<1>1. /\ port' \in Seq(ScanCodes)
      /\ Len(port') \in Nat /\ Len(port) \in Nat /\ Len(port') < Len(port)
  <2>1. port \in Seq(ScanCodes) /\ port # << >>
    BY DEF IInv, TypeOK, ps2_keyboard_handle_interrupt
  <2> QED BY <2>1, PortShrinks DEF ps2_keyboard_handle_interrupt
<1>2. UNCHANGED <<current, loaded, got>> /\ current # None /\ current \in Processes
  BY DEF ps2_keyboard_handle_interrupt, IInv, TypeOK
<1> DEFINE w == writer[current]
           r == reader[current]
<1>3. /\ w \in Nat /\ r \in Nat /\ r <= w
      /\ Len(port) + (w - r) <= MaxUnread
      /\ Len(port) <= MaxKeys /\ Len(port) + w <= MaxKeys
  BY <1>2, KeyboardConfig DEF IInv, TypeOK, Windows, RoomForPort, Ahead, Unread
<1>4. CASE UNCHANGED ring
  <2>1. TypeOK' /\ Windows' /\ UnloadedAreFresh' /\ SlotsMatchWindow'
    BY <1>1, <1>2, <1>4
       DEF ring, IInv, TypeOK, Windows, Unread, UnloadedAreFresh, SlotsMatchWindow
  <2>2. /\ Len(port') + (w - r) <= MaxUnread
        /\ Len(port') <= MaxKeys /\ Len(port') + w <= MaxKeys
    BY <1>1, <1>3, KeyboardConfig
  <2>3. RoomForPort'
    BY <1>2, <1>4, <2>2 DEF ring, RoomForPort, Ahead, Unread
  <2> QED BY <2>1, <2>3 DEF IInv
<1>5. ASSUME NEW c \in Keys, keyboard_push(c) PROVE IInv'
  <2>1. w - r < BufferSize /\ w + 1 <= MaxKeys
    BY <1>1, <1>3, KeyboardConfig DEF PacedTyping
  <2>2. SlotsMatchWindow' /\ buffer' \in [Processes -> [Slots -> Keys \cup {NUL}]]
    BY <1>2, <1>5, <2>1, PushKeepsSlots DEF Unread
  <2>3. writer' = [writer EXCEPT ![current] = w + 1] /\ reader' = reader
    BY <1>2, <1>5, KeyboardConfig DEF keyboard_push
  <2>4. writer' \in [Processes -> 0 .. MaxKeys]
    BY <1>2, <1>3, <2>1, <2>3, KeyboardConfig DEF IInv, TypeOK
  <2>5. TypeOK'
    BY <1>1, <1>2, <2>2, <2>3, <2>4 DEF IInv, TypeOK
  <2>6. Windows'
    <3> SUFFICES ASSUME NEW p \in Processes
                 PROVE  reader'[p] <= writer'[p] /\ writer'[p] - reader'[p] <= BufferSize
      BY DEF Windows, Unread
    <3>1. CASE p = current
      <4>1. writer'[p] = w + 1 /\ reader'[p] = r
        BY <2>3, <3>1 DEF IInv, TypeOK
      <4> QED BY <1>3, <2>1, <4>1, KeyboardConfig
    <3>2. CASE p # current
      <4>1. writer'[p] = writer[p] /\ reader'[p] = reader[p]
        BY <2>3, <3>2 DEF IInv, TypeOK
      <4> QED BY <4>1 DEF IInv, Windows, Unread
    <3> QED BY <3>1, <3>2
  <2>7. RoomForPort'
    <3>1. writer'[current] = w + 1 /\ reader'[current] = r
      BY <1>2, <2>3 DEF IInv, TypeOK
    <3>2. /\ Len(port') + ((w + 1) - r) <= MaxUnread
          /\ Len(port') <= MaxKeys /\ Len(port') + (w + 1) <= MaxKeys
      BY <1>1, <1>3, KeyboardConfig
    <3> QED BY <1>2, <3>1, <3>2 DEF RoomForPort, Ahead, Unread
  <2>8. UnloadedAreFresh'
    BY <1>2, <2>3 DEF IInv, UnloadedAreFresh, TypeOK
  <2> QED BY <2>2, <2>5, <2>6, <2>7, <2>8 DEF IInv
<1>6. ASSUME keyboard_push(NUL) PROVE UNCHANGED ring
  BY <1>6 DEF keyboard_push
<1> QED BY <1>4, <1>5, <1>6 DEF ps2_keyboard_handle_interrupt, ps2_keyboard_scancode_to_char

\* keyboard_pop() empties the first slot of the window, and only that one,
\* because the window is no longer than the buffer.
LEMMA GetkeyIInv ==
  ASSUME IInv, syscall2_getkey
  PROVE  IInv'
<1> DEFINE w == writer[current]
           r == reader[current]
           N == BufferSize
           c == buffer[current][r % N]
<1>1. /\ current # None /\ current \in Processes
      /\ w \in 0 .. MaxKeys /\ r \in 0 .. MaxKeys /\ r <= w /\ w <= r + N
      /\ N \in Nat \ {0} /\ r % N \in Slots
      /\ UNCHANGED <<current, loaded, port>>
      /\ got' = c /\ c \in Keys \cup {NUL}
  <2>1. r \in Nat /\ current \in Processes
    BY KeyboardConfig DEF IInv, TypeOK, syscall2_getkey
  <2>2. r % N \in Slots
    BY <2>1, ModInSlots
  <2> QED BY <2>1, <2>2, KeyboardConfig
          DEF IInv, TypeOK, Windows, Unread, syscall2_getkey, keyboard_pop, keyboard_read_index
<1>2. CASE c = NUL
  <2>1. UNCHANGED ring
    BY <1>2 DEF syscall2_getkey, keyboard_pop, keyboard_read_index
  <2> QED BY <1>1, <2>1 DEF ring, IInv, TypeOK, Windows, Unread, RoomForPort, Ahead,
                            UnloadedAreFresh, SlotsMatchWindow
<1>3. CASE c # NUL
  <2>1. /\ buffer' = [buffer EXCEPT ![current][r % N] = NUL]
        /\ reader' = [reader EXCEPT ![current] = r + 1]
        /\ writer' = writer
    BY <1>3 DEF syscall2_getkey, keyboard_pop, keyboard_read_index
  <2>2. r < w
    <3>1. \E k \in r .. w - 1 : k % N = r % N
      BY <1>1, <1>3 DEF IInv, SlotsMatchWindow
    <3> QED BY <1>1, <3>1
  <2>3. TypeOK'
    <3>1. r + 1 \in 0 .. MaxKeys
      BY <1>1, <2>2, KeyboardConfig
    <3> QED BY <1>1, <2>1, <3>1 DEF IInv, TypeOK
  <2>4. Windows'
    <3> SUFFICES ASSUME NEW p \in Processes
                 PROVE  reader'[p] <= writer'[p] /\ writer'[p] - reader'[p] <= BufferSize
      BY DEF Windows, Unread
    <3>1. CASE p = current
      <4>1. writer'[p] = w /\ reader'[p] = r + 1
        BY <2>1, <3>1 DEF IInv, TypeOK
      <4> QED BY <1>1, <2>2, <4>1, KeyboardConfig
    <3>2. CASE p # current
      <4>1. writer'[p] = writer[p] /\ reader'[p] = reader[p]
        BY <2>1, <3>2 DEF IInv, TypeOK
      <4> QED BY <4>1 DEF IInv, Windows, Unread
    <3> QED BY <3>1, <3>2
  <2>5. RoomForPort'
    <3>1. writer'[current] = w /\ reader'[current] = r + 1
      BY <1>1, <2>1 DEF IInv, TypeOK
    <3>2. /\ Len(port) \in Nat
          /\ Len(port) + (w - r) <= MaxUnread
          /\ Len(port) <= MaxKeys /\ Len(port) + w <= MaxKeys
      BY <1>1 DEF IInv, TypeOK, RoomForPort, Ahead, Unread
    <3>3. Len(port) + (w - (r + 1)) <= MaxUnread
      BY <1>1, <3>2, KeyboardConfig
    <3> QED BY <1>1, <3>1, <3>2, <3>3 DEF RoomForPort, Ahead, Unread
  <2>6. UnloadedAreFresh'
    BY <1>1, <2>1 DEF IInv, UnloadedAreFresh, TypeOK
  <2>7. ASSUME NEW p \in Processes, NEW s \in Slots
        PROVE  buffer'[p][s] # NUL <=> \E k \in reader'[p] .. writer'[p] - 1 : k % N = s
    <3>0. buffer[p][s] # NUL <=> \E k \in reader[p] .. writer[p] - 1 : k % N = s
      BY DEF IInv, SlotsMatchWindow
    <3>1. CASE p # current
      <4>1. buffer'[p] = buffer[p] /\ writer'[p] = writer[p] /\ reader'[p] = reader[p]
        BY <1>1, <2>1, <3>1 DEF IInv, TypeOK
      <4> QED BY <3>0, <4>1
    <3>2. CASE p = current
      <4>1. writer'[p] = w /\ reader'[p] = r + 1
        BY <1>1, <2>1, <3>2 DEF IInv, TypeOK
      <4>2. r .. w - 1 = {r} \cup (r + 1 .. w - 1)
        BY <1>1, <2>2
      <4>3. CASE s = r % N
        <5>1. buffer'[p][s] = NUL
          BY <1>1, <2>1, <3>2, <4>3 DEF IInv, TypeOK
        <5>2. ASSUME NEW k \in r + 1 .. w - 1 PROVE k % N # s
          <6>1. k \in Nat /\ r \in Nat /\ r < k /\ k < r + N
            BY <1>1
          <6> QED BY <4>3, <6>1, ModDistinct
        <5> QED BY <4>1, <5>1, <5>2
      <4>4. CASE s # r % N
        <5>1. buffer'[p][s] = buffer[p][s]
          BY <1>1, <2>1, <3>2, <4>4 DEF IInv, TypeOK
        <5> QED BY <3>0, <3>2, <4>1, <4>2, <4>4, <5>1
      <4> QED BY <4>3, <4>4
    <3> QED BY <3>1, <3>2
  <2> QED BY <2>3, <2>4, <2>5, <2>6, <2>7 DEF IInv, SlotsMatchWindow
<1> QED BY <1>2, <1>3

LEMMA LoadIInv ==
  ASSUME IInv, NEW p \in Processes, process_load_switch(p)
  PROVE  IInv'
<1>1. /\ buffer' = [buffer EXCEPT ![p] = EmptyBuffer]
      /\ reader' = [reader EXCEPT ![p] = 0]
      /\ writer' = [writer EXCEPT ![p] = 0]
      /\ current' = p /\ loaded' = loaded \cup {p}
      /\ UNCHANGED <<port, got>>
      /\ p # None
  BY KeyboardConfig DEF process_load_switch
<1>2. TypeOK'
  BY <1>1, KeyboardConfig DEF IInv, TypeOK, EmptyBuffer
<1>3. Windows'
  BY <1>1, KeyboardConfig DEF IInv, TypeOK, Windows, Unread
<1>4. RoomForPort'
  <2>1. writer'[p] = 0 /\ reader'[p] = 0
    BY <1>1 DEF IInv, TypeOK
  <2>2. Len(port) \in Nat /\ Len(port) <= MaxUnread /\ Len(port) <= MaxKeys
    BY KeyboardConfig DEF IInv, TypeOK, Windows, RoomForPort, Ahead, Unread
  <2> QED BY <1>1, <2>1, <2>2, KeyboardConfig DEF RoomForPort, Ahead, Unread
<1>5. UnloadedAreFresh'
  BY <1>1 DEF IInv, TypeOK, UnloadedAreFresh
<1>6. SlotsMatchWindow'
  BY <1>1 DEF IInv, TypeOK, SlotsMatchWindow, EmptyBuffer
<1> QED BY <1>2, <1>3, <1>4, <1>5, <1>6 DEF IInv

LEMMA StutterIInv == IInv /\ UNCHANGED vars => IInv'
BY DEF vars, IInv, TypeOK, Windows, Unread, RoomForPort, Ahead, UnloadedAreFresh,
       SlotsMatchWindow

-----------------------------------------------------------------------------
(* The theorems.                                                           *)

THEOREM KeyboardInvariant ==
  ASSUME PacedTyping
  PROVE  Spec => []IInv
<1>1. IInv /\ [Next]_vars => IInv'
  BY KeyEventIInv, InterruptIInv, GetkeyIInv, LoadIInv, StutterIInv DEF Next
<1> QED BY <1>1, InitIInv, PTL DEF Spec

\* A slot holds a character exactly when it lies between reader and writer.
THEOREM KeyboardSlotsMatchWindow ==
  ASSUME PacedTyping
  PROVE  Spec => []SlotsMatchWindow
<1>1. IInv => SlotsMatchWindow
  BY DEF IInv
<1> QED BY <1>1, KeyboardInvariant, PTL

LEMMA ReadableFromInv == IInv => UnreadIsReadable
<1> SUFFICES ASSUME IInv, NEW p \in Processes, Unread(p) > 0
             PROVE  buffer[p][keyboard_read_index(p)] # NUL
  BY DEF UnreadIsReadable
<1>1. reader[p] \in Nat /\ writer[p] \in Nat
  BY KeyboardConfig DEF IInv, TypeOK
<1>2. reader[p] \in reader[p] .. writer[p] - 1
  BY <1>1 DEF Unread
<1>3. reader[p] % BufferSize \in Slots
  BY <1>1, ModInSlots
<1> QED BY <1>2, <1>3 DEF IInv, SlotsMatchWindow, keyboard_read_index

\* getkey returns 0x00 only to a process that has no unread key.
THEOREM KeyboardUnreadIsReadable ==
  ASSUME PacedTyping
  PROVE  Spec => []UnreadIsReadable
BY ReadableFromInv, KeyboardInvariant, PTL

-----------------------------------------------------------------------------
(* The refinement.                                                         *)

Pendings == [p \in Processes |-> Pending(p)]

LEMMA AppendFcn ==
  ASSUME NEW S, NEW q \in Seq(S), NEW c \in S
  PROVE  Append(q, c) = [k \in 1 .. Len(q) + 1 |-> IF k = Len(q) + 1 THEN c ELSE q[k]]
<1> DEFINE t == [k \in 1 .. Len(q) + 1 |-> IF k = Len(q) + 1 THEN c ELSE q[k]]
<1>1. t \in Seq(S) /\ Len(t) = Len(q) + 1
  OBVIOUS
<1>2. \A k \in 1 .. Len(q) + 1 : t[k] = IF k = Len(q) + 1 THEN c ELSE q[k]
  OBVIOUS
<1>3. /\ Append(q, c) \in Seq(S) /\ Len(Append(q, c)) = Len(q) + 1
      /\ \A k \in 1 .. Len(q) + 1 : Append(q, c)[k] = IF k = Len(q) + 1 THEN c ELSE q[k]
  OBVIOUS
<1> HIDE DEF t
<1>4. Append(q, c) = t
  BY <1>1, <1>2, <1>3, SeqEqual
<1> QED BY <1>4 DEF t

LEMMA TailFcn ==
  ASSUME NEW n \in Nat, NEW S, NEW q \in Seq(S), Len(q) = n + 1,
         NEW t, t = [k \in 1 .. n |-> q[k + 1]]
  PROVE  Tail(q) = t
<1>1. t \in Seq(S) /\ Len(t) = n
  OBVIOUS
<1>2. Tail(q) \in Seq(S) /\ Len(Tail(q)) = n
  BY TailOf
<1>3. \A k \in 1 .. n : Tail(q)[k] = t[k]
  BY <1>1
<1> QED BY <1>1, <1>2, <1>3, SeqEqual

\* What a process has not read is a sequence of keys.
LEMMA PendingType ==
  ASSUME IInv, NEW p \in Processes
  PROVE  /\ Unread(p) \in Nat /\ reader[p] \in Nat /\ writer[p] \in Nat
         /\ Pending(p) \in Seq(Keys)
         /\ Len(Pending(p)) = Unread(p)
<1>1. Unread(p) \in Nat /\ reader[p] \in Nat /\ writer[p] \in Nat
  BY KeyboardConfig DEF IInv, TypeOK, Windows, Unread
<1>2. ASSUME NEW k \in 1 .. Unread(p)
      PROVE  buffer[p][(reader[p] + k - 1) % BufferSize] \in Keys
  <2> DEFINE i == reader[p] + k - 1
  <2>1. i \in reader[p] .. writer[p] - 1 /\ i \in Nat
    BY <1>1 DEF Unread
  <2>2. i % BufferSize \in Slots
    BY <2>1, ModInSlots
  <2> HIDE DEF i
  <2>3. buffer[p][i % BufferSize] # NUL
    BY <2>1, <2>2 DEF IInv, SlotsMatchWindow
  <2>4. buffer[p][i % BufferSize] \in Keys \cup {NUL}
    BY <2>2 DEF IInv, TypeOK
  <2> QED BY <2>3, <2>4 DEF i
<1> DEFINE f == [k \in 1 .. Unread(p) |-> buffer[p][(reader[p] + k - 1) % BufferSize]]
<1>3. f \in [1 .. Unread(p) -> Keys]
  BY <1>2
<1> HIDE DEF f
<1>4. f \in Seq(Keys) /\ Len(f) = Unread(p)
  BY <1>1, <1>3
<1> QED BY <1>1, <1>4 DEF Pending, f

LEMMA InterruptRefines ==
  ASSUME PacedTyping, IInv, ps2_keyboard_handle_interrupt
  PROVE  (\E c \in Keys : Queue!Type(c)) \/ UNCHANGED <<Pendings, current, got>>
<1>1. UNCHANGED <<current, got>> /\ current # None /\ current \in Processes
  BY DEF ps2_keyboard_handle_interrupt, IInv, TypeOK
<1>2. CASE UNCHANGED ring
  BY <1>1, <1>2 DEF ring, Pendings, Pending, Unread
<1>3. ASSUME NEW c \in Keys, keyboard_push(c) PROVE Queue!Type(c)
  <2> DEFINE r == reader[current]
             w == writer[current]
             n == Unread(current)
             q == Pending(current)
  <2>1. /\ r \in Nat /\ w \in Nat /\ n \in Nat /\ n = w - r
        /\ q \in Seq(Keys) /\ Len(q) = n
    BY <1>1, PendingType DEF Unread
  <2>2. /\ buffer' = [buffer EXCEPT ![current][w % BufferSize] = c]
        /\ writer' = [writer EXCEPT ![current] = w + 1]
        /\ reader' = reader
    BY <1>1, <1>3, KeyboardConfig DEF keyboard_push, keyboard_write_index
  <2>3. n < BufferSize
    <3>1. Len(port) \in Nat /\ Len(port) > 0
      BY DEF IInv, TypeOK, ps2_keyboard_handle_interrupt
    <3>2. Len(port) + n <= MaxUnread
      BY <1>1 DEF IInv, RoomForPort, Ahead
    <3> QED BY <2>1, <3>1, <3>2, KeyboardConfig DEF PacedTyping
  <2>4. Pending(current)' = Append(q, c)
    <3> DEFINE t == [k \in 1 .. n + 1 |-> IF k = n + 1 THEN c ELSE q[k]]
    <3>1. Append(q, c) = t
      <4>1. Len(q) = n /\ q \in Seq(Keys)
        BY <2>1
      <4> HIDE DEF q, n
      <4> QED BY <4>1, AppendFcn
    <3>2. writer'[current] - reader'[current] = n + 1 /\ reader'[current] = r
      BY <1>1, <2>1, <2>2 DEF IInv, TypeOK
    <3>3. Pending(current)' = [k \in 1 .. n + 1 |-> buffer'[current][(r + k - 1) % BufferSize]]
      BY <1>1, <3>2 DEF Pending, Unread
    <3>4. ASSUME NEW k \in 1 .. n + 1
          PROVE  buffer'[current][(r + k - 1) % BufferSize] = t[k]
      <4>1. k \in Nat /\ r + k - 1 \in Nat /\ r + k - 1 <= w
        BY <2>1
      <4>2. (r + k - 1) % BufferSize \in Slots /\ w % BufferSize \in Slots
        BY <2>1, <4>1, ModInSlots
      <4>3. CASE k = n + 1
        <5>1. r + k - 1 = w
          BY <2>1, <4>3
        <5>2. buffer'[current][w % BufferSize] = c
          BY <1>1, <2>2, <4>2 DEF IInv, TypeOK
        <5> QED BY <4>3, <5>1, <5>2
      <4>4. CASE k # n + 1
        <5>1. k \in 1 .. n /\ r + k - 1 < w /\ w < (r + k - 1) + BufferSize
          BY <2>1, <2>3, <4>1, <4>4, KeyboardConfig
        <5>2. (r + k - 1) % BufferSize # w % BufferSize
          BY <2>1, <4>1, <5>1, ModDistinct
        <5>3. buffer'[current][(r + k - 1) % BufferSize]
                = buffer[current][(r + k - 1) % BufferSize]
          BY <1>1, <2>2, <4>2, <5>2 DEF IInv, TypeOK
        <5>4. q[k] = buffer[current][(r + k - 1) % BufferSize]
          BY <5>1 DEF Pending
        <5> QED BY <4>4, <5>3, <5>4
      <4> QED BY <4>3, <4>4
    <3> QED BY <3>1, <3>3, <3>4
  <2>5. ASSUME NEW p \in Processes, p # current PROVE Pending(p)' = Pending(p)
    <3>1. buffer'[p] = buffer[p] /\ writer'[p] = writer[p] /\ reader'[p] = reader[p]
      BY <1>1, <2>2, <2>5 DEF IInv, TypeOK
    <3> QED BY <3>1 DEF Pending, Unread
  <2>6. Pendings' = [Pendings EXCEPT ![current] = Append(@, c)]
    BY <1>1, <2>4, <2>5 DEF Pendings
  <2> QED BY <1>1, <2>6 DEF Queue!Type, Pendings
<1>4. ASSUME keyboard_push(NUL) PROVE UNCHANGED ring
  BY <1>4 DEF keyboard_push
<1> QED BY <1>2, <1>3, <1>4 DEF ps2_keyboard_handle_interrupt, ps2_keyboard_scancode_to_char

LEMMA GetkeyRefines ==
  ASSUME IInv, syscall2_getkey
  PROVE  Queue!GetKey \/ Queue!GetNothing
<1> DEFINE r == reader[current]
           n == Unread(current)
           q == Pending(current)
           c == buffer[current][r % BufferSize]
<1>1. /\ current # None /\ current \in Processes
      /\ current' = current /\ got' = c
  BY DEF IInv, TypeOK, syscall2_getkey, keyboard_pop, keyboard_read_index
<1>2. /\ r \in Nat /\ writer[current] \in Nat /\ n \in Nat /\ n = writer[current] - r
      /\ q \in Seq(Keys) /\ Len(q) = n
  BY <1>1, PendingType DEF Unread
<1>3. CASE c = NUL
  <2>1. UNCHANGED ring
    BY <1>3 DEF syscall2_getkey, keyboard_pop, keyboard_read_index
  <2>2. n = 0
    BY <1>1, <1>2, <1>3, ReadableFromInv DEF UnreadIsReadable, keyboard_read_index
  <2>3. q = << >>
    BY <1>2, <2>2
  <2>4. Pendings' = Pendings /\ Pendings[current] = << >>
    BY <1>1, <2>1, <2>3 DEF ring, Pendings, Pending, Unread
  <2> QED BY <1>1, <1>3, <2>4 DEF Queue!GetNothing, Pendings
<1>4. CASE c # NUL
  <2>1. /\ buffer' = [buffer EXCEPT ![current][r % BufferSize] = NUL]
        /\ reader' = [reader EXCEPT ![current] = r + 1]
        /\ writer' = writer
    BY <1>4 DEF syscall2_getkey, keyboard_pop, keyboard_read_index
  <2>2. n > 0
    <3>1. r % BufferSize \in Slots
      BY <1>2, ModInSlots
    <3>2. \E k \in r .. writer[current] - 1 : k % BufferSize = r % BufferSize
      BY <1>1, <1>4, <3>1 DEF IInv, SlotsMatchWindow
    <3> QED BY <1>2, <3>2
  <2>3. n <= BufferSize
    BY <1>1 DEF IInv, Windows
  <2>4. q # << >> /\ Head(q) = c
    <3>1. Head(q) = q[1] /\ q # << >>
      BY <1>2, <2>2
    <3>2. q[1] = buffer[current][(r + 1 - 1) % BufferSize]
      BY <1>2, <2>2 DEF Pending
    <3> QED BY <1>2, <3>1, <3>2
  <2>5. Pending(current)' = Tail(q)
    <3> DEFINE t == [k \in 1 .. n - 1 |-> q[k + 1]]
    <3>1. Tail(q) = t
      <4>1. n - 1 \in Nat /\ Len(q) = (n - 1) + 1
        BY <1>2, <2>2
      <4> QED BY <1>2, <4>1, TailFcn
    <3>2. writer'[current] - reader'[current] = n - 1 /\ reader'[current] = r + 1
      BY <1>1, <1>2, <2>1 DEF IInv, TypeOK
    <3>3. Pending(current)' = [k \in 1 .. n - 1 |-> buffer'[current][((r + 1) + k - 1) % BufferSize]]
      BY <1>1, <3>2 DEF Pending, Unread
    <3>4. ASSUME NEW k \in 1 .. n - 1
          PROVE  buffer'[current][((r + 1) + k - 1) % BufferSize] = t[k]
      <4>1. /\ r + k \in Nat /\ r < r + k /\ r + k < r + BufferSize
            /\ (r + 1) + k - 1 = r + k /\ r + (k + 1) - 1 = r + k
            /\ k + 1 \in 1 .. n
        BY <1>2, <2>3, KeyboardConfig, SMTT(30)
      <4>2. (r + k) % BufferSize \in Slots /\ r % BufferSize # (r + k) % BufferSize
        BY <1>2, <4>1, ModInSlots, ModDistinct
      <4>3. buffer'[current][(r + k) % BufferSize] = buffer[current][(r + k) % BufferSize]
        BY <1>1, <2>1, <4>2 DEF IInv, TypeOK
      <4>4. q[k + 1] = buffer[current][(r + (k + 1) - 1) % BufferSize]
        BY <4>1 DEF Pending
      <4> QED BY <4>1, <4>3, <4>4
    <3> QED BY <3>1, <3>3, <3>4
  <2>6. ASSUME NEW p \in Processes, p # current PROVE Pending(p)' = Pending(p)
    <3>1. buffer'[p] = buffer[p] /\ writer'[p] = writer[p] /\ reader'[p] = reader[p]
      BY <1>1, <2>1, <2>6 DEF IInv, TypeOK
    <3> QED BY <3>1 DEF Pending, Unread
  <2>7. Pendings' = [Pendings EXCEPT ![current] = Tail(@)]
    BY <1>1, <2>5, <2>6 DEF Pendings
  <2> QED BY <1>1, <2>4, <2>7 DEF Queue!GetKey, Pendings
<1> QED BY <1>3, <1>4

LEMMA LoadRefines ==
  ASSUME IInv, NEW p \in Processes, process_load_switch(p)
  PROVE  Queue!Start(p)
<1>1. reader[p] = 0 /\ writer[p] = 0
  BY DEF process_load_switch, IInv, UnloadedAreFresh
<1>2. ASSUME NEW x \in Processes PROVE Pending(x)' = Pending(x)
  <2>1. CASE x = p
    <3>1. reader'[x] = 0 /\ writer'[x] = 0
      BY <2>1 DEF process_load_switch, IInv, TypeOK
    <3>2. \A k : k \notin 1 .. 0
      OBVIOUS
    <3> QED BY <1>1, <2>1, <3>1, <3>2 DEF Pending, Unread
  <2>2. CASE x # p
    <3>1. buffer'[x] = buffer[x] /\ writer'[x] = writer[x] /\ reader'[x] = reader[x]
      BY <2>2 DEF process_load_switch, IInv, TypeOK
    <3> QED BY <3>1 DEF Pending, Unread
  <2> QED BY <2>1, <2>2
<1>3. Pending(p) = << >>
  BY <1>1, PendingType DEF Unread
<1> QED BY <1>2, <1>3 DEF Queue!Start, process_load_switch

\* Every process sees a queue of its own: keys typed to it come out once and in
\* order, and nobody else sees them.
THEOREM KeyboardRefinesQueue ==
  ASSUME PacedTyping
  PROVE  Spec => ImplementsKeyQueue
<1>1. Init => Queue!Init
  BY DEF Init, Queue!Init, Pending, Unread
<1>2. IInv /\ [Next]_vars => [Queue!Next]_(Queue!vars)
  <2> SUFFICES ASSUME IInv, [Next]_vars PROVE [Queue!Next]_(Queue!vars)
    OBVIOUS
  <2>1. ASSUME NEW code \in ScanCodes, KeyEvent(code) PROVE UNCHANGED Queue!vars
    BY <2>1 DEF KeyEvent, Queue!vars, Pending, Unread
  <2>2. CASE ps2_keyboard_handle_interrupt
    BY <2>2, InterruptRefines DEF Queue!Next, Queue!vars, Pendings
  <2>3. CASE syscall2_getkey
    BY <2>3, GetkeyRefines DEF Queue!Next
  <2>4. ASSUME NEW p \in Processes, process_load_switch(p) PROVE Queue!Next
    BY <2>4, LoadRefines DEF Queue!Next
  <2>5. CASE UNCHANGED vars
    BY <2>5 DEF vars, Queue!vars, Pending, Unread
  <2> QED BY <2>1, <2>2, <2>3, <2>4, <2>5 DEF Next
<1> QED BY <1>1, <1>2, KeyboardInvariant, PTL DEF Spec, ImplementsKeyQueue, Queue!Spec
-----------------------------------------------------------------------------
(***************************************************************************)
(* diskstreamer_read is a read of a byte stream, for every size of a       *)
(* sector, every request and every depth of the stack.  The argument is    *)
(* the invariant PartlyRead, which every level of the recursion            *)
(* re-establishes.                                                         *)
(***************************************************************************)

LEMMA StreamIs ==
  /\ SectorSize \in Nat \ {0}
  /\ Addresses \subseteq Int
  /\ Dests \subseteq Int /\ Totals \subseteq Nat
  /\ Seeks \subseteq Nat
  /\ StackLevels \in Nat \ {0}
  /\ DiskBytes \in Nat
BY SectorAssumption, AddressAssumption, RequestAssumption,
   SeekAssumption, StackAssumption, DiskAssumption

\* A read that is going on is one of the requests and has not read more than that,
\* and the controller was asked for the sector of the position.
Going ==
  /\ phase # "idle" => call.dest \in Dests /\ call.total \in Totals /\ total <= call.total
  /\ phase = "wait" => lba = pos \div SectorSize

StreamInv == StreamTypeOK /\ PartlyRead /\ Going

LEMMA StreamInitInv ==
  StreamInit => StreamInv
<1> SUFFICES ASSUME StreamInit PROVE StreamInv
  OBVIOUS
<1>1. StreamTypeOK
  <2>1. mem = [a \in Addresses |-> -1] /\ mem \in [Addresses -> Byte]
    BY DEF StreamInit, Byte
  <2>2. call = [start |-> 0, dest |-> 0, total |-> 0, before |-> mem]
    BY DEF StreamInit
  <2>3. call \in [start : Nat, dest : Int, total : Nat, before : [Addresses -> Byte]]
    BY <2>1, <2>2
  <2>4. pos \in Nat /\ phase = "idle" /\ out \in Int /\ total \in Nat /\ lba \in Nat
    BY DEF StreamInit
  <2>5. level \in 0..StackLevels
    BY StreamIs DEF StreamInit
  <2>6. ready \in BOOLEAN
    BY DEF StreamInit
  <2> QED BY <2>1, <2>3, <2>4, <2>5, <2>6 DEF StreamTypeOK
<1>2. PartlyRead /\ Going
  BY DEF StreamInit, PartlyRead, Going
<1> QED BY <1>1, <1>2 DEF StreamInv

\* Division by the size of a sector.
LEMMA InSector ==
  ASSUME NEW p \in Nat
  PROVE  /\ p % SectorSize \in 0..(SectorSize - 1)
         /\ p \div SectorSize \in Nat
         /\ (p \div SectorSize) * SectorSize + (p % SectorSize) = p
BY StreamIs

\* A chunk is not longer than the request, and ends with the sector at the latest.
LEMMA ChunkBounds ==
  ASSUME NEW o \in 0..(SectorSize - 1), NEW t \in Nat
  PROVE  /\ Chunk(o, t) \in 0..t
         /\ o + Chunk(o, t) <= SectorSize
BY StreamIs DEF Chunk

\* The byte of the sector in buf at an offset below its end is that of the disk.
LEMMA BufferHoldsDisk ==
  ASSUME NEW p \in Nat, lba = p \div SectorSize,
         NEW k \in Nat, (p % SectorSize) + k < SectorSize
  PROVE  buf((p % SectorSize) + k) = p + k
<1> DEFINE o == p % SectorSize
           q == (p \div SectorSize) * SectorSize
<1>1. q \in Int /\ o \in Int /\ q + o = p
  BY InSector, StreamIs
<1>2. buf(o + k) = q + (o + k)
  BY DEF buf
<1> HIDE DEF o, q
<1>3. q + (o + k) = p + k
  BY <1>1
<1> QED BY <1>2, <1>3 DEF o

LEMMA StreamSeek ==
  ASSUME StreamInv, NEW p \in Seeks, diskstreamer_seek(p)
  PROVE  StreamInv'
<1> USE StreamIs DEF diskstreamer_seek, StreamInv
<1>1. StreamTypeOK'
  BY DEF StreamTypeOK
<1>2. PartlyRead' /\ Going'
  BY DEF PartlyRead, Going
<1> QED BY <1>1, <1>2

LEMMA StreamReadCall ==
  ASSUME StreamInv, NEW r \in Requests, ReadCall(r)
  PROVE  StreamInv'
<1> USE StreamIs DEF ReadCall, StreamInv
<1>0. r.dest \in Dests /\ r.total \in Totals /\ r.dest \in Int /\ r.total \in Nat
  BY DEF Requests
<1>1. StreamTypeOK'
  BY <1>0 DEF StreamTypeOK
<1>2. PartlyRead'
  <2>1. /\ pos' - call'.start = call'.total - total'
        /\ out' - call'.dest = call'.total - total'
    BY <1>0 DEF StreamTypeOK
  <2>2. ASSUME NEW a \in Addresses
        PROVE  mem'[a] = IF a \in call'.dest..(out' - 1)
                         THEN call'.start + (a - call'.dest) ELSE call'.before[a]
    <3>1. a \notin call'.dest..(out' - 1)
      BY <1>0
    <3> QED BY <3>1
  <2> QED BY <2>1, <2>2 DEF PartlyRead
<1>3. Going'
  BY <1>0 DEF Going
<1> QED BY <1>1, <1>2, <1>3

LEMMA StreamCommand ==
  ASSUME StreamInv, Command
  PROVE  StreamInv'
<1> USE StreamIs DEF Command, StreamInv
<1>1. StreamTypeOK'
  BY InSector DEF StreamTypeOK
<1>2. PartlyRead' /\ Going'
  BY DEF PartlyRead, Going
<1> QED BY <1>1, <1>2

LEMMA StreamController ==
  ASSUME StreamInv, ControllerReady
  PROVE  StreamInv'
<1> USE DEF ControllerReady, StreamInv
<1>1. StreamTypeOK'
  BY DEF StreamTypeOK
<1>2. PartlyRead' /\ Going'
  BY DEF PartlyRead, Going
<1> QED BY <1>1, <1>2

\* What a level of diskstreamer_read has done when it comes to its return or to its
\* call: the next chunk of the request is in memory.
CopiedSoFar ==
  /\ pos' - call.start = call.total - total'
  /\ out' - call.dest = call.total - total'
  /\ pos' \in Nat /\ total' \in Nat /\ out' \in Int /\ out' >= call.dest
  /\ mem' = [a \in Addresses |-> IF a \in call.dest..(out' - 1)
                                 THEN call.start + (a - call.dest) ELSE call.before[a]]

LEMMA CopyCopies ==
  ASSUME StreamInv, Copy
  PROVE  CopiedSoFar
<1> DEFINE n == Chunk(pos % SectorSize, total)
<1>0. /\ pos \in Nat /\ total \in Nat /\ out \in Int
      /\ call.start \in Nat /\ call.dest \in Int /\ call.total \in Nat
      /\ mem \in [Addresses -> Byte] /\ total <= call.total
  BY DEF StreamInv, StreamTypeOK, Going, Copy
<1>1. /\ pos - call.start = call.total - total
      /\ out - call.dest = call.total - total
      /\ \A a \in Addresses :
           mem[a] = IF a \in call.dest..(out - 1)
                    THEN call.start + (a - call.dest) ELSE call.before[a]
  BY DEF StreamInv, PartlyRead, Copy
<1>2. n \in 0..total /\ (pos % SectorSize) + n <= SectorSize
  BY <1>0, InSector, ChunkBounds
<1>3. pos' = pos + n /\ total' = total - n /\ out' = out + n
  BY DEF Copy
<1>4. ASSUME NEW a \in Addresses
      PROVE  (IF a \in out..(out + n - 1) THEN buf((pos % SectorSize) + (a - out)) ELSE mem[a])
               = IF a \in call.dest..(out' - 1)
                 THEN call.start + (a - call.dest) ELSE call.before[a]
  <2>0. a \in Int
    BY StreamIs
  <2>1. CASE a \in out..(out + n - 1)
    <3>1. a - out \in Nat /\ a - out < n
      BY <2>0, <2>1, <1>0, <1>2
    <3>2. (pos % SectorSize) + (a - out) < SectorSize
      BY <3>1, <1>2, <1>0, InSector, StreamIs
    <3>3. buf((pos % SectorSize) + (a - out)) = pos + (a - out)
      BY <3>1, <3>2, <1>0, BufferHoldsDisk DEF StreamInv, Going, Copy
    <3> HIDE DEF n
    <3>4. pos + (a - out) = call.start + (a - call.dest) /\ a \in call.dest..(out' - 1)
      BY <2>0, <2>1, <1>0, <1>1, <1>2, <1>3
    <3> QED BY <2>1, <3>3, <3>4
  <2>2. CASE a \notin out..(out + n - 1)
    <3> HIDE DEF n
    <3>1. a \in call.dest..(out' - 1) <=> a \in call.dest..(out - 1)
      BY <2>0, <2>2, <1>0, <1>1, <1>2, <1>3
    <3> QED BY <2>2, <3>1, <1>1
  <2> QED BY <2>1, <2>2
<1>5. mem' = [a \in Addresses |-> IF a \in out..(out + n - 1)
                                  THEN buf((pos % SectorSize) + (a - out)) ELSE mem[a]]
  BY DEF Copy
<1> HIDE DEF n
<1>6. mem' = [a \in Addresses |-> IF a \in call.dest..(out' - 1)
                                  THEN call.start + (a - call.dest) ELSE call.before[a]]
  BY <1>4, <1>5
<1>7. /\ pos' - call.start = call.total - total'
      /\ out' - call.dest = call.total - total'
      /\ pos' \in Nat /\ total' \in Nat /\ out' \in Int /\ out' >= call.dest
  BY <1>0, <1>1, <1>2, <1>3
<1> QED BY <1>6, <1>7 DEF CopiedSoFar

LEMMA StreamCopy ==
  ASSUME StreamInv, Copy
  PROVE  StreamInv'
<1>0. CopiedSoFar
  BY CopyCopies
<1>1. /\ call' = call /\ lba' = lba /\ ready' = ready
      /\ phase = "wait" /\ phase' \in {"idle", "ask", "overflow"}
      /\ \/ level' = 0
         \/ level < StackLevels /\ level' = level + 1
         \/ level' = level
  BY DEF Copy
<1>2. StreamTypeOK'
  <2>1. mem' \in [Addresses -> Byte]
    <3>1. mem' = [a \in Addresses |-> IF a \in call.dest..(out' - 1)
                                     THEN call.start + (a - call.dest) ELSE call.before[a]]
      BY <1>0 DEF CopiedSoFar
    <3>2. ASSUME NEW a \in Addresses
          PROVE  (IF a \in call.dest..(out' - 1)
                  THEN call.start + (a - call.dest) ELSE call.before[a]) \in Byte
      <4>1. call.start \in Nat /\ call.dest \in Int /\ call.before[a] \in Byte
        BY DEF StreamInv, StreamTypeOK
      <4>2. out' \in Int
        BY <1>0 DEF CopiedSoFar
      <4> QED BY <4>1, <4>2 DEF Byte
    <3> QED BY <3>1, <3>2
  <2>2. level' \in 0..StackLevels
    BY <1>1, StreamIs DEF StreamInv, StreamTypeOK
  <2>3. pos' \in Nat /\ out' \in Int /\ total' \in Nat
    BY <1>0 DEF CopiedSoFar
  <2>4. call' \in [start : Nat, dest : Int, total : Nat, before : [Addresses -> Byte]]
        /\ lba' \in Nat /\ ready' \in BOOLEAN
    BY <1>1 DEF StreamInv, StreamTypeOK
  <2> QED BY <1>1, <2>1, <2>2, <2>3, <2>4 DEF StreamTypeOK
<1>3. PartlyRead'
  BY <1>0, <1>1 DEF CopiedSoFar, PartlyRead
<1>4. Going'
  <2>1. total' <= call.total
    <3>1. total' = total - Chunk(pos % SectorSize, total)
      BY DEF Copy
    <3>2. pos \in Nat /\ total \in Nat /\ call.total \in Nat /\ total <= call.total
      BY <1>1 DEF StreamInv, StreamTypeOK, Going
    <3>3. Chunk(pos % SectorSize, total) \in 0..total
      BY <3>2, InSector, ChunkBounds
    <3> QED BY <3>1, <3>2, <3>3
  <2> QED BY <1>1, <2>1 DEF StreamInv, Going
<1> QED BY <1>2, <1>3, <1>4 DEF StreamInv

LEMMA StreamStep ==
  StreamInv /\ [StreamNext]_(streamVars) => StreamInv'
<1> SUFFICES ASSUME StreamInv, [StreamNext]_(streamVars) PROVE StreamInv'
  OBVIOUS
<1>1. CASE \E p \in Seeks : diskstreamer_seek(p)
  BY <1>1, StreamSeek
<1>2. CASE \E r \in Requests : ReadCall(r)
  BY <1>2, StreamReadCall
<1>3. CASE Command
  BY <1>3, StreamCommand
<1>4. CASE Copy
  BY <1>4, StreamCopy
<1>5. CASE ControllerReady
  BY <1>5, StreamController
<1>6. CASE UNCHANGED streamVars
  BY <1>6 DEF streamVars, StreamInv, StreamTypeOK, PartlyRead, Going
<1> QED BY <1>1, <1>2, <1>3, <1>4, <1>5, <1>6 DEF StreamNext, Kernel

\* The invariant of the recursion holds in every state of the disk stream.
THEOREM DiskStreamInvariant ==
  StreamSpec => []StreamInv
BY StreamInitInv, StreamStep, PTL DEF StreamSpec

\* Between two sectors of a read the position, the pointer and the rest agree, and
\* memory holds the bytes read so far: the code's argument for calling itself.
THEOREM DiskStreamPartlyRead ==
  StreamSpec => []PartlyRead
<1>1. StreamInv => PartlyRead
  BY DEF StreamInv
<1> QED BY <1>1, DiskStreamInvariant, PTL
-----------------------------------------------------------------------------
\* The last copy of diskstreamer_read is the read of the byte stream.
LEMMA LastCopyReads ==
  ASSUME StreamInv, Copy, phase' = "idle"
  PROVE  \E r \in Requests : Bytes!Read(r.dest, r.total)
<1> DEFINE r == [dest |-> call.dest, total |-> call.total]
<1>0. /\ phase = "wait" /\ phase' = "idle" /\ call' = call
  BY DEF Copy
<1>1. /\ call.dest \in Dests /\ call.total \in Totals
      /\ call.dest \in Int /\ call.total \in Nat /\ call.start \in Nat
      /\ DOMAIN call.before = Addresses
  BY <1>0 DEF StreamInv, Going, StreamTypeOK
<1>2. r \in Requests /\ r.dest = call.dest /\ r.total = call.total
  BY <1>1 DEF Requests
<1>3. total' = 0
  <2>1. total = Chunk(pos % SectorSize, total) /\ total' = total - Chunk(pos % SectorSize, total)
    BY DEF Copy
  <2>2. total \in Nat
    BY DEF StreamInv, StreamTypeOK
  <2> QED BY <2>1, <2>2
<1>4. pos' = call.start + call.total /\ out' = call.dest + call.total
  BY <1>1, <1>3, CopyCopies DEF CopiedSoFar
<1>5. mem' = [a \in Addresses |-> IF a \in call.dest..(call.dest + call.total - 1)
                                 THEN call.start + (a - call.dest) ELSE call.before[a]]
  <2>1. mem' = [a \in Addresses |-> IF a \in call.dest..(out' - 1)
                                   THEN call.start + (a - call.dest) ELSE call.before[a]]
    BY CopyCopies DEF CopiedSoFar
  <2>2. out' = call.dest + call.total
    BY <1>4
  <2>3. ASSUME NEW a \in Addresses
        PROVE  (a \in call.dest..(out' - 1)) = (a \in call.dest..(call.dest + call.total - 1))
    <3>1. out' - 1 = call.dest + call.total - 1
      BY <2>2, <1>1
    <3> QED BY <3>1, Zenon
  <2> QED BY <2>1, <2>3
<1>6. Bytes!Read(call.dest, call.total)
  BY <1>0, <1>1, <1>4, <1>5 DEF Bytes!Read, Bytes!Copied
<1> HIDE DEF r
<1> QED BY <1>2, <1>6

LEMMA StreamStepRefines ==
  StreamInv /\ [StreamNext]_(streamVars) =>
         [Bytes!Next]_<<IF phase = "idle" THEN pos ELSE call.start,
         IF phase = "idle" THEN mem ELSE call.before>>
<1> SUFFICES ASSUME StreamInv, [StreamNext]_(streamVars)
             PROVE  \/ Bytes!Next
                    \/ UNCHANGED <<IF phase = "idle" THEN pos ELSE call.start,
                                   IF phase = "idle" THEN mem ELSE call.before>>
  OBVIOUS
<1>1. CASE \E p \in Seeks : diskstreamer_seek(p)
  BY <1>1, StreamIs DEF diskstreamer_seek, Bytes!Next, Bytes!Seek
<1>2. CASE \E r \in Requests : ReadCall(r)
  BY <1>2 DEF ReadCall
<1>3. CASE Command
  BY <1>3 DEF Command
<1>4. CASE Copy
  <2>1. CASE phase' = "idle"
    BY <1>4, <2>1, LastCopyReads DEF Bytes!Next
  <2>2. CASE phase' # "idle"
    BY <1>4, <2>2 DEF Copy
  <2> QED BY <2>1, <2>2
<1>5. CASE ControllerReady
  BY <1>5 DEF ControllerReady
<1>6. CASE UNCHANGED streamVars
  BY <1>6 DEF streamVars
<1> QED BY <1>1, <1>2, <1>3, <1>4, <1>5, <1>6 DEF StreamNext, Kernel

\* diskstreamer_read, taken apart into sectors, commands and answers of the
\* controller, is a read of a byte stream.
THEOREM DiskStreamRefines ==
  StreamSpec => RefinesByteStream
<1>1. StreamInit => Bytes!Init
  BY DEF StreamInit, Bytes!Init
<1> QED BY <1>1, StreamStepRefines, DiskStreamInvariant, PTL DEF StreamSpec, RefinesByteStream, Bytes!Spec
=============================================================================
