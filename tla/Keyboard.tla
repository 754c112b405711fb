------------------------------ MODULE Keyboard ------------------------------
(***************************************************************************)
(* The path of a key: the PS/2 controller, its interrupt handler           *)
(* (keyboard/ps2.c), the key buffer of the process in the foreground       *)
(* (keyboard/keyboard.c) and the getkey system call (isr80h/io.c).         *)
(*                                                                         *)
(* The kernel runs with interrupts off and user programs run with          *)
(* interrupts on, so the handler and each system call are one step, and    *)
(* the handler runs between any two system calls.                          *)
(***************************************************************************)
EXTENDS Integers, Sequences

CONSTANTS
  Processes,   \* the slots of processes[]
  Keys,        \* the characters of ps2_scan_set_one other than 0
  Release,     \* a scan code with PS2_KEY_RELEASED set
  Unmapped,    \* a scan code that ps2_scan_set_one maps to 0
  PastTable,   \* the scan code that equals PS2_SCAN_SET_SIZE
  NUL,         \* 0x00, both "no character" and "slot is empty"
  None,        \* the null pointer
  BufferSize,  \* PHIX_KEYBOARD_BUFFER_SIZE
  PortSize,    \* how many scan codes the controller holds
  MaxUnread,   \* environment: nobody types further ahead than this
  MaxKeys      \* bound: no process is sent more keys than this

ASSUME KeyboardConfig ==
  /\ BufferSize \in Nat \ {0}
  /\ PortSize \in Nat
  /\ MaxUnread \in Nat
  /\ MaxKeys \in Nat
  /\ NUL \notin Keys
  /\ None \notin Processes

Slots     == 0 .. BufferSize - 1
ScanCodes == Keys \cup {Release, Unmapped, PastTable}

VARIABLES
  buffer, reader, writer,  \* process->keyboard of every process
  current,                 \* current_process, and the process of current_task
  loaded,                  \* the slots of processes[] in use
  port,                    \* the scan codes waiting in the controller
  got                      \* what the last getkey returned

ring == <<buffer, reader, writer>>
vars == <<buffer, reader, writer, current, loaded, port, got>>

EmptyBuffer == [s \in Slots |-> NUL]

keyboard_write_index(p) == writer[p] % BufferSize
keyboard_read_index(p)  == reader[p] % BufferSize

Unread(p) == writer[p] - reader[p]

\* What reaches the foreground process before it reads again, at most.
Ahead == Len(port) + (IF current = None THEN 0 ELSE Unread(current))

Init ==
  /\ buffer = [p \in Processes |-> EmptyBuffer]
  /\ reader = [p \in Processes |-> 0]
  /\ writer = [p \in Processes |-> 0]
  /\ current = None
  /\ loaded = {}
  /\ port = << >>
  /\ got = NUL

\* A key is pressed or released.
KeyEvent(code) ==
  /\ Len(port) < PortSize
  /\ Ahead < MaxUnread
  /\ Len(port) + (IF current = None THEN 0 ELSE writer[current]) < MaxKeys
  /\ port' = Append(port, code)
  /\ UNCHANGED <<buffer, reader, writer, current, loaded, got>>

\* The bound of the table is tested with > instead of >=, so one scan code
\* reads the byte behind it, whatever that is.
ps2_keyboard_scancode_to_char(code) ==
  CASE code \in Keys     -> {code}
    [] code = PastTable  -> Keys \cup {NUL}
    [] OTHER             -> {NUL}

\* mutant: the writer moves on before the character is stored
push_after_increment(c) ==
  IF current = None \/ c = NUL THEN UNCHANGED ring
  ELSE /\ buffer' = [buffer EXCEPT ![current][(writer[current] + 1) % BufferSize] = c]
       /\ writer' = [writer EXCEPT ![current] = @ + 1]
       /\ UNCHANGED reader

keyboard_push(c) ==
  IF current = None \/ c = NUL THEN UNCHANGED ring
  ELSE /\ buffer' = [buffer EXCEPT ![current][keyboard_write_index(current)] = c]
       /\ writer' = [writer EXCEPT ![current] = @ + 1]
       /\ UNCHANGED reader

\* The handler reads a second byte and throws it away.  It is the next scan
\* code when the controller has one ready, and a stale byte otherwise.
ps2_keyboard_handle_interrupt ==
  /\ current # None
  /\ port # << >>
  /\ \/ port' = Tail(port)
     \/ Len(port) > 1 /\ port' = Tail(Tail(port))
  /\ IF Head(port) = Release THEN UNCHANGED ring
     ELSE \E c \in ps2_keyboard_scancode_to_char(Head(port)) : keyboard_push(c)
  /\ UNCHANGED <<current, loaded, got>>

\* mutant: the slot keeps its character
pop_without_clear ==
  LET c == buffer[current][keyboard_read_index(current)] IN
  /\ got' = c
  /\ IF c = NUL THEN UNCHANGED ring
     ELSE /\ reader' = [reader EXCEPT ![current] = @ + 1]
          /\ UNCHANGED <<buffer, writer>>

\* mutant: the reader does not move
pop_without_advance ==
  LET index == keyboard_read_index(current) IN
  /\ got' = buffer[current][index]
  /\ buffer' = [buffer EXCEPT ![current][index] = NUL]
  /\ UNCHANGED <<reader, writer>>

keyboard_pop ==
  LET index == keyboard_read_index(current)
      c     == buffer[current][index]
  IN  /\ got' = c
      /\ IF c = NUL THEN UNCHANGED ring
         ELSE /\ buffer' = [buffer EXCEPT ![current][index] = NUL]
              /\ reader' = [reader EXCEPT ![current] = @ + 1]
              /\ UNCHANGED writer

syscall2_getkey ==
  /\ current # None
  /\ keyboard_pop
  /\ UNCHANGED <<current, loaded, port>>

\* A process is loaded into a free slot and becomes the foreground process:
\* kernel_main() starts the shell this way, and exec every other program.  No
\* process is ever unloaded or resumed.
process_load_switch(p) ==
  /\ p \notin loaded
  /\ loaded' = loaded \cup {p}
  /\ current' = p
  /\ buffer' = [buffer EXCEPT ![p] = EmptyBuffer]
  /\ reader' = [reader EXCEPT ![p] = 0]
  /\ writer' = [writer EXCEPT ![p] = 0]
  /\ UNCHANGED <<port, got>>

Next ==
  \/ \E code \in ScanCodes : KeyEvent(code)
  \/ ps2_keyboard_handle_interrupt
  \/ syscall2_getkey
  \/ \E p \in Processes : process_load_switch(p)

Spec == Init /\ [][Next]_vars

\* A program that waits for a key calls getkey over and over (stdio.c).
FairSpec == Spec /\ WF_vars(syscall2_getkey)

-----------------------------------------------------------------------------
TypeOK ==
  /\ buffer \in [Processes -> [Slots -> Keys \cup {NUL}]]
  /\ reader \in [Processes -> 0 .. MaxKeys]
  /\ writer \in [Processes -> 0 .. MaxKeys]
  /\ current \in Processes \cup {None}
  /\ loaded \subseteq Processes
  /\ port \in Seq(ScanCodes)
  /\ got \in Keys \cup {NUL}

\* The buffer has no count and no full flag: a slot holds a character exactly
\* when it lies between the reader and the writer.  keyboard_pop() relies on it
\* when it takes the 0x00 of a slot for "no key".
SlotsMatchWindow ==
  \A p \in Processes, s \in Slots :
    buffer[p][s] # NUL <=> \E k \in reader[p] .. writer[p] - 1 : k % BufferSize = s

\* As long as a process has an unread key, getkey returns one.  process.h calls
\* the buffer "The keyboard buffer for the process".
UnreadIsReadable ==
  \A p \in Processes : Unread(p) > 0 => buffer[p][keyboard_read_index(p)] # NUL

\* The keys a process has not read, oldest first.
Pending(p) == [k \in 1 .. Unread(p) |-> buffer[p][(reader[p] + k - 1) % BufferSize]]

\* Every process has a queue of its own in which keys keep their order.
Queue == INSTANCE KeyQueue WITH queue <- [p \in Processes |-> Pending(p)]
ImplementsKeyQueue == Queue!Spec

\* The oldest key is read, unless the process loses the foreground.
KeyDelivered ==
  \A p \in Processes : \A n \in 0 .. MaxKeys :
    (current = p /\ reader[p] = n /\ writer[p] > n) ~> (reader[p] > n \/ current # p)
=============================================================================
