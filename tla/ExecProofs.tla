----------------------------- MODULE ExecProofs -----------------------------
(***************************************************************************)
(* Booting and exec keep processes, tasks and memory consistent, whatever  *)
(* allocation fails, for every number of slots and size of the heap.       *)
(***************************************************************************)
EXTENDS Exec, FiniteSetTheorems, WellFoundedInduction, TLAPS

(***************************************************************************)
(* The invariant.  What the properties say of the list cannot be carried   *)
(* from one step to the next as they say it, by following links from its   *)
(* head.  But slots are taken in order and none is ever given back, so the *)
(* list has the order of the slots: its links can be stated slot by slot,  *)
(* the process that is being loaded included.                              *)
(***************************************************************************)
HasProcess == {"data", "stack", "task", "map", "out"}
Loading    == {"process"} \cup HasProcess

\* The processes that are held: those with a slot, and the one being loaded.
Used    == {i \in Slots : processes[i] # NULL}
Members == {i \in Slots : processes[i] # NULL \/ (pc \in HasProcess /\ i = slot)}
ProcessAt(i) == IF processes[i] # NULL THEN processes[i] ELSE process_
TaskOf(i)    == proc[ProcessAt(i)].task

\* The slots whose process has a task: its place in the list.
Places == {i \in Members : TaskOf(i) # NULL}

\* The objects of a member.
Kinds == {"process", "image", "stack", "bss", "task", "directory"}
Object(i, kind) ==
  IF kind = "process" THEN ProcessAt(i)
  ELSE IF kind = "image" THEN proc[ProcessAt(i)].image
  ELSE IF kind = "stack" THEN proc[ProcessAt(i)].stack
  ELSE IF kind = "bss"   THEN proc[ProcessAt(i)].bss
  ELSE IF kind = "task"  THEN TaskOf(i)
  ELSE IF TaskOf(i) = NULL THEN NULL ELSE tasks[TaskOf(i)].directory

\* Slots are taken in order, and a load works on the first one that is free.
SlotsInOrder ==
  /\ \A i, j \in Slots : processes[i] # NULL /\ j < i => processes[j] # NULL
  /\ pc \in Loading => \A i \in Slots : processes[i] # NULL <=> i < slot
  /\ pc = "switch" => process_ # NULL /\ processes[slot] = process_

ObjectsHeld ==
  /\ \A i \in Members, kind \in Kinds : Object(i, kind) \in heap \cup {NULL, Wild}
  /\ \A i \in Members : ProcessAt(i) \in heap /\ TaskOf(i) # Wild
  /\ \A i \in Places : Object(i, "directory") \in heap
  /\ \A i \in Used : TaskOf(i) # NULL

ObjectsDistinct ==
  \A i, j \in Members, k, l \in Kinds :
    <<i, k>> # <<j, l>> /\ Object(i, k) \in Addr => Object(i, k) # Object(j, l)

ListInOrder ==
  /\ \A i \in Places :
       /\ i = 0 \/ i - 1 \in Places
       /\ tasks[TaskOf(i)].process = ProcessAt(i)
       /\ tasks[TaskOf(i)].prev = IF i = 0 THEN NULL ELSE TaskOf(i - 1)
       /\ tasks[TaskOf(i)].next = IF i + 1 \in Places THEN TaskOf(i + 1) ELSE NULL
       /\ i + 1 \notin Places => task_tail = TaskOf(i)
  /\ task_head = IF 0 \in Places THEN TaskOf(0) ELSE NULL
  /\ 0 \notin Places => task_tail = NULL

\* The locals of process_load_for_slot agree with the process it has built so far.
LocalsAgree ==
  /\ pc = "process" => task = NULL /\ program_sp = NULL
  /\ pc \in HasProcess => process_ # NULL /\ program_sp = proc[process_].stack
  /\ pc \in {"data", "stack", "task"} => task = NULL /\ proc[process_].task = NULL
  /\ pc = "map" => task # NULL /\ task = proc[process_].task
  /\ pc = "out" => \/ task = proc[process_].task
                   \/ task = Wild /\ proc[process_].task = NULL

CurrentAgrees ==
  /\ pc \in {"user", "kernel", "string"} => booted
  /\ booted => \E i \in Used : current_process = processes[i] /\ current_task = TaskOf(i)
  /\ ~booted => /\ current_process = NULL /\ current_task = task_head
                /\ \A i \in Used : pc = "switch" /\ i = slot

DirectoryAgrees ==
  cr3 = IF pc \in {"user", "string"} THEN tasks[current_task].directory ELSE Kernel

\* What the rest of the load will allocate at most.
Needs == IF pc \in {"boot", "process"} THEN 6
         ELSE IF pc \in {"string", "slot"} /\ Used # Slots THEN 6
         ELSE IF pc = "data"  THEN 5
         ELSE IF pc = "stack" THEN 4
         ELSE IF pc = "task"  THEN 3
         ELSE IF pc = "map"   THEN 1
         ELSE 0
RoomLeft == Cardinality(Addr \ heap) >= Needs

IInv == /\ TypeOK
        /\ SlotsInOrder
        /\ ObjectsHeld
        /\ ObjectsDistinct
        /\ ListInOrder
        /\ LocalsAgree
        /\ CurrentAgrees
        /\ DirectoryAgrees
        /\ RoomLeft

-----------------------------------------------------------------------------
(* Addresses.                                                              *)

LEMMA Basics ==
  /\ Addr \subseteq Nat \ {0} /\ Slots \subseteq Nat /\ 0 \in Slots
  /\ NULL \notin Addr /\ Wild \notin Addr /\ Kernel \notin Addr /\ NULL # Wild
  /\ \A i \in Slots, j \in Nat : j < i => j \in Slots
  /\ \A i \in Slots : i = 0 \/ i - 1 \in Slots
BY ExecConfig DEF Addr, Slots, NULL, Wild, Kernel

Lowest(S) == CHOOSE a \in S : \A b \in S : a <= b

LEMMA LeastOf ==
  ASSUME NEW S \in SUBSET Nat, S # {}
  PROVE  Lowest(S) \in S /\ \A b \in S : Lowest(S) <= b
<1>1. PICK x \in S : \A y \in S : ~ (<<y, x>> \in OpToRel(<, Nat))
  BY NatLessThanWellFounded, WFMin
<1>2. ASSUME NEW y \in S PROVE ~(y < x)
  BY <1>1 DEF OpToRel
<1>3. \A y \in S : x <= y
  BY <1>2
<1> QED BY <1>3 DEF Lowest

LEMMA Remaining ==
  ASSUME NEW H
  PROVE  /\ IsFiniteSet(Addr \ H)
         /\ Cardinality(Addr \ H) \in Nat
         /\ Cardinality(Addr \ H) >= 1 => Addr \ H # {}
         /\ \A a \in Addr \ H : Cardinality(Addr \ (H \cup {a})) = Cardinality(Addr \ H) - 1
<1>1. IsFiniteSet(Addr)
  <2>1. 1 \in Int /\ MaxObjects \in Int
    BY ExecConfig
  <2> QED BY <2>1, FS_Interval DEF Addr
<1>2. IsFiniteSet(Addr \ H)
  BY <1>1, FS_Difference
<1>3. Cardinality(Addr \ H) \in Nat
  BY <1>2, FS_CardinalityType
<1>4. Cardinality(Addr \ H) >= 1 => Addr \ H # {}
  <2>1. Cardinality({}) = 0
    BY FS_EmptySet
  <2> QED BY <2>1
<1>5. ASSUME NEW a \in Addr \ H
      PROVE  Cardinality(Addr \ (H \cup {a})) = Cardinality(Addr \ H) - 1
  <2>1. Addr \ (H \cup {a}) = (Addr \ H) \ {a}
    OBVIOUS
  <2>2. Cardinality((Addr \ H) \ {a}) = Cardinality(Addr \ H) - 1
    BY <1>2, FS_RemoveElement
  <2> QED BY <2>1, <2>2
<1> QED BY <1>2, <1>3, <1>4, <1>5

\* kzalloc finds an address while there is room.
LEMMA FreshIsFree ==
  ASSUME NEW H, Cardinality(Addr \ H) >= 1
  PROVE  /\ Lowest(Addr \ H) \in Addr \ H
         /\ Cardinality(Addr \ (H \cup {Lowest(Addr \ H)})) = Cardinality(Addr \ H) - 1
<1>1. Addr \ H # {} /\ Addr \ H \in SUBSET Nat
  BY Remaining, Basics
<1>2. Lowest(Addr \ H) \in Addr \ H
  BY <1>1, LeastOf
<1> QED BY <1>2, Remaining

\* The heap grows by the address kzalloc returns, and what the load still needs
\* is there.
LEMMA FreshLeaves ==
  ASSUME NEW n \in Nat \ {0}, Cardinality(Addr \ heap) >= n
  PROVE  /\ Fresh \in Addr \ heap
         /\ Cardinality(Addr \ (heap \cup {Fresh})) >= n - 1
<1>1. Cardinality(Addr \ heap) \in Nat /\ Cardinality(Addr \ heap) >= 1
  <2>1. Cardinality(Addr \ heap) \in Nat
    BY Remaining
  <2> QED BY <2>1
<1>2. /\ Fresh \in Addr \ heap
      /\ Cardinality(Addr \ (heap \cup {Fresh})) = Cardinality(Addr \ heap) - 1
  <2>1. Fresh = Lowest(Addr \ heap)
    BY DEF Fresh, Lowest
  <2> QED BY <1>1, <2>1, FreshIsFree
<1> QED BY <1>1, <1>2

-----------------------------------------------------------------------------
(* The objects of the members and the list.                                *)

LEMMA ObjectIs ==
  ASSUME NEW i
  PROVE  /\ Object(i, "process") = ProcessAt(i)
         /\ Object(i, "image") = proc[ProcessAt(i)].image
         /\ Object(i, "stack") = proc[ProcessAt(i)].stack
         /\ Object(i, "bss") = proc[ProcessAt(i)].bss
         /\ Object(i, "task") = TaskOf(i)
         /\ TaskOf(i) # NULL => Object(i, "directory") = tasks[TaskOf(i)].directory
         /\ TaskOf(i) = NULL => Object(i, "directory") = NULL
BY DEF Object

\* What belongs to members that stay, and what they hold, is as consistent as before.
LEMMA ObjectsKept ==
  ASSUME ObjectsHeld, ObjectsDistinct,
         Members' \subseteq Members,
         \A i \in Members', k \in Kinds :
           /\ Object(i, k)' = Object(i, k)
           /\ Object(i, k) \in heap => Object(i, k) \in heap',
         \A i \in Used' : TaskOf(i)' # NULL
  PROVE  ObjectsHeld' /\ ObjectsDistinct'
<1>1. \A i \in Members' : /\ ProcessAt(i)' = ProcessAt(i) /\ TaskOf(i)' = TaskOf(i)
                          /\ Object(i, "directory")' = Object(i, "directory")
                          /\ ProcessAt(i) \in heap => ProcessAt(i) \in heap'
  <2> SUFFICES ASSUME NEW i \in Members'
               PROVE  /\ ProcessAt(i)' = ProcessAt(i) /\ TaskOf(i)' = TaskOf(i)
                      /\ Object(i, "directory")' = Object(i, "directory")
                      /\ ProcessAt(i) \in heap => ProcessAt(i) \in heap'
    OBVIOUS
  <2>1. {"process", "task", "directory"} \subseteq Kinds
    BY DEF Kinds
  <2>2. /\ Object(i, "process")' = Object(i, "process") /\ Object(i, "task")' = Object(i, "task")
        /\ Object(i, "directory")' = Object(i, "directory")
        /\ Object(i, "process") \in heap => Object(i, "process") \in heap'
    BY <2>1
  <2>3. /\ Object(i, "process") = ProcessAt(i) /\ Object(i, "process")' = ProcessAt(i)'
        /\ Object(i, "task") = TaskOf(i) /\ Object(i, "task")' = TaskOf(i)'
    BY DEF Object
  <2> QED BY <2>2, <2>3
<1>2. \A i \in Members', k \in Kinds : Object(i, k)' \in heap' \cup {NULL, Wild}
  BY DEF ObjectsHeld
<1>3. Places' \subseteq Places
  BY <1>1 DEF Places
<1>4. ObjectsHeld'
  BY <1>1, <1>2, <1>3 DEF ObjectsHeld, Kinds, Places
<1>5. ObjectsDistinct'
  BY DEF ObjectsDistinct
<1> QED BY <1>4, <1>5

LEMMA ListKept ==
  ASSUME ListInOrder, Places' = Places,
         \A i \in Places : /\ ProcessAt(i)' = ProcessAt(i) /\ TaskOf(i)' = TaskOf(i)
                           /\ tasks'[TaskOf(i)] = tasks[TaskOf(i)],
         UNCHANGED <<task_head, task_tail>>
  PROVE  ListInOrder'
BY DEF ListInOrder

\* Without a load in progress the members are the processes with a slot.
LEMMA MembersWithSlot ==
  ASSUME pc \notin HasProcess
  PROVE  Members = Used /\ \A i \in Members : ProcessAt(i) = processes[i]
BY DEF Members, Used, ProcessAt

\* A step that does not touch processes, tasks and their memory, outside a load.
LEMMA ObjectsUntouched ==
  ASSUME IInv, UNCHANGED <<objects, processes, task_head, task_tail>>,
         pc \notin HasProcess, pc' \notin HasProcess
  PROVE  ObjectsHeld' /\ ObjectsDistinct' /\ ListInOrder'
<1>1. /\ Members = Used /\ Members' = Members /\ Used' = Used
      /\ \A i \in Members : ProcessAt(i)' = ProcessAt(i)
  BY DEF Members, Used, ProcessAt
<1>2. \A i \in Members : TaskOf(i)' = TaskOf(i)
  BY <1>1 DEF TaskOf, objects
<1>3. \A i \in Members, k \in Kinds : Object(i, k)' = Object(i, k)
  BY <1>1, <1>2 DEF Object, objects
<1>4. \A i \in Used : TaskOf(i) # NULL
  BY DEF IInv, ObjectsHeld
<1>5. ObjectsHeld' /\ ObjectsDistinct'
  <2>1. ObjectsHeld /\ ObjectsDistinct /\ heap' = heap /\ Members' \subseteq Members
    BY <1>1 DEF IInv, objects
  <2>2. \A i \in Used' : TaskOf(i)' # NULL
    BY <1>1, <1>2, <1>4
  <2> QED BY <1>1, <1>3, <2>1, <2>2, ObjectsKept
<1>6. Places' = Places
  BY <1>1, <1>2 DEF Places
<1>7. ListInOrder'
  <2>1. ListInOrder /\ tasks' = tasks /\ UNCHANGED <<task_head, task_tail>> /\ Places \subseteq Members
    BY DEF IInv, objects, Places
  <2> QED BY <1>1, <1>2, <1>6, <2>1, ListKept
<1> QED BY <1>5, <1>7

\* The current task and its page directory are in the heap.
LEMMA CurrentHeld ==
  ASSUME IInv, booted
  PROVE  current_task \in heap /\ tasks[current_task].directory \in heap
<1>1. PICK i \in Used : current_task = TaskOf(i)
  BY DEF IInv, CurrentAgrees
<1>2. i \in Members /\ TaskOf(i) # NULL
  BY <1>1 DEF Used, Members, IInv, ObjectsHeld
<1>3. TaskOf(i) \in heap
  <2>1. "task" \in Kinds
    BY DEF Kinds
  <2> QED BY <1>2, <2>1, ObjectIs DEF IInv, ObjectsHeld
<1>4. Object(i, "directory") \in heap
  BY <1>2 DEF IInv, ObjectsHeld, Places
<1> QED BY <1>1, <1>2, <1>3, <1>4, ObjectIs

LEMMA InvInit == Init => IInv
<1> SUFFICES ASSUME Init PROVE IInv
  OBVIOUS
<1>1. Members = {} /\ Used = {} /\ Places = {}
  BY DEF Init, Members, Used, Places, HasProcess
<1>2. TypeOK
  BY Basics DEF Init, TypeOK, NoProcess, NoTask, Pointer, Steps, NULL
<1>3. SlotsInOrder
  BY DEF Init, SlotsInOrder, Loading, HasProcess
<1>4. ObjectsHeld /\ ObjectsDistinct /\ ListInOrder
  BY <1>1 DEF Init, ObjectsHeld, ObjectsDistinct, ListInOrder
<1>5. LocalsAgree /\ CurrentAgrees /\ DirectoryAgrees
  BY <1>1 DEF Init, LocalsAgree, CurrentAgrees, DirectoryAgrees, HasProcess
<1>6. RoomLeft
  <2>1. Addr \ heap = 1 .. MaxObjects
    BY DEF Init, Addr
  <2>2. Cardinality(1 .. MaxObjects) = MaxObjects
    <3>1. 1 \in Int /\ MaxObjects \in Int /\ ~(1 > MaxObjects) /\ MaxObjects - 1 + 1 = MaxObjects
      BY ExecConfig
    <3> QED BY <3>1, FS_Interval
  <2> QED BY <2>1, <2>2, ExecConfig DEF Init, RoomLeft, Needs
<1> QED BY <1>2, <1>3, <1>4, <1>5, <1>6 DEF IInv

\* The steps that touch no process, task or memory: booting, entering and leaving
\* the kernel, the argument of exec, the search for a slot, the error of exec.
LEMMA QuietInv ==
  ASSUME IInv,
         \/ BootShell \/ EnterKernel \/ LeaveKernel \/ syscall6_process_load_start
         \/ copy_string_from_task \/ process_get_free_slot \/ ReturnError
  PROVE  IInv'
<1>0. /\ UNCHANGED <<objects, globals, booted>>
      /\ UNCHANGED <<heap, proc, tasks, processes, current_process, current_task, task_head, task_tail>>
      /\ pc \in {"boot", "user", "kernel", "string", "slot", "failed"}
      /\ pc' \in {"user", "halted", "kernel", "string", "slot", "process", "failed"}
      /\ Used' = Used
  BY DEF BootShell, EnterKernel, LeaveKernel, syscall6_process_load_start, copy_string_from_task,
         process_get_free_slot, ReturnError, GoTo, objects, globals, Used
<1>1. ObjectsHeld' /\ ObjectsDistinct' /\ ListInOrder'
  BY <1>0, ObjectsUntouched DEF HasProcess
<1>2. /\ TypeOK /\ CurrentAgrees /\ DirectoryAgrees /\ SlotsInOrder /\ LocalsAgree /\ RoomLeft
      /\ heap \subseteq Addr /\ slot \in Slots /\ process_ \in Addr \cup {NULL}
      /\ program_sp \in Addr \cup {NULL} /\ task \in Pointer /\ cr3 \in Addr \cup {Kernel}
      /\ 0 \in Slots
  BY Basics DEF IInv, TypeOK
<1>3. /\ slot' \in Slots /\ process_' \in Addr \cup {NULL} /\ program_sp' \in Addr \cup {NULL}
      /\ task' \in Pointer
  <2>1. CASE UNCHANGED locals \/ LocalsGone
    BY <1>2, <2>1 DEF locals, LocalsGone, Pointer
  <2>2. CASE process_get_free_slot /\ ~UNCHANGED locals
    <3>1. slot' = Lowest(Slots \ Used) /\ Slots \ Used # {}
          /\ process_' = NULL /\ program_sp' = NULL /\ task' = NULL
      <4>1. {i \in Slots : processes[i] = NULL} = Slots \ Used
        BY DEF Used
      <4> QED BY <2>2, <4>1 DEF process_get_free_slot, Lowest
    <3>2. Slots \ Used \in SUBSET Nat
      BY Basics
    <3> QED BY <3>1, <3>2, LeastOf DEF Pointer
  <2> QED BY <2>1, <2>2 DEF BootShell, EnterKernel, LeaveKernel, syscall6_process_load_start,
             copy_string_from_task, process_get_free_slot, ReturnError
<1>4. pc \in {"kernel", "string"} => booted
  BY <1>2 DEF CurrentAgrees
<1>5. cr3' = IF pc' \in {"user", "string"} THEN tasks[current_task].directory ELSE Kernel
  BY <1>2, <1>4 DEF BootShell, EnterKernel, LeaveKernel, syscall6_process_load_start,
     copy_string_from_task, process_get_free_slot, ReturnError, GoTo, DirectoryAgrees
<1>6. pc' \in {"user", "string", "kernel"} => booted
  BY <1>2, <1>4 DEF BootShell, EnterKernel, LeaveKernel, syscall6_process_load_start,
     copy_string_from_task, process_get_free_slot, ReturnError, GoTo, CurrentAgrees
<1>7. cr3' \in Addr \cup {Kernel}
  BY <1>2, <1>5, <1>6, CurrentHeld
<1>8. TypeOK'
  BY <1>0, <1>2, <1>3, <1>7 DEF TypeOK, Steps
<1>9. SlotsInOrder'
  <2>1. pc' \notin HasProcess /\ pc' # "switch"
    BY <1>0 DEF HasProcess
  <2>2. ASSUME pc' = "process" PROVE \A i \in Slots : processes[i] # NULL <=> i < slot'
    <3>1. slot' = Lowest(Slots \ Used) /\ Slots \ Used # {}
      <4>1. {i \in Slots : processes[i] = NULL} = Slots \ Used
        BY DEF Used
      <4> QED BY <2>2, <4>1 DEF BootShell, EnterKernel, LeaveKernel, syscall6_process_load_start,
             copy_string_from_task, process_get_free_slot, ReturnError, GoTo, Lowest
    <3>2. Slots \ Used \in SUBSET Nat
      BY Basics
    <3>3. slot' \in Slots \ Used /\ \A j \in Slots \ Used : slot' <= j
      BY <3>1, <3>2, LeastOf
    <3>4. \A i \in Slots : i \in Nat /\ slot' \in Nat
      BY <3>3, Basics
    <3>5. \A i \in Slots : i < slot' => processes[i] # NULL
      BY <3>3, <3>4 DEF Used
    <3>6. ASSUME NEW i \in Slots, processes[i] # NULL PROVE i < slot'
      <4>1. ~(slot' < i)
        BY <1>2, <3>3, <3>6 DEF SlotsInOrder, Used
      <4>2. i # slot'
        BY <3>3, <3>6 DEF Used
      <4> QED BY <3>4, <4>1, <4>2
    <3> QED BY <3>5, <3>6
  <2> QED BY <1>0, <1>2, <2>1, <2>2 DEF SlotsInOrder, Loading
<1>10. LocalsAgree'
  <2>1. pc' = "process" => task' = NULL /\ program_sp' = NULL
    BY DEF BootShell, EnterKernel, LeaveKernel, syscall6_process_load_start,
       copy_string_from_task, process_get_free_slot, ReturnError, GoTo
  <2> QED BY <1>0, <2>1 DEF LocalsAgree, HasProcess
<1>11. CurrentAgrees'
  <2>1. \A i \in Used : i \in Members /\ TaskOf(i)' = TaskOf(i)
    BY <1>0 DEF Used, Members, TaskOf, ProcessAt
  <2> QED BY <1>0, <1>2, <1>6, <2>1 DEF CurrentAgrees
<1>12. DirectoryAgrees'
  BY <1>0, <1>5 DEF DirectoryAgrees
<1>13. RoomLeft'
  <2>1. Cardinality(Addr \ heap) \in Nat
    BY Remaining
  <2>2. pc' \in {"string", "slot"} /\ Used # Slots => Cardinality(Addr \ heap) >= 6
    <3>1. CASE BootShell
      BY <1>2, <3>1 DEF BootShell, RoomLeft, Needs
    <3>2. CASE syscall6_process_load_start
      BY <3>2 DEF syscall6_process_load_start, Room, Used
    <3>3. CASE copy_string_from_task
      BY <1>2, <3>3 DEF copy_string_from_task, RoomLeft, Needs
    <3>4. CASE EnterKernel \/ LeaveKernel \/ process_get_free_slot \/ ReturnError
      BY <3>4 DEF EnterKernel, LeaveKernel, process_get_free_slot, ReturnError, GoTo
    <3> QED BY <3>1, <3>2, <3>3, <3>4
  <2>3. pc' = "process" => Cardinality(Addr \ heap) >= 6
    <3>1. pc' = "process" => pc = "slot" /\ Used # Slots
      BY DEF BootShell, EnterKernel, LeaveKernel, syscall6_process_load_start,
         copy_string_from_task, process_get_free_slot, ReturnError, GoTo, Used
    <3> QED BY <1>2, <3>1 DEF RoomLeft, Needs
  <2> QED BY <1>0, <2>1, <2>2, <2>3 DEF RoomLeft, Needs
<1> QED BY <1>1, <1>8, <1>9, <1>10, <1>11, <1>12, <1>13 DEF IInv

\* One more object for the process that is being loaded: a fresh address is nobody's.
LEMMA ObjectsGrow ==
  ASSUME ObjectsHeld, ObjectsDistinct, heap \subseteq Addr,
         NEW a \in Addr \ heap, heap' = heap \cup {a},
         NEW s, NEW kind \in {"process", "image", "stack", "bss"},
         Members' = Members \cup {s},
         \A i \in Members, k \in Kinds : <<i, k>> # <<s, kind>> => Object(i, k)' = Object(i, k),
         Object(s, kind)' \in {a, Wild},
         s \notin Members => \A k \in Kinds \ {kind} : Object(s, k)' = NULL,
         kind = "process" => s \notin Members /\ Object(s, kind)' = a,
         s \in Members \/ kind = "process",
         \A i \in Used' : TaskOf(i)' # NULL
  PROVE  ObjectsHeld' /\ ObjectsDistinct' /\ Places' = Places
<1>1. /\ \A i : Object(i, "process") = ProcessAt(i) /\ Object(i, "task") = TaskOf(i)
      /\ \A i : Object(i, "process")' = ProcessAt(i)' /\ Object(i, "task")' = TaskOf(i)'
      /\ {"process", "task", "directory"} \subseteq Kinds /\ kind \in Kinds
      /\ kind # "task" /\ kind # "directory"
  BY DEF Object, Kinds
<1>2. /\ \A i \in Members : TaskOf(i)' = TaskOf(i) /\ Object(i, "directory")' = Object(i, "directory")
      /\ \A i \in Members : ProcessAt(i)' = ProcessAt(i)
      /\ s \notin Members => ProcessAt(s)' = a /\ TaskOf(s)' = NULL
  <2>1. \A i \in Members : <<i, "task">> # <<s, kind>> /\ <<i, "directory">> # <<s, kind>>
                           /\ <<i, "process">> # <<s, kind>>
    BY <1>1
  <2>2. \A i \in Members : /\ Object(i, "task")' = Object(i, "task")
                           /\ Object(i, "directory")' = Object(i, "directory")
                           /\ Object(i, "process")' = Object(i, "process")
    BY <1>1, <2>1
  <2>3. s \notin Members => Object(s, "process")' = a /\ Object(s, "task")' = NULL
    BY <1>1
  <2> QED BY <1>1, <2>2, <2>3
<1>3. Places' = Places
  BY <1>2 DEF Places
<1>4. ObjectsHeld'
  <2>1. \A i \in Members', k \in Kinds : Object(i, k)' \in heap' \cup {NULL, Wild}
    <3> SUFFICES ASSUME NEW i \in Members', NEW k \in Kinds
                 PROVE  Object(i, k)' \in heap' \cup {NULL, Wild}
      OBVIOUS
    <3>1. CASE i = s /\ k = kind
      BY <3>1
    <3>2. CASE i = s /\ k # kind /\ s \notin Members
      BY <3>2
    <3>3. CASE i \in Members /\ <<i, k>> # <<s, kind>>
      <4>1. Object(i, k) \in heap \cup {NULL, Wild}
        BY <3>3 DEF ObjectsHeld
      <4> QED BY <3>3, <4>1
    <3> QED BY <3>1, <3>2, <3>3
  <2>2. \A i \in Members' : ProcessAt(i)' \in heap' /\ TaskOf(i)' # Wild
    BY <1>2 DEF ObjectsHeld, Wild, NULL
  <2>3. \A i \in Places' : Object(i, "directory")' \in heap'
    BY <1>2, <1>3 DEF ObjectsHeld, Places
  <2> QED BY <2>1, <2>2, <2>3 DEF ObjectsHeld
<1>5. ObjectsDistinct'
  <2> SUFFICES ASSUME NEW i \in Members', NEW j \in Members', NEW k \in Kinds, NEW l \in Kinds,
                      <<i, k>> # <<j, l>>, Object(i, k)' \in Addr
               PROVE  Object(i, k)' # Object(j, l)'
    BY DEF ObjectsDistinct
  <2>1. \A m \in Members', n \in Kinds :
          \/ <<m, n>> = <<s, kind>> /\ Object(m, n)' \in {a, Wild}
          \/ <<m, n>> # <<s, kind>> /\ Object(m, n)' = NULL
          \/ <<m, n>> # <<s, kind>> /\ m \in Members /\ Object(m, n)' = Object(m, n)
             /\ Object(m, n) \in heap \cup {NULL, Wild}
    BY <1>1 DEF ObjectsHeld
  <2>2. CASE <<i, k>> = <<s, kind>>
    BY <2>1, <2>2, Basics
  <2>3. CASE <<i, k>> # <<s, kind>>
    <3>1. i \in Members /\ Object(i, k)' = Object(i, k) /\ Object(i, k) \in heap
      BY <2>1, <2>3, Basics
    <3>2. CASE <<j, l>> = <<s, kind>>
      BY <2>1, <3>1, <3>2, Basics
    <3>3. CASE <<j, l>> # <<s, kind>> /\ Object(j, l)' = NULL
      BY <3>3, Basics
    <3>4. CASE j \in Members /\ Object(j, l)' = Object(j, l)
      BY <3>1, <3>4 DEF ObjectsDistinct
    <3> QED BY <2>1, <3>2, <3>3, <3>4
  <2> QED BY <2>2, <2>3
<1> QED BY <1>3, <1>4, <1>5

\* The slot a load works on holds no process yet.
LEMMA SlotIsFree ==
  ASSUME IInv, pc \in Loading
  PROVE  /\ slot \in Slots /\ processes[slot] = NULL
         /\ pc \in HasProcess => /\ Members = Used \cup {slot} /\ ProcessAt(slot) = process_
                                 /\ process_ \in heap /\ process_ \in Addr
         /\ \A i \in Slots : i \in Used <=> i < slot
         /\ \A i \in Used : i # slot /\ ProcessAt(i) = processes[i]
<1>1. slot \in Slots /\ heap \subseteq Addr
  BY DEF IInv, TypeOK
<1>2. \A i \in Slots : processes[i] # NULL <=> i < slot
  BY DEF IInv, SlotsInOrder
<1>3. ~(slot < slot) /\ slot \in Nat
  BY <1>1, Basics
<1>4. processes[slot] = NULL
  BY <1>1, <1>2, <1>3
<1>5. pc \in HasProcess => Members = Used \cup {slot} /\ ProcessAt(slot) = process_ /\ process_ \in heap
  <2> SUFFICES ASSUME pc \in HasProcess
               PROVE  Members = Used \cup {slot} /\ ProcessAt(slot) = process_ /\ process_ \in heap
    OBVIOUS
  <2>1. Members = Used \cup {slot} /\ ProcessAt(slot) = process_
    BY <1>1, <1>4 DEF Members, Used, ProcessAt
  <2> QED BY <2>1 DEF IInv, ObjectsHeld
<1> QED BY <1>1, <1>2, <1>4, <1>5 DEF Used, ProcessAt

LEMMA AllocateProcessInv ==
  ASSUME IInv, AllocateProcess
  PROVE  IInv'
<1>0. /\ TypeOK /\ heap \subseteq Addr /\ pc = "process" /\ pc \in Loading /\ pc \notin HasProcess
      /\ proc \in [Addr -> [task : Pointer, image : Pointer, stack : Pointer, bss : Pointer]]
      /\ UNCHANGED <<processes, tasks, current_process, current_task, task_head, task_tail,
                     cr3, booted, slot, program_sp, task>>
      /\ Used' = Used /\ Members = Used
  BY MembersWithSlot DEF IInv, TypeOK, AllocateProcess, globals, Loading, HasProcess, Used
<1>1. /\ slot \in Slots /\ processes[slot] = NULL
      /\ \A i \in Used : i # slot /\ ProcessAt(i) = processes[i]
  BY <1>0, SlotIsFree
<1>2. CASE GoTo("failed") /\ UNCHANGED <<heap, proc, process_>>
  <2>1. ObjectsHeld' /\ ObjectsDistinct' /\ ListInOrder'
    BY <1>0, <1>2, ObjectsUntouched DEF HasProcess, objects, GoTo
  <2>2. TypeOK' /\ SlotsInOrder'
    BY <1>0, <1>2 DEF IInv, TypeOK, SlotsInOrder, GoTo, Steps, Loading, HasProcess
  <2>3. LocalsAgree'
    BY <1>2 DEF LocalsAgree, GoTo, HasProcess
  <2>4. CurrentAgrees' /\ DirectoryAgrees'
    <3>1. \A i \in Used : TaskOf(i)' = TaskOf(i)
      BY <1>0, <1>2 DEF TaskOf, ProcessAt
    <3> QED BY <1>0, <1>2, <3>1 DEF IInv, CurrentAgrees, DirectoryAgrees, GoTo
  <2>5. RoomLeft'
    <3>1. Cardinality(Addr \ heap) \in Nat
      BY Remaining
    <3> QED BY <1>2, <3>1 DEF RoomLeft, Needs, GoTo
  <2> QED BY <2>1, <2>2, <2>3, <2>4, <2>5 DEF IInv
<1>3. CASE /\ heap' = heap \cup {Fresh} /\ process_' = Fresh
           /\ proc' = [proc EXCEPT ![Fresh] = NoProcess] /\ GoTo("data")
  <2>1. PICK a \in Addr \ heap : a = Fresh /\ Cardinality(Addr \ (heap \cup {a})) >= 5
    <3>1. Cardinality(Addr \ heap) >= 6
      BY <1>0 DEF IInv, RoomLeft, Needs
    <3>2. 6 \in Nat \ {0} /\ 6 - 1 = 5
      OBVIOUS
    <3>3. Fresh \in Addr \ heap /\ Cardinality(Addr \ (heap \cup {Fresh})) >= 5
      BY <3>1, <3>2, FreshLeaves
    <3> QED BY <3>3
  <2>2. /\ heap' = heap \cup {a} /\ process_' = a /\ proc'[a] = NoProcess /\ pc' = "data"
        /\ \A b \in Addr : b # a => proc'[b] = proc[b]
        /\ a # NULL
    BY <1>0, <1>3, <2>1, Basics DEF GoTo
  <2>3. Members' = Members \cup {slot}
    BY <1>0, <1>1, <2>2 DEF Members, Used, HasProcess
  <2>4. \A i \in Members : /\ ProcessAt(i) \in heap /\ ProcessAt(i)' = ProcessAt(i)
                           /\ proc'[ProcessAt(i)] = proc[ProcessAt(i)]
    <3>1. \A i \in Members : ProcessAt(i) \in heap
      BY DEF IInv, ObjectsHeld
    <3>2. \A i \in Members : ProcessAt(i)' = ProcessAt(i)
      BY <1>0 DEF ProcessAt, Used
    <3> QED BY <1>0, <2>2, <3>1, <3>2
  <2>5. \A i \in Members, k \in Kinds : Object(i, k)' = Object(i, k)
    BY <1>0, <2>4 DEF Object, TaskOf
  <2>6. ProcessAt(slot)' = a
    BY <1>0, <1>1, <2>2 DEF ProcessAt
  <2>7. /\ TaskOf(slot)' = NULL /\ Object(slot, "process")' = a
        /\ \A k \in Kinds \ {"process"} : Object(slot, k)' = NULL
    BY <2>2, <2>6 DEF Object, TaskOf, NoProcess, Kinds
  <2>8. \A i \in Used' : TaskOf(i)' # NULL
    BY <1>0, <2>4 DEF TaskOf, IInv, ObjectsHeld
  <2>9. ObjectsHeld' /\ ObjectsDistinct' /\ Places' = Places
    <3>1. ObjectsHeld /\ ObjectsDistinct /\ slot \notin Members
      BY <1>0, <1>1 DEF IInv
    <3>2. "process" \in {"process", "image", "stack", "bss"}
      OBVIOUS
    <3> QED BY <1>0, <2>2, <2>3, <2>5, <2>7, <2>8, <3>1, <3>2, ObjectsGrow
  <2>10. ListInOrder'
    <3>1. \A i \in Places : /\ ProcessAt(i)' = ProcessAt(i) /\ TaskOf(i)' = TaskOf(i)
                            /\ tasks'[TaskOf(i)] = tasks[TaskOf(i)]
      BY <1>0, <2>4 DEF Places, TaskOf
    <3> QED BY <1>0, <2>9, <3>1, ListKept DEF IInv
  <2>11. TypeOK'
    <3>1. NoProcess \in [task : Pointer, image : Pointer, stack : Pointer, bss : Pointer]
      BY DEF NoProcess, Pointer
    <3>2. proc' \in [Addr -> [task : Pointer, image : Pointer, stack : Pointer, bss : Pointer]]
      BY <1>0, <1>3, <3>1
    <3> QED BY <1>0, <2>1, <2>2, <3>2 DEF TypeOK, Steps
  <2>12. SlotsInOrder'
    BY <1>0, <2>2 DEF IInv, SlotsInOrder, Loading, HasProcess
  <2>13. LocalsAgree'
    BY <1>0, <2>2 DEF IInv, LocalsAgree, NoProcess
  <2>14. CurrentAgrees' /\ DirectoryAgrees'
    <3>1. \A i \in Used : TaskOf(i)' = TaskOf(i)
      BY <1>0, <2>4 DEF TaskOf
    <3> QED BY <1>0, <2>2, <3>1 DEF IInv, CurrentAgrees, DirectoryAgrees
  <2>15. RoomLeft'
    BY <2>1, <2>2 DEF RoomLeft, Needs
  <2> QED BY <2>9, <2>10, <2>11, <2>12, <2>13, <2>14, <2>15 DEF IInv
<1> QED BY <1>2, <1>3 DEF AllocateProcess

\* How a load goes on: it stays a load, its process gets the slot, or it is given up.
GoesOn  == pc' \in HasProcess /\ UNCHANGED processes
GetsIn  == pc' = "switch" /\ processes' = [processes EXCEPT ![slot] = process_]
GivesUp == pc' \notin HasProcess /\ UNCHANGED processes

LEMMA MembersStay ==
  ASSUME IInv, pc \in HasProcess, UNCHANGED <<slot, process_>>
  PROVE  /\ GoesOn => Members' = Members /\ Used' = Used
         /\ GetsIn => Members' = Members /\ Used' = Members
         /\ GivesUp => Members' = Used /\ Used' = Used
         /\ GoesOn \/ GetsIn \/ GivesUp => \A i \in Members' : ProcessAt(i)' = ProcessAt(i)
<1>0. /\ pc \in Loading /\ processes \in [Slots -> Addr \cup {NULL}]
      /\ "switch" \notin HasProcess
  BY DEF IInv, TypeOK, Loading, HasProcess
<1>1. /\ slot \in Slots /\ processes[slot] = NULL /\ Members = Used \cup {slot}
      /\ ProcessAt(slot) = process_ /\ process_ # NULL
      /\ \A i \in Used : i # slot /\ ProcessAt(i) = processes[i]
  BY <1>0, SlotIsFree, Basics
<1>2. ASSUME GoesOn
      PROVE  Members' = Members /\ Used' = Used /\ \A i \in Members' : ProcessAt(i)' = ProcessAt(i)
  BY <1>2 DEF GoesOn, Members, Used, ProcessAt
<1>3. ASSUME GetsIn
      PROVE  Members' = Members /\ Used' = Members /\ \A i \in Members' : ProcessAt(i)' = ProcessAt(i)
  <2>1. \A i \in Slots : processes'[i] = IF i = slot THEN process_ ELSE processes[i]
    BY <1>0, <1>3 DEF GetsIn
  <2>2. Used' = Used \cup {slot} /\ Members' = Used \cup {slot}
    BY <1>0, <1>1, <1>3, <2>1 DEF GetsIn, Members, Used
  <2>3. ProcessAt(slot)' = process_
    BY <1>1, <2>1 DEF ProcessAt
  <2>4. \A i \in Used : ProcessAt(i)' = processes[i]
    BY <1>1, <2>1 DEF ProcessAt, Used
  <2> QED BY <1>1, <2>2, <2>3, <2>4
<1>4. ASSUME GivesUp
      PROVE  Members' = Used /\ Used' = Used /\ \A i \in Members' : ProcessAt(i)' = ProcessAt(i)
  BY <1>4 DEF GivesUp, Members, Used, ProcessAt
<1> QED BY <1>2, <1>3, <1>4

\* The members and their objects after a step that changes none of them.
LEMMA NothingAdded ==
  ASSUME IInv, pc \in HasProcess, UNCHANGED <<slot, process_, heap, proc, tasks, task_head, task_tail>>,
         GoesOn \/ (GetsIn /\ TaskOf(slot) # NULL) \/ (GivesUp /\ TaskOf(slot) = NULL)
  PROVE  ObjectsHeld' /\ ObjectsDistinct' /\ ListInOrder' /\ \A i \in Members' : TaskOf(i)' = TaskOf(i)
<1>0. pc \in Loading
  BY DEF Loading
<1>1. /\ Members' \subseteq Members /\ \A i \in Members' : ProcessAt(i)' = ProcessAt(i)
      /\ slot \in Members /\ Used \subseteq Members
      /\ Members = Used \cup {slot} /\ Used' \subseteq Members' /\ Used \subseteq Members'
      /\ GoesOn \/ GetsIn => Members' = Members
      /\ GoesOn \/ GivesUp => Used' = Used
  BY <1>0, MembersStay, SlotIsFree
<1>2. \A i \in Members' : TaskOf(i)' = TaskOf(i)
  BY <1>1 DEF TaskOf
<1>3. \A i \in Members', k \in Kinds : Object(i, k)' = Object(i, k)
  BY <1>1, <1>2 DEF Object
<1>4. \A i \in Used' : TaskOf(i)' # NULL
  <2>1. \A i \in Used : TaskOf(i) # NULL
    BY DEF IInv, ObjectsHeld
  <2>2. \A i \in Used' : i \in Used \/ (i = slot /\ TaskOf(slot) # NULL)
    BY <1>1
  <2> QED BY <1>1, <1>2, <2>1, <2>2
<1>5. ObjectsHeld' /\ ObjectsDistinct'
  <2>1. ObjectsHeld /\ ObjectsDistinct
    BY DEF IInv
  <2> QED BY <1>1, <1>3, <1>4, <2>1, ObjectsKept
<1>6. Places' = Places
  BY <1>1, <1>2 DEF Places
<1>7. ListInOrder'
  <2>1. ListInOrder /\ Places \subseteq Members'
    BY <1>6 DEF IInv, Places
  <2> QED BY <1>1, <1>2, <1>6, <2>1, ListKept
<1> QED BY <1>2, <1>5, <1>7

\* The same when the process that is loaded gets a fresh image, stack or bss, or a
\* wild pointer to its image.
LEMMA FieldAdded ==
  ASSUME IInv, pc \in HasProcess, UNCHANGED <<slot, process_, tasks, task_head, task_tail>>,
         GoesOn \/ (GetsIn /\ TaskOf(slot) # NULL),
         NEW a \in Addr \ heap, heap' = heap \cup {a},
         NEW kind \in {"image", "stack", "bss"},
         \A b \in Addr \ {process_} : proc'[b] = proc[b],
         proc'[process_].task = proc[process_].task,
         IF kind = "image" THEN proc'[process_].image \in {a, Wild}
                           ELSE proc'[process_].image = proc[process_].image,
         IF kind = "stack" THEN proc'[process_].stack \in {a, Wild}
                           ELSE proc'[process_].stack = proc[process_].stack,
         IF kind = "bss"   THEN proc'[process_].bss \in {a, Wild}
                           ELSE proc'[process_].bss = proc[process_].bss
  PROVE  ObjectsHeld' /\ ObjectsDistinct' /\ ListInOrder' /\ \A i \in Members' : TaskOf(i)' = TaskOf(i)
<1>0. pc \in Loading /\ heap \subseteq Addr /\ ObjectsHeld /\ ObjectsDistinct /\ ListInOrder
  BY DEF Loading, IInv, TypeOK
<1>1. /\ Members' = Members /\ \A i \in Members' : ProcessAt(i)' = ProcessAt(i)
      /\ slot \in Members /\ Members = Used \cup {slot}
      /\ ProcessAt(slot) = process_ /\ process_ \in Addr
      /\ \A i \in Used : i # slot
      /\ Used' = Used \/ (Used' = Members /\ TaskOf(slot) # NULL)
  BY <1>0, MembersStay, SlotIsFree
<1>2. \A i \in Members : i # slot => ProcessAt(i) \in Addr \ {process_}
  <2> SUFFICES ASSUME NEW i \in Members, i # slot PROVE ProcessAt(i) \in Addr \ {process_}
    OBVIOUS
  <2>1. ProcessAt(i) \in Addr
    BY <1>0 DEF ObjectsHeld
  <2>2. Object(i, "process") # Object(slot, "process")
    <3>1. "process" \in Kinds /\ Object(i, "process") = ProcessAt(i)
      BY DEF Kinds, Object
    <3>2. <<i, "process">> # <<slot, "process">>
      OBVIOUS
    <3> QED BY <1>0, <1>1, <2>1, <3>1, <3>2 DEF ObjectsDistinct
  <2> QED BY <1>1, <2>1, <2>2 DEF Object
<1>3. \A i \in Members : TaskOf(i)' = TaskOf(i)
  <2>1. TaskOf(slot)' = TaskOf(slot)
    BY <1>1 DEF TaskOf
  <2>2. \A i \in Members : i # slot => TaskOf(i)' = TaskOf(i)
    BY <1>1, <1>2 DEF TaskOf
  <2> QED BY <2>1, <2>2
<1>4. \A i \in Members, k \in Kinds : <<i, k>> # <<slot, kind>> => Object(i, k)' = Object(i, k)
  <2>1. \A i \in Members, k \in Kinds : i # slot => Object(i, k)' = Object(i, k)
    BY <1>1, <1>2, <1>3 DEF Object
  <2>2. \A k \in Kinds : k # kind => Object(slot, k)' = Object(slot, k)
    BY <1>1, <1>3 DEF Object, Kinds
  <2> QED BY <2>1, <2>2
<1>5. Object(slot, kind)' \in {a, Wild}
  BY <1>1 DEF Object
<1>6. \A i \in Used' : TaskOf(i)' # NULL
  BY <1>0, <1>1, <1>3 DEF ObjectsHeld
<1>7. ObjectsHeld' /\ ObjectsDistinct' /\ Places' = Places
  <2>1. /\ kind \in {"process", "image", "stack", "bss"} /\ kind # "process"
        /\ Members' = Members \cup {slot}
    BY <1>1
  <2> QED BY <1>0, <1>1, <1>4, <1>5, <1>6, <2>1, ObjectsGrow
<1>8. ListInOrder'
  <2>1. Places \subseteq Members
    BY DEF Places
  <2> QED BY <1>0, <1>1, <1>3, <1>7, <2>1, ListKept
<1> QED BY <1>1, <1>3, <1>7, <1>8

\* What a step of a load leaves alone keeps its order.
LEMMA LoadStep ==
  ASSUME IInv, pc \in HasProcess,
         UNCHANGED <<slot, process_, current_process, current_task, task_head, booted, cr3>>,
         GoesOn \/ GetsIn \/ (GivesUp /\ pc' \in {"halted", "crash", "failed"}),
         \A i \in Members' : TaskOf(i)' = TaskOf(i)
  PROVE  CurrentAgrees' /\ DirectoryAgrees' /\ SlotsInOrder'
<1>0. /\ pc \in Loading /\ SlotsInOrder /\ CurrentAgrees /\ DirectoryAgrees
      /\ processes \in [Slots -> Addr \cup {NULL}]
      /\ pc \notin {"user", "kernel", "string", "switch"}
      /\ pc' \notin {"user", "kernel", "string", "process"}
  BY DEF IInv, TypeOK, Loading, HasProcess, GoesOn, GetsIn
<1>1. /\ slot \in Slots /\ processes[slot] = NULL /\ process_ # NULL
      /\ \A i \in Slots : i \in Used <=> i < slot
      /\ \A i \in Used : i # slot
      /\ Members = Used \cup {slot}
  BY <1>0, SlotIsFree, Basics
<1>2. /\ GoesOn => Members' = Members /\ Used' = Used
      /\ GetsIn => Members' = Members /\ Used' = Members
      /\ GivesUp => Members' = Used /\ Used' = Used
  BY MembersStay
<1>3. GetsIn => \A i \in Slots : processes'[i] = IF i = slot THEN process_ ELSE processes[i]
  BY <1>0 DEF GetsIn
<1>4. \A i \in Used : processes'[i] = processes[i]
  BY <1>1, <1>3 DEF GoesOn, GivesUp, Used
<1>5. \A i \in Used : i \in Used' /\ TaskOf(i)' = TaskOf(i)
  BY <1>1, <1>2
<1>6. CurrentAgrees'
  <2>1. booted => \E i \in Used' : current_process = processes'[i] /\ current_task = TaskOf(i)'
    BY <1>0, <1>4, <1>5 DEF CurrentAgrees
  <2>2. ~booted => /\ current_process = NULL /\ current_task = task_head
                   /\ Used = {}
    BY <1>0 DEF CurrentAgrees
  <2>3. ~booted => \A i \in Used' : pc' = "switch" /\ i = slot'
    BY <1>1, <1>2, <2>2 DEF GetsIn
  <2> QED BY <1>0, <2>1, <2>2, <2>3 DEF CurrentAgrees
<1>7. DirectoryAgrees'
  BY <1>0 DEF DirectoryAgrees
<1>8. SlotsInOrder'
  <2>1. CASE GoesOn
    BY <1>0, <2>1 DEF SlotsInOrder, GoesOn, Loading, HasProcess
  <2>2. CASE GivesUp /\ pc' \in {"halted", "crash", "failed"}
    BY <1>0, <2>2 DEF SlotsInOrder, GivesUp, Loading, HasProcess
  <2>3. CASE GetsIn
    <3>1. \A i \in Slots : i \in Nat
      BY Basics
    <3>2. \A i \in Slots : processes'[i] # NULL <=> i < slot \/ i = slot
      BY <1>1, <1>3, <2>3 DEF Used
    <3>3. \A i, j \in Slots : processes'[i] # NULL /\ j < i => processes'[j] # NULL
      BY <1>1, <3>1, <3>2
    <3>4. pc' = "switch" /\ pc' \notin Loading /\ processes'[slot] = process_
      BY <1>1, <1>3, <2>3 DEF GetsIn, Loading, HasProcess
    <3> QED BY <1>1, <3>3, <3>4 DEF SlotsInOrder
  <2> QED BY <2>1, <2>2, <2>3
<1> QED BY <1>6, <1>7, <1>8

LEMMA DataInv ==
  ASSUME IInv, process_load_data
  PROVE  IInv'
<1>0. /\ TypeOK /\ heap \subseteq Addr /\ pc = "data" /\ pc \in HasProcess /\ pc \in Loading
      /\ proc \in [Addr -> [task : Pointer, image : Pointer, stack : Pointer, bss : Pointer]]
      /\ UNCHANGED <<processes, tasks, current_process, current_task, task_head, task_tail,
                     cr3, booted, slot, process_, program_sp, task>>
      /\ LocalsAgree
  BY DEF IInv, TypeOK, process_load_data, globals, locals, Loading, HasProcess
<1>1. process_ \in Addr /\ process_ # NULL
  BY <1>0, SlotIsFree, Basics
<1>2. GoesOn
  BY <1>0 DEF process_load_data, GoTo, GoesOn, HasProcess
<1>3. CASE GoTo("out") /\ UNCHANGED <<heap, proc>>
  <2>1. ObjectsHeld' /\ ObjectsDistinct' /\ ListInOrder' /\ \A i \in Members' : TaskOf(i)' = TaskOf(i)
    BY <1>0, <1>2, <1>3, NothingAdded
  <2>2. CurrentAgrees' /\ DirectoryAgrees' /\ SlotsInOrder'
    BY <1>0, <1>2, <2>1, LoadStep
  <2>3. TypeOK' /\ LocalsAgree'
    BY <1>0, <1>3 DEF TypeOK, LocalsAgree, GoTo, Steps
  <2>4. RoomLeft'
    <3>1. Cardinality(Addr \ heap) \in Nat
      BY Remaining
    <3> QED BY <1>3, <3>1 DEF RoomLeft, Needs, GoTo
  <2> QED BY <2>1, <2>2, <2>3, <2>4 DEF IInv
<1>4. CASE /\ heap' = heap \cup {Fresh} /\ GoTo("stack")
           /\ \E v \in {Fresh, Wild} : proc' = [proc EXCEPT ![process_].image = v]
  <2>1. PICK a \in Addr \ heap : a = Fresh /\ Cardinality(Addr \ (heap \cup {a})) >= 4
    <3>1. Cardinality(Addr \ heap) >= 5
      BY <1>0 DEF IInv, RoomLeft, Needs
    <3>2. 5 \in Nat \ {0} /\ 5 - 1 = 4
      OBVIOUS
    <3>3. Fresh \in Addr \ heap /\ Cardinality(Addr \ (heap \cup {Fresh})) >= 4
      BY <3>1, <3>2, FreshLeaves
    <3> QED BY <3>3
  <2>2. PICK v \in {a, Wild} : proc' = [proc EXCEPT ![process_].image = v]
    BY <1>4, <2>1
  <2>3. /\ \A b \in Addr \ {process_} : proc'[b] = proc[b]
        /\ proc'[process_].task = proc[process_].task
        /\ proc'[process_].image \in {a, Wild}
        /\ proc'[process_].stack = proc[process_].stack
        /\ proc'[process_].bss = proc[process_].bss
    BY <1>0, <1>1, <2>2
  <2>4. ObjectsHeld' /\ ObjectsDistinct' /\ ListInOrder' /\ \A i \in Members' : TaskOf(i)' = TaskOf(i)
    <3>1. "image" \in {"image", "stack", "bss"} /\ heap' = heap \cup {a}
      BY <1>4, <2>1
    <3> QED BY <1>0, <1>2, <2>3, <3>1, FieldAdded
  <2>5. CurrentAgrees' /\ DirectoryAgrees' /\ SlotsInOrder'
    BY <1>0, <1>2, <2>4, LoadStep
  <2>6. TypeOK'
    <3>1. proc' \in [Addr -> [task : Pointer, image : Pointer, stack : Pointer, bss : Pointer]]
      BY <1>0, <2>2 DEF Pointer
    <3> QED BY <1>0, <1>4, <2>1, <3>1 DEF TypeOK, GoTo, Steps
  <2>7. LocalsAgree'
    BY <1>0, <1>4, <2>3 DEF LocalsAgree, GoTo, HasProcess
  <2>8. RoomLeft'
    BY <1>4, <2>1 DEF RoomLeft, Needs, GoTo
  <2> QED BY <2>4, <2>5, <2>6, <2>7, <2>8 DEF IInv
<1> QED BY <1>3, <1>4 DEF process_load_data

LEMMA StackInv ==
  ASSUME IInv, AllocateStack
  PROVE  IInv'
<1>0. /\ TypeOK /\ heap \subseteq Addr /\ pc = "stack" /\ pc \in HasProcess /\ pc \in Loading
      /\ proc \in [Addr -> [task : Pointer, image : Pointer, stack : Pointer, bss : Pointer]]
      /\ UNCHANGED <<processes, tasks, current_process, current_task, task_head, task_tail,
                     cr3, booted, slot, process_, task>>
      /\ LocalsAgree
  BY DEF IInv, TypeOK, AllocateStack, globals, Loading, HasProcess
<1>1. process_ \in Addr /\ process_ # NULL
  BY <1>0, SlotIsFree, Basics
<1>2. GoesOn
  BY <1>0 DEF AllocateStack, GoTo, GoesOn, HasProcess
<1>3. CASE GoTo("out") /\ UNCHANGED <<heap, proc, program_sp>>
  <2>1. ObjectsHeld' /\ ObjectsDistinct' /\ ListInOrder' /\ \A i \in Members' : TaskOf(i)' = TaskOf(i)
    BY <1>0, <1>2, <1>3, NothingAdded
  <2>2. CurrentAgrees' /\ DirectoryAgrees' /\ SlotsInOrder'
    BY <1>0, <1>2, <2>1, LoadStep
  <2>3. TypeOK' /\ LocalsAgree'
    BY <1>0, <1>3 DEF TypeOK, LocalsAgree, GoTo, Steps
  <2>4. RoomLeft'
    <3>1. Cardinality(Addr \ heap) \in Nat
      BY Remaining
    <3> QED BY <1>3, <3>1 DEF RoomLeft, Needs, GoTo
  <2> QED BY <2>1, <2>2, <2>3, <2>4 DEF IInv
<1>4. CASE /\ heap' = heap \cup {Fresh} /\ GoTo("task") /\ program_sp' = Fresh
           /\ proc' = [proc EXCEPT ![process_].stack = Fresh]
  <2>1. PICK a \in Addr \ heap : a = Fresh /\ Cardinality(Addr \ (heap \cup {a})) >= 3
    <3>1. Cardinality(Addr \ heap) >= 4
      BY <1>0 DEF IInv, RoomLeft, Needs
    <3>2. 4 \in Nat \ {0} /\ 4 - 1 = 3
      OBVIOUS
    <3>3. Fresh \in Addr \ heap /\ Cardinality(Addr \ (heap \cup {Fresh})) >= 3
      BY <3>1, <3>2, FreshLeaves
    <3> QED BY <3>3
  <2>2. proc' = [proc EXCEPT ![process_].stack = a]
    BY <1>4, <2>1
  <2>3. /\ \A b \in Addr \ {process_} : proc'[b] = proc[b]
        /\ proc'[process_].task = proc[process_].task
        /\ proc'[process_].image = proc[process_].image
        /\ proc'[process_].stack = a
        /\ proc'[process_].bss = proc[process_].bss
    BY <1>0, <1>1, <2>2
  <2>4. ObjectsHeld' /\ ObjectsDistinct' /\ ListInOrder' /\ \A i \in Members' : TaskOf(i)' = TaskOf(i)
    <3>1. "stack" \in {"image", "stack", "bss"} /\ heap' = heap \cup {a}
      BY <1>4, <2>1
    <3> QED BY <1>0, <1>2, <2>3, <3>1, FieldAdded
  <2>5. CurrentAgrees' /\ DirectoryAgrees' /\ SlotsInOrder'
    BY <1>0, <1>2, <2>4, LoadStep
  <2>6. TypeOK'
    <3>1. proc' \in [Addr -> [task : Pointer, image : Pointer, stack : Pointer, bss : Pointer]]
      BY <1>0, <2>2 DEF Pointer
    <3> QED BY <1>0, <1>4, <2>1, <3>1 DEF TypeOK, GoTo, Steps
  <2>7. LocalsAgree'
    BY <1>0, <1>1, <1>4, <2>1, <2>3 DEF LocalsAgree, GoTo
  <2>8. RoomLeft'
    BY <1>4, <2>1 DEF RoomLeft, Needs, GoTo
  <2> QED BY <2>4, <2>5, <2>6, <2>7, <2>8 DEF IInv
<1> QED BY <1>3, <1>4 DEF AllocateStack

LEMMA MapInv ==
  ASSUME IInv, process_map_memory
  PROVE  IInv'
<1>0. /\ TypeOK /\ heap \subseteq Addr /\ pc = "map" /\ pc \in HasProcess /\ pc \in Loading
      /\ proc \in [Addr -> [task : Pointer, image : Pointer, stack : Pointer, bss : Pointer]]
      /\ processes \in [Slots -> Addr \cup {NULL}]
      /\ UNCHANGED <<tasks, current_process, current_task, task_head, task_tail,
                     cr3, booted, slot, process_, program_sp, task>>
      /\ LocalsAgree
  BY DEF IInv, TypeOK, process_map_memory, locals, Loading, HasProcess
<1>1. process_ \in Addr /\ process_ # NULL /\ ProcessAt(slot) = process_ /\ TaskOf(slot) # NULL
  <2>1. process_ \in Addr /\ process_ # NULL /\ ProcessAt(slot) = process_
    BY <1>0, SlotIsFree, Basics
  <2> QED BY <1>0, <2>1 DEF LocalsAgree, TaskOf
<1>2. GoesOn \/ GetsIn
  BY <1>0 DEF process_map_memory, GoTo, GoesOn, GetsIn, HasProcess
<1>3. CASE UNCHANGED <<heap, proc>>
  <2>1. ObjectsHeld' /\ ObjectsDistinct' /\ ListInOrder' /\ \A i \in Members' : TaskOf(i)' = TaskOf(i)
    BY <1>0, <1>1, <1>2, <1>3, NothingAdded
  <2>2. CurrentAgrees' /\ DirectoryAgrees' /\ SlotsInOrder'
    BY <1>0, <1>2, <2>1, LoadStep
  <2>3. processes' \in [Slots -> Addr \cup {NULL}] /\ pc' \in {"switch", "out"}
    BY <1>0, <1>1 DEF process_map_memory, GoTo
  <2>4. TypeOK' /\ LocalsAgree'
    BY <1>0, <1>3, <2>3 DEF TypeOK, LocalsAgree, HasProcess, Steps
  <2>5. RoomLeft'
    <3>1. Cardinality(Addr \ heap) \in Nat
      BY Remaining
    <3> QED BY <1>3, <2>3, <3>1 DEF RoomLeft, Needs
  <2> QED BY <2>1, <2>2, <2>4, <2>5 DEF IInv
<1>4. CASE /\ heap' = heap \cup {Fresh} /\ GoTo("switch")
           /\ proc' = [proc EXCEPT ![process_].bss = Fresh]
           /\ processes' = [processes EXCEPT ![slot] = process_]
  <2>1. PICK a \in Addr \ heap : a = Fresh
    <3>1. Cardinality(Addr \ heap) >= 1 /\ 1 \in Nat \ {0}
      BY <1>0 DEF IInv, RoomLeft, Needs
    <3>2. Fresh \in Addr \ heap
      BY <3>1, FreshLeaves
    <3> QED BY <3>2
  <2>2. proc' = [proc EXCEPT ![process_].bss = a]
    BY <1>4, <2>1
  <2>3. /\ \A b \in Addr \ {process_} : proc'[b] = proc[b]
        /\ proc'[process_].task = proc[process_].task
        /\ proc'[process_].image = proc[process_].image
        /\ proc'[process_].stack = proc[process_].stack
        /\ proc'[process_].bss = a
    BY <1>0, <1>1, <2>2
  <2>4. GetsIn
    BY <1>4 DEF GetsIn, GoTo
  <2>5. ObjectsHeld' /\ ObjectsDistinct' /\ ListInOrder' /\ \A i \in Members' : TaskOf(i)' = TaskOf(i)
    <3>1. "bss" \in {"image", "stack", "bss"} /\ heap' = heap \cup {a}
      BY <1>4, <2>1
    <3> QED BY <1>0, <1>1, <2>3, <2>4, <3>1, FieldAdded
  <2>6. CurrentAgrees' /\ DirectoryAgrees' /\ SlotsInOrder'
    BY <1>0, <2>4, <2>5, LoadStep
  <2>7. TypeOK'
    <3>1. proc' \in [Addr -> [task : Pointer, image : Pointer, stack : Pointer, bss : Pointer]]
      BY <1>0, <2>2 DEF Pointer
    <3>2. processes' \in [Slots -> Addr \cup {NULL}]
      BY <1>0, <1>1, <1>4
    <3> QED BY <1>0, <1>4, <2>1, <3>1, <3>2 DEF TypeOK, GoTo, Steps
  <2>8. LocalsAgree'
    BY <1>4 DEF LocalsAgree, GoTo, HasProcess
  <2>9. RoomLeft'
    <3>1. Cardinality(Addr \ heap') \in Nat
      BY Remaining
    <3> QED BY <1>4, <3>1 DEF RoomLeft, Needs, GoTo
  <2> QED BY <2>5, <2>6, <2>7, <2>8, <2>9 DEF IInv
<1> QED BY <1>3, <1>4 DEF process_map_memory

\* A used slot has a task, which is in the heap with its page directory.
LEMMA TaskHeld ==
  ASSUME IInv, NEW i \in Places
  PROVE  /\ TaskOf(i) \in heap /\ TaskOf(i) \in Addr
         /\ tasks[TaskOf(i)].directory \in heap
         /\ i \in Members /\ i \in Slots
<1>1. i \in Members /\ TaskOf(i) # NULL /\ i \in Slots
  BY DEF Places, Members
<1>2. TaskOf(i) \in heap /\ Object(i, "directory") \in heap
  <2>1. "task" \in Kinds
    BY DEF Kinds
  <2> QED BY <1>1, <2>1, ObjectIs DEF IInv, ObjectsHeld
<1>3. heap \subseteq Addr
  BY DEF IInv, TypeOK
<1> QED BY <1>1, <1>2, <1>3, ObjectIs

\* Tasks and processes of different members are different.
LEMMA MembersDiffer ==
  ASSUME IInv, NEW i \in Members, NEW j \in Members, i # j
  PROVE  /\ ProcessAt(i) # ProcessAt(j)
         /\ i \in Places => TaskOf(i) # TaskOf(j)
<1>1. /\ ProcessAt(i) \in Addr /\ "process" \in Kinds /\ "task" \in Kinds
      /\ Object(i, "process") = ProcessAt(i) /\ Object(j, "process") = ProcessAt(j)
      /\ Object(i, "task") = TaskOf(i) /\ Object(j, "task") = TaskOf(j)
  BY DEF IInv, TypeOK, ObjectsHeld, Kinds, Object
<1>2. <<i, "process">> # <<j, "process">> /\ <<i, "task">> # <<j, "task">>
  OBVIOUS
<1> QED BY <1>1, <1>2, TaskHeld DEF IInv, ObjectsDistinct

\* A new task is appended to the list: it has the place of the slot that is loaded.
LEMMA NewTaskInv ==
  ASSUME IInv, pc = "task",
         NEW t \in Addr \ heap, NEW directory \in Addr \ (heap \cup {t}),
         Cardinality(Addr \ (heap \cup {t, directory})) >= 1,
         heap' = heap \cup {t, directory}, InsertTask(t, directory), task_tail' = t, task' = t,
         proc' = [proc EXCEPT ![process_].task = t], pc' = "map",
         UNCHANGED <<processes, current_process, cr3, booted, slot, process_, program_sp>>
  PROVE  IInv'
<1> DEFINE PROC == [task : Pointer, image : Pointer, stack : Pointer, bss : Pointer]
           TASK == [process : Pointer, directory : Pointer, next : Pointer, prev : Pointer]
<1>0. /\ TypeOK /\ heap \subseteq Addr /\ pc \in HasProcess /\ pc \in Loading /\ pc' \in HasProcess
      /\ pc' \in Loading
      /\ proc \in [Addr -> PROC] /\ tasks \in [Addr -> TASK]
      /\ LocalsAgree /\ ListInOrder /\ ObjectsHeld /\ ObjectsDistinct /\ CurrentAgrees
      /\ DirectoryAgrees /\ SlotsInOrder
      /\ task_head \in Addr \cup {NULL} /\ task_tail \in Addr \cup {NULL}
  BY DEF IInv, TypeOK, Loading, HasProcess
<1>1. /\ process_ \in Addr /\ process_ # NULL /\ ProcessAt(slot) = process_ /\ slot \in Slots
      /\ Members = Used \cup {slot} /\ \A i \in Used : i # slot
      /\ \A i \in Slots : i \in Used <=> i < slot
      /\ t # NULL /\ t # Wild /\ directory # NULL /\ directory # Wild
      /\ t \in Addr /\ directory \in Addr /\ t # directory
  BY <1>0, SlotIsFree, Basics
<1>2. TaskOf(slot) = NULL /\ Places = Used
  <2>1. TaskOf(slot) = NULL
    BY <1>0, <1>1 DEF LocalsAgree, TaskOf
  <2> QED BY <1>0, <1>1, <2>1 DEF ObjectsHeld, Places
<1>3. Members' = Members /\ Used' = Used /\ \A i \in Members : ProcessAt(i)' = ProcessAt(i)
  BY <1>0, MembersStay DEF GoesOn
<1>4. /\ proc'[process_].task = t
      /\ proc'[process_].image = proc[process_].image
      /\ proc'[process_].stack = proc[process_].stack
      /\ proc'[process_].bss = proc[process_].bss
      /\ \A b \in Addr : b # process_ => proc'[b] = proc[b]
  BY <1>0, <1>1
<1>5. \A i \in Used : ProcessAt(i) \in Addr /\ ProcessAt(i) # process_
  BY <1>0, <1>1, MembersDiffer DEF ObjectsHeld
<1>6. TaskOf(slot)' = t /\ \A i \in Used : TaskOf(i)' = TaskOf(i)
  BY <1>1, <1>3, <1>4, <1>5 DEF TaskOf
<1>7. Places' = Used \cup {slot}
  BY <1>0, <1>1, <1>3, <1>6 DEF Places, ObjectsHeld
<1>8. /\ tasks'[t] = [process |-> process_, directory |-> directory, next |-> NULL,
                      prev |-> IF task_head = NULL THEN NULL ELSE task_tail]
      /\ \A b \in Addr : b # t =>
           /\ tasks'[b].process = tasks[b].process
           /\ tasks'[b].directory = tasks[b].directory
           /\ tasks'[b].prev = tasks[b].prev
           /\ tasks'[b].next = IF task_head # NULL /\ b = task_tail THEN t ELSE tasks[b].next
  <2>1. CASE task_head = NULL
    BY <1>0, <1>1, <2>1 DEF InsertTask
  <2>2. CASE task_head # NULL
    BY <1>0, <1>1, <2>2 DEF InsertTask
  <2> QED BY <2>1, <2>2
<1>9. tasks' \in [Addr -> TASK]
  <2>1. CASE task_head = NULL
    BY <1>0, <1>1, <2>1 DEF InsertTask, Pointer
  <2>2. CASE task_head # NULL
    BY <1>0, <1>1, <2>2 DEF InsertTask, Pointer
  <2> QED BY <2>1, <2>2
<1>10. \A i \in Used : TaskOf(i) \in heap /\ TaskOf(i) \in Addr /\ TaskOf(i) # t /\ TaskOf(i) # NULL
  BY <1>0, <1>2, TaskHeld DEF ObjectsHeld
<1>11. /\ \A i \in Members, k \in Kinds : i # slot => Object(i, k)' = Object(i, k)
       /\ \A k \in Kinds : k # "task" /\ k # "directory" => Object(slot, k)' = Object(slot, k)
       /\ Object(slot, "task")' = t /\ Object(slot, "directory")' = directory
  <2>1. ASSUME NEW i \in Members, NEW k \in Kinds, i # slot PROVE Object(i, k)' = Object(i, k)
    <3>1. /\ i \in Used /\ ProcessAt(i)' = ProcessAt(i) /\ TaskOf(i)' = TaskOf(i)
          /\ proc'[ProcessAt(i)] = proc[ProcessAt(i)]
          /\ tasks'[TaskOf(i)].directory = tasks[TaskOf(i)].directory
      BY <1>1, <1>3, <1>4, <1>5, <1>6, <1>8, <1>10, <2>1
    <3> QED BY <3>1 DEF Object
  <2>2. ASSUME NEW k \in Kinds, k # "task", k # "directory" PROVE Object(slot, k)' = Object(slot, k)
    <3>1. ProcessAt(slot)' = process_ /\ k \in {"process", "image", "stack", "bss"}
      BY <1>1, <1>3, <2>2 DEF Kinds
    <3> QED BY <1>1, <1>4, <3>1 DEF Object
  <2>3. Object(slot, "task")' = t
    BY <1>6 DEF Object
  <2>4. Object(slot, "directory")' = directory
    <3>1. tasks'[t].directory = directory
      BY <1>8
    <3> QED BY <1>1, <1>6, <3>1 DEF Object
  <2> QED BY <2>1, <2>2, <2>3, <2>4
<1>12. \A m \in Members, n \in Kinds :
          \/ <<m, n>> = <<slot, "task">> /\ Object(m, n)' = t
          \/ <<m, n>> = <<slot, "directory">> /\ Object(m, n)' = directory
          \/ Object(m, n)' = Object(m, n) /\ Object(m, n) \in heap \cup {NULL, Wild}
  BY <1>0, <1>11 DEF ObjectsHeld
<1>13. ObjectsHeld'
  <2>1. \A i \in Members', k \in Kinds : Object(i, k)' \in heap' \cup {NULL, Wild}
    BY <1>3, <1>12
  <2>2. \A i \in Members' : ProcessAt(i)' \in heap' /\ TaskOf(i)' # Wild
    BY <1>0, <1>1, <1>3, <1>6 DEF ObjectsHeld
  <2>3. ASSUME NEW i \in Places' PROVE Object(i, "directory")' \in heap'
    <3>1. CASE i = slot
      BY <1>11, <3>1
    <3>2. CASE i \in Used /\ i # slot
      <4>1. Object(i, "directory")' = Object(i, "directory") /\ i \in Places
        BY <1>1, <1>2, <1>11, <3>2 DEF Kinds
      <4> QED BY <1>0, <4>1 DEF ObjectsHeld
    <3> QED BY <1>1, <1>7, <3>1, <3>2
  <2>4. \A i \in Used' : TaskOf(i)' # NULL
    BY <1>3, <1>6, <1>10
  <2> QED BY <2>1, <2>2, <2>3, <2>4 DEF ObjectsHeld
<1>14. ObjectsDistinct'
  <2> SUFFICES ASSUME NEW i \in Members', NEW j \in Members', NEW k \in Kinds, NEW l \in Kinds,
                      <<i, k>> # <<j, l>>, Object(i, k)' \in Addr
               PROVE  Object(i, k)' # Object(j, l)'
    BY DEF ObjectsDistinct
  <2>0. i \in Members /\ j \in Members
    BY <1>3
  <2>1. CASE Object(i, k)' = Object(i, k) /\ Object(i, k) \in heap \cup {NULL, Wild}
    <3>1. Object(i, k) \in heap
      BY <2>1, Basics
    <3>2. CASE Object(j, l)' = Object(j, l)
      BY <1>0, <2>0, <2>1, <3>2 DEF ObjectsDistinct
    <3>3. CASE Object(j, l)' \in {t, directory}
      BY <2>1, <3>1, <3>3
    <3> QED BY <1>12, <2>0, <3>2, <3>3
  <2>2. CASE Object(i, k)' \in {t, directory} /\ <<i, k>> \in {<<slot, "task">>, <<slot, "directory">>}
    <3>1. CASE Object(j, l)' \in heap \cup {NULL, Wild}
      BY <1>1, <2>2, <3>1
    <3>2. CASE <<j, l>> = <<slot, "task">> /\ Object(j, l)' = t
      BY <1>1, <1>12, <2>0, <2>2, <3>2
    <3>3. CASE <<j, l>> = <<slot, "directory">> /\ Object(j, l)' = directory
      BY <1>1, <1>12, <2>0, <2>2, <3>3
    <3> QED BY <1>12, <2>0, <3>1, <3>2, <3>3
  <2> QED BY <1>12, <2>0, <2>1, <2>2
<1>15. \A i \in Used : i \in Nat /\ (i = 0 \/ i - 1 \in Used) /\ (i + 1 \in Used <=> i + 1 # slot)
  <2> SUFFICES ASSUME NEW i \in Used
               PROVE  i \in Nat /\ (i = 0 \/ i - 1 \in Used) /\ (i + 1 \in Used <=> i + 1 # slot)
    OBVIOUS
  <2>1. i \in Slots /\ i \in Nat /\ slot \in Nat /\ i < slot
    BY <1>1, Basics DEF Used
  <2>2. i = 0 \/ i - 1 \in Used
    <3>1. i # 0 => i - 1 \in Slots /\ i - 1 < slot
      BY <2>1, Basics
    <3> QED BY <1>1, <3>1
  <2>3. i + 1 # slot => i + 1 \in Slots /\ i + 1 < slot
    <3>1. i + 1 # slot => i + 1 \in Nat /\ i + 1 < slot
      BY <2>1
    <3> QED BY <1>1, <3>1, Basics
  <2>4. i + 1 = slot => i + 1 \notin Used
    BY <1>1
  <2> QED BY <1>1, <2>1, <2>2, <2>3, <2>4
<1>16. /\ slot \in Nat
       /\ slot = 0 => Used = {} /\ task_head = NULL
       /\ slot # 0 => /\ 0 \in Used /\ slot - 1 \in Used
                      /\ task_head = TaskOf(0) /\ task_head # NULL
                      /\ task_tail = TaskOf(slot - 1)
       /\ slot + 1 \notin Used /\ slot + 1 # slot /\ slot \notin Used
  <2>1. slot \in Nat
    BY <1>1, Basics
  <2>2. slot = 0 => Used = {}
    <3>1. \A i \in Slots : i \in Nat
      BY Basics
    <3> QED BY <1>1, <3>1 DEF Used
  <2>3. slot # 0 => 0 \in Used /\ slot - 1 \in Used
    <3>1. slot # 0 => slot - 1 \in Slots /\ slot - 1 < slot /\ 0 \in Slots /\ 0 < slot
      BY <1>1, <2>1, Basics
    <3> QED BY <1>1, <3>1
  <2>4. slot # 0 => slot - 1 + 1 = slot
    BY <2>1
  <2>5. slot \notin Used /\ ~(slot + 1 < slot) /\ slot + 1 # slot
    BY <1>1, <2>1
  <2>6. slot + 1 \notin Used
    BY <1>1, <2>5 DEF Used
  <2>7. slot # 0 => task_tail = TaskOf(slot - 1)
    BY <1>0, <1>2, <2>3, <2>4, <2>5 DEF ListInOrder
  <2>8. /\ slot = 0 => task_head = NULL
        /\ slot # 0 => task_head = TaskOf(0) /\ task_head # NULL
    BY <1>0, <1>2, <1>10, <2>2, <2>3 DEF ListInOrder
  <2> QED BY <2>1, <2>2, <2>3, <2>5, <2>6, <2>7, <2>8
<1>17. task_head' = IF task_head = NULL THEN t ELSE task_head
  BY DEF InsertTask
<1>18. ListInOrder'
  <2>1. ASSUME NEW i \in Used
        PROVE  /\ i = 0 \/ i - 1 \in Places'
               /\ tasks'[TaskOf(i)].process = ProcessAt(i)
               /\ tasks'[TaskOf(i)].prev = IF i = 0 THEN NULL ELSE TaskOf(i - 1)'
               /\ tasks'[TaskOf(i)].next = IF i + 1 \in Places' THEN TaskOf(i + 1)' ELSE NULL
               /\ i + 1 \in Places'
    <3>1. /\ tasks'[TaskOf(i)].process = tasks[TaskOf(i)].process
          /\ tasks'[TaskOf(i)].prev = tasks[TaskOf(i)].prev
          /\ tasks'[TaskOf(i)].next = IF TaskOf(i) = task_tail THEN t ELSE tasks[TaskOf(i)].next
      <4>1. slot # 0
        BY <1>16
      <4> QED BY <1>8, <1>10, <1>16, <4>1
    <3>2. /\ i = 0 \/ i - 1 \in Used
          /\ tasks[TaskOf(i)].process = ProcessAt(i)
          /\ tasks[TaskOf(i)].prev = IF i = 0 THEN NULL ELSE TaskOf(i - 1)
          /\ tasks[TaskOf(i)].next = IF i + 1 \in Used THEN TaskOf(i + 1) ELSE NULL
      BY <1>0, <1>2 DEF ListInOrder
    <3>3. i = 0 \/ TaskOf(i - 1)' = TaskOf(i - 1)
      BY <1>6, <3>2
    <3>4. CASE i + 1 = slot
      <4>1. slot - 1 = i /\ slot # 0
        BY <1>15, <3>4
      <4>2. TaskOf(i) = task_tail
        BY <1>16, <4>1
      <4>3. i + 1 \in Places' /\ TaskOf(i + 1)' = t
        BY <1>6, <1>7, <3>4
      <4> QED BY <1>7, <3>1, <3>2, <3>3, <4>2, <4>3
    <3>5. CASE i + 1 # slot
      <4>1. i + 1 \in Used /\ TaskOf(i + 1)' = TaskOf(i + 1) /\ i + 1 \in Places'
        BY <1>6, <1>7, <1>15, <3>5
      <4>2. i # slot - 1 /\ slot # 0 /\ slot - 1 \in Used
        BY <1>15, <1>16, <3>5
      <4>3. TaskOf(i) # TaskOf(slot - 1)
        <5>1. i \in Members /\ slot - 1 \in Members /\ i \in Places
          BY <1>1, <1>2, <4>2
        <5> QED BY <4>2, <5>1, MembersDiffer
      <4>4. TaskOf(i) # task_tail
        BY <1>16, <4>2, <4>3
      <4> QED BY <1>7, <3>1, <3>2, <3>3, <4>1, <4>4
    <3> QED BY <3>4, <3>5
  <2>2. /\ slot = 0 \/ slot - 1 \in Places'
        /\ tasks'[t].process = ProcessAt(slot)
        /\ tasks'[t].prev = IF slot = 0 THEN NULL ELSE TaskOf(slot - 1)'
        /\ tasks'[t].next = NULL
        /\ slot + 1 \notin Places'
    <3>1. slot # 0 => TaskOf(slot - 1)' = TaskOf(slot - 1)
      BY <1>6, <1>16
    <3> QED BY <1>1, <1>7, <1>8, <1>16, <3>1
  <2>3. 0 \in Places' /\ task_head' = TaskOf(0)'
    BY <1>6, <1>7, <1>16, <1>17
  <2>4. ASSUME NEW i \in Places'
        PROVE  /\ i = 0 \/ i - 1 \in Places'
               /\ tasks'[TaskOf(i)'].process = ProcessAt(i)'
               /\ tasks'[TaskOf(i)'].prev = IF i = 0 THEN NULL ELSE TaskOf(i - 1)'
               /\ tasks'[TaskOf(i)'].next = IF i + 1 \in Places' THEN TaskOf(i + 1)' ELSE NULL
               /\ i + 1 \notin Places' => task_tail' = TaskOf(i)'
    <3>1. CASE i = slot
      <4>1. TaskOf(i)' = t /\ ProcessAt(i)' = ProcessAt(slot)
        BY <1>1, <1>3, <1>6, <3>1
      <4> QED BY <2>2, <3>1, <4>1
    <3>2. CASE i \in Used
      <4>1. TaskOf(i)' = TaskOf(i) /\ ProcessAt(i)' = ProcessAt(i)
        BY <1>1, <1>3, <1>6, <3>2
      <4> QED BY <2>1, <3>2, <4>1
    <3> QED BY <1>7, <3>1, <3>2
  <2> QED BY <2>3, <2>4 DEF ListInOrder
<1>19. CurrentAgrees'
  <2>1. booted => \E i \in Used' : current_process = processes'[i] /\ current_task' = TaskOf(i)'
    <3>1. booted => Used # {}
      BY <1>0 DEF CurrentAgrees
    <3>2. booted => current_task' = current_task
      BY <1>16, <3>1 DEF InsertTask
    <3> QED BY <1>0, <1>3, <1>6, <3>2 DEF CurrentAgrees
  <2>2. ~booted => current_process = NULL /\ Used = {}
    BY <1>0 DEF CurrentAgrees
  <2>3. ~booted => task_head = NULL
    BY <1>16, <2>2
  <2>4. ~booted => current_task' = task_head'
    BY <2>3 DEF InsertTask
  <2> QED BY <1>3, <2>1, <2>2, <2>4 DEF CurrentAgrees
<1>20. DirectoryAgrees'
  BY <1>0 DEF DirectoryAgrees
<1>21. SlotsInOrder'
  BY <1>0 DEF SlotsInOrder
<1>22. LocalsAgree'
  BY <1>0, <1>1, <1>4 DEF LocalsAgree
<1>23. RoomLeft'
  BY DEF RoomLeft, Needs
<1>24. TypeOK'
  <2>1. proc' \in [Addr -> PROC]
    BY <1>0, <1>1 DEF Pointer
  <2>2. {current_process', current_task', task_head', task_tail', process_', program_sp'}
          \subseteq Addr \cup {NULL}
    <3>1. current_task' \in Addr \cup {NULL}
      BY <1>0, <1>1 DEF TypeOK, InsertTask
    <3>2. task_head' \in Addr \cup {NULL}
      BY <1>0, <1>1, <1>17
    <3> QED BY <1>0, <1>1, <3>1, <3>2 DEF TypeOK
  <2>3. task' \in Pointer /\ heap' \subseteq Addr
    BY <1>0, <1>1 DEF Pointer
  <2> QED BY <1>0, <1>9, <2>1, <2>2, <2>3 DEF TypeOK, Steps
<1> QED BY <1>13, <1>14, <1>18, <1>19, <1>20, <1>21, <1>22, <1>23, <1>24 DEF IInv

LEMMA TaskNewInv ==
  ASSUME IInv, task_new
  PROVE  IInv'
<1>0. /\ TypeOK /\ heap \subseteq Addr /\ pc = "task" /\ pc \in HasProcess /\ pc \in Loading
      /\ UNCHANGED <<processes, current_process, cr3, booted, slot, process_, program_sp>>
      /\ LocalsAgree
  BY DEF IInv, TypeOK, task_new, Loading, HasProcess
<1>1. ProcessAt(slot) = process_ /\ TaskOf(slot) = NULL /\ task = NULL
  <2>1. ProcessAt(slot) = process_
    BY <1>0, SlotIsFree
  <2> QED BY <1>0, <2>1 DEF LocalsAgree, TaskOf
<1> DEFINE directory == CHOOSE a \in Addr \ (heap \cup {Fresh}) :
                          \A b \in Addr \ (heap \cup {Fresh}) : a <= b
<1>2. CASE /\ heap' = heap \cup {Fresh, directory}
           /\ InsertTask(Fresh, directory)
           /\ task_tail' = Fresh
           /\ task' = Fresh
           /\ proc' = [proc EXCEPT ![process_].task = Fresh]
           /\ pc' = "map"
  <2>1. directory = Lowest(Addr \ (heap \cup {Fresh}))
    BY DEF Lowest
  <2> HIDE DEF directory
  <2>2. PICK t \in Addr \ heap : t = Fresh /\ Cardinality(Addr \ (heap \cup {t})) >= 2
    <3>1. Cardinality(Addr \ heap) >= 3
      BY <1>0 DEF IInv, RoomLeft, Needs
    <3>2. 3 \in Nat \ {0} /\ 3 - 1 = 2
      OBVIOUS
    <3>3. Fresh \in Addr \ heap /\ Cardinality(Addr \ (heap \cup {Fresh})) >= 2
      BY <3>1, <3>2, FreshLeaves
    <3> QED BY <3>3
  <2>3. PICK d \in Addr \ (heap \cup {t}) :
          d = directory /\ Cardinality(Addr \ (heap \cup {t, d})) >= 1
    <3>1. Cardinality(Addr \ (heap \cup {t})) \in Nat
      BY Remaining
    <3>2. Cardinality(Addr \ (heap \cup {t})) >= 1
      BY <2>2, <3>1
    <3>3. /\ Lowest(Addr \ (heap \cup {t})) \in Addr \ (heap \cup {t})
          /\ Cardinality(Addr \ ((heap \cup {t}) \cup {Lowest(Addr \ (heap \cup {t}))}))
               = Cardinality(Addr \ (heap \cup {t})) - 1
      BY <3>2, FreshIsFree
    <3>4. directory = Lowest(Addr \ (heap \cup {t}))
      BY <2>1, <2>2
    <3>5. heap \cup {t, directory} = (heap \cup {t}) \cup {directory}
      OBVIOUS
    <3>6. Cardinality(Addr \ (heap \cup {t, directory})) = Cardinality(Addr \ (heap \cup {t})) - 1
      BY <3>3, <3>4, <3>5
    <3>7. Cardinality(Addr \ (heap \cup {t, directory})) >= 1
      BY <2>2, <3>1, <3>6
    <3> QED BY <3>3, <3>4, <3>7
  <2> QED BY <1>0, <1>2, <2>2, <2>3, NewTaskInv
<1>3. CASE /\ UNCHANGED <<objects, current_task, task_head, task_tail>>
           /\ \/ task' = Wild /\ pc' = "out"
              \/ UNCHANGED task /\ pc' \in {"halted", "crash"}
  <2>1. /\ GoesOn \/ (GivesUp /\ pc' \in {"halted", "crash", "failed"})
        /\ UNCHANGED <<heap, proc, tasks>>
    BY <1>0, <1>3 DEF GoesOn, GivesUp, HasProcess, objects
  <2>2. ObjectsHeld' /\ ObjectsDistinct' /\ ListInOrder' /\ \A i \in Members' : TaskOf(i)' = TaskOf(i)
    BY <1>0, <1>1, <1>3, <2>1, NothingAdded
  <2>3. CurrentAgrees' /\ DirectoryAgrees' /\ SlotsInOrder'
    BY <1>0, <1>3, <2>1, <2>2, LoadStep
  <2>4. TypeOK' /\ LocalsAgree'
    BY <1>0, <1>3, <2>1 DEF TypeOK, LocalsAgree, Steps, Pointer, HasProcess
  <2>5. RoomLeft'
    <3>1. Cardinality(Addr \ heap) \in Nat
      BY Remaining
    <3> QED BY <1>3, <2>1, <3>1 DEF RoomLeft, Needs
  <2> QED BY <2>2, <2>3, <2>4, <2>5 DEF IInv
<1> QED BY <1>2, <1>3 DEF task_new, GoTo

\* The error path frees objects of the process that was loaded, and nobody else's.
LEMMA NobodyLoses ==
  ASSUME IInv, pc \in HasProcess, NEW X,
         X \subseteq {Object(slot, k) : k \in Kinds}, heap' = heap \ X, GivesUp,
         \A i \in Used, k \in Kinds : Object(i, k)' = Object(i, k),
         UNCHANGED <<slot, process_>>
  PROVE  ObjectsHeld' /\ ObjectsDistinct'
<1>0. /\ pc \in Loading /\ ObjectsHeld /\ ObjectsDistinct /\ heap \subseteq Addr
  BY DEF IInv, TypeOK, Loading
<1>1. /\ Members = Used \cup {slot} /\ \A i \in Used : i # slot
      /\ Members' = Used /\ Used' = Used
  BY <1>0, SlotIsFree, MembersStay
<1>2. \A i \in Used, k \in Kinds : Object(i, k) \in heap => Object(i, k) \in heap'
  <2> SUFFICES ASSUME NEW i \in Used, NEW k \in Kinds, Object(i, k) \in heap, Object(i, k) \in X
               PROVE  FALSE
    OBVIOUS
  <2>1. PICK l \in Kinds : Object(i, k) = Object(slot, l)
    OBVIOUS
  <2>2. <<i, k>> # <<slot, l>> /\ i \in Members /\ slot \in Members
    BY <1>1
  <2> QED BY <1>0, <2>1, <2>2 DEF ObjectsDistinct
<1>3. \A i \in Used' : TaskOf(i)' # NULL
  <2>1. \A i \in Used : TaskOf(i) # NULL
    BY <1>0 DEF ObjectsHeld
  <2>2. \A i \in Used : TaskOf(i)' = TaskOf(i)
    <3>1. "task" \in Kinds
      BY DEF Kinds
    <3>2. \A i \in Used : Object(i, "task")' = Object(i, "task")
      BY <3>1
    <3> QED BY <3>2 DEF Object
  <2> QED BY <1>1, <2>1, <2>2
<1>4. Members' \subseteq Members
  BY <1>1
<1> QED BY <1>0, <1>1, <1>2, <1>3, <1>4, ObjectsKept

\* The task that is taken back is the last one of the list.
LEMMA RemoveTaskInv ==
  ASSUME IInv, pc = "out", task # NULL, task # Wild,
         heap' = heap \ {program_sp, task, tasks[task].directory},
         task_list_remove(task), pc' = "failed",
         UNCHANGED <<proc, processes, current_process, cr3, booted, slot, process_, program_sp, task>>
  PROVE  IInv'
<1> DEFINE TASK == [process : Pointer, directory : Pointer, next : Pointer, prev : Pointer]
<1>0. /\ TypeOK /\ heap \subseteq Addr /\ pc \in HasProcess /\ pc \in Loading
      /\ tasks \in [Addr -> TASK]
      /\ LocalsAgree /\ ListInOrder /\ ObjectsHeld /\ ObjectsDistinct /\ CurrentAgrees
      /\ DirectoryAgrees /\ SlotsInOrder
      /\ GivesUp
  BY DEF IInv, TypeOK, Loading, HasProcess, GivesUp
<1>1. /\ process_ \in Addr /\ ProcessAt(slot) = process_ /\ slot \in Slots /\ slot \in Nat
      /\ Members = Used \cup {slot} /\ \A i \in Used : i # slot
      /\ \A i \in Slots : i \in Used <=> i < slot
  BY <1>0, SlotIsFree, Basics
<1>2. task = TaskOf(slot) /\ TaskOf(slot) # NULL /\ program_sp = Object(slot, "stack")
  BY <1>0, <1>1 DEF LocalsAgree, TaskOf, Object
<1>3. Places = Used \cup {slot}
  BY <1>0, <1>1, <1>2 DEF Places, ObjectsHeld
<1>4. Members' = Used /\ Used' = Used /\ \A i \in Used : ProcessAt(i)' = ProcessAt(i)
  BY <1>0, MembersStay
<1>5. \A i \in Used : TaskOf(i)' = TaskOf(i) /\ TaskOf(i) # NULL
  BY <1>0, <1>4 DEF TaskOf, ObjectsHeld
<1>6. Places' = Used
  BY <1>4, <1>5 DEF Places
<1>7. \A i \in Used : /\ TaskOf(i) \in Addr /\ TaskOf(i) # task
  BY <1>0, <1>1, <1>2, <1>3, TaskHeld, MembersDiffer
<1>8. \A i \in Used : i \in Nat /\ (i = 0 \/ i - 1 \in Used) /\ i < slot
                      /\ (i + 1 # slot => i + 1 \in Used)
  <2> SUFFICES ASSUME NEW i \in Used
               PROVE  i \in Nat /\ (i = 0 \/ i - 1 \in Used) /\ i < slot
                      /\ (i + 1 # slot => i + 1 \in Used)
    OBVIOUS
  <2>1. i \in Slots /\ i \in Nat /\ i < slot
    BY <1>1, Basics DEF Used
  <2>2. i # 0 => i - 1 \in Slots /\ i - 1 < slot
    BY <1>1, <2>1, Basics
  <2>3. i + 1 # slot => i + 1 \in Nat /\ i + 1 < slot
    BY <1>1, <2>1
  <2>4. i + 1 # slot => i + 1 \in Slots
    BY <1>1, <2>3, Basics
  <2> QED BY <1>1, <2>1, <2>2, <2>3, <2>4
<1>9. /\ slot # 0 => 0 \in Used /\ slot - 1 \in Used /\ slot - 1 + 1 = slot
      /\ slot = 0 => Used = {}
      /\ slot + 1 \notin Places /\ slot + 1 # slot
  <2>1. slot # 0 => slot - 1 \in Slots /\ slot - 1 < slot /\ 0 \in Slots /\ 0 < slot
                    /\ slot - 1 + 1 = slot
    BY <1>1, Basics
  <2>2. slot = 0 => Used = {}
    <3>1. \A i \in Used : i \in Nat /\ i < slot
      BY <1>8
    <3> QED BY <3>1
  <2>3. slot + 1 # slot /\ ~(slot + 1 < slot)
    BY <1>1
  <2> QED BY <1>1, <1>3, <2>1, <2>2, <2>3 DEF Used
<1>10. /\ tasks[task].next = NULL
       /\ tasks[task].prev = IF slot = 0 THEN NULL ELSE TaskOf(slot - 1)
       /\ task_tail = task
       /\ task_head = IF slot = 0 THEN task ELSE TaskOf(0)
  BY <1>0, <1>2, <1>3, <1>9 DEF ListInOrder
<1>11. /\ tasks' = IF slot = 0 THEN tasks ELSE [tasks EXCEPT ![TaskOf(slot - 1)].next = NULL]
       /\ task_head' = IF slot = 0 THEN NULL ELSE task_head
       /\ task_tail' = IF slot = 0 THEN NULL ELSE TaskOf(slot - 1)
       /\ current_task' = IF task = current_task THEN task_head' ELSE current_task
  <2>1. CASE slot = 0
    BY <1>10, <2>1 DEF task_list_remove
  <2>2. CASE slot # 0
    <3>1. TaskOf(slot - 1) # NULL /\ TaskOf(0) # task
      BY <1>5, <1>7, <1>9, <2>2
    <3> QED BY <1>10, <2>2, <3>1 DEF task_list_remove
  <2> QED BY <2>1, <2>2
<1>12. /\ tasks' \in [Addr -> TASK]
       /\ \A b \in Addr : /\ tasks'[b].process = tasks[b].process
                          /\ tasks'[b].directory = tasks[b].directory
                          /\ tasks'[b].prev = tasks[b].prev
                          /\ tasks'[b].next = IF slot # 0 /\ b = TaskOf(slot - 1) THEN NULL
                                              ELSE tasks[b].next
  <2>1. CASE slot = 0
    BY <1>0, <1>11, <2>1
  <2>2. CASE slot # 0
    <3>1. tasks' = [tasks EXCEPT ![TaskOf(slot - 1)].next = NULL] /\ TaskOf(slot - 1) \in Addr
      BY <1>7, <1>9, <1>11, <2>2
    <3> QED BY <1>0, <2>2, <3>1 DEF Pointer
  <2> QED BY <2>1, <2>2
<1>13. ObjectsHeld' /\ ObjectsDistinct'
  <2>1. {program_sp, task, tasks[task].directory} \subseteq {Object(slot, k) : k \in Kinds}
    <3>1. /\ program_sp = Object(slot, "stack") /\ task = Object(slot, "task")
          /\ tasks[task].directory = Object(slot, "directory")
      BY <1>2, ObjectIs
    <3>2. "stack" \in Kinds /\ "task" \in Kinds /\ "directory" \in Kinds
      BY DEF Kinds
    <3> QED BY <3>1, <3>2
  <2>2. \A i \in Used, k \in Kinds : Object(i, k)' = Object(i, k)
    <3>1. \A i \in Used : tasks'[TaskOf(i)].directory = tasks[TaskOf(i)].directory
      BY <1>7, <1>12
    <3> QED BY <1>4, <1>5, <3>1 DEF Object
  <2> QED BY <1>0, <2>1, <2>2, NobodyLoses
<1>14. ListInOrder'
  <2>1. ASSUME NEW i \in Used
        PROVE  /\ i = 0 \/ i - 1 \in Used
               /\ tasks'[TaskOf(i)].process = ProcessAt(i)
               /\ tasks'[TaskOf(i)].prev = IF i = 0 THEN NULL ELSE TaskOf(i - 1)'
               /\ tasks'[TaskOf(i)].next = IF i + 1 \in Used THEN TaskOf(i + 1)' ELSE NULL
               /\ i + 1 \notin Used => task_tail' = TaskOf(i)
    <3>1. /\ tasks[TaskOf(i)].process = ProcessAt(i)
          /\ tasks[TaskOf(i)].prev = IF i = 0 THEN NULL ELSE TaskOf(i - 1)
          /\ tasks[TaskOf(i)].next = IF i + 1 \in Places THEN TaskOf(i + 1) ELSE NULL
          /\ i \in Places /\ i \in Members
      BY <1>0, <1>1, <1>3 DEF ListInOrder
    <3>2. /\ tasks'[TaskOf(i)].process = ProcessAt(i)
          /\ i = 0 \/ i - 1 \in Used
          /\ tasks'[TaskOf(i)].prev = IF i = 0 THEN NULL ELSE TaskOf(i - 1)'
      BY <1>5, <1>7, <1>8, <1>12, <3>1
    <3>3. slot # 0
      BY <1>9
    <3>4. CASE i + 1 = slot
      <4>1. i = slot - 1 /\ i + 1 \notin Used
        BY <1>1, <1>8, <3>4
      <4>2. tasks'[TaskOf(i)].next = NULL /\ task_tail' = TaskOf(i)
        BY <1>7, <1>11, <1>12, <3>3, <4>1
      <4> QED BY <3>2, <4>1, <4>2
    <3>5. CASE i + 1 # slot
      <4>1. i + 1 \in Used /\ i + 1 \in Places
        BY <1>3, <1>8, <3>5
      <4>2. i # slot - 1 /\ slot - 1 \in Members
        BY <1>1, <1>8, <1>9, <3>3, <3>5
      <4>3. TaskOf(i) # TaskOf(slot - 1)
        BY <3>1, <4>2, MembersDiffer
      <4>4. tasks'[TaskOf(i)].next = TaskOf(i + 1)
        BY <1>7, <1>12, <3>1, <4>1, <4>3
      <4> QED BY <1>5, <3>2, <4>1, <4>4
    <3> QED BY <3>4, <3>5
  <2>2. \A i \in Used : TaskOf(i)' = TaskOf(i) /\ ProcessAt(i)' = ProcessAt(i)
    BY <1>4, <1>5
  <2>3. task_head' = IF 0 \in Used THEN TaskOf(0)' ELSE NULL
    BY <1>5, <1>9, <1>10, <1>11
  <2>4. 0 \notin Used => task_tail' = NULL
    BY <1>9, <1>11
  <2> QED BY <1>6, <2>1, <2>2, <2>3, <2>4 DEF ListInOrder
<1>15. CurrentAgrees'
  <2>1. CASE booted
    <3>1. PICK i \in Used : current_process = processes[i] /\ current_task = TaskOf(i)
      BY <1>0, <2>1 DEF CurrentAgrees
    <3>2. current_task' = current_task
      BY <1>7, <1>11, <3>1
    <3> QED BY <1>4, <1>5, <2>1, <3>1, <3>2 DEF CurrentAgrees
  <2>2. CASE ~booted
    <3>1. current_process = NULL /\ current_task = task_head /\ Used = {}
      BY <1>0, <2>2 DEF CurrentAgrees
    <3>2. slot = 0
      BY <1>9, <3>1
    <3> QED BY <1>4, <1>10, <1>11, <2>2, <3>1, <3>2 DEF CurrentAgrees
  <2> QED BY <1>0, <2>1, <2>2 DEF TypeOK
<1>16. DirectoryAgrees'
  BY <1>0 DEF DirectoryAgrees
<1>17. SlotsInOrder'
  BY <1>0 DEF SlotsInOrder, Loading, HasProcess
<1>18. LocalsAgree'
  BY DEF LocalsAgree, HasProcess
<1>19. RoomLeft'
  <2>1. Cardinality(Addr \ heap') \in Nat
    BY Remaining
  <2> QED BY <2>1 DEF RoomLeft, Needs
<1>20. TypeOK'
  <2>1. current_task' \in Addr \cup {NULL} /\ task_head' \in Addr \cup {NULL}
        /\ task_tail' \in Addr \cup {NULL}
    BY <1>0, <1>7, <1>9, <1>11 DEF TypeOK
  <2> QED BY <1>0, <1>12, <2>1 DEF TypeOK, Steps
<1> QED BY <1>13, <1>14, <1>15, <1>16, <1>17, <1>18, <1>19, <1>20 DEF IInv

LEMMA FailedLoadInv ==
  ASSUME IInv, FailedLoad
  PROVE  IInv'
<1>0. /\ TypeOK /\ heap \subseteq Addr /\ pc = "out" /\ pc \in HasProcess /\ pc \in Loading
      /\ UNCHANGED <<proc, processes, current_process, cr3, booted, slot, process_, program_sp, task>>
      /\ LocalsAgree /\ ListInOrder
      /\ pc' \in {"crash", "failed"} /\ GivesUp
  BY DEF IInv, TypeOK, FailedLoad, locals, GoTo, GivesUp, Loading, HasProcess
<1>1. /\ ProcessAt(slot) = process_ /\ Members = Used \cup {slot}
      /\ task = TaskOf(slot) \/ (task = Wild /\ TaskOf(slot) = NULL)
      /\ program_sp = Object(slot, "stack")
  <2>1. ProcessAt(slot) = process_ /\ Members = Used \cup {slot}
    BY <1>0, SlotIsFree
  <2> QED BY <1>0, <2>1 DEF LocalsAgree, TaskOf, Object
<1>2. CASE task = Wild \/ task = NULL
  <2>1. /\ TaskOf(slot) = NULL /\ UNCHANGED <<tasks, current_task, task_head, task_tail>>
        /\ heap' = heap \/ heap' = heap \ {program_sp}
    <3>1. TaskOf(slot) # Wild
      BY <1>1 DEF IInv, ObjectsHeld
    <3> QED BY <1>0, <1>1, <1>2, <3>1 DEF FailedLoad
  <2>2. Members' = Used /\ Used' = Used /\ \A i \in Used : ProcessAt(i)' = ProcessAt(i)
    BY <1>0, MembersStay
  <2>3. \A i \in Used : TaskOf(i)' = TaskOf(i)
    BY <1>0, <2>2 DEF TaskOf
  <2>4. ObjectsHeld' /\ ObjectsDistinct'
    <3>1. \A i \in Used, k \in Kinds : Object(i, k)' = Object(i, k)
      BY <1>0, <2>1, <2>2, <2>3 DEF Object
    <3>2. PICK X : X \subseteq {Object(slot, k) : k \in Kinds} /\ heap' = heap \ X
      <4>1. {program_sp} \subseteq {Object(slot, k) : k \in Kinds}
        BY <1>1 DEF Kinds
      <4>2. heap = heap \ {}
        OBVIOUS
      <4> QED BY <2>1, <4>1, <4>2
    <3> QED BY <1>0, <3>1, <3>2, NobodyLoses
  <2>5. Places' = Places
    BY <1>1, <2>1, <2>2, <2>3 DEF Places
  <2>6. ListInOrder'
    <3>1. Places \subseteq Used
      BY <1>1, <2>1 DEF Places
    <3> QED BY <1>0, <2>1, <2>2, <2>3, <2>5, <3>1, ListKept
  <2>7. CurrentAgrees' /\ DirectoryAgrees' /\ SlotsInOrder'
    BY <1>0, <2>1, <2>2, <2>3, LoadStep
  <2>8. TypeOK' /\ LocalsAgree'
    BY <1>0, <2>1 DEF TypeOK, LocalsAgree, HasProcess, Steps
  <2>9. RoomLeft'
    <3>1. Cardinality(Addr \ heap') \in Nat
      BY Remaining
    <3> QED BY <1>0, <3>1 DEF RoomLeft, Needs
  <2> QED BY <2>4, <2>6, <2>7, <2>8, <2>9 DEF IInv
<1>3. CASE task # Wild /\ task # NULL
  BY <1>0, <1>3, RemoveTaskInv DEF FailedLoad, GoTo
<1> QED BY <1>2, <1>3

\* The process that was loaded last takes the processor.
LEMMA SwitchInv ==
  ASSUME IInv, process_switch
  PROVE  IInv'
<1> DEFINE next == IF booted THEN proc[process_].task ELSE task_head
<1>0. /\ TypeOK /\ heap \subseteq Addr /\ pc = "switch" /\ pc' = "user" /\ booted' = TRUE
      /\ UNCHANGED <<heap, proc, tasks, processes, task_head, task_tail>>
      /\ current_process' = process_ /\ current_task' = next
      /\ cr3' = tasks[next].directory /\ LocalsGone
      /\ SlotsInOrder /\ ListInOrder /\ CurrentAgrees
      /\ slot \in Slots /\ Used' = Used /\ process_ \in Addr \cup {NULL}
  BY DEF IInv, TypeOK, process_switch, objects, GoTo, Used
<1>1. slot \in Used /\ processes[slot] = process_
  BY <1>0 DEF SlotsInOrder, Used
<1>2. Members = Used /\ \A i \in Members : ProcessAt(i) = processes[i]
  BY <1>0, MembersWithSlot DEF HasProcess
<1>3. /\ TaskOf(slot) = proc[process_].task /\ slot \in Places
      /\ \A i \in Used : TaskOf(i)' = TaskOf(i)
  <2>1. TaskOf(slot) = proc[process_].task /\ slot \in Places
    BY <1>1, <1>2 DEF TaskOf, Places, IInv, ObjectsHeld
  <2>2. \A i \in Used : ProcessAt(i)' = ProcessAt(i)
    BY <1>0 DEF ProcessAt, Used
  <2> QED BY <1>0, <2>1, <2>2 DEF TaskOf
<1>4. next = TaskOf(slot)
  <2>1. CASE ~booted
    <3>1. \A i \in Used : i = slot
      BY <1>0, <2>1 DEF CurrentAgrees
    <3>2. slot = 0
      <4>1. slot \in Nat /\ 0 \in Slots
        BY <1>0, Basics
      <4>2. slot # 0 => processes[0] # NULL
        BY <1>0, <1>1, <4>1 DEF SlotsInOrder, Used
      <4> QED BY <3>1, <4>1, <4>2 DEF Used
    <3> QED BY <1>0, <1>3, <2>1, <3>2 DEF ListInOrder
  <2>2. CASE booted
    BY <1>3, <2>2
  <2> QED BY <1>0, <2>1, <2>2 DEF TypeOK
<1> HIDE DEF next
<1>5. next \in heap /\ next \in Addr /\ tasks[next].directory \in heap
  BY <1>3, <1>4, TaskHeld
<1>6. ObjectsHeld' /\ ObjectsDistinct' /\ ListInOrder'
  <2>1. UNCHANGED <<objects, processes, task_head, task_tail>>
    BY <1>0 DEF objects
  <2>2. pc \notin HasProcess /\ pc' \notin HasProcess
    BY <1>0 DEF HasProcess
  <2> QED BY <2>1, <2>2, ObjectsUntouched
<1>7. CurrentAgrees' /\ DirectoryAgrees'
  BY <1>0, <1>1, <1>3, <1>4 DEF CurrentAgrees, DirectoryAgrees
<1>8. SlotsInOrder' /\ LocalsAgree'
  BY <1>0 DEF SlotsInOrder, LocalsAgree, Loading, HasProcess
<1>9. RoomLeft'
  <2>1. Cardinality(Addr \ heap) \in Nat
    BY Remaining
  <2> QED BY <1>0, <2>1 DEF RoomLeft, Needs
<1>10. TypeOK'
  BY <1>0, <1>5, Basics DEF TypeOK, LocalsGone, Pointer, NULL
<1> QED BY <1>6, <1>7, <1>8, <1>9, <1>10 DEF IInv

LEMMA StepInv == IInv /\ [Next]_vars => IInv'
<1> SUFFICES ASSUME IInv, [Next]_vars PROVE IInv'
  OBVIOUS
<1>1. CASE UNCHANGED vars
  <2>1. /\ TypeOK' /\ SlotsInOrder' /\ LocalsAgree' /\ DirectoryAgrees'
    BY <1>1 DEF vars, IInv, TypeOK, SlotsInOrder, LocalsAgree, DirectoryAgrees
  <2>2. /\ Used' = Used /\ Members' = Members /\ Places' = Places
        /\ \A i : TaskOf(i)' = TaskOf(i) /\ ProcessAt(i)' = ProcessAt(i)
        /\ \A i, k : Object(i, k)' = Object(i, k)
    BY <1>1 DEF vars, Used, Members, Places, TaskOf, ProcessAt, Object
  <2>3. ObjectsHeld' /\ ObjectsDistinct' /\ ListInOrder' /\ CurrentAgrees' /\ RoomLeft'
    BY <1>1, <2>2 DEF vars, IInv, ObjectsHeld, ObjectsDistinct, ListInOrder, CurrentAgrees,
       RoomLeft, Needs
  <2> QED BY <2>1, <2>3 DEF IInv
<1> QED BY <1>1, QuietInv, AllocateProcessInv, DataInv, StackInv, TaskNewInv, MapInv,
           FailedLoadInv, SwitchInv DEF Next, KernelStep

\* The strengthened invariant, for every number of slots and size of the heap, and
\* whatever allocations fail.
THEOREM ExecInvariant == Spec => []IInv
<1>1. Init => IInv
  BY InvInit
<1>2. IInv /\ [Next]_vars => IInv'
  BY StepInv
<1> QED BY <1>1, <1>2, PTL DEF Spec

-----------------------------------------------------------------------------
(* The list as the properties follow it: from its head, link by link.      *)

\* The places have no gap: a list that reaches n has all the places before n.
LEMMA PlacesBefore ==
  ASSUME IInv, NEW n \in Places
  PROVE  0 .. n \subseteq Places
<1>1. n \in Nat /\ \A i \in Places : i = 0 \/ i - 1 \in Places
  BY TaskHeld, Basics DEF IInv, ListInOrder
<1> DEFINE Above == {k \in 0 .. n : n - k \notin Places}
<1>2. SUFFICES Above = {}
  <2>1. ASSUME NEW j \in 0 .. n PROVE n - j \in 0 .. n /\ n - (n - j) = j
    BY <1>1, <2>1
  <2> QED BY <2>1
<1>3. SUFFICES ASSUME Above # {} PROVE FALSE
  OBVIOUS
<1>4. PICK k \in Above : \A j \in Above : k <= j
  <2>1. Above \in SUBSET Nat
    BY <1>1
  <2> QED BY <1>3, <2>1, LeastOf
<1>5. k \in 0 .. n /\ n - k \notin Places
  BY <1>4
<1>6. k # 0
  BY <1>1, <1>5
<1>7. k - 1 \in 0 .. n /\ ~(k <= k - 1)
  BY <1>1, <1>5, <1>6
<1>8. n - (k - 1) \in Places
  BY <1>4, <1>7
<1>9. n - (k - 1) # 0 /\ (n - (k - 1)) - 1 = n - k
  BY <1>1, <1>5, <1>6
<1> QED BY <1>1, <1>5, <1>8, <1>9

\* Tasks are different and in memory: the list ends before the addresses do.
LEMMA ListEnds ==
  ASSUME IInv
  PROVE  Places \subseteq 0 .. MaxObjects /\ MaxObjects \notin Places
<1>1. MaxObjects \in Nat /\ Places \subseteq Nat
  BY ExecConfig, TaskHeld, Basics
<1>2. MaxObjects \notin Places
  <2>1. SUFFICES ASSUME 0 .. MaxObjects \subseteq Places PROVE FALSE
    BY PlacesBefore
  <2> DEFINE f == [n \in 0 .. MaxObjects |-> TaskOf(n)]
  <2>2. f \in [0 .. MaxObjects -> Addr]
    BY <2>1, TaskHeld
  <2>3. /\ IsFiniteSet(0 .. MaxObjects) /\ Cardinality(0 .. MaxObjects) = MaxObjects + 1
        /\ IsFiniteSet(1 .. MaxObjects) /\ Cardinality(1 .. MaxObjects) = MaxObjects
    <3>1. 0 \in Int /\ 1 \in Int /\ MaxObjects \in Int /\ ~(0 > MaxObjects) /\ ~(1 > MaxObjects)
          /\ MaxObjects - 0 + 1 = MaxObjects + 1 /\ MaxObjects - 1 + 1 = MaxObjects
      BY ExecConfig
    <3> QED BY <3>1, FS_Interval
  <2>4. PICK x, y \in 0 .. MaxObjects : x # y /\ f[x] = f[y]
    <3>1. Cardinality(Addr) < Cardinality(0 .. MaxObjects) /\ IsFiniteSet(Addr)
      BY <2>3, <1>1 DEF Addr
    <3> HIDE DEF f
    <3> QED BY <2>2, <2>3, <3>1, FS_PigeonHole
  <2>5. TaskOf(x) = TaskOf(y) /\ x \in Places /\ y \in Places
    BY <2>1, <2>4
  <2> QED BY <2>4, <2>5, TaskHeld, MembersDiffer
<1>3. Places \subseteq 0 .. MaxObjects
  <2>1. ASSUME NEW n \in Places, ~(n <= MaxObjects) PROVE FALSE
    <3>1. MaxObjects \in 0 .. n
      BY <1>1, <2>1
    <3> QED BY <1>2, <3>1, PlacesBefore
  <2> QED BY <1>1, <2>1
<1> QED BY <1>2, <1>3

\* Followed from its head, the list has the tasks of the places in their order.
LEMMA TaskAtPlace ==
  ASSUME IInv
  PROVE  \A n \in 0 .. MaxObjects : TaskAt[n] = IF n \in Places THEN TaskOf(n) ELSE NULL
<1> DEFINE D    == 0 .. MaxObjects
           g    == [n \in D |-> IF n \in Places THEN TaskOf(n) ELSE NULL]
           F(h) == [n \in D |-> IF n = 0 THEN task_head
                                ELSE IF h[n - 1] = NULL THEN NULL ELSE tasks[h[n - 1]].next]
<1>0. MaxObjects \in Nat /\ \A n \in D : n # 0 => n - 1 \in D /\ n - 1 + 1 = n /\ ~(n <= n - 1)
  BY ExecConfig
<1>1. ASSUME NEW n \in D
      PROVE  g[n] = IF n = 0 THEN task_head
                    ELSE IF g[n - 1] = NULL THEN NULL ELSE tasks[g[n - 1]].next
  <2>1. CASE n = 0
    BY <2>1, <1>0 DEF IInv, ListInOrder
  <2>2. CASE n # 0 /\ n - 1 \in Places
    <3>1. g[n - 1] = TaskOf(n - 1) /\ TaskOf(n - 1) # NULL
      BY <1>0, <2>2 DEF Places
    <3>2. tasks[TaskOf(n - 1)].next = IF n \in Places THEN TaskOf(n) ELSE NULL
      <4>1. \A i \in Places : tasks[TaskOf(i)].next = IF i + 1 \in Places THEN TaskOf(i + 1) ELSE NULL
        BY DEF IInv, ListInOrder
      <4> QED BY <1>0, <2>2, <4>1
    <3> QED BY <2>2, <3>1, <3>2
  <2>3. CASE n # 0 /\ n - 1 \notin Places
    <3>1. n \notin Places
      BY <2>3 DEF IInv, ListInOrder
    <3>2. g[n - 1] = NULL /\ g[n] = NULL
      BY <1>0, <2>3, <3>1
    <3> QED BY <2>3, <3>2
  <2> QED BY <2>1, <2>2, <2>3
<1>2. g = F(g)
  BY <1>1
<1>3. TaskAt = CHOOSE h : h = F(h)
  BY DEF TaskAt
<1>4. TaskAt = F(TaskAt)
  <2> HIDE DEF F, g
  <2> QED BY <1>2, <1>3
<1>5. ASSUME NEW n \in D
      PROVE  TaskAt[n] = IF n = 0 THEN task_head
                         ELSE IF TaskAt[n - 1] = NULL THEN NULL ELSE tasks[TaskAt[n - 1]].next
  <2>1. TaskAt[n] = F(TaskAt)[n]
    BY <1>4
  <2> QED BY <2>1
<1> DEFINE Wrong == {n \in D : TaskAt[n] # g[n]}
<1>6. Wrong = {}
  <2>1. SUFFICES ASSUME Wrong # {} PROVE FALSE
    OBVIOUS
  <2> HIDE DEF g
  <2>2. PICK n \in Wrong : \A j \in Wrong : n <= j
    <3>1. Wrong \in SUBSET Nat
      OBVIOUS
    <3> QED BY <2>1, <3>1, LeastOf
  <2>3. n \in D /\ TaskAt[n] # g[n]
    BY <2>2
  <2>4. n # 0
    BY <1>1, <1>5, <2>3
  <2>5. TaskAt[n - 1] = g[n - 1]
    BY <1>0, <2>2, <2>3, <2>4
  <2> QED BY <1>1, <1>5, <2>3, <2>4, <2>5
<1> QED BY <1>6

LEMMA ListedTasks ==
  ASSUME IInv
  PROVE  /\ Listed = {TaskOf(i) : i \in Places}
         /\ TaskAt[MaxObjects] = NULL
<1>1. /\ \A n \in 0 .. MaxObjects : TaskAt[n] = IF n \in Places THEN TaskOf(n) ELSE NULL
      /\ Places \subseteq 0 .. MaxObjects /\ MaxObjects \notin Places /\ MaxObjects \in 0 .. MaxObjects
      /\ \A i \in Places : TaskOf(i) # NULL
  BY TaskAtPlace, ListEnds, ExecConfig DEF Places
<1> QED BY <1>1 DEF Listed

\* A list that is not empty has a last place.
LEMMA LastPlace ==
  ASSUME IInv, 0 \in Places
  PROVE  \E n \in Places : n + 1 \notin Places /\ task_tail = TaskOf(n)
<1> DEFINE Rest == 0 .. MaxObjects \ Places
<1>1. MaxObjects \in Rest /\ Rest \in SUBSET Nat
  BY ListEnds, ExecConfig
<1>2. PICK n \in Rest : \A j \in Rest : n <= j
  BY <1>1, LeastOf
<1>3. n \in Nat /\ n <= MaxObjects /\ n # 0 /\ MaxObjects \in Nat
  BY <1>1, <1>2
<1>4. n - 1 \in 0 .. MaxObjects /\ ~(n <= n - 1) /\ n - 1 + 1 = n
  BY <1>3
<1>5. n - 1 \in Places /\ n - 1 + 1 \notin Places
  BY <1>2, <1>4
<1>6. task_tail = TaskOf(n - 1)
  BY <1>5 DEF IInv, ListInOrder
<1> QED BY <1>5, <1>6

LEMMA ListIsWellFormed == IInv => ListWellFormed
<1> SUFFICES ASSUME IInv PROVE ListWellFormed
  OBVIOUS
<1>1. /\ Listed = {TaskOf(i) : i \in Places} /\ TaskAt[MaxObjects] = NULL
      /\ \A i \in Places : TaskOf(i) # NULL /\ i \in Members /\ i \in Nat
      /\ \A i, j \in Places : i # j => TaskOf(i) # TaskOf(j)
  BY ListedTasks, TaskHeld, MembersDiffer, Basics DEF Places
<1>2. /\ \A i \in Places :
           /\ i = 0 \/ i - 1 \in Places
           /\ tasks[TaskOf(i)].prev = IF i = 0 THEN NULL ELSE TaskOf(i - 1)
           /\ tasks[TaskOf(i)].next = IF i + 1 \in Places THEN TaskOf(i + 1) ELSE NULL
           /\ i + 1 \notin Places => task_tail = TaskOf(i)
      /\ task_head = IF 0 \in Places THEN TaskOf(0) ELSE NULL
      /\ 0 \notin Places => task_tail = NULL
  BY DEF IInv, ListInOrder
<1>3. task_head = NULL <=> task_tail = NULL
  BY <1>1, <1>2, LastPlace
<1>4. ASSUME NEW i \in Places
      PROVE  /\ tasks[TaskOf(i)].next = NULL <=> TaskOf(i) = task_tail
             /\ tasks[TaskOf(i)].prev = NULL <=> TaskOf(i) = task_head
             /\ tasks[TaskOf(i)].next # NULL => tasks[tasks[TaskOf(i)].next].prev = TaskOf(i)
  <2>1. 0 \in Places
    <3>1. 0 \in 0 .. i
      BY <1>1
    <3> QED BY <3>1, PlacesBefore
  <2>2. tasks[TaskOf(i)].next = NULL <=> i + 1 \notin Places
    BY <1>1, <1>2
  <2>3. i + 1 \in Places => TaskOf(i) # task_tail
    <3>1. PICK n \in Places : n + 1 \notin Places /\ task_tail = TaskOf(n)
      BY <2>1, LastPlace
    <3> QED BY <1>1, <3>1
  <2>4. tasks[TaskOf(i)].prev = NULL <=> i = 0
    BY <1>1, <1>2
  <2>5. TaskOf(i) = task_head <=> i = 0
    BY <1>1, <1>2, <2>1
  <2>6. i + 1 \in Places => tasks[TaskOf(i + 1)].prev = TaskOf(i)
    <3>1. SUFFICES ASSUME NEW j \in Places, j = i + 1 PROVE tasks[TaskOf(j)].prev = TaskOf(i)
      OBVIOUS
    <3>2. \A k \in Places : tasks[TaskOf(k)].prev = IF k = 0 THEN NULL ELSE TaskOf(k - 1)
      BY <1>2
    <3>3. j # 0 /\ j - 1 = i
      BY <1>1, <3>1
    <3> QED BY <3>2, <3>3
  <2> QED BY <1>2, <2>2, <2>3, <2>4, <2>5, <2>6
<1> QED BY <1>1, <1>3, <1>4 DEF ListWellFormed

\* A process with a slot is that of a member, with a task.
LEMMA UsedSlot ==
  ASSUME IInv, NEW i \in Used
  PROVE  /\ i \in Slots /\ i \in Members /\ i \in Places /\ ProcessAt(i) = processes[i]
         /\ processes[i] \in heap /\ processes[i] \in InUse
         /\ tasks[TaskOf(i)].process = processes[i]
<1>1. i \in Slots /\ i \in Members /\ ProcessAt(i) = processes[i] /\ processes[i] # NULL
  BY DEF Used, Members, ProcessAt
<1>2. i \in Places
  BY <1>1 DEF Places, IInv, ObjectsHeld
<1>3. processes[i] \in heap
  BY <1>1 DEF IInv, ObjectsHeld
<1> QED BY <1>1, <1>2, <1>3 DEF InUse, IInv, ListInOrder

LEMMA InUseIs == InUse = {processes[i] : i \in Used}
BY DEF InUse, Used

LEMMA WellFormed == IInv => TasksWellFormed
<1> SUFFICES ASSUME IInv PROVE TasksWellFormed
  OBVIOUS
<1>1. ASSUME pc = "user"
      PROVE  /\ {tasks[t].process : t \in Listed} = InUse
             /\ \A t \in Listed : proc[tasks[t].process].task = t
  <2>1. Members = Used
    BY <1>1, MembersWithSlot DEF HasProcess
  <2>2. Places = Used
    BY <2>1, UsedSlot DEF Places
  <2>3. Listed = {TaskOf(i) : i \in Used}
    BY <2>2, ListedTasks
  <2>4. \A i \in Used : /\ tasks[TaskOf(i)].process = processes[i]
                        /\ proc[processes[i]].task = TaskOf(i)
    BY UsedSlot DEF TaskOf
  <2> QED BY <2>3, <2>4, InUseIs
<1> QED BY <1>1, ListIsWellFormed DEF TasksWellFormed, OneTaskPerProcess, IInv

\* The members of the tuples the properties speak of are the objects of the invariant.
LEMMA ProcessObjectsAre ==
  ASSUME IInv, NEW s \in Used
  PROVE  /\ DOMAIN ProcessObjects(processes[s]) = {1, 2, 3, 4}
         /\ ProcessObjects(processes[s])[1] = Object(s, "process")
         /\ ProcessObjects(processes[s])[2] = Object(s, "image")
         /\ ProcessObjects(processes[s])[3] = Object(s, "stack")
         /\ ProcessObjects(processes[s])[4] = Object(s, "bss")
<1>1. ProcessAt(s) = processes[s]
  BY UsedSlot
<1>2. DOMAIN ProcessObjects(processes[s]) = {1, 2, 3, 4}
  <2>1. DOMAIN ProcessObjects(processes[s]) = 1 .. 4
    BY DEF ProcessObjects
  <2>2. 1 .. 4 = {1, 2, 3, 4}
    OBVIOUS
  <2> QED BY <2>1, <2>2
<1> QED BY <1>1, <1>2, ObjectIs DEF ProcessObjects

LEMMA TaskObjectsAre ==
  ASSUME IInv, NEW s \in Places
  PROVE  /\ DOMAIN TaskObjects(TaskOf(s)) = {1, 2}
         /\ TaskObjects(TaskOf(s))[1] = Object(s, "task")
         /\ TaskObjects(TaskOf(s))[2] = Object(s, "directory")
<1>1. DOMAIN TaskObjects(TaskOf(s)) = {1, 2}
  <2>1. DOMAIN TaskObjects(TaskOf(s)) = 1 .. 2
    BY DEF TaskObjects
  <2>2. 1 .. 2 = {1, 2}
    OBVIOUS
  <2> QED BY <2>1, <2>2
<1>2. TaskOf(s) # NULL
  BY DEF Places
<1> QED BY <1>1, <1>2, ObjectIs DEF TaskObjects

LEMMA NothingDangles == IInv => NoDangling
<1> SUFFICES ASSUME IInv PROVE NoDangling
  OBVIOUS
<1>0. /\ \A i \in Members, kind \in Kinds : Object(i, kind) \in heap \cup {NULL, Wild}
      /\ \A i \in Members : ProcessAt(i) \in heap
      /\ \A i \in Places : Object(i, "directory") \in heap /\ i \in Members /\ TaskOf(i) \in heap
      /\ {"process", "image", "stack", "bss"} \subseteq Kinds
      /\ CurrentAgrees /\ DirectoryAgrees
  BY TaskHeld DEF IInv, ObjectsHeld, Kinds
<1>1. InUse \subseteq heap
  BY InUseIs, UsedSlot
<1>2. task_head \in heap \cup {NULL} /\ task_tail \in heap \cup {NULL}
  <2>1. task_head = IF 0 \in Places THEN TaskOf(0) ELSE NULL
    BY DEF IInv, ListInOrder
  <2>2. 0 \notin Places => task_tail = NULL
    BY DEF IInv, ListInOrder
  <2> QED BY <1>0, <2>1, <2>2, LastPlace
<1>3. current_process \in heap \cup {NULL} /\ current_task \in heap \cup {NULL}
  <2>1. CASE booted
    BY <1>0, <2>1, UsedSlot DEF CurrentAgrees
  <2>2. CASE ~booted
    BY <1>0, <1>2, <2>2 DEF CurrentAgrees
  <2> QED BY <2>1, <2>2
<1>4. ASSUME NEW x \in InUse
      PROVE  Elements(ProcessObjects(x)) \cup {proc[x].task} \subseteq heap
  <2>1. PICK s \in Used : x = processes[s]
    BY InUseIs
  <2>2. s \in Members /\ s \in Places /\ TaskOf(s) = proc[x].task
    BY <2>1, UsedSlot DEF TaskOf
  <2>3. \A i \in DOMAIN ProcessObjects(x) : ProcessObjects(x)[i] \in heap \cup {NULL, Wild}
    BY <1>0, <2>1, <2>2, ProcessObjectsAre
  <2> QED BY <1>0, <2>2, <2>3 DEF Elements
<1>5. ASSUME NEW t \in Listed
      PROVE  Elements(TaskObjects(t)) \cup {tasks[t].process} \subseteq heap
  <2>1. PICK s \in Places : t = TaskOf(s)
    BY ListedTasks
  <2>2. tasks[t].process = ProcessAt(s)
    BY <2>1 DEF IInv, ListInOrder
  <2>3. Object(s, "task") = TaskOf(s)
    BY ObjectIs
  <2>4. \A i \in DOMAIN TaskObjects(t) : TaskObjects(t)[i] \in heap
    BY <1>0, <2>1, <2>3, TaskObjectsAre
  <2> QED BY <1>0, <2>1, <2>2, <2>4 DEF Elements
<1>6. cr3 \in heap \cup {Kernel}
  BY <1>0, CurrentHeld DEF CurrentAgrees, DirectoryAgrees
<1> QED BY <1>1, <1>2, <1>3, <1>4, <1>5, <1>6 DEF NoDangling

LEMMA NothingShared == IInv => NoSharing
<1> SUFFICES ASSUME IInv PROVE NoSharing
  OBVIOUS
<1>0. /\ \A i, j \in Members, k, l \in Kinds :
           <<i, k>> # <<j, l>> /\ Object(i, k) \in Addr => Object(i, k) # Object(j, l)
      /\ Kinds = {"process", "image", "stack", "bss", "task", "directory"}
      /\ \A s \in Used : s \in Members
      /\ \A s \in Places : s \in Members /\ Object(s, "task") \in Addr /\ Object(s, "directory") \in Addr
  BY TaskHeld, UsedSlot, ObjectIs DEF IInv, ObjectsDistinct, Kinds, TypeOK, ObjectsHeld
<1> DEFINE K(i) == IF i = 1 THEN "process" ELSE IF i = 2 THEN "image"
                   ELSE IF i = 3 THEN "stack" ELSE "bss"
           L(i) == IF i = 1 THEN "task" ELSE "directory"
<1>1. \A s \in Used : /\ DOMAIN ProcessObjects(processes[s]) = {1, 2, 3, 4}
                      /\ \A i \in {1, 2, 3, 4} : ProcessObjects(processes[s])[i] = Object(s, K(i))
  BY ProcessObjectsAre
<1>2. \A s \in Places : /\ DOMAIN TaskObjects(TaskOf(s)) = {1, 2}
                        /\ \A i \in {1, 2} : TaskObjects(TaskOf(s))[i] = Object(s, L(i))
  BY TaskObjectsAre
<1>3. /\ \A i \in {1, 2, 3, 4} : K(i) \in Kinds /\ K(i) # "task" /\ K(i) # "directory"
      /\ \A i, j \in {1, 2, 3, 4} : i # j => K(i) # K(j)
      /\ \A i \in {1, 2} : L(i) \in Kinds /\ L(i) \in {"task", "directory"}
      /\ \A i, j \in {1, 2} : i # j => L(i) # L(j)
  BY <1>0
<1> HIDE DEF K, L
<1>4. ASSUME NEW x \in InUse, NEW y \in InUse,
             NEW i \in DOMAIN ProcessObjects(x), NEW j \in DOMAIN ProcessObjects(x),
             <<x, i>> # <<y, j>>, ProcessObjects(x)[i] \in Addr
      PROVE  ProcessObjects(x)[i] # ProcessObjects(y)[j]
  <2>1. PICK s \in Used : x = processes[s]
    BY InUseIs
  <2>2. PICK t \in Used : y = processes[t]
    BY InUseIs
  <2>3. i \in {1, 2, 3, 4} /\ j \in {1, 2, 3, 4}
    BY <1>1, <2>1
  <2>4. ProcessObjects(x)[i] = Object(s, K(i)) /\ ProcessObjects(y)[j] = Object(t, K(j))
    BY <1>1, <2>1, <2>2, <2>3
  <2>5. <<s, K(i)>> # <<t, K(j)>>
    <3>1. s # t \/ i # j
      BY <1>4, <2>1, <2>2
    <3> QED BY <1>3, <2>3, <3>1
  <2>6. s \in Members /\ t \in Members /\ K(i) \in Kinds /\ K(j) \in Kinds
    BY <1>0, <1>3, <2>3
  <2>7. Object(s, K(i)) \in Addr
    BY <1>4, <2>4
  <2> QED BY <1>0, <2>4, <2>5, <2>6, <2>7
<1>5. ASSUME NEW s \in Listed, NEW t \in Listed,
             NEW i \in DOMAIN TaskObjects(s), NEW j \in DOMAIN TaskObjects(s),
             <<s, i>> # <<t, j>>
      PROVE  TaskObjects(s)[i] # TaskObjects(t)[j]
  <2>1. PICK m \in Places : s = TaskOf(m)
    BY ListedTasks
  <2>2. PICK n \in Places : t = TaskOf(n)
    BY ListedTasks
  <2>3. i \in {1, 2} /\ j \in {1, 2}
    BY <1>2, <2>1
  <2>4. TaskObjects(s)[i] = Object(m, L(i)) /\ TaskObjects(t)[j] = Object(n, L(j))
    BY <1>2, <2>1, <2>2, <2>3
  <2>5. <<m, L(i)>> # <<n, L(j)>>
    <3>1. m # n \/ i # j
      BY <1>5, <2>1, <2>2
    <3> QED BY <1>3, <2>3, <3>1
  <2>6. /\ m \in Members /\ n \in Members /\ L(i) \in Kinds /\ L(j) \in Kinds
        /\ Object(m, L(i)) \in Addr
    BY <1>0, <1>3, <2>3
  <2> QED BY <1>0, <2>4, <2>5, <2>6
<1>6. ASSUME NEW x \in InUse, NEW t \in Listed
      PROVE  Elements(ProcessObjects(x)) \cap Elements(TaskObjects(t)) = {}
  <2>1. PICK s \in Used : x = processes[s]
    BY InUseIs
  <2>2. PICK n \in Places : t = TaskOf(n)
    BY ListedTasks
  <2>3. ASSUME NEW i \in {1, 2, 3, 4}, NEW j \in {1, 2}
        PROVE  ProcessObjects(x)[i] # TaskObjects(t)[j]
    <3>1. ProcessObjects(x)[i] = Object(s, K(i)) /\ TaskObjects(t)[j] = Object(n, L(j))
      BY <1>1, <1>2, <2>1, <2>2
    <3>2. <<n, L(j)>> # <<s, K(i)>>
      BY <1>3
    <3>3. /\ s \in Members /\ n \in Members /\ K(i) \in Kinds /\ L(j) \in Kinds
          /\ Object(n, L(j)) \in Addr
      BY <1>0, <1>3
    <3> QED BY <1>0, <3>1, <3>2, <3>3
  <2>4. DOMAIN ProcessObjects(x) = {1, 2, 3, 4} /\ DOMAIN TaskObjects(t) = {1, 2}
    BY <1>1, <1>2, <2>1, <2>2
  <2> QED BY <2>3, <2>4 DEF Elements
<1>7. \A x, y \in InUse : \A i, j \in DOMAIN ProcessObjects(x) :
        <<x, i>> # <<y, j>> /\ ProcessObjects(x)[i] \in Addr
        => ProcessObjects(x)[i] # ProcessObjects(y)[j]
  BY <1>4
<1>8. \A s, t \in Listed : \A i, j \in DOMAIN TaskObjects(s) :
        <<s, i>> # <<t, j>> => TaskObjects(s)[i] # TaskObjects(t)[j]
  BY <1>5
<1> QED BY <1>6, <1>7, <1>8 DEF NoSharing

LEMMA Consistent == IInv => UserModeConsistent
<1> SUFFICES ASSUME IInv, pc = "user"
             PROVE  /\ current_process \in InUse
                    /\ current_task = proc[current_process].task
                    /\ tasks[current_task].process = current_process
                    /\ cr3 = tasks[current_task].directory
  BY DEF UserModeConsistent
<1>1. PICK i \in Used : current_process = processes[i] /\ current_task = TaskOf(i)
  BY DEF IInv, CurrentAgrees
<1>2. TaskOf(i) = proc[processes[i]].task
  BY UsedSlot DEF TaskOf
<1> QED BY <1>1, <1>2, UsedSlot DEF IInv, DirectoryAgrees

\* Whatever allocation of a load fails, the task list stays what its ends and both
\* directions of its links say, and programs only run with one task per process.
THEOREM ExecTasksWellFormed == Spec => []TasksWellFormed
BY ExecInvariant, WellFormed, PTL

\* The error path of a load unlinks everything it frees: no pointer the kernel
\* follows leads to freed memory.
THEOREM ExecNoDangling == Spec => []NoDangling
BY ExecInvariant, NothingDangles, PTL

\* No two processes or tasks share an address: no process runs in the directory or
\* on the stack of another one.
THEOREM ExecNoSharing == Spec => []NoSharing
BY ExecInvariant, NothingShared, PTL

\* While a program runs, current process, current task and the loaded directory
\* are those of one process, although three functions change them.
THEOREM ExecUserModeConsistent == Spec => []UserModeConsistent
BY ExecInvariant, Consistent, PTL

-----------------------------------------------------------------------------
(* exec starts one more process in the lowest free slot, or changes nothing. *)

Launched == {i \in Slots : processes[i] # NULL /\ ~(pc = "switch" /\ i = slot)}
InFront  == IF current_process = NULL THEN NULL - 1 ELSE SlotOf(current_process)

\* No process has two slots.
SlotsNamed == \A i \in Used : SlotOf(processes[i]) = i

LEMMA SlotsNamedOnce == IInv => SlotsNamed
<1> SUFFICES ASSUME IInv, NEW i \in Used PROVE SlotOf(processes[i]) = i
  BY DEF SlotsNamed
<1>1. \A j \in Slots : processes[j] = processes[i] => j = i
  <2>1. ASSUME NEW j \in Slots, processes[j] = processes[i], j # i PROVE FALSE
    <3>1. j \in Used
      BY <2>1 DEF Used
    <3> QED BY <2>1, <3>1, UsedSlot, MembersDiffer
  <2> QED BY <2>1
<1>2. i \in Slots
  BY DEF Used
<1> QED BY <1>1, <1>2 DEF SlotOf

\* The process that runs keeps its slot, whatever slot is given out.
LEMMA FrontStays ==
  ASSUME IInv, IInv', UNCHANGED current_process,
         \A i \in Used : i \in Used' /\ processes'[i] = processes[i]
  PROVE  InFront' = InFront
<1>1. CASE current_process = NULL
  BY <1>1 DEF InFront
<1>2. CASE current_process # NULL
  <2>1. PICK i \in Used : current_process = processes[i]
    BY <1>2 DEF IInv, CurrentAgrees
  <2>2. SlotOf(current_process) = i
    BY <2>1, SlotsNamedOnce DEF SlotsNamed
  <2>3. SlotOf(current_process)' = i
    <3>1. (IInv => SlotsNamed)'
      BY SlotsNamedOnce, PTL
    <3>2. i \in Used' /\ current_process' = processes'[i]
      BY <2>1
    <3>3. SlotOf(processes[i])' = i
      BY <3>1, <3>2 DEF SlotsNamed
    <3> QED BY <3>2, <3>3 DEF SlotOf
  <2> QED BY <1>2, <2>2, <2>3 DEF InFront
<1> QED BY <1>1, <1>2

\* Nothing is launched before the switch.
LEMMA OthersStutter ==
  ASSUME IInv, IInv', Next, ~process_switch
  PROVE  Launched' = Launched /\ InFront' = InFront
<1>1. CASE process_map_memory /\ processes' # processes
  <2>1. /\ pc = "map" /\ pc' = "switch" /\ processes' = [processes EXCEPT ![slot] = process_]
        /\ UNCHANGED <<slot, current_process>>
    BY <1>1 DEF process_map_memory, GoTo, locals
  <2>2. processes[slot] = NULL /\ slot \in Slots /\ pc \in Loading
    <3>1. pc \in Loading
      BY <2>1 DEF Loading, HasProcess
    <3> QED BY <3>1, SlotIsFree
  <2>3. processes \in [Slots -> Addr \cup {NULL}]
    BY DEF IInv, TypeOK
  <2>4. \A i \in Slots : i # slot => processes'[i] = processes[i]
    BY <2>1, <2>2, <2>3
  <2>5. Launched' = Launched
    BY <2>1, <2>2, <2>4 DEF Launched
  <2>6. \A i \in Used : i \in Used' /\ processes'[i] = processes[i]
    BY <2>2, <2>4 DEF Used
  <2> QED BY <2>1, <2>5, <2>6, FrontStays
<1>2. CASE ~(process_map_memory /\ processes' # processes)
  <2>1. /\ UNCHANGED <<processes, current_process>>
        /\ pc # "switch" /\ (pc' = "switch" => process_map_memory)
    BY <1>2 DEF Next, KernelStep, BootShell, EnterKernel, LeaveKernel, syscall6_process_load_start,
       copy_string_from_task, process_get_free_slot, AllocateProcess, process_load_data,
       AllocateStack, task_new, process_map_memory, FailedLoad, ReturnError, GoTo, globals
  <2>2. pc' # "switch"
    <3>1. ASSUME process_map_memory, pc' = "switch" PROVE processes' # processes
      <4>1. /\ pc = "map" /\ processes' = [processes EXCEPT ![slot] = process_]
        BY <3>1 DEF process_map_memory, GoTo
      <4>2. processes[slot] = NULL /\ slot \in Slots /\ process_ # NULL
        <5>1. pc \in Loading /\ pc \in HasProcess
          BY <4>1 DEF Loading, HasProcess
        <5> QED BY <5>1, SlotIsFree DEF IInv, LocalsAgree
      <4>3. processes \in [Slots -> Addr \cup {NULL}]
        BY DEF IInv, TypeOK
      <4> QED BY <4>1, <4>2, <4>3
    <3> QED BY <1>2, <2>1, <3>1
  <2>3. Launched' = Launched /\ Used' = Used
    BY <2>1, <2>2 DEF Launched, Used
  <2> QED BY <2>1, <2>3, FrontStays
<1> QED BY <1>1, <1>2

\* The switch launches the lowest slot that had no running process.
LEMMA SwitchLaunches ==
  ASSUME IInv, IInv', process_switch
  PROVE  /\ slot \in Slots /\ slot \notin Launched
         /\ \A s \in Slots \ Launched : slot <= s
         /\ Launched' = Launched \cup {slot}
         /\ InFront' = slot
<1>1. /\ pc = "switch" /\ pc' = "user" /\ processes' = processes /\ current_process' = process_
      /\ slot \in Slots /\ process_ # NULL /\ processes[slot] = process_
  BY DEF process_switch, GoTo, IInv, TypeOK, SlotsInOrder
<1>2. slot \notin Launched /\ Launched' = Launched \cup {slot}
  BY <1>1 DEF Launched
<1>3. ASSUME NEW s \in Slots \ Launched PROVE slot <= s
  <2>1. slot \in Nat /\ s \in Nat
    BY <1>1, Basics
  <2>2. s < slot => processes[s] # NULL
    BY <1>1 DEF IInv, SlotsInOrder
  <2>3. s < slot => s \in Launched
    BY <2>1, <2>2 DEF Launched
  <2> QED BY <1>3, <2>1, <2>3
<1>4. InFront' = slot
  <2>1. (IInv => SlotsNamed)'
    BY SlotsNamedOnce, PTL
  <2>2. slot \in Used' /\ processes'[slot] = process_
    BY <1>1 DEF Used
  <2>3. PICK i \in Used' : i = slot
    BY <2>2
  <2>4. SlotOf(processes[i])' = i
    BY <2>1 DEF SlotsNamed
  <2>5. SlotOf(current_process)' = i
    BY <1>1, <2>2, <2>3, <2>4 DEF SlotOf
  <2> QED BY <1>1, <2>3, <2>5 DEF InFront
<1> QED BY <1>1, <1>2, <1>3, <1>4

\* exec does what it promises: it starts one more process in the lowest free slot
\* and gives it the machine, or it changes nothing, wherever a load fails.
THEOREM ExecRefinesForeground == Spec => ImplementsForeground
<1>1. Init => Promise!Init
  BY DEF Init, Promise!Init
<1>2. IInv /\ IInv' /\ [Next]_vars => [Promise!Next]_(Promise!vars)
  <2> SUFFICES ASSUME IInv, IInv', [Next]_vars PROVE [Promise!Next]_(Promise!vars)
    OBVIOUS
  <2>1. CASE process_switch
    <3>1. PICK s \in Slots : s = slot
      BY <2>1, SwitchLaunches
    <3>2. Promise!Launch(s)
      BY <2>1, <3>1, SwitchLaunches DEF Promise!Launch, Launched, InFront
    <3> QED BY <3>2 DEF Promise!Next
  <2>2. CASE Next /\ ~process_switch
    BY <2>2, OthersStutter DEF Promise!vars, Launched, InFront
  <2>3. CASE UNCHANGED vars
    BY <2>3 DEF vars, Promise!vars, SlotOf
  <2> QED BY <2>1, <2>2, <2>3
<1> QED BY <1>1, <1>2, ExecInvariant, PTL DEF Spec, ImplementsForeground, Promise!Spec
=============================================================================
