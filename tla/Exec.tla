-------------------------------- MODULE Exec --------------------------------
(***************************************************************************)
(* Processes and tasks (task/process.c, task/task.c): booting the shell,   *)
(* entering and leaving the kernel, and the exec system call with every    *)
(* error path of process_load_for_slot.                                    *)
(*                                                                         *)
(* The kernel runs with interrupts off, so nothing interleaves with a      *)
(* system call; it is split into steps here because each step may fail and *)
(* leaves something behind for the error path.  Memory is a set of         *)
(* addresses: an object is one address, kzalloc takes the lowest free one. *)
(***************************************************************************)
EXTENDS Integers, FiniteSets

CONSTANTS
  MaxProcesses,  \* PHIX_MAX_PROCESSES
  MaxObjects,    \* bound: the addresses the heap has
  Failing        \* the allocations that may find the heap full

Sites == {"process", "image", "stack", "task", "chunk", "bss", "string"}

ASSUME ExecConfig ==
  /\ MaxProcesses \in Nat \ {0}
  /\ MaxObjects \in Nat /\ MaxObjects >= 6  \* all that the load of the shell allocates
  /\ Failing \subseteq Sites

NULL    == 0
Wild    == -3  \* ERROR(-ENOMEM), or a pointer nobody has set
Kernel  == -1  \* the page directory of the kernel, kchunk
Addr    == 1 .. MaxObjects
Pointer == Addr \cup {NULL, Wild}
Slots   == 0 .. MaxProcesses - 1

Steps == {"boot", "kernel", "string", "slot", "process", "data", "stack", "task",
          "map", "out", "switch", "failed"}

VARIABLES
  heap,             \* the addresses in use
  processes,        \* processes[]
  proc,             \* struct process at each address
  tasks,            \* struct task at each address
  current_process, current_task, task_head, task_tail,
  cr3,              \* the page directory the processor uses
  booted,           \* kernel_main has reached the shell
  slot, process_,   \* locals of process_load_for_slot: process_slot, _process
  program_sp, task, \*   program_sp, task
  pc                \* "user", "halted", "crash" or the step of the kernel

globals == <<processes, current_process, current_task, task_head, task_tail>>
objects == <<heap, proc, tasks>>
locals  == <<slot, process_, program_sp, task>>
vars    == <<heap, processes, proc, tasks, current_process, current_task, task_head,
             task_tail, cr3, booted, slot, process_, program_sp, task, pc>>

NoProcess == [task |-> NULL, image |-> NULL, stack |-> NULL, bss |-> NULL]
NoTask    == [process |-> NULL, directory |-> NULL, next |-> NULL, prev |-> NULL]

Init ==
  /\ heap = {}
  /\ processes = [i \in Slots |-> NULL]
  /\ proc = [a \in Addr |-> NoProcess]
  /\ tasks = [a \in Addr |-> NoTask]
  /\ current_process = NULL
  /\ current_task = NULL
  /\ task_head = NULL
  /\ task_tail = NULL
  /\ cr3 = Kernel
  /\ booted = FALSE
  /\ slot = NULL
  /\ process_ = NULL
  /\ program_sp = NULL
  /\ task = NULL
  /\ pc = "boot"

-----------------------------------------------------------------------------
Fresh == CHOOSE a \in Addr \ heap : \A b \in Addr \ heap : a <= b

\* Bound: a program calls exec only while the heap has room for everything a
\* load allocates, so that an allocation fails at the sites of Failing only.
Room == Cardinality(Addr \ heap) >= 6 \/ \A i \in Slots : processes[i] # NULL

GoTo(step) == pc' = step

\* process_load_for_slot() has returned.
LocalsGone == slot' = 0 /\ process_' = NULL /\ program_sp' = NULL /\ task' = NULL

\* kernel_main() loads the shell with interrupts off and without a task.
BootShell ==
  /\ pc = "boot"
  /\ GoTo("slot")
  /\ UNCHANGED <<objects, globals, locals, cr3, booted>>

\* A system call or an interrupt: kernel_page(), task_current_save_state().
EnterKernel ==
  /\ pc = "user"
  /\ cr3' = Kernel
  /\ GoTo(IF current_task = NULL THEN "halted" ELSE "kernel")
  /\ UNCHANGED <<objects, globals, locals, booted>>

\* Every handler other than exec returns through task_page(), which switches
\* to the directory of current_task.
LeaveKernel ==
  /\ pc = "kernel"
  /\ cr3' = tasks[current_task].directory
  /\ GoTo("user")
  /\ UNCHANGED <<objects, globals, locals, booted>>

\* exec reads its argument from the stack of the task, in whose directory the
\* processor is for the length of task_get_stack_item().
syscall6_process_load_start ==
  /\ pc = "kernel"
  /\ Room
  /\ cr3' = tasks[current_task].directory
  /\ GoTo("string")
  /\ UNCHANGED <<objects, globals, locals, booted>>

\* The string is copied through a block that is mapped into the task for that
\* long, and freed again.
copy_string_from_task ==
  /\ pc = "string"
  /\ cr3' = Kernel
  /\ \/ GoTo("slot")
     \/ "string" \in Failing /\ GoTo("failed")
  /\ UNCHANGED <<objects, globals, locals, booted>>

process_get_free_slot ==
  /\ pc = "slot"
  /\ LET free == {i \in Slots : processes[i] = NULL} IN
       IF free = {} THEN GoTo("failed") /\ UNCHANGED locals
       ELSE /\ slot' = CHOOSE i \in free : \A j \in free : i <= j
            /\ process_' = NULL
            /\ program_sp' = NULL
            /\ task' = NULL
            /\ GoTo("process")
  /\ UNCHANGED <<objects, globals, cr3, booted>>

AllocateProcess ==
  /\ pc = "process"
  /\ \/ /\ heap' = heap \cup {Fresh}
        /\ process_' = Fresh
        /\ proc' = [proc EXCEPT ![Fresh] = NoProcess]
        /\ GoTo("data")
     \/ "process" \in Failing /\ GoTo("failed") /\ UNCHANGED <<heap, proc, process_>>
  /\ UNCHANGED <<tasks, globals, cr3, booted, slot, program_sp, task>>

(***************************************************************************)
(* The file is an ELF file or a flat binary, or it is missing, too short   *)
(* or broken.  When only the memory for the contents of an ELF file is     *)
(* missing, elf_load() returns the 0 of fstat() without setting *file:     *)
(* process_load_elf() takes whatever its local holds.                      *)
(***************************************************************************)
process_load_data ==
  /\ pc = "data"
  /\ \/ /\ heap' = heap \cup {Fresh}
        /\ proc' = [proc EXCEPT ![process_].image = Fresh]
        /\ GoTo("stack")
     \/ GoTo("out") /\ UNCHANGED <<heap, proc>>
     \/ /\ "image" \in Failing
        /\ heap' = heap \cup {Fresh}
        /\ proc' = [proc EXCEPT ![process_].image = Wild]
        /\ GoTo("stack")
  /\ UNCHANGED <<tasks, globals, cr3, booted, locals>>

AllocateStack ==
  /\ pc = "stack"
  /\ \/ /\ heap' = heap \cup {Fresh}
        /\ program_sp' = Fresh
        /\ proc' = [proc EXCEPT ![process_].stack = Fresh]
        /\ GoTo("task")
     \/ "stack" \in Failing /\ GoTo("out") /\ UNCHANGED <<heap, proc, program_sp>>
  /\ UNCHANGED <<tasks, globals, cr3, booted, slot, process_, task>>

\* mutant: the new task becomes the current one at once
InsertAsCurrent(t, directory) ==
  LET new == [process |-> process_, directory |-> directory, next |-> NULL, prev |-> NULL] IN
  IF task_head = NULL
    THEN /\ tasks' = [tasks EXCEPT ![t] = new]
         /\ task_head' = t
         /\ current_task' = t
    ELSE /\ tasks' = [tasks EXCEPT ![task_tail].next = t, ![t] = [new EXCEPT !.prev = task_tail]]
         /\ current_task' = t
         /\ UNCHANGED task_head

\* A task is appended to the list; the first one becomes the current task.
InsertTask(t, directory) ==
  LET new == [process |-> process_, directory |-> directory, next |-> NULL, prev |-> NULL] IN
  IF task_head = NULL
    THEN /\ tasks' = [tasks EXCEPT ![t] = new]
         /\ task_head' = t
         /\ current_task' = t
    ELSE /\ tasks' = [tasks EXCEPT ![task_tail].next = t, ![t] = [new EXCEPT !.prev = task_tail]]
         /\ UNCHANGED <<task_head, current_task>>

task_new ==
  /\ pc = "task"
  /\ LET t         == Fresh
         directory == CHOOSE a \in Addr \ (heap \cup {t}) :
                        \A b \in Addr \ (heap \cup {t}) : a <= b
     IN  \/ /\ heap' = heap \cup {t, directory}
            /\ InsertTask(t, directory)
            /\ task_tail' = t
            /\ task' = t
            /\ proc' = [proc EXCEPT ![process_].task = t]
            /\ GoTo("map")
         \/ /\ "task" \in Failing
            /\ task' = Wild
            /\ GoTo("out")
            /\ UNCHANGED <<objects, current_task, task_head, task_tail>>
         \/ /\ "chunk" \in Failing
            /\ GoTo("halted")
            /\ UNCHANGED <<objects, current_task, task_head, task_tail, task>>
         \/ /\ proc[process_].image = Wild
            /\ GoTo("crash")
            /\ UNCHANGED <<objects, current_task, task_head, task_tail, task>>
  /\ UNCHANGED <<processes, current_process, cr3, booted, slot, process_, program_sp>>

\* mutant: the process gets its slot before its memory is mapped
slot_taken_too_early ==
  /\ pc = "map"
  /\ processes' = [processes EXCEPT ![slot] = process_]
  /\ \/ GoTo("switch") /\ UNCHANGED <<heap, proc>>
     \/ /\ heap' = heap \cup {Fresh}
        /\ proc' = [proc EXCEPT ![process_].bss = Fresh]
        /\ GoTo("switch")
     \/ "bss" \in Failing /\ GoTo("out") /\ UNCHANGED <<heap, proc>>
  /\ UNCHANGED <<tasks, current_process, current_task, task_head, task_tail, cr3, booted, locals>>

\* The memory is mapped and the process gets its slot.  Mapping an ELF file
\* allocates the bss section, if there is one.
process_map_memory ==
  /\ pc = "map"
  /\ \/ /\ processes' = [processes EXCEPT ![slot] = process_]
        /\ \/ UNCHANGED <<heap, proc>>
           \/ /\ heap' = heap \cup {Fresh}
              /\ proc' = [proc EXCEPT ![process_].bss = Fresh]
        /\ GoTo("switch")
     \/ /\ "bss" \in Failing
        /\ GoTo("out")
        /\ UNCHANGED <<processes, heap, proc>>
  /\ UNCHANGED <<tasks, current_process, current_task, task_head, task_tail, cr3, booted, locals>>

\* mutant: the predecessor keeps pointing at the removed task
list_remove_leaves_link(t) ==
  LET head == IF t = task_head THEN tasks[t].next ELSE task_head IN
  /\ UNCHANGED tasks
  /\ task_head' = head
  /\ task_tail' = IF t = task_tail THEN tasks[t].prev ELSE task_tail
  /\ UNCHANGED current_task

\* mutant: the tail keeps pointing at the removed task
list_remove_leaves_tail(t) ==
  /\ tasks' = IF tasks[t].prev = NULL THEN tasks
              ELSE [tasks EXCEPT ![tasks[t].prev].next = tasks[t].next]
  /\ task_head' = IF t = task_head THEN tasks[t].next ELSE task_head
  /\ UNCHANGED <<current_task, task_tail>>

task_list_remove(t) ==
  LET head == IF t = task_head THEN tasks[t].next ELSE task_head
      next == IF tasks[t].next = NULL THEN head ELSE tasks[t].next
  IN  /\ tasks' = IF tasks[t].prev = NULL THEN tasks
                  ELSE [tasks EXCEPT ![tasks[t].prev].next = tasks[t].next]
      /\ task_head' = head
      /\ task_tail' = IF t = task_tail THEN tasks[t].prev ELSE task_tail
      /\ current_task' = IF t = current_task THEN next ELSE current_task

\* The error path frees the stack and the task.  It never frees the process,
\* its image and its bss, and it takes every non-null pointer for a task.
FailedLoad ==
  /\ pc = "out"
  /\ IF task = Wild
       THEN /\ GoTo("crash")
            /\ UNCHANGED <<heap, tasks, current_task, task_head, task_tail>>
       ELSE /\ GoTo("failed")
            /\ IF task = NULL
                 THEN /\ heap' = heap \ {program_sp}
                      /\ UNCHANGED <<tasks, current_task, task_head, task_tail>>
                 ELSE /\ heap' = heap \ {program_sp, task, tasks[task].directory}
                      /\ task_list_remove(task)
  /\ UNCHANGED <<proc, processes, current_process, cr3, booted, locals>>

\* mutant: the directory of the caller stays loaded
switch_keeps_directory ==
  /\ pc = "switch"
  /\ current_process' = process_
  /\ LET next == IF booted THEN proc[process_].task ELSE task_head IN
       /\ current_task' = next
       /\ cr3' = IF booted THEN tasks[current_task].directory ELSE tasks[next].directory
  /\ booted' = TRUE
  /\ GoTo("user")
  /\ LocalsGone
  /\ UNCHANGED <<objects, processes, task_head, task_tail>>

\* process_switch(), then task_run_first_task() for the shell and
\* task_switch() for every other program, and task_return().
process_switch ==
  /\ pc = "switch"
  /\ current_process' = process_
  /\ LET next == IF booted THEN proc[process_].task ELSE task_head IN
       /\ current_task' = next
       /\ cr3' = tasks[next].directory
  /\ booted' = TRUE
  /\ GoTo("user")
  /\ LocalsGone
  /\ UNCHANGED <<objects, processes, task_head, task_tail>>

\* mutant: a failed exec does not return
error_is_retried ==
  /\ pc = "failed"
  /\ GoTo("slot")
  /\ UNCHANGED <<objects, globals, locals, cr3, booted>>

\* exec returns the error to its caller; a shell that cannot be loaded is fatal.
ReturnError ==
  /\ pc = "failed"
  /\ IF booted THEN cr3' = tasks[current_task].directory /\ GoTo("user")
               ELSE cr3' = cr3 /\ GoTo("halted")
  /\ LocalsGone
  /\ UNCHANGED <<objects, globals, booted>>

KernelStep ==
  \/ BootShell
  \/ LeaveKernel
  \/ syscall6_process_load_start
  \/ copy_string_from_task
  \/ process_get_free_slot
  \/ AllocateProcess
  \/ process_load_data
  \/ AllocateStack
  \/ task_new
  \/ process_map_memory
  \/ FailedLoad
  \/ process_switch
  \/ ReturnError

Next == EnterKernel \/ KernelStep

Spec == Init /\ [][Next]_vars

\* Interrupts are off in the kernel: once entered it runs on.
FairSpec == Spec /\ WF_vars(KernelStep)

-----------------------------------------------------------------------------
\* The list, followed from its head.
TaskAt[n \in 0 .. MaxObjects] ==
  IF n = 0 THEN task_head
  ELSE IF TaskAt[n - 1] = NULL THEN NULL ELSE tasks[TaskAt[n - 1]].next

Listed == {TaskAt[n] : n \in 0 .. MaxObjects} \ {NULL}
InUse  == {processes[i] : i \in Slots} \ {NULL}

\* The objects of a process and of a task, which nobody else may hold.
ProcessObjects(x) == <<x, proc[x].image, proc[x].stack, proc[x].bss>>
TaskObjects(t)    == <<t, tasks[t].directory>>
Elements(seq)     == {seq[i] : i \in DOMAIN seq} \ {NULL, Wild}

TypeOK ==
  /\ heap \subseteq Addr
  /\ processes \in [Slots -> Addr \cup {NULL}]
  /\ proc \in [Addr -> [task : Pointer, image : Pointer, stack : Pointer, bss : Pointer]]
  /\ tasks \in [Addr -> [process : Pointer, directory : Pointer, next : Pointer, prev : Pointer]]
  /\ {current_process, current_task, task_head, task_tail, process_, program_sp}
       \subseteq Addr \cup {NULL}
  /\ task \in Pointer
  /\ cr3 \in Addr \cup {Kernel}
  /\ slot \in Slots
  /\ booted \in BOOLEAN
  /\ pc \in Steps \cup {"user", "halted", "crash"}

\* No pointer the kernel will follow again leads to freed memory: the error
\* path of a load must unlink everything it frees.
NoDangling ==
  /\ {current_process, current_task, task_head, task_tail} \cup InUse \subseteq heap \cup {NULL}
  /\ \A x \in InUse : Elements(ProcessObjects(x)) \cup {proc[x].task} \subseteq heap
  /\ \A t \in Listed : Elements(TaskObjects(t)) \cup {tasks[t].process} \subseteq heap
  /\ cr3 \in heap \cup {Kernel}

\* The task list is what its two ends and both directions of links say.
ListWellFormed ==
  /\ TaskAt[MaxObjects] = NULL
  /\ task_head = NULL <=> task_tail = NULL
  /\ \A t \in Listed :
       /\ tasks[t].next = NULL <=> t = task_tail
       /\ tasks[t].prev = NULL <=> t = task_head
       /\ tasks[t].next # NULL => tasks[tasks[t].next].prev = t

\* No address serves two processes, two tasks, or a process and a task: no
\* process runs in the directory or on the stack of another one.
NoSharing ==
  /\ \A x, y \in InUse : \A i, j \in DOMAIN ProcessObjects(x) :
       /\ <<x, i>> # <<y, j>>
       /\ ProcessObjects(x)[i] \in Addr
       => ProcessObjects(x)[i] # ProcessObjects(y)[j]
  /\ \A s, t \in Listed : \A i, j \in DOMAIN TaskObjects(s) :
       <<s, i>> # <<t, j>> => TaskObjects(s)[i] # TaskObjects(t)[j]
  /\ \A x \in InUse, t \in Listed :
       Elements(ProcessObjects(x)) \cap Elements(TaskObjects(t)) = {}

\* While a program runs, the current task, the current process and the loaded
\* directory are those of one process.  keyboard_push() asks for the current
\* process, keyboard_pop() and malloc for the process of the current task.
UserModeConsistent ==
  pc = "user" =>
    /\ current_process \in InUse
    /\ current_task = proc[current_process].task
    /\ tasks[current_task].process = current_process
    /\ cr3 = tasks[current_task].directory

\* A failed exec leaves no task behind, and a successful one exactly one.
OneTaskPerProcess ==
  pc = "user" =>
    /\ {tasks[t].process : t \in Listed} = InUse
    /\ \A t \in Listed : proc[tasks[t].process].task = t

\* All types, and a task list that is consistent in itself and with the processes.
TasksWellFormed == TypeOK /\ ListWellFormed /\ OneTaskPerProcess

\* exec starts one more process in the lowest free slot, or changes nothing.
SlotOf(x) == CHOOSE i \in Slots : processes[i] = x
Promise == INSTANCE Foreground WITH
  None <- NULL - 1,
  launched <- {i \in Slots : processes[i] # NULL /\ ~(pc = "switch" /\ i = slot)},
  foreground <- IF current_process = NULL THEN NULL - 1 ELSE SlotOf(current_process)
ImplementsForeground == Promise!Spec

\* The kernel always comes back to a program, or stops for good.
Settled == {"user", "halted", "crash"}
KernelReturns == (pc \notin Settled) ~> (pc \in Settled)

-----------------------------------------------------------------------------
\* process.h, "Load a new @process with the contens of @filename": a process
\* that got a slot has an image in memory.
LoadedHasImage == \A x \in InUse : proc[x].image \in heap

\* process.h again: a load that fails gives its error to the caller, whatever
\* the allocation that failed.
NeverCrashes == pc # "crash"
=============================================================================
