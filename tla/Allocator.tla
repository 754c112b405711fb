------------------------------ MODULE Allocator ------------------------------
(***************************************************************************)
(* What the kernel expects of kmalloc/kzalloc/kfree (heap.h, kheap.h): an  *)
(* allocation hands out bytes that no live allocation holds, and it holds  *)
(* them until it is freed.  A failed allocation changes nothing.           *)
(***************************************************************************)
EXTENDS Integers

CONSTANTS
  Addresses,  \* the addresses an allocation may start at
  Sizes       \* the sizes a caller may ask for

VARIABLE live \* the allocations that have not been freed

Bytes(a)       == a.p .. a.p + a.size - 1
Disjoint(a, b) == Bytes(a) \cap Bytes(b) = {}

Init == live = {}

Alloc(p, size) ==
  LET new == [p |-> p, size |-> size] IN
  /\ \A a \in live : a.p # p /\ Disjoint(a, new)
  /\ live' = live \cup {new}

Free(a) == live' = live \ {a}

Next ==
  \/ \E p \in Addresses, size \in Sizes : Alloc(p, size)
  \/ \E a \in live : Free(a)

Spec == Init /\ [][Next]_live
=============================================================================
