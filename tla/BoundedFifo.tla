----------------------------- MODULE BoundedFifo -----------------------------
(***************************************************************************)
(* What LockfreeQueue<T> (include/lockfree_queue.h) promises to its users: *)
(* a first-in first-out buffer that holds at most Bound elements.          *)
(* A refused push and a pop that finds nothing change nothing.             *)
(***************************************************************************)
EXTENDS Naturals, Sequences

CONSTANTS Elements,   \* what may be pushed
          Bound       \* how many elements fit

VARIABLES buffer,     \* the elements pushed and not yet popped
          delivered   \* the elements popped, in the order of their pops

fifoVars == <<buffer, delivered>>

Init == buffer = <<>> /\ delivered = <<>>

Enqueue(e) ==
  /\ Len(buffer) < Bound
  /\ buffer' = Append(buffer, e)
  /\ UNCHANGED delivered

Dequeue ==
  /\ buffer # <<>>
  /\ delivered' = Append(delivered, Head(buffer))
  /\ buffer' = Tail(buffer)

Next == Dequeue \/ \E e \in Elements : Enqueue(e)

Spec == Init /\ [][Next]_fifoVars
==============================================================================
