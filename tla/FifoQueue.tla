------------------------------ MODULE FifoQueue ------------------------------
(* What MpscQueue promises: elements come out once, in the order in which    *)
(* they went in.                                                             *)
EXTENDS Sequences

CONSTANTS Elements,
          Nothing   \* no element has been taken yet

VARIABLES items,    \* the queue
          last      \* the element that was taken last

Init == items = <<>> /\ last = Nothing

Enqueue(e) ==
  /\ \A i \in DOMAIN items : items[i] # e
  /\ items' = Append(items, e)
  /\ UNCHANGED last

Dequeue ==
  /\ items # <<>>
  /\ last' = Head(items)
  /\ items' = Tail(items)

Next == (\E e \in Elements : Enqueue(e)) \/ Dequeue

Spec == Init /\ [][Next]_<<items, last>>
=============================================================================
