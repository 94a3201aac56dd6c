----------------------------- MODULE ByteQueue -----------------------------
(* What a byte FIFO of bounded capacity promises: bytes leave in the order   *)
(* they entered, and none is overwritten.                                    *)
EXTENDS Naturals, Sequences

CONSTANTS Capacity, Data
VARIABLE queue

Init == queue = <<>>

Enqueue == /\ Len(queue) < Capacity
           /\ \E data \in Data : queue' = Append(queue, data)
Dequeue == /\ queue # <<>>
           /\ queue' = Tail(queue)

Next == Enqueue \/ Dequeue
Spec == Init /\ [][Next]_queue
=============================================================================
