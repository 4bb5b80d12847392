---------------------------- MODULE BoundedFifo ----------------------------
(***************************************************************************)
(* What the queues of libruntime promise their callers: a FIFO of at most  *)
(* Capacity values.  A call that is refused changes nothing.               *)
(***************************************************************************)
EXTENDS Naturals, Sequences

CONSTANTS Consumers, Value, NoItem, Capacity

VARIABLES
    queue,  \* the values accepted and not yet handed out, oldest first
    got     \* the value each consumer received last

vars == <<queue, got>>

Init == queue = <<>> /\ got = [c \in Consumers |-> NoItem]

Put(v) ==
    /\ Len(queue) < Capacity
    /\ queue' = Append(queue, v)
    /\ UNCHANGED got

Take(c) ==
    /\ queue # <<>>
    /\ got' = [got EXCEPT ![c] = Head(queue)]
    /\ queue' = Tail(queue)

Next == (\E v \in Value : Put(v)) \/ (\E c \in Consumers : Take(c))

Spec == Init /\ [][Next]_vars
=============================================================================
