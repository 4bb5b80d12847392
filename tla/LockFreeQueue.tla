--------------------------- MODULE LockFreeQueue ---------------------------
(***************************************************************************)
(* up::LockFreeQueue, the bounded multi-producer multi-consumer ring of    *)
(* libruntime.  Every atomic load, compare-exchange and store of tryEnque  *)
(* and tryDeque is one step, so the calls of all threads interleave at the *)
(* granularity of the hardware.                                            *)
(*                                                                         *)
(* The code keeps its tickets in 32-bit words.  Here enque, deque and      *)
(* sequence hold the full tickets, of which the word is the residue modulo *)
(* Word; everything the code compares, it compares as words (Difference,   *)
(* SameWord), and a slot index is the same for a ticket and its word       *)
(* because Capacity divides Word.                                          *)
(*                                                                         *)
(* A definition named X_Fault is a faulty variant of X, for mutation runs. *)
(***************************************************************************)
EXTENDS Integers

CONSTANTS
    Producers, Consumers,   \* threads that call tryEnque, and tryDeque
    Value,                  \* what is queued
    NoItem,                 \* a buffer cell with no live object in it
    Capacity,               \* template argument: the number of slots
    Word,                   \* 2^32 in the code: tickets wrap at this number
    MaxLag,                 \* bound: tickets that may overtake one thread's loop
    MaxTicket               \* bound: no tryEnque starts after this many tickets

Thread == Producers \cup Consumers
Slots  == 0 .. Capacity - 1
Half   == Word \div 2

\* The static_assert on the capacity, and what makes 32-bit tickets work: a
\* thread is never overtaken by so many tickets that a word loses its order.
ASSUME QueueAssumption ==
    /\ Capacity \in Nat \ {0}
    /\ Word \in Nat \ {0}
    /\ 2 * Half = Word
    /\ Word % Capacity = 0
    /\ MaxLag \in Nat
    /\ MaxLag + Capacity <= Half
    /\ MaxTicket \in Nat
    /\ NoItem \notin Value
    /\ Producers \cap Consumers = {}

VARIABLES
    enque, deque,   \* next ticket to hand to a producer, to a consumer
    sequence,       \* per slot: the ticket it waits for, or that ticket + 1 once filled
    buffer,         \* per slot: the object stored there
    pc,             \* per thread: where it is in a call
    target, delta,  \* per thread: the locals of its call, 0 between calls
    item            \* the value passed to tryEnque / received by tryDeque

vars == <<enque, deque, sequence, buffer, pc, target, delta, item>>

Slot(t) == t % Capacity

\* The int32 difference of two words.
Difference_Fault(a, b) == (a % Word) - (b % Word)
Difference(a, b) ==
    LET d == (a - b) % Word IN IF d < Half THEN d ELSE d - Word

\* What compare_exchange compares: the two words.
SameWord_Fault(a, b) == TRUE
SameWord(a, b) == Difference(a, b) = 0

Init ==
    /\ enque = 0
    /\ deque = 0
    /\ sequence = [s \in Slots |-> s]
    /\ buffer = [s \in Slots |-> NoItem]
    /\ pc = [t \in Thread |-> "idle"]
    /\ target = [t \in Thread |-> 0]
    /\ delta = [t \in Thread |-> 0]
    /\ item = [t \in Thread |-> NoItem]

-----------------------------------------------------------------------------

\* Threads inside the retry loop, whose copy of the counter is getting older.
Looping(threads) == {t \in threads : pc[t] \in {"loaded", "compared"}}

\* The scheduling bound: handing out one more ticket leaves nobody too far behind.
Overtakes(counter, threads) ==
    \E t \in Looping(threads) : counter + 1 - target[t] > MaxLag

\* The delta a claim needs.
Fits_Fault(d) == d <= 0
Fits(d) == d = 0

\* What is stored into the sequence of a filled slot, and of an emptied one.
Filled(t) == t + 1

NextLap_Fault(t) == t + Capacity - 1
NextLap(t) == t + Capacity

LoadCounter(t, counter) ==
    /\ target' = [target EXCEPT ![t] = counter]
    /\ delta' = [delta EXCEPT ![t] = 0]
    /\ pc' = [pc EXCEPT ![t] = "loaded"]

\* Load the sequence of the slot and compare it with the one the call needs.
LoadSequence(t, needed) ==
    /\ pc[t] = "loaded"
    /\ delta' = [delta EXCEPT ![t] = Difference(sequence[Slot(target[t])], needed)]
    /\ pc' = [pc EXCEPT ![t] = "compared"]
    /\ UNCHANGED <<enque, deque, sequence, buffer, target, item>>

LoadForEnque(p) == LoadSequence(p, target[p])
LoadForDeque(c) == LoadSequence(c, target[c] + 1)

Return(t) ==
    /\ pc' = [pc EXCEPT ![t] = "idle"]
    /\ target' = [target EXCEPT ![t] = 0]
    /\ delta' = [delta EXCEPT ![t] = 0]

BeginEnque(p, v) ==
    /\ pc[p] = "idle"
    /\ enque < MaxTicket
    /\ LoadCounter(p, enque)
    /\ item' = [item EXCEPT ![p] = v]
    /\ UNCHANGED <<enque, deque, sequence, buffer>>

\* The compare-exchange that hands the ticket to this producer.
ClaimEnque(p) ==
    /\ pc[p] = "compared"
    /\ Fits(delta[p])
    /\ SameWord(enque, target[p])
    /\ ~Overtakes(enque, Producers \ {p})
    /\ enque' = enque + 1
    /\ pc' = [pc EXCEPT ![p] = "claimed"]
    /\ UNCHANGED <<deque, sequence, buffer, target, delta, item>>

\* The slot is behind the ticket, or another producer got the ticket first.
RetryEnque(p) ==
    /\ pc[p] = "compared"
    /\ \/ delta[p] > 0
       \/ Fits(delta[p]) /\ ~SameWord(enque, target[p])
    /\ LoadCounter(p, enque)
    /\ UNCHANGED <<enque, deque, sequence, buffer, item>>

\* delta < 0: tryEnque returns false.
RefuseEnque(p) ==
    /\ pc[p] = "compared"
    /\ delta[p] < 0
    /\ Return(p)
    /\ UNCHANGED <<enque, deque, sequence, buffer, item>>

\* Placement new of the value into the slot.
WriteItem(p) ==
    /\ pc[p] = "claimed"
    /\ buffer' = [buffer EXCEPT ![Slot(target[p])] = item[p]]
    /\ pc' = [pc EXCEPT ![p] = "stored"]
    /\ UNCHANGED <<enque, deque, sequence, target, delta, item>>

\* The release store that makes the slot visible to consumers; returns true.
Publish(p) ==
    /\ pc[p] = "stored"
    /\ sequence' = [sequence EXCEPT ![Slot(target[p])] = Filled(target[p])]
    /\ Return(p)
    /\ UNCHANGED <<enque, deque, buffer, item>>

BeginDeque(c) ==
    /\ pc[c] = "idle"
    /\ LoadCounter(c, deque)
    /\ UNCHANGED <<enque, deque, sequence, buffer, item>>

ClaimDeque(c) ==
    /\ pc[c] = "compared"
    /\ Fits(delta[c])
    /\ SameWord(deque, target[c])
    /\ ~Overtakes(deque, Consumers \ {c})
    /\ deque' = deque + 1
    /\ pc' = [pc EXCEPT ![c] = "claimed"]
    /\ UNCHANGED <<enque, sequence, buffer, target, delta, item>>

RetryDeque(c) ==
    /\ pc[c] = "compared"
    /\ \/ delta[c] > 0
       \/ Fits(delta[c]) /\ ~SameWord(deque, target[c])
    /\ LoadCounter(c, deque)
    /\ UNCHANGED <<enque, deque, sequence, buffer, item>>

RefuseDeque(c) ==
    /\ pc[c] = "compared"
    /\ delta[c] < 0
    /\ Return(c)
    /\ UNCHANGED <<enque, deque, sequence, buffer, item>>

\* Move the object out and destroy what is left of it.
TakeItem(c) ==
    /\ pc[c] = "claimed"
    /\ item' = [item EXCEPT ![c] = buffer[Slot(target[c])]]
    /\ buffer' = [buffer EXCEPT ![Slot(target[c])] = NoItem]
    /\ pc' = [pc EXCEPT ![c] = "stored"]
    /\ UNCHANGED <<enque, deque, sequence, target, delta>>

\* Hand the slot to the producer one lap ahead; returns true.
Release(c) ==
    /\ pc[c] = "stored"
    /\ sequence' = [sequence EXCEPT ![Slot(target[c])] = NextLap(target[c])]
    /\ Return(c)
    /\ UNCHANGED <<enque, deque, buffer, item>>

-----------------------------------------------------------------------------

\* What a thread does once it is inside a call.
EnqueStep(p) ==
    LoadForEnque(p) \/ ClaimEnque(p) \/ RetryEnque(p) \/ RefuseEnque(p)
        \/ WriteItem(p) \/ Publish(p)

DequeStep(c) ==
    LoadForDeque(c) \/ ClaimDeque(c) \/ RetryDeque(c) \/ RefuseDeque(c)
        \/ TakeItem(c) \/ Release(c)

Next ==
    \/ \E p \in Producers : EnqueStep(p) \/ \E v \in Value : BeginEnque(p, v)
    \/ \E c \in Consumers : DequeStep(c) \/ BeginDeque(c)

Spec == Init /\ [][Next]_vars

-----------------------------------------------------------------------------

TypeOK ==
    /\ enque \in Nat
    /\ deque \in Nat
    /\ sequence \in [Slots -> Nat]
    /\ buffer \in [Slots -> Value \cup {NoItem}]
    /\ pc \in [Thread -> {"idle", "loaded", "compared", "claimed", "stored"}]
    /\ target \in [Thread -> Nat]
    /\ delta \in [Thread -> Int]
    /\ item \in [Thread -> Value \cup {NoItem}]

\* Threads that are touching a buffer cell.
InSlot == {t \in Thread : pc[t] \in {"claimed", "stored"}}

\* Two threads are never between their compare-exchange and their release
\* store on the same slot, so a buffer cell is never accessed by two at once.
SlotExclusive ==
    \A t, u \in InSlot : Slot(target[t]) = Slot(target[u]) => t = u

\* A producer only constructs into a dead cell (nothing queued is overwritten)
\* and a consumer only moves out of a live one (nothing is delivered twice).
NoOverwrite ==
    /\ \A p \in Producers :
           pc[p] = "claimed" => buffer[Slot(target[p])] = NoItem
    /\ \A c \in Consumers :
           pc[c] = "claimed" => buffer[Slot(target[c])] # NoItem

\* The counters never run past each other: no ticket is consumed before it is
\* produced, and at most Capacity tickets are outstanding.
Bounded == deque <= enque /\ enque <= deque + Capacity

\* The inductive invariant behind the three above.  A slot waits for the next
\* ticket that maps to it, or holds a ticket that has not been released.
FreeFor(s)  == /\ Slot(sequence[s]) = s
               /\ deque <= sequence[s] /\ sequence[s] < deque + Capacity
FilledBy(s) == /\ sequence[s] > 0
               /\ Slot(sequence[s] - 1) = s
               /\ enque - Capacity < sequence[s] /\ sequence[s] <= enque

SlotPhase == \A s \in Slots : FreeFor(s) \/ FilledBy(s)

\* A cell is dead while its slot is free and unclaimed, live while it is filled
\* and unclaimed.
CellPhase == \A s \in Slots :
    /\ FreeFor(s) /\ enque <= sequence[s] => buffer[s] = NoItem
    /\ FilledBy(s) /\ deque < sequence[s] => buffer[s] # NoItem

\* What a thread knows: t's copy of the counter is recent, a zero delta means
\* that the slot has reached the ticket, and a claimed slot stays as it was.
LoopInv(t, counter, needed) ==
    pc[t] \in {"loaded", "compared"} =>
        /\ target[t] <= counter
        /\ counter <= target[t] + MaxLag
        /\ pc[t] = "compared" /\ delta[t] = 0 => needed <= sequence[Slot(target[t])]

ClaimInv(t, counter, needed) ==
    t \in InSlot => target[t] < counter /\ sequence[Slot(target[t])] = needed

ProducerInv == \A p \in Producers :
    /\ LoopInv(p, enque, target[p])
    /\ ClaimInv(p, enque, target[p])
    /\ pc[p] # "idle" => item[p] \in Value
    /\ pc[p] = "claimed" => buffer[Slot(target[p])] = NoItem
    /\ pc[p] = "stored" => buffer[Slot(target[p])] # NoItem

ConsumerInv == \A c \in Consumers :
    /\ LoopInv(c, deque, target[c] + 1)
    /\ ClaimInv(c, deque, target[c] + 1)
    /\ pc[c] = "claimed" => buffer[Slot(target[c])] # NoItem
    /\ pc[c] = "stored" => buffer[Slot(target[c])] = NoItem

\* No ticket has two owners of one kind.
OneOwner(threads) ==
    \A t, u \in threads \cap InSlot : target[t] = target[u] => t = u

IInv == /\ TypeOK /\ Bounded /\ SlotPhase /\ CellPhase
        /\ ProducerInv /\ ConsumerInv
        /\ OneOwner(Producers) /\ OneOwner(Consumers)

\* While no other thread is inside a call, tryEnque only finds a full ring full,
\* and tryDeque an empty one empty, even when the ticket was read before other
\* calls came and went.
HonestRefusal ==
    [][\A t \in Thread :
          /\ IF t \in Producers THEN LoadForEnque(t) ELSE LoadForDeque(t)
          /\ \A u \in Thread \ {t} : pc[u] = "idle"
          /\ delta'[t] < 0
          => enque - deque = IF t \in Producers THEN Capacity ELSE 0]_vars

\* The queue is lock-free: a call goes round its loop only when another call of
\* its kind has taken the ticket it had read, so that of the calls that keep each
\* other busy one always gets through (no call by itself need ever return).
RetriesLose ==
    [][\A t \in Thread :
          IF t \in Producers THEN RetryEnque(t) => target[t] < enque
                              ELSE RetryDeque(t) => target[t] < deque]_vars

-----------------------------------------------------------------------------

\* The value of an issued ticket: still in its producer's hands, or in its slot.
Holders(k) == {p \in Producers : pc[p] = "claimed" /\ target[p] = k}
ValueOf(k) == IF Holders(k) # {} THEN item[CHOOSE p \in Holders(k) : TRUE]
                                 ELSE buffer[Slot(k)]

\* As seen from outside, a FIFO queue of at most Capacity values whose calls
\* take effect at their compare-exchange.
Fifo == INSTANCE BoundedFifo WITH
    queue <- [i \in 1 .. enque - deque |-> ValueOf(deque + i - 1)],
    got   <- [c \in Consumers |-> IF pc[c] = "claimed"
                                     THEN buffer[Slot(target[c])] ELSE item[c]]

ImplementsFifo == Fifo!Spec
=============================================================================
