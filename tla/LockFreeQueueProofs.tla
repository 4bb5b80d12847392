------------------------ MODULE LockFreeQueueProofs ------------------------
(***************************************************************************)
(* Machine-checked safety of LockFreeQueue for any number of threads, any  *)
(* capacity above one, any word size and any values.                       *)
(***************************************************************************)
EXTENDS LockFreeQueue, ModularArithmetic, SequenceTheorems, TLAPS

\* There is at least one slot.
LEMMA CapacityType == Capacity \in Nat /\ Capacity > 0
BY QueueAssumption

\* Every ticket maps to a slot, and a ticket one lap later to the same slot.
LEMMA SlotFacts ==
    ASSUME NEW t \in Nat
    PROVE  /\ Slot(t) \in Slots
           /\ Slot(t + Capacity) = Slot(t)
<1>1. Slot(t) \in Slots
  BY CapacityType, DivMod DEF Slot, Slots
<1>2. Slot(t + Capacity) = Slot(t)
  BY CapacityType, ModAddLap DEF Slot
<1>3. QED BY <1>1, <1>2

\* Tickets less than a lap apart that map to the same slot are the same.
LEMMA SlotInjective ==
    ASSUME NEW t \in Nat, NEW u \in Nat, Slot(t) = Slot(u),
           t - Capacity < u, u < t + Capacity
    PROVE  t = u
<1>1. Capacity \in Nat /\ Capacity > 0
  BY CapacityType
<1>2. t % Capacity = u % Capacity
  BY DEF Slot
<1>3. QED BY <1>1, <1>2, ModInjective

\* The difference of two words is that of the tickets while they are close.
LEMMA DifferenceExact ==
    ASSUME NEW a \in Nat, NEW b \in Nat, a - b < Half, b - a <= Half
    PROVE  Difference(a, b) = a - b
<1>1. Word \in Nat /\ Word > 0 /\ Half \in Nat /\ Word = Half + Half
  BY QueueAssumption DEF Half
<1>2. CASE a >= b
  <2>1. a - b \in Nat /\ a - b < Word
    BY <1>1, <1>2
  <2>2. (a - b) % Word = a - b
    BY <1>1, <2>1
  <2>3. QED BY <2>2 DEF Difference
<1>3. CASE a < b
  <2>1. a - b \in Int /\ -Word <= a - b /\ a - b < 0
    BY <1>1, <1>3
  <2>2. (a - b) % Word = a - b + Word
    BY <1>1, <2>1
  <2>3. ~(a - b + Word < Half)
    BY <1>1
  <2>4. QED BY <1>1, <2>2, <2>3 DEF Difference
<1>4. QED BY <1>2, <1>3

\* The difference of two words is an integer.
LEMMA DifferenceType ==
    ASSUME NEW a \in Nat, NEW b \in Nat
    PROVE  Difference(a, b) \in Int
<1>1. Word \in Nat /\ Word > 0 /\ (a - b) % Word \in Int
  BY QueueAssumption
<1>2. QED BY <1>1 DEF Difference

-----------------------------------------------------------------------------

\* What a claim finds: the slot of the next ticket, once it has reached that
\* ticket, waits for exactly it.
LEMMA ClaimableSlot ==
    ASSUME Capacity > 1, TypeOK, Bounded, SlotPhase,
           enque <= sequence[Slot(enque)]
    PROVE  /\ sequence[Slot(enque)] = enque
           /\ FreeFor(Slot(enque))
           /\ enque < deque + Capacity
<1> DEFINE s == Slot(enque)
           q == sequence[s]
<1>1. s \in Slots /\ q \in Nat /\ enque \in Nat /\ deque \in Nat /\ Capacity \in Nat
  BY SlotFacts, QueueAssumption DEF TypeOK
<1>2. ~FilledBy(s)
  <2>1. SUFFICES ASSUME FilledBy(s) PROVE FALSE
    OBVIOUS
  <2>2. q = enque /\ q - 1 \in Nat
    BY <1>1, <2>1 DEF FilledBy
  <2>3. Slot(q - 1) = Slot(enque)
    BY <2>1 DEF FilledBy
  <2>4. q - 1 = enque
    BY <1>1, <2>2, <2>3, SlotInjective
  <2>5. QED BY <1>1, <2>2, <2>4
<1>3. FreeFor(s)
  BY <1>1, <1>2 DEF SlotPhase
<1>4. q < enque + Capacity /\ Slot(q) = Slot(enque)
  BY <1>1, <1>3 DEF FreeFor, Bounded
<1>5. q = enque
  BY <1>1, <1>4, SlotInjective
<1>6. QED BY <1>3, <1>5 DEF FreeFor

\* The same for a consumer: the slot of the next ticket to take is filled.
LEMMA TakeableSlot ==
    ASSUME Capacity > 1, TypeOK, Bounded, SlotPhase,
           deque + 1 <= sequence[Slot(deque)]
    PROVE  /\ sequence[Slot(deque)] = deque + 1
           /\ FilledBy(Slot(deque))
           /\ deque < enque
<1> DEFINE s == Slot(deque)
           q == sequence[s]
<1>1. s \in Slots /\ q \in Nat /\ enque \in Nat /\ deque \in Nat /\ Capacity \in Nat
  BY SlotFacts, QueueAssumption DEF TypeOK
<1>2. ~FreeFor(s)
  <2>1. SUFFICES ASSUME FreeFor(s) PROVE FALSE
    OBVIOUS
  <2>2. Slot(q) = Slot(deque) /\ q < deque + Capacity
    BY <2>1 DEF FreeFor
  <2>3. q = deque
    BY <1>1, <2>2, SlotInjective
  <2>4. QED BY <1>1, <2>3
<1>3. FilledBy(s)
  BY <1>1, <1>2 DEF SlotPhase
<1>4. q - 1 \in Nat /\ Slot(q - 1) = Slot(deque) /\ q - 1 < deque + Capacity
  BY <1>1, <1>3 DEF FilledBy, Bounded
<1>5. q - 1 = deque
  BY <1>1, <1>4, SlotInjective
<1>6. QED BY <1>1, <1>3, <1>5 DEF FilledBy

\* In every phase a slot's sequence is within a lap of both counters, so that
\* what a looping thread computes from words is the true difference.
LEMMA SequenceWindow ==
    ASSUME TypeOK, Bounded, SlotPhase, NEW s \in Slots
    PROVE  /\ sequence[s] \in Nat
           /\ enque - Capacity <= sequence[s] /\ sequence[s] < enque + Capacity
           /\ deque - Capacity < sequence[s] /\ sequence[s] <= deque + Capacity
<1>1. sequence[s] \in Nat /\ enque \in Nat /\ deque \in Nat /\ Capacity \in Nat \ {0}
  BY QueueAssumption DEF TypeOK
<1>2. CASE FreeFor(s)
  BY <1>1, <1>2 DEF FreeFor, Bounded
<1>3. CASE FilledBy(s)
  BY <1>1, <1>3 DEF FilledBy, Bounded
<1>4. QED BY <1>2, <1>3 DEF SlotPhase

-----------------------------------------------------------------------------

\* Typed values and the shapes of the two halves of a call.
LEMMA TypeInit == Init => TypeOK
<1>1. Capacity \in Nat /\ Slots \subseteq Nat
  BY CapacityType DEF Slots
<1>2. QED BY <1>1 DEF Init, TypeOK

LEMMA TypeStep == TypeOK /\ [Next]_vars => TypeOK'
<1> SUFFICES ASSUME TypeOK, [Next]_vars PROVE TypeOK'
  OBVIOUS
<1> USE DEF TypeOK
<1>c. Capacity \in Nat /\ Capacity > 0 /\ Producers \subseteq Thread /\ Consumers \subseteq Thread
  BY CapacityType DEF Thread
<1>1. ASSUME NEW t \in Thread, NEW needed \in Nat, LoadSequence(t, needed)
      PROVE  TypeOK'
  <2>1. sequence[Slot(target[t])] \in Nat
    BY SlotFacts
  <2>2. Difference(sequence[Slot(target[t])], needed) \in Int
    BY <2>1, DifferenceType
  <2>3. QED BY <1>1, <2>2 DEF LoadSequence
<1>2. ASSUME NEW p \in Producers, EnqueStep(p) \/ \E v \in Value : BeginEnque(p, v)
      PROVE  TypeOK'
  <2>t. p \in Thread
    BY <1>c
  <2>1. CASE LoadForEnque(p)
    BY <1>1, <2>1, <2>t DEF LoadForEnque
  <2>2. CASE ClaimEnque(p)
    BY <2>2, <2>t DEF ClaimEnque
  <2>3. CASE RetryEnque(p)
    BY <2>3, <2>t DEF RetryEnque, LoadCounter
  <2>4. CASE RefuseEnque(p)
    BY <2>4, <2>t DEF RefuseEnque, Return
  <2>5. CASE WriteItem(p)
    BY <2>5, <2>t DEF WriteItem
  <2>6. CASE Publish(p)
    <3>1. Filled(target[p]) \in Nat
      BY <2>t DEF Filled
    <3>2. sequence' \in [Slots -> Nat]
      BY <2>6, <3>1 DEF Publish
    <3>3. QED BY <2>6, <2>t, <3>2 DEF Publish, Return
  <2>7. CASE \E v \in Value : BeginEnque(p, v)
    BY <2>7, <2>t DEF BeginEnque, LoadCounter
  <2>8. QED BY <1>2, <2>1, <2>2, <2>3, <2>4, <2>5, <2>6, <2>7 DEF EnqueStep
<1>3. ASSUME NEW c \in Consumers, DequeStep(c) \/ BeginDeque(c)
      PROVE  TypeOK'
  <2>t. c \in Thread
    BY <1>c
  <2>1. CASE LoadForDeque(c)
    BY <1>1, <2>1, <2>t DEF LoadForDeque
  <2>2. CASE ClaimDeque(c)
    BY <2>2, <2>t DEF ClaimDeque
  <2>3. CASE RetryDeque(c)
    BY <2>3, <2>t DEF RetryDeque, LoadCounter
  <2>4. CASE RefuseDeque(c)
    BY <2>4, <2>t DEF RefuseDeque, Return
  <2>5. CASE TakeItem(c)
    <3>1. buffer[Slot(target[c])] \in Value \cup {NoItem}
      BY <2>t, SlotFacts
    <3>2. QED BY <2>5, <2>t, <3>1 DEF TakeItem
  <2>6. CASE Release(c)
    <3>1. NextLap(target[c]) \in Nat
      BY <2>t, <1>c DEF NextLap
    <3>2. sequence' \in [Slots -> Nat]
      BY <2>6, <3>1 DEF Release
    <3>3. QED BY <2>6, <2>t, <3>2 DEF Release, Return
  <2>7. CASE BeginDeque(c)
    BY <2>7, <2>t DEF BeginDeque, LoadCounter
  <2>8. QED BY <1>3, <2>1, <2>2, <2>3, <2>4, <2>5, <2>6, <2>7 DEF DequeStep
<1>4. CASE UNCHANGED vars
  BY <1>4 DEF vars
<1>5. QED BY <1>2, <1>3, <1>4 DEF Next

\* TypeOK holds in every reachable state.
THEOREM TypeCorrect == Spec => []TypeOK
BY TypeInit, TypeStep, PTL DEF Spec

-----------------------------------------------------------------------------

LEMMA IndInit == Capacity > 1 /\ Init => IInv
<1> SUFFICES ASSUME Capacity > 1, Init PROVE IInv
  OBVIOUS
<1>c. Capacity \in Nat /\ Capacity > 0
  BY CapacityType
<1>1. TypeOK
  BY TypeInit
<1>2. Bounded
  BY <1>c DEF Init, Bounded
<1>3. ASSUME NEW s \in Slots
      PROVE  FreeFor(s) /\ ~FilledBy(s) /\ buffer[s] = NoItem
  <2>1. s \in Nat /\ s < Capacity /\ sequence[s] = s
    BY <1>c DEF Init, Slots
  <2>2. s % Capacity = s
    BY <1>c, <2>1
  <2>3. FreeFor(s)
    BY <1>c, <2>1, <2>2 DEF Init, FreeFor, Slot
  <2>4. ~FilledBy(s)
    BY <1>c, <2>1 DEF Init, FilledBy
  <2>5. QED BY <2>3, <2>4 DEF Init
<1>4. SlotPhase /\ CellPhase
  BY <1>3 DEF SlotPhase, CellPhase
<1>5. \A t \in Thread : pc[t] = "idle"
  BY DEF Init
<1>6. ProducerInv /\ ConsumerInv /\ OneOwner(Producers) /\ OneOwner(Consumers)
  BY <1>5 DEF ProducerInv, ConsumerInv, OneOwner, LoopInv, ClaimInv, InSlot, Thread
<1>7. QED BY <1>1, <1>2, <1>4, <1>6 DEF IInv

\* A thread that leaves the shared state alone only has its own part of the
\* invariant to keep: the ring's part carries over.
LEMMA SharedUnchanged ==
    ASSUME IInv, UNCHANGED <<enque, deque, sequence, buffer>>
    PROVE  Bounded' /\ SlotPhase' /\ CellPhase'
BY DEF IInv, Bounded, SlotPhase, CellPhase, FreeFor, FilledBy

\* What a thread computed from the slot's sequence, when it is not negative
\* against the ticket it needs.
LEMMA LoadedDelta ==
    ASSUME TypeOK, Bounded, SlotPhase, NEW t \in Nat, NEW needed \in {t, t + 1},
           \/ needed = t /\ t <= enque /\ enque <= t + MaxLag
           \/ needed = t + 1 /\ t <= deque /\ deque <= t + MaxLag
    PROVE  Difference(sequence[Slot(t)], needed) = sequence[Slot(t)] - needed
<1> DEFINE q == sequence[Slot(t)]
<1>1. /\ q \in Nat
      /\ enque - Capacity <= q /\ q < enque + Capacity
      /\ deque - Capacity < q /\ q <= deque + Capacity
  BY SlotFacts, SequenceWindow
<1>2. /\ MaxLag \in Nat /\ Capacity \in Nat /\ Half \in Nat /\ MaxLag + Capacity <= Half
      /\ enque \in Nat /\ deque \in Nat /\ needed \in Nat
  BY QueueAssumption DEF TypeOK, Half
<1>3. q - needed < Half /\ needed - q <= Half
  BY <1>1, <1>2
<1>4. QED BY <1>1, <1>2, <1>3, DifferenceExact

\* A step of thread t outside its slot, with the ring unchanged.
LEMMA LocalStep ==
    ASSUME IInv, TypeOK', UNCHANGED <<enque, deque, sequence, buffer>>,
           NEW t \in Thread,
           \A u \in Thread \ {t} : /\ pc'[u] = pc[u]
                                   /\ target'[u] = target[u]
                                   /\ delta'[u] = delta[u]
                                   /\ item'[u] = item[u],
           pc'[t] \notin {"claimed", "stored"},
           t \in Producers => /\ LoopInv(t, enque, target[t])'
                              /\ pc'[t] # "idle" => item'[t] \in Value,
           t \in Consumers => LoopInv(t, deque, target[t] + 1)'
    PROVE  IInv'
<1>1. Bounded' /\ SlotPhase' /\ CellPhase'
  BY SharedUnchanged
<1>2. \A u \in InSlot' : u \in InSlot /\ u # t
  BY DEF InSlot
<1>3. OneOwner(Producers)' /\ OneOwner(Consumers)'
  BY <1>2 DEF IInv, OneOwner, Thread
<1>4. ProducerInv'
  <2>1. SUFFICES ASSUME NEW p \in Producers
                 PROVE  (/\ LoopInv(p, enque, target[p])
                         /\ ClaimInv(p, enque, target[p])
                         /\ pc[p] # "idle" => item[p] \in Value
                         /\ pc[p] = "claimed" => buffer[Slot(target[p])] = NoItem
                         /\ pc[p] = "stored" => buffer[Slot(target[p])] # NoItem)'
    BY DEF ProducerInv
  <2>2. CASE p = t
    BY <2>2 DEF ClaimInv, InSlot
  <2>3. CASE p # t
    BY <2>3 DEF IInv, ProducerInv, LoopInv, ClaimInv, InSlot, Thread
  <2>4. QED BY <2>2, <2>3
<1>5. ConsumerInv'
  <2>1. SUFFICES ASSUME NEW c \in Consumers
                 PROVE  (/\ LoopInv(c, deque, target[c] + 1)
                         /\ ClaimInv(c, deque, target[c] + 1)
                         /\ pc[c] = "claimed" => buffer[Slot(target[c])] # NoItem
                         /\ pc[c] = "stored" => buffer[Slot(target[c])] = NoItem)'
    BY DEF ConsumerInv
  <2>2. CASE c = t
    BY <2>2 DEF ClaimInv, InSlot
  <2>3. CASE c # t
    BY <2>3 DEF IInv, ConsumerInv, LoopInv, ClaimInv, InSlot, Thread
  <2>4. QED BY <2>2, <2>3
<1>6. QED BY <1>1, <1>3, <1>4, <1>5 DEF IInv

\* Every step of tryEnque that leaves the ring alone keeps the invariant.
LEMMA ProducerLocalStep ==
    ASSUME IInv, TypeOK', NEW p \in Producers,
           \/ \E v \in Value : BeginEnque(p, v)
           \/ LoadForEnque(p) \/ RetryEnque(p) \/ RefuseEnque(p)
    PROVE  IInv'
<1>c. p \in Thread /\ p \notin Consumers /\ TypeOK /\ MaxLag \in Nat
  BY QueueAssumption DEF Thread, IInv
<1>1. CASE \E v \in Value : BeginEnque(p, v)
  <2>1. LoopInv(p, enque, target[p])'
    BY <1>1, <1>c DEF BeginEnque, LoadCounter, LoopInv, TypeOK
  <2>2. QED BY <1>1, <1>c, <2>1, LocalStep DEF BeginEnque, LoadCounter, TypeOK
<1>2. CASE LoadForEnque(p)
  <2>1. /\ pc[p] = "loaded" /\ target[p] \in Nat
        /\ target[p] <= enque /\ enque <= target[p] + MaxLag
    BY <1>2, <1>c DEF LoadForEnque, LoadSequence, IInv, ProducerInv, LoopInv, TypeOK
  <2>2. Difference(sequence[Slot(target[p])], target[p])
           = sequence[Slot(target[p])] - target[p]
    BY <1>c, <2>1, LoadedDelta DEF IInv
  <2>3. sequence[Slot(target[p])] \in Nat
    BY <1>c, <2>1, SlotFacts DEF TypeOK
  <2>4. delta'[p] = sequence[Slot(target[p])] - target[p]
    BY <1>2, <1>c, <2>2 DEF LoadForEnque, LoadSequence, TypeOK
  <2>5. LoopInv(p, enque, target[p])'
    BY <1>2, <2>1, <2>3, <2>4 DEF LoadForEnque, LoadSequence, LoopInv
  <2>6. item[p] \in Value
    BY <2>1 DEF IInv, ProducerInv
  <2>7. QED BY <1>2, <1>c, <2>5, <2>6, LocalStep DEF LoadForEnque, LoadSequence, TypeOK
<1>3. CASE RetryEnque(p)
  <2>1. LoopInv(p, enque, target[p])'
    BY <1>3, <1>c DEF RetryEnque, LoadCounter, LoopInv, TypeOK
  <2>2. item[p] \in Value
    BY <1>3 DEF IInv, ProducerInv, RetryEnque
  <2>3. QED BY <1>3, <1>c, <2>1, <2>2, LocalStep DEF RetryEnque, LoadCounter, TypeOK
<1>4. CASE RefuseEnque(p)
  <2>1. LoopInv(p, enque, target[p])'
    BY <1>4, <1>c DEF RefuseEnque, Return, LoopInv, TypeOK
  <2>2. QED BY <1>4, <1>c, <2>1, LocalStep DEF RefuseEnque, Return, TypeOK
<1>5. QED BY <1>1, <1>2, <1>3, <1>4

\* The same of tryDeque.
LEMMA ConsumerLocalStep ==
    ASSUME IInv, TypeOK', NEW c \in Consumers,
           BeginDeque(c) \/ LoadForDeque(c) \/ RetryDeque(c) \/ RefuseDeque(c)
    PROVE  IInv'
<1>c. c \in Thread /\ c \notin Producers /\ TypeOK /\ MaxLag \in Nat
  BY QueueAssumption DEF Thread, IInv
<1>1. CASE BeginDeque(c)
  <2>1. LoopInv(c, deque, target[c] + 1)'
    BY <1>1, <1>c DEF BeginDeque, LoadCounter, LoopInv, TypeOK
  <2>2. QED BY <1>1, <1>c, <2>1, LocalStep DEF BeginDeque, LoadCounter, TypeOK
<1>2. CASE LoadForDeque(c)
  <2>1. /\ pc[c] = "loaded" /\ target[c] \in Nat
        /\ target[c] <= deque /\ deque <= target[c] + MaxLag
    BY <1>2, <1>c DEF LoadForDeque, LoadSequence, IInv, ConsumerInv, LoopInv, TypeOK
  <2>2. Difference(sequence[Slot(target[c])], target[c] + 1)
           = sequence[Slot(target[c])] - (target[c] + 1)
    BY <1>c, <2>1, LoadedDelta DEF IInv
  <2>3. sequence[Slot(target[c])] \in Nat
    BY <1>c, <2>1, SlotFacts DEF TypeOK
  <2>4. delta'[c] = sequence[Slot(target[c])] - (target[c] + 1)
    BY <1>2, <1>c, <2>2 DEF LoadForDeque, LoadSequence, TypeOK
  <2>5. LoopInv(c, deque, target[c] + 1)'
    BY <1>2, <2>1, <2>3, <2>4 DEF LoadForDeque, LoadSequence, LoopInv
  <2>6. QED BY <1>2, <1>c, <2>5, LocalStep DEF LoadForDeque, LoadSequence, TypeOK
<1>3. CASE RetryDeque(c)
  <2>1. LoopInv(c, deque, target[c] + 1)'
    BY <1>3, <1>c DEF RetryDeque, LoadCounter, LoopInv, TypeOK
  <2>2. QED BY <1>3, <1>c, <2>1, LocalStep DEF RetryDeque, LoadCounter, TypeOK
<1>4. CASE RefuseDeque(c)
  <2>1. LoopInv(c, deque, target[c] + 1)'
    BY <1>4, <1>c DEF RefuseDeque, Return, LoopInv, TypeOK
  <2>2. QED BY <1>4, <1>c, <2>1, LocalStep DEF RefuseDeque, Return, TypeOK
<1>5. QED BY <1>1, <1>2, <1>3, <1>4

-----------------------------------------------------------------------------

\* Handing out a ticket: the slot turns from free-and-unissued to claimed.
LEMMA ClaimEnqueStep ==
    ASSUME Capacity > 1, IInv, TypeOK', NEW p \in Producers, ClaimEnque(p)
    PROVE  IInv'
<1>c. /\ p \in Thread /\ p \notin Consumers /\ TypeOK /\ MaxLag \in Nat
      /\ Capacity \in Nat /\ enque \in Nat /\ deque \in Nat /\ target[p] \in Nat
      /\ MaxLag < Half /\ Half \in Nat
  BY QueueAssumption DEF Thread, IInv, TypeOK, Half
<1>1. /\ target[p] <= enque /\ enque <= target[p] + MaxLag
      /\ target[p] <= sequence[Slot(target[p])]
  BY DEF IInv, ProducerInv, LoopInv, ClaimEnque, Fits
<1>2. target[p] = enque
  <2>1. Difference(enque, target[p]) = enque - target[p]
    BY <1>c, <1>1, DifferenceExact
  <2>2. QED BY <1>c, <2>1 DEF ClaimEnque, SameWord
<1>3. /\ sequence[Slot(enque)] = enque
      /\ FreeFor(Slot(enque))
      /\ enque < deque + Capacity
  BY <1>1, <1>2, ClaimableSlot DEF IInv
<1>4. Bounded'
  BY <1>c, <1>3 DEF IInv, Bounded, ClaimEnque
<1>5. ASSUME NEW s \in Slots
      PROVE  /\ FreeFor(s)' <=> FreeFor(s)
             /\ FilledBy(s) => FilledBy(s)'
             /\ FilledBy(s)' => FilledBy(s) \/ s = Slot(enque)
  <2>1. sequence[s] \in Nat
    BY DEF IInv, TypeOK
  <2>2. FilledBy(s) => sequence[s] # enque + 1 - Capacity
    <3>1. SUFFICES ASSUME FilledBy(s), sequence[s] = enque + 1 - Capacity
                   PROVE  FALSE
      OBVIOUS
    <3>2. sequence[s] - 1 \in Nat /\ sequence[s] - 1 + Capacity = enque
      BY <1>c, <2>1, <3>1 DEF FilledBy
    <3>3. Slot(enque) = s
      BY <3>1, <3>2, SlotFacts DEF FilledBy
    <3>4. QED BY <1>c, <1>3, <3>1, <3>3
  <2>3. FilledBy(s)' /\ sequence[s] = enque + 1 => s = Slot(enque)
    BY <1>c DEF FilledBy, ClaimEnque
  <2>4. QED BY <1>c, <2>1, <2>2, <2>3 DEF FreeFor, FilledBy, ClaimEnque
<1>6. SlotPhase'
  BY <1>5 DEF IInv, SlotPhase
<1>7. CellPhase'
  <2>1. SUFFICES ASSUME NEW s \in Slots
                 PROVE  (/\ FreeFor(s) /\ enque <= sequence[s] => buffer[s] = NoItem
                         /\ FilledBy(s) /\ deque < sequence[s] => buffer[s] # NoItem)'
    BY DEF CellPhase
  <2>2. (FreeFor(s) /\ enque <= sequence[s] => buffer[s] = NoItem)'
    BY <1>c, <1>5 DEF IInv, CellPhase, ClaimEnque, TypeOK
  <2>3. FilledBy(s)' => s # Slot(enque)
    <3>1. SUFFICES ASSUME FilledBy(s)', s = Slot(enque) PROVE FALSE
      OBVIOUS
    <3>2. enque > 0 /\ Slot(enque - 1) = Slot(enque)
      BY <1>c, <1>3, <3>1 DEF FilledBy, ClaimEnque
    <3>3. enque - 1 = enque
      BY <1>c, <3>2, SlotInjective
    <3>4. QED BY <1>c, <3>3
  <2>4. (FilledBy(s) /\ deque < sequence[s] => buffer[s] # NoItem)'
    <3>1. FilledBy(s)' => FilledBy(s)
      BY <1>5, <2>3
    <3>2. QED BY <3>1 DEF IInv, CellPhase, ClaimEnque
  <2>5. QED BY <2>2, <2>4
<1>8. ProducerInv'
  <2>1. SUFFICES ASSUME NEW q \in Producers
                 PROVE  (/\ LoopInv(q, enque, target[q])
                         /\ ClaimInv(q, enque, target[q])
                         /\ pc[q] # "idle" => item[q] \in Value
                         /\ pc[q] = "claimed" => buffer[Slot(target[q])] = NoItem
                         /\ pc[q] = "stored" => buffer[Slot(target[q])] # NoItem)'
    BY DEF ProducerInv
  <2>2. CASE q = p
    <3>1. pc'[p] = "claimed" /\ target'[p] = enque /\ item'[p] = item[p]
      BY <1>c, <1>2 DEF ClaimEnque, TypeOK
    <3>2. buffer[Slot(enque)] = NoItem
      BY <1>c, <1>3, SlotFacts DEF IInv, CellPhase
    <3>3. item[p] \in Value
      BY DEF IInv, ProducerInv, ClaimEnque
    <3>4. QED BY <1>c, <1>3, <2>2, <3>1, <3>2, <3>3
              DEF ClaimEnque, LoopInv, ClaimInv, InSlot
  <2>3. CASE q # p
    <3>1. pc'[q] = pc[q] /\ target'[q] = target[q] /\ q \in Thread /\ target[q] \in Nat
      BY <1>c, <2>3 DEF ClaimEnque, TypeOK, Thread
    <3>2. LoopInv(q, enque, target[q])'
      BY <1>c, <2>3, <3>1 DEF IInv, ProducerInv, LoopInv, ClaimEnque, Overtakes, Looping
    <3>3. QED BY <1>c, <3>1, <3>2 DEF IInv, ProducerInv, ClaimInv, InSlot, ClaimEnque
  <2>4. QED BY <2>2, <2>3
<1>9. ConsumerInv'
  <2>1. \A c \in Consumers : pc'[c] = pc[c]
    BY <1>c DEF ClaimEnque, TypeOK, Thread
  <2>2. QED BY <2>1 DEF IInv, ConsumerInv, LoopInv, ClaimInv, InSlot, ClaimEnque, Thread
<1>10. OneOwner(Producers)'
  <2>1. \A q \in Producers \ {p} : q \in InSlot' => q \in InSlot /\ target[q] < enque
    BY <1>c DEF IInv, ProducerInv, ClaimInv, InSlot, ClaimEnque, TypeOK
  <2>2. QED BY <1>c, <1>2, <2>1 DEF IInv, OneOwner, ClaimEnque, InSlot, TypeOK
<1>11. OneOwner(Consumers)'
  BY <1>c DEF IInv, OneOwner, InSlot, ClaimEnque, TypeOK
<1>12. QED BY <1>4, <1>6, <1>7, <1>8, <1>9, <1>10, <1>11 DEF IInv

\* Handing out a filled slot: only the consumer side changes.
LEMMA ClaimDequeStep ==
    ASSUME Capacity > 1, IInv, TypeOK', NEW c \in Consumers, ClaimDeque(c)
    PROVE  IInv'
<1>c. /\ c \in Thread /\ c \notin Producers /\ TypeOK /\ MaxLag \in Nat
      /\ Capacity \in Nat /\ enque \in Nat /\ deque \in Nat /\ target[c] \in Nat
      /\ MaxLag < Half /\ Half \in Nat
  BY QueueAssumption DEF Thread, IInv, TypeOK, Half
<1>1. /\ target[c] <= deque /\ deque <= target[c] + MaxLag
      /\ target[c] + 1 <= sequence[Slot(target[c])]
  BY DEF IInv, ConsumerInv, LoopInv, ClaimDeque, Fits
<1>2. target[c] = deque
  <2>1. Difference(deque, target[c]) = deque - target[c]
    BY <1>c, <1>1, DifferenceExact
  <2>2. QED BY <1>c, <2>1 DEF ClaimDeque, SameWord
<1>3. /\ sequence[Slot(deque)] = deque + 1
      /\ FilledBy(Slot(deque))
      /\ deque < enque
  BY <1>1, <1>2, TakeableSlot DEF IInv
<1>4. Bounded'
  BY <1>c, <1>3 DEF IInv, Bounded, ClaimDeque
<1>5. ASSUME NEW s \in Slots
      PROVE  /\ FilledBy(s)' <=> FilledBy(s)
             /\ FreeFor(s) => FreeFor(s)'
             /\ FreeFor(s)' /\ ~FreeFor(s) => FALSE
  <2>1. sequence[s] \in Nat
    BY DEF IInv, TypeOK
  <2>2. FreeFor(s) => sequence[s] # deque
    <3>1. SUFFICES ASSUME FreeFor(s), sequence[s] = deque PROVE FALSE
      OBVIOUS
    <3>2. Slot(deque) = s
      BY <3>1 DEF FreeFor
    <3>3. QED BY <1>c, <1>3, <3>1, <3>2
  <2>3. FreeFor(s)' => sequence[s] # deque + Capacity
    <3>1. SUFFICES ASSUME FreeFor(s)', sequence[s] = deque + Capacity PROVE FALSE
      OBVIOUS
    <3>2. Slot(deque) = s
      BY <1>c, <3>1, SlotFacts DEF FreeFor, ClaimDeque
    <3>3. QED BY <1>c, <1>3, <3>1, <3>2
  <2>4. QED BY <1>c, <2>1, <2>2, <2>3 DEF FreeFor, FilledBy, ClaimDeque
<1>6. SlotPhase'
  BY <1>5 DEF IInv, SlotPhase
<1>7. CellPhase'
  <2>1. SUFFICES ASSUME NEW s \in Slots
                 PROVE  (/\ FreeFor(s) /\ enque <= sequence[s] => buffer[s] = NoItem
                         /\ FilledBy(s) /\ deque < sequence[s] => buffer[s] # NoItem)'
    BY DEF CellPhase
  <2>2. sequence[s] \in Nat
    BY DEF IInv, TypeOK
  <2>3. QED BY <1>c, <1>5, <2>2 DEF IInv, CellPhase, ClaimDeque
<1>8. ConsumerInv'
  <2>1. SUFFICES ASSUME NEW d \in Consumers
                 PROVE  (/\ LoopInv(d, deque, target[d] + 1)
                         /\ ClaimInv(d, deque, target[d] + 1)
                         /\ pc[d] = "claimed" => buffer[Slot(target[d])] # NoItem
                         /\ pc[d] = "stored" => buffer[Slot(target[d])] = NoItem)'
    BY DEF ConsumerInv
  <2>2. CASE d = c
    <3>1. pc'[c] = "claimed" /\ target'[c] = deque
      BY <1>c, <1>2 DEF ClaimDeque, TypeOK
    <3>2. buffer[Slot(deque)] # NoItem
      BY <1>c, <1>3, SlotFacts DEF IInv, CellPhase
    <3>3. QED BY <1>c, <1>3, <2>2, <3>1, <3>2 DEF ClaimDeque, LoopInv, ClaimInv, InSlot
  <2>3. CASE d # c
    <3>1. pc'[d] = pc[d] /\ target'[d] = target[d] /\ d \in Thread /\ target[d] \in Nat
      BY <1>c, <2>3 DEF ClaimDeque, TypeOK, Thread
    <3>2. LoopInv(d, deque, target[d] + 1)'
      BY <1>c, <2>3, <3>1 DEF IInv, ConsumerInv, LoopInv, ClaimDeque, Overtakes, Looping
    <3>3. QED BY <1>c, <3>1, <3>2 DEF IInv, ConsumerInv, ClaimInv, InSlot, ClaimDeque
  <2>4. QED BY <2>2, <2>3
<1>9. ProducerInv'
  <2>1. \A p \in Producers : pc'[p] = pc[p]
    BY <1>c DEF ClaimDeque, TypeOK, Thread
  <2>2. QED BY <2>1 DEF IInv, ProducerInv, LoopInv, ClaimInv, InSlot, ClaimDeque, Thread
<1>10. OneOwner(Consumers)'
  <2>1. \A d \in Consumers \ {c} : d \in InSlot' => d \in InSlot /\ target[d] < deque
    BY <1>c DEF IInv, ConsumerInv, ClaimInv, InSlot, ClaimDeque, TypeOK
  <2>2. QED BY <1>c, <1>2, <2>1 DEF IInv, OneOwner, ClaimDeque, InSlot, TypeOK
<1>11. OneOwner(Producers)'
  BY <1>c DEF IInv, OneOwner, InSlot, ClaimDeque, TypeOK
<1>12. QED BY <1>4, <1>6, <1>7, <1>8, <1>9, <1>10, <1>11 DEF IInv

\* The slots of two threads inside their slots differ: what the invariant says
\* of tickets carries over to cells.
LEMMA Exclusive == Capacity > 1 /\ IInv => SlotExclusive
<1> SUFFICES ASSUME Capacity > 1, IInv, NEW t \in InSlot, NEW u \in InSlot,
                    Slot(target[t]) = Slot(target[u])
             PROVE  t = u
  BY DEF SlotExclusive
<1>1. /\ target[t] \in Nat /\ target[u] \in Nat /\ t \in Thread /\ u \in Thread
      /\ Capacity \in Nat
  BY CapacityType DEF IInv, TypeOK, InSlot
<1>2. CASE t \in Producers /\ u \in Producers
  BY <1>2 DEF IInv, ProducerInv, ClaimInv, OneOwner
<1>3. CASE t \in Consumers /\ u \in Consumers
  <2>1. target[t] + 1 = target[u] + 1
    BY <1>3 DEF IInv, ConsumerInv, ClaimInv
  <2>2. QED BY <1>1, <1>3, <2>1 DEF IInv, OneOwner
<1>4. ASSUME NEW p \in Producers \cap InSlot, NEW c \in Consumers \cap InSlot,
             Slot(target[p]) = Slot(target[c])
      PROVE  FALSE
  <2>1. target[p] \in Nat /\ target[c] \in Nat
    BY DEF IInv, TypeOK, InSlot
  <2>2. target[p] = target[c] + 1
    BY <1>4 DEF IInv, ProducerInv, ConsumerInv, ClaimInv
  <2>3. target[p] = target[c]
    BY <1>1, <1>4, <2>1, <2>2, SlotInjective
  <2>4. QED BY <2>1, <2>2, <2>3
<1>5. QED BY <1>1, <1>2, <1>3, <1>4 DEF Thread

\* Filling the cell of a claimed, free slot disturbs no other slot.
LEMMA WriteItemStep ==
    ASSUME Capacity > 1, IInv, TypeOK', NEW p \in Producers, WriteItem(p)
    PROVE  IInv'
<1> DEFINE s == Slot(target[p])
<1>c. /\ p \in Thread /\ p \notin Consumers /\ TypeOK
      /\ Capacity \in Nat /\ enque \in Nat /\ deque \in Nat
      /\ target[p] \in Nat /\ p \in InSlot /\ s \in Slots
  BY QueueAssumption, SlotFacts DEF Thread, IInv, TypeOK, WriteItem, InSlot
<1>1. /\ sequence[s] = target[p] /\ target[p] < enque
      /\ item[p] \in Value /\ item[p] # NoItem
  BY <1>c, QueueAssumption DEF IInv, ProducerInv, ClaimInv, WriteItem
<1>2. \A u \in InSlot \ {p} : Slot(target[u]) # s
  BY <1>c, Exclusive DEF SlotExclusive
<1>3. /\ buffer'[s] = item[p]
      /\ \A r \in Slots \ {s} : buffer'[r] = buffer[r]
      /\ pc'[p] = "stored"
      /\ \A u \in Thread \ {p} : pc'[u] = pc[u]
      /\ InSlot' = InSlot
  BY <1>c DEF WriteItem, TypeOK, InSlot
<1>4. ~FilledBy(s)
  <2>1. SUFFICES ASSUME FilledBy(s) PROVE FALSE
    OBVIOUS
  <2>2. target[p] - 1 \in Nat /\ Slot(target[p] - 1) = Slot(target[p])
    BY <1>c, <1>1, <2>1 DEF FilledBy
  <2>3. target[p] - 1 = target[p]
    BY <1>c, <2>2, SlotInjective
  <2>4. QED BY <1>c, <2>3
<1>5. Bounded' /\ SlotPhase' /\ OneOwner(Producers)' /\ OneOwner(Consumers)'
  BY <1>3 DEF IInv, Bounded, SlotPhase, FreeFor, FilledBy, OneOwner, WriteItem
<1>6. CellPhase'
  <2>1. SUFFICES ASSUME NEW r \in Slots
                 PROVE  (/\ FreeFor(r) /\ enque <= sequence[r] => buffer[r] = NoItem
                         /\ FilledBy(r) /\ deque < sequence[r] => buffer[r] # NoItem)'
    BY DEF CellPhase
  <2>2. CASE r = s
    BY <1>c, <1>1, <1>4, <2>2 DEF FilledBy, WriteItem
  <2>3. CASE r # s
    BY <1>3, <2>3 DEF IInv, CellPhase, FreeFor, FilledBy, WriteItem
  <2>4. QED BY <2>2, <2>3
<1>7. ASSUME NEW u \in Thread \ {p}
      PROVE  pc[u] \in {"claimed", "stored"} =>
                 buffer'[Slot(target[u])] = buffer[Slot(target[u])]
  BY <1>2, <1>3, SlotFacts DEF IInv, TypeOK, InSlot
<1>8. ProducerInv'
  <2>1. SUFFICES ASSUME NEW q \in Producers
                 PROVE  (/\ LoopInv(q, enque, target[q])
                         /\ ClaimInv(q, enque, target[q])
                         /\ pc[q] # "idle" => item[q] \in Value
                         /\ pc[q] = "claimed" => buffer[Slot(target[q])] = NoItem
                         /\ pc[q] = "stored" => buffer[Slot(target[q])] # NoItem)'
    BY DEF ProducerInv
  <2>2. CASE q = p
    BY <1>c, <1>1, <1>3, <2>2 DEF WriteItem, LoopInv, ClaimInv
  <2>3. CASE q # p
    BY <1>3, <1>7, <2>3 DEF IInv, ProducerInv, LoopInv, ClaimInv, WriteItem, Thread
  <2>4. QED BY <2>2, <2>3
<1>9. ConsumerInv'
  BY <1>c, <1>3, <1>7 DEF IInv, ConsumerInv, LoopInv, ClaimInv, WriteItem, Thread
<1>10. QED BY <1>5, <1>6, <1>8, <1>9 DEF IInv

\* Emptying the cell of a claimed, filled slot disturbs no other slot.
LEMMA TakeItemStep ==
    ASSUME Capacity > 1, IInv, TypeOK', NEW c \in Consumers, TakeItem(c)
    PROVE  IInv'
<1> DEFINE s == Slot(target[c])
<1>c. /\ c \in Thread /\ c \notin Producers /\ TypeOK
      /\ Capacity \in Nat /\ enque \in Nat /\ deque \in Nat
      /\ target[c] \in Nat /\ c \in InSlot /\ s \in Slots
  BY QueueAssumption, SlotFacts DEF Thread, IInv, TypeOK, TakeItem, InSlot
<1>1. sequence[s] = target[c] + 1 /\ target[c] < deque
  BY <1>c DEF IInv, ConsumerInv, ClaimInv
<1>2. \A u \in InSlot \ {c} : Slot(target[u]) # s
  BY <1>c, Exclusive DEF SlotExclusive
<1>3. /\ buffer'[s] = NoItem
      /\ \A r \in Slots \ {s} : buffer'[r] = buffer[r]
      /\ pc'[c] = "stored"
      /\ \A u \in Thread \ {c} : pc'[u] = pc[u] /\ item'[u] = item[u]
      /\ InSlot' = InSlot
  BY <1>c DEF TakeItem, TypeOK, InSlot
<1>5. Bounded' /\ SlotPhase' /\ OneOwner(Producers)' /\ OneOwner(Consumers)'
  BY <1>3 DEF IInv, Bounded, SlotPhase, FreeFor, FilledBy, OneOwner, TakeItem
<1>6. CellPhase'
  <2>1. SUFFICES ASSUME NEW r \in Slots
                 PROVE  (/\ FreeFor(r) /\ enque <= sequence[r] => buffer[r] = NoItem
                         /\ FilledBy(r) /\ deque < sequence[r] => buffer[r] # NoItem)'
    BY DEF CellPhase
  <2>2. CASE r = s
    BY <1>c, <1>1, <1>3, <2>2 DEF FilledBy, TakeItem
  <2>3. CASE r # s
    BY <1>3, <2>3 DEF IInv, CellPhase, FreeFor, FilledBy, TakeItem
  <2>4. QED BY <2>2, <2>3
<1>7. ASSUME NEW u \in Thread \ {c}
      PROVE  pc[u] \in {"claimed", "stored"} =>
                 buffer'[Slot(target[u])] = buffer[Slot(target[u])]
  BY <1>2, <1>3, SlotFacts DEF IInv, TypeOK, InSlot
<1>8. ConsumerInv'
  <2>1. SUFFICES ASSUME NEW d \in Consumers
                 PROVE  (/\ LoopInv(d, deque, target[d] + 1)
                         /\ ClaimInv(d, deque, target[d] + 1)
                         /\ pc[d] = "claimed" => buffer[Slot(target[d])] # NoItem
                         /\ pc[d] = "stored" => buffer[Slot(target[d])] = NoItem)'
    BY DEF ConsumerInv
  <2>2. CASE d = c
    BY <1>c, <1>1, <1>3, <2>2 DEF TakeItem, LoopInv, ClaimInv
  <2>3. CASE d # c
    BY <1>3, <1>7, <2>3 DEF IInv, ConsumerInv, LoopInv, ClaimInv, TakeItem, Thread
  <2>4. QED BY <2>2, <2>3
<1>9. ProducerInv'
  BY <1>c, <1>3, <1>7 DEF IInv, ProducerInv, LoopInv, ClaimInv, TakeItem, Thread
<1>10. QED BY <1>5, <1>6, <1>8, <1>9 DEF IInv

\* A release store moves one slot, the storing thread's own, forward, and ends
\* that thread's claim; every other thread knows as much as before.
LEMMA StoreSequenceStep ==
    ASSUME Capacity > 1, IInv, TypeOK', NEW t \in InSlot, NEW s \in Slots, NEW q \in Nat,
           s = Slot(target[t]), sequence[s] <= q,
           sequence' = [sequence EXCEPT ![s] = q],
           UNCHANGED <<enque, deque, buffer, item>>,
           Return(t),
           (FreeFor(s) \/ FilledBy(s))',
           (FreeFor(s) /\ enque <= sequence[s] => buffer[s] = NoItem)',
           (FilledBy(s) /\ deque < sequence[s] => buffer[s] # NoItem)'
    PROVE  IInv'
<1>c. /\ t \in Thread /\ TypeOK /\ enque \in Nat /\ deque \in Nat
      /\ sequence \in [Slots -> Nat]
  BY DEF IInv, TypeOK, InSlot
<1>1. /\ sequence'[s] = q
      /\ \A r \in Slots \ {s} : sequence'[r] = sequence[r]
      /\ \A r \in Slots : sequence[r] <= sequence'[r]
  BY <1>c
<1>2. /\ pc'[t] = "idle"
      /\ \A u \in Thread \ {t} :
             pc'[u] = pc[u] /\ target'[u] = target[u] /\ delta'[u] = delta[u]
      /\ InSlot' = InSlot \ {t}
  BY <1>c DEF Return, TypeOK, InSlot
<1>3. \A u \in InSlot \ {t} : Slot(target[u]) # s
  BY Exclusive DEF SlotExclusive
<1>4. Bounded'
  BY DEF IInv, Bounded
<1>5. SlotPhase' /\ CellPhase'
  <2>1. SUFFICES ASSUME NEW r \in Slots
                 PROVE  (/\ FreeFor(r) \/ FilledBy(r)
                         /\ FreeFor(r) /\ enque <= sequence[r] => buffer[r] = NoItem
                         /\ FilledBy(r) /\ deque < sequence[r] => buffer[r] # NoItem)'
    BY DEF SlotPhase, CellPhase
  <2>2. CASE r = s
    BY <2>2
  <2>3. CASE r # s
    BY <1>1, <2>3 DEF IInv, SlotPhase, CellPhase, FreeFor, FilledBy
  <2>4. QED BY <2>2, <2>3
<1>6. ASSUME NEW u \in Thread \ {t}
      PROVE  /\ Slot(target[u]) \in Slots
             /\ sequence[Slot(target[u])] <= sequence'[Slot(target[u])]
             /\ u \in InSlot => sequence'[Slot(target[u])] = sequence[Slot(target[u])]
  <2>1. Slot(target[u]) \in Slots
    BY <1>c, SlotFacts DEF TypeOK
  <2>2. QED BY <1>1, <1>3, <2>1
<1>7. ASSUME NEW u \in Thread \ {t}, NEW counter \in Nat, NEW needed \in Nat,
             LoopInv(u, counter, needed), ClaimInv(u, counter, needed)
      PROVE  /\ pc'[u] \in {"loaded", "compared"} =>
                    /\ target'[u] <= counter
                    /\ counter <= target'[u] + MaxLag
                    /\ pc'[u] = "compared" /\ delta'[u] = 0 =>
                           needed <= sequence'[Slot(target'[u])]
             /\ u \in InSlot' =>
                    target'[u] < counter /\ sequence'[Slot(target'[u])] = needed
  <2>1. sequence[Slot(target[u])] \in Nat /\ sequence'[Slot(target[u])] \in Nat
    BY <1>c, <1>6 DEF TypeOK
  <2>2. QED BY <1>2, <1>6, <1>7, <2>1 DEF LoopInv, ClaimInv
<1>8. ProducerInv'
  <2>1. SUFFICES ASSUME NEW p \in Producers
                 PROVE  (/\ LoopInv(p, enque, target[p])
                         /\ ClaimInv(p, enque, target[p])
                         /\ pc[p] # "idle" => item[p] \in Value
                         /\ pc[p] = "claimed" => buffer[Slot(target[p])] = NoItem
                         /\ pc[p] = "stored" => buffer[Slot(target[p])] # NoItem)'
    BY DEF ProducerInv
  <2>2. CASE p = t
    BY <1>2, <2>2 DEF LoopInv, ClaimInv, InSlot
  <2>3. CASE p # t
    <3>1. p \in Thread \ {t} /\ target[p] \in Nat
      BY <1>c, <2>3 DEF TypeOK, Thread
    <3>2. LoopInv(p, enque, target[p]) /\ ClaimInv(p, enque, target[p])
      BY DEF IInv, ProducerInv
    <3>3. LoopInv(p, enque, target[p])' /\ ClaimInv(p, enque, target[p])'
      BY <1>c, <1>2, <1>7, <3>1, <3>2 DEF LoopInv, ClaimInv
    <3>4. QED BY <1>2, <3>1, <3>3 DEF IInv, ProducerInv
  <2>4. QED BY <2>2, <2>3
<1>9. ConsumerInv'
  <2>1. SUFFICES ASSUME NEW c \in Consumers
                 PROVE  (/\ LoopInv(c, deque, target[c] + 1)
                         /\ ClaimInv(c, deque, target[c] + 1)
                         /\ pc[c] = "claimed" => buffer[Slot(target[c])] # NoItem
                         /\ pc[c] = "stored" => buffer[Slot(target[c])] = NoItem)'
    BY DEF ConsumerInv
  <2>2. CASE c = t
    BY <1>2, <2>2 DEF LoopInv, ClaimInv, InSlot
  <2>3. CASE c # t
    <3>1. c \in Thread \ {t} /\ target[c] \in Nat
      BY <1>c, <2>3 DEF TypeOK, Thread
    <3>2. LoopInv(c, deque, target[c] + 1) /\ ClaimInv(c, deque, target[c] + 1)
      BY DEF IInv, ConsumerInv
    <3>3. LoopInv(c, deque, target[c] + 1)' /\ ClaimInv(c, deque, target[c] + 1)'
      BY <1>c, <1>2, <1>7, <3>1, <3>2 DEF LoopInv, ClaimInv
    <3>4. QED BY <1>2, <3>1, <3>3 DEF IInv, ConsumerInv
  <2>4. QED BY <2>2, <2>3
<1>10. OneOwner(Producers)' /\ OneOwner(Consumers)'
  <2>1. \A u \in InSlot' : u \in InSlot /\ u \in Thread /\ target'[u] = target[u]
    BY <1>2 DEF InSlot
  <2>2. QED BY <2>1 DEF IInv, OneOwner
<1>11. QED BY <1>4, <1>5, <1>8, <1>9, <1>10 DEF IInv

\* The producer's store turns its slot from claimed to filled.
LEMMA PublishStep ==
    ASSUME Capacity > 1, IInv, TypeOK', NEW p \in Producers, Publish(p)
    PROVE  IInv'
<1>c. /\ p \in Thread /\ TypeOK /\ Capacity \in Nat /\ enque \in Nat /\ deque \in Nat
      /\ target[p] \in Nat /\ p \in InSlot
  BY CapacityType DEF Thread, IInv, TypeOK, Publish, InSlot
<1>s. PICK s \in Slots : s = Slot(target[p])
  BY <1>c, SlotFacts
<1>q. PICK q \in Nat : q = target[p] + 1
  BY <1>c
<1>1. /\ sequence[s] = target[p] /\ target[p] < enque
      /\ buffer[s] # NoItem
  BY <1>c, <1>s DEF IInv, ProducerInv, ClaimInv, Publish
<1>2. /\ sequence' = [sequence EXCEPT ![s] = q]
      /\ UNCHANGED <<enque, deque, buffer, item>>
      /\ Return(p)
  BY <1>s, <1>q DEF Publish, Filled
<1>3. sequence'[s] = q
  BY <1>2 DEF IInv, TypeOK
<1>4. Slot(q) # s
  BY <1>c, <1>s, <1>q, SlotInjective
<1>5. enque - Capacity < q
  BY <1>c, <1>q, <1>1 DEF IInv, SlotPhase, FreeFor, FilledBy, Bounded
<1>6. FilledBy(s)'
  <2>1. q > 0 /\ q - 1 = target[p] /\ q <= enque
    BY <1>c, <1>q, <1>1
  <2>2. Slot(q - 1) = s
    BY <1>s, <2>1
  <2>3. QED BY <1>2, <1>3, <1>5, <2>1, <2>2 DEF FilledBy
<1>7. ~FreeFor(s)'
  BY <1>3, <1>4 DEF FreeFor
<1>8. sequence[s] <= q
  BY <1>c, <1>q, <1>1
<1>9. (FilledBy(s) /\ deque < sequence[s] => buffer[s] # NoItem)'
  BY <1>1, <1>2
<1>10. QED BY <1>c, <1>s, <1>2, <1>6, <1>7, <1>8, <1>9, StoreSequenceStep

\* The consumer's store turns its slot from claimed to free for the next lap.
LEMMA ReleaseStep ==
    ASSUME Capacity > 1, IInv, TypeOK', NEW c \in Consumers, Release(c)
    PROVE  IInv'
<1>c. /\ c \in Thread /\ TypeOK /\ Capacity \in Nat /\ enque \in Nat /\ deque \in Nat
      /\ target[c] \in Nat /\ c \in InSlot
  BY CapacityType DEF Thread, IInv, TypeOK, Release, InSlot
<1>s. PICK s \in Slots : s = Slot(target[c])
  BY <1>c, SlotFacts
<1>q. PICK q \in Nat : q = target[c] + Capacity
  BY <1>c
<1>1. /\ sequence[s] = target[c] + 1 /\ target[c] < deque
      /\ buffer[s] = NoItem
  BY <1>c, <1>s DEF IInv, ConsumerInv, ClaimInv, Release
<1>2. /\ sequence' = [sequence EXCEPT ![s] = q]
      /\ UNCHANGED <<enque, deque, buffer, item>>
      /\ Return(c)
  BY <1>s, <1>q DEF Release, NextLap
<1>3. sequence'[s] = q
  BY <1>2 DEF IInv, TypeOK
<1>4. ~FreeFor(s)
  <2>1. SUFFICES ASSUME FreeFor(s) PROVE FALSE
    OBVIOUS
  <2>2. Slot(target[c] + 1) = Slot(target[c])
    BY <1>s, <1>1, <2>1 DEF FreeFor
  <2>3. target[c] + 1 = target[c]
    BY <1>c, <2>2, SlotInjective
  <2>4. QED BY <1>c, <2>3
<1>5. enque <= q /\ deque <= q /\ q < deque + Capacity
  BY <1>c, <1>q, <1>1, <1>4 DEF IInv, SlotPhase, FilledBy, Bounded
<1>6. Slot(q) = s
  BY <1>c, <1>s, <1>q, SlotFacts
<1>7. FreeFor(s)'
  BY <1>2, <1>3, <1>5, <1>6 DEF FreeFor
<1>8. ~FilledBy(s)'
  <2>1. SUFFICES ASSUME FilledBy(s)' PROVE FALSE
    OBVIOUS
  <2>2. Slot(q - 1) = Slot(q) /\ q - 1 \in Nat
    BY <1>c, <1>q, <1>3, <1>6, <2>1 DEF FilledBy
  <2>3. q - 1 = q
    BY <1>c, <2>2, SlotInjective
  <2>4. QED BY <2>3
<1>9. sequence[s] <= q
  BY <1>c, <1>q, <1>1
<1>10. (FreeFor(s) /\ enque <= sequence[s] => buffer[s] = NoItem)'
  BY <1>1, <1>2
<1>11. QED BY <1>c, <1>s, <1>2, <1>7, <1>8, <1>9, <1>10, StoreSequenceStep

-----------------------------------------------------------------------------

\* The invariant is inductive.
LEMMA IndStep == Capacity > 1 /\ IInv /\ [Next]_vars => IInv'
<1> SUFFICES ASSUME Capacity > 1, IInv, [Next]_vars PROVE IInv'
  OBVIOUS
<1>1. TypeOK'
  BY TypeStep DEF IInv
<1>2. ASSUME NEW p \in Producers, EnqueStep(p) \/ \E v \in Value : BeginEnque(p, v)
      PROVE  IInv'
  BY <1>1, <1>2, ProducerLocalStep, ClaimEnqueStep, WriteItemStep, PublishStep
     DEF EnqueStep
<1>3. ASSUME NEW c \in Consumers, DequeStep(c) \/ BeginDeque(c)
      PROVE  IInv'
  BY <1>1, <1>3, ConsumerLocalStep, ClaimDequeStep, TakeItemStep, ReleaseStep
     DEF DequeStep
<1>4. CASE UNCHANGED vars
  BY <1>4 DEF vars, IInv, TypeOK, Bounded, SlotPhase, CellPhase, FreeFor, FilledBy,
              ProducerInv, ConsumerInv, LoopInv, ClaimInv, OneOwner, InSlot
<1>5. QED BY <1>2, <1>3, <1>4 DEF Next

\* With more than one slot, the invariant holds in every reachable state.
THEOREM Invariance == ASSUME Capacity > 1 PROVE Spec => []IInv
<1>1. Init => IInv
  BY IndInit
<1>2. IInv /\ [Next]_vars => IInv'
  BY IndStep
<1>3. QED BY <1>1, <1>2, PTL DEF Spec

\* No two threads are ever inside the same slot.
THEOREM SlotExclusion == ASSUME Capacity > 1 PROVE Spec => []SlotExclusive
<1>1. IInv => SlotExclusive
  BY Exclusive
<1>2. QED BY <1>1, Invariance, PTL

\* Nothing queued is overwritten and nothing is delivered twice.
THEOREM CellSafety == ASSUME Capacity > 1 PROVE Spec => []NoOverwrite
<1>1. IInv => NoOverwrite
  BY DEF IInv, ProducerInv, ConsumerInv, NoOverwrite
<1>2. QED BY <1>1, Invariance, PTL

\* At most Capacity tickets are outstanding, and none is taken unissued.
THEOREM Boundedness == ASSUME Capacity > 1 PROVE Spec => []Bounded
<1>1. IInv => Bounded
  BY DEF IInv
<1>2. QED BY <1>1, Invariance, PTL

-----------------------------------------------------------------------------
(* The ring implements a FIFO: the calls take effect at their              *)
(* compare-exchange, long before the value is in the slot or out of it.    *)

\* The abstract queue, and what each consumer has received.
Queued == [i \in 1 .. enque - deque |-> ValueOf(deque + i - 1)]
Received == [c \in Consumers |-> IF pc[c] = "claimed" THEN buffer[Slot(target[c])] ELSE item[c]]

\* A ticket has one holder, so its value does not depend on which is chosen.
LEMMA HeldValue ==
    ASSUME IInv, NEW p \in Producers, pc[p] = "claimed"
    PROVE  Holders(target[p]) = {p} /\ ValueOf(target[p]) = item[p]
<1>1. \A q \in Holders(target[p]) : q = p
  BY DEF IInv, OneOwner, Holders, InSlot, Thread
<1>2. Holders(target[p]) = {p}
  BY <1>1 DEF Holders
<1>3. QED BY <1>2 DEF ValueOf

LEMMA QueuedType ==
    ASSUME IInv
    PROVE  /\ Queued \in Seq(Value \cup {NoItem})
           /\ Len(Queued) = enque - deque /\ enque - deque \in Nat
           /\ \A i \in 1 .. enque - deque : Queued[i] = ValueOf(deque + i - 1)
<1>1. enque - deque \in Nat /\ deque \in Nat /\ enque \in Nat
  BY DEF IInv, TypeOK, Bounded
<1>2. ASSUME NEW k \in Nat PROVE ValueOf(k) \in Value \cup {NoItem}
  <2>1. CASE Holders(k) # {}
    <3>1. (CHOOSE q \in Holders(k) : TRUE) \in Producers
      BY <2>1 DEF Holders
    <3>2. QED BY <2>1, <3>1 DEF ValueOf, IInv, TypeOK, Thread
  <2>2. CASE Holders(k) = {}
    BY <2>2, SlotFacts DEF ValueOf, IInv, TypeOK
  <2>3. QED BY <2>1, <2>2
<1>3. \A i \in 1 .. enque - deque : deque + i - 1 \in Nat
  BY <1>1
<1>4. \A i \in 1 .. enque - deque : ValueOf(deque + i - 1) \in Value \cup {NoItem}
  BY <1>2, <1>3
<1> DEFINE n == enque - deque
           value(i) == ValueOf(deque + i - 1)
<1>5. Queued = [i \in 1 .. n |-> value(i)]
  BY DEF Queued
<1>6. n \in Nat /\ \A i \in 1 .. n : value(i) \in Value \cup {NoItem}
  BY <1>1, <1>4
<1> HIDE DEF value, n
<1>7. [i \in 1 .. n |-> value(i)] \in Seq(Value \cup {NoItem})
  BY <1>6, IsASeq
<1>8. Queued \in Seq(Value \cup {NoItem}) /\ Len(Queued) = n /\ \A i \in 1 .. n : Queued[i] = value(i)
  BY <1>5, <1>6, <1>7
<1>9. QED BY <1>6, <1>8 DEF n, value

\* Steps that leave the counters, the cells and the claimed calls alone cannot be
\* told from outside.
LEMMA LocalUnseen ==
    ASSUME enque' = enque, deque' = deque, buffer' = buffer,
           \A t \in Thread :
               /\ pc'[t] = "claimed" <=> pc[t] = "claimed"
               /\ pc[t] = "claimed" => target'[t] = target[t] /\ item'[t] = item[t]
               /\ t \in Consumers => item'[t] = item[t]
    PROVE  Queued' = Queued /\ Received' = Received
<1>1. ASSUME NEW k PROVE ValueOf(k)' = ValueOf(k)
  <2>1. Holders(k)' = Holders(k)
    BY DEF Holders, Thread
  <2>2. \A p \in Holders(k) : item'[p] = item[p]
    BY DEF Holders, Thread
  <2>3. CASE Holders(k) # {}
    <3>1. (CHOOSE q \in Holders(k) : TRUE) \in Holders(k)
      BY <2>3
    <3>2. QED BY <2>1, <2>2, <2>3, <3>1 DEF ValueOf
  <2>4. CASE Holders(k) = {}
    BY <2>1, <2>4 DEF ValueOf
  <2>5. QED BY <2>3, <2>4
<1>2. Queued' = Queued
  BY <1>1 DEF Queued
<1>3. Received' = Received
  BY DEF Received, Thread
<1>4. QED BY <1>2, <1>3

LEMMA LocalRefines ==
    ASSUME IInv,
           \/ \E p \in Producers :
                \/ LoadForEnque(p) \/ RetryEnque(p) \/ RefuseEnque(p) \/ Publish(p)
                \/ \E v \in Value : BeginEnque(p, v)
           \/ \E c \in Consumers :
                LoadForDeque(c) \/ RetryDeque(c) \/ RefuseDeque(c) \/ Release(c) \/ BeginDeque(c)
    PROVE  Queued' = Queued /\ Received' = Received
<1>1. TypeOK /\ Producers \cap Consumers = {}
  BY QueueAssumption DEF IInv
<1>2. ASSUME NEW p \in Producers,
             \/ LoadForEnque(p) \/ RetryEnque(p) \/ RefuseEnque(p) \/ Publish(p)
             \/ \E v \in Value : BeginEnque(p, v)
      PROVE  Queued' = Queued /\ Received' = Received
  <2>1. /\ enque' = enque /\ deque' = deque /\ buffer' = buffer
        /\ pc[p] # "claimed" /\ pc'[p] # "claimed"
        /\ \A t \in Thread \ {p} : pc'[t] = pc[t] /\ target'[t] = target[t] /\ item'[t] = item[t]
    BY <1>1, <1>2 DEF LoadForEnque, LoadSequence, RetryEnque, RefuseEnque, Publish,
         BeginEnque,
                      LoadCounter, Return, TypeOK, Thread
  <2>2. p \notin Consumers
    BY <1>1
  <2>3. QED BY <2>1, <2>2, LocalUnseen
<1>3. ASSUME NEW c \in Consumers,
             LoadForDeque(c) \/ RetryDeque(c) \/ RefuseDeque(c) \/ Release(c) \/ BeginDeque(c)
      PROVE  Queued' = Queued /\ Received' = Received
  <2>1. /\ enque' = enque /\ deque' = deque /\ buffer' = buffer /\ item' = item
        /\ pc[c] # "claimed" /\ pc'[c] # "claimed"
        /\ \A t \in Thread \ {c} : pc'[t] = pc[t] /\ target'[t] = target[t]
    BY <1>1, <1>3 DEF LoadForDeque, LoadSequence, RetryDeque, RefuseDeque, Release,
         BeginDeque,
                      LoadCounter, Return, TypeOK, Thread
  <2>2. QED BY <2>1, LocalUnseen
<1>4. QED BY <1>2, <1>3

\* A ticket that is out keeps its slot to itself.
LEMMA OutstandingSlot ==
    ASSUME IInv, NEW k \in deque .. enque - 1, NEW m \in deque .. enque - 1, Slot(k) = Slot(m)
    PROVE  k = m
<1>1. /\ deque \in Nat /\ enque \in Nat /\ Capacity \in Nat /\ enque <= deque + Capacity
      /\ k \in Nat /\ m \in Nat
  BY QueueAssumption DEF IInv, TypeOK, Bounded
<1>2. k - Capacity < m /\ m < k + Capacity
  BY <1>1
<1>3. QED BY <1>1, <1>2, SlotInjective

\* A producer in a slot holds a ticket that is out; a consumer in one holds a
\* ticket that the next lap has not reached.
LEMMA ProducersTicket ==
    ASSUME Capacity > 1, IInv, NEW p \in Producers, p \in InSlot
    PROVE  target[p] \in deque .. enque - 1
<1> DEFINE s == Slot(target[p])
<1>1. /\ enque \in Nat /\ deque \in Nat /\ target[p] \in Nat /\ s \in Slots /\ Capacity \in Nat
      /\ sequence[s] = target[p] /\ target[p] < enque
  BY SlotFacts, QueueAssumption DEF IInv, TypeOK, ProducerInv, ClaimInv, InSlot
<1>2. ~FilledBy(s)
  <2>1. SUFFICES ASSUME FilledBy(s) PROVE FALSE
    OBVIOUS
  <2>2. target[p] - 1 \in Nat /\ Slot(target[p] - 1) = Slot(target[p])
    BY <1>1, <2>1 DEF FilledBy
  <2>3. target[p] - 1 = target[p]
    BY <1>1, <2>2, SlotInjective
  <2>4. QED BY <1>1, <2>3
<1>3. FreeFor(s)
  BY <1>1, <1>2 DEF IInv, SlotPhase
<1>4. QED BY <1>1, <1>3 DEF FreeFor

LEMMA ConsumersTicket ==
    ASSUME Capacity > 1, IInv, NEW c \in Consumers, c \in InSlot
    PROVE  target[c] < deque /\ enque <= target[c] + Capacity
<1> DEFINE s == Slot(target[c])
<1>1. /\ enque \in Nat /\ deque \in Nat /\ target[c] \in Nat /\ s \in Slots /\ Capacity \in Nat
      /\ sequence[s] = target[c] + 1 /\ target[c] < deque
  BY SlotFacts, QueueAssumption DEF IInv, TypeOK, ConsumerInv, ClaimInv, InSlot
<1>2. ~FreeFor(s)
  <2>1. SUFFICES ASSUME FreeFor(s) PROVE FALSE
    OBVIOUS
  <2>2. Slot(target[c] + 1) = Slot(target[c])
    BY <1>1, <2>1 DEF FreeFor
  <2>3. target[c] + 1 = target[c]
    BY <1>1, <2>2, SlotInjective
  <2>4. QED BY <1>1, <2>3
<1>3. FilledBy(s)
  BY <1>1, <1>2 DEF IInv, SlotPhase
<1>4. QED BY <1>1, <1>3 DEF FilledBy

\* The value that is written into the slot was the ticket's before.
LEMMA WriteRefines ==
    ASSUME Capacity > 1, IInv, NEW p \in Producers, WriteItem(p)
    PROVE  Queued' = Queued /\ Received' = Received
<1> DEFINE s == Slot(target[p])
<1>c. /\ p \in Thread /\ p \notin Consumers /\ TypeOK
      /\ Capacity \in Nat /\ enque \in Nat /\ deque \in Nat
      /\ target[p] \in Nat /\ p \in InSlot /\ s \in Slots
  BY QueueAssumption, SlotFacts DEF Thread, IInv, TypeOK, WriteItem, InSlot
<1>1. sequence[s] = target[p] /\ target[p] < enque
  BY <1>c DEF IInv, ProducerInv, ClaimInv
<1>2. \A u \in InSlot \ {p} : Slot(target[u]) # s
  BY <1>c, Exclusive DEF SlotExclusive
<1>3. /\ buffer'[s] = item[p] /\ \A r \in Slots \ {s} : buffer'[r] = buffer[r]
      /\ pc[p] = "claimed" /\ pc'[p] = "stored"
      /\ \A u \in Thread \ {p} : pc'[u] = pc[u]
      /\ target' = target /\ item' = item /\ enque' = enque /\ deque' = deque
  BY <1>c DEF WriteItem, TypeOK
<1>4. target[p] \in deque .. enque - 1
  BY <1>c, ProducersTicket
<1>5. Holders(target[p]) = {p} /\ ValueOf(target[p]) = item[p]
  BY <1>3, HeldValue
<1>6. ASSUME NEW k \in deque .. enque - 1 PROVE ValueOf(k)' = ValueOf(k)
  <2>1. CASE k = target[p]
    <3>1. Holders(k)' = {}
      BY <1>3, <1>5, <2>1 DEF Holders, Thread
    <3>2. QED BY <1>3, <1>5, <2>1, <3>1 DEF ValueOf
  <2>2. CASE k # target[p]
    <3>1. Slot(k) # s
      BY <1>4, <2>2, OutstandingSlot
    <3>2. Slot(k) \in Slots
      BY <1>c, SlotFacts
    <3>3. Holders(k)' = Holders(k)
      BY <1>3, <2>2 DEF Holders, Thread
    <3>4. QED BY <1>3, <3>1, <3>2, <3>3 DEF ValueOf
  <2>3. QED BY <2>1, <2>2
<1>7. Queued' = Queued
  <2>1. \A i \in 1 .. enque - deque : deque + i - 1 \in deque .. enque - 1
    BY <1>c
  <2>2. QED BY <1>3, <1>6, <2>1 DEF Queued
<1>8. Received' = Received
  <2>1. ASSUME NEW c \in Consumers
        PROVE  /\ pc'[c] = pc[c]
               /\ pc[c] = "claimed" => buffer'[Slot(target[c])] = buffer[Slot(target[c])]
    <3>1. c \in Thread \ {p} /\ target[c] \in Nat
      BY <1>c DEF Thread, TypeOK
    <3>2. QED BY <1>2, <1>3, <3>1, SlotFacts DEF InSlot
  <2>2. QED BY <1>3, <2>1 DEF Received
<1>9. QED BY <1>7, <1>8

\* Emptying a slot loses nothing that is queued.
LEMMA TakeRefines ==
    ASSUME Capacity > 1, IInv, NEW c \in Consumers, TakeItem(c)
    PROVE  Queued' = Queued /\ Received' = Received
<1> DEFINE s == Slot(target[c])
<1>c. /\ c \in Thread /\ c \notin Producers /\ TypeOK
      /\ Capacity \in Nat /\ enque \in Nat /\ deque \in Nat
      /\ target[c] \in Nat /\ c \in InSlot /\ s \in Slots
  BY QueueAssumption, SlotFacts DEF Thread, IInv, TypeOK, TakeItem, InSlot
<1>1. sequence[s] = target[c] + 1 /\ target[c] < deque
  BY <1>c DEF IInv, ConsumerInv, ClaimInv
<1>2. \A u \in InSlot \ {c} : Slot(target[u]) # s
  BY <1>c, Exclusive DEF SlotExclusive
<1>3. /\ \A r \in Slots \ {s} : buffer'[r] = buffer[r]
      /\ pc[c] = "claimed" /\ pc'[c] = "stored" /\ item'[c] = buffer[s]
      /\ \A u \in Thread \ {c} : pc'[u] = pc[u] /\ item'[u] = item[u]
      /\ target' = target /\ enque' = enque /\ deque' = deque
  BY <1>c DEF TakeItem, TypeOK
<1>4. enque <= target[c] + Capacity
  BY <1>c, ConsumersTicket
<1>5. ASSUME NEW k \in deque .. enque - 1 PROVE ValueOf(k)' = ValueOf(k)
  <2>1. Slot(k) # s
    <3>1. SUFFICES ASSUME Slot(k) = s PROVE FALSE
      OBVIOUS
    <3>2. k \in Nat /\ k - Capacity < target[c] /\ target[c] < k + Capacity /\ k # target[c]
      BY <1>c, <1>1, <1>4
    <3>3. QED BY <1>c, <3>1, <3>2, SlotInjective
  <2>2. Slot(k) \in Slots
    BY <1>c, SlotFacts
  <2>3. Holders(k)' = Holders(k) /\ \A p \in Holders(k) : item'[p] = item[p]
    BY <1>c, <1>3 DEF Holders, Thread
  <2>4. CASE Holders(k) # {}
    <3>1. (CHOOSE q \in Holders(k) : TRUE) \in Holders(k)
      BY <2>4
    <3>2. QED BY <2>3, <2>4, <3>1 DEF ValueOf
  <2>5. CASE Holders(k) = {}
    BY <1>3, <2>1, <2>2, <2>3, <2>5 DEF ValueOf
  <2>6. QED BY <2>4, <2>5
<1>6. Queued' = Queued
  <2>1. \A i \in 1 .. enque - deque : deque + i - 1 \in deque .. enque - 1
    BY <1>c
  <2>2. QED BY <1>3, <1>5, <2>1 DEF Queued
<1>7. Received' = Received
  <2>1. ASSUME NEW d \in Consumers \ {c}
        PROVE  /\ pc'[d] = pc[d] /\ item'[d] = item[d]
               /\ pc[d] = "claimed" => buffer'[Slot(target[d])] = buffer[Slot(target[d])]
    <3>1. d \in Thread \ {c} /\ target[d] \in Nat
      BY <1>c DEF Thread, TypeOK
    <3>2. QED BY <1>2, <1>3, <3>1, SlotFacts DEF InSlot
  <2>2. QED BY <1>3, <2>1 DEF Received
<1>8. QED BY <1>6, <1>7

\* The compare-exchange of a producer puts its value at the end of the queue.
LEMMA ClaimEnqueRefines ==
    ASSUME Capacity > 1, IInv, IInv', NEW p \in Producers, ClaimEnque(p)
    PROVE  /\ item[p] \in Value /\ Len(Queued) < Capacity
           /\ Queued' = Append(Queued, item[p]) /\ Received' = Received
<1>c. /\ p \in Thread /\ p \notin Consumers /\ TypeOK /\ MaxLag \in Nat
      /\ Capacity \in Nat /\ enque \in Nat /\ deque \in Nat /\ target[p] \in Nat
      /\ MaxLag < Half /\ Half \in Nat
  BY QueueAssumption DEF Thread, IInv, TypeOK, Half
<1>1. target[p] <= enque /\ enque <= target[p] + MaxLag
  BY DEF IInv, ProducerInv, LoopInv, ClaimEnque
<1>2. target[p] = enque
  <2>1. Difference(enque, target[p]) = enque - target[p]
    BY <1>c, <1>1, DifferenceExact
  <2>2. QED BY <1>c, <2>1 DEF ClaimEnque, SameWord
<1>3. /\ enque' = enque + 1 /\ deque' = deque /\ buffer' = buffer /\ item' = item
      /\ target' = target /\ pc[p] = "compared" /\ pc'[p] = "claimed"
      /\ \A t \in Thread \ {p} : pc'[t] = pc[t]
  BY <1>c DEF ClaimEnque, TypeOK
<1>4. deque <= enque /\ enque < deque + Capacity
  BY <1>c, <1>3 DEF IInv, Bounded
<1>5. item[p] \in Value
  BY <1>3 DEF IInv, ProducerInv
<1>6. \A k : k = enque => ValueOf(k)' = item[p]
  <2> SUFFICES ASSUME NEW k, k = enque PROVE ValueOf(k)' = item[p]
    OBVIOUS
  <2>1. ASSUME NEW q \in Producers, pc[q] = "claimed" PROVE target[q] # enque
    <3>1. q \in InSlot /\ target[q] \in Nat
      BY <1>c, <2>1 DEF InSlot, TypeOK, Thread
    <3>2. target[q] < enque
      BY <3>1 DEF IInv, ProducerInv, ClaimInv
    <3>3. QED BY <1>c, <3>1, <3>2
  <2>2. Holders(k)' = {p}
    BY <1>2, <1>3, <2>1 DEF Holders, Thread
  <2>3. ValueOf(k)' = item'[CHOOSE q \in {p} : TRUE]
    BY <2>2, <1>3 DEF ValueOf
  <2>4. QED BY <1>3, <2>3
<1>7. ASSUME NEW k \in deque .. enque - 1 PROVE ValueOf(k)' = ValueOf(k)
  <2>1. k # enque
    BY <1>c
  <2>2. Holders(k)' = Holders(k)
    BY <1>2, <1>3, <2>1 DEF Holders, Thread
  <2>3. QED BY <1>3, <2>2 DEF ValueOf
<1>8. /\ Queued \in Seq(Value \cup {NoItem}) /\ Len(Queued) = enque - deque
      /\ \A i \in 1 .. enque - deque : Queued[i] = ValueOf(deque + i - 1)
  BY QueuedType
<1>9. /\ Queued' = [i \in 1 .. enque + 1 - deque |-> Queued'[i]]
      /\ \A i \in 1 .. enque + 1 - deque : \A k \in Nat :
           k = deque + i - 1 => Queued'[i] = ValueOf(k)'
  <2>0. enque' - deque' = enque + 1 - deque
    BY <1>c, <1>3
  <2>1. Queued' = [i \in 1 .. enque + 1 - deque |-> Queued'[i]]
    BY <2>0 DEF Queued
  <2>2. ASSUME NEW i \in 1 .. enque + 1 - deque, NEW k \in Nat, k = deque + i - 1
        PROVE  Queued'[i] = ValueOf(k)'
    <3>1. i \in 1 .. enque' - deque' /\ k = deque' + i - 1
      BY <1>3, <2>0, <2>2
    <3>2. QED BY <3>1 DEF Queued
  <2>3. QED BY <2>1, <2>2
<1>10. Queued' = [i \in 1 .. enque + 1 - deque |->
                    IF i = enque + 1 - deque THEN item[p] ELSE Queued[i]]
  <2>1. ASSUME NEW i \in 1 .. enque + 1 - deque
        PROVE  Queued'[i] = IF i = enque + 1 - deque THEN item[p] ELSE Queued[i]
    <3>1. PICK k \in Nat : k = deque + i - 1
      BY <1>c
    <3>2. Queued'[i] = ValueOf(k)'
      BY <1>9, <3>1
    <3>3. CASE i = enque + 1 - deque
      <4>1. k = enque
        BY <1>c, <3>1, <3>3
      <4>2. QED BY <1>6, <3>2, <3>3, <4>1
    <3>4. CASE i # enque + 1 - deque
      <4>1. i \in 1 .. enque - deque /\ k \in deque .. enque - 1
        BY <1>c, <1>4, <3>1, <3>4
      <4>2. Queued'[i] = ValueOf(k) /\ Queued[i] = ValueOf(k)
        BY <1>7, <1>8, <3>1, <3>2, <4>1
      <4>3. QED BY <3>4, <4>2
    <3>5. QED BY <3>3, <3>4
  <2>2. QED BY <1>9, <2>1
<1>11. Queued' = Append(Queued, item[p])
  <2>1. Append(Queued, item[p]) =
          [i \in 1 .. Len(Queued) + 1 |-> IF i = Len(Queued) + 1 THEN item[p] ELSE Queued[i]]
    BY <1>5, <1>8
  <2>2. Len(Queued) + 1 = enque + 1 - deque
    BY <1>c, <1>8
  <2>3. QED BY <1>10, <2>1, <2>2
<1>12. Received' = Received
  <2>1. \A d \in Consumers : pc'[d] = pc[d]
    BY <1>c, <1>3 DEF Thread
  <2>2. QED BY <1>3, <2>1 DEF Received
<1>13. QED BY <1>c, <1>4, <1>5, <1>8, <1>11, <1>12

\* The compare-exchange of a consumer takes the value at the front.
LEMMA ClaimDequeRefines ==
    ASSUME Capacity > 1, IInv, IInv', NEW c \in Consumers, ClaimDeque(c)
    PROVE  /\ Queued # <<>> /\ Queued' = Tail(Queued)
           /\ Received' = [Received EXCEPT ![c] = Head(Queued)]
<1>c. /\ c \in Thread /\ c \notin Producers /\ TypeOK /\ MaxLag \in Nat
      /\ Capacity \in Nat /\ enque \in Nat /\ deque \in Nat /\ target[c] \in Nat
      /\ MaxLag < Half /\ Half \in Nat
  BY QueueAssumption DEF Thread, IInv, TypeOK, Half
<1>1. /\ target[c] <= deque /\ deque <= target[c] + MaxLag
      /\ target[c] + 1 <= sequence[Slot(target[c])]
  BY DEF IInv, ConsumerInv, LoopInv, ClaimDeque, Fits
<1>2. target[c] = deque
  <2>1. Difference(deque, target[c]) = deque - target[c]
    BY <1>c, <1>1, DifferenceExact
  <2>2. QED BY <1>c, <2>1 DEF ClaimDeque, SameWord
<1>3. sequence[Slot(deque)] = deque + 1 /\ deque < enque
  BY <1>1, <1>2, TakeableSlot DEF IInv
<1>4. /\ deque' = deque + 1 /\ enque' = enque /\ buffer' = buffer /\ item' = item
      /\ target' = target /\ pc'[c] = "claimed"
      /\ \A t \in Thread \ {c} : pc'[t] = pc[t]
  BY <1>c DEF ClaimDeque, TypeOK
<1>5. ValueOf(deque) = buffer[Slot(deque)]
  <2>1. Holders(deque) = {}
    BY <1>c, <1>3 DEF IInv, ProducerInv, ClaimInv, InSlot, Holders, Thread
  <2>2. QED BY <2>1 DEF ValueOf
<1>6. ASSUME NEW k PROVE ValueOf(k)' = ValueOf(k)
  <2>1. Holders(k)' = Holders(k)
    BY <1>c, <1>4 DEF Holders, Thread
  <2>2. QED BY <1>4, <2>1 DEF ValueOf
<1>7. /\ Queued \in Seq(Value \cup {NoItem}) /\ Len(Queued) = enque - deque
      /\ \A i \in 1 .. enque - deque : Queued[i] = ValueOf(deque + i - 1)
  BY QueuedType
<1>8. Queued # <<>> /\ Head(Queued) = buffer[Slot(deque)]
  <2>1. Len(Queued) # 0 /\ 1 \in 1 .. enque - deque /\ deque + 1 - 1 = deque
    BY <1>c, <1>3, <1>7
  <2>2. Queued[1] = buffer[Slot(deque)]
    BY <1>5, <1>7, <2>1
  <2>3. QED BY <1>7, <2>1, <2>2
<1>9. Queued' = Tail(Queued)
  <2>1. /\ Queued' = [i \in 1 .. enque - (deque + 1) |-> Queued'[i]]
        /\ \A i \in 1 .. enque - (deque + 1) : \A k \in Nat :
             k = (deque + 1) + i - 1 => Queued'[i] = ValueOf(k)'
    <3>0. enque' - deque' = enque - (deque + 1)
      BY <1>4
    <3>1. Queued' = [i \in 1 .. enque - (deque + 1) |-> Queued'[i]]
      BY <3>0 DEF Queued
    <3>2. ASSUME NEW i \in 1 .. enque - (deque + 1), NEW k \in Nat, k = (deque + 1) + i - 1
          PROVE  Queued'[i] = ValueOf(k)'
      <4>1. i \in 1 .. enque' - deque' /\ k = deque' + i - 1
        BY <1>4, <3>2
      <4>2. QED BY <4>1 DEF Queued
    <3>3. QED BY <3>1, <3>2
  <2>2. Tail(Queued) = [i \in 1 .. Len(Queued) - 1 |-> Queued[i + 1]]
    <3>1. /\ Tail(Queued) \in Seq(Value \cup {NoItem}) /\ Len(Tail(Queued)) = Len(Queued) - 1
          /\ \A i \in 1 .. Len(Tail(Queued)) : Tail(Queued)[i] = Queued[i + 1]
      BY <1>7, <1>8, HeadTailProperties
    <3>2. Tail(Queued) = [i \in 1 .. Len(Queued) - 1 |-> Tail(Queued)[i]]
      BY <3>1, LenProperties
    <3>3. QED BY <3>1, <3>2
  <2>3. enque - (deque + 1) = Len(Queued) - 1
    BY <1>c, <1>7
  <2>4. ASSUME NEW i \in 1 .. enque - (deque + 1)
        PROVE  Queued'[i] = Queued[i + 1]
    <3>1. PICK k \in Nat : k = deque + i
      BY <1>c
    <3>2. /\ i + 1 \in 1 .. enque - deque
          /\ k = (deque + 1) + i - 1 /\ k = deque + (i + 1) - 1
      BY <1>c, <3>1
    <3>3. Queued'[i] = ValueOf(k)' /\ Queued[i + 1] = ValueOf(k)
      BY <1>7, <2>1, <3>2
    <3>4. QED BY <1>6, <3>3
  <2>5. QED BY <2>1, <2>2, <2>3, <2>4
<1>10. Received' = [Received EXCEPT ![c] = Head(Queued)]
  <2>1. Received'  = [d \in Consumers |-> IF d = c THEN buffer[Slot(deque)] ELSE Received[d]]
    BY <1>2, <1>4 DEF Received, Thread
  <2>2. QED BY <1>8, <2>1 DEF Received
<1>11. QED BY <1>8, <1>9, <1>10

\* As seen from outside, the ring is a FIFO of at most Capacity values, for any
\* number of threads and values, any capacity above one and any word.
THEOREM RingIsFifo == ASSUME Capacity > 1 PROVE Spec => ImplementsFifo
<1>1. Init => Fifo!Init
  <2> SUFFICES ASSUME Init PROVE Queued = <<>> /\ Received = [c \in Consumers |-> NoItem]
    BY DEF Fifo!Init, Queued, Received
  <2>1. Queued = <<>>
    BY DEF Init, Queued
  <2>2. Received = [c \in Consumers |-> NoItem]
    BY DEF Init, Received, Thread
  <2>3. QED BY <2>1, <2>2
<1>2. IInv /\ IInv' /\ [Next]_vars => [Fifo!Next]_Fifo!vars
  <2> SUFFICES ASSUME IInv, IInv', [Next]_vars
               PROVE  \/ \E v \in Value : /\ Len(Queued) < Capacity
                                          /\ Queued' = Append(Queued, v) /\ Received' = Received
                      \/ \E c \in Consumers : /\ Queued # <<>>
                                              /\ Received' = [Received EXCEPT ![c] = Head(Queued)]
                                              /\ Queued' = Tail(Queued)
                      \/ Queued' = Queued /\ Received' = Received
    BY DEF Fifo!Next, Fifo!vars, Fifo!Put, Fifo!Take, Queued, Received
  <2>1. CASE UNCHANGED vars
    BY <2>1, LocalUnseen DEF vars
  <2>2. ASSUME NEW p \in Producers, ClaimEnque(p)
        PROVE  \E v \in Value : /\ Len(Queued) < Capacity
                                /\ Queued' = Append(Queued, v) /\ Received' = Received
    BY <2>2, ClaimEnqueRefines
  <2>3. ASSUME NEW c \in Consumers, ClaimDeque(c)
        PROVE  /\ Queued # <<>>
               /\ Received' = [Received EXCEPT ![c] = Head(Queued)]
               /\ Queued' = Tail(Queued)
    BY <2>3, ClaimDequeRefines
  <2>4. CASE Next
    BY <2>2, <2>3, <2>4, LocalRefines, WriteRefines, TakeRefines DEF Next, EnqueStep,
         DequeStep
  <2>5. QED BY <2>1, <2>4
<1>3. QED BY <1>1, <1>2, Invariance, PTL DEF Spec, ImplementsFifo, Fifo!Spec

-----------------------------------------------------------------------------
(* Refusals.  That a ring is full, or empty, follows from one slot only if  *)
(* nobody is in the middle of filling or emptying another: a slot that has *)
(* not kept up with the counters is in the hands of some thread.           *)

SlotOwned(s) ==
    /\ FreeFor(s) /\ sequence[s] < enque =>
         \E p \in Producers : p \in InSlot /\ target[p] = sequence[s]
    /\ FilledBy(s) /\ sequence[s] <= deque =>
         \E c \in Consumers : c \in InSlot /\ target[c] + 1 = sequence[s]

SlotsOwned == \A s \in Slots : SlotOwned(s)

LEMMA OwnersInit == Capacity > 1 /\ Init => SlotsOwned
<1> SUFFICES ASSUME Capacity > 1, Init, NEW s \in Slots PROVE SlotOwned(s)
  BY DEF SlotsOwned
<1>1. s \in Nat /\ sequence[s] = s /\ enque = 0 /\ deque = 0
  BY DEF Init, Slots
<1>2. ~FilledBy(s)
  BY <1>1 DEF FilledBy
<1>3. QED BY <1>1, <1>2 DEF SlotOwned

\* Steps that move no counter and no sequence.
LEMMA UnmovedOwners ==
    ASSUME IInv, SlotsOwned,
           \/ UNCHANGED vars
           \/ \E p \in Producers :
                \/ LoadForEnque(p) \/ RetryEnque(p) \/ RefuseEnque(p) \/ WriteItem(p)
                \/ \E v \in Value : BeginEnque(p, v)
           \/ \E c \in Consumers :
                LoadForDeque(c) \/ RetryDeque(c) \/ RefuseDeque(c) \/ TakeItem(c) \/ BeginDeque(c)
    PROVE  SlotsOwned'
<1>1. TypeOK
  BY DEF IInv
<1>2. /\ enque' = enque /\ deque' = deque /\ sequence' = sequence
      /\ \A t \in InSlot : t \in InSlot' /\ target'[t] = target[t]
  <2>1. CASE UNCHANGED vars
    BY <2>1 DEF vars, InSlot
  <2>2. ASSUME NEW p \in Producers,
               \/ LoadForEnque(p) \/ RetryEnque(p) \/ RefuseEnque(p) \/ WriteItem(p)
               \/ \E v \in Value : BeginEnque(p, v)
        PROVE  /\ enque' = enque /\ deque' = deque /\ sequence' = sequence
               /\ \A t \in InSlot : t \in InSlot' /\ target'[t] = target[t]
    BY <1>1, <2>2 DEF LoadForEnque, LoadSequence, RetryEnque, RefuseEnque, WriteItem,
         BeginEnque,
                      LoadCounter, Return, TypeOK, InSlot, Thread
  <2>3. ASSUME NEW c \in Consumers,
               LoadForDeque(c) \/ RetryDeque(c) \/ RefuseDeque(c) \/ TakeItem(c) \/ BeginDeque(c)
        PROVE  /\ enque' = enque /\ deque' = deque /\ sequence' = sequence
               /\ \A t \in InSlot : t \in InSlot' /\ target'[t] = target[t]
    BY <1>1, <2>3 DEF LoadForDeque, LoadSequence, RetryDeque, RefuseDeque, TakeItem,
         BeginDeque,
                      LoadCounter, Return, TypeOK, InSlot, Thread
  <2>4. QED BY <2>1, <2>2, <2>3
<1>3. QED BY <1>2 DEF SlotsOwned, SlotOwned, FreeFor, FilledBy

LEMMA ClaimEnqueOwners ==
    ASSUME Capacity > 1, IInv, SlotsOwned, NEW p \in Producers, ClaimEnque(p)
    PROVE  SlotsOwned'
<1>c. /\ p \in Thread /\ TypeOK /\ MaxLag \in Nat
      /\ Capacity \in Nat /\ enque \in Nat /\ deque \in Nat /\ target[p] \in Nat
      /\ MaxLag < Half /\ Half \in Nat
  BY QueueAssumption DEF Thread, IInv, TypeOK, Half
<1>1. target[p] <= enque /\ enque <= target[p] + MaxLag
  BY DEF IInv, ProducerInv, LoopInv, ClaimEnque
<1>2. target[p] = enque
  <2>1. Difference(enque, target[p]) = enque - target[p]
    BY <1>c, <1>1, DifferenceExact
  <2>2. QED BY <1>c, <2>1 DEF ClaimEnque, SameWord
<1>3. /\ enque' = enque + 1 /\ deque' = deque /\ sequence' = sequence /\ target' = target
      /\ p \in InSlot' /\ \A t \in InSlot : t \in InSlot'
  BY <1>c DEF ClaimEnque, TypeOK, InSlot
<1>4. SUFFICES ASSUME NEW s \in Slots PROVE SlotOwned(s)'
  BY DEF SlotsOwned
<1>5. sequence[s] \in Nat /\ SlotOwned(s) /\ Slot(enque) \in Slots
  BY <1>c, SlotFacts DEF TypeOK, SlotsOwned
<1>6. ASSUME FreeFor(s)', sequence'[s] < enque'
      PROVE  \E q \in Producers : q \in InSlot' /\ target'[q] = sequence'[s]
  <2>1. FreeFor(s) /\ (sequence[s] < enque \/ sequence[s] = enque)
    BY <1>c, <1>3, <1>5, <1>6 DEF FreeFor
  <2>2. CASE sequence[s] = enque
    BY <1>2, <1>3, <2>2
  <2>3. CASE sequence[s] < enque
    BY <1>3, <1>5, <2>1, <2>3 DEF SlotOwned
  <2>4. QED BY <2>1, <2>2, <2>3
<1>7. ASSUME FilledBy(s)', sequence'[s] <= deque'
      PROVE  \E c \in Consumers : c \in InSlot' /\ target'[c] + 1 = sequence'[s]
  <2>1. sequence[s] <= enque
    BY <1>c, <1>3, <1>5, <1>7 DEF IInv, Bounded
  <2>2. FilledBy(s)
    BY <1>c, <1>3, <1>5, <1>7, <2>1 DEF FilledBy
  <2>3. QED BY <1>3, <1>5, <1>7, <2>2 DEF SlotOwned
<1>8. QED BY <1>6, <1>7 DEF SlotOwned

LEMMA ClaimDequeOwners ==
    ASSUME Capacity > 1, IInv, SlotsOwned, NEW c \in Consumers, ClaimDeque(c)
    PROVE  SlotsOwned'
<1>c. /\ c \in Thread /\ TypeOK /\ MaxLag \in Nat
      /\ Capacity \in Nat /\ enque \in Nat /\ deque \in Nat /\ target[c] \in Nat
      /\ MaxLag < Half /\ Half \in Nat
  BY QueueAssumption DEF Thread, IInv, TypeOK, Half
<1>1. /\ target[c] <= deque /\ deque <= target[c] + MaxLag
      /\ target[c] + 1 <= sequence[Slot(target[c])]
  BY DEF IInv, ConsumerInv, LoopInv, ClaimDeque, Fits
<1>2. target[c] = deque
  <2>1. Difference(deque, target[c]) = deque - target[c]
    BY <1>c, <1>1, DifferenceExact
  <2>2. QED BY <1>c, <2>1 DEF ClaimDeque, SameWord
<1>3. /\ deque' = deque + 1 /\ enque' = enque /\ sequence' = sequence /\ target' = target
      /\ c \in InSlot' /\ \A t \in InSlot : t \in InSlot'
  BY <1>c DEF ClaimDeque, TypeOK, InSlot
<1>4. deque < enque
  BY <1>1, <1>2, TakeableSlot DEF IInv
<1>5. SUFFICES ASSUME NEW s \in Slots PROVE SlotOwned(s)'
  BY DEF SlotsOwned
<1>6. sequence[s] \in Nat /\ SlotOwned(s) /\ (FreeFor(s) \/ FilledBy(s))
  BY <1>c DEF TypeOK, SlotsOwned, IInv, SlotPhase
<1>7. ASSUME FreeFor(s)', sequence'[s] < enque'
      PROVE  \E p \in Producers : p \in InSlot' /\ target'[p] = sequence'[s]
  <2>1. Slot(sequence[s]) = s /\ deque < sequence[s] /\ sequence[s] < enque
    BY <1>c, <1>3, <1>6, <1>7 DEF FreeFor
  <2>2. FreeFor(s)
    BY <1>c, <1>6, <2>1 DEF FreeFor, IInv, Bounded
  <2>3. QED BY <1>3, <1>6, <2>1, <2>2 DEF SlotOwned
<1>8. ASSUME FilledBy(s)', sequence'[s] <= deque'
      PROVE  \E d \in Consumers : d \in InSlot' /\ target'[d] + 1 = sequence'[s]
  <2>1. FilledBy(s) /\ (sequence[s] <= deque \/ sequence[s] = deque + 1)
    BY <1>c, <1>3, <1>6, <1>8 DEF FilledBy
  <2>2. CASE sequence[s] = deque + 1
    BY <1>2, <1>3, <2>2
  <2>3. CASE sequence[s] <= deque
    BY <1>3, <1>6, <2>1, <2>3 DEF SlotOwned
  <2>4. QED BY <2>1, <2>2, <2>3
<1>9. QED BY <1>7, <1>8 DEF SlotOwned

\* Who leaves a slot has brought it up to date.
LEMMA StoreOwners ==
    ASSUME Capacity > 1, IInv, SlotsOwned, NEW t \in InSlot, NEW q \in Nat,
           sequence' = [sequence EXCEPT ![Slot(target[t])] = q],
           UNCHANGED <<enque, deque>>, Return(t),
           \A s \in Slots : s = Slot(target[t]) =>
               (FreeFor(s)' => enque <= q) /\ (FilledBy(s)' => deque < q)
    PROVE  SlotsOwned'
<1>c. /\ t \in Thread /\ TypeOK /\ enque \in Nat /\ deque \in Nat
      /\ sequence \in [Slots -> Nat] /\ target[t] \in Nat
  BY DEF IInv, TypeOK, InSlot
<1>1. PICK s \in Slots : s = Slot(target[t])
  BY <1>c, SlotFacts
<1>2. sequence'[s] = q /\ \A r \in Slots \ {s} : sequence'[r] = sequence[r]
  BY <1>c, <1>1
<1>3. \A u \in InSlot : Slot(target[u]) # s => u \in InSlot' /\ target'[u] = target[u]
  BY <1>c, <1>1 DEF Return, TypeOK, InSlot
<1>4. SUFFICES ASSUME NEW r \in Slots PROVE SlotOwned(r)'
  BY DEF SlotsOwned
<1>5. CASE r = s
  <2>1. (FreeFor(s)' => enque <= q) /\ (FilledBy(s)' => deque < q)
    BY <1>1
  <2>2. ~(q < enque /\ enque <= q) /\ ~(q <= deque /\ deque < q)
    BY <1>c
  <2>3. QED BY <1>2, <1>5, <2>1, <2>2 DEF SlotOwned
<1>6. CASE r # s
  <2>1. sequence'[r] = sequence[r]
    BY <1>2, <1>6
  <2>2. \A u \in InSlot : Slot(target[u]) = r => u \in InSlot' /\ target'[u] = target[u]
    BY <1>3, <1>6
  <2>3. FreeFor(r)' <=> FreeFor(r)
    BY <2>1 DEF FreeFor
  <2>4. FilledBy(r)' <=> FilledBy(r)
    BY <2>1 DEF FilledBy
  <2>5. SlotOwned(r) /\ sequence[r] \in Nat
    BY <1>c DEF SlotsOwned
  <2>6. ASSUME FreeFor(r), sequence[r] < enque
        PROVE  \E p \in Producers : p \in InSlot' /\ target'[p] = sequence[r]
    <3>1. PICK p \in Producers : p \in InSlot /\ target[p] = sequence[r]
      BY <2>5, <2>6 DEF SlotOwned
    <3>2. Slot(target[p]) = r
      BY <2>6, <3>1 DEF FreeFor
    <3>3. QED BY <2>2, <3>1, <3>2
  <2>7. ASSUME FilledBy(r), sequence[r] <= deque
        PROVE  \E c \in Consumers : c \in InSlot' /\ target'[c] + 1 = sequence[r]
    <3>1. PICK c \in Consumers : c \in InSlot /\ target[c] + 1 = sequence[r]
      BY <2>5, <2>7 DEF SlotOwned
    <3>2. target[c] \in Nat
      BY <1>c, <3>1 DEF TypeOK, InSlot
    <3>3. target[c] = sequence[r] - 1
      BY <2>5, <3>1, <3>2
    <3>4. Slot(target[c]) = r
      BY <2>7, <3>3 DEF FilledBy
    <3>5. QED BY <2>2, <3>1, <3>4
  <2>8. QED BY <2>1, <2>3, <2>4, <2>6, <2>7 DEF SlotOwned
<1>7. QED BY <1>5, <1>6

LEMMA PublishOwners ==
    ASSUME Capacity > 1, IInv, SlotsOwned, NEW p \in Producers, Publish(p)
    PROVE  SlotsOwned'
<1>c. /\ p \in InSlot /\ target[p] \in Nat /\ Capacity \in Nat /\ enque \in Nat /\ deque \in Nat
  BY CapacityType DEF IInv, TypeOK, Publish, InSlot, Thread
<1>q. PICK q \in Nat : q = target[p] + 1
  BY <1>c
<1>1. /\ sequence' = [sequence EXCEPT ![Slot(target[p])] = q]
      /\ UNCHANGED <<enque, deque>> /\ Return(p)
  BY <1>q DEF Publish, Filled
<1>2. deque < q
  BY <1>c, <1>q, ProducersTicket
<1>3. ASSUME NEW s \in Slots, s = Slot(target[p]) PROVE ~FreeFor(s)'
  <2>1. sequence'[s] = q
    BY <1>1, <1>3 DEF IInv, TypeOK
  <2>2. Slot(q) # s
    BY <1>c, <1>q, <1>3, SlotInjective
  <2>3. QED BY <2>1, <2>2 DEF FreeFor
<1>4. QED BY <1>c, <1>1, <1>2, <1>3, StoreOwners

LEMMA ReleaseOwners ==
    ASSUME Capacity > 1, IInv, SlotsOwned, NEW c \in Consumers, Release(c)
    PROVE  SlotsOwned'
<1>c. /\ c \in InSlot /\ target[c] \in Nat /\ Capacity \in Nat /\ enque \in Nat /\ deque \in Nat
  BY CapacityType DEF IInv, TypeOK, Release, InSlot, Thread
<1>q. PICK q \in Nat : q = target[c] + Capacity
  BY <1>c
<1>1. /\ sequence' = [sequence EXCEPT ![Slot(target[c])] = q]
      /\ UNCHANGED <<enque, deque>> /\ Return(c)
  BY <1>q DEF Release, NextLap
<1>2. enque <= q
  BY <1>c, <1>q, ConsumersTicket
<1>3. ASSUME NEW s \in Slots, s = Slot(target[c]) PROVE ~FilledBy(s)'
  <2>1. sequence'[s] = q /\ Slot(q) = s
    BY <1>c, <1>q, <1>1, <1>3, SlotFacts DEF IInv, TypeOK
  <2>2. SUFFICES ASSUME FilledBy(s)' PROVE FALSE
    OBVIOUS
  <2>3. Slot(q - 1) = Slot(q) /\ q - 1 \in Nat
    BY <1>c, <1>q, <2>1, <2>2 DEF FilledBy
  <2>4. q - 1 = q
    BY <1>c, <2>3, SlotInjective
  <2>5. QED BY <2>4
<1>4. QED BY <1>c, <1>1, <1>2, <1>3, StoreOwners

LEMMA OwnersStep == Capacity > 1 /\ IInv /\ SlotsOwned /\ [Next]_vars => SlotsOwned'
<1> SUFFICES ASSUME Capacity > 1, IInv, SlotsOwned, [Next]_vars PROVE SlotsOwned'
  OBVIOUS
<1>1. CASE UNCHANGED vars
  BY <1>1, UnmovedOwners
<1>2. CASE Next
  BY <1>2, UnmovedOwners, ClaimEnqueOwners, ClaimDequeOwners, PublishOwners, ReleaseOwners
     DEF Next, EnqueStep, DequeStep
<1>3. QED BY <1>1, <1>2

\* While nobody is in a slot, a slot behind a producer's ticket is one of a full ring.
LEMMA BehindProducer ==
    ASSUME Capacity > 1, IInv, SlotsOwned, InSlot = {}, NEW p \in Producers,
           LoadForEnque(p), delta'[p] < 0
    PROVE  enque - deque = Capacity
<1> DEFINE s == Slot(target[p])
           q == sequence[s]
           t == target[p]
<1>1. /\ p \in Thread /\ t \in Nat /\ enque \in Nat /\ deque \in Nat /\ s \in Slots
      /\ Capacity \in Nat /\ MaxLag \in Nat /\ Half \in Nat /\ MaxLag + Capacity <= Half
      /\ enque <= deque + Capacity /\ deque <= enque
  BY QueueAssumption, SlotFacts DEF Thread, IInv, TypeOK, Half, Bounded
<1>2. t <= enque /\ enque <= t + MaxLag
  BY DEF IInv, ProducerInv, LoopInv, LoadForEnque, LoadSequence
<1>3. q \in Nat /\ enque - Capacity <= q /\ q < enque + Capacity
  BY <1>1, SequenceWindow DEF IInv
<1> HIDE DEF s, q, t
<1>4. q < t
  <2>1. q - t < Half /\ t - q <= Half
    BY <1>1, <1>2, <1>3
  <2>2. delta'[p] = Difference(q, t)
    BY <1>1 DEF LoadForEnque, LoadSequence, IInv, TypeOK, s, q, t
  <2>3. delta'[p] = q - t
    BY <1>1, <1>3, <2>1, <2>2, DifferenceExact
  <2>4. QED BY <1>1, <1>3, <2>3
<1>5. Slot(t) = s /\ SlotOwned(s) /\ (FreeFor(s) \/ FilledBy(s)) /\ sequence[s] = q
  BY <1>1 DEF SlotsOwned, IInv, SlotPhase, s, q, t
<1>6. CASE FreeFor(s)
  <2>1. Slot(q) = Slot(t) /\ deque <= q
    BY <1>5, <1>6 DEF FreeFor
  <2>2. ~(t < q + Capacity)
    <3>1. SUFFICES ASSUME t < q + Capacity PROVE FALSE
      OBVIOUS
    <3>2. q - Capacity < t
      BY <1>1, <1>3, <1>4
    <3>3. q = t
      BY <1>1, <1>3, <2>1, <3>1, <3>2, SlotInjective
    <3>4. QED BY <1>1, <1>3, <1>4, <3>3
  <2>3. QED BY <1>1, <1>2, <1>3, <2>1, <2>2
<1>7. CASE FilledBy(s)
  <2>1. q > 0 /\ Slot(q - 1) = Slot(t) /\ enque - Capacity < q
    BY <1>5, <1>7 DEF FilledBy
  <2>2. ~(t < q - 1 + Capacity)
    <3>1. SUFFICES ASSUME t < q - 1 + Capacity PROVE FALSE
      OBVIOUS
    <3>2. q - 1 \in Nat /\ (q - 1) - Capacity < t
      BY <1>1, <1>3, <1>4, <2>1
    <3>3. q - 1 = t
      BY <1>1, <1>3, <2>1, <3>1, <3>2, SlotInjective
    <3>4. QED BY <1>1, <1>3, <1>4, <3>3
  <2>3. ~(q <= deque)
    BY <1>5, <1>7 DEF SlotOwned
  <2>4. QED BY <1>1, <1>2, <1>3, <2>1, <2>2, <2>3
<1>8. QED BY <1>5, <1>6, <1>7

\* While nobody is in a slot, a slot behind a consumer's ticket is one of an empty ring.
LEMMA BehindConsumer ==
    ASSUME Capacity > 1, IInv, SlotsOwned, InSlot = {}, NEW c \in Consumers,
           LoadForDeque(c), delta'[c] < 0
    PROVE  enque - deque = 0
<1> DEFINE s == Slot(target[c])
           q == sequence[s]
           t == target[c]
<1>1. /\ c \in Thread /\ t \in Nat /\ enque \in Nat /\ deque \in Nat /\ s \in Slots
      /\ Capacity \in Nat /\ MaxLag \in Nat /\ Half \in Nat /\ MaxLag + Capacity <= Half
      /\ enque <= deque + Capacity /\ deque <= enque
  BY QueueAssumption, SlotFacts DEF Thread, IInv, TypeOK, Half, Bounded
<1>2. t <= deque /\ deque <= t + MaxLag
  BY DEF IInv, ConsumerInv, LoopInv, LoadForDeque, LoadSequence
<1>3. q \in Nat /\ deque - Capacity < q /\ q <= deque + Capacity
  BY <1>1, SequenceWindow DEF IInv
<1> HIDE DEF s, q, t
<1>4. q <= t
  <2>1. q - (t + 1) < Half /\ (t + 1) - q <= Half /\ t + 1 \in Nat
    BY <1>1, <1>2, <1>3
  <2>2. delta'[c] = Difference(q, t + 1)
    BY <1>1 DEF LoadForDeque, LoadSequence, IInv, TypeOK, s, q, t
  <2>3. delta'[c] = q - (t + 1)
    BY <1>3, <2>1, <2>2, DifferenceExact
  <2>4. QED BY <1>1, <1>3, <2>3
<1>5. Slot(t) = s /\ SlotOwned(s) /\ (FreeFor(s) \/ FilledBy(s)) /\ sequence[s] = q
  BY <1>1 DEF SlotsOwned, IInv, SlotPhase, s, q, t
<1>6. CASE FreeFor(s)
  <2>1. deque <= q
    BY <1>5, <1>6 DEF FreeFor
  <2>2. ~(q < enque)
    BY <1>5, <1>6 DEF SlotOwned
  <2>3. QED BY <1>1, <1>2, <1>3, <1>4, <2>1, <2>2
<1>7. CASE FilledBy(s)
  <2>1. q > 0 /\ Slot(q - 1) = Slot(t) /\ enque - Capacity < q
    BY <1>5, <1>7 DEF FilledBy
  <2>2. ~(t < q - 1 + Capacity)
    <3>1. SUFFICES ASSUME t < q - 1 + Capacity PROVE FALSE
      OBVIOUS
    <3>2. q - 1 \in Nat /\ (q - 1) - Capacity < t
      BY <1>1, <1>3, <1>4, <2>1
    <3>3. q - 1 = t
      BY <1>1, <1>3, <2>1, <3>1, <3>2, SlotInjective
    <3>4. QED BY <1>1, <1>3, <1>4, <3>3
  <2>3. QED BY <1>1, <1>2, <1>3, <2>1, <2>2
<1>8. QED BY <1>5, <1>6, <1>7

\* A call that is refused while no other is under way has found the ring full,
\* or empty, however old its ticket is: for any number of threads, any capacity
\* above one and any word.
THEOREM RefusalsHonest == ASSUME Capacity > 1 PROVE Spec => HonestRefusal
<1> DEFINE Honest == \A t \in Thread :
          /\ IF t \in Producers THEN LoadForEnque(t) ELSE LoadForDeque(t)
          /\ \A u \in Thread \ {t} : pc[u] = "idle"
          /\ delta'[t] < 0
          => enque - deque = IF t \in Producers THEN Capacity ELSE 0
<1>1. Init => SlotsOwned
  BY OwnersInit
<1>2. IInv /\ SlotsOwned /\ [Next]_vars => SlotsOwned'
  BY OwnersStep
<1>3. IInv /\ SlotsOwned => [Honest]_vars
  <2> SUFFICES ASSUME IInv, SlotsOwned, NEW t \in Thread,
                      IF t \in Producers THEN LoadForEnque(t) ELSE LoadForDeque(t),
                      \A u \in Thread \ {t} : pc[u] = "idle", delta'[t] < 0
               PROVE  enque - deque = IF t \in Producers THEN Capacity ELSE 0
    OBVIOUS
  <2>1. pc[t] = "loaded"
    BY DEF LoadForEnque, LoadForDeque, LoadSequence
  <2>2. InSlot = {}
    BY <2>1 DEF InSlot
  <2>3. CASE t \in Producers
    BY <2>2, <2>3, BehindProducer
  <2>4. CASE t \notin Producers
    BY <2>2, <2>4, BehindConsumer DEF Thread
  <2>5. QED BY <2>3, <2>4
<1>4. Spec => []SlotsOwned
  BY <1>1, <1>2, Invariance, PTL DEF Spec
<1>5. QED BY <1>3, <1>4, Invariance, PTL DEF HonestRefusal

-----------------------------------------------------------------------------
(* Lock-freedom.  A delta above zero tells a thread that its ticket has been  *)
(* handed out since it read it; that stays true while it looks at it.         *)

Ahead(t, counter) == pc[t] = "compared" /\ delta[t] > 0 => target[t] < counter
RetryInv ==
    /\ \A p \in Producers : Ahead(p, enque)
    /\ \A c \in Consumers : Ahead(c, deque)

LEMMA AheadProducer ==
    ASSUME Capacity > 1, IInv, NEW p \in Producers, LoadForEnque(p), delta'[p] > 0
    PROVE  target[p] < enque
<1>1. /\ p \in Thread /\ target[p] \in Nat /\ enque \in Nat
      /\ target[p] <= enque /\ enque <= target[p] + MaxLag
  BY DEF Thread, IInv, TypeOK, ProducerInv, LoopInv, LoadForEnque, LoadSequence
<1>2. /\ delta'[p] = sequence[Slot(target[p])] - target[p]
      /\ sequence[Slot(target[p])] \in Nat
  BY <1>1, LoadedDelta, SlotFacts DEF LoadForEnque, LoadSequence, IInv, TypeOK
<1>3. ASSUME target[p] = enque PROVE FALSE
  <2>1. enque <= sequence[Slot(enque)]
    BY <1>1, <1>2, <1>3
  <2>2. sequence[Slot(enque)] = enque
    BY <2>1, ClaimableSlot DEF IInv
  <2>3. QED BY <1>1, <1>2, <1>3, <2>2
<1>4. QED BY <1>1, <1>3

LEMMA AheadConsumer ==
    ASSUME Capacity > 1, IInv, NEW c \in Consumers, LoadForDeque(c), delta'[c] > 0
    PROVE  target[c] < deque
<1>1. /\ c \in Thread /\ target[c] \in Nat /\ deque \in Nat
      /\ target[c] <= deque /\ deque <= target[c] + MaxLag
  BY DEF Thread, IInv, TypeOK, ConsumerInv, LoopInv, LoadForDeque, LoadSequence
<1>2. /\ delta'[c] = sequence[Slot(target[c])] - (target[c] + 1)
      /\ sequence[Slot(target[c])] \in Nat
  <2>1. Difference(sequence[Slot(target[c])], target[c] + 1)
            = sequence[Slot(target[c])] - (target[c] + 1)
    BY <1>1, LoadedDelta DEF IInv
  <2>2. QED BY <1>1, <2>1, SlotFacts DEF LoadForDeque, LoadSequence, IInv, TypeOK
<1>3. ASSUME target[c] = deque PROVE FALSE
  <2>1. deque + 1 <= sequence[Slot(deque)]
    BY <1>1, <1>2, <1>3
  <2>2. sequence[Slot(deque)] = deque + 1
    BY <2>1, TakeableSlot DEF IInv
  <2>3. QED BY <1>1, <1>2, <1>3, <2>2
<1>4. QED BY <1>1, <1>3

LEMMA RetryStep == Capacity > 1 /\ IInv /\ RetryInv /\ [Next]_vars => RetryInv'
<1> SUFFICES ASSUME Capacity > 1, IInv, RetryInv, [Next]_vars PROVE RetryInv'
  OBVIOUS
<1>1. /\ enque \in Nat /\ deque \in Nat /\ target \in [Thread -> Nat]
      /\ pc \in [Thread -> {"idle", "loaded", "compared", "claimed", "stored"}]
      /\ delta \in [Thread -> Int]
      /\ Producers \subseteq Thread /\ Consumers \subseteq Thread
      /\ Producers \cap Consumers = {}
  BY QueueAssumption DEF IInv, TypeOK, Thread
<1>2. /\ enque' \in Nat /\ enque <= enque' /\ deque' \in Nat /\ deque <= deque'
  <2>1. CASE UNCHANGED vars
    BY <1>1, <2>1 DEF vars
  <2>2. ASSUME NEW p \in Producers, EnqueStep(p) \/ \E v \in Value : BeginEnque(p, v)
        PROVE  enque' \in Nat /\ enque <= enque' /\ deque' \in Nat /\ deque <= deque'
    <3>1. CASE ClaimEnque(p)
      BY <1>1, <3>1 DEF ClaimEnque
    <3>2. CASE UNCHANGED <<enque, deque>>
      BY <1>1, <3>2
    <3>3. QED BY <2>2, <3>1, <3>2 DEF EnqueStep, BeginEnque, LoadForEnque, LoadSequence,
                 RetryEnque, RefuseEnque, WriteItem, Publish
  <2>3. ASSUME NEW c \in Consumers, DequeStep(c) \/ BeginDeque(c)
        PROVE  enque' \in Nat /\ enque <= enque' /\ deque' \in Nat /\ deque <= deque'
    <3>1. CASE ClaimDeque(c)
      BY <1>1, <3>1 DEF ClaimDeque
    <3>2. CASE UNCHANGED <<enque, deque>>
      BY <1>1, <3>2
    <3>3. QED BY <2>3, <3>1, <3>2 DEF DequeStep, BeginDeque, LoadForDeque, LoadSequence,
                 RetryDeque, RefuseDeque, TakeItem, Release
  <2>4. QED BY <2>1, <2>2, <2>3 DEF Next
\* A thread that keeps its ticket and its delta stays behind the counter.
<1>3. ASSUME NEW t \in Thread, NEW counter, NEW later, counter \in Nat, later \in Nat,
             counter <= later, Ahead(t, counter),
             pc'[t] = "compared" => pc[t] = "compared" /\ delta'[t] = delta[t],
             target'[t] = target[t]
      PROVE  pc'[t] = "compared" /\ delta'[t] > 0 => target'[t] < later
  BY <1>1, <1>3 DEF Ahead
<1>4. ASSUME NEW p \in Producers
      PROVE  pc'[p] = "compared" /\ delta'[p] > 0 => target'[p] < enque'
  <2>1. CASE LoadForEnque(p)
    BY <1>1, <1>2, <2>1, AheadProducer DEF LoadForEnque, LoadSequence
  <2>2. CASE pc'[p] # "compared"
    BY <2>2
  <2>3. CASE pc'[p] = pc[p] /\ delta'[p] = delta[p] /\ target'[p] = target[p]
    BY <1>1, <1>2, <1>3, <2>3 DEF RetryInv
  <2>4. CASE UNCHANGED vars
    BY <2>3, <2>4 DEF vars
  <2>5. CASE EnqueStep(p) \/ \E v \in Value : BeginEnque(p, v)
    <3>1. CASE LoadForEnque(p)
      BY <2>1, <3>1
    <3>2. CASE \E v \in Value : BeginEnque(p, v)
      BY <1>1, <2>2, <3>2 DEF BeginEnque, LoadCounter
    <3>3. CASE ClaimEnque(p)
      BY <1>1, <2>2, <3>3 DEF ClaimEnque
    <3>4. CASE RetryEnque(p)
      BY <1>1, <2>2, <3>4 DEF RetryEnque, LoadCounter
    <3>5. CASE RefuseEnque(p)
      BY <1>1, <2>2, <3>5 DEF RefuseEnque, Return
    <3>6. CASE WriteItem(p)
      BY <1>1, <2>2, <3>6 DEF WriteItem
    <3>7. CASE Publish(p)
      BY <1>1, <2>2, <3>7 DEF Publish, Return
    <3>8. QED BY <2>5, <3>1, <3>2, <3>3, <3>4, <3>5, <3>6, <3>7 DEF EnqueStep
  <2>6. ASSUME NEW q \in Producers \ {p}, EnqueStep(q) \/ \E v \in Value : BeginEnque(q, v)
      PROVE  pc'[p] = "compared" /\ delta'[p] > 0 => target'[p] < enque'
    BY <1>1, <2>3, <2>6 DEF EnqueStep, BeginEnque, LoadCounter, LoadForEnque,
         LoadSequence, ClaimEnque, RetryEnque, RefuseEnque, WriteItem, Publish, Return
  <2>7. ASSUME NEW q \in Consumers, DequeStep(q) \/ BeginDeque(q)
      PROVE  pc'[p] = "compared" /\ delta'[p] > 0 => target'[p] < enque'
    BY <1>1, <2>3, <2>7 DEF DequeStep, BeginDeque, LoadCounter, LoadForDeque,
         LoadSequence, ClaimDeque, RetryDeque, RefuseDeque, TakeItem, Release, Return
  <2>8. CASE Next
    <3>1. CASE \E q \in Producers : EnqueStep(q) \/ \E v \in Value : BeginEnque(q, v)
      BY <2>5, <2>6, <3>1
    <3>2. CASE \E q \in Consumers : DequeStep(q) \/ BeginDeque(q)
      BY <2>7, <3>2
    <3>3. QED BY <2>8, <3>1, <3>2 DEF Next
  <2>9. QED BY <2>4, <2>8
<1>5. ASSUME NEW c \in Consumers
      PROVE  pc'[c] = "compared" /\ delta'[c] > 0 => target'[c] < deque'
  <2>1. CASE LoadForDeque(c)
    BY <1>1, <1>2, <2>1, AheadConsumer DEF LoadForDeque, LoadSequence
  <2>2. CASE pc'[c] # "compared"
    BY <2>2
  <2>3. CASE pc'[c] = pc[c] /\ delta'[c] = delta[c] /\ target'[c] = target[c]
    BY <1>1, <1>2, <1>3, <2>3 DEF RetryInv
  <2>4. CASE UNCHANGED vars
    BY <2>3, <2>4 DEF vars
  <2>5. CASE DequeStep(c) \/ BeginDeque(c)
    <3>1. CASE LoadForDeque(c)
      BY <2>1, <3>1
    <3>2. CASE BeginDeque(c)
      BY <1>1, <2>2, <3>2 DEF BeginDeque, LoadCounter
    <3>3. CASE ClaimDeque(c)
      BY <1>1, <2>2, <3>3 DEF ClaimDeque
    <3>4. CASE RetryDeque(c)
      BY <1>1, <2>2, <3>4 DEF RetryDeque, LoadCounter
    <3>5. CASE RefuseDeque(c)
      BY <1>1, <2>2, <3>5 DEF RefuseDeque, Return
    <3>6. CASE TakeItem(c)
      BY <1>1, <2>2, <3>6 DEF TakeItem
    <3>7. CASE Release(c)
      BY <1>1, <2>2, <3>7 DEF Release, Return
    <3>8. QED BY <2>5, <3>1, <3>2, <3>3, <3>4, <3>5, <3>6, <3>7 DEF DequeStep
  <2>6. ASSUME NEW q \in Consumers \ {c}, DequeStep(q) \/ BeginDeque(q)
      PROVE  pc'[c] = "compared" /\ delta'[c] > 0 => target'[c] < deque'
    BY <1>1, <2>3, <2>6 DEF DequeStep, BeginDeque, LoadCounter, LoadForDeque,
         LoadSequence, ClaimDeque, RetryDeque, RefuseDeque, TakeItem, Release, Return
  <2>7. ASSUME NEW q \in Producers, EnqueStep(q) \/ \E v \in Value : BeginEnque(q, v)
      PROVE  pc'[c] = "compared" /\ delta'[c] > 0 => target'[c] < deque'
    BY <1>1, <2>3, <2>7 DEF EnqueStep, BeginEnque, LoadCounter, LoadForEnque,
         LoadSequence, ClaimEnque, RetryEnque, RefuseEnque, WriteItem, Publish, Return
  <2>8. CASE Next
    <3>1. CASE \E q \in Consumers : DequeStep(q) \/ BeginDeque(q)
      BY <2>5, <2>6, <3>1
    <3>2. CASE \E q \in Producers : EnqueStep(q) \/ \E v \in Value : BeginEnque(q, v)
      BY <2>7, <3>2
    <3>3. QED BY <2>8, <3>1, <3>2 DEF Next
  <2>9. QED BY <2>4, <2>8
<1>6. QED BY <1>4, <1>5 DEF RetryInv, Ahead

\* No call retries unless another call has taken its ticket: the lock-freedom of
\* tryEnque and tryDeque, for any number of threads and any capacity above one.
THEOREM LockFreedom == ASSUME Capacity > 1 PROVE Spec => RetriesLose
<1>1. Init => RetryInv
  BY DEF Init, RetryInv, Ahead, Thread
<1>2. ASSUME IInv, RetryInv, NEW t \in Thread
      PROVE  IF t \in Producers THEN RetryEnque(t) => target[t] < enque
                                ELSE RetryDeque(t) => target[t] < deque
  <2>1. /\ enque \in Nat /\ deque \in Nat /\ target[t] \in Nat /\ Word \in Nat /\ Half \in Nat
        /\ t \notin Producers => t \in Consumers
    BY <1>2, QueueAssumption DEF IInv, TypeOK, Thread, Half
  <2>2. ASSUME NEW n \in Nat PROVE SameWord(n, n)
    BY DifferenceExact, QueueAssumption DEF SameWord, Half
  <2>3. ASSUME t \in Producers, RetryEnque(t) PROVE target[t] < enque
    <3>1. target[t] <= enque
      BY <1>2, <2>3 DEF IInv, ProducerInv, LoopInv, RetryEnque
    <3>2. CASE delta[t] > 0
      BY <1>2, <2>3, <3>2 DEF RetryInv, Ahead, RetryEnque
    <3>3. CASE ~SameWord(enque, target[t])
      BY <2>1, <2>2, <3>1, <3>3
    <3>4. QED BY <2>3, <3>2, <3>3 DEF RetryEnque
  <2>4. ASSUME t \in Consumers, RetryDeque(t) PROVE target[t] < deque
    <3>1. target[t] <= deque
      BY <1>2, <2>4 DEF IInv, ConsumerInv, LoopInv, RetryDeque
    <3>2. CASE delta[t] > 0
      BY <1>2, <2>4, <3>2 DEF RetryInv, Ahead, RetryDeque
    <3>3. CASE ~SameWord(deque, target[t])
      BY <2>1, <2>2, <3>1, <3>3
    <3>4. QED BY <2>4, <3>2, <3>3 DEF RetryDeque
  <2>5. QED BY <2>1, <2>3, <2>4
<1>3. IInv /\ RetryInv => [\A t \in Thread :
          IF t \in Producers THEN RetryEnque(t) => target[t] < enque
                              ELSE RetryDeque(t) => target[t] < deque]_vars
  BY <1>2
<1>4. Capacity > 1 /\ IInv /\ RetryInv /\ [Next]_vars => RetryInv'
  BY RetryStep
<1>5. QED BY <1>1, <1>3, <1>4, Invariance, PTL DEF Spec, RetriesLose
=============================================================================
