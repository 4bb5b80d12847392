----------------------- MODULE ConcurrentQueueProofs -----------------------
(***************************************************************************)
(* Machine-checked safety of ConcurrentQueue and its workers, for any      *)
(* number of threads and tasks, any capacity and any index width.          *)
(***************************************************************************)
EXTENDS ConcurrentQueue, ModularArithmetic, SequenceTheorems, TLAPS

\* What the unsigned comparison of tryEnque means for a size in range.
LEMMA FullMeansFull ==
    ASSUME size \in 0 .. Capacity
    PROVE  Full <=> size = Capacity
<1>1. Capacity \in Nat /\ Capacity > 0 /\ Word \in Nat /\ Word > Capacity
  BY QueueAssumption
<1>2. CASE size = 0
  <2>1. -Word <= size - 1 /\ size - 1 < 0
    BY <1>1, <1>2
  <2>2. (size - 1) % Word = Word - 1
    BY <1>1, <1>2
  <2>3. Word - 1 # Capacity - 1 /\ size # Capacity
    BY <1>1, <1>2
  <2>4. QED BY <2>2, <2>3 DEF Full
<1>3. CASE size > 0
  <2>1. size - 1 \in Nat /\ size - 1 < Word
    BY <1>1, <1>3
  <2>2. (size - 1) % Word = size - 1
    BY <1>1, <2>1
  <2>3. QED BY <1>1, <2>2 DEF Full
<1>4. QED BY <1>1, <1>2, <1>3

\* Ring positions.
LEMMA CellType ==
    ASSUME start \in 0 .. Word - 1, NEW i \in Nat
    PROVE  Cell(i) \in 0 .. Capacity - 1
<1>1. Capacity \in Nat /\ Capacity > 0 /\ Word \in Nat /\ Word > 0
  BY QueueAssumption
<1>2. start + i \in Nat
  BY <1>1
<1>3. (start + i) % Word \in Nat
  BY <1>1, <1>2, DivMod
<1>4. QED BY <1>1, <1>3, DivMod DEF Cell

\* start is incremented modulo 2^32.
LEMMA NextStart ==
    ASSUME start \in 0 .. Word - 1
    PROVE  (start + 1) % Word \in 0 .. Word - 1
<1>1. Word \in Nat /\ Word > 0 /\ start + 1 \in Nat
  BY QueueAssumption
<1>2. QED BY <1>1, DivMod

\* A producer that has yet to notify still counts the task it notifies about.
Notifying == \A p \in Producers : ppc[p] = "notify" => next[p] <= Tasks

IInv == TypeOK /\ Notifying /\ WorkersDrain /\ NoLostWakeup

LEMMA IndInit == Init => IInv
<1> SUFFICES ASSUME Init PROVE IInv
  OBVIOUS
<1>1. /\ Capacity \in Nat /\ Capacity > 0 /\ Word \in Nat /\ Word > Capacity
      /\ Tasks \in Nat
  BY QueueAssumption
<1>2. start \in 0 .. Word - 1 /\ size \in 0 .. Capacity /\ 1 \in 1 .. Tasks + 1
  BY <1>1 DEF Init
<1>3. TypeOK
  BY <1>2 DEF Init, TypeOK
<1>4. Notifying /\ WorkersDrain /\ NoLostWakeup
  BY DEF Init, Notifying, WorkersDrain, NoLostWakeup, Consumers
<1>5. QED BY <1>3, <1>4 DEF IInv

\* The invariant is inductive: one step per action.
LEMMA IndStep == IInv /\ [Next]_vars => IInv'
<1> SUFFICES ASSUME IInv, [Next]_vars PROVE IInv'
  OBVIOUS
<1>c. /\ Capacity \in Nat /\ Capacity > 0 /\ Word \in Nat /\ Word > Capacity
      /\ Tasks \in Nat
      /\ Workers \subseteq Consumers /\ Pollers \subseteq Consumers
      /\ TypeOK
  BY QueueAssumption DEF Consumers, IInv
<1>1. ASSUME NEW p \in Producers, Enque(p) PROVE IInv'
  <2>1. size < Capacity
    BY <1>1, <1>c, FullMeansFull DEF Enque, TypeOK
  <2>2. size + 1 \in Nat /\ size + 1 < Word
    BY <1>c, <2>1 DEF TypeOK
  <2>3. (size + 1) % Word = size + 1
    BY <1>c, <2>2
  <2>4. <<p, next[p]>> \in Task
    BY <1>1, <1>c DEF Enque, HasTask, TypeOK, Task
  <2>5. size' \in 0 .. Capacity
    BY <1>1, <1>c, <2>1, <2>3 DEF Enque, TypeOK
  <2>6. buffer' \in [0 .. Capacity - 1 -> Task \cup {NoTask}]
    BY <1>1, <1>c, <2>4 DEF Enque, TypeOK
  <2>7. TypeOK'
    BY <1>1, <2>5, <2>6, <1>c DEF Enque, TypeOK
  <2>8. Notifying' /\ WorkersDrain' /\ NoLostWakeup'
    BY <1>1, <1>c DEF IInv, Notifying, WorkersDrain, NoLostWakeup, Enque, HasTask, TypeOK
  <2>9. QED BY <2>7, <2>8 DEF IInv
<1>2. ASSUME NEW p \in Producers, Notify(p) PROVE IInv'
  <2>1. next[p] <= Tasks
    BY <1>2 DEF IInv, Notifying, Notify
  <2>2. next' \in [Producers -> 1 .. Tasks + 1]
    BY <1>2, <1>c, <2>1 DEF Notify, TypeOK
  <2>3. waiting' \subseteq waiting /\ (Workers # {} => waiting' # Workers)
    BY <1>2, <1>c DEF Notify, Wake, TypeOK
  <2>4. /\ wpc' \in [Consumers -> {"dequeue", "wait", "run", "exited"}]
        /\ \A c \in Consumers : wpc'[c] = "exited" => wpc[c] = "exited"
    BY <1>2, <1>c DEF Notify, Wake, TypeOK
  <2>5. TypeOK'
    BY <1>2, <1>c, <2>2, <2>3, <2>4 DEF Notify, TypeOK
  <2>6. Notifying' /\ WorkersDrain' /\ NoLostWakeup'
    BY <1>2, <1>c, <2>3, <2>4
       DEF IInv, Notifying, WorkersDrain, NoLostWakeup, Notify, TypeOK
  <2>7. QED BY <2>5, <2>6 DEF IInv
<1>3. ASSUME NEW c \in Consumers, Pop(c) PROVE IInv'
  <2>1. buffer[Cell(0)] \in Task \cup {NoTask}
    BY <1>c, CellType DEF TypeOK
  <2>2. start' \in 0 .. Word - 1
    BY <1>3, <1>c, NextStart DEF Pop, TypeOK
  <2>3. TypeOK'
    BY <1>3, <1>c, <2>1, <2>2 DEF Pop, TypeOK
  <2>4. Notifying' /\ WorkersDrain' /\ NoLostWakeup'
    BY <1>3, <1>c DEF IInv, Notifying, WorkersDrain, NoLostWakeup, Pop, TypeOK
  <2>5. QED BY <2>3, <2>4 DEF IInv
<1>4. ASSUME NEW w \in Workers, DequeClosed(w) PROVE IInv'
  <2>1. TypeOK'
    BY <1>4, <1>c DEF DequeClosed, TypeOK
  <2>2. Notifying' /\ WorkersDrain' /\ NoLostWakeup'
    BY <1>4, <1>c DEF IInv, Notifying, WorkersDrain, NoLostWakeup, DequeClosed
  <2>3. QED BY <2>1, <2>2 DEF IInv
<1>5. ASSUME NEW w \in Workers, Sleep(w) PROVE IInv'
  <2>1. TypeOK'
    BY <1>5, <1>c DEF Sleep, TypeOK
  <2>2. Notifying' /\ WorkersDrain' /\ NoLostWakeup'
    BY <1>5, <1>c DEF IInv, Notifying, WorkersDrain, NoLostWakeup, Sleep, MustWait, TypeOK
  <2>3. QED BY <2>1, <2>2 DEF IInv
<1>6. ASSUME NEW w \in Workers, SpuriousWake(w) PROVE IInv'
  <2>1. TypeOK'
    BY <1>6, <1>c DEF SpuriousWake, Wake, TypeOK
  <2>2. Notifying' /\ WorkersDrain' /\ NoLostWakeup'
    BY <1>6, <1>c
       DEF IInv, Notifying, WorkersDrain, NoLostWakeup, SpuriousWake, Wake, TypeOK
  <2>3. QED BY <2>1, <2>2 DEF IInv
<1>7. ASSUME NEW c \in Consumers, Run(c) PROVE IInv'
  <2>1. runs' \in [Task -> Nat]
    <3>1. runs \in [Task -> Nat] /\ runs' = [runs EXCEPT ![task[c]] = runs[task[c]] + 1]
      BY <1>7, <1>c DEF Run, TypeOK
    <3>2. CASE task[c] \in Task
      <4>1. runs[task[c]] + 1 \in Nat
        BY <3>1, <3>2
      <4>2. QED BY <3>1, <4>1
    <3>3. CASE task[c] \notin Task
      BY <3>1, <3>3
    <3>4. QED BY <3>2, <3>3
  <2>2. TypeOK'
    BY <1>7, <1>c, <2>1 DEF Run, TypeOK
  <2>3. Notifying' /\ WorkersDrain' /\ NoLostWakeup'
    BY <1>7, <1>c DEF IInv, Notifying, WorkersDrain, NoLostWakeup, Run, TypeOK
  <2>4. QED BY <2>2, <2>3 DEF IInv
<1>8. ASSUME NEW from, NEW to \in {"joining", "draining"}, Close(from, to) PROVE IInv'
  <2>1. waiting' = {}
    BY <1>8 DEF Close, Wake
  <2>2. /\ wpc' \in [Consumers -> {"dequeue", "wait", "run", "exited"}]
        /\ \A c \in Consumers : wpc'[c] = "exited" => wpc[c] = "exited"
    BY <1>8, <1>c DEF Close, Wake, TypeOK
  <2>3. TypeOK'
    BY <1>8, <1>c, <2>1, <2>2 DEF Close, TypeOK
  <2>4. Notifying' /\ WorkersDrain' /\ NoLostWakeup'
    BY <1>8, <1>c, <2>1, <2>2
       DEF IInv, Notifying, WorkersDrain, NoLostWakeup, Close
  <2>5. QED BY <2>3, <2>4 DEF IInv
<1>9. ASSUME JoinWorkers \/ BufferFreed PROVE IInv'
  BY <1>9, <1>c DEF JoinWorkers, BufferFreed, IInv, TypeOK, Notifying, WorkersDrain, NoLostWakeup
<1>10. ASSUME UNCHANGED vars PROVE IInv'
  BY <1>10 DEF vars, IInv, TypeOK, Notifying, WorkersDrain, NoLostWakeup
<1>11. CASE OwnerStep
  BY <1>8, <1>9, <1>11 DEF OwnerStep, Shutdown, CloseQueue, DestroyQueue
<1>12. CASE \E p \in Producers : Enque(p) \/ EnqueRefused(p) \/ Notify(p)
  BY <1>1, <1>2, <1>10, <1>12 DEF EnqueRefused
<1>13. CASE \E w \in Workers : WorkerStep(w) \/ SpuriousWake(w)
  BY <1>c, <1>3, <1>4, <1>5, <1>6, <1>7, <1>13 DEF WorkerStep, DequeWait
<1>14. CASE \E c \in Pollers : TryDeque(c) \/ Run(c)
  BY <1>c, <1>3, <1>7, <1>14 DEF TryDeque
<1>15. QED BY <1>10, <1>11, <1>12, <1>13, <1>14 DEF Next, Terminated

LEMMA Invariance == Spec => []IInv
BY IndInit, IndStep, PTL DEF Spec

\* Sizes and positions stay in range, although they are unsigned words.
THEOREM TypeCorrect == Spec => []TypeOK
<1>1. IInv => TypeOK
  BY DEF IInv
<1>2. QED BY <1>1, Invariance, PTL

\* Workers never all sleep on queued work, nor anybody on a closed queue.
THEOREM WakeupsKept == Spec => []NoLostWakeup
<1>1. IInv => NoLostWakeup
  BY DEF IInv
<1>2. QED BY <1>1, Invariance, PTL

\* No worker leaves while a task is queued.
THEOREM WorkersDrainFirst == Spec => []WorkersDrain
<1>1. IInv => WorkersDrain
  BY DEF IInv
<1>2. QED BY <1>1, Invariance, PTL

-----------------------------------------------------------------------------
(* The queue implements the bounded FIFO, whatever the ring wraps around at. *)

\* A cell's position does not depend on the width of the index.
LEMMA CellMod ==
    ASSUME start \in 0 .. Word - 1, NEW i \in Nat
    PROVE  Cell(i) = (start + i) % Capacity
<1>1. Capacity \in Nat /\ Capacity > 0 /\ Word \in Nat /\ Word > 0 /\ Word % Capacity = 0
  BY QueueAssumption
<1>2. start + i \in Nat
  BY <1>1
<1>3. QED BY <1>1, <1>2, ModOfMod DEF Cell

\* Two positions in the ring never share a cell.
LEMMA CellsApart ==
    ASSUME start \in 0 .. Word - 1,
           NEW i \in 0 .. Capacity - 1, NEW j \in 0 .. Capacity - 1, i # j
    PROVE  Cell(i) # Cell(j)
<1>1. Capacity \in Nat /\ Capacity > 0 /\ Word \in Nat
  BY QueueAssumption
<1>2. Cell(i) = (start + i) % Capacity /\ Cell(j) = (start + j) % Capacity
  BY <1>1, CellMod
<1>3. start + i # start + j
  BY <1>1
<1>4. (start + i) % Capacity # (start + j) % Capacity
  <2> DEFINE x == start + i
             y == start + j
  <2>1. x # y
    BY <1>3
  <2>2. x \in Nat /\ y \in Nat
    BY <1>1
  <2>3. x - Capacity < y /\ y < x + Capacity
    BY <1>1
  <2> HIDE DEF x, y
  <2>4. x % Capacity # y % Capacity
    BY <1>1, <2>1, <2>2, <2>3, ModInjective
  <2>5. QED BY <2>4 DEF x, y
<1>5. QED BY <1>2, <1>4

\* Advancing start moves every position one cell on, across the wrap too.
LEMMA CellAdvance ==
    ASSUME start \in 0 .. Word - 1, start' = (start + 1) % Word, NEW i \in Nat
    PROVE  Cell(i)' = Cell(i + 1)
<1>1. Capacity \in Nat /\ Capacity > 0 /\ Word \in Nat /\ Word > 0 /\ Word % Capacity = 0
  BY QueueAssumption
<1>2. Cell(i + 1) = (start + (i + 1)) % Capacity
  BY CellMod
<1>3. CASE start + 1 < Word
  <2>1. start' = start + 1 /\ start' + i = start + (i + 1)
    BY <1>1, <1>3
  <2>2. (start' + i) % Word = (start + (i + 1)) % Word
    BY <2>1
  <2>3. QED BY <2>2 DEF Cell
<1>4. CASE start + 1 = Word
  <2>1. start' = 0
    BY <1>1, <1>4
  <2>2. Cell(i)' = (i % Word) % Capacity
    BY <2>1 DEF Cell
  <2>3. start + (i + 1) = i + Word
    BY <1>1, <1>4
  <2>4. (i + Word) % Word = i % Word
    BY <1>1, ModAddLap
  <2>5. QED BY <2>2, <2>3, <2>4 DEF Cell
<1>5. start + 1 < Word \/ start + 1 = Word
  BY <1>1
<1>6. QED BY <1>3, <1>4, <1>5

LEMMA ContentsType ==
    ASSUME TypeOK
    PROVE  Contents \in Seq(Task \cup {NoTask}) /\ Len(Contents) = size
<1>1. Capacity \in Nat /\ size \in Nat
  BY QueueAssumption DEF TypeOK
<1>2. \A i \in 1 .. size : buffer[Cell(i - 1)] \in Task \cup {NoTask}
  <2>1. TAKE i \in 1 .. size
  <2>2. i - 1 \in Nat
    BY <1>1
  <2>3. Cell(i - 1) \in 0 .. Capacity - 1
    BY <2>2, CellType DEF TypeOK
  <2>4. QED BY <2>3 DEF TypeOK
<1>3. Contents \in [1 .. size -> Task \cup {NoTask}]
  BY <1>2 DEF Contents
<1>4. QED BY <1>1, <1>3

\* An accepted task goes to the end of the contents and disturbs none of them.
LEMMA EnqueRefines ==
    ASSUME IInv, NEW p \in Producers, Enque(p)
    PROVE  Fifo!Put(<<p, next[p]>>)
<1>1. TypeOK /\ Capacity \in Nat /\ Capacity > 0 /\ Word \in Nat /\ Word > Capacity
  BY QueueAssumption DEF IInv
<1>2. size \in 0 .. Capacity - 1
  BY <1>1, FullMeansFull DEF Enque, TypeOK
<1>3. size' = size + 1
  BY <1>1, <1>2 DEF Enque
<1>4. \A i \in 0 .. size : Cell(i)' = Cell(i)
  BY DEF Enque, Cell
<1>5. \A i \in 0 .. size - 1 : buffer'[Cell(i)] = buffer[Cell(i)]
  <2>1. TAKE i \in 0 .. size - 1
  <2>2. Cell(i) # Cell(size)
    BY <1>1, <1>2, CellsApart DEF TypeOK
  <2>3. Cell(i) \in 0 .. Capacity - 1
    BY SMTT(30), <1>1, <1>2, CellType DEF TypeOK
  <2>4. QED BY <1>1, <2>2, <2>3 DEF Enque, TypeOK
<1>6. buffer'[Cell(size)] = <<p, next[p]>>
  <2>1. Cell(size) \in 0 .. Capacity - 1
    BY SMTT(30), <1>1, <1>2, CellType DEF TypeOK
  <2>2. QED BY <1>1, <2>1 DEF Enque, TypeOK
<1>7. Contents' = [i \in 1 .. size + 1 |-> buffer'[Cell(i - 1)']]
  BY <1>3 DEF Contents
<1>8. \A i \in 1 .. size + 1 :
          buffer'[Cell(i - 1)'] = IF i = size + 1 THEN <<p, next[p]>> ELSE Contents[i]
  <2>1. TAKE i \in 1 .. size + 1
  <2>2. i - 1 \in 0 .. size /\ Cell(i - 1)' = Cell(i - 1)
    BY <1>2, <1>4
  <2>3. CASE i = size + 1
    <3>1. i - 1 = size
      BY <1>2, <2>3
    <3>2. QED BY <1>6, <2>2, <2>3, <3>1
  <2>4. CASE i # size + 1
    <3>1. i - 1 \in 0 .. size - 1 /\ i \in 1 .. size
      BY <1>2, <2>4
    <3>2. Contents[i] = buffer[Cell(i - 1)]
      BY <3>1 DEF Contents
    <3>3. QED BY <1>5, <2>2, <2>4, <3>1, <3>2
  <2>5. QED BY <2>3, <2>4
<1>9. Contents' = Append(Contents, <<p, next[p]>>)
  <2>1. Len(Contents) = size
    BY <1>1, ContentsType
  <2>2. Append(Contents, <<p, next[p]>>)
            = [i \in 1 .. size + 1 |-> IF i = size + 1 THEN <<p, next[p]>> ELSE Contents[i]]
    BY <2>1
  <2>3. QED BY <1>7, <1>8, <2>2
<1>10. Len(Contents) < Capacity /\ task' = task
  BY <1>1, <1>2, ContentsType DEF Enque
<1>11. QED BY <1>9, <1>10 DEF Fifo!Put

\* What is taken is the oldest task, and the others move up.
LEMMA PopRefines ==
    ASSUME IInv, NEW c \in Consumers, Pop(c)
    PROVE  Fifo!Take(c)
<1>1. TypeOK /\ Capacity \in Nat /\ Capacity > 0 /\ Word \in Nat /\ Word > Capacity
  BY QueueAssumption DEF IInv
<1>2. size \in 1 .. Capacity /\ size' = size - 1
  BY <1>1 DEF Pop, TypeOK
<1>3. Contents \in Seq(Task \cup {NoTask}) /\ Len(Contents) = size
  BY <1>1, ContentsType
<1>4. Contents # <<>>
  BY <1>2, <1>3
<1>5. Head(Contents) = buffer[Cell(0)]
  <2>1. Head(Contents) = Contents[1]
    BY <1>3, <1>4
  <2>2. 1 \in 1 .. size /\ 1 - 1 = 0
    BY <1>2
  <2>3. Contents[1] = buffer[Cell(1 - 1)]
    BY <2>2 DEF Contents
  <2>4. QED BY <2>1, <2>2, <2>3
<1>6. Contents' = [i \in 1 .. size - 1 |-> buffer'[Cell(i - 1)']]
  BY <1>2 DEF Contents
<1>7. \A i \in 1 .. size - 1 : buffer'[Cell(i - 1)'] = Contents[i + 1]
  <2>1. TAKE i \in 1 .. size - 1
  <2>2. i - 1 \in Nat /\ i - 1 + 1 = i /\ i + 1 \in 1 .. size /\ i + 1 - 1 = i
    BY <1>2
  <2>3. Cell(i - 1)' = Cell(i)
    <3>1. Cell(i - 1)' = Cell(i - 1 + 1)
      BY <1>1, <2>2, CellAdvance DEF Pop, TypeOK
    <3>2. QED BY <2>2, <3>1
  <2>4. Contents[i + 1] = buffer[Cell(i)]
    <3>1. Contents[i + 1] = buffer[Cell(i + 1 - 1)]
      BY <2>2 DEF Contents
    <3>2. QED BY <2>2, <3>1
  <2>5. buffer' = buffer
    BY DEF Pop
  <2>6. QED BY <2>3, <2>4, <2>5
<1>8. Tail(Contents) = [i \in 1 .. size - 1 |-> Contents[i + 1]]
  <2>1. /\ Tail(Contents) \in Seq(Task \cup {NoTask}) /\ Len(Tail(Contents)) = size - 1
        /\ \A i \in 1 .. Len(Tail(Contents)) : Tail(Contents)[i] = Contents[i + 1]
    BY <1>3, <1>4, HeadTailProperties
  <2>2. Tail(Contents) = [i \in 1 .. size - 1 |-> Tail(Contents)[i]]
    BY <2>1, LenProperties
  <2>3. QED BY <2>1, <2>2
<1>9. Contents' = Tail(Contents)
  BY <1>6, <1>7, <1>8
<1>10. task' = [task EXCEPT ![c] = Head(Contents)]
  BY <1>5 DEF Pop
<1>11. QED BY <1>4, <1>9, <1>10 DEF Fifo!Take

\* Steps that leave the ring alone are invisible to the queue's callers.
LEMMA IdleRefines ==
    ASSUME UNCHANGED <<start, size, buffer, task>>
    PROVE  UNCHANGED Fifo!vars
BY DEF Fifo!vars, Contents, Cell

\* Every step of the threads is a step of the FIFO or none at all.
LEMMA StepRefines == IInv /\ [Next]_vars => [Fifo!Next]_Fifo!vars
<1> SUFFICES ASSUME IInv, [Next]_vars
             PROVE  \/ \E t \in Task : Fifo!Put(t)
                    \/ \E c \in Consumers : Fifo!Take(c)
                    \/ UNCHANGED Fifo!vars
  BY DEF Fifo!Next
<1> DEFINE Idle == UNCHANGED <<start, size, buffer, task>>
<1>c. Workers \subseteq Consumers /\ Pollers \subseteq Consumers /\ TypeOK /\ Tasks \in Nat
  BY QueueAssumption DEF Consumers, IInv
<1>1. CASE \E p \in Producers : Enque(p)
  <2>1. PICK p \in Producers : Enque(p)
    BY <1>1
  <2>2. <<p, next[p]>> \in Task
    BY <1>c, <2>1 DEF Enque, HasTask, TypeOK, Task
  <2>3. QED BY <2>1, <2>2, EnqueRefines
<1>2. CASE \E c \in Consumers : Pop(c)
  BY <1>2, PopRefines
<1>3. CASE Idle
  BY <1>3, IdleRefines
<1>4. CASE UNCHANGED vars
  BY <1>3, <1>4 DEF vars
<1>5. CASE \E p \in Producers : EnqueRefused(p) \/ Notify(p)
  BY <1>3, <1>4, <1>5 DEF EnqueRefused, Notify
<1>6. CASE \E w \in Workers : WorkerStep(w) \/ SpuriousWake(w)
  BY <1>c, <1>2, <1>3, <1>6
     DEF WorkerStep, DequeWait, DequeClosed, Sleep, Run, SpuriousWake
<1>7. CASE \E c \in Pollers : TryDeque(c) \/ Run(c)
  BY <1>c, <1>2, <1>3, <1>7 DEF TryDeque, Run
<1>8. CASE OwnerStep
  BY <1>3, <1>8 DEF OwnerStep, Shutdown, CloseQueue, DestroyQueue, Close, JoinWorkers, BufferFreed
<1> HIDE DEF Idle
<1>9. QED BY <1>1, <1>2, <1>4, <1>5, <1>6, <1>7, <1>8 DEF Next, Terminated

\* The queue between the producers and the task workers is a bounded FIFO:
\* whatever the interleaving, tasks are handed out once, in the order tryEnque
\* accepted them, and a refused call changes nothing.
THEOREM QueueIsFifo == Spec => ImplementsFifo
<1>1. Init => Fifo!Init
  <2> SUFFICES ASSUME Init PROVE Contents = <<>> /\ task = [c \in Consumers |-> NoTask]
    BY DEF Fifo!Init
  <2>1. Contents = [i \in 1 .. 0 |-> buffer[Cell(i - 1)]]
    BY DEF Init, Contents
  <2>2. QED BY <2>1 DEF Init
<1>2. QED BY <1>1, Invariance, StepRefines, PTL DEF Spec, ImplementsFifo, Fifo!Spec
=============================================================================
