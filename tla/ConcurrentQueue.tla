-------------------------- MODULE ConcurrentQueue --------------------------
(***************************************************************************)
(* up::ConcurrentQueue and the up::TaskWorker threads that serve it: a     *)
(* ring behind one mutex, a condition variable for idle consumers, close,  *)
(* and destruction once everybody has been joined.                         *)
(*                                                                         *)
(* A critical section is one step.  What happens outside the mutex is a    *)
(* step of its own: the notify_one after the unlock, the wake-up of a      *)
(* sleeping thread, and the run of a task.                                 *)
(*                                                                         *)
(* A definition named X_Fault is a faulty variant of X, for mutation runs. *)
(***************************************************************************)
EXTENDS Integers, FiniteSets

CONSTANTS
    Producers,      \* threads that call enqueWait
    Workers,        \* TaskWorker threads, in dequeWait
    Pollers,        \* threads that call tryDeque
    NoTask,
    Tasks,          \* bound: how many tasks each producer has
    Capacity,       \* constructor argument
    Word            \* 2^32 in the code

ASSUME QueueAssumption ==
    /\ Capacity \in Nat \ {0}
    /\ Word \in Nat /\ Word > Capacity /\ Word % Capacity = 0
    /\ Tasks \in Nat
    /\ Workers \cap Pollers = {}
    /\ NoTask \notin Producers \X (1 .. Tasks)

VARIABLES
    closed, start, size, buffer,    \* the members of the queue
    waiting,                        \* threads asleep in _condition
    next, ppc,                      \* producers: task in hand, where they are
    wpc, task,                      \* consumers: where they are, what they took last
    runs,                           \* how often each task has been run
    owner                           \* where the owner of queue and workers is

vars == <<closed, start, size, buffer, waiting, next, ppc, wpc, task, runs, owner>>

Task      == Producers \X (1 .. Tasks)
Consumers == Workers \cup Pollers

Cell(i) == ((start + i) % Word) % Capacity

Init ==
    /\ closed = FALSE
    /\ start = 0
    /\ size = 0
    /\ buffer = [i \in 0 .. Capacity - 1 |-> NoTask]
    /\ waiting = {}
    /\ next = [p \in Producers |-> 1]
    /\ ppc = [p \in Producers |-> "enqueue"]
    /\ wpc = [c \in Consumers |-> "dequeue"]
    /\ task = [c \in Consumers |-> NoTask]
    /\ runs = [t \in Task |-> 0]
    /\ owner = "working"

-----------------------------------------------------------------------------
(* Producers: while (!tryEnque(value)) yield; *)

\* _size - 1 == _mask, in unsigned arithmetic.
Full == (size - 1) % Word = Capacity - 1

HasTask(p) == ppc[p] = "enqueue" /\ next[p] <= Tasks

\* tryEnque up to the unlock.
Enque(p) ==
    /\ HasTask(p)
    /\ ~closed
    /\ ~Full
    /\ buffer' = [buffer EXCEPT ![Cell(size)] = <<p, next[p]>>]
    /\ size' = (size + 1) % Word
    /\ ppc' = [ppc EXCEPT ![p] = "notify"]
    /\ UNCHANGED <<closed, start, waiting, next, wpc, task, runs, owner>>

\* tryEnque returns false: enqueWait yields and tries again, for ever when closed.
EnqueRefused(p) ==
    /\ HasTask(p)
    /\ closed \/ Full
    /\ UNCHANGED vars

Wake(threads) ==
    /\ waiting' = waiting \ threads
    /\ wpc' = [c \in Consumers |-> IF c \in threads THEN "dequeue" ELSE wpc[c]]

\* notify_one, after the mutex has been released.
Notify_Fault(p) ==
    /\ ppc[p] = "notify"
    /\ ppc' = [ppc EXCEPT ![p] = "enqueue"]
    /\ next' = [next EXCEPT ![p] = @ + 1]
    /\ UNCHANGED <<closed, start, size, buffer, waiting, wpc, task, runs, owner>>
Notify(p) ==
    /\ ppc[p] = "notify"
    /\ \/ \E w \in waiting : Wake({w})
       \/ waiting = {} /\ UNCHANGED <<waiting, wpc>>
    /\ ppc' = [ppc EXCEPT ![p] = "enqueue"]
    /\ next' = [next EXCEPT ![p] = @ + 1]
    /\ UNCHANGED <<closed, start, size, buffer, task, runs, owner>>

-----------------------------------------------------------------------------
(* Consumers *)

\* Take the oldest value, under the mutex.
Pop_Fault(c) ==
    /\ size # 0
    /\ task' = [task EXCEPT ![c] = buffer[Cell(0)]]
    /\ size' = size - 1
    /\ wpc' = [wpc EXCEPT ![c] = "run"]
    /\ UNCHANGED <<closed, start, buffer, waiting, next, ppc, runs, owner>>
Pop(c) ==
    /\ size # 0
    /\ task' = [task EXCEPT ![c] = buffer[Cell(0)]]
    /\ start' = (start + 1) % Word
    /\ size' = size - 1
    /\ wpc' = [wpc EXCEPT ![c] = "run"]
    /\ UNCHANGED <<closed, buffer, waiting, next, ppc, runs, owner>>

\* dequeWait with a value available, called anew or woken up.
DequeWait(w) == wpc[w] = "dequeue" /\ Pop(w)

\* dequeWait returns false once the queue is closed and drained; the worker's
\* thread ends.
DequeClosed_Fault(w) ==
    /\ wpc[w] = "dequeue"
    /\ closed
    /\ wpc' = [wpc EXCEPT ![w] = "exited"]
    /\ UNCHANGED <<closed, start, size, buffer, waiting, next, ppc, task, runs, owner>>
DequeClosed(w) ==
    /\ wpc[w] = "dequeue"
    /\ size = 0
    /\ closed
    /\ wpc' = [wpc EXCEPT ![w] = "exited"]
    /\ UNCHANGED <<closed, start, size, buffer, waiting, next, ppc, task, runs, owner>>

\* The predicate of the wait: sleep while there is nothing to do.
MustWait_Fault == size = 0
MustWait == size = 0 /\ ~closed

Sleep(w) ==
    /\ wpc[w] = "dequeue"
    /\ MustWait
    /\ waiting' = waiting \cup {w}
    /\ wpc' = [wpc EXCEPT ![w] = "wait"]
    /\ UNCHANGED <<closed, start, size, buffer, next, ppc, task, runs, owner>>

\* A condition variable may wake without a notification.
SpuriousWake(w) ==
    /\ w \in waiting
    /\ Wake({w})
    /\ UNCHANGED <<closed, start, size, buffer, next, ppc, task, runs, owner>>

\* tryDeque by a thread that never sleeps.
TryDeque(c) == wpc[c] = "dequeue" /\ Pop(c)

\* task(), outside the mutex.
Run(c) ==
    /\ wpc[c] = "run"
    /\ runs' = [runs EXCEPT ![task[c]] = @ + 1]
    /\ wpc' = [wpc EXCEPT ![c] = "dequeue"]
    /\ UNCHANGED <<closed, start, size, buffer, waiting, next, ppc, task, owner>>

-----------------------------------------------------------------------------
(* The owner: close, join the workers, destroy the queue *)

ProducersDone == \A p \in Producers : ppc[p] = "enqueue" /\ next[p] > Tasks

Close(from, to) ==
    /\ owner = from
    /\ closed' = TRUE
    /\ Wake(waiting)
    /\ owner' = to
    /\ UNCHANGED <<start, size, buffer, next, ppc, task, runs>>

\* The owner may close while producers still have tasks.
CloseQueue == Close("working", "joining")

\* ~TaskWorker and join.
JoinWorkers ==
    /\ owner = "joining"
    /\ \A w \in Workers : wpc[w] = "exited"
    /\ owner' = "joined"
    /\ UNCHANGED <<closed, start, size, buffer, waiting, next, ppc, wpc, task, runs>>

\* ~ConcurrentQueue: close() again, then waitUntilEmpty(), then the buffer goes.
DestroyQueue == ProducersDone /\ Close("joined", "draining")

BufferFreed ==
    /\ owner = "draining"
    /\ size = 0
    /\ owner' = "destroyed"
    /\ UNCHANGED <<closed, start, size, buffer, waiting, next, ppc, wpc, task, runs>>

\* Nothing is left to do.
Terminated == owner = "destroyed" /\ UNCHANGED vars

-----------------------------------------------------------------------------

WorkerStep(w) == DequeWait(w) \/ DequeClosed(w) \/ Sleep(w) \/ Run(w)
Shutdown == JoinWorkers \/ DestroyQueue \/ BufferFreed
OwnerStep == CloseQueue \/ Shutdown

Next ==
    \/ \E p \in Producers : Enque(p) \/ EnqueRefused(p) \/ Notify(p)
    \/ \E w \in Workers : WorkerStep(w) \/ SpuriousWake(w)
    \/ \E c \in Pollers : TryDeque(c) \/ Run(c)
    \/ OwnerStep
    \/ Terminated

Spec == Init /\ [][Next]_vars

\* Every thread is scheduled; the mutex is not starved for ever; but a poller
\* need not poll, no thread need wake spuriously, and the owner need not close:
\* it goes on with a shutdown that it has begun.
Fairness ==
    /\ \A p \in Producers : WF_vars(Enque(p)) /\ WF_vars(Notify(p))
    /\ \A w \in Workers : WF_vars(WorkerStep(w))
    /\ \A c \in Pollers : WF_vars(Run(c))
    /\ WF_vars(Shutdown)

FairSpec == Spec /\ Fairness

-----------------------------------------------------------------------------

TypeOK ==
    /\ closed \in BOOLEAN
    /\ start \in 0 .. Word - 1
    /\ size \in 0 .. Capacity
    /\ buffer \in [0 .. Capacity - 1 -> Task \cup {NoTask}]
    /\ waiting \subseteq Workers
    /\ next \in [Producers -> 1 .. Tasks + 1]
    /\ ppc \in [Producers -> {"enqueue", "notify"}]
    /\ wpc \in [Consumers -> {"dequeue", "wait", "run", "exited"}]
    /\ task \in [Consumers -> Task \cup {NoTask}]
    /\ runs \in [Task -> Nat]
    /\ owner \in {"working", "joining", "joined", "draining", "destroyed"}

\* What is in the queue, oldest first.
Contents == [i \in 1 .. size |-> buffer[Cell(i - 1)]]

\* Tasks that tryEnque has accepted.
Accepted == {t \in Task : \/ t[2] < next[t[1]]
                          \/ t[2] = next[t[1]] /\ ppc[t[1]] = "notify"}

\* A worker's thread never ends while a task is queued.
WorkersDrain == (\E w \in Workers : wpc[w] = "exited") => size = 0 /\ closed

\* No wake-up is lost: while tasks are queued, all workers are asleep only for
\* as long as the producer of one of them has yet to notify, or a poller has
\* been given what was announced; and nobody sleeps on a closed queue.
NoLostWakeup ==
    /\ size > 0 /\ Workers # {} /\ waiting = Workers
           => \E p \in Producers : ppc[p] = "notify"
    /\ closed => waiting = {}

\* Tasks of one producer leave the queue in the order they were enqueued; the
\* queue implements a bounded FIFO.
Fifo == INSTANCE BoundedFifo WITH
    Value <- Task, NoItem <- NoTask, queue <- Contents, got <- task
ImplementsFifo == Fifo!Spec

\* A task that was accepted is run, also when the queue is never closed: there is
\* then no notify_all to make up for a wake-up that was lost.
EveryTaskRuns == \A t \in Task : t \in Accepted ~> runs[t] > 0

\* Once the queue is closed, whatever is in it and whoever sleeps, the workers'
\* threads end and the join returns; so does the destructor once no producer is left.
ShutdownCompletes ==
    /\ owner = "joining" ~> owner # "joining"
    /\ owner # "working" /\ ProducersDone ~> owner = "destroyed"
=============================================================================
