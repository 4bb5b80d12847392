------------------------------- MODULE MCQueues -------------------------------
(***************************************************************************)
(* Whether the two queues get anything done.  They share nothing, and are    *)
(* explored in one run: a behaviour is one of `subject` alone.               *)
(*                                                                         *)
(* "queue": two producers, two workers and a thread that polls, on a          *)
(* ConcurrentQueue of two.  "producers", "consumers": two threads of that     *)
(* kind and one of the other, on a LockFreeQueue with words so small that     *)
(* its tickets wrap.                                                         *)
(***************************************************************************)
EXTENDS ConcurrentQueue

CONSTANTS p1, p2, w1, w2, c1, c2, v1

VARIABLES enque, deque, sequence, cells, pc, target, delta, item, subject

ringVars == <<enque, deque, sequence, cells, pc, target, delta, item>>

Ring == INSTANCE LockFreeQueue WITH
    Consumers <- {c1, c2}, Value <- {v1}, NoItem <- NoTask, Word <- 6,
    MaxLag <- 1, MaxTicket <- 6, buffer <- cells

QueuesInit ==
    /\ subject \in {"queue", "producers", "consumers"}
    /\ Init /\ Ring!Init

\* One of the four threads of the lock-free queue never starts a call.
OneAbsent == pc'[IF subject = "producers" THEN c2 ELSE p2] = "idle"

QueuesNext ==
    /\ UNCHANGED subject
    /\ \/ subject = "queue" /\ Next /\ UNCHANGED ringVars
       \/ subject # "queue" /\ Ring!Next /\ OneAbsent /\ UNCHANGED vars

\* The fairness of the concurrent queue, where it is the subject.
InQueue(step) == subject = "queue" /\ step /\ UNCHANGED ringVars

QueuesFairness ==
    /\ \A p \in Producers : WF_vars(InQueue(Enque(p))) /\ WF_vars(InQueue(Notify(p)))
    /\ \A w \in Workers : WF_vars(InQueue(WorkerStep(w)))
    /\ \A c \in Pollers : WF_vars(InQueue(Run(c)))
    /\ WF_vars(InQueue(Shutdown))

QueuesSpec ==
    /\ QueuesInit /\ [][QueuesNext]_<<subject, vars, ringVars>>
    /\ QueuesFairness

RetriesLose == Ring!RetriesLose

\* The shutdown of the concurrent queue, where it is the subject.
ShutsDown == subject = "queue" => ShutdownCompletes
=============================================================================
