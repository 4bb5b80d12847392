-------------------------------- MODULE RWLock --------------------------------
(***************************************************************************)
(* The reader-writer lock of libruntime (rwlock.h), which Logger takes     *)
(* around its chain of sinks.  The whole lock is one unsigned: 0 is free,  *)
(* ~0U is held by a writer, anything else is the number of readers.        *)
(*                                                                         *)
(* The lock keeps no identity, so a client here is one use of the lock: a  *)
(* thread that locks it for reading twice is two clients.                  *)
(*                                                                         *)
(* Two specifications share the actions.  LockSpec lets every client call  *)
(* every operation at any time.  CarefulLockSpec is the use the            *)
(* repository's test makes of the lock, and the most its lock() can bear:  *)
(* tryLock and unlock interleave freely, and lock() is called only when    *)
(* nothing else is going on and it can be granted at once.                 *)
(*                                                                         *)
(* compare_exchange_weak is taken not to fail spuriously, as on x86.       *)
(*                                                                         *)
(* Operators named X_Fault are faulty variants of X that the mutation      *)
(* checks put in its place; no specification uses them.                    *)
(***************************************************************************)
EXTENDS Naturals, FiniteSets

CONSTANTS
    Clients,    \* the uses of the lock
    Word        \* the number of values of an unsigned

ASSUME ClientsAssumption == IsFiniteSet(Clients)
ASSUME WordAssumption == Word \in Nat /\ Word > 1

VARIABLES
    lock,       \* RWLock::_lock
    pc,         \* where each client is
    expected    \* the local of Reader::lock, Reader::tryLock, Writer::lock

lockVars == <<lock, pc, expected>>

Free == 0
Exclusive == Word - 1      \* ~0U

LockTypeOK ==
    /\ lock \in 0 .. Word - 1
    /\ pc \in [Clients -> {"out", "readLoop", "readTry", "writeLoop",
                           "reading", "writing"}]
    /\ expected \in [Clients -> 0 .. Word - 1]

LockInit ==
    /\ lock = Free
    /\ pc = [c \in Clients |-> "out"]
    /\ expected = [c \in Clients |-> Free]

Goto(c, label) == pc' = [pc EXCEPT ![c] = label]

(***************************************************************************)
(* Readers.  Reader::lock loops WHILE its exchange succeeds, and leaves,   *)
(* believing it holds the lock, on the first one that fails.  A reader     *)
(* whose `expected` is ~0U evaluates only the first operand of the loop's  *)
(* condition, for ever: it has no step.                                    *)
(***************************************************************************)
ReaderLock(c) ==
    /\ pc[c] = "out"
    /\ expected' = [expected EXCEPT ![c] = lock]
    /\ Goto(c, "readLoop")
    /\ UNCHANGED lock

ReaderLoop(c) ==
    /\ pc[c] = "readLoop"
    /\ expected[c] # Exclusive
    /\ \/ /\ lock = expected[c]
          /\ lock' = (lock + 1) % Word
          /\ UNCHANGED <<pc, expected>>
       \/ /\ lock # expected[c]
          /\ expected' = [expected EXCEPT ![c] = lock]
          /\ Goto(c, "reading")
          /\ UNCHANGED lock

ReaderTryLock_Fault(c) ==    \* forgets to look for a writer
    /\ pc[c] = "out"
    /\ expected' = [expected EXCEPT ![c] = lock]
    /\ Goto(c, "readTry")
    /\ UNCHANGED lock

ReaderTryLock(c) ==
    /\ pc[c] = "out"
    /\ lock # Exclusive
    /\ expected' = [expected EXCEPT ![c] = lock]
    /\ Goto(c, "readTry")
    /\ UNCHANGED lock

ReaderTryExchange_Fault(c) ==    \* a load and a store instead of an exchange
    /\ pc[c] = "readTry"
    /\ lock' = (expected[c] + 1) % Word
    /\ Goto(c, "reading")
    /\ UNCHANGED expected

ReaderTryExchange(c) ==
    /\ pc[c] = "readTry"
    /\ \/ /\ lock = expected[c]
          /\ lock' = (lock + 1) % Word
          /\ Goto(c, "reading")
       \/ /\ lock # expected[c]
          /\ Goto(c, "out")
          /\ UNCHANGED lock
    /\ UNCHANGED expected

ReaderUnlock(c) ==
    /\ pc[c] = "reading"
    /\ lock' = (lock + Exclusive) % Word
    /\ Goto(c, "out")
    /\ UNCHANGED expected

(***************************************************************************)
(* Writers.  Writer::lock has the same inverted loop.                      *)
(***************************************************************************)
WriterLock(c) ==
    /\ pc[c] = "out"
    /\ expected' = [expected EXCEPT ![c] = Free]
    /\ Goto(c, "writeLoop")
    /\ UNCHANGED lock

WriterLoop(c) ==
    /\ pc[c] = "writeLoop"
    /\ \/ /\ lock = expected[c]
          /\ lock' = Exclusive
          /\ UNCHANGED <<pc, expected>>
       \/ /\ lock # expected[c]
          /\ expected' = [expected EXCEPT ![c] = lock]
          /\ Goto(c, "writing")
          /\ UNCHANGED lock

WriterTryLock(c) ==    \* a refused tryLock changes nothing
    /\ pc[c] = "out"
    /\ lock = Free
    /\ lock' = Exclusive
    /\ Goto(c, "writing")
    /\ UNCHANGED expected

WriterUnlock(c) ==
    /\ pc[c] = "writing"
    /\ lock' = Free
    /\ Goto(c, "out")
    /\ UNCHANGED expected

(***************************************************************************)
(* The two specifications                                                  *)
(***************************************************************************)
Unlock(c) == ReaderUnlock(c) \/ WriterUnlock(c)
TryLock(c) ==
    ReaderTryLock(c) \/ ReaderTryExchange(c) \/ WriterTryLock(c)
Lock(c) ==
    ReaderLock(c) \/ ReaderLoop(c) \/ WriterLock(c) \/ WriterLoop(c)

Locking == {c \in Clients : pc[c] \in {"readLoop", "writeLoop"}}
Settled == \A c \in Clients : pc[c] \in {"out", "reading", "writing"}
LockGranted(c) ==
    \/ lock # Exclusive /\ ReaderLock(c)
    \/ lock = Free /\ WriterLock(c)

LockNext == \E c \in Clients : Lock(c) \/ TryLock(c) \/ Unlock(c)
CarefulLockNext ==
    \E c \in Clients :
        \/ ReaderLoop(c) \/ WriterLoop(c)
        \/ Locking = {} /\ (TryLock(c) \/ Unlock(c) \/ (Settled /\ LockGranted(c)))

LockSpec == LockInit /\ [][LockNext]_lockVars
CarefulLockSpec == LockInit /\ [][CarefulLockNext]_lockVars

(***************************************************************************)
(* Properties                                                              *)
(***************************************************************************)
Reading == {c \in Clients : pc[c] = "reading"}
Writing == {c \in Clients : pc[c] = "writing"}

\* A writer is alone: while one client is between its writer lock and unlock,
\* no other client is in a section of either kind (what attach, detach and
\* _dispatch of the Logger rely on).
Exclusion == \A w \in Writing : Reading = {} /\ Writing = {w}

\* No reader is inside while a writer is, what the test's "writer-reader-writer"
\* section says of a reader that comes while the writer holds the lock.
ReadersKeptOut == Writing = {} \/ Reading = {}

\* Unless a lock() is under way the word says exactly who is inside: ~0U for a
\* writer, else the number of readers, the count that fetch_sub of each reader
\* undoes, whatever exchanges of other readers are pending.  A lost or doubled
\* increment leaves the lock taken for ever, or free too early.
CountExact ==
    Locking = {} =>
        lock = IF Writing # {} THEN Exclusive ELSE Cardinality(Reading)

=============================================================================
