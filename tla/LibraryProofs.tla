----------------------------- MODULE LibraryProofs -----------------------------
(***************************************************************************)
(* Machine-checked safety of four parts of the libraries that share        *)
(* nothing: the reader-writer lock, the file hash cache, the hash table    *)
(* and the vector.                                                         *)
(***************************************************************************)
EXTENDS RWLock, FileHashCache, HashTable, Vector,
        FiniteSetTheorems, FunctionTheorems, SequenceTheorems, TLAPS

-----------------------------------------------------------------------------
(***************************************************************************)
(* The reader-writer lock.                                                 *)
(*                                                                         *)
(* Used with care (CarefulLockSpec) the lock is right, for any number of   *)
(* clients and any width of the word, saturation by ~0U readers included.  *)
(* Inductive is what a reader in front of its exchange knows, and how far  *)
(* the inverted loop of a lock() has come: its first exchange has moved    *)
(* the word already, and the failure of its second one lets it in.         *)
(***************************************************************************)

\* Where the one lock() under way can be.
LockingInv ==
    \A c \in Locking :
        /\ Locking = {c} /\ Writing = {}
        /\ pc[c] = "readLoop" =>
              /\ expected[c] = Cardinality(Reading) /\ expected[c] # Exclusive
              /\ lock \in {expected[c], expected[c] + 1}
        /\ pc[c] = "writeLoop" =>
              Reading = {} /\ expected[c] = Free /\ lock \in {Free, Exclusive}

CarefulInv ==
    /\ LockTypeOK
    /\ \A c \in Clients : pc[c] = "readTry" => expected[c] # Exclusive
    /\ LockingInv
    /\ Exclusion
    /\ CountExact

\* Adding a client to a finite set, and taking one out of it, moves the
\* cardinality by one.
LEMMA CountMoves ==
    ASSUME NEW S, IsFiniteSet(S), NEW x
    PROVE  /\ Cardinality(S) \in Nat
           /\ x \notin S => /\ IsFiniteSet(S \cup {x})
                            /\ Cardinality(S \cup {x}) = Cardinality(S) + 1
           /\ x \in S => /\ IsFiniteSet(S \ {x})
                         /\ Cardinality(S \ {x}) = Cardinality(S) - 1
                         /\ Cardinality(S) > 0
  BY FS_AddElement, FS_RemoveElement, FS_CardinalityType, FS_EmptySet

\* The sets of readers and writers are finite.
LEMMA SectionsFinite == IsFiniteSet(Reading) /\ IsFiniteSet(Writing)
  BY FS_Subset, ClientsAssumption DEF Reading, Writing

\* fetch_sub wraps as a word does.
LEMMA Decrement == \A n \in 1 .. Word - 1 : (n + Exclusive) % Word = n - 1
  <1>1. \A n \in 1 .. Word - 1 : n + Exclusive = (n - 1) + Word
    BY WordAssumption DEF Exclusive
  <1>2. \A m \in 0 .. Word - 1 : (m + Word) % Word = m
    BY WordAssumption
  <1> QED BY <1>1, <1>2, WordAssumption

\* Initially the lock is free and nobody is inside.
LEMMA CarefulInit == LockInit => CarefulInv
  <1> SUFFICES ASSUME LockInit PROVE CarefulInv
    OBVIOUS
  <1>1. Reading = {} /\ Writing = {}
    BY DEF LockInit, Reading, Writing
  <1>2. Cardinality(Reading) = 0
    BY <1>1, FS_EmptySet
  <1> QED
    BY <1>1, <1>2, WordAssumption
    DEF LockInit, CarefulInv, LockTypeOK, Exclusion, CountExact, LockingInv, Locking, Free,
        Exclusive

\* tryLock and unlock keep the invariant while no lock() is under way.
LEMMA FreeStep ==
    ASSUME CarefulInv, Locking = {},
           NEW c \in Clients, TryLock(c) \/ Unlock(c)
    PROVE  CarefulInv'
  <1> USE WordAssumption
  <1>1. ASSUME ReaderTryLock(c) PROVE CarefulInv'
    <2>1. Reading' = Reading /\ Writing' = Writing
      BY <1>1 DEF ReaderTryLock, Goto, Reading, Writing, CarefulInv, LockTypeOK
    <2> QED
      BY <1>1, <2>1
      DEF ReaderTryLock, Goto, CarefulInv, LockTypeOK, Exclusion, CountExact,
          LockingInv, Locking, Exclusive
  <1>2. ASSUME ReaderTryExchange(c), lock = expected[c]
        PROVE  CarefulInv'
    <2>1. /\ Reading' = Reading \cup {c} /\ c \notin Reading
          /\ Writing' = Writing
      BY <1>2 DEF ReaderTryExchange, Goto, Reading, Writing, CarefulInv, LockTypeOK
    <2>2. lock # Exclusive /\ Writing = {}
      BY <1>2 DEF ReaderTryExchange, CarefulInv, CountExact
    <2>3. lock' = lock + 1
      BY <1>2, <2>2 DEF ReaderTryExchange, CarefulInv, LockTypeOK, Exclusive
    <2>4. Cardinality(Reading') = Cardinality(Reading) + 1
      BY <2>1, CountMoves, SectionsFinite
    <2> QED
      BY <1>2, <2>1, <2>2, <2>3, <2>4
      DEF ReaderTryExchange, Goto, CarefulInv, LockTypeOK, Exclusion, CountExact,
          LockingInv, Locking, Exclusive
  <1>3. ASSUME ReaderTryExchange(c), lock # expected[c]
        PROVE  CarefulInv'
    <2>1. Reading' = Reading /\ Writing' = Writing
      BY <1>3 DEF ReaderTryExchange, Goto, Reading, Writing, CarefulInv, LockTypeOK
    <2> QED
      BY <1>3, <2>1
      DEF ReaderTryExchange, Goto, CarefulInv, LockTypeOK, Exclusion, CountExact,
          LockingInv, Locking, Exclusive
  <1>4. ASSUME WriterTryLock(c) PROVE CarefulInv'
    <2>1. Writing = {} /\ Cardinality(Reading) = 0
      BY <1>4 DEF WriterTryLock, CarefulInv, CountExact, Free, Exclusive
    <2>2. Reading = {}
      BY <2>1, FS_EmptySet, SectionsFinite
    <2>3. Reading' = Reading /\ Writing' = {c}
      BY <1>4, <2>1 DEF WriterTryLock, Goto, Reading, Writing, CarefulInv, LockTypeOK
    <2> QED
      BY <1>4, <2>2, <2>3
      DEF WriterTryLock, Goto, CarefulInv, LockTypeOK, Exclusion, CountExact,
          LockingInv, Locking, Exclusive
  <1>5. ASSUME ReaderUnlock(c) PROVE CarefulInv'
    <2>1. /\ c \in Reading /\ Reading' = Reading \ {c}
          /\ Writing' = Writing
      BY <1>5 DEF ReaderUnlock, Goto, Reading, Writing, CarefulInv, LockTypeOK
    <2>2. Writing = {}
      BY <2>1 DEF CarefulInv, Exclusion
    <2>3. /\ Cardinality(Reading') = Cardinality(Reading) - 1
          /\ Cardinality(Reading) > 0
      BY <2>1, CountMoves, SectionsFinite
    <2>4. lock \in 1 .. Word - 1 /\ lock = Cardinality(Reading)
      BY <2>2, <2>3 DEF CarefulInv, LockTypeOK, CountExact
    <2>5. lock' = lock - 1
      BY <1>5, <2>4, Decrement DEF ReaderUnlock
    <2> QED
      BY <1>5, <2>1, <2>2, <2>3, <2>4, <2>5
      DEF ReaderUnlock, Goto, CarefulInv, LockTypeOK, Exclusion, CountExact,
          LockingInv, Locking, Exclusive
  <1>6. ASSUME WriterUnlock(c) PROVE CarefulInv'
    <2>1. /\ c \in Writing /\ Writing' = Writing \ {c}
          /\ Reading' = Reading
      BY <1>6 DEF WriterUnlock, Goto, Reading, Writing, CarefulInv, LockTypeOK
    <2>2. Reading = {} /\ Writing' = {}
      BY <2>1 DEF CarefulInv, Exclusion
    <2>3. Cardinality(Reading') = 0
      BY <2>1, <2>2, FS_EmptySet
    <2> QED
      BY <1>6, <2>1, <2>2, <2>3
      DEF WriterUnlock, Goto, CarefulInv, LockTypeOK, Exclusion, CountExact, Free,
          LockingInv, Locking, Exclusive
  <1> QED
    BY <1>1, <1>2, <1>3, <1>4, <1>5, <1>6 DEF TryLock, Unlock

\* A granted lock() starts where LockingInv says.
LEMMA LockStep ==
    ASSUME CarefulInv, Locking = {}, Settled, NEW c \in Clients, LockGranted(c)
    PROVE  CarefulInv'
  <1> USE WordAssumption
  <1>1. Reading' = Reading /\ Writing' = Writing
    BY DEF LockGranted, ReaderLock, WriterLock, Goto, Reading, Writing, CarefulInv, LockTypeOK
  <1>2. Locking' = {c}
    BY DEF LockGranted, ReaderLock, WriterLock, Goto, Locking, CarefulInv, LockTypeOK
  <1>3. CASE lock # Exclusive /\ ReaderLock(c)
    <2>1. Writing = {} /\ lock = Cardinality(Reading)
      BY <1>3 DEF CarefulInv, CountExact
    <2> QED
      BY <1>1, <1>2, <1>3, <2>1
      DEF ReaderLock, Goto, CarefulInv, LockTypeOK, LockingInv, Exclusion, CountExact
  <1>4. CASE lock = Free /\ WriterLock(c)
    <2>1. Writing = {} /\ Cardinality(Reading) = 0
      BY <1>4 DEF CarefulInv, CountExact, Free, Exclusive
    <2>2. Reading = {}
      BY <2>1, FS_EmptySet, SectionsFinite
    <2> QED
      BY <1>1, <1>2, <1>4, <2>1, <2>2
      DEF WriterLock, Goto, CarefulInv, LockTypeOK, LockingInv, Exclusion, CountExact, Free
  <1> QED BY <1>3, <1>4 DEF LockGranted

\* The inverted loop moves the word once and then leaves.
LEMMA ReaderLoopStep ==
    ASSUME CarefulInv, NEW c \in Clients, ReaderLoop(c)
    PROVE  CarefulInv'
  <1> USE WordAssumption
  <1>0. /\ pc[c] = "readLoop" /\ Locking = {c} /\ Writing = {}
        /\ expected[c] = Cardinality(Reading) /\ expected[c] # Exclusive
        /\ lock \in {expected[c], expected[c] + 1}
    BY DEF ReaderLoop, CarefulInv, LockingInv, Locking
  <1>1. CASE lock = expected[c]
    <2>1. lock' = lock + 1 /\ UNCHANGED <<pc, expected>>
      BY <1>0, <1>1 DEF ReaderLoop, CarefulInv, LockTypeOK, Exclusive
    <2>2. Reading' = Reading /\ Writing' = Writing /\ Locking' = Locking
      BY <2>1 DEF Reading, Writing, Locking
    <2> QED
      BY <1>0, <1>1, <2>1, <2>2
      DEF CarefulInv, LockTypeOK, LockingInv, Exclusion, CountExact, Exclusive
  <1>2. CASE lock # expected[c]
    <2>1. lock = Cardinality(Reading) + 1
      BY <1>0, <1>2
    <2>2. /\ Reading' = Reading \cup {c} /\ c \notin Reading
          /\ Writing' = Writing /\ Locking' = {}
      BY <1>0, <1>2 DEF ReaderLoop, Goto, Reading, Writing, Locking, CarefulInv, LockTypeOK
    <2>3. Cardinality(Reading') = Cardinality(Reading) + 1
      BY <2>2, CountMoves, SectionsFinite
    <2> QED
      BY <1>0, <1>2, <2>1, <2>2, <2>3
      DEF ReaderLoop, Goto, CarefulInv, LockTypeOK, LockingInv, Exclusion, CountExact
  <1> QED BY <1>1, <1>2

\* So does a writer's.
LEMMA WriterLoopStep ==
    ASSUME CarefulInv, NEW c \in Clients, WriterLoop(c)
    PROVE  CarefulInv'
  <1> USE WordAssumption
  <1>0. /\ pc[c] = "writeLoop" /\ Locking = {c} /\ Writing = {}
        /\ Reading = {} /\ expected[c] = Free /\ lock \in {Free, Exclusive}
    BY DEF WriterLoop, CarefulInv, LockingInv, Locking
  <1>1. CASE lock = expected[c]
    <2>1. lock' = Exclusive /\ UNCHANGED <<pc, expected>>
      BY <1>0, <1>1 DEF WriterLoop, Free, Exclusive
    <2>2. Reading' = Reading /\ Writing' = Writing /\ Locking' = Locking
      BY <2>1 DEF Reading, Writing, Locking
    <2> QED
      BY <1>0, <2>1, <2>2
      DEF CarefulInv, LockTypeOK, LockingInv, Exclusion, CountExact, Exclusive
  <1>2. CASE lock # expected[c]
    <2>1. /\ Reading' = Reading /\ Writing' = {c} /\ Locking' = {}
      BY <1>0, <1>2 DEF WriterLoop, Goto, Reading, Writing, Locking, CarefulInv, LockTypeOK
    <2> QED
      BY <1>0, <1>2, <2>1
      DEF WriterLoop, Goto, CarefulInv, LockTypeOK, LockingInv, Exclusion, CountExact
  <1> QED BY <1>1, <1>2

\* Every operation keeps the invariant.
LEMMA CarefulStep == CarefulInv /\ [CarefulLockNext]_lockVars => CarefulInv'
  <1> SUFFICES ASSUME CarefulInv, [CarefulLockNext]_lockVars PROVE CarefulInv'
    OBVIOUS
  <1>1. CASE UNCHANGED lockVars
    BY <1>1 DEF lockVars, CarefulInv, LockTypeOK, Exclusion, CountExact, LockingInv, Locking,
                Reading, Writing
  <1> QED
    BY <1>1, FreeStep, LockStep, ReaderLoopStep, WriterLoopStep DEF CarefulLockNext

\* Used with care, a writer is alone.
THEOREM CarefulExclusion == CarefulLockSpec => []Exclusion
  <1>1. CarefulInv => Exclusion
    BY DEF CarefulInv
  <1> QED BY CarefulInit, CarefulStep, <1>1, PTL DEF CarefulLockSpec

\* Used with care, the word counts the readers exactly.
THEOREM CarefulCounting == CarefulLockSpec => []CountExact
  <1>1. CarefulInv => CountExact
    BY DEF CarefulInv
  <1> QED BY CarefulInit, CarefulStep, <1>1, PTL DEF CarefulLockSpec

-----------------------------------------------------------------------------
(***************************************************************************)
(* The file hash cache.                                                    *)
(*                                                                         *)
(* The cache answers with the content's hash for every set of files and    *)
(* versions, whatever happens to the files between the steps of a call.    *)
(***************************************************************************)

\* A stamp in memory is that of a version the file has had; if it is the
\* present one, the hash is the present content's.
RecordInv ==
    \A p \in Paths : hashes[p] # NoRecord =>
        \E v \in used[p] : /\ hashes[p].mtime = Mtime[v]
                           /\ hashes[p].size = Size[v]
                           /\ v = disk[p] => hashes[p].contentHash = v

\* While a call is under way its stat is a version the file has had, and what
\* it opened is that version still if the file has it still.
CallInv ==
    /\ call # Idle =>
          /\ call.stat \in used[call.path]
          /\ call.calm => disk[call.path] = call.stat
    /\ (call.step = "read" /\ call.stat = disk[call.path])
          => call.opened = call.stat

\* No two versions a file has had share a stamp.
UsedInv ==
    \A p \in Paths :
       /\ disk[p] # Missing => disk[p] \in used[p]
       /\ \A v, w \in used[p] : Stamp(v) = Stamp(w) => v = w

HashInv == CacheTypeOK /\ RecordInv /\ CallInv /\ UsedInv /\ AnswerCorrect

\* The invariant says what is wanted of the records.
LEMMA HonestFromInv == HashInv => RecordsHonest
  <1> SUFFICES ASSUME HashInv, NEW p \in Paths, disk[p] # Missing, Cached(p)
               PROVE  hashes[p].contentHash = disk[p]
    BY DEF RecordsHonest
  <1>1. PICK v \in used[p] : /\ hashes[p].mtime = Mtime[v]
                             /\ hashes[p].size = Size[v]
                             /\ v = disk[p] => hashes[p].contentHash = v
    BY DEF HashInv, RecordInv, Cached
  <1>2. Stamp(v) = Stamp(disk[p]) /\ disk[p] \in used[p]
    BY <1>1 DEF Cached, SameStamp, Stamp, HashInv, UsedInv
  <1> QED BY <1>1, <1>2 DEF HashInv, UsedInv

\* Initially there is no record and no call.
LEMMA HashInit == CacheInit => HashInv
  BY NamesAssumption
  DEF CacheInit, HashInv, CacheTypeOK, RecordInv, CallInv, UsedInv, AnswerCorrect, Idle,
      NoAnswer, Hash, Record

\* A write takes a stamp the file never had, so it makes no old record match.
LEMMA WriteStep ==
    ASSUME HashInv, NEW p \in Paths, NEW v \in Versions, Write(p, v)
    PROVE  HashInv'
  <1> USE NamesAssumption DEF HashInv
  <1>0. v \notin used[p] /\ v # Missing
    BY DEF Write
  <1>1. CacheTypeOK'
    <2>1. call' = call \/ (call # Idle /\ call' = [call EXCEPT !.calm = FALSE])
      BY DEF Write, Disturb
    <2>2. /\ disk' \in [Paths -> Versions \cup {Missing}]
          /\ used' \in [Paths -> SUBSET Versions]
          /\ UNCHANGED <<hashes, hashCache, answer>>
      BY DEF Write, CacheTypeOK
    <2> QED BY <2>1, <2>2 DEF CacheTypeOK, Idle
  <1>2. RecordInv'
    BY <1>0 DEF Write, CacheTypeOK, RecordInv
  <1>3. CallInv'
    BY <1>0 DEF Write, Disturb, CacheTypeOK, CallInv, Idle
  <1>4. UsedInv' /\ AnswerCorrect'
    BY <1>0 DEF Write, CacheTypeOK, UsedInv, AnswerCorrect, Stamp
  <1> QED BY <1>1, <1>2, <1>3, <1>4

\* Removing a file matches no record either.
LEMMA RemoveStep ==
    ASSUME HashInv, NEW p \in Paths, RemoveFile(p)
    PROVE  HashInv'
  <1> USE NamesAssumption DEF HashInv
  <1>1. CacheTypeOK'
    BY DEF RemoveFile, Disturb, CacheTypeOK, Idle
  <1>2. RecordInv'
    BY DEF RemoveFile, CacheTypeOK, RecordInv
  <1>3. CallInv'
    BY DEF RemoveFile, Disturb, CacheTypeOK, CallInv, Idle
  <1>4. UsedInv' /\ AnswerCorrect'
    BY DEF RemoveFile, CacheTypeOK, UsedInv, AnswerCorrect
  <1> QED BY <1>1, <1>2, <1>3, <1>4

\* A call's first step returns, or remembers what it saw.
LEMMA HashStep ==
    ASSUME HashInv, NEW p \in Paths, HashAssetAtPath(p)
    PROVE  HashInv'
  <1> USE NamesAssumption DEF HashInv
  <1>1. CASE HashMissing(p)
    BY <1>1 DEF HashMissing, files, Return, CacheTypeOK, RecordInv, CallInv, UsedInv,
                AnswerCorrect, Hash, Idle, Stamp
  <1>2. CASE HashHit(p)
    <2>1. hashes[p].contentHash = disk[p]
      BY <1>2, HonestFromInv DEF HashHit, RecordsHonest
    <2>2. disk[p] \in Versions
      BY <1>2 DEF HashHit, CacheTypeOK
    <2>3. /\ answer' = [hash |-> disk[p], present |-> disk[p], calm |-> TRUE]
          /\ call' = Idle
          /\ UNCHANGED <<disk, used, hashes, hashCache>>
      BY <1>2, <2>1 DEF HashHit, Return, files
    <2>4. CacheTypeOK'
      BY <2>2, <2>3 DEF CacheTypeOK, Hash
    <2> QED
      BY <2>3, <2>4 DEF RecordInv, CallInv, UsedInv, AnswerCorrect, Idle, Stamp
  <1>3. CASE HashMiss(p)
    BY <1>3 DEF HashMiss, files, CacheTypeOK, RecordInv, CallInv, UsedInv,
                AnswerCorrect, Hash, Idle, Stamp
  <1> QED BY <1>1, <1>2, <1>3 DEF HashAssetAtPath

\* Opening the stream remembers the version opened.
LEMMA OpenStep == ASSUME HashInv, OpenStream PROVE HashInv'
  BY NamesAssumption
  DEF OpenStream, files, HashInv, CacheTypeOK, RecordInv, CallInv, UsedInv,
      AnswerCorrect, Idle, Stamp

\* The record stored matches only if nothing happened to the file meanwhile.
LEMMA StoreStep == ASSUME HashInv, StoreHash PROVE HashInv'
  <1> USE NamesAssumption DEF HashInv
  <1>0. PICK h \in StreamHash :
          /\ hashCache' = [hashCache EXCEPT ![call.path] = NewRecord(h)]
          /\ hashes' = [hashes EXCEPT ![call.path] = NewRecord(h)]
          /\ Return(call.path, h, call.calm)
    BY DEF StoreHash
  <1>1. /\ call.step = "read" /\ call # Idle /\ UNCHANGED <<disk, used>>
        /\ call.path \in Paths /\ call.stat \in Versions
        /\ call.stat \in used[call.path]
    BY DEF StoreHash, files, CacheTypeOK, CallInv, Idle
  <1>2. h \in Hash /\ NewRecord(h) \in Record
    BY <1>1, StampAssumption
    DEF StreamHash, CacheTypeOK, Hash, NewRecord, Record, Idle
  <1>3. disk[call.path] = call.stat => h = call.stat
    BY <1>1 DEF StreamHash, CallInv
  <1>4. CacheTypeOK'
    BY <1>0, <1>1, <1>2 DEF CacheTypeOK, Return, Idle, Hash
  <1>5. RecordInv'
    BY <1>0, <1>1, <1>3 DEF CacheTypeOK, RecordInv, NewRecord
  <1>6. CallInv' /\ UsedInv'
    BY <1>0, <1>1 DEF Return, Idle, CallInv, UsedInv, Stamp
  <1>7. AnswerCorrect'
    BY <1>0, <1>1, <1>3 DEF Return, AnswerCorrect, CallInv
  <1> QED BY <1>4, <1>5, <1>6, <1>7

\* Reopening empties the memory.
LEMMA ReopenStep == ASSUME HashInv, Reopen PROVE HashInv'
  BY DEF Reopen, files, HashInv, CacheTypeOK, RecordInv, CallInv, UsedInv,
         AnswerCorrect, Idle, Stamp

\* The inductive invariant holds in every reachable state.
THEOREM HashInvariance == CacheSpec => []HashInv
  <1>1. HashInv /\ [CacheNext]_cacheVars => HashInv'
    <2> SUFFICES ASSUME HashInv, [CacheNext]_cacheVars PROVE HashInv'
      OBVIOUS
    <2>1. CASE UNCHANGED cacheVars
      BY <2>1 DEF cacheVars, files, HashInv, CacheTypeOK, RecordInv, CallInv, UsedInv,
                  AnswerCorrect, Stamp
    <2> QED
      BY <2>1, WriteStep, RemoveStep, HashStep, OpenStep, StoreStep, ReopenStep
      DEF CacheNext
  <1> QED BY HashInit, <1>1, PTL DEF CacheSpec

\* A record that the next stat accepts holds the present content's hash.
THEOREM Honesty == CacheSpec => []RecordsHonest
  BY HashInvariance, HonestFromInv, PTL

\* A hash returned is the present content's unless the file changed meanwhile.
THEOREM Correctness == CacheSpec => []AnswerCorrect
  <1>1. HashInv => AnswerCorrect
    BY DEF HashInv
  <1> QED BY HashInvariance, <1>1, PTL

-----------------------------------------------------------------------------
(***************************************************************************)
(* The hash table.                                                         *)
(*                                                                         *)
(* Searches of the hash table are right for every width, load, hash        *)
(* function and set of keys.  FindRight is not inductive: what keeps a key *)
(* within reach is that the groups its probes visit before its own have no *)
(* empty slot, which only a fresh table undoes.                            *)
(***************************************************************************)

\* No key is in two slots.
OneSlot == \A s, t \in Full : items[s].key = items[t].key => s = t

\* The probes of an item's key come to its group before any empty slot.
Reached(k, g) ==
    \E n \in Probes : Group(k, n) = g /\ \A m \in 0 .. n - 1 : ~HasEmpty(Group(k, m))
WithinReach == \A s \in Full : Reached(items[s].key, s[1])

TableInv == TableOK /\ OneSlot /\ WithinReach

-----------------------------------------------------------------------------
(***************************************************************************)
(* Searches                                                                *)
(***************************************************************************)
\* A probe is of a group of the table.
LEMMA GroupType ==
    ASSUME groups \in Nat, NEW k \in Keys, NEW n \in Probes
    PROVE  Group(k, n) \in 0 .. groups - 1
<1>1. H1[k] \in Nat /\ n \in Nat /\ groups > 0
  BY HashAssumption DEF Probes
<1>2. n * (n + 1) \in Nat
  BY <1>1
<1>3. (n * (n + 1)) \div 2 \in Nat
  BY <1>2
<1>4. H1[k] + ((n * (n + 1)) \div 2) \in Nat
  BY <1>1, <1>3
<1> DEFINE h == H1[k] + ((n * (n + 1)) \div 2)
<1>5. h % groups \in 0 .. groups - 1
  <2> HIDE DEF h
  <2>1. h \in Nat
    BY <1>4 DEF h
  <2> QED BY <2>1, <1>1
<1> QED BY <1>5 DEF Group

\* A group that matches a key has it in a full slot, and the slot of a key
\* matches it.
LEMMA MatchesFull ==
    ASSUME TableOK, NEW k \in Keys, NEW g \in 0 .. groups - 1
    PROVE  Matches(k, g) = {i \in Positions : /\ <<g, i>> \in Full
                                              /\ items[<<g, i>>].key = k}
<1>1. \A i \in Positions : <<g, i>> \in Slots(groups)
  BY DEF Slots
<1>2. H2[k] \notin {Empty, Tombstone}
  BY HashAssumption
<1> QED BY <1>1, <1>2 DEF TableOK, Matches, Full

\* The invariant says what is wanted of a search.
LEMMA RightFromInv ==
    ASSUME TableInv, size = 0 => Full = {}
    PROVE  FindRight
<1> SUFFICES ASSUME NEW k \in Keys, Ends(k)
             PROVE  Find(k) = {s \in Full : items[s].key = k}
  BY DEF FindRight
<1> USE DEF TableInv
<1>0. groups \in Nat
  BY DEF TableOK
<1>1. CASE size = 0
  BY <1>1 DEF Find
<1>2. CASE size # 0
  <2>1. ASSUME NEW s \in Find(k) PROVE s \in Full /\ items[s].key = k
    <3>1. s \in Slots(groups) /\ s[2] \in Matches(k, s[1])
      BY DEF Find, First
    <3>2. s = <<s[1], s[2]>> /\ s[1] \in 0 .. groups - 1
      BY <3>1 DEF Slots
    <3> QED BY <3>1, <3>2, MatchesFull
  <2>2. ASSUME NEW s \in Full, items[s].key = k PROVE s \in Find(k)
    <3>1. /\ s \in Slots(groups) /\ s = <<s[1], s[2]>>
          /\ s[1] \in 0 .. groups - 1 /\ s[2] \in Positions
      BY DEF Full, Slots
    <3>2. \A t \in Full : items[t].key = k => t = s
      BY <2>2 DEF OneSlot
    <3>3. Matches(k, s[1]) = {s[2]}
      <4>1. s[2] \in Matches(k, s[1])
        BY <2>2, <3>1, MatchesFull
      <4>2. ASSUME NEW i \in Matches(k, s[1]) PROVE i = s[2]
        <5>1. <<s[1], i>> \in Full /\ items[<<s[1], i>>].key = k
          BY <3>1, MatchesFull
        <5>2. <<s[1], i>> = s
          BY <5>1, <3>2
        <5>3. <<s[1], i>>[2] = i
          OBVIOUS
        <5> QED BY <5>2, <5>3
      <4> QED BY <4>1, <4>2
    <3>4. First(Matches(k, s[1])) = {s[2]}
      BY <3>1, <3>3 DEF First, Positions
    <3>5. PICK n \in Probes : StopsAt(k, n)
      BY <1>2 DEF Ends
    <3>6. PICK l \in Probes :
             Group(k, l) = s[1] /\ \A m \in 0 .. l - 1 : ~HasEmpty(Group(k, m))
      BY <2>2 DEF WithinReach, Reached
    <3>7. Stops(k, l)
      BY <3>3, <3>6 DEF Stops
    <3>8. n <= l
      BY <3>5, <3>7, <1>0 DEF StopsAt, Probes
    <3>9. Group(k, n) = s[1]
      <4>1. CASE n = l
        BY <4>1, <3>6
      <4>2. CASE n < l
        <5>1. ~HasEmpty(Group(k, n))
          BY <4>2, <3>6, <1>0 DEF Probes
        <5>2. PICK i \in Matches(k, Group(k, n)) : TRUE
          BY <5>1, <3>5 DEF StopsAt, Stops
        <5>3. <<Group(k, n), i>> \in Full /\ items[<<Group(k, n), i>>].key = k
          BY <5>2, <1>0, GroupType, MatchesFull
        <5> QED BY <5>3, <3>2, <3>1
      <4> QED BY <3>8, <4>1, <4>2, <1>0 DEF Probes
    <3> QED BY <3>1, <3>4, <3>5, <3>9, <1>2 DEF Find
  <2> QED BY <2>1, <2>2
<1> QED BY <1>1, <1>2

-----------------------------------------------------------------------------
(***************************************************************************)
(* Steps.  What a step must leave as it is, and what it may put in a slot. *)
(***************************************************************************)
\* A table with no item in it.
LEMMA FreshTable ==
    ASSUME NEW g \in Nat, Allocate(g)
    PROVE  TableInv' /\ groups' = g /\ size' = 0 /\ Full' = {}
<1>1. Full' = {}
  BY DEF Allocate, Full
<1>2. TableOK'
  BY <1>1 DEF Allocate, TableOK
<1> QED BY <1>1, <1>2 DEF Allocate, TableInv, OneSlot, WithinReach

\* A replaced value moves no item.
LEMMA ReplaceStep ==
    ASSUME TableInv, NEW item \in Item, Replace(item), groups' = groups
    PROVE  TableInv' /\ size' = size /\ Full' = Full
<1> USE DEF TableInv
<1>1. PICK s \in Find(item.key) :
         /\ items' = [items EXCEPT ![s].value = item.value]
         /\ control' = control /\ size' = size
  BY DEF Replace
<1>2. s \in Slots(groups) /\ s[2] \in Matches(item.key, s[1])
  BY <1>1 DEF Find, First
<1>3. s = <<s[1], s[2]>> /\ s[1] \in 0 .. groups - 1 /\ item.key \in Keys
  BY <1>2 DEF Slots, Item
<1>4. s \in Full
  BY <1>2, <1>3, MatchesFull
<1>5. Full' = Full
  BY <1>1 DEF Full
<1>6. items[s] \in Item /\ [items[s] EXCEPT !.value = item.value] \in Item
      /\ [items[s] EXCEPT !.value = item.value].key = items[s].key
  BY <1>4 DEF TableOK, Item, Full
<1>7. \A t \in Slots(groups) : items'[t] =
           IF t = s THEN [items[s] EXCEPT !.value = item.value] ELSE items[t]
  BY <1>1, <1>2 DEF TableOK
<1>8. TableOK'
  <2>1. items' \in [Slots(groups) -> Item \cup {NoItem}]
    BY <1>1, <1>2, <1>6 DEF TableOK
  <2> QED BY <2>1, <1>1, <1>4, <1>5, <1>6, <1>7 DEF TableOK
<1>9. \A t \in Full : items'[t].key = items[t].key
  BY <1>6, <1>7 DEF Full
<1>10. OneSlot'
  BY <1>5, <1>9 DEF OneSlot
<1>11. \A k, g : Reached(k, g)' = Reached(k, g)
  BY <1>1 DEF Reached, HasEmpty, Group, Probes
<1>12. WithinReach'
  BY <1>5, <1>9, <1>11 DEF WithinReach
<1> QED BY <1>1, <1>5, <1>8, <1>10, <1>12

\* Probe chains stay as they are while no slot becomes empty in a group without
\* an empty one.
LEMMA ReachKept ==
    ASSUME groups' = groups, \A h : HasEmpty(h)' => HasEmpty(h)
    PROVE  \A k, g : Reached(k, g) => Reached(k, g)'
BY DEF Reached, Group, Probes

\* A new item goes to the first group its probes find room in.
LEMMA PlaceStep ==
    ASSUME TableInv, size = 0 => Full = {}, NEW item \in Item,
           Ends(item.key), Place(item), groups' = groups
    PROVE  /\ TableInv' /\ size' = size + 1
           /\ \E s \in Slots(groups) \ Full : /\ Full' = Full \cup {s}
                                              /\ items' = [items EXCEPT ![s] = item]
<1> USE DEF TableInv
<1> DEFINE k == item.key
<1>1. PICK s \in FindEmptyOrTombstone(k) :
         /\ items' = [items EXCEPT ![s] = item]
         /\ control' = [control EXCEPT ![s] = H2[k]]
  BY DEF Place
<1>2. k \in Keys /\ H2[k] \notin {Empty, Tombstone}
  BY HashAssumption DEF Item
<1>3. s \in Slots(groups) /\ s[2] \in Available(s[1])
  BY <1>1 DEF FindEmptyOrTombstone, First
<1>4. s = <<s[1], s[2]>> /\ s[1] \in 0 .. groups - 1
  BY <1>3 DEF Slots
<1>5. s \notin Full /\ control[s] \in {Empty, Tombstone}
  BY <1>3, <1>4 DEF Available, Full
<1>6. \A t \in Slots(groups) :
         /\ items'[t] = IF t = s THEN item ELSE items[t]
         /\ control'[t] = IF t = s THEN H2[k] ELSE control[t]
  BY <1>1 DEF TableOK
<1>7. Full' = Full \cup {s}
  BY <1>2, <1>3, <1>5, <1>6 DEF Full
<1>8. \A t \in Full : t # s /\ items'[t] = items[t] /\ control'[t] = control[t]
  BY <1>5, <1>6 DEF Full
<1>9. size' = size + 1
  BY DEF Place
<1>10. TableOK'
  <2>1. items' \in [Slots(groups) -> Item \cup {NoItem}]
    BY <1>1, <1>3 DEF TableOK
  <2>2. control' \in [Slots(groups) -> {H2[l] : l \in Keys} \cup {Empty, Tombstone}]
    BY <1>1, <1>2, <1>3 DEF TableOK
  <2>3. \A t \in Slots(groups) :
           IF t \in Full' THEN items'[t] \in Item /\ control'[t] = H2[items'[t].key]
                          ELSE items'[t] = NoItem
    BY <1>3, <1>6, <1>7, <1>8 DEF TableOK
  <2> QED BY <2>1, <2>2, <2>3, <1>9 DEF TableOK
<1>11. \A t \in Full : items[t].key # k
  <2>1. Find(k) = {}
    BY DEF Place
  <2>2. Find(k) = {t \in Full : items[t].key = k}
    BY <1>2, RightFromInv DEF FindRight
  <2> QED BY <2>1, <2>2
<1>12. OneSlot'
  <2> SUFFICES ASSUME NEW t \in Full', NEW u \in Full', items'[t].key = items'[u].key
               PROVE  t = u
    BY DEF OneSlot
  <2>1. CASE t = s /\ u = s
    BY <2>1
  <2>2. CASE t = s /\ u \in Full
    BY <2>2, <1>3, <1>6, <1>8, <1>11
  <2>3. CASE t \in Full /\ u = s
    BY <2>3, <1>3, <1>6, <1>8, <1>11
  <2>4. CASE t \in Full /\ u \in Full
    BY <2>4, <1>8 DEF OneSlot
  <2> QED BY <1>7, <2>1, <2>2, <2>3, <2>4
<1>13. \A h : HasEmpty(h)' => HasEmpty(h)
  <2> SUFFICES ASSUME NEW h, NEW i \in Positions, control'[<<h, i>>] = Empty
               PROVE  control[<<h, i>>] = Empty
    BY DEF HasEmpty
  <2>1. CASE <<h, i>> = s
    BY <2>1, <1>2, <1>3, <1>6
  <2>2. CASE <<h, i>> # s
    BY <2>2, <1>1 DEF TableOK
  <2> QED BY <2>1, <2>2
<1>14. \A l, g : l = k /\ g = s[1] => Reached(l, g)'
  <2>1. PICK n \in Probes : /\ Group(k, n) = s[1]
                           /\ \A m \in 0 .. n - 1 : Available(Group(k, m)) = {}
    BY <1>1 DEF FindEmptyOrTombstone
  <2>2. \A m \in 0 .. n - 1 : ~HasEmpty(Group(k, m))
    BY <2>1 DEF Available, HasEmpty
  <2>3. Reached(k, s[1])
    BY <2>1, <2>2 DEF Reached
  <2> QED BY <2>3, <1>13, ReachKept
<1>15. WithinReach'
  <2> SUFFICES ASSUME NEW t \in Full', NEW l, l = items'[t].key PROVE Reached(l, t[1])'
    BY DEF WithinReach
  <2>1. CASE t = s
    BY <2>1, <1>3, <1>6, <1>14
  <2>2. CASE t \in Full
    <3>1. Reached(l, t[1])
      BY <2>2, <1>8 DEF WithinReach
    <3> QED BY <3>1, <1>13, ReachKept
  <2> QED BY <1>7, <2>1, <2>2
<1> QED BY <1>1, <1>3, <1>5, <1>7, <1>9, <1>10, <1>12, <1>15

\* An erased slot is emptied only in a group that has an empty slot already.
LEMMA EraseStep ==
    ASSUME TableInv, size \in Nat \ {0}, NEW s \in Full,
           control' = [control EXCEPT ![s] = Erased(s)],
           items' = [items EXCEPT ![s] = NoItem],
           size' = size - 1, groups' = groups
    PROVE  TableInv' /\ Full' = Full \ {s}
<1> USE DEF TableInv
<1>1. s \in Slots(groups) /\ Erased(s) \in {Empty, Tombstone}
  BY DEF Full, Erased
<1>2. s = <<s[1], s[2]>> /\ s[2] \in Positions
  BY <1>1 DEF Slots
<1>3. \A t \in Slots(groups) :
         /\ items'[t] = IF t = s THEN NoItem ELSE items[t]
         /\ control'[t] = IF t = s THEN Erased(s) ELSE control[t]
  BY DEF TableOK
<1>4. Full' = Full \ {s}
  BY <1>1, <1>3 DEF Full
<1>5. \A t \in Full' : t \in Full /\ items'[t] = items[t] /\ control'[t] = control[t]
  BY <1>3, <1>4 DEF Full
<1>6. TableOK'
  <2>1. items' \in [Slots(groups) -> Item \cup {NoItem}]
    BY <1>1 DEF TableOK
  <2>2. control' \in [Slots(groups) -> {H2[l] : l \in Keys} \cup {Empty, Tombstone}]
    BY <1>1 DEF TableOK
  <2>3. \A t \in Slots(groups) :
           IF t \in Full' THEN items'[t] \in Item /\ control'[t] = H2[items'[t].key]
                          ELSE items'[t] = NoItem
    BY <1>3, <1>4, <1>5 DEF TableOK
  <2>4. size' \in Nat
    OBVIOUS
  <2> QED BY <2>1, <2>2, <2>3, <2>4 DEF TableOK
<1>7. OneSlot'
  BY <1>5 DEF OneSlot
<1>8. \A h : HasEmpty(h)' => HasEmpty(h)
  <2> SUFFICES ASSUME NEW h, NEW i \in Positions, control'[<<h, i>>] = Empty
               PROVE  HasEmpty(h)
    BY DEF HasEmpty
  <2>1. CASE <<h, i>> = s
    <3>1. Erased(s) = Empty /\ h = s[1]
      BY <2>1, <1>1, <1>3
    <3> QED BY <3>1, HashAssumption DEF Erased
  <2>2. CASE <<h, i>> # s
    BY <2>2 DEF TableOK, HasEmpty
  <2> QED BY <2>1, <2>2
<1>9. WithinReach'
  <2> SUFFICES ASSUME NEW t \in Full', NEW l, l = items'[t].key PROVE Reached(l, t[1])'
    BY DEF WithinReach
  <2>1. Reached(l, t[1])
    BY <1>5 DEF WithinReach
  <2> QED BY <2>1, <1>8, ReachKept
<1> QED BY <1>4, <1>6, <1>7, <1>9

-----------------------------------------------------------------------------
(***************************************************************************)
(* The count of the items                                                  *)
(***************************************************************************)
LEMMA FullFinite == ASSUME groups \in Nat PROVE IsFiniteSet(Full)
<1>1. IsFiniteSet(0 .. groups - 1) /\ IsFiniteSet(Positions)
  BY FS_Interval, WidthAssumption DEF Positions
<1>2. IsFiniteSet(Slots(groups))
  BY <1>1, FS_Product DEF Slots
<1> QED BY <1>2, FS_Subset DEF Full

\* Growth leaves room, as a load is at least one item per group.
LEMMA LoadType ==
    /\ \A g \in Nat : g * Load \in Nat
    /\ \A g \in Nat \ {0} : g * Load > 0 /\ (2 * g) * Load > g * Load
    /\ 0 * Load = 0 /\ 1 * Load > 0
<1>1. Load \in Nat /\ Load > 0
  BY WidthAssumption
<1>2. ASSUME NEW g \in Nat PROVE g * Load \in Nat
  BY <1>1
<1>3. ASSUME NEW g \in Nat \ {0} PROVE g * Load > 0 /\ (2 * g) * Load > g * Load
  <2>1. g * Load >= 1 * Load
    BY <1>1, SMTT(30)
  <2>2. (2 * g) * Load = g * Load + g * Load
    BY <1>1, SMTT(30)
  <2> QED BY <2>1, <2>2, <1>1, <1>2
<1> QED BY <1>1, <1>2, <1>3

TableCounts == TableInv /\ size = Cardinality(Full)

LEMMA EmptyTable == ASSUME TableCounts, size = 0 PROVE Full = {}
BY FullFinite, FS_EmptySet DEF TableCounts, TableInv, TableOK

LEMMA InsertStep ==
    ASSUME TableCounts, NEW item \in Item, Insert(item), groups' = groups
    PROVE  TableCounts' /\ size' \in {size, size + 1}
<1>1. CASE Replace(item)
  BY <1>1, ReplaceStep DEF TableCounts
<1>2. CASE Place(item)
  <2>1. TableInv' /\ size' = size + 1
    BY <1>2, PlaceStep, EmptyTable DEF TableCounts, Insert
  <2>2. PICK s : s \notin Full /\ Full' = Full \cup {s}
    BY <1>2, PlaceStep, EmptyTable DEF TableCounts, Insert
  <2>3. IsFiniteSet(Full)
    BY FullFinite DEF TableCounts, TableInv, TableOK
  <2>4. Cardinality(Full') = Cardinality(Full) + 1
    BY <2>2, <2>3, FS_AddElement
  <2> QED BY <2>1, <2>4 DEF TableCounts
<1> QED BY <1>1, <1>2 DEF Insert

LEMMA AllocateStep ==
    ASSUME NEW g \in Nat, Allocate(g)
    PROVE  TableCounts' /\ groups' = g /\ size' = 0
BY FreshTable, FS_EmptySet DEF TableCounts

CountedTableInv == TypeOK /\ TableInv /\ SizeExact

\* The moved items are as many as there were.
LEMMA MovedItems ==
    ASSUME CountedTableInv, NEW item \in Item, Grow(item)
    PROVE  rest' \in Seq(Item) /\ Len(rest') = size
<1>1. Cardinality(Full) = size /\ size \in Nat
  BY DEF CountedTableInv, SizeExact, TableInv, TableOK
<1>2. PICK order \in [1 .. size -> Full] : rest' = [i \in DOMAIN order |-> items[order[i]]]
  BY <1>1 DEF Grow, Moved
<1>3. \A s \in Full : items[s] \in Item
  BY DEF CountedTableInv, TableInv, TableOK, Full
<1>4. rest' \in [1 .. size -> Item]
  BY <1>2, <1>3
<1> QED BY <1>1, <1>4

\* No step breaks the invariant.
LEMMA TableStep == CountedTableInv /\ [Next]_vars => CountedTableInv'
<1> SUFFICES ASSUME CountedTableInv, [Next]_vars PROVE CountedTableInv'
  OBVIOUS
<1> USE DEF CountedTableInv
<1>0. /\ TableCounts /\ groups \in Nat /\ size \in Nat /\ groups * Load \in Nat
      /\ size <= groups * Load
  BY LoadType DEF SizeExact, TableCounts, TableInv, TableOK
<1>1. ASSUME NEW item \in Item, InsertInto(item) PROVE CountedTableInv'
  <2>1. TableCounts' /\ size' \in {size, size + 1} /\ groups' = groups
    BY <1>0, <1>1, InsertStep DEF InsertInto
  <2>2. size < groups * Load /\ inserting' = inserting /\ rest' = rest /\ ~Growing
    BY <1>0, <1>1 DEF InsertInto, Overloaded
  <2>3. ~Growing'
    BY <2>2 DEF Growing
  <2>4. size' <= groups' * Load
    BY <2>1, <2>2, <1>0
  <2> QED BY <2>1, <2>2, <2>3, <2>4 DEF TypeOK, TableCounts, TableInv, SizeExact
<1>2. ASSUME NEW item \in Item, Grow(item) PROVE CountedTableInv'
  <2>1. Grown \in Nat \ {0}
    BY <1>0 DEF Grown
  <2>2. TableCounts' /\ groups' = Grown /\ size' = 0
    BY <1>2, <2>1, AllocateStep DEF Grow
  <2>3. rest' \in Seq(Item) /\ Len(rest') = size /\ inserting' = item
    BY <1>2, MovedItems DEF Grow
  <2>4. size < Grown * Load /\ Grown * Load \in Nat
    BY <1>0, <2>1, LoadType DEF Grown
  <2> QED BY <2>2, <2>3, <2>4, <1>0 DEF TypeOK, TableCounts, TableInv, SizeExact
<1>3. ASSUME MoveNext PROVE CountedTableInv'
  <2>1. rest \in Seq(Item) /\ rest # <<>> /\ rest' = Tail(rest)
    BY <1>3 DEF MoveNext, TypeOK
  <2>2. /\ Head(rest) \in Item /\ rest' \in Seq(Item)
        /\ Len(rest') = Len(rest) - 1 /\ Len(rest) \in Nat
    BY <2>1
  <2>3. TableCounts' /\ size' \in {size, size + 1} /\ groups' = groups
    BY <1>0, <1>3, <2>2, InsertStep DEF MoveNext
  <2>4. size + Len(rest) < groups * Load /\ inserting' = inserting
    BY <1>3 DEF MoveNext, SizeExact
  <2>5. size' + Len(rest') < groups' * Load /\ size' <= groups' * Load
    BY <2>2, <2>3, <2>4, <1>0
  <2> QED BY <2>2, <2>3, <2>4, <2>5 DEF TypeOK, TableCounts, TableInv, SizeExact
<1>4. ASSUME GrowDone PROVE CountedTableInv'
  <2>1. inserting \in Item /\ rest = <<>> /\ rest' = rest /\ inserting' = NoInsert
    BY <1>4 DEF GrowDone, TypeOK, Growing
  <2>2. TableCounts' /\ size' \in {size, size + 1} /\ groups' = groups
    BY <1>0, <1>4, <2>1, InsertStep DEF GrowDone
  <2>3. size + 0 < groups * Load
    BY <1>4, <2>1 DEF GrowDone, SizeExact
  <2>4. size' <= groups' * Load /\ ~Growing'
    BY <2>1, <2>2, <2>3, <1>0 DEF Growing
  <2> QED BY <2>1, <2>2, <2>4 DEF TypeOK, TableCounts, TableInv, SizeExact
<1>5. ASSUME NEW k \in Keys, Erase(k) PROVE CountedTableInv'
  <2>1. PICK s \in Find(k) : /\ control' = [control EXCEPT ![s] = Erased(s)]
                            /\ items' = [items EXCEPT ![s] = NoItem]
    BY <1>5 DEF Erase
  <2>2. /\ size \in Nat \ {0} /\ size' = size - 1 /\ groups' = groups /\ Ends(k)
        /\ ~Growing /\ inserting' = inserting /\ rest' = rest
    BY <1>0, <1>5 DEF Erase
  <2>3. s \in Full
    BY <2>1, <2>2, RightFromInv DEF FindRight
  <2>4. TableInv' /\ Full' = Full \ {s}
    BY <2>1, <2>2, <2>3, EraseStep
  <2>5. Cardinality(Full') = Cardinality(Full) - 1
    BY <2>3, <2>4, <1>0, FullFinite, FS_RemoveElement
  <2>6. size' <= groups' * Load /\ ~Growing'
    BY <2>2, <1>0 DEF Growing
  <2> QED BY <2>2, <2>4, <2>5, <2>6, <1>0 DEF TypeOK, TableCounts, TableInv, SizeExact
<1>6. ASSUME Clear \/ MoveAway PROVE CountedTableInv'
  <2>1. PICK g \in Nat : Allocate(g) /\ UNCHANGED <<inserting, rest>> /\ ~Growing
    BY <1>0, <1>6 DEF Clear, MoveAway
  <2>2. TableCounts' /\ groups' = g /\ size' = 0 /\ ~Growing'
    BY <2>1, AllocateStep DEF Growing
  <2> QED BY <2>1, <2>2, LoadType DEF TypeOK, TableCounts, TableInv, SizeExact
<1>7. ASSUME UNCHANGED vars PROVE CountedTableInv'
  <2>1. /\ size' = size /\ groups' = groups /\ control' = control
        /\ items' = items /\ inserting' = inserting /\ rest' = rest
    BY <1>7 DEF vars
  <2>2. Full' = Full /\ Growing' = Growing
    BY <2>1 DEF Full, Growing
  <2>3. TableOK' /\ OneSlot'
    <3>1. TableOK'
      BY <2>1, <2>2 DEF TableInv, TableOK
    <3> QED BY <3>1, <2>1, <2>2 DEF TableInv, OneSlot
  <2>4. WithinReach'
    <3> SUFFICES ASSUME NEW t \in Full', NEW l, l = items'[t].key PROVE Reached(l, t[1])'
      BY DEF WithinReach
    <3>1. Reached(l, t[1])
      BY <2>1, <2>2 DEF TableInv, WithinReach
    <3>2. \A h : HasEmpty(h)' => HasEmpty(h)
      BY <2>1 DEF HasEmpty
    <3> QED BY <2>1, <3>1, <3>2, ReachKept
  <2>5. SizeExact'
    BY <2>1, <2>2 DEF SizeExact
  <2> QED BY <2>1, <2>3, <2>4, <2>5 DEF TypeOK, TableInv
<1>8. \A k \in Keys, v \in Values : [key |-> k, value |-> v] \in Item
  BY DEF Item
<1> QED BY <1>1, <1>2, <1>3, <1>4, <1>5, <1>6, <1>7, <1>8 DEF Next

LEMMA TableInit == Init => CountedTableInv
<1> SUFFICES ASSUME Init PROVE CountedTableInv
  OBVIOUS
<1>1. Full = {} /\ groups = 0 /\ size = 0 /\ ~Growing
  BY DEF Init, Full, Slots, Growing
<1>2. TableOK /\ inserting = NoInsert /\ rest \in Seq(Item)
  BY <1>1 DEF Init, TableOK
<1>3. Cardinality(Full) = 0
  BY <1>1, FS_EmptySet
<1> QED BY <1>1, <1>2, <1>3, LoadType
        DEF CountedTableInv, TypeOK, TableInv, OneSlot, WithinReach, SizeExact

LEMMA TableInvariance == Spec => []CountedTableInv
BY TableInit, TableStep, PTL DEF Spec

\* Every slot holds an item with its hash bits, or none (hash_map.h).
THEOREM TableTypeCorrect == Spec => []TypeOK
<1>1. CountedTableInv => TypeOK
  BY DEF CountedTableInv
<1> QED BY <1>1, TableInvariance, PTL

\* A search that ends returns its key's slot, and none for an absent key
\* (table_ops::find).
THEOREM SearchesRight == Spec => []FindRight
<1>1. CountedTableInv => FindRight
  BY EmptyTable, RightFromInv DEF CountedTableInv, SizeExact, TableCounts
<1> QED BY <1>1, TableInvariance, PTL

\* _size is the number of items and within the load, also while the table grows
\* (hash_map::insert and _grow).
THEOREM SizeCounts == Spec => []SizeExact
<1>1. CountedTableInv => SizeExact
  BY DEF CountedTableInv
<1> QED BY <1>1, TableInvariance, PTL

-----------------------------------------------------------------------------
(***************************************************************************)
(* The table is a dictionary.  What a key is mapped to is well defined     *)
(* because no key is held twice, in the table or among the items that are  *)
(* yet to be moved to it; and only a growing table has such items.         *)
(***************************************************************************)
Stored == {items[s] : s \in Full}
Once(held) == \A a, b \in held : a.key = b.key => a = b
Without(held, k) == {a \in held : a.key # k}
With(held, item) == Without(held, item.key) \cup {item}

HeldOnce == Once(Held)
RestOnlyGrowing == Growing \/ rest = <<>>
DictInv == CountedTableInv /\ HeldOnce /\ RestOnlyGrowing


LEMMA HeldType ==
    ASSUME CountedTableInv
    PROVE  /\ Stored \subseteq Item /\ Held \subseteq Item
           /\ Held = Stored \cup {rest[i] : i \in DOMAIN rest}
           /\ rest = <<>> => Held = Stored
<1>1. \A s \in Full : items[s] \in Item
  BY DEF CountedTableInv, TypeOK, TableOK, Full
<1>2. \A i \in DOMAIN rest : rest[i] \in Item
  BY DEF CountedTableInv, TypeOK
<1>3. Held = Stored \cup {rest[i] : i \in DOMAIN rest}
  BY DEF Held, Stored
<1>4. rest = <<>> => {rest[i] : i \in DOMAIN rest} = {}
  OBVIOUS
<1> QED BY <1>1, <1>2, <1>3, <1>4 DEF Stored

\* What a key is mapped to, once and for all three cases.
LEMMA ValueCases ==
    ASSUME NEW held, Once(held), NEW insert, NEW k
    PROVE  /\ insert # NoInsert /\ insert.key = k => ValueIn(held, insert, k) = insert.value
           /\ ~(insert # NoInsert /\ insert.key = k) =>
                 /\ \A a \in held : a.key = k => ValueIn(held, insert, k) = a.value
                 /\ (\A a \in held : a.key # k) => ValueIn(held, insert, k) = NoValue
<1>1. CASE insert # NoInsert /\ insert.key = k
  BY <1>1 DEF ValueIn
<1>2. CASE ~(insert # NoInsert /\ insert.key = k)
  <2>1. ASSUME NEW a \in held, a.key = k PROVE ValueIn(held, insert, k) = a.value
    <3>1. (CHOOSE item \in held : item.key = k) = a
      BY <2>1 DEF Once
    <3> QED BY <1>2, <2>1, <3>1 DEF ValueIn
  <2>2. ASSUME \A a \in held : a.key # k PROVE ValueIn(held, insert, k) = NoValue
    BY <1>2, <2>2 DEF ValueIn
  <2> QED BY <1>2, <2>1, <2>2
<1> QED BY <1>1, <1>2

\* The items with one key replaced: the map is set at that key.
LEMMA ValuePut ==
    ASSUME NEW held, Once(held), NEW item \in Item
    PROVE  /\ Once(With(held, item))
           /\ \A k \in Keys : ValueIn(With(held, item), NoInsert, k) =
                 IF k = item.key THEN item.value ELSE ValueIn(held, NoInsert, k)
           /\ \A k \in Keys : ValueIn(With(held, item), NoInsert, k) = ValueIn(held, item, k)
<1> DEFINE held2 == With(held, item)
<1>0. \A a : a \in held2 <=> (a \in held /\ a.key # item.key) \/ a = item
  BY DEF With, Without
<1> HIDE DEF held2
<1>1. Once(held2)
  BY <1>0 DEF Once
<1>2. item # NoInsert
  BY ValueAssumption DEF Item, NoInsert, NoItem
<1>3. ASSUME NEW k \in Keys, k = item.key
      PROVE  ValueIn(held2, NoInsert, k) = item.value /\ ValueIn(held, item, k) = item.value
  <2>1. item \in held2 /\ item.key = k
    BY <1>0, <1>3
  <2> QED BY <1>1, <1>2, <1>3, <2>1, ValueCases
<1>4. ASSUME NEW k \in Keys, k # item.key
      PROVE  /\ ValueIn(held2, NoInsert, k) = ValueIn(held, NoInsert, k)
             /\ ValueIn(held, item, k) = ValueIn(held, NoInsert, k)
  <2>1. CASE \E a \in held : a.key = k
    <3>1. PICK a \in held : a.key = k
      BY <2>1
    <3>2. a \in held2
      BY <1>0, <1>4, <3>1
    <3> QED BY <1>1, <1>4, <3>1, <3>2, ValueCases
  <2>2. CASE \A a \in held : a.key # k
    <3>1. \A a \in held2 : a.key # k
      BY <1>0, <1>4, <2>2
    <3> QED BY <1>1, <1>4, <2>2, <3>1, ValueCases
  <2> QED BY <2>1, <2>2
<1> QED BY <1>1, <1>3, <1>4 DEF held2

\* The items with one key taken away: the map has nothing for that key.
LEMMA ValueRemove ==
    ASSUME NEW held, Once(held), NEW l
    PROVE  /\ Once(Without(held, l))
           /\ \A k \in Keys : ValueIn(Without(held, l), NoInsert, k) =
                 IF k = l THEN NoValue ELSE ValueIn(held, NoInsert, k)
<1> DEFINE held2 == Without(held, l)
<1>0. \A a : a \in held2 <=> a \in held /\ a.key # l
  BY DEF Without
<1> HIDE DEF held2
<1>1. Once(held2)
  BY <1>0 DEF Once
<1>2. ASSUME NEW k \in Keys, k = l PROVE ValueIn(held2, NoInsert, k) = NoValue
  <2>1. \A a \in held2 : a.key # k
    BY <1>0, <1>2
  <2> QED BY <1>1, <2>1, ValueCases
<1>3. ASSUME NEW k \in Keys, k # l
      PROVE  ValueIn(held2, NoInsert, k) = ValueIn(held, NoInsert, k)
  <2>1. CASE \E a \in held : a.key = k
    <3>1. PICK a \in held : a.key = k
      BY <2>1
    <3>2. a \in held2
      BY <1>0, <1>3, <3>1
    <3> QED BY <1>1, <3>1, <3>2, ValueCases
  <2>2. CASE \A a \in held : a.key # k
    <3>1. \A a \in held2 : a.key # k
      BY <1>0, <2>2
    <3> QED BY <1>1, <2>2, <3>1, ValueCases
  <2> QED BY <2>1, <2>2
<1> QED BY <1>1, <1>2, <1>3 DEF held2

-----------------------------------------------------------------------------
(***************************************************************************)
(* What each operation does to the items                                   *)
(***************************************************************************)
LEMMA InsertItems ==
    ASSUME CountedTableInv, NEW item \in Item, Insert(item), groups' = groups
    PROVE  Stored' = With(Stored, item)
<1>1. TableCounts /\ TableInv /\ item.key \in Keys
  BY DEF CountedTableInv, SizeExact, TableCounts, Item
<1>2. Find(item.key) = {s \in Full : items[s].key = item.key}
  BY <1>1, EmptyTable, RightFromInv DEF FindRight, Insert
<1>3. CASE Replace(item)
  <2>1. PICK s \in Full : /\ items[s].key = item.key
                         /\ items' = [items EXCEPT ![s].value = item.value]
    BY <1>2, <1>3 DEF Replace
  <2>2. Full' = Full
    BY <1>1, <1>3, ReplaceStep
  <2>3. items[s] \in Item /\ [items[s] EXCEPT !.value = item.value] = item
    BY <1>1, <2>1 DEF TableInv, TableOK, Full, Item
  <2>4. \A t \in Full : items'[t] = IF t = s THEN item ELSE items[t]
    BY <1>1, <2>1, <2>3 DEF TableInv, TableOK, Full
  <2>5. \A t \in Full : t = s <=> items[t].key = item.key
    BY <1>1, <2>1 DEF TableInv, OneSlot
  <2> QED BY <2>1, <2>2, <2>4, <2>5 DEF Stored, With, Without
<1>4. CASE Place(item)
  <2>1. PICK s \in Slots(groups) \ Full : /\ Full' = Full \cup {s}
                                          /\ items' = [items EXCEPT ![s] = item]
    BY <1>1, <1>4, PlaceStep, EmptyTable DEF TableCounts, Insert
  <2>2. \A t \in Full : items[t].key # item.key
    BY <1>2, <1>4 DEF Place
  <2>3. items'[s] = item /\ \A t \in Full : items'[t] = items[t]
    BY <1>1, <2>1 DEF TableInv, TableOK, Full
  <2> QED BY <2>1, <2>2, <2>3 DEF Stored, With, Without
<1> QED BY <1>3, <1>4 DEF Insert

\* Numbers in strictly increasing slots: as many as there are slots take each
\* of them.
LEMMA OrderIsComplete ==
    ASSUME NEW g \in Nat, NEW T \in SUBSET Slots(g), IsFiniteSet(T),
           NEW order \in [1 .. Cardinality(T) -> T], InOrder(order)
    PROVE  \A s \in T : \E i \in DOMAIN order : order[i] = s
<1> DEFINE n == Cardinality(T)
<1>1. n \in Nat
  BY FS_CardinalityType
<1>2. IsFiniteSet(1 .. n) /\ Cardinality(1 .. n) = n
  BY <1>1, FS_Interval
<1>3. \A s \in T : s[1] \in Int /\ s[2] \in Int
  BY WidthAssumption DEF Slots, Positions
<1>4. ASSUME NEW i \in 1 .. n, NEW j \in 1 .. n, i < j PROVE order[i] # order[j]
  <2>1. \/ order[i][1] < order[j][1]
        \/ order[i][1] = order[j][1] /\ order[i][2] < order[j][2]
    BY <1>4 DEF InOrder
  <2>2. order[i][1] \in Int /\ order[i][2] \in Int
    BY <1>3
  <2> QED BY <2>1, <2>2
<1>5. \A i, j \in 1 .. n : order[i] = order[j] => i = j
  <2> SUFFICES ASSUME NEW i \in 1 .. n, NEW j \in 1 .. n, i # j PROVE order[i] # order[j]
    OBVIOUS
  <2>1. i < j \/ j < i
    BY <1>1
  <2> QED BY <1>4, <2>1
<1>6. order \in Injection(1 .. n, T)
  BY <1>5 DEF Injection, IsInjective
<1>7. order \in Surjection(1 .. n, T)
  BY <1>2, <1>6, FS_Injection
<1> QED BY <1>7 DEF Surjection

\* Growth takes nothing away.
LEMMA GrowItems ==
    ASSUME DictInv, NEW item \in Item, Grow(item)
    PROVE  Held' = Held
<1>1. CountedTableInv /\ groups \in Nat /\ rest = <<>> /\ Cardinality(Full) \in Nat
  BY DEF DictInv, CountedTableInv, TableInv, TableOK, RestOnlyGrowing, Grow, SizeExact
<1>2. Held = Stored
  BY <1>1, HeldType
<1>3. Full' = {}
  <2>1. Grown \in Nat
    BY <1>1 DEF Grown
  <2> QED BY <2>1, FreshTable DEF Grow
<1>4. PICK order \in [1 .. Cardinality(Full) -> Full] :
         InOrder(order) /\ rest' = [i \in DOMAIN order |-> items[order[i]]]
  BY DEF Grow, Moved
<1>5. \A s \in Full : \E i \in DOMAIN order : order[i] = s
  <2>1. Full \in SUBSET Slots(groups) /\ IsFiniteSet(Full)
    BY <1>1, FullFinite DEF Full
  <2> QED BY <1>1, <1>4, <2>1, OrderIsComplete
<1>6. {rest'[i] : i \in DOMAIN rest'} = Stored
  BY <1>4, <1>5 DEF Stored
<1>7. Held' = {rest'[i] : i \in DOMAIN rest'}
  BY <1>3 DEF Held
<1> QED BY <1>2, <1>6, <1>7

LEMMA EraseItems ==
    ASSUME CountedTableInv, NEW k \in Keys, Erase(k)
    PROVE  Stored' = Without(Stored, k)
<1>1. TableCounts /\ TableInv
  BY DEF CountedTableInv, SizeExact, TableCounts
<1>2. Find(k) = {s \in Full : items[s].key = k}
  BY <1>1, EmptyTable, RightFromInv DEF FindRight, Erase
<1>3. PICK s \in Full : /\ items[s].key = k
                       /\ control' = [control EXCEPT ![s] = Erased(s)]
                       /\ items' = [items EXCEPT ![s] = NoItem]
  BY <1>2 DEF Erase
<1>4. size \in Nat \ {0} /\ size' = size - 1 /\ groups' = groups
  BY <1>1 DEF Erase, TableInv, TableOK
<1>5. Full' = Full \ {s}
  BY <1>1, <1>3, <1>4, EraseStep
<1>6. \A t \in Full \ {s} : items'[t] = items[t]
  BY <1>1, <1>3 DEF TableInv, TableOK, Full
<1>7. \A t \in Full : t = s <=> items[t].key = k
  BY <1>1, <1>3 DEF TableInv, OneSlot
<1> QED BY <1>3, <1>5, <1>6, <1>7 DEF Stored, Without

-----------------------------------------------------------------------------
(***************************************************************************)
(* The steps of the dictionary                                             *)
(***************************************************************************)
KeepsInv == HeldOnce' /\ RestOnlyGrowing'

LEMMA DictStep ==
    DictInv /\ CountedTableInv' /\ [Next]_vars => KeepsInv /\ [D!Next]_Contents
<1> SUFFICES ASSUME DictInv, CountedTableInv', [Next]_vars
             PROVE  /\ KeepsInv
                    /\ \/ \E k \in Keys : \/ Contents' = [Contents EXCEPT ![k] = NoValue]
                                          \/ \E v \in Values :
                                                Contents' = [Contents EXCEPT ![k] = v]
                       \/ Contents' = [k \in Keys |-> NoValue]
                       \/ Contents' = Contents
  BY DEF D!Next, D!Put, D!Remove, D!RemoveAll
<1>0. /\ CountedTableInv /\ HeldOnce /\ RestOnlyGrowing
      /\ Held \subseteq Item /\ rest \in Seq(Item)
      /\ Held = Stored \cup {rest[i] : i \in DOMAIN rest}
      /\ rest = <<>> => Held = Stored
      /\ Held' = Stored' \cup {rest'[i] : i \in DOMAIN rest'}
      /\ rest' = <<>> => Held' = Stored'
      /\ Contents = [k \in Keys |-> ValueIn(Held, inserting, k)]
      /\ Contents' = [k \in Keys |-> ValueIn(Held', inserting', k)]
  <2>1. /\ Held' = Stored' \cup {rest'[i] : i \in DOMAIN rest'}
        /\ rest' = <<>> => Held' = Stored'
    <3>1. Held' = Stored' \cup {rest'[i] : i \in DOMAIN rest'}
      BY DEF Held, Stored
    <3>2. rest' = <<>> => {rest'[i] : i \in DOMAIN rest'} = {}
      OBVIOUS
    <3> QED BY <3>1, <3>2
  <2>2. rest \in Seq(Item)
    BY DEF DictInv, CountedTableInv, TypeOK
  <2> QED BY <2>1, <2>2, HeldType DEF DictInv, Contents
<1>1. ASSUME NEW item \in Item, InsertInto(item)
      PROVE  /\ KeepsInv
             /\ Contents' = [Contents EXCEPT ![item.key] = item.value]
  <2>1. /\ inserting = NoInsert /\ inserting' = NoInsert
        /\ rest = <<>> /\ rest' = <<>> /\ groups' = groups /\ Insert(item)
    BY <1>0, <1>1 DEF InsertInto, Growing, RestOnlyGrowing
  <2>2. Held' = With(Held, item)
    BY <1>0, <2>1, InsertItems
  <2>3. /\ Once(Held')
        /\ \A k \in Keys : ValueIn(Held', NoInsert, k) =
              IF k = item.key THEN item.value ELSE ValueIn(Held, NoInsert, k)
    <3>1. /\ Once(With(Held, item))
          /\ \A k \in Keys : ValueIn(With(Held, item), NoInsert, k) =
                IF k = item.key THEN item.value ELSE ValueIn(Held, NoInsert, k)
      BY <1>0, ValuePut DEF HeldOnce
    <3> QED BY <2>2, <3>1
  <2>4. KeepsInv
    BY <2>1, <2>3 DEF KeepsInv, HeldOnce, RestOnlyGrowing
  <2>5. Contents' = [Contents EXCEPT ![item.key] = item.value]
    BY <1>0, <2>1, <2>3
  <2> QED BY <2>4, <2>5
<1>2. ASSUME NEW item \in Item, Grow(item)
      PROVE  /\ KeepsInv
             /\ Contents' = [Contents EXCEPT ![item.key] = item.value]
  <2>1. Held' = Held /\ inserting = NoInsert /\ inserting' = item
    BY <1>2, GrowItems DEF Grow, Growing
  <2>2. Growing'
    BY <2>1, ValueAssumption DEF Growing, Item, NoInsert, NoItem
  <2>3. \A k \in Keys : ValueIn(Held, item, k) =
              IF k = item.key THEN item.value ELSE ValueIn(Held, NoInsert, k)
    <3> DEFINE held2 == With(Held, item)
    <3>1. /\ \A k \in Keys : ValueIn(held2, NoInsert, k) =
                IF k = item.key THEN item.value ELSE ValueIn(Held, NoInsert, k)
          /\ \A k \in Keys : ValueIn(held2, NoInsert, k) = ValueIn(Held, item, k)
      BY <1>0, ValuePut DEF HeldOnce
    <3> HIDE DEF held2
    <3> QED BY <3>1
  <2>4. KeepsInv
    BY <1>0, <2>1, <2>2 DEF KeepsInv, HeldOnce, RestOnlyGrowing
  <2>5. Contents' = [Contents EXCEPT ![item.key] = item.value]
    BY <1>0, <2>1, <2>3
  <2> QED BY <2>4, <2>5
<1>3. ASSUME MoveNext PROVE KeepsInv /\ Contents' = Contents
  <2>1. /\ Growing /\ inserting' = inserting /\ groups' = groups
        /\ rest # <<>> /\ Insert(Head(rest)) /\ rest' = Tail(rest)
    BY <1>3 DEF MoveNext
  <2>2. /\ Head(rest) \in Item /\ Head(rest) = rest[1] /\ 1 \in DOMAIN rest
        /\ Tail(rest) \in Seq(Item) /\ Len(Tail(rest)) = Len(rest) - 1
        /\ \A i \in 1 .. Len(Tail(rest)) : Tail(rest)[i] = rest[i + 1]
    <3>1. /\ Head(rest) \in Item
          /\ Tail(rest) \in Seq(Item) /\ Len(Tail(rest)) = Len(rest) - 1
          /\ \A i \in 1 .. Len(Tail(rest)) : Tail(rest)[i] = rest[i + 1]
      BY <1>0, <2>1, HeadTailProperties
    <3>2. Head(rest) = rest[1] /\ 1 \in DOMAIN rest
      BY <1>0, <2>1
    <3> QED BY <3>1, <3>2
  <2>3. {rest[i] : i \in DOMAIN rest} = {Head(rest)} \cup {rest'[i] : i \in DOMAIN rest'}
    <3>1. DOMAIN rest = 1 .. Len(rest) /\ DOMAIN rest' = 1 .. Len(rest) - 1 /\ Len(rest) \in Nat
      BY <1>0, <2>1, <2>2, LenProperties
    <3>2. ASSUME NEW i \in DOMAIN rest
          PROVE  rest[i] \in {Head(rest)} \cup {rest'[j] : j \in DOMAIN rest'}
      <4>1. CASE i = 1
        BY <2>2, <4>1
      <4>2. CASE i # 1
        <5>1. i - 1 \in DOMAIN rest' /\ i - 1 + 1 = i
          BY <3>1, <3>2, <4>2
        <5>2. rest'[i - 1] = rest[i - 1 + 1]
          BY <2>1, <2>2, <3>1, <5>1
        <5> QED BY <5>1, <5>2
      <4> QED BY <4>1, <4>2
    <3>3. ASSUME NEW i \in DOMAIN rest'
          PROVE  rest'[i] \in {rest[j] : j \in DOMAIN rest}
      <4>1. i + 1 \in DOMAIN rest /\ rest'[i] = rest[i + 1]
        BY <2>1, <2>2, <3>1, <3>3
      <4> QED BY <4>1
    <3> QED BY <2>2, <3>2, <3>3
  <2>4. Stored' = With(Stored, Head(rest))
    BY <1>0, <2>1, <2>2, InsertItems
  <2>5. Held' = Held
    <3>1. \A a \in Stored : a.key = Head(rest).key => a = Head(rest)
      BY <1>0, <2>3 DEF HeldOnce, Once
    <3> QED BY <1>0, <2>3, <2>4, <3>1 DEF With, Without
  <2>6. KeepsInv
    BY <1>0, <2>1, <2>5 DEF KeepsInv, HeldOnce, RestOnlyGrowing, Growing
  <2> QED BY <1>0, <2>1, <2>5, <2>6
<1>4. ASSUME GrowDone PROVE KeepsInv /\ Contents' = Contents
  <2>1. /\ inserting \in Item /\ inserting' = NoInsert /\ groups' = groups
        /\ rest = <<>> /\ rest' = <<>> /\ Insert(inserting)
    BY <1>0, <1>4 DEF GrowDone, CountedTableInv, TypeOK, Growing
  <2>2. Held' = With(Held, inserting)
    BY <1>0, <2>1, InsertItems
  <2>3. /\ Once(Held')
        /\ \A k \in Keys : ValueIn(Held', NoInsert, k) = ValueIn(Held, inserting, k)
    <3>1. /\ Once(With(Held, inserting))
          /\ \A k \in Keys : ValueIn(With(Held, inserting), NoInsert, k)
                                = ValueIn(Held, inserting, k)
      BY <1>0, <2>1, ValuePut DEF HeldOnce
    <3> QED BY <2>2, <3>1
  <2>4. KeepsInv
    BY <2>1, <2>3 DEF KeepsInv, HeldOnce, RestOnlyGrowing
  <2> QED BY <1>0, <2>1, <2>3, <2>4
<1>5. ASSUME NEW l \in Keys, Erase(l)
      PROVE  KeepsInv /\ Contents' = [Contents EXCEPT ![l] = NoValue]
  <2>1. inserting = NoInsert /\ inserting' = NoInsert /\ rest = <<>> /\ rest' = <<>>
    BY <1>0, <1>5 DEF Erase, Growing, RestOnlyGrowing
  <2>2. Held' = Without(Held, l)
    BY <1>0, <1>5, <2>1, EraseItems
  <2>3. /\ Once(Held')
        /\ \A k \in Keys : ValueIn(Held', NoInsert, k) =
              IF k = l THEN NoValue ELSE ValueIn(Held, NoInsert, k)
    <3>1. /\ Once(Without(Held, l))
          /\ \A k \in Keys : ValueIn(Without(Held, l), NoInsert, k) =
                IF k = l THEN NoValue ELSE ValueIn(Held, NoInsert, k)
      <4>1. Once(Held)
        BY <1>0 DEF HeldOnce
      <4> QED BY <4>1, ValueRemove
    <3> QED BY <2>2, <3>1
  <2>4. KeepsInv
    BY <2>1, <2>3 DEF KeepsInv, HeldOnce, RestOnlyGrowing
  <2>5. Contents' = [Contents EXCEPT ![l] = NoValue]
    BY <1>0, <2>1, <2>3
  <2> QED BY <2>4, <2>5
<1>6. ASSUME Clear \/ MoveAway PROVE KeepsInv /\ Contents' = [k \in Keys |-> NoValue]
  <2>1. groups \in Nat
    BY <1>0 DEF CountedTableInv, TableInv, TableOK
  <2>2. PICK g \in Nat : Allocate(g) /\ inserting' = inserting /\ rest' = rest /\ ~Growing
    BY <1>6, <2>1 DEF Clear, MoveAway
  <2>3. inserting' = NoInsert /\ rest' = <<>>
    BY <1>0, <2>2 DEF Growing, RestOnlyGrowing
  <2>4. Held' = {}
    BY <1>0, <2>2, <2>3, FreshTable DEF Stored
  <2>5. \A k : ValueIn({}, NoInsert, k) = NoValue
    BY ValueCases DEF Once
  <2>6. KeepsInv
    BY <2>3, <2>4 DEF KeepsInv, HeldOnce, Once, RestOnlyGrowing
  <2> QED BY <1>0, <2>3, <2>4, <2>5, <2>6
<1>7. ASSUME UNCHANGED vars PROVE KeepsInv /\ Contents' = Contents
  <2>1. /\ groups' = groups /\ control' = control
        /\ items' = items /\ inserting' = inserting /\ rest' = rest
    BY <1>7 DEF vars
  <2>2. Full' = Full
    BY <2>1 DEF Full
  <2>3. Held' = Held
    BY <2>1, <2>2 DEF Held
  <2>4. KeepsInv
    BY <1>0, <2>1, <2>3 DEF KeepsInv, HeldOnce, RestOnlyGrowing, Growing
  <2> QED BY <1>0, <2>1, <2>3, <2>4
<1>8. \A k \in Keys, v \in Values :
         LET item == [key |-> k, value |-> v]
         IN  item \in Item /\ item.key = k /\ item.value = v
  BY DEF Item
<1>9. ASSUME NEW k \in Keys, NEW v \in Values,
             LET item == [key |-> k, value |-> v] IN InsertInto(item) \/ Grow(item)
      PROVE  KeepsInv /\ Contents' = [Contents EXCEPT ![k] = v]
  BY <1>1, <1>2, <1>8, <1>9
<1> QED BY <1>3, <1>4, <1>5, <1>6, <1>7, <1>9 DEF Next

LEMMA DictInit == Init => DictInv /\ D!Init
<1> SUFFICES ASSUME Init PROVE DictInv /\ Contents = [k \in Keys |-> NoValue]
  BY DEF D!Init
<1>1. CountedTableInv /\ inserting = NoInsert /\ rest = <<>> /\ Full = {}
  BY TableInit DEF Init, Full, Slots
<1>2. Held = {}
  BY <1>1, HeldType DEF Stored
<1>3. \A k : ValueIn({}, NoInsert, k) = NoValue
  BY ValueCases DEF Once
<1>4. Contents = [k \in Keys |-> NoValue]
  BY <1>1, <1>2, <1>3 DEF Contents
<1> QED BY <1>1, <1>2, <1>4 DEF DictInv, HeldOnce, Once, RestOnlyGrowing

\* The table is a dictionary whatever its keys hash to: an insertion, the one
\* that makes it grow included, sets its key, an erasure removes its key, and
\* neither touches another (hash_map::insert, erase, clear, _grow).
THEOREM TableIsDictionary == Spec => ImplementsDictionary
<1>1. DictInv /\ [Next]_vars => DictInv'
  BY TableStep, DictStep DEF DictInv, KeepsInv
<1>2. DictInv /\ [Next]_vars => [D!Next]_Contents
  BY TableStep, DictStep DEF DictInv
<1> QED BY <1>1, <1>2, DictInit, PTL DEF Spec, ImplementsDictionary, D!Spec

-----------------------------------------------------------------------------
(***************************************************************************)
(* The vector.                                                             *)
(*                                                                         *)
(* What each loop over elements does to the cells (memory_util.h), then    *)
(* what each operation does to a vector that holds a sequence, for vectors *)
(* of any size and capacity. VectorInv says that the vector holds its      *)
(* contents and is made of cells; it is inductive when the two uses that   *)
(* the code gets wrong are left out.                                       *)
(***************************************************************************)

\* What a vector may hold, what a cell may, and the vectors there are.
Items == Elements \cup {Default}
Cells == Items \cup {Raw, MovedFrom}
Buffers == [cells : Seq(Cells), size : Nat, sound : BOOLEAN]

LEMMA RawIsNoValue == ASSUME VectorAssumption PROVE Raw \notin Items /\ MovedFrom # Raw
BY DEF VectorAssumption, Items, Raw, MovedFrom, Default

\* Demands change nothing but whether all was sound.
LEMMA Demanded ==
    ASSUME NEW v \in Buffers, NEW c \in BOOLEAN
    PROVE  /\ Demand(v, c) \in Buffers
           /\ Demand(v, c).cells = v.cells /\ Demand(v, c).size = v.size
           /\ v.sound /\ c => Demand(v, c).sound
BY DEF Demand, Buffers

\* new is v with xs in the cells from first.
WritesCells(v, first, xs, new) ==
    /\ new \in Buffers /\ new.size = v.size
    /\ Len(new.cells) = Len(v.cells)
    /\ \A i \in 1 .. Len(v.cells) :
          new.cells[i] = IF first <= i /\ i < first + Len(xs) THEN xs[i + 1 - first] ELSE v.cells[i]

LEMMA WrittenCells ==
    ASSUME NEW v \in Buffers, NEW first \in Nat, NEW xs \in Seq(Cells)
    PROVE  WritesCells(v, first, xs, Written(v, first, xs)) /\ Written(v, first, xs).sound = v.sound
<1> DEFINE cells == [i \in DOMAIN v.cells |->
                        IF i \in first .. first + Len(xs) - 1 THEN xs[i + 1 - first] ELSE v.cells[i]]
           new == [v EXCEPT !.cells = cells]
<1>1. v.cells \in Seq(Cells) /\ DOMAIN v.cells = 1 .. Len(v.cells) /\ Len(v.cells) \in Nat /\ Len(xs) \in Nat
      /\ v.size \in Nat /\ v.sound \in BOOLEAN
  BY DEF Buffers
<1>2. ASSUME NEW i \in 1 .. Len(v.cells)
      PROVE  /\ cells[i] \in Cells
             /\ cells[i] = IF first <= i /\ i < first + Len(xs) THEN xs[i + 1 - first] ELSE v.cells[i]
  <2>1. i \in first .. first + Len(xs) - 1 <=> first <= i /\ i < first + Len(xs)
    BY <1>1
  <2>2. cells[i] = IF first <= i /\ i < first + Len(xs) THEN xs[i + 1 - first] ELSE v.cells[i]
    BY <1>1, <2>1
  <2>3. v.cells[i] \in Cells
    BY <1>1
  <2>4. first <= i /\ i < first + Len(xs) => xs[i + 1 - first] \in Cells
    <3>1. first <= i /\ i < first + Len(xs) => i + 1 - first \in 1 .. Len(xs)
      BY <1>1
    <3> QED BY <3>1
  <2> QED BY <2>2, <2>3, <2>4
<1>3. cells \in Seq(Cells) /\ Len(cells) = Len(v.cells)
  <2>1. cells \in [1 .. Len(v.cells) -> Cells]
    BY <1>1, <1>2
  <2>2. cells \in Seq(Cells)
    BY <1>1, <2>1, SeqDef
  <2>3. DOMAIN cells = 1 .. Len(v.cells)
    BY <1>1, <2>1
  <2> QED BY <1>1, <2>2, <2>3, LenProperties
<1> HIDE DEF cells
<1>4. new \in Buffers /\ new.size = v.size /\ new.sound = v.sound /\ new.cells = cells
  BY <1>1, <1>3 DEF Buffers
<1>5. Written(v, first, xs) = new
  BY DEF Written, cells
<1> QED BY <1>2, <1>3, <1>4, <1>5 DEF WritesCells

\* Raw memory, and what is taken from cells or left in them, are sequences of cells.
LEMMA RunsOfCells ==
    ASSUME NEW v \in Buffers, NEW first \in Nat \ {0}, NEW n \in Nat,
           first + n <= Len(v.cells) + 1
    PROVE  /\ RawCells(n) \in Seq(Cells) /\ Len(RawCells(n)) = n
           /\ \A k \in 1..n : RawCells(n)[k] = Raw
           /\ Taken(v, first, n) \in Seq(Cells) /\ Len(Taken(v, first, n)) = n
           /\ \A k \in 1..n : Taken(v, first, n)[k] = v.cells[first + k - 1]
<1>1. v.cells \in Seq(Cells) /\ DOMAIN v.cells = 1 .. Len(v.cells) /\ Len(v.cells) \in Nat
  BY DEF Buffers
<1>2. RawCells(n) \in [1..n -> Cells] /\ \A k \in 1..n : RawCells(n)[k] = Raw
  BY DEF RawCells, Cells
<1>3. ASSUME NEW k \in 1..n PROVE v.cells[first + k - 1] \in Cells
  <2>1. first + k - 1 \in 1 .. Len(v.cells)
    BY <1>1
  <2> QED BY <1>1, <2>1
<1>4. Taken(v, first, n) \in [1..n -> Cells] /\ \A k \in 1..n : Taken(v, first, n)[k] = v.cells[first + k - 1]
  BY <1>3 DEF Taken
<1>5. RawCells(n) \in Seq(Cells) /\ Taken(v, first, n) \in Seq(Cells)
  BY <1>2, <1>4, SeqDef
<1>6. DOMAIN RawCells(n) = 1..n /\ DOMAIN Taken(v, first, n) = 1..n
  BY <1>2, <1>4
<1> QED BY <1>2, <1>4, <1>5, <1>6, LenProperties

\* What a loop keeps of a buffer.
Keeps(v, new) ==
    /\ new \in Buffers /\ new.size = v.size
    /\ Len(new.cells) = Len(v.cells)
    /\ v.sound => new.sound

\* The n cells from first, which the buffer has, are elements, or raw.
Filled(v, first, n) ==
    /\ first + n <= Len(v.cells) + 1
    /\ \A i \in 1 .. Len(v.cells) : first <= i /\ i < first + n => v.cells[i] # Raw
AllRaw(v, first, n) ==
    /\ first + n <= Len(v.cells) + 1
    /\ \A i \in 1 .. Len(v.cells) : first <= i /\ i < first + n => v.cells[i] = Raw

\* n cells from first are copied or moved to those from out.
Shifted(v, first, n, out, new) ==
    /\ Keeps(v, new)
    /\ \A i \in 1 .. Len(v.cells) :
          /\ out <= i /\ i < out + n => new.cells[i] = v.cells[first + (i - out)]
          /\ first <= i /\ i < first + n => new.cells[i] # Raw
          /\ ~(out <= i /\ i < out + n) /\ ~(first <= i /\ i < first + n) => new.cells[i] = v.cells[i]

\* The loops that destroy elements and construct them leave the other cells alone.
LEMMA Destroying ==
    ASSUME NEW v \in Buffers, NEW first \in Nat \ {0}, NEW n \in Nat, Filled(v, first, n)
    PROVE  /\ Keeps(v, DestructN(v, first, n))
           /\ \A i \in 1 .. Len(v.cells) :
                 DestructN(v, first, n).cells[i] = IF first <= i /\ i < first + n THEN Raw ELSE v.cells[i]
<1> DEFINE d == Demand(v, Alive(v, first, n))
<1>1. Alive(v, first, n)
  BY DEF Alive, Buffers, Filled
<1>2. d \in Buffers /\ d.cells = v.cells /\ d.size = v.size /\ (v.sound => d.sound)
  BY <1>1, Demanded
<1> HIDE DEF d
<1>3. RawCells(n) \in Seq(Cells) /\ Len(RawCells(n)) = n /\ \A k \in 1..n : RawCells(n)[k] = Raw
  BY RunsOfCells DEF Filled
<1>4. WritesCells(d, first, RawCells(n), DestructN(v, first, n)) /\ DestructN(v, first, n).sound = d.sound
  BY <1>2, <1>3, WrittenCells DEF DestructN, d
<1>5. ASSUME NEW i \in 1 .. Len(v.cells)
      PROVE  DestructN(v, first, n).cells[i] = IF first <= i /\ i < first + n THEN Raw ELSE v.cells[i]
  <2>1. Len(v.cells) \in Nat
    BY DEF Buffers
  <2>2. first <= i /\ i < first + n => i + 1 - first \in 1..n
    BY <2>1
  <2> QED BY <1>2, <1>3, <1>4, <2>2 DEF WritesCells
<1> QED BY <1>2, <1>4, <1>5 DEF WritesCells, Keeps

LEMMA Constructing ==
    ASSUME NEW v \in Buffers, NEW first \in Nat \ {0}, NEW xs \in Seq(Cells),
           AllRaw(v, first, Len(xs))
    PROVE  /\ Keeps(v, ConstructN(v, first, xs))
           /\ \A i \in 1 .. Len(v.cells) :
                 ConstructN(v, first, xs).cells[i] =
                     IF first <= i /\ i < first + Len(xs) THEN xs[i + 1 - first] ELSE v.cells[i]
<1> DEFINE c == \A i \in first .. first + Len(xs) - 1 : v.cells[i] = Raw
           d == Demand(v, c)
<1>1. c
  BY DEF Buffers, AllRaw
<1> HIDE DEF c
<1>2. d \in Buffers /\ d.cells = v.cells /\ d.size = v.size /\ (v.sound => d.sound)
  BY <1>1, Demanded
<1> HIDE DEF d
<1>3. WritesCells(d, first, xs, ConstructN(v, first, xs)) /\ ConstructN(v, first, xs).sound = d.sound
  BY <1>2, WrittenCells DEF ConstructN, d, c
<1> QED BY <1>2, <1>3 DEF WritesCells, Keeps

\* What moving leaves in n cells are elements, if there were some.
LEMMA LeftCells ==
    ASSUME NEW xs \in Seq(Cells), VectorAssumption
    PROVE  /\ Left(xs) \in Seq(Cells) /\ Len(Left(xs)) = Len(xs)
           /\ \A k \in 1 .. Len(xs) : xs[k] # Raw => Left(xs)[k] # Raw
<1>1. CASE kind = "object"
  <2>1. DOMAIN xs = 1 .. Len(xs) /\ Len(xs) \in Nat
    OBVIOUS
  <2>2. Left(xs) \in [1 .. Len(xs) -> Cells] /\ \A k \in 1 .. Len(xs) : Left(xs)[k] = MovedFrom
    BY <1>1, <2>1 DEF Left, Cells
  <2>3. Left(xs) \in Seq(Cells)
    BY <2>1, <2>2, SeqDef
  <2>4. DOMAIN Left(xs) = 1 .. Len(xs)
    BY <2>2
  <2> QED BY <2>1, <2>2, <2>3, <2>4, LenProperties, RawIsNoValue
<1>2. CASE kind # "object"
  BY <1>2 DEF Left
<1> QED BY <1>1, <1>2

\* An uninitialized copy, or move, of n elements to raw memory: they are there,
\* and what they have left is to be destroyed.
Transfer(moving, v, first, n, out) ==
    IF moving THEN UninitializedMoveN(v, first, n, out) ELSE UninitializedCopyN(v, first, n, out)

LEMMA Transferring ==
    ASSUME VectorAssumption,
           NEW moving \in BOOLEAN, NEW v \in Buffers,
           NEW first \in Nat \ {0}, NEW n \in Nat, NEW out \in Nat \ {0},
           Filled(v, first, n), AllRaw(v, out, n)
    PROVE  Shifted(v, first, n, out, Transfer(moving, v, first, n, out))
<1> DEFINE d == Demand(v, Alive(v, first, n))
           xs == Taken(v, first, n)
           copied == UninitializedCopyN(v, first, n, out)
           moved == UninitializedMoveN(v, first, n, out)
<1>0. Len(v.cells) \in Nat
  BY DEF Buffers
<1>1. Alive(v, first, n)
  <2>1. ASSUME NEW i \in first .. first + n - 1 PROVE v.cells[i] # Raw
    <3>1. first + n <= Len(v.cells) + 1
      BY DEF Filled
    <3>2. i \in 1 .. Len(v.cells) /\ first <= i /\ i < first + n
      BY <1>0, <3>1
    <3> QED BY <3>2 DEF Filled
  <2> QED BY <2>1 DEF Alive
<1>2. d \in Buffers /\ d.cells = v.cells /\ d.size = v.size /\ (v.sound => d.sound)
  BY <1>1, Demanded
<1>3. xs \in Seq(Cells) /\ Len(xs) = n /\ \A k \in 1..n : xs[k] = v.cells[first + k - 1]
  <2>1. first + n <= Len(v.cells) + 1
    BY DEF Filled
  <2> QED BY <2>1, RunsOfCells
<1>4. copied = ConstructN(d, out, xs)
  BY DEF UninitializedCopyN
<1> HIDE DEF d, xs, copied
<1>5. /\ Keeps(d, copied)
      /\ \A i \in 1 .. Len(v.cells) :
            copied.cells[i] = IF out <= i /\ i < out + n THEN xs[i + 1 - out] ELSE v.cells[i]
  <2>1. AllRaw(d, out, Len(xs)) /\ d \in Buffers /\ xs \in Seq(Cells) /\ out \in Nat \ {0}
    BY <1>2, <1>3 DEF AllRaw
  <2>2. /\ Keeps(d, ConstructN(d, out, xs))
        /\ \A i \in 1 .. Len(d.cells) :
              ConstructN(d, out, xs).cells[i] =
                  IF out <= i /\ i < out + Len(xs) THEN xs[i + 1 - out] ELSE d.cells[i]
    BY <2>1, Constructing
  <2> QED BY <1>2, <1>3, <1>4, <2>2
<1>6. copied \in Buffers /\ Len(copied.cells) = Len(v.cells) /\ copied.size = v.size /\ (v.sound => copied.sound)
  BY <1>2, <1>5 DEF Keeps
<1>7. ASSUME NEW i \in 1 .. Len(v.cells)
      PROVE  /\ out <= i /\ i < out + n => copied.cells[i] = v.cells[first + (i - out)]
             /\ first <= i /\ i < first + n => copied.cells[i] # Raw
             /\ first <= i /\ i < first + n => ~(out <= i /\ i < out + n)
             /\ ~(out <= i /\ i < out + n) => copied.cells[i] = v.cells[i]
  <2>1. out <= i /\ i < out + n => i + 1 - out \in 1..n /\ first + (i + 1 - out) - 1 = first + (i - out)
    BY <1>0
  <2> QED BY <1>3, <1>5, <2>1 DEF Filled, AllRaw
<1>8. Left(xs) \in Seq(Cells) /\ Len(Left(xs)) = n /\ \A k \in 1..n : xs[k] # Raw => Left(xs)[k] # Raw
  BY <1>3, LeftCells
<1>9. WritesCells(copied, first, Left(xs), moved) /\ moved.sound = copied.sound
  BY <1>6, <1>8, WrittenCells DEF UninitializedMoveN, copied, xs
<1>10. moved \in Buffers /\ Len(moved.cells) = Len(v.cells) /\ moved.size = v.size /\ (v.sound => moved.sound)
  BY <1>6, <1>9 DEF WritesCells
<1>11. ASSUME NEW i \in 1 .. Len(v.cells)
      PROVE  /\ first <= i /\ i < first + n => moved.cells[i] # Raw
             /\ ~(first <= i /\ i < first + n) => moved.cells[i] = copied.cells[i]
  <2>1. moved.cells[i] = IF first <= i /\ i < first + n THEN Left(xs)[i + 1 - first] ELSE copied.cells[i]
    BY <1>6, <1>8, <1>9 DEF WritesCells
  <2>2. first <= i /\ i < first + n =>
            i + 1 - first \in 1..n /\ first + (i + 1 - first) - 1 = i
    BY <1>0
  <2> QED BY <1>3, <1>8, <2>1, <2>2 DEF Filled
<1> HIDE DEF moved
<1>12. CASE moving
  <2>1. Transfer(moving, v, first, n, out) = moved
    BY <1>12 DEF Transfer, moved
  <2>2. Keeps(v, moved)
    BY <1>10 DEF Keeps
  <2> QED BY <1>7, <1>11, <2>1, <2>2 DEF Shifted
<1>13. CASE ~moving
  <2>1. Transfer(moving, v, first, n, out) = copied
    BY <1>13 DEF Transfer, copied
  <2>2. Keeps(v, copied)
    BY <1>6 DEF Keeps
  <2> QED BY <1>7, <2>1, <2>2 DEF Shifted
<1> QED BY <1>12, <1>13

\* A move within the vector, over elements that are there.
LEMMA Moving ==
    ASSUME VectorAssumption, NEW v \in Buffers,
           NEW first \in Nat \ {0}, NEW n \in Nat, NEW out \in Nat \ {0},
           Filled(v, first, n), Filled(v, out, n)
    PROVE  Shifted(v, first, n, out, MoveN(v, first, n, out))
<1> DEFINE d == Demand(v, Alive(v, first, n))
           xs == Taken(v, first, n)
           left == Written(d, first, Left(xs))
           c == kind = "object" => Alive(left, out, Len(xs))
           e == Demand(left, c)
           moved == MoveN(v, first, n, out)
<1>0. Len(v.cells) \in Nat
  BY DEF Buffers
<1>1. Alive(v, first, n)
  <2>1. ASSUME NEW i \in first .. first + n - 1 PROVE v.cells[i] # Raw
    <3>1. first + n <= Len(v.cells) + 1
      BY DEF Filled
    <3>2. i \in 1 .. Len(v.cells) /\ first <= i /\ i < first + n
      BY <1>0, <3>1
    <3> QED BY <3>2 DEF Filled
  <2> QED BY <2>1 DEF Alive
<1>2. d \in Buffers /\ d.cells = v.cells /\ d.size = v.size /\ (v.sound => d.sound)
  BY <1>1, Demanded
<1>3. xs \in Seq(Cells) /\ Len(xs) = n /\ \A k \in 1..n : xs[k] = v.cells[first + k - 1]
  <2>1. first + n <= Len(v.cells) + 1
    BY DEF Filled
  <2> QED BY <2>1, RunsOfCells
<1>4. moved = Written(e, out, xs)
  BY DEF MoveN, CopyN
<1> HIDE DEF d, xs
<1>5. Left(xs) \in Seq(Cells) /\ Len(Left(xs)) = n /\ \A k \in 1..n : xs[k] # Raw => Left(xs)[k] # Raw
  BY <1>3, LeftCells
<1>6. WritesCells(d, first, Left(xs), left) /\ left.sound = d.sound
  BY <1>2, <1>5, WrittenCells
<1> HIDE DEF left
<1>7. left \in Buffers /\ Len(left.cells) = Len(v.cells) /\ left.size = v.size
  BY <1>2, <1>6 DEF WritesCells
<1>8. ASSUME NEW i \in 1 .. Len(v.cells)
      PROVE  /\ first <= i /\ i < first + n => left.cells[i] # Raw
             /\ ~(first <= i /\ i < first + n) => left.cells[i] = v.cells[i]
  <2>1. left.cells[i] = IF first <= i /\ i < first + n THEN Left(xs)[i + 1 - first] ELSE v.cells[i]
    BY <1>2, <1>5, <1>6 DEF WritesCells
  <2>2. first <= i /\ i < first + n =>
            i + 1 - first \in 1..n /\ first + (i + 1 - first) - 1 = i
    BY <1>0
  <2> QED BY <1>3, <1>5, <2>1, <2>2 DEF Filled
<1>9. c
  <2>1. ASSUME NEW i \in out .. out + n - 1 PROVE left.cells[i] # Raw
    <3>1. i \in 1 .. Len(v.cells) /\ out <= i /\ i < out + n
      BY <1>0 DEF Filled
    <3> QED BY <1>8, <3>1 DEF Filled
  <2> QED BY <1>3, <2>1 DEF Alive
<1> HIDE DEF c
<1>10. e \in Buffers /\ e.cells = left.cells /\ e.size = left.size /\ (left.sound => e.sound)
  BY <1>7, <1>9, Demanded
<1> HIDE DEF e
<1>11. WritesCells(e, out, xs, moved) /\ moved.sound = e.sound
  BY <1>3, <1>4, <1>10, WrittenCells
<1> HIDE DEF moved
<1>12. Keeps(v, moved)
  BY <1>2, <1>6, <1>7, <1>10, <1>11 DEF WritesCells, Keeps
<1>13. ASSUME NEW i \in 1 .. Len(v.cells)
       PROVE  /\ out <= i /\ i < out + n => moved.cells[i] = v.cells[first + (i - out)]
              /\ first <= i /\ i < first + n => moved.cells[i] # Raw
              /\ ~(out <= i /\ i < out + n) /\ ~(first <= i /\ i < first + n) => moved.cells[i] = v.cells[i]
  <2>1. moved.cells[i] = IF out <= i /\ i < out + n THEN xs[i + 1 - out] ELSE left.cells[i]
    BY <1>3, <1>7, <1>10, <1>11 DEF WritesCells
  <2>2. out <= i /\ i < out + n => /\ i + 1 - out \in 1..n /\ first + (i + 1 - out) - 1 = first + (i - out)
                                   /\ first + (i - out) \in 1 .. Len(v.cells)
                                   /\ first <= first + (i - out) /\ first + (i - out) < first + n
    <3>1. first + n <= Len(v.cells) + 1
      BY DEF Filled
    <3> QED BY <1>0, <3>1
  <2>3. out <= i /\ i < out + n => moved.cells[i] = v.cells[first + (i - out)]
    BY <1>3, <2>1, <2>2
  <2>4. out <= i /\ i < out + n => v.cells[first + (i - out)] # Raw
    BY <2>2 DEF Filled
  <2> QED BY <1>8, <2>1, <2>3, <2>4
<1> QED BY <1>12, <1>13 DEF Shifted, moved

-----------------------------------------------------------------------------
\* v holds the elements of s, and nothing else.
Holds(v, s) ==
    /\ v \in Buffers /\ v.sound
    /\ s \in Seq(Items) /\ v.size = Len(s) /\ Len(s) <= Len(v.cells)
    /\ \A i \in 1 .. Len(v.cells) : v.cells[i] = IF i <= Len(s) THEN s[i] ELSE Raw

\* The elements that a vector holds are no raw memory.
LEMMA HeldCells ==
    ASSUME VectorAssumption, NEW v, NEW s, Holds(v, s)
    PROVE  /\ Len(s) \in Nat /\ Len(v.cells) \in Nat /\ Len(s) <= Len(v.cells) /\ v.size = Len(s)
           /\ \A i \in 1 .. Len(s) : s[i] \in Items /\ s[i] # Raw
           /\ \A i \in 1 .. Len(v.cells) : i <= Len(s) => v.cells[i] = s[i] /\ v.cells[i] # Raw
           /\ \A i \in 1 .. Len(v.cells) : i > Len(s) => v.cells[i] = Raw
<1>1. Len(s) \in Nat /\ Len(v.cells) \in Nat /\ s \in Seq(Items)
  BY DEF Holds, Buffers
<1>2. \A i \in 1 .. Len(s) : s[i] \in Items
  BY <1>1
<1> QED BY <1>1, <1>2, RawIsNoValue DEF Holds

\* The vector's buffer and the raw one beside it.
LEMMA TwoBuffers ==
    ASSUME NEW v \in Buffers, NEW n \in Nat
    PROVE  /\ Beside(v, n) \in Buffers /\ Beside(v, n).size = v.size /\ Beside(v, n).sound = v.sound
           /\ Len(Beside(v, n).cells) = Len(v.cells) + n
           /\ \A i \in 1 .. Len(v.cells) + n :
                 Beside(v, n).cells[i] = IF i <= Len(v.cells) THEN v.cells[i] ELSE Raw
<1> DEFINE cells == v.cells \o RawCells(n)
<1>1. RawCells(n) \in Seq(Cells) /\ Len(RawCells(n)) = n /\ \A k \in 1..n : RawCells(n)[k] = Raw
  <2>1. RawCells(n) \in [1..n -> Cells] /\ \A k \in 1..n : RawCells(n)[k] = Raw
    BY DEF RawCells, Cells
  <2>2. RawCells(n) \in Seq(Cells) /\ DOMAIN RawCells(n) = 1..n
    BY <2>1, SeqDef
  <2> QED BY <2>1, <2>2, LenProperties
<1>2. v.cells \in Seq(Cells) /\ Len(v.cells) \in Nat
  BY DEF Buffers
<1>3. /\ cells \in Seq(Cells) /\ Len(cells) = Len(v.cells) + n
      /\ \A i \in 1 .. Len(v.cells) + n :
            cells[i] = IF i <= Len(v.cells) THEN v.cells[i] ELSE RawCells(n)[i - Len(v.cells)]
  <2> DEFINE s1 == v.cells
             s2 == RawCells(n)
  <2>1. s1 \in Seq(Cells) /\ s2 \in Seq(Cells) /\ Len(s2) = n
    BY <1>1, <1>2
  <2> HIDE DEF s1, s2
  <2>2. /\ s1 \o s2 \in Seq(Cells) /\ Len(s1 \o s2) = Len(s1) + n
        /\ \A i \in 1 .. Len(s1) + n : (s1 \o s2)[i] = IF i <= Len(s1) THEN s1[i] ELSE s2[i - Len(s1)]
    BY <2>1, ConcatProperties
  <2> QED BY <2>2 DEF s1, s2
<1>4. \A i \in 1 .. Len(v.cells) + n : i > Len(v.cells) => RawCells(n)[i - Len(v.cells)] = Raw
  BY <1>1, <1>2
<1> HIDE DEF cells
<1>5. [v EXCEPT !.cells = cells] \in Buffers
  BY <1>3 DEF Buffers
<1>6. Beside(v, n) = [v EXCEPT !.cells = cells]
  BY DEF Beside, cells
<1>7. Beside(v, n).cells = cells /\ Beside(v, n).size = v.size /\ Beside(v, n).sound = v.sound
  BY <1>6 DEF Buffers
<1>8. ASSUME NEW i \in 1 .. Len(v.cells) + n PROVE cells[i] = IF i <= Len(v.cells) THEN v.cells[i] ELSE Raw
  BY <1>2, <1>3, <1>4
<1> QED BY <1>3, <1>5, <1>6, <1>7, <1>8

\* The two ends of a sequence.
LEMMA TwoEnds ==
    ASSUME NEW S, NEW s \in Seq(S), NEW pos \in 1 .. Len(s) + 1
    PROVE  /\ SubSeq(s, 1, pos - 1) \in Seq(S) /\ Len(SubSeq(s, 1, pos - 1)) = pos - 1
           /\ \A i \in 1 .. pos - 1 : SubSeq(s, 1, pos - 1)[i] = s[i]
           /\ SubSeq(s, pos, Len(s)) \in Seq(S) /\ Len(SubSeq(s, pos, Len(s))) = Len(s) + 1 - pos
           /\ \A i \in 1 .. Len(s) + 1 - pos : SubSeq(s, pos, Len(s))[i] = s[i + pos - 1]
<1> DEFINE n == Len(s)
<1>1. n \in Nat /\ pos \in Nat /\ 1 <= pos /\ pos <= n + 1
  OBVIOUS
<1>2. DOMAIN s = 1..n /\ \A i \in 1..n : s[i] \in S
  OBVIOUS
<1> HIDE DEF n
<1>3. \A i \in 1 .. pos - 1 : s[i] \in S
  BY <1>1, <1>2
<1>4. \A i \in pos .. n : s[i] \in S
  BY <1>1, <1>2
<1>5. pos \in Int /\ pos - 1 \in Int /\ n \in Int /\ 1 \in Int
  BY <1>1
<1>6. /\ SubSeq(s, 1, pos - 1) \in Seq(S)
      /\ Len(SubSeq(s, 1, pos - 1)) = IF 1 <= pos - 1 THEN (pos - 1) - 1 + 1 ELSE 0
      /\ \A i \in 1 .. (pos - 1) - 1 + 1 : SubSeq(s, 1, pos - 1)[i] = s[1 + i - 1]
  <2> DEFINE p == pos - 1
  <2>1. p \in Int /\ \A i \in 1 .. p : s[i] \in S
    BY <1>3, <1>5
  <2> HIDE DEF p
  <2>2. /\ SubSeq(s, 1, p) \in Seq(S)
        /\ Len(SubSeq(s, 1, p)) = IF 1 <= p THEN p - 1 + 1 ELSE 0
        /\ \A i \in 1 .. p - 1 + 1 : SubSeq(s, 1, p)[i] = s[1 + i - 1]
    BY <1>5, <2>1, SubSeqProperties
  <2> QED BY <2>2 DEF p
<1>7. /\ SubSeq(s, pos, n) \in Seq(S)
      /\ Len(SubSeq(s, pos, n)) = IF pos <= n THEN n - pos + 1 ELSE 0
      /\ \A i \in 1 .. n - pos + 1 : SubSeq(s, pos, n)[i] = s[pos + i - 1]
  BY <1>4, <1>5, SubSeqProperties
<1>8. /\ Len(SubSeq(s, 1, pos - 1)) = pos - 1
      /\ \A i \in 1 .. pos - 1 : SubSeq(s, 1, pos - 1)[i] = s[i]
  BY <1>1, <1>6, SMTT(30)
<1>9. Len(SubSeq(s, pos, n)) = n + 1 - pos
  BY <1>1, <1>7
<1>10. \A i \in 1 .. n + 1 - pos : SubSeq(s, pos, n)[i] = s[i + pos - 1]
  BY <1>1, <1>7
<1> QED BY <1>6, <1>7, <1>8, <1>9, <1>10 DEF n

\* Freeing the old buffer, which still has what is to be destroyed and nothing else.
LEMMA Relocating ==
    ASSUME NEW v \in Buffers, NEW both \in Buffers, NEW newSize \in Nat, both.sound,
           v.size <= Len(v.cells), Len(v.cells) <= Len(both.cells),
           \A i \in 1 .. Len(v.cells) : both.cells[i] # Raw <=> i <= v.size
    PROVE  /\ Relocated(v, both, newSize) \in Buffers /\ Relocated(v, both, newSize).sound
           /\ Relocated(v, both, newSize).size = newSize
           /\ Len(Relocated(v, both, newSize).cells) = Len(both.cells) - Len(v.cells)
           /\ \A i \in 1 .. Len(both.cells) - Len(v.cells) :
                 Relocated(v, both, newSize).cells[i] = both.cells[Len(v.cells) + i]
<1> DEFINE old == Len(v.cells)
           freed == DestructN(both, 1, v.size)
           c == \A i \in 1..old : freed.cells[i] = Raw
           d == Demand(freed, c)
           newCells == SubSeq(d.cells, old + 1, Len(d.cells))
           new == [d EXCEPT !.cells = newCells, !.size = newSize]
<1>1. old \in Nat /\ Len(both.cells) \in Nat /\ v.size \in Nat
  BY DEF Buffers
<1>2. Filled(both, 1, v.size)
  <2>1. ASSUME NEW i \in 1 .. Len(both.cells), i < 1 + v.size PROVE both.cells[i] # Raw
    <3>1. i \in 1 .. Len(v.cells) /\ i <= v.size
      BY <1>1, <2>1
    <3> QED BY <3>1
  <2> QED BY <1>1, <2>1 DEF Filled
<1>3. /\ Keeps(both, freed)
      /\ \A i \in 1 .. Len(both.cells) : freed.cells[i] = IF 1 <= i /\ i < 1 + v.size THEN Raw ELSE both.cells[i]
  BY <1>1, <1>2, Destroying
<1>4. freed \in Buffers /\ Len(freed.cells) = Len(both.cells) /\ freed.sound
  BY <1>3 DEF Keeps
<1>5. c
  <2>1. ASSUME NEW i \in 1..old PROVE freed.cells[i] = Raw
    <3>1. i \in 1 .. Len(both.cells) /\ (i <= v.size <=> i < 1 + v.size)
      BY <1>1
    <3> QED BY <1>3, <3>1
  <2> QED BY <2>1
<1> HIDE DEF freed, c
<1>6. d \in Buffers /\ d.cells = freed.cells /\ d.sound
  BY <1>4, <1>5, Demanded
<1> HIDE DEF d
<1>7. /\ newCells \in Seq(Cells) /\ Len(newCells) = Len(both.cells) - old
      /\ \A i \in 1 .. Len(both.cells) - old : newCells[i] = d.cells[old + i]
  <2>1. d.cells \in Seq(Cells) /\ Len(d.cells) = Len(both.cells)
    BY <1>4, <1>6 DEF Buffers
  <2>2. old + 1 \in 1 .. Len(d.cells) + 1 /\ Len(d.cells) \in old .. Len(d.cells)
    BY <1>1, <2>1
  <2> DEFINE t == d.cells
             m == Len(both.cells)
  <2>3. t \in Seq(Cells) /\ Len(t) = m /\ m \in Nat /\ old \in Nat /\ old <= m
    BY <1>1, <2>1
  <2> HIDE DEF t, m, old
  <2>4. /\ SubSeq(t, old + 1, m) \in Seq(Cells) /\ Len(SubSeq(t, old + 1, m)) = m - old
        /\ \A i \in 1 .. m - old : SubSeq(t, old + 1, m)[i] = t[old + i]
    <3> DEFINE p == old + 1
    <3>1. p \in 1 .. Len(t) + 1 /\ Len(t) + 1 - p = m - old /\ p - 1 = old
      BY <2>3
    <3> HIDE DEF p
    <3>2. /\ SubSeq(t, p, Len(t)) \in Seq(Cells) /\ Len(SubSeq(t, p, Len(t))) = Len(t) + 1 - p
          /\ \A i \in 1 .. Len(t) + 1 - p : SubSeq(t, p, Len(t))[i] = t[i + p - 1]
      BY <2>3, <3>1, TwoEnds
    <3>3. \A i \in 1 .. m - old : i + p - 1 = old + i
      BY <2>3, <3>1
    <3> QED BY <2>3, <3>1, <3>2, <3>3 DEF p
  <2> QED BY <2>3, <2>4 DEF t, m
<1>8. \A i \in 1 .. Len(both.cells) - old : newCells[i] = both.cells[old + i]
  <2>1. ASSUME NEW i \in 1 .. Len(both.cells) - old PROVE newCells[i] = both.cells[old + i]
    <3>1. old + i \in 1 .. Len(both.cells) /\ ~(old + i < 1 + v.size)
      BY <1>1
    <3> QED BY <1>3, <1>6, <1>7, <3>1
  <2> QED BY <2>1
<1> HIDE DEF newCells
<1>9. new \in Buffers /\ new.sound /\ new.size = newSize /\ new.cells = newCells
  BY <1>6, <1>7 DEF Buffers
<1>10. Relocated(v, both, newSize) = new
  BY DEF Relocated, Capacity, new, newCells, d, c, freed
<1> HIDE DEF new
<1> QED BY <1>7, <1>8, <1>9, <1>10

\* The operations, one by one: what the vector holds after each.
LEMMA MovingTo ==
    ASSUME VectorAssumption, NEW v, NEW s, Holds(v, s), NEW capacity \in Nat, Len(s) <= capacity
    PROVE  Holds(MovedTo(v, capacity), s) /\ Len(MovedTo(v, capacity).cells) = capacity
<1> DEFINE beside == Beside(v, capacity)
           old == Len(v.cells)
           n == v.size
           both == UninitializedMoveN(beside, 1, n, old + 1)
           new == MovedTo(v, capacity)
<1>1. v \in Buffers /\ v.sound /\ s \in Seq(Items)
  BY DEF Holds
<1>2. /\ old \in Nat /\ n \in Nat /\ n = Len(s) /\ n <= old
      /\ \A i \in 1..old : i <= n => v.cells[i] = s[i] /\ v.cells[i] # Raw
      /\ \A i \in 1..old : i > n => v.cells[i] = Raw
  BY HeldCells
<1>3. /\ beside \in Buffers /\ beside.size = n /\ beside.sound
      /\ Len(beside.cells) = old + capacity
      /\ \A i \in 1 .. old + capacity : beside.cells[i] = IF i <= old THEN v.cells[i] ELSE Raw
  BY <1>1, TwoBuffers
<1>4. both = Transfer(TRUE, beside, 1, n, old + 1)
  BY DEF Transfer
<1>5. new = Relocated(v, both, n)
  BY DEF MovedTo, Capacity
<1> HIDE DEF beside, both, new, old, n
<1>6. Shifted(beside, 1, n, old + 1, both)
  <2>1. Filled(beside, 1, n)
    <3>1. ASSUME NEW i \in 1 .. Len(beside.cells), i < 1 + n PROVE beside.cells[i] # Raw
      <4>1. i \in 1..old /\ i <= n /\ i \in 1 .. old + capacity /\ i <= old
        BY <1>2, <3>1
      <4>2. v.cells[i] # Raw
        BY <1>2, <4>1
      <4> QED BY <1>3, <4>1, <4>2
    <3> QED BY <1>2, <1>3, <3>1 DEF Filled
  <2>2. AllRaw(beside, old + 1, n)
    <3>1. ASSUME NEW i \in 1 .. Len(beside.cells), old + 1 <= i PROVE beside.cells[i] = Raw
      <4>1. i \in 1 .. old + capacity /\ ~(i <= old)
        BY <1>2, <1>3, <3>1
      <4> QED BY <1>3, <4>1
    <3> QED BY <1>2, <1>3, <3>1 DEF AllRaw
  <2>3. beside \in Buffers /\ n \in Nat /\ old + 1 \in Nat \ {0} /\ 1 \in Nat \ {0} /\ TRUE \in BOOLEAN
    BY <1>2, <1>3
  <2> QED BY <1>4, <2>1, <2>2, <2>3, Transferring
<1>7. both \in Buffers /\ both.sound /\ Len(both.cells) = old + capacity
  BY <1>3, <1>6 DEF Shifted, Keeps
<1>8. \A i \in 1..old : both.cells[i] # Raw <=> i <= n
  BY <1>2, <1>3, <1>6 DEF Shifted
<1>9. \A i \in 1..capacity : both.cells[old + i] = IF i <= n THEN s[i] ELSE Raw
  <2>1. ASSUME NEW i \in 1..capacity PROVE both.cells[old + i] = IF i <= n THEN s[i] ELSE Raw
    <3>1. old + i \in 1 .. old + capacity /\ 1 + ((old + i) - (old + 1)) = i /\ i \in 1 .. old + capacity
      BY <1>2
    <3>2. CASE i <= n
      <4>1. both.cells[old + i] = beside.cells[i]
        BY <1>2, <1>3, <1>6, <3>1, <3>2 DEF Shifted
      <4>2. i \in 1..old
        BY <1>2, <3>2
      <4> QED BY <1>2, <1>3, <3>1, <3>2, <4>1, <4>2
    <3>3. CASE i > n
      <4>1. both.cells[old + i] = beside.cells[old + i]
        BY <1>2, <1>3, <1>6, <3>1, <3>3 DEF Shifted
      <4> QED BY <1>2, <1>3, <3>1, <3>3, <4>1
    <3> QED BY <1>2, <3>2, <3>3
  <2> QED BY <2>1
<1>10. /\ new \in Buffers /\ new.sound /\ new.size = n /\ Len(new.cells) = capacity
       /\ \A i \in 1..capacity : new.cells[i] = both.cells[old + i]
  <2>1. old + capacity - old = capacity
    BY <1>2
  <2>2. /\ v.size <= Len(v.cells) /\ Len(v.cells) <= Len(both.cells)
        /\ \A i \in 1 .. Len(v.cells) : both.cells[i] # Raw <=> i <= v.size
    BY <1>2, <1>7, <1>8 DEF old, n
  <2>3. /\ new \in Buffers /\ new.sound /\ new.size = n /\ Len(new.cells) = Len(both.cells) - Len(v.cells)
        /\ \A i \in 1 .. Len(both.cells) - Len(v.cells) : new.cells[i] = both.cells[Len(v.cells) + i]
    <3>1. v \in Buffers /\ both \in Buffers /\ n \in Nat /\ both.sound
      BY <1>1, <1>2, <1>7
    <3>2. /\ Relocated(v, both, n) \in Buffers /\ Relocated(v, both, n).sound
          /\ Relocated(v, both, n).size = n
          /\ Len(Relocated(v, both, n).cells) = Len(both.cells) - Len(v.cells)
          /\ \A i \in 1 .. Len(both.cells) - Len(v.cells) :
                Relocated(v, both, n).cells[i] = both.cells[Len(v.cells) + i]
      BY <2>2, <3>1, Relocating
    <3> QED BY <1>5, <3>2
  <2>4. Len(both.cells) - Len(v.cells) = capacity
    BY <1>7, <2>1 DEF old
  <2> QED BY <2>3, <2>4 DEF old
<1> QED BY <1>1, <1>2, <1>9, <1>10 DEF Holds, new

\* s with xs before pos, and s without what is from first to before last.
Spliced(s, pos, xs) == SubSeq(s, 1, pos - 1) \o xs \o SubSeq(s, pos, Len(s))
Excised(s, first, last) == SubSeq(s, 1, first - 1) \o SubSeq(s, last, Len(s))

LEMMA Joined ==
    ASSUME NEW S, NEW a \in Seq(S), NEW b \in Seq(S), NEW w, w = a \o b
    PROVE  /\ w \in Seq(S) /\ Len(w) = Len(a) + Len(b)
           /\ \A i \in 1 .. Len(a) + Len(b) : w[i] = IF i <= Len(a) THEN a[i] ELSE b[i - Len(a)]
BY ConcatProperties

LEMMA SplicedElements ==
    ASSUME NEW S, NEW s \in Seq(S), NEW xs \in Seq(S), NEW pos \in 1 .. Len(s) + 1
    PROVE  /\ Spliced(s, pos, xs) \in Seq(S) /\ Len(Spliced(s, pos, xs)) = Len(s) + Len(xs)
           /\ \A i \in 1 .. Len(s) + Len(xs) :
                 Spliced(s, pos, xs)[i] = IF i < pos THEN s[i]
                                          ELSE IF i < pos + Len(xs) THEN xs[i + 1 - pos] ELSE s[i - Len(xs)]
<1> DEFINE a == SubSeq(s, 1, pos - 1)
           c == SubSeq(s, pos, Len(s))
           n == Len(s)
           m == Len(xs)
<1>1. /\ n \in Nat /\ m \in Nat /\ pos \in Nat /\ 1 <= pos /\ pos <= n + 1
      /\ a \in Seq(S) /\ Len(a) = pos - 1 /\ \A i \in 1 .. pos - 1 : a[i] = s[i]
      /\ c \in Seq(S) /\ Len(c) = n + 1 - pos /\ \A i \in 1 .. n + 1 - pos : c[i] = s[i + pos - 1]
  <2>1. n \in Nat /\ m \in Nat /\ pos \in Nat /\ 1 <= pos /\ pos <= n + 1
    OBVIOUS
  <2>2. a \in Seq(S) /\ Len(a) = pos - 1 /\ \A i \in 1 .. pos - 1 : a[i] = s[i]
    BY TwoEnds
  <2>3. c \in Seq(S) /\ Len(c) = n + 1 - pos /\ \A i \in 1 .. n + 1 - pos : c[i] = s[i + pos - 1]
    BY TwoEnds
  <2> QED BY <2>1, <2>2, <2>3
<1> DEFINE b == a \o xs
           w == b \o c
<1>2. Spliced(s, pos, xs) = w
  BY DEF Spliced
<1>3. b = a \o xs /\ w = b \o c
  OBVIOUS
<1> HIDE DEF a, b, c, w, n, m
<1>4. a \in Seq(S) /\ xs \in Seq(S) /\ c \in Seq(S)
  BY <1>1
<1>5. /\ b \in Seq(S) /\ Len(b) = Len(a) + Len(xs)
      /\ \A i \in 1 .. Len(a) + Len(xs) : b[i] = IF i <= Len(a) THEN a[i] ELSE xs[i - Len(a)]
  BY <1>3, <1>4, Joined
<1>6. /\ w \in Seq(S) /\ Len(w) = Len(b) + Len(c)
      /\ \A i \in 1 .. Len(b) + Len(c) : w[i] = IF i <= Len(b) THEN b[i] ELSE c[i - Len(b)]
  BY <1>3, <1>4, <1>5, Joined
<1>7. Len(b) = pos - 1 + m /\ Len(w) = n + m
  BY <1>1, <1>5, <1>6 DEF m
<1>9. /\ n \in Nat /\ m \in Nat /\ pos \in Nat /\ 1 <= pos /\ pos <= n + 1
      /\ Len(a) = pos - 1 /\ Len(c) = n + 1 - pos /\ Len(xs) = m /\ Len(b) = pos - 1 + m
  BY <1>1, <1>7 DEF m
<1>8. ASSUME NEW i \in 1 .. n + m
      PROVE  w[i] = IF i < pos THEN s[i] ELSE IF i < pos + m THEN xs[i + 1 - pos] ELSE s[i - m]
  <2>1. i \in 1 .. Len(b) + Len(c)
    <3>1. Len(b) + Len(c) = n + m
      BY <1>9
    <3> QED BY <3>1
  <2>2. w[i] = IF i <= Len(b) THEN b[i] ELSE c[i - Len(b)]
    BY <1>6, <2>1
  <2>3. CASE i < pos + m
    <3>1. i <= Len(b) /\ i \in 1 .. Len(a) + Len(xs)
      BY <1>9, <2>3
    <3>2. b[i] = IF i <= Len(a) THEN a[i] ELSE xs[i - Len(a)]
      BY <1>5, <3>1
    <3>3. i < pos => i \in 1 .. pos - 1
      BY <1>9
    <3>4. i <= Len(a) <=> i < pos
      BY <1>9
    <3>5. i - Len(a) = i + 1 - pos
      BY <1>9
    <3> QED BY <1>1, <2>2, <2>3, <3>1, <3>2, <3>3, <3>4, <3>5
  <2>4. CASE ~(i < pos + m)
    <3>1. /\ i - Len(b) \in 1 .. n + 1 - pos /\ i - Len(b) + pos - 1 = i - m
          /\ ~(i < pos) /\ ~(i <= Len(b))
      BY <1>9, <2>4
    <3>2. c[i - Len(b)] = s[i - m]
      BY <1>1, <3>1
    <3> QED BY <2>2, <2>4, <3>1, <3>2
  <2> QED BY <2>3, <2>4
<1> QED BY <1>2, <1>6, <1>7, <1>8 DEF n, m

LEMMA WithoutElements ==
    ASSUME NEW S, NEW s \in Seq(S), NEW first \in 1 .. Len(s) + 1, NEW last \in first .. Len(s) + 1
    PROVE  /\ Excised(s, first, last) \in Seq(S) /\ Len(Excised(s, first, last)) = Len(s) - (last - first)
           /\ \A i \in 1 .. Len(s) - (last - first) :
                 Excised(s, first, last)[i] = IF i < first THEN s[i] ELSE s[i + (last - first)]
<1> DEFINE a == SubSeq(s, 1, first - 1)
           c == SubSeq(s, last, Len(s))
           n == Len(s)
<1>1. n \in Nat /\ first \in Nat /\ last \in Nat /\ 1 <= first /\ first <= last /\ last <= n + 1
  OBVIOUS
<1>2. last \in 1 .. Len(s) + 1
  BY <1>1
<1>3. /\ a \in Seq(S) /\ Len(a) = first - 1 /\ \A i \in 1 .. first - 1 : a[i] = s[i]
      /\ c \in Seq(S) /\ Len(c) = n + 1 - last /\ \A i \in 1 .. n + 1 - last : c[i] = s[i + last - 1]
  <2>1. a \in Seq(S) /\ Len(a) = first - 1 /\ \A i \in 1 .. first - 1 : a[i] = s[i]
    BY TwoEnds
  <2>2. c \in Seq(S) /\ Len(c) = n + 1 - last /\ \A i \in 1 .. n + 1 - last : c[i] = s[i + last - 1]
    BY <1>2, TwoEnds
  <2> QED BY <2>1, <2>2
<1> DEFINE w == a \o c
<1>4. Excised(s, first, last) = w
  BY DEF Excised
<1>5. w = a \o c
  OBVIOUS
<1> HIDE DEF a, c, n, w
<1>6. /\ w \in Seq(S) /\ Len(w) = Len(a) + Len(c)
      /\ \A i \in 1 .. Len(a) + Len(c) : w[i] = IF i <= Len(a) THEN a[i] ELSE c[i - Len(a)]
  <2>1. a \in Seq(S) /\ c \in Seq(S)
    BY <1>3
  <2> QED BY <2>1, <1>5, Joined
<1>7. Len(a) + Len(c) = n - (last - first)
  BY <1>1, <1>3
<1>8. ASSUME NEW i \in 1 .. n - (last - first)
      PROVE  w[i] = IF i < first THEN s[i] ELSE s[i + (last - first)]
  <2>1. i < first => i \in 1 .. first - 1
    BY <1>1
  <2>2. ~(i < first) => /\ i - (first - 1) \in 1 .. n + 1 - last
                        /\ i - (first - 1) + last - 1 = i + (last - first)
    BY <1>1
  <2>3. w[i] = IF i <= Len(a) THEN a[i] ELSE c[i - Len(a)]
    BY <1>6, <1>7
  <2>4. Len(a) = first - 1 /\ (i <= Len(a) <=> i < first)
    BY <1>1, <1>3
  <2>5. ~(i < first) => c[i - (first - 1)] = s[i + (last - first)]
    BY <1>3, <2>2
  <2> QED BY <1>3, <2>1, <2>3, <2>4, <2>5
<1> QED BY <1>4, <1>6, <1>7, <1>8 DEF n

\* What is inserted is constructed first, between where the two parts go.
LEMMA GrowingInsert ==
    ASSUME VectorAssumption, NEW v, NEW s, Holds(v, s), NEW pos \in 1 .. Len(s) + 1,
           NEW xs \in Seq(Items), NEW moving \in BOOLEAN
    PROVE  Holds(GrowInsert(v, pos, xs, moving), Spliced(s, pos, xs))
<1> DEFINE old == Len(v.cells)
           n == v.size
           m == Len(xs)
           cap == GrownCapacity(v, n + m)
           beside == Beside(v, cap)
           both == ConstructN(beside, old + pos, xs)
           before == Transfer(moving, both, 1, pos - 1, old + 1)
           after == Transfer(moving, before, pos, n + 1 - pos, old + pos + m)
           new == Relocated(v, after, n + m)
<1>1. v \in Buffers /\ v.sound /\ s \in Seq(Items)
  BY DEF Holds
<1>2. /\ old \in Nat /\ n \in Nat /\ n = Len(s) /\ n <= old /\ m \in Nat
      /\ \A i \in 1..old : i <= n => v.cells[i] = s[i] /\ s[i] # Raw
      /\ \A i \in 1..old : i > n => v.cells[i] = Raw
  BY HeldCells
<1>3. cap \in Nat /\ n + m <= cap
  <2> DEFINE half == old \div 2
  <2>1. half \in Nat
    <3>1. old \in Nat
      BY <1>2
    <3> HIDE DEF old
    <3> QED BY <3>1
  <2>2. cap = IF old + half < n + m THEN n + m ELSE old + half
    BY DEF GrownCapacity, Capacity
  <2> HIDE DEF half, cap, old, n, m
  <2> QED BY <1>2, <2>1, <2>2
<1>4. pos \in Nat /\ 1 <= pos /\ pos <= n + 1
  BY <1>2
<1>5. GrowInsert(v, pos, xs, moving) = new
  <2>1. CASE moving
    <3>1. before = UninitializedMoveN(both, 1, pos - 1, old + 1)
      BY <2>1 DEF Transfer
    <3>2. after = UninitializedMoveN(before, pos, n + 1 - pos, old + pos + m)
      BY <2>1 DEF Transfer
    <3>3. old + 1 + pos - 1 = old + pos
      BY <1>2, <1>4
    <3> HIDE DEF before, after
    <3> QED BY <2>1, <3>1, <3>2, <3>3 DEF GrowInsert, Capacity
  <2>2. CASE ~moving
    <3>1. before = UninitializedCopyN(both, 1, pos - 1, old + 1)
      BY <2>2 DEF Transfer
    <3>2. after = UninitializedCopyN(before, pos, n + 1 - pos, old + pos + m)
      BY <2>2 DEF Transfer
    <3>3. old + 1 + pos - 1 = old + pos
      BY <1>2, <1>4
    <3> HIDE DEF before, after
    <3> QED BY <2>2, <3>1, <3>2, <3>3 DEF GrowInsert, Capacity
  <2> QED BY <2>1, <2>2
<1> HIDE DEF cap
<1>6. /\ beside \in Buffers /\ beside.size = n /\ beside.sound
      /\ Len(beside.cells) = old + cap
      /\ \A i \in 1 .. old + cap : beside.cells[i] = IF i <= old THEN v.cells[i] ELSE Raw
  BY <1>1, <1>3, TwoBuffers
<1> HIDE DEF beside, old, n
<1>7. xs \in Seq(Cells)
  BY DEF Cells
<1> HIDE DEF m
<1>8. /\ both \in Buffers /\ both.sound /\ Len(both.cells) = old + cap
      /\ \A i \in 1..old : both.cells[i] = v.cells[i]
      /\ \A k \in 1..cap : both.cells[old + k] = IF pos <= k /\ k < pos + m THEN xs[k + 1 - pos] ELSE Raw
  <2>1. AllRaw(beside, old + pos, m)
    <3>1. old + pos + m <= Len(beside.cells) + 1
      BY <1>2, <1>3, <1>4, <1>6
    <3>2. ASSUME NEW i \in 1 .. Len(beside.cells), old + pos <= i PROVE beside.cells[i] = Raw
      <4>1. i \in 1 .. old + cap /\ ~(i <= old)
        BY <1>2, <1>4, <1>6, <3>2
      <4> QED BY <1>6, <4>1
    <3> QED BY <3>1, <3>2 DEF AllRaw
  <2>2. old + pos \in Nat \ {0} /\ beside \in Buffers
    BY <1>2, <1>4, <1>6
  <2>3. /\ Keeps(beside, both)
        /\ \A i \in 1 .. Len(beside.cells) :
              both.cells[i] = IF old + pos <= i /\ i < old + pos + m THEN xs[i + 1 - (old + pos)] ELSE beside.cells[i]
    BY <1>7, <2>1, <2>2, Constructing DEF m
  <2> HIDE DEF both
  <2>4. ASSUME NEW i \in 1..old PROVE both.cells[i] = v.cells[i]
    <3>1. i \in 1 .. old + cap /\ i <= old /\ ~(old + pos <= i)
      BY <1>2, <1>3, <1>4
    <3> QED BY <1>6, <2>3, <3>1
  <2>5. ASSUME NEW k \in 1..cap
        PROVE  both.cells[old + k] = IF pos <= k /\ k < pos + m THEN xs[k + 1 - pos] ELSE Raw
    <3>1. /\ old + k \in 1 .. old + cap /\ ~(old + k <= old)
          /\ (old + pos <= old + k /\ old + k < old + pos + m) <=> (pos <= k /\ k < pos + m)
          /\ old + k + 1 - (old + pos) = k + 1 - pos
      BY <1>2, <1>3, <1>4
    <3> QED BY <1>6, <2>3, <3>1
  <2> QED BY <1>6, <2>3, <2>4, <2>5 DEF Keeps
<1> HIDE DEF both
<1>9. /\ before \in Buffers /\ before.sound /\ Len(before.cells) = old + cap
      /\ \A i \in 1..old : i <= n => before.cells[i] # Raw
      /\ \A i \in 1..old : i <= n /\ i >= pos => before.cells[i] = s[i]
      /\ \A i \in 1..old : i > n => before.cells[i] = Raw
      /\ \A k \in 1..cap : before.cells[old + k] =
            IF k < pos THEN s[k] ELSE IF k < pos + m THEN xs[k + 1 - pos] ELSE Raw
  <2>1. Filled(both, 1, pos - 1)
    <3>1. 1 + (pos - 1) <= Len(both.cells) + 1
      BY <1>2, <1>3, <1>4, <1>8
    <3>2. ASSUME NEW i \in 1 .. Len(both.cells), i < 1 + (pos - 1) PROVE both.cells[i] # Raw
      <4>1. i \in 1..old /\ i <= n
        BY <1>2, <1>4, <3>2
      <4> QED BY <1>2, <1>8, <4>1
    <3> QED BY <3>1, <3>2 DEF Filled
  <2>2. AllRaw(both, old + 1, pos - 1)
    <3>1. old + 1 + (pos - 1) <= Len(both.cells) + 1
      BY <1>2, <1>3, <1>4, <1>8
    <3>2. ASSUME NEW i \in 1 .. Len(both.cells), old + 1 <= i, i < old + 1 + (pos - 1)
          PROVE  both.cells[i] = Raw
      <4>1. i - old \in 1..cap /\ old + (i - old) = i /\ ~(pos <= i - old)
        BY <1>2, <1>3, <1>4, <1>8, <3>2
      <4> QED BY <1>8, <4>1
    <3> QED BY <3>1, <3>2 DEF AllRaw
  <2>3. both \in Buffers /\ pos - 1 \in Nat /\ old + 1 \in Nat \ {0} /\ 1 \in Nat \ {0}
    BY <1>2, <1>4, <1>8
  <2>4. Shifted(both, 1, pos - 1, old + 1, before)
    BY <2>1, <2>2, <2>3, Transferring
  <2> HIDE DEF before
  <2>5. before \in Buffers /\ before.sound /\ Len(before.cells) = old + cap
    BY <1>8, <2>4 DEF Shifted, Keeps
  <2>6. ASSUME NEW i \in 1..old
        PROVE  /\ i <= n => before.cells[i] # Raw
               /\ i <= n /\ i >= pos => before.cells[i] = s[i]
               /\ i > n => before.cells[i] = Raw
    <3>1. i \in 1 .. old + cap /\ ~(old + 1 <= i) /\ (1 <= i /\ i < 1 + (pos - 1) <=> i < pos)
      BY <1>2, <1>3, <1>4
    <3>2. /\ i < pos => before.cells[i] # Raw
          /\ ~(i < pos) => before.cells[i] = both.cells[i]
      BY <1>8, <2>4, <3>1 DEF Shifted
    <3>3. i > n => ~(i < pos)
      BY <1>2, <1>4
    <3> QED BY <1>2, <1>4, <1>8, <3>2, <3>3
  <2>7. ASSUME NEW k \in 1..cap
        PROVE  before.cells[old + k] = IF k < pos THEN s[k] ELSE IF k < pos + m THEN xs[k + 1 - pos] ELSE Raw
    <3> DEFINE j == old + k
    <3>1. j \in 1 .. old + cap /\ k \in Nat /\ 1 <= k
      BY <1>2, <1>3
    <3>2. ~(1 <= j /\ j < 1 + (pos - 1))
      BY <1>2, <1>4, <3>1
    <3>3. (old + 1 <= j /\ j < old + 1 + (pos - 1)) <=> k < pos
      BY <1>2, <1>4, <3>1
    <3>4. 1 + (j - (old + 1)) = k
      BY <1>2, <3>1
    <3> HIDE DEF j
    <3>5. /\ k < pos => before.cells[j] = both.cells[k]
          /\ ~(k < pos) => before.cells[j] = both.cells[j]
      BY <1>8, <2>4, <3>1, <3>2, <3>3, <3>4 DEF Shifted
    <3>6. k < pos => k \in 1..old /\ k <= n
      BY <1>2, <1>4, <3>1
    <3>7. ~(k < pos) <=> pos <= k
      BY <1>4, <3>1
    <3>8. both.cells[j] = IF pos <= k /\ k < pos + m THEN xs[k + 1 - pos] ELSE Raw
      BY <1>8 DEF j
    <3>9. k < pos => both.cells[k] = s[k]
      BY <1>2, <1>8, <3>6
    <3> QED BY <3>5, <3>7, <3>8, <3>9 DEF j
  <2> QED BY <2>5, <2>6, <2>7
<1> HIDE DEF before
<1>10. /\ after \in Buffers /\ after.sound /\ Len(after.cells) = old + cap
       /\ \A i \in 1..old : after.cells[i] # Raw <=> i <= n
       /\ \A k \in 1..cap : after.cells[old + k] =
             IF k < pos THEN s[k] ELSE IF k < pos + m THEN xs[k + 1 - pos]
             ELSE IF k <= n + m THEN s[k - m] ELSE Raw
  <2>1. Filled(before, pos, n + 1 - pos)
    <3>1. pos + (n + 1 - pos) <= Len(before.cells) + 1
      BY <1>2, <1>3, <1>4, <1>9
    <3>2. ASSUME NEW i \in 1 .. Len(before.cells), i < pos + (n + 1 - pos) PROVE before.cells[i] # Raw
      <4>1. i \in 1..old /\ i <= n
        BY <1>2, <1>4, <3>2
      <4> QED BY <1>9, <4>1
    <3> QED BY <3>1, <3>2 DEF Filled
  <2>2. AllRaw(before, old + pos + m, n + 1 - pos)
    <3>1. old + pos + m + (n + 1 - pos) <= Len(before.cells) + 1
      BY <1>2, <1>3, <1>4, <1>9
    <3>2. ASSUME NEW i \in 1 .. Len(before.cells), old + pos + m <= i PROVE before.cells[i] = Raw
      <4>1. i - old \in 1..cap /\ old + (i - old) = i /\ ~(i - old < pos) /\ ~(i - old < pos + m)
        BY <1>2, <1>3, <1>4, <1>9, <3>2
      <4> QED BY <1>9, <4>1
    <3> QED BY <3>1, <3>2 DEF AllRaw
  <2>3. before \in Buffers /\ n + 1 - pos \in Nat /\ old + pos + m \in Nat \ {0} /\ pos \in Nat \ {0}
    BY <1>2, <1>4, <1>9
  <2>4. Shifted(before, pos, n + 1 - pos, old + pos + m, after)
    BY <2>1, <2>2, <2>3, Transferring
  <2> HIDE DEF after
  <2>5. after \in Buffers /\ after.sound /\ Len(after.cells) = old + cap
    BY <1>9, <2>4 DEF Shifted, Keeps
  <2>6. ASSUME NEW i \in 1..old PROVE after.cells[i] # Raw <=> i <= n
    <3>1. /\ i \in 1 .. old + cap /\ ~(old + pos + m <= i)
          /\ (pos <= i /\ i < pos + (n + 1 - pos)) <=> (pos <= i /\ i <= n)
      BY <1>2, <1>3, <1>4
    <3>2. /\ pos <= i /\ i <= n => after.cells[i] # Raw
          /\ ~(pos <= i /\ i <= n) => after.cells[i] = before.cells[i]
      BY <1>9, <2>4, <3>1 DEF Shifted
    <3>3. i <= n \/ i > n
      BY <1>2
    <3>4. ~(i <= n /\ i > n)
      BY <1>2
    <3> QED BY <1>9, <3>2, <3>3, <3>4
  <2>7. ASSUME NEW k \in 1..cap
        PROVE  after.cells[old + k] =
                  IF k < pos THEN s[k] ELSE IF k < pos + m THEN xs[k + 1 - pos]
                  ELSE IF k <= n + m THEN s[k - m] ELSE Raw
    <3> DEFINE j == old + k
    <3>1. j \in 1 .. old + cap /\ k \in Nat /\ 1 <= k
      BY <1>2, <1>3
    <3>2. ~(pos <= j /\ j < pos + (n + 1 - pos))
      BY <1>2, <1>4, <3>1
    <3>3. (old + pos + m <= j /\ j < old + pos + m + (n + 1 - pos)) <=> ~(k < pos + m) /\ k <= n + m
      BY <1>2, <1>4, <3>1
    <3>4. pos + (j - (old + pos + m)) = k - m
      BY <1>2, <1>4, <3>1
    <3> HIDE DEF j
    <3>5. /\ ~(k < pos + m) /\ k <= n + m => after.cells[j] = before.cells[k - m]
          /\ ~(~(k < pos + m) /\ k <= n + m) => after.cells[j] = before.cells[j]
      BY <1>9, <2>4, <3>1, <3>2, <3>3, <3>4 DEF Shifted
    <3>6. ~(k < pos + m) /\ k <= n + m =>
             k - m \in 1..old /\ k - m <= n /\ k - m >= pos /\ ~(k < pos)
      BY <1>2, <1>4, <3>1
    <3>7. k < pos => k < pos + m
      BY <1>2, <1>4, <3>1
    <3>8. before.cells[j] = IF k < pos THEN s[k] ELSE IF k < pos + m THEN xs[k + 1 - pos] ELSE Raw
      BY <1>9 DEF j
    <3>9. ~(k < pos + m) /\ k <= n + m => before.cells[k - m] = s[k - m]
      BY <1>9, <3>6
    <3> QED BY <3>5, <3>6, <3>7, <3>8, <3>9 DEF j
  <2> QED BY <2>5, <2>6, <2>7
<1> HIDE DEF after
<1>11. /\ new \in Buffers /\ new.sound /\ new.size = n + m /\ Len(new.cells) = cap
       /\ \A k \in 1..cap : new.cells[k] = after.cells[old + k]
  <2>1. /\ v \in Buffers /\ after \in Buffers /\ n + m \in Nat /\ after.sound
        /\ v.size <= Len(v.cells) /\ Len(v.cells) <= Len(after.cells)
        /\ \A i \in 1 .. Len(v.cells) : after.cells[i] # Raw <=> i <= v.size
    BY <1>1, <1>2, <1>3, <1>10 DEF old, n
  <2>2. /\ new \in Buffers /\ new.sound /\ new.size = n + m
        /\ Len(new.cells) = Len(after.cells) - Len(v.cells)
        /\ \A i \in 1 .. Len(after.cells) - Len(v.cells) : new.cells[i] = after.cells[Len(v.cells) + i]
    BY <2>1, Relocating
  <2>3. Len(after.cells) - Len(v.cells) = cap
    BY <1>2, <1>3, <1>10 DEF old
  <2> QED BY <2>2, <2>3 DEF old
<1> HIDE DEF new
<1>12. /\ Spliced(s, pos, xs) \in Seq(Items) /\ Len(Spliced(s, pos, xs)) = n + m
       /\ \A i \in 1 .. n + m :
             Spliced(s, pos, xs)[i] = IF i < pos THEN s[i] ELSE IF i < pos + m THEN xs[i + 1 - pos] ELSE s[i - m]
  <2>1. /\ Spliced(s, pos, xs) \in Seq(Items) /\ Len(Spliced(s, pos, xs)) = Len(s) + Len(xs)
        /\ \A i \in 1 .. Len(s) + Len(xs) :
              Spliced(s, pos, xs)[i] = IF i < pos THEN s[i]
                                       ELSE IF i < pos + Len(xs) THEN xs[i + 1 - pos] ELSE s[i - Len(xs)]
    BY <1>1, SplicedElements
  <2> QED BY <1>2, <2>1 DEF m
<1>13. ASSUME NEW k \in 1..cap
       PROVE  new.cells[k] = IF k <= n + m THEN Spliced(s, pos, xs)[k] ELSE Raw
  <2>1. k <= n + m => k \in 1 .. n + m
    BY <1>2
  <2>2. ~(k <= n + m) => ~(k < pos + m) /\ ~(k < pos)
    BY <1>2, <1>4
  <2> QED BY <1>10, <1>11, <1>12, <2>1, <2>2
<1> QED BY <1>3, <1>5, <1>11, <1>12, <1>13 DEF Holds

\* Elements constructed behind those that are there.
LEMMA Extended ==
    ASSUME VectorAssumption, NEW v, NEW s, Holds(v, s), NEW xs \in Seq(Items),
           Len(s) + Len(xs) <= Len(v.cells),
           NEW t \in Seq(Items), Len(t) = Len(s) + Len(xs),
           \A i \in 1 .. Len(t) : t[i] = IF i <= Len(s) THEN s[i] ELSE xs[i - Len(s)]
    PROVE  Holds([ConstructN(v, Len(s) + 1, xs) EXCEPT !.size = Len(t)], t)
<1> DEFINE n == Len(s)
           m == Len(xs)
           there == ConstructN(v, n + 1, xs)
           new == [there EXCEPT !.size = Len(t)]
<1>1. v \in Buffers /\ v.sound /\ n \in Nat /\ m \in Nat /\ Len(v.cells) \in Nat /\ xs \in Seq(Cells)
  BY HeldCells DEF Holds, Cells
<1>2. \A i \in 1 .. Len(v.cells) : v.cells[i] = IF i <= n THEN s[i] ELSE Raw
  BY DEF Holds
<1>3. AllRaw(v, n + 1, m)
  BY <1>1, <1>2 DEF AllRaw
<1>4. n + 1 \in Nat \ {0}
  BY <1>1
<1>5. /\ Keeps(v, there)
      /\ \A i \in 1 .. Len(v.cells) :
            there.cells[i] = IF n + 1 <= i /\ i < n + 1 + m THEN xs[i + 1 - (n + 1)] ELSE v.cells[i]
  BY <1>1, <1>3, <1>4, Constructing
<1> HIDE DEF there, n, m
<1>6. there \in Buffers /\ Len(there.cells) = Len(v.cells) /\ there.sound
  BY <1>1, <1>5 DEF Keeps
<1>7. Len(t) \in Nat /\ Len(t) = n + m /\ Len(t) <= Len(v.cells)
  BY <1>1 DEF n, m
<1>8. new \in Buffers /\ new.sound /\ new.size = Len(t) /\ new.cells = there.cells
  BY <1>6, <1>7 DEF Buffers
<1>9. ASSUME NEW i \in 1 .. Len(v.cells) PROVE there.cells[i] = IF i <= Len(t) THEN t[i] ELSE Raw
  <2>1. i \in Nat /\ 1 <= i /\ (n + 1 <= i <=> ~(i <= n)) /\ (i < n + 1 + m <=> i <= Len(t))
        /\ i + 1 - (n + 1) = i - n
    BY <1>1, <1>7
  <2>2. i <= n => i <= Len(t)
    BY <1>1, <1>7
  <2>3. i <= Len(t) => t[i] = IF i <= n THEN s[i] ELSE xs[i - n]
    BY <1>7, <2>1 DEF n
  <2> QED BY <1>2, <1>5, <2>1, <2>2, <2>3
<1> QED BY <1>6, <1>7, <1>8, <1>9 DEF Holds, new, there, n

\* Elements destroyed that are behind those to be kept.
LEMMA Shortened ==
    ASSUME VectorAssumption, NEW v \in Buffers, v.sound, NEW t \in Seq(Items),
           Len(t) <= v.size, v.size <= Len(v.cells),
           \A i \in 1 .. Len(v.cells) :
              /\ i <= Len(t) => v.cells[i] = t[i]
              /\ i <= v.size => v.cells[i] # Raw
              /\ i > v.size => v.cells[i] = Raw
    PROVE  Holds([DestructN(v, Len(t) + 1, v.size - Len(t)) EXCEPT !.size = Len(t)], t)
<1> DEFINE n == Len(t)
           newSize == v.size
           there == DestructN(v, n + 1, newSize - n)
           new == [there EXCEPT !.size = n]
<1>1. n \in Nat /\ newSize \in Nat /\ Len(v.cells) \in Nat /\ n <= newSize /\ newSize <= Len(v.cells)
  BY DEF Buffers
<1>2. newSize - n \in Nat /\ n + 1 \in Nat \ {0}
  BY <1>1
<1>3. Filled(v, n + 1, newSize - n)
  <2>1. ASSUME NEW i \in 1 .. Len(v.cells), i < n + 1 + (newSize - n) PROVE v.cells[i] # Raw
    <3>1. i <= newSize
      BY <1>1, <2>1
    <3> QED BY <3>1
  <2> QED BY <1>1, <2>1 DEF Filled
<1>4. /\ Keeps(v, there)
      /\ \A i \in 1 .. Len(v.cells) :
            there.cells[i] = IF n + 1 <= i /\ i < n + 1 + (newSize - n) THEN Raw ELSE v.cells[i]
  BY <1>2, <1>3, Destroying
<1> HIDE DEF there
<1>5. there \in Buffers /\ Len(there.cells) = Len(v.cells) /\ there.sound
  BY <1>4 DEF Keeps
<1>6. new \in Buffers /\ new.sound /\ new.size = n /\ new.cells = there.cells
  BY <1>1, <1>5 DEF Buffers
<1>7. ASSUME NEW i \in 1 .. Len(v.cells) PROVE there.cells[i] = IF i <= n THEN t[i] ELSE Raw
  <2>1. (n + 1 <= i /\ i < n + 1 + (newSize - n)) <=> (~(i <= n) /\ i <= newSize)
    BY <1>1
  <2>2. i <= newSize \/ i > newSize
    BY <1>1
  <2> QED BY <1>4, <2>1, <2>2
<1> QED BY <1>1, <1>5, <1>6, <1>7 DEF Holds, new, there

LEMMA Reserving ==
    ASSUME VectorAssumption, NEW v, NEW s, Holds(v, s), NEW required \in Nat
    PROVE  Holds(Reserve(v, required), s) /\ required <= Len(Reserve(v, required).cells)
<1>1. Len(s) \in Nat /\ Len(v.cells) \in Nat /\ Len(s) <= Len(v.cells)
  BY HeldCells
<1>2. CASE Len(v.cells) >= required
  <2>1. Reserve(v, required) = v
    BY <1>2 DEF Reserve, Capacity
  <2> QED BY <1>1, <1>2, <2>1
<1>3. CASE ~(Len(v.cells) >= required)
  <2>1. Reserve(v, required) = MovedTo(v, required)
    BY <1>3 DEF Reserve, Capacity
  <2>2. Len(s) <= required
    BY <1>1, <1>3
  <2>3. Holds(MovedTo(v, required), s) /\ Len(MovedTo(v, required).cells) = required
    BY <2>2, MovingTo
  <2> QED BY <2>1, <2>3
<1> QED BY <1>2, <1>3

LEMMA Resizing ==
    ASSUME VectorAssumption, NEW v, NEW s, Holds(v, s), NEW newSize \in Nat, NEW x \in Items
    PROVE  Holds(Resize(v, newSize, x), [i \in 1..newSize |-> IF i <= Len(s) THEN s[i] ELSE x])
<1> DEFINE t == [i \in 1..newSize |-> IF i <= Len(s) THEN s[i] ELSE x]
           n == Len(s)
<1>1. v \in Buffers /\ v.sound /\ v.size = n /\ n \in Nat /\ n <= Len(v.cells) /\ Len(v.cells) \in Nat
      /\ s \in Seq(Items)
  BY HeldCells DEF Holds
<1>2. t \in Seq(Items) /\ Len(t) = newSize /\ \A i \in 1..newSize : t[i] = IF i <= n THEN s[i] ELSE x
  <2>1. \A i \in 1..newSize : i <= n => s[i] \in Items
    BY <1>1
  <2>2. t \in [1..newSize -> Items] /\ \A i \in 1..newSize : t[i] = IF i <= n THEN s[i] ELSE x
    BY <2>1
  <2>3. t \in Seq(Items) /\ DOMAIN t = 1..newSize
    BY <2>2, SeqDef
  <2> QED BY <2>2, <2>3, LenProperties
<1> HIDE DEF t
<1>3. CASE n < newSize
  <2> DEFINE u == Reserve(v, newSize)
             xs == [k \in 1..(newSize - n) |-> x]
  <2>1. Holds(u, s) /\ newSize <= Len(u.cells)
    BY Reserving
  <2>2. xs \in Seq(Items) /\ Len(xs) = newSize - n /\ \A k \in 1..(newSize - n) : xs[k] = x
    <3>1. newSize - n \in Nat
      BY <1>1, <1>3
    <3>2. xs \in [1..(newSize - n) -> Items] /\ \A k \in 1..(newSize - n) : xs[k] = x
      OBVIOUS
    <3>3. xs \in Seq(Items) /\ DOMAIN xs = 1..(newSize - n)
      BY <3>1, <3>2, SeqDef
    <3> QED BY <3>1, <3>2, <3>3, LenProperties
  <2>3. Resize(v, newSize, x) = [ConstructN(u, n + 1, xs) EXCEPT !.size = newSize]
    BY <1>1, <1>3 DEF Resize
  <2> HIDE DEF u, xs
  <2>4. Len(s) + Len(xs) <= Len(u.cells) /\ Len(t) = Len(s) + Len(xs)
    BY <1>1, <1>2, <1>3, <2>1, <2>2
  <2>5. \A i \in 1 .. Len(t) : t[i] = IF i <= Len(s) THEN s[i] ELSE xs[i - Len(s)]
    <3>1. ASSUME NEW i \in 1..newSize, ~(i <= n) PROVE i - n \in 1 .. (newSize - n)
      BY <1>1, <3>1
    <3> QED BY <1>2, <2>2, <3>1
  <2>6. Holds([ConstructN(u, Len(s) + 1, xs) EXCEPT !.size = Len(t)], t)
    BY <1>2, <2>1, <2>2, <2>4, <2>5, Extended
  <2> QED BY <1>2, <2>3, <2>6 DEF t
<1>4. CASE ~(n < newSize)
  <2>1. Resize(v, newSize, x) = [DestructN(v, newSize + 1, n - newSize) EXCEPT !.size = newSize]
    BY <1>1, <1>4 DEF Resize
  <2>2. /\ Len(t) <= v.size /\ v.size <= Len(v.cells)
        /\ \A i \in 1 .. Len(v.cells) :
              /\ i <= Len(t) => v.cells[i] = t[i]
              /\ i <= v.size => v.cells[i] # Raw
              /\ i > v.size => v.cells[i] = Raw
    <3>1. newSize <= n
      BY <1>1, <1>4
    <3>2. ASSUME NEW i \in 1 .. Len(v.cells), i <= newSize PROVE v.cells[i] = t[i]
      <4>1. i \in 1..newSize /\ i <= n
        BY <1>1, <3>1, <3>2
      <4> QED BY <1>2, <4>1, HeldCells
    <3> QED BY <1>1, <1>2, <3>1, <3>2, HeldCells
  <2>3. Holds([DestructN(v, Len(t) + 1, v.size - Len(t)) EXCEPT !.size = Len(t)], t)
    BY <1>1, <1>2, <2>2, Shortened
  <2> QED BY <1>1, <1>2, <2>1, <2>3 DEF t
<1> QED BY <1>3, <1>4

LEMMA Clearing ==
    ASSUME VectorAssumption, NEW v, NEW s, Holds(v, s)
    PROVE  Holds(ClearElements(v), << >>)
<1>1. v \in Buffers /\ v.sound /\ v.size \in Nat /\ v.size <= Len(v.cells)
      /\ \A i \in 1 .. Len(v.cells) : (i <= v.size => v.cells[i] # Raw) /\ (i > v.size => v.cells[i] = Raw)
  BY HeldCells DEF Holds
<1> DEFINE t == << >>
<1>2. t \in Seq(Items) /\ Len(t) = 0
  OBVIOUS
<1> HIDE DEF t
<1>3. /\ Len(t) <= v.size
      /\ \A i \in 1 .. Len(v.cells) :
            /\ i <= Len(t) => v.cells[i] = t[i]
            /\ i <= v.size => v.cells[i] # Raw
            /\ i > v.size => v.cells[i] = Raw
  BY <1>1, <1>2
<1>4. Holds([DestructN(v, Len(t) + 1, v.size - Len(t)) EXCEPT !.size = Len(t)], t)
  BY <1>1, <1>2, <1>3, Shortened
<1>5. v.size - 0 = v.size /\ 0 + 1 = 1
  BY <1>1
<1> QED BY <1>2, <1>4, <1>5 DEF ClearElements, t

LEMMA Shrinking ==
    ASSUME VectorAssumption, NEW v, NEW s, Holds(v, s)
    PROVE  Holds(ShrinkToFit(v), s) /\ (s = << >> => ShrinkToFit(v).cells = << >>)
<1>1. /\ v \in Buffers /\ v.sound /\ s \in Seq(Items) /\ v.size = Len(s)
      /\ Len(s) \in Nat /\ Len(v.cells) \in Nat /\ Len(s) <= Len(v.cells)
  BY HeldCells DEF Holds
<1>2. CASE v.size = 0
  <2> DEFINE new == [v EXCEPT !.cells = << >>]
  <2>1. ShrinkToFit(v) = new
    BY <1>2 DEF ShrinkToFit
  <2>2. new \in Buffers /\ new.cells = << >> /\ new.size = v.size /\ new.sound
    <3> DEFINE none == << >>
    <3>1. none \in Seq(Cells)
      OBVIOUS
    <3> HIDE DEF none
    <3>2. [v EXCEPT !.cells = none] \in Buffers /\ [v EXCEPT !.cells = none].cells = none
          /\ [v EXCEPT !.cells = none].size = v.size /\ [v EXCEPT !.cells = none].sound
      BY <1>1, <3>1 DEF Buffers
    <3> QED BY <3>2 DEF none
  <2>3. Len(new.cells) = 0
    BY <2>2
  <2> HIDE DEF new
  <2>4. Holds(new, s)
    BY <1>1, <1>2, <2>2, <2>3 DEF Holds
  <2> QED BY <2>1, <2>2, <2>4
<1>3. CASE v.size # 0
  <2>1. s # << >>
    BY <1>1, <1>3
  <2>2. CASE Len(v.cells) > v.size
    <3>1. ShrinkToFit(v) = MovedTo(v, v.size)
      BY <1>1, <1>3, <2>2 DEF ShrinkToFit, Capacity
    <3>2. v.size \in Nat /\ Len(s) <= v.size
      BY <1>1
    <3> QED BY <2>1, <3>1, <3>2, MovingTo
  <2>3. CASE ~(Len(v.cells) > v.size)
    <3>1. ShrinkToFit(v) = v
      BY <1>1, <1>3, <2>3 DEF ShrinkToFit, Capacity
    <3> QED BY <2>1, <3>1
  <2> QED BY <2>2, <2>3
<1> QED BY <1>2, <1>3

LEMMA Erasing ==
    ASSUME VectorAssumption, NEW v, NEW s, Holds(v, s),
           NEW first \in 1 .. Len(s) + 1, NEW last \in first .. Len(s) + 1
    PROVE  Holds(EraseRange(v, first, last), Excised(s, first, last))
<1> DEFINE n == Len(s)
           count == last - first
           moved == MoveN(v, last, n + 1 - last, first)
           t == Excised(s, first, last)
<1>1. /\ v \in Buffers /\ v.sound /\ v.size = n /\ n \in Nat /\ n <= Len(v.cells) /\ Len(v.cells) \in Nat
      /\ s \in Seq(Items)
      /\ \A i \in 1 .. Len(v.cells) : i <= n => v.cells[i] = s[i] /\ v.cells[i] # Raw
      /\ \A i \in 1 .. Len(v.cells) : i > n => v.cells[i] = Raw
  BY HeldCells DEF Holds
<1>2. /\ t \in Seq(Items) /\ Len(t) = n - count
      /\ \A i \in 1 .. n - count : t[i] = IF i < first THEN s[i] ELSE s[i + count]
  BY <1>1, WithoutElements
<1> HIDE DEF n, t
<1>3. /\ first \in Nat /\ last \in Nat /\ 1 <= first /\ first <= last /\ last <= n + 1
      /\ count \in Nat /\ n - count \in Nat
  BY <1>1 DEF n
<1>4. Shifted(v, last, n + 1 - last, first, moved)
  <2>1. Filled(v, last, n + 1 - last)
    <3>1. ASSUME NEW i \in 1 .. Len(v.cells), i < last + (n + 1 - last) PROVE i <= n
      BY <1>1, <1>3, <3>1
    <3> QED BY <1>1, <1>3, <3>1 DEF Filled
  <2>2. Filled(v, first, n + 1 - last)
    <3>1. ASSUME NEW i \in 1 .. Len(v.cells), i < first + (n + 1 - last) PROVE i <= n
      <4>1. n \in Nat /\ first \in Nat /\ last \in Nat /\ first <= last
        BY <1>1, <1>3
      <4> QED BY <3>1, <4>1
    <3> QED BY <1>1, <1>3, <3>1 DEF Filled
  <2>3. last \in Nat \ {0} /\ first \in Nat \ {0} /\ n + 1 - last \in Nat
    BY <1>1, <1>3
  <2> QED BY <1>1, <2>1, <2>2, <2>3, Moving
<1> HIDE DEF moved, count
<1>5. moved \in Buffers /\ moved.sound /\ moved.size = n /\ Len(moved.cells) = Len(v.cells)
  BY <1>1, <1>4 DEF Shifted, Keeps
<1>6. ASSUME NEW i \in 1 .. Len(v.cells)
      PROVE  /\ i <= n - count => moved.cells[i] = t[i]
             /\ i <= n => moved.cells[i] # Raw
             /\ i > n => moved.cells[i] = Raw
  <2>1. i \in Nat /\ 1 <= i /\ count = last - first
    BY DEF count
  <2>2. CASE i < first
    <3>1. /\ ~(first <= i /\ i < first + (n + 1 - last)) /\ ~(last <= i /\ i < last + (n + 1 - last))
          /\ i <= n
      BY <1>1, <1>3, <2>1, <2>2
    <3>2. moved.cells[i] = v.cells[i]
      BY <1>4, <3>1 DEF Shifted
    <3>3. i <= n - count => i \in 1 .. n - count
      BY <1>3, <2>1
    <3>4. ~(i > n)
      BY <1>1, <2>1, <3>1
    <3> QED BY <1>1, <1>2, <2>2, <3>1, <3>2, <3>3, <3>4
  <2>3. CASE first <= i /\ i <= n - count
    <3>1. /\ first <= i /\ i < first + (n + 1 - last) /\ last + (i - first) = i + count
          /\ i + count <= n /\ ~(i < first) /\ ~(i > n) /\ i <= n
      BY <1>1, <1>3, <2>1, <2>3
    <3>3. i + count \in 1 .. Len(v.cells) /\ i \in 1 .. n - count
      BY <1>1, <1>3, <2>1, <2>3
    <3>2. moved.cells[i] = v.cells[i + count]
      BY <1>4, <3>1 DEF Shifted
    <3>4. v.cells[i + count] = s[i + count] /\ t[i] = s[i + count] /\ moved.cells[i] # Raw
      BY <1>1, <1>2, <3>1, <3>2, <3>3
    <3> QED BY <3>1, <3>2, <3>4
  <2>4. CASE first <= i /\ ~(i <= n - count) /\ i <= n
    <3>1. /\ ~(first <= i /\ i < first + (n + 1 - last))
          /\ i < last => ~(last <= i /\ i < last + (n + 1 - last))
          /\ ~(i < last) => last <= i /\ i < last + (n + 1 - last)
      <4>1. n \in Nat /\ first \in Nat /\ last \in Nat /\ first <= last
        BY <1>1, <1>3
      <4>2. ~(i < first + (n + 1 - last))
        BY <1>3, <2>1, <2>4, <4>1
      <4> QED BY <2>1, <2>4, <4>1, <4>2
    <3>3. ~(i > n)
      BY <1>1, <2>1, <2>4
    <3>2. /\ i < last => moved.cells[i] = v.cells[i]
          /\ ~(i < last) => moved.cells[i] # Raw
      BY <1>4, <3>1 DEF Shifted
    <3> QED BY <1>1, <2>4, <3>2, <3>3
  <2>5. CASE i > n
    <3>1. ~(i < first + (n + 1 - last)) /\ ~(i < last + (n + 1 - last))
      BY <1>1, <1>3, <2>1, <2>5
    <3>2. ~(i <= n)
      BY <1>1, <2>1, <2>5
    <3>3. ~(i <= n - count)
      BY <1>1, <1>3, <2>1, <2>5
    <3>4. moved.cells[i] = v.cells[i]
      BY <1>4, <3>1 DEF Shifted
    <3> QED BY <1>1, <2>5, <3>2, <3>3, <3>4
  <2>6. i < first \/ (first <= i /\ i <= n - count) \/ (first <= i /\ ~(i <= n - count) /\ i <= n) \/ i > n
    BY <1>1, <1>3, <2>1
  <2> QED BY <2>2, <2>3, <2>4, <2>5, <2>6
<1>7. Holds([DestructN(moved, Len(t) + 1, moved.size - Len(t)) EXCEPT !.size = Len(t)], t)
  <2>1. Len(t) <= moved.size /\ moved.size <= Len(moved.cells)
    BY <1>1, <1>2, <1>3, <1>5
  <2>2. \A i \in 1 .. Len(moved.cells) :
           /\ i <= Len(t) => moved.cells[i] = t[i]
           /\ i <= moved.size => moved.cells[i] # Raw
           /\ i > moved.size => moved.cells[i] = Raw
    BY <1>2, <1>5, <1>6
  <2> QED BY <1>2, <1>5, <2>1, <2>2, Shortened
<1>8. EraseRange(v, first, last) = [DestructN(moved, n - count + 1, count) EXCEPT !.size = n - count]
  <2>1. EraseRange(v, first, last) = [DestructN(moved, n + 1 - count, count) EXCEPT !.size = @ - count]
    BY <1>1 DEF EraseRange, moved, count
  <2>2. n + 1 - count = n - count + 1
    BY <1>1, <1>3
  <2>3. Filled(moved, n - count + 1, count) /\ n - count + 1 \in Nat \ {0}
    <3>1. ASSUME NEW i \in 1 .. Len(moved.cells), i < n - count + 1 + count PROVE moved.cells[i] # Raw
      BY <1>1, <1>3, <1>5, <1>6, <3>1
    <3> QED BY <1>1, <1>3, <1>5, <3>1 DEF Filled
  <2>4. Keeps(moved, DestructN(moved, n - count + 1, count))
    BY <1>3, <1>5, <2>3, Destroying
  <2>5. DestructN(moved, n - count + 1, count).size = n
    BY <1>5, <2>4 DEF Keeps
  <2> QED BY <2>1, <2>2, <2>5
<1>9. n - (n - count) = count
  BY <1>1, <1>3
<1> QED BY <1>2, <1>5, <1>7, <1>8, <1>9 DEF t

\* A single element is erased like a range of one.
LEMMA ErasingOne ==
    ASSUME VectorAssumption, NEW v, NEW s, Holds(v, s), NEW pos \in 1 .. Len(s)
    PROVE  Holds(EraseAt(v, pos), Excised(s, pos, pos + 1))
<1> DEFINE n == Len(s)
           moved == MoveN(v, pos + 1, n - pos, pos)
<1>1. v \in Buffers /\ v.sound /\ v.size = n /\ n \in Nat /\ n <= Len(v.cells) /\ Len(v.cells) \in Nat
      /\ \A i \in 1 .. Len(v.cells) : i <= n => v.cells[i] # Raw
  BY HeldCells DEF Holds
<1>2. pos \in Nat /\ 1 <= pos /\ pos <= n /\ pos \in 1 .. n + 1 /\ pos + 1 \in pos .. n + 1
  BY <1>1
<1>3. Filled(v, pos + 1, n - pos) /\ Filled(v, pos, n - pos)
  <2>1. ASSUME NEW i \in 1 .. Len(v.cells), i < pos + 1 + (n - pos) PROVE i <= n
    BY <1>1, <1>2, <2>1
  <2>2. ASSUME NEW i \in 1 .. Len(v.cells), i < pos + (n - pos) PROVE i <= n
    BY <1>1, <1>2, <2>2
  <2>3. pos + 1 + (n - pos) <= Len(v.cells) + 1 /\ pos + (n - pos) <= Len(v.cells) + 1
    BY <1>1, <1>2
  <2> QED BY <1>1, <2>1, <2>2, <2>3 DEF Filled
<1>4. Shifted(v, pos + 1, n - pos, pos, moved)
  <2>1. pos + 1 \in Nat \ {0} /\ pos \in Nat \ {0} /\ n - pos \in Nat
    BY <1>1, <1>2
  <2> QED BY <1>1, <1>3, <2>1, Moving
<1>5. moved.size = n
  BY <1>1, <1>4 DEF Shifted, Keeps
<1>6. EraseAt(v, pos) = [DestructN(moved, n, 1) EXCEPT !.size = @ - 1]
  BY <1>1, <1>5 DEF EraseAt, PopBack, Destroy
<1>7. EraseRange(v, pos, pos + 1) = [DestructN(moved, n, 1) EXCEPT !.size = @ - 1]
  <2>1. n + 1 - (pos + 1) = n - pos /\ pos + 1 - pos = 1 /\ n + 1 - 1 = n
    BY <1>1, <1>2
  <2>2. EraseRange(v, pos, pos + 1) =
           [DestructN(MoveN(v, pos + 1, n + 1 - (pos + 1), pos), n + 1 - (pos + 1 - pos), pos + 1 - pos)
               EXCEPT !.size = @ - (pos + 1 - pos)]
    <3>1. v.size = n
      BY <1>1
    <3> HIDE DEF n
    <3> QED BY <3>1 DEF EraseRange
  <2> QED BY <2>1, <2>2
<1>8. Holds(EraseRange(v, pos, pos + 1), Excised(s, pos, pos + 1))
  BY <1>2, Erasing
<1> QED BY <1>6, <1>7, <1>8

LEMMA PoppingBack ==
    ASSUME VectorAssumption, NEW v, NEW s, Holds(v, s), s # << >>
    PROVE  Holds(PopBack(v), SubSeq(s, 1, Len(s) - 1))
<1> DEFINE n == Len(s)
           t == SubSeq(s, 1, n - 1)
           there == DestructN(v, n, 1)
<1>1. /\ v \in Buffers /\ v.sound /\ v.size = n /\ n \in Nat /\ n <= Len(v.cells) /\ Len(v.cells) \in Nat
      /\ s \in Seq(Items)
      /\ \A i \in 1 .. Len(v.cells) : i <= n => v.cells[i] = s[i] /\ v.cells[i] # Raw
      /\ \A i \in 1 .. Len(v.cells) : i > n => v.cells[i] = Raw
  BY HeldCells DEF Holds
<1>2. n \in 1 .. Len(s) + 1 /\ n # 0
  BY <1>1
<1>3. t \in Seq(Items) /\ Len(t) = n - 1 /\ \A i \in 1 .. n - 1 : t[i] = s[i]
  <2> DEFINE p == n
  <2>1. s \in Seq(Items) /\ p \in 1 .. Len(s) + 1
    BY <1>1, <1>2
  <2> HIDE DEF p
  <2>2. /\ SubSeq(s, 1, p - 1) \in Seq(Items) /\ Len(SubSeq(s, 1, p - 1)) = p - 1
        /\ \A i \in 1 .. p - 1 : SubSeq(s, 1, p - 1)[i] = s[i]
    BY <2>1, TwoEnds
  <2> QED BY <2>2 DEF p
<1> HIDE DEF n, t, there
<1>4. n - 1 + 1 = n /\ n - (n - 1) = 1 /\ n - 1 \in Nat
  BY <1>1, <1>2
<1>5. Holds([DestructN(v, Len(t) + 1, v.size - Len(t)) EXCEPT !.size = Len(t)], t)
  <2>1. Len(t) <= v.size /\ v.size <= Len(v.cells)
    BY <1>1, <1>3, <1>4
  <2>2. \A i \in 1 .. Len(v.cells) :
           /\ i <= Len(t) => v.cells[i] = t[i]
           /\ i <= v.size => v.cells[i] # Raw
           /\ i > v.size => v.cells[i] = Raw
    BY <1>1, <1>3, <1>4
  <2> QED BY <1>1, <1>3, <2>1, <2>2, Shortened
<1>6. Filled(v, n, 1) /\ n \in Nat \ {0}
  BY <1>1, <1>2 DEF Filled
<1>7. there.size = n
  BY <1>1, <1>6, Destroying DEF Keeps, there
<1>8. PopBack(v) = [there EXCEPT !.size = n - 1]
  <2>1. PopBack(v) = [there EXCEPT !.size = @ - 1]
    BY <1>1 DEF PopBack, Destroy, there
  <2> QED BY <1>7, <2>1
<1>9. Holds([DestructN(v, n, 1) EXCEPT !.size = n - 1], t)
  <2>1. Len(t) + 1 = n /\ v.size - Len(t) = 1 /\ Len(t) = n - 1
    BY <1>1, <1>3, <1>4
  <2> QED BY <1>5, <2>1
<1> QED BY <1>8, <1>9 DEF t, n, there

LEMMA OneElement ==
    ASSUME NEW x \in Items
    PROVE  << x >> \in Seq(Items) /\ Len(<< x >>) = 1 /\ << x >>[1] = x
OBVIOUS

\* Behind the last element there is nothing to be moved.
LEMMA SplicedBehind ==
    ASSUME NEW S, NEW s \in Seq(S), NEW xs \in Seq(S)
    PROVE  /\ Spliced(s, Len(s) + 1, xs) \in Seq(S)
           /\ Len(Spliced(s, Len(s) + 1, xs)) = Len(s) + Len(xs)
           /\ \A i \in 1 .. Len(Spliced(s, Len(s) + 1, xs)) :
                 Spliced(s, Len(s) + 1, xs)[i] = IF i <= Len(s) THEN s[i] ELSE xs[i - Len(s)]
<1> DEFINE t == Spliced(s, Len(s) + 1, xs)
<1>1. Len(s) \in Nat /\ Len(xs) \in Nat /\ Len(s) + 1 \in 1 .. Len(s) + 1
  OBVIOUS
<1>2. /\ t \in Seq(S) /\ Len(t) = Len(s) + Len(xs)
      /\ \A i \in 1 .. Len(s) + Len(xs) :
            t[i] = IF i < Len(s) + 1 THEN s[i]
                   ELSE IF i < Len(s) + 1 + Len(xs) THEN xs[i + 1 - (Len(s) + 1)] ELSE s[i - Len(xs)]
  BY <1>1, SplicedElements
<1>3. ASSUME NEW i \in 1 .. Len(t) PROVE t[i] = IF i <= Len(s) THEN s[i] ELSE xs[i - Len(s)]
  <2>1. /\ i \in 1 .. Len(s) + Len(xs) /\ (i < Len(s) + 1 <=> i <= Len(s))
        /\ i < Len(s) + 1 + Len(xs) /\ i + 1 - (Len(s) + 1) = i - Len(s)
    BY <1>1, <1>2
  <2> QED BY <1>2, <2>1
<1> QED BY <1>2, <1>3

LEMMA InsertingBehind ==
    ASSUME VectorAssumption, NEW v, NEW s, Holds(v, s), NEW xs \in Seq(Items),
           Len(s) + Len(xs) <= Len(v.cells)
    PROVE  Holds([ConstructN(v, Len(s) + 1, xs) EXCEPT !.size = Len(s) + Len(xs)],
                 Spliced(s, Len(s) + 1, xs))
<1> DEFINE t == Spliced(s, Len(s) + 1, xs)
<1>1. s \in Seq(Items)
  BY DEF Holds
<1>3. /\ t \in Seq(Items) /\ Len(t) = Len(s) + Len(xs)
      /\ \A i \in 1 .. Len(t) : t[i] = IF i <= Len(s) THEN s[i] ELSE xs[i - Len(s)]
  <2>1. /\ t \in Seq(Items) /\ Len(t) = Len(s) + Len(xs)
    BY <1>1, SplicedBehind
  <2>2. \A i \in 1 .. Len(t) : t[i] = IF i <= Len(s) THEN s[i] ELSE xs[i - Len(s)]
    BY <1>1, SplicedBehind
  <2> QED BY <2>1, <2>2
<1> HIDE DEF t
<1>4. Holds([ConstructN(v, Len(s) + 1, xs) EXCEPT !.size = Len(t)], t)
  BY <1>3, Extended
<1> QED BY <1>3, <1>4 DEF t

LEMMA EmplacingBack ==
    ASSUME VectorAssumption, NEW v, NEW s, Holds(v, s), NEW x \in Items
    PROVE  Holds(EmplaceBack(v, x), Spliced(s, Len(s) + 1, << x >>))
<1> DEFINE xs == << x >>
           n == Len(s)
           there == ConstructN(v, n + 1, xs)
<1>1. xs \in Seq(Items) /\ Len(xs) = 1
  BY OneElement
<1>2. /\ v \in Buffers /\ v.size = n /\ n \in Nat /\ n <= Len(v.cells) /\ Len(v.cells) \in Nat
      /\ \A i \in 1 .. Len(v.cells) : i > n => v.cells[i] = Raw
  BY HeldCells DEF Holds
<1>3. CASE v.size < Len(v.cells)
  <2>1. EmplaceBack(v, x) = [there EXCEPT !.size = @ + 1]
    BY <1>2, <1>3 DEF EmplaceBack, Capacity, Construct
  <2> HIDE DEF xs
  <2>2. AllRaw(v, n + 1, Len(xs)) /\ n + 1 \in Nat \ {0} /\ xs \in Seq(Cells)
    BY <1>1, <1>2, <1>3 DEF AllRaw, Cells
  <2>3. there.size = n
    BY <1>2, <2>2, Constructing DEF Keeps
  <2>4. EmplaceBack(v, x) = [there EXCEPT !.size = n + 1]
    BY <2>1, <2>3
  <2>5. Len(s) + Len(xs) <= Len(v.cells)
    BY <1>1, <1>2, <1>3
  <2>6. Holds([ConstructN(v, Len(s) + 1, xs) EXCEPT !.size = Len(s) + Len(xs)], Spliced(s, Len(s) + 1, xs))
    BY <1>1, <2>5, InsertingBehind
  <2> QED BY <1>1, <2>4, <2>6 DEF xs
<1>4. CASE ~(v.size < Len(v.cells))
  <2>1. EmplaceBack(v, x) = GrowInsert(v, n + 1, xs, TRUE)
    BY <1>2, <1>4 DEF EmplaceBack, Capacity
  <2>2. n + 1 \in 1 .. Len(s) + 1 /\ TRUE \in BOOLEAN
    BY <1>2
  <2> QED BY <1>1, <2>1, <2>2, GrowingInsert
<1> QED BY <1>3, <1>4

\* Where there is room, the elements from pos are moved one place on.
LEMMA EmplacingInside ==
    ASSUME VectorAssumption, kind # "struct", NEW v, NEW s, Holds(v, s),
           NEW pos \in 1 .. Len(s), Len(s) < Len(v.cells), NEW x \in Items
    PROVE  Holds(Construct(Destroy(RShift(v, pos, 1), pos), pos, x), Spliced(s, pos, << x >>))
<1> DEFINE n == Len(s)
           xs == << x >>
           t == Spliced(s, pos, xs)
           moved == UninitializedMoveN(v, n, 1, n + 1)
           wider == [moved EXCEPT !.size = n + 1]
           shifted == MoveN(wider, pos, n - pos, pos + 1)
           gap == DestructN(shifted, pos, 1)
           new == ConstructN(gap, pos, xs)
           cap == Len(v.cells)
<1>1. /\ v \in Buffers /\ v.sound /\ v.size = n /\ n \in Nat /\ n < cap /\ cap \in Nat
      /\ s \in Seq(Items)
      /\ \A i \in 1..cap : i <= n => v.cells[i] = s[i] /\ v.cells[i] # Raw
      /\ \A i \in 1..cap : i > n => v.cells[i] = Raw
  BY HeldCells DEF Holds
<1>2. xs \in Seq(Items) /\ Len(xs) = 1 /\ xs[1] = x
  BY OneElement
<1> HIDE DEF xs
<1>3. /\ t \in Seq(Items) /\ Len(t) = n + 1
      /\ \A i \in 1 .. n + 1 : t[i] = IF i < pos THEN s[i] ELSE IF i < pos + 1 THEN xs[i + 1 - pos] ELSE s[i - 1]
  <2>1. pos \in 1 .. Len(s) + 1
    BY <1>1
  <2>2. /\ t \in Seq(Items) /\ Len(t) = Len(s) + Len(xs)
        /\ \A i \in 1 .. Len(s) + Len(xs) :
              t[i] = IF i < pos THEN s[i] ELSE IF i < pos + Len(xs) THEN xs[i + 1 - pos] ELSE s[i - Len(xs)]
    <3>1. s \in Seq(Items) /\ xs \in Seq(Items)
      BY <1>1, <1>2
    <3> QED BY <2>1, <3>1, SplicedElements
  <2> HIDE DEF t
  <2> QED BY <1>2, <2>2
<1> HIDE DEF n, t, cap
<1>4. pos \in Nat /\ 1 <= pos /\ pos <= n
  BY <1>1 DEF n
<1>5. Destroy(RShift(v, pos, 1), pos) = gap
  <2>1. /\ n + 1 - pos \in Nat /\ ~(n + 1 - pos < 1) /\ (n + 1 - pos) - 1 = n - pos
        /\ n + 1 - 1 = n /\ n + 1 + 1 - 1 = n + 1 /\ pos + (n - pos) + 1 - (n - pos) = pos + 1
    BY <1>1, <1>4
  <2>2. RShift(v, pos, 1) = MoveBackwardsN([moved EXCEPT !.size = @ + 1], pos, n - pos, pos + (n - pos))
    <3> DEFINE tail == IF v.size + 1 - pos < 1 THEN v.size + 1 - pos ELSE 1
    <3>1. v.size = n
      BY <1>1
    <3>2. RShift(v, pos, 1) =
             MoveBackwardsN([UninitializedMoveN(v, v.size + 1 - tail, tail, v.size + 1 + 1 - tail)
                                EXCEPT !.size = @ + 1],
                            pos, (v.size + 1 - pos) - tail, pos + ((v.size + 1 - pos) - tail))
      BY DEF RShift
    <3>3. tail = 1
      BY <2>1, <3>1
    <3> HIDE DEF tail
    <3> QED BY <2>1, <3>1, <3>2, <3>3
  <2>3. Filled(v, n, 1) /\ AllRaw(v, n + 1, 1) /\ n \in Nat \ {0} /\ n + 1 \in Nat \ {0}
    BY <1>1, <1>4 DEF Filled, AllRaw, cap
  <2>4. moved.size = n
    <3>1. Shifted(v, n, 1, n + 1, Transfer(TRUE, v, n, 1, n + 1))
      BY <1>1, <2>3, Transferring
    <3> QED BY <1>1, <3>1 DEF Shifted, Keeps, Transfer, moved
  <2> HIDE DEF moved
  <2>5. [moved EXCEPT !.size = @ + 1] = wider
    BY <2>4
  <2> HIDE DEF wider
  <2>6. RShift(v, pos, 1) = shifted
    BY <2>1, <2>2, <2>5 DEF MoveBackwardsN, shifted
  <2> QED BY <2>6 DEF Destroy
<1>6. /\ wider \in Buffers /\ wider.sound /\ wider.size = n + 1 /\ Len(wider.cells) = cap
      /\ \A i \in 1..cap : /\ i < n => wider.cells[i] = s[i]
                           /\ i <= n + 1 => wider.cells[i] # Raw
                           /\ i = n + 1 => wider.cells[i] = s[n]
                           /\ i > n + 1 => wider.cells[i] = Raw
  <2>1. Filled(v, n, 1) /\ AllRaw(v, n + 1, 1) /\ n \in Nat \ {0} /\ n + 1 \in Nat \ {0}
    BY <1>1, <1>4 DEF Filled, AllRaw, cap
  <2>2. Shifted(v, n, 1, n + 1, moved)
    <3>1. Shifted(v, n, 1, n + 1, Transfer(TRUE, v, n, 1, n + 1))
      BY <1>1, <2>1, Transferring
    <3> QED BY <3>1 DEF Transfer, moved
  <2> HIDE DEF moved
  <2>3. moved \in Buffers /\ moved.sound /\ Len(moved.cells) = cap
    BY <1>1, <2>2 DEF Shifted, Keeps, cap
  <2>4. wider \in Buffers /\ wider.sound /\ wider.size = n + 1 /\ wider.cells = moved.cells
    <3> DEFINE m == n + 1
    <3>1. m \in Nat
      BY <1>1
    <3> HIDE DEF m
    <3>2. /\ [moved EXCEPT !.size = m] \in Buffers /\ [moved EXCEPT !.size = m].sound
          /\ [moved EXCEPT !.size = m].size = m /\ [moved EXCEPT !.size = m].cells = moved.cells
      BY <2>3, <3>1 DEF Buffers
    <3> QED BY <3>2 DEF m
  <2> HIDE DEF wider
  <2>5. ASSUME NEW i \in 1..cap
        PROVE  /\ i < n => wider.cells[i] = s[i]
               /\ i <= n + 1 => wider.cells[i] # Raw
               /\ i = n + 1 => wider.cells[i] = s[n]
               /\ i > n + 1 => wider.cells[i] = Raw
    <3>1. i \in Nat /\ 1 <= i /\ n \in 1..cap
      BY <1>1, <1>4
    <3>2. CASE i < n
      <4>1. ~(n + 1 <= i /\ i < n + 1 + 1) /\ ~(n <= i /\ i < n + 1) /\ i <= n /\ i # n + 1 /\ ~(i > n + 1)
        BY <1>1, <3>1, <3>2
      <4>2. moved.cells[i] = v.cells[i]
        BY <2>2, <4>1 DEF Shifted, cap
      <4> QED BY <1>1, <2>4, <3>2, <4>1, <4>2
    <3>3. CASE i = n
      <4>1. n <= i /\ i < n + 1 /\ ~(i < n) /\ i # n + 1 /\ ~(i > n + 1)
        BY <1>1, <3>1, <3>3
      <4>2. moved.cells[i] # Raw
        BY <2>2, <4>1 DEF Shifted, cap
      <4> QED BY <2>4, <4>1, <4>2
    <3>4. CASE i = n + 1
      <4>1. n + 1 <= i /\ i < n + 1 + 1 /\ n + (i - (n + 1)) = n /\ ~(i < n) /\ ~(i > n + 1)
        BY <1>1, <3>1, <3>4
      <4>2. moved.cells[i] = v.cells[n]
        BY <2>2, <4>1 DEF Shifted, cap
      <4>3. n <= n
        BY <1>1
      <4> QED BY <1>1, <2>4, <3>1, <4>1, <4>2, <4>3
    <3>5. CASE i > n + 1
      <4>1. ~(n + 1 <= i /\ i < n + 1 + 1) /\ ~(n <= i /\ i < n + 1) /\ ~(i <= n + 1) /\ i > n /\ ~(i < n) /\ i # n + 1
        BY <1>1, <3>1, <3>5
      <4>2. moved.cells[i] = v.cells[i]
        BY <2>2, <4>1 DEF Shifted, cap
      <4> QED BY <1>1, <2>4, <4>1, <4>2
    <3> QED BY <1>1, <3>1, <3>2, <3>3, <3>4, <3>5
  <2> QED BY <2>3, <2>4, <2>5
<1> HIDE DEF wider
<1>7. /\ shifted \in Buffers /\ shifted.sound /\ shifted.size = n + 1 /\ Len(shifted.cells) = cap
      /\ shifted.cells[pos] # Raw
      /\ \A i \in 1..cap : /\ i < pos => shifted.cells[i] = s[i]
                           /\ pos < i /\ i <= n + 1 => shifted.cells[i] = s[i - 1]
                           /\ i > n + 1 => shifted.cells[i] = Raw
  <2>1. Filled(wider, pos, n - pos) /\ Filled(wider, pos + 1, n - pos)
    <3>1. ASSUME NEW i \in 1..cap, i < pos + 1 + (n - pos) PROVE wider.cells[i] # Raw
      <4>1. i <= n + 1
        BY <1>1, <1>4, <3>1
      <4> QED BY <1>6, <4>1
    <3>2. ASSUME NEW i \in 1..cap, i < pos + (n - pos) PROVE i < pos + 1 + (n - pos)
      BY <1>1, <1>4, <3>2
    <3>3. pos + (n - pos) <= cap + 1 /\ pos + 1 + (n - pos) <= cap + 1
      BY <1>1, <1>4
    <3> QED BY <1>6, <3>1, <3>2, <3>3 DEF Filled
  <2>2. pos \in Nat \ {0} /\ pos + 1 \in Nat \ {0} /\ n - pos \in Nat
    BY <1>1, <1>4
  <2>3. Shifted(wider, pos, n - pos, pos + 1, shifted)
    BY <1>6, <2>1, <2>2, Moving
  <2> HIDE DEF shifted
  <2>4. shifted \in Buffers /\ shifted.sound /\ shifted.size = n + 1 /\ Len(shifted.cells) = cap
    BY <1>6, <2>3 DEF Shifted, Keeps
  <2>5. shifted.cells[pos] # Raw
    <3>1. pos \in 1..cap /\ pos <= n + 1 /\ ~(pos + 1 <= pos)
      BY <1>1, <1>4
    <3>2. pos < pos + (n - pos) \/ ~(pos <= pos /\ pos < pos + (n - pos))
      BY <1>1, <1>4
    <3>3. pos <= pos
      BY <1>4
    <3> QED BY <1>6, <2>3, <3>1, <3>2, <3>3 DEF Shifted
  <2>6. ASSUME NEW i \in 1..cap
        PROVE  /\ i < pos => shifted.cells[i] = s[i]
               /\ pos < i /\ i <= n + 1 => shifted.cells[i] = s[i - 1]
               /\ i > n + 1 => shifted.cells[i] = Raw
    <3>1. i \in Nat /\ 1 <= i
      OBVIOUS
    <3>2. CASE i < pos
      <4>1. i < n /\ ~(pos <= i) /\ ~(pos + 1 <= i) /\ ~(pos < i) /\ ~(i > n + 1)
        BY <1>1, <1>4, <3>1, <3>2
      <4>2. shifted.cells[i] = wider.cells[i]
        BY <1>6, <2>3, <4>1 DEF Shifted
      <4> QED BY <1>6, <4>1, <4>2
    <3>3. CASE pos < i /\ i <= n
      <4>1. /\ pos + 1 <= i /\ i < pos + 1 + (n - pos) /\ pos + (i - (pos + 1)) = i - 1
            /\ i - 1 < n /\ ~(i < pos) /\ ~(i > n + 1)
        BY <1>1, <1>4, <3>1, <3>3
      <4>2. shifted.cells[i] = wider.cells[i - 1]
        BY <1>6, <2>3, <4>1 DEF Shifted
      <4>3. i - 1 \in 1..cap
        BY <1>1, <1>4, <3>1, <3>3
      <4> QED BY <1>6, <4>1, <4>2, <4>3
    <3>4. CASE i = n + 1
      <4>1. ~(i < pos + 1 + (n - pos)) /\ ~(i < pos + (n - pos)) /\ i - 1 = n /\ ~(i < pos) /\ ~(i > n + 1)
        BY <1>1, <1>4, <3>1, <3>4
      <4>2. shifted.cells[i] = wider.cells[i]
        BY <1>6, <2>3, <4>1 DEF Shifted
      <4> QED BY <1>6, <3>4, <4>1, <4>2
    <3>5. CASE i > n + 1
      <4>1. ~(i < pos + 1 + (n - pos)) /\ ~(i < pos + (n - pos)) /\ ~(i < pos) /\ ~(i <= n + 1)
        BY <1>1, <1>4, <3>1, <3>5
      <4>2. shifted.cells[i] = wider.cells[i]
        BY <1>6, <2>3, <4>1 DEF Shifted
      <4> QED BY <1>6, <3>5, <4>1, <4>2
    <3>6. i < pos \/ i = pos \/ (pos < i /\ i <= n) \/ i = n + 1 \/ i > n + 1
      <4>1. n \in Nat /\ pos \in Nat
        BY <1>1, <1>4
      <4> QED BY <3>1, <4>1
    <3>7. i = pos => ~(i < pos) /\ ~(pos < i) /\ ~(i > n + 1)
      BY <1>1, <1>4
    <3> QED BY <3>2, <3>3, <3>4, <3>5, <3>6, <3>7
  <2> QED BY <2>4, <2>5, <2>6
<1> HIDE DEF shifted
<1>8. /\ gap \in Buffers /\ gap.sound /\ gap.size = n + 1 /\ Len(gap.cells) = cap
      /\ \A i \in 1..cap : gap.cells[i] = IF i = pos THEN Raw ELSE shifted.cells[i]
  <2>1. \A i \in 1..cap : pos <= i /\ i < pos + 1 <=> i = pos
    BY <1>1, <1>4
  <2>2. Filled(shifted, pos, 1) /\ pos \in Nat \ {0}
    BY <1>1, <1>4, <1>7, <2>1 DEF Filled
  <2>3. /\ Keeps(shifted, gap)
        /\ \A i \in 1 .. Len(shifted.cells) :
              gap.cells[i] = IF pos <= i /\ i < pos + 1 THEN Raw ELSE shifted.cells[i]
    <3>1. shifted \in Buffers /\ 1 \in Nat
      BY <1>7
    <3> QED BY <2>2, <3>1, Destroying
  <2> HIDE DEF gap
  <2> QED BY <1>7, <2>1, <2>3 DEF Keeps
<1> HIDE DEF gap
<1>9. /\ new \in Buffers /\ new.sound /\ new.size = n + 1 /\ Len(new.cells) = cap
      /\ \A i \in 1..cap : new.cells[i] = IF i = pos THEN x ELSE gap.cells[i]
  <2>1. \A i \in 1..cap : pos <= i /\ i < pos + 1 <=> i = pos
    BY <1>1, <1>4
  <2>2. AllRaw(gap, pos, Len(xs)) /\ pos \in Nat \ {0} /\ xs \in Seq(Cells)
    BY <1>1, <1>2, <1>4, <1>8, <2>1 DEF AllRaw, Cells
  <2>3. /\ Keeps(gap, new)
        /\ \A i \in 1 .. Len(gap.cells) :
              new.cells[i] = IF pos <= i /\ i < pos + Len(xs) THEN xs[i + 1 - pos] ELSE gap.cells[i]
    BY <1>8, <2>2, Constructing
  <2> HIDE DEF new
  <2>4. pos + 1 - pos = 1
    BY <1>4
  <2> QED BY <1>2, <1>8, <2>1, <2>3, <2>4 DEF Keeps
<1> HIDE DEF new
<1>10. ASSUME NEW i \in 1..cap PROVE new.cells[i] = IF i <= n + 1 THEN t[i] ELSE Raw
  <2>1. i \in Nat /\ 1 <= i /\ (i <= n + 1 => i \in 1 .. n + 1)
    BY <1>1
  <2>2. CASE i < pos
    <3>1. i # pos /\ i <= n + 1
      BY <1>1, <1>4, <2>1, <2>2
    <3> QED BY <1>3, <1>7, <1>8, <1>9, <2>1, <2>2, <3>1
  <2>3. CASE i = pos
    <3>1. ~(i < pos) /\ i < pos + 1 /\ i + 1 - pos = 1 /\ i <= n + 1
      BY <1>1, <1>4, <2>3
    <3> QED BY <1>2, <1>3, <1>9, <2>1, <2>3, <3>1
  <2>4. CASE pos < i /\ i <= n + 1
    <3>1. ~(i < pos) /\ ~(i < pos + 1) /\ i # pos
      BY <1>1, <1>4, <2>1, <2>4
    <3> QED BY <1>3, <1>7, <1>8, <1>9, <2>1, <2>4, <3>1
  <2>5. CASE i > n + 1
    <3>1. ~(i <= n + 1) /\ i # pos
      BY <1>1, <1>4, <2>1, <2>5
    <3> QED BY <1>7, <1>8, <1>9, <2>5, <3>1
  <2>6. i < pos \/ i = pos \/ (pos < i /\ i <= n + 1) \/ i > n + 1
    BY <1>1, <1>4, <2>1
  <2> QED BY <2>2, <2>3, <2>4, <2>5, <2>6
<1>11. n + 1 <= cap
  BY <1>1
<1>12. Construct(Destroy(RShift(v, pos, 1), pos), pos, x) = new
  BY <1>5 DEF Construct, new, xs
<1> QED BY <1>3, <1>9, <1>10, <1>11, <1>12 DEF Holds, t, xs

LEMMA Emplacing ==
    ASSUME VectorAssumption, kind # "struct", NEW v, NEW s, Holds(v, s),
           NEW pos \in 1 .. Len(s) + 1, NEW x \in Items
    PROVE  Holds(Emplace(v, pos, x), Spliced(s, pos, << x >>))
<1>1. v.size = Len(s) /\ Len(s) \in Nat /\ Len(v.cells) \in Nat
  BY HeldCells
<1>2. << x >> \in Seq(Items)
  BY OneElement
<1>3. CASE pos = Len(s) + 1
  <2>1. pos = v.size + 1 /\ ~(pos <= v.size)
    BY <1>1, <1>3
  <2>2. Emplace(v, pos, x) = EmplaceBack(v, x)
    BY <2>1 DEF Emplace
  <2> QED BY <1>3, <2>2, EmplacingBack
<1>4. CASE pos # Len(s) + 1 /\ Len(s) < Len(v.cells)
  <2>1. pos \in 1 .. Len(s)
    BY <1>1, <1>4
  <2>2. Emplace(v, pos, x) = Construct(Destroy(RShift(v, pos, 1), pos), pos, x)
    BY <1>1, <1>4, <2>1 DEF Emplace, Capacity
  <2> QED BY <1>4, <2>1, <2>2, EmplacingInside
<1>5. CASE pos # Len(s) + 1 /\ ~(Len(s) < Len(v.cells))
  <2>1. Emplace(v, pos, x) = GrowInsert(v, pos, << x >>, TRUE)
    BY <1>1, <1>5 DEF Emplace, Capacity
  <2>2. TRUE \in BOOLEAN
    OBVIOUS
  <2> QED BY <1>2, <2>1, <2>2, GrowingInsert
<1> QED BY <1>3, <1>4, <1>5

\* A range before the end, with room for it, is what the code gets wrong.
LEMMA Inserting ==
    ASSUME VectorAssumption, NEW v, NEW s, Holds(v, s),
           NEW pos \in 1 .. Len(s) + 1, NEW xs \in Seq(Items),
           pos = Len(s) + 1 \/ ~(Len(v.cells) - Len(s) >= Len(xs))
    PROVE  Holds(InsertRange(v, pos, xs), Spliced(s, pos, xs))
<1>1. v.size = Len(s) /\ Len(s) \in Nat /\ Len(v.cells) \in Nat /\ Len(s) <= Len(v.cells) /\ Len(xs) \in Nat
  BY HeldCells
<1>2. CASE Len(v.cells) - Len(s) >= Len(xs)
  <2> DEFINE there == ConstructN(v, Len(s) + 1, xs)
  <2>1. pos = Len(s) + 1 /\ Len(s) + Len(xs) <= Len(v.cells)
    BY <1>1, <1>2
  <2>2. InsertRange(v, pos, xs) = [there EXCEPT !.size = @ + Len(xs)]
    BY <1>1, <1>2, <2>1 DEF InsertRange, Capacity
  <2>3. there.size = Len(s)
    <3>1. v \in Buffers /\ \A i \in 1 .. Len(v.cells) : i > Len(s) => v.cells[i] = Raw
      BY HeldCells DEF Holds
    <3>2. AllRaw(v, Len(s) + 1, Len(xs)) /\ Len(s) + 1 \in Nat \ {0} /\ xs \in Seq(Cells)
      BY <1>1, <2>1, <3>1 DEF AllRaw, Cells
    <3> QED BY <1>1, <3>1, <3>2, Constructing DEF Keeps
  <2>4. Holds([there EXCEPT !.size = Len(s) + Len(xs)], Spliced(s, Len(s) + 1, xs))
    BY <2>1, InsertingBehind
  <2> HIDE DEF there
  <2> QED BY <2>1, <2>2, <2>3, <2>4
<1>3. CASE ~(Len(v.cells) - Len(s) >= Len(xs))
  <2>1. InsertRange(v, pos, xs) = GrowInsert(v, pos, xs, FALSE)
    BY <1>1, <1>3 DEF InsertRange, Capacity
  <2>2. FALSE \in BOOLEAN
    OBVIOUS
  <2> QED BY <2>1, <2>2, GrowingInsert
<1> QED BY <1>2, <1>3

LEMMA SameElements ==
    ASSUME NEW v, NEW s, Holds(v, s), NEW t \in Seq(Items), Len(t) = Len(s),
           \A i \in 1 .. Len(s) : t[i] = s[i]
    PROVE  Holds(v, t)
<1>1. Len(v.cells) \in Nat /\ Len(s) \in Nat
  BY DEF Holds, Buffers
<1>2. \A i \in 1 .. Len(v.cells) : i <= Len(s) => i \in 1 .. Len(s)
  BY <1>1
<1> QED BY <1>2 DEF Holds

LEMMA NothingHeld == Holds(NoVector, << >>)
<1>1. << >> \in Seq(Cells) /\ << >> \in Seq(Items) /\ Len(<< >>) = 0
  OBVIOUS
<1>2. NoVector \in Buffers
  BY <1>1 DEF NoVector, Buffers
<1> QED BY <1>1, <1>2 DEF Holds, NoVector

LEMMA Assigning ==
    ASSUME VectorAssumption, NEW v, NEW s, Holds(v, s), NEW xs \in Seq(Items), NEW c \in BOOLEAN,
           LET freed == ShrinkToFit(ClearElements(v)) IN c = (freed.sound /\ freed.cells = << >>)
    PROVE  Holds(Demand(InsertRange(NoVector, 1, xs), c), xs)
<1> DEFINE none == << >>
           freed == ShrinkToFit(ClearElements(v))
           made == InsertRange(NoVector, 1, xs)
           t == Spliced(none, 1, xs)
<1>1. Holds(ClearElements(v), none)
  BY Clearing
<1>2. Holds(freed, none) /\ freed.cells = << >>
  BY <1>1, Shrinking
<1>3. c
  BY <1>2 DEF Holds
<1>4. Len(none) = 0 /\ none \in Seq(Items) /\ Len(xs) \in Nat
  OBVIOUS
<1>5. Holds(NoVector, none)
  BY NothingHeld
<1> HIDE DEF none
<1>6. 1 \in 1 .. Len(none) + 1 /\ 1 = Len(none) + 1
  BY <1>4
<1>7. Holds(made, t)
  BY <1>5, <1>6, Inserting
<1>8. /\ t \in Seq(Items) /\ Len(t) = Len(xs)
      /\ \A i \in 1 .. Len(xs) : t[i] = xs[i]
  <2>1. /\ t \in Seq(Items) /\ Len(t) = Len(none) + Len(xs)
        /\ \A i \in 1 .. Len(none) + Len(xs) :
              t[i] = IF i < 1 THEN none[i] ELSE IF i < 1 + Len(xs) THEN xs[i + 1 - 1] ELSE none[i - Len(xs)]
    <3>1. none \in Seq(Items) /\ 1 \in 1 .. Len(none) + 1
      BY <1>4, <1>6
    <3> QED BY <3>1, SplicedElements
  <2> HIDE DEF t
  <2> QED BY <1>4, <2>1
<1> HIDE DEF made, t
<1>9. Holds(made, xs)
  BY <1>7, <1>8, SameElements
<1>10. made \in Buffers /\ made.sound
  BY <1>9 DEF Holds
<1>11. /\ Demand(made, c) \in Buffers /\ Demand(made, c).cells = made.cells
       /\ Demand(made, c).size = made.size /\ Demand(made, c).sound
  BY <1>3, <1>10, Demanded
<1> QED BY <1>9, <1>11 DEF Holds, made

\* The vector holds its contents, throughout.
VectorInv == kind \in Kinds /\ Holds(vector, contents)

LEMMA VectorInvInit == VectorInit => VectorInv
BY NothingHeld DEF VectorInit, VectorInv

LEMMA VectorInvStep ==
    ASSUME VectorAssumption, "struct" \notin Kinds, RangesInside = FALSE,
           VectorInv, [VectorNext]_vectorVars
    PROVE  VectorInv'
<1> DEFINE v == vector
           s == contents
<1>1. Holds(v, s) /\ kind \in Kinds /\ kind # "struct"
  BY DEF VectorInv
<1>2. ASSUME NEW vec, NEW elements, Holds(vec, elements), Becomes(vec, elements)
      PROVE  VectorInv'
  BY <1>1, <1>2 DEF Becomes, VectorInv
<1>3. s \in Seq(Items) /\ Len(s) \in Nat /\ v.size = Len(s)
  BY <1>1, HeldCells DEF Holds
<1>4. \A x \in Elements : x \in Items
  BY DEF Items
<1>5. ASSUME DoPushBack PROVE VectorInv'
  <2>1. PICK x \in Elements : Becomes(EmplaceBack(v, x), Append(s, x))
    BY <1>5 DEF DoPushBack
  <2> DEFINE xs == << x >>
             t == Append(s, x)
  <2>2. Holds(EmplaceBack(v, x), Spliced(s, Len(s) + 1, xs))
    BY <1>1, <1>4, EmplacingBack
  <2>3. xs \in Seq(Items) /\ Len(xs) = 1 /\ xs[1] = x
    BY <1>4, OneElement
  <2> HIDE DEF xs
  <2>4. /\ Len(Spliced(s, Len(s) + 1, xs)) = Len(s) + 1
        /\ \A i \in 1 .. Len(s) + 1 : Spliced(s, Len(s) + 1, xs)[i] = IF i <= Len(s) THEN s[i] ELSE xs[i - Len(s)]
    <3>1. s \in Seq(Items) /\ xs \in Seq(Items)
      BY <1>3, <2>3
    <3>2. /\ Len(Spliced(s, Len(s) + 1, xs)) = Len(s) + Len(xs)
          /\ \A i \in 1 .. Len(Spliced(s, Len(s) + 1, xs)) :
                Spliced(s, Len(s) + 1, xs)[i] = IF i <= Len(s) THEN s[i] ELSE xs[i - Len(s)]
      BY <3>1, SplicedBehind
    <3> QED BY <2>3, <3>2
  <2>5. t \in Seq(Items) /\ Len(t) = Len(s) + 1 /\ t[Len(s) + 1] = x /\ \A i \in 1 .. Len(s) : t[i] = s[i]
    BY <1>3, <1>4, AppendProperties
  <2>6. ASSUME NEW i \in 1 .. Len(s) + 1 PROVE t[i] = Spliced(s, Len(s) + 1, xs)[i]
    <3>1. CASE i <= Len(s)
      BY <1>3, <2>4, <2>5, <3>1
    <3>2. CASE ~(i <= Len(s))
      <4>1. i = Len(s) + 1 /\ i - Len(s) = 1
        BY <1>3, <3>2
      <4> QED BY <2>3, <2>4, <2>5, <3>2, <4>1
    <3> QED BY <3>1, <3>2
  <2> HIDE DEF t
  <2>7. Holds(EmplaceBack(v, x), t)
    BY <2>2, <2>4, <2>5, <2>6, SameElements
  <2> QED BY <1>2, <2>1, <2>7 DEF t
<1>6. ASSUME DoEmplace PROVE VectorInv'
  <2>1. PICK x \in Elements, pos \in 1..(Len(s) + 1) : Becomes(Emplace(v, pos, x), Spliced(s, pos, << x >>))
    BY <1>6 DEF DoEmplace, Before, From, Spliced
  <2>2. Holds(Emplace(v, pos, x), Spliced(s, pos, << x >>))
    BY <1>1, <1>4, Emplacing
  <2> QED BY <1>2, <2>1, <2>2
<1>7. ASSUME DoInsertRange PROVE VectorInv'
  <2>1. PICK xs \in [1..2 -> Elements], pos \in 1..(Len(s) + 1) :
           /\ ~(pos <= Len(s) /\ Capacity(v) - Len(s) >= Len(xs))
           /\ Becomes(InsertRange(v, pos, xs), Spliced(s, pos, xs))
    BY <1>7 DEF DoInsertRange, Before, From, Spliced
  <2>2. xs \in Seq(Items)
    <3> DEFINE n == 2
    <3>1. n \in Nat /\ xs \in [1..n -> Items]
      BY <1>4
    <3> HIDE DEF n
    <3> QED BY <3>1, SeqDef
  <2>3. pos = Len(s) + 1 \/ ~(Len(v.cells) - Len(s) >= Len(xs))
    BY <1>3, <2>1 DEF Capacity
  <2>4. Holds(InsertRange(v, pos, xs), Spliced(s, pos, xs))
    BY <1>1, <2>2, <2>3, Inserting
  <2> QED BY <1>2, <2>1, <2>4
<1>8. ASSUME DoReserve PROVE VectorInv'
  <2>1. PICK n \in 1..MaxSize : Becomes(Reserve(v, n), s)
    BY <1>8 DEF DoReserve
  <2>2. n \in Nat
    BY DEF VectorAssumption
  <2>3. Holds(Reserve(v, n), s)
    BY <1>1, <2>2, Reserving
  <2> QED BY <1>2, <2>1, <2>3
<1>9. ASSUME DoResize PROVE VectorInv'
  <2>1. PICK n \in 0..MaxSize, x \in Items :
           Becomes(Resize(v, n, x), [i \in 1..n |-> IF i <= Len(s) THEN s[i] ELSE x])
    BY <1>9 DEF DoResize, Items
  <2>2. n \in Nat
    BY DEF VectorAssumption
  <2>3. Holds(Resize(v, n, x), [i \in 1..n |-> IF i <= Len(s) THEN s[i] ELSE x])
    BY <1>1, <2>2, Resizing
  <2> QED BY <1>2, <2>1, <2>3
<1>10. ASSUME DoClear PROVE VectorInv'
  <2>1. Holds(ClearElements(v), << >>)
    BY <1>1, Clearing
  <2> QED BY <1>2, <1>10, <2>1 DEF DoClear
<1>11. ASSUME DoShrinkToFit PROVE VectorInv'
  <2>1. Holds(ShrinkToFit(v), s)
    BY <1>1, Shrinking
  <2> QED BY <1>2, <1>11, <2>1 DEF DoShrinkToFit
<1>12. ASSUME DoPopBack PROVE VectorInv'
  <2>1. s # << >> /\ Becomes(PopBack(v), SubSeq(s, 1, Len(s) - 1))
    BY <1>12 DEF DoPopBack, Before
  <2>2. Holds(PopBack(v), SubSeq(s, 1, Len(s) - 1))
    BY <1>1, <2>1, PoppingBack
  <2> QED BY <1>2, <2>1, <2>2
<1>13. ASSUME DoErase PROVE VectorInv'
  <2>1. PICK pos \in 1 .. Len(s) : Becomes(EraseAt(v, pos), Excised(s, pos, pos + 1))
    <3>1. DOMAIN s = 1 .. Len(s)
      BY <1>3
    <3> QED BY <1>13, <3>1 DEF DoErase, Before, From, Excised
  <2>2. Holds(EraseAt(v, pos), Excised(s, pos, pos + 1))
    BY <1>1, ErasingOne
  <2> QED BY <1>2, <2>1, <2>2
<1>14. ASSUME DoEraseRange PROVE VectorInv'
  <2>1. PICK first \in 1..(Len(s) + 1), last \in 1..(Len(s) + 1) :
           first <= last /\ Becomes(EraseRange(v, first, last), Excised(s, first, last))
    BY <1>14 DEF DoEraseRange, Before, From, Excised
  <2>2. last \in first .. Len(s) + 1
    BY <1>3, <2>1
  <2>3. Holds(EraseRange(v, first, last), Excised(s, first, last))
    BY <1>1, <2>2, Erasing
  <2> QED BY <1>2, <2>1, <2>3
<1>15. ASSUME DoAssign PROVE VectorInv'
  <2> DEFINE freed == ShrinkToFit(ClearElements(v))
             c == freed.sound /\ freed.cells = << >>
  <2>1. PICK n \in 0..MaxSize : \E xs \in [1..n -> Elements] : Becomes(Demand(InsertRange(NoVector, 1, xs), c), xs)
    BY <1>15 DEF DoAssign
  <2>2. PICK xs \in [1..n -> Elements] : Becomes(Demand(InsertRange(NoVector, 1, xs), c), xs)
    BY <2>1
  <2>3. xs \in Seq(Items)
    <3>1. n \in Nat /\ xs \in [1..n -> Items]
      BY <1>4 DEF VectorAssumption
    <3> QED BY <3>1, SeqDef
  <2>4. c \in BOOLEAN
    <3>1. Holds(ClearElements(v), << >>)
      BY <1>1, Clearing
    <3>2. Holds(freed, << >>)
      BY <3>1, Shrinking
    <3> QED BY <3>2 DEF Holds, Buffers
  <2>5. Holds(Demand(InsertRange(NoVector, 1, xs), c), xs)
    BY <1>1, <2>3, <2>4, Assigning
  <2> QED BY <1>2, <2>2, <2>5
<1>16. ASSUME UNCHANGED vectorVars PROVE VectorInv'
  BY <1>16 DEF vectorVars, VectorInv
<1> QED BY <1>5, <1>6, <1>7, <1>8, <1>9, <1>10, <1>11, <1>12, <1>13, <1>14, <1>15, <1>16 DEF VectorNext

\* A vector of numbers or of objects holds what it should and leaks and breaks
\* nothing (VectorRight), whatever is called, at any size: provided that no
\* range is inserted before its end where there is room, and that its elements
\* are no plain structs, for which the code does otherwise (vector.h's
\* insert() and memory_util.h's move_backwards_n()).
THEOREM VectorStaysRight ==
    ASSUME "struct" \notin Kinds, RangesInside = FALSE
    PROVE  VectorSpec => []VectorRight
<1>1. VectorInv => VectorRight
  <2> SUFFICES ASSUME VectorInv PROVE VectorRight
    OBVIOUS
  <2>1. vector.cells \in Seq(Cells) /\ DOMAIN vector.cells = 1 .. Len(vector.cells)
    BY DEF VectorInv, Holds, Buffers
  <2> QED BY <2>1 DEF VectorInv, Holds, VectorRight, Capacity
<1>2. VectorInv /\ [VectorNext]_vectorVars => VectorInv'
  BY VectorAssumption, VectorInvStep
<1> QED BY <1>1, <1>2, VectorInvInit, PTL DEF VectorSpec
=============================================================================
