------------------------------- MODULE MCLibrary -------------------------------
(***************************************************************************)
(* Four parts of the libraries that share nothing, explored in one run:    *)
(* a behaviour is one of `subject` alone, while the rest stays as it is.   *)
(***************************************************************************)
EXTENDS RWLock, MCFileHashCache, MCHashTable, Vector

VARIABLE subject

LibraryInit ==
    /\ subject \in {"lock", "hash cache", "hash table", "vector"}
    /\ LockInit /\ CacheInit /\ Init /\ VectorInit
    /\ subject # "hash cache" => disk = [p \in Paths |-> Missing]
    /\ subject # "vector" => kind = "number"

\* The hash table stops when it may not grow any more.
HashTableStep == Next \/ (~ENABLED Next /\ UNCHANGED vars)

LibraryNext ==
    /\ UNCHANGED subject
    /\ \/ subject = "lock" /\ CarefulLockNext /\ UNCHANGED <<cacheVars, vars, vectorVars>>
       \/ subject = "hash cache" /\ CacheNext /\ UNCHANGED <<lockVars, vars, vectorVars>>
       \/ subject = "hash table" /\ HashTableStep /\ UNCHANGED <<lockVars, cacheVars, vectorVars>>
       \/ subject = "vector" /\ VectorNext /\ UNCHANGED <<lockVars, cacheVars, vars>>

LibrarySpec ==
    LibraryInit /\ [][LibraryNext]_<<subject, lockVars, cacheVars, vars, vectorVars>>
=============================================================================
