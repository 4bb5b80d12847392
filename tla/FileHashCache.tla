---------------------------- MODULE FileHashCache ----------------------------
(***************************************************************************)
(* The importer's cache of content hashes (file_hash_cache.cpp): a file    *)
(* whose size and modification time are those of the cached record is not  *)
(* read again.  Files change under it at any moment, also between the      *)
(* stat, the open and the last read of one call.                           *)
(*                                                                         *)
(* A version of a file stands for its content, and its hash for it: the    *)
(* hash is taken to be injective.  Mtime and Size give each version its    *)
(* stamp.  Files keep one promise, the guard of Write: a file never takes  *)
(* a stamp it has had before.                                              *)
(*                                                                         *)
(* Operators named X_Fault are faulty variants of X that the mutation      *)
(* checks put in its place; no specification uses them.                    *)
(***************************************************************************)
EXTENDS Naturals, FiniteSets

CONSTANTS
    Paths,      \* the files hashed
    Versions,   \* the contents a file may have
    Mtime,      \* the modification time of each version
    Size,       \* the size of each version
    Missing,    \* no file; also the hash 0 that stands for one
    EmptyFile,  \* the hash of a stream that cannot be read
    Torn,       \* the hash of parts of two versions
    NoRecord    \* a path without a record

ASSUME StampAssumption ==
    Mtime \in [Versions -> Nat] /\ Size \in [Versions -> Nat]
ASSUME NamesAssumption ==
    {Missing, EmptyFile, Torn, NoRecord} \cap Versions = {}

VARIABLES
    disk,       \* each path's present version
    used,       \* the versions each path has had
    hashes,     \* FileHashCache::_hashes, lost when the process ends
    hashCache,  \* the hash_cache table, which is not
    call,       \* the hashAssetAtPath in progress
    answer      \* the last hash returned, and what was true of the file then

files == <<disk, used>>
cacheVars == <<disk, used, hashes, hashCache, call, answer>>

Hash == Versions \cup {Missing, EmptyFile, Torn}
Record == [contentHash : Hash, mtime : Nat, size : Nat]
Stamp(v) == [mtime |-> Mtime[v], size |-> Size[v]]
SameStamp_Fault(r, v) == r.size = Size[v]    \* ignores the time
SameStamp(r, v) == r.size = Size[v] /\ r.mtime = Mtime[v]

Idle == [step |-> "idle"]
NoAnswer == [hash |-> Missing, present |-> Missing, calm |-> FALSE]

CacheTypeOK ==
    /\ disk \in [Paths -> Versions \cup {Missing}]
    /\ used \in [Paths -> SUBSET Versions]
    /\ hashes \in [Paths -> Record \cup {NoRecord}]
    /\ hashCache \in [Paths -> Record \cup {NoRecord}]
    /\ call \in {Idle}
         \cup [step : {"open"}, path : Paths, stat : Versions, calm : BOOLEAN]
         \cup [step : {"read"}, path : Paths, stat : Versions, calm : BOOLEAN,
               opened : Versions \cup {Missing}]
    /\ answer \in [hash : Hash, present : Versions \cup {Missing},
                   calm : BOOLEAN]

CacheInit ==
    /\ disk \in [Paths -> Versions \cup {Missing}]
    /\ used = [p \in Paths |-> {disk[p]} \ {Missing}]
    /\ hashes = [p \in Paths |-> NoRecord]
    /\ hashCache = [p \in Paths |-> NoRecord]
    /\ call = Idle
    /\ answer = NoAnswer

(***************************************************************************)
(* The file system                                                         *)
(***************************************************************************)
\* A change of a file that is being hashed is remembered in `calm`.
Disturb(p) ==
    call' = IF call # Idle /\ call.path = p
            THEN [call EXCEPT !.calm = FALSE] ELSE call

Write(p, v) ==
    /\ \A w \in used[p] : Stamp(w) # Stamp(v)
    /\ disk' = [disk EXCEPT ![p] = v]
    /\ used' = [used EXCEPT ![p] = @ \cup {v}]
    /\ Disturb(p)
    /\ UNCHANGED <<hashes, hashCache, answer>>

RemoveFile(p) ==
    /\ disk[p] # Missing
    /\ disk' = [disk EXCEPT ![p] = Missing]
    /\ Disturb(p)
    /\ UNCHANGED <<used, hashes, hashCache, answer>>

(***************************************************************************)
(* hashAssetAtPath                                                         *)
(***************************************************************************)
Return(p, h, quiet) ==
    /\ answer' = [hash |-> h, present |-> disk[p], calm |-> quiet]
    /\ call' = Idle

Cached(p) == hashes[p] # NoRecord /\ SameStamp(hashes[p], disk[p])

HashMissing(p) ==
    /\ call = Idle
    /\ disk[p] = Missing
    /\ Return(p, Missing, TRUE)
    /\ UNCHANGED <<files, hashes, hashCache>>

HashHit(p) ==
    /\ call = Idle
    /\ disk[p] # Missing
    /\ Cached(p)
    /\ Return(p, hashes[p].contentHash, TRUE)
    /\ UNCHANGED <<files, hashes, hashCache>>

HashMiss(p) ==
    /\ call = Idle
    /\ disk[p] # Missing
    /\ ~Cached(p)
    /\ call' = [step |-> "open", path |-> p, stat |-> disk[p], calm |-> TRUE]
    /\ UNCHANGED <<files, hashes, hashCache, answer>>

OpenStream ==
    /\ call.step = "open"
    /\ call' = [step |-> "read", path |-> call.path, stat |-> call.stat,
                calm |-> call.calm, opened |-> disk[call.path]]
    /\ UNCHANGED <<files, hashes, hashCache, answer>>

\* hashAssetStream: blocks of 8 KiB, so a file written meanwhile may be read
\* partly old and partly new.
StreamHash ==
    CASE call.opened = Missing -> {EmptyFile}
      [] call.opened = disk[call.path] -> {call.opened}
      [] OTHER -> {call.opened, Torn}

\* The record carries the stamp of the stat that preceded the read.
NewRecord_Fault(h) ==    \* the stamp of a stat that follows the read
    LET v == IF disk[call.path] = Missing THEN call.stat ELSE disk[call.path]
    IN  [contentHash |-> h, mtime |-> Mtime[v], size |-> Size[v]]
NewRecord(h) ==
    [contentHash |-> h, mtime |-> Mtime[call.stat], size |-> Size[call.stat]]

StoreHash ==
    /\ call.step = "read"
    /\ \E h \in StreamHash :
          /\ hashCache' = [hashCache EXCEPT ![call.path] = NewRecord(h)]
          /\ hashes' = [hashes EXCEPT ![call.path] = NewRecord(h)]
          /\ Return(call.path, h, call.calm)
    /\ UNCHANGED files

(***************************************************************************)
(* The process ends, or dies inside a call, and open() runs again.  open   *)
(* builds a record for each row of the table and drops it.                 *)
(***************************************************************************)
Reopen ==
    /\ hashes' = [p \in Paths |-> NoRecord]
    /\ call' = Idle
    /\ UNCHANGED <<files, hashCache, answer>>

HashAssetAtPath(p) == HashMissing(p) \/ HashHit(p) \/ HashMiss(p)

CacheNext ==
    \/ \E p \in Paths : \/ RemoveFile(p)
                        \/ \E v \in Versions : Write(p, v)
                        \/ HashAssetAtPath(p)
    \/ OpenStream
    \/ StoreHash
    \/ Reopen

CacheSpec == CacheInit /\ [][CacheNext]_cacheVars

(***************************************************************************)
(* Properties                                                              *)
(***************************************************************************)
\* A record that the next stat would accept holds the hash of the content the
\* file has now, although the file may have changed at every step of the call
\* that made the record (hashAssetAtPath returns it without reading the file).
RecordsHonest ==
    \A p \in Paths : disk[p] # Missing /\ Cached(p)
                        => hashes[p].contentHash = disk[p]

\* The hash returned is that of the content at the return, unless the file
\* changed during the call: what the importer's comparisons rest on.
AnswerCorrect == answer.calm => answer.hash = answer.present

=============================================================================
