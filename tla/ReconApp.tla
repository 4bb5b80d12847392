------------------------------- MODULE ReconApp -------------------------------
(***************************************************************************)
(* The asset importer as a server (recon_app.cpp, recon_queue.h): one      *)
(* thread, the event loop, on which watch callbacks and messages of the    *)
(* editor append commands to a queue, and a hook before each poll runs the *)
(* queue empty and rewrites the manifest.  Meanwhile a user changes the    *)
(* source tree, and the process may die at any step.                       *)
(*                                                                         *)
(* Hashing is AssetDatabase's: the hash of a file is its present content   *)
(* (FileHashCache shows what that takes).  A build is a function of the    *)
(* content of the source and of the files it includes.  force reaches no   *)
(* import but that of a ReconImport message: the handler of ReconImportAll *)
(* drops it.  Commands of type Update and Delete are never enqueued.       *)
(* A .meta file lives and dies with its source, or is deleted by hand; the *)
(* .meta files of folders do not change.  The importer a .meta file names  *)
(* and its settings stay the same: only the source, its dependencies and   *)
(* its outputs make an asset dirty.                                        *)
(*                                                                         *)
(* The importer is the editor's: started with the path of the project's    *)
(* resources and in the editor's own working directory.  The names a watch *)
(* event carries are relative to the resources, so the watch callback's    *)
(* fileStat of one always fails, and a notification of kind Rename makes   *)
(* the server forget the file, be it gone, new or replaced.  What that and *)
(* the start without a watch make it miss is not left out: unnoticed       *)
(* names it, and the properties say what is true of everything else.       *)
(*                                                                         *)
(* Assumed names what is taken for granted about the world outside, so     *)
(* that a configuration can drop any of it:                                *)
(*   "quiet"    the user changes nothing while one import runs             *)
(*   "metas"    every source file comes with a .meta file                  *)
(*   "storage"  a finished output can be moved to the cache                *)
(*   "between"  the process does not die between updateSourceAsset and     *)
(*              beginAssetImport                                           *)
(*                                                                         *)
(* Operators named X_Fault are faulty variants of X that the mutation      *)
(* checks put in its place; no specification uses them.                    *)
(***************************************************************************)
EXTENDS AssetDatabase, SequencesExt

CONSTANTS
    Root,         \* the resources folder, a member of Paths
    Folders,      \* the paths that are folders, Root among them
    Parent,       \* the folder each other path is in
    Includes,     \* the files the build of a path reads besides it
    Silent,       \* the files whose importer produces no output ("ignore")
    Unmapped,     \* the files no importer is configured for
    ListOrder,    \* the order in which the source tree is enumerated
    Contents,     \* the contents a file may have
    Bad,          \* a content no importer accepts
    Absent,       \* no file
    Folder,       \* the content of a folder
    FirstMeta,    \* the .meta files there are at first, no two with one uuid
    NoUuid,       \* no .meta file
    NoManifest,   \* no manifest file
    Assumed,
    MaxChanges,   \* how often the user changes something
    MaxRequests,  \* how many messages the editor sends
    MaxCrashes,   \* how often the process dies
    MaxTogether   \* how many of all these there are

ASSUME RootAssumption == Root \in Folders /\ Folders \subseteq Paths
ASSUME ParentAssumption == Parent \in [Paths -> Folders]
ASSUME ListAssumption ==    \* the enumeration misses no path
    /\ ListOrder \in Seq(Paths)
    /\ \A p \in Paths \ {Root} : \E i \in DOMAIN ListOrder : ListOrder[i] = p
ASSUME ContentAssumption == Absent \notin Contents \cup {Bad, Folder}
ASSUME FiniteAssumption == IsFiniteSet(Uuids) /\ IsFiniteSet(Paths)
ASSUME IncludesAssumption == Includes \in [Paths -> SUBSET (Paths \ Folders)]
ASSUME MetaAssumption ==
    /\ NoUuid \notin Uuids
    /\ FirstMeta \in [Paths -> Uuids \cup {NoUuid}]
    /\ \A p, q \in Paths : FirstMeta[p] = FirstMeta[q]
                              => p = q \/ FirstMeta[p] = NoUuid

VARIABLES
    source,          \* the source tree: the content of each path
    meta,            \* the uuid in each path's .meta file
    cas,             \* the outputs present in .library/cache
    manifest,        \* manifest.txt
    events,          \* notifications the loop has not delivered
    queue,           \* ReconQueue::_queue
    pc,              \* where the loop's thread is
    job,             \* the import in progress
    manifestDirty,   \* ReconApp::_manifestDirty
    spent,           \* how much of each bound is used
    unnoticed,       \* history: the paths the server may have lost track of
    unwritten        \* history: whether the last write of the manifest failed

history == <<unnoticed, unwritten>>
tree == <<source, meta, history>>
program == <<pc, job, queue, manifestDirty>>
vars == <<tables, tree, cas, manifest, events, program, spent>>

\* Nothing happens more often than its bound, and all of it not too often.
Spend(what, most) ==
    /\ spent[what] < most
    /\ spent.changes + spent.requests + spent.crashes < MaxTogether
    /\ spent' = [spent EXCEPT ![what] = @ + 1]

NoJob == [uuid |-> NoUuid, path |-> Root, outputs |-> {}]

Files == Paths \ Folders
Importable == Paths \ Unmapped
\* The folders above each path: the least set with its folder and theirs.
Above ==
    [p \in Paths |->
        {a \in Paths :
            p # Root /\ \A S \in SUBSET Paths :
                (Parent[p] \in S /\ \A q \in S \ {Root} : Parent[q] \in S) => a \in S}]
Ancestors(p) == Above[p]
Under(p) == {q \in Paths : p \in Ancestors(q)} \ {p}
Importing == pc \in {"begin", "build", "store", "record"}

\* What a build of p produces from the contents c.
Read(p, c) == {<<q, c[q]>> : q \in Includes[p]}
Outputs(p, c) ==
    IF p \in Folders \cup Silent THEN {} ELSE {<<c[p], Read(p, c)>>}
Buildable(p) ==
    \A q \in {p} \cup Includes[p] : source[q] \notin {Bad, Absent}

Import(p) == [type |-> "Import", path |-> p]
ForceImport(p) == [type |-> "ForceImport", path |-> p]
Forget(p) == [type |-> "Forget", path |-> p]
ImportAll == [type |-> "ImportAll", path |-> Root]
Imports(us) ==    \* of the source assets us, in any one order
    LET s == SetToSeq(us) IN [i \in DOMAIN s |-> Import(sourceAssets[s[i]].path)]

(***************************************************************************)
(* Start and end                                                           *)
(***************************************************************************)
Init ==
    /\ DatabaseInit
    /\ source \in [Paths -> {Folder} \cup Contents]
    /\ \A p \in Paths : p \in Folders <=> source[p] = Folder
    /\ meta = FirstMeta
    /\ cas = {}
    /\ manifest = NoManifest
    /\ events = <<>>
    /\ queue = <<>>
    /\ pc = "down"
    /\ job = NoJob
    /\ manifestDirty = TRUE
    /\ spent = [changes |-> 0, requests |-> 0, crashes |-> 0]
    /\ unnoticed = {}
    /\ unwritten = FALSE

\* _collectSourceFiles and _collectMissingFiles, for the assets known when
\* they run.  What is there is listed in one order; to say so without naming
\* the sequence, CollectSources is the set of them, which has one member.
InOrder(there) ==
    {f \in [1 .. Cardinality(there) -> there] :
        \A i, j \in 1 .. Cardinality(there) : i < j => f[i] < f[j]}
CollectSources ==
    LET there == {i \in DOMAIN ListOrder : source[ListOrder[i]] # Absent}
    IN  {[k \in 1 .. Cardinality(there) |-> Import(ListOrder[f[k]])] : f \in InOrder(there)}
CollectMissing ==
    LET gone == SetToSeq({u \in Known : source[sourceAssets[u].path] = Absent})
    IN  [i \in DOMAIN gone |-> Forget(sourceAssets[gone[i]].path)]

\* run() up to _runServer: the database is opened, then the tree enumerated.
\* That finds whatever was missed, but the files that have lost their .meta and
\* those with the row of another uuid.
Start ==
    /\ pc = "down"
    /\ OpenDatabase
    /\ \E listed \in CollectSources : queue' = listed \o CollectMissing
    /\ events' = <<>>
    /\ manifestDirty' = TRUE
    /\ pc' = "starting"
    /\ unnoticed' = {p \in unnoticed : meta[p] = NoUuid \/ ~(UuidsOfPath(p) \subseteq {meta[p]})}
    /\ UNCHANGED <<source, meta, cas, manifest, job, spent, unwritten>>

\* The watch is created, and the editor told that the manifest is there.
StartWatch ==
    /\ pc = "starting"
    /\ pc' = "poll"
    /\ UNCHANGED <<tables, tree, cas, manifest, events, queue, job,
                   manifestDirty, spent>>

\* The process ends in any way: the editor kills it or disconnects, or it dies.
Crash ==
    /\ pc # "down"
    /\ "between" \in Assumed => pc # "begin"
    /\ Spend("crashes", MaxCrashes)
    /\ pc' = "down"
    /\ queue' = <<>>
    /\ events' = <<>>
    /\ job' = NoJob
    /\ UNCHANGED <<tables, tree, cas, manifest, manifestDirty>>

(***************************************************************************)
(* The user                                                                *)
(***************************************************************************)
Watching == pc \notin {"down", "starting"}
Notify(es) == events' = IF Watching THEN events \o es ELSE events

\* A change of a .meta file enqueues an import of its source, by either of two
\* routes: an Import, or a Forget that strips the extension.
Changed(p) == [kind |-> "Change", path |-> p]
Renamed(p) == [kind |-> "Rename", path |-> p]
MetaChanged(p) == [kind |-> "Meta", path |-> p]

UserMay ==
    /\ Spend("changes", MaxChanges)
    /\ "quiet" \in Assumed => ~Importing
    /\ UNCHANGED <<tables, cas, manifest, program, unwritten>>

UnusedUuid(u) ==
    /\ sourceAssets[u] = NoRow
    /\ importedAssets[u] = {} /\ importDependencies[u] = {}
    /\ \A p \in Paths : meta[p] # u

Edit(p, c) ==
    /\ UserMay
    /\ source[p] \notin {Absent, c}
    /\ source' = [source EXCEPT ![p] = c]
    /\ Notify(<<Changed(p)>>)
    /\ UNCHANGED <<meta, unnoticed>>

\* A program saves by renaming a finished file over the old one, and the server
\* forgets the file that is there.
Replace(p, c) ==
    /\ UserMay
    /\ source[p] \notin {Absent, c}
    /\ source' = [source EXCEPT ![p] = c]
    /\ Notify(<<Renamed(p)>>)
    /\ unnoticed' = IF Watching THEN unnoticed \cup {p} ELSE unnoticed
    /\ UNCHANGED meta

\* A file moved in is told of by one notification, a Rename; one that is written
\* where it stands by a Change after it.
Create(p, c) ==
    /\ UserMay
    /\ source[p] = Absent
    /\ source[Parent[p]] # Absent
    /\ source' = [source EXCEPT ![p] = c]
    /\ unnoticed' = unnoticed \cup {p}
    /\ \E told \in {<<Renamed(p)>>, <<Renamed(p), Changed(p)>>} :
          \/ /\ meta[p] # NoUuid \/ "metas" \notin Assumed
             /\ UNCHANGED meta
             /\ Notify(told)
          \/ /\ meta[p] = NoUuid
             /\ \E u \in Uuids : UnusedUuid(u) /\ meta' = [meta EXCEPT ![p] = u]
             /\ Notify(Append(told, MetaChanged(p)))

\* Of a deleted folder's content there is no notification, and of nothing that
\* goes between the enumeration and the creation of the watch.
Delete(p) ==
    /\ UserMay
    /\ p # Root
    /\ source[p] # Absent
    /\ source' = [q \in Paths |-> IF q \in {p} \cup Under(p) THEN Absent
                                                             ELSE source[q]]
    /\ meta' = [q \in Paths |-> IF q \in Under(p) \/ (q = p /\ p \in Folders)
                                THEN NoUuid ELSE meta[q]]
    /\ unnoticed' = IF pc = "starting" THEN unnoticed \cup {p} \cup Under(p)
                                       ELSE unnoticed
    /\ Notify(<<Renamed(p)>>)

DeleteMeta(p) ==
    /\ UserMay
    /\ "metas" \notin Assumed
    /\ meta[p] # NoUuid
    /\ meta' = [meta EXCEPT ![p] = NoUuid]
    /\ Notify(<<MetaChanged(p)>>)
    /\ UNCHANGED <<source, unnoticed>>

User ==
    \E p \in Files : \/ \E c \in Contents \cup {Bad} :
                           Edit(p, c) \/ Replace(p, c) \/ Create(p, c)
                     \/ DeleteMeta(p)
UserDelete == \E p \in Paths : Delete(p)

(***************************************************************************)
(* The loop: callbacks                                                     *)
(***************************************************************************)
\* The watch callback.  Whether the file of a Rename is there it asks of the
\* name it was given, which is no file's in the working directory.
WatchCommand_Fault(e) ==    \* forgets what has changed
    IF e.kind = "Meta" THEN Import(e.path) ELSE Forget(e.path)
WatchCommand(e) ==
    IF e.kind = "Rename" THEN Forget(e.path) ELSE Import(e.path)

WatchCallback ==
    /\ pc = "poll"
    /\ events # <<>>
    /\ queue' = Append(queue, WatchCommand(Head(events)))
    /\ events' = Tail(events)
    /\ UNCHANGED <<tables, tree, cas, manifest, pc, job, manifestDirty, spent>>

Request(c) ==
    /\ pc = "poll"
    /\ Spend("requests", MaxRequests)
    /\ queue' = Append(queue, c)
    /\ UNCHANGED <<tables, tree, cas, manifest, events, pc, job, manifestDirty>>

\* A ReconImport message carries a uuid, and the command made from it no
\* filename: what it imports is the folder of all resources.
OnReconImport == Request(Import(Root)) \/ Request(ForceImport(Root))
OnReconImportAll == Request(ImportAll)

\* The prepare hook, before the loop waits.
Prepare ==
    /\ pc = "poll"
    /\ queue # <<>> \/ manifestDirty
    /\ pc' = "process"
    /\ UNCHANGED <<tables, tree, cas, manifest, events, queue, job,
                   manifestDirty, spent>>

\* The queue is empty: the manifest is rewritten if an asset has changed.  A
\* write that fails is logged; the mark is gone all the same.
QueueEmpty ==
    /\ pc = "process"
    /\ queue = <<>>
    /\ pc' = "poll"
    /\ manifestDirty' = FALSE
    /\ \/ manifestDirty /\ manifest' = Manifest /\ unwritten' = FALSE
       \/ manifestDirty /\ UNCHANGED manifest /\ unwritten' = TRUE
       \/ ~manifestDirty /\ UNCHANGED <<manifest, unwritten>>
    /\ UNCHANGED <<tables, source, meta, unnoticed, cas, events, queue, job, spent>>

(***************************************************************************)
(* The loop: commands                                                      *)
(***************************************************************************)
Command(types) ==
    /\ pc = "process"
    /\ queue # <<>>
    /\ Head(queue).type \in types

ProcessImportAll ==
    /\ Command({"ImportAll"})
    /\ \E listed \in CollectSources : queue' = Tail(queue) \o listed \o CollectMissing
    /\ UNCHANGED <<tables, tree, cas, manifest, events, pc, job, manifestDirty,
                   spent>>

\* A file that is gone, or that no importer is configured for.
ImportNothing ==
    /\ Command({"Import", "ForceImport"})
    /\ LET p == Head(queue).path IN source[p] = Absent \/ p \notin Importable
    /\ queue' = Tail(queue)
    /\ UNCHANGED <<tables, tree, cas, manifest, events, pc, job, manifestDirty,
                   spent>>

\* The uuid of the .meta file, or a new one each time there is none.
UuidFor(p) == IF meta[p] # NoUuid THEN {meta[p]} ELSE {u \in Uuids : UnusedUuid(u)}

MarkManifest_Fault(changed) == UNCHANGED manifestDirty
MarkManifest(changed) == manifestDirty' = (manifestDirty \/ changed)

DependenciesDirty_Fault(u) == FALSE
DependenciesDirty(u) ==
    \E d \in importDependencies[u] : source[d[1]] # d[2]
OutputsDirty(u) == ~(importedAssets[u] \subseteq cas)

Dirty(p, u) ==
    \/ ~IsSourceAssetUpToDate(u, source[p])
    \/ meta[p] = NoUuid
    \/ DependenciesDirty(u)
    \/ OutputsDirty(u)

\* _importFile up to the verdict.  The dependents are enqueued and the asset's
\* row has its new hash whatever the verdict is.
CheckFile(p, u) ==
    /\ source[p] # Absent
    /\ p \in Importable
    /\ queue' = Tail(queue) \o Imports(DirtiedBy(p, source[p]))
    /\ UpdateSourceAsset(u, p, source[p])

ImportUpToDate ==
    /\ Command({"Import"})
    /\ LET p == Head(queue).path
       IN  \E u \in UuidFor(p) : CheckFile(p, u) /\ ~Dirty(p, u)
    /\ UNCHANGED <<importedAssets, importDependencies, tree, cas, manifest,
                   events, pc, job, manifestDirty, spent>>

ImportDirty ==
    /\ Command({"Import", "ForceImport"})
    /\ LET p == Head(queue).path
       IN  \E u \in UuidFor(p) :
              /\ CheckFile(p, u)
              /\ Dirty(p, u) \/ Head(queue).type = "ForceImport"
              /\ job' = [uuid |-> u, path |-> p, outputs |-> {}]
    /\ MarkManifest(TRUE)
    /\ pc' = "begin"
    /\ UNCHANGED <<importedAssets, importDependencies, tree, cas, manifest,
                   events, spent>>

BeginImport ==
    /\ pc = "begin"
    /\ BeginAssetImport(job.uuid)
    /\ pc' = "build"
    /\ UNCHANGED <<tree, cas, manifest, events, job, queue, manifestDirty, spent>>

BuildSucceeds ==
    /\ pc = "build"
    /\ Buildable(job.path)
    /\ job' = [job EXCEPT !.outputs = Outputs(job.path, source)]
    /\ pc' = "store"
    /\ UNCHANGED <<tables, tree, cas, manifest, events, queue, manifestDirty, spent>>

BuildFails ==
    /\ pc = "build"
    /\ ~Buildable(job.path)
    /\ FailAssetImport(job.uuid)
    /\ job' = NoJob
    /\ pc' = "process"
    /\ UNCHANGED <<tree, cas, manifest, events, queue, manifestDirty, spent>>

\* A move that fails is logged and the output recorded all the same.
StoreOutputs ==
    /\ pc = "store"
    /\ \/ cas' = cas \cup job.outputs
       \/ "storage" \notin Assumed /\ UNCHANGED cas
    /\ pc' = "record"
    /\ UNCHANGED <<tables, tree, manifest, events, job, queue, manifestDirty, spent>>

\* The dependencies are hashed now, after the build that read them.
RecordImport ==
    /\ pc = "record"
    /\ RecordAssetImport(job.uuid, job.outputs, Read(job.path, source))
    /\ job' = NoJob
    /\ pc' = "process"
    /\ UNCHANGED <<tree, cas, manifest, events, queue, manifestDirty, spent>>

\* _forgetFile removes one row with the path, and the .meta file beside it;
\* of a folder every asset under it is forgotten too, row by row.
Children(p) == UNION {UuidsOfPath(q) : q \in Under(p)}

ForgetFile ==
    /\ Command({"Forget"})
    /\ LET p == Head(queue).path
           here == UuidsOfPath(p)
       IN  \E one \in {{u} : u \in here} \cup (IF here = {} THEN {{}} ELSE {}) :
              LET gone == one \cup Children(p)
                  metas == {q \in Files : /\ meta[q] # NoUuid
                                          /\ \E u \in gone : sourceAssets[u].path = q}
              IN  /\ RemoveSourceAssets(gone)
                  /\ MarkManifest(gone # {})
                  /\ meta' = [q \in Paths |-> IF q \in metas THEN NoUuid ELSE meta[q]]
                  /\ LET s == SetToSeq(metas)
                     IN  Notify([i \in DOMAIN s |-> MetaChanged(s[i])])
    /\ queue' = Tail(queue)
    /\ UNCHANGED <<source, history, cas, manifest, pc, job, spent>>

Process ==
    \/ ProcessImportAll \/ ImportNothing \/ ImportUpToDate \/ ImportDirty
    \/ BeginImport \/ BuildSucceeds \/ BuildFails \/ StoreOutputs
    \/ RecordImport \/ ForgetFile \/ QueueEmpty

Server == StartWatch \/ WatchCallback \/ Prepare \/ Process

Next ==
    \/ Start \/ Server \/ Crash
    \/ User \/ UserDelete
    \/ OnReconImport \/ OnReconImportAll

Spec == Init /\ [][Next]_vars

\* The event loop of a process that lives delivers what is pending and runs the
\* queue.  Only a project that is opened starts one (ReconClient::start): nobody
\* is bound to start a server that is gone, nor to change files.
FairSpec == Spec /\ WF_vars(Server)

(***************************************************************************)
(* Properties                                                              *)
(***************************************************************************)
Hash == Contents \cup {Bad, Absent, Folder}
Row == [path : Paths, hash : Hash,
        status : {"NEW", "PENDING", "IMPORTED", "FAILED"}]
ASSUME RowAssumption == NoRow \notin Row
Blob == Hash \X SUBSET (Paths \X Hash)
Job == [uuid : Uuids, path : Paths, outputs : SUBSET Blob]

TypeOK ==
    /\ sourceAssets \in [Uuids -> Row \cup {NoRow}]
    /\ importedAssets \in [Uuids -> SUBSET Blob]
    /\ importDependencies \in [Uuids -> SUBSET (Paths \X Hash)]
    /\ source \in [Paths -> Hash]
    /\ meta \in [Paths -> Uuids \cup {NoUuid}]
    /\ pc \in {"down", "starting", "poll", "process", "begin", "build", "store",
               "record"}
    /\ IF Importing THEN job \in Job ELSE job = NoJob
    /\ manifestDirty \in BOOLEAN
    /\ unnoticed \in SUBSET Paths /\ unwritten \in BOOLEAN

\* What the database calls imported was built from what it says was read: for
\* every asset with status IMPORTED the outputs are those of a build from the
\* recorded source hash and the recorded dependency hashes, whatever steps,
\* failures and crashes came between.  On this rests every "up-to-date".
Honest(u) ==
    importedAssets[u] = IF sourceAssets[u].path \in Folders \cup Silent THEN {}
                        ELSE {<<sourceAssets[u].hash, importDependencies[u]>>}
DatabaseHonest ==
    \A u \in Known : (sourceAssets[u].status = "IMPORTED" /\ pc # "begin")
                        => Honest(u)

\* A command about to find its file up to date leaves outputs in the cache
\* that are the build of the present source tree (_importFile's early return).
SkipsAreSound ==
    Command({"Import"}) =>
        LET p == Head(queue).path IN
        (p \in Importable /\ source[p] # Absent /\ meta[p] # NoUuid /\ ~Dirty(p, meta[p])) =>
            importedAssets[meta[p]] = Outputs(p, source) \cap cas

\* The loop has nothing left to do.
Settled == pc = "poll" /\ events = <<>> /\ queue = <<>> /\ ~manifestDirty

\* When the server has nothing left to do it has noticed every change: each
\* source file with an importer has a row with its path and present hash, and
\* no row is left of a path that is gone.  Excepted is only what is unnoticed:
\* a file created or replaced since the server started, and what was deleted
\* while it was starting.
Tracked ==
    Settled =>
        /\ \A p \in Importable \ ({Root} \cup unnoticed) : source[p] # Absent =>
             LET u == meta[p] IN
             /\ u \in Known
             /\ sourceAssets[u].path = p /\ sourceAssets[u].hash = source[p]
        /\ \A u \in Known : LET p == sourceAssets[u].path IN
             p \notin unnoticed => source[p] # Absent

\* ... what is imported is the build of the present tree, also of an asset that
\* has not changed itself.  An asset whose include is gone is excepted:
\* forgetting a file enqueues none of its dependents, which keep their outputs
\* until their own next import; and so is one that includes what is unnoticed.
Built ==
    Settled => \A u \in Known :
        LET p == sourceAssets[u].path IN
        (/\ sourceAssets[u].status = "IMPORTED" /\ meta[p] = u
         /\ \A q \in Includes[p] : source[q] # Absent
         /\ ({p} \cup Includes[p]) \cap unnoticed = {})
            => importedAssets[u] = Outputs(p, source)

\* The manifest file lists exactly the database's assets and outputs whenever
\* nothing is marked dirty (manifest.txt is what the editor loads), unless the
\* last attempt to write it has failed.
ManifestCurrent == ~manifestDirty /\ ~unwritten => manifest = Manifest

\* A .meta file is removed only of a file that is gone, or that was created or
\* replaced since the server started: a file that is only edited, with whatever
\* around it is deleted, keeps its identity.
ForgetsOnlyDeleted ==
    [][\A p \in Files : (ForgetFile /\ meta'[p] # meta[p])
                            => source[p] = Absent \/ p \in unnoticed]_vars

\* An import the process did not finish does not count as done after a restart.
LeftOversFailed ==
    [][Start => DatabaseHonest']_vars

\* Once nobody disturbs it for a while a server that lives has nothing left to
\* do: no import enqueues imports for ever, and a start finds its way through.
\* (A file that has lost its .meta takes a new uuid at each import; where the
\* bound Uuids leaves none, the model ends.)
Exhausted == \A u \in Uuids : ~UnusedUuid(u)
SettlesAgain == []<>(Settled \/ pc = "down" \/ Exhausted)

=============================================================================
