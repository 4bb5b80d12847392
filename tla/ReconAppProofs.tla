---------------------------- MODULE ReconAppProofs ----------------------------
(***************************************************************************)
(* Theorems of ReconApp, for every source tree, every Assumed that a       *)
(* theorem does not restrict, and every bound.                             *)
(*                                                                         *)
(* DatabaseHonest is not inductive: whether an import that is recorded is  *)
(* honest depends on its row still being that of the file it was built     *)
(* from.  JobInv says so, from the check of a file to the end of its       *)
(* import, and MetaInv keeps two files from sharing a row meanwhile.       *)
(*                                                                         *)
(* Tracked and Built speak of the server at rest.  What is true all along  *)
(* is that what is not yet so is in one of the two lines: NoticedInv of a  *)
(* file whose row is not up to date, MissedInv of a row whose file is      *)
(* gone, DepsInv of an asset whose build has read another content.  With   *)
(* empty lines nothing is left.  A command taken from the queue is the     *)
(* delicate step, and that a Forget is only of what is gone or unnoticed   *)
(* (ForgetInv).  What is unnoticed is out of all of them, until a start    *)
(* puts it in line again.                                                  *)
(***************************************************************************)
EXTENDS ReconApp, FiniteSetTheorems, SequenceTheorems, TLAPS

\* No two files have one uuid, and the row of a file's uuid has its path.
MetaInv ==
    /\ \A p, q \in Paths : meta[p] = meta[q] => p = q \/ meta[p] = NoUuid
    /\ \A p \in Paths : meta[p] \in Known => sourceAssets[meta[p]].path = p

\* The import in progress is of the content its row has.
JobInv ==
    /\ (Importing /\ job.uuid \in Known) =>
          /\ sourceAssets[job.uuid].path = job.path
          /\ sourceAssets[job.uuid].hash = source[job.path]
    /\ pc \in {"store", "record"} => job.outputs = Outputs(job.path, source)

\* An honest row that has a hash of each file its build reads.
Complete(u) ==
    /\ Honest(u)
    /\ \E c \in [Paths -> Hash] : importDependencies[u] = Read(sourceAssets[u].path, c)

\* DatabaseHonest, and honest also while another asset's import begins.
HonestInv ==
    \A u \in Known :
        (sourceAssets[u].status = "IMPORTED" /\ ~(pc = "begin" /\ job.uuid = u))
            => Complete(u)

\* The manifest is marked before the tables change.
ManifestInv ==
    /\ Importing => manifestDirty
    /\ ~manifestDirty /\ ~unwritten => manifest = Manifest

-----------------------------------------------------------------------------
(***************************************************************************)
(* Types                                                                   *)
(***************************************************************************)
\* What an import reads of a typed tree is typed (HlslImporter, CopyImporter).
LEMMA ReadType ==
    ASSUME NEW p \in Paths, TypeOK
    PROVE  /\ Read(p, source) \in SUBSET (Paths \X Hash)
           /\ Outputs(p, source) \in SUBSET Blob
<1>1. Read(p, source) \in SUBSET (Paths \X Hash)
  <2>1. \A q \in Includes[p] : q \in Paths /\ source[q] \in Hash
    BY IncludesAssumption DEF TypeOK
  <2> QED BY <2>1 DEF Read
<1>2. source[p] \in Hash
  BY DEF TypeOK
<1>3. <<source[p], Read(p, source)>> \in Blob
  BY <1>1, <1>2 DEF Blob
<1> QED BY <1>1, <1>3 DEF Outputs

\* The statements on source_assets keep its type (AssetDatabase).
LEMMA StatementTypes ==
    ASSUME TypeOK, NEW u \in Uuids
    PROVE  /\ \A s \in {"NEW", "PENDING", "IMPORTED", "FAILED"} :
                 SetStatus(u, s) => sourceAssets' \in [Uuids -> Row \cup {NoRow}]
           /\ \A p \in Paths : UpdateSourceAsset(u, p, source[p])
                 => sourceAssets' \in [Uuids -> Row \cup {NoRow}]
<1>1. ASSUME NEW s \in {"NEW", "PENDING", "IMPORTED", "FAILED"}, SetStatus(u, s)
      PROVE  sourceAssets' \in [Uuids -> Row \cup {NoRow}]
  <2>1. CASE u \in Known
    <3>1. sourceAssets[u] \in Row
      BY <2>1 DEF Known, TypeOK
    <3>2. [sourceAssets[u] EXCEPT !.status = s] \in Row
      BY <3>1 DEF Row
    <3> QED BY <1>1, <2>1, <3>2 DEF SetStatus, TypeOK
  <2>2. CASE u \notin Known
    BY <1>1, <2>2 DEF SetStatus, TypeOK
  <2> QED BY <2>1, <2>2
<1>2. ASSUME NEW p \in Paths, UpdateSourceAsset(u, p, source[p])
      PROVE  sourceAssets' \in [Uuids -> Row \cup {NoRow}]
  <2>1. source[p] \in Hash
    BY DEF TypeOK
  <2>2. u \in Known => sourceAssets[u].status \in {"NEW", "PENDING", "IMPORTED", "FAILED"}
    <3>1. u \in Known => sourceAssets[u] \in Row
      BY DEF Known, TypeOK
    <3> QED BY <3>1 DEF Row
  <2>3. [path |-> p, hash |-> source[p],
         status |-> IF u \in Known THEN sourceAssets[u].status ELSE "NEW"] \in Row
    BY <2>1, <2>2 DEF Row
  <2> QED BY <1>2, <2>3 DEF UpdateSourceAsset, TypeOK
<1> QED BY <1>1, <1>2

\* The uuid an import chooses is one.
LEMMA UuidForType ==
    ASSUME TypeOK, NEW p \in Paths, NEW u \in UuidFor(p)
    PROVE  u \in Uuids
BY DEF UuidFor, TypeOK

\* Every variable keeps its type through every action of the server and of the
\* user (recon_app.cpp).
THEOREM TypeCorrect == Spec => []TypeOK
<1>1. Init => TypeOK
  <2> SUFFICES ASSUME Init PROVE TypeOK
    OBVIOUS
  <2>1. source \in [Paths -> Hash]
    BY DEF Init, Hash
  <2>2. meta \in [Paths -> Uuids \cup {NoUuid}]
    BY MetaAssumption DEF Init
  <2> QED BY <2>1, <2>2 DEF Init, DatabaseInit, TypeOK, Importing
<1>2. TypeOK /\ [Next]_vars => TypeOK'
  <2> SUFFICES ASSUME TypeOK, [Next]_vars PROVE TypeOK'
    OBVIOUS
  <2> USE DEF Importing
  <2>1. ASSUME Start PROVE TypeOK'
    <3>1. sourceAssets' \in [Uuids -> Row \cup {NoRow}]
      <4>1. \A u \in Known : [sourceAssets[u] EXCEPT !.status = "FAILED"] \in Row
        BY DEF TypeOK, Known, Row
      <4> QED BY <2>1, <4>1 DEF Start, OpenDatabase, TypeOK
    <3>2. unnoticed' \in SUBSET Paths
      BY <2>1 DEF Start, TypeOK
    <3> QED BY <2>1, <3>1, <3>2 DEF Start, OpenDatabase, TypeOK
  <2>2. ASSUME StartWatch PROVE TypeOK'
    BY <2>2 DEF StartWatch, TypeOK, tables, tree, history
  <2>3. ASSUME WatchCallback PROVE TypeOK'
    BY <2>3 DEF WatchCallback, TypeOK, tables, tree, history
  <2>4. ASSUME Prepare PROVE TypeOK'
    BY <2>4 DEF Prepare, TypeOK, tables, tree, history
  <2>5. ASSUME ProcessImportAll PROVE TypeOK'
    BY <2>5 DEF ProcessImportAll, Command, TypeOK, tables, tree, history
  <2>6. ASSUME ImportNothing PROVE TypeOK'
    BY <2>6 DEF ImportNothing, Command, TypeOK, tables, tree, history
  <2>7. ASSUME ImportUpToDate PROVE TypeOK'
    <3> DEFINE p == Head(queue).path
    <3>1. PICK u \in UuidFor(p) : CheckFile(p, u)
      BY <2>7 DEF ImportUpToDate
    <3>2. p \in Paths
      BY <3>1 DEF CheckFile, Importable
    <3>3. sourceAssets' \in [Uuids -> Row \cup {NoRow}]
      BY <3>1, <3>2, UuidForType, StatementTypes DEF CheckFile
    <3> QED BY <2>7, <3>3 DEF ImportUpToDate, Command, TypeOK, tree, history
  <2>8. ASSUME ImportDirty PROVE TypeOK'
    <3> DEFINE p == Head(queue).path
    <3>1. PICK u \in UuidFor(p) :
             CheckFile(p, u) /\ job' = [uuid |-> u, path |-> p, outputs |-> {}]
      BY <2>8 DEF ImportDirty
    <3>2. p \in Paths
      BY <3>1 DEF CheckFile, Importable
    <3>3. u \in Uuids
      BY <3>2, UuidForType
    <3>4. sourceAssets' \in [Uuids -> Row \cup {NoRow}]
      BY <3>1, <3>2, <3>3, StatementTypes DEF CheckFile
    <3>5. job' \in Job
      BY <3>1, <3>2, <3>3 DEF Job
    <3> QED BY <2>8, <3>4, <3>5 DEF ImportDirty, MarkManifest, TypeOK, tree, history
  <2>9. ASSUME BeginImport PROVE TypeOK'
    <3>1. job.uuid \in Uuids
      BY <2>9 DEF BeginImport, TypeOK, Job
    <3>2. sourceAssets' \in [Uuids -> Row \cup {NoRow}]
      BY <2>9, <3>1, StatementTypes DEF BeginImport, BeginAssetImport
    <3> QED BY <2>9, <3>2 DEF BeginImport, BeginAssetImport, TypeOK, tree, history
  <2>10. ASSUME BuildSucceeds PROVE TypeOK'
    <3>1. job \in Job /\ job.path \in Paths
      BY <2>10 DEF BuildSucceeds, TypeOK, Job
    <3>2. job' \in Job
      BY <2>10, <3>1, ReadType DEF BuildSucceeds, Job
    <3> QED BY <2>10, <3>2 DEF BuildSucceeds, TypeOK, tables, tree, history
  <2>11. ASSUME BuildFails PROVE TypeOK'
    <3>1. job.uuid \in Uuids
      BY <2>11 DEF BuildFails, TypeOK, Job
    <3>2. sourceAssets' \in [Uuids -> Row \cup {NoRow}]
      BY <2>11, <3>1, StatementTypes DEF BuildFails, FailAssetImport
    <3> QED BY <2>11, <3>2 DEF BuildFails, FailAssetImport, TypeOK, tree, history
  <2>12. ASSUME StoreOutputs PROVE TypeOK'
    BY <2>12 DEF StoreOutputs, TypeOK, tables, tree, history
  <2>13. ASSUME RecordImport PROVE TypeOK'
    <3>1. job \in Job /\ job.uuid \in Uuids /\ job.path \in Paths
      BY <2>13 DEF RecordImport, TypeOK, Job
    <3>2. sourceAssets' \in [Uuids -> Row \cup {NoRow}]
      BY <2>13, <3>1, StatementTypes DEF RecordImport, RecordAssetImport
    <3>3. job.outputs \in SUBSET Blob
      BY <3>1 DEF Job
    <3> QED BY <2>13, <3>1, <3>2, <3>3, ReadType
            DEF RecordImport, RecordAssetImport, TypeOK, tree, history
  <2>14. ASSUME ForgetFile PROVE TypeOK'
    <3>1. sourceAssets' \in [Uuids -> Row \cup {NoRow}]
      BY <2>14 DEF ForgetFile, RemoveSourceAssets, TypeOK
    <3>2. meta' \in [Paths -> Uuids \cup {NoUuid}]
      BY <2>14 DEF ForgetFile, TypeOK
    <3>3. /\ UNCHANGED <<importedAssets, importDependencies, source, pc, job>>
          /\ UNCHANGED <<unnoticed, unwritten>>
          /\ pc = "process"
      BY <2>14 DEF ForgetFile, RemoveSourceAssets, Command, history
    <3>4. manifestDirty' \in BOOLEAN
      BY <2>14 DEF ForgetFile, MarkManifest, TypeOK
    <3> QED BY <3>1, <3>2, <3>3, <3>4 DEF TypeOK
  <2>15. ASSUME QueueEmpty PROVE TypeOK'
    BY <2>15 DEF QueueEmpty, TypeOK, tables, tree, history
  <2>16. ASSUME Crash PROVE TypeOK'
    BY <2>16 DEF Crash, TypeOK, tables, tree, history
  <2>17. ASSUME User \/ UserDelete PROVE TypeOK'
    <3>1. UNCHANGED <<tables, program>>
      BY <2>17 DEF User, UserDelete, Edit, Replace, Create, DeleteMeta, Delete, UserMay
    <3>2. source' \in [Paths -> Hash]
      BY <2>17 DEF User, UserDelete, Edit, Replace, Create, DeleteMeta, Delete, TypeOK,
                   Hash
    <3>3. meta' \in [Paths -> Uuids \cup {NoUuid}]
      <4>1. ASSUME NEW p, NEW c, Edit(p, c) \/ Replace(p, c) \/ Create(p, c)
            PROVE  meta' \in [Paths -> Uuids \cup {NoUuid}]
        BY <4>1 DEF Edit, Replace, Create, TypeOK
      <4>2. ASSUME NEW p, DeleteMeta(p) \/ Delete(p)
            PROVE  meta' \in [Paths -> Uuids \cup {NoUuid}]
        BY <4>2 DEF DeleteMeta, Delete, TypeOK
      <4> QED BY <2>17, <4>1, <4>2 DEF User, UserDelete
    <3>4. unnoticed' \in SUBSET Paths /\ UNCHANGED unwritten
      BY <2>17 DEF User, UserDelete, Edit, Replace, Create, DeleteMeta, Delete, UserMay, TypeOK,
                   Files, Under
    <3> QED BY <3>1, <3>2, <3>3, <3>4 DEF TypeOK, tables, program
  <2>18. ASSUME OnReconImport \/ OnReconImportAll PROVE TypeOK'
    BY <2>18 DEF OnReconImport, OnReconImportAll, Request, TypeOK, tables, tree, history
  <2>19. ASSUME UNCHANGED vars PROVE TypeOK'
    BY <2>19 DEF vars, tables, tree, history, program, TypeOK
  <2> QED BY <2>1, <2>2, <2>3, <2>4, <2>5, <2>6, <2>7, <2>8, <2>9, <2>10, <2>11, <2>12,
             <2>13, <2>14, <2>15, <2>16, <2>17, <2>18, <2>19
          DEF Next, Server, Process
<1> QED BY <1>1, <1>2, PTL DEF Spec

-----------------------------------------------------------------------------
(***************************************************************************)
(* Identity                                                                *)
(***************************************************************************)
\* What only loses rows and .meta files keeps every identity.
LEMMA MetaKept ==
    ASSUME MetaInv,
           \A u \in Known' : u \in Known /\ sourceAssets'[u].path = sourceAssets[u].path,
           \A p \in Paths : meta'[p] = meta[p] \/ meta'[p] = NoUuid
    PROVE  MetaInv'
<1>1. NoUuid \notin Known'
  BY MetaAssumption DEF Known
<1> QED BY <1>1 DEF MetaInv

\* The rows after a statement on one known row's status.
LEMMA SetStatusRows ==
    ASSUME TypeOK, NEW u, NEW s, SetStatus(u, s)
    PROVE  \A w \in Known' : /\ w \in Known
                             /\ sourceAssets'[w].path = sourceAssets[w].path
                             /\ sourceAssets'[w].hash = sourceAssets[w].hash
                             /\ w # u => sourceAssets'[w] = sourceAssets[w]
                             /\ w = u => sourceAssets'[w].status = s
<1>1. CASE u \in Known
  <2>1. sourceAssets[u] \in Row
    BY <1>1 DEF Known, TypeOK
  <2> QED BY <1>1, <2>1 DEF SetStatus, Known, TypeOK, Row
<1>2. CASE u \notin Known
  BY <1>2 DEF SetStatus, Known
<1> QED BY <1>1, <1>2

\* The rows after open().
LEMMA OpenRows ==
    ASSUME TypeOK, OpenDatabase
    PROVE  \A w \in Known' : /\ w \in Known
                             /\ sourceAssets'[w].path = sourceAssets[w].path
                             /\ sourceAssets'[w].status = "IMPORTED"
                                   => sourceAssets'[w] = sourceAssets[w]
<1>1. \A w \in Known : sourceAssets[w] \in Row
  BY DEF Known, TypeOK
<1> QED BY <1>1 DEF OpenDatabase, Known, TypeOK, Row

\* The file that is checked has its uuid for itself, and its row its path.
LEMMA CheckedIdentity ==
    ASSUME TypeOK, MetaInv, NEW p \in Paths, NEW u \in UuidFor(p)
    PROVE  /\ u \in Uuids
           /\ \A q \in Paths : meta[q] = u => q = p
           /\ u \in Known => meta[p] = u /\ sourceAssets[u].path = p
<1>1. CASE meta[p] # NoUuid
  <2>1. u = meta[p]
    BY <1>1 DEF UuidFor
  <2> QED BY <1>1, <2>1 DEF MetaInv, TypeOK
<1>2. CASE meta[p] = NoUuid
  <2>1. u \in Uuids /\ UnusedUuid(u)
    BY <1>2 DEF UuidFor
  <2> QED BY <2>1 DEF UnusedUuid, Known
<1> QED BY <1>1, <1>2

\* The rows after the check of a file.
LEMMA CheckedRows ==
    ASSUME TypeOK, NEW p \in Paths, NEW u \in Uuids, CheckFile(p, u)
    PROVE  /\ sourceAssets'[u].path = p /\ sourceAssets'[u].hash = source[p]
           /\ \A w \in Known' : w # u => w \in Known /\ sourceAssets'[w] = sourceAssets[w]
BY DEF CheckFile, UpdateSourceAsset, TypeOK, Known

\* A step that takes a file's import this far keeps identities.
LEMMA CheckKeepsMeta ==
    ASSUME TypeOK, MetaInv, NEW p \in Paths, NEW u \in UuidFor(p), CheckFile(p, u),
           UNCHANGED meta
    PROVE  MetaInv'
<1>1. /\ u \in Uuids
      /\ \A q \in Paths : meta[q] = u => q = p
  BY CheckedIdentity
<1>2. /\ sourceAssets'[u].path = p
      /\ \A w \in Known' : w # u => w \in Known /\ sourceAssets'[w] = sourceAssets[w]
  BY <1>1, CheckedRows
<1> QED BY <1>1, <1>2 DEF MetaInv

\* No two source files share an identity, and the database has the file's
\* present path under it (_importFile, _forgetFile, the .meta files).
THEOREM Identity == Spec => []MetaInv
<1>1. Init => MetaInv
  <2> SUFFICES ASSUME Init PROVE MetaInv
    OBVIOUS
  <2>1. Known = {}
    BY DEF Init, DatabaseInit, Known
  <2> QED BY <2>1, MetaAssumption DEF Init, MetaInv
<1>2. TypeOK /\ MetaInv /\ [Next]_vars => MetaInv'
  <2> SUFFICES ASSUME TypeOK, MetaInv, [Next]_vars PROVE MetaInv'
    OBVIOUS
  <2>1. ASSUME UNCHANGED <<sourceAssets, meta>> PROVE MetaInv'
    BY <2>1 DEF MetaInv, Known
  <2>2. ASSUME Start PROVE MetaInv'
    BY <2>2, OpenRows, MetaKept DEF Start, tree
  <2>3. ASSUME StartWatch \/ WatchCallback \/ Prepare \/ QueueEmpty PROVE MetaInv'
    BY <2>3, <2>1 DEF StartWatch, WatchCallback, Prepare, QueueEmpty, tables, tree
  <2>4. ASSUME ProcessImportAll \/ ImportNothing PROVE MetaInv'
    BY <2>4, <2>1 DEF ProcessImportAll, ImportNothing, tables, tree
  <2>5. ASSUME ImportUpToDate \/ ImportDirty PROVE MetaInv'
    <3> DEFINE p == Head(queue).path
    <3>1. PICK u \in UuidFor(p) : CheckFile(p, u)
      BY <2>5 DEF ImportUpToDate, ImportDirty
    <3>2. p \in Paths
      BY <3>1 DEF CheckFile, Importable
    <3>3. UNCHANGED meta
      BY <2>5 DEF ImportUpToDate, ImportDirty, tree
    <3> QED BY <3>1, <3>2, <3>3, CheckKeepsMeta
  <2>6. ASSUME BeginImport PROVE MetaInv'
    BY <2>6, SetStatusRows, MetaKept DEF BeginImport, BeginAssetImport, tree
  <2>7. ASSUME BuildSucceeds \/ StoreOutputs PROVE MetaInv'
    BY <2>7, <2>1 DEF BuildSucceeds, StoreOutputs, tables, tree
  <2>8. ASSUME BuildFails PROVE MetaInv'
    BY <2>8, SetStatusRows, MetaKept DEF BuildFails, FailAssetImport, tree
  <2>9. ASSUME RecordImport PROVE MetaInv'
    BY <2>9, SetStatusRows, MetaKept DEF RecordImport, RecordAssetImport, tree
  <2>10. ASSUME ForgetFile PROVE MetaInv'
    <3>1. \A u \in Known' : u \in Known /\ sourceAssets'[u].path = sourceAssets[u].path
      BY <2>10 DEF ForgetFile, RemoveSourceAssets, Known
    <3>2. \A q \in Paths : meta'[q] = meta[q] \/ meta'[q] = NoUuid
      BY <2>10 DEF ForgetFile
    <3> QED BY <3>1, <3>2, MetaKept
  <2>11. ASSUME Crash PROVE MetaInv'
    BY <2>11, <2>1 DEF Crash, tables, tree
  <2>12. ASSUME User \/ UserDelete PROVE MetaInv'
    <3>1. UNCHANGED sourceAssets
      BY <2>12 DEF User, UserDelete, Edit, Replace, Create, DeleteMeta, Delete, UserMay, tables
    <3>2. CASE \A q \in Paths : meta'[q] = meta[q] \/ meta'[q] = NoUuid
      BY <3>1, <3>2, MetaKept DEF Known
    <3>3. CASE \E p \in Paths : \E u \in Uuids : UnusedUuid(u) /\ meta' = [meta EXCEPT ![p] = u]
      BY <3>1, <3>3 DEF MetaInv, UnusedUuid, Known, TypeOK
    <3>4. ASSUME NEW p \in Files, NEW c \in Contents \cup {Bad}, Create(p, c) PROVE MetaInv'
      BY <3>2, <3>3, <3>4 DEF Create, Files
    <3>5. CASE UserDelete
      BY <3>2, <3>5 DEF UserDelete, Delete
    <3>6. CASE \E p \in Files : DeleteMeta(p)
      BY <3>2, <3>6 DEF DeleteMeta, TypeOK
    <3>7. CASE \E p \in Files : \E c \in Contents \cup {Bad} : Edit(p, c) \/ Replace(p, c)
      BY <3>2, <3>7 DEF Edit, Replace
    <3> QED BY <2>12, <3>4, <3>5, <3>6, <3>7 DEF User
  <2>13. ASSUME OnReconImport \/ OnReconImportAll PROVE MetaInv'
    BY <2>13, <2>1 DEF OnReconImport, OnReconImportAll, Request, tables, tree
  <2>14. ASSUME UNCHANGED vars PROVE MetaInv'
    BY <2>14, <2>1 DEF vars, tables, tree
  <2> QED BY <2>2, <2>3, <2>4, <2>5, <2>6, <2>7, <2>8, <2>9, <2>10, <2>11, <2>12, <2>13,
             <2>14 DEF Next, Server, Process
<1> QED BY <1>1, <1>2, TypeCorrect, PTL DEF Spec

-----------------------------------------------------------------------------
(***************************************************************************)
(* Honesty                                                                 *)
(***************************************************************************)
\* What leaves the tables, the tree and the job alone keeps both invariants.
LEMMA HonestKept ==
    ASSUME JobInv, HonestInv, UNCHANGED <<tables, source, job>>,
           pc' = pc \/ (~Importing' /\ pc # "begin")
    PROVE  JobInv' /\ HonestInv'
BY DEF JobInv, HonestInv, Complete, Honest, Importing, Known, tables, Outputs, Read

\* Rows with status IMPORTED that a step leaves alone, with their outputs and
\* dependencies, stay honest.
LEMMA HonestRows ==
    ASSUME HonestInv,
           \A w \in Known' :
              sourceAssets'[w].status = "IMPORTED" /\ ~(pc' = "begin" /\ job'.uuid = w)
                 => /\ w \in Known
                    /\ sourceAssets'[w] = sourceAssets[w]
                    /\ importedAssets'[w] = importedAssets[w]
                    /\ importDependencies'[w] = importDependencies[w]
                    /\ ~(pc = "begin" /\ job.uuid = w)
    PROVE  HonestInv'
<1> SUFFICES ASSUME NEW w \in Known',
                    sourceAssets'[w].status = "IMPORTED",
                    ~(pc' = "begin" /\ job'.uuid = w)
             PROVE  Complete(w)'
  BY DEF HonestInv
<1>1. Complete(w)
  BY DEF HonestInv
<1>2. QED BY <1>1 DEF Complete, Honest

\* The inductive invariant, while "quiet" and "between" are granted.
LEMMA Honest_Invariance ==
    ASSUME "quiet" \in Assumed, "between" \in Assumed
    PROVE  Spec => [](JobInv /\ HonestInv)
<1> DEFINE Inv == JobInv /\ HonestInv
<1>1. Init => Inv
  <2> SUFFICES ASSUME Init PROVE Inv
    OBVIOUS
  <2>1. Known = {}
    BY DEF Init, DatabaseInit, Known
  <2> QED BY <2>1 DEF Init, JobInv, HonestInv, Importing
<1>2. TypeOK /\ MetaInv /\ Inv /\ [Next]_vars => Inv'
  <2> SUFFICES ASSUME TypeOK, MetaInv, JobInv, HonestInv, [Next]_vars
               PROVE  JobInv' /\ HonestInv'
    OBVIOUS
  <2>1. ASSUME Start PROVE JobInv' /\ HonestInv'
    <3>1. pc = "down" /\ pc' = "starting" /\ OpenDatabase
      BY <2>1 DEF Start
    <3>2. JobInv'
      BY <3>1 DEF JobInv, Importing
    <3>3. UNCHANGED <<importedAssets, importDependencies>>
      BY <3>1 DEF OpenDatabase
    <3>4. HonestInv'
      BY <3>1, <3>3, OpenRows, HonestRows
    <3> QED BY <3>2, <3>4
  <2>2. ASSUME StartWatch \/ WatchCallback \/ Prepare \/ QueueEmpty
        PROVE  JobInv' /\ HonestInv'
    BY <2>2, HonestKept
       DEF StartWatch, WatchCallback, Prepare, QueueEmpty, tree, Importing
  <2>3. ASSUME ProcessImportAll \/ ImportNothing PROVE JobInv' /\ HonestInv'
    BY <2>3, HonestKept DEF ProcessImportAll, ImportNothing, tree
  <2>4. ASSUME ImportUpToDate PROVE JobInv' /\ HonestInv'
    <3> DEFINE p == Head(queue).path
    <3>1. PICK u \in UuidFor(p) : CheckFile(p, u) /\ ~Dirty(p, u)
      BY <2>4 DEF ImportUpToDate
    <3>2. p \in Paths
      BY <3>1 DEF CheckFile, Importable
    <3>3. u \in Known /\ sourceAssets[u].hash = source[p] /\ u \in Uuids
      BY <3>1 DEF Dirty, IsSourceAssetUpToDate, Known
    <3>4. sourceAssets[u].path = p
      BY <3>2, <3>3, CheckedIdentity
    <3>5. sourceAssets[u] = [path |-> p, hash |-> source[p],
                             status |-> sourceAssets[u].status]
      <4>1. sourceAssets[u] \in Row
        BY <3>3 DEF TypeOK, Known
      <4> QED BY <3>3, <3>4, <4>1 DEF Row
    <3>6. UNCHANGED sourceAssets
      BY <3>1, <3>3, <3>5 DEF CheckFile, UpdateSourceAsset, TypeOK
    <3> QED BY <2>4, <3>6, HonestKept DEF ImportUpToDate, tables, tree
  <2>5. ASSUME ImportDirty PROVE JobInv' /\ HonestInv'
    <3> DEFINE p == Head(queue).path
    <3>1. PICK u \in UuidFor(p) :
             CheckFile(p, u) /\ job' = [uuid |-> u, path |-> p, outputs |-> {}]
      BY <2>5 DEF ImportDirty
    <3>2. p \in Paths
      BY <3>1 DEF CheckFile, Importable
    <3>3. u \in Uuids
      BY <3>2, UuidForType
    <3>4. /\ pc = "process" /\ pc' = "begin"
          /\ UNCHANGED <<importedAssets, importDependencies, source>>
      BY <2>5 DEF ImportDirty, Command, tree
    <3>5. /\ sourceAssets'[u].path = p /\ sourceAssets'[u].hash = source[p]
          /\ \A w \in Known' : w # u => w \in Known /\ sourceAssets'[w] = sourceAssets[w]
      BY <3>1, <3>2, <3>3, CheckedRows
    <3>6. JobInv'
      BY <3>1, <3>4, <3>5 DEF JobInv
    <3>7. HonestInv'
      BY <3>1, <3>4, <3>5, HonestRows
    <3> QED BY <3>6, <3>7
  <2>6. ASSUME BeginImport PROVE JobInv' /\ HonestInv'
    <3>1. /\ pc = "begin" /\ pc' = "build"
          /\ SetStatus(job.uuid, "PENDING")
          /\ UNCHANGED <<importedAssets, importDependencies, source, job>>
      BY <2>6 DEF BeginImport, BeginAssetImport, tree
    <3>2. JobInv'
      BY <3>1, SetStatusRows DEF JobInv, Importing
    <3>3. HonestInv'
      BY <3>1, SetStatusRows, HonestRows
    <3> QED BY <3>2, <3>3
  <2>7. ASSUME BuildSucceeds PROVE JobInv' /\ HonestInv'
    <3>1. /\ pc = "build" /\ pc' = "store"
          /\ job' = [job EXCEPT !.outputs = Outputs(job.path, source)]
          /\ UNCHANGED <<tables, source>>
      BY <2>7 DEF BuildSucceeds, tree
    <3>2. job \in Job
      BY <3>1 DEF TypeOK, Importing
    <3>3. /\ job'.uuid = job.uuid /\ job'.path = job.path
          /\ job'.outputs = Outputs(job.path, source)
      BY <3>1, <3>2 DEF Job
    <3>4. Outputs(job.path, source)' = Outputs(job.path, source)
      BY <3>1, <3>3 DEF Outputs, Read
    <3> QED BY <3>1, <3>3, <3>4 DEF JobInv, HonestInv, Complete, Honest, Importing, Known, tables
  <2>8. ASSUME BuildFails PROVE JobInv' /\ HonestInv'
    <3>1. /\ pc = "build" /\ pc' = "process"
          /\ SetStatus(job.uuid, "FAILED")
          /\ importedAssets' = [importedAssets EXCEPT ![job.uuid] = {}]
          /\ importDependencies' = [importDependencies EXCEPT ![job.uuid] = {}]
      BY <2>8 DEF BuildFails, FailAssetImport
    <3>2. \A w \in Known' : w # job.uuid =>
             /\ importedAssets'[w] = importedAssets[w]
             /\ importDependencies'[w] = importDependencies[w]
      BY <3>1 DEF TypeOK, Known
    <3>3. HonestInv'
      BY <3>1, <3>2, SetStatusRows, HonestRows
    <3> QED BY <3>1, <3>3 DEF JobInv, Importing
  <2>9. ASSUME StoreOutputs PROVE JobInv' /\ HonestInv'
    BY <2>9 DEF StoreOutputs, JobInv, HonestInv, Complete, Honest, Importing, Known, tables, tree,
                Outputs, Read
  <2>10. ASSUME RecordImport PROVE JobInv' /\ HonestInv'
    <3>0. PICK i : i = job.uuid    \* a name the next state does not change
      OBVIOUS
    <3>1. /\ pc = "record" /\ pc' = "process"
          /\ SetStatus(i, "IMPORTED")
          /\ importedAssets' = [importedAssets EXCEPT ![i] = job.outputs]
          /\ importDependencies' = [importDependencies EXCEPT ![i] = Read(job.path, source)]
      BY <2>10, <3>0 DEF RecordImport, RecordAssetImport
    <3>2. \A w \in Known' : w # i =>
             /\ importedAssets'[w] = importedAssets[w]
             /\ importDependencies'[w] = importDependencies[w]
      BY <3>1 DEF TypeOK, Known
    <3>3. /\ i \in Uuids
          /\ importedAssets'[i] = job.outputs
          /\ importDependencies'[i] = Read(job.path, source)
      BY <3>0, <3>1 DEF TypeOK, Importing, Job
    <3>4. job.outputs = IF job.path \in Folders \cup Silent THEN {}
                        ELSE {<<source[job.path], Read(job.path, source)>>}
      BY <3>1 DEF JobInv, Outputs
    <3>5. i \in Known' => /\ sourceAssets'[i].path = job.path
                          /\ sourceAssets'[i].hash = source[job.path]
      BY <3>0, <3>1, SetStatusRows DEF JobInv, Importing
    <3>6. i \in Known' => Complete(i)'
      <4>1. source \in [Paths -> Hash]
        BY DEF TypeOK
      <4>2. Read(job.path, source) = Read(sourceAssets[i].path, source)' \/ i \notin Known'
        BY <2>10, <3>5 DEF Read, RecordImport, tree
      <4> QED BY <3>3, <3>4, <3>5, <4>1 DEF Complete, Honest, Read
    <3>7. ASSUME NEW w \in Known', w # i, sourceAssets'[w].status = "IMPORTED"
          PROVE  Complete(w)'
      <4>1. w \in Known /\ sourceAssets'[w] = sourceAssets[w]
        BY <3>1, <3>7, SetStatusRows
      <4> QED BY <3>1, <3>2, <3>7, <4>1 DEF HonestInv, Complete, Honest
    <3>8. HonestInv'
      BY <3>6, <3>7 DEF HonestInv
    <3> QED BY <3>1, <3>8 DEF JobInv, Importing
  <2>11. ASSUME ForgetFile PROVE JobInv' /\ HonestInv'
    <3>1. /\ pc = "process" /\ pc' = pc
          /\ UNCHANGED <<importedAssets, importDependencies, source, job>>
          /\ \A w \in Known' : w \in Known /\ sourceAssets'[w] = sourceAssets[w]
      BY <2>11 DEF ForgetFile, RemoveSourceAssets, Command, Known
    <3> QED BY <3>1, HonestRows DEF JobInv, Importing
  <2>12. ASSUME Crash PROVE JobInv' /\ HonestInv'
    <3>1. /\ pc # "begin" /\ pc' = "down"
          /\ UNCHANGED <<sourceAssets, importedAssets, importDependencies>>
      BY <2>12 DEF Crash, tables
    <3>2. HonestInv'
      BY <3>1 DEF HonestInv, Complete, Honest, Known
    <3> QED BY <3>1, <3>2 DEF JobInv, Importing
  <2>13. ASSUME User \/ UserDelete PROVE JobInv' /\ HonestInv'
    <3>1. ~Importing /\ UNCHANGED <<tables, program>>
      BY <2>13 DEF User, UserDelete, Edit, Replace, Create, DeleteMeta, Delete, UserMay
    <3> QED BY <3>1 DEF JobInv, HonestInv, Complete, Honest, Importing, Known, tables, program
  <2>14. ASSUME OnReconImport \/ OnReconImportAll PROVE JobInv' /\ HonestInv'
    BY <2>14, HonestKept DEF OnReconImport, OnReconImportAll, Request, tree
  <2>15. ASSUME UNCHANGED vars PROVE JobInv' /\ HonestInv'
    BY <2>15, HonestKept DEF vars, tree, program
  <2> QED BY <2>1, <2>2, <2>3, <2>4, <2>5, <2>6, <2>7, <2>8, <2>9, <2>10, <2>11, <2>12,
             <2>13, <2>14, <2>15 DEF Next, Server, Process
<1> QED BY <1>1, <1>2, TypeCorrect, Identity, PTL DEF Spec

\* While "quiet" and "between" are granted, what the database calls imported
\* was built from what it says was read (_importFile, open).
THEOREM Honesty ==
    ASSUME "quiet" \in Assumed, "between" \in Assumed
    PROVE  Spec => []DatabaseHonest
<1>1. HonestInv => DatabaseHonest
  BY DEF HonestInv, DatabaseHonest, Complete
<1> QED BY <1>1, Honest_Invariance, PTL

\* ... and a file that is found up to date has outputs that are in the cache and
\* are the build of the present tree (_importFile's early return), also where
\* outputs were lost, includes edited or imports cut off in between.
THEOREM SkipsSound ==
    ASSUME "quiet" \in Assumed, "between" \in Assumed
    PROVE  Spec => []SkipsAreSound
<1>1. TypeOK /\ MetaInv /\ HonestInv => SkipsAreSound
  <2> DEFINE p == Head(queue).path
             u == meta[p]
  <2> SUFFICES ASSUME TypeOK, MetaInv, HonestInv, Command({"Import"}), p \in Importable,
                      u # NoUuid, ~Dirty(p, u)
               PROVE  importedAssets[u] = Outputs(p, source) \cap cas
    BY DEF SkipsAreSound
  <2>1. p \in Paths /\ pc = "process"
    BY DEF Importable, Command
  <2>2. /\ u \in Known /\ sourceAssets[u].status = "IMPORTED"
        /\ sourceAssets[u].hash = source[p]
        /\ \A d \in importDependencies[u] : source[d[1]] = d[2]
        /\ importedAssets[u] \subseteq cas
    BY DEF Dirty, IsSourceAssetUpToDate, DependenciesDirty, OutputsDirty
  <2>3. sourceAssets[u].path = p
    BY <2>1, <2>2 DEF MetaInv
  <2>4. Complete(u)
    BY <2>1, <2>2 DEF HonestInv
  <2>5. PICK c \in [Paths -> Hash] : importDependencies[u] = Read(p, c)
    BY <2>3, <2>4 DEF Complete
  <2>6. \A q \in Includes[p] : source[q] = c[q]
    <3> SUFFICES ASSUME NEW q \in Includes[p] PROVE source[q] = c[q]
      OBVIOUS
    <3>1. <<q, c[q]>> \in importDependencies[u]
      BY <2>5 DEF Read
    <3> QED BY <2>2, <3>1
  <2>7. Read(p, c) = Read(p, source)
    BY <2>6 DEF Read
  <2>8. importedAssets[u] = Outputs(p, source)
    BY <2>2, <2>3, <2>4, <2>5, <2>7 DEF Complete, Honest, Outputs
  <2> QED BY <2>2, <2>8
<1> QED BY <1>1, Honest_Invariance, TypeCorrect, Identity, PTL

-----------------------------------------------------------------------------
(***************************************************************************)
(* The manifest                                                            *)
(***************************************************************************)
\* What changes no table keeps the manifest as good as it was.
LEMMA ManifestKept ==
    ASSUME ManifestInv, UNCHANGED <<tables, manifest, manifestDirty, unwritten>>,
           Importing' => Importing
    PROVE  ManifestInv'
BY DEF ManifestInv, Manifest, Known, tables

\* The manifest file lists exactly the database's rows whenever nothing is
\* marked dirty and the last write has not failed (_manifestDirty,
\* _writeManifest), whatever is assumed.
THEOREM ManifestFollows == Spec => []ManifestCurrent
<1>1. Init => ManifestInv
  BY DEF Init, ManifestInv
<1>2. TypeOK /\ MetaInv /\ ManifestInv /\ [Next]_vars => ManifestInv'
  <2> SUFFICES ASSUME TypeOK, MetaInv, ManifestInv, [Next]_vars PROVE ManifestInv'
    OBVIOUS
  <2>1. ASSUME Start PROVE ManifestInv'
    BY <2>1 DEF Start, ManifestInv
  <2>2. ASSUME StartWatch \/ WatchCallback \/ Prepare PROVE ManifestInv'
    BY <2>2, ManifestKept DEF StartWatch, WatchCallback, Prepare, Importing, tree, history
  <2>3. ASSUME QueueEmpty PROVE ManifestInv'
    BY <2>3 DEF QueueEmpty, ManifestInv, Importing, Manifest, Known, tables
  <2>4. ASSUME ProcessImportAll \/ ImportNothing PROVE ManifestInv'
    BY <2>4, ManifestKept DEF ProcessImportAll, ImportNothing, Importing, tree, history
  <2>5. ASSUME ImportUpToDate PROVE ManifestInv'
    <3> DEFINE p == Head(queue).path
    <3>1. PICK u \in UuidFor(p) : CheckFile(p, u) /\ ~Dirty(p, u)
      BY <2>5 DEF ImportUpToDate
    <3>2. p \in Paths
      BY <3>1 DEF CheckFile, Importable
    <3>3. u \in Known /\ sourceAssets[u].hash = source[p] /\ u \in Uuids
      BY <3>1 DEF Dirty, IsSourceAssetUpToDate, Known
    <3>4. sourceAssets[u].path = p
      BY <3>2, <3>3, CheckedIdentity
    <3>5. sourceAssets[u] = [path |-> p, hash |-> source[p],
                             status |-> sourceAssets[u].status]
      <4>1. sourceAssets[u] \in Row
        BY <3>3 DEF TypeOK, Known
      <4> QED BY <3>3, <3>4, <4>1 DEF Row
    <3>6. UNCHANGED sourceAssets
      BY <3>1, <3>3, <3>5 DEF CheckFile, UpdateSourceAsset, TypeOK
    <3> QED BY <2>5, <3>6, ManifestKept DEF ImportUpToDate, tables, Importing, tree, history
  <2>6. ASSUME ImportDirty PROVE ManifestInv'
    BY <2>6 DEF ImportDirty, MarkManifest, ManifestInv
  <2>7. ASSUME BeginImport \/ BuildSucceeds \/ BuildFails \/ StoreOutputs \/ RecordImport
        PROVE  ManifestInv'
    BY <2>7 DEF BeginImport, BuildSucceeds, BuildFails, StoreOutputs, RecordImport,
                ManifestInv, Importing
  <2>8. ASSUME ForgetFile PROVE ManifestInv'
    <3>1. pc = "process" /\ pc' = "process"
      BY <2>8 DEF ForgetFile, Command
    <3>2. CASE manifestDirty'
      BY <3>1, <3>2 DEF ManifestInv, Importing
    <3>3. CASE ~manifestDirty'
      <4>1. PICK gone : RemoveSourceAssets(gone) /\ MarkManifest(gone # {})
        BY <2>8 DEF ForgetFile
      <4>2. gone = {}
        BY <3>3, <4>1 DEF MarkManifest
      <4>3. UNCHANGED sourceAssets
        BY <4>1, <4>2 DEF RemoveSourceAssets, TypeOK
      <4>4. UNCHANGED <<manifest, importedAssets, importDependencies, unwritten>>
        BY <2>8, <4>1 DEF ForgetFile, RemoveSourceAssets, history
      <4>5. UNCHANGED manifestDirty
        BY <3>3, <4>1, <4>2 DEF MarkManifest, TypeOK
      <4> QED BY <3>1, <4>3, <4>4, <4>5, ManifestKept DEF tables, Importing
    <3> QED BY <3>2, <3>3
  <2>9. ASSUME Crash PROVE ManifestInv'
    BY <2>9, ManifestKept DEF Crash, Importing, tree, history
  <2>10. ASSUME User \/ UserDelete PROVE ManifestInv'
    <3>1. UNCHANGED <<tables, manifest, program, unwritten>>
      BY <2>10 DEF User, UserDelete, Edit, Replace, Create, DeleteMeta, Delete, UserMay
    <3> QED BY <3>1, ManifestKept DEF program, Importing
  <2>11. ASSUME OnReconImport \/ OnReconImportAll PROVE ManifestInv'
    BY <2>11, ManifestKept DEF OnReconImport, OnReconImportAll, Request, Importing, tree, history
  <2>12. ASSUME UNCHANGED vars PROVE ManifestInv'
    BY <2>12, ManifestKept DEF vars, program, Importing, tree, history
  <2> QED BY <2>1, <2>2, <2>3, <2>4, <2>5, <2>6, <2>7, <2>8, <2>9, <2>10, <2>11, <2>12
          DEF Next, Server, Process
<1>3. ManifestInv => ManifestCurrent
  BY DEF ManifestInv, ManifestCurrent
<1> QED BY <1>1, <1>2, <1>3, TypeCorrect, Identity, PTL DEF Spec

-----------------------------------------------------------------------------
(***************************************************************************)
(* The two lines: notifications, and commands                              *)
(***************************************************************************)
Work == [type : {"Import", "ForceImport", "Forget", "ImportAll"}, path : Paths]
Event == [kind : {"Change", "Rename", "Meta"}, path : Paths]
LinesOK == queue \in Seq(Work) /\ events \in Seq(Event)

In(x, line) == \E i \in DOMAIN line : line[i] = x

\* What the operators on sequences do to the members of a line.
LEMMA InAppend ==
    ASSUME NEW S, NEW line \in Seq(S), NEW x \in S
    PROVE  /\ Append(line, x) \in Seq(S)
           /\ \A y : In(y, Append(line, x)) <=> In(y, line) \/ y = x
<1> DEFINE more == Append(line, x)
<1>1. /\ more \in Seq(S) /\ Len(more) = Len(line) + 1
      /\ \A i \in 1 .. Len(line) : more[i] = line[i]
      /\ more[Len(line) + 1] = x
  BY AppendProperties
<1>2. /\ DOMAIN line = 1 .. Len(line) /\ DOMAIN more = 1 .. Len(more)
      /\ Len(line) \in Nat
  BY <1>1, LenProperties
<1> HIDE DEF more
<1>3. \A i : i \in DOMAIN more <=> i \in DOMAIN line \/ i = Len(line) + 1
  BY <1>1, <1>2
<1>4. \A y : In(y, more) <=> In(y, line) \/ y = x
  BY <1>1, <1>2, <1>3 DEF In
<1> QED BY <1>1, <1>4 DEF more

LEMMA InConcat ==
    ASSUME NEW S, NEW a \in Seq(S), NEW b \in Seq(S)
    PROVE  /\ a \o b \in Seq(S)
           /\ \A y : In(y, a \o b) <=> In(y, a) \/ In(y, b)
<1> DEFINE ab == a \o b
<1>1. /\ ab \in Seq(S) /\ Len(ab) = Len(a) + Len(b)
      /\ \A i \in 1 .. Len(a) + Len(b) :
            ab[i] = IF i <= Len(a) THEN a[i] ELSE b[i - Len(a)]
  BY ConcatProperties
<1>2. /\ DOMAIN a = 1 .. Len(a) /\ DOMAIN b = 1 .. Len(b) /\ DOMAIN ab = 1 .. Len(ab)
      /\ Len(a) \in Nat /\ Len(b) \in Nat
  BY <1>1, LenProperties
<1> HIDE DEF ab
<1>3. \A i \in DOMAIN a : i \in DOMAIN ab /\ ab[i] = a[i]
  BY <1>1, <1>2
<1>4. \A i \in DOMAIN b : i + Len(a) \in DOMAIN ab /\ ab[i + Len(a)] = b[i]
  BY <1>1, <1>2
<1>5. \A i \in DOMAIN ab : \/ i \in DOMAIN a /\ ab[i] = a[i]
                           \/ i - Len(a) \in DOMAIN b /\ ab[i] = b[i - Len(a)]
  BY <1>1, <1>2
<1>6. \A y : In(y, ab) <=> In(y, a) \/ In(y, b)
  BY <1>3, <1>4, <1>5 DEF In
<1> QED BY <1>1, <1>6 DEF ab

LEMMA InTail ==
    ASSUME NEW S, NEW line \in Seq(S), line # <<>>
    PROVE  /\ Head(line) \in S /\ Tail(line) \in Seq(S)
           /\ \A y : In(y, line) <=> y = Head(line) \/ In(y, Tail(line))
<1> DEFINE rest == Tail(line)
<1>1. /\ Head(line) \in S /\ rest \in Seq(S) /\ Len(rest) = Len(line) - 1
      /\ \A i \in 1 .. Len(rest) : rest[i] = line[i + 1]
  BY HeadTailProperties
<1>2. /\ DOMAIN line = 1 .. Len(line) /\ DOMAIN rest = 1 .. Len(rest)
      /\ Len(line) \in Nat /\ Len(line) # 0
  BY <1>1, LenProperties, EmptySeq
<1>3. Head(line) = line[1]
  BY <1>2
<1> HIDE DEF rest
<1>4. \A i \in DOMAIN rest : i + 1 \in DOMAIN line /\ line[i + 1] = rest[i]
  BY <1>1, <1>2
<1>5. \A i \in DOMAIN line : i = 1 \/ (i - 1 \in DOMAIN rest /\ rest[i - 1] = line[i])
  BY <1>1, <1>2
<1>6. 1 \in DOMAIN line
  BY <1>2
<1>7. \A y : In(y, line) <=> y = Head(line) \/ In(y, rest)
  BY <1>3, <1>4, <1>5, <1>6 DEF In
<1> QED BY <1>1, <1>7 DEF rest

\* A finite set can be listed.
LEMMA Listed ==
    ASSUME NEW U, IsFiniteSet(U)
    PROVE  /\ SetToSeq(U) \in Seq(U)
           /\ \A u : In(u, SetToSeq(U)) <=> u \in U
<1> DEFINE n == Cardinality(U)
           s == SetToSeq(U)
<1>1. n \in Nat /\ ExistsBijection(1 .. n, U)
  BY FS_CardinalityType
<1>2. \E f \in [1 .. n -> U] : IsInjective(f)
  BY <1>1 DEF ExistsBijection, Bijection, Injection
<1>3. s \in [1 .. n -> U] /\ IsInjective(s)
  BY <1>2 DEF SetToSeq
<1> HIDE DEF s
<1>4. s \in Injection(1 .. n, U)
  BY <1>3 DEF Injection
<1>5. IsFiniteSet(1 .. n) /\ Cardinality(1 .. n) = n
  BY <1>1, FS_Interval
<1>6. s \in Surjection(1 .. n, U)
  BY <1>4, <1>5, FS_Injection
<1>7. s \in Seq(U)
  BY <1>1, <1>3, SeqDef
<1>8. \A u : In(u, s) <=> u \in U
  BY <1>3, <1>6 DEF In, Surjection
<1> QED BY <1>7, <1>8 DEF s

LEMMA KnownFinite == \A us \in SUBSET Known : IsFiniteSet(us)
BY FiniteAssumption, FS_Subset DEF Known

\* The lists of commands that actions append are of what they say.
LEMMA ImportsListed ==
    ASSUME TypeOK, NEW us \in SUBSET Known
    PROVE  /\ Imports(us) \in Seq(Work)
           /\ \A y : In(y, Imports(us)) <=> \E u \in us : y = Import(sourceAssets[u].path)
<1> DEFINE s == SetToSeq(us)
           line == [i \in DOMAIN s |-> Import(sourceAssets[s[i]].path)]
<1>1. s \in Seq(us) /\ \A u : In(u, s) <=> u \in us
  BY KnownFinite, Listed
<1>2. DOMAIN s = 1 .. Len(s) /\ Len(s) \in Nat /\ \A i \in DOMAIN s : s[i] \in us
  BY <1>1, LenProperties
<1>3. \A u \in us : sourceAssets[u].path \in Paths
  BY DEF TypeOK, Known, Row
<1> HIDE DEF s
<1>4. line \in [1 .. Len(s) -> Work]
  BY <1>2, <1>3 DEF Work, Import
<1>5. line \in Seq(Work)
  BY <1>2, <1>4, SeqDef
<1>6. \A y : In(y, line) <=> \E u \in us : y = Import(sourceAssets[u].path)
  BY <1>1, <1>2 DEF In
<1> QED BY <1>5, <1>6 DEF Imports, s

LEMMA MissingListed ==
    ASSUME TypeOK
    PROVE  /\ CollectMissing \in Seq(Work)
           /\ \A y : In(y, CollectMissing) <=>
                 \E u \in Known : /\ source[sourceAssets[u].path] = Absent
                                  /\ y = Forget(sourceAssets[u].path)
<1> DEFINE us == {u \in Known : source[sourceAssets[u].path] = Absent}
           s == SetToSeq(us)
           line == [i \in DOMAIN s |-> Forget(sourceAssets[s[i]].path)]
<1>1. s \in Seq(us) /\ \A u : In(u, s) <=> u \in us
  BY KnownFinite, Listed
<1>2. DOMAIN s = 1 .. Len(s) /\ Len(s) \in Nat /\ \A i \in DOMAIN s : s[i] \in us
  BY <1>1, LenProperties
<1>3. \A u \in us : sourceAssets[u].path \in Paths
  BY DEF TypeOK, Known, Row
<1> HIDE DEF s
<1>4. line \in [1 .. Len(s) -> Work]
  BY <1>2, <1>3 DEF Work, Forget
<1>5. line \in Seq(Work)
  BY <1>2, <1>4, SeqDef
<1>6. \A y : In(y, line) <=> \E u \in us : y = Forget(sourceAssets[u].path)
  BY <1>1, <1>2 DEF In
<1> QED BY <1>5, <1>6 DEF CollectMissing, s

LEMMA SourcesListed ==
    ASSUME NEW listed \in CollectSources
    PROVE  /\ listed \in Seq(Work)
           /\ \A y : In(y, listed) => y.type = "Import"
           /\ \A p \in Paths \ {Root} : source[p] # Absent => In(Import(p), listed)
<1> DEFINE there == {i \in DOMAIN ListOrder : source[ListOrder[i]] # Absent}
           n == Cardinality(there)
<1>1. DOMAIN ListOrder = 1 .. Len(ListOrder) /\ Len(ListOrder) \in Nat
      /\ \A i \in DOMAIN ListOrder : ListOrder[i] \in Paths
  BY ListAssumption, LenProperties
<1>2. IsFiniteSet(there)
  <2>1. IsFiniteSet(DOMAIN ListOrder)
    BY <1>1, FS_Interval
  <2> QED BY <2>1, FS_Subset
<1>3. n \in Nat /\ IsFiniteSet(1 .. n) /\ Cardinality(1 .. n) = n
  BY <1>2, FS_CardinalityType, FS_Interval
<1>4. PICK f \in InOrder(there) : listed = [k \in 1 .. n |-> Import(ListOrder[f[k]])]
  BY DEF CollectSources
<1>5. f \in [1 .. n -> there] /\ \A i, j \in 1 .. n : i < j => f[i] < f[j]
  BY <1>4 DEF InOrder
<1>6. ASSUME NEW i \in 1 .. n, NEW j \in 1 .. n, i # j PROVE f[i] # f[j]
  <2>1. f[i] \in Nat /\ f[j] \in Nat
    BY <1>1, <1>5
  <2>2. i \in Nat /\ j \in Nat
    BY <1>3
  <2>3. i < j \/ j < i
    BY <1>6, <2>2
  <2> QED BY <1>5, <2>1, <2>3
<1>7. f \in Injection(1 .. n, there)
  BY <1>5, <1>6 DEF Injection, IsInjective
<1>8. f \in Surjection(1 .. n, there)
  BY <1>2, <1>3, <1>7, FS_Injection
<1>9. listed \in [1 .. n -> Work]
  BY <1>1, <1>4, <1>5 DEF Work, Import
<1>10. listed \in Seq(Work)
  BY <1>3, <1>9, SeqDef
<1>11. ASSUME NEW p \in Paths \ {Root}, source[p] # Absent PROVE In(Import(p), listed)
  <2>1. PICK i \in DOMAIN ListOrder : ListOrder[i] = p
    BY ListAssumption
  <2>2. i \in there
    BY <1>11, <2>1
  <2>3. PICK k \in 1 .. n : f[k] = i
    BY <1>8, <2>2 DEF Surjection
  <2> QED BY <1>4, <2>1, <2>3 DEF In
<1>12. \A y : In(y, listed) => y.type = "Import"
  BY <1>4 DEF In, Import
<1> QED BY <1>10, <1>11, <1>12

\* What a step does to the lines.  A Forget is only queued of a path that is
\* gone, but by the watch.
KeepsEvents == \A y : In(y, events) => In(y, events')
KeepsQueue == \A y : In(y, queue) => In(y, queue')
KeepsTail == \A y : In(y, queue) => y = Head(queue) \/ In(y, queue')
ForgetsGone ==
    \A p : In(Forget(p), queue') => In(Forget(p), queue) \/ source[p] = Absent
StartsAfresh ==
    \A p : In(Forget(p), queue') => source[p] = Absent
ListsAll ==
    /\ \A p \in Paths \ {Root} : source[p] # Absent => In(Import(p), queue')
    /\ \A u \in Known : source[sourceAssets[u].path] = Absent
                           => In(Forget(sourceAssets[u].path), queue')

LEMMA StartLines ==
    ASSUME TypeOK, LinesOK, Start
    PROVE  LinesOK' /\ StartsAfresh /\ ListsAll
<1>1. PICK listed \in CollectSources : queue' = listed \o CollectMissing
  BY DEF Start
<1>2. /\ listed \in Seq(Work)
      /\ \A y : In(y, listed) => y.type = "Import"
      /\ \A p \in Paths \ {Root} : source[p] # Absent => In(Import(p), listed)
  BY SourcesListed
<1>3. /\ CollectMissing \in Seq(Work)
      /\ \A y : In(y, CollectMissing) <=>
            \E u \in Known : /\ source[sourceAssets[u].path] = Absent
                             /\ y = Forget(sourceAssets[u].path)
  BY MissingListed
<1>4. queue' \in Seq(Work) /\ \A y : In(y, queue') <=> In(y, listed) \/ In(y, CollectMissing)
  BY <1>1, <1>2, <1>3, InConcat
<1>5. LinesOK'
  BY <1>4 DEF Start, LinesOK
<1>6. StartsAfresh
  BY <1>2, <1>3, <1>4 DEF StartsAfresh, Forget
<1>7. ListsAll
  BY <1>2, <1>3, <1>4 DEF ListsAll
<1> QED BY <1>5, <1>6, <1>7

LEMMA ImportAllLines ==
    ASSUME TypeOK, LinesOK, ProcessImportAll
    PROVE  LinesOK' /\ ForgetsGone /\ KeepsTail /\ Head(queue).type = "ImportAll"
<1>1. PICK listed \in CollectSources : queue' = Tail(queue) \o listed \o CollectMissing
  BY DEF ProcessImportAll
<1>2. /\ listed \in Seq(Work)
      /\ \A y : In(y, listed) => y.type = "Import"
  BY SourcesListed
<1>3. /\ CollectMissing \in Seq(Work)
      /\ \A y : In(y, CollectMissing) <=>
            \E u \in Known : /\ source[sourceAssets[u].path] = Absent
                             /\ y = Forget(sourceAssets[u].path)
  BY MissingListed
<1>4. queue \in Seq(Work) /\ queue # <<>>
  BY DEF ProcessImportAll, Command, LinesOK
<1>5. Tail(queue) \in Seq(Work) /\ \A y : In(y, queue) <=> y = Head(queue) \/ In(y, Tail(queue))
  BY <1>4, InTail
<1>6. /\ Tail(queue) \o listed \in Seq(Work)
      /\ \A y : In(y, Tail(queue) \o listed) <=> In(y, Tail(queue)) \/ In(y, listed)
  BY <1>2, <1>5, InConcat
<1>7. /\ queue' \in Seq(Work)
      /\ \A y : In(y, queue') <=> In(y, Tail(queue) \o listed) \/ In(y, CollectMissing)
  BY <1>1, <1>3, <1>6, InConcat
<1>8. LinesOK'
  BY <1>7 DEF ProcessImportAll, LinesOK
<1>9. ForgetsGone
  BY <1>2, <1>3, <1>5, <1>6, <1>7 DEF ForgetsGone, Forget
<1>10. KeepsTail
  BY <1>5, <1>6, <1>7 DEF KeepsTail
<1> QED BY <1>8, <1>9, <1>10 DEF ProcessImportAll, Command

LEMMA CheckLines ==
    ASSUME TypeOK, LinesOK, NEW p, NEW u, CheckFile(p, u), queue # <<>>, UNCHANGED events
    PROVE  /\ LinesOK' /\ ForgetsGone /\ KeepsTail
           /\ \A w \in DirtiedBy(p, source[p]) : In(Import(sourceAssets[w].path), queue')
<1> DEFINE more == Imports(DirtiedBy(p, source[p]))
<1>1. queue' = Tail(queue) \o more
  BY DEF CheckFile
<1>2. /\ more \in Seq(Work)
      /\ \A y : In(y, more) <=> \E w \in DirtiedBy(p, source[p]) : y = Import(sourceAssets[w].path)
  <2>1. DirtiedBy(p, source[p]) \in SUBSET Known
    BY DEF DirtiedBy
  <2> QED BY <2>1, ImportsListed
<1> HIDE DEF more
<1>3. Tail(queue) \in Seq(Work) /\ \A y : In(y, queue) <=> y = Head(queue) \/ In(y, Tail(queue))
  BY InTail DEF LinesOK
<1>4. queue' \in Seq(Work) /\ \A y : In(y, queue') <=> In(y, Tail(queue)) \/ In(y, more)
  BY <1>1, <1>2, <1>3, InConcat
<1>5. LinesOK'
  BY <1>4 DEF LinesOK
<1>6. ForgetsGone
  BY <1>2, <1>3, <1>4 DEF ForgetsGone, Forget, Import
<1>7. KeepsTail
  BY <1>3, <1>4 DEF KeepsTail
<1> QED BY <1>2, <1>4, <1>5, <1>6, <1>7

\* A command that ends without enqueueing another.
LEMMA TakenLines ==
    ASSUME LinesOK, queue # <<>>, queue' = Tail(queue)
    PROVE  queue' \in Seq(Work) /\ ForgetsGone /\ KeepsTail
<1>1. Tail(queue) \in Seq(Work) /\ \A y : In(y, queue) <=> y = Head(queue) \/ In(y, Tail(queue))
  BY InTail DEF LinesOK
<1> QED BY <1>1 DEF ForgetsGone, KeepsTail

LEMMA WatchLines ==
    ASSUME LinesOK, WatchCallback
    PROVE  /\ LinesOK' /\ KeepsQueue
           /\ \A p : In(Forget(p), queue') => In(Forget(p), queue) \/ In(Renamed(p), events)
           /\ In(WatchCommand(Head(events)), queue')
           /\ Head(events) \in Event
           /\ \A y : In(y, events') => In(y, events)
           /\ \A y : In(y, events) => y = Head(events) \/ In(y, events')
<1> DEFINE e == Head(events)
           c == WatchCommand(e)
<1>1. /\ queue' = Append(queue, c) /\ events' = Tail(events)
      /\ queue \in Seq(Work) /\ events \in Seq(Event) /\ events # <<>>
  BY DEF WatchCallback, LinesOK
<1>2. /\ e \in Event /\ Tail(events) \in Seq(Event)
      /\ \A y : In(y, events) <=> y = e \/ In(y, Tail(events))
  BY <1>1, InTail
<1> HIDE DEF e
<1>3. c \in Work
  BY <1>2 DEF WatchCommand, Event, Work, Import, Forget
<1>4. \A p : c = Forget(p) => e = Renamed(p)
  <2> SUFFICES ASSUME NEW p, c = Forget(p) PROVE e = Renamed(p)
    OBVIOUS
  <2>1. e.kind = "Rename" /\ e.path = p
    BY <1>2 DEF WatchCommand, Event, Import, Forget
  <2> QED BY <1>2, <2>1 DEF Event, Renamed
<1> HIDE DEF c
<1>5. queue' \in Seq(Work) /\ \A y : In(y, queue') <=> In(y, queue) \/ y = c
  BY <1>1, <1>3, InAppend
<1> QED BY <1>1, <1>2, <1>4, <1>5 DEF LinesOK, KeepsQueue, c, e

LEMMA RequestLines ==
    ASSUME LinesOK, OnReconImport \/ OnReconImportAll
    PROVE  LinesOK' /\ KeepsQueue /\ ForgetsGone
<1>1. PICK c \in {Import(Root), ForceImport(Root), ImportAll} : Request(c)
  BY DEF OnReconImport, OnReconImportAll
<1>2. Root \in Paths
  BY RootAssumption
<1>3. c \in Work /\ c.type # "Forget"
  BY <1>2 DEF Work, Import, ForceImport, ImportAll
<1>4. queue' \in Seq(Work) /\ \A y : In(y, queue') <=> In(y, queue) \/ y = c
  BY <1>1, <1>3, InAppend DEF Request, LinesOK
<1> QED BY <1>1, <1>3, <1>4 DEF Request, LinesOK, KeepsQueue, ForgetsGone, Forget

LEMMA NotifyLines ==
    ASSUME LinesOK, NEW es \in Seq(Event), Notify(es)
    PROVE  /\ events' \in Seq(Event) /\ KeepsEvents
           /\ Watching => \A y : In(y, es) => In(y, events')
           /\ \A y : In(y, events') => In(y, events) \/ (Watching /\ In(y, es))
<1>1. CASE Watching
  <2>1. events' = events \o es
    BY <1>1 DEF Notify
  <2>2. events' \in Seq(Event) /\ \A y : In(y, events') <=> In(y, events) \/ In(y, es)
    BY <2>1, InConcat DEF LinesOK
  <2> QED BY <1>1, <2>2 DEF KeepsEvents
<1>2. CASE ~Watching
  BY <1>2 DEF Notify, LinesOK, KeepsEvents
<1> QED BY <1>1, <1>2

\* What the user writes to a path is notified of, while somebody watches.
Told(p) == \E y : In(y, events') /\ y.path = p /\ y.kind # "Rename"

LEMMA OneEvent ==
    ASSUME NEW e \in Event
    PROVE  <<e>> \in Seq(Event) /\ \A y : In(y, <<e>>) <=> y = e
BY DEF In

LEMMA NotifyOne ==
    ASSUME LinesOK, NEW e \in Event, Notify(<<e>>)
    PROVE  /\ events' \in Seq(Event) /\ KeepsEvents
           /\ Watching => In(e, events')
           /\ \A y : In(y, events') => In(y, events) \/ (Watching /\ y = e)
<1>1. <<e>> \in Seq(Event) /\ \A y : In(y, <<e>>) <=> y = e
  BY OneEvent
<1>2. /\ events' \in Seq(Event) /\ KeepsEvents
      /\ Watching => \A y : In(y, <<e>>) => In(y, events')
      /\ \A y : In(y, events') => In(y, events) \/ (Watching /\ In(y, <<e>>))
  BY <1>1, NotifyLines
<1> QED BY <1>1, <1>2

\* What a Create tells of is the file and its .meta file.
LEMMA CreateTells ==
    ASSUME LinesOK, NEW p \in Paths, NEW c, Create(p, c)
    PROVE  /\ events' \in Seq(Event) /\ KeepsEvents
           /\ \A y : In(y, events')
                        => In(y, events) \/ y \in {Renamed(p), Changed(p), MetaChanged(p)}
<1>1. Changed(p) \in Event /\ Renamed(p) \in Event /\ MetaChanged(p) \in Event
  BY DEF Changed, Renamed, MetaChanged, Event
<1>2. PICK told \in {<<Renamed(p)>>, <<Renamed(p), Changed(p)>>} :
         Notify(told) \/ Notify(Append(told, MetaChanged(p)))
  BY DEF Create
<1>3. told \in Seq(Event)
  <2>1. <<Renamed(p)>> \in Seq(Event)
    BY <1>1
  <2>2. <<Renamed(p), Changed(p)>> \in Seq(Event)
    BY <1>1
  <2> QED BY <1>2, <2>1, <2>2
<1>4. \A y : In(y, told) => y \in {Renamed(p), Changed(p)}
  BY DEF In
<1>5. /\ Append(told, MetaChanged(p)) \in Seq(Event)
      /\ \A y : In(y, Append(told, MetaChanged(p))) <=> In(y, told) \/ y = MetaChanged(p)
  BY <1>1, <1>3, InAppend
<1>6. CASE Notify(told)
  BY <1>3, <1>4, <1>6, NotifyLines
<1>7. CASE Notify(Append(told, MetaChanged(p)))
  <2>1. /\ events' \in Seq(Event) /\ KeepsEvents
        /\ \A y : In(y, events') => In(y, events) \/ In(y, Append(told, MetaChanged(p)))
    BY <1>5, <1>7, NotifyLines
  <2> QED BY <1>4, <1>5, <2>1
<1> QED BY <1>2, <1>6, <1>7

\* Whatever the user does adds notifications of paths there are.
LEMMA UserLines ==
    ASSUME LinesOK, User \/ UserDelete
    PROVE  LinesOK' /\ KeepsEvents /\ UNCHANGED queue
<1>1. queue' = queue
  BY DEF User, UserDelete, Edit, Replace, Create, DeleteMeta, Delete, UserMay, program
<1>2. \A p \in Paths : Changed(p) \in Event /\ Renamed(p) \in Event /\ MetaChanged(p) \in Event
  BY DEF Changed, Renamed, MetaChanged, Event
<1>3. ASSUME NEW p \in Paths, NEW e \in {Changed(p), Renamed(p), MetaChanged(p)}, Notify(<<e>>)
      PROVE  events' \in Seq(Event) /\ KeepsEvents
  BY <1>2, <1>3, NotifyOne
<1>4. ASSUME NEW p \in Paths, NEW c, Edit(p, c) \/ Replace(p, c)
      PROVE  events' \in Seq(Event) /\ KeepsEvents
  BY <1>3, <1>4 DEF Edit, Replace
<1>5. ASSUME NEW p \in Paths, Delete(p) \/ DeleteMeta(p)
      PROVE  events' \in Seq(Event) /\ KeepsEvents
  BY <1>3, <1>5 DEF Delete, DeleteMeta
<1>6. events' \in Seq(Event) /\ KeepsEvents
  BY <1>4, <1>5, CreateTells DEF User, UserDelete, Files
<1> QED BY <1>1, <1>6 DEF LinesOK

LEMMA ForgetLines ==
    ASSUME LinesOK, ForgetFile
    PROVE  /\ LinesOK' /\ ForgetsGone /\ KeepsTail /\ KeepsEvents
           /\ \A p : In(Renamed(p), events') => In(Renamed(p), events)
<1>1. queue # <<>> /\ queue' = Tail(queue)
  BY DEF ForgetFile, Command
<1>2. PICK metas \in SUBSET Files :
         LET s == SetToSeq(metas) IN Notify([i \in DOMAIN s |-> MetaChanged(s[i])])
  BY DEF ForgetFile
<1> DEFINE s == SetToSeq(metas)
           es == [i \in DOMAIN s |-> MetaChanged(s[i])]
<1>3. s \in Seq(metas)
  BY FiniteAssumption, FS_Subset, Listed DEF Files
<1>4. DOMAIN s = 1 .. Len(s) /\ Len(s) \in Nat /\ \A i \in DOMAIN s : s[i] \in Paths
  BY <1>3, LenProperties DEF Files
<1>5. Notify(es)
  BY <1>2
<1> HIDE DEF s
<1>6. es \in [1 .. Len(s) -> Event]
  BY <1>4 DEF MetaChanged, Event
<1>7. es \in Seq(Event)
  BY <1>4, <1>6, SeqDef
<1>8. \A p : ~In(Renamed(p), es)
  BY <1>4 DEF In, Renamed, MetaChanged
<1> HIDE DEF es
<1>9. /\ events' \in Seq(Event) /\ KeepsEvents
      /\ \A y : In(y, events') => In(y, events) \/ In(y, es)
  BY <1>5, <1>7, NotifyLines
<1> QED BY <1>1, <1>8, <1>9, TakenLines DEF LinesOK

\* What the steps of one import and of the hook do to the lines.
LEMMA OtherLines ==
    ASSUME LinesOK, UNCHANGED <<queue, events>>
    PROVE  LinesOK' /\ ForgetsGone /\ KeepsQueue /\ KeepsEvents
BY DEF LinesOK, ForgetsGone, KeepsQueue, KeepsEvents

LEMMA EmptiedLines ==
    ASSUME Crash
    PROVE  LinesOK' /\ ForgetsGone
BY DEF Crash, LinesOK, ForgetsGone, In

\* Every step, as far as the lines go.
Elsewhere ==
    \/ StartWatch \/ Prepare \/ QueueEmpty \/ BeginImport \/ BuildSucceeds \/ BuildFails
    \/ StoreOutputs \/ RecordImport \/ UNCHANGED vars

LEMMA ElsewhereLines ==
    ASSUME LinesOK, Elsewhere
    PROVE  LinesOK' /\ ForgetsGone /\ KeepsQueue /\ KeepsEvents /\ UNCHANGED <<queue, events>>
BY OtherLines DEF Elsewhere, StartWatch, Prepare, QueueEmpty, BeginImport, BuildSucceeds,
                  BuildFails, StoreOutputs, RecordImport, vars, program

LEMMA EachStep ==
    ASSUME [Next]_vars
    PROVE  \/ Start \/ Elsewhere \/ Crash \/ WatchCallback \/ OnReconImport \/ OnReconImportAll
           \/ User \/ UserDelete \/ ProcessImportAll \/ ImportNothing \/ ForgetFile
           \/ ImportUpToDate \/ ImportDirty
BY DEF Next, Server, Process, Elsewhere

\* The lines hold commands and notifications of paths there are, and an import
\* leaves the others in line (ReconQueue, the watch callback).
LEMMA LinesTyped == Spec => []LinesOK
<1>1. Init => LinesOK
  BY DEF Init, LinesOK
<1>2. TypeOK /\ LinesOK /\ [Next]_vars => LinesOK'
  <2> SUFFICES ASSUME TypeOK, LinesOK, [Next]_vars PROVE LinesOK'
    OBVIOUS
  <2>1. CASE ImportUpToDate \/ ImportDirty
    <3>1. PICK p, u : CheckFile(p, u)
      BY <2>1 DEF ImportUpToDate, ImportDirty
    <3>2. queue # <<>> /\ UNCHANGED events
      BY <2>1 DEF ImportUpToDate, ImportDirty, Command
    <3> QED BY <3>1, <3>2, CheckLines
  <2>2. CASE ImportNothing
    BY <2>2, TakenLines DEF ImportNothing, Command, LinesOK
  <2> QED BY <2>1, <2>2, EachStep, StartLines, ElsewhereLines, EmptiedLines, WatchLines,
             RequestLines, UserLines, ImportAllLines, ForgetLines
<1> QED BY <1>1, <1>2, TypeCorrect, PTL DEF Spec

-----------------------------------------------------------------------------
(***************************************************************************)
(* What is forgotten is gone                                               *)
(***************************************************************************)
\* The tree: what is above what.
LEMMA AboveFacts ==
    /\ Above[Root] = {}
    /\ \A p \in Paths : /\ Above[p] \subseteq Folders
                        /\ p # Root => Parent[p] \in Above[p]
                        /\ Above[p] \subseteq {Parent[p]} \cup Above[Parent[p]]
                        /\ \A a \in Above[p] : Above[a] \subseteq Above[p]
<1>1. \A p \in Paths : Parent[p] \in Folders /\ Parent[p] \in Paths
  BY ParentAssumption, RootAssumption
<1>2. Root \in Paths /\ Folders \in SUBSET Paths
  BY RootAssumption
<1>3. Above[Root] = {}
  BY <1>2 DEF Above
<1>4. ASSUME NEW p \in Paths, NEW S \in SUBSET Paths, Parent[p] \in S,
             \A q \in S \ {Root} : Parent[q] \in S
      PROVE  Above[p] \subseteq S
  BY <1>4 DEF Above
<1>5. \A p \in Paths : Above[p] \subseteq Folders
  BY <1>1, <1>2, <1>4
<1>6. \A p \in Paths : p # Root => Parent[p] \in Above[p]
  BY <1>1 DEF Above
<1>7. ASSUME NEW p \in Paths, NEW a \in Above[p] PROVE Above[a] \subseteq Above[p]
  <2> SUFFICES ASSUME NEW b \in Above[a] PROVE b \in Above[p]
    OBVIOUS
  <2>1. a \in Paths /\ p # Root
    BY <1>2, <1>3, <1>5
  <2>2. b \in Paths /\ a # Root
    BY <1>2, <1>3, <1>5, <2>1
  <2>3. ASSUME NEW S \in SUBSET Paths, Parent[p] \in S,
               \A q \in S \ {Root} : Parent[q] \in S
        PROVE  b \in S
    <3>1. a \in S
      BY <1>4, <2>3
    <3>2. Parent[a] \in S
      BY <2>2, <2>3, <3>1
    <3> QED BY <1>4, <2>1, <2>3, <3>2
  <2> QED BY <2>1, <2>2, <2>3 DEF Above
<1>8. ASSUME NEW p \in Paths PROVE Above[p] \subseteq {Parent[p]} \cup Above[Parent[p]]
  <2> DEFINE S == {Parent[p]} \cup Above[Parent[p]]
  <2>1. S \in SUBSET Paths
    BY <1>1, <1>2, <1>5
  <2>2. ASSUME NEW q \in S \ {Root} PROVE Parent[q] \in S
    <3>1. CASE q = Parent[p]
      BY <1>1, <1>6, <2>2, <3>1
    <3>2. CASE q \in Above[Parent[p]]
      BY <1>1, <1>6, <1>7, <2>1, <2>2, <3>2
    <3> QED BY <3>1, <3>2
  <2> QED BY <1>4, <2>1, <2>2
<1> QED BY <1>3, <1>5, <1>6, <1>7, <1>8

\* What is there is in folders that are there, and a Forget in line, or the
\* Rename that becomes one, is of a path that is not, or of an unnoticed file.
TreeInv ==
    \A p \in Paths : source[p] # Absent => \A a \in Above[p] : source[a] # Absent
Lost(p) == source[p] = Absent \/ p \in unnoticed \cap Files
ForgetInv ==
    \A p \in Paths : (In(Forget(p), queue) \/ In(Renamed(p), events)) => Lost(p)

\* Only the user changes the tree, and only a start forgets what is unnoticed.
LEMMA TreeKept ==
    ASSUME [Next]_vars, ~User, ~UserDelete
    PROVE  /\ source' = source /\ (meta' = meta \/ ForgetFile)
           /\ unnoticed' = unnoticed \/ Start
BY DEF Next, Server, Process, Start, StartWatch, WatchCallback, Prepare, QueueEmpty,
       ProcessImportAll, ImportNothing, ImportUpToDate, ImportDirty, BeginImport,
       BuildSucceeds, BuildFails, StoreOutputs, RecordImport, ForgetFile, Crash,
       OnReconImport, OnReconImportAll, Request, vars, tree, history

\* Only the user tells of a Rename.
LEMMA RenamesKept ==
    ASSUME LinesOK, [Next]_vars, ~User, ~UserDelete
    PROVE  \A p : In(Renamed(p), events') => In(Renamed(p), events)
<1>1. CASE UNCHANGED events
  BY <1>1 DEF In, Renamed
<1>2. CASE events' = <<>>
  BY <1>2 DEF In
<1>3. CASE WatchCallback
  BY <1>3, WatchLines
<1>4. CASE ForgetFile
  BY <1>4, ForgetLines
<1> QED BY <1>1, <1>2, <1>3, <1>4
        DEF Next, Server, Process, Start, StartWatch, Prepare, QueueEmpty,
            ProcessImportAll, ImportNothing, ImportUpToDate, ImportDirty, BeginImport,
            BuildSucceeds, BuildFails, StoreOutputs, RecordImport, Crash,
            OnReconImport, OnReconImportAll, Request, vars

\* The ways the user changes the tree.
Edited(p) ==
    /\ p \in Files
    /\ \E c \in Contents \cup {Bad} : source' = [source EXCEPT ![p] = c]
    /\ source[p] # Absent
    /\ meta' = meta
    /\ Watching => p \in unnoticed' \/ Told(p)
    /\ \A q : In(Renamed(q), events') => In(Renamed(q), events) \/ (q = p /\ q \in unnoticed')
Created(p) ==
    /\ p \in Files
    /\ \E c \in Contents \cup {Bad} : source' = [source EXCEPT ![p] = c]
    /\ source[p] = Absent /\ source[Parent[p]] # Absent
    /\ p \in unnoticed'
    /\ \A q \in Paths \ {p} : meta'[q] = meta[q]
    /\ \A q : In(Renamed(q), events') => In(Renamed(q), events) \/ q = p
Deleted(p) ==
    /\ p \in Paths \ {Root}
    /\ source' = [q \in Paths |-> IF q \in {p} \cup Under(p) THEN Absent ELSE source[q]]
    /\ \A q \in Paths : \/ meta'[q] = meta[q]
                        \/ source'[q] = Absent /\ meta'[q] = NoUuid
    /\ \A q \in Folders : source'[q] = Absent => source[q] = Absent \/ meta'[q] = NoUuid
    /\ Watching => In(Renamed(p), events')
    /\ pc = "starting" => {p} \cup Under(p) \subseteq unnoticed'
    /\ \A q : In(Renamed(q), events') => In(Renamed(q), events) \/ q = p
Unmarked ==
    /\ "metas" \notin Assumed
    /\ source' = source
    /\ \A q \in Paths : meta'[q] \in {meta[q], NoUuid}
    /\ \A q : In(Renamed(q), events') => In(Renamed(q), events)

LEMMA UserSteps ==
    ASSUME TypeOK, LinesOK, User \/ UserDelete
    PROVE  /\ UNCHANGED <<sourceAssets, importedAssets, importDependencies, queue, pc, job>>
           /\ unnoticed \subseteq unnoticed'
           /\ "quiet" \in Assumed => ~Importing
           /\ \/ \E p : Edited(p) \/ Created(p) \/ Deleted(p)
              \/ Unmarked
<1>0. /\ \A p \in Paths : Changed(p) \in Event /\ Renamed(p) \in Event /\ MetaChanged(p) \in Event
      /\ \A p, q : Renamed(q) # Changed(p) /\ Renamed(q) # MetaChanged(p)
      /\ \A p, q : Renamed(q) = Renamed(p) => q = p
  BY DEF Changed, Renamed, MetaChanged, Event
<1>1. UserMay
  BY DEF User, UserDelete, Edit, Replace, Create, DeleteMeta, Delete
<1>2. ASSUME NEW p \in Files, NEW c \in Contents \cup {Bad}, Edit(p, c)
      PROVE  Edited(p)
  <2>1. Notify(<<Changed(p)>>) /\ p \in Paths
    BY <1>2 DEF Edit, Files
  <2>2. /\ Watching => In(Changed(p), events')
        /\ \A q : In(Renamed(q), events') => In(Renamed(q), events)
    BY <1>0, <2>1, NotifyOne
  <2>3. Watching => Told(p)
    BY <2>2 DEF Told, Changed
  <2> QED BY <1>2, <2>2, <2>3 DEF Edit, Edited
<1>3. ASSUME NEW p \in Files, NEW c \in Contents \cup {Bad}, Replace(p, c)
      PROVE  Edited(p)
  <2>1. Notify(<<Renamed(p)>>) /\ p \in Paths
    BY <1>3 DEF Replace, Files
  <2>2. Watching => p \in unnoticed'
    BY <1>3 DEF Replace
  <2>3. \A q : In(Renamed(q), events') => In(Renamed(q), events) \/ (Watching /\ q = p)
    BY <1>0, <2>1, NotifyOne
  <2> QED BY <1>3, <2>2, <2>3 DEF Replace, Edited
<1>4. ASSUME NEW p \in Files, NEW c \in Contents \cup {Bad}, Create(p, c)
      PROVE  Created(p)
  <2>1. \A y : In(y, events')
                  => In(y, events) \/ y \in {Renamed(p), Changed(p), MetaChanged(p)}
    BY <1>4, CreateTells DEF Files
  <2>3. \A q : In(Renamed(q), events') => In(Renamed(q), events) \/ q = p
    BY <1>0, <2>1 DEF Files
  <2>4. \A q \in Paths \ {p} : meta'[q] = meta[q]
    BY <1>4 DEF Create, TypeOK
  <2> QED BY <1>4, <2>3, <2>4 DEF Create, Created
<1>5. ASSUME NEW p \in Paths, Delete(p) PROVE Deleted(p)
  <2>0. Notify(<<Renamed(p)>>)
    BY <1>5 DEF Delete
  <2>1. /\ Watching => In(Renamed(p), events')
        /\ \A q : In(Renamed(q), events') => In(Renamed(q), events) \/ q = p
    BY <1>0, <2>0, NotifyOne
  <2>2. /\ \A q \in Paths : meta'[q] = meta[q] \/ (source'[q] = Absent /\ meta'[q] = NoUuid)
        /\ \A q \in Folders : source'[q] = Absent => source[q] = Absent \/ meta'[q] = NoUuid
    BY <1>5, RootAssumption DEF Delete
  <2>3. pc = "starting" => {p} \cup Under(p) \subseteq unnoticed'
    BY <1>5 DEF Delete
  <2> QED BY <1>5, <2>1, <2>2, <2>3 DEF Delete, Deleted
<1>6. CASE \E p \in Files : DeleteMeta(p)
  <2>1. PICK p \in Files : DeleteMeta(p)
    BY <1>6
  <2>2. \A q : In(Renamed(q), events') => In(Renamed(q), events)
    <3>1. Notify(<<MetaChanged(p)>>) /\ p \in Paths
      BY <2>1 DEF DeleteMeta, Files
    <3> QED BY <1>0, <3>1, NotifyOne
  <2>3. Unmarked
    BY <2>1, <2>2 DEF DeleteMeta, Unmarked, TypeOK
  <2> QED BY <1>1, <2>1, <2>3 DEF UserMay, tables, program, DeleteMeta
<1>7. unnoticed \subseteq unnoticed'
  BY DEF User, UserDelete, Edit, Replace, Create, DeleteMeta, Delete
<1> QED BY <1>1, <1>2, <1>3, <1>4, <1>5, <1>6, <1>7 DEF User, UserDelete, UserMay, tables, program

\* An edit leaves every file where it is; the other two say what is there.
LEMMA Presence ==
    ASSUME TypeOK
    PROVE  /\ \A p : Edited(p) =>
                 \A q \in Paths : source'[q] = Absent <=> source[q] = Absent
           /\ \A p : Created(p) =>
                 \A q \in Paths : source'[q] = Absent <=> source[q] = Absent /\ q # p
           /\ \A p : Deleted(p) =>
                 \A q \in Paths : /\ source'[q] # Absent => source'[q] = source[q]
                                  /\ source'[q] = Absent <=>
                                        source[q] = Absent \/ q = p \/ p \in Above[q]
           /\ \A p : Edited(p) \/ Created(p) =>
                 \A q \in Paths \ {p} : source'[q] = source[q]
BY ContentAssumption DEF TypeOK, Edited, Created, Deleted, Files, Under, Ancestors

\* The user leaves no file without its folder, and what he brings back or
\* replaces while it is to be forgotten is unnoticed.
LEMMA UserKeepsTree ==
    ASSUME TypeOK, TreeInv, NEW p, Edited(p) \/ Created(p) \/ Deleted(p)
    PROVE  TreeInv'
<1>1. Above' = Above
  BY DEF Above
<1>2. CASE Edited(p)
  BY <1>1, <1>2, Presence, AboveFacts, RootAssumption DEF TreeInv
<1>3. CASE Created(p)
  <2>1. p \in Paths \ {Root} /\ p \notin Folders /\ Parent[p] \in Paths
    BY <1>3, RootAssumption, ParentAssumption DEF Created, Files
  <2>2. \A a \in Above[p] : source[a] # Absent
    BY <1>3, <2>1, AboveFacts DEF Created, TreeInv
  <2> QED BY <1>1, <1>3, <2>1, <2>2, Presence, AboveFacts, RootAssumption DEF TreeInv
<1>4. CASE Deleted(p)
  BY <1>1, <1>4, Presence, AboveFacts, RootAssumption DEF TreeInv
<1> QED BY <1>2, <1>3, <1>4

LEMMA UserKeepsForgets ==
    ASSUME TypeOK, LinesOK, ForgetInv, unnoticed \subseteq unnoticed',
           NEW p, Edited(p) \/ Created(p) \/ Deleted(p), UNCHANGED queue
    PROVE  ForgetInv'
<1> SUFFICES ASSUME NEW q \in Paths, In(Forget(q), queue) \/ In(Renamed(q), events')
             PROVE  source'[q] = Absent \/ q \in unnoticed' \cap Files
  BY DEF ForgetInv, Lost, Forget, Renamed, Files
<1>1. CASE Lost(q)
  BY <1>1, Presence DEF Lost, Created
<1>2. CASE ~Lost(q)
  <2>1. ~In(Forget(q), queue) /\ ~In(Renamed(q), events)
    BY <1>2 DEF ForgetInv
  <2>2. q = p /\ (Edited(p) => q \in unnoticed')
    BY <2>1 DEF Edited, Created, Deleted
  <2> QED BY <2>2, Presence DEF Edited, Created
<1> QED BY <1>1, <1>2

\* What is in line to be forgotten is gone, or unnoticed.
LEMMA Gone_Invariance == Spec => [](TreeInv /\ ForgetInv)
<1> DEFINE Inv == TreeInv /\ ForgetInv
<1>1. Init => Inv
  <2> SUFFICES ASSUME Init PROVE Inv
    OBVIOUS
  <2>1. \A p \in Paths : source[p] # Absent
    BY ContentAssumption DEF Init
  <2>2. TreeInv
    BY <2>1, AboveFacts, RootAssumption DEF TreeInv
  <2>3. ForgetInv
    BY DEF Init, ForgetInv, In
  <2> QED BY <2>2, <2>3
<1>2. TypeOK /\ LinesOK /\ Inv /\ [Next]_vars => Inv'
  <2> SUFFICES ASSUME TypeOK, LinesOK, TreeInv, ForgetInv, [Next]_vars
               PROVE  TreeInv' /\ ForgetInv'
    OBVIOUS
  <2>1. CASE User \/ UserDelete
    <3>1. CASE \E p : Edited(p) \/ Created(p) \/ Deleted(p)
      BY <2>1, <3>1, UserSteps, UserKeepsTree, UserKeepsForgets
    <3>2. CASE Unmarked
      <4>1. UNCHANGED <<source, queue>> /\ unnoticed \subseteq unnoticed'
        BY <2>1, <3>2, UserSteps DEF Unmarked
      <4> QED BY <3>2, <4>1 DEF TreeInv, ForgetInv, Lost, Above, Unmarked, Forget, Renamed
    <3> QED BY <2>1, <3>1, <3>2, UserSteps
  <2>2. CASE ~User /\ ~UserDelete
    <3>1. source' = source /\ (unnoticed' = unnoticed \/ Start)
      BY <2>2, TreeKept
    <3>2. \A p : In(Renamed(p), events') => In(Renamed(p), events)
      BY <2>2, RenamesKept
    <3>3. CASE Start
      <4>1. \A p : ~In(Renamed(p), events')
        BY <3>3 DEF Start, In
      <4>2. \A p : In(Forget(p), queue') => source[p] = Absent
        BY <3>3, StartLines DEF StartsAfresh
      <4> QED BY <3>1, <4>1, <4>2 DEF TreeInv, ForgetInv, Lost, Above, Forget, Renamed
    <3>4. CASE WatchCallback /\ ~Start
      <4>1. \A p : In(Forget(p), queue') => In(Forget(p), queue) \/ In(Renamed(p), events)
        BY <3>4, WatchLines
      <4> QED BY <3>1, <3>2, <3>4, <4>1 DEF TreeInv, ForgetInv, Lost, Above, Forget, Renamed
    <3>5. CASE ~WatchCallback /\ ~Start
      <4>1. ForgetsGone
        <5>1. CASE ImportUpToDate \/ ImportDirty
          <6>1. PICK p, u : CheckFile(p, u)
            BY <5>1 DEF ImportUpToDate, ImportDirty
          <6>2. queue # <<>> /\ UNCHANGED events
            BY <5>1 DEF ImportUpToDate, ImportDirty, Command
          <6> QED BY <6>1, <6>2, CheckLines
        <5>2. CASE ImportNothing
          BY <5>2, TakenLines DEF ImportNothing, Command
        <5> QED BY <2>2, <3>5, <5>1, <5>2, EachStep, ElsewhereLines, EmptiedLines,
                   RequestLines, ImportAllLines, ForgetLines
      <4> QED BY <3>1, <3>2, <3>5, <4>1 DEF TreeInv, ForgetInv, Lost, ForgetsGone, Above, Forget, Renamed
    <3> QED BY <3>3, <3>4, <3>5
  <2> QED BY <2>1, <2>2
<1> QED BY <1>1, <1>2, TypeCorrect, LinesTyped, PTL DEF Spec

\* A Forget taken from the queue is of a path that is gone or an unnoticed file,
\* and so is everything under it.
LEMMA ForgetTakes ==
    ASSUME TypeOK, LinesOK, TreeInv, ForgetInv, ForgetFile
    PROVE  LET p == Head(queue).path IN
           /\ p \in Paths /\ Head(queue) = Forget(p) /\ Lost(p)
           /\ \A q \in Paths : p \in Above[q] => source[q] = Absent
<1> DEFINE p == Head(queue).path
<1>1. queue # <<>> /\ Head(queue).type = "Forget"
  BY DEF ForgetFile, Command
<1>2. Head(queue) \in Work /\ In(Head(queue), queue)
  BY <1>1, InTail DEF LinesOK
<1>3. p \in Paths /\ Head(queue) = Forget(p)
  BY <1>1, <1>2 DEF Work, Forget
<1>4. Lost(p)
  BY <1>2, <1>3 DEF ForgetInv
<1>5. ASSUME NEW q \in Paths, p \in Above[q] PROVE source[q] = Absent
  <2>1. p \in Folders
    BY <1>5, AboveFacts
  <2> QED BY <1>4, <1>5, <2>1 DEF Lost, Files, TreeInv
<1> QED BY <1>3, <1>4, <1>5

\* No .meta file is removed but of a path that is gone, or of a file created or
\* replaced since the server started (_forgetFile, _processQueue).
THEOREM ForgetsDeleted == Spec => ForgetsOnlyDeleted
<1> DEFINE Right == \A p \in Files : (ForgetFile /\ meta'[p] # meta[p])
                                       => source[p] = Absent \/ p \in unnoticed
<1>1. TypeOK /\ LinesOK /\ TreeInv /\ ForgetInv /\ [Next]_vars => [Right]_vars
  <2> SUFFICES ASSUME TypeOK, LinesOK, TreeInv, ForgetInv, ForgetFile,
                      NEW q \in Files, meta'[q] # meta[q]
               PROVE  source[q] = Absent \/ q \in unnoticed
    OBVIOUS
  <2> DEFINE p == Head(queue).path
  <2>1. Lost(p) /\ \A r \in Paths : p \in Above[r] => source[r] = Absent
    BY ForgetTakes
  <2>5. q \in Paths /\ (q = p \/ p \in Above[q])
    <3>1. PICK u : u \in UuidsOfPath(p) \cup Children(p) /\ sourceAssets[u].path = q
      BY DEF ForgetFile, TypeOK, Files
    <3>2. CASE u \in UuidsOfPath(p)
      BY <3>1, <3>2 DEF UuidsOfPath, Files
    <3>3. CASE u \in Children(p)
      BY <3>1, <3>3 DEF Children, Under, UuidsOfPath, Ancestors
    <3> QED BY <3>1, <3>2, <3>3
  <2> QED BY <2>1, <2>5 DEF Lost
<1> QED BY <1>1, TypeCorrect, LinesTyped, Gone_Invariance, PTL DEF Spec, ForgetsOnlyDeleted

-----------------------------------------------------------------------------
(***************************************************************************)
(* What has changed is noticed                                             *)
(***************************************************************************)
\* Where every source file has a .meta file and keeps it.
MetasGiven == "metas" \in Assumed /\ \A p \in Paths : FirstMeta[p] # NoUuid

\* Then every path has one row, and a file that is there the row of its .meta file.
RowsInv ==
    /\ \A p \in Paths \ unnoticed : source[p] # Absent => meta[p] # NoUuid
    /\ \A u, v \in Known : (/\ sourceAssets[u].path = sourceAssets[v].path
                            /\ sourceAssets[u].path \notin unnoticed)
                             => u = v
    /\ \A u \in Known : (/\ source[sourceAssets[u].path] # Absent
                         /\ sourceAssets[u].path \notin unnoticed)
                           => meta[sourceAssets[u].path] = u

\* Only what an importer is configured for has a row, and the .meta file of a
\* folder goes with it.
PlaceInv ==
    /\ \A u \in Known : sourceAssets[u].path \in Importable
    /\ \A p \in Folders : source[p] = Absent => meta[p] = NoUuid

\* The database has the file as it is, or its import is in one of the lines; at
\* the start it is in the queue in any case.
UpToDate(p) ==
    /\ meta[p] \in Known
    /\ sourceAssets[meta[p]].path = p /\ sourceAssets[meta[p]].hash = source[p]
Queued(p) ==
    \/ In(Import(p), queue)
    \/ \E y : In(y, events) /\ y.path = p /\ y.kind # "Rename"
NoticedInv ==
    pc # "down" =>
        \A p \in Importable \ ({Root} \cup unnoticed) :
            (source[p] # Absent /\ meta[p] # NoUuid) => UpToDate(p) \/ Queued(p)
ListedInv ==
    pc = "starting" =>
        \A p \in Paths \ ({Root} \cup unnoticed) :
            source[p] # Absent => In(Import(p), queue)

\* What is to be forgotten is in one of the lines, under its own name or that of
\* a folder it was in.  Of several rows of one path, where a .meta file is
\* missing, only that of the present .meta file counts.
Mine(u) == MetasGiven \/ meta[sourceAssets[u].path] = u
Missed(p) ==
    \E d \in {p} \cup Above[p] :
        source[d] = Absent /\ (In(Renamed(d), events) \/ In(Forget(d), queue))
MissedInv ==
    pc # "down" =>
        \A u \in Known : (/\ source[sourceAssets[u].path] = Absent
                         /\ sourceAssets[u].path \notin unnoticed /\ Mine(u))
                            => Missed(sourceAssets[u].path)

TrackInv == (MetasGiven => RowsInv) /\ PlaceInv /\ NoticedInv /\ ListedInv /\ MissedInv

\* The rows keep their paths and hashes.
RowsSame ==
    /\ Known' = Known
    /\ \A u \in Known : /\ sourceAssets'[u].path = sourceAssets[u].path
                        /\ sourceAssets'[u].hash = sourceAssets[u].hash

LEMMA StatusRows ==
    ASSUME TypeOK, NEW u, NEW s \in {"NEW", "PENDING", "IMPORTED", "FAILED"}, SetStatus(u, s)
    PROVE  RowsSame
<1>1. CASE u \in Known
  <2>1. sourceAssets[u] \in Row /\ u \in Uuids
    BY <1>1 DEF Known, TypeOK
  <2>2. [sourceAssets[u] EXCEPT !.status = s] \in Row
    BY <2>1 DEF Row
  <2>3. /\ sourceAssets'[u] \in Row
        /\ sourceAssets'[u].path = sourceAssets[u].path
        /\ sourceAssets'[u].hash = sourceAssets[u].hash
    BY <1>1, <2>1, <2>2 DEF SetStatus, TypeOK, Row
  <2>4. \A w \in Uuids \ {u} : sourceAssets'[w] = sourceAssets[w]
    BY <1>1 DEF SetStatus, TypeOK
  <2> QED BY <1>1, <2>1, <2>3, <2>4, RowAssumption DEF RowsSame, Known
<1>2. CASE u \notin Known
  BY <1>2 DEF SetStatus, RowsSame, Known
<1> QED BY <1>1, <1>2

LEMMA OpenedRows ==
    ASSUME TypeOK, OpenDatabase
    PROVE  RowsSame
<1>1. \A w \in Known : sourceAssets[w] \in Row
  BY DEF Known, TypeOK
<1>2. \A w \in Known : [sourceAssets[w] EXCEPT !.status = "FAILED"] \in Row
  BY <1>1 DEF Row
<1>3. ASSUME NEW w \in Known
      PROVE  /\ sourceAssets'[w] \in Row
             /\ sourceAssets'[w].path = sourceAssets[w].path
             /\ sourceAssets'[w].hash = sourceAssets[w].hash
  BY <1>1, <1>2 DEF OpenDatabase, Known, Row
<1>4. \A w \in Uuids \ Known : sourceAssets'[w] = sourceAssets[w]
  BY DEF OpenDatabase
<1> QED BY <1>3, <1>4, RowAssumption DEF RowsSame, Known

LEMMA ElsewhereRows ==
    ASSUME TypeOK, Elsewhere
    PROVE  /\ RowsSame /\ UNCHANGED <<source, meta, unnoticed>>
           /\ (pc' # "down" => pc # "down") /\ (pc' = "starting" => pc = "starting")
<1>1. /\ UNCHANGED <<source, meta, unnoticed>>
      /\ (pc' # "down" => pc # "down") /\ (pc' = "starting" => pc = "starting")
  BY DEF Elsewhere, StartWatch, Prepare, QueueEmpty, BeginImport, BuildSucceeds, BuildFails,
         StoreOutputs, RecordImport, vars, tree, history, program
<1>2. CASE UNCHANGED sourceAssets
  BY <1>1, <1>2 DEF RowsSame, Known
<1>3. CASE BeginImport \/ BuildFails \/ RecordImport
  BY <1>1, <1>3, StatusRows DEF BeginImport, BeginAssetImport, BuildFails, FailAssetImport,
                          RecordImport, RecordAssetImport
<1> QED BY <1>1, <1>2, <1>3 DEF Elsewhere, StartWatch, Prepare, QueueEmpty, BuildSucceeds,
                                StoreOutputs, vars, tables

\* A step that leaves rows and tree alone and loses nothing from the lines.
LEMMA SameRowsTrack ==
    ASSUME TrackInv, RowsSame, UNCHANGED <<source, meta, unnoticed>>,
           pc' # "down" => pc # "down", pc' = "starting" => pc = "starting",
           KeepsQueue, KeepsEvents
    PROVE  TrackInv'
<1>1. (MetasGiven => RowsInv') /\ PlaceInv'
  BY DEF TrackInv, RowsInv, PlaceInv, RowsSame, Importable
<1>2. NoticedInv'
  <2>1. \A p : Queued(p) => Queued(p)'
    BY DEF Queued, KeepsQueue, KeepsEvents, Import
  <2> QED BY <2>1 DEF TrackInv, NoticedInv, UpToDate, RowsSame, Importable
<1>3. MissedInv'
  <2>1. \A p : Missed(p) => Missed(p)'
    BY DEF Missed, KeepsQueue, KeepsEvents, Above, Renamed, Forget
  <2> QED BY <2>1 DEF TrackInv, MissedInv, Mine, MetasGiven, RowsSame, Missed
<1>4. ListedInv'
  BY DEF TrackInv, ListedInv, KeepsQueue, Import
<1> QED BY <1>1, <1>2, <1>3, <1>4 DEF TrackInv, MetasGiven

LEMMA StartTrack ==
    ASSUME TypeOK, LinesOK, TrackInv, Start
    PROVE  TrackInv'
<1>1. RowsSame /\ UNCHANGED <<source, meta>>
  BY OpenedRows DEF Start
<1>2. ListsAll
  BY StartLines
<1>3. \A p : p \in unnoticed /\ p \notin unnoticed'
               => meta[p] # NoUuid /\ UuidsOfPath(p) \subseteq {meta[p]}
  BY DEF Start
<1>4. MetasGiven => RowsInv'
  <2> SUFFICES ASSUME RowsInv PROVE RowsInv'
    BY DEF TrackInv
  <2>1. \A p \in Paths \ unnoticed' : source[p] # Absent => meta[p] # NoUuid
    BY <1>3 DEF RowsInv
  <2>2. ASSUME NEW u \in Known, NEW p, p = sourceAssets[u].path, p \notin unnoticed'
        PROVE  /\ source[p] # Absent => meta[p] = u
               /\ \A v \in Known : sourceAssets[v].path = p => v = u
    <3>1. CASE p \notin unnoticed
      BY <2>2, <3>1 DEF RowsInv
    <3>2. CASE p \in unnoticed
      <4>1. UuidsOfPath(p) \subseteq {meta[p]}
        BY <1>3, <2>2, <3>2
      <4> QED BY <2>2, <4>1 DEF UuidsOfPath
    <3> QED BY <3>1, <3>2
  <2> QED BY <1>1, <2>1, <2>2 DEF RowsInv, RowsSame
<1>5. PlaceInv'
  BY <1>1 DEF TrackInv, PlaceInv, RowsSame, Importable
<1>6. NoticedInv'
  BY <1>1, <1>2 DEF NoticedInv, Queued, ListsAll, Importable, Import
<1>7. MissedInv'
  BY <1>1, <1>2 DEF MissedInv, Missed, ListsAll, RowsSame
<1>8. ListedInv'
  BY <1>1, <1>2 DEF ListedInv, ListsAll, Import
<1> QED BY <1>4, <1>5, <1>6, <1>7, <1>8 DEF TrackInv, MetasGiven

\* The watch loses no import.
KeepsEvery ==
    \A p : /\ Queued(p) => Queued(p)'
           /\ In(Import(p), queue) => In(Import(p), queue')

LEMMA WatchImports ==
    ASSUME LinesOK, WatchCallback
    PROVE  KeepsEvery
<1> DEFINE e == Head(events)
<1>1. /\ KeepsQueue /\ In(WatchCommand(e), queue') /\ e \in Event
      /\ \A y : In(y, events) => y = e \/ In(y, events')
  BY WatchLines
<1> HIDE DEF e
<1>2. e.kind # "Rename" => WatchCommand(e) = Import(e.path)
  BY DEF WatchCommand
<1> SUFFICES ASSUME NEW p
             PROVE  /\ Queued(p) => Queued(p)'
                    /\ In(Import(p), queue) => In(Import(p), queue')
  BY DEF KeepsEvery
<1>3. In(Import(p), queue) => In(Import(p), queue') /\ Queued(p)'
  BY <1>1 DEF Queued, KeepsQueue, Import
<1>4. ASSUME NEW y, In(y, events), y.path = p, y.kind # "Rename" PROVE Queued(p)'
  <2>1. CASE y = e
    BY <1>1, <1>2, <1>4, <2>1 DEF Queued, Import
  <2>2. CASE In(y, events')
    BY <1>4, <2>2 DEF Queued
  <2> QED BY <1>1, <1>4, <2>1, <2>2
<1> QED BY <1>3, <1>4 DEF Queued

LEMMA WatchTrack ==
    ASSUME LinesOK, TrackInv, WatchCallback
    PROVE  TrackInv'
<1> DEFINE e == Head(events)
<1>1. /\ KeepsQueue /\ In(WatchCommand(e), queue')
      /\ \A y : In(y, events) => y = e \/ In(y, events')
  BY WatchLines
<1>2. UNCHANGED <<source, meta, unnoticed, sourceAssets, pc>> /\ pc = "poll"
  BY DEF WatchCallback, tree, history, tables
<1> HIDE DEF e
<1>3. \A d : e = Renamed(d) => WatchCommand(e) = Forget(d)
  BY DEF WatchCommand, Renamed
<1>4. (MetasGiven => RowsInv') /\ PlaceInv'
  BY <1>2 DEF TrackInv, RowsInv, PlaceInv, Known, Importable
<1>5. \A p : Queued(p) => Queued(p)'
  BY WatchImports DEF KeepsEvery, Queued, Import
<1>6. NoticedInv'
  BY <1>2, <1>5 DEF TrackInv, NoticedInv, UpToDate, Known, Importable
<1>7. MissedInv'
  <2>1. \A d : In(Renamed(d), events) \/ In(Forget(d), queue)
                  => In(Renamed(d), events') \/ In(Forget(d), queue')
    BY <1>1, <1>3 DEF KeepsQueue
  <2>2. \A p : Missed(p) => Missed(p)'
    BY <1>2, <2>1 DEF Missed, Above, Renamed, Forget
  <2> QED BY <1>2, <2>2 DEF TrackInv, MissedInv, Mine, MetasGiven, Known
<1>8. ListedInv'
  BY <1>2 DEF ListedInv
<1> QED BY <1>4, <1>6, <1>7, <1>8 DEF TrackInv, MetasGiven

\* The end of a command that is no Forget, and whose Import had nothing to do.
LEMMA TakenTrack ==
    ASSUME TrackInv, UNCHANGED <<source, meta, unnoticed, sourceAssets, pc>>,
           pc = "process", KeepsTail, KeepsEvents, Head(queue).type # "Forget",
           \A p \in Importable : Head(queue) = Import(p) => source[p] = Absent
    PROVE  TrackInv'
<1>1. (MetasGiven => RowsInv') /\ PlaceInv'
  BY DEF TrackInv, RowsInv, PlaceInv, Known, Importable
<1>2. \A p \in Importable : Queued(p) /\ source[p] # Absent => Queued(p)'
  BY DEF Queued, KeepsTail, KeepsEvents, Import
<1>3. NoticedInv'
  BY <1>2 DEF TrackInv, NoticedInv, UpToDate, Known, Importable
<1>4. MissedInv'
  <2>1. \A d : In(Forget(d), queue) => In(Forget(d), queue')
    BY DEF KeepsTail, Forget
  <2>2. \A p : Missed(p) => Missed(p)'
    BY <2>1 DEF Missed, Above, KeepsEvents, Renamed, Forget
  <2> QED BY <2>2 DEF TrackInv, MissedInv, Mine, MetasGiven, Known
<1> QED BY <1>1, <1>3, <1>4 DEF TrackInv, MetasGiven, ListedInv

LEMMA CheckTrack ==
    ASSUME TypeOK, LinesOK, MetaInv, TrackInv, NEW p \in Paths, NEW u \in UuidFor(p),
           CheckFile(p, u), queue # <<>>, p = Head(queue).path, Head(queue).type # "Forget",
           UNCHANGED <<source, meta, unnoticed, events>>, pc # "down", pc' # "starting"
    PROVE  TrackInv'
<1>1. source[p] # Absent /\ p \in Importable
  BY DEF CheckFile
<1>2. u \in Uuids /\ (meta[p] # NoUuid => u = meta[p]) /\ (u \in Known => meta[p] = u)
  BY CheckedIdentity DEF UuidFor
<1>3. \A q \in Paths : meta[q] = u => q = p
  BY CheckedIdentity
<1>4. /\ u \in Known'
      /\ sourceAssets'[u].path = p /\ sourceAssets'[u].hash = source[p]
      /\ \A w \in Uuids \ {u} : sourceAssets'[w] = sourceAssets[w]
  <2>1. sourceAssets'[u] \in Row
    <3>1. u \in Known => sourceAssets[u] \in Row
      BY DEF Known, TypeOK
    <3>2. u \in Known => sourceAssets[u].status \in {"NEW", "PENDING", "IMPORTED", "FAILED"}
      BY <3>1 DEF Row
    <3>3. source[p] \in Hash
      BY DEF TypeOK
    <3> QED BY <1>2, <3>2, <3>3 DEF CheckFile, UpdateSourceAsset, TypeOK, Row
  <2>2. /\ sourceAssets'[u].path = p /\ sourceAssets'[u].hash = source[p]
        /\ \A w \in Uuids \ {u} : sourceAssets'[w] = sourceAssets[w]
    BY <1>2 DEF CheckFile, UpdateSourceAsset, TypeOK
  <2> QED BY <1>2, <2>1, <2>2, RowAssumption DEF Known
<1>5. \A w : w \in Known /\ w # u <=> w \in Known' /\ w # u
  BY <1>4 DEF Known
<1>6. KeepsTail
  BY CheckLines
<1>7. \A w \in Known' : w # u => w \in Known /\ sourceAssets'[w] = sourceAssets[w]
  BY <1>4, <1>5 DEF Known
<1>8. MetasGiven => RowsInv'
  <2> SUFFICES ASSUME RowsInv PROVE RowsInv'
    BY DEF TrackInv
  <2>1. p \notin unnoticed => u = meta[p]
    BY <1>1, <1>2 DEF RowsInv
  <2>2. p \notin unnoticed => \A w \in Known : sourceAssets[w].path = p => w = u
    BY <1>1, <2>1 DEF RowsInv
  <2>3. ASSUME NEW w \in Known', sourceAssets'[w].path \notin unnoticed
        PROVE  /\ source[sourceAssets'[w].path] # Absent => meta[sourceAssets'[w].path] = w
               /\ \A v \in Known' : sourceAssets'[v].path = sourceAssets'[w].path => v = w
    <3>1. CASE sourceAssets'[w].path = p
      BY <1>4, <1>7, <2>1, <2>2, <2>3, <3>1
    <3>2. CASE sourceAssets'[w].path # p
      BY <1>4, <1>7, <2>3, <3>2 DEF RowsInv
    <3> QED BY <3>1, <3>2
  <2>4. \A q \in Paths \ unnoticed : source[q] # Absent => meta[q] # NoUuid
    BY DEF RowsInv
  <2>5. \A v, w \in Known' : (/\ sourceAssets'[v].path = sourceAssets'[w].path
                              /\ sourceAssets'[v].path \notin unnoticed')
                                => v = w
    BY <2>3
  <2>6. \A w \in Known' : (/\ source'[sourceAssets'[w].path] # Absent
                           /\ sourceAssets'[w].path \notin unnoticed')
                             => meta'[sourceAssets'[w].path] = w
    BY <2>3
  <2>7. \A q \in Paths \ unnoticed' : source'[q] # Absent => meta'[q] # NoUuid
    BY <2>4
  <2> QED BY <2>5, <2>6, <2>7 DEF RowsInv
<1>9. PlaceInv'
  BY <1>1, <1>4, <1>7 DEF TrackInv, PlaceInv, Importable
<1>10. NoticedInv'
  <2> SUFFICES ASSUME NEW q \in Importable' \ ({Root} \cup unnoticed'),
                      source'[q] # Absent, meta'[q] # NoUuid
               PROVE  UpToDate(q)' \/ Queued(q)'
    BY DEF NoticedInv
  <2>1. (UpToDate(q) \/ Queued(q)) /\ q \in Paths
    BY DEF TrackInv, NoticedInv, Importable
  <2>2. CASE q = p
    BY <1>2, <1>4, <2>2 DEF UpToDate
  <2>3. CASE q # p
    <3>1. UpToDate(q) => UpToDate(q)'
      BY <1>3, <1>4, <1>5, <2>1, <2>3 DEF UpToDate, Known
    <3>2. In(Import(q), queue) => In(Import(q), queue')
      BY <1>6, <2>3 DEF KeepsTail, Import
    <3> QED BY <2>1, <3>1, <3>2 DEF Queued, Import
  <2> QED BY <2>2, <2>3
<1>11. MissedInv'
  <2>1. \A d : In(Forget(d), queue) => In(Forget(d), queue')
    BY <1>6 DEF KeepsTail, Forget
  <2>2. \A q : Missed(q) => Missed(q)'
    BY <2>1 DEF Missed, Above, Renamed, Forget
  <2> QED BY <1>1, <1>4, <1>7, <2>2 DEF TrackInv, MissedInv, Mine, MetasGiven
<1> QED BY <1>8, <1>9, <1>10, <1>11 DEF TrackInv, MetasGiven, ListedInv

\* What a Forget takes: of a path that is lost a row, of what was under it every
\* row, and nothing of anything else.
LEMMA ForgetRows ==
    ASSUME TypeOK, LinesOK, TreeInv, ForgetInv, MetasGiven => RowsInv, PlaceInv, ForgetFile,
           NEW p, p = Head(queue).path
    PROVE  /\ p \in Paths /\ Head(queue) = Forget(p) /\ UNCHANGED <<source, pc, unnoticed>>
           /\ pc = "process"
           /\ \A w \in Known' : /\ w \in Known /\ sourceAssets'[w] = sourceAssets[w]
                                /\ sourceAssets[w].path # p => p \notin Above[sourceAssets[w].path]
                                /\ sourceAssets[w].path = p /\ p \notin unnoticed
                                      => ~MetasGiven /\ meta'[p] # w
           /\ \A w \in Known : ~Lost(sourceAssets[w].path) =>
                                  w \in Known' /\ sourceAssets'[w] = sourceAssets[w]
           /\ \A q \in Paths : meta'[q] = meta[q] \/ (Lost(q) /\ meta'[q] = NoUuid)
<1>1. queue # <<>> /\ pc = "process" /\ UNCHANGED <<source, pc, unnoticed>>
  BY DEF ForgetFile, Command, history
<1>3. /\ p \in Paths /\ Head(queue) = Forget(p)
      /\ \A q \in Paths : p \in Above[q] => source[q] = Absent
  BY ForgetTakes
<1>4. Lost(p)
  BY ForgetTakes
<1>5. PICK one \in {{u} : u \in UuidsOfPath(p)} \cup (IF UuidsOfPath(p) = {} THEN {{}} ELSE {}) :
         LET gone == one \cup Children(p)
             metas == {q \in Files : /\ meta[q] # NoUuid
                                     /\ \E u \in gone : sourceAssets[u].path = q}
         IN  /\ RemoveSourceAssets(gone)
             /\ meta' = [q \in Paths |-> IF q \in metas THEN NoUuid ELSE meta[q]]
  BY DEF ForgetFile
<1> DEFINE gone == one \cup Children(p)
<1>6. \A w \in Known : sourceAssets[w].path \in Paths
  BY DEF TypeOK, Known, Row
<1>7. /\ one \subseteq UuidsOfPath(p)
      /\ UuidsOfPath(p) # {} => \E u \in UuidsOfPath(p) : one = {u}
  BY <1>5
<1>8. \A w \in Known :
         w \in gone <=> \/ w \in one
                        \/ p \in Above[sourceAssets[w].path] /\ sourceAssets[w].path # p
  <2>1. ASSUME NEW w \in Known
        PROVE  w \in Children(p) <=> /\ p \in Above[sourceAssets[w].path]
                                     /\ sourceAssets[w].path # p
    BY <1>6 DEF UuidsOfPath, Children, Under, Ancestors
  <2> QED BY <2>1
<1>9. gone \subseteq Known /\ \A w \in one : sourceAssets[w].path = p
  BY <1>7 DEF UuidsOfPath, Children
<1>10. \A w \in gone : Lost(sourceAssets[w].path)
  BY <1>3, <1>4, <1>6, <1>8, <1>9 DEF Lost
<1>11. sourceAssets' = [w \in Uuids |-> IF w \in gone THEN NoRow ELSE sourceAssets[w]]
  BY <1>5 DEF RemoveSourceAssets
<1>12. \A q \in Paths : meta'[q] = meta[q] \/ (Lost(q) /\ meta'[q] = NoUuid)
  BY <1>5, <1>10
<1>13. ASSUME NEW w \in Known, w \notin gone, sourceAssets[w].path = p, p \notin unnoticed
       PROVE  ~MetasGiven /\ meta'[p] # w
  <2>1. PICK u \in UuidsOfPath(p) : one = {u}
    BY <1>7, <1>13 DEF UuidsOfPath
  <2>2. u \in gone /\ u # w /\ u \in Known /\ sourceAssets[u].path = p
    BY <1>13, <2>1 DEF UuidsOfPath
  <2>3. ~MetasGiven
    BY <1>13, <2>2 DEF RowsInv
  <2>4. meta'[p] = NoUuid
    <3>1. CASE p \in Folders
      BY <1>3, <1>4, <1>12, <3>1 DEF PlaceInv, Lost, Files
    <3>2. CASE p \notin Folders
      BY <1>3, <1>5, <2>2, <3>2 DEF Files
    <3> QED BY <3>1, <3>2
  <2> QED BY <2>3, <2>4, MetaAssumption DEF Known
<1> HIDE DEF gone
<1>14. \A w : w \in Known' <=> w \in Known /\ w \notin gone
  BY <1>11 DEF Known
<1>15. \A w \in Known : w \notin gone => sourceAssets'[w] = sourceAssets[w]
  BY <1>11 DEF Known
<1> QED BY <1>1, <1>3, <1>8, <1>10, <1>12, <1>13, <1>14, <1>15

LEMMA ForgetTrack ==
    ASSUME TypeOK, LinesOK, TreeInv, ForgetInv, TrackInv, ForgetFile
    PROVE  TrackInv'
<1> DEFINE p == Head(queue).path
<1>1. /\ p \in Paths /\ Head(queue) = Forget(p) /\ UNCHANGED <<source, pc, unnoticed>>
      /\ pc = "process"
      /\ \A w \in Known' : /\ w \in Known /\ sourceAssets'[w] = sourceAssets[w]
                           /\ sourceAssets[w].path # p => p \notin Above[sourceAssets[w].path]
                           /\ sourceAssets[w].path = p /\ p \notin unnoticed
                                 => ~MetasGiven /\ meta'[p] # w
      /\ \A w \in Known : ~Lost(sourceAssets[w].path) =>
                             w \in Known' /\ sourceAssets'[w] = sourceAssets[w]
      /\ \A q \in Paths : meta'[q] = meta[q] \/ (Lost(q) /\ meta'[q] = NoUuid)
  BY ForgetRows DEF TrackInv
<1>2. KeepsTail /\ KeepsEvents
  BY ForgetLines
<1> HIDE DEF p
<1>3. \A w \in Known : sourceAssets[w].path \in Paths
  BY DEF TypeOK, Known, Row
<1>4. MetasGiven => RowsInv'
  BY <1>1, <1>3 DEF TrackInv, RowsInv, Lost
<1>5. PlaceInv'
  BY <1>1, RootAssumption DEF TrackInv, PlaceInv, Importable
<1>6. NoticedInv'
  <2> SUFFICES ASSUME NEW q \in Importable' \ ({Root} \cup unnoticed'),
                      source'[q] # Absent, meta'[q] # NoUuid
               PROVE  UpToDate(q)' \/ Queued(q)'
    BY DEF NoticedInv
  <2>1. /\ q \in Paths /\ source[q] # Absent /\ meta'[q] = meta[q] /\ ~Lost(q)
        /\ UpToDate(q) \/ Queued(q)
    BY <1>1 DEF TrackInv, NoticedInv, Importable, Lost
  <2>2. UpToDate(q) => UpToDate(q)'
    BY <1>1, <2>1 DEF UpToDate
  <2>3. In(Import(q), queue) => In(Import(q), queue')
    BY <1>1, <1>2 DEF KeepsTail, Import, Forget
  <2> QED BY <1>2, <2>1, <2>2, <2>3 DEF Queued, Import, KeepsEvents
<1>7. MissedInv'
  <2>1. ASSUME NEW w \in Known', source'[sourceAssets'[w].path] = Absent, Mine(w)',
               NEW q, q = sourceAssets[w].path, q \notin unnoticed
        PROVE  Missed(q)'
    <3>1. w \in Known /\ source[q] = Absent /\ sourceAssets'[w].path = q /\ q \in Paths
      BY <1>1, <1>3, <2>1
    <3>2. MetasGiven \/ (meta'[q] = w /\ meta[q] = w)
      <4>1. w # NoUuid
        BY <3>1, MetaAssumption DEF Known
      <4> QED BY <1>1, <2>1, <3>1, <4>1 DEF Mine, MetasGiven
    <3>3. q # p /\ p \notin Above[q]
      BY <1>1, <2>1, <3>1, <3>2
    <3>4. Missed(q)
      BY <1>1, <2>1, <3>1, <3>2 DEF TrackInv, MissedInv, Mine
    <3>5. PICK d \in {q} \cup Above[q] :
             source[d] = Absent /\ (In(Renamed(d), events) \/ In(Forget(d), queue))
      BY <3>4 DEF Missed
    <3>6. In(Forget(d), queue) => In(Forget(d), queue')
      BY <1>1, <1>2, <3>3, <3>5 DEF KeepsTail, Forget
    <3>7. source'[d] = Absent /\ (In(Renamed(d), events') \/ In(Forget(d), queue'))
      BY <1>1, <1>2, <3>5, <3>6 DEF KeepsEvents
    <3>8. \E x \in {q} \cup Above[q] :
             source'[x] = Absent /\ (In(Renamed(x), events') \/ In(Forget(x), queue'))
      BY <3>5, <3>7
    <3> QED BY <3>8 DEF Missed, Above, Renamed, Forget
  <2> QED BY <1>1, <2>1 DEF MissedInv
<1> QED BY <1>1, <1>4, <1>5, <1>6, <1>7 DEF TrackInv, MetasGiven, ListedInv

\* The user: what an edit makes out of date or a deletion takes away is told of
\* where the server is watching, and in the queue or unnoticed where it starts.
LEMMA UserTrack ==
    ASSUME TypeOK, LinesOK, TrackInv, User \/ UserDelete
    PROVE  TrackInv'
<1>1. UNCHANGED <<sourceAssets, queue, pc>> /\ unnoticed \subseteq unnoticed'
  BY UserSteps
<1>2. PICK p : Edited(p) \/ Created(p) \/ Deleted(p) \/ Unmarked
  BY UserSteps
<1>3. KeepsEvents
  BY UserLines
<1>4. pc # "down" => Watching \/ pc = "starting"
  BY <1>1 DEF Watching
<1>5. Known' = Known
  BY <1>1 DEF Known
<1>6. \A w \in Known : sourceAssets[w].path \in Paths /\ w # NoUuid
  BY MetaAssumption DEF TypeOK, Known, Row
<1>7. MetasGiven => RowsInv'
  <2> SUFFICES ASSUME "metas" \in Assumed, RowsInv PROVE RowsInv'
    BY DEF TrackInv, MetasGiven
  <2>0. Edited(p) \/ Created(p) \/ Deleted(p)
    BY <1>2 DEF Unmarked
  <2>1. ASSUME NEW q \in Paths \ unnoticed', source'[q] # Absent
        PROVE  source[q] # Absent /\ meta'[q] = meta[q]
    BY <2>0, <2>1, Presence DEF Edited, Created, Deleted
  <2>2. \A q \in Paths \ unnoticed' : source'[q] # Absent => meta'[q] # NoUuid
    BY <1>1, <2>1 DEF RowsInv
  <2>3. \A u \in Known : (/\ source'[sourceAssets[u].path] # Absent
                          /\ sourceAssets[u].path \notin unnoticed')
                            => meta'[sourceAssets[u].path] = u
    <3> SUFFICES ASSUME NEW u \in Known, source'[sourceAssets[u].path] # Absent,
                        sourceAssets[u].path \notin unnoticed'
                 PROVE  meta'[sourceAssets[u].path] = u
      OBVIOUS
    <3>1. sourceAssets[u].path \in Paths \ unnoticed'
      BY <1>6
    <3>2. source[sourceAssets[u].path] # Absent
          /\ meta'[sourceAssets[u].path] = meta[sourceAssets[u].path]
      BY <2>1, <3>1
    <3>3. sourceAssets[u].path \notin unnoticed
      BY <1>1
    <3> QED BY <3>2, <3>3 DEF RowsInv
  <2>4. \A u, v \in Known : (/\ sourceAssets[u].path = sourceAssets[v].path
                             /\ sourceAssets[u].path \notin unnoticed')
                               => u = v
    BY <1>1 DEF RowsInv
  <2> QED BY <1>1, <1>5, <2>2, <2>3, <2>4 DEF RowsInv
<1>8. PlaceInv'
  <2>1. ASSUME NEW f \in Folders, source'[f] = Absent PROVE meta'[f] = NoUuid
    <3>1. f \in Paths /\ (source[f] = Absent => meta[f] = NoUuid)
      BY RootAssumption DEF TrackInv, PlaceInv
    <3> QED BY <1>2, <2>1, <3>1, Presence DEF Edited, Created, Deleted, Unmarked, Files
  <2> QED BY <1>1, <1>5, <2>1 DEF TrackInv, PlaceInv, Importable
<1>9. NoticedInv'
  <2> SUFFICES ASSUME pc # "down", NEW q \in Importable \ ({Root} \cup unnoticed'),
                      source'[q] # Absent, meta'[q] # NoUuid
               PROVE  UpToDate(q)' \/ Queued(q)'
    BY <1>1 DEF NoticedInv, Importable
  <2>1. q \in Paths /\ q \notin unnoticed
    BY <1>1 DEF Importable
  <2>2. CASE q = p /\ Told(p)
    BY <2>2 DEF Told, Queued
  <2>3. CASE pc = "starting" /\ source[q] # Absent
    BY <1>1, <2>1, <2>3 DEF TrackInv, ListedInv, Queued, Import
  <2>4. CASE ~(q = p /\ Told(p)) /\ ~(pc = "starting" /\ source[q] # Absent)
    <3>1. source[q] # Absent /\ source'[q] = source[q] /\ meta'[q] = meta[q]
      <4>1. q = p => Deleted(p) \/ Unmarked
        BY <1>2, <1>4, <2>4 DEF Edited, Created
      <4> QED BY <1>2, <2>1, <4>1, Presence DEF Edited, Created, Deleted, Unmarked
    <3>2. UpToDate(q) \/ Queued(q)
      BY <2>1, <3>1 DEF TrackInv, NoticedInv
    <3> QED BY <1>1, <1>3, <1>5, <3>1, <3>2 DEF Queued, UpToDate, KeepsEvents, Import
  <2> QED BY <2>2, <2>3, <2>4
<1>11. ListedInv'
  <2> SUFFICES ASSUME pc = "starting", NEW q \in Paths \ ({Root} \cup unnoticed'),
                      source'[q] # Absent
               PROVE  In(Import(q), queue')
    BY <1>1 DEF ListedInv, Import
  <2>1. source[q] # Absent /\ q \notin unnoticed
    BY <1>1, <1>2, Presence DEF Edited, Created, Deleted, Unmarked
  <2> QED BY <1>1, <2>1 DEF TrackInv, ListedInv
<1>10. MissedInv'
  <2>1. ASSUME pc # "down", NEW q \in Paths \ unnoticed', source[q] # Absent \/ Missed(q),
               source'[q] = Absent
        PROVE  Missed(q)'
    <3>1. CASE source[q] # Absent
      <4>1. Deleted(p) /\ p \in {q} \cup Above[q]
        BY <1>2, <2>1, <3>1, Presence DEF Unmarked
      <4>2. Watching
        <5>1. q \in {p} \cup Under(p)
          BY <2>1, <4>1 DEF Under, Ancestors
        <5> QED BY <1>4, <2>1, <4>1, <5>1 DEF Deleted
      <4>3. In(Renamed(p), events') /\ source'[p] = Absent
        BY <2>1, <4>1, <4>2, Presence DEF Deleted
      <4> QED BY <4>1, <4>3 DEF Missed, Above, Renamed
    <3>2. CASE Missed(q)
      <4>1. PICK d \in {q} \cup Above[q] :
               source[d] = Absent /\ (In(Renamed(d), events) \/ In(Forget(d), queue))
        BY <3>2 DEF Missed
      <4>2. d \in Paths /\ (d = q \/ d \in Folders)
        BY <2>1, <4>1, AboveFacts, RootAssumption
      <4>3. source'[d] = Absent
        <5>1. Created(p) => d # p
          BY <2>1, <4>2 DEF Created, Files
        <5> QED BY <1>2, <4>1, <4>2, <5>1, Presence DEF Unmarked
      <4>4. In(Renamed(d), events') \/ In(Forget(d), queue')
        BY <1>1, <1>3, <4>1 DEF KeepsEvents
      <4> QED BY <4>1, <4>3, <4>4 DEF Missed, Above, Renamed, Forget
    <3> QED BY <2>1, <3>1, <3>2
  <2>2. ASSUME pc # "down", NEW w \in Known, Mine(w)', NEW q, q = sourceAssets[w].path,
               source'[q] = Absent, q \notin unnoticed'
        PROVE  source[q] # Absent \/ Missed(q)
    <3>1. q \in Paths /\ w # NoUuid /\ q \notin unnoticed
      BY <1>1, <1>6, <2>2
    <3>2. ASSUME meta'[q] = w, source[q] = Absent PROVE meta[q] = w
      BY <1>2, <2>2, <3>1, <3>2, Presence DEF Edited, Created, Deleted, Unmarked
    <3>3. source[q] = Absent => Mine(w)
      BY <1>1, <2>2, <3>2 DEF Mine, MetasGiven
    <3> QED BY <2>2, <3>1, <3>3 DEF TrackInv, MissedInv
  <2>3. ASSUME pc # "down", NEW w \in Known, Mine(w)', NEW q, q = sourceAssets[w].path,
               source'[q] = Absent, q \notin unnoticed'
        PROVE  Missed(q)'
    BY <1>6, <2>1, <2>2, <2>3
  <2> QED BY <1>1, <1>5, <2>3 DEF MissedInv
<1> QED BY <1>7, <1>8, <1>9, <1>10, <1>11 DEF TrackInv, MetasGiven

\* The inductive invariant of tracking.
LEMMA Track_Invariance == Spec => []TrackInv
<1>1. Init => TrackInv
  <2> SUFFICES ASSUME Init PROVE TrackInv
    OBVIOUS
  <2>1. Known = {} /\ pc = "down" /\ meta = FirstMeta
    BY DEF Init, DatabaseInit, Known
  <2>2. \A p \in Paths : source[p] # Absent
    BY ContentAssumption DEF Init
  <2> QED BY <2>1, <2>2, RootAssumption
          DEF TrackInv, MetasGiven, RowsInv, PlaceInv, NoticedInv, ListedInv, MissedInv
<1>2. TypeOK /\ MetaInv /\ LinesOK /\ TreeInv /\ ForgetInv /\ TrackInv /\ [Next]_vars => TrackInv'
  <2> SUFFICES ASSUME TypeOK, MetaInv, LinesOK, TreeInv, ForgetInv, TrackInv, [Next]_vars
               PROVE  TrackInv'
    OBVIOUS
  <2>1. CASE Start
    BY <2>1, StartTrack
  <2>2. CASE Elsewhere
    BY <2>2, ElsewhereLines, ElsewhereRows, SameRowsTrack
  <2>3. CASE Crash
    <3>1. UNCHANGED <<source, meta, unnoticed, sourceAssets>> /\ pc' = "down"
      BY <2>3 DEF Crash, tables, tree, history
    <3> QED BY <3>1
            DEF TrackInv, MetasGiven, RowsInv, PlaceInv, NoticedInv, ListedInv, MissedInv,
                Known, Importable
  <2>4. CASE WatchCallback
    BY <2>4, WatchTrack
  <2>5. CASE OnReconImport \/ OnReconImportAll
    <3>1. UNCHANGED <<source, meta, unnoticed, sourceAssets, pc, events>>
      BY <2>5 DEF OnReconImport, OnReconImportAll, Request, tables, tree, history
    <3>2. RowsSame /\ KeepsEvents
      BY <3>1 DEF RowsSame, KeepsEvents, Known
    <3> QED BY <2>5, <3>1, <3>2, RequestLines, SameRowsTrack
  <2>6. CASE User \/ UserDelete
    BY <2>6, UserTrack
  <2>7. CASE ProcessImportAll
    <3>1. UNCHANGED <<source, meta, unnoticed, sourceAssets, pc, events>> /\ pc = "process"
      BY <2>7 DEF ProcessImportAll, Command, tables, tree, history
    <3> QED BY <2>7, <3>1, ImportAllLines, TakenTrack DEF KeepsEvents, Import
  <2>8. CASE ImportNothing
    <3>1. /\ UNCHANGED <<source, meta, unnoticed, sourceAssets, pc, events>> /\ pc = "process"
          /\ queue # <<>> /\ queue' = Tail(queue)
          /\ Head(queue).type \in {"Import", "ForceImport"}
          /\ source[Head(queue).path] = Absent \/ Head(queue).path \notin Importable
      BY <2>8 DEF ImportNothing, Command, tables, tree, history
    <3>2. KeepsTail
      BY <3>1, TakenLines
    <3>3. \A p \in Importable : Head(queue) = Import(p) => source[p] = Absent
      BY <3>1 DEF Import
    <3> QED BY <3>1, <3>2, <3>3, TakenTrack DEF KeepsEvents
  <2>9. CASE ForgetFile
    BY <2>9, ForgetTrack
  <2>10. CASE ImportUpToDate \/ ImportDirty
    <3> DEFINE p == Head(queue).path
    <3>1. PICK u \in UuidFor(p) : CheckFile(p, u)
      BY <2>10 DEF ImportUpToDate, ImportDirty
    <3>2. p \in Paths
      BY <3>1 DEF CheckFile, Importable
    <3>3. /\ UNCHANGED <<source, meta, unnoticed, events>> /\ queue # <<>>
          /\ pc # "down" /\ pc' # "starting" /\ Head(queue).type # "Forget"
      BY <2>10 DEF ImportUpToDate, ImportDirty, Command, tree, history
    <3> QED BY <3>1, <3>2, <3>3, CheckTrack
  <2> QED BY <2>1, <2>2, <2>3, <2>4, <2>5, <2>6, <2>7, <2>8, <2>9, <2>10, EachStep
<1>3. Spec => [](TreeInv /\ ForgetInv)
  BY Gone_Invariance
<1> QED BY <1>1, <1>2, <1>3, TypeCorrect, Identity, LinesTyped, PTL DEF Spec

\* When the server has nothing left to do it has noticed every change of the
\* tree but those of unnoticed files, whatever happened and wherever it died
\* (_collectSourceFiles, _collectMissingFiles, the watch callback, _importFile,
\* _forgetFile).
THEOREM EverythingTracked ==
    ASSUME "metas" \in Assumed, \A p \in Paths : FirstMeta[p] # NoUuid
    PROVE  Spec => []Tracked
<1>1. TrackInv => Tracked
  <2> SUFFICES ASSUME TrackInv, Settled PROVE Tracked
    BY DEF Tracked
  <2>1. pc # "down" /\ (\A y : ~In(y, queue)) /\ \A y : ~In(y, events)
    BY DEF Settled, In
  <2>2. MetasGiven /\ RowsInv
    BY DEF MetasGiven, TrackInv
  <2>3. \A p \in Importable \ ({Root} \cup unnoticed) : source[p] # Absent => UpToDate(p)
    BY <2>1, <2>2 DEF TrackInv, NoticedInv, Queued, RowsInv, Importable
  <2>4. \A u \in Known : sourceAssets[u].path \notin unnoticed
                            => source[sourceAssets[u].path] # Absent
    BY <2>1, <2>2 DEF TrackInv, MissedInv, Missed, Mine
  <2> QED BY <2>3, <2>4 DEF Tracked, UpToDate
<1>2. Spec => []TrackInv
  BY Track_Invariance
<1> QED BY <1>1, <1>2, PTL

-----------------------------------------------------------------------------
(***************************************************************************)
(* What is imported is the build of the present tree                       *)
(***************************************************************************)
\* The import of u is done, and not about to be done again.
Done(u) == sourceAssets[u].status = "IMPORTED" /\ ~(pc = "begin" /\ job.uuid = u)

\* An included file that is there has not the content the build has read.
Stale(d) ==
    d[1] \in Importable \ ({Root} \cup unnoticed) /\ source[d[1]] \notin {Absent, d[2]}

\* Then the file, whose check enqueues what it dirties, or the asset itself is
\* in one of the lines.
DepsInv ==
    pc # "down" =>
        \A u \in Known :
            LET p == sourceAssets[u].path IN
            (Done(u) /\ meta[p] = u /\ source[p] # Absent /\ p \notin unnoticed) =>
                \A d \in importDependencies[u] :
                    Stale(d) => Queued(d[1]) \/ In(Import(p), queue)

\* A step that loses no import of what is there, and makes no import done.
KeepsImports ==
    \A p \in Importable :
        source[p] # Absent => /\ Queued(p) => Queued(p)'
                              /\ In(Import(p), queue) => In(Import(p), queue')
KeepsDone ==
    \A w \in Known' :
        Done(w)' => /\ w \in Known /\ Done(w)
                    /\ sourceAssets'[w].path = sourceAssets[w].path
                    /\ importDependencies'[w] = importDependencies[w]

LEMMA KeptDeps ==
    ASSUME DepsInv, PlaceInv, pc' # "down" => pc # "down", KeepsImports, KeepsDone,
           UNCHANGED <<source, unnoticed>>, \A q \in Paths : meta'[q] \in {meta[q], NoUuid}
    PROVE  DepsInv'
<1> SUFFICES ASSUME pc # "down", NEW w \in Known', NEW p, p = sourceAssets'[w].path,
                    Done(w)', meta'[p] = w, source[p] # Absent, p \notin unnoticed,
                    NEW d \in importDependencies'[w], Stale(d)'
             PROVE  Queued(d[1])' \/ In(Import(p), queue')
  BY DEF DepsInv, Import
<1>1. /\ w \in Known /\ Done(w) /\ p = sourceAssets[w].path /\ d \in importDependencies[w]
      /\ p \in Importable /\ w # NoUuid
  BY MetaAssumption DEF KeepsDone, PlaceInv, Known
<1>2. meta[p] = w
  BY <1>1 DEF Importable
<1>3. Stale(d) /\ d[1] \in Importable /\ source[d[1]] # Absent
  BY DEF Stale, Importable
<1>4. Queued(d[1]) \/ In(Import(p), queue)
  BY <1>1, <1>2, <1>3 DEF DepsInv
<1> QED BY <1>1, <1>3, <1>4 DEF KeepsImports

\* A step that leaves the tables, the job and the place of the thread alone.
LEMMA SameDone ==
    ASSUME UNCHANGED <<tables, pc, job>>
    PROVE  KeepsDone
BY DEF KeepsDone, Done, Known, tables

LEMMA TakenImports ==
    ASSUME KeepsTail, KeepsEvents,
           \A p \in Importable : Head(queue) = Import(p) => source[p] = Absent
    PROVE  KeepsImports
BY DEF KeepsImports, Queued, KeepsTail, KeepsEvents, Import

LEMMA StartDeps ==
    ASSUME TypeOK, LinesOK, Start
    PROVE  DepsInv'
<1>1. source' = source
  BY DEF Start
<1>2. ListsAll
  BY StartLines
<1>3. \A d : Stale(d)' => Queued(d[1])'
  BY <1>1, <1>2 DEF Stale, ListsAll, Queued, Importable, Import
<1> QED BY <1>3 DEF DepsInv

LEMMA ElsewhereDeps ==
    ASSUME TypeOK, LinesOK, PlaceInv, DepsInv, Elsewhere
    PROVE  DepsInv'
<1>1. KeepsQueue /\ KeepsEvents
  BY ElsewhereLines
<1>2. UNCHANGED <<source, meta, unnoticed>> /\ (pc' # "down" => pc # "down")
  BY ElsewhereRows
<1>3. KeepsImports
  BY <1>1 DEF KeepsImports, Queued, KeepsQueue, KeepsEvents, Import
<1>4. CASE RecordImport
  <2>1. /\ pc = "record" /\ job \in Job /\ SetStatus(job.uuid, "IMPORTED")
        /\ pc' = "process"
        /\ importDependencies' = [importDependencies EXCEPT ![job.uuid] = Read(job.path, source)]
    BY <1>4 DEF RecordImport, RecordAssetImport, TypeOK, Importing
  <2>2. \A w \in Known' : /\ w \in Known
                          /\ sourceAssets'[w].path = sourceAssets[w].path
                          /\ w # job.uuid => sourceAssets'[w] = sourceAssets[w]
    BY <2>1, SetStatusRows
  <2>3. \A d \in importDependencies'[job.uuid] : ~Stale(d)'
    <3>1. importDependencies'[job.uuid] = Read(job.path, source)
      BY <2>1 DEF TypeOK, Job
    <3> QED BY <1>2, <3>1 DEF Read, Stale
  <2> SUFFICES ASSUME NEW w \in Known', NEW p, p = sourceAssets'[w].path,
                      Done(w)', meta'[p] = w, source'[p] # Absent, p \notin unnoticed',
                      NEW d \in importDependencies'[w], Stale(d)'
               PROVE  Queued(d[1])' \/ In(Import(p), queue')
    BY DEF DepsInv, Import
  <2>4. w # job.uuid
    BY <2>3
  <2>5. /\ w \in Known /\ p = sourceAssets[w].path /\ d \in importDependencies[w]
        /\ Done(w) /\ meta[p] = w /\ source[p] # Absent /\ p \notin unnoticed
    BY <1>2, <2>1, <2>2, <2>4 DEF Done, TypeOK
  <2>6. Stale(d) /\ d[1] \in Importable /\ source[d[1]] # Absent
    BY <1>2 DEF Stale, Importable
  <2>7. Queued(d[1]) \/ In(Import(p), queue)
    BY <2>1, <2>5, <2>6 DEF DepsInv
  <2>8. p \in Importable
    BY <2>5 DEF PlaceInv
  <2> QED BY <2>5, <2>6, <2>7, <2>8, <1>3 DEF KeepsImports
<1>5. CASE BeginImport \/ BuildFails
  <2>1. PICK s \in {"PENDING", "FAILED"} : SetStatus(job.uuid, s)
    BY <1>5 DEF BeginImport, BuildFails, BeginAssetImport, FailAssetImport
  <2>2. \A w \in Known' : /\ w \in Known
                          /\ sourceAssets'[w].path = sourceAssets[w].path
                          /\ w # job.uuid => sourceAssets'[w] = sourceAssets[w]
                          /\ w = job.uuid => sourceAssets'[w].status = s
    BY <2>1, SetStatusRows
  <2>3. \A w \in Uuids : w # job.uuid => importDependencies'[w] = importDependencies[w]
    BY <1>5 DEF BeginImport, BuildFails, BeginAssetImport, FailAssetImport, TypeOK
  <2>4. KeepsDone
    BY <2>1, <2>2, <2>3 DEF KeepsDone, Done, Known
  <2> QED BY <1>2, <1>3, <2>4, KeptDeps
<1>6. CASE StartWatch \/ Prepare \/ QueueEmpty \/ BuildSucceeds \/ StoreOutputs
  <2>1. UNCHANGED tables /\ pc # "begin" /\ pc' # "begin"
    BY <1>6 DEF StartWatch, Prepare, QueueEmpty, BuildSucceeds, StoreOutputs
  <2>2. KeepsDone
    BY <2>1 DEF KeepsDone, Done, Known, tables
  <2> QED BY <1>2, <1>3, <2>2, KeptDeps
<1>7. CASE UNCHANGED vars
  <2>1. KeepsDone
    BY <1>7, SameDone DEF vars, program
  <2> QED BY <1>2, <1>3, <2>1, KeptDeps
<1> QED BY <1>4, <1>5, <1>6, <1>7 DEF Elsewhere

LEMMA UserDeps ==
    ASSUME TypeOK, LinesOK, ListedInv, DepsInv, User \/ UserDelete
    PROVE  DepsInv'
<1>1. /\ UNCHANGED <<sourceAssets, importedAssets, importDependencies, queue, pc, job>>
      /\ unnoticed \subseteq unnoticed'
  BY UserSteps
<1>2. PICK e : Edited(e) \/ Created(e) \/ Deleted(e) \/ Unmarked
  BY UserSteps
<1>3. KeepsEvents
  BY UserLines
<1> SUFFICES ASSUME pc # "down", NEW w \in Known, NEW p, p = sourceAssets[w].path,
                    Done(w), meta'[p] = w, source'[p] # Absent, p \notin unnoticed',
                    NEW d \in importDependencies[w], Stale(d)'
             PROVE  Queued(d[1])' \/ In(Import(p), queue')
  BY <1>1 DEF DepsInv, Import, Known, Done
<1>4. Watching \/ pc = "starting"
  BY <1>1 DEF Watching
<1>5. /\ p \in Paths /\ w # NoUuid /\ p \notin unnoticed
      /\ d[1] \in Paths \ {Root} /\ d[1] \notin unnoticed' /\ d[1] \notin unnoticed
  BY <1>1, MetaAssumption DEF TypeOK, Known, Row, Stale, Importable
<1>6. CASE source'[d[1]] # source[d[1]]
  <2>1. Edited(d[1])
    <3>1. e = d[1] /\ ~Deleted(e)
      BY <1>2, <1>5, <1>6, Presence DEF Unmarked, Stale
    <3> QED BY <1>2, <1>5, <1>6, <3>1 DEF Created, Unmarked
  <2>2. CASE Watching
    BY <1>5, <2>1, <2>2 DEF Edited, Told, Queued
  <2>3. CASE pc = "starting"
    <3>1. In(Import(d[1]), queue)
      BY <1>5, <2>1, <2>3 DEF Edited, ListedInv
    <3> QED BY <1>1, <3>1 DEF Queued, Import
  <2> QED BY <1>4, <2>2, <2>3
<1>7. CASE source'[d[1]] = source[d[1]]
  <2>1. Stale(d)
    BY <1>1, <1>7 DEF Stale, Importable
  <2>2. ~(Created(e) /\ e = p)
    BY DEF Created
  <2>3. source[p] # Absent
    BY <1>2, <1>5, <2>2, Presence DEF Unmarked
  <2>4. meta[p] = w
    BY <1>2, <1>5, <2>2 DEF Edited, Created, Deleted, Unmarked
  <2>5. Queued(d[1]) \/ In(Import(p), queue)
    BY <1>5, <2>1, <2>3, <2>4 DEF DepsInv
  <2> QED BY <1>1, <1>3, <2>5 DEF Queued, KeepsEvents, Import
<1> QED BY <1>6, <1>7

LEMMA CheckDeps ==
    ASSUME TypeOK, LinesOK, MetaInv, DepsInv, NEW p \in Paths, NEW u \in UuidFor(p),
           CheckFile(p, u), queue # <<>>, p = Head(queue).path, pc = "process",
           UNCHANGED <<importDependencies, source, meta, unnoticed, events>>,
           ~Dirty(p, u) \/ (pc' = "begin" /\ job'.uuid = u)
    PROVE  DepsInv'
<1>1. u \in Uuids /\ (meta[p] # NoUuid => u = meta[p])
  BY CheckedIdentity DEF UuidFor
<1>2. \A w \in Known' : w # u => w \in Known /\ sourceAssets'[w] = sourceAssets[w]
  BY <1>1, CheckedRows
<1>3. /\ KeepsTail
      /\ \A w \in DirtiedBy(p, source[p]) : In(Import(sourceAssets[w].path), queue')
  BY CheckLines
<1> SUFFICES ASSUME NEW w \in Known', NEW q, q = sourceAssets'[w].path,
                    Done(w)', meta[q] = w, source[q] # Absent, q \notin unnoticed,
                    NEW d \in importDependencies[w], Stale(d)'
             PROVE  Queued(d[1])' \/ In(Import(q), queue')
  BY DEF DepsInv, Import
<1>4. Stale(d) /\ source[d[1]] # d[2]
  BY DEF Stale, Importable
<1>5. w # u
  BY <1>4 DEF Dirty, DependenciesDirty, Done
<1>6. w \in Known /\ sourceAssets[w].path = q /\ Done(w)
  BY <1>2, <1>5 DEF Done
<1>7. Queued(d[1]) \/ In(Import(q), queue)
  BY <1>4, <1>6 DEF DepsInv
<1>8. In(Import(q), queue) => In(Import(q), queue')
  <2>1. Head(queue) # Import(q)
    <3>1. w # NoUuid
      BY <1>6, MetaAssumption DEF Known
    <3> QED BY <1>1, <1>5, <3>1 DEF Import
  <2> QED BY <1>3, <2>1 DEF KeepsTail
<1>9. In(Import(d[1]), queue) => In(Import(d[1]), queue') \/ In(Import(q), queue')
  <2>1. CASE Head(queue) = Import(d[1])
    <3>1. p = d[1]
      BY <2>1 DEF Import
    <3>2. w \in DirtiedBy(p, source[p])
      BY <1>4, <1>6, <3>1 DEF DirtiedBy
    <3> QED BY <1>3, <1>6, <3>2
  <2>2. CASE Head(queue) # Import(d[1])
    BY <1>3, <2>2 DEF KeepsTail
  <2> QED BY <2>1, <2>2
<1> QED BY <1>7, <1>8, <1>9 DEF Queued, Import

\* The inductive invariant of rebuilding.
LEMMA Deps_Invariance == Spec => []DepsInv
<1>1. Init => DepsInv
  BY DEF Init, DepsInv
<1>2. TypeOK /\ MetaInv /\ LinesOK /\ TrackInv /\ DepsInv /\ [Next]_vars => DepsInv'
  <2> SUFFICES ASSUME TypeOK, MetaInv, LinesOK, PlaceInv, ListedInv, DepsInv, [Next]_vars
               PROVE  DepsInv'
    BY DEF TrackInv
  <2>1. CASE Start
    BY <2>1, StartDeps
  <2>2. CASE Elsewhere
    BY <2>2, ElsewhereDeps
  <2>3. CASE Crash
    BY <2>3 DEF Crash, DepsInv
  <2>4. CASE WatchCallback
    <3>1. UNCHANGED <<source, meta, unnoticed, tables, pc, job>>
      BY <2>4 DEF WatchCallback, tree, history
    <3>2. KeepsImports
      BY <2>4, WatchImports DEF KeepsEvery, KeepsImports, Queued, Import
    <3> QED BY <3>1, <3>2, SameDone, KeptDeps
  <2>5. CASE OnReconImport \/ OnReconImportAll
    <3>1. UNCHANGED <<source, meta, unnoticed, tables, pc, job, events>>
      BY <2>5 DEF OnReconImport, OnReconImportAll, Request, tree, history
    <3>2. KeepsImports
      BY <2>5, <3>1, RequestLines DEF KeepsImports, KeepsQueue, Queued, Import
    <3> QED BY <3>1, <3>2, SameDone, KeptDeps
  <2>6. CASE User \/ UserDelete
    BY <2>6, UserDeps
  <2>7. CASE ProcessImportAll
    <3>1. UNCHANGED <<source, meta, unnoticed, tables, pc, job, events>>
      BY <2>7 DEF ProcessImportAll, tree, history
    <3>2. KeepsImports
      BY <2>7, <3>1, ImportAllLines, TakenImports DEF KeepsEvents, Import
    <3> QED BY <3>1, <3>2, SameDone, KeptDeps
  <2>8. CASE ImportNothing
    <3>1. /\ UNCHANGED <<source, meta, unnoticed, tables, pc, job, events>>
          /\ queue # <<>> /\ queue' = Tail(queue)
          /\ source[Head(queue).path] = Absent \/ Head(queue).path \notin Importable
      BY <2>8 DEF ImportNothing, Command, tree, history
    <3>2. KeepsTail
      BY <3>1, TakenLines
    <3>3. \A p \in Importable : Head(queue) = Import(p) => source[p] = Absent
      BY <3>1 DEF Import
    <3>4. KeepsImports
      BY <3>1, <3>2, <3>3, TakenImports DEF KeepsEvents
    <3> QED BY <3>1, <3>4, SameDone, KeptDeps
  <2>9. CASE ForgetFile
    <3>1. KeepsTail /\ KeepsEvents
      BY <2>9, ForgetLines
    <3>2. KeepsImports
      BY <2>9, <3>1, TakenImports DEF ForgetFile, Command, Import
    <3>3. /\ UNCHANGED <<source, unnoticed, pc, job, importDependencies>>
          /\ \A q \in Paths : meta'[q] \in {meta[q], NoUuid}
      BY <2>9 DEF ForgetFile, RemoveSourceAssets, history
    <3>4. \A w \in Known' : w \in Known /\ sourceAssets'[w] = sourceAssets[w]
      BY <2>9 DEF ForgetFile, RemoveSourceAssets, Known
    <3>5. KeepsDone
      BY <3>3, <3>4 DEF KeepsDone, Done
    <3> QED BY <3>2, <3>3, <3>5, KeptDeps
  <2>10. CASE ImportUpToDate \/ ImportDirty
    <3> DEFINE p == Head(queue).path
    <3>1. PICK u \in UuidFor(p) :
             CheckFile(p, u) /\ (~Dirty(p, u) \/ (pc' = "begin" /\ job'.uuid = u))
      <4>1. CASE ImportUpToDate
        BY <4>1 DEF ImportUpToDate
      <4>2. CASE ImportDirty
        <5>1. PICK u \in UuidFor(p) :
                 CheckFile(p, u) /\ job' = [uuid |-> u, path |-> p, outputs |-> {}]
          BY <4>2 DEF ImportDirty
        <5>2. pc' = "begin" /\ job'.uuid = u
          BY <4>2, <5>1 DEF ImportDirty
        <5> QED BY <5>1, <5>2
      <4> QED BY <2>10, <4>1, <4>2
    <3>2. p \in Paths
      BY <3>1 DEF CheckFile, Importable
    <3>3. /\ UNCHANGED <<importDependencies, source, meta, unnoticed, events>>
          /\ pc = "process" /\ queue # <<>>
      BY <2>10 DEF ImportUpToDate, ImportDirty, Command, tree, history
    <3> QED BY <3>1, <3>2, <3>3, CheckDeps
  <2> QED BY <2>1, <2>2, <2>3, <2>4, <2>5, <2>6, <2>7, <2>8, <2>9, <2>10, EachStep
<1>3. Spec => []TrackInv
  BY Track_Invariance
<1> QED BY <1>1, <1>2, <1>3, TypeCorrect, Identity, LinesTyped, PTL DEF Spec

\* When the server has nothing left to do, what it calls imported is the build
\* of the present tree: an edit of an included file reaches everything built
\* from it (findSourceAssetsDirtiedBy, _importFile, _recordImport).
THEOREM EverythingBuilt ==
    ASSUME {"quiet", "between"} \subseteq Assumed,
           \A p \in Paths : Includes[p] \subseteq Importable
    PROVE  Spec => []Built
<1>1. TypeOK /\ TrackInv /\ HonestInv /\ DepsInv => Built
  <2> SUFFICES ASSUME TypeOK, TrackInv, HonestInv, DepsInv, Settled, NEW u \in Known,
                      NEW p, p = sourceAssets[u].path,
                      sourceAssets[u].status = "IMPORTED", meta[p] = u,
                      \A q \in Includes[p] : source[q] # Absent,
                      ({p} \cup Includes[p]) \cap unnoticed = {}
               PROVE  importedAssets[u] = Outputs(p, source)
    BY DEF Built
  <2>1. pc = "poll" /\ (\A y : ~In(y, queue)) /\ \A y : ~In(y, events)
    BY DEF Settled, In
  <2>2. p \in Importable /\ p \in Paths /\ u # NoUuid
    BY MetaAssumption DEF TrackInv, PlaceInv, Importable, Known
  <2>3. Complete(u)
    BY <2>1 DEF HonestInv
  <2>4. CASE p \in Folders \cup Silent
    BY <2>3, <2>4 DEF Complete, Honest, Outputs
  <2>5. CASE p \notin Folders \cup Silent
    <3>1. p # Root
      BY <2>5, RootAssumption
    <3>2. source[p] # Absent
      BY <2>1 DEF TrackInv, MissedInv, Missed, Mine
    <3>3. sourceAssets[u].hash = source[p]
      BY <2>1, <2>2, <3>1, <3>2 DEF TrackInv, NoticedInv, UpToDate, Queued
    <3>4. PICK c \in [Paths -> Hash] : importDependencies[u] = Read(p, c)
      BY <2>3 DEF Complete
    <3>5. ASSUME NEW q \in Includes[p] PROVE c[q] = source[q]
      <4>1. <<q, c[q]>> \in importDependencies[u]
        BY <3>4, <3>5 DEF Read
      <4>2. q \in Importable \ {Root} /\ source[q] # Absent
        BY <2>2, <3>5, IncludesAssumption, RootAssumption
      <4>3. ~Stale(<<q, c[q]>>)
        BY <2>1, <3>2, <4>1 DEF DepsInv, Done, Queued
      <4> QED BY <4>2, <4>3 DEF Stale
    <3>6. Read(p, c) = Read(p, source)
      BY <3>5 DEF Read
    <3> QED BY <2>3, <2>5, <3>3, <3>4, <3>6 DEF Complete, Honest, Outputs
  <2> QED BY <2>4, <2>5
<1>2. Spec => []TrackInv
  BY Track_Invariance
<1>3. Spec => []DepsInv
  BY Deps_Invariance
<1>4. Spec => [](JobInv /\ HonestInv)
  BY Honest_Invariance
<1> QED BY <1>1, <1>2, <1>3, <1>4, TypeCorrect, PTL

=============================================================================
