---------------------------- MODULE AssetDatabase ----------------------------
(***************************************************************************)
(* The importer's database (asset_database.cpp): three tables, and the     *)
(* statements ReconApp executes on them.  Each operation is one statement  *)
(* or one transaction, durable when it returns; the three statements of a  *)
(* failed import are one here, as the first of them settles the status.    *)
(*                                                                         *)
(* A content hash is the content itself (hashing is injective), and Absent *)
(* is the hash 0 of a file that is not there.  importer_name and           *)
(* importer_revision are not kept: each path has one importer, and the     *)
(* program that fills the table is the one that reads it.                  *)
(*                                                                         *)
(* Operators named X_Fault are faulty variants of X that the mutation      *)
(* checks put in its place; no specification uses them.                    *)
(***************************************************************************)
EXTENDS Naturals, FiniteSets

CONSTANTS
    Uuids,
    Paths,
    NoRow       \* a uuid without a row in source_assets

VARIABLES
    sourceAssets,         \* uuid -> [path, hash, status], or NoRow
    importedAssets,       \* uuid -> the content hashes of its outputs
    importDependencies    \* uuid -> the <<path, hash>> its build has read

tables == <<sourceAssets, importedAssets, importDependencies>>

Known == {u \in Uuids : sourceAssets[u] # NoRow}

DatabaseInit ==
    /\ sourceAssets = [u \in Uuids |-> NoRow]
    /\ importedAssets = [u \in Uuids |-> {}]
    /\ importDependencies = [u \in Uuids |-> {}]

(***************************************************************************)
(* Queries                                                                 *)
(***************************************************************************)
\* pathToUuid returns the first of the rows with a path, whichever it is.
UuidsOfPath(p) == {u \in Known : sourceAssets[u].path = p}

\* findSourceAssetsDirtiedBy: those whose build has read another content.
DirtiedBy_FaultPath(p, hash) ==     \* does not compare the path
    {u \in Known : \E d \in importDependencies[u] : d[2] # hash}
DirtiedBy_FaultSense(p, hash) ==    \* compares hashes the wrong way
    {u \in Known : \E d \in importDependencies[u] : d[1] = p /\ d[2] = hash}
DirtiedBy(p, hash) ==
    {u \in Known : \E d \in importDependencies[u] : d[1] = p /\ d[2] # hash}

IsSourceAssetUpToDate(u, hash) ==
    /\ u \in Known
    /\ sourceAssets[u].hash = hash
    /\ sourceAssets[u].status = "IMPORTED"

\* generateManifest: a line for every source asset and for every output of one.
Manifest ==
    {<<u, sourceAssets[u].path>> : u \in Known}
        \cup UNION {{<<u, sourceAssets[u].path, o>> : o \in importedAssets[u]} :
                    u \in Known}

(***************************************************************************)
(* Statements                                                              *)
(***************************************************************************)
SetStatus(u, s) ==
    sourceAssets' = IF u \in Known THEN [sourceAssets EXCEPT ![u].status = s]
                                   ELSE sourceAssets

\* The upsert replaces the path and the hash and leaves the status.
UpdateSourceAsset_Fault(u, p, h) ==    \* replaces only the path
    sourceAssets' =
        [sourceAssets EXCEPT ![u] =
            IF u \in Known THEN [@ EXCEPT !.path = p]
                           ELSE [path |-> p, hash |-> h, status |-> "NEW"]]
UpdateSourceAsset(u, p, h) ==
    sourceAssets' =
        [sourceAssets EXCEPT ![u] =
            [path |-> p, hash |-> h,
             status |-> IF u \in Known THEN @.status ELSE "NEW"]]

BeginAssetImport(u) ==
    /\ SetStatus(u, "PENDING")
    /\ UNCHANGED <<importedAssets, importDependencies>>

FailAssetImport(u) ==    \* finishAssetImport(uuid, false)
    /\ SetStatus(u, "FAILED")
    /\ importedAssets' = [importedAssets EXCEPT ![u] = {}]
    /\ importDependencies' = [importDependencies EXCEPT ![u] = {}]

\* The transaction of a successful import: finishAssetImport(uuid, true), then
\* addImportDependency and addAssetImport for each of the new rows.
RecordAssetImport(u, outs, deps) ==
    /\ SetStatus(u, "IMPORTED")
    /\ importedAssets' = [importedAssets EXCEPT ![u] = outs]
    /\ importDependencies' = [importDependencies EXCEPT ![u] = deps]

\* Only the row of source_assets goes; the rows of the other tables stay.
RemoveSourceAssets(gone) ==
    /\ sourceAssets' = [u \in Uuids |-> IF u \in gone THEN NoRow
                                                      ELSE sourceAssets[u]]
    /\ UNCHANGED <<importedAssets, importDependencies>>

\* open(): imports an earlier process did not finish have failed.
OpenDatabase_Fault ==    \* takes them for done
    /\ sourceAssets' =
          [u \in Uuids |-> IF u \in Known
                           THEN [sourceAssets[u] EXCEPT !.status = "IMPORTED"]
                           ELSE NoRow]
    /\ UNCHANGED <<importedAssets, importDependencies>>
OpenDatabase ==
    /\ sourceAssets' =
          [u \in Uuids |-> IF u \in Known /\ sourceAssets[u].status # "IMPORTED"
                           THEN [sourceAssets[u] EXCEPT !.status = "FAILED"]
                           ELSE sourceAssets[u]]
    /\ UNCHANGED <<importedAssets, importDependencies>>

=============================================================================
