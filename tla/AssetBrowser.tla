----------------------------- MODULE AssetBrowser -----------------------------
(***************************************************************************)
(* The asset browser of the editor (bin_editor/editors/asset_editor): it   *)
(* rebuilds a tree of folders and files whenever another manifest is       *)
(* bound, shows one folder of it, and keeps a history of folders to go     *)
(* back and forward in, and the selected entries.                          *)
(*                                                                         *)
(* Entries are numbered from 1, the root, and 0 is the code's -1.          *)
(***************************************************************************)
EXTENDS Naturals, Sequences, SequencesExt

CONSTANTS RecordsOf,    \* the records a manifest may hold, each with its path, kind and whether it is an output
          MaxRecords,   \* bounds how many records a manifest holds
          MaxHistory,   \* the code's maxFolderHistory, 64
          MaxSelected   \* bounds how many entries are selected together

ASSUME BrowserAssumption ==
    /\ RecordsOf \subseteq [path : Seq(STRING) \ {<<>>}, kind : {"folder", "file"}, output : BOOLEAN]
    /\ MaxHistory \in Nat \ {0}

VARIABLES manifestRecords,   \* the records of the manifest it was built from, in their order
          entries, currentFolder, folderHistory, folderHistoryIndex, selection

browserVars ==
    <<manifestRecords, entries, currentFolder, folderHistory, folderHistoryIndex, selection>>

Entry(path, kind, parent) ==
    [path |-> path, kind |-> kind, parent |-> parent, firstChild |-> 0, nextSibling |-> 0]

Root == Entry(<<>>, "folder", 0)

\* What an entry is recognised by after a rebuild: a folder by its path, a file
\* by its asset, of which there is one for a path.
Id(entry) == <<entry.kind, entry.path>>

\* What follows a chain of children, as far as it has been walked.
After(es, i, chain) == IF chain = <<>> THEN es[i].firstChild ELSE es[Last(chain)].nextSibling

Walk(es, i, chain) ==
    LET next == After(es, i, chain) IN IF next = 0 THEN chain ELSE Append(chain, next)

\* The first child of an entry, then each one's sibling; no chain is longer than
\* the entries.
Children(es, i) ==
    LET walked[n \in 0 .. Len(es)] == IF n = 0 THEN <<>> ELSE Walk(es, i, walked[n - 1])
    IN walked[Len(es)]

\* The folders a chain of children begins with.
Folders(es, chain) ==
    LET files == {k \in DOMAIN chain : es[chain[k]].kind = "file"}
    IN IF files = {} THEN chain ELSE SubSeq(chain, 1, Min(files) - 1)

Leading_Fault(es, parent) ==    \* the walk does not stop at the first file
    Children(es, parent)
Leading(es, parent) == Folders(es, Children(es, parent))

\* The entries and another, which follows the last of the chain.
Link(es, entry, chain) ==
    LET new == Len(es) + 1
        grown == Append(es, entry)
    IN IF chain = <<>> THEN [grown EXCEPT ![entry.parent].firstChild = new]
       ELSE [grown EXCEPT ![Last(chain)].nextSibling = new]

\* The tree with the folder of that name under parent, and where that folder
\* is: a new one goes after the folders that are there and before the files.
FolderAfter(es, parent, lead, name) ==
    LET same == {k \in DOMAIN lead : Last(es[lead[k]].path) = name}
        entry == [Entry(Append(es[parent].path, name), "folder", parent)
                    EXCEPT !.nextSibling = After(es, parent, lead)]
    IN IF same # {} THEN [entries |-> es, at |-> lead[Min(same)]]
       ELSE [entries |-> Link(es, entry, lead), at |-> Len(es) + 1]

AddFolder(tree, name) ==
    FolderAfter(tree.entries, tree.at, Leading(tree.entries, tree.at), name)

\* The folders on the way to path, and where the last of them is.
AddFolders(es, path) ==
    LET trees[n \in 0 .. Len(path)] ==
            IF n = 0 THEN [entries |-> es, at |-> 1] ELSE AddFolder(trees[n - 1], path[n])
    IN trees[Len(path)]

\* A file goes to the end of the chain of its folder.
FileIn(tree, path) ==
    Link(tree.entries, Entry(path, "file", tree.at), Children(tree.entries, tree.at))

AddFile(es, path) == FileIn(AddFolders(es, Front(path)), path)

\* Outputs of an asset that are not the asset itself are left out.
AddRecord(es, record) ==
    CASE record.output -> es
      [] ~record.output /\ record.kind = "folder" -> AddFolders(es, record.path).entries
      [] OTHER -> AddFile(es, record.path)

Built(records) ==
    LET built[n \in 0 .. Len(records)] ==
            IF n = 0 THEN <<Root>> ELSE AddRecord(built[n - 1], records[n])
    IN built[Len(records)]

\* The position of the entry that was shown, the root when it is gone.
FindEntry(es, id) ==
    LET at == {i \in DOMAIN es : Id(es[i]) = id} IN IF at = {} THEN 1 ELSE Min(at)

BrowserInit ==
    /\ manifestRecords = <<>>
    /\ entries = <<Root>>
    /\ currentFolder = 1
    /\ folderHistory = <<1>>
    /\ folderHistoryIndex = 1
    /\ selection = {}

-----------------------------------------------------------------------------
\* Another manifest is bound. The history and the selection stay.
Rebuild(records) ==
    /\ manifestRecords' = records
    /\ entries' = Built(records)
    /\ currentFolder' =
         IF currentFolder \in DOMAIN entries
         THEN FindEntry(entries', Id(entries[currentFolder])) ELSE 1
    /\ UNCHANGED <<folderHistory, folderHistoryIndex, selection>>

\* The history is of positions, which a rebuild may have given to other entries
\* or taken away: a folder that is not there is read past the end of the
\* entries, and nothing but another rebuild is modelled then.
Shown == currentFolder \in DOMAIN entries

\* Opening a folder cuts the future, and the oldest folder when there are too many.
OpenFolder(i) ==
    LET past == SubSeq(folderHistory, 1, folderHistoryIndex)
        kept == IF Len(past) >= MaxHistory THEN Tail(past) ELSE past
    IN /\ folderHistory' = Append(kept, i)
       /\ folderHistoryIndex' = Len(kept) + 1
       /\ currentFolder' = i
       /\ selection' = {}
       /\ UNCHANGED <<manifestRecords, entries>>

\* A click in the tree, on a breadcrumb or on the button for the parent.
Choose(i) ==
    /\ Shown /\ i \in DOMAIN entries
    /\ entries[i].kind = "folder"
    /\ OpenFolder(i)

Travel(index) ==
    /\ folderHistoryIndex' = index
    /\ currentFolder' = folderHistory[index]
    /\ selection' = {}
    /\ UNCHANGED <<manifestRecords, entries, folderHistory>>

Back == Shown /\ folderHistoryIndex # 1 /\ Travel(folderHistoryIndex - 1)

Forward ==
    /\ Shown
    /\ Len(folderHistory) >= 2 /\ folderHistoryIndex # Len(folderHistory)
    /\ Travel(folderHistoryIndex + 1)

\* A click on an entry of the folder that is shown.
Click(i, multiselect, context) ==
    /\ Shown /\ i \in Range(Children(entries, currentFolder))
    /\ LET id == Id(entries[i])
       IN selection' =
            CASE context /\ id \in selection -> selection
              [] multiselect /\ ~(context /\ id \in selection) ->
                   IF id \in selection THEN selection \ {id} ELSE selection \cup {id}
              [] OTHER -> {id}
    /\ Cardinality(selection') <= MaxSelected
    /\ UNCHANGED <<manifestRecords, entries, currentFolder, folderHistory, folderHistoryIndex>>

\* A double click, or Open in the menu of an entry: the first folder that is
\* selected, wherever it is.
OpenSelected ==
    /\ Shown
    /\ LET folders == {i \in DOMAIN entries : entries[i].kind = "folder" /\ Id(entries[i]) \in selection}
       IN folders # {} /\ OpenFolder(Min(folders))

\* The manifests that differ from the last by one record; greater changes are
\* made of these, since a rebuild starts anew.
NextManifests ==
    {s \in {InsertAt(manifestRecords, i, r) : i \in 1..(Len(manifestRecords) + 1), r \in RecordsOf}
            \cup {RemoveAt(manifestRecords, i) : i \in DOMAIN manifestRecords} :
        Len(s) <= MaxRecords /\ IsInjective(s)}

BrowserNext ==
    \/ \E records \in NextManifests : Rebuild(records)
    \/ \E i \in DOMAIN entries : Choose(i)
    \/ Back \/ Forward
    \/ \E i \in DOMAIN entries, multiselect, context \in BOOLEAN : Click(i, multiselect, context)
    \/ OpenSelected

BrowserSpec == BrowserInit /\ [][BrowserNext]_browserVars

-----------------------------------------------------------------------------
(***************************************************************************)
(* Properties                                                              *)
(***************************************************************************)
Sources == {r \in Range(manifestRecords) : ~r.output}

FolderPaths ==
    {<<>>} \cup UNION {{SubSeq(r.path, 1, n) : n \in 1..(Len(r.path) - IF r.kind = "file" THEN 1 ELSE 0)} :
                          r \in Sources}

\* Whatever order the records come in, the entries are the assets and the
\* folders on the way to them, each once and under its own folder, which lists
\* its folders before its files.
TreeRight ==
    /\ \A i, j \in DOMAIN entries : Id(entries[i]) = Id(entries[j]) => i = j
    /\ {entries[i].path : i \in {k \in DOMAIN entries : entries[k].kind = "folder"}} = FolderPaths
    /\ {entries[i].path : i \in {k \in DOMAIN entries : entries[k].kind = "file"}}
         = {r.path : r \in {s \in Sources : s.kind = "file"}}
    /\ \A i \in DOMAIN entries \ {1} : Front(entries[i].path) = entries[entries[i].parent].path
    /\ \A p \in DOMAIN entries :
         LET chain == Children(entries, p)
         IN /\ IsInjective(chain)
            /\ Range(chain) = {i \in DOMAIN entries : entries[i].parent = p}
            /\ \A k, l \in DOMAIN chain :
                 entries[chain[k]].kind = "file" /\ entries[chain[l]].kind = "folder" => l < k

\* The browser's tree is right, and its history, which is never longer than its
\* limit, has a current folder.
BrowserRight ==
    /\ TreeRight
    /\ Len(folderHistory) <= MaxHistory
    /\ folderHistoryIndex \in DOMAIN folderHistory
=============================================================================
