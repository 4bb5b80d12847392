----------------------------- MODULE AssetLoader -----------------------------
(***************************************************************************)
(* The asset loader (libpotato_runtime): clients load an asset by its id   *)
(* and hold a counted handle to it; the loader keeps the assets that are   *)
(* in memory in a list that does not count, and at the end of a frame      *)
(* deletes those nobody holds. An asset may be loaded through the loader   *)
(* while another is (a material loads its shaders and textures), and keeps *)
(* some of the handles it got.                                             *)
(*                                                                         *)
(* All of it runs on one thread. A call takes several steps, so that loads *)
(* inside loads are a stack of them, the innermost last; a client does     *)
(* nothing meanwhile. Objects are numbered in the order they are made and  *)
(* never reused; 0 is the handle to none.                                  *)
(***************************************************************************)
EXTENDS Naturals, Sequences, FiniteSets, SequencesExt

CONSTANTS Clients, AssetIds,
          Loads,       \* Loads[id]: the assets that loading id loads, in order
          Keeps,       \* Keeps[id]: those of them the asset keeps a handle to
          Named,       \* the ids with a logical name: outputs of one source among others
          Nothing,
          MaxObjects   \* bounds how many assets are ever made

\* Materials load shaders and textures, which load nothing: some rank falls
\* with each load inside a load.
Falls(rank) == \A id \in AssetIds : \A i \in DOMAIN Loads[id] : rank[Loads[id][i]] < rank[id]

ASSUME LoaderAssumption ==
    /\ Loads \in [AssetIds -> Seq(AssetIds)] /\ IsFiniteSet(Clients)
    /\ \A id \in AssetIds : Len(Loads[id]) # 1
    /\ \E rank \in [AssetIds -> 0 .. Cardinality(AssetIds)] : Falls(rank)
    /\ Nothing \notin AssetIds \cup Clients
    /\ MaxObjects \in Nat

VARIABLES records,   \* the ids of the manifest that is bound
          objects,   \* objects[n]: the id, the count and the handles of the n-th asset
          assets,    \* the loader's list
          holding,   \* holding[c]: the object client c has a handle to, or 0
          caller,    \* the client whose load runs, or Nothing
          loads,     \* the loads that run, each inside the one before it
          scanned    \* the position of the collection in the list, 0 between collections

loaderVars == <<records, objects, assets, holding, caller, loads, scanned>>

LoaderInit ==
    /\ records \in SUBSET AssetIds
    /\ objects = <<>>
    /\ assets = <<>>
    /\ holding = [c \in Clients |-> 0]
    /\ caller = Nothing
    /\ loads = <<>>
    /\ scanned = 0

AddRef(objs, n) == [objs EXCEPT ![n].refs = @ + 1]
RemoveRef(objs, n) == [objs EXCEPT ![n].refs = @ - 1]

\* What a handle can be found by: the key of an asset lacks its logical name,
\* so that an asset with one is not found by its id again.
FoundBy(id) == IF id \in Named THEN Nothing ELSE id

Places(id) == {i \in DOMAIN assets : FoundBy(objects[assets[i]].id) = id}
Find(id) == {assets[i] : i \in {j \in Places(id) : \A k \in Places(id) : j <= k}}

-----------------------------------------------------------------------------
(* Loading *)

\* A load as it begins: which part it loads next, the handles it keeps for the
\* asset and those it uses to make it, and the asset once it is made.
Started(id) == [id |-> id, part |-> 1, keeps |-> <<>>, uses |-> <<>>, made |-> 0, leaving |-> FALSE]

Top == loads[Len(loads)]
Running == loads # <<>>
NoCall == ~Running /\ scanned = 0
Wanted(load) == Loads[load.id][load.part]
Wanting(load) == ~load.leaving /\ load.part \in DOMAIN Loads[load.id]

\* A material looks whether a part has loaded when it is too late for the load of
\* the next one: at its first shader once both have been loaded, and again instead
\* of at the second; at a texture at once.
Lacking(load, n) ==
    \/ load.part = 2 /\ load.keeps = <<>> /\ load.uses = <<>>
    \/ load.part > 2 /\ n = 0

\* A part has loaded, or not (0).
WithPart(load, n) ==
    IF n = 0 THEN [load EXCEPT !.part = @ + 1, !.leaving = Lacking(load, n)]
    ELSE IF Wanted(load) \in Keeps[load.id]
         THEN [load EXCEPT !.part = @ + 1, !.keeps = Append(@, n), !.leaving = Lacking(load, n)]
         ELSE [load EXCEPT !.part = @ + 1, !.uses = Append(@, n), !.leaving = Lacking(load, n)]

CanBegin(id) == Find(id) = {} /\ id \in records /\ Len(objects) + Len(loads) < MaxObjects

\* A client asks for an asset: it is found, or its load begins. (It may also
\* fail, and then nothing has changed.)
Load(c, id) ==
    /\ NoCall /\ holding[c] = 0
    /\ \/ \E n \in Find(id) :
             /\ objects' = AddRef(objects, n)
             /\ holding' = [holding EXCEPT ![c] = n]
             /\ UNCHANGED <<caller, loads>>
       \/ /\ CanBegin(id)
          /\ caller' = c
          /\ loads' = <<Started(id)>>
          /\ UNCHANGED <<objects, holding>>
    /\ UNCHANGED <<records, assets, scanned>>

\* The innermost load asks for its next part, which may be missing in the
\* manifest or have a file that cannot be read.
LoadPart ==
    /\ Running /\ Wanting(Top)
    /\ \/ \E n \in Find(Wanted(Top)) :
             /\ objects' = AddRef(objects, n)
             /\ loads' = [loads EXCEPT ![Len(loads)] = WithPart(@, n)]
       \/ /\ CanBegin(Wanted(Top))
          /\ loads' = Append(loads, Started(Wanted(Top)))
          /\ UNCHANGED objects
       \/ /\ Find(Wanted(Top)) = {}
          /\ loads' = [loads EXCEPT ![Len(loads)] = WithPart(@, 0)]
          /\ UNCHANGED objects
    /\ UNCHANGED <<records, assets, holding, caller, scanned>>

HasParts(load) == Len(load.keeps) + Len(load.uses) = Len(Loads[load.id])

\* The asset is made of its parts, and takes the handles that it keeps.
Make ==
    /\ Running /\ ~Top.leaving /\ ~Wanting(Top) /\ HasParts(Top)
    /\ objects' = Append(objects, [id |-> Top.id, refs |-> 1, held |-> Top.keeps])
    /\ loads' = [loads EXCEPT ![Len(loads)].keeps = <<>>,
                              ![Len(loads)].made = Len(objects) + 1,
                              ![Len(loads)].leaving = TRUE]
    /\ UNCHANGED <<records, assets, holding, caller, scanned>>

\* A material whose second shader is missing reads it through a null pointer: the
\* program ends there.
DieOfMissingPart ==
    /\ Running /\ ~Top.leaving /\ ~Wanting(Top) /\ ~HasParts(Top)
    /\ UNCHANGED loaderVars

\* The handles that the load still has are let go of, one by one (the last of
\* them first: it does not show, since only counts fall meanwhile).
LeaveLoad ==
    /\ Running /\ Top.leaving
    /\ \/ /\ Top.keeps # <<>>
          /\ objects' = RemoveRef(objects, Last(Top.keeps))
          /\ loads' = [loads EXCEPT ![Len(loads)].keeps = Front(@)]
       \/ /\ Top.keeps = <<>> /\ Top.uses # <<>>
          /\ objects' = RemoveRef(objects, Last(Top.uses))
          /\ loads' = [loads EXCEPT ![Len(loads)].uses = Front(@)]
    /\ UNCHANGED <<records, assets, holding, caller, scanned>>

\* The asset that has been made is listed, and its handle given to the client or
\* to the load around.
Return ==
    /\ Running /\ Top.leaving /\ Top.keeps = <<>> /\ Top.uses = <<>>
    /\ assets' = IF Top.made = 0 THEN assets ELSE Append(assets, Top.made)
    /\ \/ /\ Len(loads) = 1
          /\ holding' = [holding EXCEPT ![caller] = Top.made]
          /\ caller' = Nothing
          /\ loads' = <<>>
       \/ /\ Len(loads) > 1
          /\ loads' = [Front(loads) EXCEPT ![Len(loads) - 1] = WithPart(@, Top.made)]
          /\ UNCHANGED <<holding, caller>>
    /\ UNCHANGED <<records, objects, scanned>>

-----------------------------------------------------------------------------
(* Handles, the collection and the manifest *)

\* A client copies the handle of another one.
CopyHandle(c, d) ==
    /\ NoCall /\ holding[c] = 0 /\ holding[d] # 0
    /\ holding' = [holding EXCEPT ![c] = holding[d]]
    /\ objects' = AddRef(objects, holding[d])
    /\ UNCHANGED <<records, assets, caller, loads, scanned>>

DropHandle(c) ==
    /\ NoCall /\ holding[c] # 0
    /\ objects' = RemoveRef(objects, holding[c])
    /\ holding' = [holding EXCEPT ![c] = 0]
    /\ UNCHANGED <<records, assets, caller, loads, scanned>>

BeginCollection ==
    /\ NoCall /\ assets # <<>>
    /\ scanned' = 1
    /\ UNCHANGED <<records, objects, assets, holding, caller, loads>>

Collecting == scanned \in DOMAIN assets
IsDoomed(n) == objects[n].refs = 0

\* An asset that is deleted lets go of its handles, one by one, ...
LetGo_Fault(n) ==    \* ... or it forgets them
    /\ objects[n].held # <<>>
    /\ objects' = [objects EXCEPT ![n].held = Front(@)]
    /\ UNCHANGED <<assets, scanned>>
LetGo(n) ==
    /\ objects[n].held # <<>>
    /\ objects' = [RemoveRef(objects, Last(objects[n].held)) EXCEPT ![n].held = Front(@)]
    /\ UNCHANGED <<assets, scanned>>

\* ... and is then taken off the list.
Erase(n) ==
    /\ objects[n].held = <<>>
    /\ assets' = RemoveAt(assets, scanned)
    /\ UNCHANGED <<objects, scanned>>

CollectDoomedAssets ==
    /\ Collecting
    /\ \/ IsDoomed(assets[scanned]) /\ LetGo(assets[scanned])
       \/ IsDoomed(assets[scanned]) /\ Erase(assets[scanned])
       \/ ~IsDoomed(assets[scanned]) /\ scanned' = scanned + 1 /\ UNCHANGED <<objects, assets>>
    /\ UNCHANGED <<records, holding, caller, loads>>

EndCollection ==
    /\ scanned # 0 /\ ~Collecting
    /\ scanned' = 0
    /\ UNCHANGED <<records, objects, assets, holding, caller, loads>>

BindManifest ==
    /\ NoCall
    /\ \E ids \in SUBSET AssetIds : records' = ids
    /\ UNCHANGED <<objects, assets, holding, caller, loads, scanned>>

LoaderNext ==
    \/ \E c \in Clients, id \in AssetIds : Load(c, id)
    \/ LoadPart
    \/ Make
    \/ DieOfMissingPart
    \/ LeaveLoad
    \/ Return
    \/ \E c, d \in Clients : CopyHandle(c, d)
    \/ \E c \in Clients : DropHandle(c)
    \/ BeginCollection
    \/ CollectDoomedAssets
    \/ EndCollection
    \/ BindManifest

LoaderSpec == LoaderInit /\ [][LoaderNext]_loaderVars

-----------------------------------------------------------------------------
(***************************************************************************)
(* Properties                                                              *)
(***************************************************************************)

\* Where n occurs in a family of sequences.
Occurrences(rows, n) ==
    UNION {{m} \X {i \in DOMAIN rows[m] : rows[m][i] = n} : m \in DOMAIN rows}

ByClients(n) == {c \in Clients : holding[c] = n}
ByAssets(n) == Occurrences([m \in DOMAIN objects |-> objects[m].held], n)
ByKeeps(n) == Occurrences([d \in DOMAIN loads |-> loads[d].keeps], n)
ByUses(n) == Occurrences([d \in DOMAIN loads |-> loads[d].uses], n)
ByMaking(n) == {d \in DOMAIN loads : loads[d].made = n}

Holders(n) ==
    Cardinality(ByClients(n)) + Cardinality(ByAssets(n)) + Cardinality(ByKeeps(n))
        + Cardinality(ByUses(n)) + Cardinality(ByMaking(n))

\* A count is the number of the handles to the asset, those of other assets and
\* of loads among them; no handle is left to an asset that has been deleted; an
\* asset holds what it is meant to; and one without a logical name is in memory
\* once, however it was asked for.
HandlesLive ==
    /\ \A n \in DOMAIN objects :
         /\ objects[n].refs = Holders(n)
         /\ Holders(n) > 0 => n \in Range(assets) \/ ByMaking(n) # {}
         /\ \A i \in DOMAIN objects[n].held :
               /\ objects[n].held[i] \in Range(assets)
               /\ objects[objects[n].held[i]].id \in Keeps[objects[n].id]
    /\ \A n, m \in Range(assets) :
         objects[n].id = objects[m].id /\ objects[n].id \notin Named => n = m
=============================================================================
