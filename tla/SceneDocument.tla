----------------------------- MODULE SceneDocument -----------------------------
(***************************************************************************)
(* up::SceneDocument (scene_doc.cpp): the entities of a scene in a vector, *)
(* linked into trees by indices into that vector, and the JSON form of     *)
(* the document.  Indices count from 1 here and 0 is the code's -1.        *)
(*                                                                         *)
(* deleteEntity erases elements and leaves the indices of the others as    *)
(* they were.  Those behind move up, so an index of one of them is stale   *)
(* from then on (Strays).  What these operators say of a call that follows *)
(* indices holds of links that are trees.                                  *)
(*                                                                         *)
(* A definition named X_Fault is a faulty variant of X, for mutation runs. *)
(***************************************************************************)
EXTENDS Naturals, Sequences, FiniteSets

NoIndex == 0
NoScene == 0        \* SceneEntityId::None
NotSynced == 0      \* previewId of an entity the preview does not know

NewSceneEntity(id) ==
    [sceneId |-> id, previewId |-> NotSynced, components |-> <<>>,
     firstChild |-> NoIndex, nextSibling |-> NoIndex, parent |-> NoIndex]

NewSceneComponent(type, value) == [type |-> type, state |-> "New", value |-> value]

Indices(ents) == 1 .. Len(ents)

IndexOf(ents, id) ==
    IF \E i \in Indices(ents) : ents[i].sceneId = id
    THEN CHOOSE i \in Indices(ents) : ents[i].sceneId = id ELSE NoIndex

ChildrenOf(ents, p) == {c \in Indices(ents) : ents[c].parent = p}

\* parentTo, the first half: unlink from the old parent, when it is its first
\* child, or else from the sibling that leads to it.
Unchain(ents, child) ==
    LET p == ents[child].parent
        next == ents[child].nextSibling
        before == IF ents[p].firstChild = child THEN {}
                  ELSE {i \in ChildrenOf(ents, p) : ents[i].nextSibling = child}
    IN  IF p = NoIndex THEN ents
        ELSE [i \in Indices(ents) |->
                [ents[i] EXCEPT
                    !.firstChild = IF i = p /\ @ = child THEN next ELSE @,
                    !.nextSibling = IF i = child THEN NoIndex ELSE IF i \in before THEN next ELSE @,
                    !.parent = IF i = child THEN NoIndex ELSE @]]

\* parentTo, the second half: the last in the new parent's chain, which ends
\* with the child that leads to no other.
Chain(ents, child, p) ==
    LET last == IF ents[p].firstChild = NoIndex THEN {}
                ELSE {i \in ChildrenOf(ents, p) : ents[i].nextSibling = NoIndex}
    IN  [i \in Indices(ents) |->
            [ents[i] EXCEPT
                !.firstChild = IF i = p /\ @ = NoIndex THEN child ELSE @,
                !.nextSibling = IF i = child THEN NoIndex ELSE IF i \in last THEN child ELSE @,
                !.parent = IF i = child THEN p ELSE @]]

ParentTo(ents, childId, parentId) ==
    LET child == IndexOf(ents, childId)
        p     == IndexOf(ents, parentId)
    IN  IF child = NoIndex \/ p = ents[child].parent THEN ents
        ELSE IF p = NoIndex THEN Unchain(ents, child)
        ELSE Chain(Unchain(ents, child), child, p)

Created(ents, id, parentId) ==
    LET added == Append(ents, NewSceneEntity(id)) IN
    IF parentId = NoScene THEN added ELSE ParentTo(added, id, parentId)

\* _deleteEntityAt: the entity, what its firstChild and the nextSibling links
\* from there lead to, and so on.
Subtree(ents, i) ==
    LET Leads(j) == {ents[j].firstChild} \cup (IF j = i THEN {} ELSE {ents[j].nextSibling})
    IN  {j \in Indices(ents) :
            \A S \in SUBSET Indices(ents) :
                i \in S /\ (\A s \in S : Leads(s) \subseteq S \cup {NoIndex}) => j \in S}

\* deleteEntity: the subtree is unlinked and erased, element by element, and
\* those that are left move up, in their order.
Left(ents, id) == Indices(ents) \ Subtree(ents, IndexOf(ents, id))

Place(left, j) == Cardinality({k \in left : k <= j})

Deleted_Fault(ents, id) ==
    LET left == Left(ents, id)
    IN  [n \in 1 .. Cardinality(left) |-> ents[CHOOSE j \in left : Place(left, j) = n]]
Deleted(ents, id) ==
    LET cut  == ParentTo(ents, id, NoScene)
        left == Left(ents, id)
    IN  [n \in 1 .. Cardinality(left) |-> cut[CHOOSE j \in left : Place(left, j) = n]]

\* One that is left keeps an index of one that was erased or has moved.
Strays(ents, id) ==
    LET cut == ParentTo(ents, id, NoScene) IN
    \E j \in Left(ents, id) :
       \E link \in {cut[j].firstChild, cut[j].nextSibling, cut[j].parent} :
          IndexOf(ents, id) <= link

WithComponent(ents, id, type, value) ==
    [ents EXCEPT ![IndexOf(ents, id)].components = Append(@, NewSceneComponent(type, value))]

-----------------------------------------------------------------------------
(* The JSON form.  A file is a sequence: its objects in the order they stand *)
(* in the text, each with the object among whose children it is, or 0.  What *)
(* is kept of an entity is its components, by type and value.                *)

Saved(components) ==
    [k \in DOMAIN components |-> [type |-> components[k].type, value |-> components[k].value]]

Object(parent, entity) == [parent |-> parent, components |-> Saved(entity.components)]

Loaded(components) ==
    [k \in DOMAIN components |-> NewSceneComponent(components[k].type, components[k].value)]

\* _fromJson for the next object of a file: its entity, which the child of the
\* same object that was read before it, or else the parent, leads to.
Read(ents, file, id) ==
    LET n      == Len(ents) + 1
        p      == file[n].parent
        before == {k \in Indices(ents) : file[k].parent = p}
        prev   == {k \in before : \A j \in before : j <= k}
        entity == [NewSceneEntity(id) EXCEPT !.parent = p, !.components = Loaded(file[n].components)]
    IN  [i \in 1 .. n |->
            IF i = n THEN entity
            ELSE [ents[i] EXCEPT !.firstChild = IF i = p /\ prev = {} THEN n ELSE @,
                                 !.nextSibling = IF i \in prev THEN n ELSE @]]

-----------------------------------------------------------------------------

IsLeast(x, S) == IF S = {} THEN x = NoIndex ELSE x \in S /\ \A y \in S : x <= y

\* The links form trees: an entity comes after its parent, which leads to the
\* first of its children, and each of them to the next; a root has no siblings.
TreeOK(ents) ==
    \A i \in Indices(ents) :
        LET p == ents[i].parent IN
        /\ p \in 0 .. i - 1
        /\ IsLeast(ents[i].firstChild, ChildrenOf(ents, i))
        /\ IsLeast(ents[i].nextSibling, {c \in ChildrenOf(ents, p) : i < c /\ p # NoIndex})

DistinctIds(ents) ==
    \A i, j \in Indices(ents) : ents[i].sceneId = ents[j].sceneId => i = j

\* The file is the tree of the first entity, whose objects stand for its
\* entities as `of` says: all of them once, with their components, each as a
\* child of its parent and in the order of their siblings.
DepictsAs(file, ents, of) ==
    /\ file # <<>> /\ of[1] = 1 /\ file[1].parent = NoIndex
    /\ \A n \in DOMAIN file :
          /\ file[n].components = Saved(ents[of[n]].components)
          /\ n # 1 => file[n].parent \in 1 .. n - 1 /\ ents[of[n]].parent = of[file[n].parent]
          /\ \A m \in 1 .. n - 1 :
                of[m] # of[n] /\ (file[m].parent = file[n].parent => of[m] < of[n])
          /\ \A c \in ChildrenOf(ents, of[n]) : \E m \in DOMAIN file : of[m] = c

Depicts(file, ents) == \E of \in [DOMAIN file -> Indices(ents)] : DepictsAs(file, ents, of)
=============================================================================
