--------------------------- MODULE ComponentStorage ---------------------------
(***************************************************************************)
(* up::ComponentStorage (libgame/.../component.h): the components of one    *)
(* type.  A slot belongs to an entity or is on the free list; the map leads *)
(* from an entity to its slot.  A freed slot keeps its old component until *)
(* the slot is given away again.  Slots count from 1 here.                 *)
(*                                                                         *)
(* A definition named X_Fault is a faulty variant of X, for mutation runs. *)
(***************************************************************************)
EXTENDS Naturals, Sequences, FiniteSets

None == 0       \* EntityId::None

EmptyStorage ==
    [entities |-> <<>>, free |-> <<>>, map |-> <<>>, size |-> 0, components |-> <<>>]

Contains(st, e) == st.size # 0 /\ e \in DOMAIN st.map

\* getUnsafe, for an entity that has one.
Get(st, e) == st.components[st.map[e]]

SetComponent(st, e, value) == [st EXCEPT !.components[st.map[e]] = value]

LastOf(s)   == s[Len(s)]
ButLast(s)  == SubSeq(s, 1, Len(s) - 1)

\* allocateIndex: the slot freed last, or a new one at the end.
NextSlot(st) == IF st.free = <<>> THEN Len(st.entities) + 1 ELSE LastOf(st.free)

Put(s, i, x) == IF i = Len(s) + 1 THEN Append(s, x) ELSE [s EXCEPT ![i] = x]

\* add for an entity without one, up to the observers.
Linked(st, e, value) ==
    LET slot == NextSlot(st) IN
    [entities   |-> Put(st.entities, slot, e),
     free       |-> IF st.free = <<>> THEN <<>> ELSE ButLast(st.free),
     map        |-> [x \in DOMAIN st.map \cup {e} |-> IF x = e THEN slot ELSE st.map[x]],
     size       |-> st.size + 1,
     components |-> Put(st.components, slot, value)]

\* remove for an entity with one, after the observers.
Unlinked_Fault(st, e) ==
    [entities   |-> [st.entities EXCEPT ![st.map[e]] = None],
     free       |-> Append(st.free, Len(st.entities)),
     map        |-> [x \in DOMAIN st.map \ {e} |-> st.map[x]],
     size       |-> st.size - 1,
     components |-> st.components]
Unlinked(st, e) ==
    [entities   |-> [st.entities EXCEPT ![st.map[e]] = None],
     free       |-> Append(st.free, st.map[e]),
     map        |-> [x \in DOMAIN st.map \ {e} |-> st.map[x]],
     size       |-> st.size - 1,
     components |-> st.components]

\* The slots a ComponentCursor stops at, in ascending order.
Cursor(st) == {i \in 1 .. Len(st.entities) : st.entities[i] # None}

-----------------------------------------------------------------------------

Entities(st) == DOMAIN st.map

\* The map and the slots that are taken agree in both directions, the free
\* list holds every other slot once, and the size is the number of entities.
SlotsAgree(st) ==
    /\ \A e \in DOMAIN st.map :
          st.map[e] \in 1 .. Len(st.entities) /\ st.entities[st.map[e]] = e
    /\ \A i \in 1 .. Len(st.entities) :
          st.entities[i] # None => st.entities[i] \in DOMAIN st.map /\ st.map[st.entities[i]] = i

FreeExact(st) ==
    /\ \A k \in 1 .. Len(st.free) :
          st.free[k] \in 1 .. Len(st.entities) /\ st.entities[st.free[k]] = None
    /\ \A i \in 1 .. Len(st.entities) :
          st.entities[i] = None => \E k \in 1 .. Len(st.free) : st.free[k] = i
    /\ \A j, k \in 1 .. Len(st.free) : st.free[j] = st.free[k] => j = k

SizesAgree(st) ==
    /\ Len(st.components) = Len(st.entities)
    /\ st.size = Cardinality(DOMAIN st.map)

StorageOK(st) == SlotsAgree(st) /\ FreeExact(st) /\ SizesAgree(st)
=============================================================================
