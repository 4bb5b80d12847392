----------------------------- MODULE SpaceProofs -----------------------------
(***************************************************************************)
(* That a Space keeps its storages consistent and its bodies in step with  *)
(* its rigid bodies, and implements the relation of EntityRelation, for    *)
(* every set of positions and bodies and any number of entities; and that  *)
(* a SceneEditor keeps its document, the file it is saved in, its preview  *)
(* and its games in agreement, for documents of any size and shape.        *)
(***************************************************************************)
EXTENDS SceneEditor, TLAPS, FiniteSetTheorems, SequenceTheorems, WellFoundedInduction

Maps == UNION {[D -> Nat] : D \in SUBSET (Nat \ {None})}

Typed(st, V) ==
    /\ st \in [entities : Seq(Nat), free : Seq(Nat), map : Maps, size : Nat, components : Seq(V)]
    /\ IsFiniteSet(DOMAIN st.map)

Sound(st, V) == Typed(st, V) /\ StorageOK(st)

\* An empty storage is consistent.
LEMMA EmptySound == ASSUME NEW V PROVE Sound(EmptyStorage, V) /\ Entities(EmptyStorage) = {}
<1>1. <<>> \in [{} -> Nat] /\ {} \in SUBSET (Nat \ {None})
  OBVIOUS
<1>2. <<>> \in Maps /\ DOMAIN <<>> = {}
  BY <1>1 DEF Maps
<1>3. <<>> \in Seq(Nat) /\ <<>> \in Seq(V) /\ Len(<<>>) = 0
  OBVIOUS
<1> QED BY <1>2, <1>3, FS_EmptySet
        DEF Sound, Typed, StorageOK, SlotsAgree, FreeExact, SizesAgree, EmptyStorage, Entities

\* contains asks the map: the size is zero only when the map is empty.
LEMMA ContainsMap ==
    ASSUME NEW st, NEW V, Sound(st, V), NEW e
    PROVE  Contains(st, e) <=> e \in Entities(st)
BY FS_EmptySet DEF Sound, Typed, StorageOK, SizesAgree, Contains, Entities

\* The slot of a component is one of the component vector, and its own.
LEMMA SlotOf ==
    ASSUME NEW st, NEW V, Sound(st, V), NEW e \in Entities(st)
    PROVE  /\ st.map[e] \in 1 .. Len(st.components)
           /\ Get(st, e) \in V
           /\ \A f \in Entities(st) : st.map[f] = st.map[e] => f = e
BY DEF Sound, Typed, StorageOK, SlotsAgree, SizesAgree, Get, Entities

\* Assigning through a reference changes that component alone.
LEMMA SetSound ==
    ASSUME NEW st, NEW V, Sound(st, V), NEW e \in Entities(st), NEW v \in V
    PROVE  /\ Sound(SetComponent(st, e, v), V)
           /\ Entities(SetComponent(st, e, v)) = Entities(st)
           /\ SetComponent(st, e, v).map = st.map
           /\ SetComponent(st, e, v).entities = st.entities
           /\ Get(SetComponent(st, e, v), e) = v
           /\ \A f \in Entities(st) \ {e} : Get(SetComponent(st, e, v), f) = Get(st, f)
<1> DEFINE new == SetComponent(st, e, v)
<1>0. st.map[e] \in 1 .. Len(st.components) /\ \A f \in Entities(st) : st.map[f] = st.map[e] => f = e
  BY SlotOf
<1>1. /\ new.entities = st.entities /\ new.free = st.free /\ new.map = st.map /\ new.size = st.size
      /\ new.components = [st.components EXCEPT ![st.map[e]] = v]
  BY DEF SetComponent, Sound, Typed
<1>2. [st.components EXCEPT ![st.map[e]] = v] \in Seq(V)
      /\ Len([st.components EXCEPT ![st.map[e]] = v]) = Len(st.components)
  <2>1. st.components \in Seq(V)
    BY DEF Sound, Typed
  <2> QED BY <1>0, <2>1
<1>5. new \in [entities : Seq(Nat), free : Seq(Nat), map : Maps, size : Nat, components : Seq(V)]
  <2>1. st \in [entities : Seq(Nat), free : Seq(Nat), map : Maps, size : Nat, components : Seq(V)]
    BY DEF Sound, Typed
  <2>2. new = [st EXCEPT !.components = [st.components EXCEPT ![st.map[e]] = v]]
    BY <2>1 DEF SetComponent
  <2> QED BY <1>2, <2>1, <2>2
<1>3. Sound(new, V)
  <2> HIDE DEF new
  <2>1. SlotsAgree(st) /\ FreeExact(st) /\ SizesAgree(st) /\ IsFiniteSet(DOMAIN st.map)
    BY DEF Sound, Typed, StorageOK
  <2>2. SlotsAgree(new)
    BY <1>1, <2>1 DEF SlotsAgree
  <2>3. FreeExact(new)
    BY <1>1, <2>1 DEF FreeExact
  <2>4. SizesAgree(new)
    BY <1>1, <1>2, <2>1 DEF SizesAgree
  <2>5. Typed(new, V)
    BY <1>1, <1>5, <2>1 DEF Typed
  <2> QED BY <2>2, <2>3, <2>4, <2>5 DEF Sound, StorageOK
<1>4. Get(new, e) = v /\ \A f \in Entities(st) \ {e} : Get(new, f) = Get(st, f)
  <2> HIDE DEF new
  <2> QED BY <1>0, <1>1, SlotOf DEF Get, Entities, Sound, Typed
<1> QED BY <1>1, <1>3, <1>4 DEF Entities

Wrote(S, s, i, x) ==
    /\ Put(s, i, x) \in Seq(S)
    /\ i > Len(s) => Len(Put(s, i, x)) = Len(s) + 1
    /\ i <= Len(s) => Len(Put(s, i, x)) = Len(s)
    /\ Put(s, i, x)[i] = x
    /\ \A j \in 1 .. Len(s) : j # i => Put(s, i, x)[j] = s[j]

\* Put writes one element of a vector, or one past its end.
LEMMA PutWrites ==
    ASSUME NEW S, NEW s \in Seq(S), NEW i \in 1 .. Len(s) + 1, NEW x \in S
    PROVE  Wrote(S, s, i, x)
<1>1. CASE i = Len(s) + 1
  BY <1>1 DEF Put, Wrote
<1>2. CASE i # Len(s) + 1
  BY <1>2 DEF Put, Wrote
<1> QED BY <1>1, <1>2

\* The free list without its last element.
LEMMA ButLastKeeps ==
    ASSUME NEW S, NEW s \in Seq(S), s # <<>>
    PROVE  /\ ButLast(s) \in Seq(S)
           /\ Len(ButLast(s)) = Len(s) - 1
           /\ \A k \in 1 .. Len(ButLast(s)) : k \in 1 .. Len(s) /\ k # Len(s) /\ ButLast(s)[k] = s[k]
           /\ \A k \in 1 .. Len(s) : k # Len(s) => k \in 1 .. Len(ButLast(s))
<1>1. Len(s) \in Nat /\ Len(s) >= 1
  OBVIOUS
<1>2. ButLast(s) \in Seq(S)
  BY <1>1 DEF ButLast
<1>3. Len(ButLast(s)) = Len(s) - 1
  BY SMTT(30), <1>1 DEF ButLast
<1>4. \A k \in 1 .. Len(s) - 1 : ButLast(s)[k] = s[k] /\ k \in 1 .. Len(s) /\ k # Len(s)
  BY <1>1 DEF ButLast
<1>5. \A k \in 1 .. Len(s) : k # Len(s) => k \in 1 .. Len(s) - 1
  BY <1>1
<1> QED BY <1>2, <1>3, <1>4, <1>5

\* A sequence with one element more.
LEMMA AppendKeeps ==
    ASSUME NEW S, NEW s \in Seq(S), NEW x \in S
    PROVE  /\ Append(s, x) \in Seq(S) /\ Len(Append(s, x)) = Len(s) + 1
           /\ Append(s, x)[Len(s) + 1] = x
           /\ \A k \in 1 .. Len(s) : Append(s, x)[k] = s[k]
           /\ Len(s) + 1 \in 1 .. Len(s) + 1
           /\ \A k \in 1 .. Len(s) + 1 : k = Len(s) + 1 \/ k \in 1 .. Len(s)
<1>1. Len(s) + 1 \in 1 .. Len(s) + 1
  OBVIOUS
<1>2. \A k \in 1 .. Len(s) + 1 : k = Len(s) + 1 \/ k \in 1 .. Len(s)
  OBVIOUS
<1> QED BY <1>1, <1>2, AppendProperties

\* A record of the right fields is a storage.
LEMMA TypedRecord ==
    ASSUME NEW V, NEW a \in Seq(Nat), NEW f \in Seq(Nat), NEW m \in Maps,
           IsFiniteSet(DOMAIN m), NEW n \in Nat, NEW c \in Seq(V)
    PROVE  Typed([entities |-> a, free |-> f, map |-> m, size |-> n, components |-> c], V)
BY DEF Typed

\* allocateIndex finds a slot that is not taken.
LEMMA NextSlotFree ==
    ASSUME NEW st, NEW V, Sound(st, V)
    PROVE  /\ NextSlot(st) \in 1 .. Len(st.entities) + 1
           /\ st.free = <<>> => NextSlot(st) = Len(st.entities) + 1
           /\ st.free # <<>> => /\ NextSlot(st) \in 1 .. Len(st.entities)
                               /\ st.entities[NextSlot(st)] = None
                               /\ NextSlot(st) = st.free[Len(st.free)]
                               /\ Len(st.free) \in Nat \ {0}
<1>1. st.entities \in Seq(Nat) /\ st.free \in Seq(Nat)
  BY DEF Sound, Typed
<1>2. CASE st.free = <<>>
  BY <1>1, <1>2 DEF NextSlot
<1>3. CASE st.free # <<>>
  <2>1. Len(st.free) \in Nat \ {0}
    BY <1>1, <1>3
  <2>2. Len(st.free) \in 1 .. Len(st.free)
    BY <2>1
  <2> QED BY <1>1, <1>3, <2>1, <2>2 DEF NextSlot, LastOf, Sound, StorageOK, FreeExact
<1> QED BY <1>2, <1>3

\* add gives the entity a slot of its own and leaves the others where they are.
LEMMA LinkSound ==
    ASSUME NEW st, NEW V, Sound(st, V), NEW e \in Nat \ {None}, e \notin Entities(st),
           NEW v \in V
    PROVE  /\ Sound(Linked(st, e, v), V)
           /\ Entities(Linked(st, e, v)) = Entities(st) \cup {e}
           /\ Get(Linked(st, e, v), e) = v
           /\ \A f \in Entities(st) : Get(Linked(st, e, v), f) = Get(st, f)
<1> DEFINE new  == Linked(st, e, v)
           slot == NextSlot(st)
           free == IF st.free = <<>> THEN <<>> ELSE ButLast(st.free)
           map  == [x \in DOMAIN st.map \cup {e} |-> IF x = e THEN slot ELSE st.map[x]]
<1>1. /\ st.entities \in Seq(Nat) /\ st.free \in Seq(Nat) /\ st.components \in Seq(V)
      /\ st.size \in Nat /\ IsFiniteSet(DOMAIN st.map)
      /\ DOMAIN st.map \subseteq Nat \ {None} /\ \A x \in DOMAIN st.map : st.map[x] \in Nat
  BY DEF Sound, Typed, Maps
<1>2. SlotsAgree(st) /\ FreeExact(st) /\ SizesAgree(st)
  BY DEF Sound, StorageOK
<1>3. /\ slot \in 1 .. Len(st.entities) + 1
      /\ st.free = <<>> => slot = Len(st.entities) + 1
      /\ st.free # <<>> => /\ slot \in 1 .. Len(st.entities)
                          /\ st.entities[slot] = None
                          /\ slot = st.free[Len(st.free)]
                          /\ Len(st.free) \in Nat \ {0}
  BY NextSlotFree
<1>4. /\ new.entities = Put(st.entities, slot, e) /\ new.free = free /\ new.map = map
      /\ new.size = st.size + 1 /\ new.components = Put(st.components, slot, v)
      /\ new = [entities |-> new.entities, free |-> new.free, map |-> new.map,
                size |-> new.size, components |-> new.components]
  BY DEF Linked
<1> HIDE DEF new, slot
<1>15. Len(st.entities) \in Nat /\ Len(st.free) \in Nat
  BY <1>1
<1>5. /\ new.entities \in Seq(Nat)
      /\ st.free = <<>> => Len(new.entities) = Len(st.entities) + 1
      /\ st.free # <<>> => Len(new.entities) = Len(st.entities)
      /\ new.entities[slot] = e
      /\ \A j \in 1 .. Len(st.entities) : j # slot => new.entities[j] = st.entities[j]
  <2>1. Wrote(Nat, st.entities, slot, e)
    <3>1. st.entities \in Seq(Nat) /\ slot \in 1 .. Len(st.entities) + 1 /\ e \in Nat
      BY <1>1, <1>3
    <3> QED BY <3>1, PutWrites
  <2> QED BY <1>3, <1>4, <1>15, <2>1 DEF Wrote
<1>16. /\ slot \in 1 .. Len(new.entities)
       /\ \A j \in 1 .. Len(st.entities) : j \in 1 .. Len(new.entities)
       /\ \A j \in 1 .. Len(new.entities) : j # slot => j \in 1 .. Len(st.entities)
  BY <1>3, <1>5, <1>15
<1>6. /\ new.components \in Seq(V)
      /\ Len(new.components) = Len(new.entities)
      /\ new.components[slot] = v
      /\ \A j \in 1 .. Len(st.entities) : j # slot => new.components[j] = st.components[j]
  <2>1. Len(st.components) = Len(st.entities)
    BY <1>2 DEF SizesAgree
  <2>2. slot \in 1 .. Len(st.components) + 1
    BY <1>3, <2>1
  <2>3. Wrote(V, st.components, slot, v)
    BY <1>1, <2>2, PutWrites
  <2> QED BY <1>3, <1>4, <1>5, <1>15, <2>1, <2>3 DEF Wrote
<1>7. /\ new.free \in Seq(Nat)
      /\ \A k \in 1 .. Len(new.free) :
            st.free # <<>> /\ k \in 1 .. Len(st.free) /\ k # Len(st.free) /\ new.free[k] = st.free[k]
      /\ \A k \in 1 .. Len(st.free) : k # Len(st.free) => k \in 1 .. Len(new.free)
  <2>1. CASE st.free = <<>>
    BY <1>1, <1>4, <2>1
  <2>2. CASE st.free # <<>>
    <3>1. new.free = ButLast(st.free)
      BY <1>4, <2>2
    <3>2. st.free \in Seq(Nat)
      BY <1>1
    <3>3. /\ ButLast(st.free) \in Seq(Nat)
          /\ \A k \in 1 .. Len(ButLast(st.free)) :
                k \in 1 .. Len(st.free) /\ k # Len(st.free) /\ ButLast(st.free)[k] = st.free[k]
          /\ \A k \in 1 .. Len(st.free) : k # Len(st.free) => k \in 1 .. Len(ButLast(st.free))
      BY <2>2, <3>2, ButLastKeeps
    <3> QED BY <2>2, <3>1, <3>3, Zenon
  <2> QED BY <2>1, <2>2
<1>8. /\ DOMAIN new.map = DOMAIN st.map \cup {e}
      /\ new.map[e] = slot /\ \A x \in DOMAIN st.map : new.map[x] = st.map[x]
  BY <1>4 DEF Entities
<1>9. Typed(new, V)
  <2>1. new.map \in Maps
    <3>1. DOMAIN new.map \in SUBSET (Nat \ {None}) /\ new.map \in [DOMAIN new.map -> Nat]
      BY <1>1, <1>3, <1>4
    <3> QED BY <3>1 DEF Maps
  <2>2. IsFiniteSet(DOMAIN new.map)
    BY <1>1, <1>8, FS_AddElement
  <2>3. new.size \in Nat
    BY <1>1, <1>4
  <2> HIDE DEF map, free
  <2>4. Typed([entities |-> new.entities, free |-> new.free, map |-> new.map,
               size |-> new.size, components |-> new.components], V)
    BY <1>5, <1>6, <1>7, <2>1, <2>2, <2>3, TypedRecord
  <2> QED BY <1>4, <2>4
<1> HIDE DEF map, free
<1>10. SlotsAgree(new)
  <2>1. ASSUME NEW x \in DOMAIN new.map
        PROVE  new.map[x] \in 1 .. Len(new.entities) /\ new.entities[new.map[x]] = x
    <3>1. CASE x = e
      BY <1>5, <1>8, <1>16, <3>1
    <3>2. CASE x # e
      <4>1. st.map[x] \in 1 .. Len(st.entities) /\ st.entities[st.map[x]] = x /\ x # None
        BY <1>1, <1>2, <1>8, <3>2 DEF SlotsAgree
      <4>2. st.map[x] # slot
        BY <1>1, <1>3, <4>1
      <4> QED BY <1>5, <1>8, <1>16, <3>2, <4>1, <4>2
    <3> QED BY <3>1, <3>2
  <2>2. ASSUME NEW i \in 1 .. Len(new.entities), new.entities[i] # None
        PROVE  new.entities[i] \in DOMAIN new.map /\ new.map[new.entities[i]] = i
    <3>1. CASE i = slot
      BY <1>5, <1>8, <3>1
    <3>2. CASE i # slot
      <4>1. i \in 1 .. Len(st.entities)
        BY <1>16, <3>2
      <4> QED BY <1>2, <1>5, <1>8, <2>2, <3>2, <4>1 DEF SlotsAgree
    <3> QED BY <3>1, <3>2
  <2> QED BY <2>1, <2>2 DEF SlotsAgree
<1>11. FreeExact(new)
  <2>1. ASSUME NEW k \in 1 .. Len(new.free)
        PROVE  new.free[k] \in 1 .. Len(new.entities) /\ new.entities[new.free[k]] = None
    <3>1. st.free # <<>> /\ k \in 1 .. Len(st.free) /\ k # Len(st.free) /\ Len(st.free) \in 1 .. Len(st.free)
      <4>1. st.free # <<>> /\ k \in 1 .. Len(st.free) /\ k # Len(st.free)
        BY <1>7
      <4> QED BY <1>15, <4>1
    <3>2. st.free[k] \in 1 .. Len(st.entities) /\ st.entities[st.free[k]] = None
      BY <1>2, <3>1 DEF FreeExact
    <3>3. st.free[k] # slot
      BY <1>2, <1>3, <3>1 DEF FreeExact
    <3> QED BY <1>5, <1>7, <1>16, <3>1, <3>2, <3>3
  <2>2. ASSUME NEW i \in 1 .. Len(new.entities), new.entities[i] = None
        PROVE  \E k \in 1 .. Len(new.free) : new.free[k] = i
    <3>1. i # slot
      BY <1>5, <2>2
    <3>2. i \in 1 .. Len(st.entities) /\ st.entities[i] = None
      BY <1>5, <1>16, <2>2, <3>1
    <3>3. PICK k \in 1 .. Len(st.free) : st.free[k] = i
      BY <1>2, <3>2 DEF FreeExact
    <3>4. k # Len(st.free) /\ st.free # <<>>
      BY <1>1, <1>3, <3>1, <3>3
    <3>5. k \in 1 .. Len(new.free)
      BY <1>7, <3>3, <3>4
    <3> QED BY <1>7, <3>3, <3>5
  <2>3. ASSUME NEW j \in 1 .. Len(new.free), NEW k \in 1 .. Len(new.free), new.free[j] = new.free[k]
        PROVE  j = k
    <3>1. j \in 1 .. Len(st.free) /\ k \in 1 .. Len(st.free)
      BY <1>7
    <3> QED BY <1>2, <1>7, <2>3, <3>1 DEF FreeExact
  <2> QED BY <2>1, <2>2, <2>3 DEF FreeExact
<1>12. SizesAgree(new)
  <2>1. Cardinality(DOMAIN st.map \cup {e}) = Cardinality(DOMAIN st.map) + 1
    BY <1>1, FS_AddElement DEF Entities
  <2> QED BY <1>2, <1>4, <1>6, <1>8, <2>1 DEF SizesAgree
<1>13. Get(new, e) = v
  BY <1>6, <1>8 DEF Get
<1>14. ASSUME NEW f \in Entities(st) PROVE Get(new, f) = Get(st, f)
  <2>1. st.map[f] \in 1 .. Len(st.entities) /\ st.entities[st.map[f]] = f /\ f # None
    BY <1>1, <1>2 DEF SlotsAgree, Entities
  <2>2. st.map[f] # slot
    BY SMTT(30), <1>1, <1>3, <2>1
  <2> QED BY <1>6, <1>8, <2>1, <2>2 DEF Get, Entities
<1> QED BY <1>8, <1>9, <1>10, <1>11, <1>12, <1>13, <1>14 DEF new, Sound, StorageOK, Entities

\* remove frees the slot of that entity once and leaves the others where they are.
LEMMA UnlinkSound ==
    ASSUME NEW st, NEW V, Sound(st, V), NEW e \in Entities(st)
    PROVE  /\ Sound(Unlinked(st, e), V)
           /\ Entities(Unlinked(st, e)) = Entities(st) \ {e}
           /\ \A f \in Entities(st) \ {e} : Get(Unlinked(st, e), f) = Get(st, f)
<1> DEFINE new  == Unlinked(st, e)
           slot == st.map[e]
           map  == [x \in DOMAIN st.map \ {e} |-> st.map[x]]
<1>1. /\ st.entities \in Seq(Nat) /\ st.free \in Seq(Nat) /\ st.components \in Seq(V)
      /\ st.size \in Nat /\ IsFiniteSet(DOMAIN st.map)
      /\ DOMAIN st.map \subseteq Nat \ {None} /\ \A x \in DOMAIN st.map : st.map[x] \in Nat
      /\ e \in DOMAIN st.map
  BY DEF Sound, Typed, Maps, Entities
<1>2. SlotsAgree(st) /\ FreeExact(st) /\ SizesAgree(st)
  BY DEF Sound, StorageOK
<1>3. slot \in 1 .. Len(st.entities) /\ st.entities[slot] = e /\ slot \in Nat /\ e # None
  BY <1>1, <1>2 DEF SlotsAgree
<1>4. /\ new.entities = [st.entities EXCEPT ![slot] = None] /\ new.free = Append(st.free, slot)
      /\ new.map = map /\ new.size = st.size - 1 /\ new.components = st.components
      /\ new = [entities |-> new.entities, free |-> new.free, map |-> new.map,
                size |-> new.size, components |-> new.components]
  BY DEF Unlinked
<1> HIDE DEF new, slot
<1>5. /\ new.entities \in Seq(Nat) /\ Len(new.entities) = Len(st.entities)
      /\ new.entities[slot] = None
      /\ \A j \in 1 .. Len(st.entities) : j # slot => new.entities[j] = st.entities[j]
  BY <1>1, <1>3, <1>4 DEF None
<1>6. /\ new.free \in Seq(Nat) /\ Len(new.free) = Len(st.free) + 1
      /\ new.free[Len(st.free) + 1] = slot
      /\ \A k \in 1 .. Len(st.free) : new.free[k] = st.free[k]
      /\ Len(st.free) + 1 \in 1 .. Len(new.free)
      /\ \A k \in 1 .. Len(new.free) : k = Len(st.free) + 1 \/ k \in 1 .. Len(st.free)
  BY SMTT(30), <1>1, <1>3, <1>4, AppendKeeps
<1>7. /\ DOMAIN new.map = DOMAIN st.map \ {e}
      /\ \A x \in DOMAIN new.map : new.map[x] = st.map[x]
  BY <1>4
<1>8. st.size = Cardinality(DOMAIN st.map)
      /\ Cardinality(DOMAIN st.map \ {e}) = Cardinality(DOMAIN st.map) - 1
      /\ Cardinality(DOMAIN st.map \ {e}) \in Nat /\ IsFiniteSet(DOMAIN st.map \ {e})
  BY <1>1, <1>2, FS_RemoveElement, FS_CardinalityType DEF SizesAgree
<1>9. Typed(new, V)
  <2>1. new.map \in Maps
    <3>1. DOMAIN new.map \in SUBSET (Nat \ {None}) /\ new.map \in [DOMAIN new.map -> Nat]
      BY <1>1, <1>4
    <3> QED BY <3>1 DEF Maps
  <2>2. IsFiniteSet(DOMAIN new.map)
    BY <1>7, <1>8
  <2>3. new.size \in Nat
    BY <1>4, <1>8
  <2>4. new.components \in Seq(V)
    BY <1>1, <1>4
  <2> HIDE DEF map
  <2>5. Typed([entities |-> new.entities, free |-> new.free, map |-> new.map,
               size |-> new.size, components |-> new.components], V)
    BY <1>5, <1>6, <2>1, <2>2, <2>3, <2>4, TypedRecord
  <2> QED BY <1>4, <2>5
<1> HIDE DEF map
<1>10. SlotsAgree(new)
  <2>1. ASSUME NEW x \in DOMAIN new.map
        PROVE  new.map[x] \in 1 .. Len(new.entities) /\ new.entities[new.map[x]] = x
    <3>1. st.map[x] \in 1 .. Len(st.entities) /\ st.entities[st.map[x]] = x /\ x # e
      BY <1>2, <1>7 DEF SlotsAgree
    <3>2. st.map[x] # slot
      BY <1>3, <3>1
    <3> QED BY <1>5, <1>7, <3>1, <3>2
  <2>2. ASSUME NEW i \in 1 .. Len(new.entities), new.entities[i] # None
        PROVE  new.entities[i] \in DOMAIN new.map /\ new.map[new.entities[i]] = i
    <3>1. i # slot /\ i \in 1 .. Len(st.entities)
      BY <1>5, <2>2
    <3>2. st.entities[i] \in DOMAIN st.map /\ st.map[st.entities[i]] = i
      BY <1>2, <1>5, <2>2, <3>1 DEF SlotsAgree
    <3>3. st.entities[i] # e
      BY <3>1, <3>2 DEF slot
    <3> QED BY <1>5, <1>7, <3>1, <3>2, <3>3
  <2> QED BY <2>1, <2>2 DEF SlotsAgree
<1>11. FreeExact(new)
  <2>0. ASSUME NEW k \in 1 .. Len(st.free)
        PROVE  st.free[k] \in 1 .. Len(st.entities) /\ st.entities[st.free[k]] = None /\ st.free[k] # slot
    BY <1>2, <1>3 DEF FreeExact
  <2>1. ASSUME NEW k \in 1 .. Len(new.free)
        PROVE  new.free[k] \in 1 .. Len(new.entities) /\ new.entities[new.free[k]] = None
    <3>1. CASE k = Len(st.free) + 1
      BY <1>3, <1>5, <1>6, <3>1
    <3>2. CASE k \in 1 .. Len(st.free)
      BY <1>5, <1>6, <2>0, <3>2
    <3> QED BY <1>6, <3>1, <3>2
  <2>2. ASSUME NEW i \in 1 .. Len(new.entities), new.entities[i] = None
        PROVE  \E k \in 1 .. Len(new.free) : new.free[k] = i
    <3>1. CASE i = slot
      BY <1>6, <3>1
    <3>2. CASE i # slot
      <4>1. PICK k \in 1 .. Len(st.free) : st.free[k] = i
        BY <1>2, <1>5, <2>2, <3>2 DEF FreeExact
      <4>2. k \in 1 .. Len(new.free)
        BY <1>1, <1>6, <4>1
      <4> QED BY <1>6, <4>1, <4>2
    <3> QED BY <3>1, <3>2
  <2>3. ASSUME NEW j \in 1 .. Len(new.free), NEW k \in 1 .. Len(new.free), new.free[j] = new.free[k]
        PROVE  j = k
    <3>1. CASE j \in 1 .. Len(st.free) /\ k \in 1 .. Len(st.free)
      BY <1>2, <1>6, <2>3, <3>1 DEF FreeExact
    <3>2. CASE j = Len(st.free) + 1 /\ k \in 1 .. Len(st.free)
      BY <1>6, <2>0, <2>3, <3>2
    <3>3. CASE k = Len(st.free) + 1 /\ j \in 1 .. Len(st.free)
      BY <1>6, <2>0, <2>3, <3>3
    <3> QED BY <1>6, <3>1, <3>2, <3>3
  <2> QED BY <2>1, <2>2, <2>3 DEF FreeExact
<1>12. SizesAgree(new)
  BY <1>2, <1>4, <1>5, <1>7, <1>8 DEF SizesAgree
<1>13. ASSUME NEW f \in Entities(st) \ {e} PROVE Get(new, f) = Get(st, f)
  BY <1>4, <1>7 DEF Get, Entities
<1> QED BY <1>7, <1>9, <1>10, <1>11, <1>12, <1>13 DEF new, Sound, StorageOK, Entities

-----------------------------------------------------------------------------
(* The storages and the world together *)

Values(c) == IF c = "BulletBody" THEN Bodies \cup {NoBody} ELSE Positions

Storages(stg) ==
    /\ stg = [c \in DOMAIN stg |-> stg[c]]
    /\ DOMAIN stg \subseteq Components
    /\ \A c \in DOMAIN stg : Sound(stg[c], Values(c))

World(w) == w \in [DOMAIN w -> Positions] /\ DOMAIN w \subseteq Bodies

\* The bodies in the world are those of the components, one each.
Matched(stg, w) ==
    /\ "BulletBody" \in DOMAIN stg
    /\ DOMAIN w = {Get(stg["BulletBody"], e) : e \in Entities(stg["BulletBody"])}
    /\ \A e, f \in Entities(stg["BulletBody"]) :
          Get(stg["BulletBody"], e) = Get(stg["BulletBody"], f) => e = f

Rec(stg, w) == [storage |-> stg, world |-> w]

\* One storage is replaced and the others stay.
LEMMA OneStorage ==
    ASSUME NEW stg, Storages(stg), NEW c \in DOMAIN stg, NEW st, Sound(st, Values(c))
    PROVE  /\ Storages([stg EXCEPT ![c] = st])
           /\ DOMAIN [stg EXCEPT ![c] = st] = DOMAIN stg
           /\ [stg EXCEPT ![c] = st][c] = st
           /\ \A d \in DOMAIN stg \ {c} : [stg EXCEPT ![c] = st][d] = stg[d]
BY DEF Storages

\* The position a new body gets is one.
LEMMA PositionOfType ==
    ASSUME NEW stg, Storages(stg), "Transform" \in DOMAIN stg, NEW w, NEW e
    PROVE  PositionOf(Rec(stg, w), e) \in Positions
<1>1. Sound(stg["Transform"], Positions)
  BY DEF Storages, Values
<1>2. CASE Contains(stg["Transform"], e)
  <2>1. Get(stg["Transform"], e) \in Positions
    BY <1>1, <1>2, ContainsMap, SlotOf
  <2> QED BY <1>2, <2>1 DEF PositionOf, Has, Rec
<1>3. CASE ~Contains(stg["Transform"], e)
  BY <1>3, SpaceAssumption DEF PositionOf, Has, Rec
<1> QED BY <1>2, <1>3

\* An entity without a body gets one that no other has.
LEMMA GiveBodySound ==
    ASSUME NEW stg, Storages(stg), {"Transform", "BulletBody"} \subseteq DOMAIN stg,
           NEW w, World(w), NEW e \in Nat \ {None}, e \notin Entities(stg["BulletBody"]),
           NEW b \in Bodies \ DOMAIN w, NEW new, new = GiveBody(Rec(stg, w), e, b)
    PROVE  /\ Storages(new.storage) /\ DOMAIN new.storage = DOMAIN stg
           /\ \A d \in DOMAIN stg \ {"BulletBody"} : new.storage[d] = stg[d]
           /\ Entities(new.storage["BulletBody"]) = Entities(stg["BulletBody"]) \cup {e}
           /\ World(new.world)
           /\ Matched(stg, w) => Matched(new.storage, new.world)
<1> DEFINE bullet == stg["BulletBody"]
           linked == Linked(bullet, e, NoBody)
           given  == SetComponent(linked, e, b)
           one    == [stg EXCEPT !["BulletBody"] = linked]
           stg2   == [one EXCEPT !["BulletBody"] = given]
<1>1. Sound(bullet, Values("BulletBody")) /\ NoBody \in Values("BulletBody") /\ b \in Values("BulletBody")
  BY DEF Storages, Values
<1>2. /\ Sound(linked, Values("BulletBody"))
      /\ Entities(linked) = Entities(bullet) \cup {e}
      /\ \A f \in Entities(bullet) : Get(linked, f) = Get(bullet, f)
  BY <1>1, LinkSound
<1>3. /\ Sound(given, Values("BulletBody"))
      /\ Entities(given) = Entities(bullet) \cup {e}
      /\ Get(given, e) = b
      /\ \A f \in Entities(bullet) : Get(given, f) = Get(bullet, f)
  BY <1>1, <1>2, SetSound
<1>4. ~Contains(bullet, e)
  BY <1>1, ContainsMap
<1> HIDE DEF linked, given
<1>5. /\ Storages(one) /\ DOMAIN one = DOMAIN stg /\ one["BulletBody"] = linked
      /\ \A d \in DOMAIN stg \ {"BulletBody"} : one[d] = stg[d]
  BY <1>2, OneStorage
<1>6. /\ Storages(stg2) /\ DOMAIN stg2 = DOMAIN stg /\ stg2["BulletBody"] = given
      /\ \A d \in DOMAIN stg \ {"BulletBody"} : stg2[d] = stg[d]
  BY <1>3, <1>5, OneStorage
<1>7. /\ new.storage = stg2
      /\ new.world = [x \in DOMAIN w \cup {b} |-> IF x = b THEN PositionOf(Rec(stg, w), e) ELSE w[x]]
  <2>1. ~Has(Rec(stg, w), "BulletBody", e)
    BY <1>4 DEF Has, Rec
  <2>2. Link(Rec(stg, w), "BulletBody", e, NoBody).storage = one
    BY DEF Link, Rec, linked
  <2> HIDE DEF one
  <2>3. [one EXCEPT !["BulletBody"] = SetComponent(one["BulletBody"], e, b)] = stg2
    BY <1>5 DEF given
  <2> HIDE DEF stg2
  <2>4. new.storage = stg2
    BY <2>1, <2>2, <2>3 DEF GiveBody
  <2>5. new.world = [x \in DOMAIN w \cup {b} |-> IF x = b THEN PositionOf(Rec(stg, w), e) ELSE w[x]]
    BY <2>1 DEF GiveBody, Rec
  <2> QED BY <2>4, <2>5
<1> HIDE DEF stg2
<1>8. World(new.world) /\ DOMAIN new.world = DOMAIN w \cup {b}
  BY <1>7, PositionOfType DEF World
<1>9. ASSUME Matched(stg, w) PROVE Matched(new.storage, new.world)
  <2>1. \A f \in Entities(bullet) : Get(bullet, f) \in DOMAIN w
    BY <1>9 DEF Matched
  <2>2. \A f \in Entities(bullet) : Get(given, f) # b
    BY <1>3, <2>1
  <2>3. DOMAIN w \cup {b} = {Get(given, f) : f \in Entities(given)}
    <3>1. DOMAIN w = {Get(given, f) : f \in Entities(bullet)}
      BY <1>3, <1>9 DEF Matched
    <3> QED BY <1>3, <3>1
  <2>4. \A f, g \in Entities(given) : Get(given, f) = Get(given, g) => f = g
    BY <1>3, <1>9, <2>2 DEF Matched
  <2> QED BY <1>6, <1>7, <1>8, <2>3, <2>4 DEF Matched
<1> QED BY <1>3, <1>6, <1>7, <1>8, <1>9

\* onRemove takes that entity's body, and its BulletBody, and no other.
LEMMA TakeBodySound ==
    ASSUME NEW stg, Storages(stg), NEW w, World(w), Matched(stg, w), NEW e,
           NEW new, new = TakeBody(Rec(stg, w), e)
    PROVE  /\ Storages(new.storage) /\ DOMAIN new.storage = DOMAIN stg
           /\ \A d \in DOMAIN stg \ {"BulletBody"} : new.storage[d] = stg[d]
           /\ Entities(new.storage["BulletBody"]) = Entities(stg["BulletBody"]) \ {e}
           /\ World(new.world)
           /\ Matched(new.storage, new.world)
           /\ new = Rec(new.storage, new.world)
<1> DEFINE bullet == stg["BulletBody"]
           stg2   == [stg EXCEPT !["BulletBody"] = Unlinked(bullet, e)]
           world2 == [x \in DOMAIN w \ {Get(bullet, e)} |-> w[x]]
<1>1. "BulletBody" \in DOMAIN stg /\ Sound(bullet, Values("BulletBody"))
  BY DEF Storages, Matched
<1>2. Contains(bullet, e) <=> e \in Entities(bullet)
  BY <1>1, ContainsMap
<1>3. CASE e \notin Entities(bullet)
  <2>1. new = Rec(stg, w)
    BY <1>2, <1>3 DEF TakeBody, Has, Rec
  <2> QED BY <1>3, <2>1 DEF Rec
<1>4. CASE e \in Entities(bullet)
  <2>1. /\ Sound(Unlinked(bullet, e), Values("BulletBody"))
        /\ Entities(Unlinked(bullet, e)) = Entities(bullet) \ {e}
        /\ \A f \in Entities(bullet) \ {e} : Get(Unlinked(bullet, e), f) = Get(bullet, f)
    BY <1>1, <1>4, UnlinkSound
  <2>2. /\ Storages(stg2) /\ DOMAIN stg2 = DOMAIN stg /\ stg2["BulletBody"] = Unlinked(bullet, e)
        /\ \A d \in DOMAIN stg \ {"BulletBody"} : stg2[d] = stg[d]
    BY <1>1, <2>1, OneStorage
  <2>3. new = Rec(stg2, world2)
    BY <1>2, <1>4 DEF TakeBody, Has, Rec, Unlink
  <2> HIDE DEF stg2, world2
  <2>4. new.storage = stg2 /\ new.world = world2
    BY <2>3 DEF Rec
  <2>5. World(world2) /\ DOMAIN world2 = DOMAIN w \ {Get(bullet, e)}
    BY DEF World, world2
  <2>6. DOMAIN world2 = {Get(Unlinked(bullet, e), f) : f \in Entities(bullet) \ {e}}
    <3>1. DOMAIN w = {Get(bullet, f) : f \in Entities(bullet)}
      BY DEF Matched
    <3>2. \A f \in Entities(bullet) \ {e} : Get(bullet, f) # Get(bullet, e)
      BY <1>4 DEF Matched
    <3> QED BY <2>1, <2>5, <3>1, <3>2
  <2>7. \A f, g \in Entities(bullet) \ {e} :
            Get(Unlinked(bullet, e), f) = Get(Unlinked(bullet, e), g) => f = g
    BY <2>1 DEF Matched
  <2>8. Matched(stg2, world2)
    BY <1>1, <2>1, <2>2, <2>6, <2>7 DEF Matched
  <2> QED BY <2>1, <2>2, <2>3, <2>4, <2>5, <2>8
<1> QED BY <1>3, <1>4

WasRemoved(stg, w, c, e, new) ==
    /\ Storages(new.storage) /\ DOMAIN new.storage = DOMAIN stg
    /\ World(new.world)
    /\ new = Rec(new.storage, new.world)
    /\ c \in DOMAIN stg => Entities(new.storage[c]) = Entities(stg[c]) \ {e}
    /\ \A d \in DOMAIN stg \ {c, "BulletBody"} : new.storage[d] = stg[d]
    /\ \A d \in DOMAIN stg : Entities(stg[d]) \ {e} \subseteq Entities(new.storage[d])
    /\ \A d \in DOMAIN stg : Entities(new.storage[d]) \subseteq Entities(stg[d])
    /\ c = "RigidBody" /\ observed =>
          /\ Matched(new.storage, new.world)
          /\ c \in DOMAIN stg /\ e \in Entities(stg[c]) =>
                Entities(new.storage["BulletBody"]) = Entities(stg["BulletBody"]) \ {e}
    /\ c \notin DOMAIN stg \/ e \notin Entities(stg[c]) => new = Rec(stg, w)
    /\ ~(c = "RigidBody" /\ observed) =>
          new.world = w /\ \A d \in DOMAIN stg \ {c} : new.storage[d] = stg[d]

\* A remove with its observer: the entity loses that component, with a rigid
\* body also its body, and nothing else changes.
LEMMA RemovedSound ==
    ASSUME NEW stg, Storages(stg), NEW w, World(w), observed \in BOOLEAN,
           NEW c \in Components, c = "RigidBody" /\ observed => Matched(stg, w),
           NEW e, NEW new, new = Removed(Rec(stg, w), c, e)
    PROVE  WasRemoved(stg, w, c, e, new)
<1> USE DEF WasRemoved
<1>1. CASE c \notin DOMAIN stg
  <2>1. new = Rec(stg, w)
    BY <1>1 DEF Removed, Rec
  <2> QED BY <1>1, <2>1 DEF Rec
<1>2. CASE c \in DOMAIN stg /\ e \notin Entities(stg[c])
  <2>1. ~Contains(stg[c], e)
    BY <1>2, ContainsMap DEF Storages
  <2>2. new = Rec(stg, w)
    BY <1>2, <2>1 DEF Removed, Has, Rec
  <2> QED BY <1>2, <2>2 DEF Rec
<1>3. CASE c \in DOMAIN stg /\ e \in Entities(stg[c])
  <2> DEFINE mid == IF c = "RigidBody" /\ observed THEN TakeBody(Rec(stg, w), e) ELSE Rec(stg, w)
             stg2 == [mid.storage EXCEPT ![c] = Unlinked(mid.storage[c], e)]
  <2>1. Contains(stg[c], e)
    BY <1>3, ContainsMap DEF Storages
  <2>2. /\ Storages(mid.storage) /\ DOMAIN mid.storage = DOMAIN stg /\ World(mid.world)
        /\ mid = Rec(mid.storage, mid.world)
        /\ mid.storage[c] = stg[c]
        /\ \A d \in DOMAIN stg \ {"BulletBody"} : mid.storage[d] = stg[d]
        /\ c = "RigidBody" /\ observed =>
              /\ Matched(mid.storage, mid.world)
              /\ Entities(mid.storage["BulletBody"]) = Entities(stg["BulletBody"]) \ {e}
        /\ ~(c = "RigidBody" /\ observed) => mid = Rec(stg, w)
    <3>1. CASE c = "RigidBody" /\ observed
      BY <1>3, <3>1, TakeBodySound
    <3>2. CASE ~(c = "RigidBody" /\ observed)
      <4>1. mid = Rec(stg, w)
        BY <3>2
      <4> HIDE DEF mid
      <4> QED BY <3>2, <4>1 DEF Rec
    <3> QED BY <3>1, <3>2
  <2>3. new = Unlink(mid, c, e)
    BY <1>3, <2>1 DEF Removed, Has, Rec
  <2> HIDE DEF mid
  <2>4. /\ Sound(Unlinked(stg[c], e), Values(c))
        /\ Entities(Unlinked(stg[c], e)) = Entities(stg[c]) \ {e}
    BY <1>3, UnlinkSound DEF Storages
  <2>5. /\ Storages(stg2) /\ DOMAIN stg2 = DOMAIN stg
        /\ stg2[c] = Unlinked(stg[c], e)
        /\ \A d \in DOMAIN stg \ {c} : stg2[d] = mid.storage[d]
    BY <1>3, <2>2, <2>4, OneStorage
  <2>6. new = Rec(stg2, mid.world)
    <3>1. new = Unlink(Rec(mid.storage, mid.world), c, e)
      BY <2>2, <2>3
    <3> QED BY <3>1 DEF Unlink, Rec
  <2>7. new.storage = stg2 /\ new.world = mid.world
    BY <2>6 DEF Rec
  <2> HIDE DEF stg2
  <2>8. ASSUME c = "RigidBody", observed PROVE Matched(stg2, mid.world)
    <3>1. stg2["BulletBody"] = mid.storage["BulletBody"]
      BY <2>2, <2>5, <2>8 DEF Matched
    <3> QED BY <2>2, <2>5, <2>8, <3>1 DEF Matched
  <2>9. \A d \in DOMAIN stg : Entities(stg[d]) \ {e} \subseteq Entities(stg2[d])
                               /\ Entities(stg2[d]) \subseteq Entities(stg[d])
    <3> SUFFICES ASSUME NEW d \in DOMAIN stg
                 PROVE  Entities(stg[d]) \ {e} \subseteq Entities(stg2[d])
                        /\ Entities(stg2[d]) \subseteq Entities(stg[d])
      OBVIOUS
    <3>1. CASE d = c
      BY <2>4, <2>5, <3>1
    <3>2. CASE d # c /\ d # "BulletBody"
      BY <2>2, <2>5, <3>2
    <3>3. CASE d # c /\ d = "BulletBody" /\ c = "RigidBody" /\ observed
      BY <2>2, <2>5, <3>3
    <3>4. CASE d # c /\ ~(c = "RigidBody" /\ observed)
      BY <2>2, <2>5, <3>4 DEF Rec
    <3> QED BY <3>1, <3>2, <3>3, <3>4
  <2>10. ASSUME c = "RigidBody", observed
         PROVE  Entities(stg2["BulletBody"]) = Entities(stg["BulletBody"]) \ {e}
    BY <2>2, <2>5, <2>10 DEF Matched
  <2>11. ASSUME ~(c = "RigidBody" /\ observed)
         PROVE  mid.world = w /\ \A d \in DOMAIN stg \ {c} : stg2[d] = stg[d]
    BY <2>2, <2>5, <2>11 DEF Rec
  <2> QED BY <1>3, <2>2, <2>4, <2>5, <2>6, <2>7, <2>8, <2>9, <2>10, <2>11
<1> QED BY <1>1, <1>2, <1>3

-----------------------------------------------------------------------------
(* The invariant *)

\* While start runs its select, the bodies are those of the slots it has passed.
Bodily ==
    /\ phase = "New" => DOMAIN world = {}
    /\ observed => Matched(storage, world)
    /\ phase = "Starting" =>
          /\ physics
          /\ cursor \in 1 .. Len(storage["RigidBody"].entities) + 1
          /\ Entities(storage["BulletBody"]) =
                {e \in Entities(storage["RigidBody"]) : storage["RigidBody"].map[e] < cursor}
    /\ phase = "Started" /\ physics =>
          Entities(storage["BulletBody"]) = Entities(storage["RigidBody"])

IInv == SpaceTypeOK /\ Storages(storage) /\ OnlyTheLiving /\ Bodily

LEMMA Ids == ASSUME SpaceTypeOK PROVE alive \subseteq Nat \ {None} /\ nextId \in Nat /\ nextId \notin alive
BY SpaceAssumption DEF SpaceTypeOK, None

LEMMA IInvInit == ASSUME SpaceInit PROVE IInv
<1>1. DOMAIN storage = {"Transform", "RigidBody"}
      /\ \A c \in DOMAIN storage : storage[c] = EmptyStorage
  BY DEF SpaceInit
<1>2. Storages(storage)
  <2>1. storage = [c \in DOMAIN storage |-> storage[c]]
    BY DEF SpaceInit
  <2> QED BY <1>1, <2>1, EmptySound DEF Storages, Components
<1>3. SpaceTypeOK
  <2>1. world \in [DOMAIN world -> Positions] /\ DOMAIN world = {}
    BY DEF SpaceInit
  <2>2. nextId \in 1 .. MaxEntities + 1 /\ alive \subseteq 1 .. nextId - 1
    BY SpaceAssumption DEF SpaceInit
  <2>3. /\ phase = "New" /\ physics = FALSE /\ observed = FALSE /\ cursor \in Nat
    BY DEF SpaceInit
  <2> QED BY <1>1, <2>1, <2>2, <2>3 DEF SpaceTypeOK
<1>4. OnlyTheLiving
  BY <1>1, EmptySound DEF OnlyTheLiving
<1>5. Bodily
  BY DEF SpaceInit, Bodily
<1> QED BY <1>2, <1>3, <1>4, <1>5 DEF IInv

\* A step that touches neither storages nor bodies.
LEMMA QuietStep ==
    ASSUME IInv, UNCHANGED <<storage, phase, physics, observed, world, cursor>>,
           SpaceTypeOK', alive \subseteq alive'
    PROVE  IInv'
BY DEF IInv, Storages, OnlyTheLiving, Bodily, Matched

\* The space as the record that the storage operations work on.
LEMMA TheStore == Store = Rec(storage, world)
BY DEF Store, Rec

LEMMA WorldTyped == ASSUME SpaceTypeOK PROVE World(world) /\ DOMAIN world \subseteq Bodies /\ observed \in BOOLEAN
BY DEF SpaceTypeOK, World

LEMMA CreateStep == ASSUME IInv, CreateEntity PROVE IInv'
<1>1. SpaceTypeOK'
  BY SpaceAssumption DEF IInv, SpaceTypeOK, CreateEntity
<1> QED BY <1>1, QuietStep DEF CreateEntity

LEMMA AddPhysicsStep == ASSUME IInv, AddPhysics PROVE IInv'
<1>1. SpaceTypeOK'
  BY DEF IInv, SpaceTypeOK, AddPhysics
<1>2. OnlyTheLiving' /\ Storages(storage')
  BY DEF IInv, OnlyTheLiving, AddPhysics
<1>3. Bodily'
  BY DEF IInv, SpaceTypeOK, Bodily, Matched, AddPhysics
<1> QED BY <1>1, <1>2, <1>3 DEF IInv

LEMMA StopStep == ASSUME IInv, Stop PROVE IInv'
<1>1. SpaceTypeOK'
  BY DEF IInv, SpaceTypeOK, Stop
<1>2. OnlyTheLiving' /\ Storages(storage')
  BY DEF IInv, OnlyTheLiving, Stop
<1>3. Bodily'
  BY DEF Bodily, Stop
<1> QED BY <1>1, <1>2, <1>3 DEF IInv

LEMMA StartStep == ASSUME IInv, Start PROVE IInv'
<1>0. DOMAIN storage = {"Transform", "RigidBody"} /\ DOMAIN world = {} /\ physics \in BOOLEAN
  BY DEF IInv, SpaceTypeOK, Bodily, Start
<1>1. /\ DOMAIN storage' = IF physics THEN Components ELSE {"Transform", "RigidBody"}
      /\ storage' = [c \in DOMAIN storage' |-> storage'[c]]
      /\ \A c \in DOMAIN storage : storage'[c] = storage[c]
      /\ physics => storage'["BulletBody"] = EmptyStorage
  BY <1>0 DEF Start, Components
<1>2. SpaceTypeOK'
  BY <1>0, <1>1 DEF IInv, SpaceTypeOK, Start
<1>3. \A c \in DOMAIN storage' : c \in DOMAIN storage \/ storage'[c] = EmptyStorage
  BY <1>0, <1>1 DEF Components
<1>4. Storages(storage')
  <2>1. DOMAIN storage' \subseteq Components
    BY <1>0, <1>1 DEF Components
  <2> QED BY <1>1, <1>3, <2>1, EmptySound DEF IInv, Storages
<1>5. OnlyTheLiving'
  BY <1>1, <1>3, EmptySound DEF IInv, OnlyTheLiving, Start
<1>6. Bodily'
  <2>1. CASE physics
    <3>1. Entities(storage'["BulletBody"]) = {} /\ "BulletBody" \in DOMAIN storage'
      BY <1>1, <2>1, EmptySound DEF Components
    <3>2. Matched(storage, world)'
      BY <1>0, <3>1 DEF Matched, Start
    <3>3. storage'["RigidBody"] = storage["RigidBody"] /\ Sound(storage["RigidBody"], Values("RigidBody"))
      BY <1>0, <1>1 DEF IInv, Storages
    <3>4. \A e \in Entities(storage["RigidBody"]) : storage["RigidBody"].map[e] \in Nat \ {0}
      BY <3>3 DEF Sound, Typed, StorageOK, SlotsAgree, Entities
    <3>5. Len(storage["RigidBody"].entities) \in Nat
      BY <3>3 DEF Sound, Typed
    <3>6. cursor' = 1 /\ phase' = "Starting" /\ physics'
      BY <2>1 DEF Start
    <3>7. \A e \in Entities(storage["RigidBody"]) : ~(storage["RigidBody"].map[e] < 1)
      BY <3>4
    <3> QED BY <3>1, <3>2, <3>3, <3>5, <3>6, <3>7 DEF Bodily
  <2>2. CASE ~physics
    BY <2>2 DEF Bodily, Start
  <2> QED BY <1>0, <2>1, <2>2
<1> QED BY <1>2, <1>4, <1>5, <1>6 DEF IInv

LEMMA StartEndStep == ASSUME IInv, StartEnd PROVE IInv'
<1>1. SpaceTypeOK'
  BY DEF IInv, SpaceTypeOK, StartEnd
<1>2. OnlyTheLiving' /\ Storages(storage')
  BY DEF IInv, OnlyTheLiving, StartEnd
<1>3. Bodily'
  <2>1. Sound(storage["RigidBody"], Values("RigidBody"))
    BY DEF IInv, Storages, SpaceTypeOK, Components
  <2>2. \A e \in Entities(storage["RigidBody"]) : storage["RigidBody"].map[e] < cursor
    <3>1. Len(storage["RigidBody"].entities) \in Nat /\ cursor \in Nat
      BY <2>1 DEF Sound, Typed, IInv, SpaceTypeOK
    <3>2. \A e \in Entities(storage["RigidBody"]) :
              storage["RigidBody"].map[e] \in 1 .. Len(storage["RigidBody"].entities)
      BY <2>1 DEF Sound, StorageOK, SlotsAgree, Entities
    <3> QED BY <3>1, <3>2 DEF StartEnd
  <2> QED BY <2>2 DEF IInv, Bodily, Matched, StartEnd
<1> QED BY <1>1, <1>2, <1>3 DEF IInv

\* What changes the storages and the world of a space that is not starting.
LEMMA StorageStep ==
    ASSUME IInv, UNCHANGED <<nextId, phase, physics, observed, cursor>>,
           alive' \subseteq alive,
           phase # "Starting", Storages(storage'), DOMAIN storage' = DOMAIN storage, World(world'),
           phase = "New" => DOMAIN world' = {},
           observed => Matched(storage', world')
                       /\ Entities(storage'["BulletBody"]) = Entities(storage'["RigidBody"]),
           \A c \in DOMAIN storage' : Entities(storage'[c]) \subseteq alive'
    PROVE  IInv'
<1>1. SpaceTypeOK'
  BY DEF IInv, SpaceTypeOK, World
<1>2. OnlyTheLiving'
  BY DEF OnlyTheLiving
<1>3. Bodily'
  BY DEF IInv, SpaceTypeOK, Bodily
<1> QED BY <1>1, <1>2, <1>3 DEF IInv

LEMMA AddStep ==
    ASSUME IInv, phase # "Starting", NEW e \in alive, NEW c \in {"Transform", "RigidBody"},
           NEW v \in Positions, AddComponent(e, c, v)
    PROVE  /\ IInv'
           /\ c \in DOMAIN storage /\ DOMAIN storage' = DOMAIN storage
           /\ \A d \in DOMAIN storage : Entities(storage[d]) \subseteq Entities(storage'[d])
                                         /\ Entities(storage'[d]) \subseteq Entities(storage[d]) \cup {e}
<1>1. /\ c \in DOMAIN storage /\ Storages(storage) /\ World(world) /\ e \in Nat \ {None}
      /\ c # "BulletBody" /\ v \in Values(c)
      /\ {"Transform", "RigidBody"} \subseteq DOMAIN storage
  BY Ids, WorldTyped DEF IInv, AddComponent, Registered, Values, SpaceTypeOK, Components
<1>2. Sound(storage[c], Values(c)) /\ e \notin Entities(storage[c])
  <2>1. Sound(storage[c], Values(c))
    BY <1>1 DEF Storages
  <2> QED BY <2>1, ContainsMap DEF AddComponent
<1> DEFINE st  == Linked(storage[c], e, v)
           stg == [storage EXCEPT ![c] = st]
<1>3. Sound(st, Values(c)) /\ Entities(st) = Entities(storage[c]) \cup {e}
  BY <1>1, <1>2, LinkSound
<1>4. /\ Storages(stg) /\ DOMAIN stg = DOMAIN storage /\ stg[c] = st
      /\ \A d \in DOMAIN storage \ {c} : stg[d] = storage[d]
  BY <1>1, <1>3, OneStorage
<1>5. Link(Store, c, e, v) = Rec(stg, world)
  BY TheStore DEF Link, Rec
<1> HIDE DEF st, stg
<1>6. CASE ~(c = "RigidBody" /\ observed)
  <2>1. storage' = stg /\ world' = world
    BY <1>5, <1>6 DEF AddComponent, SetStore, Rec
  <2>2. \A d \in DOMAIN storage : Entities(storage[d]) \subseteq Entities(storage'[d])
                                 /\ Entities(storage'[d]) \subseteq Entities(storage[d]) \cup {e}
    BY <1>3, <1>4, <2>1
  <2>3. \A d \in DOMAIN storage' : Entities(storage'[d]) \subseteq alive
    BY <1>4, <2>1, <2>2 DEF IInv, OnlyTheLiving
  <2>4. observed => Matched(storage', world')
                    /\ Entities(storage'["BulletBody"]) = Entities(storage'["RigidBody"])
    <3>1. SUFFICES ASSUME observed PROVE Matched(stg, world)
                    /\ Entities(stg["BulletBody"]) = Entities(stg["RigidBody"])
      BY <2>1
    <3>2. /\ "BulletBody" \in DOMAIN storage /\ c = "Transform"
          /\ Matched(storage, world) /\ Entities(storage["BulletBody"]) = Entities(storage["RigidBody"])
      BY <1>6, <3>1 DEF IInv, Bodily, Matched, SpaceTypeOK
    <3>3. stg["BulletBody"] = storage["BulletBody"] /\ stg["RigidBody"] = storage["RigidBody"]
      BY <1>1, <1>4, <3>2
    <3> QED BY <1>4, <3>2, <3>3 DEF Matched
  <2>5. phase = "New" => DOMAIN world' = {}
    BY <2>1 DEF IInv, Bodily
  <2> QED BY <1>1, <1>4, <2>1, <2>2, <2>3, <2>4, <2>5, StorageStep DEF AddComponent
<1>7. CASE c = "RigidBody" /\ observed
  <2>1. /\ Matched(storage, world) /\ "BulletBody" \in DOMAIN storage
        /\ Entities(storage["BulletBody"]) = Entities(storage["RigidBody"])
        /\ phase # "New"
    BY <1>7 DEF IInv, Bodily, Matched, SpaceTypeOK
  <2>2. PICK b \in Bodies \ DOMAIN world :
            /\ storage' = GiveBody(Rec(stg, world), e, b).storage
            /\ world' = GiveBody(Rec(stg, world), e, b).world
    BY <1>5, <1>7 DEF AddComponent, SetStore
  <2>3. /\ stg["BulletBody"] = storage["BulletBody"]
        /\ {"Transform", "BulletBody"} \subseteq DOMAIN stg
        /\ e \notin Entities(stg["BulletBody"])
    BY <1>1, <1>2, <1>4, <1>7, <2>1
  <2>4. Matched(stg, world)
    BY <2>1, <2>3 DEF Matched
  <2>5. /\ Storages(storage') /\ DOMAIN storage' = DOMAIN stg
        /\ \A d \in DOMAIN stg \ {"BulletBody"} : storage'[d] = stg[d]
        /\ Entities(storage'["BulletBody"]) = Entities(stg["BulletBody"]) \cup {e}
        /\ World(world')
        /\ Matched(storage', world')
    BY <1>1, <1>4, <2>2, <2>3, <2>4, GiveBodySound
  <2>6. Entities(storage'["RigidBody"]) = Entities(storage["RigidBody"]) \cup {e}
    BY <1>1, <1>3, <1>4, <1>7, <2>5
  <2>7. \A d \in DOMAIN storage : Entities(storage[d]) \subseteq Entities(storage'[d])
                                 /\ Entities(storage'[d]) \subseteq Entities(storage[d]) \cup {e}
    BY <1>4, <1>7, <2>3, <2>5, <2>6
  <2>8. \A d \in DOMAIN storage' : Entities(storage'[d]) \subseteq alive
    BY <1>4, <2>5, <2>7 DEF IInv, OnlyTheLiving
  <2>9. Entities(storage'["BulletBody"]) = Entities(storage'["RigidBody"])
    BY <2>1, <2>3, <2>5, <2>6
  <2> QED BY <1>1, <1>4, <2>1, <2>5, <2>7, <2>8, <2>9, StorageStep DEF AddComponent
<1> QED BY <1>6, <1>7

LEMMA SetTransformStep ==
    ASSUME IInv, phase # "Starting", NEW e \in alive, NEW v \in Positions, SetTransform(e, v)
    PROVE  /\ IInv' /\ DOMAIN storage' = DOMAIN storage
           /\ \A d \in DOMAIN storage : Entities(storage'[d]) = Entities(storage[d])
<1>1. "Transform" \in DOMAIN storage /\ Storages(storage) /\ World(world)
      /\ Sound(storage["Transform"], Values("Transform")) /\ v \in Values("Transform")
  BY WorldTyped DEF IInv, SpaceTypeOK, Components, Storages, Values
<1>2. e \in Entities(storage["Transform"])
  BY <1>1, ContainsMap DEF SetTransform
<1> DEFINE st  == SetComponent(storage["Transform"], e, v)
           stg == [storage EXCEPT !["Transform"] = st]
<1>3. Sound(st, Values("Transform")) /\ Entities(st) = Entities(storage["Transform"])
  BY <1>1, <1>2, SetSound
<1>4. storage' = stg
  BY DEF SetTransform
<1> HIDE DEF st
<1>5. /\ Storages(stg) /\ DOMAIN stg = DOMAIN storage /\ stg["Transform"] = st
      /\ \A d \in DOMAIN storage \ {"Transform"} : stg[d] = storage[d]
  BY <1>1, <1>3, OneStorage
<1> HIDE DEF stg
<1>6. \A d \in DOMAIN storage : Entities(storage'[d]) = Entities(storage[d])
  BY <1>3, <1>4, <1>5
<1>7. \A d \in DOMAIN storage' : Entities(storage'[d]) \subseteq alive
  BY <1>4, <1>5, <1>6 DEF IInv, OnlyTheLiving
<1>8. observed => Matched(storage', world)
                  /\ Entities(storage'["BulletBody"]) = Entities(storage'["RigidBody"])
  <2> SUFFICES ASSUME observed PROVE Matched(storage', world)
                  /\ Entities(storage'["BulletBody"]) = Entities(storage'["RigidBody"])
    OBVIOUS
  <2>1. /\ "BulletBody" \in DOMAIN storage /\ "RigidBody" \in DOMAIN storage
        /\ Matched(storage, world) /\ Entities(storage["BulletBody"]) = Entities(storage["RigidBody"])
    BY DEF IInv, Bodily, Matched, SpaceTypeOK, Components
  <2>2. storage'["BulletBody"] = storage["BulletBody"] /\ "BulletBody" \in DOMAIN storage'
    BY <1>4, <1>5, <2>1
  <2> QED BY <1>6, <2>1, <2>2 DEF Matched
<1>9. phase = "New" => DOMAIN world = {}
  BY DEF IInv, Bodily
<1> QED BY <1>1, <1>4, <1>5, <1>6, <1>7, <1>8, <1>9, StorageStep DEF SetTransform

\* In a running space the entities with bodies are those with rigid bodies.
Paired(stg) ==
    /\ {"RigidBody", "BulletBody"} \subseteq DOMAIN stg
    /\ Entities(stg["BulletBody"]) = Entities(stg["RigidBody"])

LEMMA ObservedPaired ==
    ASSUME IInv, observed, phase # "Starting"
    PROVE  Matched(storage, world) /\ Paired(storage)
BY DEF IInv, Bodily, Matched, SpaceTypeOK, Components, Paired

\* A remove of a transform or a rigid body keeps bodies and rigid bodies paired.
LEMMA RemovedPaired ==
    ASSUME NEW stg, Storages(stg), NEW w, World(w), observed,
           NEW c \in {"Transform", "RigidBody"}, Matched(stg, w), Paired(stg),
           NEW e, NEW new, new = Removed(Rec(stg, w), c, e)
    PROVE  Matched(new.storage, new.world) /\ Paired(new.storage)
<1>1. observed \in BOOLEAN /\ c \in Components
  BY DEF Components
<1>4. WasRemoved(stg, w, c, e, new)
  BY <1>1, RemovedSound
<1>2. CASE c = "Transform"
  <2>1. /\ DOMAIN new.storage = DOMAIN stg /\ new.world = w
        /\ \A d \in DOMAIN stg \ {c} : new.storage[d] = stg[d]
    BY <1>2, <1>4 DEF WasRemoved
  <2>2. new.storage["BulletBody"] = stg["BulletBody"] /\ new.storage["RigidBody"] = stg["RigidBody"]
    BY <1>2, <2>1 DEF Paired
  <2> QED BY <2>1, <2>2 DEF Matched, Paired
<1>3. CASE c = "RigidBody"
  <2>1. /\ DOMAIN new.storage = DOMAIN stg
        /\ Matched(new.storage, new.world)
        /\ c \in DOMAIN stg => Entities(new.storage[c]) = Entities(stg[c]) \ {e}
        /\ c \in DOMAIN stg /\ e \in Entities(stg[c]) =>
              Entities(new.storage["BulletBody"]) = Entities(stg["BulletBody"]) \ {e}
        /\ c \notin DOMAIN stg \/ e \notin Entities(stg[c]) => new = Rec(stg, w)
    BY <1>3, <1>4 DEF WasRemoved
  <2>2. CASE e \in Entities(stg["RigidBody"])
    BY <1>3, <2>1, <2>2 DEF Paired
  <2>3. CASE e \notin Entities(stg["RigidBody"])
    BY <1>3, <2>1, <2>3 DEF Paired, Rec
  <2> QED BY <2>2, <2>3
<1> QED BY <1>2, <1>3

\* Only components of that entity go.
Loses(old, new, e) ==
    /\ DOMAIN new = DOMAIN old
    /\ \A d \in DOMAIN old : Entities(old[d]) \ {e} \subseteq Entities(new[d])
                             /\ Entities(new[d]) \subseteq Entities(old[d])

LEMMA RemovedLoses ==
    ASSUME NEW stg, Storages(stg), NEW w, World(w), observed \in BOOLEAN,
           NEW c \in Components, c = "RigidBody" /\ observed => Matched(stg, w),
           NEW e, NEW new, new = Removed(Rec(stg, w), c, e)
    PROVE  Loses(stg, new.storage, e)
BY RemovedSound DEF Loses, WasRemoved

LEMMA LosesTwice ==
    ASSUME NEW a, NEW b, NEW c, NEW e, Loses(a, b, e), Loses(b, c, e)
    PROVE  Loses(a, c, e)
BY DEF Loses

LEMMA RemoveStep ==
    ASSUME IInv, phase # "Starting", NEW e, NEW c \in {"Transform", "RigidBody"},
           RemoveComponent(e, c)
    PROVE  IInv' /\ Loses(storage, storage', e)
<1>1. Storages(storage) /\ World(world) /\ observed \in BOOLEAN /\ c \in Components
      /\ (c = "RigidBody" /\ observed => Matched(storage, world))
  BY WorldTyped, ObservedPaired DEF IInv, Components
<1> DEFINE new == Removed(Rec(storage, world), c, e)
<1>2. storage' = new.storage /\ world' = new.world
  BY TheStore DEF RemoveComponent, SetStore
<1> HIDE DEF new
<1>8. WasRemoved(storage, world, c, e, new)
  BY <1>1, RemovedSound DEF new
<1>3. Storages(storage') /\ World(world') /\ DOMAIN storage' = DOMAIN storage
  BY <1>2, <1>8 DEF WasRemoved
<1>4. Loses(storage, storage', e)
  BY <1>1, <1>2, RemovedLoses DEF new
<1>5. observed => Matched(storage', world')
                  /\ Entities(storage'["BulletBody"]) = Entities(storage'["RigidBody"])
  BY <1>1, <1>2, ObservedPaired, RemovedPaired DEF new, Paired
<1>6. \A d \in DOMAIN storage' : Entities(storage'[d]) \subseteq alive
  BY <1>3, <1>4 DEF IInv, OnlyTheLiving, Loses
<1>7. phase = "New" => DOMAIN world' = {}
  <2>1. phase = "New" => ~observed /\ DOMAIN world = {}
    BY DEF IInv, Bodily, SpaceTypeOK
  <2> QED BY <1>2, <1>8, <2>1 DEF WasRemoved
<1> QED BY <1>3, <1>4, <1>5, <1>6, <1>7, StorageStep DEF RemoveComponent

LEMMA DestroyStep ==
    ASSUME IInv, phase # "Starting", NEW e \in alive, DestroyEntity(e)
    PROVE  /\ IInv' /\ Loses(storage, storage', e)
           /\ \A d \in DOMAIN storage : e \notin Entities(storage'[d])
<1>1. Storages(storage) /\ World(world) /\ observed \in BOOLEAN
      /\ {"Transform", "RigidBody", "BulletBody"} = Components
      /\ {"Transform", "RigidBody"} \subseteq DOMAIN storage
  BY WorldTyped DEF IInv, Components, SpaceTypeOK
<1> DEFINE s1 == Removed(Rec(storage, world), "Transform", e)
           s2 == Removed(s1, "RigidBody", e)
           s3 == Removed(s2, "BulletBody", e)
<1>2. storage' = s3.storage /\ world' = s3.world
  BY TheStore DEF DestroyEntity, SetStore
<1> HIDE DEF s1, s2, s3
<1>3. /\ Storages(s1.storage) /\ World(s1.world) /\ DOMAIN s1.storage = DOMAIN storage
      /\ s1 = Rec(s1.storage, s1.world) /\ Loses(storage, s1.storage, e)
      /\ s1.world = world
      /\ Entities(s1.storage["Transform"]) = Entities(storage["Transform"]) \ {e}
  <2>1. WasRemoved(storage, world, "Transform", e, s1) /\ Loses(storage, s1.storage, e)
    BY <1>1, RemovedSound, RemovedLoses DEF s1
  <2> QED BY <1>1, <2>1 DEF WasRemoved
<1>4. observed => Matched(s1.storage, s1.world) /\ Paired(s1.storage)
  BY <1>1, ObservedPaired, RemovedPaired DEF s1
<1>5. s2 = Removed(Rec(s1.storage, s1.world), "RigidBody", e)
  BY <1>3 DEF s2
<1>6. /\ Storages(s2.storage) /\ World(s2.world) /\ DOMAIN s2.storage = DOMAIN storage
      /\ s2 = Rec(s2.storage, s2.world) /\ Loses(s1.storage, s2.storage, e)
      /\ Entities(s2.storage["RigidBody"]) = Entities(s1.storage["RigidBody"]) \ {e}
      /\ ~observed => s2.world = s1.world
  <2>1. WasRemoved(s1.storage, s1.world, "RigidBody", e, s2) /\ Loses(s1.storage, s2.storage, e)
    BY <1>1, <1>3, <1>4, <1>5, RemovedSound, RemovedLoses
  <2> QED BY <1>1, <1>3, <2>1 DEF WasRemoved
<1>7. observed => Matched(s2.storage, s2.world) /\ Paired(s2.storage)
  BY <1>3, <1>4, <1>5, RemovedPaired
<1>8. s3 = Removed(Rec(s2.storage, s2.world), "BulletBody", e)
  BY <1>6 DEF s3
<1>9. /\ Storages(s3.storage) /\ World(s3.world) /\ DOMAIN s3.storage = DOMAIN storage
      /\ Loses(s2.storage, s3.storage, e)
      /\ "BulletBody" \in DOMAIN storage =>
            Entities(s3.storage["BulletBody"]) = Entities(s2.storage["BulletBody"]) \ {e}
      /\ e \notin Entities(s2.storage["BulletBody"]) => s3 = Rec(s2.storage, s2.world)
      /\ s3.world = s2.world
  <2>1. WasRemoved(s2.storage, s2.world, "BulletBody", e, s3) /\ Loses(s2.storage, s3.storage, e)
    BY <1>1, <1>6, <1>8, RemovedSound, RemovedLoses
  <2> QED BY <1>6, <2>1 DEF WasRemoved
<1>10. Loses(storage, storage', e)
  BY <1>2, <1>3, <1>6, <1>9, LosesTwice
<1>11. \A d \in DOMAIN storage : e \notin Entities(storage'[d])
  <2> SUFFICES ASSUME NEW d \in DOMAIN storage PROVE e \notin Entities(s3.storage[d])
    BY <1>2
  <2>1. d \in {"Transform", "RigidBody", "BulletBody"}
    BY <1>1 DEF Storages
  <2>2. CASE d = "Transform"
    BY <1>3, <1>6, <1>9, <2>2 DEF Loses
  <2>3. CASE d = "RigidBody"
    BY <1>6, <1>9, <2>3 DEF Loses
  <2>4. CASE d = "BulletBody"
    BY <1>9, <2>4
  <2> QED BY <2>1, <2>2, <2>3, <2>4
<1>12. observed => Matched(storage', world')
                   /\ Entities(storage'["BulletBody"]) = Entities(storage'["RigidBody"])
  <2> SUFFICES ASSUME observed PROVE Matched(s3.storage, s3.world) /\ Paired(s3.storage)
    BY <1>2 DEF Paired
  <2>1. e \notin Entities(s2.storage["BulletBody"])
    BY <1>6, <1>7 DEF Paired
  <2> QED BY <1>7, <1>9, <2>1 DEF Rec
<1>13. \A d \in DOMAIN storage' : Entities(storage'[d]) \subseteq alive'
  BY <1>10, <1>11 DEF IInv, OnlyTheLiving, Loses, DestroyEntity
<1>14. phase = "New" => DOMAIN world' = {}
  BY <1>2, <1>3, <1>6, <1>9 DEF IInv, Bodily, SpaceTypeOK
<1>15. Storages(storage') /\ World(world') /\ DOMAIN storage' = DOMAIN storage /\ alive' \subseteq alive
  BY <1>2, <1>9 DEF DestroyEntity
<1> QED BY <1>10, <1>11, <1>12, <1>13, <1>14, <1>15, StorageStep DEF DestroyEntity

Gains(old, new, e) ==
    /\ DOMAIN new = DOMAIN old
    /\ \A d \in DOMAIN old : Entities(old[d]) \subseteq Entities(new[d])
                             /\ Entities(new[d]) \subseteq Entities(old[d]) \cup {e}

LEMMA StartVisitStep ==
    ASSUME IInv, StartVisit
    PROVE  /\ IInv' /\ \E e \in Nat : Gains(storage, storage', e) /\ (e \in alive \/ storage' = storage)
           /\ \A c \in DOMAIN storage \ {"BulletBody"} : storage'[c] = storage[c]
<1> DEFINE rigid == storage["RigidBody"]
           bullet == storage["BulletBody"]
           e == rigid.entities[cursor]
<1>1. /\ phase = "Starting" /\ physics /\ observed /\ DOMAIN storage = Components
      /\ cursor \in 1 .. Len(rigid.entities) + 1 /\ cursor \in Nat
      /\ Entities(bullet) = {f \in Entities(rigid) : rigid.map[f] < cursor}
      /\ Matched(storage, world) /\ Storages(storage) /\ World(world)
  BY WorldTyped DEF IInv, SpaceTypeOK, Bodily, StartVisit
<1>2. Sound(rigid, Values("RigidBody"))
  BY <1>1 DEF Storages, Components
<1>3. Len(rigid.entities) \in Nat /\ cursor \in 1 .. Len(rigid.entities) /\ e \in Nat
  BY SMTT(30), <1>1, <1>2 DEF Sound, Typed, StartVisit
<1>4. /\ \A f \in Entities(rigid) : rigid.map[f] \in Nat /\ rigid.entities[rigid.map[f]] = f
      /\ e # None => e \in Entities(rigid) /\ rigid.map[e] = cursor
      /\ Entities(rigid) \subseteq Nat \ {None}
  <2>1. SlotsAgree(rigid) /\ rigid.map \in Maps
    BY <1>2 DEF Sound, Typed, StorageOK
  <2>2. DOMAIN rigid.map \subseteq Nat \ {None}
    BY <2>1 DEF Maps
  <2> QED BY <1>3, <2>1, <2>2 DEF SlotsAgree, Entities
<1>5. cursor' = cursor + 1 /\ UNCHANGED <<alive, nextId, phase, physics, observed>>
  BY DEF StartVisit
<1> DEFINE Passed(n) == {f \in Entities(rigid) : rigid.map[f] < n}
<1>6. /\ e = None => Passed(cursor + 1) = Passed(cursor)
      /\ e # None => Passed(cursor + 1) = Passed(cursor) \cup {e} /\ e \notin Passed(cursor)
  <2>1. \A f \in Entities(rigid) : rigid.map[f] < cursor + 1 <=> rigid.map[f] < cursor \/ rigid.map[f] = cursor
    BY <1>1, <1>4
  <2>2. \A f \in Entities(rigid) : rigid.map[f] = cursor => f = e
    BY <1>4
  <2> QED BY <1>3, <1>4, <2>1, <2>2
<1>7. /\ Storages(storage') /\ DOMAIN storage' = DOMAIN storage /\ storage'["RigidBody"] = rigid
      /\ World(world') /\ Matched(storage', world')
      /\ Entities(storage'["BulletBody"]) = Passed(cursor + 1)
      /\ \A d \in DOMAIN storage \ {"BulletBody"} : storage'[d] = storage[d]
      /\ e = None => storage' = storage
      /\ e # None => Entities(storage'["BulletBody"]) = Entities(bullet) \cup {e}
  <2>1. CASE e = None
    BY <1>1, <1>5, <1>6, <2>1 DEF StartVisit, Components
  <2>2. CASE e # None
    <3>1. PICK b \in Bodies \ DOMAIN world :
              /\ storage' = GiveBody(Rec(storage, world), e, b).storage
              /\ world' = GiveBody(Rec(storage, world), e, b).world
      BY <2>2, TheStore DEF StartVisit, SetStore
    <3>2. e \in Nat \ {None} /\ e \notin Entities(bullet) /\ {"Transform", "BulletBody"} \subseteq DOMAIN storage
      BY <1>1, <1>3, <1>6, <2>2 DEF Components
    <3> HIDE DEF e
    <3>3. /\ Storages(storage') /\ DOMAIN storage' = DOMAIN storage
          /\ \A d \in DOMAIN storage \ {"BulletBody"} : storage'[d] = storage[d]
          /\ Entities(storage'["BulletBody"]) = Entities(bullet) \cup {e}
          /\ World(world') /\ Matched(storage', world')
      BY <1>1, <3>1, <3>2, GiveBodySound
    <3> QED BY <1>1, <1>6, <2>2, <3>3 DEF Components
  <2> QED BY <2>1, <2>2
<1> HIDE DEF e
<1>8. SpaceTypeOK'
  <2>1. DOMAIN storage' = Components /\ World(world') /\ cursor' \in Nat
    BY <1>1, <1>5, <1>7
  <2> QED BY <1>1, <1>5, <2>1 DEF IInv, SpaceTypeOK, World
<1>9. Gains(storage, storage', e) /\ (e # None => e \in alive)
  <2>1. Gains(storage, storage', e)
    BY <1>7 DEF Gains
  <2>2. Entities(rigid) \subseteq alive
    BY <1>1 DEF IInv, OnlyTheLiving, Components
  <2> QED BY <1>4, <2>1, <2>2
<1>10. OnlyTheLiving'
  BY <1>5, <1>7, <1>9 DEF IInv, OnlyTheLiving, Gains
<1>11. Bodily'
  <2>1. cursor' \in 1 .. Len(storage'["RigidBody"].entities) + 1
    BY <1>3, <1>5, <1>7
  <2>2. Entities(storage'["BulletBody"]) =
            {f \in Entities(storage'["RigidBody"]) : storage'["RigidBody"].map[f] < cursor'}
    BY <1>5, <1>7
  <2> QED BY <1>1, <1>5, <1>7, <2>1, <2>2 DEF Bodily
<1> QED BY <1>3, <1>7, <1>8, <1>9, <1>10, <1>11 DEF IInv

\* An update assigns transforms and moves bodies; who has what stays.
LEMMA UpdateStep ==
    ASSUME IInv, Update
    PROVE  /\ IInv' /\ DOMAIN storage' = DOMAIN storage
           /\ \A d \in DOMAIN storage : Entities(storage'[d]) = Entities(storage[d])
<1> DEFINE trans == storage["Transform"]
           hit == Select(<<"Transform", "RigidBody", "BulletBody">>)
<1>1. PICK moved \in [DOMAIN world -> Positions] :
          /\ world' = moved
          /\ storage' =
               IF ~physics THEN storage
               ELSE [storage EXCEPT !["Transform"].components =
                        [i \in DOMAIN @ |->
                            IF i \in hit THEN MovedBy(moved, storage["Transform"].entities[i])
                            ELSE @[i]]]
  BY DEF Update
<1>2. /\ Storages(storage) /\ World(world) /\ phase = "Started" /\ {"Transform", "RigidBody"} \subseteq DOMAIN storage
      /\ physics \in BOOLEAN /\ Sound(trans, Positions)
      /\ UNCHANGED <<alive, nextId, phase, physics, observed, cursor>>
  BY WorldTyped DEF IInv, SpaceTypeOK, Components, Storages, Values, Update
<1>3. World(world') /\ DOMAIN world' = DOMAIN world
  BY <1>1, <1>2 DEF World
<1>4. CASE ~physics
  <2>1. storage' = storage
    BY <1>1, <1>4
  <2>2. ~observed
    BY <1>4 DEF IInv, SpaceTypeOK
  <2>3. \A c \in DOMAIN storage' : Entities(storage'[c]) \subseteq alive
    BY <2>1 DEF IInv, OnlyTheLiving
  <2> QED BY <1>2, <1>3, <2>1, <2>2, <2>3, StorageStep
<1>5. CASE physics
  <2>1. Matched(storage, world) /\ Paired(storage) /\ Sound(storage["BulletBody"], Values("BulletBody"))
    BY <1>2, <1>5, ObservedPaired DEF IInv, SpaceTypeOK, Storages, Paired
  <2> DEFINE comps == [i \in DOMAIN trans.components |->
                          IF i \in hit THEN MovedBy(moved, trans.entities[i]) ELSE trans.components[i]]
             st == [trans EXCEPT !.components = comps]
             stg == [storage EXCEPT !["Transform"] = st]
  <2>2. storage' = stg
    BY <1>1, <1>2, <1>5
  <2>3. ASSUME NEW i \in hit PROVE MovedBy(moved, trans.entities[i]) \in Positions
    <3>1. Contains(storage["BulletBody"], trans.entities[i])
      BY DEF Select
    <3>2. trans.entities[i] \in Entities(storage["BulletBody"])
      BY <2>1, <3>1, ContainsMap
    <3>3. Get(storage["BulletBody"], trans.entities[i]) \in DOMAIN world
      BY <2>1, <3>2 DEF Matched
    <3> QED BY <3>3 DEF MovedBy
  <2>4. trans.components \in Seq(Positions)
    BY <1>2 DEF Sound, Typed
  <2> HIDE DEF hit
  <2>5. comps \in Seq(Positions) /\ Len(comps) = Len(trans.components)
    BY <2>3, <2>4
  <2> HIDE DEF comps
  <2>6. Sound(st, Positions) /\ Entities(st) = Entities(trans)
    <3>1. /\ trans \in [entities : Seq(Nat), free : Seq(Nat), map : Maps, size : Nat, components : Seq(Positions)]
      BY <1>2 DEF Sound, Typed
    <3>2. /\ st.entities = trans.entities /\ st.free = trans.free /\ st.map = trans.map
          /\ st.size = trans.size /\ st.components = comps
          /\ st \in [entities : Seq(Nat), free : Seq(Nat), map : Maps, size : Nat, components : Seq(Positions)]
      BY <2>5, <3>1
    <3> HIDE DEF st
    <3> QED BY <1>2, <2>5, <3>2 DEF Sound, Typed, StorageOK, SlotsAgree, FreeExact, SizesAgree, Entities
  <2> HIDE DEF st
  <2>7. /\ Storages(stg) /\ DOMAIN stg = DOMAIN storage /\ stg["Transform"] = st
        /\ \A d \in DOMAIN storage \ {"Transform"} : stg[d] = storage[d]
    BY <1>2, <2>6, OneStorage DEF Values
  <2>8. \A d \in DOMAIN storage : Entities(stg[d]) = Entities(storage[d])
    BY <2>6, <2>7
  <2>9. Matched(stg, world') /\ Paired(stg)
    <3>1. stg["BulletBody"] = storage["BulletBody"] /\ "BulletBody" \in DOMAIN stg
      BY <2>1, <2>7 DEF Paired
    <3> QED BY <1>3, <2>1, <2>7, <2>8, <3>1 DEF Matched, Paired
  <2>10. \A c \in DOMAIN stg : Entities(stg[c]) \subseteq alive
    BY <2>7, <2>8 DEF IInv, OnlyTheLiving
  <2> HIDE DEF stg
  <2> QED BY <1>2, <1>3, <2>2, <2>7, <2>8, <2>9, <2>10, StorageStep DEF Paired
<1> QED BY <1>2, <1>4, <1>5

-----------------------------------------------------------------------------
(* The theorems *)

\* What a step does to the entities, in terms of the storages.
Moves ==
    \/ Gains(storage, storage', nextId) /\ storage' = storage
          /\ alive' = alive \cup {nextId} /\ nextId' = nextId + 1
    \/ \E e \in alive : /\ Loses(storage, storage', e)
                        /\ \A d \in DOMAIN storage : e \notin Entities(storage'[d])
                        /\ alive' = alive \ {e} /\ UNCHANGED nextId
    \/ \E e \in alive : /\ Gains(storage, storage', e) \/ Loses(storage, storage', e)
                        /\ UNCHANGED <<alive, nextId>>
    \/ /\ \A d \in DOMAIN storage : d \in DOMAIN storage' /\ Entities(storage'[d]) = Entities(storage[d])
       /\ \A d \in DOMAIN storage' \ DOMAIN storage : Entities(storage'[d]) = {}
       /\ UNCHANGED <<alive, nextId>>

LEMMA CallStep == ASSUME IInv, phase # "Starting", SpaceCall PROVE IInv' /\ Moves
<1>0. Origin \in Positions
  BY SpaceAssumption
<1>1. CASE CreateEntity
  <2>1. IInv'
    BY <1>1, CreateStep
  <2> QED BY <1>1, <2>1 DEF CreateEntity, Moves, Gains
<1>2. ASSUME NEW e \in alive, DestroyEntity(e) PROVE IInv' /\ Moves
  BY <1>2, DestroyStep DEF Moves, DestroyEntity
<1>3. ASSUME NEW e \in alive, NEW c \in {"Transform", "RigidBody"}, NEW v \in Positions,
             AddComponent(e, c, v)
      PROVE  IInv' /\ Moves
  <2>1. IInv' /\ Gains(storage, storage', e)
    BY <1>3, AddStep DEF Gains
  <2> QED BY <1>3, <2>1 DEF Moves, AddComponent
<1>4. ASSUME NEW e \in alive, NEW v \in Positions, SetTransform(e, v) PROVE IInv' /\ Moves
  <2>1. IInv' /\ DOMAIN storage' = DOMAIN storage
        /\ \A d \in DOMAIN storage : Entities(storage'[d]) = Entities(storage[d])
    BY <1>4, SetTransformStep
  <2> QED BY <1>4, <2>1 DEF Moves, SetTransform
<1>5. ASSUME NEW e \in alive, NEW c \in {"Transform", "RigidBody"}, RemoveComponent(e, c)
      PROVE  IInv' /\ Moves
  <2>1. IInv' /\ Loses(storage, storage', e)
    BY <1>5, RemoveStep
  <2> QED BY <1>5, <2>1 DEF Moves, RemoveComponent
<1>6. ASSUME NEW e, NEW c, AddExisting(e, c) PROVE IInv' /\ Moves
  <2>1. UNCHANGED spaceVars
    BY <1>6 DEF AddExisting
  <2>2. SpaceTypeOK' /\ IInv'
    BY <2>1, QuietStep DEF spaceVars, IInv, SpaceTypeOK
  <2> QED BY <2>1, <2>2 DEF Moves, spaceVars
<1>7. CASE AddPhysics
  <2>1. IInv'
    BY <1>7, AddPhysicsStep
  <2> QED BY <1>7, <2>1 DEF AddPhysics, Moves
<1>8. CASE Start
  <2>1. IInv'
    BY <1>8, StartStep
  <2>2. DOMAIN storage = {"Transform", "RigidBody"}
    BY <1>8 DEF IInv, SpaceTypeOK, Start
  <2>3. DOMAIN storage' = DOMAIN storage \cup (IF physics THEN {"BulletBody"} ELSE {})
        /\ \A d \in DOMAIN storage' : storage'[d] = IF d = "BulletBody" THEN EmptyStorage ELSE storage[d]
    BY <1>8 DEF Start
  <2>4. /\ \A d \in DOMAIN storage : d \in DOMAIN storage' /\ storage'[d] = storage[d]
        /\ \A d \in DOMAIN storage' \ DOMAIN storage : storage'[d] = EmptyStorage
    BY <2>2, <2>3
  <2> QED BY <1>8, <2>1, <2>4, EmptySound DEF Moves, Start
<1>9. CASE Update
  <2>1. IInv' /\ DOMAIN storage' = DOMAIN storage
        /\ \A d \in DOMAIN storage : Entities(storage'[d]) = Entities(storage[d])
    BY <1>9, UpdateStep
  <2> QED BY <1>9, <2>1 DEF Moves, Update
<1>10. CASE Stop
  <2>1. IInv'
    BY <1>10, StopStep
  <2> QED BY <1>10, <2>1 DEF Stop, Moves
<1> QED BY <1>0, <1>1, <1>2, <1>3, <1>4, <1>5, <1>6, <1>7, <1>8, <1>9, <1>10 DEF SpaceCall

LEMMA NextStep == ASSUME IInv, SpaceNext PROVE IInv' /\ Moves
<1>1. CASE phase # "Starting" /\ SpaceCall
  BY <1>1, CallStep
<1>2. CASE StartVisit
  <2>1. PICK e \in Nat : IInv' /\ Gains(storage, storage', e) /\ (e \in alive \/ storage' = storage)
    BY <1>2, StartVisitStep
  <2>2. UNCHANGED <<alive, nextId>>
    BY <1>2 DEF StartVisit
  <2>3. CASE e \in alive
    BY <2>1, <2>2, <2>3 DEF Moves
  <2>4. CASE storage' = storage
    BY <2>1, <2>2, <2>4 DEF Moves
  <2> QED BY <2>1, <2>3, <2>4
<1>3. CASE StartEnd
  <2>1. IInv'
    BY <1>3, StartEndStep
  <2> QED BY <1>3, <2>1 DEF StartEnd, Moves
<1> QED BY <1>1, <1>2, <1>3 DEF SpaceNext

LEMMA StutterStep == ASSUME IInv, UNCHANGED spaceVars PROVE IInv'
<1>1. SpaceTypeOK'
  BY DEF spaceVars, IInv, SpaceTypeOK
<1> QED BY <1>1, QuietStep DEF spaceVars

LEMMA Invariant == SpaceSpec => []IInv
<1>1. SpaceInit => IInv
  BY IInvInit
<1>2. IInv /\ [SpaceNext]_spaceVars => IInv'
  BY NextStep, StutterStep
<1> QED BY <1>1, <1>2, PTL DEF SpaceSpec

\* Every variable keeps its type; in particular the observer is in the list
\* exactly while a space with physics runs.
THEOREM TypeCorrect == SpaceSpec => []SpaceTypeOK
<1>1. IInv => SpaceTypeOK
  BY DEF IInv
<1> QED BY <1>1, Invariant, PTL

\* However entities and components come and go, each storage's map, slots and
\* free list stay in agreement.
THEOREM Partitioned == SpaceSpec => []SlotsPartitioned
<1>1. IInv => SlotsPartitioned
  BY DEF IInv, Storages, Sound, SlotsPartitioned
<1> QED BY <1>1, Invariant, PTL

\* destroyEntity leaves nothing of an entity behind.
THEOREM Living == SpaceSpec => []OnlyTheLiving
<1>1. IInv => OnlyTheLiving
  BY DEF IInv
<1> QED BY <1>1, Invariant, PTL

\* In a running space the bodies are those of the rigid bodies, one each.
THEOREM Bodied == SpaceSpec => []BodiesMatch
<1>1. IInv => BodiesMatch
  BY DEF IInv, SpaceTypeOK, Bodily, Matched, BodiesMatch
<1> QED BY <1>1, Invariant, PTL

\* A query meets each entity with all its components in one slot.
THEOREM Selected == SpaceSpec => []SelectExact
<1>1. IInv => SelectExact
  <2> SUFFICES ASSUME IInv, NEW c \in DOMAIN storage, NEW d \in DOMAIN storage
               PROVE  LET met == Select(<<c, d>>)
                          entity(i) == storage[c].entities[i]
                      IN  /\ {entity(i) : i \in met} = Entities(storage[c]) \cap Entities(storage[d])
                          /\ \A i, j \in met : entity(i) = entity(j) => i = j
    BY DEF SelectExact
  <2>1. Sound(storage[c], Values(c)) /\ Sound(storage[d], Values(d))
    BY DEF IInv, Storages
  <2>2. SlotsAgree(storage[c]) /\ storage[c].map \in Maps
    BY <2>1 DEF Sound, Typed, StorageOK
  <2>3. \A f \in DOMAIN storage[c].map : f # None
    BY <2>2 DEF Maps
  <2>4. Select(<<c, d>>) =
            {i \in 1 .. Len(storage[c].entities) :
                storage[c].entities[i] # None /\ storage[c].entities[i] \in Entities(storage[d])}
    <3>1. \A f : Contains(storage[d], f) <=> f \in Entities(storage[d])
      BY <2>1, ContainsMap
    <3>2. \A k \in 2 .. Len(<<c, d>>) : k = 2
      OBVIOUS
    <3>3. 2 \in 2 .. Len(<<c, d>>) /\ <<c, d>>[1] = c /\ <<c, d>>[2] = d
      OBVIOUS
    <3> QED BY <3>1, <3>2, <3>3 DEF Select, Cursor
  <2> QED BY <2>2, <2>3, <2>4 DEF SlotsAgree, Entities
<1> QED BY <1>1, Invariant, PTL

-----------------------------------------------------------------------------
(* The refinement *)

LEMMA PairOf ==
    ASSUME IInv
    PROVE  /\ \A x, c : <<x, c>> \in Pairs <=> c \in DOMAIN storage /\ x \in Entities(storage[c])
           /\ \A h \in Pairs : h = <<h[1], h[2]>>
           /\ Pairs \subseteq alive \X Components
<1>1. \A x, c : <<x, c>> \in Pairs <=> c \in DOMAIN storage /\ x \in Entities(storage[c])
  BY DEF Pairs
<1>2. \A h \in Pairs : h = <<h[1], h[2]>>
  BY DEF Pairs
<1>3. DOMAIN storage \subseteq Components /\ \A c \in DOMAIN storage : Entities(storage[c]) \subseteq alive
  BY DEF IInv, Storages, OnlyTheLiving
<1> QED BY <1>1, <1>2, <1>3

LEMMA PairOfPrime ==
    ASSUME IInv'
    PROVE  /\ \A x, c : <<x, c>> \in Pairs' <=> c \in DOMAIN storage' /\ x \in Entities(storage'[c])
           /\ \A h \in Pairs' : h = <<h[1], h[2]>>
           /\ Pairs' \subseteq alive' \X Components
<1>1. \A x, c : <<x, c>> \in Pairs' <=> c \in DOMAIN storage' /\ x \in Entities(storage'[c])
  BY DEF Pairs
<1>2. \A h \in Pairs' : h = <<h[1], h[2]>>
  BY DEF Pairs
<1>3. DOMAIN storage' \subseteq Components /\ \A c \in DOMAIN storage' : Entities(storage'[c]) \subseteq alive'
  BY DEF IInv, Storages, OnlyTheLiving
<1> QED BY <1>1, <1>2, <1>3

LEMMA MovesRefine ==
    ASSUME IInv, IInv', Moves
    PROVE  Manager!Next \/ UNCHANGED <<alive, nextId, Pairs>>
<1>0. nextId \in Nat /\ alive \subseteq 1 .. nextId - 1
  BY Ids DEF IInv, SpaceTypeOK
<1>1. CASE storage' = storage /\ alive' = alive \cup {nextId} /\ nextId' = nextId + 1
  <2>1. nextId \in alive' \ (1 .. nextId - 1)
    BY <1>0, <1>1
  <2>2. 1 .. nextId' - 1 = (1 .. nextId - 1) \cup {nextId}
    <3>1. nextId >= 1
      BY DEF IInv, SpaceTypeOK
    <3> QED BY <1>0, <1>1, <3>1
  <2>3. Pairs' = Pairs
    BY <1>1 DEF Pairs
  <2> QED BY <1>0, <1>1, <2>1, <2>2, <2>3 DEF Manager!Next, Manager!Create
<1>2. ASSUME NEW e \in alive, Loses(storage, storage', e),
             \A d \in DOMAIN storage : e \notin Entities(storage'[d]),
             alive' = alive \ {e}, UNCHANGED nextId
      PROVE  Manager!Next
  <2>1. Pairs' = {h \in Pairs : h[1] # e}
    <3>1. \A x, c : <<x, c>> \in Pairs' <=> <<x, c>> \in Pairs /\ x # e
      BY <1>2, PairOf, PairOfPrime DEF Loses
    <3> QED BY <3>1, PairOf, PairOfPrime
  <2> QED BY <1>2, <2>1 DEF Manager!Next, Manager!Destroy
<1>3. ASSUME NEW e \in alive, Gains(storage, storage', e) \/ Loses(storage, storage', e),
             UNCHANGED <<alive, nextId>>
      PROVE  Manager!Next
  <2>1. \A x, c : x # e => (<<x, c>> \in Pairs <=> <<x, c>> \in Pairs')
    BY <1>3, PairOf, PairOfPrime DEF Gains, Loses
  <2>2. {h \in Pairs : h[1] # e} = {h \in Pairs' : h[1] # e}
    BY <2>1, PairOf, PairOfPrime
  <2>3. Pairs \subseteq Pairs' \/ Pairs' \subseteq Pairs
    <3>1. CASE Gains(storage, storage', e)
      <4>1. \A x, c : <<x, c>> \in Pairs => <<x, c>> \in Pairs'
        BY <3>1, PairOf, PairOfPrime DEF Gains
      <4> QED BY <4>1, PairOf
    <3>2. CASE Loses(storage, storage', e)
      <4>1. \A x, c : <<x, c>> \in Pairs' => <<x, c>> \in Pairs
        BY <3>2, PairOf, PairOfPrime DEF Loses
      <4> QED BY <4>1, PairOfPrime
    <3> QED BY <1>3, <3>1, <3>2
  <2>4. Pairs' \subseteq alive \X Components
    BY <1>3, PairOfPrime
  <2> QED BY <1>3, <2>2, <2>3, <2>4 DEF Manager!Next, Manager!Change
<1>4. CASE /\ \A d \in DOMAIN storage : d \in DOMAIN storage' /\ Entities(storage'[d]) = Entities(storage[d])
           /\ \A d \in DOMAIN storage' \ DOMAIN storage : Entities(storage'[d]) = {}
           /\ UNCHANGED <<alive, nextId>>
  <2>1. \A x, c : <<x, c>> \in Pairs' <=> <<x, c>> \in Pairs
    BY <1>4, PairOf, PairOfPrime
  <2>2. Pairs' = Pairs
    BY <2>1, PairOf, PairOfPrime
  <2> QED BY <1>4, <2>2
<1> QED BY <1>1, <1>2, <1>3, <1>4 DEF Moves

\* A space implements the relation of entities and components: every call is
\* one of its steps or leaves it alone.
THEOREM Implements == SpaceSpec => ImplementsRelation
<1>1. IInv /\ [SpaceNext]_spaceVars =>
          [Replaced \/ Manager!Next \/ UNCHANGED <<alive, nextId, Pairs>>]_spaceVars
  BY NextStep, MovesRefine
<1> QED BY <1>1, Invariant, PTL DEF SpaceSpec, ImplementsRelation

-----------------------------------------------------------------------------
(* The scene editor: the types of its document *)

SceneComponents == [type : Types, state : {"New", "Pending", "Idle"}, value : Positions]

Objects == [parent : Nat, components : Seq([type : Types, value : Positions])]

SceneEntities ==
    [sceneId : Nat \ {NoScene}, previewId : Nat, components : Seq(SceneComponents),
     firstChild : Nat, nextSibling : Nat, parent : Nat]

-----------------------------------------------------------------------------
(* Its links *)

\* es1 is es with one entity more, the last child of p.
Grown(es, es1, p) ==
    LET n == Len(es) + 1
        last == {i \in ChildrenOf(es, p) : p # NoIndex /\ \A j \in ChildrenOf(es, p) : j <= i}
    IN  /\ Len(es1) = n /\ p \in 0 .. n - 1
        /\ es1[n].parent = p /\ es1[n].firstChild = NoIndex /\ es1[n].nextSibling = NoIndex
        /\ \A i \in 1 .. n - 1 :
              /\ es1[i].parent = es[i].parent
              /\ es1[i].firstChild = IF i = p /\ ChildrenOf(es, p) = {} THEN n ELSE es[i].firstChild
              /\ es1[i].nextSibling = IF i \in last THEN n ELSE es[i].nextSibling

\* A sequence of entities that has grown so keeps its links.
LEMMA GrownTree ==
    ASSUME NEW es, NEW es1, NEW p, Len(es) \in Nat, TreeOK(es), Grown(es, es1, p)
    PROVE  TreeOK(es1)
<1> DEFINE n == Len(es) + 1
<1>0. n \in Nat /\ Len(es1) = n /\ p \in 0 .. n - 1 /\ \A i \in Indices(es1) : i = n \/ i \in Indices(es)
  BY DEF Grown, Indices
<1>1. /\ es1[n].parent = p /\ es1[n].firstChild = NoIndex /\ es1[n].nextSibling = NoIndex
      /\ \A i \in Indices(es) :
            /\ es1[i].parent = es[i].parent
            /\ es1[i].firstChild = IF i = p /\ ChildrenOf(es, p) = {} THEN n ELSE es[i].firstChild
            /\ es1[i].nextSibling =
                 IF p # NoIndex /\ i \in ChildrenOf(es, p) /\ (\A j \in ChildrenOf(es, p) : j <= i)
                 THEN n ELSE es[i].nextSibling
  BY DEF Grown, Indices
<1>2. \A q : ChildrenOf(es1, q) = ChildrenOf(es, q) \cup (IF q = p THEN {n} ELSE {})
  BY <1>0, <1>1 DEF ChildrenOf, Indices
<1>3. \A q : \A c \in ChildrenOf(es, q) : c \in Nat /\ c < n /\ c \in Indices(es) /\ es[c].parent = q
  BY <1>0 DEF ChildrenOf, Indices
<1>4. ChildrenOf(es, n) = {} /\ n # p
  <2>1. \A c \in Indices(es) : es[c].parent \in 0 .. c - 1
    BY DEF TreeOK
  <2> QED BY <1>0, <2>1 DEF ChildrenOf, Indices
<1> SUFFICES ASSUME NEW i \in Indices(es1)
             PROVE  /\ es1[i].parent \in 0 .. i - 1
                    /\ IsLeast(es1[i].firstChild, ChildrenOf(es1, i))
                    /\ IsLeast(es1[i].nextSibling,
                               {c \in ChildrenOf(es1, es1[i].parent) : i < c /\ es1[i].parent # NoIndex})
  BY DEF TreeOK
<1>5. CASE i = n
  <2>1. ChildrenOf(es1, n) = {}
    BY <1>2, <1>4
  <2>2. {c \in ChildrenOf(es1, p) : n < c /\ p # NoIndex} = {}
    BY <1>0, <1>2, <1>3
  <2> QED BY <1>0, <1>1, <1>5, <2>1, <2>2 DEF IsLeast
<1>6. CASE i \in Indices(es)
  <2>1. /\ es[i].parent \in 0 .. i - 1
        /\ IsLeast(es[i].firstChild, ChildrenOf(es, i))
        /\ IsLeast(es[i].nextSibling, {c \in ChildrenOf(es, es[i].parent) : i < c /\ es[i].parent # NoIndex})
        /\ i \in Nat /\ i < n
    <3>1. i \in Nat /\ i < n
      BY <1>0, <1>6 DEF Indices
    <3>2. /\ es[i].parent \in 0 .. i - 1
          /\ IsLeast(es[i].firstChild, ChildrenOf(es, i))
          /\ IsLeast(es[i].nextSibling, {c \in ChildrenOf(es, es[i].parent) : i < c /\ es[i].parent # NoIndex})
      BY <1>6 DEF TreeOK
    <3> QED BY <3>1, <3>2
  <2>2. IsLeast(es1[i].firstChild, ChildrenOf(es1, i))
    <3>1. CASE i = p /\ ChildrenOf(es, p) = {}
      BY <1>0, <1>1, <1>2, <1>6, <3>1 DEF IsLeast
    <3>2. CASE i = p /\ ChildrenOf(es, p) # {}
      <4>1. es1[i].firstChild = es[i].firstChild /\ ChildrenOf(es1, i) = ChildrenOf(es, i) \cup {n}
        BY <1>1, <1>2, <1>6, <3>2
      <4>2. /\ es[i].firstChild \in ChildrenOf(es, i)
            /\ \A c \in ChildrenOf(es, i) : es[i].firstChild <= c
        BY <2>1, <3>2 DEF IsLeast
      <4>3. es[i].firstChild <= n
        BY <1>0, <1>3, <4>2
      <4>4. /\ es1[i].firstChild \in ChildrenOf(es1, i)
            /\ \A c \in ChildrenOf(es1, i) : es1[i].firstChild <= c
        BY <4>1, <4>2, <4>3
      <4> QED BY <4>4 DEF IsLeast
    <3>3. CASE i # p
      <4>1. es1[i].firstChild = es[i].firstChild /\ ChildrenOf(es1, i) = ChildrenOf(es, i)
        BY <1>1, <1>2, <1>6, <3>3
      <4> QED BY <2>1, <4>1
    <3> QED BY <3>1, <3>2, <3>3
  <2>3. IsLeast(es1[i].nextSibling,
                {c \in ChildrenOf(es1, es[i].parent) : i < c /\ es[i].parent # NoIndex})
    <3>1. CASE es[i].parent # p \/ p = NoIndex
      <4>1. {c \in ChildrenOf(es1, es[i].parent) : i < c /\ es[i].parent # NoIndex}
              = {c \in ChildrenOf(es, es[i].parent) : i < c /\ es[i].parent # NoIndex}
        BY <1>2, <3>1
      <4>2. es1[i].nextSibling = es[i].nextSibling
        BY <1>1, <1>3, <1>6, <3>1
      <4> QED BY <2>1, <4>1, <4>2
    <3>2. CASE es[i].parent = p /\ p # NoIndex /\ \A j \in ChildrenOf(es, p) : j <= i
      <4>1. i \in ChildrenOf(es, p)
        BY <1>6, <3>2 DEF ChildrenOf
      <4>2. es1[i].nextSibling = n
        BY <1>1, <1>6, <3>2, <4>1
      <4>3. {c \in ChildrenOf(es1, p) : i < c /\ p # NoIndex} = {n}
        BY <1>0, <1>2, <1>3, <2>1, <3>2
      <4> QED BY <1>0, <3>2, <4>2, <4>3 DEF IsLeast
    <3>3. CASE es[i].parent = p /\ p # NoIndex /\ \E j \in ChildrenOf(es, p) : ~(j <= i)
      <4>1. es1[i].nextSibling = es[i].nextSibling
        BY <1>1, <1>6, <3>3
      <4>2. PICK j \in ChildrenOf(es, p) : ~(j <= i)
        BY <3>3
      <4>3. j \in {c \in ChildrenOf(es, p) : i < c /\ p # NoIndex}
        BY <1>3, <2>1, <3>3, <4>2
      <4>4. /\ es[i].nextSibling \in {c \in ChildrenOf(es, p) : i < c /\ p # NoIndex}
            /\ \A c \in {c \in ChildrenOf(es, p) : i < c /\ p # NoIndex} : es[i].nextSibling <= c
        BY <2>1, <3>3, <4>3 DEF IsLeast
      <4>5. {c \in ChildrenOf(es1, p) : i < c /\ p # NoIndex}
              = {c \in ChildrenOf(es, p) : i < c /\ p # NoIndex} \cup {n}
        BY <1>0, <1>2, <2>1, <3>3
      <4>6. es[i].nextSibling <= n
        BY <1>0, <1>3, <4>4
      <4> QED BY <3>3, <4>1, <4>4, <4>5, <4>6 DEF IsLeast
    <3> QED BY <3>1, <3>2, <3>3
  <2> QED BY <1>1, <1>6, <2>1, <2>2, <2>3
<1> QED BY <1>0, <1>5, <1>6

\* An entity of the vector and its fields.
LEMMA EntityAt ==
    ASSUME NEW es \in Seq(SceneEntities), NEW i \in Indices(es)
    PROVE  /\ es[i] \in SceneEntities
           /\ es[i].sceneId \in Nat \ {NoScene} /\ es[i].sceneId \in Nat
           /\ es[i].previewId \in Nat /\ es[i].components \in Seq(SceneComponents)
           /\ es[i].firstChild \in Nat /\ es[i].nextSibling \in Nat /\ es[i].parent \in Nat
<1>1. es[i] \in SceneEntities
  BY DEF Indices
<1> QED BY <1>1 DEF SceneEntities

\* A sequence from the elements of 1 to n.
LEMMA SeqOf ==
    ASSUME NEW S, NEW n \in Nat, NEW s, s = [i \in 1 .. n |-> s[i]], \A i \in 1 .. n : s[i] \in S
    PROVE  s \in Seq(S) /\ Len(s) = n
<1>1. s \in [1 .. n -> S]
  OBVIOUS
<1> QED BY <1>1

\* A set of numbers has a least one.
LEMMA LeastOf ==
    ASSUME NEW S \in SUBSET Nat, S # {}
    PROVE  \E m \in S : \A k \in S : m <= k
<1> DEFINE less == {pair \in Nat \X Nat : pair[1] < pair[2]}
<1>1. IsWellFoundedOn(less, Nat)
  BY NatLessThanWellFounded DEF OpToRel, IsWellFoundedOn
<1>2. \A m, n \in Nat : <<m, n>> \in less <=> m < n
  OBVIOUS
<1> HIDE DEF less
<1>3. PICK n \in S : \A m \in S : <<m, n>> \notin less
  BY <1>1, WFMin
<1>4. ASSUME NEW m \in S PROVE n <= m
  <2>1. m \in Nat /\ n \in Nat /\ ~(m < n)
    BY <1>2, <1>3
  <2> QED BY <2>1
<1> QED BY <1>4

\* A set of numbers up to n has a greatest one.
LEMMA GreatestOf ==
    ASSUME NEW n \in Nat, NEW S \in SUBSET (0 .. n), S # {}
    PROVE  \E m \in S : \A k \in S : k <= m
<1> DEFINE T == {k \in Nat : n - k \in S}
<1>1. \A k \in S : k \in Nat /\ n - k \in Nat /\ n - (n - k) = k
  OBVIOUS
<1>2. \A k \in S : n - k \in T
  BY <1>1
<1>3. T \in SUBSET Nat /\ T # {}
  BY <1>2
<1> HIDE DEF T
<1>4. PICK m \in T : \A y \in T : m <= y
  BY <1>3, LeastOf
<1>5. m \in Nat /\ n - m \in S
  BY DEF T
<1>6. ASSUME NEW k \in S PROVE k <= n - m
  <2>1. m <= n - k /\ k \in Nat /\ n - k \in Nat
    BY <1>1, <1>2, <1>4
  <2> QED BY <1>5, <2>1
<1> QED BY <1>5, <1>6

\* A new entity is the last of its parent's children.
LEMMA CreatedGrown ==
    ASSUME NEW es \in Seq(SceneEntities), TreeOK(es), DistinctIds(es), NEW id \in Nat \ {NoScene},
           \A i \in Indices(es) : es[i].sceneId < id,
           NEW parentId, parentId # NoScene, \E i \in Indices(es) : es[i].sceneId = parentId
    PROVE  /\ Created(es, id, parentId) \in Seq(SceneEntities)
           /\ \E p : Grown(es, Created(es, id, parentId), p)
           /\ LET new == Created(es, id, parentId)
                  n == Len(es) + 1
              IN /\ Len(new) = n
                 /\ new[n].sceneId = id /\ new[n].components = <<>> /\ new[n].previewId = NotSynced
                 /\ \A i \in Indices(es) : /\ new[i].sceneId = es[i].sceneId
                                           /\ new[i].components = es[i].components
                                           /\ new[i].previewId = es[i].previewId
<1> DEFINE n == Len(es) + 1
           one == NewSceneEntity(id)
           added == Append(es, one)
           new == Created(es, id, parentId)
<1>1. /\ one \in SceneEntities /\ one.sceneId = id /\ one.components = <<>>
      /\ one.previewId = NotSynced /\ one.parent = NoIndex /\ one.firstChild = NoIndex /\ one.nextSibling = NoIndex
  <2>1. <<>> \in Seq(SceneComponents)
    OBVIOUS
  <2> QED BY <2>1 DEF NewSceneEntity, SceneEntities, NotSynced, NoIndex, NoScene
<1> HIDE DEF one
<1>2. /\ n \in Nat /\ Len(es) \in Nat /\ added \in Seq(SceneEntities) /\ Len(added) = n /\ added[n] = one
      /\ \A i \in Indices(es) : added[i] = es[i] /\ i \in 1 .. n /\ i # n
      /\ \A i \in 1 .. n : i = n \/ i \in Indices(es)
      /\ n \in 1 .. n
  BY <1>1 DEF Indices
<1>3. \A i \in Indices(es) : es[i].parent \in 0 .. i - 1
  BY DEF TreeOK
<1> HIDE DEF added
<1>4. PICK p \in Indices(es) : es[p].sceneId = parentId
  OBVIOUS
<1>5. IndexOf(added, id) = n
  <2>1. Indices(added) = 1 .. n
    BY <1>2 DEF Indices
  <2>2. \A i \in Indices(added) : added[i].sceneId = id => i = n
    <3>1. \A i \in Indices(es) : es[i].sceneId \in Nat
      BY EntityAt
    <3> QED BY <1>2, <2>1, <3>1
  <2> QED BY <1>1, <1>2, <2>1, <2>2 DEF IndexOf
<1>6. IndexOf(added, parentId) = p
  <2>1. Indices(added) = 1 .. n
    BY <1>2 DEF Indices
  <2>2. es[p].sceneId < id /\ es[p].sceneId \in Nat /\ parentId # id
    BY <1>4, EntityAt DEF Indices
  <2>3. \A i \in Indices(added) : added[i].sceneId = parentId => i = p
    BY <1>1, <1>2, <1>4, <2>1, <2>2 DEF DistinctIds
  <2>4. p \in Indices(added) /\ added[p].sceneId = parentId
    BY <1>2, <1>4, <2>1
  <2> QED BY <2>3, <2>4 DEF IndexOf
<1>7. p \in Nat /\ p # NoIndex /\ n # NoIndex /\ p < n /\ added[n].parent = NoIndex
  BY <1>1, <1>2 DEF Indices, NoIndex
<1>8. Unchain(added, n) = added
  BY <1>7 DEF Unchain
<1>9. new = Chain(added, n, p)
  BY <1>5, <1>6, <1>7, <1>8 DEF Created, ParentTo, added, one
<1> DEFINE last == IF added[p].firstChild = NoIndex THEN {}
                   ELSE {i \in ChildrenOf(added, p) : added[i].nextSibling = NoIndex}
<1>10. new = [i \in 1 .. n |->
               [added[i] EXCEPT
                  !.firstChild = IF i = p /\ @ = NoIndex THEN n ELSE @,
                  !.nextSibling = IF i = n THEN NoIndex ELSE IF i \in last THEN n ELSE @,
                  !.parent = IF i = n THEN p ELSE @]]
  BY <1>2, <1>9 DEF Chain, Indices
<1> HIDE DEF last, new
<1>11. \A i \in 1 .. n :
         /\ new[i] \in SceneEntities
         /\ new[i].sceneId = added[i].sceneId /\ new[i].previewId = added[i].previewId
         /\ new[i].components = added[i].components
         /\ new[i].firstChild = IF i = p /\ added[i].firstChild = NoIndex THEN n ELSE added[i].firstChild
         /\ new[i].nextSibling = IF i = n THEN NoIndex ELSE IF i \in last THEN n ELSE added[i].nextSibling
         /\ new[i].parent = IF i = n THEN p ELSE added[i].parent
  <2> SUFFICES ASSUME NEW i \in 1 .. n PROVE
         /\ new[i] \in SceneEntities
         /\ new[i].sceneId = added[i].sceneId /\ new[i].previewId = added[i].previewId
         /\ new[i].components = added[i].components
         /\ new[i].firstChild = IF i = p /\ added[i].firstChild = NoIndex THEN n ELSE added[i].firstChild
         /\ new[i].nextSibling = IF i = n THEN NoIndex ELSE IF i \in last THEN n ELSE added[i].nextSibling
         /\ new[i].parent = IF i = n THEN p ELSE added[i].parent
    OBVIOUS
  <2>1. added[i] \in SceneEntities
    BY <1>2
  <2> QED BY <1>2, <1>7, <1>10, <2>1 DEF SceneEntities, NoIndex
<1>12. new \in Seq(SceneEntities) /\ Len(new) = n
  <2>1. new = [i \in 1 .. n |-> new[i]]
    BY <1>10
  <2> QED BY <1>2, <1>11, <2>1, SeqOf
<1>13. /\ ChildrenOf(added, p) = ChildrenOf(es, p)
       /\ \A c \in ChildrenOf(es, p) : c \in Indices(es) /\ es[c].parent = p
  BY <1>1, <1>2, <1>7 DEF ChildrenOf, Indices
<1>14. IsLeast(es[p].firstChild, ChildrenOf(es, p))
  BY DEF TreeOK
<1>15. es[p].firstChild = NoIndex <=> ChildrenOf(es, p) = {}
  BY <1>13, <1>14 DEF IsLeast, Indices, NoIndex
<1>16. last = {i \in ChildrenOf(es, p) : \A j \in ChildrenOf(es, p) : j <= i}
  <2>1. last = {i \in ChildrenOf(es, p) : es[i].nextSibling = NoIndex}
    BY <1>2, <1>13, <1>15 DEF last
  <2>2. ASSUME NEW i \in ChildrenOf(es, p)
        PROVE  es[i].nextSibling = NoIndex <=> \A j \in ChildrenOf(es, p) : j <= i
    <3>1. IsLeast(es[i].nextSibling, {c \in ChildrenOf(es, p) : i < c})
      <4>1. es[i].parent = p /\ i \in Indices(es)
        BY <1>13
      <4>2. IsLeast(es[i].nextSibling, {c \in ChildrenOf(es, es[i].parent) : i < c /\ es[i].parent # NoIndex})
        BY <4>1 DEF TreeOK
      <4>3. {c \in ChildrenOf(es, p) : i < c /\ p # NoIndex} = {c \in ChildrenOf(es, p) : i < c}
        BY <1>7
      <4> QED BY <4>1, <4>2, <4>3
    <3>2. \A c \in ChildrenOf(es, p) : c \in Nat /\ c # NoIndex
      BY <1>13 DEF Indices, NoIndex
    <3> QED BY <3>1, <3>2 DEF IsLeast
  <2> QED BY <2>1, <2>2
<1>17. Grown(es, new, p)
  <2>1. p \in 0 .. n - 1 /\ 1 .. n - 1 = Indices(es)
    BY <1>2, <1>7 DEF Indices
  <2>2. new[n].parent = p /\ new[n].firstChild = NoIndex /\ new[n].nextSibling = NoIndex
    BY <1>1, <1>2, <1>7, <1>11
  <2>3. \A i \in Indices(es) :
            /\ new[i].parent = es[i].parent
            /\ new[i].firstChild = IF i = p /\ ChildrenOf(es, p) = {} THEN n ELSE es[i].firstChild
            /\ new[i].nextSibling = IF i \in last THEN n ELSE es[i].nextSibling
    BY <1>2, <1>11, <1>15
  <2> QED BY <1>7, <1>12, <1>16, <2>1, <2>2, <2>3 DEF Grown
<1> QED BY <1>1, <1>2, <1>11, <1>12, <1>17 DEF new

\* What is said of an entity in one place: its links, in es, are a tree's.
LEMMA TreeAt ==
    ASSUME NEW es \in Seq(SceneEntities), TreeOK(es), NEW j \in Indices(es)
    PROVE  /\ j \in Nat /\ j >= 1 /\ j # NoIndex
           /\ es[j].parent \in Nat /\ es[j].parent < j
           /\ es[j].parent # NoIndex => es[j].parent \in Indices(es)
           /\ IsLeast(es[j].firstChild, ChildrenOf(es, j))
           /\ IsLeast(es[j].nextSibling, {c \in ChildrenOf(es, es[j].parent) : j < c /\ es[j].parent # NoIndex})
           /\ es[j].firstChild # NoIndex => es[j].firstChild \in ChildrenOf(es, j)
           /\ es[j].nextSibling # NoIndex =>
                /\ es[j].parent # NoIndex /\ es[j].nextSibling \in ChildrenOf(es, es[j].parent)
                /\ j < es[j].nextSibling
<1>1. /\ es[j].parent \in 0 .. j - 1
      /\ IsLeast(es[j].firstChild, ChildrenOf(es, j))
      /\ IsLeast(es[j].nextSibling, {c \in ChildrenOf(es, es[j].parent) : j < c /\ es[j].parent # NoIndex})
  BY DEF TreeOK
<1>2. j \in Nat /\ j >= 1 /\ j <= Len(es) /\ Len(es) \in Nat
  BY DEF Indices
<1>3. es[j].parent \in Nat /\ es[j].parent < j
  BY <1>1, <1>2
<1>4. es[j].parent # NoIndex => es[j].parent \in Indices(es)
  BY <1>2, <1>3 DEF Indices, NoIndex
<1> QED BY <1>1, <1>2, <1>3, <1>4 DEF IsLeast, NoIndex

\* A new root is no child of any other, whatever their links are.
LEMMA CreatedRoot ==
    ASSUME NEW es \in Seq(SceneEntities), NEW id \in Nat \ {NoScene},
           NEW new, new = Created(es, id, NoScene)
    PROVE  LET n == Len(es) + 1
           IN /\ new \in Seq(SceneEntities) /\ (TreeOK(new) <=> TreeOK(es))
              /\ Len(new) = n
              /\ new[n].sceneId = id /\ new[n].components = <<>> /\ new[n].previewId = NotSynced
              /\ \A i \in Indices(es) : /\ new[i].sceneId = es[i].sceneId
                                        /\ new[i].components = es[i].components
                                        /\ new[i].previewId = es[i].previewId
<1> DEFINE n == Len(es) + 1
           one == NewSceneEntity(id)
<1>1. /\ one \in SceneEntities /\ one.sceneId = id /\ one.components = <<>>
      /\ one.previewId = NotSynced /\ one.parent = NoIndex /\ one.firstChild = NoIndex /\ one.nextSibling = NoIndex
  <2>1. <<>> \in Seq(SceneComponents)
    OBVIOUS
  <2> QED BY <2>1 DEF NewSceneEntity, SceneEntities, NotSynced, NoIndex, NoScene
<1>2. new = Append(es, one)
  BY DEF Created
<1> HIDE DEF one
<1>3. /\ new \in Seq(SceneEntities) /\ n \in Nat /\ Len(es) \in Nat /\ Len(new) = n /\ new[n] = one
      /\ \A i \in Indices(es) : new[i] = es[i] /\ i \in Nat /\ i < n /\ i # NoIndex
      /\ Indices(new) = Indices(es) \cup {n} /\ n \notin Indices(es) /\ n # NoIndex /\ n >= 1
  <2>1. new \in Seq(SceneEntities) /\ Len(new) = n /\ new[n] = one /\ n \in Nat /\ Len(es) \in Nat
        /\ \A i \in 1 .. Len(es) : new[i] = es[i]
    BY <1>1, <1>2
  <2> HIDE DEF n
  <2> QED BY <2>1 DEF n, Indices, NoIndex
<1>4. \A q : q # NoIndex => ChildrenOf(new, q) = ChildrenOf(es, q)
  <2>1. new[n].parent = NoIndex
    BY <1>1, <1>3
  <2> QED BY <1>3, <2>1 DEF ChildrenOf
<1>5. ASSUME NEW i \in Indices(es)
      PROVE  /\ ChildrenOf(new, i) = ChildrenOf(es, i)
             /\ {c \in ChildrenOf(new, new[i].parent) : i < c /\ new[i].parent # NoIndex}
                  = {c \in ChildrenOf(es, es[i].parent) : i < c /\ es[i].parent # NoIndex}
             /\ new[i].parent = es[i].parent /\ new[i].firstChild = es[i].firstChild
             /\ new[i].nextSibling = es[i].nextSibling
  <2>1. new[i] = es[i] /\ i # NoIndex
    BY <1>3
  <2>2. CASE es[i].parent = NoIndex
    BY <1>4, <2>1, <2>2
  <2>3. CASE es[i].parent # NoIndex
    BY <1>4, <2>1, <2>3
  <2> QED BY <2>2, <2>3
<1>6. ASSUME TreeOK(new) PROVE TreeOK(es)
  <2> SUFFICES ASSUME NEW i \in Indices(es)
               PROVE  /\ es[i].parent \in 0 .. i - 1
                      /\ IsLeast(es[i].firstChild, ChildrenOf(es, i))
                      /\ IsLeast(es[i].nextSibling,
                                 {c \in ChildrenOf(es, es[i].parent) : i < c /\ es[i].parent # NoIndex})
    BY DEF TreeOK
  <2>1. i \in Indices(new)
    BY <1>3
  <2>2. /\ new[i].parent \in 0 .. i - 1
        /\ IsLeast(new[i].firstChild, ChildrenOf(new, i))
        /\ IsLeast(new[i].nextSibling,
                   {c \in ChildrenOf(new, new[i].parent) : i < c /\ new[i].parent # NoIndex})
    BY <1>6, <2>1 DEF TreeOK
  <2> QED BY <1>5, <2>2
<1>7. ASSUME TreeOK(es) PROVE TreeOK(new)
  <2>1. ASSUME NEW i \in Indices(es)
        PROVE  /\ new[i].parent \in 0 .. i - 1
               /\ IsLeast(new[i].firstChild, ChildrenOf(new, i))
               /\ IsLeast(new[i].nextSibling,
                          {c \in ChildrenOf(new, new[i].parent) : i < c /\ new[i].parent # NoIndex})
    <3>1. /\ es[i].parent \in 0 .. i - 1
          /\ IsLeast(es[i].firstChild, ChildrenOf(es, i))
          /\ IsLeast(es[i].nextSibling,
                     {c \in ChildrenOf(es, es[i].parent) : i < c /\ es[i].parent # NoIndex})
      BY <1>7 DEF TreeOK
    <3> QED BY <1>5, <3>1
  <2>2. /\ new[n].parent \in 0 .. n - 1
        /\ IsLeast(new[n].firstChild, ChildrenOf(new, n))
        /\ IsLeast(new[n].nextSibling,
                   {c \in ChildrenOf(new, new[n].parent) : n < c /\ new[n].parent # NoIndex})
    <3>1. ChildrenOf(new, n) = {}
      <4>1. ASSUME NEW c \in Indices(es) PROVE es[c].parent # n
        <5>1. es[c].parent < c /\ c < n /\ c \in Nat /\ es[c].parent \in Nat
          BY <1>3, <1>7, TreeAt
        <5> QED BY <1>3, <5>1
      <4> QED BY <1>3, <1>4, <4>1 DEF ChildrenOf
    <3>2. new[n].parent = NoIndex /\ new[n].firstChild = NoIndex /\ new[n].nextSibling = NoIndex
      BY <1>1, <1>3
    <3> QED BY <1>3, <3>1, <3>2 DEF IsLeast, NoIndex
  <2> QED BY <1>3, <2>1, <2>2 DEF TreeOK
<1> QED BY <1>1, <1>3, <1>6, <1>7

\* An entity that is read is the last of the children of its object so far.
LEMMA ReadGrown ==
    ASSUME NEW es \in Seq(SceneEntities), NEW f \in Seq(Objects), Len(es) < Len(f),
           NEW id \in Nat \ {NoScene},
           \A i \in Indices(es) : es[i].parent = f[i].parent,
           f[Len(es) + 1].parent \in 0 .. Len(es),
           Len(es) # 0 => f[Len(es) + 1].parent # NoIndex
    PROVE  /\ Read(es, f, id) \in Seq(SceneEntities)
           /\ Grown(es, Read(es, f, id), f[Len(es) + 1].parent)
           /\ LET new == Read(es, f, id)
                  n == Len(es) + 1
              IN /\ Len(new) = n
                 /\ new[n].sceneId = id /\ new[n].previewId = NotSynced
                 /\ new[n].components = Loaded(f[n].components)
                 /\ \A i \in Indices(es) : /\ new[i].sceneId = es[i].sceneId
                                           /\ new[i].components = es[i].components
                                           /\ new[i].previewId = es[i].previewId
<1> DEFINE n == Len(es) + 1
           p == f[n].parent
           before == {k \in Indices(es) : f[k].parent = p}
           prev == {k \in before : \A j \in before : j <= k}
           loaded == Loaded(f[n].components)
           entity == [NewSceneEntity(id) EXCEPT !.parent = p, !.components = loaded]
           new == Read(es, f, id)
<1>1. /\ n \in Nat /\ Len(es) \in Nat /\ n \in DOMAIN f /\ n \in 1 .. n
      /\ \A i \in 1 .. n : i = n \/ i \in Indices(es)
      /\ \A i \in Indices(es) : i \in 1 .. n /\ i # n /\ i \in Nat
      /\ p \in 0 .. n - 1 /\ p \in Nat
  BY DEF Indices
<1>2. loaded \in Seq(SceneComponents)
  <2>1. f[n] \in Objects
    BY <1>1
  <2>2. f[n].components \in Seq([type : Types, value : Positions])
    BY <2>1 DEF Objects
  <2>3. \A k \in DOMAIN f[n].components :
            NewSceneComponent(f[n].components[k].type, f[n].components[k].value) \in SceneComponents
    <3> DEFINE cs == f[n].components
    <3>1. \A k \in DOMAIN cs : cs[k] \in [type : Types, value : Positions]
      <4>1. cs \in Seq([type : Types, value : Positions])
        BY <2>2
      <4> HIDE DEF cs
      <4>2. DOMAIN cs = 1 .. Len(cs)
        BY <4>1, LenProperties
      <4> QED BY <4>1, <4>2, ElementOfSeq
    <3>2. \A k \in DOMAIN cs : cs[k].type \in Types /\ cs[k].value \in Positions
      BY <3>1
    <3> QED BY <3>2 DEF NewSceneComponent, SceneComponents
  <2> QED BY <2>2, <2>3 DEF Loaded
<1> HIDE DEF loaded
<1>3. /\ entity \in SceneEntities /\ entity.sceneId = id /\ entity.components = loaded
      /\ entity.previewId = NotSynced /\ entity.parent = p
      /\ entity.firstChild = NoIndex /\ entity.nextSibling = NoIndex
  BY <1>1, <1>2 DEF NewSceneEntity, SceneEntities, NotSynced, NoIndex, NoScene
<1>4. new = [i \in 1 .. n |->
                IF i = n THEN entity
                ELSE [es[i] EXCEPT !.firstChild = IF i = p /\ prev = {} THEN n ELSE @,
                                   !.nextSibling = IF i \in prev THEN n ELSE @]]
  BY DEF Read, loaded
<1>5. before = ChildrenOf(es, p)
  BY DEF ChildrenOf
<1> HIDE DEF entity, new, before
<1>6. prev = {} <=> before = {}
  <2> SUFFICES ASSUME before # {} PROVE \E k \in before : \A j \in before : j <= k
    OBVIOUS
  <2>1. before \in SUBSET (0 .. Len(es))
    BY DEF before, Indices
  <2> HIDE DEF before
  <2> QED BY <1>1, <2>1, GreatestOf
<1> HIDE DEF prev
<1>7. \A i \in Indices(es) :
        /\ new[i] \in SceneEntities
        /\ new[i].sceneId = es[i].sceneId /\ new[i].components = es[i].components
        /\ new[i].previewId = es[i].previewId /\ new[i].parent = es[i].parent
        /\ new[i].firstChild = IF i = p /\ prev = {} THEN n ELSE es[i].firstChild
        /\ new[i].nextSibling = IF i \in prev THEN n ELSE es[i].nextSibling
  <2> SUFFICES ASSUME NEW i \in Indices(es) PROVE
        /\ new[i] \in SceneEntities
        /\ new[i].sceneId = es[i].sceneId /\ new[i].components = es[i].components
        /\ new[i].previewId = es[i].previewId /\ new[i].parent = es[i].parent
        /\ new[i].firstChild = IF i = p /\ prev = {} THEN n ELSE es[i].firstChild
        /\ new[i].nextSibling = IF i \in prev THEN n ELSE es[i].nextSibling
    OBVIOUS
  <2>1. es[i] \in SceneEntities
    BY EntityAt
  <2>2. new[i] = [es[i] EXCEPT !.firstChild = IF i = p /\ prev = {} THEN n ELSE @,
                               !.nextSibling = IF i \in prev THEN n ELSE @]
    BY <1>1, <1>4
  <2> QED BY <1>1, <2>1, <2>2 DEF SceneEntities
<1>8. new[n] = entity
  BY <1>1, <1>4
<1>9. new \in Seq(SceneEntities) /\ Len(new) = n
  <2>1. new = [i \in 1 .. n |-> new[i]]
    BY <1>4
  <2>2. \A i \in 1 .. n : new[i] \in SceneEntities
    BY <1>1, <1>3, <1>7, <1>8
  <2> QED BY <1>1, <2>1, <2>2, SeqOf
<1>10. Grown(es, new, p)
  <2>1. p \in 0 .. n - 1 /\ 1 .. n - 1 = Indices(es)
    BY <1>1 DEF Indices
  <2>2. new[n].parent = p /\ new[n].firstChild = NoIndex /\ new[n].nextSibling = NoIndex
    BY <1>3, <1>8
  <2>3. p = NoIndex => prev = {}
    BY <1>1 DEF prev, before, Indices
  <2>4. prev = {i \in ChildrenOf(es, p) : p # NoIndex /\ \A j \in ChildrenOf(es, p) : j <= i}
    BY <1>5, <2>3 DEF prev
  <2>5. \A i \in Indices(es) :
              /\ new[i].parent = es[i].parent
              /\ new[i].firstChild = IF i = p /\ ChildrenOf(es, p) = {} THEN n ELSE es[i].firstChild
              /\ new[i].nextSibling = IF i \in prev THEN n ELSE es[i].nextSibling
    BY <1>5, <1>6, <1>7
  <2> QED BY <1>9, <2>1, <2>2, <2>4, <2>5 DEF Grown
<1> QED BY <1>3, <1>7, <1>8, <1>9, <1>10 DEF new, loaded

\* The entity with an id is the one.
LEMMA IndexOfId ==
    ASSUME NEW es \in Seq(SceneEntities), DistinctIds(es), NEW i \in Indices(es)
    PROVE  IndexOf(es, es[i].sceneId) = i /\ IndexOf(es, NoScene) = NoIndex
<1>1. \A j \in Indices(es) : es[j].sceneId = es[i].sceneId => j = i
  BY DEF DistinctIds
<1>2. \A j \in Indices(es) : es[j].sceneId # NoScene
  BY EntityAt
<1> QED BY <1>1, <1>2 DEF IndexOf

-----------------------------------------------------------------------------
(* An entity that is deleted *)

LEMMA ChildAt ==
    ASSUME NEW es, NEW q, NEW c \in ChildrenOf(es, q)
    PROVE  c \in Indices(es) /\ c \in Nat /\ c # NoIndex /\ es[c].parent = q
BY DEF ChildrenOf, Indices, NoIndex

\* A child is led to by its parent, or by the greatest of the lesser ones.
LEMMA LedTo ==
    ASSUME NEW es \in Seq(SceneEntities), TreeOK(es), NEW c \in Indices(es), es[c].parent # NoIndex
    PROVE  \/ es[es[c].parent].firstChild = c
           \/ \E g \in ChildrenOf(es, es[c].parent) :
                 /\ es[g].nextSibling = c /\ g < c
                 /\ \A h \in ChildrenOf(es, es[c].parent) : h < c => h <= g
<1> DEFINE q == es[c].parent
           G == {g \in ChildrenOf(es, q) : g < c}
<1>1. q \in Indices(es) /\ c \in ChildrenOf(es, q) /\ c \in Nat /\ c # NoIndex
  BY TreeAt DEF ChildrenOf
<1>2. IsLeast(es[q].firstChild, ChildrenOf(es, q))
  BY <1>1, TreeAt
<1> HIDE DEF q
<1>3. es[q].firstChild \in ChildrenOf(es, q) /\ es[q].firstChild <= c
  BY <1>1, <1>2 DEF IsLeast
<1>4. CASE G = {}
  <2>1. es[q].firstChild \in Nat /\ ~(es[q].firstChild < c)
    BY <1>3, <1>4, ChildAt
  <2> QED BY <1>1, <1>3, <2>1 DEF q
<1>5. CASE G # {}
  <2>0. \A g \in ChildrenOf(es, q) : g \in Nat
    BY ChildAt
  <2>1. G \in SUBSET (0 .. c)
    <3>1. \A g \in G : g \in Nat /\ g < c
      BY <2>0
    <3> HIDE DEF G
    <3> QED BY <1>1, <3>1
  <2>2. PICK g \in G : \A h \in G : h <= g
    BY <1>1, <1>5, <2>1, GreatestOf
  <2>3. g \in ChildrenOf(es, q) /\ g < c /\ g \in Indices(es) /\ g \in Nat /\ es[g].parent = q
    BY <2>2, ChildAt
  <2>4. IsLeast(es[g].nextSibling, {d \in ChildrenOf(es, q) : g < d /\ q # NoIndex})
    BY <2>3, TreeAt
  <2>5. c \in {d \in ChildrenOf(es, q) : g < d /\ q # NoIndex}
    BY <1>1, <2>3 DEF q
  <2> DEFINE s == es[g].nextSibling
  <2>6. s \in ChildrenOf(es, q) /\ g < s /\ s <= c
    BY <2>4, <2>5 DEF IsLeast
  <2>7. s \in Nat
    BY <2>6, ChildAt
  <2> HIDE DEF s
  <2>8. ~(s < c)
    <3>1. s < c => s \in G /\ s <= g
      BY <2>2, <2>6
    <3> QED BY <2>3, <2>6, <2>7, <3>1
  <2>9. s = c
    BY <1>1, <2>6, <2>7, <2>8
  <2>10. \A h \in ChildrenOf(es, q) : h < c => h <= g
    BY <2>2
  <2> QED BY <2>3, <2>9, <2>10 DEF s, q
<1> QED BY <1>4, <1>5

\* Unlinked, an entity is a root and the others keep their parents.
LEMMA CutTree ==
    ASSUME NEW es \in Seq(SceneEntities), TreeOK(es), DistinctIds(es), NEW i \in Indices(es),
           NEW cut, cut = ParentTo(es, es[i].sceneId, NoScene)
    PROVE  /\ cut \in Seq(SceneEntities) /\ Len(cut) = Len(es) /\ Indices(cut) = Indices(es)
           /\ TreeOK(cut) /\ cut[i].parent = NoIndex
           /\ \A j \in Indices(es) :
                 /\ cut[j].sceneId = es[j].sceneId /\ cut[j].previewId = es[j].previewId
                 /\ cut[j].components = es[j].components
                 /\ j # i => cut[j].parent = es[j].parent
<1> DEFINE p == es[i].parent
           after == es[i].nextSibling
           before == IF es[p].firstChild = i THEN {} ELSE {j \in ChildrenOf(es, p) : es[j].nextSibling = i}
<1>1. IndexOf(es, es[i].sceneId) = i /\ IndexOf(es, NoScene) = NoIndex
  BY IndexOfId
<1>2. i \in Nat /\ i >= 1 /\ i # NoIndex /\ Len(es) \in Nat /\ i \in ChildrenOf(es, p)
  <2>1. i \in Nat /\ i >= 1 /\ i # NoIndex
    BY TreeAt
  <2>2. i \in ChildrenOf(es, p)
    BY DEF ChildrenOf
  <2> QED BY <2>1, <2>2
<1>3. cut = IF p = NoIndex THEN es
            ELSE [j \in Indices(es) |->
                    [es[j] EXCEPT
                        !.firstChild = IF j = p /\ @ = i THEN after ELSE @,
                        !.nextSibling = IF j = i THEN NoIndex ELSE IF j \in before THEN after ELSE @,
                        !.parent = IF j = i THEN NoIndex ELSE @]]
  BY <1>1, <1>2 DEF ParentTo, Unchain
<1>4. CASE p = NoIndex
  BY <1>3, <1>4
<1>5. CASE p # NoIndex
  <2>0. /\ p \in Indices(es) /\ after \in Nat /\ p < i /\ p \in Nat
        /\ IsLeast(es[p].firstChild, ChildrenOf(es, p))
        /\ IsLeast(after, {c \in ChildrenOf(es, p) : i < c})
    <3>1. p \in Indices(es) /\ after \in Nat /\ p < i /\ p \in Nat
      BY <1>5, EntityAt, TreeAt
    <3>2. IsLeast(after, {c \in ChildrenOf(es, p) : i < c /\ p # NoIndex})
      BY TreeAt
    <3>3. {c \in ChildrenOf(es, p) : i < c /\ p # NoIndex} = {c \in ChildrenOf(es, p) : i < c}
      BY <1>5
    <3>4. IsLeast(es[p].firstChild, ChildrenOf(es, p))
      BY <3>1, TreeAt
    <3> QED BY <3>1, <3>2, <3>3, <3>4
  <2>1. \A j \in Indices(es) :
            /\ cut[j] \in SceneEntities
            /\ cut[j].sceneId = es[j].sceneId /\ cut[j].previewId = es[j].previewId
            /\ cut[j].components = es[j].components
            /\ cut[j].parent = IF j = i THEN NoIndex ELSE es[j].parent
            /\ cut[j].firstChild = IF j = p /\ es[j].firstChild = i THEN after ELSE es[j].firstChild
            /\ cut[j].nextSibling = IF j = i THEN NoIndex ELSE IF j \in before THEN after ELSE es[j].nextSibling
    <3> HIDE DEF before
    <3> SUFFICES ASSUME NEW j \in Indices(es) PROVE
            /\ cut[j] \in SceneEntities
            /\ cut[j].sceneId = es[j].sceneId /\ cut[j].previewId = es[j].previewId
            /\ cut[j].components = es[j].components
            /\ cut[j].parent = IF j = i THEN NoIndex ELSE es[j].parent
            /\ cut[j].firstChild = IF j = p /\ es[j].firstChild = i THEN after ELSE es[j].firstChild
            /\ cut[j].nextSibling = IF j = i THEN NoIndex ELSE IF j \in before THEN after ELSE es[j].nextSibling
      OBVIOUS
    <3>1. es[j] \in SceneEntities
      BY EntityAt
    <3>2. cut[j] = [es[j] EXCEPT
                        !.firstChild = IF j = p /\ @ = i THEN after ELSE @,
                        !.nextSibling = IF j = i THEN NoIndex ELSE IF j \in before THEN after ELSE @,
                        !.parent = IF j = i THEN NoIndex ELSE @]
      BY <1>3, <1>5
    <3>3. i \in Nat /\ NoIndex \in Nat /\ after \in Nat
      BY <1>2, <2>0 DEF NoIndex
    <3> HIDE DEF p, after
    <3>4. /\ cut[j].firstChild = IF j = p /\ es[j].firstChild = i THEN after ELSE es[j].firstChild
          /\ cut[j].nextSibling = IF j = i THEN NoIndex ELSE IF j \in before THEN after ELSE es[j].nextSibling
          /\ cut[j].parent = IF j = i THEN NoIndex ELSE es[j].parent
          /\ cut[j].sceneId = es[j].sceneId /\ cut[j].previewId = es[j].previewId
          /\ cut[j].components = es[j].components
      BY <3>1, <3>2 DEF SceneEntities
    <3>5. cut[j] \in SceneEntities
      BY <3>1, <3>2, <3>3 DEF SceneEntities
    <3> QED BY <3>4, <3>5
  <2>2. cut \in Seq(SceneEntities) /\ Len(cut) = Len(es) /\ Indices(cut) = Indices(es)
    <3>1. cut = [j \in 1 .. Len(es) |-> cut[j]]
      BY <1>3, <1>5 DEF Indices
    <3> QED BY <1>2, <2>1, <3>1, SeqOf DEF Indices
  <2>3. ASSUME NEW q, q # NoIndex PROVE ChildrenOf(cut, q) = ChildrenOf(es, q) \ {i}
    BY <2>1, <2>2, <2>3 DEF ChildrenOf
  <2>4. ASSUME NEW j \in Indices(es)
        PROVE  /\ cut[j].parent \in 0 .. j - 1
               /\ IsLeast(cut[j].firstChild, ChildrenOf(cut, j))
               /\ IsLeast(cut[j].nextSibling,
                          {c \in ChildrenOf(cut, cut[j].parent) : j < c /\ cut[j].parent # NoIndex})
    <3>0. /\ j \in Nat /\ j >= 1 /\ j # NoIndex /\ es[j].parent \in Nat /\ es[j].parent < j
          /\ IsLeast(es[j].firstChild, ChildrenOf(es, j))
          /\ IsLeast(es[j].nextSibling, {c \in ChildrenOf(es, es[j].parent) : j < c /\ es[j].parent # NoIndex})
      BY TreeAt
    <3>1. cut[j].parent \in 0 .. j - 1
      <4>1. cut[j].parent = NoIndex \/ cut[j].parent = es[j].parent
        BY <2>1
      <4> QED BY <3>0, <4>1 DEF NoIndex
    <3>2. IsLeast(cut[j].firstChild, ChildrenOf(cut, j))
      <4>0. ChildrenOf(cut, j) = ChildrenOf(es, j) \ {i}
        BY <2>3, <3>0
      <4>1. CASE j = p /\ es[p].firstChild = i
        <5>1. cut[j].firstChild = after
          BY <2>1, <4>1
        <5>2. \A c \in ChildrenOf(es, p) : i <= c /\ c \in Nat
          BY <1>2, <2>0, <4>1, ChildAt DEF IsLeast
        <5>3. ChildrenOf(cut, j) = {c \in ChildrenOf(es, p) : i < c}
          <6>1. \A c \in ChildrenOf(es, p) : c # i <=> i < c
            BY <1>2, <5>2
          <6> QED BY <4>0, <4>1, <6>1
        <5> QED BY <2>0, <5>1, <5>3
      <4>2. CASE ~(j = p /\ es[p].firstChild = i)
        <5>1. cut[j].firstChild = es[j].firstChild
          BY <2>1, <4>2
        <5>2. CASE ChildrenOf(es, j) = {}
          <6>1. ChildrenOf(cut, j) = {}
            BY <4>0, <5>2
          <6> QED BY <3>0, <5>1, <5>2, <6>1 DEF IsLeast
        <5>3. CASE ChildrenOf(es, j) # {}
          <6>1. es[j].firstChild \in ChildrenOf(es, j) /\ \A c \in ChildrenOf(es, j) : es[j].firstChild <= c
            BY <3>0, <5>3 DEF IsLeast
          <6>2. es[j].firstChild # i
            <7>1. es[j].firstChild = i => j = p
              BY <6>1, ChildAt
            <7> QED BY <4>2, <7>1
          <6>3. es[j].firstChild \in ChildrenOf(cut, j) /\ \A c \in ChildrenOf(cut, j) : es[j].firstChild <= c
            BY <4>0, <6>1, <6>2
          <6> QED BY <5>1, <6>3 DEF IsLeast
        <5> QED BY <5>2, <5>3
      <4> QED BY <4>1, <4>2
    <3>3. IsLeast(cut[j].nextSibling,
                  {c \in ChildrenOf(cut, cut[j].parent) : j < c /\ cut[j].parent # NoIndex})
      <4>1. CASE j = i
        <5>1. cut[j].nextSibling = NoIndex /\ cut[j].parent = NoIndex
          BY <2>1, <4>1
        <5> QED BY <5>1 DEF IsLeast
      <4>2. CASE j # i /\ es[j].parent = NoIndex
        <5>1. j \notin before
          BY <1>5, <4>2, ChildAt
        <5>2. cut[j].parent = NoIndex /\ cut[j].nextSibling = es[j].nextSibling
          BY <2>1, <4>2, <5>1
        <5>3. es[j].nextSibling = NoIndex
          BY <3>0, <4>2 DEF IsLeast
        <5> QED BY <5>2, <5>3 DEF IsLeast
      <4>3. CASE j # i /\ es[j].parent # NoIndex
        <5> DEFINE q == es[j].parent
                   later == {c \in ChildrenOf(es, q) : j < c}
        <5>0. q # NoIndex /\ cut[j].parent = q /\ j \in ChildrenOf(es, q)
          BY <2>1, <4>3 DEF ChildrenOf
        <5>1. {c \in ChildrenOf(cut, cut[j].parent) : j < c /\ cut[j].parent # NoIndex} = later \ {i}
          <6>1. ChildrenOf(cut, q) = ChildrenOf(es, q) \ {i}
            BY <2>3, <5>0
          <6> HIDE DEF q
          <6> QED BY <5>0, <6>1
        <5>2. IsLeast(es[j].nextSibling, later)
          <6>1. {c \in ChildrenOf(es, q) : j < c /\ q # NoIndex} = later
            BY <5>0
          <6> QED BY <3>0, <6>1
        <5> HIDE DEF q
        <5>3. CASE j \in before
          <6>1. q = p /\ es[j].nextSibling = i /\ cut[j].nextSibling = after
            BY <2>1, <4>3, <5>3, ChildAt DEF q
          <6>2. i \in later /\ \A c \in later : i <= c /\ c \in Nat
            BY <1>2, <5>2, <6>1, ChildAt DEF IsLeast
          <6>3. later \ {i} = {c \in ChildrenOf(es, p) : i < c}
            <7> HIDE DEF p
            <7>1. j < i
              BY <6>2
            <7>2. \A c \in ChildrenOf(es, p) : c \in Nat
              BY ChildAt
            <7>3. \A c \in ChildrenOf(es, p) : i < c <=> (j < c /\ c # i)
              <8>1. \A c \in ChildrenOf(es, p) : j < c => i <= c
                BY <6>1, <6>2
              <8> QED BY <1>2, <3>0, <7>1, <7>2, <8>1
            <7> QED BY <6>1, <7>3
          <6> QED BY <2>0, <5>1, <6>1, <6>3
        <5>4. CASE j \notin before
          <6>1. cut[j].nextSibling = es[j].nextSibling
            BY <2>1, <4>3, <5>4
          <6>2. es[j].nextSibling # i
            <7> SUFFICES ASSUME es[j].nextSibling = i PROVE FALSE
              OBVIOUS
            <7>1. i \in later
              BY <1>2, <5>2 DEF IsLeast
            <7>2. q = p /\ j < i
              BY <7>1, ChildAt
            <7>3. es[p].firstChild <= j
              BY <2>0, <5>0, <7>2 DEF IsLeast
            <7>4. es[p].firstChild # i
              BY <1>2, <3>0, <7>2, <7>3
            <7> QED BY <5>0, <5>4, <7>2, <7>4
          <6>3. CASE later = {}
            BY <5>1, <5>2, <6>1, <6>3 DEF IsLeast
          <6>4. CASE later # {}
            BY <5>1, <5>2, <6>1, <6>2, <6>4 DEF IsLeast
          <6> QED BY <6>3, <6>4
        <5> QED BY <5>3, <5>4
      <4> QED BY <4>1, <4>2, <4>3
    <3> QED BY <3>1, <3>2, <3>3
  <2>5. TreeOK(cut)
    BY <2>2, <2>4 DEF TreeOK
  <2> QED BY <2>1, <2>2, <2>5
<1> QED BY <1>4, <1>5

\* What is erased with an entity: itself, and the children of what is erased.
LEMMA SubtreeOf ==
    ASSUME NEW es \in Seq(SceneEntities), TreeOK(es), NEW i \in Indices(es),
           NEW S, S = Subtree(es, i)
    PROVE  /\ S \subseteq Indices(es) /\ i \in S
           /\ \A j \in S : j = i \/ (i < j /\ es[j].parent \in S)
           /\ \A j \in Indices(es) : es[j].parent \in S => j \in S
<1> DEFINE Leads(j) == {es[j].firstChild} \cup (IF j = i THEN {} ELSE {es[j].nextSibling})
           Closed(T) == i \in T /\ \A t \in T : Leads(t) \subseteq T \cup {NoIndex}
           T == {i} \cup {d \in S : i < d /\ es[d].parent \in S}
<1>1. S = {j \in Indices(es) : \A U \in SUBSET Indices(es) : Closed(U) => j \in U}
  BY DEF Subtree
<1>2. \A j \in Indices(es) : Leads(j) \subseteq Indices(es) \cup {NoIndex}
  <2> SUFFICES ASSUME NEW j \in Indices(es)
               PROVE  /\ es[j].firstChild # NoIndex => es[j].firstChild \in Indices(es)
                      /\ es[j].nextSibling # NoIndex => es[j].nextSibling \in Indices(es)
    OBVIOUS
  <2>1. es[j].firstChild # NoIndex => es[j].firstChild \in ChildrenOf(es, j)
    BY TreeAt
  <2>2. es[j].nextSibling # NoIndex => es[j].nextSibling \in ChildrenOf(es, es[j].parent)
    BY TreeAt
  <2> QED BY <2>1, <2>2 DEF ChildrenOf
<1>3. S \subseteq Indices(es) /\ i \in S
  BY <1>1
<1>4. \A j \in S : Leads(j) \subseteq S \cup {NoIndex}
  <2> SUFFICES ASSUME NEW j \in S, NEW l \in Leads(j), l # NoIndex PROVE l \in S
    OBVIOUS
  <2> HIDE DEF Leads
  <2>1. l \in Indices(es)
    BY <1>2, <1>3
  <2>2. ASSUME NEW U \in SUBSET Indices(es), Closed(U) PROVE l \in U
    <3>1. j \in U
      BY <1>1, <2>2
    <3> QED BY <2>2, <3>1
  <2> QED BY <1>1, <2>1, <2>2
<1>5. i \in Nat /\ i # NoIndex
  BY TreeAt
<1>6. Closed(T)
  <2> SUFFICES ASSUME NEW t \in T, NEW l \in Leads(t), l # NoIndex PROVE l \in T
    OBVIOUS
  <2>1. t \in S /\ t \in Indices(es) /\ t \in Nat /\ i <= t /\ l \in S /\ l \in Indices(es) /\ l \in Nat
    <3>1. t \in S
      BY <1>3
    <3>2. l \in S
      BY <1>4, <3>1
    <3>3. t \in Nat /\ l \in Nat
      BY <1>3, <3>1, <3>2, TreeAt
    <3> QED BY <1>3, <1>5, <3>1, <3>2, <3>3
  <2>2. CASE l = es[t].firstChild
    <3>1. l \in ChildrenOf(es, t)
      BY <2>1, <2>2, TreeAt
    <3>2. es[l].parent = t /\ t < l
      BY <2>1, <3>1, TreeAt DEF ChildrenOf
    <3> QED BY <1>5, <2>1, <3>2
  <2>3. CASE t # i /\ l = es[t].nextSibling
    <3>1. es[l].parent = es[t].parent /\ t < l
      <4>1. l \in ChildrenOf(es, es[t].parent) /\ t < l
        BY <2>1, <2>3, TreeAt
      <4> QED BY <4>1 DEF ChildrenOf
    <3>2. es[t].parent \in S
      BY <2>3
    <3> QED BY <1>5, <2>1, <3>1, <3>2
  <2> QED BY <2>2, <2>3
<1>7. \A j \in S : j = i \/ (i < j /\ es[j].parent \in S)
  <2>1. T \in SUBSET Indices(es)
    BY <1>3
  <2>2. S \subseteq T
    <3> HIDE DEF T, Closed
    <3> QED BY <1>1, <1>6, <2>1
  <2> QED BY <2>2
<1>8. ASSUME NEW q \in S PROVE \A c \in ChildrenOf(es, q) : c \in S
  <2> DEFINE C == {c \in ChildrenOf(es, q) : c \notin S}
  <2> SUFFICES ASSUME C # {} PROVE FALSE
    OBVIOUS
  <2>1. C \in SUBSET Nat
    BY ChildAt
  <2>2. PICK c \in C : \A d \in C : c <= d
    BY <2>1, LeastOf
  <2>3. c \in Indices(es) /\ c \in Nat /\ c # NoIndex /\ es[c].parent = q /\ c \notin S
    BY <2>2, ChildAt
  <2>4. q \in Indices(es) /\ q # NoIndex /\ q \in Nat
    BY <1>3, TreeAt
  <2>5. es[q].firstChild # c
    BY <1>4, <2>3
  <2>6. PICK g \in ChildrenOf(es, q) : es[g].nextSibling = c /\ g < c
    BY <2>3, <2>4, <2>5, LedTo
  <2>7. g \in S
    <3>1. g \in Nat /\ ~(c <= g)
      BY <2>3, <2>6, ChildAt
    <3> QED BY <2>2, <3>1
  <2>8. g # i
    <3>1. g \in Indices(es) /\ es[g].parent = q
      BY ChildAt
    <3>2. q < g
      BY <3>1, TreeAt
    <3>3. q = i \/ i < q
      BY <1>7
    <3> QED BY <1>5, <2>4, <3>2, <3>3
  <2> QED BY <1>4, <2>3, <2>6, <2>7, <2>8
<1>9. \A j \in Indices(es) : es[j].parent \in S => j \in S
  BY <1>8 DEF ChildrenOf
<1> QED BY <1>3, <1>7, <1>9

\* The places of numbers that are left: one each, in their order, none empty.
LEMMA Enumerated ==
    ASSUME NEW L \in Nat, NEW left \in SUBSET (1 .. L)
    PROVE  /\ Cardinality(left) \in Nat
           /\ \A j \in left : Place(left, j) \in 1 .. Cardinality(left)
           /\ \A j, k \in left : j < k => Place(left, j) < Place(left, k)
           /\ \A n \in 1 .. Cardinality(left) : \E j \in left : Place(left, j) = n
<1> DEFINE upTo(x) == {k \in left : k <= x}
<1>0. \A k \in left : k \in Nat /\ 1 <= k /\ k <= L
  OBVIOUS
<1>1. IsFiniteSet(left) /\ Cardinality(left) \in Nat
  <2>1. IsFiniteSet(1 .. L)
    BY FS_Interval
  <2> QED BY <2>1, FS_Subset, FS_CardinalityType
<1>2. \A x : IsFiniteSet(upTo(x)) /\ Cardinality(upTo(x)) \in Nat /\ Cardinality(upTo(x)) <= Cardinality(left)
  <2> SUFFICES ASSUME NEW x
               PROVE  IsFiniteSet(upTo(x)) /\ Cardinality(upTo(x)) \in Nat
                      /\ Cardinality(upTo(x)) <= Cardinality(left)
    OBVIOUS
  <2>1. upTo(x) \in SUBSET left
    OBVIOUS
  <2> QED BY <1>1, <2>1, FS_Subset, FS_CardinalityType
<1>3. \A x : Place(left, x) = Cardinality(upTo(x))
  BY DEF Place
<1>4. ASSUME NEW j \in left PROVE Cardinality(upTo(j)) = Cardinality(upTo(j - 1)) + 1
  <2>1. upTo(j) = upTo(j - 1) \cup {j} /\ j \notin upTo(j - 1)
    <3>1. \A k \in left : k <= j <=> k <= j - 1 \/ k = j
      BY <1>0
    <3>2. ~(j <= j - 1)
      BY <1>0
    <3> QED BY <3>1, <3>2
  <2> HIDE DEF upTo
  <2>2. IsFiniteSet(upTo(j - 1))
    BY <1>2
  <2> QED BY <2>1, <2>2, FS_AddElement
<1>5. ASSUME NEW x \in 1 .. L, x \notin left PROVE Cardinality(upTo(x)) = Cardinality(upTo(x - 1))
  <2>1. upTo(x) = upTo(x - 1)
    <3>1. \A k \in left : k <= x <=> k <= x - 1
      BY <1>0, <1>5
    <3> QED BY <3>1
  <2> QED BY <2>1
<1>6. \A j \in left : Place(left, j) \in 1 .. Cardinality(left)
  <2> SUFFICES ASSUME NEW j \in left PROVE Place(left, j) \in 1 .. Cardinality(left)
    OBVIOUS
  <2> HIDE DEF upTo
  <2>1. Cardinality(upTo(j)) = Cardinality(upTo(j - 1)) + 1 /\ Cardinality(upTo(j - 1)) \in Nat
        /\ Cardinality(upTo(j)) <= Cardinality(left) /\ Cardinality(upTo(j)) \in Nat
    BY <1>2, <1>4
  <2> QED BY <1>1, <1>3, <2>1
<1>7. \A j, k \in left : j < k => Place(left, j) < Place(left, k)
  <2> SUFFICES ASSUME NEW j \in left, NEW k \in left, j < k PROVE Place(left, j) < Place(left, k)
    OBVIOUS
  <2>1. upTo(j) \in SUBSET upTo(k - 1)
    <3>1. \A l \in left : l <= j => l <= k - 1
      BY <1>0
    <3> QED BY <3>1
  <2> HIDE DEF upTo
  <2>2. /\ Cardinality(upTo(k)) = Cardinality(upTo(k - 1)) + 1
        /\ Cardinality(upTo(j)) \in Nat /\ Cardinality(upTo(k - 1)) \in Nat
        /\ Cardinality(upTo(j)) <= Cardinality(upTo(k - 1))
    BY <1>2, <1>4, <2>1, FS_Subset
  <2> QED BY <1>3, <2>2
<1>8. ASSUME NEW n \in 1 .. Cardinality(left) PROVE \E j \in left : Place(left, j) = n
  <2> DEFINE X == {x \in 0 .. L : Cardinality(upTo(x)) >= n}
  <2>1. X \in SUBSET Nat /\ X # {}
    <3>1. upTo(L) = left
      BY <1>0
    <3>2. Cardinality(upTo(L)) >= n
      BY <1>1, <3>1
    <3> HIDE DEF upTo
    <3> QED BY <3>2
  <2> HIDE DEF X
  <2>2. PICK x \in X : \A y \in X : x <= y
    BY <2>1, LeastOf
  <2>3. x \in 0 .. L /\ Cardinality(upTo(x)) >= n
    BY <2>2 DEF X
  <2>4. x # 0
    <3>1. upTo(0) = {}
      <4>1. \A k \in left : ~(k <= 0)
        BY <1>0
      <4> QED BY <4>1
    <3>2. Cardinality(upTo(0)) = 0
      BY <3>1, FS_EmptySet
    <3> HIDE DEF upTo
    <3> QED BY <1>1, <2>3, <3>2
  <2>5. x \in 1 .. L /\ x - 1 \in 0 .. L
    BY <2>3, <2>4
  <2>6. ~(Cardinality(upTo(x - 1)) >= n)
    <3>1. x - 1 \in X => x <= x - 1
      BY <2>2
    <3>2. x - 1 \notin X
      BY <2>5, <3>1
    <3> HIDE DEF upTo
    <3> QED BY <2>5, <3>2 DEF X
  <2> HIDE DEF upTo
  <2>7. x \in left
    BY <1>5, <2>3, <2>5, <2>6
  <2>8. Cardinality(upTo(x)) = n
    <3>1. Cardinality(upTo(x)) = Cardinality(upTo(x - 1)) + 1 /\ Cardinality(upTo(x - 1)) \in Nat
      BY <1>2, <1>4, <2>7
    <3>2. n \in Nat
      BY <1>1, <1>8
    <3> QED BY <2>3, <2>6, <3>1, <3>2
  <2> QED BY <1>3, <2>7, <2>8
<1> QED BY <1>1, <1>6, <1>7, <1>8

\* Those before the first that was erased stay where they are, those behind it
\* move up.
LEMMA MovedUp ==
    ASSUME NEW L \in Nat, NEW left \in SUBSET (1 .. L), NEW i \in 1 .. L,
           1 .. i - 1 \subseteq left, i \notin left, NEW j \in left
    PROVE  /\ j < i => Place(left, j) = j
           /\ i < j => i <= Place(left, j) /\ Place(left, j) < j
           /\ j # i
<1>0. j \in Nat /\ i \in Nat /\ j # i /\ \A k \in left : k \in Nat /\ 1 <= k
  OBVIOUS
<1>1. ASSUME j < i PROVE Place(left, j) = j
  <2>1. {k \in left : k <= j} = 1 .. j
    <3>1. \A k \in 1 .. j : k \in 1 .. i - 1 /\ k <= j
      BY <1>0, <1>1
    <3>2. \A k \in left : k <= j => k \in 1 .. j
      BY <1>0
    <3> QED BY <3>1, <3>2
  <2>2. Cardinality(1 .. j) = j
    <3>1. 1 \in Int /\ j \in Int /\ ~(1 > j) /\ j - 1 + 1 = j
      BY <1>0
    <3> QED BY <3>1, FS_Interval
  <2> QED BY <2>1, <2>2 DEF Place
<1>2. ASSUME i < j PROVE i <= Place(left, j) /\ Place(left, j) < j
  <2> DEFINE mine == {k \in left : k <= j}
             low == (1 .. i - 1) \cup {j}
             high == (1 .. j) \ {i}
  <2>1. low \in SUBSET mine /\ mine \in SUBSET high
    <3>1. \A k \in 1 .. i - 1 : k \in left /\ k <= j
      BY <1>0, <1>2
    <3>2. j <= j
      BY <1>0
    <3>3. \A k \in left : k <= j => k \in 1 .. j /\ k # i
      BY <1>0
    <3> QED BY <3>1, <3>2, <3>3
  <2>2. IsFiniteSet(1 .. j) /\ Cardinality(1 .. j) = j /\ IsFiniteSet(1 .. i - 1) /\ Cardinality(1 .. i - 1) = i - 1
    BY <1>0, FS_Interval
  <2>3. Cardinality(low) = i
    <3>1. j \notin 1 .. i - 1
      BY <1>0, <1>2
    <3>2. Cardinality(low) = Cardinality(1 .. i - 1) + 1
      BY <2>2, <3>1, FS_AddElement
    <3> HIDE DEF low
    <3> QED BY <1>0, <2>2, <3>2
  <2>4. IsFiniteSet(high) /\ Cardinality(high) = j - 1
    <3>1. i \in 1 .. j
      BY <1>2
    <3> QED BY <2>2, <3>1, FS_RemoveElement
  <2> HIDE DEF mine, low, high
  <2>5. IsFiniteSet(mine) /\ Cardinality(mine) <= Cardinality(high) /\ Cardinality(low) <= Cardinality(mine)
    BY <2>1, <2>4, FS_Subset
  <2>6. Cardinality(mine) \in Nat
    BY <2>5, FS_CardinalityType
  <2>7. Place(left, j) = Cardinality(mine)
    BY DEF Place, mine
  <2> QED BY <1>0, <2>3, <2>4, <2>5, <2>6, <2>7
<1> QED BY <1>0, <1>1, <1>2

\* A sequence from which elements are erased.
Erased(s, left) == [n \in 1 .. Cardinality(left) |-> s[CHOOSE j \in left : Place(left, j) = n]]

LEMMA Compacted ==
    ASSUME NEW X, NEW s \in Seq(X), NEW left \in SUBSET (1 .. Len(s)), NEW new, new = Erased(s, left)
    PROVE  /\ new \in Seq(X) /\ Len(new) = Cardinality(left)
           /\ \A j \in left : Place(left, j) \in 1 .. Len(new) /\ new[Place(left, j)] = s[j]
           /\ \A n \in 1 .. Len(new) : \E j \in left : Place(left, j) = n /\ new[n] = s[j]
<1> DEFINE at(n) == CHOOSE j \in left : Place(left, j) = n
<1>0. Len(s) \in Nat /\ \A j \in left : j \in Nat /\ j \in 1 .. Len(s) /\ s[j] \in X
  OBVIOUS
<1>1. /\ Cardinality(left) \in Nat
      /\ \A j \in left : Place(left, j) \in 1 .. Cardinality(left)
      /\ \A j, k \in left : j < k => Place(left, j) < Place(left, k)
      /\ \A n \in 1 .. Cardinality(left) : \E j \in left : Place(left, j) = n
  BY <1>0, Enumerated
<1>2. \A n \in 1 .. Cardinality(left) : at(n) \in left /\ Place(left, at(n)) = n /\ new[n] = s[at(n)]
  BY <1>1 DEF Erased
<1> HIDE DEF at
<1>3. \A n \in 1 .. Cardinality(left) : new[n] \in X
  BY <1>0, <1>2
<1>4. new \in Seq(X) /\ Len(new) = Cardinality(left)
  <2>1. new = [n \in 1 .. Cardinality(left) |-> new[n]]
    BY DEF Erased
  <2> QED BY <1>1, <1>3, <2>1, SeqOf
<1>5. \A j, k \in left : Place(left, j) = Place(left, k) => j = k
  <2> SUFFICES ASSUME NEW j \in left, NEW k \in left, Place(left, j) = Place(left, k), j # k PROVE FALSE
    OBVIOUS
  <2>1. j \in Nat /\ k \in Nat /\ Place(left, j) \in Nat /\ Place(left, k) \in Nat
    BY <1>0, <1>1
  <2>2. j < k \/ k < j
    BY <2>1
  <2> QED BY <1>1, <2>1, <2>2
<1>6. ASSUME NEW j \in left PROVE Place(left, j) \in 1 .. Cardinality(left) /\ new[Place(left, j)] = s[j]
  <2>1. Place(left, j) \in 1 .. Cardinality(left)
    BY <1>1
  <2>2. at(Place(left, j)) = j
    BY <1>2, <1>5, <2>1
  <2> QED BY <1>2, <2>1, <2>2
<1> QED BY <1>2, <1>4, <1>6

\* deleteEntity: what is left of the document, element by element.
Leaves(es, i, left, cut, new) ==
    /\ left \subseteq Indices(es)
    /\ \A j \in Indices(es) : j < i => j \in left
    /\ \A j \in left : es[j].parent \notin Indices(es) \ left
    /\ \A j \in Indices(es) : es[j].parent \in left => j = i \/ j \in left
    /\ \A j \in left : /\ j \in Nat /\ j # i
                       /\ j < i => Place(left, j) = j
                       /\ i < j => i <= Place(left, j) /\ Place(left, j) < j
                       /\ Place(left, j) \in Indices(new) /\ new[Place(left, j)] = cut[j]
    /\ new \in Seq(SceneEntities)
    /\ \A n \in Indices(new) : \E j \in left : Place(left, j) = n /\ new[n] = cut[j]

LEMMA DeletedEntities ==
    ASSUME NEW es \in Seq(SceneEntities), TreeOK(es), DistinctIds(es), NEW i \in Indices(es),
           NEW left, left = Left(es, es[i].sceneId),
           NEW cut, cut = ParentTo(es, es[i].sceneId, NoScene),
           NEW new, new = Deleted(es, es[i].sceneId)
    PROVE  Leaves(es, i, left, cut, new)
<1> DEFINE S == Subtree(es, i)
<1>1. IndexOf(es, es[i].sceneId) = i
  BY IndexOfId
<1>2. left = Indices(es) \ S
  BY <1>1 DEF Left
<1>3. /\ S \subseteq Indices(es) /\ i \in S
      /\ \A j \in S : j = i \/ (i < j /\ es[j].parent \in S)
      /\ \A j \in Indices(es) : es[j].parent \in S => j \in S
  BY SubtreeOf
<1> HIDE DEF S
<1>4. cut \in Seq(SceneEntities) /\ Len(cut) = Len(es) /\ Indices(es) = 1 .. Len(cut) /\ Len(cut) \in Nat
  <2>1. cut \in Seq(SceneEntities) /\ Len(cut) = Len(es)
    BY CutTree
  <2> QED BY <2>1 DEF Indices
<1>5. new = Erased(cut, left)
  BY DEF Deleted, Erased
<1>6. left \in SUBSET (1 .. Len(cut)) /\ i \in 1 .. Len(cut) /\ i \notin left
  BY <1>2, <1>3, <1>4
<1>7. \A j \in Indices(es) : j < i => j \in left
  <2>1. \A j \in Indices(es) : j \in Nat
    BY <1>4
  <2> QED BY <1>2, <1>3, <2>1
<1>8. 1 .. i - 1 \subseteq left
  <2>1. \A j \in 1 .. i - 1 : j \in Indices(es) /\ j < i
    BY <1>4, <1>6
  <2> QED BY <1>7, <2>1
<1>9. /\ new \in Seq(SceneEntities) /\ Indices(new) = 1 .. Len(new)
      /\ \A j \in left : Place(left, j) \in 1 .. Len(new) /\ new[Place(left, j)] = cut[j]
      /\ \A n \in 1 .. Len(new) : \E j \in left : Place(left, j) = n /\ new[n] = cut[j]
  <2>1. /\ new \in Seq(SceneEntities)
        /\ \A j \in left : Place(left, j) \in 1 .. Len(new) /\ new[Place(left, j)] = cut[j]
        /\ \A n \in 1 .. Len(new) : \E j \in left : Place(left, j) = n /\ new[n] = cut[j]
    BY <1>4, <1>5, <1>6, Compacted
  <2> QED BY <2>1 DEF Indices
<1>10. \A j \in left : /\ j \in Nat /\ j # i
                       /\ j < i => Place(left, j) = j
                       /\ i < j => i <= Place(left, j) /\ Place(left, j) < j
  <2>1. \A j \in left : j \in Nat
    BY <1>6
  <2> QED BY <1>4, <1>6, <1>8, <2>1, MovedUp
<1>11. \A j \in left : es[j].parent \notin Indices(es) \ left
  BY <1>2, <1>3
<1>12. \A j \in Indices(es) : es[j].parent \in left => j = i \/ j \in left
  BY <1>2, <1>3
<1> QED BY <1>2, <1>7, <1>9, <1>10, <1>11, <1>12 DEF Leaves

\* The links that are left are trees exactly when none of them strays.
LEMMA DeletedLinks ==
    ASSUME NEW es \in Seq(SceneEntities), TreeOK(es), DistinctIds(es), NEW i \in Indices(es)
    PROVE  TreeOK(Deleted(es, es[i].sceneId)) <=> ~Strays(es, es[i].sceneId)
<1> DEFINE left == Left(es, es[i].sceneId)
           cut == ParentTo(es, es[i].sceneId, NoScene)
           new == Deleted(es, es[i].sceneId)
<1>1. Strays(es, es[i].sceneId)
        <=> \E j \in left : i <= cut[j].firstChild \/ i <= cut[j].nextSibling \/ i <= cut[j].parent
  <2>1. IndexOf(es, es[i].sceneId) = i
    BY IndexOfId
  <2> QED BY <2>1 DEF Strays
<1>2. /\ cut \in Seq(SceneEntities) /\ Indices(cut) = Indices(es) /\ TreeOK(cut) /\ cut[i].parent = NoIndex
      /\ \A j \in Indices(es) : j # i => cut[j].parent = es[j].parent
  BY CutTree
<1>3. /\ left \subseteq Indices(es)
      /\ \A j \in Indices(es) : j < i => j \in left
      /\ \A j \in left : es[j].parent \notin Indices(es) \ left
      /\ \A j \in Indices(es) : es[j].parent \in left => j = i \/ j \in left
      /\ \A j \in left : /\ j \in Nat /\ j # i
                         /\ j < i => Place(left, j) = j
                         /\ i < j => i <= Place(left, j) /\ Place(left, j) < j
                         /\ Place(left, j) \in Indices(new) /\ new[Place(left, j)] = cut[j]
      /\ new \in Seq(SceneEntities)
      /\ \A n \in Indices(new) : \E j \in left : Place(left, j) = n /\ new[n] = cut[j]
  <2>1. /\ left = Left(es, es[i].sceneId) /\ cut = ParentTo(es, es[i].sceneId, NoScene)
        /\ new = Deleted(es, es[i].sceneId)
    OBVIOUS
  <2> HIDE DEF left, cut, new
  <2>2. Leaves(es, i, left, cut, new)
    BY <2>1, DeletedEntities
  <2> QED BY <2>2 DEF Leaves
<1> HIDE DEF left, cut, new
<1>4. i \in Nat /\ i # NoIndex /\ i >= 1 /\ \A j \in Indices(es) : j \in Nat /\ j # NoIndex /\ j >= 1
  BY TreeAt
<1>5. \A j \in left : j \in Indices(cut) /\ cut[j].parent = es[j].parent
  BY <1>2, <1>3
\* A child of one that is left is left, and so is the parent of one.
<1>6. ASSUME NEW q \in left, NEW c \in ChildrenOf(cut, q) PROVE c \in left
  <2>1. c \in Indices(es) /\ cut[c].parent = q /\ q # NoIndex
    BY <1>2, <1>3, <1>4, ChildAt
  <2> QED BY <1>2, <1>3, <2>1
<1>7. ASSUME NEW c \in left, cut[c].parent # NoIndex
      PROVE  cut[c].parent \in left /\ c \in ChildrenOf(cut, cut[c].parent)
  <2>1. cut[c].parent \in Indices(es)
    BY <1>2, <1>5, <1>7, TreeAt
  <2> QED BY <1>3, <1>5, <2>1 DEF ChildrenOf
<1>8. ASSUME \A j \in left : ~(i <= cut[j].firstChild) /\ ~(i <= cut[j].nextSibling) /\ ~(i <= cut[j].parent)
      PROVE  TreeOK(new)
  <2>1. ASSUME NEW c \in left, cut[c].parent # NoIndex PROVE c < i
    <3> DEFINE q == cut[c].parent
               D == {d \in ChildrenOf(cut, q) : i <= d}
    <3>1. q \in left /\ c \in ChildrenOf(cut, q) /\ q # NoIndex
      BY <1>7, <2>1
    <3> HIDE DEF q
    <3> SUFFICES ASSUME ~(c < i) PROVE FALSE
      OBVIOUS
    <3>2. D \in SUBSET Nat /\ c \in D
      <4>1. c \in Nat
        BY <1>3
      <4>2. i <= c
        BY <1>4, <4>1
      <4> QED BY <3>1, <4>2, ChildAt
    <3>3. PICK d \in D : \A k \in D : d <= k
      BY <3>2, LeastOf
    <3>4. d \in Indices(cut) /\ d \in Nat /\ cut[d].parent = q /\ d \in ChildrenOf(cut, q) /\ i <= d
      BY <3>3, ChildAt
    <3>5. cut[q].firstChild # d
      BY <1>8, <3>1, <3>4
    <3>6. PICK g \in ChildrenOf(cut, q) : cut[g].nextSibling = d
      BY <1>2, <3>1, <3>4, <3>5, LedTo
    <3>7. g \in left
      BY <1>6, <3>1
    <3> QED BY <1>8, <3>4, <3>6, <3>7
  <2>2. ASSUME NEW q \in Indices(new) PROVE ChildrenOf(new, q) = {c \in left : cut[c].parent = q}
    <3>0. q # NoIndex
      BY DEF Indices, NoIndex
    <3>1. ASSUME NEW c \in left, cut[c].parent = q PROVE c \in ChildrenOf(new, q)
      <4>1. Place(left, c) = c /\ Place(left, c) \in Indices(new) /\ new[Place(left, c)] = cut[c]
        BY <1>3, <2>1, <3>0, <3>1
      <4> QED BY <3>1, <4>1 DEF ChildrenOf
    <3>2. ASSUME NEW n \in ChildrenOf(new, q) PROVE n \in left /\ cut[n].parent = q
      <4>1. n \in Indices(new) /\ new[n].parent = q
        BY ChildAt
      <4>2. PICK j \in left : Place(left, j) = n /\ new[n] = cut[j]
        BY <1>3, <4>1
      <4>3. Place(left, j) = j
        BY <1>3, <2>1, <3>0, <4>1, <4>2
      <4> QED BY <4>1, <4>2, <4>3
    <3> QED BY <3>1, <3>2
  <2>3. ASSUME NEW n \in Indices(new)
        PROVE  /\ new[n].parent \in 0 .. n - 1
               /\ IsLeast(new[n].firstChild, ChildrenOf(new, n))
               /\ IsLeast(new[n].nextSibling,
                          {c \in ChildrenOf(new, new[n].parent) : n < c /\ new[n].parent # NoIndex})
    <3>0. n \in Nat /\ n >= 1
      BY DEF Indices
    <3>1. PICK j \in left : Place(left, j) = n /\ new[n] = cut[j]
      BY <1>3
    <3>2. /\ j \in Nat /\ j # i /\ j # NoIndex
          /\ cut[j].parent \in Nat /\ cut[j].parent < j
          /\ IsLeast(cut[j].firstChild, ChildrenOf(cut, j))
          /\ IsLeast(cut[j].nextSibling,
                     {c \in ChildrenOf(cut, cut[j].parent) : j < c /\ cut[j].parent # NoIndex})
      <4>1. j \in Indices(cut) /\ j # i
        BY <1>3, <1>5
      <4> QED BY <1>2, <4>1, TreeAt
    <3>3. ASSUME NEW q, q \in left, q \in Indices(new) PROVE ChildrenOf(new, q) = ChildrenOf(cut, q)
      <4>1. ChildrenOf(new, q) = {c \in left : cut[c].parent = q}
        BY <2>2, <3>3
      <4>2. \A c \in ChildrenOf(cut, q) : c \in left /\ cut[c].parent = q
        BY <1>6, <3>3, ChildAt
      <4>3. \A c \in left : cut[c].parent = q => c \in ChildrenOf(cut, q)
        BY <1>5 DEF ChildrenOf
      <4> QED BY <4>1, <4>2, <4>3
    <3>4. CASE j < i
      <4>1. n = j
        BY <1>3, <3>1, <3>4
      <4>2. new[n].parent \in 0 .. n - 1
        BY <3>0, <3>1, <3>2, <4>1
      <4>3. IsLeast(new[n].firstChild, ChildrenOf(new, n))
        <5>1. ChildrenOf(new, n) = ChildrenOf(cut, j)
          BY <3>3, <4>1
        <5> QED BY <3>1, <3>2, <5>1
      <4>4. IsLeast(new[n].nextSibling,
                    {c \in ChildrenOf(new, new[n].parent) : n < c /\ new[n].parent # NoIndex})
        <5>1. CASE cut[j].parent = NoIndex
          <6>1. cut[j].nextSibling = NoIndex
            BY <3>2, <5>1 DEF IsLeast
          <6> QED BY <3>1, <5>1, <6>1 DEF IsLeast
        <5>2. CASE cut[j].parent # NoIndex
          <6>1. cut[j].parent \in left
            BY <1>7, <5>2
          <6>2. Place(left, cut[j].parent) = cut[j].parent
            BY <1>3, <1>4, <3>2, <3>4, <6>1
          <6>3. cut[j].parent \in Indices(new)
            BY <1>3, <6>1, <6>2
          <6>4. ChildrenOf(new, cut[j].parent) = ChildrenOf(cut, cut[j].parent)
            BY <3>3, <6>1, <6>3
          <6> QED BY <3>1, <3>2, <4>1, <6>4
        <5> QED BY <5>1, <5>2
      <4> QED BY <4>2, <4>3, <4>4
    <3>5. CASE i < j
      <4>1. i <= n /\ cut[j].parent = NoIndex
        BY <1>3, <1>4, <2>1, <3>1, <3>2, <3>5
      <4>2. new[n].parent \in 0 .. n - 1
        BY <3>0, <3>1, <4>1 DEF NoIndex
      <4>3. ChildrenOf(new, n) = {}
        <5>1. \A c \in left : cut[c].parent # n
          <6> SUFFICES ASSUME NEW c \in left, cut[c].parent = n PROVE FALSE
            OBVIOUS
          <6>1. ~(i <= cut[c].parent)
            BY <1>8
          <6> QED BY <4>1, <6>1
        <5> QED BY <2>2, <5>1
      <4>4. cut[j].firstChild = NoIndex
        <5> SUFFICES ASSUME cut[j].firstChild # NoIndex PROVE FALSE
          OBVIOUS
        <5>1. cut[j].firstChild \in ChildrenOf(cut, j)
          BY <3>2 DEF IsLeast
        <5>2. cut[j].firstChild \in left /\ cut[cut[j].firstChild].parent = j
          BY <1>6, <5>1, ChildAt
        <5>3. cut[j].firstChild < i
          BY <2>1, <3>2, <5>2
        <5>4. j < cut[j].firstChild
          <6>1. cut[j].firstChild \in Indices(cut)
            BY <1>5, <5>2
          <6> QED BY <1>2, <5>2, <6>1, TreeAt
        <5>5. cut[j].firstChild \in Nat
          BY <1>3, <5>2
        <5> QED BY <1>4, <3>2, <3>5, <5>3, <5>4, <5>5
      <4>5. cut[j].nextSibling = NoIndex
        BY <3>2, <4>1 DEF IsLeast
      <4> QED BY <3>1, <4>1, <4>2, <4>3, <4>4, <4>5 DEF IsLeast
    <3> QED BY <1>4, <3>2, <3>4, <3>5
  <2> QED BY <2>3 DEF TreeOK
<1>9. ASSUME NEW j \in left, i <= cut[j].firstChild \/ i <= cut[j].nextSibling \/ i <= cut[j].parent,
             TreeOK(new)
      PROVE  FALSE
  <2> DEFINE L == {c \in left : i < c /\ cut[c].parent # NoIndex}
  <2>0. j \in Indices(cut) /\ j \in Nat /\ j # NoIndex
    BY <1>3, <1>4, <1>5
  <2>1. L # {}
    <3>1. CASE i <= cut[j].firstChild
      <4>1. cut[j].firstChild \in ChildrenOf(cut, j)
        <5>1. cut[j].firstChild # NoIndex
          BY <1>4, <3>1 DEF NoIndex
        <5> QED BY <1>2, <2>0, <5>1, TreeAt
      <4>2. cut[j].firstChild \in left /\ cut[cut[j].firstChild].parent = j /\ cut[j].firstChild \in Nat
        BY <1>6, <4>1, ChildAt
      <4>3. cut[j].firstChild # i
        BY <1>3, <4>2
      <4>4. i < cut[j].firstChild
        BY <1>4, <3>1, <4>2, <4>3
      <4> QED BY <2>0, <4>2, <4>4
    <3>2. CASE i <= cut[j].nextSibling
      <4>1. cut[j].parent # NoIndex /\ cut[j].nextSibling \in ChildrenOf(cut, cut[j].parent)
        <5>1. cut[j].nextSibling # NoIndex
          BY <1>4, <3>2 DEF NoIndex
        <5> QED BY <1>2, <2>0, <5>1, TreeAt
      <4>2. cut[j].parent \in left
        BY <1>7, <4>1
      <4>3. /\ cut[j].nextSibling \in left /\ cut[cut[j].nextSibling].parent = cut[j].parent
            /\ cut[j].nextSibling \in Nat
        BY <1>6, <4>1, <4>2, ChildAt
      <4>4. cut[j].nextSibling # i
        BY <1>3, <4>3
      <4>5. i < cut[j].nextSibling
        BY <1>4, <3>2, <4>3, <4>4
      <4> QED BY <4>1, <4>3, <4>5
    <3>3. CASE i <= cut[j].parent
      <4>1. cut[j].parent # NoIndex
        BY <1>4, <3>3 DEF NoIndex
      <4>2. cut[j].parent < j /\ cut[j].parent \in Nat
        BY <1>2, <2>0, TreeAt
      <4>3. i < j
        BY <1>4, <2>0, <3>3, <4>2
      <4> QED BY <4>1, <4>3
    <3> QED BY <1>9, <3>1, <3>2, <3>3
  <2>2. PICK g \in L : \A c \in L : c <= g
    <3>1. \A c \in L : c \in 0 .. Len(es)
      <4>1. \A c \in L : c \in Indices(es)
        BY <1>3
      <4> HIDE DEF L
      <4> QED BY <4>1 DEF Indices
    <3>2. L \in SUBSET (0 .. Len(es)) /\ Len(es) \in Nat
      BY <3>1
    <3> HIDE DEF L
    <3> QED BY <2>1, <3>2, GreatestOf
  <2>3. /\ g \in left /\ i < g /\ cut[g].parent # NoIndex /\ g \in Nat /\ g # NoIndex
        /\ cut[g].parent \in left
    <3>1. g \in left /\ i < g /\ cut[g].parent # NoIndex
      BY <2>2
    <3>2. g \in Nat /\ g # NoIndex
      BY <1>3, <1>4, <3>1
    <3> QED BY <1>7, <3>1, <3>2
  \* A link to it is left, and whatever it leads to now is behind its own place.
  <2>4. PICK m \in left : cut[m].firstChild = g \/ cut[m].nextSibling = g
    <3>1. g \in Indices(cut)
      BY <1>5, <2>3
    <3>2. CASE cut[cut[g].parent].firstChild = g
      BY <2>3, <3>2
    <3>3. CASE \E h \in ChildrenOf(cut, cut[g].parent) : cut[h].nextSibling = g
      BY <1>6, <2>3, <3>3
    <3> QED BY <1>2, <2>3, <3>1, <3>2, <3>3, LedTo
  <2>5. Place(left, m) \in Indices(new) /\ new[Place(left, m)] = cut[m] /\ Place(left, m) # NoIndex
    <3>1. Place(left, m) \in Indices(new) /\ new[Place(left, m)] = cut[m]
      BY <1>3
    <3> QED BY <3>1 DEF Indices, NoIndex
  <2>6. g \in Indices(new) /\ new[g].parent # NoIndex
    <3>1. CASE cut[m].firstChild = g
      <4>1. g \in ChildrenOf(new, Place(left, m))
        BY <1>3, <1>9, <2>3, <2>5, <3>1, TreeAt
      <4> QED BY <2>5, <4>1 DEF ChildrenOf
    <3>2. CASE cut[m].nextSibling = g
      <4>1. new[Place(left, m)].parent # NoIndex /\ g \in ChildrenOf(new, new[Place(left, m)].parent)
        BY <1>3, <1>9, <2>3, <2>5, <3>2, TreeAt
      <4> QED BY <4>1 DEF ChildrenOf
    <3> QED BY <2>4, <3>1, <3>2
  <2>7. PICK x \in left : Place(left, x) = g /\ new[g] = cut[x]
    BY <1>3, <2>6
  <2>8. x \in Nat /\ g < x
    <3>1. x \in Nat /\ x # i
      BY <1>3
    <3>2. ~(x < i)
      <4>1. x < i => x = g
        BY <1>3, <2>7
      <4> QED BY <1>4, <2>3, <3>1, <4>1
    <3>3. i < x
      BY <1>4, <3>1, <3>2
    <3> QED BY <1>3, <2>7, <3>1, <3>3
  <2>9. i < x
    BY <1>4, <2>3, <2>8
  <2>10. x \in L
    BY <2>6, <2>7, <2>9
  <2> QED BY <2>2, <2>3, <2>8, <2>10
<1> QED BY <1>1, <1>8, <1>9 DEF new

\* The entities of new are some of es, each with its id, its preview and its
\* components.
SomeOf(es, new) ==
    \E from \in [Indices(new) -> Indices(es)] :
       /\ \A m, n \in Indices(new) : from[m] = from[n] => m = n
       /\ \A n \in Indices(new) :
             /\ new[n].sceneId = es[from[n]].sceneId /\ new[n].previewId = es[from[n]].previewId
             /\ new[n].components = es[from[n]].components

\* Those that are left are.
LEMMA DeletedDocument ==
    ASSUME NEW es \in Seq(SceneEntities), TreeOK(es), DistinctIds(es), NEW i \in Indices(es),
           NEW new, new = Deleted(es, es[i].sceneId)
    PROVE  new \in Seq(SceneEntities) /\ DistinctIds(new) /\ SomeOf(es, new)
<1> DEFINE left == Left(es, es[i].sceneId)
           cut == ParentTo(es, es[i].sceneId, NoScene)
           from == [n \in Indices(new) |-> CHOOSE j \in left : Place(left, j) = n /\ new[n] = cut[j]]
<1>1. /\ left \subseteq Indices(es) /\ new \in Seq(SceneEntities)
      /\ \A n \in Indices(new) : \E j \in left : Place(left, j) = n /\ new[n] = cut[j]
  <2>1. left = Left(es, es[i].sceneId) /\ cut = ParentTo(es, es[i].sceneId, NoScene)
    OBVIOUS
  <2> HIDE DEF left, cut, from
  <2>2. Leaves(es, i, left, cut, new)
    BY <2>1, DeletedEntities
  <2> QED BY <2>2 DEF Leaves
<1>2. \A j \in Indices(es) : /\ cut[j].sceneId = es[j].sceneId /\ cut[j].previewId = es[j].previewId
                             /\ cut[j].components = es[j].components
  BY CutTree
<1> HIDE DEF left, cut
<1>3. \A n \in Indices(new) : from[n] \in left /\ Place(left, from[n]) = n /\ new[n] = cut[from[n]]
  BY <1>1
<1>4. from \in [Indices(new) -> Indices(es)]
  BY <1>1, <1>3
<1> HIDE DEF from
<1>5. \A m, n \in Indices(new) : from[m] = from[n] => m = n
  BY <1>3
<1>6. \A n \in Indices(new) :
          /\ from[n] \in Indices(es)
          /\ new[n].sceneId = es[from[n]].sceneId /\ new[n].previewId = es[from[n]].previewId
          /\ new[n].components = es[from[n]].components
  BY <1>2, <1>3, <1>4
<1>7. DistinctIds(new)
  BY <1>5, <1>6 DEF DistinctIds
<1>8. SomeOf(es, new)
  BY <1>4, <1>5, <1>6 DEF SomeOf
<1> QED BY <1>1, <1>7, <1>8

-----------------------------------------------------------------------------
(* Its components *)

\* A component is edited or synced: it keeps its type.
LEMMA PartChanged ==
    ASSUME NEW cs \in Seq(SceneComponents), NEW k \in DOMAIN cs,
           NEW c \in SceneComponents, c.type = cs[k].type, NEW new, new = [cs EXCEPT ![k] = c]
    PROVE  /\ new \in Seq(SceneComponents) /\ DOMAIN new = DOMAIN cs /\ (Lone(cs) => Lone(new))
           /\ new[k] = c /\ \A l \in DOMAIN cs \ {k} : new[l] = cs[l]
<1>1. new \in Seq(SceneComponents) /\ DOMAIN new = DOMAIN cs
  OBVIOUS
<1>2. new[k] = c /\ \A l \in DOMAIN cs \ {k} : new[l] = cs[l]
  OBVIOUS
<1>3. \A l \in DOMAIN cs : new[l].type = cs[l].type
  BY <1>2
<1> QED BY <1>1, <1>2, <1>3 DEF Lone

\* One is removed: those after it move one place.
LEMMA PartRemoved ==
    ASSUME NEW cs \in Seq(SceneComponents), NEW k \in DOMAIN cs,
           NEW new, new = [j \in 1 .. Len(cs) - 1 |-> IF j < k THEN cs[j] ELSE cs[j + 1]]
    PROVE  /\ new \in Seq(SceneComponents) /\ (Lone(cs) => Lone(new))
           /\ \A j \in DOMAIN new : \E l \in DOMAIN cs : new[j] = cs[l]
<1>1. Len(cs) \in Nat /\ DOMAIN cs = 1 .. Len(cs) /\ k \in 1 .. Len(cs) /\ Len(cs) - 1 \in Nat
  OBVIOUS
<1>2. \A j \in 1 .. Len(cs) - 1 : j \in DOMAIN cs /\ j + 1 \in DOMAIN cs /\ j \in Nat
  BY <1>1
<1>3. \A j \in 1 .. Len(cs) - 1 : new[j] \in SceneComponents
  BY <1>2
<1>4. new \in Seq(SceneComponents) /\ DOMAIN new = 1 .. Len(cs) - 1
  <2>1. new = [j \in 1 .. Len(cs) - 1 |-> new[j]]
    OBVIOUS
  <2> QED BY <1>1, <1>3, <2>1, SeqOf
<1>5. ASSUME Lone(cs), NEW i \in DOMAIN new, NEW j \in DOMAIN new,
             new[i].type = "Transform", new[j].type = "Transform"
      PROVE  i = j
  <2> DEFINE at(l) == IF l < k THEN l ELSE l + 1
  <2>1. /\ at(i) \in DOMAIN cs /\ at(j) \in DOMAIN cs
        /\ new[i] = cs[at(i)] /\ new[j] = cs[at(j)]
    BY <1>2, <1>4
  <2>2. at(i) = at(j)
    BY <1>5, <2>1 DEF Lone
  <2> QED BY <1>1, <1>2, <1>4, <2>2
<1>6. \A j \in DOMAIN new : \E l \in DOMAIN cs : new[j] = cs[l]
  BY <1>2, <1>4
<1> QED BY <1>4, <1>5, <1>6 DEF Lone

\* One is added.
LEMMA PartAdded ==
    ASSUME NEW cs \in Seq(SceneComponents), NEW c \in SceneComponents, NEW new, new = Append(cs, c)
    PROVE  /\ new \in Seq(SceneComponents)
           /\ \A j \in DOMAIN new : new[j] = c \/ \E l \in DOMAIN cs : new[j] = cs[l]
<1>1. Len(cs) \in Nat /\ DOMAIN cs = 1 .. Len(cs) /\ DOMAIN new = 1 .. Len(cs) + 1
  OBVIOUS
<1>2. /\ new \in Seq(SceneComponents) /\ new[Len(cs) + 1] = c
      /\ \A j \in DOMAIN cs : new[j] = cs[j]
      /\ \A j \in DOMAIN new : j = Len(cs) + 1 \/ j \in DOMAIN cs
  BY <1>1
<1> QED BY <1>1, <1>2

\* Components as they are read from a file are new.
LEMMA LoadedParts ==
    ASSUME NEW cs \in Seq([type : Types, value : Positions])
    PROVE  /\ Loaded(cs) \in Seq(SceneComponents) /\ (Lone(cs) => Lone(Loaded(cs)))
           /\ DOMAIN Loaded(cs) = DOMAIN cs
           /\ \A k \in DOMAIN cs : Loaded(cs)[k].state = "New" /\ Loaded(cs)[k].type = cs[k].type
                                    /\ Loaded(cs)[k].value = cs[k].value
<1>1. DOMAIN cs = 1 .. Len(cs) /\ Len(cs) \in Nat
  OBVIOUS
<1>2. \A k \in DOMAIN cs : cs[k] \in [type : Types, value : Positions]
  BY <1>1, ElementOfSeq
<1>3. \A k \in DOMAIN cs : /\ Loaded(cs)[k] \in SceneComponents
                           /\ Loaded(cs)[k].state = "New" /\ Loaded(cs)[k].type = cs[k].type
                           /\ Loaded(cs)[k].value = cs[k].value
  BY <1>2 DEF Loaded, NewSceneComponent, SceneComponents
<1>4. Loaded(cs) = [k \in 1 .. Len(cs) |-> Loaded(cs)[k]] /\ DOMAIN Loaded(cs) = DOMAIN cs
  BY <1>1 DEF Loaded
<1>5. Loaded(cs) \in Seq(SceneComponents)
  BY <1>1, <1>3, <1>4, SeqOf
<1>6. Lone(cs) => Lone(Loaded(cs))
  BY <1>3, <1>4 DEF Lone
<1> QED BY <1>3, <1>4, <1>5, <1>6

-----------------------------------------------------------------------------
(* Its document and its preview *)

DocOK(es, next, st, tw) ==
    /\ es \in Seq(SceneEntities) /\ next \in Nat \ {NoScene}
    /\ DistinctIds(es)
    /\ st <=> ~TreeOK(es)
    /\ \A i \in Indices(es) : /\ es[i].sceneId < next
                              /\ es[i].sceneId \in tw \/ Lone(es[i].components)

\* The preview has the component on the entity's own, with its value unless the
\* entity has had two transforms.
Shown(st, entity, c, tw) ==
    /\ entity.previewId # NotSynced /\ entity.previewId \in Entities(st)
    /\ (c.state = "Idle" /\ entity.sceneId \notin tw) => Get(st, entity.previewId) = c.value

Shows(st, entity, tw) ==
    \A k \in DOMAIN entity.components :
        LET c == entity.components[k]
        IN  c.type = "Transform" /\ c.state # "New" => Shown(st, entity, c, tw)

Distinct(es) ==
    \A i, j \in Indices(es) :
        es[j].previewId = es[i].previewId /\ es[i].previewId # NotSynced => j = i

PreviewOK(es, next, stg, tw) ==
    /\ next \in Nat \ {None}
    /\ stg = [c \in Types |-> stg[c]] /\ Sound(stg["Transform"], Positions)
    /\ Distinct(es)
    /\ \A i \in Indices(es) : es[i].previewId < next /\ Shows(stg["Transform"], es[i], tw)

\* new is es with other components of entity i, or another id in the preview.
Changed(es, new, i, cs, id) ==
    /\ new \in Seq(SceneEntities) /\ Indices(new) = Indices(es)
    /\ \A j \in Indices(es) \ {i} : new[j] = es[j]
    /\ new[i].sceneId = es[i].sceneId /\ new[i].parent = es[i].parent
    /\ new[i].firstChild = es[i].firstChild /\ new[i].nextSibling = es[i].nextSibling
    /\ new[i].components = cs /\ new[i].previewId = id

\* What an entity becomes when its components and its preview id are assigned.
LEMMA ChangedEntity ==
    ASSUME NEW es \in Seq(SceneEntities), NEW i \in Indices(es), NEW cs \in Seq(SceneComponents),
           NEW id \in Nat, NEW new,
           new = [es EXCEPT ![i] = [es[i] EXCEPT !.components = cs, !.previewId = id]]
    PROVE  Changed(es, new, i, cs, id)
<1> DEFINE one == [es[i] EXCEPT !.components = cs, !.previewId = id]
<1>1. es[i] \in SceneEntities
  BY EntityAt
<1>2. /\ one \in SceneEntities /\ one.components = cs /\ one.previewId = id
      /\ one.sceneId = es[i].sceneId /\ one.parent = es[i].parent
      /\ one.firstChild = es[i].firstChild /\ one.nextSibling = es[i].nextSibling
  BY <1>1 DEF SceneEntities
<1> HIDE DEF one
<1>3. new = [es EXCEPT ![i] = one]
  BY DEF one
<1>4. /\ new \in Seq(SceneEntities) /\ Len(new) = Len(es) /\ new[i] = one
      /\ \A j \in Indices(es) \ {i} : new[j] = es[j]
  <2>1. i \in 1 .. Len(es) /\ DOMAIN es = 1 .. Len(es)
    BY DEF Indices
  <2>2. new \in Seq(SceneEntities) /\ Len(new) = Len(es)
    BY <1>2, <1>3, <2>1
  <2>3. new[i] = one /\ \A j \in 1 .. Len(es) : j # i => new[j] = es[j]
    BY <1>3, <2>1
  <2> QED BY <2>2, <2>3 DEF Indices
<1> QED BY <1>2, <1>4 DEF Changed, Indices

\* Links that are kept form trees if they did.
LEMMA LinksKept ==
    ASSUME NEW es, NEW new, TreeOK(es), Indices(new) = Indices(es),
           \A j \in Indices(es) :
              /\ new[j].parent = es[j].parent
              /\ new[j].firstChild = es[j].firstChild /\ new[j].nextSibling = es[j].nextSibling
    PROVE  TreeOK(new)
<1>1. \A q : ChildrenOf(new, q) = ChildrenOf(es, q)
  BY DEF ChildrenOf
<1>2. ASSUME NEW j \in Indices(es)
      PROVE  /\ new[j].parent \in 0 .. j - 1
             /\ IsLeast(new[j].firstChild, ChildrenOf(new, j))
             /\ IsLeast(new[j].nextSibling,
                        {c \in ChildrenOf(new, new[j].parent) : j < c /\ new[j].parent # NoIndex})
  <2>1. /\ es[j].parent \in 0 .. j - 1
        /\ IsLeast(es[j].firstChild, ChildrenOf(es, j))
        /\ IsLeast(es[j].nextSibling,
                   {c \in ChildrenOf(es, es[j].parent) : j < c /\ es[j].parent # NoIndex})
    BY DEF TreeOK
  <2> QED BY <1>1, <2>1
<1> QED BY <1>2 DEF TreeOK

\* Such a change keeps the document, if an entity that gets a second transform
\* is remembered.
LEMMA ChangedDoc ==
    ASSUME NEW es, NEW next, NEW st, NEW tw, DocOK(es, next, st, tw), NEW tw2, tw \subseteq tw2,
           NEW i \in Indices(es), NEW cs, es[i].sceneId \in tw2 \/ Lone(cs), NEW id,
           NEW new, Changed(es, new, i, cs, id)
    PROVE  DocOK(new, next, st, tw2)
<1>1. Indices(new) = Indices(es)
      /\ \A j \in Indices(es) :
            /\ new[j].sceneId = es[j].sceneId /\ new[j].parent = es[j].parent
            /\ new[j].firstChild = es[j].firstChild /\ new[j].nextSibling = es[j].nextSibling
  BY DEF Changed
<1>2. TreeOK(new) <=> TreeOK(es)
  <2>1. TreeOK(es) => TreeOK(new)
    BY <1>1, LinksKept
  <2>2. TreeOK(new) => TreeOK(es)
    BY <1>1, LinksKept
  <2> QED BY <2>1, <2>2
<1>3. DistinctIds(new)
  BY <1>1 DEF DocOK, DistinctIds
<1>4. \A j \in Indices(es) : new[j].sceneId \in tw2 \/ Lone(new[j].components)
  <2>1. \A j \in Indices(es) : es[j].sceneId \in tw2 \/ Lone(es[j].components)
    BY DEF DocOK
  <2>2. new[i].components = cs /\ \A j \in Indices(es) \ {i} : new[j] = es[j]
    BY DEF Changed
  <2> QED BY <1>1, <2>1, <2>2
<1>5. \A j \in Indices(es) : new[j].sceneId < next
  BY <1>1 DEF DocOK
<1>6. new \in Seq(SceneEntities) /\ next \in Nat \ {NoScene} /\ (st <=> ~TreeOK(new))
  BY <1>2 DEF DocOK, Changed
<1> QED BY <1>1, <1>3, <1>4, <1>5, <1>6 DEF DocOK

\* It keeps the preview, if the preview shows the entity as it is now.
LEMMA ChangedPreview ==
    ASSUME NEW es, NEW next, NEW stg, NEW tw, PreviewOK(es, next, stg, tw),
           NEW tw2, tw \subseteq tw2, NEW i \in Indices(es), NEW cs,
           NEW new, Changed(es, new, i, cs, es[i].previewId), Shows(stg["Transform"], new[i], tw2)
    PROVE  PreviewOK(new, next, stg, tw2)
<1>1. Indices(new) = Indices(es) /\ \A j \in Indices(es) : new[j].previewId = es[j].previewId
  BY DEF Changed
<1>2. Distinct(new)
  BY <1>1 DEF PreviewOK, Distinct
<1>3. \A j \in Indices(es) : Shows(stg["Transform"], es[j], tw2)
  BY DEF PreviewOK, Shows, Shown
<1>4. \A j \in Indices(es) : new[j].previewId < next /\ Shows(stg["Transform"], new[j], tw2)
  BY <1>1, <1>3 DEF PreviewOK, Changed
<1> QED BY <1>1, <1>2, <1>4 DEF PreviewOK

DocInv == DocOK(ents, nextScene, strayed, twice)

PreviewInv == PreviewOK(ents, pNextId, pStorage, twice)

\* What the document and its preview are when nothing waits to be synced.
LEMMA AllSynced ==
    ASSUME DocInv, PreviewInv, Unsynced = {}, NEW i \in Indices(ents)
    PROVE  /\ ents[i].previewId # NotSynced
           /\ \A k \in DOMAIN ents[i].components :
                 /\ ents[i].components[k].state = "Idle"
                 /\ ents[i].components[k].type = "Transform"
                       => Shown(pStorage["Transform"], ents[i], ents[i].components[k], twice)
<1>1. ~NeedsEntity(i) /\ Stale(i) = {}
  BY DEF Unsynced
<1>2. \A k \in DOMAIN ents[i].components : ents[i].components[k].state = "Idle"
  BY <1>1 DEF Stale
<1> QED BY <1>1, <1>2 DEF NeedsEntity, PreviewInv, PreviewOK, Shows

\* The inspector's edit leaves the component stale.
LEMMA EditStep ==
    ASSUME DocInv, PreviewInv, Unsynced = {}, NEW i \in Indices(ents),
           NEW k \in DOMAIN ents[i].components, NEW v \in Positions, EditComponent(i, k, v)
    PROVE  DocInv' /\ PreviewInv'
<1> DEFINE cs == ents[i].components
           c  == [cs[k] EXCEPT !.value = v, !.state = "Pending"]
           new == [cs EXCEPT ![k] = c]
<1>1. /\ ents \in Seq(SceneEntities) /\ ents[i] \in SceneEntities /\ cs \in Seq(SceneComponents)
      /\ ents[i].previewId \in Nat /\ (ents[i].sceneId \in twice \/ Lone(cs))
  BY EntityAt DEF DocInv, DocOK
<1>2. cs[k] \in SceneComponents
  BY <1>1
<1>3. c \in SceneComponents /\ c.type = cs[k].type /\ c.state = "Pending"
  BY <1>2 DEF SceneComponents
<1> HIDE DEF c
<1>4. /\ new \in Seq(SceneComponents) /\ DOMAIN new = DOMAIN cs /\ (Lone(cs) => Lone(new))
      /\ new[k] = c /\ \A l \in DOMAIN cs \ {k} : new[l] = cs[l]
  BY <1>1, <1>3, PartChanged
<1>5. ents' = [ents EXCEPT ![i] = [ents[i] EXCEPT !.components = new, !.previewId = ents[i].previewId]]
  <2>1. ents' = [ents EXCEPT ![i].components[k].value = v, ![i].components[k].state = "Pending"]
    BY DEF EditComponent
  <2>2. ents' = [ents EXCEPT ![i] = [ents[i] EXCEPT !.components = new]]
    BY <1>1, <2>1 DEF c, Indices
  <2>3. [ents[i] EXCEPT !.components = new]
          = [ents[i] EXCEPT !.components = new, !.previewId = ents[i].previewId]
    BY <1>1 DEF SceneEntities
  <2> QED BY <2>2, <2>3
<1> HIDE DEF new
<1>6. Changed(ents, ents', i, new, ents[i].previewId)
  BY <1>1, <1>4, <1>5, ChangedEntity
<1>7. DocInv'
  <2>1. UNCHANGED <<nextScene, strayed, twice>>
    BY DEF EditComponent
  <2>2. DocOK(ents', nextScene, strayed, twice)
    BY <1>1, <1>4, <1>6, ChangedDoc DEF DocInv
  <2> QED BY <2>1, <2>2 DEF DocInv
<1>8. Shows(pStorage["Transform"], ents'[i], twice)
  <2>1. /\ ents'[i].components = new /\ ents'[i].previewId = ents[i].previewId
        /\ ents'[i].sceneId = ents[i].sceneId
    BY <1>6 DEF Changed
  <2>2. \A l \in DOMAIN cs : cs[l].type = "Transform"
                               => Shown(pStorage["Transform"], ents[i], cs[l], twice)
    BY AllSynced
  <2>3. c.type = "Transform" => Shown(pStorage["Transform"], ents[i], c, twice)
    BY <1>3, <2>2 DEF Shown
  <2>4. \A l \in DOMAIN new : new[l].type = "Transform"
                               => Shown(pStorage["Transform"], ents[i], new[l], twice)
    BY <1>4, <2>2, <2>3
  <2> QED BY <2>1, <2>4 DEF Shows, Shown
<1>9. PreviewInv'
  <2>1. UNCHANGED <<pNextId, pStorage, twice>>
    BY DEF EditComponent, User, previewVars
  <2>2. PreviewOK(ents', pNextId, pStorage, twice)
    BY <1>6, <1>8, ChangedPreview DEF PreviewInv
  <2> QED BY <2>1, <2>2 DEF PreviewInv
<1> QED BY <1>7, <1>9

\* The inspector's "Remove".
LEMMA RemoveStepOfScene ==
    ASSUME DocInv, PreviewInv, NEW i \in Indices(ents),
           NEW k \in DOMAIN ents[i].components, RemoveSceneComponent(i, k)
    PROVE  DocInv' /\ PreviewInv'
<1> DEFINE cs == ents[i].components
           new == [j \in 1 .. Len(cs) - 1 |-> IF j < k THEN cs[j] ELSE cs[j + 1]]
<1>1. /\ ents \in Seq(SceneEntities) /\ ents[i] \in SceneEntities /\ cs \in Seq(SceneComponents)
      /\ ents[i].previewId \in Nat /\ (ents[i].sceneId \in twice \/ Lone(cs))
  BY EntityAt DEF DocInv, DocOK
<1>4. /\ new \in Seq(SceneComponents) /\ (Lone(cs) => Lone(new))
      /\ \A j \in DOMAIN new : \E l \in DOMAIN cs : new[j] = cs[l]
  <2>1. \A x : x = [j \in 1 .. Len(cs) - 1 |-> IF j < k THEN cs[j] ELSE cs[j + 1]]
                  => /\ x \in Seq(SceneComponents) /\ (Lone(cs) => Lone(x))
                     /\ \A j \in DOMAIN x : \E l \in DOMAIN cs : x[j] = cs[l]
    BY <1>1, PartRemoved
  <2> QED BY <2>1
<1>5. ents' = [ents EXCEPT ![i] = [ents[i] EXCEPT !.components = new, !.previewId = ents[i].previewId]]
  <2>2. ents' = [ents EXCEPT ![i] = [ents[i] EXCEPT !.components = new]]
    BY DEF RemoveSceneComponent, Indices
  <2>3. [ents[i] EXCEPT !.components = new]
          = [ents[i] EXCEPT !.components = new, !.previewId = ents[i].previewId]
    BY <1>1 DEF SceneEntities
  <2> QED BY <2>2, <2>3
<1> HIDE DEF new
<1>6. Changed(ents, ents', i, new, ents[i].previewId)
  BY <1>1, <1>4, <1>5, ChangedEntity
<1>7. DocInv'
  <2>1. UNCHANGED <<nextScene, strayed, twice>>
    BY DEF RemoveSceneComponent
  <2>2. DocOK(ents', nextScene, strayed, twice)
    BY <1>1, <1>4, <1>6, ChangedDoc DEF DocInv
  <2> QED BY <2>1, <2>2 DEF DocInv
<1>8. Shows(pStorage["Transform"], ents'[i], twice)
  <2>1. /\ ents'[i].components = new /\ ents'[i].previewId = ents[i].previewId
        /\ ents'[i].sceneId = ents[i].sceneId
    BY <1>6 DEF Changed
  <2>2. Shows(pStorage["Transform"], ents[i], twice)
    BY DEF PreviewInv, PreviewOK
  <2> QED BY <1>4, <2>1, <2>2 DEF Shows, Shown
<1>9. PreviewInv'
  <2>1. UNCHANGED <<pNextId, pStorage, twice>>
    BY DEF RemoveSceneComponent, User, previewVars
  <2>2. PreviewOK(ents', pNextId, pStorage, twice)
    BY <1>6, <1>8, ChangedPreview DEF PreviewInv
  <2> QED BY <2>1, <2>2 DEF PreviewInv
<1> QED BY <1>7, <1>9

\* The inspector's "Add Component".
LEMMA AddStepOfScene ==
    ASSUME DocInv, PreviewInv, NEW i \in Indices(ents), NEW type \in Types, AddNewComponent(i, type)
    PROVE  DocInv' /\ PreviewInv'
<1> DEFINE cs == ents[i].components
           c == NewSceneComponent(type, Origin)
           new == Append(cs, c)
<1>1. /\ ents \in Seq(SceneEntities) /\ ents[i] \in SceneEntities /\ cs \in Seq(SceneComponents)
      /\ ents[i].previewId \in Nat /\ DistinctIds(ents)
  BY EntityAt DEF DocInv, DocOK
<1>2. c \in SceneComponents /\ c.type = type /\ c.state = "New"
  BY SpaceAssumption DEF NewSceneComponent, SceneComponents
<1>3. IndexOf(ents, ents[i].sceneId) = i
  BY <1>1, IndexOfId
<1>5. ents' = [ents EXCEPT ![i] = [ents[i] EXCEPT !.components = new, !.previewId = ents[i].previewId]]
  <2>1. ents' = [ents EXCEPT ![i].components = Append(@, c)]
    BY <1>3 DEF AddNewComponent, WithComponent
  <2>2. ents' = [ents EXCEPT ![i] = [ents[i] EXCEPT !.components = new]]
    BY <2>1 DEF Indices
  <2>3. [ents[i] EXCEPT !.components = new]
          = [ents[i] EXCEPT !.components = new, !.previewId = ents[i].previewId]
    BY <1>1 DEF SceneEntities
  <2> QED BY <2>2, <2>3
<1> HIDE DEF c
<1>4. /\ new \in Seq(SceneComponents)
      /\ \A j \in DOMAIN new : new[j] = c \/ \E l \in DOMAIN cs : new[j] = cs[l]
  <2>1. \A x : x = Append(cs, c)
                  => /\ x \in Seq(SceneComponents)
                     /\ \A j \in DOMAIN x : x[j] = c \/ \E l \in DOMAIN cs : x[j] = cs[l]
    BY <1>1, <1>2, PartAdded
  <2> QED BY <2>1
<1> HIDE DEF new
<1>6. Changed(ents, ents', i, new, ents[i].previewId)
  BY <1>1, <1>4, <1>5, ChangedEntity
<1>7. /\ UNCHANGED <<nextScene, strayed, pNextId, pStorage>>
      /\ twice \subseteq twice' /\ (ents[i].sceneId \in twice' \/ Lone(new))
  <2>1. ents'[i].components = new
    BY <1>6 DEF Changed
  <2> QED BY <2>1 DEF AddNewComponent, User, previewVars
<1>8. DocInv'
  <2>1. DocOK(ents', nextScene, strayed, twice')
    BY <1>6, <1>7, ChangedDoc DEF DocInv
  <2> QED BY <1>7, <2>1 DEF DocInv
<1>9. Shows(pStorage["Transform"], ents'[i], twice')
  <2>1. /\ ents'[i].components = new /\ ents'[i].previewId = ents[i].previewId
        /\ ents'[i].sceneId = ents[i].sceneId
    BY <1>6 DEF Changed
  <2>2. Shows(pStorage["Transform"], ents[i], twice)
    BY DEF PreviewInv, PreviewOK
  <2> QED BY <1>2, <1>4, <1>7, <2>1, <2>2 DEF Shows, Shown
<1>10. PreviewInv'
  <2>1. PreviewOK(ents', pNextId, pStorage, twice')
    BY <1>6, <1>7, <1>9, ChangedPreview DEF PreviewInv
  <2> QED BY <1>7, <2>1 DEF PreviewInv
<1> QED BY <1>8, <1>10

\* The entities that are left, or were there, keep what the preview has of
\* them, wherever they are in the vector now.
LEMMA KeptPreview ==
    ASSUME NEW es, NEW next, NEW stg, NEW tw, PreviewOK(es, next, stg, tw),
           NEW tw2, tw \subseteq tw2, NEW new \in Seq(SceneEntities), NEW from,
           \A m, n \in Indices(new) : from[m] = from[n] => m = n,
           \A j \in Indices(new) :
              \/ /\ from[j] \in Indices(es)
                 /\ new[j].sceneId = es[from[j]].sceneId
                 /\ new[j].previewId = es[from[j]].previewId
                 /\ new[j].components = es[from[j]].components
              \/ /\ new[j].previewId = NotSynced
                 /\ \A k \in DOMAIN new[j].components : new[j].components[k].state = "New"
    PROVE  PreviewOK(new, next, stg, tw2)
<1>0. next \in Nat /\ NotSynced < next
  BY DEF PreviewOK, NotSynced, None
<1>1. Distinct(new)
  BY DEF PreviewOK, Distinct
<1>2. ASSUME NEW j \in Indices(new)
      PROVE  new[j].previewId < next /\ Shows(stg["Transform"], new[j], tw2)
  <2>1. CASE /\ from[j] \in Indices(es)
             /\ new[j].sceneId = es[from[j]].sceneId
             /\ new[j].previewId = es[from[j]].previewId
             /\ new[j].components = es[from[j]].components
    <3>1. es[from[j]].previewId < next /\ Shows(stg["Transform"], es[from[j]], tw)
      BY <2>1 DEF PreviewOK
    <3> QED BY <2>1, <3>1 DEF Shows, Shown
  <2>2. CASE /\ new[j].previewId = NotSynced
             /\ \A k \in DOMAIN new[j].components : new[j].components[k].state = "New"
    BY <1>0, <2>2 DEF Shows
  <2> QED BY <2>1, <2>2
<1> QED BY <1>1, <1>2 DEF PreviewOK

\* createEntity, below another entity or as a root.
LEMMA CreateStepOfScene ==
    ASSUME DocInv, PreviewInv, NEW parentId, CreateSceneEntity(parentId),
           parentId = NoScene \/ \E i \in Indices(ents) : ents[i].sceneId = parentId
    PROVE  DocInv' /\ PreviewInv'
<1> DEFINE n == Len(ents) + 1
<1>1. /\ ents \in Seq(SceneEntities) /\ DistinctIds(ents) /\ nextScene \in Nat \ {NoScene}
      /\ strayed <=> ~TreeOK(ents)
      /\ \A i \in Indices(ents) : /\ ents[i].sceneId < nextScene /\ ents[i].sceneId \in Nat
                                  /\ ents[i].sceneId \in twice \/ Lone(ents[i].components)
  <2>1. ents \in Seq(SceneEntities)
    BY DEF DocInv, DocOK
  <2>2. \A i \in Indices(ents) : ents[i].sceneId \in Nat
    BY <2>1, EntityAt
  <2> QED BY <2>1, <2>2 DEF DocInv, DocOK
<1>2. /\ ents' = Created(ents, nextScene, parentId) /\ nextScene' = nextScene + 1
      /\ parentId # NoScene => ~strayed
      /\ UNCHANGED <<strayed, twice, pNextId, pStorage>>
  BY DEF CreateSceneEntity, User, previewVars
<1>3. /\ ents' \in Seq(SceneEntities)
      /\ TreeOK(ents') <=> TreeOK(ents)
      /\ Len(ents') = n
      /\ ents'[n].sceneId = nextScene /\ ents'[n].components = <<>> /\ ents'[n].previewId = NotSynced
      /\ \A i \in Indices(ents) : /\ ents'[i].sceneId = ents[i].sceneId
                                  /\ ents'[i].components = ents[i].components
                                  /\ ents'[i].previewId = ents[i].previewId
  <2>1. CASE parentId = NoScene
    BY <1>1, <1>2, <2>1, CreatedRoot
  <2>2. CASE parentId # NoScene
    <3>1. TreeOK(ents) /\ \E i \in Indices(ents) : ents[i].sceneId = parentId
      BY <1>1, <1>2, <2>2
    <3>2. /\ ents' \in Seq(SceneEntities)
          /\ \E p : Grown(ents, ents', p)
          /\ Len(ents') = n
          /\ ents'[n].sceneId = nextScene /\ ents'[n].components = <<>> /\ ents'[n].previewId = NotSynced
          /\ \A i \in Indices(ents) : /\ ents'[i].sceneId = ents[i].sceneId
                                      /\ ents'[i].components = ents[i].components
                                      /\ ents'[i].previewId = ents[i].previewId
      BY <1>1, <1>2, <2>2, <3>1, CreatedGrown
    <3>3. TreeOK(ents')
      <4>1. Len(ents) \in Nat
        BY <1>1
      <4> QED BY <3>1, <3>2, <4>1, GrownTree
    <3> QED BY <3>1, <3>2, <3>3
  <2> QED BY <2>1, <2>2
<1>4. Len(ents) \in Nat /\ \A i \in Indices(ents') : i = n \/ (i \in Indices(ents) /\ i # n)
  BY <1>1, <1>3 DEF Indices
<1> HIDE DEF n
<1>5. DistinctIds(ents')
  BY <1>1, <1>3, <1>4 DEF DistinctIds
<1>6. \A i \in Indices(ents') : /\ ents'[i].sceneId < nextScene'
                                /\ ents'[i].sceneId \in twice \/ Lone(ents'[i].components)
  <2>1. Lone(<<>>)
    BY DEF Lone
  <2> QED BY <1>1, <1>2, <1>3, <1>4, <2>1
<1>7. DocInv'
  <2>1. nextScene' \in Nat \ {NoScene}
    BY <1>1, <1>2 DEF NoScene
  <2>2. strayed' <=> ~TreeOK(ents')
    BY <1>1, <1>2, <1>3
  <2> QED BY <1>2, <1>3, <1>5, <1>6, <2>1, <2>2 DEF DocInv, DocOK
<1>8. PreviewInv'
  <2> DEFINE from == [j \in Indices(ents') |-> j]
  <2>1. \A j \in Indices(ents') : from[j] = j
    OBVIOUS
  <2> HIDE DEF from
  <2>2. DOMAIN ents'[n].components = {}
    BY <1>3
  <2>3. PreviewOK(ents', pNextId, pStorage, twice)
    <3>1. PreviewOK(ents, pNextId, pStorage, twice)
      BY DEF PreviewInv
    <3>2. \A l, m \in Indices(ents') : from[l] = from[m] => l = m
      BY <2>1
    <3>3. \A j \in Indices(ents') :
             \/ /\ from[j] \in Indices(ents)
                /\ ents'[j].sceneId = ents[from[j]].sceneId
                /\ ents'[j].previewId = ents[from[j]].previewId
                /\ ents'[j].components = ents[from[j]].components
             \/ /\ ents'[j].previewId = NotSynced
                /\ \A k \in DOMAIN ents'[j].components : ents'[j].components[k].state = "New"
      BY <1>3, <1>4, <2>1, <2>2
    <3> QED BY <1>3, <3>1, <3>2, <3>3, KeptPreview
  <2> QED BY <1>2, <2>3 DEF PreviewInv
<1> QED BY <1>7, <1>8

\* deleteEntity, of any entity of a document whose links are trees.
LEMMA DeleteStepOfScene ==
    ASSUME DocInv, PreviewInv, NEW i \in Indices(ents), DeleteSceneEntity(ents[i].sceneId)
    PROVE  DocInv' /\ PreviewInv'
<1>1. /\ ents \in Seq(SceneEntities) /\ DistinctIds(ents) /\ nextScene \in Nat \ {NoScene}
      /\ \A j \in Indices(ents) : /\ ents[j].sceneId < nextScene
                                  /\ ents[j].sceneId \in twice \/ Lone(ents[j].components)
  BY DEF DocInv, DocOK
<1>2. TreeOK(ents)
  <2>1. ~strayed /\ (strayed <=> ~TreeOK(ents))
    BY DEF DocInv, DocOK, DeleteSceneEntity
  <2> QED BY <2>1
<1>3. /\ ents' = Deleted(ents, ents[i].sceneId)
      /\ strayed' = Strays(ents, ents[i].sceneId)
      /\ UNCHANGED <<nextScene, twice, pNextId, pStorage>>
  BY DEF DeleteSceneEntity, User, previewVars
<1>4. strayed' <=> ~TreeOK(ents')
  <2>1. TreeOK(Deleted(ents, ents[i].sceneId)) <=> ~Strays(ents, ents[i].sceneId)
    BY <1>1, <1>2, DeletedLinks
  <2> QED BY <1>3, <2>1
<1>5. ents' \in Seq(SceneEntities) /\ DistinctIds(ents') /\ SomeOf(ents, ents')
  BY <1>1, <1>2, <1>3, DeletedDocument
<1>6. PICK from \in [Indices(ents') -> Indices(ents)] :
            /\ \A m, n \in Indices(ents') : from[m] = from[n] => m = n
            /\ \A n \in Indices(ents') :
                  /\ ents'[n].sceneId = ents[from[n]].sceneId
                  /\ ents'[n].previewId = ents[from[n]].previewId
                  /\ ents'[n].components = ents[from[n]].components
  BY <1>5 DEF SomeOf
<1>7. \A n \in Indices(ents') : from[n] \in Indices(ents)
  BY <1>6
<1>8. DocInv'
  <2>1. \A n \in Indices(ents') : /\ ents'[n].sceneId < nextScene
                                  /\ ents'[n].sceneId \in twice \/ Lone(ents'[n].components)
    BY <1>1, <1>6, <1>7
  <2> QED BY <1>1, <1>3, <1>4, <1>5, <2>1 DEF DocInv, DocOK
<1>9. PreviewInv'
  <2>1. PreviewOK(ents', pNextId, pStorage, twice)
    BY <1>5, <1>6, <1>7, KeptPreview DEF PreviewInv
  <2> QED BY <1>3, <2>1 DEF PreviewInv
<1> QED BY <1>8, <1>9

\* The first of a set of places.
LEMMA FirstOf ==
    ASSUME NEW S \in SUBSET Nat, S # {}
    PROVE  First(S) \in S /\ \A j \in S : First(S) <= j
BY LeastOf DEF First

\* syncPreview gives an entity one of the preview.
LEMMA SyncEntityStep ==
    ASSUME DocInv, PreviewInv, NEW i \in Indices(ents), SyncEntity(i),
           UNCHANGED <<nextScene, strayed, twice>>
    PROVE  DocInv' /\ PreviewInv'
<1> DEFINE cs == ents[i].components
<1>1. /\ ents \in Seq(SceneEntities) /\ ents[i] \in SceneEntities /\ cs \in Seq(SceneComponents)
      /\ ents[i].previewId = NotSynced /\ (ents[i].sceneId \in twice \/ Lone(cs)) /\ pNextId \in Nat \ {None}
      /\ i \in DOMAIN ents
  <2>1. i \in DOMAIN ents
    BY DEF DocInv, DocOK, Indices
  <2> QED BY <2>1, EntityAt DEF DocInv, DocOK, PreviewInv, PreviewOK, SyncEntity, NeedsEntity
<1>2. ents' = [ents EXCEPT ![i] = [ents[i] EXCEPT !.components = cs, !.previewId = pNextId]]
  <2>1. [ents[i] EXCEPT !.previewId = pNextId] = [ents[i] EXCEPT !.components = cs, !.previewId = pNextId]
    BY <1>1 DEF SceneEntities
  <2>2. ents' = [ents EXCEPT ![i] = [ents[i] EXCEPT !.previewId = pNextId]]
    BY <1>1 DEF SyncEntity
  <2> QED BY <2>1, <2>2
<1>3. Changed(ents, ents', i, cs, pNextId)
  BY <1>1, <1>2, ChangedEntity
<1>4. DocInv'
  <2>1. DocOK(ents', nextScene, strayed, twice)
    BY <1>1, <1>3, ChangedDoc DEF DocInv
  <2> QED BY <2>1 DEF DocInv
<1>5. /\ pNextId' = pNextId + 1 /\ pStorage' = pStorage
      /\ Indices(ents') = Indices(ents) /\ \A j \in Indices(ents) \ {i} : ents'[j] = ents[j]
      /\ ents'[i].components = cs /\ ents'[i].previewId = pNextId
  BY <1>3 DEF SyncEntity, Changed
<1>6. Shows(pStorage["Transform"], ents'[i], twice)
  <2>1. Shows(pStorage["Transform"], ents[i], twice)
    BY DEF PreviewInv, PreviewOK
  <2>2. \A k \in DOMAIN cs : ~(cs[k].type = "Transform" /\ cs[k].state # "New")
    BY <1>1, <2>1 DEF Shows, Shown
  <2> QED BY <1>5, <2>2 DEF Shows
<1>7. Distinct(ents')
  <2>1. \A j \in Indices(ents) : ents[j].previewId < pNextId /\ ents[j].previewId \in Nat
    BY <1>1, EntityAt DEF PreviewInv, PreviewOK
  <2>2. \A j \in Indices(ents) : ents[j].previewId # pNextId
    BY <1>1, <2>1
  <2> QED BY <1>5, <2>2 DEF PreviewInv, PreviewOK, Distinct
<1>8. \A j \in Indices(ents) : ents'[j].previewId < pNextId + 1
  <2>1. \A j \in Indices(ents) : ents[j].previewId < pNextId /\ ents[j].previewId \in Nat
    BY <1>1, EntityAt DEF PreviewInv, PreviewOK
  <2>2. \A j \in Indices(ents) : ents'[j].previewId \in Nat /\ ents'[j].previewId <= pNextId
    BY <1>1, <1>5, <2>1
  <2> QED BY <1>1, <2>2
<1>9. \A j \in Indices(ents) : Shows(pStorage["Transform"], ents'[j], twice)
  BY <1>5, <1>6 DEF PreviewInv, PreviewOK
<1>10. pNextId + 1 \in Nat \ {None}
  BY <1>1 DEF None
<1>11. PreviewInv'
  BY <1>5, <1>7, <1>8, <1>9, <1>10 DEF PreviewInv, PreviewOK
<1> QED BY <1>4, <1>11

\* syncPreview adds a component to the preview or assigns it there.
LEMMA SyncComponentStep ==
    ASSUME DocInv, PreviewInv, NEW i \in Indices(ents), Stale(i) # {}, SyncComponent(i),
           UNCHANGED <<nextScene, strayed, twice>>
    PROVE  DocInv' /\ PreviewInv'
<1> DEFINE cs == ents[i].components
           e  == ents[i].previewId
<1>1. /\ ents \in Seq(SceneEntities) /\ ents[i] \in SceneEntities /\ cs \in Seq(SceneComponents)
      /\ (ents[i].sceneId \in twice \/ Lone(cs)) /\ e \in Nat \ {None} /\ e \in Nat /\ e # NotSynced
      /\ i \in DOMAIN ents
  <2>1. i \in DOMAIN ents
    BY DEF DocInv, DocOK, Indices
  <2>2. e # NotSynced
    BY DEF SyncComponent, NeedsEntity
  <2> QED BY <2>1, <2>2, EntityAt DEF DocInv, DocOK, NotSynced, None
<1>2. PICK k \in DOMAIN cs : k = First(Stale(i))
  <2>1. Stale(i) \subseteq DOMAIN cs /\ Stale(i) \in SUBSET Nat
    BY <1>1 DEF Stale
  <2>2. First(Stale(i)) \in Stale(i)
    BY <2>1, FirstOf
  <2> QED BY <2>1, <2>2
<1> DEFINE c == [cs[k] EXCEPT !.state = "Idle"]
           new == [cs EXCEPT ![k] = c]
<1>3. cs[k] \in SceneComponents
  BY <1>1
<1>4. c \in SceneComponents /\ c.type = cs[k].type /\ c.state = "Idle" /\ c.value = cs[k].value
  BY <1>3 DEF SceneComponents
<1>5. ents' = [ents EXCEPT ![i] = [ents[i] EXCEPT !.components = new, !.previewId = e]]
  <2>1. ents' = [ents EXCEPT ![i].components[k].state = "Idle"]
    BY <1>2 DEF SyncComponent
  <2>2. ents' = [ents EXCEPT ![i] = [ents[i] EXCEPT !.components = new]]
    BY <2>1
  <2>3. [ents[i] EXCEPT !.components = new] = [ents[i] EXCEPT !.components = new, !.previewId = e]
    BY <1>1 DEF SceneEntities
  <2> QED BY <2>2, <2>3
<1> HIDE DEF c
<1>6. /\ new \in Seq(SceneComponents) /\ DOMAIN new = DOMAIN cs /\ (Lone(cs) => Lone(new))
      /\ new[k] = c /\ \A l \in DOMAIN cs \ {k} : new[l] = cs[l]
  BY <1>1, <1>4, PartChanged
<1> HIDE DEF new
<1>7. Changed(ents, ents', i, new, e)
  BY <1>1, <1>5, <1>6, ChangedEntity
<1>8. DocInv'
  <2>1. DocOK(ents', nextScene, strayed, twice)
    BY <1>1, <1>6, <1>7, ChangedDoc DEF DocInv
  <2> QED BY <2>1 DEF DocInv
<1> DEFINE st == pStorage["Transform"]
           st1 == pStorage'["Transform"]
<1>9. /\ Sound(st, Positions) /\ pStorage = [x \in Types |-> pStorage[x]]
      /\ "Transform" \in Types /\ c.value \in Positions
      /\ Contains(st, e) <=> e \in Entities(st)
  <2>1. Sound(st, Positions)
    BY DEF PreviewInv, PreviewOK
  <2>2. c.value \in Positions
    BY <1>4 DEF SceneComponents
  <2> QED BY <2>1, <2>2, ContainsMap DEF PreviewInv, PreviewOK, Types
<1>10. CASE c.type # "Transform"
  <2>1. UNCHANGED <<pNextId, pStorage>>
    BY <1>2, <1>4, <1>10 DEF SyncComponent
  <2>2. Shows(st, ents'[i], twice)
    <3>1. /\ ents'[i].components = new /\ ents'[i].previewId = ents[i].previewId
          /\ ents'[i].sceneId = ents[i].sceneId
      BY <1>7 DEF Changed
    <3>2. Shows(st, ents[i], twice)
      BY DEF PreviewInv, PreviewOK
    <3> QED BY <1>6, <1>10, <3>1, <3>2 DEF Shows, Shown
  <2>3. PreviewOK(ents', pNextId, pStorage, twice)
    BY <1>7, <2>2, ChangedPreview DEF PreviewInv
  <2> QED BY <1>8, <2>1, <2>3 DEF PreviewInv
<1>11. CASE c.type = "Transform"
  <2>1. PICK mid : /\ mid = IF cs[k].state = "New" /\ ~Contains(st, e) THEN Linked(st, e, c.value) ELSE st
                   /\ st1 = SetComponent(mid, e, c.value)
                   /\ pStorage' = [x \in Types |-> pStorage'[x]]
    <3>1. cs[k] = ents[i].components[First(Stale(i))]
      BY <1>2
    <3> QED BY <1>2, <1>4, <1>9, <1>11 DEF SyncComponent, Previewed
  <2>2. /\ Sound(mid, Positions) /\ Entities(mid) = Entities(st) \cup {e}
        /\ \A f \in Entities(st) : Get(mid, f) = Get(st, f)
    <3>1. CASE cs[k].state = "New" /\ ~Contains(st, e)
      <4>1. e \notin Entities(st) /\ mid = Linked(st, e, c.value)
        BY <1>9, <2>1, <3>1
      <4> HIDE DEF e, st
      <4> QED BY <1>1, <1>9, <4>1, LinkSound
    <3>2. CASE ~(cs[k].state = "New" /\ ~Contains(st, e))
      <4>1. e \in Entities(st)
        <5>1. CASE cs[k].state # "New"
          <6>1. Shows(st, ents[i], twice)
            BY DEF PreviewInv, PreviewOK
          <6> QED BY <1>4, <1>11, <5>1, <6>1 DEF Shows, Shown
        <5> QED BY <1>9, <3>2, <5>1
      <4> QED BY <1>9, <2>1, <3>2, <4>1
    <3> QED BY <3>1, <3>2
  <2>3. /\ Sound(st1, Positions) /\ Entities(st1) = Entities(mid)
        /\ Get(st1, e) = c.value
        /\ \A f \in Entities(mid) \ {e} : Get(st1, f) = Get(mid, f)
    <3>1. e \in Entities(mid)
      BY <2>2
    <3> QED BY <1>9, <2>1, <2>2, <3>1, SetSound
  <2>4. /\ Entities(st1) = Entities(st) \cup {e} /\ Get(st1, e) = c.value
        /\ \A f \in Entities(st) \ {e} : Get(st1, f) = Get(st, f)
    BY <2>2, <2>3
  <2>5. /\ Indices(ents') = Indices(ents) /\ \A j \in Indices(ents) \ {i} : ents'[j] = ents[j]
        /\ ents'[i].components = new /\ ents'[i].previewId = e /\ ents'[i].sceneId = ents[i].sceneId
    BY <1>7 DEF Changed
  <2>6. Shows(st1, ents'[i], twice)
    <3> SUFFICES ASSUME NEW l \in DOMAIN new, new[l].type = "Transform"
                 PROVE  Shown(st1, ents'[i], new[l], twice)
      BY <2>5 DEF Shows
    <3>1. ents[i].sceneId \notin twice => l = k
      BY <1>1, <1>4, <1>6, <1>11 DEF Lone
    <3>2. e \in Entities(st1) /\ Get(st1, e) = c.value /\ e # NotSynced
      BY <1>1, <2>4
    <3> HIDE DEF e, st1
    <3> QED BY <1>6, <2>5, <3>1, <3>2 DEF Shown
  <2>7. ASSUME NEW j \in Indices(ents) \ {i} PROVE Shows(st1, ents'[j], twice)
    <3>1. Shows(st, ents[j], twice) /\ (ents[j].previewId # NotSynced => ents[j].previewId # e)
      BY DEF PreviewInv, PreviewOK, Distinct
    <3> HIDE DEF st, st1, e
    <3> QED BY <2>4, <2>5, <3>1 DEF Shows, Shown
  <2>8. Distinct(ents')
    BY <2>5 DEF PreviewInv, PreviewOK, Distinct
  <2>9. \A j \in Indices(ents) : ents'[j].previewId < pNextId
    BY <2>5 DEF PreviewInv, PreviewOK
  <2>10. pNextId' = pNextId
    BY DEF SyncComponent
  <2>11. PreviewInv'
    BY <2>1, <2>3, <2>5, <2>6, <2>7, <2>8, <2>9, <2>10 DEF PreviewInv, PreviewOK
  <2> QED BY <1>8, <2>11
<1> QED BY <1>10, <1>11

\* A step of syncPreview, which ends when nothing is stale.
LEMMA SyncStep ==
    ASSUME DocInv, PreviewInv, SyncPreview
    PROVE  DocInv' /\ PreviewInv' /\ (stage' = "ui" => Unsynced' = {})
<1>1. CASE Unsynced = {}
  <2>1. UNCHANGED <<ents, nextScene, strayed, twice, pNextId, pStorage>>
    BY <1>1 DEF SyncPreview, previewVars
  <2> QED BY <1>1, <2>1 DEF DocInv, PreviewInv, Unsynced, NeedsEntity, Stale
<1>2. CASE Unsynced # {}
  <2> DEFINE i == First(Unsynced)
  <2>1. i \in Unsynced /\ Unsynced \subseteq Indices(ents)
    <3>1. Unsynced \subseteq Indices(ents) /\ Indices(ents) \subseteq Nat
      BY DEF Unsynced, Indices
    <3> QED BY <1>2, <3>1, FirstOf
  <2>2. /\ stage' # "ui" /\ UNCHANGED <<nextScene, strayed, twice>>
        /\ SyncEntity(i) \/ SyncComponent(i)
    BY <1>2 DEF SyncPreview
  <2> HIDE DEF i
  <2>3. CASE SyncEntity(i)
    BY <2>1, <2>2, <2>3, SyncEntityStep
  <2>4. CASE SyncComponent(i)
    <3>1. Stale(i) # {}
      BY <2>1, <2>4 DEF Unsynced, SyncComponent
    <3> QED BY <2>1, <2>2, <2>4, <3>1, SyncComponentStep
  <2> QED BY <2>2, <2>3, <2>4
<1> QED BY <1>1, <1>2

-----------------------------------------------------------------------------
(* Its file *)

Written(wr, c) == \E n \in DOMAIN wr : wr[n] = c

Running(frs, p) == \E k \in DOMAIN frs : frs[k].index = p

Top(frs) == frs[Len(frs)].index

\* The objects in the file stand for the entities written.
Tells(es, fl, wr) ==
    \A n \in DOMAIN fl :
        /\ fl[n].components = Saved(es[wr[n]].components)
        /\ n # 1 => fl[n].parent \in 1 .. n - 1 /\ es[wr[n]].parent = wr[fl[n].parent]
        /\ \A m \in 1 .. n - 1 : wr[m] # wr[n] /\ (fl[m].parent = fl[n].parent => wr[m] < wr[n])

\* Each running call is for a child of the one before it, of whose children
\* those up to that one are written.
Stack(es, fl, frs, wr) ==
    \A k \in DOMAIN frs :
        /\ frs[k].object \in DOMAIN fl /\ wr[frs[k].object] = frs[k].index
        /\ k # 1 => es[frs[k].index].parent = frs[k - 1].index
        /\ \A j \in 1 .. k - 1 : frs[j].index < frs[k].index
        /\ k # Len(frs) =>
              \A c \in ChildrenOf(es, frs[k].index) : Written(wr, c) <=> c <= frs[k + 1].index

\* Where _toJson stands in its walk over the tree of the first entity.
Walk(es, fl, frs, ch, wr) ==
    /\ fl \in Seq(Objects) /\ wr \in Seq(Indices(es)) /\ Len(wr) = Len(fl)
    /\ frs \in Seq([index : Indices(es), object : Nat])
    /\ es # <<>>
    /\ frs = <<>> => ch = 1 /\ fl = <<>>
    /\ frs # <<>> =>
          /\ fl # <<>> /\ wr[1] = 1 /\ frs[1].index = 1 /\ fl[1].parent = NoIndex
          /\ ch = NoIndex \/ ch \in ChildrenOf(es, Top(frs))
          /\ \A c \in ChildrenOf(es, Top(frs)) : Written(wr, c) <=> ch = NoIndex \/ c < ch
    /\ Tells(es, fl, wr)
    /\ Stack(es, fl, frs, wr)
    /\ \A p \in Indices(es) : Written(wr, p) /\ ~Running(frs, p) =>
          \A c \in ChildrenOf(es, p) : Written(wr, c)

\* What a component keeps in the file.
LEMMA SavedParts ==
    ASSUME NEW cs \in Seq(SceneComponents)
    PROVE  Saved(cs) \in Seq([type : Types, value : Positions])
<1>1. DOMAIN cs = 1 .. Len(cs) /\ Len(cs) \in Nat /\ \A k \in DOMAIN cs : cs[k] \in SceneComponents
  OBVIOUS
<1>2. \A k \in DOMAIN cs : Saved(cs)[k] \in [type : Types, value : Positions]
  BY <1>1 DEF Saved, SceneComponents
<1>3. Saved(cs) = [k \in 1 .. Len(cs) |-> Saved(cs)[k]] /\ DOMAIN Saved(cs) = DOMAIN cs
  BY <1>1 DEF Saved
<1> QED BY <1>1, <1>2, <1>3, SeqOf

\* Reading a component back gives what was written.
LEMMA LoadedSaved ==
    ASSUME NEW cs \in Seq([type : Types, value : Positions])
    PROVE  Saved(Loaded(cs)) = cs
<1>1. DOMAIN cs = 1 .. Len(cs) /\ cs = [k \in DOMAIN cs |-> cs[k]]
  OBVIOUS
<1>2. \A k \in DOMAIN cs : cs[k] \in [type : Types, value : Positions]
  BY <1>1, ElementOfSeq
<1>3. \A k \in DOMAIN cs : [type |-> Loaded(cs)[k].type, value |-> Loaded(cs)[k].value] = cs[k]
  BY <1>2 DEF Loaded, NewSceneComponent
<1>4. DOMAIN Loaded(cs) = DOMAIN cs
  BY DEF Loaded
<1> QED BY <1>1, <1>3, <1>4 DEF Saved

\* An index after another of a sequence and one more.
LEMMA Appended ==
    ASSUME NEW S, NEW s \in Seq(S), NEW x \in S, NEW new, new = Append(s, x)
    PROVE  /\ new \in Seq(S) /\ Len(s) \in Nat /\ Len(new) = Len(s) + 1 /\ new[Len(s) + 1] = x
           /\ DOMAIN s = 1 .. Len(s) /\ DOMAIN new = 1 .. Len(s) + 1
           /\ \A k \in DOMAIN s : new[k] = s[k] /\ k \in Nat /\ k # Len(s) + 1 /\ k \in DOMAIN new
           /\ \A k \in DOMAIN new : k = Len(s) + 1 \/ k \in DOMAIN s
           /\ Len(s) + 1 \in DOMAIN new /\ new # <<>>
<1>1. Len(s) \in Nat /\ DOMAIN s = 1 .. Len(s)
  OBVIOUS
<1>2. new \in Seq(S) /\ Len(new) = Len(s) + 1 /\ new[Len(s) + 1] = x /\ \A k \in 1 .. Len(s) : new[k] = s[k]
  OBVIOUS
<1>3. DOMAIN new = 1 .. Len(s) + 1
  BY <1>1, <1>2
<1>4. new # <<>>
  BY <1>1, <1>2
<1> QED BY <1>1, <1>2, <1>3, <1>4

\* _toJson writes an entity: the child it has come to is not written yet.
LEMMA WalkDown ==
    ASSUME NEW es \in Seq(SceneEntities), TreeOK(es), NEW fl, NEW frs, NEW ch, NEW wr,
           Walk(es, fl, frs, ch, wr), ch # NoIndex,
           NEW object, object = Object(IF frs = <<>> THEN NoIndex ELSE frs[Len(frs)].object, es[ch]),
           NEW fl1, fl1 = Append(fl, object), NEW wr1, wr1 = Append(wr, ch),
           NEW frs1, frs1 = Append(frs, [index |-> ch, object |-> Len(fl) + 1])
    PROVE  Walk(es, fl1, frs1, es[ch].firstChild, wr1)
<1> DEFINE n == Len(fl) + 1
           d == Len(frs)
           frame == [index |-> ch, object |-> n]
           ch1 == es[ch].firstChild
<1>1. /\ fl \in Seq(Objects) /\ wr \in Seq(Indices(es)) /\ Len(wr) = Len(fl) /\ Len(fl) \in Nat
      /\ frs \in Seq([index : Indices(es), object : Nat]) /\ d \in Nat /\ DOMAIN frs = 1 .. d
      /\ es # <<>> /\ Len(es) \in Nat /\ Len(es) >= 1
      /\ DOMAIN fl = 1 .. Len(fl) /\ DOMAIN wr = DOMAIN fl
  <2>1. /\ fl \in Seq(Objects) /\ wr \in Seq(Indices(es)) /\ Len(wr) = Len(fl)
        /\ frs \in Seq([index : Indices(es), object : Nat]) /\ es # <<>>
    BY DEF Walk
  <2>2. Len(fl) \in Nat /\ d \in Nat /\ Len(es) \in Nat /\ Len(es) >= 1
    BY <2>1
  <2> QED BY <2>1, <2>2
<1>2. /\ Tells(es, fl, wr) /\ Stack(es, fl, frs, wr)
      /\ \A p \in Indices(es) : Written(wr, p) /\ ~Running(frs, p) =>
            \A c \in ChildrenOf(es, p) : Written(wr, c)
  BY DEF Walk
<1>3. /\ \A i \in Indices(es) : i \in Nat /\ i # NoIndex /\ es[i].parent \in 0 .. i - 1
      /\ \A q : \A c \in ChildrenOf(es, q) : c \in Indices(es) /\ es[c].parent = q /\ q < c /\ q \in Nat
  <2>1. \A i \in Indices(es) : i \in Nat /\ i # NoIndex
    BY DEF Indices, NoIndex
  <2>2. \A i \in Indices(es) : es[i].parent \in 0 .. i - 1
    BY DEF TreeOK
  <2>3. \A c \in Indices(es) : es[c].parent < c /\ es[c].parent \in Nat
    BY <2>1, <2>2
  <2> QED BY <2>1, <2>2, <2>3 DEF ChildrenOf
<1>0. \A k \in DOMAIN frs : frs[k].index \in Indices(es) /\ frs[k].object \in Nat
  <2> SUFFICES ASSUME NEW k \in DOMAIN frs PROVE frs[k].index \in Indices(es) /\ frs[k].object \in Nat
    OBVIOUS
  <2>1. frs[k] \in [index : Indices(es), object : Nat]
    BY <1>1, ElementOfSeq
  <2> QED BY <2>1
<1>4. frs = <<>> => ch = 1 /\ fl = <<>> /\ wr = <<>> /\ d = 0 /\ n = 1
  BY <1>1 DEF Walk
<1>5. frs # <<>> =>
        /\ d \in DOMAIN frs /\ d >= 1 /\ n # 1 /\ 1 \in DOMAIN fl /\ 1 \in DOMAIN frs
        /\ wr[1] = 1 /\ frs[1].index = 1 /\ fl[1].parent = NoIndex
        /\ ch \in ChildrenOf(es, frs[d].index) /\ es[ch].parent = frs[d].index /\ frs[d].index < ch
        /\ \A c \in ChildrenOf(es, frs[d].index) : Written(wr, c) <=> c < ch
        /\ frs[d].object \in DOMAIN fl /\ wr[frs[d].object] = frs[d].index
  <2> SUFFICES ASSUME frs # <<>>
               PROVE  /\ d \in DOMAIN frs /\ d >= 1 /\ n # 1 /\ 1 \in DOMAIN fl /\ 1 \in DOMAIN frs
                      /\ wr[1] = 1 /\ frs[1].index = 1 /\ fl[1].parent = NoIndex
                      /\ ch \in ChildrenOf(es, frs[d].index) /\ es[ch].parent = frs[d].index /\ frs[d].index < ch
                      /\ \A c \in ChildrenOf(es, frs[d].index) : Written(wr, c) <=> c < ch
                      /\ frs[d].object \in DOMAIN fl /\ wr[frs[d].object] = frs[d].index
    OBVIOUS
  <2>1. /\ fl # <<>> /\ wr[1] = 1 /\ frs[1].index = 1 /\ fl[1].parent = NoIndex
        /\ ch \in ChildrenOf(es, frs[d].index)
        /\ \A c \in ChildrenOf(es, frs[d].index) : Written(wr, c) <=> c < ch
    BY DEF Walk, Top
  <2>2. d >= 1 /\ Len(fl) >= 1
    BY <1>1, <2>1
  <2>3. d \in DOMAIN frs /\ 1 \in DOMAIN frs /\ 1 \in DOMAIN fl /\ n # 1
    BY <1>1, <2>2
  <2>4. frs[d].object \in DOMAIN fl /\ wr[frs[d].object] = frs[d].index
    BY <1>2, <2>3 DEF Stack
  <2>5. es[ch].parent = frs[d].index /\ frs[d].index < ch
    BY <1>3, <2>1
  <2> QED BY <2>1, <2>2, <2>3, <2>4, <2>5
<1>6. ch \in Indices(es) /\ ch \in Nat /\ es[ch] \in SceneEntities
  <2>1. ch \in Indices(es)
    <3>1. 1 \in Indices(es)
      BY <1>1 DEF Indices
    <3> QED BY <1>3, <1>4, <1>5, <3>1
  <2> QED BY <1>3, <2>1, EntityAt
<1>7. ~Written(wr, ch)
  <2>1. CASE frs = <<>>
    BY <1>4, <2>1 DEF Written
  <2>2. CASE frs # <<>>
    BY <1>5, <1>6, <2>2
  <2> QED BY <2>1, <2>2
<1>8. /\ object \in Objects /\ object.components = Saved(es[ch].components)
      /\ frs = <<>> => object.parent = NoIndex
      /\ frs # <<>> => object.parent = frs[d].object
  <2>1. Saved(es[ch].components) \in Seq([type : Types, value : Positions])
    BY <1>6, EntityAt, SavedParts
  <2>2. frs # <<>> => frs[d].object \in Nat
    BY <1>1, <1>5
  <2> QED BY <2>1, <2>2 DEF Object, Objects, NoIndex
<1>9. /\ fl1 \in Seq(Objects) /\ Len(fl1) = n /\ fl1[n] = object /\ DOMAIN fl1 = 1 .. n
      /\ \A k \in DOMAIN fl : fl1[k] = fl[k] /\ k # n /\ k \in DOMAIN fl1 /\ k \in Nat
      /\ \A k \in DOMAIN fl1 : k = n \/ k \in DOMAIN fl
      /\ n \in DOMAIN fl1 /\ fl1 # <<>>
  <2>1. fl \in Seq(Objects) /\ object \in Objects
    BY <1>1, <1>8
  <2> QED BY <2>1, Appended
<1>10. /\ wr1 \in Seq(Indices(es)) /\ Len(wr1) = n /\ wr1[n] = ch /\ DOMAIN wr1 = DOMAIN fl1
       /\ \A k \in DOMAIN fl : wr1[k] = wr[k]
  BY <1>1, <1>6, <1>9, Appended
<1>11. /\ frs1 \in Seq([index : Indices(es), object : Nat]) /\ Len(frs1) = d + 1
       /\ frs1[d + 1].index = ch /\ frs1[d + 1].object = n /\ DOMAIN frs1 = 1 .. d + 1
       /\ \A k \in DOMAIN frs : frs1[k] = frs[k] /\ k \in Nat /\ k # d + 1 /\ k \in DOMAIN frs1
       /\ \A k \in DOMAIN frs1 : k = d + 1 \/ k \in DOMAIN frs
       /\ frs1 # <<>>
  <2>1. frame \in [index : Indices(es), object : Nat] /\ frame.index = ch /\ frame.object = n
    BY <1>1, <1>6
  <2> HIDE DEF frame
  <2>2. frs1 = Append(frs, frame)
    BY DEF frame
  <2>3. /\ frs1 \in Seq([index : Indices(es), object : Nat]) /\ Len(frs1) = d + 1
        /\ frs1[d + 1] = frame /\ DOMAIN frs1 = 1 .. d + 1
        /\ \A k \in DOMAIN frs : frs1[k] = frs[k] /\ k \in Nat /\ k # d + 1 /\ k \in DOMAIN frs1
        /\ \A k \in DOMAIN frs1 : k = d + 1 \/ k \in DOMAIN frs
        /\ frs1 # <<>>
    BY <1>1, <2>1, <2>2, Appended
  <2> QED BY <2>1, <2>3
<1>12. \A c : Written(wr1, c) <=> Written(wr, c) \/ c = ch
  BY <1>1, <1>9, <1>10 DEF Written
<1>13. \A c : Running(frs1, c) <=> Running(frs, c) \/ c = ch
  <2>1. d + 1 \in DOMAIN frs1
    BY <1>1, <1>11
  <2> QED BY <1>11, <2>1 DEF Running
<1> HIDE DEF frame, n, d
<1>14. Tells(es, fl1, wr1)
  <2> SUFFICES ASSUME NEW k \in DOMAIN fl1
               PROVE  /\ fl1[k].components = Saved(es[wr1[k]].components)
                      /\ k # 1 => fl1[k].parent \in 1 .. k - 1 /\ es[wr1[k]].parent = wr1[fl1[k].parent]
                      /\ \A m \in 1 .. k - 1 :
                            wr1[m] # wr1[k] /\ (fl1[m].parent = fl1[k].parent => wr1[m] < wr1[k])
    BY DEF Tells
  <2>1. CASE k \in DOMAIN fl
    <3>1. \A m \in 1 .. k - 1 : m \in DOMAIN fl
      BY <1>1, <2>1
    <3>2. /\ fl[k].components = Saved(es[wr[k]].components)
          /\ k # 1 => fl[k].parent \in 1 .. k - 1 /\ es[wr[k]].parent = wr[fl[k].parent]
          /\ \A m \in 1 .. k - 1 :
                wr[m] # wr[k] /\ (fl[m].parent = fl[k].parent => wr[m] < wr[k])
      BY <1>2, <2>1 DEF Tells
    <3> QED BY <1>9, <1>10, <2>1, <3>1, <3>2
  <2>2. CASE k = n
    <3>1. \A m \in 1 .. n - 1 : m \in DOMAIN fl
      BY <1>1 DEF n
    <3>2. n # 1 => frs # <<>>
      BY <1>4
    <3>3. n # 1 => fl1[n].parent \in 1 .. n - 1 /\ es[wr1[n]].parent = wr1[fl1[n].parent]
      <4> SUFFICES ASSUME n # 1
                   PROVE  fl1[n].parent \in 1 .. n - 1 /\ es[wr1[n]].parent = wr1[fl1[n].parent]
        OBVIOUS
      <4>1. fl1[n].parent = frs[d].object /\ frs[d].object \in DOMAIN fl
        BY <1>5, <1>8, <1>9, <3>2
      <4>2. wr1[fl1[n].parent] = frs[d].index /\ es[wr1[n]].parent = frs[d].index
        BY <1>5, <1>10, <3>2, <4>1
      <4>3. DOMAIN fl = 1 .. n - 1
        BY <1>1 DEF n
      <4> QED BY <4>1, <4>2, <4>3
    <3>4. ASSUME NEW m \in 1 .. n - 1
          PROVE  wr1[m] # ch /\ (fl1[m].parent = object.parent => wr1[m] < ch)
      <4>0. m \in DOMAIN fl /\ frs # <<>>
        BY <1>4, <1>1, <3>1, <3>4 DEF n
      <4>1. wr1[m] = wr[m] /\ fl1[m] = fl[m] /\ Written(wr, wr[m])
        BY <1>1, <1>9, <1>10, <4>0 DEF Written
      <4>2. wr[m] # ch
        BY <1>7, <4>1
      <4>3. ASSUME fl[m].parent = frs[d].object PROVE wr[m] < ch
        <5>1. m # 1
          BY <1>1, <1>5, <4>0, <4>3 DEF NoIndex
        <5>2. es[wr[m]].parent = frs[d].index
          BY <1>2, <1>5, <4>0, <4>3, <5>1 DEF Tells
        <5>3. wr[m] \in ChildrenOf(es, frs[d].index)
          <6>1. wr[m] \in Indices(es)
            BY <1>1, <4>0
          <6> QED BY <5>2, <6>1 DEF ChildrenOf
        <5> QED BY <1>5, <4>0, <4>1, <5>3
      <4> QED BY <1>8, <4>0, <4>1, <4>2, <4>3
    <3> QED BY <1>8, <1>9, <1>10, <2>2, <3>3, <3>4
  <2> QED BY <1>9, <2>1, <2>2
<1>15. Stack(es, fl1, frs1, wr1)
  <2> SUFFICES ASSUME NEW k \in DOMAIN frs1
               PROVE  /\ frs1[k].object \in DOMAIN fl1 /\ wr1[frs1[k].object] = frs1[k].index
                      /\ k # 1 => es[frs1[k].index].parent = frs1[k - 1].index
                      /\ \A j \in 1 .. k - 1 : frs1[j].index < frs1[k].index
                      /\ k # Len(frs1) => \A c \in ChildrenOf(es, frs1[k].index) :
                                              Written(wr1, c) <=> c <= frs1[k + 1].index
    BY DEF Stack
  <2>1. CASE k \in DOMAIN frs
    <3>0. /\ \A j \in 1 .. k - 1 : j \in DOMAIN frs
          /\ k # 1 => k - 1 \in DOMAIN frs
          /\ k # d => k + 1 \in DOMAIN frs
          /\ frs # <<>> /\ k \in Nat /\ k <= d
      BY <1>1, <2>1
    <3>1. /\ frs[k].object \in DOMAIN fl /\ wr[frs[k].object] = frs[k].index
          /\ k # 1 => es[frs[k].index].parent = frs[k - 1].index
          /\ \A j \in 1 .. k - 1 : frs[j].index < frs[k].index
          /\ k # d => \A c \in ChildrenOf(es, frs[k].index) : Written(wr, c) <=> c <= frs[k + 1].index
      BY <1>2, <2>1 DEF Stack, d
    <3>2. CASE k = d
      <4>1. \A c \in ChildrenOf(es, frs[d].index) : Written(wr1, c) <=> c <= ch
        <5>1. \A c \in ChildrenOf(es, frs[d].index) : c \in Nat
          BY <1>3
        <5>2. \A c \in ChildrenOf(es, frs[d].index) : Written(wr, c) <=> c < ch
          BY <1>5, <3>0
        <5> QED BY <1>6, <1>12, <5>1, <5>2
      <4>2. frs1[k + 1].index = ch /\ frs1[k] = frs[k] /\ frs1[k].index = frs[d].index
        BY <1>11, <2>1, <3>2
      <4>3. frs1[k].object \in DOMAIN fl1 /\ wr1[frs1[k].object] = frs1[k].index
        BY <1>9, <1>10, <3>1, <4>2
      <4>4. /\ k # 1 => frs1[k - 1] = frs[k - 1]
            /\ \A j \in 1 .. k - 1 : frs1[j] = frs[j]
        BY <1>11, <3>0
      <4> QED BY <3>1, <4>1, <4>2, <4>3, <4>4
    <3>3. CASE k # d
      <4>1. frs[k].index < frs[d].index
        <5>1. k \in 1 .. d - 1
          BY <1>1, <3>0, <3>3, <2>1
        <5> QED BY <1>2, <1>5, <3>0, <5>1 DEF Stack
      <4>2. frs[k].index \in Nat /\ frs[d].index \in Nat /\ frs[k].index # frs[d].index
        <5>1. frs[k].index \in Indices(es) /\ frs[d].index \in Indices(es)
          BY <1>0, <1>5, <2>1, <3>0
        <5> QED BY <1>3, <4>1, <5>1
      <4>3. \A c \in ChildrenOf(es, frs[k].index) : c # ch
        BY <1>3, <1>5, <3>0, <4>2
      <4>4. \A c \in ChildrenOf(es, frs[k].index) : Written(wr1, c) <=> c <= frs[k + 1].index
        BY <1>12, <3>1, <3>3, <4>3
      <4>5. frs1[k + 1] = frs[k + 1] /\ frs1[k] = frs[k]
        BY <1>11, <2>1, <3>0, <3>3
      <4>6. frs1[k].object \in DOMAIN fl1 /\ wr1[frs1[k].object] = frs1[k].index
        BY <1>9, <1>10, <3>1, <4>5
      <4>7. /\ k # 1 => frs1[k - 1] = frs[k - 1]
            /\ \A j \in 1 .. k - 1 : frs1[j] = frs[j]
        BY <1>11, <3>0
      <4> QED BY <3>1, <4>4, <4>5, <4>6, <4>7
    <3> QED BY <3>2, <3>3
  <2>2. CASE k = d + 1
    <3>1. frs1[k].object = n /\ frs1[k].index = ch /\ k = Len(frs1) /\ k - 1 = d
      BY <1>1, <1>11, <2>2
    <3>2. k # 1 => frs # <<>> /\ d \in DOMAIN frs
      BY <1>1, <2>2, <1>5 DEF d
    <3>3. \A j \in 1 .. d : frs1[j].index < ch
      <4> SUFFICES ASSUME NEW j \in 1 .. d PROVE frs1[j].index < ch
        OBVIOUS
      <4>1. j \in DOMAIN frs /\ frs # <<>> /\ d \in DOMAIN frs
        BY <1>1, <1>5
      <4>2. frs1[j] = frs[j] /\ frs[j].index \in Nat /\ frs[d].index \in Nat
        <5>1. frs[j].index \in Indices(es) /\ frs[d].index \in Indices(es)
          BY <1>0, <4>1
        <5> QED BY <1>3, <1>11, <4>1, <5>1
      <4>3. j = d \/ frs[j].index < frs[d].index
        <5>1. j = d \/ j \in 1 .. d - 1
          BY <1>1
        <5> QED BY <1>2, <4>1, <5>1 DEF Stack
      <4> QED BY <1>5, <1>6, <4>1, <4>2, <4>3
    <3>4. k # 1 => es[ch].parent = frs1[d].index
      BY <1>5, <1>11, <3>2
    <3>5. n \in DOMAIN fl1 /\ wr1[n] = ch
      BY <1>9, <1>10
    <3> QED BY <3>1, <3>3, <3>4, <3>5
  <2> QED BY <1>11, <2>1, <2>2
<1>16. /\ ch1 = NoIndex \/ ch1 \in ChildrenOf(es, ch)
       /\ \A c \in ChildrenOf(es, ch) : Written(wr1, c) <=> ch1 = NoIndex \/ c < ch1
  <2>1. IsLeast(ch1, ChildrenOf(es, ch))
    BY <1>6 DEF TreeOK
  <2>2. ASSUME NEW c \in ChildrenOf(es, ch) PROVE ~Written(wr1, c)
    <3>0. c \in Indices(es) /\ es[c].parent = ch /\ ch < c /\ c \in Nat
      BY <1>3
    <3>1. c # ch
      BY <1>6, <3>0
    <3>2. ASSUME NEW m \in DOMAIN wr, wr[m] = c PROVE FALSE
      <4>1. frs # <<>> /\ m \in DOMAIN fl
        BY <1>1, <1>4
      <4>2. m # 1
        <5>1. ASSUME m = 1 PROVE FALSE
          <6>1. c = 1
            BY <1>5, <3>2, <4>1, <5>1
          <6> QED BY <1>3, <1>6, <3>0, <6>1 DEF NoIndex
        <5> QED BY <5>1
      <4>3. fl[m].parent \in 1 .. m - 1 /\ wr[fl[m].parent] = ch
        BY <1>2, <3>0, <3>2, <4>1, <4>2 DEF Tells
      <4>4. fl[m].parent \in DOMAIN wr
        BY <1>1, <4>1, <4>3
      <4> QED BY <1>7, <4>3, <4>4 DEF Written
    <3> QED BY <1>12, <3>1, <3>2 DEF Written
  <2>3. CASE ChildrenOf(es, ch) = {}
    BY <2>1, <2>3 DEF IsLeast
  <2>4. CASE ChildrenOf(es, ch) # {}
    <3>1. ch1 \in ChildrenOf(es, ch) /\ \A c \in ChildrenOf(es, ch) : ch1 <= c
      BY <2>1, <2>4 DEF IsLeast
    <3>2. \A c \in ChildrenOf(es, ch) : c \in Nat /\ c # NoIndex
      BY <1>3
    <3>3. \A c \in ChildrenOf(es, ch) : ~(c < ch1)
      BY <3>1, <3>2
    <3> QED BY <2>2, <3>1, <3>2, <3>3
  <2> QED BY <2>3, <2>4
<1>17. Top(frs1) = ch
  BY <1>11 DEF Top
<1>18. wr1[1] = 1 /\ frs1[1].index = 1 /\ fl1[1].parent = NoIndex
  <2>1. CASE frs = <<>>
    BY <1>4, <1>8, <1>9, <1>10, <1>11, <2>1
  <2>2. CASE frs # <<>>
    BY <1>5, <1>9, <1>10, <1>11, <2>2
  <2> QED BY <2>1, <2>2
<1>19. \A p \in Indices(es) : Written(wr1, p) /\ ~Running(frs1, p) =>
            \A c \in ChildrenOf(es, p) : Written(wr1, c)
  BY <1>2, <1>12, <1>13
<1> HIDE DEF ch1
<1>20. Walk(es, fl1, frs1, ch1, wr1)
  <2>1. Len(wr1) = Len(fl1)
    BY <1>9, <1>10
  <2> QED BY <1>1, <1>9, <1>10, <1>11, <1>14, <1>15, <1>16, <1>17, <1>18, <1>19, <2>1 DEF Walk
<1> QED BY <1>20 DEF ch1

\* A sequence without its last element, as SubSeq makes it.
LEMMA Popped ==
    ASSUME NEW S, NEW s \in Seq(S), s # <<>>
    PROVE  LET new == SubSeq(s, 1, Len(s) - 1)
           IN /\ Len(s) \in Nat \ {0} /\ DOMAIN s = 1 .. Len(s)
              /\ new \in Seq(S) /\ Len(new) = Len(s) - 1 /\ DOMAIN new = 1 .. Len(s) - 1
              /\ \A k \in DOMAIN new : new[k] = s[k] /\ k \in DOMAIN s /\ k # Len(s) /\ k \in Nat
              /\ \A k \in DOMAIN s : k = Len(s) \/ k \in DOMAIN new
<1> DEFINE new == SubSeq(s, 1, Len(s) - 1)
<1>1. Len(s) \in Nat \ {0} /\ DOMAIN s = 1 .. Len(s)
  OBVIOUS
<1>2. new = ButLast(s)
  BY DEF ButLast
<1> HIDE DEF new
<1>3. new \in Seq(S) /\ Len(new) = Len(s) - 1
  <2>1. ButLast(s) \in Seq(S) /\ Len(ButLast(s)) = Len(s) - 1
    BY ButLastKeeps
  <2> QED BY <1>2, <2>1
<1>4. DOMAIN new = 1 .. Len(s) - 1
  BY <1>1, <1>3
<1>5. \A k \in 1 .. Len(s) - 1 : new[k] = s[k]
  BY <1>2, <1>3, <1>1, ButLastKeeps
<1> QED BY <1>1, <1>3, <1>4, <1>5 DEF new

\* _toJson returns to the loop over the children of another entity.
LEMMA WalkUp ==
    ASSUME NEW es \in Seq(SceneEntities), TreeOK(es), NEW fl, NEW frs, NEW wr,
           Walk(es, fl, frs, NoIndex, wr), Len(frs) # 1,
           NEW frs1, frs1 = SubSeq(frs, 1, Len(frs) - 1)
    PROVE  Walk(es, fl, frs1, es[Top(frs)].nextSibling, wr)
<1> DEFINE d == Len(frs)
           t == frs[d].index
           q == frs[d - 1].index
           ch1 == es[t].nextSibling
<1>1. /\ fl \in Seq(Objects) /\ wr \in Seq(Indices(es)) /\ Len(wr) = Len(fl)
      /\ frs \in Seq([index : Indices(es), object : Nat]) /\ es # <<>> /\ frs # <<>>
      /\ fl # <<>> /\ wr[1] = 1 /\ frs[1].index = 1 /\ fl[1].parent = NoIndex
      /\ \A c \in ChildrenOf(es, t) : Written(wr, c)
      /\ Tells(es, fl, wr) /\ Stack(es, fl, frs, wr)
      /\ \A p \in Indices(es) : Written(wr, p) /\ ~Running(frs, p) =>
            \A c \in ChildrenOf(es, p) : Written(wr, c)
  BY DEF Walk, Top, NoIndex
<1>2. /\ d \in Nat \ {0} /\ DOMAIN frs = 1 .. d
      /\ frs1 \in Seq([index : Indices(es), object : Nat]) /\ Len(frs1) = d - 1
      /\ DOMAIN frs1 = 1 .. d - 1
      /\ \A k \in DOMAIN frs1 : frs1[k] = frs[k] /\ k \in DOMAIN frs /\ k # d /\ k \in Nat
      /\ \A k \in DOMAIN frs : k = d \/ k \in DOMAIN frs1
  <2> DEFINE S == [index : Indices(es), object : Nat]
  <2>1. frs \in Seq(S) /\ frs # <<>>
    BY <1>1
  <2> HIDE DEF S
  <2>2. /\ d \in Nat \ {0} /\ DOMAIN frs = 1 .. d
        /\ frs1 \in Seq(S) /\ Len(frs1) = d - 1
        /\ DOMAIN frs1 = 1 .. d - 1
        /\ \A k \in DOMAIN frs1 : frs1[k] = frs[k] /\ k \in DOMAIN frs /\ k # d /\ k \in Nat
        /\ \A k \in DOMAIN frs : k = d \/ k \in DOMAIN frs1
    BY <2>1, Popped
  <2> QED BY <2>2 DEF S
<1>3. /\ d > 1 /\ d \in DOMAIN frs /\ d - 1 \in DOMAIN frs /\ d - 1 \in DOMAIN frs1 /\ d # 1
      /\ 1 \in DOMAIN frs1 /\ frs1 # <<>> /\ frs1[1] = frs[1] /\ frs1[d - 1] = frs[d - 1]
  <2>1. d > 1 /\ d \in 1 .. d /\ d - 1 \in 1 .. d /\ d - 1 \in 1 .. d - 1 /\ d # 1 /\ 1 \in 1 .. d - 1
    BY <1>2
  <2>2. frs1 # <<>>
    BY <1>2, <2>1
  <2> QED BY <1>2, <2>1, <2>2
<1>4. t \in Indices(es) /\ q \in Indices(es)
  <2>1. frs[d] \in [index : Indices(es), object : Nat] /\ frs[d - 1] \in [index : Indices(es), object : Nat]
    BY <1>1, <1>2, <1>3, ElementOfSeq
  <2> QED BY <2>1
<1>5. es[t].parent = q /\ \A c \in ChildrenOf(es, q) : Written(wr, c) <=> c <= t
  <2>1. es[frs[d].index].parent = frs[d - 1].index
    BY <1>1, <1>3 DEF Stack
  <2>2. d - 1 # Len(frs) /\ (d - 1) + 1 = d
    <3>1. \A x \in Nat : x - 1 # x /\ (x - 1) + 1 = x
      OBVIOUS
    <3>2. Len(frs) \in Nat
      BY <1>2
    <3> QED BY <3>1, <3>2
  <2>3. \A c \in ChildrenOf(es, frs[d - 1].index) : Written(wr, c) <=> c <= frs[(d - 1) + 1].index
    BY <1>1, <1>3, <2>2 DEF Stack
  <2> QED BY <2>1, <2>2, <2>3
<1> HIDE DEF d
<1>6. Stack(es, fl, frs1, wr)
  <2> SUFFICES ASSUME NEW k \in DOMAIN frs1
               PROVE  /\ frs1[k].object \in DOMAIN fl /\ wr[frs1[k].object] = frs1[k].index
                      /\ k # 1 => es[frs1[k].index].parent = frs1[k - 1].index
                      /\ \A j \in 1 .. k - 1 : frs1[j].index < frs1[k].index
                      /\ k # Len(frs1) => \A c \in ChildrenOf(es, frs1[k].index) :
                                              Written(wr, c) <=> c <= frs1[k + 1].index
    BY DEF Stack
  <2>1. /\ frs[k].object \in DOMAIN fl /\ wr[frs[k].object] = frs[k].index
        /\ k # 1 => es[frs[k].index].parent = frs[k - 1].index
        /\ \A j \in 1 .. k - 1 : frs[j].index < frs[k].index
        /\ k # d => \A c \in ChildrenOf(es, frs[k].index) : Written(wr, c) <=> c <= frs[k + 1].index
    BY <1>1, <1>2 DEF Stack, d
  <2>2. /\ k # d /\ frs1[k] = frs[k]
        /\ k # 1 => frs1[k - 1] = frs[k - 1]
        /\ \A j \in 1 .. k - 1 : frs1[j] = frs[j]
        /\ k # Len(frs1) => frs1[k + 1] = frs[k + 1]
    <3>1. k \in 1 .. d - 1
      BY <1>2
    <3>2. /\ k # 1 => k - 1 \in 1 .. d - 1
          /\ \A j \in 1 .. k - 1 : j \in 1 .. d - 1
          /\ k # d - 1 => k + 1 \in 1 .. d - 1
      BY <1>2, <3>1
    <3> QED BY <1>2, <3>1, <3>2
  <2> QED BY <2>1, <2>2
<1>7. /\ ch1 = NoIndex \/ ch1 \in ChildrenOf(es, q)
      /\ \A c \in ChildrenOf(es, q) : Written(wr, c) <=> ch1 = NoIndex \/ c < ch1
  <2> DEFINE later == {c \in ChildrenOf(es, q) : t < c /\ q # NoIndex}
  <2>1. IsLeast(ch1, later)
    <3>1. IsLeast(es[t].nextSibling, {c \in ChildrenOf(es, es[t].parent) : t < c /\ es[t].parent # NoIndex})
      BY <1>4 DEF TreeOK
    <3> QED BY <1>5, <3>1
  <2>2. /\ \A c \in ChildrenOf(es, q) : c \in Nat /\ c # NoIndex
        /\ t \in Nat /\ q # NoIndex
    BY <1>4 DEF ChildrenOf, Indices, NoIndex
  <2>3. CASE later = {}
    <3>1. ch1 = NoIndex
      BY <2>1, <2>3 DEF IsLeast
    <3>2. \A c \in ChildrenOf(es, q) : c <= t
      BY <2>2, <2>3
    <3> QED BY <1>5, <3>1, <3>2
  <2>4. CASE later # {}
    <3>1. ch1 \in later /\ \A c \in later : ch1 <= c
      BY <2>1, <2>4 DEF IsLeast
    <3>2. ch1 \in ChildrenOf(es, q) /\ t < ch1 /\ ch1 # NoIndex /\ ch1 \in Nat
      BY <2>2, <3>1
    <3>3. ASSUME NEW c \in ChildrenOf(es, q) PROVE c <= t <=> c < ch1
      <4>1. c \in Nat
        BY <2>2
      <4>2. t < c => ch1 <= c
        BY <2>2, <3>1
      <4> HIDE DEF later, ch1, t, q
      <4> QED BY <2>2, <3>2, <4>1, <4>2
    <3> QED BY <1>5, <3>2, <3>3
  <2> QED BY <2>3, <2>4
<1>8. \A p \in Indices(es) : Written(wr, p) /\ ~Running(frs1, p) =>
            \A c \in ChildrenOf(es, p) : Written(wr, c)
  <2>1. \A p : Running(frs, p) => Running(frs1, p) \/ p = t
    BY <1>2 DEF Running
  <2> QED BY <1>1, <2>1
<1>9. Top(frs1) = q /\ Top(frs) = t
  BY <1>2, <1>3 DEF Top, d
<1> HIDE DEF ch1, t, q
<1>10. Walk(es, fl, frs1, ch1, wr)
  BY <1>1, <1>2, <1>3, <1>6, <1>7, <1>8, <1>9 DEF Walk
<1> QED BY <1>9, <1>10 DEF ch1

FileOK(fl) ==
    /\ fl \in Seq(Objects) /\ fl # <<>> /\ fl[1].parent = NoIndex
    /\ \A n \in DOMAIN fl : n # 1 => fl[n].parent \in 1 .. n - 1

\* It returns to _save: the file is the tree of the first entity.
LEMMA WalkDone ==
    ASSUME NEW es \in Seq(SceneEntities), NEW fl, NEW frs, NEW wr, Walk(es, fl, frs, NoIndex, wr), Len(frs) = 1
    PROVE  FileOK(fl) /\ wr \in [DOMAIN fl -> Indices(es)] /\ DepictsAs(fl, es, wr)
<1>1. /\ fl \in Seq(Objects) /\ wr \in Seq(Indices(es)) /\ Len(wr) = Len(fl)
      /\ frs \in Seq([index : Indices(es), object : Nat]) /\ frs # <<>>
      /\ fl # <<>> /\ wr[1] = 1 /\ frs[1].index = 1 /\ fl[1].parent = NoIndex
      /\ \A c \in ChildrenOf(es, frs[1].index) : Written(wr, c)
      /\ Tells(es, fl, wr)
      /\ \A p \in Indices(es) : Written(wr, p) /\ ~Running(frs, p) =>
            \A c \in ChildrenOf(es, p) : Written(wr, c)
  BY DEF Walk, Top, NoIndex
<1>2. DOMAIN frs = {1} /\ DOMAIN wr = DOMAIN fl /\ DOMAIN fl = 1 .. Len(fl) /\ Len(fl) \in Nat
  <2>1. DOMAIN frs = 1 .. 1
    BY <1>1
  <2>2. DOMAIN wr = 1 .. Len(fl) /\ DOMAIN fl = 1 .. Len(fl) /\ Len(fl) \in Nat
    BY <1>1
  <2> QED BY <2>1, <2>2
<1>3. wr \in [DOMAIN fl -> Indices(es)]
  BY <1>1, <1>2
<1>4. FileOK(fl)
  BY <1>1 DEF FileOK, Tells
<1>5. ASSUME NEW n \in DOMAIN fl, NEW c \in ChildrenOf(es, wr[n]) PROVE \E m \in DOMAIN fl : wr[m] = c
  <2>1. Written(wr, wr[n]) /\ wr[n] \in Indices(es)
    BY <1>2, <1>3 DEF Written
  <2>2. Running(frs, wr[n]) => wr[n] = frs[1].index
    BY <1>2 DEF Running
  <2>3. Written(wr, c)
    BY <1>1, <1>5, <2>1, <2>2
  <2> QED BY <1>2, <2>3 DEF Written
<1>6. DepictsAs(fl, es, wr)
  BY <1>1, <1>5 DEF DepictsAs, Tells
<1> QED BY <1>3, <1>4, <1>6

\* While a document is opened, its entities are the first objects of the file.
Reading ==
    /\ FileOK(file) /\ Len(ents) <= Len(file)
    /\ \A i \in Indices(ents) :
          ents[i].parent = file[i].parent /\ ents[i].components = Loaded(file[i].components)

SaveInv ==
    /\ stage \notin {"save", "reopen", "open"} => file = <<>>
    /\ stage \in {"save", "reopen", "open"} => ~strayed
    /\ stage # "save" => child = NoIndex /\ frames = <<>>
    /\ stage \notin {"save", "reopen"} => wrote = <<>>
    /\ stage = "save" => Walk(ents, file, frames, child, wrote)
    /\ stage = "reopen" =>
          FileOK(file) /\ wrote \in [DOMAIN file -> Indices(ents)] /\ DepictsAs(file, ents, wrote)
    /\ stage = "open" => Reading

Settled == stage = "ui" => Unsynced = {}

SceneInv == DocInv /\ PreviewInv /\ SaveInv /\ Settled

\* At the end of the reading the document is the tree of the file.
LEMMA ReadAll ==
    ASSUME DocInv, Reading, Len(ents) = Len(file)
    PROVE  Depicts(file, ents)
<1> DEFINE of == [n \in DOMAIN file |-> n]
<1>1. /\ file \in Seq(Objects) /\ file # <<>> /\ file[1].parent = NoIndex
      /\ \A n \in DOMAIN file : n # 1 => file[n].parent \in 1 .. n - 1
      /\ DOMAIN file = 1 .. Len(file) /\ Len(file) \in Nat
      /\ Indices(ents) = DOMAIN file /\ 1 \in DOMAIN file
  <2>1. file \in Seq(Objects) /\ file # <<>>
    BY DEF Reading, FileOK
  <2>2. DOMAIN file = 1 .. Len(file) /\ Len(file) \in Nat /\ 1 \in DOMAIN file
    BY <2>1
  <2> QED BY <2>1, <2>2 DEF Reading, FileOK, Indices
<1>2. \A n \in DOMAIN file : of[n] = n
  OBVIOUS
<1>3. of \in [DOMAIN file -> Indices(ents)]
  BY <1>1
<1> HIDE DEF of
<1>4. ASSUME NEW n \in DOMAIN file
      PROVE  /\ file[n].components = Saved(ents[n].components)
             /\ n # 1 => file[n].parent \in 1 .. n - 1 /\ ents[n].parent = file[n].parent
             /\ \A m \in 1 .. n - 1 : m \in DOMAIN file /\ m # n /\ m < n
             /\ \A c \in ChildrenOf(ents, n) : c \in DOMAIN file
             /\ n # 1 => file[n].parent \in DOMAIN file
  <2>1. file[n] \in Objects
    BY <1>1, ElementOfSeq
  <2>2. file[n].components \in Seq([type : Types, value : Positions])
    BY <2>1 DEF Objects
  <2>3. file[n].components = Saved(ents[n].components)
    BY <1>1, <2>2, LoadedSaved DEF Reading
  <2>4. \A m \in 1 .. n - 1 : m \in DOMAIN file /\ m # n /\ m < n
    BY <1>1
  <2>5. ents[n].parent = file[n].parent
    BY <1>1 DEF Reading
  <2>6. \A c \in ChildrenOf(ents, n) : c \in DOMAIN file
    BY <1>1 DEF ChildrenOf
  <2> QED BY <1>1, <2>3, <2>4, <2>5, <2>6
<1>5. DepictsAs(file, ents, of)
  <2> SUFFICES ASSUME NEW n \in DOMAIN file
               PROVE  /\ file[n].components = Saved(ents[of[n]].components)
                      /\ n # 1 => file[n].parent \in 1 .. n - 1 /\ ents[of[n]].parent = of[file[n].parent]
                      /\ \A m \in 1 .. n - 1 :
                            of[m] # of[n] /\ (file[m].parent = file[n].parent => of[m] < of[n])
                      /\ \A c \in ChildrenOf(ents, of[n]) : \E m \in DOMAIN file : of[m] = c
    BY <1>1, <1>2 DEF DepictsAs
  <2> QED BY <1>2, <1>4
<1> QED BY <1>3, <1>5 DEF Depicts

\* Steps that leave the document, its preview and its file alone.
LEMMA SceneQuiet ==
    ASSUME SceneInv, UNCHANGED <<docVars, previewVars, saveVars>>,
           stage \in {"ui", "load"}, stage' \in {"ui", "load", "sync"}, stage' = "ui" => stage = "ui"
    PROVE  SceneInv'
<1>0. UNCHANGED <<ents, nextScene, strayed, twice, pNextId, pStorage, file, frames, child, wrote>>
  BY DEF docVars, previewVars, saveVars
<1>1. DocInv' /\ PreviewInv'
  BY <1>0 DEF SceneInv, DocInv, PreviewInv
<1>2. SaveInv'
  BY <1>0 DEF SceneInv, SaveInv
<1>3. Settled'
  BY <1>0 DEF SceneInv, Settled, Unsynced, NeedsEntity, Stale
<1> QED BY <1>1, <1>2, <1>3 DEF SceneInv

\* Steps that change nothing.
LEMMA SceneStutter == ASSUME SceneInv, UNCHANGED vars PROVE SceneInv'
<1>0. UNCHANGED <<ents, nextScene, strayed, twice, pNextId, pStorage, file, frames, child, wrote, stage>>
  BY DEF vars, docVars, previewVars, saveVars
<1>1. DocInv' /\ PreviewInv'
  BY <1>0 DEF SceneInv, DocInv, PreviewInv
<1>2. SaveInv'
  BY <1>0 DEF SceneInv, SaveInv, Reading
<1>3. Settled'
  BY <1>0 DEF SceneInv, Settled, Unsynced, NeedsEntity, Stale
<1> QED BY <1>1, <1>2, <1>3 DEF SceneInv

\* The tick's steps.
LEMMA SceneSync == ASSUME SceneInv, SyncPreview PROVE SceneInv'
<1>1. DocInv' /\ PreviewInv' /\ Settled'
  BY SyncStep DEF SceneInv, Settled
<1>2. stage = "sync" /\ stage' \in {"sync", "ui"} /\ UNCHANGED <<file, frames, child, wrote>>
  BY DEF SyncPreview, saveVars
<1>3. SaveInv'
  BY <1>2 DEF SceneInv, SaveInv
<1> QED BY <1>1, <1>3 DEF SceneInv

\* What the user does to the document is synced in the next tick.
LEMMA SceneUser == ASSUME SceneInv, UserStep PROVE SceneInv'
<1>0. DocInv /\ PreviewInv
  BY DEF SceneInv
<1>1. (DocInv' /\ PreviewInv') /\ User
  <2>1. ASSUME NEW i \in Indices(ents), NEW k \in DOMAIN ents[i].components, NEW v \in Positions,
               EditComponent(i, k, v)
        PROVE  (DocInv' /\ PreviewInv') /\ User
    <3>1. User /\ Unsynced = {}
      BY <2>1 DEF EditComponent, User, SceneInv, Settled
    <3> QED BY <1>0, <2>1, <3>1, EditStep
  <2>2. ASSUME NEW i \in Indices(ents), NEW k \in DOMAIN ents[i].components, RemoveSceneComponent(i, k)
        PROVE  (DocInv' /\ PreviewInv') /\ User
    <3>1. User
      BY <2>2 DEF RemoveSceneComponent
    <3> QED BY <1>0, <2>2, <3>1, RemoveStepOfScene
  <2>3. ASSUME NEW i \in Indices(ents), NEW type \in Types, AddNewComponent(i, type)
        PROVE  (DocInv' /\ PreviewInv') /\ User
    <3>1. User
      BY <2>3 DEF AddNewComponent
    <3> QED BY <1>0, <2>3, <3>1, AddStepOfScene
  <2>4. ASSUME NEW i \in Indices(ents), CreateSceneEntity(ents[i].sceneId)
        PROVE  (DocInv' /\ PreviewInv') /\ User
    <3>1. User
      BY <2>4 DEF CreateSceneEntity
    <3> QED BY <1>0, <2>4, <3>1, CreateStepOfScene
  <2>5. ASSUME NEW i \in Indices(ents), DeleteSceneEntity(ents[i].sceneId)
        PROVE  (DocInv' /\ PreviewInv') /\ User
    <3>1. User
      BY <2>5 DEF DeleteSceneEntity
    <3> QED BY <1>0, <2>5, <3>1, DeleteStepOfScene
  <2>6. CASE CreateSceneEntity(NoScene)
    <3>1. User
      BY <2>6 DEF CreateSceneEntity
    <3> QED BY <1>0, <2>6, <3>1, CreateStepOfScene
  <2> QED BY <2>1, <2>2, <2>3, <2>4, <2>5, <2>6 DEF UserStep
<1>2. stage = "ui" /\ stage' = "sync" /\ UNCHANGED <<file, frames, child, wrote>>
  BY <1>1 DEF User, saveVars
<1>3. SaveInv' /\ Settled'
  BY <1>2 DEF SceneInv, SaveInv, Settled
<1> QED BY <1>1, <1>3 DEF SceneInv

\* toJson begins with the first entity.
LEMMA SceneSave == ASSUME SceneInv, Save PROVE SceneInv'
<1>1. /\ stage = "ui" /\ stage' = "save" /\ ents # <<>> /\ ~strayed /\ child' = 1
      /\ UNCHANGED <<ents, nextScene, strayed, twice, pNextId, pStorage, file, frames, wrote>>
      /\ file = <<>> /\ frames = <<>> /\ wrote = <<>>
  BY DEF Save, docVars, previewVars, SceneInv, SaveInv
<1>2. DocInv' /\ PreviewInv'
  BY <1>1 DEF SceneInv, DocInv, PreviewInv
<1>3. Walk(ents, <<>>, <<>>, 1, <<>>)
  <2>1. /\ <<>> \in Seq(Objects) /\ <<>> \in Seq(Indices(ents)) /\ DOMAIN <<>> = {}
        /\ <<>> \in Seq([index : Indices(ents), object : Nat])
    OBVIOUS
  <2> QED BY <1>1, <2>1 DEF Walk, Tells, Stack, Written
<1>4. SaveInv' /\ Settled'
  BY <1>1, <1>3 DEF SaveInv, Settled
<1> QED BY <1>2, <1>4 DEF SceneInv

\* _toJson writes an entity and goes down to its first child.
LEMMA SceneWrite == ASSUME SceneInv, WriteEntity PROVE SceneInv'
<1>1. /\ stage = "save" /\ stage' = "save" /\ child # NoIndex
      /\ UNCHANGED <<ents, nextScene, strayed, twice, pNextId, pStorage>>
      /\ file' = Append(file, Object(IF frames = <<>> THEN NoIndex ELSE frames[Len(frames)].object, ents[child]))
      /\ wrote' = Append(wrote, child)
      /\ frames' = Append(frames, [index |-> child, object |-> Len(file) + 1])
      /\ child' = ents[child].firstChild
      /\ Walk(ents, file, frames, child, wrote) /\ ~strayed
  BY DEF WriteEntity, docVars, previewVars, SceneInv, SaveInv
<1>2. DocInv' /\ PreviewInv'
  BY <1>1 DEF SceneInv, DocInv, PreviewInv
<1>3. Walk(ents, file', frames', child', wrote')
  <2>1. ents \in Seq(SceneEntities) /\ TreeOK(ents)
    BY <1>1 DEF SceneInv, DocInv, DocOK
  <2> QED BY <1>1, <2>1, WalkDown
<1>4. SaveInv' /\ Settled'
  BY <1>1, <1>3 DEF SaveInv, Settled
<1> QED BY <1>2, <1>4 DEF SceneInv

\* _toJson returns and goes on to the next sibling.
LEMMA SceneReturn == ASSUME SceneInv, WriteReturn PROVE SceneInv'
<1>1. /\ stage = "save" /\ child = NoIndex
      /\ UNCHANGED <<ents, nextScene, strayed, twice, pNextId, pStorage, file, wrote>>
      /\ frames' = SubSeq(frames, 1, Len(frames) - 1)
      /\ IF Len(frames) = 1 THEN stage' = "reopen" /\ child' = child
         ELSE stage' = "save" /\ child' = ents[Top(frames)].nextSibling
      /\ Walk(ents, file, frames, NoIndex, wrote) /\ ~strayed
  BY DEF WriteReturn, docVars, previewVars, SceneInv, SaveInv, Top
<1>2. /\ DocInv' /\ PreviewInv'
      /\ ents \in Seq(SceneEntities) /\ TreeOK(ents)
  BY <1>1 DEF SceneInv, DocInv, PreviewInv, DocOK
<1>3. CASE Len(frames) = 1
  <2>1. FileOK(file) /\ wrote \in [DOMAIN file -> Indices(ents)] /\ DepictsAs(file, ents, wrote)
    BY <1>1, <1>2, <1>3, WalkDone
  <2>2. frames' = <<>>
    <3>1. frames \in Seq([index : Indices(ents), object : Nat])
      BY <1>1 DEF Walk
    <3>2. frames' = SubSeq(frames, 1, 0)
      BY <1>1, <1>3
    <3> QED BY <3>1, <3>2
  <2>3. SaveInv' /\ Settled'
    BY <1>1, <1>3, <2>1, <2>2 DEF SaveInv, Settled
  <2> QED BY <1>2, <2>3 DEF SceneInv
<1>4. CASE Len(frames) # 1
  <2>1. Walk(ents, file, frames', child', wrote)
    BY <1>1, <1>2, <1>4, WalkUp
  <2>2. SaveInv' /\ Settled'
    BY <1>1, <1>4, <2>1 DEF SaveInv, Settled
  <2> QED BY <1>2, <2>2 DEF SceneInv
<1> QED BY <1>3, <1>4

\* An empty document and an empty preview.
LEMMA EmptyScene ==
    /\ DocOK(<<>>, 1, FALSE, {})
    /\ PreviewOK(<<>>, 1, [c \in Types |-> EmptyStorage], {})
<1>1. <<>> \in Seq(SceneEntities) /\ Indices(<<>>) = {}
  BY DEF Indices
<1>2. DocOK(<<>>, 1, FALSE, {})
  <2>1. TreeOK(<<>>) /\ DistinctIds(<<>>)
    BY <1>1 DEF TreeOK, DistinctIds
  <2> QED BY <1>1, <2>1 DEF DocOK, NoScene
<1>3. PreviewOK(<<>>, 1, [c \in Types |-> EmptyStorage], {})
  <2>1. [c \in Types |-> EmptyStorage]["Transform"] = EmptyStorage
    BY DEF Types
  <2> QED BY <1>1, <2>1, EmptySound DEF PreviewOK, Distinct, None
<1> QED BY <1>2, <1>3

\* A document that is read begins with nothing.
LEMMA SceneReopen == ASSUME SceneInv, Reopen PROVE SceneInv'
<1>1. /\ stage = "reopen" /\ stage' = "open" /\ ents' = <<>> /\ nextScene' = 1 /\ pNextId' = 1
      /\ strayed' = FALSE /\ twice' = {}
      /\ pStorage' = [c \in Types |-> EmptyStorage] /\ wrote' = <<>>
      /\ UNCHANGED <<file, frames, child>>
      /\ FileOK(file) /\ child = NoIndex /\ frames = <<>>
  BY DEF Reopen, SceneInv, SaveInv
<1>2. DocInv' /\ PreviewInv'
  BY <1>1, EmptyScene DEF DocInv, PreviewInv
<1>3. SaveInv' /\ Settled'
  <2>1. Reading'
    <3>1. Len(<<>>) = 0 /\ Indices(<<>>) = {} /\ Len(file) \in Nat
      BY <1>1 DEF Indices, FileOK
    <3> QED BY <1>1, <3>1 DEF Reading
  <2> QED BY <1>1, <2>1 DEF SaveInv, Settled
<1> QED BY <1>2, <1>3 DEF SceneInv

\* _fromJson adds the entity of the next object.
LEMMA SceneRead == ASSUME SceneInv, ReadObject PROVE SceneInv'
<1> DEFINE n == Len(ents) + 1
<1>1. /\ stage = "open" /\ stage' = "open" /\ Len(ents) < Len(file)
      /\ ents' = Read(ents, file, nextScene) /\ nextScene' = nextScene + 1
      /\ twice' = IF Lone(file[n].components) THEN twice ELSE twice \cup {nextScene}
      /\ UNCHANGED <<strayed, pNextId, pStorage, file, frames, child, wrote>>
      /\ Reading /\ child = NoIndex /\ frames = <<>> /\ wrote = <<>> /\ ~strayed
  BY DEF ReadObject, previewVars, saveVars, SceneInv, SaveInv
<1>2. /\ ents \in Seq(SceneEntities) /\ TreeOK(ents) /\ DistinctIds(ents) /\ nextScene \in Nat \ {NoScene}
      /\ \A i \in Indices(ents) : /\ ents[i].sceneId < nextScene /\ ents[i].sceneId \in Nat
                                  /\ ents[i].sceneId \in twice \/ Lone(ents[i].components)
  <2>1. ents \in Seq(SceneEntities) /\ TreeOK(ents)
    BY <1>1 DEF SceneInv, DocInv, DocOK
  <2>2. \A i \in Indices(ents) : ents[i].sceneId \in Nat
    BY <2>1, EntityAt
  <2> QED BY <2>1, <2>2 DEF SceneInv, DocInv, DocOK
<1>3. /\ file \in Seq(Objects) /\ Len(file) \in Nat /\ Len(ents) \in Nat
      /\ n \in DOMAIN file /\ n <= Len(file)
      /\ file[n].parent \in 0 .. Len(ents) /\ (Len(ents) # 0 => file[n].parent # NoIndex)
      /\ file[n].components \in Seq([type : Types, value : Positions])
  <2>1. /\ file \in Seq(Objects) /\ file[1].parent = NoIndex
        /\ \A m \in DOMAIN file : m # 1 => file[m].parent \in 1 .. m - 1
    BY <1>1 DEF Reading, FileOK
  <2>2. Len(file) \in Nat /\ Len(ents) \in Nat
    BY <1>2, <2>1
  <2>3. n \in DOMAIN file /\ n <= Len(file)
    BY <1>1, <2>1, <2>2
  <2>4. file[n].parent \in 0 .. Len(ents) /\ (Len(ents) # 0 => file[n].parent # NoIndex)
    <3>1. CASE n = 1
      BY <2>1, <2>2, <3>1 DEF NoIndex
    <3>2. CASE n # 1
      <4>1. file[n].parent \in 1 .. n - 1
        BY <2>1, <2>3, <3>2
      <4> QED BY <2>2, <4>1 DEF NoIndex
    <3> QED BY <3>1, <3>2
  <2>5. file[n] \in Objects
    BY <2>1, <2>3, ElementOfSeq
  <2> QED BY <2>1, <2>2, <2>3, <2>4, <2>5 DEF Objects
<1>4. /\ ents' \in Seq(SceneEntities) /\ Grown(ents, ents', file[n].parent)
      /\ Len(ents') = n
      /\ ents'[n].sceneId = nextScene /\ ents'[n].previewId = NotSynced
      /\ ents'[n].components = Loaded(file[n].components)
      /\ \A i \in Indices(ents) : /\ ents'[i].sceneId = ents[i].sceneId
                                  /\ ents'[i].components = ents[i].components
                                  /\ ents'[i].previewId = ents[i].previewId
  <2>1. \A i \in Indices(ents) : ents[i].parent = file[i].parent
    BY <1>1 DEF Reading
  <2> QED BY <1>1, <1>2, <1>3, <2>1, ReadGrown
<1>5. \A i \in Indices(ents') : i = n \/ (i \in Indices(ents) /\ i # n)
  BY <1>3, <1>4 DEF Indices
<1>6. (Lone(file[n].components) => Lone(Loaded(file[n].components)))
      /\ \A k \in DOMAIN Loaded(file[n].components) : Loaded(file[n].components)[k].state = "New"
  BY <1>3, LoadedParts
<1> HIDE DEF n
<1>7. DocInv'
  <2>1. TreeOK(ents')
    BY <1>2, <1>3, <1>4, GrownTree
  <2>2. DistinctIds(ents')
    BY <1>2, <1>4, <1>5 DEF DistinctIds
  <2>3. nextScene \in twice' \/ Lone(file[n].components)
    BY <1>1
  <2>4. \A i \in Indices(ents') : /\ ents'[i].sceneId < nextScene'
                                  /\ ents'[i].sceneId \in twice' \/ Lone(ents'[i].components)
    BY <1>1, <1>2, <1>4, <1>5, <1>6, <2>3
  <2>5. nextScene' \in Nat \ {NoScene}
    BY <1>1, <1>2 DEF NoScene
  <2>6. strayed' <=> ~TreeOK(ents')
    BY <1>1, <2>1
  <2> QED BY <1>4, <2>2, <2>4, <2>5, <2>6 DEF DocInv, DocOK
<1>8. PreviewInv'
  <2> DEFINE from == [j \in Indices(ents') |-> j]
  <2>1. \A j \in Indices(ents') : from[j] = j
    OBVIOUS
  <2> HIDE DEF from
  <2>2. PreviewOK(ents', pNextId, pStorage, twice')
    <3>1. PreviewOK(ents, pNextId, pStorage, twice) /\ twice \subseteq twice'
      BY <1>1 DEF SceneInv, PreviewInv
    <3>2. \A l, m \in Indices(ents') : from[l] = from[m] => l = m
      BY <2>1
    <3>3. \A j \in Indices(ents') :
             \/ /\ from[j] \in Indices(ents)
                /\ ents'[j].sceneId = ents[from[j]].sceneId
                /\ ents'[j].previewId = ents[from[j]].previewId
                /\ ents'[j].components = ents[from[j]].components
             \/ /\ ents'[j].previewId = NotSynced
                /\ \A k \in DOMAIN ents'[j].components : ents'[j].components[k].state = "New"
      BY <1>4, <1>5, <1>6, <2>1
    <3> QED BY <1>4, <3>1, <3>2, <3>3, KeptPreview
  <2> QED BY <1>1, <2>2 DEF PreviewInv
<1>9. Reading'
  <2>1. ASSUME NEW i \in Indices(ents')
        PROVE  ents'[i].parent = file[i].parent /\ ents'[i].components = Loaded(file[i].components)
    <3>1. CASE i = n
      BY <1>4, <3>1 DEF Grown, n
    <3>2. CASE i \in Indices(ents)
      <4>1. i \in 1 .. (Len(ents) + 1) - 1
        BY <1>3, <3>2 DEF Indices
      <4>2. ents'[i].parent = ents[i].parent
        BY <1>4, <4>1 DEF Grown
      <4> QED BY <1>1, <1>4, <3>2, <4>2 DEF Reading
    <3> QED BY <1>5, <3>1, <3>2
  <2> QED BY <1>1, <1>3, <1>4, <2>1 DEF Reading
<1>10. SaveInv' /\ Settled'
  BY <1>1, <1>9 DEF SaveInv, Settled
<1> QED BY <1>7, <1>8, <1>10 DEF SceneInv

\* The document has been read.
LEMMA SceneOpened == ASSUME SceneInv, Opened PROVE SceneInv'
<1>1. /\ stage = "open" /\ stage' = "sync" /\ file' = <<>>
      /\ UNCHANGED <<ents, nextScene, strayed, twice, pNextId, pStorage, frames, child, wrote>>
      /\ child = NoIndex /\ frames = <<>> /\ wrote = <<>>
  BY DEF Opened, docVars, previewVars, SceneInv, SaveInv
<1>2. DocInv' /\ PreviewInv'
  BY <1>1 DEF SceneInv, DocInv, PreviewInv
<1>3. SaveInv' /\ Settled'
  BY <1>1 DEF SaveInv, Settled
<1> QED BY <1>2, <1>3 DEF SceneInv

-----------------------------------------------------------------------------
(* Its game *)

\* The components the game has been given.
Given(e, k) == e < game.entity \/ (e = game.entity /\ k <= game.part)

Have(e, c) == {k \in DOMAIN ents[e].components : Given(e, k) /\ ents[e].components[k].type = c}

\* The last of its transforms has given the entity its value, and its body is
\* the default one.
Handed(stg, e) ==
    /\ \A k \in Have(e, "Transform") :
          (\A l \in Have(e, "Transform") : l <= k) =>
             Get(stg["Transform"], e) = ents[e].components[k].value
    /\ Have(e, "RigidBody") # {} => Get(stg["RigidBody"], e) = Origin

\* The game has the entities up to the one it is at, with those components.
Copied ==
    /\ game.entity \in 0 .. Len(ents)
    /\ game.entity # 0 => game.part <= Len(ents[game.entity].components)
    /\ alive = 1 .. game.entity /\ nextId = game.entity + 1
    /\ \A c \in Types : Entities(storage[c]) = {e \in 1 .. game.entity : Have(e, c) # {}}
    /\ \A e \in 1 .. game.entity : Handed(storage, e)

GameInv ==
    /\ game \in [entity : Nat, part : Nat]
    /\ stage = "load" =>
          /\ playing /\ phase \in {"New", "Starting"}
          /\ ~Synced => phase = "New" /\ ~physics
          /\ Copied
    /\ stage # "load" => phase \in (IF playing THEN {"Started", "Stopped"} ELSE {"New"})

\* A space with a step of it, or another one.
SpaceStep == Moves \/ Replaced \/ UNCHANGED spaceVars

\* A new space is as any space at first.
LEMMA NewSpaceInv == SpaceInit' => IInv'
<1>1. SpaceInit => IInv
  BY IInvInit
<1> QED BY <1>1, PTL

\* The space of a game is a new one.
LEMMA NewSpaceStep == ASSUME NewSpace PROVE IInv' /\ SpaceStep
<1>1. SpaceInit'
  BY DEF NewSpace, SpaceInit, Types
<1> QED BY <1>1, NewSpaceInv DEF NewSpace, SpaceStep, Replaced

\* PlayCommandHandler begins with a game that has nothing.
LEMMA PlayStep == ASSUME Play PROVE IInv' /\ SpaceStep /\ GameInv'
<1>1. NewSpace /\ stage' = "load" /\ playing' = TRUE /\ game' = NoGame /\ UNCHANGED ents
  BY DEF Play, docVars
<1>2. /\ alive' = {} /\ nextId' = 1 /\ phase' = "New" /\ physics' = FALSE
      /\ \A c \in Types : storage'[c] = EmptyStorage
  BY <1>1 DEF NewSpace
<1>3. game'.entity = 0 /\ game' \in [entity : Nat, part : Nat]
  BY <1>1 DEF NoGame
<1>4. Copied'
  <2>1. 0 \in 0 .. Len(ents')
    OBVIOUS
  <2>2. 1 .. 0 = {} /\ 0 + 1 = 1
    OBVIOUS
  <2> QED BY <1>2, <1>3, <2>1, <2>2, EmptySound DEF Copied
<1>5. GameInv'
  BY <1>1, <1>2, <1>3, <1>4 DEF GameInv
<1> QED BY <1>1, <1>5, NewSpaceStep

\* Closing the game.
LEMMA CloseStep == ASSUME GameInv, CloseGame PROVE IInv' /\ SpaceStep /\ GameInv'
<1>1. NewSpace /\ stage = "ui" /\ stage' = "ui" /\ playing' = FALSE /\ game' = game /\ phase' = "New"
  BY DEF CloseGame, NewSpace
<1>2. GameInv'
  BY <1>1 DEF GameInv
<1> QED BY <1>1, <1>2, NewSpaceStep

\* Steps of the document leave the game alone.
LEMMA AsideStep ==
    ASSUME IInv, GameInv, UNCHANGED <<spaceVars, game, playing>>, stage # "load", stage' # "load"
    PROVE  IInv' /\ SpaceStep /\ GameInv'
<1>1. IInv'
  BY StutterStep
<1>2. UNCHANGED phase
  BY DEF spaceVars
<1> QED BY <1>1, <1>2 DEF GameInv, SpaceStep

\* The running game's calls.
LEMMA RunStep == ASSUME IInv, GameInv, RunGame PROVE IInv' /\ SpaceStep /\ GameInv'
<1>1. stage = "ui" /\ stage' = "ui" /\ playing /\ playing' = playing /\ SpaceCall /\ game' = game
  BY DEF RunGame
<1>2. phase \in {"Started", "Stopped"}
  BY <1>1 DEF GameInv
<1>3. IInv' /\ Moves
  BY <1>1, <1>2, CallStep
<1>4. phase' \in {"Started", "Stopped"}
  BY <1>1, <1>2 DEF SpaceCall, CreateEntity, DestroyEntity, AddComponent, SetTransform,
                    RemoveComponent, AddExisting, spaceVars, AddPhysics, Start, Update, Stop
<1>5. GameInv'
  BY <1>1, <1>4 DEF GameInv
<1> QED BY <1>3, <1>5 DEF SpaceStep

\* syncGame makes an entity of the game when the one before has all it needs.
LEMMA GameEntityStep ==
    ASSUME IInv, DocInv, GameInv, stage = "load", stage' = "load", UNCHANGED <<ents, playing>>,
           SyncGameEntity
    PROVE  IInv' /\ SpaceStep /\ GameInv'
<1>0. PICK n : n = game.entity
  OBVIOUS
<1>1. /\ n \in Nat /\ game.part \in Nat /\ n \in 0 .. Len(ents) /\ Len(ents) \in Nat
      /\ n # 0 => game.part <= Len(ents[n].components)
      /\ alive = 1 .. n /\ nextId = n + 1
      /\ \A c \in Types : Entities(storage[c]) = {e \in 1 .. n : Have(e, c) # {}}
      /\ \A e \in 1 .. n : Handed(storage, e)
      /\ playing /\ phase = "New" /\ ~physics
  <2>1. game \in [entity : Nat, part : Nat] /\ Copied /\ playing /\ phase = "New" /\ ~physics
    BY DEF GameInv, SyncGameEntity
  <2>2. Len(ents) \in Nat
    BY DEF DocInv, DocOK
  <2> QED BY <1>0, <2>1, <2>2 DEF Copied
<1>2. /\ n # Len(ents) /\ (n # 0 => ~(game.part < Len(ents[n].components)))
      /\ CreateEntity /\ game' = [entity |-> n + 1, part |-> 0]
  BY <1>0 DEF SyncGameEntity, Synced, PartLeft
<1>3. /\ game'.entity = n + 1 /\ game'.part = 0 /\ game' \in [entity : Nat, part : Nat]
      /\ alive' = alive \cup {nextId} /\ nextId' = nextId + 1
      /\ UNCHANGED <<storage, phase, physics>>
  BY <1>1, <1>2 DEF CreateEntity
<1>4. \A i \in Indices(ents) : /\ DOMAIN ents[i].components = 1 .. Len(ents[i].components)
                               /\ Len(ents[i].components) \in Nat
  <2> SUFFICES ASSUME NEW i \in Indices(ents)
               PROVE  /\ DOMAIN ents[i].components = 1 .. Len(ents[i].components)
                      /\ Len(ents[i].components) \in Nat
    OBVIOUS
  <2>1. ents[i].components \in Seq(SceneComponents)
    BY EntityAt DEF DocInv, DocOK
  <2> QED BY <2>1
<1>5. \A e \in 1 .. n : e \in Indices(ents) /\ e \in Nat /\ e <= n
  BY <1>1 DEF Indices
<1>6. n + 1 \in Indices(ents)
  BY <1>1, <1>2 DEF Indices
<1>7. ASSUME NEW e \in 1 .. n, NEW c PROVE Have(e, c)' = Have(e, c)
  <2>1. ASSUME NEW k \in DOMAIN ents[e].components PROVE Given(e, k)' <=> Given(e, k)
    <3>1. e < n + 1 /\ (e < n \/ e = n)
      BY <1>1, <1>5
    <3>2. e = n => k <= game.part
      <4> SUFFICES ASSUME e = n PROVE k <= game.part
        OBVIOUS
      <4>1. k \in 1 .. Len(ents[n].components) /\ Len(ents[n].components) \in Nat
        BY <1>4, <1>5, <2>1
      <4>2. n # 0
        BY <1>1
      <4> QED BY <1>1, <1>2, <4>1, <4>2
    <3> QED BY <1>0, <1>3, <3>1, <3>2 DEF Given
  <2> QED BY <2>1 DEF Have
<1>8. ASSUME NEW c PROVE Have(n + 1, c)' = {}
  <2>1. ASSUME NEW k \in DOMAIN ents[n + 1].components PROVE ~Given(n + 1, k)'
    <3>1. k \in 1 .. Len(ents[n + 1].components)
      BY <1>4, <1>6, <2>1
    <3>2. ~(n + 1 < n + 1) /\ ~(k <= 0)
      BY <1>1, <3>1
    <3> QED BY <1>3, <3>2 DEF Given
  <2> QED BY <2>1 DEF Have
<1>9. 1 .. n + 1 = (1 .. n) \cup {n + 1}
  BY <1>1
<1>10. Copied'
  <2>1. game'.entity \in 0 .. Len(ents) /\ alive' = 1 .. game'.entity /\ nextId' = game'.entity + 1
    BY <1>1, <1>2, <1>3, <1>9
  <2>2. game'.part <= Len(ents[game'.entity].components)
    BY <1>3, <1>4, <1>6
  <2>3. \A c \in Types : Entities(storage[c]) = {e \in 1 .. n + 1 : Have(e, c)' # {}}
    BY <1>1, <1>7, <1>8, <1>9
  <2>4. ASSUME NEW e \in 1 .. n + 1 PROVE Handed(storage, e)'
    <3>1. CASE e = n + 1
      BY <1>8, <3>1 DEF Handed
    <3>2. CASE e \in 1 .. n
      <4>1. Handed(storage, e)
        BY <1>1, <3>2
      <4> QED BY <1>3, <1>7, <3>2, <4>1 DEF Handed
    <3> QED BY <1>9, <3>1, <3>2
  <2> QED BY <1>3, <2>1, <2>2, <2>3, <2>4 DEF Copied
<1>11. GameInv'
  BY <1>1, <1>3, <1>10 DEF GameInv
<1>12. IInv' /\ Moves
  BY <1>1, <1>2, CallStep DEF SpaceCall
<1> QED BY <1>11, <1>12 DEF SpaceStep

\* What syncGame's calls for a component come to: the entity has it, with v.
CallsOnce(n, t, v) ==
    /\ IInv' /\ Moves /\ DOMAIN storage' = DOMAIN storage
    /\ UNCHANGED <<alive, nextId, phase, physics>>
    /\ Entities(storage'[t]) = Entities(storage[t]) \cup {n}
    /\ Get(storage'[t], n) = v
    /\ \A f \in Entities(storage[t]) \ {n} : Get(storage'[t], f) = Get(storage[t], f)
    /\ \A d \in DOMAIN storage \ {t} : storage'[d] = storage[d]

\* syncGame adds the next component of that entity.
LEMMA GameComponentStep ==
    ASSUME IInv, DocInv, GameInv, stage = "load", stage' = "load", UNCHANGED <<ents, playing>>,
           SyncGameComponent
    PROVE  IInv' /\ SpaceStep /\ GameInv'
<1>0. PICK n, part : n = game.entity /\ part = game.part
  OBVIOUS
<1>1. /\ n \in Nat /\ part \in Nat /\ n \in 0 .. Len(ents) /\ Len(ents) \in Nat
      /\ alive = 1 .. n /\ nextId = n + 1
      /\ \A c \in Types : Entities(storage[c]) = {e \in 1 .. n : Have(e, c) # {}}
      /\ \A e \in 1 .. n : Handed(storage, e)
      /\ playing /\ phase = "New" /\ ~physics
      /\ n # 0 /\ part < Len(ents[n].components)
  <2>1. game \in [entity : Nat, part : Nat] /\ Copied /\ playing
    BY DEF GameInv
  <2>2. Len(ents) \in Nat
    BY DEF DocInv, DocOK
  <2>3. PartLeft /\ ~Synced
    BY DEF SyncGameComponent, Synced
  <2>4. phase = "New" /\ ~physics
    BY <2>3 DEF GameInv
  <2> QED BY <1>0, <2>1, <2>2, <2>3, <2>4 DEF Copied, PartLeft
<1>2. n \in Indices(ents) /\ n \in 1 .. n /\ nextId - 1 = n
  BY <1>1 DEF Indices
<1>3. /\ ents[n].components \in Seq(SceneComponents)
      /\ DOMAIN ents[n].components = 1 .. Len(ents[n].components)
      /\ Len(ents[n].components) \in Nat
  <2>1. ents[n].components \in Seq(SceneComponents)
    BY <1>2, EntityAt DEF DocInv, DocOK
  <2> QED BY <2>1
<1>4. part + 1 \in DOMAIN ents[n].components /\ part + 1 \in Nat
  BY <1>1, <1>3
<1>5. PICK c : c = ents[n].components[part + 1]
  OBVIOUS
<1>6. c.type \in Types /\ c.value \in Positions /\ n \in alive
  <2>1. c \in SceneComponents
    BY <1>3, <1>4, <1>5
  <2> QED BY <1>1, <1>2, <2>1 DEF SceneComponents
<1>7. PICK v : v = IF c.type = "Transform" THEN c.value ELSE Origin
  OBVIOUS
<1>8. PICK t : t = c.type
  OBVIOUS
<1>9. /\ \/ AddComponent(n, t, v)
         \/ t = "Transform" /\ SetTransform(n, v)
         \/ t = "RigidBody" /\ AddExisting(n, t)
      /\ game' = [game EXCEPT !.part = part + 1]
  BY <1>0, <1>2, <1>5, <1>7, <1>8 DEF SyncGameComponent
<1>10. /\ t \in {"Transform", "RigidBody"} /\ t \in Types /\ phase # "Starting"
       /\ v \in Positions /\ n \in alive /\ ~observed
       /\ t \in DOMAIN storage /\ Types \subseteq DOMAIN storage
       /\ Sound(storage[t], Positions)
  <2>1. t \in {"Transform", "RigidBody"} /\ t \in Types /\ v \in Positions /\ n \in alive
    BY <1>6, <1>7, <1>8, SpaceAssumption DEF Types
  <2>2. ~observed /\ phase # "Starting" /\ Types \subseteq DOMAIN storage
    BY <1>1 DEF IInv, SpaceTypeOK, Types, Components
  <2>3. Values(t) = Positions
    BY <2>1 DEF Values
  <2>4. Sound(storage[t], Values(t))
    BY <2>1, <2>2 DEF IInv, Storages
  <2> QED BY <2>1, <2>2, <2>3, <2>4
<1>11. CallsOnce(n, t, v)
  <2>1. CASE AddComponent(n, t, v)
    <3>1. /\ IInv' /\ DOMAIN storage' = DOMAIN storage
          /\ \A d \in DOMAIN storage : Entities(storage[d]) \subseteq Entities(storage'[d])
                                       /\ Entities(storage'[d]) \subseteq Entities(storage[d]) \cup {n}
      BY <1>10, <2>1, AddStep
    <3>2. UNCHANGED <<alive, nextId, phase, physics>>
      BY <2>1 DEF AddComponent
    <3>3. Gains(storage, storage', n)
      BY <3>1 DEF Gains
    <3>4. storage' = [storage EXCEPT ![t] = Linked(storage[t], n, v)] /\ ~Contains(storage[t], n)
      <4>1. storage' = Link(Store, t, n, v).storage /\ ~Contains(storage[t], n)
        BY <1>10, <2>1 DEF AddComponent, SetStore
      <4> QED BY <4>1, TheStore DEF Link, Rec
    <3>5. n \notin Entities(storage[t]) /\ n \in Nat \ {None}
      BY <1>1, <1>10, <3>4, ContainsMap DEF None
    <3>6. /\ storage'[t] = Linked(storage[t], n, v)
          /\ \A d \in DOMAIN storage \ {t} : storage'[d] = storage[d]
      BY <1>10, <3>1, <3>4
    <3>7. /\ Entities(storage'[t]) = Entities(storage[t]) \cup {n}
          /\ Get(storage'[t], n) = v
          /\ \A f \in Entities(storage[t]) : Get(storage'[t], f) = Get(storage[t], f)
      BY <1>10, <3>5, <3>6, LinkSound
    <3>8. Moves
      BY <1>10, <3>2, <3>3 DEF Moves
    <3> QED BY <3>1, <3>2, <3>6, <3>7, <3>8 DEF CallsOnce
  <2>2. CASE t = "Transform" /\ SetTransform(n, v)
    <3>1. /\ IInv' /\ DOMAIN storage' = DOMAIN storage
          /\ \A d \in DOMAIN storage : Entities(storage'[d]) = Entities(storage[d])
      BY <1>10, <2>2, SetTransformStep
    <3>2. UNCHANGED <<alive, nextId, phase, physics>>
      BY <2>2 DEF SetTransform
    <3>3. n \in Entities(storage[t])
      BY <1>10, <2>2, ContainsMap DEF SetTransform
    <3>4. storage' = [storage EXCEPT ![t] = SetComponent(storage[t], n, v)]
      BY <2>2 DEF SetTransform
    <3>5. /\ storage'[t] = SetComponent(storage[t], n, v)
          /\ \A d \in DOMAIN storage \ {t} : storage'[d] = storage[d]
      BY <1>10, <3>1, <3>4
    <3>6. /\ Entities(storage'[t]) = Entities(storage[t]) \cup {n}
          /\ Get(storage'[t], n) = v
          /\ \A f \in Entities(storage[t]) \ {n} : Get(storage'[t], f) = Get(storage[t], f)
      BY <1>10, <3>1, <3>3, <3>5, SetSound
    <3>7. Moves
      BY <3>1, <3>2 DEF Moves
    <3> QED BY <3>1, <3>2, <3>5, <3>6, <3>7 DEF CallsOnce
  <2>3. CASE t = "RigidBody" /\ AddExisting(n, t)
    <3>1. UNCHANGED spaceVars
      BY <2>3 DEF AddExisting
    <3>2. UNCHANGED <<alive, nextId, phase, physics, storage>>
      BY <3>1 DEF spaceVars
    <3>3. IInv'
      BY <3>1, StutterStep
    <3>4. n \in Entities(storage[t])
      BY <1>10, <2>3, ContainsMap DEF AddExisting
    <3>5. Have(n, t) # {}
      BY <1>1, <1>2, <1>10, <3>4
    <3>6. v = Origin /\ Get(storage[t], n) = v
      <4>1. Handed(storage, n)
        BY <1>1, <1>2
      <4> QED BY <1>7, <1>8, <2>3, <3>5, <4>1 DEF Handed
    <3>7. Moves
      BY <3>2 DEF Moves
    <3> QED BY <3>2, <3>3, <3>4, <3>6, <3>7 DEF CallsOnce
  <2> QED BY <1>9, <2>1, <2>2, <2>3
<1>12. /\ IInv' /\ Moves /\ DOMAIN storage' = DOMAIN storage
       /\ UNCHANGED <<alive, nextId, phase, physics>>
       /\ Entities(storage'[t]) = Entities(storage[t]) \cup {n}
       /\ Get(storage'[t], n) = v
       /\ \A f \in Entities(storage[t]) \ {n} : Get(storage'[t], f) = Get(storage[t], f)
       /\ \A d \in DOMAIN storage \ {t} : storage'[d] = storage[d]
  BY <1>11 DEF CallsOnce
<1>13. game'.entity = n /\ game'.part = part + 1 /\ game' \in [entity : Nat, part : Nat]
  <2>1. game \in [entity : Nat, part : Nat]
    BY DEF GameInv
  <2> QED BY <1>0, <1>1, <1>9, <2>1
<1>14. ASSUME NEW e \in 1 .. n, e # n, NEW d PROVE Have(e, d)' = Have(e, d)
  <2>1. \A k : Given(e, k)' <=> Given(e, k)
    BY <1>0, <1>13, <1>14 DEF Given
  <2> QED BY <2>1 DEF Have
<1>15. ASSUME NEW d
       PROVE  /\ Have(n, d)' = Have(n, d) \cup (IF d = t THEN {part + 1} ELSE {})
              /\ \A k \in Have(n, d) : k \in Nat /\ k <= part
  <2>1. \A k \in DOMAIN ents[n].components : k \in Nat
    BY <1>3
  <2>2. ASSUME NEW k \in DOMAIN ents[n].components
        PROVE  /\ Given(n, k)' <=> Given(n, k) \/ k = part + 1
               /\ Given(n, k) <=> k <= part
    <3>1. k \in Nat /\ ~(n < n)
      BY <1>1, <2>1
    <3>2. k <= part + 1 <=> k <= part \/ k = part + 1
      BY <1>1, <3>1
    <3> QED BY <1>0, <1>13, <3>1, <3>2 DEF Given
  <2> QED BY <1>4, <1>5, <1>8, <2>1, <2>2 DEF Have
<1>16. Copied'
  <2>1. game'.entity \in 0 .. Len(ents) /\ alive' = 1 .. game'.entity /\ nextId' = game'.entity + 1
    BY <1>1, <1>12, <1>13
  <2>2. game'.part <= Len(ents[game'.entity].components)
    BY <1>1, <1>3, <1>13
  <2>3. ASSUME NEW d \in Types PROVE Entities(storage'[d]) = {e \in 1 .. n : Have(e, d)' # {}}
    <3>1. Entities(storage[d]) = {e \in 1 .. n : Have(e, d) # {}}
      BY <1>1
    <3>2. CASE d = t
      <4>1. Have(n, d)' # {}
        BY <1>15, <3>2
      <4> QED BY <1>2, <1>12, <1>14, <3>1, <3>2, <4>1
    <3>3. CASE d # t
      <4>1. storage'[d] = storage[d]
        BY <1>10, <1>12, <3>3
      <4>2. \A e \in 1 .. n : Have(e, d)' = Have(e, d)
        BY <1>14, <1>15, <3>3
      <4> QED BY <3>1, <4>1, <4>2
    <3> QED BY <3>2, <3>3
  <2>4. ASSUME NEW e \in 1 .. n, e # n PROVE Handed(storage, e)'
    <3>1. Handed(storage, e) /\ \A d : Have(e, d)' = Have(e, d)
      BY <1>1, <1>14, <2>4
    <3>2. ASSUME NEW d \in Types, Have(e, d) # {} PROVE Get(storage'[d], e) = Get(storage[d], e)
      <4>1. e \in Entities(storage[d])
        BY <1>1, <3>2
      <4>2. CASE d = t
        BY <1>12, <2>4, <4>1, <4>2
      <4>3. CASE d # t
        BY <1>10, <1>12, <4>3
      <4> QED BY <4>2, <4>3
    <3>3. "Transform" \in Types /\ "RigidBody" \in Types
      BY DEF Types
    <3> QED BY <3>1, <3>2, <3>3 DEF Handed
  <2>5. Handed(storage, n)'
    <3>1. Handed(storage, n) /\ "Transform" \in DOMAIN storage /\ "RigidBody" \in DOMAIN storage
      BY <1>1, <1>2, <1>10 DEF Types
    <3>2. CASE t = "Transform"
      <4>1. Have(n, "RigidBody")' = Have(n, "RigidBody") /\ storage'["RigidBody"] = storage["RigidBody"]
        BY <1>12, <1>15, <3>1, <3>2
      <4>2. ASSUME NEW k \in Have(n, "Transform")', \A l \in Have(n, "Transform")' : l <= k
            PROVE  k = part + 1
        <5>1. part + 1 <= k
          BY <1>15, <3>2, <4>2
        <5>2. k = part + 1 \/ (k \in Nat /\ k <= part)
          BY <1>15, <3>2, <4>2
        <5> QED BY <1>1, <5>1, <5>2
      <4>3. Get(storage'["Transform"], n) = ents[n].components[part + 1].value
        BY <1>5, <1>7, <1>8, <1>12, <3>2
      <4> QED BY <3>1, <4>1, <4>2, <4>3 DEF Handed
    <3>3. CASE t = "RigidBody"
      <4>1. Have(n, "Transform")' = Have(n, "Transform") /\ storage'["Transform"] = storage["Transform"]
        BY <1>12, <1>15, <3>1, <3>3
      <4>2. Get(storage'["RigidBody"], n) = Origin
        BY <1>7, <1>8, <1>12, <3>3
      <4> QED BY <3>1, <4>1, <4>2 DEF Handed
    <3> QED BY <1>10, <3>2, <3>3
  <2>6. \A e \in 1 .. n : Handed(storage, e)'
    BY <2>4, <2>5
  <2> QED BY <1>13, <2>1, <2>2, <2>3, <2>6 DEF Copied
<1>17. GameInv'
  BY <1>1, <1>12, <1>13, <1>16 DEF GameInv
<1> QED BY <1>12, <1>17 DEF SpaceStep

\* What start does to the game leaves the components that were copied.
LEMMA CopiedStays ==
    ASSUME Copied, UNCHANGED <<game, ents, alive, nextId>>, \A c \in Types : storage'[c] = storage[c]
    PROVE  Copied'
<1>1. \A e, c : Have(e, c)' = Have(e, c)
  BY DEF Have, Given
<1>2. "Transform" \in Types /\ "RigidBody" \in Types
  BY DEF Types
<1>3. \A e : Handed(storage, e) => Handed(storage, e)'
  BY <1>1, <1>2 DEF Handed
<1> QED BY <1>1, <1>3 DEF Copied

\* The constructor of GameEditor.
LEMMA StartGameStep ==
    ASSUME IInv, GameInv, StartGame
    PROVE  IInv' /\ SpaceStep /\ GameInv'
<1>1. /\ stage = "load" /\ Synced /\ playing /\ UNCHANGED <<playing, ents>>
      /\ phase \in {"New", "Starting"} /\ Copied /\ game \in [entity : Nat, part : Nat]
      /\ game' = IF stage' = "sync" THEN NoGame ELSE game
  BY DEF StartGame, GameInv, docVars
<1>2. DOMAIN storage = Types \/ DOMAIN storage = Types \cup {"BulletBody"}
  BY DEF IInv, SpaceTypeOK, Types, Components
<1>3. NoGame \in [entity : Nat, part : Nat]
  BY DEF NoGame
<1>4. CASE AddPhysics /\ stage' = stage
  <2>1. phase = "New" /\ phase' = "New" /\ UNCHANGED <<alive, nextId, storage>>
    BY <1>4 DEF AddPhysics
  <2>2. IInv' /\ Moves
    BY <1>4, <2>1, CallStep DEF SpaceCall
  <2>3. Copied' /\ Synced'
    BY <1>1, <1>4, <2>1, CopiedStays DEF Synced, PartLeft
  <2> QED BY <1>1, <1>4, <2>1, <2>2, <2>3 DEF GameInv, SpaceStep
<1>5. CASE physics /\ Start /\ stage' = stage
  <2>1. phase = "New" /\ phase' = "Starting" /\ UNCHANGED <<alive, nextId>>
    BY <1>5 DEF Start
  <2>2. \A c \in Types : storage'[c] = storage[c]
    BY <1>2, <1>5 DEF Start, Types
  <2>3. IInv' /\ Moves
    BY <1>5, <2>1, CallStep DEF SpaceCall
  <2>4. Copied' /\ Synced'
    BY <1>1, <1>5, <2>1, <2>2, CopiedStays DEF Synced, PartLeft
  <2> QED BY <1>1, <1>5, <2>1, <2>3, <2>4 DEF GameInv, SpaceStep
<1>6. CASE StartVisit /\ stage' = stage
  <2>1. phase' = "Starting" /\ UNCHANGED <<alive, nextId>>
    BY <1>6 DEF StartVisit
  <2>2. /\ IInv' /\ Moves
        /\ \A c \in DOMAIN storage \ {"BulletBody"} : storage'[c] = storage[c]
    BY <1>6, NextStep, StartVisitStep DEF SpaceNext
  <2>3. \A c \in Types : storage'[c] = storage[c]
    BY <1>2, <2>2 DEF Types
  <2>4. Copied' /\ Synced'
    BY <1>1, <1>6, <2>1, <2>3, CopiedStays DEF Synced, PartLeft
  <2> QED BY <1>1, <1>6, <2>1, <2>2, <2>4 DEF GameInv, SpaceStep
<1>7. CASE StartEnd /\ stage' = "sync"
  <2>1. phase' = "Started"
    BY <1>7 DEF StartEnd
  <2>2. IInv' /\ Moves
    BY <1>7, NextStep DEF SpaceNext
  <2> QED BY <1>1, <1>3, <1>7, <2>1, <2>2 DEF GameInv, SpaceStep
<1> QED BY <1>4, <1>5, <1>6, <1>7 DEF StartGame

\* A game that has started is a copy of the document.
LEMMA StartedFaithful ==
    ASSUME IInv, DocInv, GameInv, StartGame, stage' # stage
    PROVE  /\ alive' = Indices(ents)
           /\ \A i \in Indices(ents), c \in Types :
                 LET mine == {k \in DOMAIN ents[i].components : ents[i].components[k].type = c} IN
                 /\ Contains(storage'[c], i) <=> mine # {}
                 /\ c = "Transform" =>
                      \A k \in mine : (\A l \in mine : l <= k) =>
                         Get(storage'[c], i) = ents[i].components[k].value
                 /\ c = "RigidBody" /\ mine # {} => Get(storage'[c], i) = Origin
           /\ Cardinality(DOMAIN world') = Cardinality(Entities(storage'["RigidBody"]))
<1>1. StartEnd /\ Synced /\ Copied /\ UNCHANGED <<alive, storage, world, physics>> /\ phase' = "Started"
  BY DEF StartGame, GameInv, StartEnd
<1>0. PICK n : n = game.entity
  OBVIOUS
<1>2. /\ n = Len(ents) /\ Len(ents) \in Nat /\ Indices(ents) = 1 .. n
      /\ n # 0 => ~(game.part < Len(ents[n].components))
      /\ game.part \in Nat
  BY <1>0, <1>1 DEF Synced, PartLeft, Indices, DocInv, DocOK, GameInv
<1>3. ASSUME NEW i \in Indices(ents), NEW k \in DOMAIN ents[i].components PROVE Given(i, k)
  <2>1. ents[i].components \in Seq(SceneComponents)
    BY EntityAt DEF DocInv, DocOK
  <2>2. k \in 1 .. Len(ents[i].components) /\ Len(ents[i].components) \in Nat
    BY <2>1
  <2>3. i \in Nat /\ i <= n /\ n # 0
    BY <1>2
  <2>4. CASE i = n
    BY <1>0, <1>2, <2>2, <2>3, <2>4 DEF Given
  <2>5. CASE i < n
    BY <1>0, <2>5 DEF Given
  <2> QED BY <1>2, <2>3, <2>4, <2>5
<1>4. ASSUME NEW i \in Indices(ents), NEW c \in Types
      PROVE  LET mine == {k \in DOMAIN ents[i].components : ents[i].components[k].type = c} IN
             /\ Contains(storage'[c], i) <=> mine # {}
             /\ c = "Transform" =>
                  \A k \in mine : (\A l \in mine : l <= k) =>
                     Get(storage'[c], i) = ents[i].components[k].value
             /\ c = "RigidBody" /\ mine # {} => Get(storage'[c], i) = Origin
  <2>1. Have(i, c) = {k \in DOMAIN ents[i].components : ents[i].components[k].type = c}
    BY <1>3 DEF Have
  <2>2. Sound(storage[c], Values(c))
    BY DEF IInv, Storages, SpaceTypeOK, Types, Components
  <2>3. Contains(storage[c], i) <=> Have(i, c) # {}
    <3>1. i \in Entities(storage[c]) <=> Have(i, c) # {}
      BY <1>0, <1>1, <1>2 DEF Copied
    <3> QED BY <2>2, <3>1, ContainsMap
  <2>4. Handed(storage, i)
    BY <1>0, <1>1, <1>2 DEF Copied
  <2> QED BY <1>1, <2>1, <2>3, <2>4 DEF Handed
<1>5. Cardinality(DOMAIN world') = Cardinality(Entities(storage'["RigidBody"]))
  <2>1. IInv'
    BY <1>1, StartEndStep
  <2>2. physics
    BY <1>1 DEF IInv, Bodily, StartEnd
  <2> DEFINE bullet == storage'["BulletBody"]
             of == [e \in Entities(bullet) |-> Get(bullet, e)]
  <2>3. /\ Entities(bullet) = Entities(storage'["RigidBody"])
        /\ "BulletBody" \in DOMAIN storage'
        /\ DOMAIN world' = {Get(bullet, e) : e \in Entities(bullet)}
        /\ \A e, f \in Entities(bullet) : Get(bullet, e) = Get(bullet, f) => e = f
    <3>1. physics' /\ observed'
      BY <1>1, <2>1, <2>2 DEF IInv, SpaceTypeOK
    <3> QED BY <1>1, <2>1, <3>1 DEF IInv, Bodily, Matched
  <2>4. IsFiniteSet(Entities(bullet))
    BY <2>1, <2>3 DEF IInv, Storages, Sound, Typed, Entities
  <2> HIDE DEF bullet
  <2>5. of \in Bijection(Entities(bullet), DOMAIN world')
    <3>1. of \in [Entities(bullet) -> DOMAIN world']
      BY <2>3
    <3>2. of \in Injection(Entities(bullet), DOMAIN world')
      BY <2>3, <3>1 DEF Injection, IsInjective
    <3>3. of \in Surjection(Entities(bullet), DOMAIN world')
      BY <2>3, <3>1 DEF Surjection
    <3> QED BY <3>2, <3>3 DEF Bijection
  <2>6. ExistsBijection(Entities(bullet), DOMAIN world')
    BY <2>5 DEF ExistsBijection
  <2>7. Cardinality(DOMAIN world') = Cardinality(Entities(bullet))
    BY <2>4, <2>6, FS_Bijection
  <2> QED BY <2>3, <2>7
<1>6. alive' = Indices(ents)
  BY <1>0, <1>1, <1>2 DEF Copied
<1> QED BY <1>4, <1>5, <1>6

-----------------------------------------------------------------------------
(* The scene editor: its invariant *)

EditorInv == IInv /\ SceneInv /\ GameInv

\* An editor is opened on no document and has no game.
LEMMA EditorInvInit == ASSUME Init PROVE EditorInv
<1>1. IInv
  BY IInvInit DEF Init
<1>2. DocInv /\ PreviewInv
  BY EmptyScene DEF Init, PreviewInit, DocInv, PreviewInv
<1>3. SaveInv /\ Settled
  BY DEF Init, SaveInv, Settled
<1>4. GameInv
  BY DEF Init, SpaceInit, GameInv, NoGame
<1> QED BY <1>1, <1>2, <1>3, <1>4 DEF EditorInv, SceneInv

\* Steps that save the document and open it again.
LEMMA SaveStep == ASSUME EditorInv, SaveAndReopen PROVE EditorInv' /\ SpaceStep
<1>1. SceneInv'
  BY SceneSave, SceneWrite, SceneReturn, SceneReopen, SceneRead, SceneOpened
     DEF EditorInv, SaveAndReopen
<1>2. UNCHANGED <<spaceVars, game, playing>> /\ stage # "load" /\ stage' # "load"
  BY DEF SaveAndReopen, Save, WriteEntity, WriteReturn, Reopen, ReadObject, Opened
<1> QED BY <1>1, <1>2, AsideStep DEF EditorInv

\* Steps that sync the preview, and what the user does to the document.
LEMMA FrameStep == ASSUME EditorInv, SyncPreview \/ UserStep PROVE EditorInv' /\ SpaceStep
<1>1. SceneInv'
  BY SceneSync, SceneUser DEF EditorInv
<1>2. CASE SyncPreview
  <2>1. UNCHANGED <<spaceVars, game, playing>> /\ stage # "load" /\ stage' # "load"
    BY <1>2 DEF SyncPreview
  <2> QED BY <1>1, <2>1, AsideStep DEF EditorInv
<1>3. CASE UserStep
  <2>1. User
    BY <1>3 DEF UserStep, EditComponent, RemoveSceneComponent, AddNewComponent, CreateSceneEntity,
                DeleteSceneEntity
  <2>2. UNCHANGED <<spaceVars, game, playing>> /\ stage # "load" /\ stage' # "load"
    BY <2>1 DEF User
  <2> QED BY <1>1, <2>2, AsideStep DEF EditorInv
<1> QED BY <1>2, <1>3

\* Steps that make a game, run it and close it.
LEMMA GameStep ==
    ASSUME EditorInv, Play \/ SyncGame \/ StartGame \/ RunGame \/ CloseGame
    PROVE  EditorInv' /\ SpaceStep
<1>1. UNCHANGED <<docVars, previewVars, saveVars>>
  BY DEF Play, SyncGame, StartGame, RunGame, CloseGame
<1>2. /\ stage \in {"ui", "load"} /\ stage' \in {"ui", "load", "sync"}
      /\ stage' = "ui" => stage = "ui"
  BY DEF Play, SyncGame, StartGame, RunGame, CloseGame
<1>3. SceneInv'
  BY <1>1, <1>2, SceneQuiet DEF EditorInv
<1>4. IInv' /\ SpaceStep /\ GameInv'
  <2>1. CASE Play
    BY <2>1, PlayStep
  <2>2. CASE SyncGame
    <3>1. /\ stage = "load" /\ stage' = "load" /\ UNCHANGED <<ents, playing>>
          /\ SyncGameEntity \/ SyncGameComponent
      BY <2>2 DEF SyncGame, docVars
    <3> QED BY <3>1, GameEntityStep, GameComponentStep DEF EditorInv, SceneInv
  <2>3. CASE StartGame
    BY <2>3, StartGameStep DEF EditorInv
  <2>4. CASE RunGame
    BY <2>4, RunStep DEF EditorInv
  <2>5. CASE CloseGame
    BY <2>5, CloseStep DEF EditorInv
  <2> QED BY <2>1, <2>2, <2>3, <2>4, <2>5
<1> QED BY <1>3, <1>4 DEF EditorInv

\* Steps that change nothing.
LEMMA EditorStutter == ASSUME EditorInv, UNCHANGED vars PROVE EditorInv' /\ SpaceStep
<1>1. SceneInv'
  BY SceneStutter DEF EditorInv
<1>2. UNCHANGED <<spaceVars, game, playing, ents, stage>>
  BY DEF vars, docVars
<1>3. IInv'
  BY <1>2, StutterStep DEF EditorInv
<1>4. UNCHANGED <<alive, nextId, storage, phase, physics>>
  BY <1>2 DEF spaceVars
<1>5. Copied => Copied'
  BY <1>2, <1>4, CopiedStays
<1>6. GameInv'
  BY <1>2, <1>4, <1>5 DEF EditorInv, GameInv, Synced, PartLeft
<1> QED BY <1>1, <1>2, <1>3, <1>6 DEF EditorInv, SpaceStep

\* The invariant is inductive.
LEMMA EditorNext == ASSUME EditorInv, [Next]_vars PROVE EditorInv' /\ SpaceStep
BY FrameStep, SaveStep, GameStep, EditorStutter DEF Next

\* And so holds throughout.
LEMMA EditorInvariant == Spec => []EditorInv
<1>1. Init => EditorInv
  BY EditorInvInit
<1>2. EditorInv /\ [Next]_vars => EditorInv'
  BY EditorNext
<1> QED BY <1>1, <1>2, PTL DEF Spec

\* Whatever the user makes of a document and deletes from it, its links are trees
\* exactly until a deletion leaves an index that strays; no id is given out
\* twice; and the file that is written and read again is the first entity's tree.
THEOREM DocumentIsKept == Spec => []DocumentKept
<1>1. EditorInv => DocumentKept
  <2> SUFFICES ASSUME EditorInv PROVE DocumentKept
    OBVIOUS
  <2>1. (strayed <=> ~TreeOK(ents)) /\ DistinctIds(ents)
    BY DEF EditorInv, SceneInv, DocInv, DocOK
  <2>2. CASE stage = "reopen"
    BY <2>1, <2>2 DEF EditorInv, SceneInv, SaveInv, Depicts, DocumentKept
  <2>3. CASE stage = "open" /\ Len(ents) = Len(file)
    BY <2>1, <2>3, ReadAll DEF EditorInv, SceneInv, SaveInv, DocumentKept
  <2> QED BY <2>1, <2>2, <2>3 DEF DocumentKept
<1> QED BY <1>1, EditorInvariant, PTL

\* What the document says of a transform is what the preview shows of it, on an
\* entity of its own, as soon as nothing of it waits to be synced, whichever
\* entities were deleted; the value, unless the entity has had two transforms.
THEOREM PreviewStaysCurrent == Spec => []PreviewCurrent
<1>1. EditorInv => PreviewCurrent
  <2> SUFFICES ASSUME EditorInv, NEW i \in Indices(ents), NEW k \in DOMAIN ents[i].components,
                      ents[i].components[k].type = "Transform"
               PROVE  LET c == ents[i].components[k]
                          shown == Contains(pStorage["Transform"], ents[i].previewId)
                      IN  /\ c.state = "Pending" => shown
                          /\ c.state = "Idle" =>
                                /\ shown
                                /\ ents[i].sceneId \notin twice =>
                                      Get(pStorage["Transform"], ents[i].previewId) = c.value
                                /\ \A j \in Indices(ents) :
                                      ents[j].previewId = ents[i].previewId => j = i
    BY DEF PreviewCurrent
  <2>1. /\ Sound(pStorage["Transform"], Positions) /\ Distinct(ents)
        /\ Shows(pStorage["Transform"], ents[i], twice)
    BY DEF EditorInv, SceneInv, PreviewInv, PreviewOK
  <2>2. ents[i].components[k].state # "New"
            => Shown(pStorage["Transform"], ents[i], ents[i].components[k], twice)
    BY <2>1 DEF Shows
  <2>3. Contains(pStorage["Transform"], ents[i].previewId)
            <=> ents[i].previewId \in Entities(pStorage["Transform"])
    BY <2>1, ContainsMap
  <2> QED BY <2>1, <2>2, <2>3 DEF Shown, Distinct
<1> QED BY <1>1, EditorInvariant, PTL

\* The constructor of GameEditor leaves its space the document's entities with
\* the types of their components, the value of the last transform each has, a
\* default body where there is one, and a body of the world for each.
THEOREM PlayIsFaithful == Spec => PlayFaithful
<1>1. EditorInv /\ [Next]_vars =>
          [StartGame /\ stage' # stage =>
             /\ alive' = Indices(ents)
             /\ \A i \in Indices(ents), c \in Types :
                   LET mine == {k \in DOMAIN ents[i].components : ents[i].components[k].type = c} IN
                   /\ Contains(storage'[c], i) <=> mine # {}
                   /\ c = "Transform" =>
                        \A k \in mine : (\A l \in mine : l <= k) =>
                           Get(storage'[c], i) = ents[i].components[k].value
                   /\ c = "RigidBody" /\ mine # {} => Get(storage'[c], i) = Origin
             /\ Cardinality(DOMAIN world') = Cardinality(Entities(storage'["RigidBody"]))]_vars
  BY StartedFaithful DEF EditorInv, SceneInv
<1> QED BY <1>1, EditorInvariant, PTL DEF Spec, PlayFaithful

\* However a game is made, run and closed, each storage's map, slots and free
\* list stay in agreement.
THEOREM GamePartitioned == Spec => []SlotsPartitioned
<1>1. EditorInv => SlotsPartitioned
  BY DEF EditorInv, IInv, Storages, Sound, SlotsPartitioned
<1> QED BY <1>1, EditorInvariant, PTL

\* In a running game the bodies are those of the rigid bodies, one each.
THEOREM GameBodied == Spec => []BodiesMatch
<1>1. EditorInv => BodiesMatch
  BY DEF EditorInv, IInv, SpaceTypeOK, Bodily, Matched, BodiesMatch
<1> QED BY <1>1, EditorInvariant, PTL

\* The games that the editor makes implement the relation of entities and
\* components, one after the other.
THEOREM GamesImplement == Spec => ImplementsRelation
<1>1. EditorInv /\ [Next]_vars =>
          [Replaced \/ Manager!Next \/ UNCHANGED <<alive, nextId, Pairs>>]_spaceVars
  BY EditorNext, MovesRefine DEF EditorInv, SpaceStep
<1> QED BY <1>1, EditorInvariant, PTL DEF Spec, ImplementsRelation
=============================================================================
