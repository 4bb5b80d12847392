-------------------------------- MODULE HashTable --------------------------------
(***************************************************************************)
(* The open-addressing table behind hash_map and hash_set (_hash_table.h,  *)
(* hash_map.h; hash_set.h is the same without values).  Slots come in      *)
(* groups of Width, a control byte each: Empty, Tombstone, or seven bits   *)
(* of the hash of the item in the slot.  A search starts in the group the  *)
(* rest of the hash selects and probes on, group by group, until it finds  *)
(* its key or a group with an empty slot.                                  *)
(*                                                                         *)
(* A call is one action, but for an insertion that grows the table: that   *)
(* re-inserts the items of the old table one by one, in rest, before its   *)
(* own.  A search that meets neither its key nor an empty slot in any      *)
(* group never ends, so the call that makes it has no step here.           *)
(*                                                                         *)
(* A slot is <<group, position>>, in the code group * WIDTH + position.    *)
(*                                                                         *)
(* Operators named X_Fault are faulty variants of X that the mutation      *)
(* checks put in its place; no specification uses them.                    *)
(***************************************************************************)
EXTENDS Naturals, FiniteSets, Sequences

CONSTANTS
    Keys, Values, NoValue,
    H1, H2,          \* the two parts of a key's hash
    Width,           \* constants::WIDTH
    Load,            \* constants::GROUP_LOAD
    DropThreshold,   \* constants::DROP_THRESHOLD
    Empty, Tombstone,
    MaxGroups        \* bound: the largest table

ASSUME WidthAssumption == Width \in Nat /\ Load \in 1 .. Width - 1
ASSUME HashAssumption ==
    /\ \A k \in Keys : H1[k] \in Nat
    /\ \A k \in Keys : H2[k] \notin {Empty, Tombstone}
    /\ Empty # Tombstone
ASSUME ValueAssumption == NoValue \notin Keys \cup Values

VARIABLES
    size, groups, control, items,    \* the members of hash_map
    inserting,    \* the item whose insertion has made the table grow
    rest          \* the items of the old table that are yet to be moved

vars == <<size, groups, control, items, inserting, rest>>

Positions == 0 .. Width - 1
Slots(g) == (0 .. g - 1) \X Positions
Item == [key : Keys, value : Values]
NoItem == [key |-> NoValue, value |-> NoValue]
NoInsert == NoItem
Growing == inserting # NoInsert

Init ==
    /\ size = 0
    /\ groups = 0
    /\ control = [s \in Slots(0) |-> Empty]
    /\ items = [s \in Slots(0) |-> NoItem]
    /\ inserting = NoInsert
    /\ rest = <<>>

(***************************************************************************)
(* Searches.  The n-th probe is n groups beyond the one before it, and the *)
(* first `groups` of them visit every group.                               *)
(***************************************************************************)
Group(k, n) == (H1[k] + ((n * (n + 1)) \div 2)) % groups
Probes == 0 .. groups - 1

First(S) == {i \in S : \A j \in S : i <= j}

Matches(k, g) == {i \in Positions : /\ control[<<g, i>>] = H2[k]
                                    /\ items[<<g, i>>].key = k}
HasEmpty(g) == \E i \in Positions : control[<<g, i>>] = Empty
Available(g) == {i \in Positions : control[<<g, i>>] \in {Empty, Tombstone}}

\* find's loop returns at its n-th probe, and at none before it.
Stops(k, n) == Matches(k, Group(k, n)) # {} \/ HasEmpty(Group(k, n))
StopsAt(k, n) == Stops(k, n) /\ \A m \in 0 .. n - 1 : ~Stops(k, m)
Ends(k) == size = 0 \/ \E n \in Probes : StopsAt(k, n)

\* The slots a search that ends returns: one, or none for SENTINEL.
Find(k) ==
    {s \in Slots(groups) :
        /\ size # 0
        /\ s[2] \in First(Matches(k, s[1]))
        /\ \E n \in Probes : StopsAt(k, n) /\ Group(k, n) = s[1]}

\* The slot findEmptyOrTombstone returns: the first in the first group with one.
FindEmptyOrTombstone(k) ==
    {s \in Slots(groups) :
        /\ s[2] \in First(Available(s[1]))
        /\ \E n \in Probes :
              /\ Group(k, n) = s[1]
              /\ \A m \in 0 .. n - 1 : Available(Group(k, m)) = {}}

(***************************************************************************)
(* Insertion                                                               *)
(***************************************************************************)
\* _insert: the value of a key that is there is replaced.
Replace(item) ==
    \E s \in Find(item.key) :
       /\ items' = [items EXCEPT ![s].value = item.value]
       /\ UNCHANGED <<control, size>>
Place(item) ==
    /\ Find(item.key) = {}
    /\ \E s \in FindEmptyOrTombstone(item.key) :
          /\ items' = [items EXCEPT ![s] = item]
          /\ control' = [control EXCEPT ![s] = H2[item.key]]
    /\ size' = size + 1
Insert(item) == Ends(item.key) /\ (Replace(item) \/ Place(item))

Full == {s \in Slots(groups) : control[s] \notin {Empty, Tombstone}}
Overloaded == size >= groups * Load

InsertInto(item) ==
    /\ ~Growing
    /\ ~Overloaded
    /\ Insert(item)
    /\ UNCHANGED <<groups, inserting, rest>>

\* A fresh table; before its own item the insertion moves the old items to it,
\* in the order of their slots.
Grown == IF groups = 0 THEN 1 ELSE 2 * groups
Allocate(g) ==
    /\ groups' = g
    /\ control' = [s \in Slots(g) |-> Empty]
    /\ items' = [s \in Slots(g) |-> NoItem]
    /\ size' = 0
InOrder(order) ==
    \A m, n \in DOMAIN order : m < n =>
        \/ order[m][1] < order[n][1]
        \/ order[m][1] = order[n][1] /\ order[m][2] < order[n][2]
Moved_Fault == Full \ {<<groups - 1, Width - 1>>}    \* one short of oldCapacity
Moved == Full

Grow(item) ==
    /\ ~Growing
    /\ Overloaded
    /\ Grown <= MaxGroups
    /\ Allocate(Grown)
    /\ inserting' = item
    /\ \E order \in [1 .. Cardinality(Moved) -> Moved] :
          /\ InOrder(order)
          /\ rest' = [i \in DOMAIN order |-> items[order[i]]]

MoveNext ==
    /\ Growing
    /\ rest # <<>>
    /\ ~Overloaded
    /\ Insert(Head(rest))
    /\ rest' = Tail(rest)
    /\ UNCHANGED <<groups, inserting>>

GrowDone ==
    /\ Growing
    /\ rest = <<>>
    /\ Insert(inserting)
    /\ inserting' = NoInsert
    /\ UNCHANGED <<groups, rest>>

(***************************************************************************)
(* Removal                                                                 *)
(***************************************************************************)
\* A group without an empty slot may be part of a probe chain.
Erased_Fault(s) == Empty
Erased(s) == IF HasEmpty(s[1]) THEN Empty ELSE Tombstone

Erase(k) ==
    /\ ~Growing
    /\ size # 0
    /\ Ends(k)
    /\ \E s \in Find(k) :
          /\ control' = [control EXCEPT ![s] = Erased(s)]
          /\ items' = [items EXCEPT ![s] = NoItem]
    /\ size' = size - 1
    /\ UNCHANGED <<groups, inserting, rest>>

\* A large table is dropped, a small one emptied; one without items keeps its
\* tombstones.
Clear ==
    /\ ~Growing
    /\ size # 0
    /\ Allocate(IF groups >= DropThreshold THEN 0 ELSE groups)
    /\ UNCHANGED <<inserting, rest>>

\* The table is moved away and left without memory.
MoveAway ==
    /\ ~Growing
    /\ Allocate(0)
    /\ UNCHANGED <<inserting, rest>>

Next ==
    \/ \E k \in Keys, v \in Values :
          LET item == [key |-> k, value |-> v] IN InsertInto(item) \/ Grow(item)
    \/ MoveNext \/ GrowDone
    \/ \E k \in Keys : Erase(k)
    \/ Clear \/ MoveAway

Spec == Init /\ [][Next]_vars

(***************************************************************************)
(* Properties                                                              *)
(***************************************************************************)
TableOK ==
    /\ size \in Nat /\ groups \in Nat
    /\ control \in [Slots(groups) -> {H2[k] : k \in Keys} \cup {Empty, Tombstone}]
    /\ items \in [Slots(groups) -> Item \cup {NoItem}]
    /\ \A s \in Slots(groups) :
          IF s \in Full THEN items[s] \in Item /\ control[s] = H2[items[s].key]
                        ELSE items[s] = NoItem
TypeOK ==
    /\ TableOK
    /\ inserting \in Item \cup {NoInsert}
    /\ rest \in Seq(Item)

\* What the table holds, or has yet to move; an insertion that grows the table
\* takes effect when it starts.
Held == {items[s] : s \in Full} \cup {rest[i] : i \in DOMAIN rest}
ValueIn(held, insert, k) ==
    CASE insert # NoInsert /\ insert.key = k -> insert.value
      [] ~(insert # NoInsert /\ insert.key = k) /\ (\E item \in held : item.key = k) ->
            (CHOOSE item \in held : item.key = k).value
      [] OTHER -> NoValue
Contents == [k \in Keys |-> ValueIn(Held, inserting, k)]

\* The table is a dictionary: an insertion sets the value of its key and an
\* erasure removes its key, through tombstones, probe chains and growth, and
\* neither touches another key.
D == INSTANCE Dictionary WITH dict <- Contents
ImplementsDictionary == D!Spec

\* A search that ends tells the truth: it returns the one slot its key is in,
\* and none for a key that is not in the table.
FindRight ==
    \A k \in Keys : Ends(k) => Find(k) = {s \in Full : items[s].key = k}

\* The count that decides growth is that of the items, and within the load; a
\* table that has grown takes all its old items and the new one without growing
\* again under them.
SizeExact ==
    /\ size = Cardinality(Full)
    /\ size <= groups * Load
    /\ Growing => size + Len(rest) < groups * Load

\* Every search ends, that is meets an empty slot if not its key (contains is
\* asked for absent keys).
SearchesEnd == \A k \in Keys : Ends(k)

=============================================================================
