-------------------------------- MODULE Vector --------------------------------
(***************************************************************************)
(* up::vector (spud): a growing array that constructs, moves and destroys  *)
(* its elements in raw memory. A buffer is a sequence of cells, each raw   *)
(* or holding an element; every step that a cell is not in the state for   *)
(* (constructing over an element, moving out of raw memory, destroying     *)
(* twice, freeing a live element) is recorded as unsound.                  *)
(*                                                                         *)
(* What the loops over elements do depends on the kind of element: objects *)
(* have their constructors and destructors run, numbers and plain structs  *)
(* are copied as bytes where the compiler lets them.                       *)
(***************************************************************************)
EXTENDS Integers, Sequences

CONSTANTS Elements,
          Kinds,         \* the kinds of element: "number", "struct" or "object"
          MaxSize,       \* bounds the size of a vector, and what is reserved
          RangesInside   \* whether ranges are inserted before the end with room for them

Raw == "raw"          \* memory without an element

ASSUME VectorAssumption ==
    /\ Kinds \subseteq {"number", "struct", "object"}
    /\ MaxSize \in Nat /\ RangesInside \in BOOLEAN
    /\ Raw \notin Elements

VARIABLES kind,       \* the kind of its elements
          vector,     \* its buffer, its size and whether all has been sound
          contents    \* the elements it should hold

vectorVars == <<kind, vector, contents>>

MovedFrom == "moved"      \* an object that has been moved from
Default == "default"  \* an element constructed without a value
Stray == "stray"      \* what lies outside of the buffer

NoVector == [cells |-> <<>>, size |-> 0, sound |-> TRUE]

Capacity(v) == Len(v.cells)
RawCells(n) == [i \in 1..n |-> Raw]

-----------------------------------------------------------------------------
(***************************************************************************)
(* Elements and the loops over them (memory_util.h): what a loop leaves in *)
(* the cells it goes through. Positions count from the first cell, 1.      *)
(***************************************************************************)
Demand(v, condition) == [v EXCEPT !.sound = @ /\ condition]

Alive(v, first, n) == \A i \in first .. first + n - 1 : v.cells[i] # Raw

Taken(v, first, n) == [k \in 1..n |-> v.cells[first + k - 1]]

\* What is left in cells that are moved from.
Left(xs) == IF kind = "object" THEN [k \in DOMAIN xs |-> MovedFrom] ELSE xs

Written(v, first, xs) ==
    [v EXCEPT !.cells =
        [i \in DOMAIN @ |-> IF i \in first .. first + Len(xs) - 1 THEN xs[i + 1 - first] ELSE @[i]]]

DestructN(v, first, n) == Written(Demand(v, Alive(v, first, n)), first, RawCells(n))

ConstructN(v, first, xs) ==
    Written(Demand(v, \A i \in first .. first + Len(xs) - 1 : v.cells[i] = Raw), first, xs)

Construct(v, at, x) == ConstructN(v, at, <<x>>)
Destroy(v, at) == DestructN(v, at, 1)

\* A cell must hold an object to be assigned to.
CopyN(v, xs, first) == Written(Demand(v, kind = "object" => Alive(v, first, Len(xs))), first, xs)

UninitializedCopyN(v, first, n, out) ==
    ConstructN(Demand(v, Alive(v, first, n)), out, Taken(v, first, n))

UninitializedMoveN(v, first, n, out) ==
    Written(UninitializedCopyN(v, first, n, out), first, Left(Taken(v, first, n)))

\* To lower positions, from the first to the last: each is read before it is
\* written. The types of the program that are held in vectors guard against
\* assignment to themselves.
MoveN(v, first, n, out) ==
    CopyN(Written(Demand(v, Alive(v, first, n)), first, Left(Taken(v, first, n))),
          Taken(v, first, n), out)

\* To higher ones, from the last to the first. The loop ends at outLast, the
\* bytes of a struct before it, and these are taken from before first.
MoveBackwardsN(v, first, n, outLast) ==
    IF kind = "struct"
    THEN [v EXCEPT !.cells =
            [i \in DOMAIN @ |->
                LET from == i + first
                IN IF i + n < outLast \/ i >= outLast THEN @[i]
                   ELSE IF from > outLast THEN @[from - outLast] ELSE Stray]]
    ELSE MoveN(v, first, n, outLast + 1 - n)

\* Another buffer beside the vector's, which is freed when what is to be in the
\* new one has been constructed there and the rest of the old one destroyed.
Beside(v, capacity) == [v EXCEPT !.cells = @ \o RawCells(capacity)]

Relocated(v, both, size) ==
    LET old == Capacity(v)
        freed == DestructN(both, 1, v.size)
    IN [Demand(freed, \A i \in 1..old : freed.cells[i] = Raw)
            EXCEPT !.cells = SubSeq(@, old + 1, Len(@)), !.size = size]

-----------------------------------------------------------------------------
(***************************************************************************)
(* The operations.                                                         *)
(***************************************************************************)
MovedTo(v, capacity) ==
    Relocated(v, UninitializedMoveN(Beside(v, capacity), 1, v.size, Capacity(v) + 1), v.size)

Reserve(v, required) == IF Capacity(v) >= required THEN v ELSE MovedTo(v, required)

Resize(v, size, x) ==
    IF v.size < size
    THEN [ConstructN(Reserve(v, size), v.size + 1, [k \in 1..(size - v.size) |-> x]) EXCEPT !.size = size]
    ELSE [DestructN(v, size + 1, v.size - size) EXCEPT !.size = size]

ClearElements(v) == [DestructN(v, 1, v.size) EXCEPT !.size = 0]

ShrinkToFit(v) ==
    CASE v.size = 0 -> [v EXCEPT !.cells = <<>>]
      [] v.size > 0 /\ Capacity(v) > v.size -> MovedTo(v, v.size)
      [] OTHER -> v

\* The capacity it grows to: half as much again, and not below what is needed.
GrownCapacity(v, minimum) == LET more == Capacity(v) + (Capacity(v) \div 2) IN IF more < minimum THEN minimum ELSE more

\* Constructs xs before pos in a larger buffer; the elements that are there are
\* moved, by a single insertion, or copied, by one of a range.
GrowInsert(v, pos, xs, moving) ==
    LET new == Capacity(v) + 1
        Take(u, first, n, out) ==
            IF moving THEN UninitializedMoveN(u, first, n, out) ELSE UninitializedCopyN(u, first, n, out)
        both == ConstructN(Beside(v, GrownCapacity(v, v.size + Len(xs))), new + pos - 1, xs)
        before == Take(both, 1, pos - 1, new)
    IN Relocated(v, Take(before, pos, v.size + 1 - pos, new + pos - 1 + Len(xs)), v.size + Len(xs))

EmplaceBack(v, x) ==
    IF v.size < Capacity(v) THEN [Construct(v, v.size + 1, x) EXCEPT !.size = @ + 1]
    ELSE GrowInsert(v, v.size + 1, <<x>>, TRUE)

\* Makes room before pos, in the memory behind the elements first.
RShift(v, pos, shift) ==
    LET behind == v.size + 1 - pos
        tail == IF behind < shift THEN behind ELSE shift
        head == behind - tail
        moved == UninitializedMoveN(v, v.size + 1 - tail, tail, v.size + 1 + shift - tail)
    IN MoveBackwardsN([moved EXCEPT !.size = @ + shift], pos, head, pos + head)

Emplace_Fault(v, pos, x) ==    \* the element that was moved away is not destroyed
    CASE pos = v.size + 1 -> EmplaceBack(v, x)
      [] pos <= v.size /\ v.size < Capacity(v) -> Construct(RShift(v, pos, 1), pos, x)
      [] OTHER -> GrowInsert(v, pos, <<x>>, TRUE)
Emplace(v, pos, x) ==
    CASE pos = v.size + 1 -> EmplaceBack(v, x)
      [] pos <= v.size /\ v.size < Capacity(v) -> Construct(Destroy(RShift(v, pos, 1), pos), pos, x)
      [] OTHER -> GrowInsert(v, pos, <<x>>, TRUE)

\* RShift has already counted the elements that are added here once more.
InsertRange(v, pos, xs) ==
    IF Capacity(v) - v.size >= Len(xs)
    THEN LET there == IF pos = v.size + 1 THEN ConstructN(v, pos, xs)
                      ELSE CopyN(RShift(v, pos, Len(xs)), xs, pos)
         IN [there EXCEPT !.size = @ + Len(xs)]
    ELSE GrowInsert(v, pos, xs, FALSE)

PopBack(v) == [Destroy(v, v.size) EXCEPT !.size = @ - 1]

EraseAt(v, pos) == PopBack(MoveN(v, pos + 1, v.size - pos, pos))

\* Erases the elements from first up to and without last.
EraseRange(v, first, last) ==
    LET count == last - first
        moved == MoveN(v, last, v.size + 1 - last, first)
    IN [DestructN(moved, v.size + 1 - count, count) EXCEPT !.size = @ - count]

-----------------------------------------------------------------------------
VectorInit ==
    /\ kind \in Kinds
    /\ vector = NoVector
    /\ contents = <<>>

Becomes(vec, expected) ==
    /\ Len(expected) <= MaxSize
    /\ vector' = vec
    /\ contents' = expected
    /\ UNCHANGED kind

Before(pos) == SubSeq(contents, 1, pos - 1)
From(pos) == SubSeq(contents, pos, Len(contents))

DoPushBack == \E x \in Elements : Becomes(EmplaceBack(vector, x), Append(contents, x))

DoEmplace ==
    \E x \in Elements, pos \in 1..(Len(contents) + 1) :
        Becomes(Emplace(vector, pos, x), Before(pos) \o <<x>> \o From(pos))

DoInsertRange ==
    \E xs \in [1..2 -> Elements], pos \in 1..(Len(contents) + 1) :
        /\ pos <= Len(contents) /\ Capacity(vector) - Len(contents) >= Len(xs) => RangesInside
        /\ Becomes(InsertRange(vector, pos, xs), Before(pos) \o xs \o From(pos))

DoReserve == \E n \in 1..MaxSize : Becomes(Reserve(vector, n), contents)

DoResize ==
    \E n \in 0..MaxSize, x \in Elements \cup {Default} :
        Becomes(Resize(vector, n, x),
                [i \in 1..n |-> IF i <= Len(contents) THEN contents[i] ELSE x])

DoClear == Becomes(ClearElements(vector), <<>>)
DoShrinkToFit == Becomes(ShrinkToFit(vector), contents)

DoPopBack ==
    /\ contents # <<>>
    /\ Becomes(PopBack(vector), Before(Len(contents)))

DoErase ==
    \E pos \in DOMAIN contents :
        Becomes(EraseAt(vector, pos), Before(pos) \o From(pos + 1))

DoEraseRange ==
    \E first, last \in 1..(Len(contents) + 1) :
        /\ first <= last
        /\ Becomes(EraseRange(vector, first, last), Before(first) \o From(last))

\* Another vector, made of a list, is assigned: its buffer takes the place of
\* the vector's own, which is freed.
DoAssign ==
    \E n \in 0..MaxSize : \E xs \in [1..n -> Elements] :
        LET freed == ShrinkToFit(ClearElements(vector))
            source == InsertRange(NoVector, 1, xs)
        IN Becomes(Demand(source, freed.sound /\ freed.cells = <<>>), xs)

VectorNext ==
    \/ DoPushBack \/ DoEmplace \/ DoInsertRange
    \/ DoReserve \/ DoResize \/ DoClear \/ DoShrinkToFit
    \/ DoPopBack \/ DoErase \/ DoEraseRange \/ DoAssign

VectorSpec == VectorInit /\ [][VectorNext]_vectorVars

-----------------------------------------------------------------------------
(***************************************************************************)
(* Properties                                                              *)
(***************************************************************************)
\* After any sequence of calls a vector holds the elements it should, in their
\* order, the memory behind them is raw, and no element has been constructed
\* over another, used before it was there, leaked or destroyed twice.
VectorRight ==
    /\ vector.sound
    /\ vector.size = Len(contents) /\ vector.size <= Capacity(vector)
    /\ \A i \in DOMAIN vector.cells :
         vector.cells[i] = IF i <= vector.size THEN contents[i] ELSE Raw
=============================================================================
