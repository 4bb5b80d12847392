------------------------------- MODULE Ownership -------------------------------
(***************************************************************************)
(* The classes that own memory: spud's rc and shared, box, string and         *)
(* delegate, and libruntime's com_ptr.  Each is a pointer; they differ in    *)
(* whether it is counted and in the order in which an assignment lets the     *)
(* old object go and fetches the new one.  The count is atomic, and threads   *)
(* with rc's of their own for one object run between each other's steps.     *)
(* An assignment that reads or counts up memory that the program has given   *)
(* back is undefined behaviour: the model notes it in `ruined` and ends.     *)
(***************************************************************************)
EXTENDS Naturals, Sequences, FiniteSets

CONSTANTS
    Pointers,    \* variables of the class in question
    Threads,
    Runner,     \* [Pointers -> Threads]
    MaxCells    \* bound: allocations

ASSUME RunnerAssumption == Runner \in [Pointers -> Threads]

VARIABLES
    class,      \* "rc", "com_ptr", "box", "string" or "delegate": of all the holders
    points,     \* each holder's pointer, 0 for nullptr
    cells,      \* what was allocated: its count, a pointer of its own, deleted or not
    letting,    \* the objects each thread's call is letting go of, step by step
    then,       \* the assignment that the call ends with
    ruined      \* the assignment that used deleted memory, if any did

ownershipVars == <<class, points, cells, letting, then, ruined>>

Classes == {"rc", "com_ptr", "box", "string", "delegate"}
Counted == class \in {"rc", "com_ptr"}

Nothing == [do |-> "nothing"]

OwnershipInit ==
    /\ class \in Classes
    /\ points = [h \in Pointers |-> 0]
    /\ cells = <<>>
    /\ letting = [t \in Threads |-> <<>>]
    /\ then = [t \in Threads |-> Nothing]
    /\ ruined = Nothing

\* One count for the holder it is made in; objects of rc and box may own another.
NewCell(member) == [refs |-> 1, member |-> member, freed |-> FALSE]

\* _removeRef, _decRef, _deallocate, _free or the functor's destruct.
Lose(p) ==
    IF p = 0 THEN <<>>
    ELSE <<[do |-> IF Counted THEN "unref" ELSE "delete", cell |-> p]>>

Copy(h, from) == [do |-> "copy", holder |-> h, from |-> from]
Clone(h, from) == [do |-> "clone", holder |-> h, from |-> from]
Take(h, from) == [do |-> "take", holder |-> h, from |-> from]
Put(h, p) == [do |-> "put", holder |-> h, cell |-> p]
Member(h, step, p) == [do |-> step, holder |-> h, cell |-> p]
AddRef(h, step) == [do |-> step, holder |-> h]

-----------------------------------------------------------------------------
(* Calls: what they do at once, what they let go of and what they assign then *)

Idle(h) == letting[Runner[h]] = <<>> /\ then[Runner[h]] = Nothing

Begin(h, lost, assignment) ==
    /\ Idle(h)
    /\ letting' = [letting EXCEPT ![Runner[h]] = Lose(lost)]
    /\ then' = [then EXCEPT ![Runner[h]] = assignment]
    /\ UNCHANGED class

\* h = new_shared<T>(move(from)), new_box, a string's characters, a functor.
Make(h, from) ==
    /\ Len(cells) < MaxCells
    /\ from = h \/ (Runner[from] = Runner[h] /\ class \in {"rc", "box"})
    /\ LET member == IF from = h THEN 0 ELSE points[from] IN
       /\ cells' = Append(cells, NewCell(member))
       /\ points' = [points EXCEPT ![from] = IF from = h THEN @ ELSE 0]
       /\ Begin(h, points[h], Put(h, Len(cells) + 1))

\* Copy construction (of an empty holder) and copy assignment: a counted pointer
\* leaves itself alone, a string does not.
CopyAssign_Fault(h, from) ==
    /\ Runner[from] = Runner[h]
    /\ \/ Counted /\ Begin(h, points[h], Copy(h, from))
       \/ class = "string" /\ Begin(h, points[h], Clone(h, from))
    /\ UNCHANGED <<points, cells>>
CopyAssign(h, from) ==
    /\ Runner[from] = Runner[h]
    /\ \/ Counted /\ h # from /\ Begin(h, points[h], Copy(h, from))
       \/ class = "string" /\ Begin(h, points[h], Clone(h, from))
    /\ UNCHANGED <<points, cells>>

\* The counted pointer that is copied or moved may be a member of the very object
\* that the assignment lets go, as in `node = node->next`.
AssignOut(h) ==
    /\ Counted /\ points[h] # 0
    /\ \E step \in {"inside", "pull"} : Begin(h, points[h], Member(h, step, points[h]))
    /\ UNCHANGED <<points, cells>>

\* Move construction and assignment.  All but a box leave themselves alone.
MoveAssign(h, from) ==
    /\ class # "box" /\ h # from /\ Runner[from] = Runner[h]
    /\ Begin(h, points[h], Take(h, from))
    /\ UNCHANGED <<points, cells>>

\* A box is reset to what the other has released first, itself included ...
MoveBox(h, from) ==
    /\ class = "box" /\ Runner[from] = Runner[h]
    /\ points' = [points EXCEPT ![from] = 0]
    /\ Begin(h, points'[h], Put(h, points[from]))
    /\ UNCHANGED cells

\* ... and so is moved safely out of the object that the box lets go.
MoveBoxOut(h) ==
    /\ class = "box" /\ points[h] # 0
    /\ cells' = [cells EXCEPT ![points[h]].member = 0]
    /\ Begin(h, points[h], Put(h, cells[points[h]].member))
    /\ UNCHANGED points

\* reset, assignment of nullptr, the destructor of all but a delegate.
Clear(h) ==
    /\ points[h] # 0
    /\ Begin(h, points[h], Put(h, 0))
    /\ UNCHANGED <<points, cells>>

\* The destructor of a delegate does not destruct what it holds.
ForgetFunctor(h) ==
    /\ class = "delegate"
    /\ points' = [points EXCEPT ![h] = 0]
    /\ Begin(h, 0, Nothing)
    /\ UNCHANGED cells

\* string::swap
Swap(h, with) ==
    /\ class = "string" /\ Runner[with] = Runner[h]
    /\ points' = [points EXCEPT ![h] = points[with], ![with] = points[h]]
    /\ Begin(h, 0, Nothing)
    /\ UNCHANGED cells

\* A thread hands one of its holders' objects over to another thread.
HandOver(h, to) ==
    /\ Runner[to] # Runner[h] /\ Idle(h) /\ Idle(to)
    /\ points[h] # 0 /\ points[to] = 0
    /\ points' = [points EXCEPT ![to] = points[h], ![h] = 0]
    /\ UNCHANGED <<class, cells, letting, then>>

-----------------------------------------------------------------------------
(* Letting go, the innermost object first *)

Top(t) == Head(letting[t])
Lets(t, step) == letting[t] # <<>> /\ Top(t).do = step
Replace(t, steps) ==
    letting' = [letting EXCEPT ![t] = steps \o Tail(letting[t])] /\ UNCHANGED <<class, then>>

\* if (--_refs == 0) delete this;
Unref(t) ==
    /\ Lets(t, "unref")
    /\ LET cell == Top(t).cell
           left == cells[cell].refs - 1
       IN  /\ cells' = [cells EXCEPT ![cell].refs = left]
           /\ Replace(t, IF left = 0 THEN <<[do |-> "delete", cell |-> cell]>> ELSE <<>>)
    /\ UNCHANGED points

\* The destructor ends with the object's own pointer, then the memory goes.
Delete(t) ==
    /\ Lets(t, "delete")
    /\ LET cell == Top(t).cell
       IN  Replace(t, Lose(cells[cell].member) \o <<[do |-> "free", cell |-> cell]>>)
    /\ UNCHANGED <<points, cells>>

Free(t) ==
    /\ Lets(t, "free")
    /\ cells' = [cells EXCEPT ![Top(t).cell].freed = TRUE, ![Top(t).cell].member = 0]
    /\ Replace(t, <<>>)
    /\ UNCHANGED points

-----------------------------------------------------------------------------
(* The assignment, when there is nothing more to let go *)

Gone(c) ==
    /\ c # 0
    /\ \/ cells[c].freed
       \/ \E t \in Threads : \E i \in DOMAIN letting[t] :
              letting[t][i].do # "unref" /\ letting[t][i].cell = c

\* The assignment counts up, copies or reads from an object that is gone.
Spoils(t) ==
    /\ letting[t] = <<>>
    /\ \/ then[t].do \in {"ref", "count"} /\ Gone(points[then[t].holder])
       \/ then[t].do = "clone" /\ Gone(points[then[t].from])
       \/ then[t].do \in {"inside", "pull"} /\ Gone(then[t].cell)

Ruin(t) ==
    /\ ruined = Nothing /\ Spoils(t)
    /\ ruined' = then[t]
    /\ UNCHANGED <<class, points, cells, letting, then>>

Assigns(t, step) == letting[t] = <<>> /\ then[t].do = step /\ ~Spoils(t)
Continue(t, assignment) ==
    then' = [then EXCEPT ![t] = assignment] /\ UNCHANGED <<class, letting>>

RunCopy(t) ==
    /\ Assigns(t, "copy")
    /\ points' = [points EXCEPT ![then[t].holder] = points[then[t].from]]
    /\ Continue(t, AddRef(then[t].holder, "ref"))
    /\ UNCHANGED cells

\* The same with a member of the object that was let go and that others keep.
RunInside(t) ==
    /\ Assigns(t, "inside")
    /\ points' = [points EXCEPT ![then[t].holder] = cells[then[t].cell].member]
    /\ Continue(t, AddRef(then[t].holder, "count"))
    /\ UNCHANGED cells

RunPull(t) ==
    /\ Assigns(t, "pull")
    /\ points' = [points EXCEPT ![then[t].holder] = cells[then[t].cell].member]
    /\ cells' = [cells EXCEPT ![then[t].cell].member = 0]
    /\ Continue(t, Nothing)

RunRef(t) ==
    /\ Assigns(t, "ref") \/ Assigns(t, "count")
    /\ LET p == points[then[t].holder]
       IN  IF p = 0 THEN UNCHANGED cells ELSE cells' = [cells EXCEPT ![p].refs = @ + 1]
    /\ Continue(t, Nothing)
    /\ UNCHANGED points

RunTake(t) ==
    /\ Assigns(t, "take")
    /\ points' = [points EXCEPT ![then[t].holder] = points[then[t].from], ![then[t].from] = 0]
    /\ Continue(t, Nothing)
    /\ UNCHANGED cells

RunPut(t) ==
    /\ Assigns(t, "put")
    /\ points' = [points EXCEPT ![then[t].holder] = then[t].cell]
    /\ Continue(t, Nothing)
    /\ UNCHANGED cells

\* _copy: an empty string has no memory.
RunClone(t) ==
    /\ Assigns(t, "clone")
    /\ IF points[then[t].from] = 0
       THEN points' = [points EXCEPT ![then[t].holder] = 0] /\ UNCHANGED cells
       ELSE /\ Len(cells) < MaxCells
            /\ cells' = Append(cells, NewCell(0))
            /\ points' = [points EXCEPT ![then[t].holder] = Len(cells) + 1]
    /\ Continue(t, Nothing)

OwnershipActs ==
    \/ \E h \in Pointers : Clear(h) \/ ForgetFunctor(h) \/ MoveBoxOut(h) \/ AssignOut(h)
    \/ \E h, g \in Pointers : \/ Make(h, g) \/ CopyAssign(h, g) \/ MoveAssign(h, g)
                             \/ MoveBox(h, g) \/ Swap(h, g) \/ HandOver(h, g)
    \/ \E t \in Threads : \/ Unref(t) \/ Delete(t) \/ Free(t) \/ RunCopy(t) \/ RunRef(t)
                          \/ RunInside(t) \/ RunPull(t) \/ RunTake(t) \/ RunPut(t) \/ RunClone(t)

OwnershipNext ==
    \/ ruined = Nothing /\ UNCHANGED ruined /\ OwnershipActs
    \/ \E t \in Threads : Ruin(t)
    \/ UNCHANGED ownershipVars

OwnershipSpec == OwnershipInit /\ [][OwnershipNext]_ownershipVars

-----------------------------------------------------------------------------
Owners(c) ==
    Cardinality({h \in Pointers : points[h] = c})
    + Cardinality({d \in DOMAIN cells : cells[d].member = c})

\* Two assignments use memory that they have given back themselves: a string's
\* to itself, and a counted pointer's out of the object that it lets go.
Careless(a) ==
    \/ a.do = "clone" /\ a.from = a.holder
    \/ a.do \in {"inside", "pull", "count"}

\* Whatever the threads do with pointers of their own, and at each step of it:
\* nothing that was deleted is deleted again or pointed to by a holder that is not
\* being assigned, or counted up or read by an assignment but for the two careless
\* ones; and when no call is under way the count is the number of owners, a box's,
\* string's or delegate's object has one, and what has none has been deleted, but
\* for the functors that delegates forget.
OwnedRight ==
    /\ ruined = Nothing \/ Careless(ruined)
    /\ \A h \in Pointers : points[h] # 0 /\ Idle(h) => ~cells[points[h]].freed
    /\ \A t \in Threads : letting[t] # <<>> => ~cells[Top(t).cell].freed
    /\ (\A h \in Pointers : Idle(h)) =>
           \A c \in DOMAIN cells :
               /\ cells[c].freed => Owners(c) = 0
               /\ ~cells[c].freed => \/ cells[c].refs = Owners(c) /\ Owners(c) # 0
                                     \/ class = "delegate" /\ Owners(c) = 0
=============================================================================
