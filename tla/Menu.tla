--------------------------------- MODULE Menu ---------------------------------
(***************************************************************************)
(* The menu bar of the editor (libpotato_editor): a tree of menus and      *)
(* commands that is rebuilt from the registered commands when there are    *)
(* more of them than the last time it was drawn. A command names the menu  *)
(* it is in, its title, and a group and a priority that it is sorted by.   *)
(*                                                                         *)
(* Names and groups are compared as text, which is abstracted to numbers   *)
(* that are in the same order. Items are numbered from 1, the root; 0      *)
(* stands for no item.                                                     *)
(***************************************************************************)
EXTENDS Naturals, Sequences, SequencesExt

CONSTANTS MenuCommands,
          Placed,       \* Placed[c]: the menu, title, group and priority of a command
          Categories    \* Categories[path]: the group of a menu that is known beforehand

DefaultGroup == 0
DefaultPriority == 1000
NoCommandId == "none"

ASSUME MenuAssumption ==
    /\ NoCommandId \notin MenuCommands
    /\ \A c \in MenuCommands :
         /\ Placed[c].menu \in Seq(Nat) /\ Placed[c].title \in Nat
         /\ Placed[c].group \in Nat /\ Placed[c].priority \in Nat
         \* No command has the text of a menu.
         /\ \A d \in MenuCommands : ~IsPrefix(Append(Placed[c].menu, Placed[c].title), Placed[d].menu)
    /\ \A path \in DOMAIN Categories : Categories[path] \in Nat

VARIABLES registered,       \* the commands, in the order they were added
          commandVersion, menuVersion,
          items

menuVars == <<registered, commandVersion, menuVersion, items>>

MenuItem(path, id, group, priority) ==
    [path |-> path, id |-> id, group |-> group, priority |-> priority, child |-> 0, sibling |-> 0]

MenuRoot == MenuItem(<<>>, NoCommandId, DefaultGroup, 0)

\* The child of an item, then each one's sibling; no chain is longer than the items.
ChildItems(its, i) ==
    LET next(chain) == IF chain = <<>> THEN its[i].child ELSE its[Last(chain)].sibling
        walked[n \in 0 .. Len(its)] ==
            IF n = 0 THEN <<>>
            ELSE LET chain == walked[n - 1]
                 IN IF next(chain) = 0 THEN chain ELSE Append(chain, next(chain))
    IN walked[Len(its)]

\* An item comes before another by its group, then its priority, then its title.
Precedes(a, b) ==
    \/ a.group < b.group
    \/ a.group = b.group /\ a.priority < b.priority
    \/ a.group = b.group /\ a.priority = b.priority /\ Last(a.path) < Last(b.path)

\* A child goes before the first of its siblings it precedes.
InsertChild_Fault(its, parent, child) ==    \* only the first sibling is compared
    LET chain == ChildItems(its, parent)
        first == chain # <<>> /\ Precedes(its[child], its[chain[1]])
        linked == [its EXCEPT ![child].sibling = IF first THEN chain[1] ELSE 0]
    IN IF chain = <<>> \/ first THEN [linked EXCEPT ![parent].child = child]
       ELSE [linked EXCEPT ![Last(chain)].sibling = child]
InsertChild(its, parent, child) ==
    LET chain == ChildItems(its, parent)
        later == {k \in DOMAIN chain : Precedes(its[child], its[chain[k]])}
        k == IF later = {} THEN Len(chain) + 1 ELSE Min(later)
        linked == [its EXCEPT ![child].sibling = IF later = {} THEN 0 ELSE chain[k]]
    IN IF k = 1 THEN [linked EXCEPT ![parent].child = child]
       ELSE [linked EXCEPT ![chain[k - 1]].sibling = child]

AddItem(its, parent, item) == InsertChild(Append(its, item), parent, Len(its) + 1)

\* The menu of that path, 0 when it has not been made.
FindMenu(its, path) ==
    LET at == {i \in DOMAIN its : its[i].path = path /\ its[i].id = NoCommandId}
    IN IF at = {} THEN 0 ELSE Min(at)

\* A menu nobody knows beforehand is in the default group, ahead of what has the
\* default priority.
NewMenu(path) ==
    IF path \in DOMAIN Categories
    THEN MenuItem(path, NoCommandId, Categories[path], DefaultPriority)
    ELSE MenuItem(path, NoCommandId, DefaultGroup, 0)

\* Makes the menu of that path, where the one it is in has been made.
MakeMenu(its, path) ==
    IF FindMenu(its, path) # 0 THEN its
    ELSE AddItem(its, FindMenu(its, Front(path)), NewMenu(path))

\* Makes the menus on the way to path that are not there, the outermost first.
CreateMenu(its, path) ==
    LET made[n \in 0 .. Len(path)] ==
            IF n = 0 THEN its ELSE MakeMenu(made[n - 1], SubSeq(path, 1, n))
    IN made[Len(path)]

AddToMenu(its, c) ==
    LET place == Placed[c]
        so == CreateMenu(its, place.menu)
    IN AddItem(so, FindMenu(so, place.menu),
               MenuItem(Append(place.menu, place.title), c, place.group, place.priority))

BuiltMenu(commands) ==
    LET built[n \in 0 .. Len(commands)] ==
            IF n = 0 THEN <<MenuRoot>> ELSE AddToMenu(built[n - 1], commands[n])
    IN built[Len(commands)]

MenuInit ==
    /\ registered = <<>>
    /\ commandVersion = 0
    /\ menuVersion = 0
    /\ items = <<>>

AddCommand(c) ==
    /\ c \notin Range(registered)
    /\ registered' = Append(registered, c)
    /\ commandVersion' = commandVersion + 1
    /\ UNCHANGED <<menuVersion, items>>

\* The menu is rebuilt when it was made from another version of the commands.
DrawMenu ==
    /\ menuVersion' = commandVersion
    /\ items' = IF menuVersion # commandVersion THEN BuiltMenu(registered) ELSE items
    /\ UNCHANGED <<registered, commandVersion>>

MenuNext == DrawMenu \/ \E c \in MenuCommands : AddCommand(c)

MenuSpec == MenuInit /\ [][MenuNext]_menuVars

-----------------------------------------------------------------------------
(***************************************************************************)
(* Properties                                                              *)
(***************************************************************************)
Paths(c) == {SubSeq(Placed[c].menu, 1, n) : n \in 0..Len(Placed[c].menu)}

\* A menu that has been drawn since the last command was added has every command
\* once, every menu there is a command in once and no other, each under the menu
\* its path says, and the items of a menu in order: in whatever order the
\* commands were added.
MenuOrdered ==
    menuVersion = commandVersion /\ registered # <<>> =>
        /\ \A c \in Range(registered) : \E i \in DOMAIN items :
             items[i].id = c /\ items[i].path = Append(Placed[c].menu, Placed[c].title)
        /\ \A i, j \in DOMAIN items : items[i].path = items[j].path /\ items[i].id = items[j].id => i = j
        /\ {items[i].path : i \in {k \in DOMAIN items : items[k].id = NoCommandId}}
             = UNION {Paths(c) : c \in Range(registered)}
        /\ \A i \in DOMAIN items :
             LET chain == ChildItems(items, i)
             IN /\ IsInjective(chain)
                /\ Range(chain) = {j \in DOMAIN items \ {1} : Front(items[j].path) = items[i].path
                                                               /\ items[i].id = NoCommandId}
                /\ \A k \in 1..(Len(chain) - 1) : ~Precedes(items[chain[k + 1]], items[chain[k]])
=============================================================================
