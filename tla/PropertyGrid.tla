----------------------------- MODULE PropertyGrid -----------------------------
(***************************************************************************)
(* The property grid (libeditor), which draws a row for every part of an   *)
(* object and edits the object in place. In a frame the user acts on at    *)
(* most one row; the rows are drawn over the object as it is, and what a   *)
(* row asks of the array it is in happens once all of its rows are drawn.  *)
(* Rows are dropped on rows of the same array.                             *)
(* The object is also saved and loaded, as the editor of materials, the    *)
(* scene and the settings do.                                              *)
(***************************************************************************)
EXTENDS Reflex

CONSTANTS Roots,        \* the schemas of the objects that are edited
          Entered,      \* what may be entered for a value of each schema
          NoObject,
          MaxItems      \* bounds the size of an array

ASSUME GridAssumption == Roots \subseteq DOMAIN Schemas /\ MaxItems \in Nat

VARIABLES root,       \* the schema of the object
          object,     \* the object
          saved       \* the object as it was saved last

gridVars == <<root, object, saved>>

Row(v, edits, wants) == [value |-> v, edits |-> edits, wants |-> wants]
NoWants == [remove |-> FALSE, from |-> 0]
Untouched(v) == Row(v, FALSE, NoWants)

EnteredFor(s) == IF s \in DOMAIN Entered THEN Entered[s] ELSE {}

\* The editor of a schema is the one for it, which angles have, or the one for its
\* primitive.
PropertyEditor(s) == IF s = "Euler" THEN "Euler" ELSE Schemas[s].primitive

Expandable(s, v) ==
    CASE PropertyEditor(s) \in {"Array", "Pointer"} -> IF v = <<>> THEN "Empty" ELSE "Children"
      [] PropertyEditor(s) = "Object" -> IF Fields(s) = <<>> THEN "None" ELSE "Children"
      [] OTHER -> "None"

CanAddItem(s) == PropertyEditor(s) = "Array"

\* Moves the item at `from` to `to` by exchanging it with its neighbours.
ArrayMoveTo(items, to, from) ==
    LET Exchange(seq, i, j) == [seq EXCEPT ![i] = seq[j], ![j] = seq[i]]
    IN IF from < to
       THEN FoldLeft(LAMBDA seq, k : Exchange(seq, from + k - 1, from + k), items, [k \in 1..(to - from) |-> k])
       ELSE FoldLeft(LAMBDA seq, k : Exchange(seq, from + 1 - k, from - k), items, [k \in 1..(from - to) |-> k])

\* A row itself: its editor, and the buttons and the handle of its label. Rows
\* that can be expanded cannot be dragged. Adding an item is not told to be an edit.
EditRow(s, v, element, act, with) ==
    CASE act = "enter" /\ with \in EnteredFor(s) -> Row(with, TRUE, NoWants)
      [] act = "clear" /\ PropertyEditor(s) = "AssetRef" /\ v # NoAsset -> Row(NoAsset, TRUE, NoWants)
      [] act = "add" /\ CanAddItem(s) /\ Len(v) < MaxItems ->
           Row(Append(v, Constructed(Schemas[s].element)), FALSE, NoWants)
      [] act = "remove" /\ element -> Row(v, FALSE, [NoWants EXCEPT !.remove = TRUE])
      [] act = "drop" /\ element /\ Expandable(s, v) = "None" -> Row(v, FALSE, [NoWants EXCEPT !.from = with])
      [] OTHER -> Untouched(v)

RECURSIVE EditItem(_, _, _, _, _, _)

\* The rows below an object, an array or a pointer. A flattened field has no row
\* of its own, a hidden one none at all. The row of a pointee stands for
\* the pointer in the array the pointer is in.
EditField(s, v, path, act, with) ==
    LET f == FieldOf(s, Head(path))
        hidden == HasAnnotation(f, "Hidden") \/ (HasAnnotation(f, "Flatten") /\ Tail(path) = <<>>)
        row == IF hidden THEN Untouched(v[f.name])
               ELSE EditItem(f.schema, v[f.name], FALSE, Tail(path), act, with)
    IN Row([v EXCEPT ![f.name] = row.value], row.edits, NoWants)

EditElement_Fault(s, v, path, act, with) ==    \* the row is taken for the edit
    LET i == Head(path)
        row == EditItem(Schemas[s].element, v[i], TRUE, Tail(path), act, with)
        edited == [v EXCEPT ![i] = row.value]
    IN CASE row.wants.remove -> Row(RemoveAt(edited, i), row.edits, NoWants)
         [] row.wants.from \in DOMAIN v -> Row(ArrayMoveTo(edited, i, row.wants.from), TRUE, NoWants)
         [] OTHER -> Row(edited, row.edits, NoWants)

EditElement(s, v, path, act, with) ==
    LET i == Head(path)
        row == EditItem(Schemas[s].element, v[i], TRUE, Tail(path), act, with)
        edited == [v EXCEPT ![i] = row.value]
    IN CASE row.wants.remove -> Row(RemoveAt(edited, i), TRUE, NoWants)
         [] row.wants.from \in DOMAIN v -> Row(ArrayMoveTo(edited, i, row.wants.from), TRUE, NoWants)
         [] OTHER -> Row(edited, row.edits, NoWants)

EditPointee(s, v, element, path, act, with) ==
    LET row == EditItem(Schemas[s].element, v[1], element, Tail(path), act, with)
    IN [row EXCEPT !.value = <<@>>]

EditChildren(s, v, element, path, act, with) ==
    CASE PropertyEditor(s) = "Object" -> EditField(s, v, path, act, with)
      [] PropertyEditor(s) = "Array" -> EditElement(s, v, path, act, with)
      [] PropertyEditor(s) = "Pointer" -> EditPointee(s, v, element, path, act, with)

\* The row that the path leads to is the one that is acted on.
EditItem(s, v, element, path, act, with) ==
    CASE path = <<>> -> EditRow(s, v, element, act, with)
      [] path # <<>> /\ Expandable(s, v) = "Children" -> EditChildren(s, v, element, path, act, with)
      [] OTHER -> Untouched(v)

\* The rows of an object: their paths, and the schema of each.
RECURSIVE RowsBelow(_, _)
RowsBelow(s, v) ==
    LET Under(step, part, value) ==
            {[path |-> <<step>>, schema |-> part]}
              \cup {[row EXCEPT !.path = <<step>> \o @] : row \in RowsBelow(part, value)}
    IN CASE Expandable(s, v) # "Children" -> {}
         [] PropertyEditor(s) = "Object" ->
              UNION {Under(name, FieldOf(s, name).schema, v[name]) : name \in FieldNames(s)}
         [] PropertyEditor(s) \in {"Array", "Pointer"} ->
              UNION {Under(i, Schemas[s].element, v[i]) : i \in DOMAIN v}

\* An object as the program makes it, with the objects its fields point to, which
\* nothing that decodes or edits would make.
Created(s) ==
    [name \in FieldNames(s) |->
        LET schema == FieldOf(s, name).schema
        IN IF Schemas[schema].primitive = "Pointer" THEN <<Constructed(Schemas[schema].element)>>
           ELSE Constructed(schema)]

GridInit ==
    /\ root \in Roots
    /\ object = Created(root)
    /\ saved = NoObject

\* The user acts on a row: enters a value, clears a handle, adds an item, removes
\* one, or drops another row of the same array on it.
Frame(row, act, with) ==
    /\ object' = EditChildren(root, object, FALSE, row.path, act, with).value
    /\ UNCHANGED <<root, saved>>

SaveObject ==
    /\ saved' = object
    /\ UNCHANGED <<root, object>>

\* Into the object as it is, or into a new one.
LoadObject ==
    /\ saved # NoObject
    /\ \E into \in {object, Created(root)} :
          object' = DecodeValue(root, EncodeValue(root, saved), into).value
    /\ UNCHANGED <<root, saved>>

GridNext ==
    \/ \E row \in RowsBelow(root, object) :
         \/ \E x \in EnteredFor(row.schema) : Frame(row, "enter", x)
         \/ \E act \in {"clear", "add", "remove"} : Frame(row, act, 0)
         \/ \E from \in 1..MaxItems : Frame(row, "drop", from)
    \/ SaveObject \/ LoadObject

GridSpec == GridInit /\ [][GridNext]_gridVars

-----------------------------------------------------------------------------
(***************************************************************************)
(* What is written reads back the same, over whatever the object has       *)
(* become since and into a new one; and a document from before a field was *)
(* added leaves that field as it is and gives the others what was saved    *)
(* (serialize.cpp: encodeValue, decodeValue).                              *)
(***************************************************************************)
RoundTrips ==
    LET json == EncodeValue(root, saved)
        Older(f) == [json EXCEPT !.is = [m \in DOMAIN @ \ {JsonName(f)} |-> @[m]]]
    IN \A into \in {object, Created(root)} :
         /\ DecodeValue(root, json, into) = Decoded(saved)
         /\ \A f \in Range(Fields(root)) :
              DecodeValue(root, Older(f), into) = Decoded([saved EXCEPT ![f.name] = into[f.name]])

(***************************************************************************)
(* The grid says that it edited the object whenever it did, on which the   *)
(* scene relies to bring its preview up to date; except for an item that   *)
(* was added. An item dropped on another takes its place, and the rest     *)
(* keep their order (property_grid.cpp: children, _editInternal).          *)
(***************************************************************************)
EditsRight ==
    \A row \in RowsBelow(root, object) :
        LET Edited(acts, choices) ==
                {EditChildren(root, object, FALSE, row.path, act, with) : act \in acts, with \in choices}
            Moved(array, from, to) ==
                [object EXCEPT ![array] = InsertAt(RemoveAt(@, from), to, @[from])]
        IN /\ \A edited \in Edited({"enter"}, EnteredFor(row.schema)) \cup Edited({"clear", "remove"}, {0}) :
                edited.value # object => edited.edits
           /\ \A from \in 1..MaxItems : \A dropped \in Edited({"drop"}, {from}) :
                dropped.value # object =>
                    dropped.edits /\ dropped.value = Moved(row.path[1], from, row.path[2])

(***************************************************************************)
(* Both, for every object that has fields. What the grid does has nothing  *)
(* to do with what was saved, so that it is enough to look at it before    *)
(* anything was (property_grid.cpp, serialize.cpp).                        *)
(***************************************************************************)
GridRight == DOMAIN object # {} => IF saved = NoObject THEN EditsRight ELSE RoundTrips
=============================================================================
