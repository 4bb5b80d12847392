------------------------------ MODULE Workspace ------------------------------
(***************************************************************************)
(* The workspace of the editor (libpotato_editor): the editors that are    *)
(* open, in the order they were opened, the next id and the id of the      *)
(* editor that had the focus last (which may be gone). An editor that is   *)
(* asked to close is closed by its next update, and removed by the update  *)
(* of the workspace after that.                                            *)
(***************************************************************************)
EXTENDS Naturals, Sequences, FiniteSets

CONSTANTS NoDocument

NoEditor == 0

Editor(id, type, doc) ==
    [id |-> id, type |-> type, doc |-> doc, wantClose |-> FALSE, closed |-> FALSE]

NewWorkspace == [editors |-> <<>>, next |-> 1, focused |-> NoEditor]

Closeable(editor) == editor.type # "assets"

\* The position of the editor with an id, 0 when it is not open any more.
Position(ws, id) ==
    LET at == {i \in DOMAIN ws.editors : ws.editors[i].id = id}
    IN IF at = {} THEN 0 ELSE CHOOSE i \in at : TRUE

FocusedType(ws) == ws.editors[Position(ws, ws.focused)].type

CanClose(ws, id) == Position(ws, id) # 0 /\ Closeable(ws.editors[Position(ws, id)])

CreateEditor(ws, type, doc) ==
    [ws EXCEPT !.editors = Append(@, Editor(ws.next, type, doc)), !.next = @ + 1]

\* An editor of that type (and, for documents, of that document) is brought to
\* the front, whether it is about to close or not; else one is created.
OpenEditor(ws, type) ==
    IF \E i \in DOMAIN ws.editors : ws.editors[i].type = type
    THEN ws ELSE CreateEditor(ws, type, NoDocument)

OpenDocument_Fault(ws, type, doc) ==    \* an editor that is about to close does not count
    IF \E i \in DOMAIN ws.editors :
         ws.editors[i].type = type /\ ws.editors[i].doc = doc /\ ~ws.editors[i].wantClose
    THEN ws ELSE CreateEditor(ws, type, doc)
OpenDocument(ws, type, doc) ==
    IF \E i \in DOMAIN ws.editors : ws.editors[i].type = type /\ ws.editors[i].doc = doc
    THEN ws ELSE CreateEditor(ws, type, doc)

\* Whether it may be closed is not asked here.
Close(ws, id) ==
    IF Position(ws, id) = 0 THEN ws
    ELSE [ws EXCEPT !.editors[Position(ws, id)].wantClose = TRUE]

CloseAll(ws) ==
    LET asked(editor) == [editor EXCEPT !.wantClose = @ \/ Closeable(editor)]
    IN [ws EXCEPT !.editors = [i \in DOMAIN ws.editors |-> asked(ws.editors[i])]]

\* What is left of the editors when the closed ones are erased, one by one.
Remaining(editors) ==
    LET left[n \in 0 .. Len(editors)] ==
            IF n = 0 THEN <<>>
            ELSE IF editors[n].closed THEN left[n - 1] ELSE Append(left[n - 1], editors[n])
    IN left[Len(editors)]

\* The first part of update: editors that were closed in an earlier frame go.
EraseClosed(ws) == [ws EXCEPT !.editors = Remaining(@)]

\* The end of the update of the i-th editor: one that is to close is closed, and
\* one that is active has the focus from now on.
EndUpdate(ws, i, active) ==
    [ws EXCEPT !.editors[i].closed = @ \/ ws.editors[i].wantClose,
               !.focused = IF active THEN ws.editors[i].id ELSE @]
=============================================================================
