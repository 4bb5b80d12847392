------------------------------- MODULE Commands -------------------------------
(***************************************************************************)
(* Commands and the scopes that handle them (libpotato_editor). A command  *)
(* goes to the topmost scope of the stack that has a handler for it; the   *)
(* scopes below it are not asked. Handlers of this program accept every    *)
(* command they are given (none overrides condition), so only the presence *)
(* of a handler counts. A status is asked by menus and buttons only.       *)
(***************************************************************************)
EXTENDS Naturals, Sequences, FiniteSetsExt

\* Handlers[scope]: the commands a scope has a handler for.
Handlers ==
    [shell     |-> {"quit", "open-project", "close-project", "show-logs", "play-scene"},
     workspace |-> {"close-document"},
     scene     |-> {"play"},
     game      |-> {"pause"},
     assets    |-> {},
     log       |-> {}]

Scopes == DOMAIN Handlers
NoScope == "none"

\* The scope that handles c: the last one pushed that has a handler.
Handler(stack, c) ==
    LET able == {i \in DOMAIN stack : c \in Handlers[stack[i]]}
    IN IF able = {} THEN NoScope ELSE stack[Max(able)]

Handles(stack, c) == Handler(stack, c) # NoScope

(***************************************************************************)
(* The commands that are bound to a key, in the order they were added; a   *)
(* key invokes the first of them that a scope handles.                     *)
(***************************************************************************)
Bindings ==
    [altF4 |-> <<"quit">>, ctrlW |-> <<"close-document">>, altShiftO |-> <<"open-project">>,
     altShiftL |-> <<"show-logs">>, f5 |-> <<"pause", "play">>]

Keys == DOMAIN Bindings
NoCommand == "none"

KeyCommand(stack, key) ==
    LET able == {i \in DOMAIN Bindings[key] : Handles(stack, Bindings[key][i])}
    IN IF able = {} THEN NoCommand ELSE Bindings[key][Min(able)]
=============================================================================
