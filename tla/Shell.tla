-------------------------------- MODULE Shell --------------------------------
(***************************************************************************)
(* The main loop of the editor (bin_editor/shell_app): each frame handles  *)
(* the events, loads the project the user has asked for, updates every     *)
(* editor, in whose windows the user gives commands, and then closes the   *)
(* project if that was asked. Opening a project asks for both: the project *)
(* that is open is closed at the end of the frame, and the next frame lets *)
(* the user select the new one.                                            *)
(***************************************************************************)
EXTENDS Commands, Workspace

CONSTANTS ShellProjects, NoShellProject,
          Assets,               \* the names of the scenes of a project
          MaxEditors            \* bounds how many editors are ever created

ASSUME ShellAssumption == NoShellProject \notin ShellProjects /\ MaxEditors \in Nat

VARIABLES shellProject, workspace,
          flags,      \* what has been asked for: to open, to close, to go on running
          phase,      \* the part of the frame that comes next
          visiting,   \* the editor that is updated next
          last        \* the editors there were when the update began

shellVars == <<shellProject, workspace, flags, phase, visiting, last>>

\* The project of the last session is loaded when the program starts.
ShellInit ==
    /\ shellProject \in ShellProjects \cup {NoShellProject}
    /\ workspace = IF shellProject = NoShellProject THEN NewWorkspace
                   ELSE OpenEditor(NewWorkspace, "assets")
    /\ flags = [open |-> FALSE, close |-> FALSE, run |-> TRUE]
    /\ phase = "events"
    /\ visiting = 0
    /\ last = 0

Live(ws) == {i \in DOMAIN ws.editors : ~ws.editors[i].wantClose}

\* Carries out a command; document is what a document command is about.
Invoke(c) ==
    /\ flags' =
        CASE c = "quit" -> [flags EXCEPT !.run = FALSE]
          [] c = "open-project" -> [flags EXCEPT !.open = TRUE, !.close = TRUE]
          [] c = "close-project" -> [flags EXCEPT !.close = TRUE]
          [] OTHER -> flags

Commanded(ws, c) ==
    CASE c = "show-logs" -> OpenEditor(ws, "log")
      [] c = "play" -> CreateEditor(ws, "game", NoDocument)
      [] c = "close-document" -> Close(ws, ws.focused)
      [] OTHER -> ws

\* A command is not given when it would create more editors than the bound.
Bounded(ws) == ws.next <= MaxEditors + 1

-----------------------------------------------------------------------------
(***************************************************************************)
(* Events: a key goes to the scope of the focused editor and then to the   *)
(* shell's; the scope of the workspace is not on the stack.                *)
(***************************************************************************)
KeyStack(ws) ==
    IF Position(ws, ws.focused) = 0 THEN <<"shell">> ELSE <<"shell", FocusedType(ws)>>

KeyDown(key) ==
    /\ phase = "events" /\ flags.run
    /\ LET c == KeyCommand(KeyStack(workspace), key)
       IN /\ c # NoCommand
          /\ Invoke(c)
          /\ workspace' = Commanded(workspace, c)
          /\ Bounded(workspace')
    /\ UNCHANGED <<shellProject, phase, visiting, last>>

EndEvents ==
    /\ phase = "events"
    /\ phase' = "load"
    /\ UNCHANGED <<shellProject, workspace, flags, visiting, last>>

(***************************************************************************)
(* Loading a project.                                                      *)
(***************************************************************************)
WantsLoad == flags.open /\ ~flags.close

LoadProject(p) ==
    /\ phase = "load" /\ WantsLoad
    /\ flags' = [flags EXCEPT !.open = FALSE]
    /\ shellProject' = p
    /\ workspace' = OpenEditor(CloseAll(workspace), "assets")
    /\ Bounded(workspace')
    /\ phase' = "update"
    /\ UNCHANGED <<visiting, last>>

\* The user cancels, or the file is no project: the rest of the frame is left
\* out, and a file that could not be loaded leaves no project open.
LoadFails ==
    /\ phase = "load" /\ WantsLoad
    /\ flags' = [flags EXCEPT !.open = FALSE]
    /\ shellProject' \in {shellProject, NoShellProject}
    /\ phase' = IF flags.run THEN "events" ELSE "stopped"
    /\ UNCHANGED <<workspace, visiting, last>>

NoLoad ==
    /\ phase = "load" /\ ~WantsLoad
    /\ phase' = "update"
    /\ UNCHANGED <<shellProject, workspace, flags, visiting, last>>

(***************************************************************************)
(* The update of the workspace: the editors there are at its start, one    *)
(* after the other; an editor that is opened meanwhile waits for the next  *)
(* frame.                                                                  *)
(***************************************************************************)
BeginUpdate ==
    /\ phase = "update"
    /\ workspace' = EraseClosed(workspace)
    /\ phase' = "editors"
    /\ visiting' = 1
    /\ last' = Len(workspace'.editors)
    /\ UNCHANGED <<shellProject, flags>>

Visited == workspace.editors[visiting]
UiStack == <<"shell", "workspace", Visited.type>>
AtEditor == phase = "editors" /\ visiting <= last

\* The rest of the update of the visited editor, given the workspace its window
\* has left behind.
Leave(ws) ==
    /\ \E active \in BOOLEAN : workspace' = EndUpdate(ws, visiting, active)
    /\ Bounded(workspace')
    /\ visiting' = visiting + 1
    /\ UNCHANGED <<shellProject, phase, last>>

SkipClosed ==
    /\ AtEditor /\ Visited.closed
    /\ visiting' = visiting + 1
    /\ UNCHANGED <<shellProject, workspace, flags, phase, last>>

UpdateEditor ==
    /\ AtEditor /\ ~Visited.closed
    /\ Leave(workspace)
    /\ UNCHANGED flags

\* The close button of the window, which an editor that is not closeable lacks.
CloseButton ==
    /\ AtEditor /\ ~Visited.closed /\ Closeable(Visited)
    /\ Leave(Close(workspace, Visited.id))
    /\ UNCHANGED flags

\* A command of the menu; one whose status is disabled cannot be chosen.
MenuCommand(c) ==
    /\ AtEditor /\ ~Visited.closed
    /\ Handles(UiStack, c)
    /\ c = "close-document" => CanClose(workspace, workspace.focused)
    /\ Invoke(c)
    /\ Leave(Commanded(workspace, c))

\* The palette of the active editor offers every command that has a handler,
\* whatever its status.
PaletteCommand(c) ==
    /\ AtEditor /\ ~Visited.closed
    /\ Handles(UiStack, c)
    /\ Invoke(c)
    /\ LET ws == EndUpdate(workspace, visiting, TRUE)
       IN workspace' = Commanded(ws, c)
    /\ Bounded(workspace')
    /\ visiting' = visiting + 1
    /\ UNCHANGED <<shellProject, phase, last>>

\* An asset is opened in the browser: it is looked up in the manifest of the
\* project, which must be open.
EditAsset(a) ==
    /\ AtEditor /\ Visited.type = "assets" /\ ~Visited.closed
    /\ shellProject # NoShellProject
    /\ Leave(OpenDocument(workspace, "scene", <<shellProject, a>>))
    /\ UNCHANGED flags

EndUpdates ==
    /\ phase = "editors" /\ visiting > last
    /\ phase' = "end"
    /\ UNCHANGED <<shellProject, workspace, flags, visiting, last>>

(***************************************************************************)
(* The end of the frame.                                                   *)
(***************************************************************************)
EndFrame ==
    /\ phase = "end"
    /\ IF flags.close
       THEN /\ workspace' = CloseAll(workspace)
            /\ shellProject' = NoShellProject
            /\ flags' = [flags EXCEPT !.close = FALSE]
       ELSE UNCHANGED <<workspace, shellProject, flags>>
    /\ phase' = IF flags.run THEN "events" ELSE "stopped"
    /\ visiting' = 0
    /\ last' = 0

ShellNext ==
    \/ \E key \in Keys : KeyDown(key)
    \/ EndEvents
    \/ \E p \in ShellProjects : LoadProject(p)
    \/ LoadFails \/ NoLoad
    \/ BeginUpdate \/ SkipClosed \/ UpdateEditor \/ CloseButton
    \/ \E c \in UNION {Handlers[s] : s \in Scopes} \ {"play-scene"} : MenuCommand(c) \/ PaletteCommand(c)
    \/ \E a \in Assets : EditAsset(a)
    \/ EndUpdates \/ EndFrame

ShellSpec == ShellInit /\ [][ShellNext]_shellVars

-----------------------------------------------------------------------------
(***************************************************************************)
(* Properties                                                              *)
(***************************************************************************)
\* A document is never open in two editors, and an editor that is not on its
\* way out shows a document of the project that is open.
DocumentsRight ==
    LET eds == workspace.editors
    IN /\ \A i, j \in DOMAIN eds : i # j =>
            /\ eds[i].id # eds[j].id
            /\ eds[i].type # "game" => <<eds[i].type, eds[i].doc>> # <<eds[j].type, eds[j].doc>>
       /\ \A i \in Live(workspace) :
            eds[i].doc # NoDocument => eds[i].doc[1] = shellProject
=============================================================================
