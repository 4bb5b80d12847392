------------------------------ MODULE Rendering ------------------------------
(***************************************************************************)
(* How a frame of the editor reaches the window (libpotato_render with its *)
(* Direct3D 11 back end, the views of the scene and game editors, and the  *)
(* part of the shell that shows them).  Each view renders its space into a *)
(* texture of its own, which the user interface shows as an image; then    *)
(* the whole is drawn into the back buffer of the window and presented.    *)
(*                                                                         *)
(* A pass is recorded in a command list: the operators below return the    *)
(* list after the call they are named for.  Resources are kept by name and *)
(* without their contents; the creation of a resource succeeds.            *)
(***************************************************************************)
EXTENDS Workspace, SequencesExt

CONSTANTS
    WindowSizes,            \* sizes of the window
    ContentSizes,           \* sizes of the area a view is shown in
    NoTexture,
    Meshes,
    GridVertices,           \* what a grid adds to the debug vertices
    MaxVertsPerChunk,       \* of them the debug buffer holds
    MaxScreens              \* bound: editors ever opened

ASSUME RenderingAssumption ==
    /\ NoTexture \notin Nat
    /\ GridVertices \in Nat /\ MaxVertsPerChunk \in Nat \ {0} /\ MaxScreens \in Nat
    /\ 0 \notin WindowSizes \cup ContentSizes
    \* "none" is the pipeline of a list that has none, "debug" that of the debug lines.
    /\ IsFiniteSet(Meshes) /\ Meshes \cap {"none", "debug"} = {}

VARIABLES
    window,         \* the size of the window
    noticed,        \* has the shell been told of it?
    chain,          \* the buffers of the swap chain: their size, and whether the
                    \* device still has one of them bound
    display,        \* the size the user interface is laid out for
    screen,         \* the workspace
    views,          \* by the id of their editor
    images,         \* the images of the user interface: the editor each is of, and
                    \* whether the texture it refers to is gone
    lines,          \* debugVertices: the editor each of them was drawn by
    clock,          \* Renderer: has it a start, and the time step
    turn            \* the part of the frame, and the editor it is at

renderVars ==
    <<window, noticed, chain, display, screen, views, images, lines, clock, turn>>

-----------------------------------------------------------------------------
(* Command lists *)

NoTexture2D == [texture |-> NoTexture, size |-> 0]
NoTarget == [colour |-> NoTexture2D, depth |-> 0]

NewCommandList ==
    [pipeline |-> "none", buffers |-> "none", constants |-> {},
     wanted |-> NoTarget, dirty |-> FALSE,      \* _rtv and _dsv, _bindingsDirty
     targets |-> NoTarget, draws |-> <<>>]

\* begin: the state of the context and the commands go, what waits to be bound stays.
BeginList(cl) == [NewCommandList EXCEPT !.wanted = cl.wanted, !.dirty = cl.dirty]

SetPipelineState(cl, state) == [cl EXCEPT !.pipeline = state]

BindBuffers(cl, buffers) == [cl EXCEPT !.buffers = buffers]

BindConstants(cl, constants) == [cl EXCEPT !.constants = @ \cup {constants}]

\* Bound when something is drawn.
BindRenderTargets(cl, target) == [cl EXCEPT !.wanted = target, !.dirty = TRUE]

FlushBindings(cl) ==
    IF ~cl.dirty THEN cl
    ELSE [cl EXCEPT !.targets = cl.wanted, !.wanted = NoTarget, !.dirty = FALSE]

Recorded(cl, target, vertices) ==
    [cl EXCEPT !.draws = Append(@,
        [target |-> target, vertices |-> vertices, pipeline |-> cl.pipeline,
         buffers |-> cl.buffers, constants |-> cl.constants])]

Draw(cl, vertices) ==
    LET bound == FlushBindings(cl) IN Recorded(bound, bound.targets, vertices)

ClearTargets(cl, target) == Recorded(cl, target, <<>>)

-----------------------------------------------------------------------------
(* Renderer, RenderContext, meshes and debug drawing *)

\* The first frame starts the clock: no time has passed.
BeginFrame == clock' = [started |-> TRUE, step |-> IF clock.started THEN 1 ELSE 0]

\* With a depth buffer of the same size.
BindBackBuffer(buffer) == [colour |-> buffer, depth |-> buffer.size]

ContextList == BindConstants(BeginList(NewCommandList), "frame")

ApplyCamera(cl, target) ==
    BindConstants(BindRenderTargets(ClearTargets(cl, target), target), "camera")

\* With the pipeline and the textures of its material.
DrawMesh(cl, mesh) ==
    Draw(BindConstants(BindBuffers(SetPipelineState(cl, mesh), mesh), "transform"), <<mesh>>)

\* The debug buffer is filled anew for each chunk.
Chunks(vertices) ==
    [k \in 1 .. (Len(vertices) + MaxVertsPerChunk - 1) \div MaxVertsPerChunk |->
        SubSeq(vertices, (k - 1) * MaxVertsPerChunk + 1,
               IF k * MaxVertsPerChunk < Len(vertices) THEN k * MaxVertsPerChunk ELSE Len(vertices))]

DrawLines(cl, vertices) ==
    LET chunks == Chunks(vertices)
        drawn[n \in 0 .. Len(chunks)] ==
            IF n = 0 THEN BindBuffers(SetPipelineState(cl, "debug"), "debug")
            ELSE Draw(drawn[n - 1], chunks[n])
    IN drawn[Len(chunks)]

DebugGrid(vertices, id) == vertices \o [n \in 1 .. GridVertices |-> id]

\* No vertex lingers: each lasts until time has passed.
FlushDebugDraw_Fault(vertices) == vertices
FlushDebugDraw(vertices) == IF clock'.step = 0 THEN vertices ELSE <<>>

\* What a space draws: it has one camera, the view's own.
RenderSpace(cl, target, ready) ==
    LET meshes == SetToSeq(ready)
        drawn[n \in 0 .. Cardinality(ready)] ==
            IF n = 0 THEN ApplyCamera(cl, target) ELSE DrawMesh(drawn[n - 1], meshes[n])
    IN drawn[Cardinality(ready)]

-----------------------------------------------------------------------------
(* The views *)

\* A picture: the texture it is drawn into, and what is drawn.
NoPicture == [buffer |-> NoTexture2D, draws |-> <<>>, ready |-> {}, grid |-> FALSE]
NewView(kind) ==
    [dimensions |-> 0, buffer |-> NoTexture2D, hasGrid |-> kind = "scene",
     picture |-> NoPicture]

RenderInit ==
    /\ window \in WindowSizes
    /\ noticed = TRUE
    /\ chain = [size |-> window, bound |-> FALSE]
    /\ display = window
    /\ screen = CreateEditor(NewWorkspace, "assets", NoDocument)
    /\ views = <<>>
    /\ images = {} /\ lines = <<>>
    /\ clock = [started |-> FALSE, step |-> 0]
    /\ turn = [phase |-> "events", at |-> 0, end |-> 0]

Rendered == screen.editors[turn.at]
HasView(editor) == editor.type \in {"scene", "game"}

\* A view has one texture at a time, known by the view's editor.
CreateTexture2D(size) == [texture |-> Rendered.id, size |-> size]

\* A new texture, and a view of it; the old ones are released after.
Resize(view, size) == [view EXCEPT !.buffer = CreateTexture2D(size), !.picture = NoPicture]

Release(id) == images' = {IF i.editor = id THEN [i EXCEPT !.gone = TRUE] ELSE i : i \in images}

\* SceneEditor::render and GameEditor::render.  ready: the meshes of the space
\* that are loaded, with their materials.
Pass(buffer, ready, vertices) ==
    LET all == RenderSpace(ContextList, BindBackBuffer(buffer), ready)
    IN IF Rendered.type = "scene" THEN DrawLines(all, vertices) ELSE all

RenderView(ready) ==
    LET id == Rendered.id
        view == views[id]
        vertices == IF view.hasGrid THEN DebugGrid(lines, id) ELSE lines
        resized == view.buffer.size # view.dimensions
    IN \E sized \in {IF resized THEN Resize(view, view.dimensions) ELSE view} :
         /\ BeginFrame
         /\ IF resized THEN Release(id) ELSE UNCHANGED images
         /\ views' = [views EXCEPT ![id] = [sized EXCEPT !.picture =
                [buffer |-> sized.buffer, draws |-> Pass(sized.buffer, ready, vertices).draws,
                 ready |-> ready, grid |-> view.hasGrid]]]
         /\ lines' = IF Rendered.type = "scene" THEN FlushDebugDraw(vertices) ELSE vertices

-----------------------------------------------------------------------------
(* The frame *)

\* The user may resize the window at any time; the shell hears of it in its events.
ResizeWindow ==
    /\ turn.phase = "events"
    /\ window' \in WindowSizes \ {window}
    /\ noticed' = FALSE
    /\ UNCHANGED <<chain, display, screen, views, images, lines, clock, turn>>

\* _onWindowSizeChanged: buffers that are in use keep their size.
SizeChanged ==
    /\ turn.phase = "events" /\ ~noticed
    /\ noticed' = TRUE
    /\ chain' = IF chain.bound THEN chain ELSE [chain EXCEPT !.size = window]
    /\ UNCHANGED <<window, display, screen, views, images, lines, clock, turn>>

\* The rest of run, up to the update of the workspace, and its first loop.
StartFrame ==
    /\ turn.phase = "events" /\ noticed
    /\ display' = window
    /\ images' = {}
    /\ screen' = EraseClosed(screen)
    /\ views' = [id \in DOMAIN views \cap {screen'.editors[i].id : i \in DOMAIN screen'.editors} |-> views[id]]
    /\ turn' = [phase |-> "render", at |-> 1, end |-> Len(screen'.editors)]
    /\ UNCHANGED <<window, noticed, chain, lines, clock>>

AtView == turn.phase = "render" /\ turn.at <= turn.end

RenderEditor ==
    /\ AtView
    /\ turn' = IF Rendered.closed THEN [turn EXCEPT !.at = @ + 1] ELSE [turn EXCEPT !.phase = "show"]
    /\ IF Rendered.closed \/ ~HasView(Rendered) \/ views[Rendered.id].dimensions = 0
       THEN UNCHANGED <<views, lines, clock, images>>
       ELSE \E ready \in SUBSET Meshes : RenderView(ready)
    /\ UNCHANGED <<window, noticed, chain, display, screen>>

\* The content of its window: an editor whose tab is hidden has none.
\* The texture gets the size of the content when it is rendered next.
ShowContent ==
    /\ HasView(Rendered)
    /\ \E size \in ContentSizes :
        /\ views' = [views EXCEPT ![Rendered.id].dimensions = size]
        /\ images' = images \cup
             (IF views[Rendered.id].buffer = NoTexture2D THEN {}
              ELSE {[editor |-> Rendered.id, gone |-> FALSE]})

HideContent == UNCHANGED <<views, images>>

ShowEditor ==
    /\ turn.phase = "show"
    /\ ShowContent \/ HideContent
    /\ turn' = [turn EXCEPT !.phase = "act"]
    /\ UNCHANGED <<window, noticed, chain, display, screen, lines, clock>>

\* What the user may do in the window, and what the editor leaves behind.
ToggleGrid ==
    /\ Rendered.type = "scene"
    /\ views' = [views EXCEPT ![Rendered.id].hasGrid = ~@]
    /\ screen' = EndUpdate(screen, turn.at, FALSE)

OpenView(type) ==
    /\ screen.next <= MaxScreens
    /\ Rendered.type = IF type = "scene" THEN "assets" ELSE "scene"
    /\ screen' = EndUpdate(CreateEditor(screen, type, NoDocument), turn.at, FALSE)
    /\ views' = [id \in DOMAIN views \cup {screen.next} |->
                    IF id = screen.next THEN NewView(type) ELSE views[id]]

CloseView_Fault ==
    /\ Closeable(Rendered)
    /\ screen' = EndUpdate(Close(screen, Rendered.id), turn.at, FALSE)
    /\ views' = [id \in DOMAIN views \ {Rendered.id} |-> views[id]]
CloseView ==
    /\ Closeable(Rendered)
    /\ screen' = EndUpdate(Close(screen, Rendered.id), turn.at, FALSE)
    /\ UNCHANGED views

LeaveView == screen' = EndUpdate(screen, turn.at, FALSE) /\ UNCHANGED views

EndEditor ==
    /\ turn.phase = "act"
    /\ ToggleGrid \/ OpenView("scene") \/ OpenView("game") \/ CloseView \/ LeaveView
    /\ turn' = [turn EXCEPT !.phase = "render", !.at = @ + 1]
    /\ UNCHANGED <<window, noticed, chain, display, images, lines, clock>>

\* _render, with the user interface bound to the back buffer.
DrawInterface ==
    /\ turn.phase = "render" /\ turn.at > turn.end
    /\ BeginFrame
    /\ chain' = [chain EXCEPT !.bound = TRUE]
    /\ turn' = [turn EXCEPT !.phase = "present"]
    /\ UNCHANGED <<window, noticed, display, screen, views, images, lines>>

\* To present a flipped buffer takes it off the device.
Present ==
    /\ turn.phase = "present"
    /\ chain' = [chain EXCEPT !.bound = FALSE]
    /\ turn' = [phase |-> "events", at |-> 0, end |-> 0]
    /\ UNCHANGED <<window, noticed, display, screen, views, images, lines, clock>>

RenderNext ==
    \/ ResizeWindow \/ SizeChanged \/ StartFrame
    \/ RenderEditor \/ ShowEditor \/ EndEditor
    \/ DrawInterface \/ Present

RenderSpec == RenderInit /\ [][RenderNext]_renderVars

-----------------------------------------------------------------------------
(* Properties *)

\* A picture, drawn from the grids and meshes that all views share one device
\* and one list of debug lines for, shows what its own view has to show: each of
\* the meshes that are ready, then each vertex of its own grid, in the chunk it
\* belongs to, and the grid of no other view, all of it once, over a cleared target
\* of its own and with all that it needs bound.
Complete(target, d) ==
    /\ d.target = target
    /\ d.pipeline \in Meshes =>
         /\ d.buffers = d.pipeline /\ d.vertices = <<d.pipeline>>
         /\ d.constants = {"frame", "camera", "transform"}
    /\ d.pipeline = "debug" => d.buffers = "debug" /\ {"frame", "camera"} \subseteq d.constants

PicturesRight ==
    \A id \in DOMAIN views :
        LET p == views[id].picture
            meshes == {p.draws[k].pipeline : k \in 2 .. Cardinality(p.ready) + 1}
            debug == SubSeq(p.draws, Cardinality(p.ready) + 2, Len(p.draws))
            drawn(k) == {(k - 1) * MaxVertsPerChunk + n : n \in DOMAIN debug[k].vertices}
        IN p # NoPicture =>
            /\ \A k \in DOMAIN p.draws : Complete(BindBackBuffer(views[id].buffer), p.draws[k])
            /\ p.draws[1].pipeline = "none" /\ Len(p.draws) > Cardinality(p.ready)
            /\ meshes = p.ready
            /\ \A k \in DOMAIN debug :
                 /\ debug[k].pipeline = "debug" /\ Len(debug[k].vertices) <= MaxVertsPerChunk
                 /\ Range(debug[k].vertices) = {id}
            /\ UNION {drawn(k) : k \in DOMAIN debug} = IF p.grid THEN 1 .. GridVertices ELSE {}

\* What is presented fits the window, and every image in it is of the texture
\* its view still has, into which its picture has been drawn: none was resized or
\* closed away between the drawing of the user interface's lists and their
\* execution.
ScreenRight ==
    turn.phase = "present" =>
        /\ chain.size = display /\ display = window
        /\ \A image \in images :
             /\ image.editor \in DOMAIN views
             /\ ~image.gone
             /\ views[image.editor].buffer # NoTexture2D
             /\ views[image.editor].picture.buffer = views[image.editor].buffer
=============================================================================
