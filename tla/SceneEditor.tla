----------------------------- MODULE SceneEditor -----------------------------
(***************************************************************************)
(* The scene editor (scene_editor.cpp), the preview space it keeps in step *)
(* with its document, and the game space a GameEditor starts from it.      *)
(*                                                                         *)
(* Space is extended for the game.  The preview is a space that has        *)
(* started and has no physics: its entities and its storages are enough.   *)
(* The loops of syncPreview, syncGame and start take a step for each call  *)
(* they make on a space, toJson and fromJson one for each entity they      *)
(* write and read, and nothing comes between those steps.  A frame is one  *)
(* tick, which syncs, and then one thing the user does.                    *)
(*                                                                         *)
(* Any entity may be deleted.  Once that has left a stale index (strayed), *)
(* what follows indices may run out of the vector, round in circles or     *)
(* into the children of another entity: a new child, a deletion and a save *)
(* are not followed there, all that goes by ids or through the vector is.  *)
(***************************************************************************)
EXTENDS Space, SceneDocument

CONSTANTS
    MaxScene,       \* bound: scene ids ever given out in one document
    MaxSize,        \* bound: entities and components in the document
    MaxCalls        \* bound: calls a game makes, two less for each entity it began with

ASSUME EditorAssumption == {MaxScene, MaxSize, MaxCalls} \subseteq Nat

VARIABLES
    ents, nextScene,                \* SceneDocument::_entities, _nextEntityId
    strayed,                        \* history: has a deletion left a stale index?
    twice,                          \* history: ids of entities that have had two transforms
    pAlive, pNextId, pStorage,      \* the preview space
    stage,                          \* in a tick, at the user, saving, opening, or starting a game
    file,                           \* the scene file, while it is written and read again
    frames, child,                  \* of _toJson: the calls that are running, each with its
                                    \* entity and its object, and the childIndex of the last
    wrote,                          \* the entities written so far, in their order
    game,                           \* of syncGame: the entity it is at, and how many of its
                                    \* components the game has
    playing,                        \* is there a GameEditor?
    made                            \* calls the running game has made

docVars     == <<ents, nextScene, strayed, twice>>
previewVars == <<pAlive, pNextId, pStorage>>
saveVars    == <<file, frames, child, wrote>>
vars == <<spaceVars, docVars, previewVars, saveVars, stage, game, playing, made>>

Types == {"Transform", "RigidBody"}     \* TransformEditComponent, BodyEditComponent

\* At most one transform.
Lone(components) ==
    \A k, l \in DOMAIN components :
        components[k].type = "Transform" /\ components[l].type = "Transform" => k = l

NoGame == [entity |-> 0, part |-> 0]

PreviewInit ==
    /\ pAlive = {} /\ pNextId = 1
    /\ pStorage = [c \in Types |-> EmptyStorage]

Init ==
    /\ SpaceInit
    /\ PreviewInit
    /\ ents = <<>> /\ nextScene = 1 /\ strayed = FALSE /\ twice = {}
    /\ stage = "sync"
    /\ file = <<>> /\ frames = <<>> /\ child = NoIndex /\ wrote = <<>>
    /\ game = NoGame /\ playing = FALSE /\ made = 0

-----------------------------------------------------------------------------
(* tick: syncPreview *)

NeedsEntity(i) == ents[i].previewId = NotSynced
Stale(i) == {k \in DOMAIN ents[i].components : ents[i].components[k].state # "Idle"}

\* The entity the loop gets to work on next; the order is the vector's.
Unsynced == {i \in Indices(ents) : NeedsEntity(i) \/ Stale(i) # {}}
First(S) == CHOOSE i \in S : \A j \in S : i <= j

SyncEntity(i) ==
    /\ NeedsEntity(i)
    /\ pNextId <= MaxEntities
    /\ pAlive' = pAlive \cup {pNextId}
    /\ pNextId' = pNextId + 1
    /\ ents' = [ents EXCEPT ![i].previewId = pNextId]
    /\ UNCHANGED pStorage

\* addComponent leaves a transform that is there alone.
Previewed(e, value) ==
    [pStorage EXCEPT !["Transform"] = IF Contains(@, e) THEN @ ELSE Linked(@, e, value)]

\* syncAdd and syncUpdate: a body is not previewed; a transform is added if it
\* is new, and in any case assigned through the reference.
SyncComponent_Fault(i) ==
    /\ ~NeedsEntity(i)
    /\ LET k == First(Stale(i))
           c == ents[i].components[k]
       IN  /\ ents' = [ents EXCEPT ![i].components[k].state = "Idle"]
           /\ pStorage' = IF c.type # "Transform" THEN pStorage
                          ELSE Previewed(ents[i].previewId, c.value)
    /\ UNCHANGED <<pAlive, pNextId>>
SyncComponent(i) ==
    /\ ~NeedsEntity(i)
    /\ LET k == First(Stale(i))
           e == ents[i].previewId
           c == ents[i].components[k]
           added == IF c.state = "New" THEN Previewed(e, c.value) ELSE pStorage
       IN  /\ ents' = [ents EXCEPT ![i].components[k].state = "Idle"]
           /\ pStorage' = IF c.type # "Transform" THEN pStorage
                          ELSE [added EXCEPT !["Transform"] = SetComponent(@, e, c.value)]
    /\ UNCHANGED <<pAlive, pNextId>>

SyncPreview ==
    /\ stage = "sync"
    /\ IF Unsynced = {} THEN stage' = "ui" /\ UNCHANGED <<ents, previewVars>>
       ELSE /\ SyncEntity(First(Unsynced)) \/ SyncComponent(First(Unsynced))
            /\ stage' = stage
    /\ UNCHANGED <<nextScene, strayed, twice, spaceVars, saveVars, game, playing, made>>

-----------------------------------------------------------------------------
(* The inspector, the hierarchy and the tool bar, once a frame *)

User ==
    /\ stage = "ui" /\ ~playing
    /\ stage' = "sync"
    /\ UNCHANGED <<spaceVars, previewVars, saveVars, game, made, playing>>

\* The inspector: an edit, "Remove", and "Add Component" after both.
EditComponent(i, k, value) ==
    /\ User
    /\ ents' = [ents EXCEPT ![i].components[k].value = value,
                            ![i].components[k].state = "Pending"]
    /\ UNCHANGED <<nextScene, strayed, twice>>

\* Only while the table below the header is clipped; otherwise the code goes
\* on to read the name of the component it has just dropped.
RemoveSceneComponent(i, k) ==
    /\ User
    /\ ents' = [ents EXCEPT ![i].components =
                   [j \in 1 .. Len(@) - 1 |-> IF j < k THEN @[j] ELSE @[j + 1]]]
    /\ UNCHANGED <<nextScene, strayed, twice>>

Size == Len(ents) + Cardinality({p \in Indices(ents) \X (1 .. MaxSize) :
                                    p[2] <= Len(ents[p[1]].components)})

\* The menu offers every type, those the entity has already among them.
AddNewComponent(i, type) ==
    /\ User
    /\ Size < MaxSize
    /\ ents' = WithComponent(ents, ents[i].sceneId, type, Origin)
    /\ twice' = IF Lone(ents'[i].components) THEN twice ELSE twice \cup {ents[i].sceneId}
    /\ UNCHANGED <<nextScene, strayed>>

CreateSceneEntity(parentId) ==
    /\ nextScene <= MaxScene /\ Size < MaxSize
    /\ parentId # NoScene => ~strayed
    /\ User
    /\ ents' = Created(ents, nextScene, parentId)
    /\ nextScene' = nextScene + 1
    /\ UNCHANGED <<strayed, twice>>

\* What the preview has of the entities stays there.
DeleteSceneEntity(id) ==
    /\ ~strayed
    /\ User
    /\ ents' = Deleted(ents, id)
    /\ strayed' = Strays(ents, id)
    /\ UNCHANGED <<nextScene, twice>>

UserStep ==
    \/ \E i \in Indices(ents) :
          \/ \E k \in DOMAIN ents[i].components :
                \/ \E v \in Positions : EditComponent(i, k, v)
                \/ RemoveSceneComponent(i, k)
          \/ \E type \in Types : AddNewComponent(i, type)
          \/ CreateSceneEntity(ents[i].sceneId)
          \/ DeleteSceneEntity(ents[i].sceneId)
    \/ CreateSceneEntity(NoScene)

-----------------------------------------------------------------------------
(* _save, and the tab closed and opened again *)

\* toJson reads the first entity without asking whether there is one.
Save ==
    /\ stage = "ui" /\ ~playing
    /\ ents # <<>> /\ ~strayed
    /\ stage' = "save"
    /\ child' = 1
    /\ UNCHANGED <<spaceVars, docVars, previewVars, file, frames, wrote, game, made, playing>>

\* _toJson is called for an entity, and goes on to its children.
WriteEntity ==
    /\ stage = "save" /\ child # NoIndex
    /\ file' = Append(file, Object(IF frames = <<>> THEN NoIndex ELSE frames[Len(frames)].object, ents[child]))
    /\ wrote' = Append(wrote, child)
    /\ frames' = Append(frames, [index |-> child, object |-> Len(file) + 1])
    /\ child' = ents[child].firstChild
    /\ UNCHANGED <<spaceVars, docVars, previewVars, stage, game, made, playing>>

\* It returns, to the loop over the children of another or to _save.
WriteReturn ==
    /\ stage = "save" /\ child = NoIndex
    /\ IF Len(frames) = 1 THEN stage' = "reopen" /\ UNCHANGED child
       ELSE stage' = stage /\ child' = ents[frames[Len(frames)].index].nextSibling
    /\ frames' = SubSeq(frames, 1, Len(frames) - 1)
    /\ UNCHANGED <<spaceVars, docVars, previewVars, file, wrote, game, made, playing>>

\* A new document and a new space.
Reopen ==
    /\ stage = "reopen"
    /\ stage' = "open"
    /\ ents' = <<>> /\ nextScene' = 1 /\ strayed' = FALSE /\ twice' = {}
    /\ pAlive' = {} /\ pNextId' = 1
    /\ pStorage' = [c \in Types |-> EmptyStorage]
    /\ wrote' = <<>>
    /\ UNCHANGED <<spaceVars, file, frames, child, game, made, playing>>

ReadObject ==
    /\ stage = "open" /\ Len(ents) < Len(file)
    /\ ents' = Read(ents, file, nextScene)
    /\ nextScene' = nextScene + 1
    /\ twice' = IF Lone(file[Len(ents) + 1].components) THEN twice ELSE twice \cup {nextScene}
    /\ UNCHANGED <<strayed, spaceVars, previewVars, saveVars, stage, game, made, playing>>

\* The file is not read again before it has been saved again.
Opened ==
    /\ stage = "open" /\ Len(ents) = Len(file)
    /\ stage' = "sync"
    /\ file' = <<>>
    /\ UNCHANGED <<spaceVars, docVars, previewVars, frames, child, wrote, game, made, playing>>

SaveAndReopen == Save \/ WriteEntity \/ WriteReturn \/ Reopen \/ ReadObject \/ Opened

-----------------------------------------------------------------------------
(* Play *)

NewSpace ==
    /\ alive' = {} /\ nextId' = 1
    /\ storage' = [c \in Types |-> EmptyStorage]
    /\ phase' = "New" /\ physics' = FALSE /\ observed' = FALSE
    /\ world' = <<>> /\ cursor' = 0

\* PlayCommandHandler.  A bound: one game at a time, closed before the document
\* is worked on again.
Play ==
    /\ stage = "ui" /\ ~playing
    /\ stage' = "load"
    /\ playing' = TRUE
    /\ NewSpace
    /\ game' = NoGame
    /\ made' = 0
    /\ UNCHANGED <<docVars, previewVars, saveVars>>

CloseGame ==
    /\ stage = "ui" /\ playing
    /\ playing' = FALSE
    /\ NewSpace
    /\ made' = 0
    /\ UNCHANGED <<docVars, previewVars, saveVars, stage, game>>

\* syncGame: the entity it is at has components the game does not have yet.
PartLeft == game.entity # 0 /\ game.part < Len(ents[game.entity].components)
Synced == game.entity = Len(ents) /\ ~PartLeft

SyncGameEntity ==
    /\ ~PartLeft /\ ~Synced
    /\ CreateEntity
    /\ game' = [entity |-> game.entity + 1, part |-> 0]

\* For the entity that was created last: a transform is assigned in any case, a
\* body is the default one (createFrom drops the mass) and added once.
SyncGameComponent ==
    /\ PartLeft
    /\ LET c == ents[game.entity].components[game.part + 1]
           e == nextId - 1
       IN  \/ AddComponent(e, c.type, IF c.type = "Transform" THEN c.value ELSE Origin)
           \/ c.type = "Transform" /\ SetTransform(e, c.value)
           \/ c.type = "RigidBody" /\ AddExisting(e, c.type)
    /\ game' = [game EXCEPT !.part = @ + 1]

SyncGame ==
    /\ stage = "load"
    /\ SyncGameEntity \/ SyncGameComponent
    /\ UNCHANGED <<stage, playing, made, docVars, previewVars, saveVars>>

\* The constructor of GameEditor: addDemoSystem, then start.
StartGame_Fault ==
    /\ stage = "load" /\ Synced
    /\ \/ AddPhysics /\ stage' = stage
       \/ physics /\ Start /\ stage' = "sync"
    /\ game' = IF stage' = "sync" THEN NoGame ELSE game
    /\ UNCHANGED <<playing, made, docVars, previewVars, saveVars>>
StartGame ==
    /\ stage = "load" /\ Synced
    /\ \/ AddPhysics /\ stage' = stage
       \/ physics /\ Start /\ stage' = stage
       \/ StartVisit /\ stage' = stage
       \/ StartEnd /\ stage' = "sync"
    /\ game' = IF stage' = "sync" THEN NoGame ELSE game
    /\ UNCHANGED <<playing, made, docVars, previewVars, saveVars>>

\* GameEditor::tick, and the calls of a game on its space: the camera of
\* render, and what game code may do through the API of the EntityManager.
RunGame ==
    /\ stage = "ui"
    /\ playing
    /\ made + 2 * Len(ents) < MaxCalls
    /\ made' = made + 1
    /\ SpaceCall
    /\ UNCHANGED <<stage, playing, game, docVars, previewVars, saveVars>>

Next == SyncPreview \/ UserStep \/ SaveAndReopen \/ Play \/ SyncGame \/ StartGame
            \/ RunGame \/ CloseGame

Spec == Init /\ [][Next]_vars

-----------------------------------------------------------------------------

\* The links of the document are trees until a deletion leaves one that is left
\* with an index of one that was erased or has moved, and then they are none;
\* no id is given out twice; and the file a document is saved in is the tree of
\* its first entity, when it has been written and still when the document has
\* been read from it.
DocumentKept ==
    /\ strayed <=> ~TreeOK(ents)
    /\ DistinctIds(ents)
    /\ stage = "reopen" \/ (stage = "open" /\ Len(ents) = Len(file)) => Depicts(file, ents)

\* An edit reaches the preview in the next tick: a transform that needs no sync
\* shows there, on an entity of its own, and with its value unless the entity
\* has had two of them, when it shows the one that was synced last; and one that
\* was edited was added before, as syncUpdate dereferences what
\* getComponentSlow returns.
PreviewCurrent ==
    \A i \in Indices(ents) : \A k \in DOMAIN ents[i].components :
        LET c == ents[i].components[k]
            shown == Contains(pStorage["Transform"], ents[i].previewId)
        IN  c.type = "Transform" =>
                /\ c.state = "Pending" => shown
                /\ c.state = "Idle" =>
                      /\ shown
                      /\ ents[i].sceneId \notin twice =>
                            Get(pStorage["Transform"], ents[i].previewId) = c.value
                      /\ \A j \in Indices(ents) :
                            ents[j].previewId = ents[i].previewId => j = i

\* A game starts with an entity for each of the document's, in order, and with
\* the types of its components: a transform has the value of the last the
\* document has for it, a rigid body is a default one, and has a body.
PlayFaithful ==
    [][StartGame /\ stage' # stage =>
         /\ alive' = Indices(ents)
         /\ \A i \in Indices(ents), c \in Types :
               LET mine == {k \in DOMAIN ents[i].components : ents[i].components[k].type = c} IN
               /\ Contains(storage'[c], i) <=> mine # {}
               /\ c = "Transform" =>
                    \A k \in mine : (\A l \in mine : l <= k) =>
                       Get(storage'[c], i) = ents[i].components[k].value
               /\ c = "RigidBody" /\ mine # {} => Get(storage'[c], i) = Origin
         /\ Cardinality(DOMAIN world') = Cardinality(Entities(storage'["RigidBody"]))]_vars
=============================================================================
