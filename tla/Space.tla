-------------------------------- MODULE Space --------------------------------
(***************************************************************************)
(* up::Space: an EntityManager and the systems that run over it, of which  *)
(* the physics system keeps state of its own (physics_system.cpp): a       *)
(* Bullet body for each entity with a RigidBodyComponent, created and      *)
(* removed by an observer in the middle of add and remove.                 *)
(*                                                                         *)
(* Of the component types three are kept: the transform that physics       *)
(* reads and writes, the rigid body it observes, and the BulletBody it     *)
(* registers itself.  A position stands for the value of a transform.      *)
(***************************************************************************)
EXTENDS ComponentStorage

CONSTANTS
    Positions, Origin,      \* values of a transform; the default one
    Bodies,                 \* the addresses a btRigidBody may get
    NoBody,                 \* BulletBody::body = nullptr
    MaxEntities             \* bound: entities ever created

ASSUME SpaceAssumption ==
    Origin \in Positions /\ NoBody \notin Bodies /\ MaxEntities \in Nat

VARIABLES
    alive, nextId,      \* EntityManager::_entities, _nextEntityId
    storage,            \* the registered storages, by type
    phase,              \* Space::_state
    physics,            \* has the physics system been added?
    observed,           \* is its observer in the list of RigidBody's storage?
    world,              \* the bodies in the Bullet world, with their positions
    cursor              \* PhysicsSystem::start: the next slot its select looks at

spaceVars == <<alive, nextId, storage, phase, physics, observed, world, cursor>>

Components == {"Transform", "RigidBody", "BulletBody"}

SpaceInit ==
    /\ alive = {} /\ nextId = 1
    /\ storage = [c \in {"Transform", "RigidBody"} |-> EmptyStorage]
    /\ phase = "New"
    /\ physics = FALSE /\ observed = FALSE
    /\ world = <<>> /\ cursor = 0

Registered(c) == c \in DOMAIN storage

-----------------------------------------------------------------------------
(* What the observer does, on a record of the storages and the world *)

Store == [storage |-> storage, world |-> world]

SetStore(s) == storage' = s.storage /\ world' = s.world

Has(s, c, e) == Contains(s.storage[c], e)

Link(s, c, e, value) == [s EXCEPT !.storage[c] = Linked(@, e, value)]

Unlink(s, c, e) == [s EXCEPT !.storage[c] = Unlinked(@, e)]

PositionOf(s, e) ==
    IF Has(s, "Transform", e) THEN Get(s.storage["Transform"], e) ELSE Origin

\* addComponent<BulletBody> and a new body b where the transform is.
GiveBody(s, e, b) ==
    LET bullet == IF Has(s, "BulletBody", e) THEN s ELSE Link(s, "BulletBody", e, NoBody) IN
    [storage |-> [bullet.storage EXCEPT !["BulletBody"] = SetComponent(@, e, b)],
     world   |-> [x \in DOMAIN s.world \cup {b} |->
                     IF x = b THEN PositionOf(s, e) ELSE s.world[x]]]

\* RigidBodyObserver::onRemove.
TakeBody_Fault(s, e) ==
    IF ~Has(s, "BulletBody", e) THEN s ELSE Unlink(s, "BulletBody", e)
TakeBody(s, e) ==
    IF ~Has(s, "BulletBody", e) THEN s
    ELSE LET body == Get(s.storage["BulletBody"], e) IN
         Unlink([s EXCEPT !.world = [x \in DOMAIN @ \ {body} |-> @[x]]], "BulletBody", e)

\* ComponentStorage::remove.
Removed(s, c, e) ==
    IF c \notin DOMAIN s.storage \/ ~Has(s, c, e) THEN s
    ELSE Unlink(IF c = "RigidBody" /\ observed THEN TakeBody(s, e) ELSE s, c, e)

-----------------------------------------------------------------------------
(* EntityManager *)

CreateEntity_Fault ==
    /\ nextId <= MaxEntities
    /\ alive' = alive \cup {Cardinality(alive) + 1}
    /\ nextId' = nextId + 1
    /\ UNCHANGED <<storage, phase, physics, observed, world, cursor>>
CreateEntity ==
    /\ nextId <= MaxEntities
    /\ alive' = alive \cup {nextId}
    /\ nextId' = nextId + 1
    /\ UNCHANGED <<storage, phase, physics, observed, world, cursor>>

\* addComponent: the existing component is returned untouched; a caller that
\* assigns through the reference it gets is SetTransform.
AddComponent(e, c, value) ==
    /\ e \in alive
    /\ Registered(c)
    /\ ~Contains(storage[c], e)
    /\ IF c = "RigidBody" /\ observed
       THEN \E b \in Bodies \ DOMAIN world : SetStore(GiveBody(Link(Store, c, e, value), e, b))
       ELSE SetStore(Link(Store, c, e, value))
    /\ UNCHANGED <<alive, nextId, phase, physics, observed, cursor>>

AddExisting(e, c) ==
    /\ e \in alive
    /\ Registered(c)
    /\ Contains(storage[c], e)
    /\ UNCHANGED spaceVars

SetTransform(e, value) ==
    /\ Contains(storage["Transform"], e)
    /\ storage' = [storage EXCEPT !["Transform"] = SetComponent(@, e, value)]
    /\ UNCHANGED <<alive, nextId, phase, physics, observed, world, cursor>>

RemoveComponent(e, c) ==
    /\ SetStore(Removed(Store, c, e))
    /\ UNCHANGED <<alive, nextId, phase, physics, observed, cursor>>

\* destroyEntity: from every storage, in the order of their registration.
DestroyEntity(e) ==
    /\ e \in alive
    /\ alive' = alive \ {e}
    /\ SetStore(Removed(Removed(Removed(Store, "Transform", e), "RigidBody", e), "BulletBody", e))
    /\ UNCHANGED <<nextId, phase, physics, observed, cursor>>

\* select over the types cs: the slots, in the first type's storage, of the
\* entities that the callback is given.  What callbacks do needs no order.
Select(cs) ==
    {i \in Cursor(storage[cs[1]]) :
        \A k \in 2 .. Len(cs) : Contains(storage[cs[k]], storage[cs[1]].entities[i])}

-----------------------------------------------------------------------------
(* Space *)

AddPhysics ==
    /\ phase = "New"
    /\ ~physics
    /\ physics' = TRUE
    /\ UNCHANGED <<alive, nextId, storage, phase, observed, world, cursor>>

\* Space::start, and of PhysicsSystem::start what comes before its select.
Start ==
    /\ phase = "New"
    /\ phase' = IF physics THEN "Starting" ELSE "Started"
    /\ observed' = physics
    /\ storage' = [c \in DOMAIN storage \cup (IF physics THEN {"BulletBody"} ELSE {}) |->
                      IF c = "BulletBody" THEN EmptyStorage ELSE storage[c]]
    /\ cursor' = IF physics THEN 1 ELSE 0
    /\ UNCHANGED <<alive, nextId, physics, world>>

\* One turn of that select.
StartVisit ==
    /\ phase = "Starting"
    /\ cursor <= Len(storage["RigidBody"].entities)
    /\ cursor' = cursor + 1
    /\ LET e == storage["RigidBody"].entities[cursor] IN
       IF e = None THEN UNCHANGED <<storage, world>>
       ELSE \E b \in Bodies \ DOMAIN world : SetStore(GiveBody(Store, e, b))
    /\ UNCHANGED <<alive, nextId, phase, physics, observed>>

StartEnd ==
    /\ phase = "Starting"
    /\ cursor > Len(storage["RigidBody"].entities)
    /\ phase' = "Started"
    /\ cursor' = 0
    /\ UNCHANGED <<alive, nextId, storage, physics, observed, world>>

\* Space::update: the simulation moves the bodies, then they move the transforms.
MovedBy(moved, e) == moved[Get(storage["BulletBody"], e)]
Update ==
    /\ phase = "Started"
    /\ \E moved \in [DOMAIN world -> Positions] :
        /\ world' = moved
        /\ storage' =
             IF ~physics THEN storage
             ELSE LET hit == Select(<<"Transform", "RigidBody", "BulletBody">>) IN
                  [storage EXCEPT !["Transform"].components =
                      [i \in DOMAIN @ |->
                          IF i \in hit THEN MovedBy(moved, storage["Transform"].entities[i])
                          ELSE @[i]]]
    /\ UNCHANGED <<alive, nextId, phase, physics, observed, cursor>>

\* Space::stop: the observer goes, the bodies of live components stay.
Stop ==
    /\ phase = "Started"
    /\ phase' = "Stopped"
    /\ observed' = FALSE
    /\ UNCHANGED <<alive, nextId, storage, physics, world, cursor>>

\* Space::start returns before the caller does anything else.
SpaceCall ==
    \/ CreateEntity
    \/ \E e \in alive : DestroyEntity(e)
    \/ \E e \in alive, p \in Positions : AddComponent(e, "Transform", p) \/ SetTransform(e, p)
    \/ \E e \in alive : AddComponent(e, "RigidBody", Origin)
    \/ \E e \in alive, c \in {"Transform", "RigidBody"} : RemoveComponent(e, c) \/ AddExisting(e, c)
    \/ AddPhysics \/ Start \/ Update \/ Stop

SpaceNext ==
    \/ phase # "Starting" /\ SpaceCall
    \/ StartVisit \/ StartEnd

SpaceSpec == SpaceInit /\ [][SpaceNext]_spaceVars

-----------------------------------------------------------------------------

SpaceTypeOK ==
    /\ alive \subseteq 1 .. nextId - 1
    /\ nextId \in 1 .. MaxEntities + 1
    /\ DOMAIN storage = IF physics /\ phase # "New"
                        THEN Components ELSE {"Transform", "RigidBody"}
    /\ phase \in {"New", "Starting", "Started", "Stopped"}
    /\ physics \in BOOLEAN
    /\ observed = (physics /\ phase \in {"Starting", "Started"})
    /\ world \in [DOMAIN world -> Positions] /\ DOMAIN world \subseteq Bodies
    /\ cursor \in Nat

\* However entities and components come and go, and observers in between, in
\* each storage the map, the slots and the free list stay in agreement.
SlotsPartitioned == \A c \in DOMAIN storage : StorageOK(storage[c])

\* A destroyed entity has no component in any storage.
OnlyTheLiving == \A c \in DOMAIN storage : Entities(storage[c]) \subseteq alive

\* A query meets each entity that has all its components exactly once.
SelectExact ==
    \A c, d \in DOMAIN storage :
        LET met == Select(<<c, d>>)
            entity(i) == storage[c].entities[i]
        IN  /\ {entity(i) : i \in met} = Entities(storage[c]) \cap Entities(storage[d])
            /\ \A i, j \in met : entity(i) = entity(j) => i = j

\* While the space runs, the bodies in the Bullet world are those of the
\* entities with a rigid body, one for each: none leaks, none dangles.
BodiesMatch ==
    phase = "Started" /\ physics =>
        LET bullet == storage["BulletBody"] IN
        /\ Entities(bullet) = Entities(storage["RigidBody"])
        /\ DOMAIN world = {Get(bullet, e) : e \in Entities(bullet)}
        /\ \A e, f \in Entities(bullet) : Get(bullet, e) = Get(bullet, f) => e = f

Pairs == UNION {Entities(storage[c]) \X {c} : c \in DOMAIN storage}

Manager == INSTANCE EntityRelation WITH
    entities <- alive, used <- 1 .. nextId - 1, has <- Pairs

\* A caller may throw a space away and make a new one.
Replaced == alive' = {} /\ nextId' = 1

\* To its callers a space is a relation between entities and component types:
\* ids are never used again, a destroyed entity loses everything at once, and
\* no call touches the components of two entities.
ImplementsRelation ==
    [][Replaced \/ Manager!Next \/ UNCHANGED <<alive, nextId, Pairs>>]_spaceVars
=============================================================================
