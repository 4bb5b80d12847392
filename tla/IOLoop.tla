-------------------------------- MODULE IOLoop --------------------------------
(***************************************************************************)
(* libruntime's IOLoop and the objects it makes: IOEvent, IOStream,         *)
(* IOWatch, IOPrepareHook and IOProcess, each a pointer to a State that      *)
(* embeds a libuv handle.  libuv gives a handle's memory back only in the    *)
(* close callback, an iteration of the loop later, while the program resets *)
(* and assigns the objects when it likes, inside callbacks too.  libuv       *)
(* itself (uv_run, uv_close, ...) is external.                               *)
(***************************************************************************)
EXTENDS Naturals, FiniteSets, FiniteSetsExt, Sequences, Functions

CONSTANTS
    Objects,    \* the program's variables of the five classes
    Class,      \* the class of each
    MaxStates,  \* bounds: State objects ever allocated,
    MaxWrites   \* and write requests queued on a stream at a time

HandleClasses == {"event", "stream", "watch", "hook", "process"}

ASSUME IOAssumption == Class \in [Objects -> HandleClasses]

VARIABLES
    states,     \* the State objects allocated so far
    holds,      \* each object's _state: an index of states, 0 for nullptr
    loop,       \* "idle", "running" (inside uv_run) or "gone" (after IOLoop::reset)
    until,      \* what uv_run does: "Once" (IORun::Poll and WaitOne), "Default", or
                \* "Closed" when IOLoop::reset has called it
    stage,      \* the stage of the loop's iteration
    due,        \* the prepare hooks still to be called in this iteration
    stopping,   \* libuv's stop flag
    calling     \* the state whose handler runs and the calls it has left to make

ioVars == <<states, holds, loop, until, stage, due, stopping, calling>>

\* freed: deleted.  active: libuv has something to wait for on the handle.
\* Whether an optional callback is set (an event's, a stream's disconnect) is
\* not kept: the handler makes the call or does not.
NewState(class, connected) ==
    [class |-> class, handle |-> IF class = "process" THEN "uninitialised" ELSE "open",
     freed |-> FALSE, active |-> class \in {"event", "watch", "hook"}, signalled |-> FALSE,
     connected |-> connected, writes |-> 0]

NoCall == [state |-> 0, left |-> 0]

IOInit ==
    /\ states = <<>>
    /\ holds = [o \in Objects |-> 0]
    /\ loop = "idle" /\ until = "Once" /\ stage = "prepare"
    /\ due = {} /\ stopping = FALSE /\ calling = NoCall

Open(s) == states[s].handle = "open"
Held(o) == states[holds[o]]

-----------------------------------------------------------------------------
(* The program: between two runs of the loop, or inside a callback *)

MayAct == loop = "idle" \/ calling # NoCall

Program == MayAct /\ UNCHANGED <<loop, until, stage, due, calling>>

\* close(_state): the handle is closed, and its memory left to the close
\* callback; a process that was never spawned has no handle.
Discarded_Fault(state) ==
    [state EXCEPT !.handle = "closing", !.active = FALSE, !.signalled = FALSE,
                  !.freed = state.class # "process"]
Discarded(state) ==
    IF state.handle = "uninitialised" THEN [state EXCEPT !.freed = TRUE]
    ELSE [state EXCEPT !.handle = "closing", !.active = FALSE, !.signalled = FALSE]

Discard(dropped) ==
    [s \in DOMAIN states |-> IF s \in dropped THEN Discarded(states[s]) ELSE states[s]]

\* object = loop.create...(): a new object is swapped in and the temporary takes
\* the old state with it.  A stream for a descriptor is connected at once.
Create(o) ==
    /\ Program
    /\ Len(states) < MaxStates
    /\ \E connected \in IF Class[o] = "stream" THEN BOOLEAN ELSE {FALSE} :
           states' = Append(Discard({holds[o]}), NewState(Class[o], connected))
    /\ holds' = [holds EXCEPT ![o] = Len(states) + 1]
    /\ UNCHANGED stopping

\* Move assignment, and move construction of an object that is empty.
Assign(o, from) ==
    /\ Program
    /\ Class[o] = Class[from]
    /\ holds' = [holds EXCEPT ![o] = holds[from], ![from] = holds[o]]
    /\ UNCHANGED <<states, stopping>>

Reset(o) ==
    /\ Program
    /\ states' = Discard({holds[o]})
    /\ holds' = [holds EXCEPT ![o] = 0]
    /\ UNCHANGED stopping

\* An operation on the state of an object that is not empty.
On(o, class) == Program /\ holds[o] # 0 /\ Class[o] = class /\ UNCHANGED <<holds, stopping>>

Signal(o) ==
    /\ On(o, "event")
    /\ states' = [states EXCEPT ![holds[o]].signalled = TRUE]

\* uv_read_start refuses a stream that is not connected.  The running callback
\* is not replaced from within (it would be destroyed).
StartRead(o) ==
    /\ On(o, "stream") /\ calling.state # holds[o]
    /\ states' = [states EXCEPT ![holds[o]].active = Held(o).connected]

StopRead(o) == On(o, "stream") /\ states' = [states EXCEPT ![holds[o]].active = FALSE]

\* A request for a stream that is not connected is refused, and leaks.
Write(o) ==
    /\ On(o, "stream")
    /\ \/ ~Held(o).connected /\ UNCHANGED states
       \/ /\ Held(o).connected /\ Held(o).writes < MaxWrites
          /\ states' = [states EXCEPT ![holds[o]].writes = @ + 1]

\* The handle counts as initialised also when uv_spawn fails.
Spawn(o, input, output) ==
    /\ On(o, "process") /\ Held(o).handle = "uninitialised"
    /\ input # output
    /\ \A pipe \in {input, output} :
           Class[pipe] = "stream" /\ holds[pipe] # 0 /\ ~Held(pipe).connected
    /\ \E started \in BOOLEAN :
           states' = [s \in DOMAIN states |->
               CASE s = holds[o] -> [states[s] EXCEPT !.handle = "open", !.active = started]
                 [] s \in {holds[input], holds[output]} -> [states[s] EXCEPT !.connected = started]
                 [] OTHER -> states[s]]

\* Called from callbacks only: the flag would otherwise end the next run.
Stop == Program /\ calling # NoCall /\ stopping' = TRUE /\ UNCHANGED <<states, holds>>

ProgramStep ==
    \/ \E o \in Objects : \/ Create(o) \/ Reset(o) \/ Signal(o)
                          \/ StartRead(o) \/ StopRead(o) \/ Write(o)
    \/ \E o, p \in Objects : Assign(o, p)
    \/ \E o, p, q \in Objects : Spawn(o, p, q)
    \/ Stop

-----------------------------------------------------------------------------
(* Runs of the loop *)

Alive(all) ==
    \E s \in DOMAIN all : \/ all[s].handle = "closing"
                          \/ all[s].handle = "open" /\ (all[s].active \/ all[s].writes > 0)

Hooks(all) == {s \in DOMAIN all : all[s].handle = "open" /\ all[s].class = "hook"}

\* uv_run: with nothing to wait for it returns at once.
Enter(all, mode) ==
    /\ states' = all /\ until' = mode /\ stage' = "prepare"
    /\ IF Alive(all)
       THEN loop' = "running" /\ due' = Hooks(all)
       ELSE loop' = (IF mode = "Closed" THEN "gone" ELSE "idle") /\ due' = {}
    /\ UNCHANGED <<stopping, calling>>

RunLoop ==
    /\ loop = "idle"
    /\ \E mode \in {"Once", "Default"} : Enter(states, mode)
    /\ UNCHANGED holds

\* The program lets all its objects go (~ShellApp stops the client first, and
\* ReconApp's locals and server go before its loop); then IOLoop::reset.
ResetLoop ==
    /\ loop = "idle"
    /\ Enter(Discard(Range(holds)), "Closed")
    /\ holds' = [o \in Objects |-> 0]

\* The handler of a state makes its first of `calls` callbacks.
CallBack(s, calls) == calling' = [state |-> s, left |-> calls - 1]

Inside(at) == loop = "running" /\ stage = at /\ calling = NoCall

Prepare(s) ==
    /\ Inside("prepare") /\ s \in due
    /\ due' = due \ {s}
    /\ IF Open(s) THEN CallBack(s, 1) ELSE UNCHANGED calling
    /\ UNCHANGED <<states, holds, loop, until, stage, stopping>>

BeginPoll ==
    /\ Inside("prepare") /\ due = {}
    /\ stage' = "poll"
    /\ UNCHANGED <<states, holds, loop, until, due, stopping, calling>>

Ready(s, class) ==
    /\ Inside("poll") /\ Open(s) /\ states[s].class = class
    /\ UNCHANGED <<holds, loop, until, stage, due, stopping>>

EventReady(s) ==
    /\ Ready(s, "event") /\ states[s].signalled
    /\ states' = [states EXCEPT ![s].signalled = FALSE]
    /\ CallBack(s, 1) \/ UNCHANGED calling

\* The read callback for data; or the disconnect callback, if there is one, for
\* the end of the stream, after which libuv reads no more, and for a read of
\* nothing, which the handler takes for the end too.
StreamReady(s) ==
    /\ Ready(s, "stream") /\ states[s].active
    /\ CallBack(s, 1) \/ UNCHANGED calling
    /\ states' = [states EXCEPT ![s].active = FALSE] \/ UNCHANGED states

\* The handler calls back for the change and for the rename of one event.
WatchReady(s) ==
    /\ Ready(s, "watch")
    /\ \E calls \in 1..2 : CallBack(s, calls)
    /\ UNCHANGED states

\* The write callback frees its request.
Written(s) ==
    /\ Ready(s, "stream") /\ states[s].writes > 0
    /\ states' = [states EXCEPT ![s].writes = @ - 1]
    /\ UNCHANGED calling

\* Nobody is told of the end of a process, killed or not.
ProcessEnds(s) ==
    /\ Ready(s, "process") /\ states[s].active
    /\ states' = [states EXCEPT ![s].active = FALSE]
    /\ UNCHANGED calling

\* A callback returns to its handler, which goes on with the same state.
CallReturns ==
    /\ calling # NoCall
    /\ calling' = IF calling.left = 0 THEN NoCall ELSE [calling EXCEPT !.left = @ - 1]
    /\ UNCHANGED <<states, holds, loop, until, stage, due, stopping>>

\* The end of an iteration: the requests of each closed stream are cancelled and
\* its State is deleted, save a process's, whose handle does not know its State.
ClosedStates ==
    [s \in DOMAIN states |->
        IF states[s].handle = "closing"
        THEN [states[s] EXCEPT !.handle = "closed", !.writes = 0, !.freed = states[s].class # "process"]
        ELSE states[s]]

EndIteration ==
    /\ Inside("poll")
    /\ states' = ClosedStates
    /\ stage' = "prepare"
    /\ IF until \in {"Default", "Closed"} /\ Alive(states') /\ ~stopping
       THEN due' = Hooks(states') /\ UNCHANGED <<loop, stopping>>
       ELSE /\ loop' = IF until = "Closed" THEN "gone" ELSE "idle"
            /\ due' = {} /\ stopping' = FALSE
    /\ UNCHANGED <<holds, until, calling>>

LoopStep ==
    \/ RunLoop \/ ResetLoop \/ BeginPoll \/ CallReturns \/ EndIteration
    \/ \E s \in DOMAIN states : \/ Prepare(s) \/ EventReady(s) \/ StreamReady(s) \/ WatchReady(s)
                                \/ Written(s) \/ ProcessEnds(s)

IOGone == loop = "gone" /\ UNCHANGED ioVars

IONext == ProgramStep \/ LoopStep \/ IOGone

IOSpec == IOInit /\ [][IONext]_ioVars

-----------------------------------------------------------------------------
(* What makes the loop correct *)

\* However the program creates, moves and drops the objects, callbacks included:
\* two objects never share a state or hold one that is being closed; a handler
\* never goes on with a state that was deleted; memory is deleted only when libuv
\* is through with the handle and its writes, and what no object holds is going
\* to be, but for the State of a process; and when IOLoop::reset is through, no
\* handle is left (uv_loop_close succeeds).
StatesOwned ==
    /\ \A o, p \in Objects : holds[o] # 0 =>
           /\ Held(o).handle \in {"open", "uninitialised"}
           /\ holds[o] = holds[p] => o = p
    /\ calling # NoCall => ~states[calling.state].freed
    /\ \A s \in DOMAIN states :
           /\ states[s].freed => states[s].handle \in {"closed", "uninitialised"} /\ states[s].writes = 0
           /\ \/ s \in Range(holds) \/ states[s].freed \/ states[s].handle = "closing"
              \/ states[s].class = "process" /\ states[s].handle = "closed"
    /\ loop = "gone" => \A s \in DOMAIN states : states[s].handle \in {"closed", "uninitialised"}
=============================================================================
