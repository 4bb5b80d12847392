----------------------------- MODULE RuntimeProofs -----------------------------
(***************************************************************************)
(* That the states of the IO loop's objects are owned, for any objects of   *)
(* any of the five classes and any number of states and of writes; and that *)
(* what counted pointers, boxes, strings and delegates point to is, for any *)
(* holders of any threads and any number of objects.                        *)
(***************************************************************************)
EXTENDS IOLoop, Ownership, FiniteSetTheorems, SequenceTheorems, TLAPS

-----------------------------------------------------------------------------
(***************************************************************************)
(* The IO loop.  The inductive invariant says of each state by itself how   *)
(* far it is on its way out (Sound), of the objects that they hold distinct *)
(* states of their own class that are on no way out (Owning), that what     *)
(* none of them holds is (LetGo), of the handler that is running that libuv *)
(* still has its handle (Handling), and that the last run of the loop,      *)
(* IOLoop::reset's, calls nobody back (Ending).                             *)
(***************************************************************************)
Handles == {"uninitialised", "open", "closing", "closed"}

StateRecord ==
    [class : HandleClasses, handle : Handles, freed : BOOLEAN, active : BOOLEAN,
     signalled : BOOLEAN, connected : BOOLEAN, writes : Nat]

IOTypeOK ==
    /\ states \in Seq(StateRecord)
    /\ holds \in [Objects -> 0 .. Len(states)]
    /\ loop \in {"idle", "running", "gone"}
    /\ until \in {"Once", "Default", "Closed"}
    /\ stopping \in BOOLEAN
    /\ calling \in [state : 0 .. Len(states), left : Nat]

\* A state by itself.
Sound(state) ==
    /\ state.freed => state.handle \in {"closed", "uninitialised"}
    /\ state.writes > 0 => state.handle \in {"open", "closing"}
    /\ state.handle = "uninitialised" => state.class = "process"

\* On its way out, or gone; the State of a process is only half of the way.
Dropped(state) ==
    \/ state.freed \/ state.handle = "closing"
    \/ state.class = "process" /\ state.handle = "closed"

InUse(state, kind) ==
    state.class = kind /\ ~state.freed /\ state.handle \in {"open", "uninitialised"}

AllSound == \A s \in DOMAIN states : Sound(states[s])

Owning ==
    \A o \in Objects : holds[o] # 0 =>
        /\ InUse(states[holds[o]], Class[o])
        /\ \A p \in Objects : holds[o] = holds[p] => o = p

LetGo == \A s \in DOMAIN states : (\A o \in Objects : holds[o] # s) => Dropped(states[s])

Handling ==
    calling # NoCall =>
        /\ loop = "running" /\ calling.state # 0
        /\ states[calling.state].handle \in {"open", "closing"}

Ending ==
    /\ loop = "idle" => ~stopping
    /\ loop = "gone" => until = "Closed"
    /\ loop # "idle" /\ until = "Closed" =>
         /\ calling = NoCall /\ ~stopping
         /\ \A o \in Objects : holds[o] = 0
         /\ \A s \in DOMAIN states : states[s].handle # "open"
    /\ loop = "gone" => \A s \in DOMAIN states : states[s].handle # "closing"

HoldingInv == IOTypeOK /\ AllSound /\ Owning /\ LetGo /\ Handling /\ Ending
-----------------------------------------------------------------------------
(* Sequences of states *)

\* A sequence whose elements are replaced one by one keeps its length.
LEMMA Replaced ==
    ASSUME NEW S, NEW q \in Seq(S), NEW f \in [DOMAIN q -> S]
    PROVE  f \in Seq(S) /\ Len(f) = Len(q) /\ DOMAIN f = DOMAIN q
<1>1. DOMAIN q = 1 .. Len(q) /\ Len(q) \in Nat
  BY LenProperties
<1>2. f \in Seq(S) /\ Len(f) = Len(q)
  BY <1>1, IsASeq
<1>3. QED
  BY <1>1, <1>2

\* A state that is discarded is on its way out, in an orderly way, and its
\* handle is none that libuv would call back.
LEMMA DiscardedState ==
    ASSUME NEW state \in StateRecord, Sound(state)
    PROVE  /\ Discarded(state) \in StateRecord
           /\ ~state.freed /\ state.handle \in {"open", "uninitialised"} =>
                Sound(Discarded(state)) /\ Dropped(Discarded(state))
           /\ Discarded(state).handle # "open"
           /\ state.handle = "open" => Discarded(state).handle = "closing"
  BY DEF Discarded, StateRecord, Sound, Dropped, Handles

LEMMA ClosedState ==
    ASSUME NEW state \in StateRecord, NEW gone \in BOOLEAN
    PROVE  [state EXCEPT !.handle = "closed", !.writes = 0, !.freed = gone] \in StateRecord
<1> DEFINE closed == [state EXCEPT !.handle = "closed"]
           done == [closed EXCEPT !.writes = 0]
<1>1. closed \in StateRecord
  BY DEF StateRecord, Handles
<1> HIDE DEF closed
<1>2. done \in StateRecord
  BY <1>1 DEF StateRecord
<1> HIDE DEF done
<1>3. [done EXCEPT !.freed = gone] \in StateRecord
  BY <1>2 DEF StateRecord
<1>4. QED
  BY <1>3 DEF closed, done

LEMMA NewStates ==
    ASSUME NEW kind \in HandleClasses, NEW connected \in BOOLEAN
    PROVE  /\ NewState(kind, connected) \in StateRecord
           /\ Sound(NewState(kind, connected)) /\ InUse(NewState(kind, connected), kind)
  BY DEF NewState, StateRecord, Handles, HandleClasses, Sound, InUse

-----------------------------------------------------------------------------
(* The program's steps *)

\* Each of the steps that change one state that is in use keeps it in use.
Touched(old, new) ==
    /\ new \in StateRecord /\ Sound(new)
    /\ new.class = old.class /\ new.freed = old.freed
    /\ new.handle # old.handle => old.handle = "uninitialised" /\ new.handle = "open"

LEMMA TouchedStep ==
    ASSUME HoldingInv, UNCHANGED <<holds, loop, until>>,
           stopping' \in BOOLEAN, stopping' # stopping => calling # NoCall,
           calling' \in [state : 0 .. Len(states), left : Nat],
           calling' \notin {calling, NoCall} =>
               /\ loop = "running" /\ calling'.state \in DOMAIN states
               /\ states[calling'.state].handle = "open",
           DOMAIN states' = DOMAIN states, states' \in Seq(StateRecord),
           Len(states') = Len(states),
           \A s \in DOMAIN states : Touched(states[s], states'[s]),
           loop # "idle" /\ until = "Closed" => states' = states
    PROVE  HoldingInv'
<1> USE DEF HoldingInv
<1>0. /\ DOMAIN states = 1 .. Len(states) /\ Len(states) \in Nat
      /\ \A s \in DOMAIN states : states[s] \in StateRecord
      /\ \A o \in Objects : holds[o] # 0 => holds[o] \in DOMAIN states
      /\ calling # NoCall => calling.state \in DOMAIN states
  BY LenProperties, ElementOfSeq DEF IOTypeOK, Handling
<1>1. IOTypeOK'
  BY DEF IOTypeOK
<1>2. AllSound'
  BY DEF AllSound, Touched
<1>3. Owning'
  BY <1>0 DEF Owning, InUse, Touched
<1>4. LetGo'
  BY <1>0 DEF LetGo, Dropped, Touched
<1>5. Handling'
  <2>1. CASE calling' = calling
    BY <1>0, <2>1 DEF Handling, Touched
  <2>2. CASE calling' \notin {calling, NoCall}
    BY <1>0, <2>2 DEF Touched, Handling
  <2>3. QED
    BY <2>1, <2>2 DEF Handling
<1>6. Ending'
  <2>1. loop # "idle" /\ until = "Closed" => calling' = NoCall
    BY <1>0 DEF Ending
  <2>2. QED
    BY <1>0, <2>1 DEF Ending, Touched, Handling
<1>7. QED
  BY <1>1, <1>2, <1>3, <1>4, <1>5, <1>6

\* What every step of the program finds.
LEMMA Acting ==
    ASSUME HoldingInv
    PROVE  /\ DOMAIN states = 1 .. Len(states) /\ Len(states) \in Nat
           /\ \A s \in DOMAIN states : states[s] \in StateRecord /\ Touched(states[s], states[s])
           /\ \A o \in Objects : holds[o] # 0 => holds[o] \in DOMAIN states
           /\ calling # NoCall => calling.state \in DOMAIN states
           /\ MayAct => ~(loop # "idle" /\ until = "Closed")
           /\ \A s \in DOMAIN states :
                loop # "idle" /\ until = "Closed" => states[s].handle # "open"
<1> USE DEF HoldingInv
<1>1. DOMAIN states = 1 .. Len(states) /\ Len(states) \in Nat
  BY LenProperties DEF IOTypeOK
<1>2. \A s \in DOMAIN states : states[s] \in StateRecord
  BY <1>1, ElementOfSeq DEF IOTypeOK
<1>3. \A s \in DOMAIN states : Touched(states[s], states[s])
  BY <1>2 DEF AllSound, Touched
<1>4. /\ \A o \in Objects : holds[o] # 0 => holds[o] \in DOMAIN states
      /\ calling # NoCall => calling.state \in DOMAIN states
  BY <1>1 DEF IOTypeOK, Handling
<1>5. /\ MayAct => ~(loop # "idle" /\ until = "Closed")
      /\ \A s \in DOMAIN states :
           loop # "idle" /\ until = "Closed" => states[s].handle # "open"
  BY DEF Ending, MayAct
<1>6. QED
  BY <1>1, <1>2, <1>3, <1>4, <1>5

\* One state changes.
LEMMA OneTouched ==
    ASSUME HoldingInv, NEW s \in DOMAIN states, NEW state, Touched(states[s], state),
           states' = [states EXCEPT ![s] = state]
    PROVE  /\ DOMAIN states' = DOMAIN states /\ states' \in Seq(StateRecord)
           /\ Len(states') = Len(states)
           /\ \A r \in DOMAIN states : Touched(states[r], states'[r])
<1>1. states \in Seq(StateRecord) /\ states' \in [DOMAIN states -> StateRecord]
  BY Acting DEF HoldingInv, IOTypeOK, Touched
<1>2. QED
  BY <1>1, Replaced, Acting

\* An operation on the state of one object.
LEMMA ObjectStep ==
    ASSUME HoldingInv, NEW o \in Objects, NEW kind, On(o, kind),
           NEW state, Touched(Held(o), state), states' = [states EXCEPT ![holds[o]] = state]
    PROVE  HoldingInv'
<1>1. holds[o] \in DOMAIN states /\ Touched(states[holds[o]], state)
  BY Acting DEF On, Held
<1>2. /\ DOMAIN states' = DOMAIN states /\ states' \in Seq(StateRecord)
      /\ Len(states') = Len(states)
      /\ \A r \in DOMAIN states : Touched(states[r], states'[r])
  BY <1>1, OneTouched
<1>3. /\ UNCHANGED <<holds, loop, until, stopping, calling>>
      /\ ~(loop # "idle" /\ until = "Closed")
  BY Acting DEF On, Program
<1>4. stopping \in BOOLEAN /\ calling \in [state : 0 .. Len(states), left : Nat]
  BY DEF HoldingInv, IOTypeOK
<1>5. QED
  BY <1>2, <1>3, <1>4, TouchedStep

LEMMA ObjectSteps ==
    ASSUME HoldingInv, NEW o \in Objects,
           Signal(o) \/ StartRead(o) \/ StopRead(o) \/ Write(o)
    PROVE  HoldingInv'
<1>1. PICK kind \in {"event", "stream"} : On(o, kind)
  BY DEF Signal, StartRead, StopRead, Write
<1>2. /\ holds[o] \in DOMAIN states /\ Held(o) = states[holds[o]]
      /\ Held(o) \in StateRecord /\ Touched(Held(o), Held(o))
      /\ Held(o).handle = "open"
  BY <1>1, Acting DEF On, HoldingInv, Owning, InUse, Held, Touched, Sound
<1>3. CASE Signal(o)
  <2>1. Touched(Held(o), [Held(o) EXCEPT !.signalled = TRUE])
    BY <1>2 DEF Touched, Sound, StateRecord
  <2>2. states' = [states EXCEPT ![holds[o]] = [Held(o) EXCEPT !.signalled = TRUE]]
    BY <1>2, <1>3 DEF Signal
  <2>3. QED
    BY <1>1, <2>1, <2>2, ObjectStep
<1>4. CASE StartRead(o)
  <2>1. Touched(Held(o), [Held(o) EXCEPT !.active = Held(o).connected])
    BY <1>2 DEF Touched, Sound, StateRecord
  <2>2. states' = [states EXCEPT ![holds[o]] = [Held(o) EXCEPT !.active = Held(o).connected]]
    BY <1>2, <1>4 DEF StartRead
  <2>3. QED
    BY <1>1, <2>1, <2>2, ObjectStep
<1>5. CASE StopRead(o)
  <2>1. Touched(Held(o), [Held(o) EXCEPT !.active = FALSE])
    BY <1>2 DEF Touched, Sound, StateRecord
  <2>2. states' = [states EXCEPT ![holds[o]] = [Held(o) EXCEPT !.active = FALSE]]
    BY <1>2, <1>5 DEF StopRead
  <2>3. QED
    BY <1>1, <2>1, <2>2, ObjectStep
<1>6. CASE Write(o)
  <2>1. /\ Touched(Held(o), [Held(o) EXCEPT !.writes = @ + 1])
        /\ Touched(Held(o), Held(o))
    BY <1>2 DEF Touched, Sound, StateRecord
  <2>2. \/ states' = [states EXCEPT ![holds[o]] = Held(o)]
        \/ states' = [states EXCEPT ![holds[o]] = [Held(o) EXCEPT !.writes = @ + 1]]
    <3>1. states = [states EXCEPT ![holds[o]] = Held(o)]
      BY <1>2, Acting DEF HoldingInv, IOTypeOK
    <3>2. QED
      BY <1>2, <1>6, <3>1 DEF Write
  <2>3. QED
    BY <1>1, <2>1, <2>2, ObjectStep
<1>7. QED
  BY <1>3, <1>4, <1>5, <1>6

LEMMA SpawnStep ==
    ASSUME HoldingInv, NEW o \in Objects, NEW input \in Objects, NEW output \in Objects,
           Spawn(o, input, output)
    PROVE  HoldingInv'
<1>1. /\ On(o, "process") /\ Held(o).handle = "uninitialised" /\ ~Held(o).freed
      /\ holds[o] \notin {holds[input], holds[output]}
  BY DEF Spawn, On, HoldingInv, Owning, InUse, Held
<1>2. PICK started \in BOOLEAN :
         states' = [s \in DOMAIN states |->
               CASE s = holds[o] -> [states[s] EXCEPT !.handle = "open", !.active = started]
                 [] s \in {holds[input], holds[output]} -> [states[s] EXCEPT !.connected = started]
                 [] OTHER -> states[s]]
  BY DEF Spawn
<1>3. \A s \in DOMAIN states : Touched(states[s], states'[s])
  <2> TAKE s \in DOMAIN states
  <2>1. states[s] \in StateRecord /\ Touched(states[s], states[s])
    BY Acting
  <2>2. CASE s = holds[o]
    <3>1. states[s].handle = "uninitialised" /\ ~states[s].freed
      BY <1>1, <2>2 DEF Held
    <3>2. states'[s] = [states[s] EXCEPT !.handle = "open", !.active = started]
      BY <1>1, <1>2, <2>2
    <3>3. QED
      BY <2>1, <3>1, <3>2 DEF Touched, Sound, StateRecord, Handles
  <2>3. CASE s # holds[o]
    <3>1. states'[s] \in {states[s], [states[s] EXCEPT !.connected = started]}
      BY <1>2, <2>3
    <3>2. Touched(states[s], [states[s] EXCEPT !.connected = started])
      BY <2>1 DEF Touched, Sound, StateRecord
    <3>3. QED
      BY <2>1, <3>1, <3>2
  <2>4. QED
    BY <2>2, <2>3
<1>4. states \in Seq(StateRecord) /\ states' \in [DOMAIN states -> StateRecord]
  BY <1>2, <1>3 DEF HoldingInv, IOTypeOK, Touched
<1>5. /\ DOMAIN states' = DOMAIN states /\ states' \in Seq(StateRecord)
      /\ Len(states') = Len(states)
  BY <1>4, Replaced
<1>6. /\ UNCHANGED <<holds, loop, until, stopping, calling>>
      /\ ~(loop # "idle" /\ until = "Closed")
  BY <1>1, Acting DEF On, Program
<1>7. stopping \in BOOLEAN /\ calling \in [state : 0 .. Len(states), left : Nat]
  BY DEF HoldingInv, IOTypeOK
<1>8. QED
  BY <1>3, <1>5, <1>6, <1>7, TouchedStep

LEMMA StopStep ==
    ASSUME HoldingInv, Stop
    PROVE  HoldingInv'
<1>1. /\ UNCHANGED <<states, holds, loop, until, calling>> /\ stopping' \in BOOLEAN
      /\ calling # NoCall /\ calling \in [state : 0 .. Len(states), left : Nat]
      /\ states \in Seq(StateRecord)
  BY DEF Stop, Program, HoldingInv, IOTypeOK
<1>2. QED
  BY <1>1, Acting, TouchedStep

-----------------------------------------------------------------------------
(* Objects that come, go and are moved *)

\* What Discard does to the states, when it is to states that are in use.
LEMMA Discarding ==
    ASSUME HoldingInv, NEW dropped,
           \A s \in dropped : s # 0 => \E o \in Objects : holds[o] = s
    PROVE  /\ Discard(dropped) \in Seq(StateRecord)
           /\ Len(Discard(dropped)) = Len(states) /\ DOMAIN Discard(dropped) = DOMAIN states
           /\ \A s \in DOMAIN states :
                /\ s \notin dropped => Discard(dropped)[s] = states[s]
                /\ s \in dropped => Dropped(Discard(dropped)[s])
                /\ s \in dropped => Discard(dropped)[s].handle # "open"
                /\ Sound(Discard(dropped)[s])
                /\ states[s].handle \in {"open", "closing"}
                     => Discard(dropped)[s].handle \in {"open", "closing"}
<1>1. \A s \in DOMAIN states : Discard(dropped)[s] =
          IF s \in dropped THEN Discarded(states[s]) ELSE states[s]
  BY DEF Discard
<1>2. DOMAIN Discard(dropped) = DOMAIN states
  BY DEF Discard
<1>3. ASSUME NEW s \in DOMAIN states
      PROVE  /\ Discard(dropped)[s] \in StateRecord
             /\ s \notin dropped => Discard(dropped)[s] = states[s]
             /\ s \in dropped => Dropped(Discard(dropped)[s])
             /\ s \in dropped => Discard(dropped)[s].handle # "open"
             /\ Sound(Discard(dropped)[s])
             /\ states[s].handle \in {"open", "closing"}
                  => Discard(dropped)[s].handle \in {"open", "closing"}
  <2>1. states[s] \in StateRecord /\ Sound(states[s]) /\ s # 0
    BY Acting DEF HoldingInv, AllSound
  <2>2. CASE s \notin dropped
    BY <1>1, <2>1, <2>2
  <2>3. CASE s \in dropped
    <3>1. ~states[s].freed /\ states[s].handle \in {"open", "uninitialised"}
      BY <2>1, <2>3 DEF HoldingInv, Owning, InUse
    <3>2. Discard(dropped)[s] = Discarded(states[s])
      BY <1>1, <2>3
    <3>3. QED
      BY <2>1, <2>3, <3>1, <3>2, DiscardedState
  <2>4. QED
    BY <2>2, <2>3
<1>4. states \in Seq(StateRecord) /\ Discard(dropped) \in [DOMAIN states -> StateRecord]
  BY <1>3 DEF HoldingInv, IOTypeOK, Discard
<1>5. Discard(dropped) \in Seq(StateRecord) /\ Len(Discard(dropped)) = Len(states)
  BY <1>4, Replaced
<1>6. QED
  BY <1>2, <1>3, <1>5

LEMMA ResetStep ==
    ASSUME HoldingInv, NEW o \in Objects, Reset(o)
    PROVE  HoldingInv'
<1>1. /\ states' = Discard({holds[o]}) /\ holds' = [holds EXCEPT ![o] = 0]
      /\ UNCHANGED <<loop, until, stopping, calling>>
      /\ ~(loop # "idle" /\ until = "Closed")
  BY Acting DEF Reset, Program
<1>2. /\ states' \in Seq(StateRecord) /\ Len(states') = Len(states) /\ DOMAIN states' = DOMAIN states
      /\ \A s \in DOMAIN states :
           /\ s # holds[o] => states'[s] = states[s]
           /\ s = holds[o] => Dropped(states'[s])
           /\ Sound(states'[s])
           /\ states[s].handle \in {"open", "closing"} => states'[s].handle \in {"open", "closing"}
  BY <1>1, Discarding
<1>3. /\ holds \in [Objects -> 0 .. Len(states)]
      /\ \A p \in Objects : holds[p] # 0 => holds[p] \in DOMAIN states
      /\ \A p \in Objects : holds'[p] = IF p = o THEN 0 ELSE holds[p]
      /\ Len(states) \in Nat
      /\ calling # NoCall => calling.state \in DOMAIN states
  BY <1>1, Acting DEF HoldingInv, IOTypeOK
<1>4. IOTypeOK'
  <2>1. holds' \in [Objects -> 0 .. Len(states)]
    BY <1>1, <1>3
  <2>2. QED
    BY <1>1, <1>2, <2>1 DEF HoldingInv, IOTypeOK
<1>5. AllSound'
  BY <1>2 DEF AllSound
<1>6. Owning'
  BY <1>2, <1>3 DEF HoldingInv, Owning
<1>7. LetGo'
  BY <1>2, <1>3 DEF HoldingInv, LetGo
<1>8. Handling'
  BY <1>1, <1>2, <1>3 DEF HoldingInv, Handling
<1>9. Ending'
  BY <1>1 DEF HoldingInv, Ending
<1>10. QED
  BY <1>4, <1>5, <1>6, <1>7, <1>8, <1>9 DEF HoldingInv

LEMMA AssignStep ==
    ASSUME HoldingInv, NEW o \in Objects, NEW from \in Objects, Assign(o, from)
    PROVE  HoldingInv'
<1>1. /\ holds' = [holds EXCEPT ![o] = holds[from], ![from] = holds[o]]
      /\ UNCHANGED <<states, loop, until, stopping, calling>>
      /\ ~(loop # "idle" /\ until = "Closed") /\ Class[o] = Class[from]
  BY Acting DEF Assign, Program
<1>2. /\ holds \in [Objects -> 0 .. Len(states)]
      /\ \A p \in Objects : holds'[p] = IF p = from THEN holds[o]
                                         ELSE IF p = o THEN holds[from] ELSE holds[p]
  BY <1>1 DEF HoldingInv, IOTypeOK
<1>3. IOTypeOK' /\ AllSound' /\ Handling' /\ Ending'
  BY <1>1, <1>2 DEF HoldingInv, IOTypeOK, AllSound, Handling, Ending
<1>4. Owning'
  BY <1>1, <1>2 DEF HoldingInv, Owning
<1>5. LetGo'
  BY <1>1, <1>2 DEF HoldingInv, LetGo
<1>6. QED
  BY <1>3, <1>4, <1>5 DEF HoldingInv

LEMMA CreateStep ==
    ASSUME HoldingInv, NEW o \in Objects, Create(o)
    PROVE  HoldingInv'
<1>1. PICK connected \in BOOLEAN :
         states' = Append(Discard({holds[o]}), NewState(Class[o], connected))
  BY DEF Create
<1>2. /\ holds' = [holds EXCEPT ![o] = Len(states) + 1]
      /\ UNCHANGED <<loop, until, stopping, calling>>
      /\ ~(loop # "idle" /\ until = "Closed")
  BY Acting DEF Create, Program
<1> DEFINE kept == Discard({holds[o]})
           new == NewState(Class[o], connected)
<1>3. /\ kept \in Seq(StateRecord) /\ Len(kept) = Len(states) /\ DOMAIN kept = DOMAIN states
      /\ \A s \in DOMAIN states :
           /\ s # holds[o] => kept[s] = states[s]
           /\ s = holds[o] => Dropped(kept[s])
           /\ Sound(kept[s])
           /\ states[s].handle \in {"open", "closing"} => kept[s].handle \in {"open", "closing"}
  BY Discarding
<1>4. new \in StateRecord /\ Sound(new) /\ InUse(new, Class[o])
  BY NewStates, IOAssumption
<1>5. /\ DOMAIN states = 1 .. Len(states) /\ Len(states) \in Nat
      /\ \A p \in Objects : holds[p] # 0 => holds[p] \in DOMAIN states
      /\ calling # NoCall => calling.state \in DOMAIN states
      /\ holds \in [Objects -> 0 .. Len(states)]
      /\ \A p \in Objects : holds'[p] = IF p = o THEN Len(states) + 1 ELSE holds[p]
  BY <1>2, Acting DEF HoldingInv, IOTypeOK
<1>6. /\ states' \in Seq(StateRecord) /\ Len(states') = Len(states) + 1
      /\ DOMAIN states' = DOMAIN states \cup {Len(states) + 1}
      /\ states'[Len(states) + 1] = new
      /\ \A s \in DOMAIN states : states'[s] = kept[s]
  <2> HIDE DEF kept, new
  <2>1. states' = Append(kept, new)
    BY <1>1 DEF kept, new
  <2>2. /\ states' \in Seq(StateRecord) /\ Len(states') = Len(kept) + 1
        /\ states'[Len(kept) + 1] = new
        /\ \A s \in 1 .. Len(kept) : states'[s] = kept[s]
    BY <2>1, <1>3, <1>4, AppendProperties
  <2>3. DOMAIN states' = 1 .. (Len(states) + 1)
    BY <2>2, <1>3, LenProperties
  <2>4. QED
    BY <2>2, <2>3, <1>3, <1>5
<1> HIDE DEF kept, new
<1>7. IOTypeOK'
  BY <1>2, <1>5, <1>6 DEF HoldingInv, IOTypeOK
<1>8. AllSound'
  BY <1>3, <1>4, <1>6 DEF AllSound
<1>9. Owning'
  <2> SUFFICES ASSUME NEW p \in Objects, holds'[p] # 0
               PROVE  /\ InUse(states'[holds'[p]], Class[p])
                      /\ \A q \in Objects : holds'[p] = holds'[q] => p = q
    BY DEF Owning
  <2>1. CASE p = o
    BY <2>1, <1>4, <1>5, <1>6
  <2>2. CASE p # o
    BY <2>2, <1>3, <1>5, <1>6 DEF HoldingInv, Owning
  <2>3. QED
    BY <2>1, <2>2
<1>10. LetGo'
  BY <1>3, <1>5, <1>6 DEF HoldingInv, LetGo
<1>11. Handling'
  BY <1>2, <1>3, <1>5, <1>6 DEF HoldingInv, Handling
<1>12. Ending'
  BY <1>2 DEF HoldingInv, Ending
<1>13. QED
  BY <1>7, <1>8, <1>9, <1>10, <1>11, <1>12 DEF HoldingInv

-----------------------------------------------------------------------------
(* The runs of the loop *)

\* The steps that make callbacks, and return from them, change at most one state.
LEMMA HandlerStep ==
    ASSUME HoldingInv, NEW s \in DOMAIN states,
           Prepare(s) \/ EventReady(s) \/ StreamReady(s) \/ WatchReady(s)
             \/ Written(s) \/ ProcessEnds(s)
    PROVE  HoldingInv'
<1>1. /\ states[s] \in StateRecord /\ Touched(states[s], states[s])
      /\ s \in 1 .. Len(states) /\ stopping \in BOOLEAN
      /\ calling \in [state : 0 .. Len(states), left : Nat]
  BY Acting DEF HoldingInv, IOTypeOK
<1>2. /\ UNCHANGED <<holds, loop, until, stopping>>
      /\ loop = "running"
      /\ calling' # calling => states[s].handle = "open" /\ \E calls \in 1 .. 2 : CallBack(s, calls)
  <2>0. 1 \in 1 .. 2
    OBVIOUS
  <2>1. CASE Prepare(s)
    <3>1. CASE Open(s)
      BY <2>0, <2>1, <3>1 DEF Prepare, Inside, Open
    <3>2. CASE ~Open(s)
      BY <2>1, <3>2 DEF Prepare, Inside
    <3>3. QED BY <3>1, <3>2
  <2>2. CASE EventReady(s)
    BY <2>0, <2>2 DEF EventReady, Ready, Inside, Open
  <2>3. CASE StreamReady(s)
    BY <2>0, <2>3 DEF StreamReady, Ready, Inside, Open
  <2>4. CASE WatchReady(s)
    BY <2>4 DEF WatchReady, Ready, Inside, Open
  <2>5. CASE Written(s) \/ ProcessEnds(s)
    BY <2>5 DEF Written, ProcessEnds, Ready, Inside
  <2>6. QED
    BY <2>1, <2>2, <2>3, <2>4, <2>5
<1>3. /\ calling' \in [state : 0 .. Len(states), left : Nat]
      /\ calling' \notin {calling, NoCall} =>
            calling'.state \in DOMAIN states /\ states[calling'.state].handle = "open"
  <2>1. CASE calling' = calling
    BY <2>1, <1>1
  <2>2. CASE calling' # calling
    <3>1. PICK calls \in 1 .. 2 : CallBack(s, calls)
      BY <1>2, <2>2
    <3>2. calls - 1 \in Nat
      BY <3>1
    <3>3. calling' = [state |-> s, left |-> calls - 1]
      BY <3>1 DEF CallBack
    <3>4. QED
      BY <1>1, <1>2, <2>2, <3>2, <3>3
  <2>3. QED
    BY <2>1, <2>2
<1>4. states' = states \/ states[s].handle = "open"
  BY DEF Prepare, EventReady, StreamReady, WatchReady, Written, ProcessEnds, Ready, Open
<1>5. \/ states' = states
      \/ /\ states[s].handle = "open"
         /\ \E state : Touched(states[s], state) /\ states' = [states EXCEPT ![s] = state]
  <2>1. CASE Prepare(s) \/ WatchReady(s)
    BY <2>1 DEF Prepare, WatchReady
  <2>2. CASE EventReady(s)
    <3>1. Touched(states[s], [states[s] EXCEPT !.signalled = FALSE])
      BY <1>1 DEF Touched, Sound, StateRecord
    <3>2. states' = [states EXCEPT ![s] = [states[s] EXCEPT !.signalled = FALSE]]
      BY <2>2 DEF EventReady
    <3>3. QED
      BY <2>2, <3>1, <3>2 DEF EventReady, Ready, Open
  <2>3. CASE StreamReady(s) \/ ProcessEnds(s)
    <3>1. Touched(states[s], [states[s] EXCEPT !.active = FALSE])
      BY <1>1 DEF Touched, Sound, StateRecord
    <3>2. states' = states \/ states' = [states EXCEPT ![s] = [states[s] EXCEPT !.active = FALSE]]
      BY <2>3 DEF StreamReady, ProcessEnds
    <3>3. QED
      BY <2>3, <3>1, <3>2 DEF StreamReady, ProcessEnds, Ready, Open
  <2>4. CASE Written(s)
    <3>1. states[s].writes > 0 /\ states[s].handle = "open"
      BY <2>4 DEF Written, Ready, Open
    <3>2. Touched(states[s], [states[s] EXCEPT !.writes = @ - 1])
      BY <1>1, <3>1 DEF Touched, Sound, StateRecord
    <3>3. states' = [states EXCEPT ![s] = [states[s] EXCEPT !.writes = @ - 1]]
      BY <2>4 DEF Written
    <3>4. QED
      BY <3>1, <3>2, <3>3
  <2>5. QED
    BY <2>1, <2>2, <2>3, <2>4
<1>6. /\ DOMAIN states' = DOMAIN states /\ states' \in Seq(StateRecord)
      /\ Len(states') = Len(states)
      /\ \A r \in DOMAIN states : Touched(states[r], states'[r])
  <2>1. CASE states' = states
    BY <2>1, Acting DEF HoldingInv, IOTypeOK
  <2>2. CASE \E state : Touched(states[s], state) /\ states' = [states EXCEPT ![s] = state]
    BY <2>2, OneTouched
  <2>3. QED
    BY <1>5, <2>1, <2>2
<1>7. loop # "idle" /\ until = "Closed" => states' = states
  BY <1>4, Acting
<1>8. QED
  BY <1>1, <1>2, <1>3, <1>6, <1>7, TouchedStep

LEMMA PlainSteps ==
    ASSUME HoldingInv, BeginPoll \/ CallReturns \/ UNCHANGED ioVars
    PROVE  HoldingInv'
<1>1. /\ UNCHANGED <<states, holds, loop, until, stopping>>
      /\ calling' \in {calling, NoCall, [calling EXCEPT !.left = @ - 1]}
  BY DEF BeginPoll, CallReturns, ioVars
<1>2. IOTypeOK /\ AllSound /\ Owning /\ LetGo /\ Handling /\ Ending
  BY DEF HoldingInv
<1>3. /\ calling' \in [state : 0 .. Len(states), left : Nat]
      /\ calling' # NoCall => calling # NoCall /\ calling'.state = calling.state
  <2>1. CASE calling' = calling \/ calling' = NoCall
    BY <1>2, <2>1 DEF IOTypeOK, NoCall
  <2>2. CASE calling' # calling /\ calling' # NoCall
    <3>1. CallReturns /\ calling.left # 0 /\ calling # NoCall
      BY <2>2 DEF BeginPoll, CallReturns, ioVars
    <3>2. calling' = [calling EXCEPT !.left = @ - 1]
      BY <3>1, <2>2 DEF CallReturns
    <3>3. calling.left \in Nat /\ calling.left - 1 \in Nat
      BY <1>2, <3>1 DEF IOTypeOK
    <3>4. QED
      BY <1>2, <3>1, <3>2, <3>3 DEF IOTypeOK
  <2>3. QED
    BY <2>1, <2>2
<1>4. IOTypeOK' /\ AllSound' /\ Owning' /\ LetGo'
  BY <1>1, <1>2, <1>3 DEF IOTypeOK, AllSound, Owning, LetGo
<1>5. Handling' /\ Ending'
  BY <1>1, <1>2, <1>3 DEF Handling, Ending
<1>6. QED
  BY <1>4, <1>5 DEF HoldingInv

LEMMA RunStep ==
    ASSUME HoldingInv, RunLoop
    PROVE  HoldingInv'
<1>1. PICK mode \in {"Once", "Default"} : Enter(states, mode)
  BY DEF RunLoop
<1>2. /\ UNCHANGED <<states, holds, stopping, calling>> /\ loop = "idle"
      /\ until' = mode /\ loop' \in {"running", "idle"}
      /\ calling = NoCall /\ ~stopping
  BY <1>1 DEF RunLoop, Enter, HoldingInv, Handling, Ending
<1>3. IOTypeOK' /\ AllSound' /\ Owning' /\ LetGo'
  BY <1>2 DEF HoldingInv, IOTypeOK, AllSound, Owning, LetGo
<1>4. Handling' /\ Ending'
  BY <1>2 DEF Handling, Ending
<1>5. QED
  BY <1>3, <1>4 DEF HoldingInv

\* When all objects are let go, nothing is open any more: no callback is made.
LEMMA ResetLoopStep ==
    ASSUME HoldingInv, ResetLoop
    PROVE  HoldingInv'
<1> DEFINE all == Discard(Range(holds))
<1>1. /\ states' = all /\ until' = "Closed" /\ UNCHANGED <<stopping, calling>>
      /\ loop' \in {"running", "gone"}
      /\ loop' = "gone" => ~Alive(all)
      /\ holds' = [o \in Objects |-> 0] /\ calling = NoCall /\ ~stopping
  BY DEF ResetLoop, Enter, HoldingInv, Handling, Ending
<1>2. \A s \in Range(holds) : \E o \in Objects : holds[o] = s
  BY DEF HoldingInv, IOTypeOK, Range
<1>3. \A o \in Objects : holds[o] \in Range(holds)
  BY DEF HoldingInv, IOTypeOK, Range
<1>4. /\ all \in Seq(StateRecord) /\ Len(all) = Len(states) /\ DOMAIN all = DOMAIN states
      /\ \A s \in DOMAIN states :
           /\ s \notin Range(holds) => all[s] = states[s]
           /\ s \in Range(holds) => Dropped(all[s])
           /\ s \in Range(holds) => all[s].handle # "open"
           /\ Sound(all[s])
  BY <1>2, Discarding
<1> HIDE DEF all
<1>5. IOTypeOK'
  <2>1. /\ holds' \in [Objects -> 0 .. Len(states)]
        /\ states' \in Seq(StateRecord) /\ Len(states') = Len(states)
    BY <1>1, <1>4, Acting
  <2>2. QED
    BY <1>1, <2>1 DEF HoldingInv, IOTypeOK
<1>6. AllSound' /\ Owning'
  BY <1>1, <1>4 DEF AllSound, Owning
<1>7. \A s \in DOMAIN states : Dropped(all[s])
  BY <1>3, <1>4 DEF HoldingInv, LetGo
<1>8. \A s \in DOMAIN states : all[s].handle # "open"
  BY <1>3, <1>4 DEF HoldingInv, LetGo, Dropped, Sound
<1>9. loop' = "gone" => \A s \in DOMAIN states : all[s].handle # "closing"
  BY <1>1, <1>4 DEF Alive
<1>10. LetGo' /\ Handling'
  BY <1>1, <1>4, <1>7 DEF LetGo, Handling
<1>11. Ending'
  BY <1>1, <1>4, <1>8, <1>9 DEF Ending
<1>12. QED
  BY <1>5, <1>6, <1>10, <1>11 DEF HoldingInv

LEMMA EndStep ==
    ASSUME HoldingInv, EndIteration
    PROVE  HoldingInv'
<1>1. /\ states' = ClosedStates /\ UNCHANGED <<holds, until, calling>> /\ calling = NoCall
      /\ loop = "running"
      /\ \/ loop' = loop /\ stopping' = stopping
         \/ /\ loop' = IF until = "Closed" THEN "gone" ELSE "idle"
            /\ stopping' = FALSE
  <2>1. CASE until \in {"Default", "Closed"} /\ Alive(states') /\ ~stopping
    BY <2>1 DEF EndIteration, Inside
  <2>2. CASE ~(until \in {"Default", "Closed"} /\ Alive(states') /\ ~stopping)
    BY <2>2 DEF EndIteration, Inside
  <2>3. QED
    BY <2>1, <2>2
<1>2. \A s \in DOMAIN states : states'[s] =
          IF states[s].handle = "closing"
          THEN [states[s] EXCEPT !.handle = "closed", !.writes = 0,
                                 !.freed = states[s].class # "process"]
          ELSE states[s]
  BY <1>1 DEF ClosedStates
<1>3. ASSUME NEW s \in DOMAIN states
      PROVE  /\ states'[s] \in StateRecord /\ Sound(states'[s])
             /\ Dropped(states[s]) => Dropped(states'[s])
             /\ states'[s].handle # "closing"
             /\ states'[s].handle = "open" => states[s].handle = "open"
             /\ states[s].handle # "closing" => states'[s] = states[s]
  <2>1. states[s] \in StateRecord /\ Sound(states[s])
    BY Acting DEF HoldingInv, AllSound
  <2>2. CASE states[s].handle # "closing"
    BY <1>2, <2>1, <2>2
  <2>3. CASE states[s].handle = "closing"
    <3>1. PICK gone \in BOOLEAN :
            /\ gone <=> states[s].class # "process"
            /\ states'[s] = [states[s] EXCEPT !.handle = "closed", !.writes = 0, !.freed = gone]
      BY <1>2, <2>3
    <3>2. states'[s].freed = gone
      BY <2>1, <3>1 DEF StateRecord
    <3>3. /\ states'[s].class = states[s].class /\ states'[s].handle = "closed"
          /\ states'[s].writes = 0
      BY <2>1, <3>1 DEF StateRecord
    <3>4. states'[s] \in StateRecord
      <4>1. states'[s] = [states[s] EXCEPT !.handle = "closed", !.writes = 0, !.freed = gone]
        BY <3>1
      <4>2. QED
        BY <2>1, <4>1, ClosedState
    <3>5. Sound(states'[s]) /\ Dropped(states'[s])
      BY <3>1, <3>2, <3>3 DEF Sound, Dropped
    <3>6. QED
      BY <2>3, <3>3, <3>4, <3>5
  <2>4. QED
    BY <2>2, <2>3
<1>4. states \in Seq(StateRecord) /\ states' \in [DOMAIN states -> StateRecord]
  BY <1>1, <1>3 DEF HoldingInv, IOTypeOK, ClosedStates
<1>5. /\ states' \in Seq(StateRecord) /\ Len(states') = Len(states)
      /\ DOMAIN states' = DOMAIN states
  BY <1>4, Replaced
<1>6. IOTypeOK'
  BY <1>1, <1>5 DEF HoldingInv, IOTypeOK
<1>7. AllSound' /\ Handling'
  BY <1>1, <1>3, <1>5 DEF AllSound, Handling
<1>8. Owning'
  BY <1>1, <1>3, <1>5, Acting DEF HoldingInv, Owning, InUse
<1>9. LetGo'
  BY <1>1, <1>3, <1>5 DEF HoldingInv, LetGo
<1>10. Ending'
  BY <1>1, <1>3, <1>5 DEF HoldingInv, Ending
<1>11. QED
  BY <1>6, <1>7, <1>8, <1>9, <1>10 DEF HoldingInv

-----------------------------------------------------------------------------

LEMMA OwnershipStep ==
    ASSUME HoldingInv, [IONext]_ioVars
    PROVE  HoldingInv'
<1>1. ASSUME NEW o \in Objects,
             Create(o) \/ Reset(o) \/ Signal(o) \/ StartRead(o) \/ StopRead(o) \/ Write(o)
      PROVE  HoldingInv'
  BY <1>1, CreateStep, ResetStep, ObjectSteps
<1>2. ASSUME NEW o \in Objects, NEW p \in Objects, Assign(o, p)
      PROVE  HoldingInv'
  BY <1>2, AssignStep
<1>3. ASSUME NEW o \in Objects, NEW p \in Objects, NEW q \in Objects, Spawn(o, p, q)
      PROVE  HoldingInv'
  BY <1>3, SpawnStep
<1>4. ASSUME NEW s \in DOMAIN states,
             Prepare(s) \/ EventReady(s) \/ StreamReady(s) \/ WatchReady(s)
               \/ Written(s) \/ ProcessEnds(s)
      PROVE  HoldingInv'
  BY <1>4, HandlerStep
<1>5. CASE Stop \/ RunLoop \/ ResetLoop \/ EndIteration
  BY <1>5, StopStep, RunStep, ResetLoopStep, EndStep
<1>6. CASE BeginPoll \/ CallReturns \/ UNCHANGED ioVars
  BY <1>6, PlainSteps
<1>7. QED
  BY <1>1, <1>2, <1>3, <1>4, <1>5, <1>6 DEF IONext, ProgramStep, LoopStep, IOGone

LEMMA OwnershipStart == IOInit => HoldingInv
<1> SUFFICES ASSUME IOInit PROVE HoldingInv
  OBVIOUS
<1>1. states \in Seq(StateRecord) /\ Len(states) = 0 /\ DOMAIN states = {}
  BY DEF IOInit
<1>2. IOTypeOK
  <2>1. holds \in [Objects -> 0 .. Len(states)] /\ calling \in [state : 0 .. Len(states), left : Nat]
    BY <1>1 DEF IOInit, NoCall
  <2>2. QED
    BY <1>1, <2>1 DEF IOInit, IOTypeOK
<1>3. AllSound /\ Owning /\ LetGo /\ Handling /\ Ending
  BY <1>1 DEF IOInit, AllSound, Owning, LetGo, Handling, Ending
<1>4. QED
  BY <1>2, <1>3 DEF HoldingInv

LEMMA HoldingInvariance == IOSpec => []HoldingInv
  BY OwnershipStart, OwnershipStep, PTL DEF IOSpec

\* The invariant says more than what the run checks.
LEMMA OwnershipSuffices == HoldingInv => StatesOwned
<1> SUFFICES ASSUME HoldingInv PROVE StatesOwned
  OBVIOUS
<1>1. \A o, p \in Objects : holds[o] # 0 =>
        Held(o).handle \in {"open", "uninitialised"} /\ (holds[o] = holds[p] => o = p)
  BY DEF HoldingInv, Owning, InUse, Held
<1>2. calling # NoCall => ~states[calling.state].freed
  BY Acting DEF HoldingInv, Handling, AllSound, Sound
<1>3. ASSUME NEW s \in DOMAIN states
      PROVE  /\ states[s].freed => states[s].handle \in {"closed", "uninitialised"} /\ states[s].writes = 0
             /\ \/ s \in Range(holds) \/ states[s].freed \/ states[s].handle = "closing"
                \/ states[s].class = "process" /\ states[s].handle = "closed"
  <2>1. states[s] \in StateRecord /\ Sound(states[s])
    BY Acting DEF HoldingInv, AllSound
  <2>2. states[s].freed => states[s].handle \in {"closed", "uninitialised"} /\ states[s].writes = 0
    BY <2>1 DEF Sound, StateRecord
  <2>3. s \in Range(holds) \/ Dropped(states[s])
    BY DEF HoldingInv, IOTypeOK, LetGo, Range
  <2>4. QED
    BY <2>2, <2>3 DEF Dropped
<1>4. loop = "gone" => \A s \in DOMAIN states : states[s].handle \in {"closed", "uninitialised"}
  BY Acting DEF HoldingInv, Ending, StateRecord, Handles
<1>5. QED
  BY <1>1, <1>2, <1>3, <1>4 DEF StatesOwned

\* Whatever objects a program has and however it creates, moves, resets and uses
\* them, inside the loop's callbacks too: a state belongs to at most one object,
\* is deleted once libuv is through with it and not before, and not lost, but for
\* the State of a process.
THEOREM StatesAreOwned == IOSpec => []StatesOwned
  BY HoldingInvariance, OwnershipSuffices, PTL

-----------------------------------------------------------------------------
(***************************************************************************)
(* Ownership.  The inductive invariant keeps the books of every object      *)
(* (Account): its count is the number of its claims, which are the holders  *)
(* that are not being assigned, the objects that own it and have not let it *)
(* go, and the threads that are yet to count it down or to put it into a    *)
(* holder; and one that is being deleted has none.  It also says what the   *)
(* steps of a thread that lets go are (LettingInv), that one step of one    *)
(* thread deletes an object (KillInv), and that a thread that is about to   *)
(* count an object up has another holder that keeps it alive (ThenInv).     *)
(***************************************************************************)
Cell == [refs : Int, member : Nat, freed : BOOLEAN]
LettingStep == [do : {"unref", "delete", "free"}, cell : Nat]
Assignment ==
    {Nothing} \cup [do : {"put"}, holder : Pointers, cell : Nat]
              \cup [do : {"copy", "clone", "take"}, holder : Pointers, from : Pointers]
              \cup [do : {"inside", "pull"}, holder : Pointers, cell : Nat]
              \cup [do : {"ref", "count"}, holder : Pointers]

OwnTypeOK ==
    /\ class \in Classes
    /\ points \in [Pointers -> 0 .. Len(cells)]
    /\ cells \in Seq(Cell)
    /\ letting \in [Threads -> Seq(LettingStep)]
    /\ then \in [Threads -> Assignment]
    /\ \A c \in DOMAIN cells : cells[c].member \in 0 .. Len(cells)

\* What a thread lets go of: memory goes after what its object owned.
LettingInv ==
    \A t \in Threads :
        /\ letting[t] # <<>> => then[t] # Nothing
        /\ \A i \in DOMAIN letting[t] :
            /\ letting[t][i].cell \in DOMAIN cells
            /\ i > 1 => letting[t][i].do = "free"
            /\ letting[t][i].do = "unref" => Counted

\* What a thread assigns, with holders of its own; before the count goes up,
\* another of its holders points to the object.
ThenOf(t) ==
    /\ then[t] # Nothing => Runner[then[t].holder] = t
    /\ then[t].do = "put" => then[t].cell \in 0 .. Len(cells)
    /\ then[t].do \in {"copy", "clone", "take"} =>
           Runner[then[t].from] = t
    /\ then[t].do \in {"copy", "take"} => then[t].from # then[t].holder
    /\ then[t].do \in {"inside", "pull"} => then[t].cell \in DOMAIN cells
    /\ then[t].do \in {"copy", "ref", "count", "inside", "pull"} => Counted
    /\ then[t].do = "clone" => class = "string"
    /\ then[t].do = "ref" =>
           /\ letting[t] = <<>>
           /\ \E g \in Pointers : /\ Runner[g] = t /\ g # then[t].holder
                                  /\ points[g] = points[then[t].holder]
ThenInv == \A t \in Threads : ThenOf(t)

\* Who has a claim to an object: holders that are not being assigned, objects
\* whose own pointer is still to be let go, and threads in the middle of a call
\* that have yet to count it down or to put it into a holder.
Settled(h) == then[Runner[h]] # Nothing => then[Runner[h]].holder # h
Freeing(c) == \E t \in Threads : \E i \in DOMAIN letting[t] :
                  letting[t][i].do = "free" /\ letting[t][i].cell = c
HoldersOf(c) == {h \in Pointers : Settled(h) /\ points[h] = c}
MembersOf(c) == {d \in DOMAIN cells : cells[d].member = c /\ ~Freeing(d)}
UnrefsOf(c) == {t \in Threads : Lets(t, "unref") /\ Top(t).cell = c}
PutsOf(c) == {t \in Threads : then[t].do = "put" /\ then[t].cell = c}

Claims(c) == Cardinality(HoldersOf(c)) + Cardinality(MembersOf(c))
             + Cardinality(UnrefsOf(c)) + Cardinality(PutsOf(c))

\* Whoever deletes an object is one step of one thread.
Killing(t, i, c) == i \in DOMAIN letting[t] /\ letting[t][i].do # "unref" /\ letting[t][i].cell = c
Doomed(c) == cells[c].freed \/ \E t \in Threads : \E i \in DOMAIN letting[t] : Killing(t, i, c)
KillInv ==
    \A c \in DOMAIN cells : \A t, u \in Threads : \A i \in DOMAIN letting[t], j \in DOMAIN letting[u] :
        Killing(t, i, c) => ~cells[c].freed /\ (Killing(u, j, c) => t = u /\ i = j)

Finite(c) ==
    /\ IsFiniteSet(HoldersOf(c)) /\ IsFiniteSet(MembersOf(c))
    /\ IsFiniteSet(UnrefsOf(c)) /\ IsFiniteSet(PutsOf(c))

Account(c) ==
    /\ Finite(c)
    /\ cells[c].refs = IF Counted THEN Claims(c) ELSE 1
    /\ Doomed(c) => Claims(c) = 0
    /\ ~Doomed(c) => \/ Claims(c) = 1
                     \/ Counted /\ Claims(c) > 0
                     \/ class = "delegate" /\ Claims(c) = 0
AccountInv == \A c \in DOMAIN cells : Account(c)

OwnInv == OwnTypeOK /\ LettingInv /\ ThenInv /\ KillInv /\ AccountInv

-----------------------------------------------------------------------------
(***************************************************************************)
(* Counting                                                                *)
(***************************************************************************)
\* T has d more elements than S.
Moved(S, T, d) ==
    \/ d = 0 /\ T = S
    \/ d = 1 /\ \E x : x \notin S /\ T = S \cup {x}
    \/ d = -1 /\ \E x \in S : T = S \ {x}
    \/ d = 0 /\ \E x \in S : \E y : y \notin S /\ T = (S \ {x}) \cup {y}
    \/ d = -2 /\ \E x, y \in S : x # y /\ T = (S \ {x}) \ {y}

LEMMA MovedCounts ==
    ASSUME NEW S, NEW T, NEW d, IsFiniteSet(S), Moved(S, T, d)
    PROVE  /\ IsFiniteSet(T)
           /\ Cardinality(S) \in Nat /\ Cardinality(T) \in Nat
           /\ d \in Int /\ Cardinality(T) = Cardinality(S) + d
<1>0. Cardinality(S) \in Nat
  BY FS_CardinalityType
<1>1. CASE d = 0 /\ T = S
  BY <1>0, <1>1
<1>2. CASE d = 1 /\ \E x : x \notin S /\ T = S \cup {x}
  BY <1>0, <1>2, FS_AddElement
<1>3. CASE d = -1 /\ \E x \in S : T = S \ {x}
  <2>1. PICK x \in S : T = S \ {x}
    BY <1>3
  <2>2. IsFiniteSet(T) /\ Cardinality(T) = Cardinality(S) - 1
    BY <2>1, FS_RemoveElement
  <2>3. Cardinality(T) \in Nat
    BY <2>2, FS_CardinalityType
  <2>4. QED BY <1>0, <1>3, <2>2, <2>3
<1>4. CASE d = 0 /\ \E x \in S : \E y : y \notin S /\ T = (S \ {x}) \cup {y}
  <2>1. PICK x, y : x \in S /\ y \notin S /\ T = (S \ {x}) \cup {y}
    BY <1>4
  <2>2. IsFiniteSet(S \ {x}) /\ Cardinality(S \ {x}) = Cardinality(S) - 1
    BY <2>1, FS_RemoveElement
  <2>3. y \notin S \ {x}
    BY <2>1
  <2>4. IsFiniteSet(T) /\ Cardinality(T) = Cardinality(S \ {x}) + 1
    BY <2>1, <2>2, <2>3, FS_AddElement
  <2>5. QED BY <1>0, <1>4, <2>2, <2>4
<1>5. CASE d = -2 /\ \E x, y \in S : x # y /\ T = (S \ {x}) \ {y}
  <2>1. PICK x \in S, y \in S : x # y /\ T = (S \ {x}) \ {y}
    BY <1>5
  <2>2. IsFiniteSet(S \ {x}) /\ Cardinality(S \ {x}) = Cardinality(S) - 1
    BY FS_RemoveElement
  <2>3. y \in S \ {x}
    BY <2>1
  <2>4. IsFiniteSet(T) /\ Cardinality(T) = Cardinality(S \ {x}) - 1
    BY <2>1, <2>2, <2>3, FS_RemoveElement
  <2>5. Cardinality(T) \in Nat
    BY <2>4, FS_CardinalityType
  <2>6. QED BY <1>0, <1>5, <2>2, <2>4, <2>5
<1>6. QED BY <1>1, <1>2, <1>3, <1>4, <1>5 DEF Moved

\* An object's books after a step.
LEMMA Balance ==
    ASSUME NEW c, Finite(c),
           NEW h, NEW m, NEW u, NEW p,
           Moved(HoldersOf(c), HoldersOf(c)', h), Moved(MembersOf(c), MembersOf(c)', m),
           Moved(UnrefsOf(c), UnrefsOf(c)', u), Moved(PutsOf(c), PutsOf(c)', p)
    PROVE  /\ Finite(c)'
           /\ Claims(c) \in Nat /\ Claims(c)' \in Nat
           /\ Claims(c)' = Claims(c) + h + m + u + p
<1>1. /\ IsFiniteSet(HoldersOf(c)') /\ Cardinality(HoldersOf(c)) \in Nat
      /\ Cardinality(HoldersOf(c)') \in Nat
      /\ h \in Int /\ Cardinality(HoldersOf(c)') = Cardinality(HoldersOf(c)) + h
  BY MovedCounts DEF Finite
<1>2. /\ IsFiniteSet(MembersOf(c)') /\ Cardinality(MembersOf(c)) \in Nat
      /\ Cardinality(MembersOf(c)') \in Nat
      /\ m \in Int /\ Cardinality(MembersOf(c)') = Cardinality(MembersOf(c)) + m
  BY MovedCounts DEF Finite
<1>3. /\ IsFiniteSet(UnrefsOf(c)') /\ Cardinality(UnrefsOf(c)) \in Nat
      /\ Cardinality(UnrefsOf(c)') \in Nat
      /\ u \in Int /\ Cardinality(UnrefsOf(c)') = Cardinality(UnrefsOf(c)) + u
  BY MovedCounts DEF Finite
<1>4. /\ IsFiniteSet(PutsOf(c)') /\ Cardinality(PutsOf(c)) \in Nat
      /\ Cardinality(PutsOf(c)') \in Nat
      /\ p \in Int /\ Cardinality(PutsOf(c)') = Cardinality(PutsOf(c)) + p
  BY MovedCounts DEF Finite
<1>5. Finite(c)'
  BY <1>1, <1>2, <1>3, <1>4 DEF Finite
<1>6. Claims(c)' = Cardinality(HoldersOf(c)') + Cardinality(MembersOf(c)')
                   + Cardinality(UnrefsOf(c)') + Cardinality(PutsOf(c)')
  BY DEF Claims
<1> HIDE DEF HoldersOf, MembersOf, UnrefsOf, PutsOf
<1>7. QED BY <1>1, <1>2, <1>3, <1>4, <1>5, <1>6 DEF Claims

LEMMA Counts ==
    ASSUME NEW c, Finite(c)
    PROVE  /\ Claims(c) \in Nat
           /\ HoldersOf(c) # {} => Claims(c) > 0
           /\ MembersOf(c) # {} => Claims(c) > 0
           /\ UnrefsOf(c) # {} => Claims(c) > 0
           /\ PutsOf(c) # {} => Claims(c) > 0
<1>1. /\ Cardinality(HoldersOf(c)) \in Nat /\ (Cardinality(HoldersOf(c)) = 0 <=> HoldersOf(c) = {})
      /\ Cardinality(MembersOf(c)) \in Nat /\ (Cardinality(MembersOf(c)) = 0 <=> MembersOf(c) = {})
      /\ Cardinality(UnrefsOf(c)) \in Nat /\ (Cardinality(UnrefsOf(c)) = 0 <=> UnrefsOf(c) = {})
      /\ Cardinality(PutsOf(c)) \in Nat /\ (Cardinality(PutsOf(c)) = 0 <=> PutsOf(c) = {})
  BY FS_CardinalityType, FS_EmptySet DEF Finite
<1>2. QED BY <1>1 DEF Claims

-----------------------------------------------------------------------------
(***************************************************************************)
(* Beginning a call                                                        *)
(***************************************************************************)
LEMMA CellType ==
    ASSUME OwnInv, NEW c \in DOMAIN cells
    PROVE  /\ cells[c] \in Cell /\ cells[c].refs \in Int /\ cells[c].freed \in BOOLEAN
           /\ cells[c].member \in 0 .. Len(cells) /\ c # 0 /\ c \in 1 .. Len(cells)
           /\ Len(cells) \in Nat
<1>1. cells[c] \in Cell /\ cells[c].member \in 0 .. Len(cells) /\ c \in 1 .. Len(cells) /\ Len(cells) \in Nat
  BY DEF OwnInv, OwnTypeOK
<1>2. QED BY <1>1 DEF Cell

LEMMA OwnInit == OwnershipInit => OwnInv
<1> SUFFICES ASSUME OwnershipInit PROVE OwnInv
  OBVIOUS
<1>1. cells = <<>> /\ Len(cells) = 0 /\ DOMAIN cells = {}
  BY DEF OwnershipInit
<1>2. OwnTypeOK
  BY <1>1 DEF OwnershipInit, OwnTypeOK, Assignment
<1>3. LettingInv
  BY DEF OwnershipInit, LettingInv
<1>4. ThenInv
  BY DEF OwnershipInit, ThenInv, ThenOf, Nothing
<1>5. KillInv /\ AccountInv
  BY <1>1 DEF KillInv, AccountInv
<1>6. QED BY <1>2, <1>3, <1>4, <1>5 DEF OwnInv

\* Objects may be added and their own pointers change, no object goes.
Grows ==
    /\ cells' \in Seq(Cell)
    /\ Len(cells) <= Len(cells')
    /\ \A c \in DOMAIN cells' : cells'[c].member \in 0 .. Len(cells')
    /\ \A c \in DOMAIN cells : cells'[c].freed = cells[c].freed /\ cells'[c].refs = cells[c].refs
    /\ \A c \in DOMAIN cells' \ DOMAIN cells : ~cells'[c].freed /\ cells'[c].refs = 1

Keeps ==
    /\ Len(cells) <= Len(cells') /\ cells' \in Seq(Cell)
    /\ \A c \in DOMAIN cells : cells'[c].freed = cells[c].freed
    /\ \A c \in DOMAIN cells' \ DOMAIN cells : ~cells'[c].freed

\* What a call lets go of at once is counted down or deleted, and nothing else.
BeginLets(h, lost) ==
    /\ LettingInv' /\ KillInv'
    /\ \A c \in DOMAIN cells' : Freeing(c)' <=> Freeing(c)
    /\ \A c \in DOMAIN cells' :
        /\ ~(Counted /\ c = lost) => UnrefsOf(c)' = UnrefsOf(c)
        /\ Counted /\ c = lost => Moved(UnrefsOf(c), UnrefsOf(c)', 1)
    /\ \A c \in DOMAIN cells : ~(~Counted /\ c = lost) => (Doomed(c)' <=> Doomed(c))
    /\ lost # 0 /\ ~Counted => Doomed(lost)'
    /\ \A c \in DOMAIN cells' \ DOMAIN cells : ~Doomed(c)'

LEMMA OneStep ==
    ASSUME NEW S, NEW x \in S
    PROVE  /\ <<x>> \in Seq(S) /\ Len(<<x>>) = 1 /\ DOMAIN <<x>> = {1} /\ <<x>>[1] = x
           /\ <<x>> # <<>> /\ Head(<<x>>) = x
OBVIOUS

LEMMA BeginLetting ==
    ASSUME OwnInv, NEW h \in Pointers, NEW lost \in 0 .. Len(cells), NEW a \in Assignment,
           Begin(h, lost, a), a = Nothing => lost = 0, Grows,
           lost # 0 => ~Doomed(lost)
    PROVE  /\ letting' \in [Threads -> Seq(LettingStep)]
           /\ then' \in [Threads -> Assignment]
           /\ BeginLets(h, lost)
<1> DEFINE t == Runner[h]
<1>1. /\ t \in Threads /\ letting[t] = <<>> /\ then[t] = Nothing
      /\ letting' = [letting EXCEPT ![t] = Lose(lost)]
      /\ then' = [then EXCEPT ![t] = a]
      /\ class' = class
  BY RunnerAssumption DEF Begin, Idle
<1>2. /\ letting \in [Threads -> Seq(LettingStep)] /\ then \in [Threads -> Assignment]
      /\ cells \in Seq(Cell) /\ cells' \in Seq(Cell)
  BY DEF OwnInv, OwnTypeOK, Grows
<1>3. DOMAIN cells = 1 .. Len(cells) /\ DOMAIN cells' = 1 .. Len(cells') /\ DOMAIN cells \subseteq DOMAIN cells'
  BY <1>2 DEF Grows
<1>4. /\ lost = 0 => Lose(lost) = <<>>
      /\ lost # 0 /\ Counted => Lose(lost) = <<[do |-> "unref", cell |-> lost]>>
      /\ lost # 0 /\ ~Counted => Lose(lost) = <<[do |-> "delete", cell |-> lost]>>
  BY DEF Lose
<1>5. /\ Lose(lost) \in Seq(LettingStep)
      /\ lost # 0 => DOMAIN Lose(lost) = {1} /\ Lose(lost) # <<>>
  <2>1. lost \in Nat
    BY <1>2
  <2>2. /\ [do |-> "unref", cell |-> lost] \in LettingStep
        /\ [do |-> "delete", cell |-> lost] \in LettingStep
    BY <2>1 DEF LettingStep
  <2> HIDE DEF LettingStep
  <2>3. CASE lost = 0
    BY <2>3, <1>4, EmptySeq
  <2>4. CASE lost # 0 /\ Counted
    <3>1. Lose(lost) = <<[do |-> "unref", cell |-> lost]>>
      BY <2>4, <1>4
    <3>2. QED BY <3>1, <2>2, OneStep
  <2>5. CASE lost # 0 /\ ~Counted
    <3>1. Lose(lost) = <<[do |-> "delete", cell |-> lost]>>
      BY <2>5, <1>4
    <3>2. QED BY <3>1, <2>2, OneStep
  <2>6. QED BY <2>3, <2>4, <2>5
<1>6. letting' \in [Threads -> Seq(LettingStep)] /\ then' \in [Threads -> Assignment]
  BY <1>1, <1>2, <1>5
<1>7. /\ \A v \in Threads \ {t} : letting'[v] = letting[v] /\ then'[v] = then[v]
      /\ letting'[t] = Lose(lost) /\ then'[t] = a
  BY <1>1, <1>2
<1>8. \A i \in DOMAIN letting'[t] :
        /\ i = 1 /\ lost # 0 /\ lost \in DOMAIN cells /\ letting'[t][i].cell = lost
        /\ letting'[t][i].do = IF Counted THEN "unref" ELSE "delete"
  <2>1. CASE lost = 0
    BY <2>1, <1>4, <1>7
  <2>2. CASE lost # 0 /\ Counted
    BY <2>2, <1>3, <1>4, <1>7
  <2>3. CASE lost # 0 /\ ~Counted
    BY <2>3, <1>3, <1>4, <1>7
  <2>4. QED BY <2>1, <2>2, <2>3
<1>9. lost # 0 => 1 \in DOMAIN letting'[t] /\ letting'[t] # <<>>
  BY <1>5, <1>7
<1>10. DOMAIN letting[t] = {}
  BY <1>1
<1> HIDE DEF t
<1>11. LettingInv'
  <2> SUFFICES ASSUME NEW v \in Threads
               PROVE  /\ letting'[v] # <<>> => then'[v] # Nothing
                      /\ \A i \in DOMAIN letting'[v] :
                           /\ letting'[v][i].cell \in DOMAIN cells'
                           /\ i > 1 => letting'[v][i].do = "free"
                           /\ letting'[v][i].do = "unref" => Counted
    BY <1>1 DEF LettingInv, Counted, Nothing
  <2>1. CASE v = t
    BY <2>1, <1>3, <1>4, <1>7, <1>8
  <2>2. CASE v # t
    BY <2>2, <1>3, <1>7 DEF OwnInv, LettingInv
  <2>3. QED BY <2>1, <2>2
<1>12. \A v \in Threads : \A i : \A c :
         Killing(v, i, c)' <=> Killing(v, i, c) \/ (v = t /\ i = 1 /\ c = lost /\ lost # 0 /\ ~Counted)
  BY <1>7, <1>8, <1>9, <1>10 DEF Killing
<1>13. \A v \in Threads : \A i : \A c : Killing(v, i, c) => i \in DOMAIN letting[v] /\ Killing(v, i, c)
  BY DEF Killing
<1>14. \A c \in DOMAIN cells' \ DOMAIN cells : \A v \in Threads : \A i : ~Killing(v, i, c)
  BY DEF OwnInv, LettingInv, Killing
<1>15. KillInv'
  <2> SUFFICES ASSUME NEW c \in DOMAIN cells', NEW v \in Threads, NEW u \in Threads, NEW i, NEW j, Killing(v, i, c)'
               PROVE  ~cells'[c].freed /\ (Killing(u, j, c)' => v = u /\ i = j)
    BY DEF KillInv
  <2>1. CASE Killing(v, i, c)
    <3>1. c \in DOMAIN cells /\ i \in DOMAIN letting[v] /\ Doomed(c)
      BY <2>1, <1>13, <1>14 DEF Doomed
    <3>2. ~cells'[c].freed
      BY <2>1, <3>1 DEF OwnInv, KillInv, Grows
    <3>3. ASSUME Killing(u, j, c)' PROVE v = u /\ i = j
      <4>1. Killing(u, j, c)
        BY <3>1, <3>3, <1>12
      <4>2. QED BY <2>1, <3>1, <4>1, <1>13 DEF OwnInv, KillInv
    <3>4. QED BY <3>2, <3>3
  <2>2. CASE ~Killing(v, i, c)
    <3>1. v = t /\ i = 1 /\ c = lost /\ lost # 0 /\ ~Counted
      BY <2>2, <1>12
    <3>2. ~cells'[c].freed
      BY <3>1, <1>3 DEF Doomed, Grows
    <3>3. ASSUME Killing(u, j, c)' PROVE v = u /\ i = j
      <4>1. ~Killing(u, j, c)
        BY <3>1, <1>13 DEF Doomed
      <4>2. QED BY <3>1, <3>3, <4>1, <1>12
    <3>4. QED BY <3>2, <3>3
  <2>3. QED BY <2>1, <2>2
<1>16. \A c \in DOMAIN cells' : Freeing(c)' <=> Freeing(c)
  BY <1>7, <1>8, <1>10 DEF Freeing
<1>17. \A c \in DOMAIN cells' :
         /\ ~(Counted /\ c = lost) => UnrefsOf(c)' = UnrefsOf(c)
         /\ Counted /\ c = lost => Moved(UnrefsOf(c), UnrefsOf(c)', 1)
  <2>1. \A v \in Threads \ {t} : \A c :
          (Lets(v, "unref") /\ Top(v).cell = c)' <=> (Lets(v, "unref") /\ Top(v).cell = c)
    BY <1>7 DEF Lets, Top
  <2>2. \A c : ~(Lets(t, "unref") /\ Top(t).cell = c)
    BY <1>1 DEF Lets, t
  <2>3. \A c : (Lets(t, "unref") /\ Top(t).cell = c)' <=> Counted /\ lost # 0 /\ c = lost
    BY <1>4, <1>7 DEF Lets, Top
  <2>4. SUFFICES ASSUME NEW c \in DOMAIN cells'
                 PROVE  /\ ~(Counted /\ c = lost) => UnrefsOf(c)' = UnrefsOf(c)
                        /\ Counted /\ c = lost => Moved(UnrefsOf(c), UnrefsOf(c)', 1)
    OBVIOUS
  <2>5. c # 0 /\ t \in Threads
    BY <1>1, <1>3 DEF t
  <2>6. ~(Counted /\ c = lost) => UnrefsOf(c)' = UnrefsOf(c)
    BY <2>1, <2>2, <2>3 DEF UnrefsOf
  <2>7. ASSUME Counted, c = lost PROVE Moved(UnrefsOf(c), UnrefsOf(c)', 1)
    <3>1. t \notin UnrefsOf(c)
      BY <2>2 DEF UnrefsOf
    <3>2. UnrefsOf(c)' = UnrefsOf(c) \cup {t}
      BY <2>1, <2>2, <2>3, <2>5, <2>7 DEF UnrefsOf
    <3>3. QED BY <3>1, <3>2 DEF Moved
  <2>8. QED BY <2>6, <2>7
<1>18. \A c \in DOMAIN cells : ~(~Counted /\ c = lost) => (Doomed(c)' <=> Doomed(c))
  <2> SUFFICES ASSUME NEW c \in DOMAIN cells, ~(~Counted /\ c = lost)
               PROVE  Doomed(c)' <=> Doomed(c)
    OBVIOUS
  <2>1. cells'[c].freed = cells[c].freed
    BY DEF Grows
  <2>2. \A v \in Threads : \A i : Killing(v, i, c)' <=> Killing(v, i, c)
    BY <1>12
  <2>3. \A v \in Threads : \A i : Killing(v, i, c)' => i \in DOMAIN letting'[v]
    BY DEF Killing
  <2>4. QED BY <2>1, <2>2, <2>3, <1>13 DEF Doomed
<1>19. \A c \in DOMAIN cells' \ DOMAIN cells : ~Doomed(c)'
  <2> SUFFICES ASSUME NEW c \in DOMAIN cells' \ DOMAIN cells PROVE ~Doomed(c)'
    OBVIOUS
  <2>1. ~cells'[c].freed
    BY DEF Grows
  <2>2. \A v \in Threads : \A i : ~Killing(v, i, c)'
    BY <1>3, <1>12, <1>14
  <2>3. QED BY <2>1, <2>2 DEF Doomed
<1>20. lost # 0 /\ ~Counted => Doomed(lost)'
  <2> SUFFICES ASSUME lost # 0, ~Counted PROVE Doomed(lost)'
    OBVIOUS
  <2>1. t \in Threads /\ 1 \in DOMAIN letting'[t]
    BY <1>1, <1>9 DEF t
  <2>2. Killing(t, 1, lost)'
    BY <2>1, <1>12
  <2>3. QED BY <2>1, <2>2 DEF Doomed
<1>21. QED BY <1>20, <1>6, <1>11, <1>15, <1>16, <1>17, <1>18, <1>19 DEF BeginLets

LEMMA BeginViews ==
    ASSUME OwnInv, NEW h \in Pointers, NEW lost, NEW a \in Assignment,
           Begin(h, lost, a), a = Nothing \/ a.holder = h
    PROVE  /\ \A g \in Pointers : Runner[g] = Runner[h] => Settled(g)
           /\ \A g \in Pointers : Settled(g)' <=> Settled(g) /\ (a = Nothing \/ g # h)
           /\ \A c : ~(a.do = "put" /\ a.cell = c) => PutsOf(c)' = PutsOf(c)
           /\ \A c : a.do = "put" /\ a.cell = c => Moved(PutsOf(c), PutsOf(c)', 1)
<1> DEFINE t == Runner[h]
<1>1. /\ t \in Threads /\ then[t] = Nothing /\ then \in [Threads -> Assignment]
      /\ then' = [then EXCEPT ![t] = a]
  BY RunnerAssumption DEF Begin, Idle, OwnInv, OwnTypeOK
<1>2. /\ \A v \in Threads \ {t} : then'[v] = then[v]
      /\ then'[t] = a
  BY <1>1
<1>3. \A g \in Pointers : Runner[g] \in Threads
  BY RunnerAssumption
<1> HIDE DEF t
<1>4. \A g \in Pointers : Runner[g] = t => Settled(g)
  BY <1>1 DEF Settled
<1>5. \A g \in Pointers : Settled(g)' <=> Settled(g) /\ (a = Nothing \/ g # h)
  <2> SUFFICES ASSUME NEW g \in Pointers
               PROVE  Settled(g)' <=> Settled(g) /\ (a = Nothing \/ g # h)
    OBVIOUS
  <2>1. CASE Runner[g] = t
    BY <2>1, <1>2, <1>4 DEF Settled
  <2>2. CASE Runner[g] # t
    <3>1. g # h
      BY <2>2 DEF t
    <3>2. QED BY <2>2, <3>1, <1>2, <1>3 DEF Settled
  <2>3. QED BY <2>1, <2>2
<1>6. then[t].do # "put"
  BY <1>1 DEF Nothing
<1>7. \A c : t \notin PutsOf(c)
  BY <1>6 DEF PutsOf
<1>8. \A c : ~(a.do = "put" /\ a.cell = c) => PutsOf(c)' = PutsOf(c)
  BY <1>2, <1>6 DEF PutsOf
<1>9. ASSUME NEW c, a.do = "put", a.cell = c PROVE Moved(PutsOf(c), PutsOf(c)', 1)
  <2>1. PutsOf(c)' = PutsOf(c) \cup {t}
    BY <1>1, <1>2, <1>6, <1>9 DEF PutsOf
  <2>2. QED BY <2>1, <1>7 DEF Moved
<1>10. QED BY <1>4, <1>5, <1>8, <1>9 DEF t

LEMMA GrowsKeeps == Grows => Keeps
BY DEF Grows, Keeps

LEMMA OtherThen ==
    ASSUME OwnInv, NEW v \in Threads, class' = class, Keeps,
           then'[v] = then[v], letting'[v] = letting[v],
           \A g \in Pointers : Runner[g] = v => points'[g] = points[g]
    PROVE  ThenOf(v)'
<1>1. ThenOf(v) /\ then[v] \in Assignment /\ Len(cells) \in Nat /\ Len(cells') \in Nat
  BY DEF OwnInv, OwnTypeOK, ThenInv, Keeps
<1>2. then[v].do = "ref" => then[v].holder \in Pointers /\ Runner[then[v].holder] = v
  BY <1>1 DEF ThenOf, Assignment, Nothing
<1>3. QED BY <1>1, <1>2 DEF ThenOf, Keeps, Counted

LEMMA BeginAccount ==
    ASSUME OwnInv, NEW h, NEW lost, BeginLets(h, lost), class' = class, Grows,
           NEW c \in DOMAIN cells,
           NEW dh, NEW dm, NEW dp,
           Moved(HoldersOf(c), HoldersOf(c)', dh), Moved(MembersOf(c), MembersOf(c)', dm),
           Moved(PutsOf(c), PutsOf(c)', dp),
           \/ c = lost /\ ~Doomed(c) /\ dh + dm + dp = -1
           \/ c # lost /\ dh + dm + dp = 0
           \/ c # lost /\ class = "delegate" /\ dh + dm + dp = -1
    PROVE  Account(c)'
<1>1. /\ Account(c) /\ Finite(c) /\ c \in DOMAIN cells'
      /\ cells'[c].refs = cells[c].refs
  BY DEF OwnInv, OwnTypeOK, AccountInv, Account, Grows
<1>2. Counted' = Counted /\ Counted \in BOOLEAN
  BY DEF Counted
<1>3. c # 0
  BY DEF OwnInv, OwnTypeOK
<1>0. dh \in Int /\ dm \in Int /\ dp \in Int
  BY DEF Moved
<1>4. CASE Counted /\ c = lost
  <2>1. Moved(UnrefsOf(c), UnrefsOf(c)', 1)
    BY <1>1, <1>4 DEF BeginLets
  <2>2. Finite(c)' /\ Claims(c) \in Nat /\ Claims(c)' = Claims(c) + dh + dm + 1 + dp
    BY <2>1, <1>1, Balance
  <2>3. Claims(c)' = Claims(c)
    BY <2>2, <1>4, <1>0
  <2>4. Doomed(c)' <=> Doomed(c)
    BY <1>4 DEF BeginLets
  <2>5. QED BY <1>1, <1>2, <1>4, <2>2, <2>3, <2>4 DEF Account
<1>5. CASE ~(Counted /\ c = lost)
  <2>1. Moved(UnrefsOf(c), UnrefsOf(c)', 0)
    BY <1>1, <1>5 DEF BeginLets, Moved
  <2>2. Finite(c)' /\ Claims(c) \in Nat /\ Claims(c)' \in Nat /\ Claims(c)' = Claims(c) + dh + dm + 0 + dp
    BY <2>1, <1>1, Balance
  <2>3. CASE c # lost /\ dh + dm + dp = 0
    <3>1. Claims(c)' = Claims(c)
      BY <2>2, <2>3, <1>0
    <3>2. Doomed(c)' <=> Doomed(c)
      BY <2>3 DEF BeginLets
    <3>3. QED BY <1>1, <1>2, <2>2, <3>1, <3>2 DEF Account
  <2>4. CASE c # lost /\ class = "delegate" /\ dh + dm + dp = -1
    <3>1. Claims(c)' = Claims(c) - 1
      BY <2>2, <2>4, <1>0
    <3>2. Doomed(c)' <=> Doomed(c)
      BY <2>4 DEF BeginLets
    <3>3. ~Counted
      BY <2>4 DEF Counted
    <3>4. ~Doomed(c) /\ Claims(c) = 1
      BY <1>1, <2>2, <3>1, <3>3 DEF Account
    <3>5. QED BY <1>1, <1>2, <2>2, <2>4, <3>1, <3>2, <3>3, <3>4 DEF Account
  <2>5. CASE c = lost /\ ~Doomed(c) /\ dh + dm + dp = -1
    <3>1. Claims(c)' = Claims(c) - 1
      BY <2>2, <2>5, <1>0
    <3>2. Doomed(c)'
      BY <2>5, <1>3, <1>5 DEF BeginLets
    <3>3. Claims(c) = 1
      BY <1>1, <1>5, <2>2, <2>5, <3>1 DEF Account
    <3>4. QED BY <1>1, <1>2, <1>5, <2>2, <2>5, <3>1, <3>2, <3>3 DEF Account
  <2>6. QED BY <2>3, <2>4, <2>5
<1>6. QED BY <1>4, <1>5

LEMMA Unclaimed ==
    ASSUME OwnInv, NEW c, c # 0, c \notin DOMAIN cells
    PROVE  /\ Finite(c) /\ Claims(c) = 0
           /\ HoldersOf(c) = {} /\ MembersOf(c) = {} /\ UnrefsOf(c) = {} /\ PutsOf(c) = {}
<1>1. /\ points \in [Pointers -> 0 .. Len(cells)] /\ DOMAIN cells = 1 .. Len(cells) /\ Len(cells) \in Nat
      /\ \A d \in DOMAIN cells : cells[d].member \in 0 .. Len(cells)
      /\ letting \in [Threads -> Seq(LettingStep)]
  BY DEF OwnInv, OwnTypeOK
<1>2. HoldersOf(c) = {}
  BY <1>1 DEF HoldersOf
<1>3. MembersOf(c) = {}
  BY <1>1 DEF MembersOf
<1>4. UnrefsOf(c) = {}
  <2> SUFFICES ASSUME NEW t \in Threads, letting[t] # <<>> PROVE Head(letting[t]).cell # c
    BY DEF UnrefsOf, Lets, Top
  <2>1. 1 \in DOMAIN letting[t] /\ Head(letting[t]) = letting[t][1]
    BY <1>1
  <2>2. QED BY <2>1 DEF OwnInv, LettingInv
<1>5. PutsOf(c) = {}
  BY <1>1 DEF PutsOf, OwnInv, ThenInv, ThenOf
<1>6. QED BY <1>2, <1>3, <1>4, <1>5, FS_EmptySet DEF Finite, Claims

LEMMA NewAccount ==
    ASSUME OwnInv, class' = class, Grows, NEW c \in DOMAIN cells' \ DOMAIN cells, ~Doomed(c)',
           NEW dh, NEW dm, NEW du, NEW dp,
           Moved(HoldersOf(c), HoldersOf(c)', dh), Moved(MembersOf(c), MembersOf(c)', dm),
           Moved(UnrefsOf(c), UnrefsOf(c)', du), Moved(PutsOf(c), PutsOf(c)', dp),
           dh + dm + du + dp = 1
    PROVE  Account(c)'
<1>1. c # 0 /\ cells'[c].refs = 1
  BY DEF Grows
<1>2. Finite(c) /\ Claims(c) = 0
  BY <1>1, Unclaimed
<1>3. Finite(c)' /\ Claims(c)' = Claims(c) + dh + dm + du + dp
  BY <1>2, Balance
<1>4. dh \in Int /\ dm \in Int /\ du \in Int /\ dp \in Int
  BY DEF Moved
<1>5. Claims(c)' = 1
  BY <1>2, <1>3, <1>4
<1>6. QED BY <1>1, <1>3, <1>5 DEF Account

\* A holder that points to an object keeps it from being deleted.
LEMMA HeldLives ==
    ASSUME OwnInv, NEW h \in Pointers, Settled(h), points[h] # 0
    PROVE  points[h] \in DOMAIN cells /\ ~Doomed(points[h])
<1>1. points[h] \in DOMAIN cells
  BY DEF OwnInv, OwnTypeOK
<1>2. h \in HoldersOf(points[h])
  BY DEF HoldersOf
<1>3. Claims(points[h]) > 0 /\ Claims(points[h]) \in Nat
  BY <1>1, <1>2, Counts DEF OwnInv, AccountInv, Account
<1>4. QED BY <1>1, <1>3 DEF OwnInv, AccountInv, Account

\* Clear, CopyAssign and MoveAssign: the holder lets its object go.
LEMMA BeginAssign ==
    ASSUME OwnInv, NEW h \in Pointers, NEW a \in Assignment,
           Begin(h, points[h], a), UNCHANGED <<points, cells>>,
           a # Nothing, a.holder = h,
           a.do = "put" => a.cell = 0,
           a.do \in {"copy", "clone", "take"} => Runner[a.from] = Runner[h],
           a.do \in {"copy", "take"} => a.from # h,
           a.do \in {"inside", "pull"} => a.cell \in DOMAIN cells,
           a.do \in {"copy", "inside", "pull"} => Counted,
           a.do = "clone" => class = "string",
           a.do \notin {"ref", "count"}
    PROVE  OwnInv'
<1>0. PICK p : p = points[h]
  OBVIOUS
<1>1. /\ p \in 0 .. Len(cells) /\ Runner[h] \in Threads
      /\ DOMAIN cells = 1 .. Len(cells) /\ Len(cells) \in Nat
      /\ Begin(h, p, a)
  BY <1>0, RunnerAssumption DEF OwnInv, OwnTypeOK
<1>2. Grows
  BY DEF Grows, OwnInv, OwnTypeOK
<1>3. class' = class
  BY DEF Begin
<1>4. /\ \A g \in Pointers : Runner[g] = Runner[h] => Settled(g)
      /\ \A g \in Pointers : Settled(g)' <=> Settled(g) /\ g # h
      /\ \A c : ~(a.do = "put" /\ a.cell = c) => PutsOf(c)' = PutsOf(c)
  BY BeginViews
<1>5. Settled(h)
  BY <1>4
<1>6. p # 0 => p \in DOMAIN cells /\ ~Doomed(p)
  BY <1>0, <1>5, HeldLives
<1>7. /\ letting' \in [Threads -> Seq(LettingStep)]
      /\ then' \in [Threads -> Assignment]
      /\ BeginLets(h, p)
  BY <1>1, <1>2, <1>6, BeginLetting
<1>8. OwnTypeOK'
  BY <1>3, <1>7 DEF OwnInv, OwnTypeOK
<1>9. ThenInv'
  <2> SUFFICES ASSUME NEW v \in Threads PROVE ThenOf(v)'
    BY DEF ThenInv
  <2>1. CASE v = Runner[h]
    <3>1. then'[v] = a
      BY <2>1, <1>1 DEF Begin, OwnInv, OwnTypeOK
    <3>2. Counted' = Counted
      BY <1>3 DEF Counted
    <3>3. 0 \in 0 .. Len(cells)
      BY <1>1
    <3>4. QED BY <2>1, <3>1, <3>2, <3>3, <1>3 DEF ThenOf
  <2>2. CASE v # Runner[h]
    <3>1. then'[v] = then[v] /\ letting'[v] = letting[v]
      BY <2>2, <1>1 DEF Begin, OwnInv, OwnTypeOK
    <3>2. QED BY <3>1, <1>2, <1>3, GrowsKeeps, OtherThen
  <2>3. QED BY <2>1, <2>2
<1>10. AccountInv'
  <2> SUFFICES ASSUME NEW c \in DOMAIN cells PROVE Account(c)'
    BY DEF AccountInv
  <2>1. MembersOf(c)' = MembersOf(c)
    <3>1. \A d \in DOMAIN cells : Freeing(d)' <=> Freeing(d)
      BY <1>7 DEF BeginLets
    <3>2. QED BY <3>1 DEF MembersOf
  <2>2. PutsOf(c)' = PutsOf(c)
    BY <1>1, <1>4
  <2>3. CASE c = p
    <3>1. HoldersOf(c)' = HoldersOf(c) \ {h} /\ h \in HoldersOf(c)
      BY <2>3, <1>0, <1>4, <1>5 DEF HoldersOf
    <3>2. Moved(HoldersOf(c), HoldersOf(c)', -1)
      BY <3>1 DEF Moved
    <3>3. Moved(MembersOf(c), MembersOf(c)', 0) /\ Moved(PutsOf(c), PutsOf(c)', 0)
      BY <2>1, <2>2 DEF Moved
    <3>4. ~Doomed(c) /\ -1 + 0 + 0 = -1
      BY <2>3, <1>1, <1>6
    <3>5. QED BY <2>3, <3>2, <3>3, <3>4, <1>2, <1>3, <1>7, BeginAccount
  <2>4. CASE c # p
    <3>1. HoldersOf(c)' = HoldersOf(c)
      BY <2>4, <1>0, <1>4 DEF HoldersOf
    <3>2. /\ Moved(HoldersOf(c), HoldersOf(c)', 0)
          /\ Moved(MembersOf(c), MembersOf(c)', 0) /\ Moved(PutsOf(c), PutsOf(c)', 0)
      BY <3>1, <2>1, <2>2 DEF Moved
    <3>3. 0 + 0 + 0 = 0
      OBVIOUS
    <3>4. QED BY <2>4, <3>2, <3>3, <1>2, <1>3, <1>7, BeginAccount
  <2>5. QED BY <2>3, <2>4
<1>11. QED BY <1>7, <1>8, <1>9, <1>10 DEF OwnInv, BeginLets

LEMMA ClearStep ==
    ASSUME OwnInv, NEW h \in Pointers, Clear(h)
    PROVE  OwnInv'
<1>1. /\ Put(h, 0) \in Assignment /\ Put(h, 0) # Nothing /\ Put(h, 0).holder = h
      /\ Put(h, 0).do = "put" /\ Put(h, 0).cell = 0
  BY DEF Put, Assignment, Nothing
<1>2. Begin(h, points[h], Put(h, 0)) /\ UNCHANGED <<points, cells>>
  BY DEF Clear
<1> HIDE DEF Put
<1>3. QED BY <1>1, <1>2, BeginAssign

LEMMA CopyAssignStep ==
    ASSUME OwnInv, NEW h \in Pointers, NEW from \in Pointers, CopyAssign(h, from)
    PROVE  OwnInv'
<1>1. /\ Copy(h, from) \in Assignment /\ Copy(h, from) # Nothing
      /\ Copy(h, from).do = "copy" /\ Copy(h, from).holder = h /\ Copy(h, from).from = from
  BY DEF Copy, Assignment, Nothing
<1>2. /\ Clone(h, from) \in Assignment /\ Clone(h, from) # Nothing
      /\ Clone(h, from).do = "clone" /\ Clone(h, from).holder = h /\ Clone(h, from).from = from
  BY DEF Clone, Assignment, Nothing
<1>3. Runner[from] = Runner[h] /\ UNCHANGED <<points, cells>>
  BY DEF CopyAssign
<1>4. \/ Counted /\ h # from /\ Begin(h, points[h], Copy(h, from))
      \/ class = "string" /\ Begin(h, points[h], Clone(h, from))
  BY DEF CopyAssign
<1> HIDE DEF Copy, Clone
<1>5. CASE Counted /\ h # from /\ Begin(h, points[h], Copy(h, from))
  BY <1>1, <1>3, <1>5, BeginAssign
<1>6. CASE class = "string" /\ Begin(h, points[h], Clone(h, from))
  BY <1>2, <1>3, <1>6, BeginAssign
<1>7. QED BY <1>4, <1>5, <1>6

LEMMA AssignOutStep ==
    ASSUME OwnInv, NEW h \in Pointers, AssignOut(h)
    PROVE  OwnInv'
<1>1. PICK step \in {"inside", "pull"} : Begin(h, points[h], Member(h, step, points[h]))
  BY DEF AssignOut
<1>2. /\ Counted /\ points[h] \in DOMAIN cells /\ points[h] \in Nat
      /\ UNCHANGED <<points, cells>>
  BY DEF AssignOut, OwnInv, OwnTypeOK
<1>3. /\ Member(h, step, points[h]) \in Assignment /\ Member(h, step, points[h]) # Nothing
      /\ Member(h, step, points[h]).do = step /\ Member(h, step, points[h]).holder = h
      /\ Member(h, step, points[h]).cell = points[h]
  BY <1>2 DEF Member, Assignment, Nothing
<1> HIDE DEF Member
<1>4. QED BY <1>1, <1>2, <1>3, BeginAssign

LEMMA MoveAssignStep ==
    ASSUME OwnInv, NEW h \in Pointers, NEW from \in Pointers, MoveAssign(h, from)
    PROVE  OwnInv'
<1>1. /\ Take(h, from) \in Assignment /\ Take(h, from) # Nothing
      /\ Take(h, from).do = "take" /\ Take(h, from).holder = h /\ Take(h, from).from = from
  BY DEF Take, Assignment, Nothing
<1>2. /\ h # from /\ Runner[from] = Runner[h] /\ UNCHANGED <<points, cells>>
      /\ Begin(h, points[h], Take(h, from))
  BY DEF MoveAssign
<1> HIDE DEF Take
<1>3. QED BY <1>1, <1>2, BeginAssign

LEMMA IdleThen ==
    ASSUME NEW v, then'[v] = Nothing
    PROVE  ThenOf(v)'
BY DEF ThenOf, Nothing

\* Calls that are over at once, of holders that exchange what they point to.
LEMMA BeginNothing ==
    ASSUME OwnInv, NEW h \in Pointers, Begin(h, 0, Nothing), UNCHANGED cells,
           points' \in [Pointers -> 0 .. Len(cells)],
           \A g \in Pointers : Runner[g] # Runner[h] => points'[g] = points[g],
           \A c \in DOMAIN cells :
               \/ Moved(HoldersOf(c), HoldersOf(c)', 0)
               \/ class = "delegate" /\ Moved(HoldersOf(c), HoldersOf(c)', -1)
    PROVE  OwnInv'
<1>1. Nothing \in Assignment /\ 0 \in 0 .. Len(cells) /\ Runner[h] \in Threads
  BY RunnerAssumption DEF Assignment, OwnInv, OwnTypeOK
<1>2. Grows
  BY DEF Grows, OwnInv, OwnTypeOK
<1>3. class' = class
  BY DEF Begin
<1>4. \A c : PutsOf(c)' = PutsOf(c)
  <2>1. Nothing.do # "put"
    BY DEF Nothing
  <2>2. QED BY <2>1, <1>1, BeginViews
<1>5. /\ letting' \in [Threads -> Seq(LettingStep)]
      /\ then' \in [Threads -> Assignment]
      /\ BeginLets(h, 0)
  BY <1>1, <1>2, BeginLetting
<1>6. OwnTypeOK'
  BY <1>3, <1>5 DEF OwnInv, OwnTypeOK
<1>7. ThenInv'
  <2> SUFFICES ASSUME NEW v \in Threads PROVE ThenOf(v)'
    BY DEF ThenInv
  <2>1. CASE v = Runner[h]
    <3>1. then'[v] = Nothing
      BY <2>1, <1>1 DEF Begin, OwnInv, OwnTypeOK
    <3>2. QED BY <3>1, IdleThen
  <2>2. CASE v # Runner[h]
    <3>1. then'[v] = then[v] /\ letting'[v] = letting[v]
      BY <2>2, <1>1 DEF Begin, OwnInv, OwnTypeOK
    <3>2. QED BY <2>2, <3>1, <1>2, <1>3, GrowsKeeps, OtherThen
  <2>3. QED BY <2>1, <2>2
<1>8. AccountInv'
  <2> SUFFICES ASSUME NEW c \in DOMAIN cells PROVE Account(c)'
    BY DEF AccountInv
  <2>1. MembersOf(c)' = MembersOf(c)
    <3>1. \A e \in DOMAIN cells : Freeing(e)' <=> Freeing(e)
      BY <1>5 DEF BeginLets
    <3>2. QED BY <3>1 DEF MembersOf
  <2>2. Moved(MembersOf(c), MembersOf(c)', 0) /\ Moved(PutsOf(c), PutsOf(c)', 0)
    BY <2>1, <1>4 DEF Moved
  <2>3. c # 0 /\ 0 + 0 + 0 = 0 /\ -1 + 0 + 0 = -1
    BY DEF OwnInv, OwnTypeOK
  <2>4. CASE Moved(HoldersOf(c), HoldersOf(c)', 0)
    BY <2>2, <2>3, <2>4, <1>2, <1>3, <1>5, BeginAccount
  <2>5. CASE class = "delegate" /\ Moved(HoldersOf(c), HoldersOf(c)', -1)
    BY <2>2, <2>3, <2>5, <1>2, <1>3, <1>5, BeginAccount
  <2>6. QED BY <2>4, <2>5
<1>9. QED BY <1>5, <1>6, <1>7, <1>8 DEF OwnInv, BeginLets

LEMMA ForgetFunctorStep ==
    ASSUME OwnInv, NEW h \in Pointers, ForgetFunctor(h)
    PROVE  OwnInv'
<1>1. /\ class = "delegate" /\ points' = [points EXCEPT ![h] = 0]
      /\ Begin(h, 0, Nothing) /\ UNCHANGED cells
      /\ points \in [Pointers -> 0 .. Len(cells)] /\ Len(cells) \in Nat
  BY DEF ForgetFunctor, OwnInv, OwnTypeOK
<1>2. points' \in [Pointers -> 0 .. Len(cells)]
  BY <1>1
<1>3. \A g \in Pointers : Settled(g)' <=> Settled(g)
  BY <1>1, BeginViews DEF Assignment
<1>4. Settled(h)
  BY <1>1, BeginViews DEF Assignment
<1>5. ASSUME NEW c \in DOMAIN cells
      PROVE  \/ Moved(HoldersOf(c), HoldersOf(c)', 0)
             \/ class = "delegate" /\ Moved(HoldersOf(c), HoldersOf(c)', -1)
  <2>0. c # 0
    BY DEF OwnInv, OwnTypeOK
  <2>1. CASE c = points[h]
    <3>1. h \in HoldersOf(c) /\ HoldersOf(c)' = HoldersOf(c) \ {h}
      BY <2>0, <2>1, <1>1, <1>3, <1>4 DEF HoldersOf
    <3>2. QED BY <3>1, <1>1 DEF Moved
  <2>2. CASE c # points[h]
    <3>1. HoldersOf(c)' = HoldersOf(c)
      BY <2>0, <2>2, <1>1, <1>3 DEF HoldersOf
    <3>2. QED BY <3>1 DEF Moved
  <2>3. QED BY <2>1, <2>2
<1>6. \A g \in Pointers : Runner[g] # Runner[h] => points'[g] = points[g]
  BY <1>1
<1>7. QED BY <1>1, <1>2, <1>5, <1>6, BeginNothing

\* Two settled holders exchange what they point to.
LEMMA Exchanged ==
    ASSUME NEW h \in Pointers, NEW g \in Pointers, Settled(h), Settled(g),
           \A f \in Pointers : Settled(f)' <=> Settled(f),
           points'[h] = points[g], points'[g] = points[h],
           \A f \in Pointers \ {g, h} : points'[f] = points[f],
           NEW c
    PROVE  Moved(HoldersOf(c), HoldersOf(c)', 0)
<1>1. CASE c = points[h] /\ c # points[g]
  <2>1. h \in HoldersOf(c) /\ g \notin HoldersOf(c) /\ HoldersOf(c)' = (HoldersOf(c) \ {h}) \cup {g}
    BY <1>1 DEF HoldersOf
  <2>2. QED BY <2>1 DEF Moved
<1>2. CASE c = points[g] /\ c # points[h]
  <2>1. g \in HoldersOf(c) /\ h \notin HoldersOf(c) /\ HoldersOf(c)' = (HoldersOf(c) \ {g}) \cup {h}
    BY <1>2 DEF HoldersOf
  <2>2. QED BY <2>1 DEF Moved
<1>3. CASE (c = points[g]) <=> (c = points[h])
  <2>1. HoldersOf(c)' = HoldersOf(c)
    BY <1>3 DEF HoldersOf
  <2>2. QED BY <2>1 DEF Moved
<1>4. QED BY <1>1, <1>2, <1>3

LEMMA SwapStep ==
    ASSUME OwnInv, NEW h \in Pointers, NEW with \in Pointers, Swap(h, with)
    PROVE  OwnInv'
<1>1. /\ Runner[with] = Runner[h]
      /\ points' = [points EXCEPT ![h] = points[with], ![with] = points[h]]
      /\ Begin(h, 0, Nothing) /\ UNCHANGED cells
      /\ points \in [Pointers -> 0 .. Len(cells)]
  BY DEF Swap, OwnInv, OwnTypeOK
<1>2. /\ points' \in [Pointers -> 0 .. Len(cells)]
      /\ points'[h] = points[with] /\ points'[with] = points[h]
      /\ \A f \in Pointers \ {with, h} : points'[f] = points[f]
  BY <1>1
<1>3. /\ \A f \in Pointers : Settled(f)' <=> Settled(f)
      /\ Settled(h) /\ Settled(with)
  BY <1>1, BeginViews DEF Assignment
<1>4. \A c \in DOMAIN cells : Moved(HoldersOf(c), HoldersOf(c)', 0)
  BY <1>2, <1>3, Exchanged
<1>5. \A g \in Pointers : Runner[g] # Runner[h] => points'[g] = points[g]
  BY <1>1, <1>2
<1>6. QED BY <1>1, <1>2, <1>4, <1>5, BeginNothing

\* Calls that end with putting an object that they have in hand into the holder.
LEMMA BeginPut ==
    ASSUME OwnInv, NEW h \in Pointers, NEW lost \in 0 .. Len(cells), NEW q \in 0 .. Len(cells'),
           Begin(h, lost, Put(h, q)), Grows,
           points' \in [Pointers -> 0 .. Len(cells)],
           \A g \in Pointers : Runner[g] # Runner[h] => points'[g] = points[g],
           lost # 0 => ~Doomed(lost)
    PROVE  /\ OwnTypeOK' /\ LettingInv' /\ ThenInv' /\ KillInv'
           /\ BeginLets(h, lost) /\ class' = class
           /\ \A g \in Pointers : Runner[g] = Runner[h] => Settled(g)
           /\ \A g \in Pointers : Settled(g)' <=> Settled(g) /\ g # h
           /\ \A c : c # q => Moved(PutsOf(c), PutsOf(c)', 0)
           /\ Moved(PutsOf(q), PutsOf(q)', 1)
<1>1. /\ Len(cells) \in Nat /\ Len(cells') \in Nat /\ Len(cells) <= Len(cells')
      /\ Runner[h] \in Threads
  BY RunnerAssumption DEF OwnInv, OwnTypeOK, Grows
<1>2. /\ Put(h, q) \in Assignment /\ Put(h, q) # Nothing /\ Put(h, q).holder = h
      /\ Put(h, q).do = "put" /\ Put(h, q).cell = q
  BY <1>1 DEF Put, Assignment, Nothing
<1> HIDE DEF Put
<1>3. class' = class
  BY DEF Begin
<1>4. /\ letting' \in [Threads -> Seq(LettingStep)]
      /\ then' \in [Threads -> Assignment]
      /\ BeginLets(h, lost)
  BY <1>2, BeginLetting
<1>5. OwnTypeOK'
  BY <1>1, <1>3, <1>4 DEF OwnInv, OwnTypeOK, Grows
<1>6. ThenInv'
  <2> SUFFICES ASSUME NEW v \in Threads PROVE ThenOf(v)'
    BY DEF ThenInv
  <2>1. CASE v = Runner[h]
    <3>1. then'[v] = Put(h, q)
      BY <2>1, <1>1 DEF Begin, OwnInv, OwnTypeOK
    <3>2. QED BY <2>1, <3>1, <1>2 DEF ThenOf
  <2>2. CASE v # Runner[h]
    <3>1. then'[v] = then[v] /\ letting'[v] = letting[v]
      BY <2>2, <1>1 DEF Begin, OwnInv, OwnTypeOK
    <3>2. QED BY <2>2, <3>1, <1>3, GrowsKeeps, OtherThen
  <2>3. QED BY <2>1, <2>2
<1>7. /\ \A g \in Pointers : Runner[g] = Runner[h] => Settled(g)
      /\ \A g \in Pointers : Settled(g)' <=> Settled(g) /\ g # h
      /\ \A c : c # q => PutsOf(c)' = PutsOf(c)
      /\ Moved(PutsOf(q), PutsOf(q)', 1)
  BY <1>2, BeginViews
<1>8. \A c : c # q => Moved(PutsOf(c), PutsOf(c)', 0)
  BY <1>7 DEF Moved
<1>9. QED BY <1>3, <1>4, <1>5, <1>6, <1>7, <1>8 DEF BeginLets

LEMMA SameMembers ==
    ASSUME NEW h, NEW lost, BeginLets(h, lost), UNCHANGED cells, NEW c
    PROVE  Moved(MembersOf(c), MembersOf(c)', 0)
<1>1. \A d \in DOMAIN cells : Freeing(d)' <=> Freeing(d)
  BY DEF BeginLets
<1>2. MembersOf(c)' = MembersOf(c)
  BY <1>1 DEF MembersOf
<1>3. QED BY <1>2 DEF Moved

\* A holder that begins to be assigned and another one that is emptied.
LEMMA TwoLeave ==
    ASSUME NEW h \in Pointers, NEW g \in Pointers, h # g, Settled(h), Settled(g),
           \A f \in Pointers : Settled(f)' <=> Settled(f) /\ f # h,
           points'[g] = 0, \A f \in Pointers \ {g} : points'[f] = points[f],
           NEW c, c # 0
    PROVE  /\ c = points[h] /\ c = points[g] => Moved(HoldersOf(c), HoldersOf(c)', -2)
           /\ c = points[h] /\ c # points[g] => Moved(HoldersOf(c), HoldersOf(c)', -1)
           /\ c # points[h] /\ c = points[g] => Moved(HoldersOf(c), HoldersOf(c)', -1)
           /\ c # points[h] /\ c # points[g] => Moved(HoldersOf(c), HoldersOf(c)', 0)
<1>1. ASSUME c = points[h], c = points[g] PROVE Moved(HoldersOf(c), HoldersOf(c)', -2)
  <2>1. h \in HoldersOf(c) /\ g \in HoldersOf(c) /\ HoldersOf(c)' = (HoldersOf(c) \ {h}) \ {g}
    BY <1>1 DEF HoldersOf
  <2>2. QED BY <2>1 DEF Moved
<1>2. ASSUME c = points[h], c # points[g] PROVE Moved(HoldersOf(c), HoldersOf(c)', -1)
  <2>1. h \in HoldersOf(c) /\ HoldersOf(c)' = HoldersOf(c) \ {h}
    BY <1>2 DEF HoldersOf
  <2>2. QED BY <2>1 DEF Moved
<1>3. ASSUME c # points[h], c = points[g] PROVE Moved(HoldersOf(c), HoldersOf(c)', -1)
  <2>1. g \in HoldersOf(c) /\ HoldersOf(c)' = HoldersOf(c) \ {g}
    BY <1>3 DEF HoldersOf
  <2>2. QED BY <2>1 DEF Moved
<1>4. ASSUME c # points[h], c # points[g] PROVE Moved(HoldersOf(c), HoldersOf(c)', 0)
  <2>1. HoldersOf(c)' = HoldersOf(c)
    BY <1>4 DEF HoldersOf
  <2>2. QED BY <2>1 DEF Moved
<1>5. QED BY <1>1, <1>2, <1>3, <1>4

\* A holder that begins to be assigned, and no other.
LEMMA OneLeaves ==
    ASSUME NEW h \in Pointers, Settled(h),
           \A f \in Pointers : Settled(f)' <=> Settled(f) /\ f # h,
           \A f \in Pointers \ {h} : points'[f] = points[f],
           NEW c
    PROVE  /\ c = points[h] => Moved(HoldersOf(c), HoldersOf(c)', -1)
           /\ c # points[h] => Moved(HoldersOf(c), HoldersOf(c)', 0)
<1>1. ASSUME c = points[h] PROVE Moved(HoldersOf(c), HoldersOf(c)', -1)
  <2>1. h \in HoldersOf(c) /\ HoldersOf(c)' = HoldersOf(c) \ {h}
    BY <1>1 DEF HoldersOf
  <2>2. QED BY <2>1 DEF Moved
<1>2. ASSUME c # points[h] PROVE Moved(HoldersOf(c), HoldersOf(c)', 0)
  <2>1. HoldersOf(c)' = HoldersOf(c)
    BY <1>2 DEF HoldersOf
  <2>2. QED BY <2>1 DEF Moved
<1>3. QED BY <1>1, <1>2

LEMMA MoveBoxStep ==
    ASSUME OwnInv, NEW h \in Pointers, NEW from \in Pointers, MoveBox(h, from)
    PROVE  OwnInv'
<1>0. PICK p, q, lost : p = points[h] /\ q = points[from] /\ lost = points'[h]
  OBVIOUS
<1>1. /\ Runner[from] = Runner[h] /\ points' = [points EXCEPT ![from] = 0]
      /\ Begin(h, lost, Put(h, q)) /\ UNCHANGED cells
      /\ points \in [Pointers -> 0 .. Len(cells)] /\ Len(cells) \in Nat
      /\ Idle(h)
  BY <1>0 DEF MoveBox, Begin, OwnInv, OwnTypeOK
<1>2. /\ points' \in [Pointers -> 0 .. Len(cells)]
      /\ points'[from] = 0 /\ \A f \in Pointers \ {from} : points'[f] = points[f]
      /\ \A g \in Pointers : Runner[g] # Runner[h] => points'[g] = points[g]
      /\ lost = (IF h = from THEN 0 ELSE p)
      /\ lost \in 0 .. Len(cells) /\ q \in 0 .. Len(cells')
  BY <1>0, <1>1
<1>3. Grows
  BY <1>1 DEF Grows, OwnInv, OwnTypeOK
<1>4. Settled(h) /\ Settled(from)
  BY <1>1 DEF Idle, Settled
<1>5. lost # 0 => ~Doomed(lost)
  BY <1>0, <1>2, <1>4, HeldLives
<1>6. /\ OwnTypeOK' /\ LettingInv' /\ ThenInv' /\ KillInv'
      /\ BeginLets(h, lost) /\ class' = class
      /\ \A g \in Pointers : Settled(g)' <=> Settled(g) /\ g # h
      /\ \A c : c # q => Moved(PutsOf(c), PutsOf(c)', 0)
      /\ Moved(PutsOf(q), PutsOf(q)', 1)
  BY <1>1, <1>2, <1>3, <1>5, BeginPut
<1>7. AccountInv'
  <2> SUFFICES ASSUME NEW c \in DOMAIN cells PROVE Account(c)'
    BY <1>1 DEF AccountInv
  <2>1. c # 0 /\ Moved(MembersOf(c), MembersOf(c)', 0)
    BY <1>1, <1>6, CellType, SameMembers
  <2>2. lost # 0 /\ c = lost => ~Doomed(c)
    BY <1>5
  <2>3. CASE h = from
    <3>1. /\ c = q => Moved(HoldersOf(c), HoldersOf(c)', -1)
          /\ c # q => Moved(HoldersOf(c), HoldersOf(c)', 0)
      BY <2>3, <1>2, <1>4, <1>6, OneLeaves, <1>0
    <3>2. c # lost
      BY <2>1, <2>3, <1>2
    <3>3. -1 + 0 + 1 = 0 /\ 0 + 0 + 0 = 0
      OBVIOUS
    <3>4. CASE c = q
      BY <2>1, <3>1, <3>2, <3>3, <3>4, <1>3, <1>6, BeginAccount
    <3>5. CASE c # q
      BY <2>1, <3>1, <3>2, <3>3, <3>5, <1>3, <1>6, BeginAccount
    <3>6. QED BY <3>4, <3>5
  <2>4. CASE h # from
    <3>1. /\ c = p /\ c = q => Moved(HoldersOf(c), HoldersOf(c)', -2)
          /\ c = p /\ c # q => Moved(HoldersOf(c), HoldersOf(c)', -1)
          /\ c # p /\ c = q => Moved(HoldersOf(c), HoldersOf(c)', -1)
          /\ c # p /\ c # q => Moved(HoldersOf(c), HoldersOf(c)', 0)
      BY <2>1, <2>4, <1>2, <1>4, <1>6, TwoLeave, <1>0
    <3>2. lost = p /\ (c = p => ~Doomed(c))
      BY <2>1, <2>2, <2>4, <1>2
    <3>3. -2 + 0 + 1 = -1 /\ -1 + 0 + 0 = -1 /\ -1 + 0 + 1 = 0 /\ 0 + 0 + 0 = 0
      OBVIOUS
    <3>4. CASE c = p /\ c = q
      BY <2>1, <3>1, <3>2, <3>3, <3>4, <1>3, <1>6, BeginAccount
    <3>5. CASE c = p /\ c # q
      BY <2>1, <3>1, <3>2, <3>3, <3>5, <1>3, <1>6, BeginAccount
    <3>6. CASE c # p /\ c = q
      BY <2>1, <3>1, <3>2, <3>3, <3>6, <1>3, <1>6, BeginAccount
    <3>7. CASE c # p /\ c # q
      BY <2>1, <3>1, <3>2, <3>3, <3>7, <1>3, <1>6, BeginAccount
    <3>8. QED BY <3>4, <3>5, <3>6, <3>7
  <2>5. QED BY <2>3, <2>4
<1>8. QED BY <1>6, <1>7 DEF OwnInv

\* What a member points to, as long as its object is not being freed.
LEMMA NotFreeing ==
    ASSUME NEW c, ~Doomed(c)
    PROVE  ~Freeing(c)
BY DEF Doomed, Freeing, Killing

LEMMA MoveBoxOutStep ==
    ASSUME OwnInv, NEW h \in Pointers, MoveBoxOut(h)
    PROVE  OwnInv'
<1>0. PICK p, q : p = points[h] /\ q = cells[p].member
  OBVIOUS
<1>1. /\ p # 0 /\ cells' = [cells EXCEPT ![p].member = 0] /\ points' = points
      /\ Begin(h, p, Put(h, q)) /\ Idle(h)
      /\ points \in [Pointers -> 0 .. Len(cells)] /\ Len(cells) \in Nat
      /\ cells \in Seq(Cell)
  BY <1>0 DEF MoveBoxOut, Begin, OwnInv, OwnTypeOK
<1>2. Settled(h)
  BY <1>1 DEF Idle, Settled
<1>3. p \in DOMAIN cells /\ ~Doomed(p)
  BY <1>0, <1>1, <1>2, HeldLives
<1>4. [cells[p] EXCEPT !.member = 0] \in Cell
  BY <1>3, CellType DEF Cell
<1>5. /\ cells' \in Seq(Cell) /\ Len(cells') = Len(cells) /\ DOMAIN cells' = DOMAIN cells
      /\ \A c \in DOMAIN cells : c # p => cells'[c] = cells[c]
      /\ cells'[p] = [cells[p] EXCEPT !.member = 0]
  <2>1. cells' = [cells EXCEPT ![p] = [cells[p] EXCEPT !.member = 0]]
    BY <1>1
  <2>2. QED BY <2>1, <1>1, <1>3, <1>4, ExceptSeq
<1>6. /\ cells'[p].member = 0 /\ cells'[p].freed = cells[p].freed /\ cells'[p].refs = cells[p].refs
  BY <1>3, <1>5, CellType DEF Cell
<1>7. Grows
  <2>1. ASSUME NEW c \in DOMAIN cells
        PROVE  /\ cells'[c].freed = cells[c].freed /\ cells'[c].refs = cells[c].refs
               /\ cells'[c].member \in 0 .. Len(cells')
    <3>1. CASE c = p
      BY <3>1, <1>1, <1>5, <1>6
    <3>2. CASE c # p
      BY <3>2, <1>5, CellType
    <3>3. QED BY <3>1, <3>2
  <2>2. QED BY <2>1, <1>1, <1>5 DEF Grows
<1>8. p \in 0 .. Len(cells) /\ q \in 0 .. Len(cells')
  BY <1>0, <1>3, <1>5, CellType
<1>9. /\ OwnTypeOK' /\ LettingInv' /\ ThenInv' /\ KillInv'
      /\ BeginLets(h, p) /\ class' = class
      /\ \A g \in Pointers : Settled(g)' <=> Settled(g) /\ g # h
      /\ \A c : c # q => Moved(PutsOf(c), PutsOf(c)', 0)
      /\ Moved(PutsOf(q), PutsOf(q)', 1)
  BY <1>1, <1>3, <1>7, <1>8, BeginPut
<1>10. \A d \in DOMAIN cells : Freeing(d)' <=> Freeing(d)
  BY <1>5, <1>9 DEF BeginLets
<1>11. AccountInv'
  <2> SUFFICES ASSUME NEW c \in DOMAIN cells PROVE Account(c)'
    BY <1>5 DEF AccountInv
  <2>1. c # 0
    BY CellType
  <2>2. /\ c = p => Moved(HoldersOf(c), HoldersOf(c)', -1)
        /\ c # p => Moved(HoldersOf(c), HoldersOf(c)', 0)
    BY <1>0, <1>1, <1>2, <1>9, OneLeaves
  <2>3. c = q => Moved(MembersOf(c), MembersOf(c)', -1)
    <3>1. SUFFICES ASSUME c = q PROVE Moved(MembersOf(c), MembersOf(c)', -1)
      OBVIOUS
    <3>2. p \in MembersOf(c)
      BY <3>1, <1>0, <1>3, NotFreeing DEF MembersOf
    <3>3. MembersOf(c)' = MembersOf(c) \ {p}
      BY <3>1, <2>1, <1>5, <1>6, <1>10 DEF MembersOf
    <3>4. QED BY <3>2, <3>3 DEF Moved
  <2>4. c # q => Moved(MembersOf(c), MembersOf(c)', 0)
    <3>1. SUFFICES ASSUME c # q PROVE MembersOf(c)' = MembersOf(c)
      BY DEF Moved
    <3>2. \A e \in DOMAIN cells : cells'[e].member = c <=> cells[e].member = c
      BY <3>1, <2>1, <1>0, <1>5, <1>6
    <3>3. QED BY <3>2, <1>5, <1>10 DEF MembersOf
  <2>5. -1 + -1 + 1 = -1 /\ -1 + 0 + 0 = -1 /\ 0 + -1 + 1 = 0 /\ 0 + 0 + 0 = 0
    OBVIOUS
  <2>6. CASE c = p /\ c = q
    BY <2>2, <2>3, <2>5, <2>6, <1>3, <1>7, <1>9, BeginAccount
  <2>7. CASE c = p /\ c # q
    BY <2>2, <2>4, <2>5, <2>7, <1>3, <1>7, <1>9, BeginAccount
  <2>8. CASE c # p /\ c = q
    BY <2>2, <2>3, <2>5, <2>8, <1>7, <1>9, BeginAccount
  <2>9. CASE c # p /\ c # q
    BY <2>2, <2>4, <2>5, <2>9, <1>7, <1>9, BeginAccount
  <2>10. QED BY <2>6, <2>7, <2>8, <2>9
<1>12. QED BY <1>9, <1>11 DEF OwnInv

\* A new object that owns what q is, which may be nothing.
LEMMA NewCellType ==
    ASSUME OwnInv, NEW q \in 0 .. Len(cells), cells' = Append(cells, NewCell(q))
    PROVE  /\ Grows /\ Keeps
           /\ Len(cells') = Len(cells) + 1 /\ DOMAIN cells' = DOMAIN cells \cup {Len(cells) + 1}
           /\ Len(cells) + 1 \notin DOMAIN cells
           /\ \A c \in DOMAIN cells : cells'[c] = cells[c]
           /\ cells'[Len(cells) + 1].member = q
<1>1. cells \in Seq(Cell) /\ Len(cells) \in Nat /\ DOMAIN cells = 1 .. Len(cells)
  BY DEF OwnInv, OwnTypeOK
<1>2. NewCell(q) \in Cell /\ NewCell(q).member = q /\ NewCell(q).refs = 1 /\ NewCell(q).freed = FALSE
  BY <1>1 DEF NewCell, Cell
<1> HIDE DEF NewCell, Cell
<1>3. /\ cells' \in Seq(Cell) /\ Len(cells') = Len(cells) + 1 /\ DOMAIN cells' = 1 .. Len(cells) + 1
      /\ \A c \in DOMAIN cells : cells'[c] = cells[c]
      /\ cells'[Len(cells) + 1] = NewCell(q)
  BY <1>1, <1>2
<1>4. DOMAIN cells' = DOMAIN cells \cup {Len(cells) + 1} /\ Len(cells) + 1 \notin DOMAIN cells
  BY <1>1, <1>3
<1>5. \A c \in DOMAIN cells' : cells'[c].member \in 0 .. Len(cells')
  <2> SUFFICES ASSUME NEW c \in DOMAIN cells' PROVE cells'[c].member \in 0 .. Len(cells')
    OBVIOUS
  <2>1. CASE c \in DOMAIN cells
    BY <2>1, <1>1, <1>3, CellType
  <2>2. CASE c = Len(cells) + 1
    BY <2>2, <1>1, <1>2, <1>3
  <2>3. QED BY <2>1, <2>2, <1>4
<1>6. \A c \in DOMAIN cells' \ DOMAIN cells : ~cells'[c].freed /\ cells'[c].refs = 1
  BY <1>2, <1>3, <1>4
<1>7. Len(cells) <= Len(cells')
  BY <1>1, <1>3
<1>8. QED BY <1>2, <1>3, <1>4, <1>5, <1>6, <1>7 DEF Grows, Keeps

LEMMA MakeStep ==
    ASSUME OwnInv, NEW h \in Pointers, NEW from \in Pointers, Make(h, from)
    PROVE  OwnInv'
<1>0. PICK p, q, new : /\ p = points[h] /\ q = (IF from = h THEN 0 ELSE points[from])
                       /\ new = Len(cells) + 1
  OBVIOUS
<1>1. /\ from = h \/ Runner[from] = Runner[h]
      /\ cells' = Append(cells, NewCell(q))
      /\ points' = [points EXCEPT ![from] = IF from = h THEN @ ELSE 0]
      /\ Begin(h, p, Put(h, new)) /\ Idle(h)
      /\ points \in [Pointers -> 0 .. Len(cells)] /\ Len(cells) \in Nat
  BY <1>0 DEF Make, Begin, OwnInv, OwnTypeOK
<1>2. q \in 0 .. Len(cells) /\ p \in 0 .. Len(cells)
  BY <1>0, <1>1
<1>3. /\ Grows /\ Len(cells') = new /\ DOMAIN cells' = DOMAIN cells \cup {new}
      /\ new \notin DOMAIN cells
      /\ \A c \in DOMAIN cells : cells'[c] = cells[c]
      /\ cells'[new].member = q
  BY <1>0, <1>1, <1>2, NewCellType
<1>4. Settled(h) /\ Settled(from)
  BY <1>1 DEF Idle, Settled
<1>5. p # 0 => p \in DOMAIN cells /\ ~Doomed(p)
  BY <1>0, <1>4, HeldLives
<1>6. /\ points' \in [Pointers -> 0 .. Len(cells)] /\ new \in 0 .. Len(cells')
      /\ \A g \in Pointers : Runner[g] # Runner[h] => points'[g] = points[g]
  BY <1>0, <1>1, <1>3
<1>7. /\ OwnTypeOK' /\ LettingInv' /\ ThenInv' /\ KillInv'
      /\ BeginLets(h, p) /\ class' = class
      /\ \A g \in Pointers : Settled(g)' <=> Settled(g) /\ g # h
      /\ \A c : c # new => Moved(PutsOf(c), PutsOf(c)', 0)
      /\ Moved(PutsOf(new), PutsOf(new)', 1)
  BY <1>1, <1>2, <1>3, <1>5, <1>6, BeginPut
<1>8. \A d \in DOMAIN cells' : Freeing(d)' <=> Freeing(d)
  BY <1>7 DEF BeginLets
<1>9. ~Freeing(new)
  BY <1>3 DEF Freeing, OwnInv, LettingInv
<1>10. \A c : c # 0 =>
         /\ c = q => Moved(MembersOf(c), MembersOf(c)', 1)
         /\ c # q => Moved(MembersOf(c), MembersOf(c)', 0)
  <2> SUFFICES ASSUME NEW c, c # 0
               PROVE  /\ c = q => Moved(MembersOf(c), MembersOf(c)', 1)
                      /\ c # q => Moved(MembersOf(c), MembersOf(c)', 0)
    OBVIOUS
  <2>1. c = q => new \notin MembersOf(c) /\ MembersOf(c)' = MembersOf(c) \cup {new}
    BY <1>3, <1>8, <1>9 DEF MembersOf
  <2>2. c # q => MembersOf(c)' = MembersOf(c)
    BY <1>3, <1>8 DEF MembersOf
  <2>3. QED BY <2>1, <2>2 DEF Moved
<1>11. ASSUME NEW c, c # 0
       PROVE  /\ c = p /\ c = q => Moved(HoldersOf(c), HoldersOf(c)', -2)
              /\ c = p /\ c # q => Moved(HoldersOf(c), HoldersOf(c)', -1)
              /\ c # p /\ c = q => Moved(HoldersOf(c), HoldersOf(c)', -1)
              /\ c # p /\ c # q => Moved(HoldersOf(c), HoldersOf(c)', 0)
  <2>1. CASE from = h
    <3>1. points' = points /\ q = 0
      BY <2>1, <1>0, <1>1
    <3>2. /\ c = p => Moved(HoldersOf(c), HoldersOf(c)', -1)
          /\ c # p => Moved(HoldersOf(c), HoldersOf(c)', 0)
      BY <3>1, <1>0, <1>4, <1>7, OneLeaves
    <3>3. QED BY <3>1, <3>2, <1>11
  <2>2. CASE from # h
    <3>1. /\ points'[from] = 0 /\ \A f \in Pointers \ {from} : points'[f] = points[f]
          /\ q = points[from]
      BY <2>2, <1>0, <1>1
    <3>2. QED BY <2>2, <3>1, <1>0, <1>4, <1>7, <1>11, TwoLeave
  <2>3. QED BY <2>1, <2>2
<1>12. AccountInv'
  <2>1. ASSUME NEW c \in DOMAIN cells PROVE Account(c)'
    <3>1. c # 0 /\ c # new /\ Moved(PutsOf(c), PutsOf(c)', 0)
      BY <1>3, <1>7, CellType
    <3>0. Grows /\ BeginLets(h, p) /\ class' = class
      BY <1>3, <1>7
    <3>2. -2 + 1 + 0 = -1 /\ -1 + 0 + 0 = -1 /\ -1 + 1 + 0 = 0 /\ 0 + 0 + 0 = 0
      OBVIOUS
    <3>3. CASE c = p /\ c = q
      <4>1. /\ Moved(HoldersOf(c), HoldersOf(c)', -2) /\ Moved(MembersOf(c), MembersOf(c)', 1)
        BY <3>1, <3>3, <1>10, <1>11
      <4>2. c = p /\ ~Doomed(c) /\ -2 + 1 + 0 = -1
        BY <3>1, <3>2, <3>3, <1>5
      <4>3. QED BY <3>0, <3>1, <4>1, <4>2, BeginAccount
    <3>4. CASE c = p /\ c # q
      <4>1. Moved(HoldersOf(c), HoldersOf(c)', -1) /\ Moved(MembersOf(c), MembersOf(c)', 0)
        BY <3>1, <3>4, <1>10, <1>11
      <4>2. c = p /\ ~Doomed(c) /\ -1 + 0 + 0 = -1
        BY <3>1, <3>2, <3>4, <1>5
      <4>3. QED BY <3>0, <3>1, <4>1, <4>2, BeginAccount
    <3>5. CASE c # p /\ c = q
      <4>1. Moved(HoldersOf(c), HoldersOf(c)', -1) /\ Moved(MembersOf(c), MembersOf(c)', 1)
        BY <3>1, <3>5, <1>10, <1>11
      <4>2. c # p /\ -1 + 1 + 0 = 0
        BY <3>2, <3>5
      <4>3. QED BY <3>0, <3>1, <4>1, <4>2, BeginAccount
    <3>6. CASE c # p /\ c # q
      <4>1. Moved(HoldersOf(c), HoldersOf(c)', 0) /\ Moved(MembersOf(c), MembersOf(c)', 0)
        BY <3>1, <3>6, <1>10, <1>11
      <4>2. c # p /\ 0 + 0 + 0 = 0
        BY <3>2, <3>6
      <4>3. QED BY <3>0, <3>1, <4>1, <4>2, BeginAccount
    <3>7. QED BY <3>3, <3>4, <3>5, <3>6
  <2>2. Account(new)'
    <3>1. new # 0 /\ new # p /\ new # q /\ new \in DOMAIN cells' \ DOMAIN cells
      BY <1>0, <1>1, <1>2, <1>3
    <3>2. ~Doomed(new)' /\ Moved(UnrefsOf(new), UnrefsOf(new)', 0)
      BY <3>1, <1>7 DEF BeginLets, Moved
    <3>3. 0 + 0 + 0 + 1 = 1
      OBVIOUS
    <3>4. QED BY <3>1, <3>2, <3>3, <1>3, <1>7, <1>10, <1>11, NewAccount
  <2>3. QED BY <2>1, <2>2, <1>3 DEF AccountInv
<1>13. QED BY <1>7, <1>12 DEF OwnInv

-----------------------------------------------------------------------------
(***************************************************************************)
(* Nothing let go of                                                       *)
(***************************************************************************)
SameLets ==
    /\ LettingInv' /\ KillInv'
    /\ \A c : (Freeing(c)' <=> Freeing(c)) /\ UnrefsOf(c)' = UnrefsOf(c)
    /\ \A c \in DOMAIN cells : Doomed(c)' <=> Doomed(c)
    /\ \A c \in DOMAIN cells' \ DOMAIN cells : ~Doomed(c)'

LEMMA SameLetting ==
    ASSUME OwnInv, letting' = letting, class' = class, Keeps,
           \A t \in Threads : letting[t] # <<>> => then'[t] = then[t]
    PROVE  SameLets
<1>1. /\ DOMAIN cells = 1 .. Len(cells) /\ DOMAIN cells' = 1 .. Len(cells')
      /\ Len(cells) \in Nat /\ Len(cells') \in Nat /\ DOMAIN cells \subseteq DOMAIN cells'
  BY DEF OwnInv, OwnTypeOK, Keeps
<1>2. LettingInv'
  BY <1>1 DEF OwnInv, LettingInv, Counted, Nothing
<1>3. \A t \in Threads : \A i : \A c : Killing(t, i, c)' <=> Killing(t, i, c)
  BY DEF Killing
<1>4. \A t \in Threads : \A i : \A c : Killing(t, i, c) => c \in DOMAIN cells
  BY DEF OwnInv, LettingInv, Killing
<1>5. KillInv'
  <2> SUFFICES ASSUME NEW c \in DOMAIN cells', NEW v \in Threads, NEW u \in Threads,
                      NEW i \in DOMAIN letting[v], NEW j \in DOMAIN letting[u], Killing(v, i, c)
               PROVE  ~cells'[c].freed /\ (Killing(u, j, c) => v = u /\ i = j)
    BY <1>3 DEF KillInv
  <2>1. c \in DOMAIN cells
    BY <1>4
  <2>2. QED BY <2>1 DEF OwnInv, KillInv, Keeps
<1>6. \A c : (Freeing(c)' <=> Freeing(c)) /\ UnrefsOf(c)' = UnrefsOf(c)
  BY DEF Freeing, UnrefsOf, Lets, Top
<1>7. \A c \in DOMAIN cells : Doomed(c)' <=> Doomed(c)
  BY <1>3 DEF Doomed, Keeps
<1>8. \A c \in DOMAIN cells' \ DOMAIN cells : ~Doomed(c)'
  BY <1>3, <1>4 DEF Doomed, Keeps
<1>9. QED BY <1>2, <1>5, <1>6, <1>7, <1>8 DEF SameLets

LEMMA SameAccount ==
    ASSUME OwnInv, class' = class, SameLets, NEW c \in DOMAIN cells,
           NEW dh, NEW dm, NEW dp, NEW d \in {0, 1},
           Moved(HoldersOf(c), HoldersOf(c)', dh), Moved(MembersOf(c), MembersOf(c)', dm),
           Moved(PutsOf(c), PutsOf(c)', dp), dh + dm + dp = d,
           cells'[c].refs = cells[c].refs + d,
           d = 1 => Counted /\ ~Doomed(c)
    PROVE  Account(c)'
<1>1. Account(c) /\ Finite(c) /\ cells[c].refs \in Int
  BY CellType DEF OwnInv, AccountInv, Account
<1>2. Counted' = Counted
  BY DEF Counted
<1>3. Moved(UnrefsOf(c), UnrefsOf(c)', 0)
  BY DEF SameLets, Moved
<1>4. dh \in Int /\ dm \in Int /\ dp \in Int
  BY DEF Moved
<1>5. Finite(c)' /\ Claims(c) \in Nat /\ Claims(c)' \in Nat /\ Claims(c)' = Claims(c) + dh + dm + 0 + dp
  BY <1>1, <1>3, Balance
<1>6. Claims(c)' = Claims(c) + d
  BY <1>4, <1>5
<1>7. Doomed(c)' <=> Doomed(c)
  BY DEF SameLets
<1>8. CASE d = 0
  BY <1>1, <1>2, <1>5, <1>6, <1>7, <1>8 DEF Account
<1>9. CASE d = 1
  BY <1>1, <1>2, <1>5, <1>6, <1>7, <1>9 DEF Account
<1>10. QED BY <1>8, <1>9

LEMMA HandOverStep ==
    ASSUME OwnInv, NEW h \in Pointers, NEW to \in Pointers, HandOver(h, to)
    PROVE  OwnInv'
<1>1. /\ Runner[to] # Runner[h] /\ Idle(h) /\ Idle(to) /\ points[to] = 0
      /\ points' = [points EXCEPT ![to] = points[h], ![h] = 0]
      /\ UNCHANGED <<class, cells, letting, then>>
      /\ points \in [Pointers -> 0 .. Len(cells)]
  BY DEF HandOver, OwnInv, OwnTypeOK
<1>2. /\ h # to /\ points'[h] = points[to] /\ points'[to] = points[h]
      /\ points' \in [Pointers -> 0 .. Len(cells)]
      /\ \A f \in Pointers \ {to, h} : points'[f] = points[f]
  BY <1>1
<1>3. Settled(h) /\ Settled(to) /\ \A f \in Pointers : Settled(f)' <=> Settled(f)
  BY <1>1 DEF Settled, Idle
<1>4. Keeps
  BY <1>1 DEF Keeps, OwnInv, OwnTypeOK
<1>5. SameLets
  BY <1>1, <1>4, SameLetting
<1>6. OwnTypeOK'
  BY <1>1, <1>2 DEF OwnInv, OwnTypeOK
<1>7. ThenInv'
  <2> SUFFICES ASSUME NEW v \in Threads PROVE ThenOf(v)'
    BY DEF ThenInv
  <2>1. CASE then[v] = Nothing
    BY <2>1, <1>1, IdleThen
  <2>2. CASE then[v] # Nothing
    <3>1. v # Runner[h] /\ v # Runner[to]
      BY <2>2, <1>1 DEF Idle
    <3>2. \A g \in Pointers : Runner[g] = v => points'[g] = points[g]
      BY <3>1, <1>2
    <3>3. QED BY <3>2, <1>1, <1>4, OtherThen
  <2>3. QED BY <2>1, <2>2
<1>8. AccountInv'
  <2> SUFFICES ASSUME NEW c \in DOMAIN cells PROVE Account(c)'
    BY <1>1 DEF AccountInv
  <2>1. Moved(HoldersOf(c), HoldersOf(c)', 0)
    BY <1>2, <1>3, Exchanged
  <2>2. MembersOf(c)' = MembersOf(c) /\ PutsOf(c)' = PutsOf(c)
    BY <1>1, <1>5 DEF MembersOf, PutsOf, SameLets
  <2>3. Moved(MembersOf(c), MembersOf(c)', 0) /\ Moved(PutsOf(c), PutsOf(c)', 0) /\ 0 + 0 + 0 = 0
    BY <2>2 DEF Moved
  <2>4. cells'[c].refs = cells[c].refs + 0
    BY <1>1, CellType
  <2>5. 0 \in {0, 1} /\ 0 # 1
    OBVIOUS
  <2>6. QED BY <2>1, <2>3, <2>4, <2>5, <1>1, <1>5, SameAccount
<1>9. QED BY <1>5, <1>6, <1>7, <1>8 DEF OwnInv, SameLets

-----------------------------------------------------------------------------
(***************************************************************************)
(* Assignments                                                             *)
(***************************************************************************)
\* A step of t's assignment to h, which goes on with a.
Continues(t, h, a) ==
    /\ h \in Pointers /\ Runner[h] = t /\ h = then[t].holder /\ ~Settled(h)
    /\ class' = class /\ letting' = letting
    /\ then' \in [Threads -> Assignment] /\ then'[t] = a
    /\ \A v \in Threads \ {t} : then'[v] = then[v]
    /\ \A g \in Pointers : Settled(g)' <=> Settled(g) \/ (a = Nothing /\ g = h)
    /\ \A c : then[t].do = "put" /\ then[t].cell = c => Moved(PutsOf(c), PutsOf(c)', -1)
    /\ \A c : ~(then[t].do = "put" /\ then[t].cell = c) => Moved(PutsOf(c), PutsOf(c)', 0)
    /\ SameLets

LEMMA ContinueViews ==
    ASSUME OwnInv, NEW t \in Threads, letting[t] = <<>>, then[t] # Nothing, Keeps,
           NEW a \in Assignment, Continue(t, a), a.do # "put",
           NEW h, h = then[t].holder, a = Nothing \/ a.holder = h
    PROVE  Continues(t, h, a)
<1>1. /\ then \in [Threads -> Assignment] /\ then[t] \in Assignment
      /\ class' = class /\ letting' = letting /\ then' = [then EXCEPT ![t] = a]
  BY DEF Continue, OwnInv, OwnTypeOK
<1>2. /\ then' \in [Threads -> Assignment] /\ then'[t] = a
      /\ \A v \in Threads \ {t} : then'[v] = then[v]
  BY <1>1
<1>3. h \in Pointers
  BY <1>1 DEF Assignment, Nothing
<1>4. Runner[h] = t
  BY DEF OwnInv, ThenInv, ThenOf
<1>5. ~Settled(h)
  BY <1>4 DEF Settled
<1>6. \A g \in Pointers : Settled(g)' <=> Settled(g) \/ (a = Nothing /\ g = h)
  <2> SUFFICES ASSUME NEW g \in Pointers
               PROVE  Settled(g)' <=> Settled(g) \/ (a = Nothing /\ g = h)
    OBVIOUS
  <2>1. CASE Runner[g] = t
    BY <2>1, <1>2 DEF Settled
  <2>2. CASE Runner[g] # t
    <3>1. Runner[g] \in Threads /\ g # h
      BY <2>2, <1>4, RunnerAssumption
    <3>2. QED BY <2>2, <3>1, <1>2 DEF Settled
  <2>3. QED BY <2>1, <2>2
<1>7. ASSUME NEW c, then[t].do = "put", then[t].cell = c PROVE Moved(PutsOf(c), PutsOf(c)', -1)
  <2>1. t \in PutsOf(c) /\ PutsOf(c)' = PutsOf(c) \ {t}
    BY <1>2, <1>7 DEF PutsOf
  <2>2. QED BY <2>1 DEF Moved
<1>8. ASSUME NEW c, ~(then[t].do = "put" /\ then[t].cell = c) PROVE Moved(PutsOf(c), PutsOf(c)', 0)
  <2>1. PutsOf(c)' = PutsOf(c)
    BY <1>2, <1>8 DEF PutsOf
  <2>2. QED BY <2>1 DEF Moved
<1>9. SameLets
  <2>1. \A v \in Threads : letting[v] # <<>> => then'[v] = then[v]
    BY <1>2
  <2>2. QED BY <2>1, <1>1, SameLetting
<1>10. QED BY <1>1, <1>2, <1>3, <1>4, <1>5, <1>6, <1>7, <1>8, <1>9 DEF Continues

\* Only the assigned holder and others of its thread change; the rest follows.
LEMMA ContinueInv ==
    ASSUME OwnInv, NEW t \in Threads, NEW h, NEW a, Continues(t, h, a), Keeps,
           points' \in [Pointers -> 0 .. Len(cells')],
           \A g \in Pointers : Runner[g] # t => points'[g] = points[g],
           \A c \in DOMAIN cells' : cells'[c].member \in 0 .. Len(cells'),
           ThenOf(t)', AccountInv'
    PROVE  OwnInv'
<1>1. OwnTypeOK'
  BY DEF Continues, OwnInv, OwnTypeOK, Keeps
<1>2. ThenInv'
  <2> SUFFICES ASSUME NEW v \in Threads \ {t} PROVE ThenOf(v)'
    BY DEF ThenInv
  <2>1. QED BY OtherThen DEF Continues
<1>3. QED BY <1>1, <1>2 DEF OwnInv, Continues, SameLets

LEMMA ContinueMembers ==
    ASSUME OwnInv, NEW t, NEW h, NEW a, Continues(t, h, a), NEW c, c # 0,
           \A d \in DOMAIN cells : cells'[d].member = cells[d].member,
           DOMAIN cells \subseteq DOMAIN cells',
           \A d \in DOMAIN cells' \ DOMAIN cells : cells'[d].member = 0
    PROVE  Moved(MembersOf(c), MembersOf(c)', 0)
<1>1. MembersOf(c)' = MembersOf(c)
  BY DEF MembersOf, Continues, SameLets
<1>2. QED BY <1>1 DEF Moved

\* The assigned holder may come to point to an object.
LEMMA ContinueHolders ==
    ASSUME OwnInv, NEW t, NEW h, NEW a, Continues(t, h, a), NEW c,
           \A g \in Pointers \ {h} : points'[g] = points[g]
    PROVE  /\ a = Nothing /\ points'[h] = c => Moved(HoldersOf(c), HoldersOf(c)', 1)
           /\ a # Nothing \/ points'[h] # c => Moved(HoldersOf(c), HoldersOf(c)', 0)
<1>1. h \notin HoldersOf(c)
  BY DEF HoldersOf, Continues
<1>2. a = Nothing /\ points'[h] = c => HoldersOf(c)' = HoldersOf(c) \cup {h}
  BY DEF HoldersOf, Continues
<1>3. a # Nothing \/ points'[h] # c => HoldersOf(c)' = HoldersOf(c)
  BY DEF HoldersOf, Continues
<1>4. QED BY <1>1, <1>2, <1>3 DEF Moved

LEMMA CellsKept ==
    ASSUME OwnInv, UNCHANGED cells
    PROVE  /\ Keeps
           /\ \A c \in DOMAIN cells' : cells'[c].member \in 0 .. Len(cells')
           /\ \A c \in DOMAIN cells : cells'[c].refs = cells[c].refs + 0
           /\ \A c \in DOMAIN cells : cells'[c].member = cells[c].member
<1>1. Keeps
  BY DEF Keeps, OwnInv, OwnTypeOK
<1>2. QED BY <1>1, CellType

LEMMA RunCopyStep ==
    ASSUME OwnInv, NEW t \in Threads, RunCopy(t)
    PROVE  OwnInv'
<1>0. PICK h, g : h = then[t].holder /\ g = then[t].from
  OBVIOUS
<1>1. /\ letting[t] = <<>> /\ then[t].do = "copy" /\ then[t] # Nothing
      /\ points' = [points EXCEPT ![h] = points[g]]
      /\ Continue(t, AddRef(h, "ref")) /\ UNCHANGED cells
  BY <1>0 DEF RunCopy, Assigns, Nothing
<1>2. /\ h \in Pointers /\ g \in Pointers /\ Runner[g] = t /\ g # h /\ Counted /\ Runner[h] = t
      /\ points \in [Pointers -> 0 .. Len(cells)]
  <2>1. then[t] \in Assignment /\ points \in [Pointers -> 0 .. Len(cells)]
    BY DEF OwnInv, OwnTypeOK
  <2>2. h \in Pointers /\ g \in Pointers
    BY <2>1, <1>0, <1>1 DEF Assignment, Nothing
  <2>3. QED BY <2>1, <2>2, <1>0, <1>1 DEF OwnInv, ThenInv, ThenOf
<1>3. /\ AddRef(h, "ref") \in Assignment /\ AddRef(h, "ref") # Nothing
      /\ AddRef(h, "ref").holder = h /\ AddRef(h, "ref").do = "ref"
  BY <1>2 DEF AddRef, Assignment, Nothing
<1> HIDE DEF AddRef
<1>4. /\ Keeps
      /\ \A c \in DOMAIN cells' : cells'[c].member \in 0 .. Len(cells')
      /\ \A c \in DOMAIN cells : cells'[c].refs = cells[c].refs + 0
      /\ \A c \in DOMAIN cells : cells'[c].member = cells[c].member
  BY <1>1, CellsKept
<1>5. AddRef(h, "ref").do # "put"
  BY <1>3
<1>6. Continues(t, h, AddRef(h, "ref"))
  BY <1>0, <1>1, <1>3, <1>4, <1>5, ContinueViews
<1>7. /\ points' \in [Pointers -> 0 .. Len(cells')]
      /\ points'[h] = points[g] /\ points'[g] = points[g]
      /\ \A f \in Pointers \ {h} : points'[f] = points[f]
  BY <1>1, <1>2
<1>8. ThenOf(t)'
  BY <1>1, <1>2, <1>3, <1>6, <1>7 DEF ThenOf, Continues, Counted
<1>9. AccountInv'
  <2> SUFFICES ASSUME NEW c \in DOMAIN cells PROVE Account(c)'
    BY <1>1 DEF AccountInv
  <2>1. Moved(HoldersOf(c), HoldersOf(c)', 0)
    BY <1>3, <1>6, <1>7, ContinueHolders
  <2>2. c # 0 /\ Moved(MembersOf(c), MembersOf(c)', 0)
    BY <1>1, <1>6, CellType, ContinueMembers
  <2>3. Moved(PutsOf(c), PutsOf(c)', 0) /\ SameLets /\ class' = class
    BY <1>1, <1>6 DEF Continues
  <2>4. 0 \in {0, 1} /\ 0 # 1 /\ 0 + 0 + 0 = 0 /\ cells'[c].refs = cells[c].refs + 0
    BY <1>4
  <2>5. QED BY <2>1, <2>2, <2>3, <2>4, SameAccount
<1>10. \A f \in Pointers : Runner[f] # t => points'[f] = points[f]
  BY <1>2, <1>7
<1>11. QED BY <1>4, <1>6, <1>7, <1>8, <1>9, <1>10, ContinueInv

LEMMA NothingType == Nothing \in Assignment /\ Nothing.do # "put"
BY DEF Assignment, Nothing

\* What an assignment reads or counts up without spoiling it is not being deleted.
LEMMA Unspoilt ==
    ASSUME NEW t, NEW c \in DOMAIN cells, c # 0, ~Gone(c)
    PROVE  ~Doomed(c)
BY DEF Gone, Doomed, Killing

LEMMA RunRefStep ==
    ASSUME OwnInv, NEW t \in Threads, RunRef(t)
    PROVE  OwnInv'
<1>0. PICK h, p : h = then[t].holder /\ p = points[h]
  OBVIOUS
<1>1. /\ letting[t] = <<>> /\ then[t].do \in {"ref", "count"} /\ then[t] # Nothing
      /\ p = 0 => cells' = cells
      /\ p # 0 => cells' = [cells EXCEPT ![p].refs = @ + 1]
      /\ Continue(t, Nothing) /\ points' = points /\ ~Gone(p)
  BY <1>0 DEF RunRef, Assigns, Nothing, Spoils
<1>2. /\ h \in Pointers /\ points \in [Pointers -> 0 .. Len(cells)] /\ cells \in Seq(Cell)
      /\ Counted
  <2>1. then[t] \in Assignment /\ points \in [Pointers -> 0 .. Len(cells)] /\ cells \in Seq(Cell)
    BY DEF OwnInv, OwnTypeOK
  <2>2. h \in Pointers
    BY <2>1, <1>0, <1>1 DEF Assignment, Nothing
  <2>3. QED BY <2>1, <2>2, <1>1 DEF OwnInv, ThenInv, ThenOf
<1>5. p # 0 => p \in DOMAIN cells /\ ~Doomed(p)
  <2>1. p # 0 => p \in DOMAIN cells
    BY <1>0, <1>2
  <2>2. QED BY <2>1, <1>1, Unspoilt
<1>6. p # 0 => [cells[p] EXCEPT !.refs = @ + 1] \in Cell
  BY <1>5, CellType DEF Cell
<1>7. /\ cells' \in Seq(Cell) /\ Len(cells') = Len(cells) /\ DOMAIN cells' = DOMAIN cells
      /\ \A c \in DOMAIN cells : c # p => cells'[c] = cells[c]
      /\ p # 0 => cells'[p] = [cells[p] EXCEPT !.refs = @ + 1]
  <2>1. CASE p = 0
    BY <2>1, <1>1, <1>2
  <2>2. CASE p # 0
    <3>1. cells' = [cells EXCEPT ![p] = [cells[p] EXCEPT !.refs = @ + 1]]
      BY <2>2, <1>1
    <3>2. p \in 1 .. Len(cells) /\ DOMAIN cells = 1 .. Len(cells) /\ Len(cells) \in Nat
      BY <2>2, <1>5, <1>2
    <3>3. /\ cells' \in Seq(Cell) /\ Len(cells') = Len(cells)
          /\ \A c \in 1 .. Len(cells) : cells'[c] = IF c = p THEN [cells[p] EXCEPT !.refs = @ + 1] ELSE cells[c]
      BY <2>2, <3>1, <3>2, <1>2, <1>6, ExceptSeq
    <3>4. QED BY <3>2, <3>3
  <2>3. QED BY <2>1, <2>2
<1>8. \A c \in DOMAIN cells :
        /\ cells'[c].freed = cells[c].freed /\ cells'[c].member = cells[c].member
        /\ c # p => cells'[c].refs = cells[c].refs + 0
        /\ c = p => cells'[c].refs = cells[c].refs + 1
  <2> SUFFICES ASSUME NEW c \in DOMAIN cells
               PROVE  /\ cells'[c].freed = cells[c].freed /\ cells'[c].member = cells[c].member
                      /\ c # p => cells'[c].refs = cells[c].refs + 0
                      /\ c = p => cells'[c].refs = cells[c].refs + 1
    OBVIOUS
  <2>1. CASE c = p
    <3>1. cells'[c] = [cells[c] EXCEPT !.refs = @ + 1] /\ cells[c] \in Cell
      BY <2>1, <1>7, CellType
    <3>2. QED BY <2>1, <3>1 DEF Cell
  <2>2. CASE c # p
    BY <2>2, <1>7, CellType
  <2>3. QED BY <2>1, <2>2
<1>9. Keeps
  BY <1>2, <1>7, <1>8 DEF Keeps
<1>10. Continues(t, h, Nothing)
  BY <1>0, <1>1, <1>9, NothingType, ContinueViews
<1>11. ThenOf(t)'
  BY <1>10, IdleThen DEF Continues
<1>12. AccountInv'
  <2> SUFFICES ASSUME NEW c \in DOMAIN cells PROVE Account(c)'
    BY <1>7 DEF AccountInv
  <2>1. c # 0 /\ Moved(MembersOf(c), MembersOf(c)', 0)
    BY <1>7, <1>8, <1>10, CellType, ContinueMembers
  <2>2. Moved(PutsOf(c), PutsOf(c)', 0) /\ SameLets /\ class' = class
    BY <1>1, <1>10 DEF Continues
  <2>3. /\ c = p => Moved(HoldersOf(c), HoldersOf(c)', 1)
        /\ c # p => Moved(HoldersOf(c), HoldersOf(c)', 0)
    BY <1>0, <1>1, <1>10, ContinueHolders
  <2>4. 0 \in {0, 1} /\ 1 \in {0, 1} /\ 0 # 1 /\ 0 + 0 + 0 = 0 /\ 1 + 0 + 0 = 1
    OBVIOUS
  <2>5. CASE c = p
    <3>1. ~Doomed(c) /\ cells'[c].refs = cells[c].refs + 1
      BY <2>1, <2>5, <1>5, <1>8
    <3>2. QED BY <2>1, <2>2, <2>3, <2>4, <2>5, <3>1, <1>2, SameAccount
  <2>6. CASE c # p
    <3>1. cells'[c].refs = cells[c].refs + 0
      BY <2>6, <1>8
    <3>2. QED BY <2>1, <2>2, <2>3, <2>4, <2>6, <3>1, SameAccount
  <2>7. QED BY <2>5, <2>6
<1>13. \A c \in DOMAIN cells' : cells'[c].member \in 0 .. Len(cells')
  BY <1>7, <1>8, CellType
<1>14. points' \in [Pointers -> 0 .. Len(cells')] /\ \A f \in Pointers : Runner[f] # t => points'[f] = points[f]
  BY <1>1, <1>2, <1>7
<1>15. QED BY <1>9, <1>10, <1>11, <1>12, <1>13, <1>14, ContinueInv

LEMMA RunInsideStep ==
    ASSUME OwnInv, NEW t \in Threads, RunInside(t)
    PROVE  OwnInv'
<1>0. PICK h, d : h = then[t].holder /\ d = then[t].cell
  OBVIOUS
<1>1. /\ letting[t] = <<>> /\ then[t].do = "inside" /\ then[t] # Nothing
      /\ points' = [points EXCEPT ![h] = cells[d].member]
      /\ Continue(t, AddRef(h, "count")) /\ UNCHANGED cells
  BY <1>0 DEF RunInside, Assigns, Nothing
<1>2. /\ h \in Pointers /\ Counted /\ Runner[h] = t /\ d \in DOMAIN cells
      /\ points \in [Pointers -> 0 .. Len(cells)]
  <2>1. then[t] \in Assignment /\ points \in [Pointers -> 0 .. Len(cells)]
    BY DEF OwnInv, OwnTypeOK
  <2>2. h \in Pointers
    BY <2>1, <1>0, <1>1 DEF Assignment, Nothing
  <2>3. QED BY <2>1, <2>2, <1>0, <1>1 DEF OwnInv, ThenInv, ThenOf
<1>3. /\ AddRef(h, "count") \in Assignment /\ AddRef(h, "count") # Nothing
      /\ AddRef(h, "count").holder = h /\ AddRef(h, "count").do = "count"
  BY <1>2 DEF AddRef, Assignment, Nothing
<1> HIDE DEF AddRef
<1>4. /\ Keeps
      /\ \A c \in DOMAIN cells' : cells'[c].member \in 0 .. Len(cells')
      /\ \A c \in DOMAIN cells : cells'[c].refs = cells[c].refs + 0
      /\ \A c \in DOMAIN cells : cells'[c].member = cells[c].member
  BY <1>1, CellsKept
<1>5. AddRef(h, "count").do # "put"
  BY <1>3
<1>6. Continues(t, h, AddRef(h, "count"))
  BY <1>0, <1>1, <1>3, <1>4, <1>5, ContinueViews
<1>7. /\ points' \in [Pointers -> 0 .. Len(cells')]
      /\ \A f \in Pointers \ {h} : points'[f] = points[f]
  BY <1>1, <1>2, CellType
<1>8. ThenOf(t)'
  BY <1>2, <1>3, <1>6 DEF ThenOf, Continues, Counted
<1>9. AccountInv'
  <2> SUFFICES ASSUME NEW c \in DOMAIN cells PROVE Account(c)'
    BY <1>1 DEF AccountInv
  <2>1. Moved(HoldersOf(c), HoldersOf(c)', 0)
    BY <1>3, <1>6, <1>7, ContinueHolders
  <2>2. c # 0 /\ Moved(MembersOf(c), MembersOf(c)', 0)
    BY <1>1, <1>6, CellType, ContinueMembers
  <2>3. Moved(PutsOf(c), PutsOf(c)', 0) /\ SameLets /\ class' = class
    BY <1>1, <1>6 DEF Continues
  <2>4. 0 \in {0, 1} /\ 0 # 1 /\ 0 + 0 + 0 = 0 /\ cells'[c].refs = cells[c].refs + 0
    BY <1>4
  <2>5. QED BY <2>1, <2>2, <2>3, <2>4, SameAccount
<1>10. \A f \in Pointers : Runner[f] # t => points'[f] = points[f]
  BY <1>2, <1>7
<1>11. QED BY <1>4, <1>6, <1>7, <1>8, <1>9, <1>10, ContinueInv

LEMMA RunPullStep ==
    ASSUME OwnInv, NEW t \in Threads, RunPull(t)
    PROVE  OwnInv'
<1>0. PICK h, d, q : h = then[t].holder /\ d = then[t].cell /\ q = cells[d].member
  OBVIOUS
<1>1. /\ letting[t] = <<>> /\ then[t].do = "pull" /\ then[t] # Nothing
      /\ points' = [points EXCEPT ![h] = q]
      /\ cells' = [cells EXCEPT ![d].member = 0]
      /\ Continue(t, Nothing) /\ ~Gone(d)
  BY <1>0 DEF RunPull, Assigns, Nothing, Spoils
<1>2. /\ h \in Pointers /\ Counted /\ Runner[h] = t /\ d \in DOMAIN cells /\ d # 0
      /\ points \in [Pointers -> 0 .. Len(cells)] /\ cells \in Seq(Cell)
      /\ Len(cells) \in Nat /\ q \in 0 .. Len(cells)
  <2>1. /\ then[t] \in Assignment /\ points \in [Pointers -> 0 .. Len(cells)]
        /\ cells \in Seq(Cell)
    BY DEF OwnInv, OwnTypeOK
  <2>2. h \in Pointers
    BY <2>1, <1>0, <1>1 DEF Assignment, Nothing
  <2>3. Counted /\ Runner[h] = t /\ d \in DOMAIN cells
    BY <1>0, <1>1 DEF OwnInv, ThenInv, ThenOf
  <2>4. QED BY <2>1, <2>2, <2>3, <1>0, CellType
<1>3. ~Doomed(d)
  BY <1>1, <1>2, Unspoilt
<1>4. [cells[d] EXCEPT !.member = 0] \in Cell
  BY <1>2, CellType DEF Cell
<1>5. /\ cells' \in Seq(Cell) /\ Len(cells') = Len(cells) /\ DOMAIN cells' = DOMAIN cells
      /\ \A c \in DOMAIN cells : c # d => cells'[c] = cells[c]
      /\ cells'[d] = [cells[d] EXCEPT !.member = 0]
  <2>1. cells' = [cells EXCEPT ![d] = [cells[d] EXCEPT !.member = 0]]
    BY <1>1
  <2>2. QED BY <2>1, <1>2, <1>4, ExceptSeq
<1>6. /\ cells'[d].member = 0 /\ cells'[d].freed = cells[d].freed /\ cells'[d].refs = cells[d].refs
  BY <1>2, <1>5, CellType DEF Cell
<1>7. \A c \in DOMAIN cells :
         /\ cells'[c].freed = cells[c].freed /\ cells'[c].refs = cells[c].refs + 0
         /\ cells'[c].member \in 0 .. Len(cells')
  <2> SUFFICES ASSUME NEW c \in DOMAIN cells
               PROVE  /\ cells'[c].freed = cells[c].freed /\ cells'[c].refs = cells[c].refs + 0
                      /\ cells'[c].member \in 0 .. Len(cells')
    OBVIOUS
  <2>1. CASE c = d
    BY <2>1, <1>2, <1>5, <1>6, CellType
  <2>2. CASE c # d
    BY <2>2, <1>5, CellType
  <2>3. QED BY <2>1, <2>2
<1>8. Keeps
  BY <1>2, <1>5, <1>7 DEF Keeps
<1>9. Continues(t, h, Nothing)
  BY <1>0, <1>1, <1>8, NothingType, ContinueViews
<1>10. ThenOf(t)'
  BY <1>9, IdleThen DEF Continues
<1>11. /\ points' \in [Pointers -> 0 .. Len(cells')] /\ points'[h] = q
       /\ \A f \in Pointers \ {h} : points'[f] = points[f]
       /\ \A f \in Pointers : Runner[f] # t => points'[f] = points[f]
  BY <1>1, <1>2, <1>5
<1>12. \A e \in DOMAIN cells : Freeing(e)' <=> Freeing(e)
  BY <1>9 DEF Continues, SameLets
<1>13. AccountInv'
  <2> SUFFICES ASSUME NEW c \in DOMAIN cells PROVE Account(c)'
    BY <1>5 DEF AccountInv
  <2>1. c # 0
    BY CellType
  <2>2. SameLets /\ class' = class /\ Moved(PutsOf(c), PutsOf(c)', 0)
    BY <1>1, <1>9 DEF Continues
  <2>3. /\ c = q => Moved(HoldersOf(c), HoldersOf(c)', 1)
        /\ c # q => Moved(HoldersOf(c), HoldersOf(c)', 0)
    BY <1>9, <1>11, ContinueHolders
  <2>4. c = q => Moved(MembersOf(c), MembersOf(c)', -1)
    <3>1. SUFFICES ASSUME c = q PROVE Moved(MembersOf(c), MembersOf(c)', -1)
      OBVIOUS
    <3>2. d \in MembersOf(c)
      BY <3>1, <1>0, <1>2, <1>3, NotFreeing DEF MembersOf
    <3>3. MembersOf(c)' = MembersOf(c) \ {d}
      BY <3>1, <2>1, <1>5, <1>6, <1>12 DEF MembersOf
    <3>4. QED BY <3>2, <3>3 DEF Moved
  <2>5. c # q => Moved(MembersOf(c), MembersOf(c)', 0)
    <3>1. SUFFICES ASSUME c # q PROVE MembersOf(c)' = MembersOf(c)
      BY DEF Moved
    <3>2. \A e \in DOMAIN cells : cells'[e].member = c <=> cells[e].member = c
      BY <3>1, <2>1, <1>0, <1>5, <1>6
    <3>3. QED BY <3>2, <1>5, <1>12 DEF MembersOf
  <2>6. /\ 0 \in {0, 1} /\ 0 # 1 /\ 0 + 0 + 0 = 0 /\ 1 + -1 + 0 = 0
        /\ cells'[c].refs = cells[c].refs + 0
    BY <1>7
  <2>7. CASE c = q
    BY <2>2, <2>3, <2>4, <2>6, <2>7, SameAccount
  <2>8. CASE c # q
    BY <2>2, <2>3, <2>5, <2>6, <2>8, SameAccount
  <2>9. QED BY <2>7, <2>8
<1>14. \A c \in DOMAIN cells' : cells'[c].member \in 0 .. Len(cells')
  BY <1>5, <1>7
<1>15. QED BY <1>8, <1>9, <1>10, <1>11, <1>13, <1>14, ContinueInv

LEMMA RunTakeStep ==
    ASSUME OwnInv, NEW t \in Threads, RunTake(t)
    PROVE  OwnInv'
<1>0. PICK h, g, p : h = then[t].holder /\ g = then[t].from /\ p = points[g]
  OBVIOUS
<1>1. /\ letting[t] = <<>> /\ then[t].do = "take" /\ then[t] # Nothing
      /\ points' = [points EXCEPT ![h] = p, ![g] = 0]
      /\ Continue(t, Nothing) /\ cells' = cells
  BY <1>0 DEF RunTake, Assigns, Nothing
<1>2. /\ h \in Pointers /\ g \in Pointers /\ Runner[g] = t /\ g # h /\ Runner[h] = t
      /\ points \in [Pointers -> 0 .. Len(cells)] /\ Len(cells) \in Nat
  <2>1. then[t] \in Assignment /\ points \in [Pointers -> 0 .. Len(cells)] /\ Len(cells) \in Nat
    BY DEF OwnInv, OwnTypeOK
  <2>2. h \in Pointers /\ g \in Pointers
    BY <2>1, <1>0, <1>1 DEF Assignment, Nothing
  <2>3. QED BY <2>1, <2>2, <1>0, <1>1 DEF OwnInv, ThenInv, ThenOf
<1>3. /\ Keeps
      /\ \A c \in DOMAIN cells' : cells'[c].member \in 0 .. Len(cells')
      /\ \A c \in DOMAIN cells : cells'[c].refs = cells[c].refs + 0
      /\ \A c \in DOMAIN cells : cells'[c].member = cells[c].member
  BY <1>1, CellsKept
<1>4. Continues(t, h, Nothing)
  BY <1>0, <1>1, <1>3, NothingType, ContinueViews
<1>5. /\ points' \in [Pointers -> 0 .. Len(cells')]
      /\ points'[h] = p /\ points'[g] = 0
      /\ \A f \in Pointers \ {g, h} : points'[f] = points[f]
      /\ \A f \in Pointers : Runner[f] # t => points'[f] = points[f]
  BY <1>0, <1>1, <1>2
<1>6. ThenOf(t)'
  BY <1>4, IdleThen DEF Continues
<1>7. Settled(g)
  BY <1>0, <1>2 DEF Settled
<1>8. AccountInv'
  <2> SUFFICES ASSUME NEW c \in DOMAIN cells PROVE Account(c)'
    BY <1>1 DEF AccountInv
  <2>1. c # 0 /\ Moved(MembersOf(c), MembersOf(c)', 0)
    BY <1>1, <1>4, CellType, ContinueMembers
  <2>2. Moved(HoldersOf(c), HoldersOf(c)', 0)
    <3>1. h \notin HoldersOf(c) /\ \A f \in Pointers : Settled(f)' <=> Settled(f) \/ f = h
      BY <1>4 DEF HoldersOf, Continues
    <3>2. CASE c = p
      <4>1. g \in HoldersOf(c) /\ HoldersOf(c)' = (HoldersOf(c) \ {g}) \cup {h}
        BY <2>1, <3>1, <3>2, <1>0, <1>2, <1>5, <1>7 DEF HoldersOf
      <4>2. QED BY <3>1, <4>1 DEF Moved
    <3>3. CASE c # p
      <4>1. HoldersOf(c)' = HoldersOf(c)
        BY <2>1, <3>1, <3>3, <1>0, <1>2, <1>5 DEF HoldersOf
      <4>2. QED BY <4>1 DEF Moved
    <3>4. QED BY <3>2, <3>3
  <2>3. Moved(PutsOf(c), PutsOf(c)', 0) /\ SameLets /\ class' = class
    BY <1>1, <1>4 DEF Continues
  <2>4. 0 \in {0, 1} /\ 0 # 1 /\ 0 + 0 + 0 = 0 /\ cells'[c].refs = cells[c].refs + 0
    BY <1>3
  <2>5. QED BY <2>1, <2>2, <2>3, <2>4, SameAccount
<1>9. QED BY <1>3, <1>4, <1>5, <1>6, <1>8, ContinueInv

LEMMA RunPutStep ==
    ASSUME OwnInv, NEW t \in Threads, RunPut(t)
    PROVE  OwnInv'
<1>0. PICK h, q : h = then[t].holder /\ q = then[t].cell
  OBVIOUS
<1>1. /\ letting[t] = <<>> /\ then[t].do = "put" /\ then[t] # Nothing
      /\ points' = [points EXCEPT ![h] = q]
      /\ Continue(t, Nothing) /\ cells' = cells
  BY <1>0 DEF RunPut, Assigns, Nothing
<1>2. /\ h \in Pointers /\ Runner[h] = t /\ q \in 0 .. Len(cells)
      /\ points \in [Pointers -> 0 .. Len(cells)]
  <2>1. then[t] \in Assignment /\ points \in [Pointers -> 0 .. Len(cells)]
    BY DEF OwnInv, OwnTypeOK
  <2>2. h \in Pointers
    BY <2>1, <1>0, <1>1 DEF Assignment, Nothing
  <2>3. QED BY <2>1, <2>2, <1>0, <1>1 DEF OwnInv, ThenInv, ThenOf
<1>3. /\ Keeps
      /\ \A c \in DOMAIN cells' : cells'[c].member \in 0 .. Len(cells')
      /\ \A c \in DOMAIN cells : cells'[c].refs = cells[c].refs + 0
      /\ \A c \in DOMAIN cells : cells'[c].member = cells[c].member
  BY <1>1, CellsKept
<1>4. Continues(t, h, Nothing)
  BY <1>0, <1>1, <1>3, NothingType, ContinueViews
<1>5. /\ points' \in [Pointers -> 0 .. Len(cells')] /\ points'[h] = q
      /\ \A f \in Pointers \ {h} : points'[f] = points[f]
      /\ \A f \in Pointers : Runner[f] # t => points'[f] = points[f]
  BY <1>1, <1>2
<1>6. ThenOf(t)'
  BY <1>4, IdleThen DEF Continues
<1>7. AccountInv'
  <2> SUFFICES ASSUME NEW c \in DOMAIN cells PROVE Account(c)'
    BY <1>1 DEF AccountInv
  <2>1. c # 0 /\ Moved(MembersOf(c), MembersOf(c)', 0)
    BY <1>1, <1>4, CellType, ContinueMembers
  <2>2. SameLets /\ class' = class
    BY <1>4 DEF Continues
  <2>3. /\ c = q => Moved(HoldersOf(c), HoldersOf(c)', 1) /\ Moved(PutsOf(c), PutsOf(c)', -1)
        /\ c # q => Moved(HoldersOf(c), HoldersOf(c)', 0) /\ Moved(PutsOf(c), PutsOf(c)', 0)
    BY <1>0, <1>1, <1>4, <1>5, ContinueHolders DEF Continues
  <2>4. /\ 0 \in {0, 1} /\ 0 # 1 /\ 0 + 0 + 0 = 0 /\ 1 + 0 + -1 = 0
        /\ cells'[c].refs = cells[c].refs + 0
    BY <1>3
  <2>5. CASE c = q
    BY <2>1, <2>2, <2>3, <2>4, <2>5, SameAccount
  <2>6. CASE c # q
    BY <2>1, <2>2, <2>3, <2>4, <2>6, SameAccount
  <2>7. QED BY <2>5, <2>6
<1>8. QED BY <1>3, <1>4, <1>5, <1>6, <1>7, ContinueInv

LEMMA RunCloneStep ==
    ASSUME OwnInv, NEW t \in Threads, RunClone(t)
    PROVE  OwnInv'
<1>0. PICK h, new : h = then[t].holder /\ new = Len(cells) + 1
  OBVIOUS
<1>1. /\ letting[t] = <<>> /\ then[t].do = "clone" /\ then[t] # Nothing
      /\ Continue(t, Nothing)
      /\ \/ points' = [points EXCEPT ![h] = 0] /\ cells' = cells
         \/ points' = [points EXCEPT ![h] = new] /\ cells' = Append(cells, NewCell(0))
  BY <1>0 DEF RunClone, Assigns, Nothing
<1>2. /\ h \in Pointers /\ Runner[h] = t /\ 0 \in 0 .. Len(cells) /\ Len(cells) \in Nat
      /\ points \in [Pointers -> 0 .. Len(cells)]
  <2>1. then[t] \in Assignment /\ points \in [Pointers -> 0 .. Len(cells)] /\ Len(cells) \in Nat
    BY DEF OwnInv, OwnTypeOK
  <2>2. h \in Pointers
    BY <2>1, <1>0, <1>1 DEF Assignment, Nothing
  <2>3. QED BY <2>1, <2>2, <1>0, <1>1 DEF OwnInv, ThenInv, ThenOf
<1>3. CASE points' = [points EXCEPT ![h] = 0] /\ cells' = cells
  <2>1. /\ Keeps
        /\ \A c \in DOMAIN cells' : cells'[c].member \in 0 .. Len(cells')
        /\ \A c \in DOMAIN cells : cells'[c].refs = cells[c].refs + 0
        /\ \A c \in DOMAIN cells : cells'[c].member = cells[c].member
    BY <1>3, CellsKept
  <2>2. Continues(t, h, Nothing)
    BY <1>0, <1>1, <2>1, NothingType, ContinueViews
  <2>3. /\ points' \in [Pointers -> 0 .. Len(cells')] /\ points'[h] = 0
        /\ \A f \in Pointers \ {h} : points'[f] = points[f]
        /\ \A f \in Pointers : Runner[f] # t => points'[f] = points[f]
    BY <1>2, <1>3
  <2>4. ThenOf(t)'
    BY <2>2, IdleThen DEF Continues
  <2>5. AccountInv'
    <3> SUFFICES ASSUME NEW c \in DOMAIN cells PROVE Account(c)'
      BY <1>3 DEF AccountInv
    <3>1. c # 0 /\ Moved(MembersOf(c), MembersOf(c)', 0)
      BY <1>3, <2>2, CellType, ContinueMembers
    <3>2. SameLets /\ class' = class /\ Moved(PutsOf(c), PutsOf(c)', 0)
      BY <1>1, <2>2 DEF Continues
    <3>3. Moved(HoldersOf(c), HoldersOf(c)', 0)
      BY <2>2, <2>3, <3>1, ContinueHolders
    <3>4. 0 \in {0, 1} /\ 0 # 1 /\ 0 + 0 + 0 = 0 /\ cells'[c].refs = cells[c].refs + 0
      BY <2>1
    <3>5. QED BY <3>1, <3>2, <3>3, <3>4, SameAccount
  <2>6. QED BY <2>1, <2>2, <2>3, <2>4, <2>5, ContinueInv
<1>4. CASE points' = [points EXCEPT ![h] = new] /\ cells' = Append(cells, NewCell(0))
  <2>1. /\ Grows /\ Keeps /\ Len(cells') = new /\ DOMAIN cells' = DOMAIN cells \cup {new}
        /\ new \notin DOMAIN cells
        /\ \A c \in DOMAIN cells : cells'[c] = cells[c]
        /\ cells'[new].member = 0
    BY <1>0, <1>2, <1>4, NewCellType
  <2>2. Continues(t, h, Nothing)
    BY <1>0, <1>1, <2>1, NothingType, ContinueViews
  <2>3. /\ points' \in [Pointers -> 0 .. Len(cells')] /\ points'[h] = new
        /\ \A f \in Pointers \ {h} : points'[f] = points[f]
        /\ \A f \in Pointers : Runner[f] # t => points'[f] = points[f]
    BY <1>0, <1>2, <1>4, <2>1
  <2>4. ThenOf(t)'
    BY <2>2, IdleThen DEF Continues
  <2>5. ASSUME NEW c, c # 0
        PROVE  /\ Moved(MembersOf(c), MembersOf(c)', 0) /\ Moved(PutsOf(c), PutsOf(c)', 0)
               /\ Moved(UnrefsOf(c), UnrefsOf(c)', 0)
               /\ c = new => Moved(HoldersOf(c), HoldersOf(c)', 1)
               /\ c # new => Moved(HoldersOf(c), HoldersOf(c)', 0)
    <3>1. Moved(MembersOf(c), MembersOf(c)', 0)
      BY <2>1, <2>2, <2>5, ContinueMembers
    <3>2. Moved(PutsOf(c), PutsOf(c)', 0) /\ Moved(UnrefsOf(c), UnrefsOf(c)', 0)
      BY <1>1, <2>2 DEF Continues, SameLets, Moved
    <3>3. /\ c = new => Moved(HoldersOf(c), HoldersOf(c)', 1)
          /\ c # new => Moved(HoldersOf(c), HoldersOf(c)', 0)
      BY <2>2, <2>3, ContinueHolders
    <3>4. QED BY <3>1, <3>2, <3>3
  <2>6. SameLets /\ class' = class
    BY <2>2 DEF Continues
  <2>7. AccountInv'
    <3>1. ASSUME NEW c \in DOMAIN cells PROVE Account(c)'
      <4>1. c # 0 /\ c # new
        BY <2>1, CellType
      <4>2. 0 \in {0, 1} /\ 0 # 1 /\ 0 + 0 + 0 = 0 /\ cells'[c].refs = cells[c].refs + 0
        BY <2>1, CellType
      <4>3. QED BY <4>1, <4>2, <2>5, <2>6, SameAccount
    <3>2. Account(new)'
      <4>1. new # 0 /\ new \in DOMAIN cells' \ DOMAIN cells /\ ~Doomed(new)'
        BY <1>0, <1>2, <2>1, <2>6 DEF SameLets
      <4>2. 1 + 0 + 0 + 0 = 1
        OBVIOUS
      <4>3. QED BY <4>1, <4>2, <2>1, <2>5, <2>6, NewAccount
    <3>3. QED BY <3>1, <3>2, <2>1 DEF AccountInv
  <2>8. \A c \in DOMAIN cells' : cells'[c].member \in 0 .. Len(cells')
    BY <2>1 DEF Grows
  <2>9. QED BY <2>1, <2>2, <2>3, <2>4, <2>7, <2>8, ContinueInv
<1>5. QED BY <1>1, <1>3, <1>4
-----------------------------------------------------------------------------
(***************************************************************************)
(* Letting go                                                              *)
(***************************************************************************)
Adds(steps, j, c) == j \in DOMAIN steps /\ steps[j].do # "unref" /\ steps[j].cell = c

\* t's first step has become the steps given; the others have moved up.
Advanced(t, steps) ==
    /\ letting' \in [Threads -> Seq(LettingStep)]
    /\ class' = class /\ then' = then
    /\ \A v \in Threads \ {t} : letting'[v] = letting[v]
    /\ 1 \in DOMAIN letting[t] /\ Top(t) = letting[t][1]
    /\ \A j \in DOMAIN steps : j \in DOMAIN letting'[t] /\ letting'[t][j] = steps[j]
    /\ \A i \in DOMAIN letting[t] : i > 1 =>
           /\ i - 1 + Len(steps) \in DOMAIN letting'[t]
           /\ letting'[t][i - 1 + Len(steps)] = letting[t][i]
    /\ \A j \in DOMAIN letting'[t] : j \notin DOMAIN steps =>
           /\ j - Len(steps) + 1 \in DOMAIN letting[t] /\ j - Len(steps) + 1 > 1
           /\ letting'[t][j] = letting[t][j - Len(steps) + 1]

LEMMA ReplaceMoves ==
    ASSUME OwnInv, NEW t \in Threads, letting[t] # <<>>, NEW steps \in Seq(LettingStep),
           Replace(t, steps)
    PROVE  Advanced(t, steps)
<1>0. PICK s, rest : s = letting[t] /\ rest = Tail(s)
  OBVIOUS
<1>1. /\ letting \in [Threads -> Seq(LettingStep)] /\ s \in Seq(LettingStep) /\ s # <<>>
      /\ letting' = [letting EXCEPT ![t] = steps \o rest]
      /\ class' = class /\ then' = then
  BY <1>0 DEF OwnInv, OwnTypeOK, Replace
<1> HIDE DEF LettingStep
<1>2. PICK n, k : n = Len(steps) /\ k = Len(rest)
  OBVIOUS
<1>3. /\ rest \in Seq(LettingStep) /\ k \in Nat /\ Len(s) = k + 1 /\ n \in Nat
      /\ \A i \in 1 .. k : rest[i] = s[i + 1]
      /\ Head(s) = s[1]
  BY <1>0, <1>1, <1>2
<1>4. PICK new : new = steps \o rest
  OBVIOUS
<1>5. /\ new \in Seq(LettingStep) /\ Len(new) = n + k
      /\ \A i \in 1 .. n + k : new[i] = IF i <= n THEN steps[i] ELSE rest[i - n]
  BY <1>2, <1>3, <1>4, ConcatProperties
<1>6. /\ letting'[t] = new /\ \A v \in Threads \ {t} : letting'[v] = letting[v]
      /\ letting' \in [Threads -> Seq(LettingStep)]
  BY <1>1, <1>4, <1>5
<1>7. DOMAIN new = 1 .. n + k /\ DOMAIN s = 1 .. k + 1 /\ DOMAIN steps = 1 .. n
  BY <1>1, <1>2, <1>3, <1>5
<1>8. \A j \in DOMAIN steps : j \in DOMAIN new /\ new[j] = steps[j]
  BY <1>3, <1>5, <1>7
<1>9. \A i \in DOMAIN s : i > 1 => i - 1 + n \in DOMAIN new /\ new[i - 1 + n] = s[i]
  <2> SUFFICES ASSUME NEW i \in 2 .. k + 1
               PROVE  i - 1 + n \in DOMAIN new /\ new[i - 1 + n] = s[i]
    BY <1>3, <1>7
  <2>1. /\ i - 1 + n \in 1 .. n + k /\ ~(i - 1 + n <= n)
        /\ i - 1 + n - n = i - 1 /\ i - 1 \in 1 .. k /\ i - 1 + 1 = i
    BY <1>3
  <2>2. new[i - 1 + n] = rest[i - 1] /\ rest[i - 1] = s[i]
    BY <2>1, <1>3, <1>5
  <2>3. QED BY <2>1, <2>2, <1>7
<1>10. \A j \in DOMAIN new : j \notin DOMAIN steps =>
         j - n + 1 \in DOMAIN s /\ j - n + 1 > 1 /\ new[j] = s[j - n + 1]
  <2> SUFFICES ASSUME NEW j \in n + 1 .. n + k
               PROVE  j - n + 1 \in DOMAIN s /\ j - n + 1 > 1 /\ new[j] = s[j - n + 1]
    BY <1>3, <1>7
  <2>1. /\ j - n \in 1 .. k /\ ~(j <= n) /\ j \in 1 .. n + k
        /\ j - n + 1 \in 1 .. k + 1 /\ j - n + 1 > 1
    BY <1>3
  <2>2. new[j] = rest[j - n] /\ rest[j - n] = s[j - n + 1]
    BY <2>1, <1>3, <1>5
  <2>3. QED BY <2>1, <2>2, <1>7
<1>11. 1 \in DOMAIN s /\ Head(s) = s[1]
  BY <1>3, <1>7
<1>12. QED BY <1>0, <1>1, <1>2, <1>6, <1>8, <1>9, <1>10, <1>11 DEF Advanced, Top

\* The steps that are new are the only ones for the objects they delete.
Fresh(t, steps) ==
    /\ \A j \in DOMAIN steps :
        /\ steps[j].cell \in DOMAIN cells
        /\ j > 1 => steps[j].do = "free"
        /\ steps[j].do = "unref" => Counted
    /\ \A c : \A j, k : Adds(steps, j, c) /\ Adds(steps, k, c) => j = k
    /\ \A c : \A j : Adds(steps, j, c) =>
           ~cells'[c].freed /\ \A v \in Threads : \A i : Killing(v, i, c) => v = t /\ i = 1
    /\ DOMAIN cells' = DOMAIN cells
    /\ \A c \in DOMAIN cells : cells'[c].freed <=> cells[c].freed \/ (Killing(t, 1, c) /\ Top(t).do = "free")

ReplacedLets(t, steps) ==
    /\ LettingInv' /\ KillInv'
    /\ \A c \in DOMAIN cells :
        /\ Freeing(c)' <=> \/ \E j \in DOMAIN steps : steps[j].do = "free" /\ steps[j].cell = c
                           \/ Freeing(c) /\ ~Killing(t, 1, c)
        /\ Doomed(c)' <=> \/ cells'[c].freed
                          \/ \E j : Adds(steps, j, c)
                          \/ Doomed(c) /\ ~Killing(t, 1, c)
        /\ \A v \in Threads \ {t} : v \in UnrefsOf(c)' <=> v \in UnrefsOf(c)
        /\ t \in UnrefsOf(c)' <=> 1 \in DOMAIN steps /\ steps[1].do = "unref" /\ steps[1].cell = c
        /\ t \in UnrefsOf(c) <=> Top(t).do = "unref" /\ Top(t).cell = c

LEMMA ReplaceLets ==
    ASSUME OwnInv, NEW t \in Threads, letting[t] # <<>>, NEW steps \in Seq(LettingStep),
           Advanced(t, steps), Fresh(t, steps)
    PROVE  ReplacedLets(t, steps)
<1>0. PICK n : n = Len(steps)
  OBVIOUS
<1>1. n \in Nat /\ DOMAIN steps = 1 .. n
  BY <1>0
<1>2. /\ \A v \in Threads \ {t} : letting'[v] = letting[v]
      /\ \A j \in DOMAIN steps : j \in DOMAIN letting'[t] /\ letting'[t][j] = steps[j]
      /\ \A i \in DOMAIN letting[t] : i > 1 =>
           i - 1 + n \in DOMAIN letting'[t] /\ letting'[t][i - 1 + n] = letting[t][i]
      /\ \A j \in DOMAIN letting'[t] : j \notin DOMAIN steps =>
           /\ j - n + 1 \in DOMAIN letting[t] /\ j - n + 1 > 1
           /\ letting'[t][j] = letting[t][j - n + 1]
      /\ 1 \in DOMAIN letting[t] /\ Top(t) = letting[t][1]
  BY <1>0 DEF Advanced
<1>3. /\ DOMAIN letting[t] = 1 .. Len(letting[t]) /\ Len(letting[t]) \in Nat
      /\ letting'[t] \in Seq(LettingStep)
      /\ DOMAIN letting'[t] = 1 .. Len(letting'[t]) /\ Len(letting'[t]) \in Nat
  <2>1. letting[t] \in Seq(LettingStep) /\ letting'[t] \in Seq(LettingStep)
    BY DEF OwnInv, OwnTypeOK, Advanced
  <2> HIDE DEF LettingStep
  <2>2. QED BY <2>1
<1>4. \A i \in DOMAIN letting[t] : i > 1 => letting[t][i].do = "free"
  BY DEF OwnInv, LettingInv
<1>5. \A v \in Threads \ {t} : \A i : \A c : Killing(v, i, c)' <=> Killing(v, i, c)
  BY <1>2 DEF Killing
<1>6. \A j : \A c : j \in DOMAIN steps => (Killing(t, j, c)' <=> Adds(steps, j, c))
  BY <1>2 DEF Killing, Adds
<1>7. \A j : \A c : j \notin DOMAIN steps =>
        (Killing(t, j, c)' => Killing(t, j - n + 1, c) /\ j - n + 1 > 1 /\ j \in DOMAIN letting'[t])
  BY <1>2 DEF Killing
<1>8. \A i : \A c : i > 1 /\ Killing(t, i, c) => Killing(t, i - 1 + n, c)' /\ i - 1 + n \notin DOMAIN steps
  <2> SUFFICES ASSUME NEW i, NEW c, i > 1, Killing(t, i, c)
               PROVE  Killing(t, i - 1 + n, c)' /\ i - 1 + n \notin DOMAIN steps
    OBVIOUS
  <2>1. i \in DOMAIN letting[t] /\ i \in Nat
    BY <1>3 DEF Killing
  <2>2. QED BY <2>1, <1>1, <1>2 DEF Killing
<1>9. \A v \in Threads : \A i : \A c :
        Killing(v, i, c) => i \in DOMAIN letting[v] /\ c \in DOMAIN cells
  BY DEF Killing, OwnInv, LettingInv
<1>10. \A c : \A u, v \in Threads : \A i, j :
         Killing(v, i, c) => ~cells[c].freed /\ (Killing(u, j, c) => v = u /\ i = j)
  BY <1>9 DEF OwnInv, KillInv
<1>11. \A v \in Threads : \A i : \A c :
         Killing(v, i, c)' => \/ v = t /\ Adds(steps, i, c)
                              \/ /\ ~(v = t /\ i \in DOMAIN steps)
                                 /\ \E k : Killing(v, k, c) /\ ~(v = t /\ k = 1)
  <2> SUFFICES ASSUME NEW v \in Threads, NEW i, NEW c, Killing(v, i, c)', ~(v = t /\ Adds(steps, i, c))
               PROVE  /\ ~(v = t /\ i \in DOMAIN steps)
                      /\ \E k : Killing(v, k, c) /\ ~(v = t /\ k = 1)
    OBVIOUS
  <2>1. CASE v # t
    BY <2>1, <1>5
  <2>2. CASE v = t
    <3>1. i \notin DOMAIN steps
      BY <2>2, <1>6
    <3>2. Killing(t, i - n + 1, c) /\ i - n + 1 > 1
      BY <2>2, <3>1, <1>7
    <3>3. i - n + 1 # 1
      <4>1. i \in Nat
        BY <2>2, <3>1, <1>3, <1>7
      <4>2. QED BY <4>1, <3>2, <1>1
    <3>4. QED BY <2>2, <3>1, <3>2, <3>3
  <2>3. QED BY <2>1, <2>2
<1>12. LettingInv'
  <2> SUFFICES ASSUME NEW v \in Threads
               PROVE  /\ letting'[v] # <<>> => then'[v] # Nothing
                      /\ \A i \in DOMAIN letting'[v] :
                           /\ letting'[v][i].cell \in DOMAIN cells'
                           /\ i > 1 => letting'[v][i].do = "free"
                           /\ letting'[v][i].do = "unref" => Counted
    BY DEF LettingInv, Counted, Nothing, Advanced
  <2>1. then'[v] = then[v] /\ DOMAIN cells' = DOMAIN cells
    BY DEF Advanced, Fresh
  <2>2. CASE v # t
    BY <2>1, <2>2, <1>2 DEF OwnInv, LettingInv
  <2>3. CASE v = t
    <3>1. then'[v] # Nothing
      BY <2>1, <2>3 DEF OwnInv, LettingInv
    <3>2. SUFFICES ASSUME NEW i \in DOMAIN letting'[t]
                   PROVE  /\ letting'[t][i].cell \in DOMAIN cells
                          /\ i > 1 => letting'[t][i].do = "free"
                          /\ letting'[t][i].do = "unref" => Counted
      BY <2>1, <2>3, <3>1
    <3>3. CASE i \in DOMAIN steps
      BY <3>3, <1>2 DEF Fresh
    <3>4. CASE i \notin DOMAIN steps
      <4>1. PICK k \in DOMAIN letting[t] : k > 1 /\ letting'[t][i] = letting[t][k]
        BY <3>4, <1>2
      <4>2. QED BY <4>1, <1>4 DEF OwnInv, LettingInv
    <3>5. QED BY <3>3, <3>4
  <2>4. QED BY <2>2, <2>3
<1>13. KillInv'
  <2> SUFFICES ASSUME NEW c \in DOMAIN cells', NEW v \in Threads, NEW u \in Threads, NEW i, NEW j,
                      Killing(v, i, c)'
               PROVE  ~cells'[c].freed /\ (Killing(u, j, c)' => v = u /\ i = j)
    BY DEF KillInv
  <2>0. c \in DOMAIN cells
    BY DEF Fresh
  <2>1. CASE v = t /\ Adds(steps, i, c)
    <3>1. ~cells'[c].freed /\ \A w \in Threads : \A k : Killing(w, k, c) => w = t /\ k = 1
      BY <2>1 DEF Fresh
    <3>2. ASSUME Killing(u, j, c)' PROVE v = u /\ i = j
      <4>1. u = t /\ Adds(steps, j, c)
        BY <3>1, <3>2, <1>11
      <4>2. QED BY <2>1, <4>1 DEF Fresh
    <3>3. QED BY <3>1, <3>2
  <2>2. CASE ~(v = t /\ Adds(steps, i, c))
    <3>1. PICK k : Killing(v, k, c) /\ ~(v = t /\ k = 1) /\ ~(v = t /\ i \in DOMAIN steps)
      BY <2>2, <1>11
    <3>2. ~cells[c].freed /\ ~Killing(t, 1, c) /\ \A w \in Threads : \A m : Killing(w, m, c) => w = v /\ m = k
      BY <3>1, <1>10
    <3>3. ~cells'[c].freed
      BY <2>0, <3>2 DEF Fresh
    <3>4. ASSUME Killing(u, j, c)' PROVE v = u /\ i = j
      <4>1. ~Adds(steps, j, c)
        BY <3>1 DEF Fresh
      <4>2. PICK l : Killing(u, l, c) /\ ~(u = t /\ l = 1) /\ ~(u = t /\ j \in DOMAIN steps)
        BY <3>4, <4>1, <1>11
      <4>3. u = v /\ l = k
        BY <3>2, <4>2
      <4>4. CASE v # t
        BY <4>3, <4>4, <3>4, <3>2, <1>5
      <4>5. CASE v = t
        <5>1. i \notin DOMAIN steps /\ j \notin DOMAIN steps
          BY <4>2, <4>3, <4>5, <3>1
        <5>2. /\ Killing(t, i - n + 1, c) /\ Killing(t, j - n + 1, c)
              /\ i \in DOMAIN letting'[t] /\ j \in DOMAIN letting'[t]
          BY <4>3, <4>5, <5>1, <3>4, <1>7
        <5>3. i - n + 1 = j - n + 1 /\ i \in Nat /\ j \in Nat
          BY <5>2, <3>2, <1>3
        <5>4. QED BY <5>3, <4>3, <1>1
      <4>6. QED BY <4>4, <4>5
    <3>5. QED BY <3>3, <3>4
  <2>3. QED BY <2>1, <2>2
<1>14. ASSUME NEW c \in DOMAIN cells
       PROVE  Freeing(c)' <=> \/ \E j \in DOMAIN steps : steps[j].do = "free" /\ steps[j].cell = c
                              \/ Freeing(c) /\ ~Killing(t, 1, c)
  <2>1. ASSUME Freeing(c)', ~\E j \in DOMAIN steps : steps[j].do = "free" /\ steps[j].cell = c
        PROVE  Freeing(c) /\ ~Killing(t, 1, c)
    <3>1. PICK v \in Threads : \E i \in DOMAIN letting'[v] : letting'[v][i].do = "free" /\ letting'[v][i].cell = c
      BY <2>1 DEF Freeing
    <3>2. PICK i \in DOMAIN letting'[v] : letting'[v][i].do = "free" /\ letting'[v][i].cell = c
      BY <3>1
    <3>3. CASE v # t
      <4>1. i \in DOMAIN letting[v] /\ letting[v][i].do = "free" /\ letting[v][i].cell = c
        BY <3>2, <3>3, <1>2
      <4>2. Killing(v, i, c) /\ Freeing(c)
        BY <4>1 DEF Killing, Freeing
      <4>3. QED BY <4>2, <3>3, <1>10
    <3>4. CASE v = t
      <4>1. i \notin DOMAIN steps
        BY <2>1, <3>2, <3>4, <1>2
      <4>2. PICK k \in DOMAIN letting[t] : k > 1 /\ letting'[t][i] = letting[t][k]
        BY <3>4, <4>1, <1>2
      <4>3. Killing(t, k, c) /\ Freeing(c) /\ k # 1
        BY <3>2, <3>4, <4>2, <1>3 DEF Killing, Freeing
      <4>4. QED BY <4>3, <1>10
    <3>5. QED BY <3>3, <3>4
  <2>2. ASSUME NEW j \in DOMAIN steps, steps[j].do = "free", steps[j].cell = c PROVE Freeing(c)'
    BY <2>2, <1>2 DEF Freeing
  <2>3. ASSUME Freeing(c), ~Killing(t, 1, c) PROVE Freeing(c)'
    <3>1. PICK v \in Threads : \E i \in DOMAIN letting[v] : letting[v][i].do = "free" /\ letting[v][i].cell = c
      BY <2>3 DEF Freeing
    <3>2. PICK i \in DOMAIN letting[v] : letting[v][i].do = "free" /\ letting[v][i].cell = c
      BY <3>1
    <3>3. CASE v # t
      BY <3>2, <3>3, <1>2 DEF Freeing
    <3>4. CASE v = t
      <4>1. i > 1
        BY <2>3, <3>2, <3>4, <1>3 DEF Killing
      <4>2. QED BY <3>2, <3>4, <4>1, <1>2 DEF Freeing
    <3>5. QED BY <3>3, <3>4
  <2>4. QED BY <2>1, <2>2, <2>3
<1>15. ASSUME NEW c \in DOMAIN cells
       PROVE  Doomed(c)' <=> \/ cells'[c].freed
                             \/ \E j : Adds(steps, j, c)
                             \/ Doomed(c) /\ ~Killing(t, 1, c)
  <2>1. ASSUME Doomed(c)', ~cells'[c].freed, ~\E j : Adds(steps, j, c)
        PROVE  Doomed(c) /\ ~Killing(t, 1, c)
    <3>1. PICK v \in Threads : \E i \in DOMAIN letting'[v] : Killing(v, i, c)'
      BY <2>1 DEF Doomed
    <3>2. PICK k : Killing(v, k, c) /\ ~(v = t /\ k = 1)
      BY <2>1, <3>1, <1>11
    <3>3. Doomed(c)
      BY <3>2, <1>9 DEF Doomed
    <3>4. QED BY <3>2, <3>3, <1>10
  <2>2. ASSUME NEW j, Adds(steps, j, c) PROVE Doomed(c)'
    <3>1. j \in DOMAIN letting'[t] /\ Killing(t, j, c)'
      BY <2>2, <1>2, <1>6 DEF Adds
    <3>2. QED BY <3>1 DEF Doomed
  <2>3. ASSUME Doomed(c), ~Killing(t, 1, c) PROVE Doomed(c)'
    <3>1. CASE cells[c].freed
      BY <3>1 DEF Doomed, Fresh
    <3>2. CASE ~cells[c].freed
      <4>1. PICK v \in Threads : \E i \in DOMAIN letting[v] : Killing(v, i, c)
        BY <2>3, <3>2 DEF Doomed
      <4>2. PICK i \in DOMAIN letting[v] : Killing(v, i, c)
        BY <4>1
      <4>3. CASE v # t
        BY <4>2, <4>3, <1>2, <1>5 DEF Doomed
      <4>4. CASE v = t
        <5>1. i > 1
          BY <2>3, <4>2, <4>4, <1>3
        <5>2. Killing(t, i - 1 + n, c)' /\ i - 1 + n \in DOMAIN letting'[t]
          BY <4>2, <4>4, <5>1, <1>2, <1>8
        <5>3. QED BY <5>2 DEF Doomed
      <4>5. QED BY <4>3, <4>4
    <3>3. QED BY <3>1, <3>2
  <2>4. QED BY <2>1, <2>2, <2>3 DEF Doomed
<1>16. ASSUME NEW c \in DOMAIN cells
       PROVE  /\ \A v \in Threads \ {t} : v \in UnrefsOf(c)' <=> v \in UnrefsOf(c)
              /\ t \in UnrefsOf(c)' <=> 1 \in DOMAIN steps /\ steps[1].do = "unref" /\ steps[1].cell = c
              /\ t \in UnrefsOf(c) <=> Top(t).do = "unref" /\ Top(t).cell = c
  <2>1. \A v \in Threads \ {t} : v \in UnrefsOf(c)' <=> v \in UnrefsOf(c)
    BY <1>2 DEF UnrefsOf, Lets, Top
  <2>2. t \in UnrefsOf(c) <=> Top(t).do = "unref" /\ Top(t).cell = c
    BY DEF UnrefsOf, Lets
  <2>3. letting'[t] # <<>> => 1 \in DOMAIN letting'[t] /\ Head(letting'[t]) = letting'[t][1]
    BY <1>3
  <2>4. ASSUME 1 \in DOMAIN letting'[t], 1 \notin DOMAIN steps PROVE letting'[t][1].do = "free"
    <3>1. PICK k \in DOMAIN letting[t] : k > 1 /\ letting'[t][1] = letting[t][k]
      BY <2>4, <1>2
    <3>2. QED BY <3>1, <1>4
  <2>5. 1 \in DOMAIN steps => letting'[t] # <<>> /\ letting'[t][1] = steps[1]
    BY <1>2
  <2>6. t \in UnrefsOf(c)' <=> letting'[t] # <<>> /\ letting'[t][1].do = "unref" /\ letting'[t][1].cell = c
    BY <2>3 DEF UnrefsOf, Lets, Top
  <2>7. QED BY <2>1, <2>2, <2>3, <2>4, <2>5, <2>6
<1>17. QED BY <1>12, <1>13, <1>14, <1>15, <1>16 DEF ReplacedLets
\* Holders, assignments and the number of objects stay what they are.
LEMMA ReplaceInv ==
    ASSUME OwnInv, NEW t \in Threads, letting[t] # <<>>, NEW steps,
           Advanced(t, steps), ReplacedLets(t, steps), points' = points,
           cells' \in Seq(Cell), Len(cells') = Len(cells),
           \A c \in DOMAIN cells' : cells'[c].member \in 0 .. Len(cells'),
           AccountInv'
    PROVE  OwnInv'
<1>1. OwnTypeOK'
  BY DEF OwnInv, OwnTypeOK, Advanced
<1>2. ThenInv'
  <2> SUFFICES ASSUME NEW v \in Threads PROVE ThenOf(v)'
    BY DEF ThenInv
  <2>1. ThenOf(v) /\ then'[v] = then[v] /\ class' = class
    BY DEF OwnInv, ThenInv, Advanced
  <2>2. then[v].do = "ref" => letting'[v] = letting[v]
    BY <2>1 DEF ThenOf, Advanced
  <2>3. QED BY <2>1, <2>2 DEF ThenOf, Counted
<1>3. QED BY <1>1, <1>2 DEF OwnInv, ReplacedLets

\* Whether t counts an object down next, before and after the step.
UnrefsNow(t, c) == Top(t).do = "unref" /\ Top(t).cell = c
UnrefsNext(steps, c) == 1 \in DOMAIN steps /\ steps[1].do = "unref" /\ steps[1].cell = c

LEMMA ReplaceViews ==
    ASSUME OwnInv, NEW t \in Threads, letting[t] # <<>>, NEW steps,
           Advanced(t, steps), ReplacedLets(t, steps), points' = points,
           NEW c \in DOMAIN cells
    PROVE  /\ Moved(HoldersOf(c), HoldersOf(c)', 0) /\ Moved(PutsOf(c), PutsOf(c)', 0)
           /\ ~UnrefsNow(t, c) /\ ~UnrefsNext(steps, c) => Moved(UnrefsOf(c), UnrefsOf(c)', 0)
           /\ UnrefsNow(t, c) /\ ~UnrefsNext(steps, c) => Moved(UnrefsOf(c), UnrefsOf(c)', -1)
           /\ ~UnrefsNow(t, c) /\ UnrefsNext(steps, c) => Moved(UnrefsOf(c), UnrefsOf(c)', 1)
<1>1. HoldersOf(c)' = HoldersOf(c) /\ PutsOf(c)' = PutsOf(c)
  BY DEF HoldersOf, PutsOf, Settled, Advanced
<1>2. /\ \A v \in Threads \ {t} : v \in UnrefsOf(c)' <=> v \in UnrefsOf(c)
      /\ t \in UnrefsOf(c)' <=> UnrefsNext(steps, c)
      /\ t \in UnrefsOf(c) <=> UnrefsNow(t, c)
  BY DEF ReplacedLets, UnrefsNow, UnrefsNext
<1>3. UnrefsOf(c) \subseteq Threads /\ UnrefsOf(c)' \subseteq Threads
  BY DEF UnrefsOf
<1> HIDE DEF UnrefsOf, UnrefsNow, UnrefsNext
<1>4. ASSUME ~UnrefsNow(t, c), ~UnrefsNext(steps, c) PROVE UnrefsOf(c)' = UnrefsOf(c)
  <2>1. \A v : v \in UnrefsOf(c)' <=> v \in UnrefsOf(c)
    BY <1>2, <1>3, <1>4
  <2>2. QED BY <2>1
<1>5. UnrefsNow(t, c) /\ ~UnrefsNext(steps, c) => UnrefsOf(c)' = UnrefsOf(c) \ {t}
  BY <1>2, <1>3
<1>6. ~UnrefsNow(t, c) /\ UnrefsNext(steps, c) => UnrefsOf(c)' = UnrefsOf(c) \cup {t}
  BY <1>2, <1>3
<1>7. QED BY <1>1, <1>2, <1>4, <1>5, <1>6 DEF Moved

\* What t's first step is about.
LEMMA TopType ==
    ASSUME OwnInv, NEW t \in Threads, letting[t] # <<>>
    PROVE  /\ 1 \in DOMAIN letting[t] /\ Top(t) = letting[t][1] /\ Top(t).cell \in DOMAIN cells
           /\ Top(t).do \in {"unref", "delete", "free"}
           /\ Top(t).do = "unref" => Counted
<1>1. letting[t] \in Seq(LettingStep)
  BY DEF OwnInv, OwnTypeOK
<1>2. 1 \in DOMAIN letting[t] /\ Top(t) = letting[t][1] /\ letting[t][1] \in LettingStep
  <2> HIDE DEF LettingStep
  <2>1. QED BY <1>1 DEF Top
<1>3. QED BY <1>2 DEF LettingStep, OwnInv, LettingInv

\* A claimed object is not being deleted.
LEMMA ClaimedLives ==
    ASSUME OwnInv, NEW c \in DOMAIN cells,
           UnrefsOf(c) # {} \/ MembersOf(c) # {} \/ HoldersOf(c) # {} \/ PutsOf(c) # {}
    PROVE  ~Doomed(c)
<1>1. Claims(c) > 0 /\ Claims(c) \in Nat
  BY Counts DEF OwnInv, AccountInv, Account
<1>2. QED BY <1>1 DEF OwnInv, AccountInv, Account

LEMMA CellUpdate ==
    ASSUME OwnInv, NEW p \in DOMAIN cells, NEW cell \in Cell, cells' = [cells EXCEPT ![p] = cell]
    PROVE  /\ cells' \in Seq(Cell) /\ Len(cells') = Len(cells) /\ DOMAIN cells' = DOMAIN cells
           /\ \A c \in DOMAIN cells : c # p => cells'[c] = cells[c]
           /\ cells'[p] = cell
<1>1. cells \in Seq(Cell) /\ p \in 1 .. Len(cells) /\ DOMAIN cells = 1 .. Len(cells) /\ Len(cells) \in Nat
  BY DEF OwnInv, OwnTypeOK
<1> HIDE DEF Cell
<1>2. /\ cells' \in Seq(Cell) /\ Len(cells') = Len(cells)
      /\ \A c \in 1 .. Len(cells) : cells'[c] = IF c = p THEN cell ELSE cells[c]
  BY <1>1, ExceptSeq
<1>3. QED BY <1>1, <1>2

LEMMA FreeStep ==
    ASSUME OwnInv, NEW t \in Threads, Free(t)
    PROVE  OwnInv'
<1>0. PICK d, cell : d = Top(t).cell /\ cell = [cells[d] EXCEPT !.freed = TRUE, !.member = 0]
  OBVIOUS
<1>1. /\ letting[t] # <<>> /\ Top(t).do = "free" /\ points' = points
      /\ cells' = [cells EXCEPT ![d].freed = TRUE, ![d].member = 0]
      /\ Replace(t, <<>>)
  BY <1>0 DEF Free, Lets
<1>2. d \in DOMAIN cells /\ 1 \in DOMAIN letting[t] /\ Top(t) = letting[t][1]
  BY <1>0, <1>1, TopType
<1>3. cells[d] \in Cell /\ cell \in Cell
  BY <1>0, <1>2, CellType DEF Cell
<1>4. /\ cells' \in Seq(Cell) /\ Len(cells') = Len(cells) /\ DOMAIN cells' = DOMAIN cells
      /\ \A c \in DOMAIN cells : c # d => cells'[c] = cells[c]
      /\ cells'[d] = cell
  <2>1. cells' = [cells EXCEPT ![d] = cell]
    <3>1. cells \in Seq(Cell)
      BY DEF OwnInv, OwnTypeOK
    <3>2. QED BY <3>1, <1>0, <1>1, <1>2, <1>3 DEF Cell
  <2>2. QED BY <2>1, <1>2, <1>3, CellUpdate
<1>5. cell.freed /\ cell.member = 0 /\ cell.refs = cells[d].refs
  BY <1>0, <1>3 DEF Cell
<1>6. <<>> \in Seq(LettingStep) /\ DOMAIN <<>> = {}
  OBVIOUS
<1>7. Advanced(t, <<>>)
  BY <1>1, <1>6, ReplaceMoves
<1>8. Killing(t, 1, d) /\ Freeing(d) /\ \A c : Killing(t, 1, c) => c = d
  BY <1>0, <1>1, <1>2 DEF Killing, Freeing
<1>9. Fresh(t, <<>>)
  <2>1. \A c \in DOMAIN cells : cells'[c].freed <=> cells[c].freed \/ c = d
    BY <1>4, <1>5
  <2>2. QED BY <2>1, <1>1, <1>4, <1>6, <1>8 DEF Fresh, Adds
<1>10. ReplacedLets(t, <<>>)
  BY <1>1, <1>6, <1>7, <1>9, ReplaceLets
<1>11. AccountInv'
  <2> SUFFICES ASSUME NEW c \in DOMAIN cells PROVE Account(c)'
    BY <1>4 DEF AccountInv
  <2>1. ~UnrefsNow(t, c) /\ ~UnrefsNext(<<>>, c)
    BY <1>1, <1>6 DEF UnrefsNow, UnrefsNext
  <2>2. /\ Moved(HoldersOf(c), HoldersOf(c)', 0) /\ Moved(PutsOf(c), PutsOf(c)', 0)
        /\ Moved(UnrefsOf(c), UnrefsOf(c)', 0)
    BY <2>1, <1>1, <1>7, <1>10, ReplaceViews
  <2>3. \A e \in DOMAIN cells : e # d => (Freeing(e)' <=> Freeing(e))
    BY <1>6, <1>8, <1>10 DEF ReplacedLets
  <2>4. MembersOf(c)' = MembersOf(c)
    <3>1. c # 0
      BY CellType
    <3>2. QED BY <3>1, <2>3, <1>4, <1>5, <1>8 DEF MembersOf
  <2>5. Account(c) /\ Finite(c) /\ 0 + 0 + 0 + 0 = 0
    BY DEF OwnInv, AccountInv, Account
  <2>6. Moved(MembersOf(c), MembersOf(c)', 0)
    BY <2>4 DEF Moved
  <2>7. Finite(c)' /\ Claims(c) \in Nat /\ Claims(c)' = Claims(c) + 0 + 0 + 0 + 0
    BY <2>2, <2>5, <2>6, Balance
  <2>8. cells'[c].refs = cells[c].refs
    BY <1>4, <1>5
  <2>9. Doomed(c)' <=> Doomed(c)
    <3>1. CASE c = d
      <4>1. Doomed(c)
        BY <3>1, <1>2, <1>8 DEF Doomed
      <4>2. Doomed(c)'
        BY <3>1, <1>4, <1>5, <1>10 DEF ReplacedLets
      <4>3. QED BY <4>1, <4>2
    <3>2. CASE c # d
      <4>1. ~Killing(t, 1, c) /\ cells'[c].freed = cells[c].freed /\ \A j : ~Adds(<<>>, j, c)
        BY <3>2, <1>4, <1>6, <1>8 DEF Adds
      <4>2. cells[c].freed => Doomed(c)
        BY DEF Doomed
      <4>3. Doomed(c)' <=> cells'[c].freed \/ (\E j : Adds(<<>>, j, c)) \/ (Doomed(c) /\ ~Killing(t, 1, c))
        BY <1>10 DEF ReplacedLets
      <4>4. QED BY <4>1, <4>2, <4>3
    <3>3. QED BY <3>1, <3>2
  <2>10. Counted' = Counted /\ class' = class
    BY <1>7 DEF Advanced, Counted
  <2>11. QED BY <2>5, <2>7, <2>8, <2>9, <2>10 DEF Account
<1>12. \A c \in DOMAIN cells' : cells'[c].member \in 0 .. Len(cells')
  <2>1. \A c \in DOMAIN cells : cells[c].member \in 0 .. Len(cells) /\ Len(cells) \in Nat
    BY CellType
  <2>2. QED BY <2>1, <1>2, <1>4, <1>5
<1>13. QED BY <1>1, <1>4, <1>7, <1>10, <1>11, <1>12, ReplaceInv

LEMMA UnrefStep ==
    ASSUME OwnInv, NEW t \in Threads, Unref(t)
    PROVE  OwnInv'
<1>0. PICK p, left, steps, cell :
        /\ p = Top(t).cell /\ left = cells[p].refs - 1
        /\ steps = IF left = 0 THEN <<[do |-> "delete", cell |-> p]>> ELSE <<>>
        /\ cell = [cells[p] EXCEPT !.refs = left]
  OBVIOUS
<1>1. /\ letting[t] # <<>> /\ Top(t).do = "unref" /\ points' = points
      /\ cells' = [cells EXCEPT ![p].refs = left]
      /\ Replace(t, steps)
  BY <1>0 DEF Unref, Lets
<1>2. p \in DOMAIN cells /\ p \in Nat /\ Counted /\ 1 \in DOMAIN letting[t] /\ Top(t) = letting[t][1]
  BY <1>0, <1>1, TopType, CellType
<1>3. cells[p] \in Cell /\ cells[p].refs \in Int /\ cell \in Cell
  BY <1>0, <1>2, CellType DEF Cell
<1>4. /\ cells' \in Seq(Cell) /\ Len(cells') = Len(cells) /\ DOMAIN cells' = DOMAIN cells
      /\ \A c \in DOMAIN cells : c # p => cells'[c] = cells[c]
      /\ cells'[p] = cell
  <2>1. cells' = [cells EXCEPT ![p] = cell]
    <3>1. cells \in Seq(Cell)
      BY DEF OwnInv, OwnTypeOK
    <3>2. QED BY <3>1, <1>0, <1>1, <1>2, <1>3 DEF Cell
  <2>2. QED BY <2>1, <1>2, <1>3, CellUpdate
<1>5. cell.freed = cells[p].freed /\ cell.member = cells[p].member /\ cell.refs = left
  BY <1>0, <1>3 DEF Cell
<1>6. /\ steps \in Seq(LettingStep)
      /\ left # 0 => DOMAIN steps = {}
      /\ left = 0 => DOMAIN steps = {1} /\ steps[1] = [do |-> "delete", cell |-> p]
  <2>1. [do |-> "delete", cell |-> p] \in LettingStep
    BY <1>2 DEF LettingStep
  <2> HIDE DEF LettingStep
  <2>2. CASE left = 0
    <3>1. steps = <<[do |-> "delete", cell |-> p]>>
      BY <2>2, <1>0
    <3>2. QED BY <2>1, <2>2, <3>1, OneStep
  <2>3. CASE left # 0
    BY <2>3, <1>0
  <2>4. QED BY <2>2, <2>3
<1>7. Advanced(t, steps)
  BY <1>1, <1>6, ReplaceMoves
<1>8. \A c : ~Killing(t, 1, c)
  BY <1>1, <1>2 DEF Killing
<1>9. /\ \A j : \A c : Adds(steps, j, c) <=> left = 0 /\ j = 1 /\ c = p
      /\ \A c : ~UnrefsNext(steps, c)
      /\ \A j \in DOMAIN steps : j = 1 /\ steps[j].do = "delete" /\ steps[j].cell = p
  BY <1>6 DEF Adds, UnrefsNext
<1>10. p # 0 /\ t \in UnrefsOf(p) /\ UnrefsNow(t, p) /\ \A c : UnrefsNow(t, c) => c = p
  BY <1>0, <1>1, <1>2, CellType DEF UnrefsOf, Lets, UnrefsNow
<1>11. ~Doomed(p)
  BY <1>2, <1>10, ClaimedLives
<1>12. Fresh(t, steps)
  <2>1. ~cells'[p].freed /\ \A v \in Threads : \A i : ~Killing(v, i, p)
    BY <1>4, <1>5, <1>11 DEF Doomed, Killing
  <2>2. \A c \in DOMAIN cells : cells'[c].freed <=> cells[c].freed
    BY <1>4, <1>5
  <2>3. \A c : \A j, k : Adds(steps, j, c) /\ Adds(steps, k, c) => j = k
    BY <1>9
  <2>4. \A c : \A j : Adds(steps, j, c) =>
           ~cells'[c].freed /\ \A v \in Threads : \A i : Killing(v, i, c) => v = t /\ i = 1
    BY <2>1, <1>9
  <2>5. \A j \in DOMAIN steps :
        /\ steps[j].cell \in DOMAIN cells
        /\ j > 1 => steps[j].do = "free"
        /\ steps[j].do = "unref" => Counted
    BY <1>2, <1>9
  <2>6. \A c \in DOMAIN cells : cells'[c].freed <=> cells[c].freed \/ (Killing(t, 1, c) /\ Top(t).do = "free")
    BY <2>2, <1>8
  <2>7. QED BY <2>3, <2>4, <2>5, <2>6, <1>4 DEF Fresh
<1>13. ReplacedLets(t, steps)
  BY <1>1, <1>6, <1>7, <1>12, ReplaceLets
<1>14. AccountInv'
  <2> SUFFICES ASSUME NEW c \in DOMAIN cells PROVE Account(c)'
    BY <1>4 DEF AccountInv
  <2>1. Moved(MembersOf(c), MembersOf(c)', 0)
    <3>1. \A e \in DOMAIN cells : (Freeing(e)' <=> Freeing(e)) /\ cells'[e].member = cells[e].member
      BY <1>4, <1>5, <1>8, <1>9, <1>13 DEF ReplacedLets
    <3>2. MembersOf(c)' = MembersOf(c)
      BY <3>1, <1>4 DEF MembersOf
    <3>3. QED BY <3>2 DEF Moved
  <2>2. /\ Moved(HoldersOf(c), HoldersOf(c)', 0) /\ Moved(PutsOf(c), PutsOf(c)', 0)
        /\ c = p => Moved(UnrefsOf(c), UnrefsOf(c)', -1)
        /\ c # p => Moved(UnrefsOf(c), UnrefsOf(c)', 0)
    BY <1>1, <1>7, <1>9, <1>10, <1>13, ReplaceViews
  <2>3. Account(c) /\ Finite(c)
    BY DEF OwnInv, AccountInv, Account
  <2>4. Counted' = Counted /\ class' = class
    BY <1>7 DEF Advanced, Counted
  <2>5. Doomed(c)' <=> (left = 0 /\ c = p) \/ Doomed(c)
    <3>1. Doomed(c)' <=> cells'[c].freed \/ (\E j : Adds(steps, j, c)) \/ (Doomed(c) /\ ~Killing(t, 1, c))
      BY <1>13 DEF ReplacedLets
    <3>2. cells'[c].freed => Doomed(c)
      BY <1>4, <1>5 DEF Doomed
    <3>3. QED BY <3>1, <3>2, <1>8, <1>9
  <2>6. CASE c = p
    <3>1. Finite(c)' /\ Claims(c) \in Nat /\ Claims(c)' \in Nat /\ Claims(c)' = Claims(c) + 0 + 0 + -1 + 0
      BY <2>1, <2>2, <2>3, <2>6, Balance
    <3>2. Claims(c)' = left /\ cells'[c].refs = left /\ left \in Int
      <4>1. cells[p].refs = Claims(c)
        BY <2>3, <2>6, <1>2 DEF Account
      <4>2. left = Claims(c) - 1 /\ left \in Int /\ cells'[c].refs = left
        BY <4>1, <2>6, <3>1, <1>0, <1>3, <1>4, <1>5
      <4>3. QED BY <4>2, <3>1
    <3>3. left # 0 => left > 0
      BY <3>1, <3>2
    <3>4. Doomed(c)' <=> left = 0
      BY <2>5, <2>6, <1>11
    <3>5. QED BY <2>4, <3>1, <3>2, <3>3, <3>4, <1>2 DEF Account
  <2>7. CASE c # p
    <3>1. Finite(c)' /\ Claims(c) \in Nat /\ Claims(c)' = Claims(c) + 0 + 0 + 0 + 0
      BY <2>1, <2>2, <2>3, <2>7, Balance
    <3>2. cells'[c].refs = cells[c].refs
      BY <2>7, <1>4
    <3>3. QED BY <2>3, <2>4, <2>5, <2>7, <3>1, <3>2 DEF Account
  <2>8. QED BY <2>6, <2>7
<1>15. \A c \in DOMAIN cells' : cells'[c].member \in 0 .. Len(cells')
  <2>1. \A c \in DOMAIN cells : cells[c].member \in 0 .. Len(cells)
    BY CellType
  <2>2. QED BY <2>1, <1>2, <1>4, <1>5
<1>16. QED BY <1>1, <1>4, <1>7, <1>13, <1>14, <1>15, ReplaceInv
\* The steps of a destructor: the member's, if there is one, before the memory's.
DeleteSteps(m, d, steps) ==
    /\ steps \in Seq(LettingStep)
    /\ m = 0 => DOMAIN steps = {1} /\ steps[1] = [do |-> "free", cell |-> d]
    /\ m # 0 => /\ DOMAIN steps = {1, 2} /\ steps[2] = [do |-> "free", cell |-> d]
                /\ steps[1] = [do |-> IF Counted THEN "unref" ELSE "delete", cell |-> m]

LEMMA DeleteLoses ==
    ASSUME NEW m \in Nat, NEW d \in Nat
    PROVE  DeleteSteps(m, d, Lose(m) \o <<[do |-> "free", cell |-> d]>>)
<1>0. PICK step : step = [do |-> IF Counted THEN "unref" ELSE "delete", cell |-> m]
  OBVIOUS
<1>1. PICK last : last = [do |-> "free", cell |-> d]
  OBVIOUS
<1>2. step \in LettingStep /\ last \in LettingStep
  <2>1. (IF Counted THEN "unref" ELSE "delete") \in {"unref", "delete", "free"}
    OBVIOUS
  <2>2. QED BY <2>1, <1>0, <1>1 DEF LettingStep
<1>3. /\ m = 0 => Lose(m) = <<>>
      /\ m # 0 => Lose(m) = <<step>>
  BY <1>0 DEF Lose
<1> HIDE DEF LettingStep
<1>4. CASE m = 0
  <2>1. <<last>> \in Seq(LettingStep)
    BY <1>2, OneStep
  <2>2. Lose(m) \o <<last>> = <<last>>
    BY <2>1, <1>3, <1>4, ConcatEmptySeq
  <2>3. QED BY <2>1, <2>2, <1>1, <1>2, <1>4, OneStep DEF DeleteSteps
<1>5. CASE m # 0
  <2>1. PICK both : both = <<step>> \o <<last>>
    OBVIOUS
  <2>2. <<step>> \in Seq(LettingStep) /\ <<last>> \in Seq(LettingStep)
    BY <1>2, OneStep
  <2>3. /\ both \in Seq(LettingStep) /\ Len(both) = 2
        /\ both[1] = step /\ both[2] = last
    BY <2>1, <2>2
  <2>4. DOMAIN both = {1, 2}
    BY <2>3
  <2>5. Lose(m) \o <<[do |-> "free", cell |-> d]>> = both
    BY <2>1, <1>1, <1>3, <1>5
  <2>6. QED BY <2>3, <2>4, <2>5, <1>0, <1>1, <1>5 DEF DeleteSteps
<1>6. QED BY <1>4, <1>5

LEMMA DeleteStep ==
    ASSUME OwnInv, NEW t \in Threads, Delete(t)
    PROVE  OwnInv'
<1>0. PICK d, m, steps :
        /\ d = Top(t).cell /\ m = cells[d].member
        /\ steps = Lose(m) \o <<[do |-> "free", cell |-> d]>>
  OBVIOUS
<1>1. /\ letting[t] # <<>> /\ Top(t).do = "delete" /\ points' = points /\ cells' = cells
      /\ Replace(t, steps)
  BY <1>0 DEF Delete, Lets
<1>2. /\ d \in DOMAIN cells /\ d \in Nat /\ d # 0 /\ m \in 0 .. Len(cells) /\ m \in Nat
      /\ 1 \in DOMAIN letting[t] /\ Top(t) = letting[t][1]
      /\ m # 0 => m \in DOMAIN cells
  <2>1. d \in DOMAIN cells /\ 1 \in DOMAIN letting[t] /\ Top(t) = letting[t][1]
    BY <1>0, <1>1, TopType
  <2>2. DOMAIN cells = 1 .. Len(cells) /\ Len(cells) \in Nat
    BY DEF OwnInv, OwnTypeOK
  <2>3. m \in 0 .. Len(cells) /\ d # 0 /\ d \in 1 .. Len(cells)
    BY <2>1, <1>0, CellType
  <2>4. QED BY <2>1, <2>2, <2>3
<1>3. DeleteSteps(m, d, steps)
  BY <1>0, <1>2, DeleteLoses
<1>4. steps \in Seq(LettingStep)
  BY <1>3 DEF DeleteSteps
<1>5. Advanced(t, steps)
  BY <1>1, <1>4, ReplaceMoves
<1>6. /\ Killing(t, 1, d) /\ \A c : Killing(t, 1, c) => c = d
      /\ ~cells[d].freed /\ \A v \in Threads : \A i : Killing(v, i, d) => v = t /\ i = 1
  <2>1. Killing(t, 1, d) /\ \A c : Killing(t, 1, c) => c = d
    BY <1>0, <1>1, <1>2 DEF Killing
  <2>2. \A v \in Threads : \A i : Killing(v, i, d) => i \in DOMAIN letting[v]
    BY DEF Killing
  <2>3. QED BY <2>1, <2>2, <1>2 DEF OwnInv, KillInv
<1>7. Doomed(d) /\ ~Freeing(d)
  <2>1. Doomed(d)
    BY <1>2, <1>6 DEF Doomed
  <2>2. ASSUME Freeing(d) PROVE FALSE
    <3>1. PICK v \in Threads : \E i \in DOMAIN letting[v] : letting[v][i].do = "free" /\ letting[v][i].cell = d
      BY <2>2 DEF Freeing
    <3>2. PICK i \in DOMAIN letting[v] : letting[v][i].do = "free" /\ letting[v][i].cell = d
      BY <3>1
    <3>3. v = t /\ i = 1
      BY <3>2, <1>6 DEF Killing
    <3>4. QED BY <3>2, <3>3, <1>1, <1>2
  <2>3. QED BY <2>1, <2>2
<1>8. m # 0 => d \in MembersOf(m) /\ ~Doomed(m) /\ m # d
  <2> SUFFICES ASSUME m # 0 PROVE d \in MembersOf(m) /\ ~Doomed(m) /\ m # d
    OBVIOUS
  <2>1. d \in MembersOf(m)
    BY <1>0, <1>2, <1>7 DEF MembersOf
  <2>2. ~Doomed(m)
    BY <2>1, <1>2, ClaimedLives
  <2>3. QED BY <2>1, <2>2, <1>7
<1>9. /\ \A j : \A c : Adds(steps, j, c) <=>
             \/ m = 0 /\ j = 1 /\ c = d
             \/ m # 0 /\ j = 2 /\ c = d
             \/ m # 0 /\ ~Counted /\ j = 1 /\ c = m
      /\ \A c : UnrefsNext(steps, c) <=> m # 0 /\ Counted /\ c = m
      /\ \A c : (\E j \in DOMAIN steps : steps[j].do = "free" /\ steps[j].cell = c) <=> c = d
      /\ \A j \in DOMAIN steps :
          /\ steps[j].cell = d \/ (m # 0 /\ steps[j].cell = m)
          /\ j > 1 => steps[j].do = "free"
          /\ steps[j].do = "unref" => Counted
  <2>1. CASE m = 0
    <3>1. /\ DOMAIN steps = {1} /\ steps[1].do = "free" /\ steps[1].cell = d
      BY <2>1, <1>3 DEF DeleteSteps
    <3>2. QED BY <2>1, <3>1 DEF Adds, UnrefsNext
  <2>2. CASE m # 0 /\ Counted
    <3>1. /\ DOMAIN steps = {1, 2} /\ steps[2].do = "free" /\ steps[2].cell = d
          /\ steps[1].do = "unref" /\ steps[1].cell = m
      BY <2>2, <1>3 DEF DeleteSteps
    <3>2. QED BY <2>2, <3>1 DEF Adds, UnrefsNext
  <2>3. CASE m # 0 /\ ~Counted
    <3>1. /\ DOMAIN steps = {1, 2} /\ steps[2].do = "free" /\ steps[2].cell = d
          /\ steps[1].do = "delete" /\ steps[1].cell = m
      BY <2>3, <1>3 DEF DeleteSteps
    <3>2. QED BY <2>3, <3>1 DEF Adds, UnrefsNext
  <2>4. QED BY <2>1, <2>2, <2>3
<1>10. Fresh(t, steps)
  <2>1. \A c : \A j, k : Adds(steps, j, c) /\ Adds(steps, k, c) => j = k
    BY <1>8, <1>9
  <2>2. m # 0 => ~cells[m].freed /\ \A v \in Threads : \A i : ~Killing(v, i, m)
    BY <1>8 DEF Doomed, Killing
  <2>3. \A c : \A j : Adds(steps, j, c) =>
           ~cells'[c].freed /\ \A v \in Threads : \A i : Killing(v, i, c) => v = t /\ i = 1
    BY <2>2, <1>1, <1>6, <1>9
  <2>4. \A j \in DOMAIN steps :
        /\ steps[j].cell \in DOMAIN cells
        /\ j > 1 => steps[j].do = "free"
        /\ steps[j].do = "unref" => Counted
    BY <1>2, <1>9
  <2>5. \A c \in DOMAIN cells : cells'[c].freed <=> cells[c].freed \/ (Killing(t, 1, c) /\ Top(t).do = "free")
    BY <1>1
  <2>6. QED BY <2>1, <2>3, <2>4, <2>5, <1>1 DEF Fresh
<1>11. ReplacedLets(t, steps)
  BY <1>1, <1>4, <1>5, <1>10, ReplaceLets
<1>12. AccountInv'
  <2> SUFFICES ASSUME NEW c \in DOMAIN cells PROVE Account(c)'
    BY <1>1 DEF AccountInv
  <2>1. \A e \in DOMAIN cells : Freeing(e)' <=> Freeing(e) \/ e = d
    BY <1>6, <1>9, <1>11 DEF ReplacedLets
  <2>2. ~UnrefsNow(t, c) /\ c # 0
    BY <1>1, CellType DEF UnrefsNow
  <2>3. /\ Moved(HoldersOf(c), HoldersOf(c)', 0) /\ Moved(PutsOf(c), PutsOf(c)', 0)
        /\ Counted /\ c = m => Moved(UnrefsOf(c), UnrefsOf(c)', 1)
        /\ ~(Counted /\ c = m) => Moved(UnrefsOf(c), UnrefsOf(c)', 0)
    BY <2>2, <1>1, <1>5, <1>9, <1>11, ReplaceViews
  <2>4. /\ c = m => Moved(MembersOf(c), MembersOf(c)', -1)
        /\ c # m => Moved(MembersOf(c), MembersOf(c)', 0)
    <3>1. c = m => MembersOf(c)' = MembersOf(c) \ {d} /\ d \in MembersOf(c)
      BY <2>1, <2>2, <1>1, <1>8 DEF MembersOf
    <3>2. c # m => MembersOf(c)' = MembersOf(c)
      BY <2>1, <1>0, <1>1 DEF MembersOf
    <3>3. QED BY <3>1, <3>2 DEF Moved
  <2>5. Account(c) /\ Finite(c)
    BY DEF OwnInv, AccountInv, Account
  <2>6. Counted' = Counted /\ class' = class /\ cells'[c].refs = cells[c].refs
    BY <1>1, <1>5 DEF Advanced, Counted
  <2>7. Doomed(c)' <=> Doomed(c) \/ (~Counted /\ c = m)
    <3>1. Doomed(c)' <=> cells'[c].freed \/ (\E j : Adds(steps, j, c)) \/ (Doomed(c) /\ ~Killing(t, 1, c))
      BY <1>11 DEF ReplacedLets
    <3>2. cells'[c].freed => Doomed(c)
      BY <1>1 DEF Doomed
    <3>3. (\E j : Adds(steps, j, c)) <=> c = d \/ (~Counted /\ c = m)
      BY <2>2, <1>9
    <3>4. QED BY <3>1, <3>2, <3>3, <1>6, <1>7
  <2>8. CASE c = m /\ Counted
    <3>1. Finite(c)' /\ Claims(c) \in Nat /\ Claims(c)' = Claims(c) + 0 + -1 + 1 + 0
      BY <2>3, <2>4, <2>5, <2>8, Balance
    <3>2. QED BY <2>5, <2>6, <2>7, <2>8, <3>1 DEF Account
  <2>9. CASE c = m /\ ~Counted
    <3>1. Finite(c)' /\ Claims(c) \in Nat /\ Claims(c)' \in Nat /\ Claims(c)' = Claims(c) + 0 + -1 + 0 + 0
      BY <2>3, <2>4, <2>5, <2>9, Balance
    <3>2. Claims(c) = 1
      BY <2>2, <2>5, <2>9, <3>1, <1>8 DEF Account
    <3>3. Claims(c)' = 0 /\ Doomed(c)'
      BY <2>7, <2>9, <3>1, <3>2
    <3>4. QED BY <2>5, <2>6, <2>9, <3>1, <3>3 DEF Account
  <2>10. CASE c # m
    <3>1. Finite(c)' /\ Claims(c) \in Nat /\ Claims(c)' = Claims(c) + 0 + 0 + 0 + 0
      BY <2>3, <2>4, <2>5, <2>10, Balance
    <3>2. QED BY <2>5, <2>6, <2>7, <2>10, <3>1 DEF Account
  <2>11. QED BY <2>8, <2>9, <2>10
<1>13. \A c \in DOMAIN cells' : cells'[c].member \in 0 .. Len(cells')
  BY <1>1, CellType
<1>14. cells' \in Seq(Cell) /\ Len(cells') = Len(cells)
  BY <1>1 DEF OwnInv, OwnTypeOK
<1>15. QED BY <1>1, <1>5, <1>11, <1>12, <1>13, <1>14, ReplaceInv

-----------------------------------------------------------------------------
(***************************************************************************)
(* Every step                                                              *)
(***************************************************************************)
LEMMA OwnStutter ==
    ASSUME OwnInv, UNCHANGED <<class, points, cells, letting, then>>
    PROVE  OwnInv'
<1>1. /\ class' = class /\ points' = points /\ cells' = cells
      /\ letting' = letting /\ then' = then
  OBVIOUS
<1>2. OwnTypeOK'
  BY <1>1 DEF OwnInv, OwnTypeOK
<1>3. LettingInv' /\ ThenInv' /\ KillInv'
  BY <1>1 DEF OwnInv, LettingInv, ThenInv, ThenOf, KillInv, Killing, Counted
<1>4. AccountInv'
  <2> SUFFICES ASSUME NEW c \in DOMAIN cells PROVE Account(c)'
    BY <1>1 DEF AccountInv
  <2>1. /\ HoldersOf(c)' = HoldersOf(c) /\ MembersOf(c)' = MembersOf(c)
        /\ UnrefsOf(c)' = UnrefsOf(c) /\ PutsOf(c)' = PutsOf(c)
    BY <1>1 DEF HoldersOf, MembersOf, UnrefsOf, PutsOf, Settled, Freeing, Lets, Top
  <2>2. Doomed(c)' <=> Doomed(c)
    BY <1>1 DEF Doomed, Killing
  <2>3. Finite(c)' <=> Finite(c)
    BY <2>1 DEF Finite
  <2>4. Claims(c)' = Claims(c)
    BY <2>1 DEF Claims
  <2>5. Account(c) /\ cells'[c] = cells[c] /\ Counted' = Counted
    BY <1>1 DEF OwnInv, AccountInv, Counted
  <2>6. QED BY <2>2, <2>3, <2>4, <2>5, <1>1 DEF Account
<1>5. QED BY <1>2, <1>3, <1>4 DEF OwnInv

LEMMA OwnNext == OwnInv /\ [OwnershipNext]_ownershipVars => OwnInv'
<1> SUFFICES ASSUME OwnInv, [OwnershipNext]_ownershipVars PROVE OwnInv'
  OBVIOUS
<1>1. CASE \E h \in Pointers : Clear(h) \/ ForgetFunctor(h) \/ MoveBoxOut(h) \/ AssignOut(h)
  BY <1>1, ClearStep, ForgetFunctorStep, MoveBoxOutStep, AssignOutStep
<1>2. CASE \E h, g \in Pointers : \/ Make(h, g) \/ CopyAssign(h, g) \/ MoveAssign(h, g)
                                  \/ MoveBox(h, g) \/ Swap(h, g) \/ HandOver(h, g)
  BY <1>2, MakeStep, CopyAssignStep, MoveAssignStep, MoveBoxStep, SwapStep, HandOverStep
<1>3. CASE \E t \in Threads :
              \/ Unref(t) \/ Delete(t) \/ Free(t) \/ RunCopy(t) \/ RunRef(t)
              \/ RunInside(t) \/ RunPull(t) \/ RunTake(t) \/ RunPut(t) \/ RunClone(t)
  BY <1>3, UnrefStep, DeleteStep, FreeStep, RunCopyStep, RunRefStep, RunInsideStep, RunPullStep,
     RunTakeStep, RunPutStep, RunCloneStep
<1>4. CASE UNCHANGED ownershipVars
  BY <1>4, OwnStutter DEF ownershipVars
<1>5. CASE \E t \in Threads : Ruin(t)
  BY <1>5, OwnStutter DEF Ruin
<1>6. CASE OwnershipActs
  BY <1>1, <1>2, <1>3, <1>6 DEF OwnershipActs
<1>7. QED BY <1>4, <1>5, <1>6 DEF OwnershipNext

\* An assignment that is not careless uses nothing that is gone: what it counts up
\* has another holder, and what a string copies is another string's.
RuinInv == ruined = Nothing \/ Careless(ruined)

LEMMA OthersLive ==
    ASSUME OwnInv, NEW t \in Threads, Spoils(t)
    PROVE  Careless(then[t])
<1>1. /\ then[t] # Nothing /\ then[t].do \in {"ref", "count", "clone", "inside", "pull"}
      /\ then[t] \in Assignment /\ ThenOf(t)
  BY DEF Spoils, Nothing, OwnInv, OwnTypeOK, ThenInv
<1>2. ASSUME NEW g \in Pointers, Runner[g] = t, g # then[t].holder, Gone(points[g])
      PROVE  FALSE
  <2>1. Settled(g)
    BY <1>2 DEF Settled
  <2>2. points[g] # 0
    BY <1>2 DEF Gone
  <2>3. points[g] \in DOMAIN cells /\ ~Doomed(points[g])
    BY <2>1, <2>2, HeldLives
  <2>4. QED BY <2>2, <2>3, <1>2 DEF Gone, Doomed, Killing
<1>3. then[t].do # "ref"
  <2>1. SUFFICES ASSUME then[t].do = "ref" PROVE FALSE
    OBVIOUS
  <2>2. PICK g \in Pointers : Runner[g] = t /\ g # then[t].holder /\ points[g] = points[then[t].holder]
    BY <2>1, <1>1 DEF ThenOf
  <2>3. Gone(points[g])
    BY <2>1, <2>2 DEF Spoils
  <2>4. QED BY <2>2, <2>3, <1>2
<1>4. then[t].do = "clone" => then[t].from = then[t].holder
  <2>1. SUFFICES ASSUME then[t].do = "clone", then[t].from # then[t].holder PROVE FALSE
    OBVIOUS
  <2>2. then[t].from \in Pointers /\ Runner[then[t].from] = t
    BY <2>1, <1>1 DEF ThenOf, Assignment, Nothing
  <2>3. Gone(points[then[t].from])
    BY <2>1 DEF Spoils
  <2>4. QED BY <2>1, <2>2, <2>3, <1>2
<1>5. QED BY <1>1, <1>3, <1>4 DEF Careless

LEMMA RuinNext == OwnInv /\ RuinInv /\ [OwnershipNext]_ownershipVars => RuinInv'
<1> SUFFICES ASSUME OwnInv, RuinInv, [OwnershipNext]_ownershipVars PROVE RuinInv'
  OBVIOUS
<1>1. CASE \E t \in Threads : Ruin(t)
  BY <1>1, OthersLive DEF Ruin, RuinInv, Careless
<1>2. CASE ruined' = ruined
  BY <1>2 DEF RuinInv, Careless
<1>3. QED BY <1>1, <1>2 DEF OwnershipNext, ownershipVars

LEMMA OwnInvariance == OwnershipSpec => [](OwnInv /\ RuinInv)
<1>1. OwnershipInit => RuinInv
  BY DEF OwnershipInit, RuinInv
<1>2. QED BY <1>1, OwnInit, OwnNext, RuinNext, PTL DEF OwnershipSpec

LEMMA OwnRight == OwnInv /\ RuinInv => OwnedRight
<1> SUFFICES ASSUME OwnInv, RuinInv PROVE OwnedRight
  OBVIOUS
<1>1. ASSUME NEW h \in Pointers, points[h] # 0, Idle(h) PROVE ~cells[points[h]].freed
  <2>1. Settled(h)
    BY <1>1 DEF Settled, Idle
  <2>2. QED BY <2>1, <1>1, HeldLives DEF Doomed
<1>2. ASSUME NEW t \in Threads, letting[t] # <<>> PROVE ~cells[Top(t).cell].freed
  <2>1. PICK c : c = Top(t).cell
    OBVIOUS
  <2>2. 1 \in DOMAIN letting[t] /\ Top(t) = letting[t][1] /\ c \in DOMAIN cells
    BY <2>1, <1>2, TopType
  <2>3. CASE Top(t).do = "unref"
    <3>1. t \in UnrefsOf(c)
      BY <2>1, <2>3, <1>2 DEF UnrefsOf, Lets
    <3>2. ~Doomed(c)
      BY <2>2, <3>1, ClaimedLives
    <3>3. QED BY <2>1, <3>2 DEF Doomed
  <2>4. CASE Top(t).do # "unref"
    <3>1. Killing(t, 1, c)
      BY <2>1, <2>2, <2>4 DEF Killing
    <3>2. QED BY <2>1, <2>2, <3>1 DEF OwnInv, KillInv
  <2>5. QED BY <2>3, <2>4
<1>3. ASSUME \A h \in Pointers : Idle(h), NEW c \in DOMAIN cells
      PROVE  /\ cells[c].freed => Owners(c) = 0
             /\ ~cells[c].freed => \/ cells[c].refs = Owners(c) /\ Owners(c) # 0
                                   \/ class = "delegate" /\ Owners(c) = 0
  <2>1. ASSUME NEW t \in Threads PROVE letting[t] = <<>> /\ then[t] = Nothing
    <3>1. ASSUME then[t] # Nothing PROVE FALSE
      <4>1. then[t] \in Assignment
        BY DEF OwnInv, OwnTypeOK
      <4>2. then[t].holder \in Pointers /\ Runner[then[t].holder] = t
        BY <3>1, <4>1 DEF Assignment, OwnInv, ThenInv, ThenOf
      <4>3. QED BY <3>1, <4>2, <1>3 DEF Idle
    <3>2. QED BY <3>1 DEF OwnInv, LettingInv
  <2>2. UnrefsOf(c) = {} /\ PutsOf(c) = {}
    BY <2>1 DEF UnrefsOf, PutsOf, Lets, Nothing
  <2>3. \A t \in Threads : DOMAIN letting[t] = {}
    BY <2>1
  <2>4. /\ HoldersOf(c) = {h \in Pointers : points[h] = c}
        /\ MembersOf(c) = {d \in DOMAIN cells : cells[d].member = c}
    BY <2>3, <1>3 DEF HoldersOf, MembersOf, Settled, Idle, Freeing
  <2>5. Account(c) /\ Claims(c) \in Nat
    BY Counts DEF OwnInv, AccountInv, Account
  <2>6. Owners(c) = Claims(c)
    <3>1. Owners(c) = Cardinality(HoldersOf(c)) + Cardinality(MembersOf(c))
      BY <2>4 DEF Owners
    <3>2. Cardinality(HoldersOf(c)) \in Nat /\ Cardinality(MembersOf(c)) \in Nat
      BY <2>5, FS_CardinalityType DEF Account, Finite
    <3>3. Cardinality(UnrefsOf(c)) = 0 /\ Cardinality(PutsOf(c)) = 0
      BY <2>2, FS_EmptySet
    <3> HIDE DEF HoldersOf, MembersOf, UnrefsOf, PutsOf
    <3>4. QED BY <3>1, <3>2, <3>3 DEF Claims
  <2>7. Doomed(c) <=> cells[c].freed
    BY <2>3 DEF Doomed
  <2>8. QED BY <2>5, <2>6, <2>7 DEF Account
<1>4. QED BY <1>1, <1>2, <1>3 DEF OwnedRight, RuinInv

\* Whatever any number of threads do with counted pointers, boxes, strings and
\* delegates, nothing that was deleted is deleted again or pointed to, no assignment
\* counts it up or reads it but that of a string to itself and that of a counted
\* pointer out of the object it lets go, and between calls the count is the number
\* of owners.
THEOREM ObjectsAreOwned == OwnershipSpec => []OwnedRight
<1> QED BY OwnInvariance, OwnRight, PTL
=============================================================================
