------------------------------- MODULE MCRuntime -------------------------------
(***************************************************************************)
(* Four parts of the runtime library that share nothing in their models,     *)
(* explored in one run: a behaviour is one of `subject` alone, while the     *)
(* rest stays as it is.                                                      *)
(***************************************************************************)
EXTENDS LockFreeQueue, IOLoop, Ownership, Paths, TLC

VARIABLE subject

MCRunner == [h \in Pointers |-> IF h \in {"a", "b"} THEN "t" ELSE "u"]

MCClass == [o \in Objects |-> IF o \in {"input", "output"} THEN "stream" ELSE o]

\* What ReconClient makes with its loop; and what ReconApp does, but for two more
\* pipes.
Kept == [client |-> {"input", "output", "process"}, server |-> {"event", "watch", "hook"}]

RuntimeInit ==
    /\ subject \in {"ring", "ownership", "paths"} \cup DOMAIN Kept
    /\ Init /\ IOInit /\ OwnershipInit /\ PathInit
    /\ subject # "ownership" => class = "rc"
    /\ subject # "paths" => separator = "/"

RuntimeNext ==
    /\ UNCHANGED subject
    /\ \/ subject = "ring" /\ Next /\ UNCHANGED <<ioVars, ownershipVars, pathVars>>
       \/ /\ subject \in DOMAIN Kept /\ IONext /\ UNCHANGED <<vars, ownershipVars, pathVars>>
          /\ \A o \in Objects \ Kept[subject] : holds'[o] = 0
       \/ subject = "ownership" /\ OwnershipNext /\ UNCHANGED <<vars, ioVars, pathVars>>
       \/ subject = "paths" /\ PathNext /\ UNCHANGED <<vars, ioVars, ownershipVars>>

RuntimeSpec == RuntimeInit /\ [][RuntimeNext]_<<subject, vars, ioVars, ownershipVars, pathVars>>

\* Only values and threads of one kind are interchangeable.
Symmetry == Permutations(Producers) \cup Permutations(Consumers)
               \cup Permutations(Value)
=============================================================================
