---------------------------- MODULE EntityRelation ----------------------------
(***************************************************************************)
(* What an EntityManager promises: a set of entities and which components  *)
(* each of them has.  Ids are not used twice, and an entity that is gone   *)
(* has nothing left.                                                       *)
(***************************************************************************)
EXTENDS Naturals

CONSTANT Components

VARIABLES entities, used, has

TypeOK ==
    /\ used \subseteq Nat
    /\ entities \subseteq used
    /\ has \subseteq entities \X Components

Init == entities = {} /\ used = {} /\ has = {}

Create ==
    \E e \in entities' \ used :
        /\ e \in Nat
        /\ entities' = entities \cup {e}
        /\ used' = used \cup {e}
        /\ has' = has

Destroy ==
    \E e \in entities :
        /\ entities' = entities \ {e}
        /\ has' = {h \in has : h[1] # e}
        /\ used' = used

\* One entity gains components, or loses some.
Change ==
    \E e \in entities :
        /\ {h \in has : h[1] # e} = {h \in has' : h[1] # e}
        /\ has \subseteq has' \/ has' \subseteq has
        /\ has' \subseteq entities \X Components
        /\ UNCHANGED <<entities, used>>

Next == Create \/ Destroy \/ Change

Spec == Init /\ [][Next]_<<entities, used, has>>
=============================================================================
